-------------------------------- MODULE Fifo --------------------------------
(***************************************************************************)
(* What a connected pair promises to the code above it: the operations     *)
(* handed to sendAsyncMode are handled at the peer once each, in the order *)
(* they were posted.  SendRecv relies on exactly this for its channels.    *)
(***************************************************************************)
EXTENDS Naturals, Sequences

CONSTANT Ops

VARIABLES in, out

Init == in = <<>> /\ out = <<>>

Put(o) == in' = Append(in, o) /\ UNCHANGED out

Get ==
  /\ Len(out) < Len(in)
  /\ out' = Append(out, in[Len(out) + 1])
  /\ UNCHANGED in

Next == (\E o \in Ops : Put(o)) \/ Get

Spec == Init /\ [][Next]_<<in, out>>
=============================================================================
