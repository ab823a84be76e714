------------------------------ MODULE Matching ------------------------------
(***************************************************************************)
(* What unbound buffers promise (gloo/transport/unbound_buffer.h): the     *)
(* sends from one rank to another on a slot are received in the order in   *)
(* which they were posted, each by exactly one receive posted at the       *)
(* destination for that slot and that accepts the source; and while there  *)
(* is such a receive the transport must deliver.                           *)
(***************************************************************************)
EXTENDS Sequences

CONSTANTS
  Ranks, Slots,
  Ids      \* names of sends and receives

VARIABLES
  sends,   \* [i][j][s]: sends posted and not received yet, in order
  recvs    \* [j][s]: receives posted and not fulfilled yet

vars == <<sends, recvs>>

Init ==
  /\ sends = [i \in Ranks |-> [j \in Ranks |-> [s \in Slots |-> <<>>]]]
  /\ recvs = [j \in Ranks |-> [s \in Slots |-> {}]]

PostSend(i, j, s) ==
  \E n \in Ids :
    /\ sends' = [sends EXCEPT ![i][j][s] = Append(@, n)]
    /\ UNCHANGED recvs

PostRecv(j, s) ==
  \E n \in Ids, from \in SUBSET Ranks :
    /\ \A r \in recvs[j][s] : r.id # n
    /\ recvs' = [recvs EXCEPT ![j][s] = @ \cup {[id |-> n, from |-> from]}]
    /\ UNCHANGED sends

Deliver(i, j, s) ==
  \E r \in recvs[j][s] :
    /\ sends[i][j][s] # <<>>
    /\ i \in r.from
    /\ sends' = [sends EXCEPT ![i][j][s] = Tail(@)]
    /\ recvs' = [recvs EXCEPT ![j][s] = @ \ {r}]

Next ==
  \E j \in Ranks, s \in Slots :
    PostRecv(j, s) \/ \E i \in Ranks \ {j} : PostSend(i, j, s) \/ Deliver(i, j, s)

(* Nothing is received twice, out of order or by a receive that does not   *)
(* accept it.                                                              *)
Safety == Init /\ [][Next]_vars

Spec ==
  /\ Safety
  /\ \A j \in Ranks, s \in Slots : \A i \in Ranks \ {j} : WF_vars(Deliver(i, j, s))
=============================================================================
