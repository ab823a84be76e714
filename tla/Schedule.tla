------------------------------ MODULE Schedule ------------------------------
(***************************************************************************)
(* The vocabulary of the collective algorithms.  An algorithm is, for each *)
(* rank, a straight-line program: which memory it sends to whom, when it   *)
(* waits, what it reduces and copies.  The modules UnboundAlgorithms,      *)
(* BoundAlgorithms and CudaAlgorithms compute these programs the way the   *)
(* source computes its offsets, lengths and peers; Collective runs them on *)
(* ranks that interleave with each other and with the transport.           *)
(*                                                                         *)
(* Memory is divided into buffers, <<name, index>>; a range of a buffer is *)
(* an offset and a length, in elements.                                    *)
(***************************************************************************)
EXTENDS Integers, Sequences, FiniteSets, FiniteSetsExt, SequencesExt

---------------------------------------------------------------------------
(* Instructions *)

\* UnboundBuffer::send and recv: a range of b to or from a peer.
Send(b, peer, off, len) ==
  [op |-> "send", b |-> b, peer |-> peer, off |-> off, len |-> len, key |-> b]
Recv(b, peer, off, len) ==
  [op |-> "recv", b |-> b, peer |-> peer, off |-> off, len |-> len, key |-> b]

\* Buffer::send on the buffer created for a peer and a slot: the range goes to
\* the region the peer registered for the slot, displaced by roff.
Put(peer, slot, b, off, len, roff) ==
  [op |-> "put", b |-> b, peer |-> peer, off |-> off, len |-> len,
   slot |-> slot, roff |-> roff, key |-> <<peer, slot>>]

\* waitSend and waitRecv of an unbound buffer (the key is the buffer) or of a
\* bound one (the key is <<peer, slot>>).
WaitSend(key) == [op |-> "waitSend", key |-> key]
WaitRecv(key) == [op |-> "waitRecv", key |-> key]

\* memcpy, and the reduction d = a + s: d and a at the same offset.
Copy(d, doff, s, soff, len) ==
  [op |-> "copy", d |-> d, doff |-> doff, s |-> s, soff |-> soff, len |-> len]
ReduceInto(d, a, doff, s, soff, len) ==
  [op |-> "reduce", d |-> d, a |-> a, doff |-> doff, s |-> s, soff |-> soff, len |-> len]
Reduce(d, doff, s, soff, len) == ReduceInto(d, d, doff, s, soff, len)

\* The caller fills the inputs of its run q and calls; the call returns.
Call(q) == [op |-> "call", run |-> q]
Return(q) == [op |-> "return", run |-> q]

\* The memory of the caller.
In(k) == <<"in", k>>
Out(k) == <<"out", k>>

---------------------------------------------------------------------------
(* Putting programs together *)

If(cond, p) == IF cond THEN p ELSE <<>>

\* F(lo) \o F(lo + 1) \o ... \o F(hi)
For(lo, hi, F(_)) == FlattenSeq([i \in 1..Max({hi - lo + 1, 0}) |-> F(lo + i - 1)])

\* The same for the elements of a sequence.
ForEach(seq, F(_)) == FlattenSeq([i \in 1..Len(seq) |-> F(seq[i])])

Minimum(a, b) == IF a < b THEN a ELSE b
Maximum(a, b) == IF a > b THEN a ELSE b
CeilDiv(a, b) == (a + b - 1) \div b

\* roundUp and log2ceil of math.h.
RoundUp(value, multiple) == CeilDiv(value, multiple) * multiple
Log2Ceil(value) == CHOOSE d \in 0..value : 2^d >= value /\ \A e \in 0..(d - 1) : 2^e < value

\* Bits of a rank.
Bit(x, i) == (x \div 2^i) % 2
FlipBit(x, i) == IF Bit(x, i) = 1 THEN x - 2^i ELSE x + 2^i

\* Offset of the i-th of consecutive pieces of the given lengths (0-based).
OffsetOf(lengths, i) == FoldFunctionOnSet(+, 0, lengths, 1..i)

---------------------------------------------------------------------------
(* A program runs in blocks.  A block is what a rank does without anybody   *)
(* being able to tell where it was interrupted: it waits, works on its own  *)
(* memory and hands ranges to the transport.  The next block starts at the  *)
(* next wait, and also where work on memory follows a hand-over, because    *)
(* the transport may already read or write that memory.                     *)

IsWait(i) == i.op \in {"waitSend", "waitRecv", "sync", "call"}
IsPost(i) == i.op \in {"send", "recv", "put", "fill", "launch", "record"}
IsLocal(i) == i.op \in {"copy", "reduce", "return"}

Blocks(p) ==
  LET begins(i) == \/ i = 1
                   \/ IsWait(p[i]) /\ ~IsWait(p[i - 1])
                   \/ p[i].op = "call"
                   \/ IsLocal(p[i]) /\ IsPost(p[i - 1])
      starts == SelectSeq([i \in 1..Len(p) |-> i], begins)
      ends(j) == IF j = Len(starts) THEN Len(p) ELSE starts[j + 1] - 1
  IN  [j \in 1..Len(starts) |-> SubSeq(p, starts[j], ends(j))]
=============================================================================
