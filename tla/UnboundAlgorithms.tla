------------------------- MODULE UnboundAlgorithms -------------------------
(***************************************************************************)
(* The collectives on unbound buffers, allreduce.cc to scatter.cc: the     *)
(* program of rank r in one call, for a case c of size c.n.  Sizes are     *)
(* computed in bytes where the source does so (c.es bytes an element) and  *)
(* turned into elements at the instructions.                               *)
(***************************************************************************)
EXTENDS Schedule

Tmp == <<"tmp", 0>>

---------------------------------------------------------------------------
(* allreduce.cc *)

\* genLocalReduceFunction: the inputs (or all outputs, in place) into out[0].
ReduceInputs(c, off, len) ==
  IF c.ins = 0 THEN For(1, c.outs - 1, LAMBDA i : <<Reduce(Out(0), off, Out(i), off, len)>>)
  ELSE IF c.ins = 1 THEN <<Copy(Out(0), off, In(0), off, len)>>
  ELSE <<ReduceInto(Out(0), In(0), off, In(1), off, len)>>
       \o For(2, c.ins - 1, LAMBDA i : <<Reduce(Out(0), off, In(i), off, len)>>)

\* genLocalBroadcastFunction
BroadcastOutputs(c, off, len) ==
  For(1, c.outs - 1, LAMBDA i : <<Copy(Out(i), off, Out(0), off, len)>>)

\* ring(): how many segments, and how long each one is.
AllreduceSegments(c) ==
  LET totalBytes == c.count * c.es
      maxSegmentBytes == c.es * Maximum(1, c.seg \div c.es)
      numSegments == RoundUp(Maximum(CeilDiv(totalBytes, maxSegmentBytes), c.n * 2), c.n)
  IN  [num |-> numSegments, perRank |-> numSegments \div c.n,
       size |-> RoundUp(CeilDiv(totalBytes, numSegments), c.es) \div c.es]

\* The segment that starts shift chunks and i segments after chunk 0. Its length
\* is not positive when it lies beyond the end of the buffer.
Segment(c, g, shift, i) ==
  LET off == ((shift * g.perRank + i) * g.size) % (g.num * g.size)
  IN  [off |-> off, len |-> Minimum(g.size, c.count - off)]

\* computeReduceScatterOffsets and computeAllgatherOffsets.
ReduceScatterSend(c, g, r, i) == Segment(c, g, r + 1, i)
ReduceScatterRecv(c, g, r, i) == Segment(c, g, r + 2, i)
AllgatherSend(c, g, r, i) == Segment(c, g, r, i)
AllgatherRecv(c, g, r, i) == Segment(c, g, r + 1, i)

RecvRank(c, r) == (c.n + r + 1) % c.n
SendRank(c, r) == (c.n + r - 1) % c.n

\* ring(): reduce/scatter. Operations issued in iteration i are waited for in
\* iteration i + 2, so that two segments are in flight in the two halves of tmp.
AllreduceRingReduceScatter(c, r) ==
  LET g == AllreduceSegments(c)
      half(i) == (i % 2) * g.size
      complete(i) ==
        LET snd == ReduceScatterSend(c, g, r, i - 2)
            rcv == ReduceScatterRecv(c, g, r, i - 2)
        IN  If(rcv.len > 0, ReduceInputs(c, rcv.off, rcv.len)
                            \o <<WaitRecv(Tmp), Reduce(Out(0), rcv.off, Tmp, half(i), rcv.len)>>)
            \o If(snd.len > 0, <<WaitSend(Out(0))>>)
      issue(i) ==
        LET snd == ReduceScatterSend(c, g, r, i)
            rcv == ReduceScatterRecv(c, g, r, i)
        IN  If(rcv.len > 0, <<Recv(Tmp, RecvRank(c, r), half(i), rcv.len)>>)
            \o If(snd.len > 0, If(i < g.perRank, ReduceInputs(c, snd.off, snd.len))
                               \o <<Send(Out(0), SendRank(c, r), snd.off, snd.len)>>)
  IN  For(0, g.num - g.perRank + 1,
          LAMBDA i : If(i >= 2, complete(i)) \o If(i < g.num - g.perRank, issue(i)))

\* ring(): allgather, pipelined the same way.
AllreduceRingAllgather(c, r) ==
  LET g == AllreduceSegments(c)
      complete(i) ==
        LET snd == AllgatherSend(c, g, r, i - 2)
            rcv == AllgatherRecv(c, g, r, i - 2)
        IN  If(rcv.len > 0, <<WaitRecv(Out(0))>> \o BroadcastOutputs(c, rcv.off, rcv.len))
            \o If(snd.len > 0, <<WaitSend(Out(0))>>)
      issue(i) ==
        LET snd == AllgatherSend(c, g, r, i)
            rcv == AllgatherRecv(c, g, r, i)
        IN  If(rcv.len > 0, <<Recv(Out(0), RecvRank(c, r), rcv.off, rcv.len)>>)
            \o If(snd.len > 0, <<Send(Out(0), SendRank(c, r), snd.off, snd.len)>>
                               \o If(i < g.perRank, BroadcastOutputs(c, snd.off, snd.len)))
  IN  For(0, g.num - g.perRank + 1,
          LAMBDA i : If(i >= 2, complete(i)) \o If(i < g.num - g.perRank, issue(i)))

\* computeGroupSizePerStep(size, 2)
GroupSizePerStep(size) ==
  LET sizes[s \in 1..size] == IF s % 2 = 0 THEN <<2>> \o sizes[s \div 2]
                              ELSE IF s > 1 THEN <<s>> ELSE <<>>
  IN  sizes[size]

\* bcube(): the group of rank r in every step, with the part of the buffer the
\* group reduces and the chunk of it that falls to r.
BcubeGroups(c, r) ==
  LET sizes == GroupSizePerStep(c.n)
      group(size, dist, off, len) ==
        LET groupRank == (r \div dist) % size
            chunk == CeilDiv(len, size)
        IN  [dist |-> dist, size |-> size, off |-> off, len |-> len, chunk |-> chunk,
             base |-> r - groupRank * dist, myOff |-> off + groupRank * chunk,
             myLen |-> Minimum(chunk, Maximum(0, len - groupRank * chunk))]
      groups[s \in 1..Len(sizes)] ==
        IF s = 1 THEN group(sizes[1], 1, 0, c.count)
        ELSE LET g == groups[s - 1]
             IN  group(sizes[s], g.dist * g.size, g.myOff, g.myLen)
  IN  [s \in 1..Len(sizes) |-> groups[s]]

\* Member i of group g (0-based) and its chunk; the peers of r in the group.
Member(g, i) == g.base + i * g.dist
MemberOff(g, i) == g.off + i * g.chunk
MemberLen(g, i) == Minimum(g.chunk, Maximum(0, g.len - i * g.chunk))
ForPeers(g, r, F(_)) == For(0, g.size - 1, LAMBDA i : If(Member(g, i) # r, F(i)))

\* bcube(): reduce/scatter, group by group.
BcubeReduceScatter(c, r) ==
  LET groups == BcubeGroups(c, r)
      step(s) ==
        LET g == groups[s]
        IN  ForPeers(g, r, LAMBDA i : <<Recv(Tmp, Member(g, i), i * g.chunk, g.myLen)>>)
            \o ForPeers(g, r, LAMBDA i :
                 If(s = 1, ReduceInputs(c, MemberOff(g, i), MemberLen(g, i)))
                 \o <<Send(Out(0), Member(g, i), MemberOff(g, i), MemberLen(g, i))>>)
            \o ForPeers(g, r, LAMBDA i : <<WaitRecv(Tmp), WaitSend(Out(0))>>)
            \o If(s = 1, ReduceInputs(c, g.myOff, g.myLen))
            \o ForPeers(g, r, LAMBDA i :
                 <<Reduce(Out(0), g.myOff, Tmp, i * g.chunk, g.myLen)>>)
      last == groups[Len(groups)]
  IN  For(1, Len(groups), step) \o BroadcastOutputs(c, last.myOff, last.myLen)

\* bcube(): allgather, the groups in reverse.
BcubeAllgather(c, r) ==
  LET groups == BcubeGroups(c, r)
      step(s) ==
        LET g == groups[Len(groups) + 1 - s]
        IN  ForPeers(g, r, LAMBDA i :
              <<Recv(Out(0), Member(g, i), MemberOff(g, i), MemberLen(g, i))>>)
            \o ForPeers(g, r, LAMBDA i : <<Send(Out(0), Member(g, i), g.myOff, g.myLen)>>)
            \o ForPeers(g, r, LAMBDA i : <<WaitRecv(Out(0)), WaitSend(Out(0))>>)
            \o ForPeers(g, r, LAMBDA i : BroadcastOutputs(c, MemberOff(g, i), MemberLen(g, i)))
  IN  For(1, Len(groups), step)

\* bcube(): the scratch space is the largest any step needs.
BcubeScratch(c, r) ==
  LET groups == BcubeGroups(c, r)
  IN  Max({c.count} \cup {groups[s].size * groups[s].chunk : s \in 1..Len(groups)})

\* allreduce()
AllreduceUnbound(c, r) ==
  IF c.count = 0 THEN <<>>
  ELSE IF c.n = 1 THEN ReduceInputs(c, 0, c.count) \o BroadcastOutputs(c, 0, c.count)
  ELSE IF c.alg = "allreduce_ring" THEN AllreduceRingReduceScatter(c, r) \o AllreduceRingAllgather(c, r)
  ELSE BcubeReduceScatter(c, r) \o BcubeAllgather(c, r)

---------------------------------------------------------------------------
(* reduce.cc.  The input is the output when no input is given. *)

ReduceSegments(c) ==
  LET totalBytes == c.count * c.es
      maxSegmentSize == c.es * (c.seg \div c.es)
      segmentBytes == RoundUp(Minimum(CeilDiv(totalBytes, c.n * 2), maxSegmentSize), c.es)
      numSegments == RoundUp(Maximum(CeilDiv(totalBytes, segmentBytes), c.n * 2), c.n)
  IN  [num |-> numSegments, perRank |-> numSegments \div c.n, size |-> segmentBytes \div c.es]

ReduceInput(c) == IF c.ins = 0 THEN Out(0) ELSE In(0)

\* The ring: the first chunk goes out of the input, the partial sums out of out.
ReduceRing(c, r) ==
  LET g == ReduceSegments(c)
      source(i) == IF i < g.perRank THEN ReduceInput(c) ELSE Out(0)
      half(i) == (i % 2) * g.size
      complete(i) ==
        LET snd == ReduceScatterSend(c, g, r, i - 2)
            rcv == ReduceScatterRecv(c, g, r, i - 2)
        IN  If(rcv.len > 0, <<WaitRecv(Tmp),
                              ReduceInto(Out(0), ReduceInput(c), rcv.off, Tmp, half(i), rcv.len)>>)
            \o If(snd.len > 0, <<WaitSend(source(i - 2))>>)
      issue(i) ==
        LET snd == ReduceScatterSend(c, g, r, i)
            rcv == ReduceScatterRecv(c, g, r, i)
        IN  If(rcv.len > 0, <<Recv(Tmp, RecvRank(c, r), half(i), rcv.len)>>)
            \o If(snd.len > 0, <<Send(source(i), SendRank(c, r), snd.off, snd.len)>>)
  IN  For(0, g.num - 1, LAMBDA i : If(i >= 2, complete(i)) \o If(i < g.num - 2, issue(i)))

\* The chunks that each rank holds go to the root.
ReduceGather(c, r) ==
  LET g == ReduceSegments(c)
      chunk(q) == LET off == q * g.perRank * g.size
                  IN  [off |-> off, len |-> Minimum(g.perRank * g.size, c.count - off)]
      present(q) == chunk(q).len > 0
      remote(F(_)) == For(0, c.n - 1, LAMBDA q : If(q # r /\ present(q), F(q)))
  IN  IF r = c.root
      THEN remote(LAMBDA q : <<Recv(Out(0), q, chunk(q).off, chunk(q).len)>>)
           \o remote(LAMBDA q : <<WaitRecv(Out(0))>>)
      ELSE If(present(r), <<Send(Out(0), c.root, chunk(r).off, chunk(r).len), WaitSend(Out(0))>>)

ReduceUnbound(c, r) ==
  IF c.count = 0 THEN <<>>
  ELSE IF c.n = 1 THEN If(c.ins = 1, <<Copy(Out(0), 0, In(0), 0, c.count)>>)
  ELSE ReduceRing(c, r) \o ReduceGather(c, r)

---------------------------------------------------------------------------
(* allgather.cc and allgatherv.cc.  They send to rank + 1. *)

Allgather(c, r) ==
  LET inBytes == c.count
      outBytes == c.count * c.n
      chunkSize(i) == IF i % 2 = 0 THEN inBytes \div 2 ELSE inBytes - inBytes \div 2
      chunkOff(i) == IF i % 2 = 0 THEN 0 ELSE inBytes \div 2
      sendSegment(i) == c.n + r - i \div 2
      off(segment, i) == (segment * inBytes + chunkOff(i)) % outBytes
      issue(i) == <<Send(Out(0), (c.n + r + 1) % c.n, off(sendSegment(i), i), chunkSize(i)),
                    Recv(Out(0), (c.n + r - 1) % c.n, off(sendSegment(i) - 1, i), chunkSize(i))>>
      wait == <<WaitSend(Out(0)), WaitRecv(Out(0))>>
  IN  If(c.ins = 1, <<Copy(Out(0), r * c.count, In(0), 0, c.count)>>)
      \o If(c.n > 1 /\ outBytes > 0,
            For(0, (c.n - 1) * 2 - 1, LAMBDA i : If(i >= 2, wait) \o issue(i)) \o wait \o wait)

\* The piece that rank r receives in iteration i.
RecvIndexAhead(c, r, i) == (c.n + r - i) % c.n
RecvIndex(c, r, i) == (c.n + r - i - 1) % c.n

Allgatherv(c, r) ==
  LET count(q) == c.lens[q + 1]
      off(q) == OffsetOf(c.lens, q)
      sendIndex(i) == (c.n + r - i) % c.n
      issue(i) == <<Send(Out(0), (c.n + r + 1) % c.n, off(sendIndex(i)), count(sendIndex(i))),
                    Recv(Out(0), (c.n + r - 1) % c.n, off(RecvIndex(c, r, i)), count(RecvIndex(c, r, i)))>>
      wait == <<WaitSend(Out(0)), WaitRecv(Out(0))>>
  IN  If(c.ins = 1 /\ count(r) > 0, <<Copy(Out(0), off(r), In(0), 0, count(r))>>)
      \o If(c.n > 1 /\ off(c.n) > 0,
            For(0, c.n - 2, LAMBDA i : If(i > 0, wait) \o issue(i)) \o wait)

---------------------------------------------------------------------------
(* alltoall.cc and alltoallv.cc.  In the latter rank s sends c.mat[s][d]    *)
(* elements to rank d (1-based rows and columns).                           *)

\* splitOffsetsAndLengths, of what a rank sends and of what it receives.
InLengths(c, r) == c.mat[r + 1]
OutLengths(c, r) == [s \in 1..c.n |-> c.mat[s][r + 1]]

AlltoallPieces(c, r) ==
  IF c.alg = "alltoall"
  THEN [inLen |-> [q \in 1..c.n |-> c.count], outLen |-> [q \in 1..c.n |-> c.count]]
  ELSE [inLen |-> InLengths(c, r), outLen |-> OutLengths(c, r)]

Alltoall(c, r) ==
  LET p == AlltoallPieces(c, r)
      sendRank(i) == (r + i) % c.n
      recvRank(i) == (r + c.n - i) % c.n
  IN  <<Copy(Out(0), OffsetOf(p.outLen, r), In(0), OffsetOf(p.inLen, r), p.inLen[r + 1])>>
      \o For(1, c.n - 1, LAMBDA i :
           <<Send(In(0), sendRank(i), OffsetOf(p.inLen, sendRank(i)), p.inLen[sendRank(i) + 1]),
             Recv(Out(0), recvRank(i), OffsetOf(p.outLen, recvRank(i)), p.outLen[recvRank(i) + 1])>>)
      \o For(1, c.n - 1, LAMBDA i : <<WaitSend(In(0)), WaitRecv(Out(0))>>)

---------------------------------------------------------------------------
(* barrier.cc: the dissemination barrier. *)

\* The distance doubles as long as it is less than the number of ranks.
BarrierStepsShort(c) == Log2Ceil(c.n) - 1
BarrierSteps(c) == Log2Ceil(c.n)

BarrierUnbound(c, r) ==
  For(0, BarrierSteps(c) - 1, LAMBDA i :
    <<Recv(Tmp, (c.n + r - 2^i) % c.n, 0, 0), Send(Tmp, (c.n + r + 2^i) % c.n, 0, 0),
      WaitRecv(Tmp), WaitSend(Tmp)>>)

---------------------------------------------------------------------------
(* broadcast.cc: a binomial tree over ranks shifted so that the root is 0. *)

\* The sends complete asynchronously; all of them are waited for at the end.
AwaitSends(in, numSends) == For(1, numSends, LAMBDA i : <<WaitSend(in)>>)

BroadcastUnbound(c, r) ==
  LET in == IF r = c.root /\ c.ins = 1 THEN In(0) ELSE Out(0)
      vrank == (r + c.n - c.root) % c.n
      dim == Log2Ceil(c.n)
      peer(i) == (FlipBit(vrank, i) + c.root) % c.n
      takesPart(i) == vrank < 2^(i + 1) /\ FlipBit(vrank, i) < c.n
      sends(i) == takesPart(i) /\ Bit(vrank, i) = 0
      step(i) ==
        IF sends(i) THEN <<Send(in, peer(i), 0, c.count)>>
        ELSE If(takesPart(i), <<Recv(Out(0), peer(i), 0, c.count), WaitRecv(Out(0))>>)
  IN  For(0, dim - 1, step)
      \o If(in # Out(0), <<Copy(Out(0), 0, in, 0, c.count)>>)
      \o AwaitSends(in, Cardinality({i \in 0..(dim - 1) : sends(i)}))

---------------------------------------------------------------------------
(* gather.cc, gatherv.cc and scatter.cc *)

Gather(c, r) ==
  LET remote(F(_)) == For(0, c.n - 1, LAMBDA i : If(i # r, F(i)))
  IN  IF r = c.root
      THEN remote(LAMBDA i : <<Recv(Out(0), i, i * c.count, c.count)>>)
           \o <<Copy(Out(0), r * c.count, In(0), 0, c.count)>>
           \o remote(LAMBDA i : <<WaitRecv(Out(0))>>)
      ELSE <<Send(In(0), c.root, 0, c.count), WaitSend(In(0))>>

Gatherv(c, r) ==
  LET off(i) == OffsetOf(c.lens, i)
      len(i) == c.lens[i + 1]
  IN  IF r = c.root
      THEN For(0, c.n - 1, LAMBDA i :
             IF i # r THEN <<Recv(Out(0), i, off(i), len(i))>>
             ELSE If(len(i) > 0, <<Copy(Out(0), off(i), In(0), 0, len(i))>>))
           \o For(1, c.n - 1, LAMBDA i : <<WaitRecv(Out(0))>>)
      ELSE <<Send(In(0), c.root, 0, len(r)), WaitSend(In(0))>>

Scatter(c, r) ==
  LET remote(F(_)) == For(0, c.n - 1, LAMBDA i : If(i # r, F(i)))
  IN  IF r = c.root
      THEN remote(LAMBDA i : <<Send(In(i), i, 0, c.count)>>)
           \o <<Copy(Out(0), 0, In(r), 0, c.count)>>
           \o remote(LAMBDA i : <<WaitSend(In(i))>>)
      ELSE <<Recv(Out(0), c.root, 0, c.count), WaitRecv(Out(0))>>

---------------------------------------------------------------------------
(* What a call is given: the buffers of a rank with their sizes, and which  *)
(* of them the caller fills.                                                *)

UnboundBuffers(c, r) ==
  LET total == c.count * c.n
      size == CASE c.alg \in {"allgather", "gather"} -> [in |-> c.count, out |-> total]
                [] c.alg \in {"allgatherv", "gatherv"} ->
                     [in |-> c.lens[r + 1], out |-> OffsetOf(c.lens, c.n)]
                [] c.alg = "alltoall" -> [in |-> total, out |-> total]
                [] c.alg = "alltoallv" -> [in |-> OffsetOf(InLengths(c, r), c.n),
                                           out |-> OffsetOf(OutLengths(c, r), c.n)]
                [] OTHER -> [in |-> c.count, out |-> c.count]
      tmp == CASE c.n = 1 \/ c.count = 0 -> 0
               [] c.alg = "allreduce_ring" -> 2 * AllreduceSegments(c).size
               [] c.alg = "allreduce_bcube" -> BcubeScratch(c, r)
               [] c.alg = "reduce" -> 2 * ReduceSegments(c).size
               [] OTHER -> 0
      ins == IF c.alg = "scatter" THEN c.n ELSE c.ins
  IN  [b \in {In(k) : k \in 0..(ins - 1)} \cup {Out(k) : k \in 0..(c.outs - 1)} \cup {Tmp} |->
         CASE b[1] = "in" -> size.in [] b[1] = "out" -> size.out [] OTHER -> tmp]

UnboundNames == {"allreduce_ring", "allreduce_bcube", "reduce", "allgather", "allgatherv",
                 "alltoall", "alltoallv", "barrier", "broadcast", "gather", "gatherv", "scatter"}

UnboundProgram(c, r) ==
  CASE c.alg \in {"allreduce_ring", "allreduce_bcube"} -> AllreduceUnbound(c, r)
    [] c.alg = "reduce" -> ReduceUnbound(c, r)
    [] c.alg = "allgather" -> Allgather(c, r)
    [] c.alg = "allgatherv" -> Allgatherv(c, r)
    [] c.alg \in {"alltoall", "alltoallv"} -> Alltoall(c, r)
    [] c.alg = "barrier" -> BarrierUnbound(c, r)
    [] c.alg = "broadcast" -> BroadcastUnbound(c, r)
    [] c.alg = "gather" -> Gather(c, r)
    [] c.alg = "gatherv" -> Gatherv(c, r)
    [] c.alg = "scatter" -> Scatter(c, r)
=============================================================================
