-------------------------- MODULE BoundAlgorithms --------------------------
(***************************************************************************)
(* The algorithms on bound buffers, allreduce_ring.h to reduce_scatter.h.  *)
(* The constructor of an algorithm registers receive regions with its      *)
(* peers, here Regions: <<peer, slot>> to the memory that the peer's sends  *)
(* on the slot are written to.  run() is the program.  The pointers of the *)
(* caller are Out(0), Out(1), ...; the algorithms work in place.            *)
(*                                                                         *)
(* Every algorithm reserves a range of slots and uses a few per pair: here *)
(* slot 0 is for data and 1 for notifications, whose content nobody reads.  *)
(***************************************************************************)
EXTENDS Schedule, TLC

Inbox(k) == <<"inbox", k>>
Outbox == <<"outbox", 0>>
RecvBuf == <<"recvBuf", 0>>
RecvBufDist == <<"recvBufDist", 0>>
Dummy == <<"dummy", 0>>

Left(c, r) == (c.n + r - 1) % c.n
Right(c, r) == (r + 1) % c.n

Region(b, off) == [b |-> b, off |-> off]
Notify(peer, slot) == Put(peer, slot, Dummy, 0, 1, 0)
Put0(peer, b, off, len) == Put(peer, 0, b, off, len, 0)

\* The first pointer accumulates the others, and is copied to them at the end.
LocalReduce(c) == For(1, c.outs - 1, LAMBDA i : <<Reduce(Out(0), 0, Out(i), 0, c.count)>>)
LocalBroadcast(c) == For(1, c.outs - 1, LAMBDA i : <<Copy(Out(i), 0, Out(0), 0, c.count)>>)

\* The localized barrier of the ring algorithms: the left neighbour may write to
\* the inbox again, and the right one has made the same statement.
PassOnAtOnce(c, r) == <<Notify(Left(c, r), 1)>>
PassOn(c, r) == <<Notify(Left(c, r), 1), WaitRecv(<<Right(c, r), 1>>)>>

---------------------------------------------------------------------------
(* allreduce_local.cc and allreduce_ring.h *)

AllreduceLocal(c) == LocalReduce(c) \o LocalBroadcast(c)

RingRegions(c, r) ==
  (<<Left(c, r), 0>> :> Region(Inbox(0), 0)) @@ (<<Right(c, r), 1>> :> Region(Dummy, 0))

AllreduceRing(c, r) ==
  LET round(i) ==
        <<Put0(Right(c, r), Outbox, 0, c.count), WaitRecv(<<Left(c, r), 0>>),
          Reduce(Out(0), 0, Inbox(0), 0, c.count), WaitSend(<<Right(c, r), 0>>)>>
        \o If(i < c.n - 2, <<Copy(Outbox, 0, Inbox(0), 0, c.count)>>)
        \o PassOn(c, r)
  IN  If(c.count > 0, LocalReduce(c) \o <<Copy(Outbox, 0, Out(0), 0, c.count)>>
                      \o For(0, c.n - 2, round) \o LocalBroadcast(c))

---------------------------------------------------------------------------
(* allreduce_ring_chunked.h.  Two inboxes, on slots 0 and 2 (even and odd   *)
(* chunks); notifications on slot 1.  c.minSize stands for the 256 elements *)
(* that a chunk has at least.                                               *)

Chunks(c) == 2 * c.n
ChunkSize(c) == Maximum(c.minSize, CeilDiv(c.count, Chunks(c)))
ChunkSlot(k) == 2 * (k % 2)

ChunkedRegions(c, r) ==
  (<<Left(c, r), 0>> :> Region(Inbox(0), 0)) @@ (<<Left(c, r), 2>> :> Region(Inbox(1), 0))
  @@ (<<Right(c, r), 1>> :> Region(Dummy, 0))

\* The range of a chunk; empty when it starts beyond the end.
ChunkRange(c, k) ==
  LET off == k * ChunkSize(c)
  IN  [off |-> off, len |-> Maximum(0, Minimum(ChunkSize(c), c.count - off))]

CopyChunkIfPresent(c, r, k) ==
  LET g == ChunkRange(c, k % Chunks(c))
  IN  If(g.len > 0, <<Put(Right(c, r), ChunkSlot(k), Out(0), g.off, g.len, 0)>>)

\* copyChunkAtOffset: an empty chunk still puts one element on the wire.
CopyChunkAtOffset(c, r, k) ==
  LET g == ChunkRange(c, k % Chunks(c))
  IN  IF g.len > 0 THEN <<Put(Right(c, r), ChunkSlot(k), Out(0), g.off, g.len, 0)>>
      ELSE <<[Put(Right(c, r), ChunkSlot(k), Out(0), 0, 1, 0) EXCEPT !.op = "fill"]>>

\* The chunk that rank r handles in a round: the pair of chunks moves back by
\* one rank every two rounds.
ChunkOf(c, r, round) == (2 * r - 2 * (round \div 2) + (round % 2) + Chunks(c)) % Chunks(c)

ChunkedPass(c, r, first, last, Work(_), forwards(_)) ==
  For(first, last, LAMBDA round :
    LET k == ChunkOf(c, r, round)
    IN  <<WaitRecv(<<Left(c, r), ChunkSlot(k)>>)>> \o If(ChunkRange(c, k).len > 0, Work(k))
        \o If(forwards(round), PassOn(c, r) \o CopyChunkAtOffset(c, r, k)))

ReduceChunk(c, k) ==
  <<Reduce(Out(0), ChunkRange(c, k).off, Inbox(k % 2), 0, ChunkRange(c, k).len)>>
CopyChunk(c, k) ==
  <<Copy(Out(0), ChunkRange(c, k).off, Inbox(k % 2), 0, ChunkRange(c, k).len)>>

AllreduceRingChunked(c, r) ==
  IF c.count = 0 THEN <<>>
  ELSE IF c.n = 1 THEN AllreduceLocal(c)
  ELSE LocalReduce(c)
       \o CopyChunkAtOffset(c, r, 2 * r) \o CopyChunkAtOffset(c, r, 2 * r + 1)
       \o ChunkedPass(c, r, 2, Chunks(c) - 1, LAMBDA k : ReduceChunk(c, k), LAMBDA round : TRUE)
       \o ChunkedPass(c, r, 0, Chunks(c) - 3, LAMBDA k : CopyChunk(c, k),
                      LAMBDA round : round < Chunks(c) - 4)
       \o PassOn(c, r) \o LocalBroadcast(c)

---------------------------------------------------------------------------
(* Binary blocks, of allreduce_halving_doubling.h and reduce_scatter.h: the *)
(* ranks are split into blocks of sizes that are powers of two, the largest *)
(* first.                                                                   *)

\* initBinaryBlocks. The block of size 2^i exists when bit i of n is set.
BinaryBlock(c, r) ==
  LET dims == {i \in 0..Log2Ceil(c.n) : Bit(c.n, i) = 1}
      start(i) == (c.n \div 2^(i + 1)) * 2^(i + 1)
      mine == CHOOSE i \in dims : start(i) <= r /\ r < start(i) + 2^i
      smaller == {i \in dims : i < mine}
      larger == {i \in dims : i > mine}
  IN  [off |-> start(mine), size |-> 2^mine, steps |-> mine, rank |-> r % 2^mine,
       smaller |-> IF smaller = {} THEN 0 ELSE 2^Max(smaller),
       larger |-> IF larger = {} THEN 0 ELSE 2^Min(larger)]

\* reverseLastNBits
ReverseLastNBits(x, n) == MapThenSumSet(LAMBDA i : Bit(x, i) * 2^(n - 1 - i), 0..(n - 1))

\* floor(log2(n)) steps; the chunk a rank of the largest block ends up with.
HdSteps(c) == CHOOSE s \in 0..c.n : 2^s <= c.n /\ c.n < 2^(s + 1)
HdChunk(c) == CeilDiv(c.count, 2^HdSteps(c))
StepChunk(c, i) == (HdChunk(c) * 2^HdSteps(c)) \div 2^(i + 1)

\* What rank r sends, keeps and where it receives, in step i of its block.
InStep(c, r, i) ==
  LET base == MapThenSumSet(LAMBDA j : Bit(r, j) * StepChunk(c, j), 0..(i - 1))
      count(off) == Maximum(0, Minimum(StepChunk(c, i), c.count - off))
      sendOff == base + (1 - Bit(r, i)) * StepChunk(c, i)
      recvOff == base + Bit(r, i) * StepChunk(c, i)
  IN  [peer |-> FlipBit(r, i), sendOff |-> sendOff, sendCount |-> count(sendOff),
       recvOff |-> recvOff, recvCount |-> count(recvOff),
       buf |-> MapThenSumSet(LAMBDA j : StepChunk(c, j), 0..(i - 1))]

\* What rank r holds after the steps of its block, and where the receive buffer
\* is free from then on.
HdKept(c, r) ==
  LET steps == BinaryBlock(c, r).steps
      last == InStep(c, r, steps - 1)
  IN  IF steps = 0 THEN [off |-> 0, count |-> c.count, buf |-> 0]
      ELSE [off |-> last.recvOff, count |-> last.recvCount, buf |-> last.buf + StepChunk(c, steps - 1)]

\* The rank of the smaller block that r exchanges with, if there is one.
SmallerPeer(c, r) ==
  LET b == BinaryBlock(c, r) IN b.off + b.size + (b.rank % b.smaller)

\* The pieces that r exchanges with the ranks of the larger block.
LargerPieces(c, r) ==
  LET b == BinaryBlock(c, r)
      num == b.larger \div b.size
      total == HdKept(c, r).count
      size == StepChunk(c, b.steps) \div 2^(Log2Ceil(num) - 1)
      ordinal(i) == ReverseLastNBits(b.rank, b.steps) * num + i
      piece(i) == [peer |-> b.off - b.larger + ReverseLastNBits(ordinal(i), Log2Ceil(b.larger)),
                   off |-> HdKept(c, r).off + i * size, buf |-> HdKept(c, r).buf + i * size,
                   count |-> Minimum(size, total - size * i)]
  IN  IF b.larger = 0 THEN <<>>
      ELSE SelectSeq([i \in 1..num |-> piece(i - 1)], LAMBDA p : p.count > 0)

---------------------------------------------------------------------------
(* allreduce_halving_doubling.h *)

BlockRegions(c, r) ==
  LET b == BinaryBlock(c, r)
      steps == [i \in 1..b.steps |-> InStep(c, r, i - 1)]
      larger == LargerPieces(c, r)
  IN  [k \in {<<steps[i].peer, s>> : i \in 1..b.steps, s \in 0..1} |->
         IF k[2] = 1 THEN Region(Dummy, 0)
         ELSE Region(RecvBuf, (CHOOSE s \in ToSet(steps) : s.peer = k[1]).buf)]
      @@ (IF b.smaller # 0 /\ HdKept(c, r).count > 0
          THEN <<SmallerPeer(c, r), 0>> :> Region(RecvBuf, HdKept(c, r).buf) ELSE <<>>)
      @@ [k \in {<<p.peer, 0>> : p \in ToSet(larger)} |->
           Region(RecvBuf, (CHOOSE p \in ToSet(larger) : p.peer = k[1]).buf)]

HdReduceScatter(c, r) ==
  For(0, BinaryBlock(c, r).steps - 1, LAMBDA i :
    LET s == InStep(c, r, i)
    IN  If(s.sendCount > 0, <<Put0(s.peer, Out(0), s.sendOff, s.sendCount)>>)
        \o If(s.recvCount > 0, <<WaitRecv(<<s.peer, 0>>),
                                 Reduce(Out(0), s.recvOff, RecvBuf, s.buf, s.recvCount)>>)
        \o <<Notify(s.peer, 1)>>)

HdFromSmaller(c, r) ==
  LET k == HdKept(c, r)
  IN  If(BinaryBlock(c, r).smaller # 0 /\ k.count > 0,
         <<WaitRecv(<<SmallerPeer(c, r), 0>>), Reduce(Out(0), k.off, RecvBuf, k.buf, k.count)>>)

HdToLarger(c, r) ==
  ForEach(LargerPieces(c, r), LAMBDA p : <<Put0(p.peer, Out(0), p.off, p.count)>>)

HdFromLarger(c, r) ==
  LET k == HdKept(c, r)
  IN  If(LargerPieces(c, r) # <<>>,
         ForEach(LargerPieces(c, r), LAMBDA p : <<WaitRecv(<<p.peer, 0>>)>>)
         \o <<Copy(Out(0), k.off, RecvBuf, k.buf, k.count)>>)

HdSendsToSmaller(c, r) == BinaryBlock(c, r).smaller # 0 /\ HdKept(c, r).count > 0

HdAllgather(c, r) ==
  LET steps == BinaryBlock(c, r).steps
  IN  For(1, steps, LAMBDA k :
        LET s == InStep(c, r, steps - k)
        IN  <<WaitRecv(<<s.peer, 1>>)>>
            \o If(s.recvCount > 0, <<Put0(s.peer, Out(0), s.recvOff, s.recvCount)>>)
            \o If(s.sendCount > 0, <<WaitRecv(<<s.peer, 0>>),
                                     Copy(Out(0), s.sendOff, RecvBuf, s.buf, s.sendCount)>>)
            \o <<Notify(s.peer, 1)>>)

AllreduceHalvingDoubling(c, r) ==
  LET steps == BinaryBlock(c, r).steps
      k == HdKept(c, r)
  IN  IF c.count = 0 THEN <<>>
      ELSE IF c.n = 1 THEN AllreduceLocal(c)
      ELSE LocalReduce(c) \o HdReduceScatter(c, r) \o HdFromSmaller(c, r)
           \o HdToLarger(c, r) \o HdFromLarger(c, r)
           \o If(HdSendsToSmaller(c, r), <<Put0(SmallerPeer(c, r), Out(0), k.off, k.count)>>)
           \o HdAllgather(c, r) \o LocalBroadcast(c)
           \o For(1, steps, LAMBDA i : <<WaitRecv(<<InStep(c, r, steps - i).peer, 1>>)>>)
           \o If(HdSendsToSmaller(c, r), <<WaitSend(<<SmallerPeer(c, r), 0>>)>>)

---------------------------------------------------------------------------
(* reduce_scatter.h.  After the halving steps the largest block holds the   *)
(* result; it is redistributed as c.lens says: slots 2 and 3 of a pair.     *)

\* getDistributionMap: how count elements from off are spread over the owners of
\* consecutive parts. An empty part in the middle yields an empty piece.
DistributionMap(off, count, parts) ==
  LET piece(i) == LET lo == Maximum(off, OffsetOf(parts, i - 1))
                  IN  [owner |-> i - 1, off |-> lo,
                       count |-> Minimum(off + count, OffsetOf(parts, i)) - lo]
      touched(i) == OffsetOf(parts, i) > off /\ OffsetOf(parts, i - 1) < off + count
  IN  IF count = 0 THEN <<>>
      ELSE ForEach([i \in 1..Len(parts) |-> i], LAMBDA i : If(touched(i), <<piece(i)>>))

\* What r, in the largest block, sends to whom.
DistMapForSend(c, r) ==
  LET b == BinaryBlock(c, r)
  IN  IF b.larger = 0 /\ b.steps > 0
      THEN DistributionMap(HdKept(c, r).off, HdKept(c, r).count, c.lens) ELSE <<>>

\* What r receives: the owner of chunk i is the rank with i's bits reversed.
DistMapForRecv(c, r) ==
  LET srcCounts == [i \in 1..2^HdSteps(c) |->
                      Maximum(0, Minimum(HdChunk(c), c.count - (i - 1) * HdChunk(c)))]
      m == DistributionMap(OffsetOf(c.lens, r), c.lens[r + 1], srcCounts)
  IN  [i \in 1..Len(m) |-> [m[i] EXCEPT !.owner = ReverseLastNBits(@, HdSteps(c))]]

RemoteOf(r, m) == SelectSeq(m, LAMBDA p : p.owner # r)

ReduceScatterRegions(c, r) ==
  LET b == BinaryBlock(c, r)
      from == ToSet(RemoteOf(r, DistMapForRecv(c, r)))
      to == ToSet(RemoteOf(r, DistMapForSend(c, r)))
  IN  BlockRegions(c, r)
      @@ [k \in {<<p.owner, 2>> : p \in from} |->
           Region(RecvBufDist, (CHOOSE p \in from : p.owner = k[1]).off)]
      @@ [k \in {<<p.owner, 3>> : p \in to} |-> Region(Dummy, 0)]

\* The pieces of r are moved to the front of its buffer, in order. What is in
\* place at rank 0 is not moved.
ReduceScatterCollect(c, r) ==
  LET m == DistMapForRecv(c, r)
      at(i) == OffsetOf([j \in 1..Len(m) |-> m[j].count], i - 1)
  IN  For(1, Len(m), LAMBDA i :
        IF m[i].owner # r
        THEN <<WaitRecv(<<m[i].owner, 2>>), Copy(Out(0), at(i), RecvBufDist, m[i].off, m[i].count),
               Notify(m[i].owner, 3)>>
        ELSE If(r # 0, <<Copy(Out(0), at(i), Out(0), m[i].off, m[i].count)>>))

ReduceScatterHalvingDoubling(c, r) ==
  IF c.n = 1 THEN AllreduceLocal(c)
  ELSE LocalReduce(c) \o HdReduceScatter(c, r) \o HdFromSmaller(c, r) \o HdToLarger(c, r)
       \o ForEach(RemoteOf(r, DistMapForSend(c, r)), LAMBDA p :
            <<Put(p.owner, 2, Out(0), p.off, p.count, 0)>>)
       \o ReduceScatterCollect(c, r) \o LocalBroadcast(c)
       \o For(0, BinaryBlock(c, r).steps - 1, LAMBDA i : <<WaitRecv(<<InStep(c, r, i).peer, 1>>)>>)
       \o ForEach(RemoteOf(r, DistMapForSend(c, r)), LAMBDA p : <<WaitRecv(<<p.owner, 3>>)>>)

\* The elements that rank r asked for are at the front of its buffer.
ReduceScatterKeeps(c, r, e) == e < c.lens[r + 1]

---------------------------------------------------------------------------
(* allreduce_bcube.h *)

\* computeSteps: ceil(log_base(nodes)).
BcubeSteps(c) == CHOOSE s \in 0..c.n : c.base^s >= c.n /\ \A t \in 0..(s - 1) : c.base^t < c.n

\* Node: its peers in a step, how many elements it handles and from which offset.
BcubeNode(group, count, off) == [group |-> group, count |-> count, off |-> off]

\* Group: the ranks at distance base^step from the first one, the offset and the
\* number of elements of the first node's previous step. Every member handles at
\* least one element.
BcubeGroup(c, step, firstRank, firstNode) ==
  LET ranks == SelectSeq([i \in 1..c.base |-> firstRank + (i - 1) * c.base^step], LAMBDA p : p < c.n)
  IN  [ranks |-> ranks, off |-> firstNode.off, count |-> Maximum(firstNode.count, Len(ranks))]

\* updateGroupNodes: the elements are divided among the members, the last one
\* takes the remainder, and an offset beyond the end wraps around.
UpdateGroupNode(c, group, r) ==
  LET size == Len(group.ranks)
      index == CHOOSE i \in 1..size : group.ranks[i] = r
      count == group.count \div size
  IN  BcubeNode(group.ranks, count + (IF index = size THEN group.count % size ELSE 0),
                (group.off + (index - 1) * count) % c.count)

\* setupNodes: a group starts at the first rank that has no peers yet.
BcubeNodes(c) ==
  LET first(r, step) == r - ((r \div c.base^step) % c.base) * c.base^step
      nodes[step \in -1..(BcubeSteps(c) - 1)] ==
        [r \in 0..(c.n - 1) |->
           IF step = -1 THEN BcubeNode(<<>>, c.count, 0)
           ELSE UpdateGroupNode(c, BcubeGroup(c, step, first(r, step), nodes[step - 1][first(r, step)]), r)]
  IN  [step \in 0..(BcubeSteps(c) - 1) |-> nodes[step]]

\* The nodes once for every step of a rank: the peers exclude the rank itself.
BcubePeers(c, nodes, r, step) == SelectSeq(nodes[step][r].group, LAMBDA p : p # r)
BcubeRecv(p) == <<"recvBuf", p>>

BcubeRegions(c, r) ==
  LET nodes == BcubeNodes(c)
      peers == UNION {ToSet(BcubePeers(c, nodes, r, s)) : s \in DOMAIN nodes}
  IN  [k \in peers \X {0, 1} |-> IF k[2] = 1 THEN Region(Dummy, 0) ELSE Region(BcubeRecv(k[1]), 0)]

BcubeBuffers(c, r) ==
  LET nodes == BcubeNodes(c)
      peers(s) == ToSet(BcubePeers(c, nodes, r, s))
  IN  [b \in {BcubeRecv(p) : p \in UNION {peers(s) : s \in DOMAIN nodes}} |->
         LET s == CHOOSE t \in DOMAIN nodes : b[2] \in peers(t)
         IN  Maximum(nodes[s][r].count, nodes[s][b[2]].count)]

BcubeReduceScatterBound(c, r) ==
  LET nodes == BcubeNodes(c)
  IN  For(0, BcubeSteps(c) - 1, LAMBDA s :
        LET peers == BcubePeers(c, nodes, r, s)
            me == nodes[s][r]
        IN  ForEach(peers, LAMBDA p : <<Put0(p, Out(0), nodes[s][p].off, nodes[s][p].count)>>)
            \o ForEach(peers, LAMBDA p :
                 <<WaitRecv(<<p, 0>>), Reduce(Out(0), me.off, BcubeRecv(p), 0, me.count), Notify(p, 1)>>))

BcubeAllgatherBound(c, r) ==
  LET nodes == BcubeNodes(c)
  IN  For(1, BcubeSteps(c), LAMBDA k :
        LET s == BcubeSteps(c) - k
            peers == BcubePeers(c, nodes, r, s)
            me == nodes[s][r]
        IN  ForEach(peers, LAMBDA p : <<WaitRecv(<<p, 1>>), Put0(p, Out(0), me.off, me.count)>>)
            \o ForEach(peers, LAMBDA p :
                 <<WaitRecv(<<p, 0>>), Copy(Out(0), nodes[s][p].off, BcubeRecv(p), 0, nodes[s][p].count)>>
                 \o If(s = 0, <<Notify(p, 1)>>)))

AllreduceBcube(c, r) ==
  IF c.count = 0 THEN <<>>
  ELSE IF c.n = 1 THEN AllreduceLocal(c)
  ELSE LocalReduce(c) \o BcubeReduceScatterBound(c, r) \o BcubeAllgatherBound(c, r) \o LocalBroadcast(c)
       \o ForEach(BcubePeers(c, BcubeNodes(c), r, 0), LAMBDA p : <<WaitRecv(<<p, 1>>)>>)

---------------------------------------------------------------------------
(* allgather_ring.h: the data lands in the output itself. *)

AllgatherRingRegions(c, r) ==
  (<<Left(c, r), 0>> :> Region(Out(0), 0)) @@ (<<Right(c, r), 1>> :> Region(Dummy, 0))

AllgatherRing(c, r) ==
  LET stride == c.count * c.ins
      inRank(round) == IF round = 0 THEN r ELSE (c.n - 1 - (round - 1) + r) % c.n
      step(i, round) ==
        LET off == inRank(round) * stride + i * c.count
        IN  <<Put(Right(c, r), 0, Out(0), off, c.count, off), WaitRecv(<<Left(c, r), 0>>),
              Notify(Left(c, r), 1), WaitRecv(<<Right(c, r), 1>>)>>
  IN  If(c.n > 1 /\ c.count > 0,
         For(0, c.ins - 1, LAMBDA i : <<Copy(Out(0), r * stride + i * c.count, In(i), 0, c.count)>>)
         \o For(0, c.ins - 1, LAMBDA i : For(0, c.n - 2, LAMBDA round : step(i, round))))

---------------------------------------------------------------------------
(* broadcast_one_to_all.h: the receivers clear the root to send. *)

BroadcastRegions(c, r) ==
  IF r = c.root THEN [k \in {<<p, 0>> : p \in 0..(c.n - 1) \ {r}} |-> Region(Dummy, 0)]
  ELSE <<c.root, 0>> :> Region(Out(c.rootPtr), 0)

BroadcastLocally(c) ==
  For(0, c.outs - 1, LAMBDA i : If(i # c.rootPtr, <<Copy(Out(i), 0, Out(c.rootPtr), 0, c.count)>>))

\* The root returns when its sends have been transmitted.
RootReturnsAtOnce(c, r) == <<>>
RootWaits(c, r) == For(0, c.n - 1, LAMBDA i : If(i # r, <<WaitSend(<<i, 0>>)>>))

BroadcastOneToAll(c, r) ==
  LET others(F(_)) == For(0, c.n - 1, LAMBDA i : If(i # r, F(i)))
  IN  IF c.n = 1 THEN BroadcastLocally(c)
      ELSE IF r = c.root
      THEN others(LAMBDA i : <<WaitRecv(<<i, 0>>), Put0(i, Out(c.rootPtr), 0, c.count)>>)
           \o BroadcastLocally(c) \o RootWaits(c, r)
      ELSE <<Notify(c.root, 0), WaitRecv(<<c.root, 0>>)>> \o BroadcastLocally(c)

---------------------------------------------------------------------------
(* barrier_all_to_all.h, barrier_all_to_one.h and pairwise_exchange.h *)

BarrierRegions(c, r) == [k \in {<<p, 0>> : p \in 0..(c.n - 1) \ {r}} |-> Region(Dummy, 0)]

BarrierAllToAll(c, r) ==
  LET others(F(_)) == For(0, c.n - 1, LAMBDA i : If(i # r, F(i)))
  IN  others(LAMBDA i : <<Notify(i, 0)>>) \o others(LAMBDA i : <<WaitRecv(<<i, 0>>)>>)

BarrierAllToOne(c, r) ==
  LET others(F(_)) == For(0, c.n - 1, LAMBDA i : If(i # r, F(i)))
  IN  IF r = c.root THEN others(LAMBDA i : <<WaitRecv(<<i, 0>>)>>) \o others(LAMBDA i : <<Notify(i, 0)>>)
      ELSE <<Notify(c.root, 0), WaitRecv(<<c.root, 0>>)>>

\* c.ins is the number of destinations; the data is the algorithm's own.
PairwiseRegions(c, r) ==
  [k \in {<<FlipBit(r, i), s>> : i \in 0..(c.ins - 1), s \in 0..1} |->
     IF k[2] = 1 THEN Region(Dummy, 0)
     ELSE Region(RecvBuf, (CHOOSE i \in 0..(c.ins - 1) : FlipBit(r, i) = k[1]) * (c.count \div c.ins))]

PairwiseExchange(c, r) ==
  LET size == c.count \div c.ins
  IN  For(0, c.ins - 1, LAMBDA i :
        <<Put0(FlipBit(r, i), Outbox, i * size, size), WaitRecv(<<FlipBit(r, i), 0>>),
          Notify(FlipBit(r, i), 1), WaitRecv(<<FlipBit(r, i), 1>>)>>)

---------------------------------------------------------------------------
(* The algorithms by name *)

BoundNames == {"local", "ring", "ring_chunked", "halving_doubling", "reduce_scatter", "bcube",
               "allgather_ring", "broadcast_one_to_all", "barrier_all_to_all",
               "barrier_all_to_one", "pairwise_exchange"}

BoundProgram(c, r) ==
  CASE c.alg = "local" -> AllreduceLocal(c)
    [] c.alg = "ring" -> AllreduceRing(c, r)
    [] c.alg = "ring_chunked" -> AllreduceRingChunked(c, r)
    [] c.alg = "halving_doubling" -> AllreduceHalvingDoubling(c, r)
    [] c.alg = "reduce_scatter" -> ReduceScatterHalvingDoubling(c, r)
    [] c.alg = "bcube" -> AllreduceBcube(c, r)
    [] c.alg = "allgather_ring" -> AllgatherRing(c, r)
    [] c.alg = "broadcast_one_to_all" -> BroadcastOneToAll(c, r)
    [] c.alg = "barrier_all_to_all" -> BarrierAllToAll(c, r)
    [] c.alg = "barrier_all_to_one" -> BarrierAllToOne(c, r)
    [] c.alg = "pairwise_exchange" -> PairwiseExchange(c, r)

BoundRegions(c, r) ==
  CASE c.n = 1 \/ c.alg = "local" -> <<>>
    [] c.alg = "ring" -> RingRegions(c, r)
    [] c.alg = "ring_chunked" -> ChunkedRegions(c, r)
    [] c.alg = "halving_doubling" -> BlockRegions(c, r)
    [] c.alg = "reduce_scatter" -> ReduceScatterRegions(c, r)
    [] c.alg = "bcube" -> BcubeRegions(c, r)
    [] c.alg = "allgather_ring" -> AllgatherRingRegions(c, r)
    [] c.alg = "broadcast_one_to_all" -> BroadcastRegions(c, r)
    [] c.alg \in {"barrier_all_to_all", "barrier_all_to_one"} -> BarrierRegions(c, r)
    [] c.alg = "pairwise_exchange" -> PairwiseRegions(c, r)

BoundBuffers(c, r) ==
  [k \in {In(i) : i \in 0..(c.ins - 1)} |-> c.count]
  @@ [k \in {Out(i) : i \in 0..(c.outs - 1)} |->
       IF c.alg = "allgather_ring" THEN c.n * c.ins * c.count ELSE c.count]
  @@ (Dummy :> 1) @@ (Outbox :> c.count) @@ (RecvBufDist :> c.count)
  @@ [k \in {Inbox(0), Inbox(1)} |-> c.count]
  @@ (IF c.alg = "bcube" THEN BcubeBuffers(c, r) ELSE RecvBuf :> HdChunk(c) * 2^HdSteps(c))
=============================================================================
