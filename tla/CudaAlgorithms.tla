--------------------------- MODULE CudaAlgorithms ---------------------------
(***************************************************************************)
(* The CUDA algorithms on bound buffers.  The pointers of the caller, Out, *)
(* are in device memory; stream i belongs to pointer i.  Work is queued on *)
(* the streams and the host waits for the event that was last recorded on   *)
(* a stream.  The network reads and writes scratch memory, on the host      *)
(* (c.ws = "host") or, with GPUDirect, one of the device pointers.          *)
(*                                                                         *)
(* c.outs pointers; c.index is the pointer closest to the network device;   *)
(* c.shuffle the orders std::shuffle gave to the local reductions;          *)
(* c.threshold stands for kOnDeviceThreshold; c.async is set when the       *)
(* caller passed its own streams and synchronizes with them itself.         *)
(***************************************************************************)
EXTENDS BoundAlgorithms

TmpPtr(i) == <<"tmpPtrs", i>>
Scratch(c) == IF c.ws = "host" THEN <<"scratch", 0>> ELSE Out(c.index)
ScratchStream(c) == IF c.ws = "host" THEN 0 ELSE c.index

---------------------------------------------------------------------------
(* CudaStream and CudaReductionFunction: cuda.cu and cuda.h *)

Launch(s, task) == [op |-> "launch", stream |-> s, task |-> task]
Record(s) == [op |-> "record", stream |-> s]
Sync(s) == [op |-> "sync", stream |-> s]

\* cudaStreamWaitEvent: what follows on s waits for the last event of on.
StreamWait(s, on) == Launch(s, [op |-> "event", on |-> on, upto |-> 0])

CopyAsync(s, d, doff, b, boff, len) == <<Launch(s, Copy(d, doff, b, boff, len)), Record(s)>>

\* CudaReductionFunction::call, on host memory and on device memory.
CallOnHost(s, d, doff, b, boff, len) == <<Sync(s), Reduce(d, doff, b, boff, len)>>
CallOnDevice(s, d, doff, b, boff, len) == <<Launch(s, Reduce(d, doff, b, boff, len)), Record(s)>>

\* A copy or a reduction on the scratch stream that the host waits for.
CopyAndWait(c, d, doff, b, boff, len) ==
  LET s == ScratchStream(c) IN CopyAsync(s, d, doff, b, boff, len) \o <<Sync(s)>>
ReduceAndWait(c, d, doff, b, boff, len) ==
  LET s == ScratchStream(c)
  IN  (IF c.ws = "host" THEN CallOnHost(s, d, doff, b, boff, len)
       ELSE CallOnDevice(s, d, doff, b, boff, len)) \o <<Sync(s)>>

---------------------------------------------------------------------------
(* Local reductions and broadcasts over the pointers of a rank: LocalOp,     *)
(* what runAsync() queues and what wait() waits for.                         *)

NoOp == [start |-> <<>>, wait |-> <<>>]
RunOp(op) == op.start \o op.wait

SyncAll(c) == For(0, c.outs - 1, LAMBDA i : <<Sync(i)>>)

\* CudaLocalMemcpy
LocalMemcpy(d, b, off, len) == [start |-> CopyAsync(0, d, off, b, off, len), wait |-> <<Sync(0)>>]

\* CudaLocalHostReduce to a host pointer: runAsync does all of the work.
LocalHostReduce(c, target, off, len) ==
  [start |->
     CopyAsync(0, target, off, Out(0), off, len)
     \o For(1, c.outs - 1, LAMBDA i : CopyAsync(i, TmpPtr(i), off, Out(i), off, len))
     \o <<Sync(0)>>
     \o For(1, c.outs - 1, LAMBDA i : <<Sync(i)>> \o CallOnHost(i, target, off, TmpPtr(i), off, len)),
   wait |-> <<>>]

\* CudaLocalHostBroadcast
LocalHostBroadcast(c, source, off, len) ==
  [start |-> For(0, c.outs - 1, LAMBDA i : CopyAsync(i, Out(i), off, source, off, len)),
   wait |-> SyncAll(c)]

\* The pairs (first, second) of step i of a binary tree over the pointers.
TreeStep(c, i, F(_, _)) == For(0, c.outs \div 2^(i + 1) - 1, LAMBDA j : F(j * 2^(i + 1), j * 2^(i + 1) + 2^i))
TreeDepth(c) == Log2Ceil(c.outs)

\* CudaLocalNativeReduce; op k has the order that std::shuffle gave it.
LocalNativeReduce(c, k, target, off, len) ==
  LET indices == c.shuffle[(k % Len(c.shuffle)) + 1]
      pair(a, b) ==
        LET A == indices[a + 1]
            B == indices[b + 1]
        IN  <<Record(B), StreamWait(A, B)>> \o CallOnDevice(A, Out(A), off, Out(B), off, len)
      root == indices[1]
  IN  [start |-> For(0, TreeDepth(c) - 1, LAMBDA i : TreeStep(c, i, pair))
                 \o CopyAsync(root, target, off, Out(root), off, len),
       wait |-> <<Sync(root)>>]

\* CudaLocalNativeBroadcast
LocalNativeBroadcast(c, source, off, len) ==
  LET pair(A, B) ==
        <<Record(B), StreamWait(A, B), Launch(A, Copy(Out(B), off, Out(A), off, len)), Record(A),
          StreamWait(B, A), Record(B)>>
  IN  [start |-> CopyAsync(0, Out(0), off, source, off, len)
                 \o For(1, TreeDepth(c), LAMBDA k : TreeStep(c, TreeDepth(c) - k, pair)),
       wait |-> SyncAll(c)]

\* cudaHostReduce, cudaHostBroadcast, cudaDeviceReduce and cudaDeviceBroadcast.
HostReduce(c, target, off, len) ==
  IF c.outs = 1 THEN LocalMemcpy(target, Out(0), off, len) ELSE LocalHostReduce(c, target, off, len)
HostBroadcast(c, source, off, len) ==
  IF c.outs = 1 THEN LocalMemcpy(Out(0), source, off, len) ELSE LocalHostBroadcast(c, source, off, len)
DeviceReduce(c, k, target, off, len) ==
  IF c.outs = 1 THEN LocalMemcpy(target, Out(0), off, len) ELSE LocalNativeReduce(c, k, target, off, len)
DeviceBroadcast(c, source, off, len) ==
  IF c.outs = 1 THEN LocalMemcpy(Out(0), source, off, len) ELSE LocalNativeBroadcast(c, source, off, len)

\* Where an operation on len elements of the scratch space is done.
OnDevice(c, len) == c.ws = "device" \/ len >= c.threshold
ReduceOp(c, k, off, len) ==
  IF OnDevice(c, len) THEN DeviceReduce(c, k, Scratch(c), off, len) ELSE HostReduce(c, Scratch(c), off, len)
BroadcastOp(c, off, len) ==
  IF OnDevice(c, len) THEN DeviceBroadcast(c, Scratch(c), off, len) ELSE HostBroadcast(c, Scratch(c), off, len)

\* With GPUDirect and one pointer there is nothing to do locally.
LocalOpsNeeded(c) == c.ws = "host" \/ c.outs > 1
StartBroadcast(c, op) == op.start \o If(~c.async, op.wait)

---------------------------------------------------------------------------
(* The constructors create the buffers of the CPU algorithms. *)

CudaRingRegions(c, r) == RingRegions(c, r)
CudaChunkedRegions(c, r) == ChunkedRegions(c, r)
CudaHdRegions(c, r) == BlockRegions(c, r)
CudaBcubeRegions(c, r) == BcubeRegions(c, r)

\* initBinaryBlocks; computeSteps and setupNodes with updateGroupNodes, and the
\* classes Node and Group of its own that they fill.
CudaBinaryBlock(c, r) == BinaryBlock(c, r)
CudaBcubeSteps(c) == BcubeSteps(c)
CudaBcubeNode(group, count, off) == BcubeNode(group, count, off)
CudaBcubeGroup(c, step, firstRank, firstNode) == BcubeGroup(c, step, firstRank, firstNode)
CudaBcubeNodes(c) ==
  LET first(r, step) == r - ((r \div c.base^step) % c.base) * c.base^step
      nodes[step \in -1..(CudaBcubeSteps(c) - 1)] ==
        [r \in 0..(c.n - 1) |->
           IF step = -1 THEN CudaBcubeNode(<<>>, c.count, 0)
           ELSE UpdateGroupNode(c, CudaBcubeGroup(c, step, first(r, step), nodes[step - 1][first(r, step)]), r)]
  IN  [step \in 0..(CudaBcubeSteps(c) - 1) |-> nodes[step]]

---------------------------------------------------------------------------
(* cuda_allreduce_local.cc and cuda_allreduce_ring.cc *)

CudaAllreduceLocal(c) ==
  If(c.outs > 1, DeviceReduce(c, 0, Out(0), 0, c.count).start
                 \o StartBroadcast(c, DeviceBroadcast(c, Out(0), 0, c.count)))

\* init(): with host memory the local operations are done by the host.
CudaRingOps(c) ==
  IF ~LocalOpsNeeded(c) THEN [reduce |-> NoOp, broadcast |-> NoOp]
  ELSE IF c.ws = "host"
       THEN [reduce |-> HostReduce(c, Scratch(c), 0, c.count),
             broadcast |-> HostBroadcast(c, Scratch(c), 0, c.count)]
       ELSE [reduce |-> DeviceReduce(c, 0, Scratch(c), 0, c.count),
             broadcast |-> DeviceBroadcast(c, Scratch(c), 0, c.count)]

CudaAllreduceRing(c, r) ==
  LET round(i) ==
        <<Put0(Right(c, r), Outbox, 0, c.count), WaitRecv(<<Left(c, r), 0>>)>>
        \o ReduceAndWait(c, Scratch(c), 0, Inbox(0), 0, c.count)
        \o <<WaitSend(<<Right(c, r), 0>>)>>
        \o If(i < c.n - 2, CopyAndWait(c, Outbox, 0, Inbox(0), 0, c.count))
        \o PassOn(c, r)
  IN  RunOp(CudaRingOps(c).reduce) \o CopyAndWait(c, Outbox, 0, Scratch(c), 0, c.count)
      \o For(0, c.n - 2, round) \o StartBroadcast(c, CudaRingOps(c).broadcast)

---------------------------------------------------------------------------
(* cuda_allreduce_ring_chunked.cc.  Every chunk has local operations of its  *)
(* own, always on the device.                                                *)

ChunkPresent(c, k) == ChunkRange(c, k).len > 0
ChunkReduce(c, k) == DeviceReduce(c, k, Scratch(c), ChunkRange(c, k).off, ChunkRange(c, k).len)
ChunkBroadcast(c, k) == DeviceBroadcast(c, Scratch(c), ChunkRange(c, k).off, ChunkRange(c, k).len)

\* For the chunks that are not empty, in the order in which they are sent.
ForChunks(c, r, F(_)) ==
  For(0, Chunks(c) - 1, LAMBDA i : If(ChunkPresent(c, ChunkOf(c, r, i)), F(ChunkOf(c, r, i))))

CudaCopyChunkAtOffset(c, r, k) ==
  LET g == ChunkRange(c, k)
  IN  IF g.len > 0 THEN <<Put(Right(c, r), ChunkSlot(k), Scratch(c), g.off, g.len, 0)>>
      ELSE <<[Put(Right(c, r), ChunkSlot(k), Scratch(c), 0, 1, 0) EXCEPT !.op = "fill"]>>

CudaChunkedReduce(c, r) ==
  For(0, Chunks(c) - 1, LAMBDA round :
    LET k == ChunkOf(c, r, round)
        g == ChunkRange(c, k)
    IN  If(ChunkPresent(c, k), ChunkReduce(c, k).wait)
        \o If(round >= 2, <<WaitRecv(<<Left(c, r), ChunkSlot(k)>>)>>
                          \o If(ChunkPresent(c, k), ReduceAndWait(c, Scratch(c), g.off, Inbox(k % 2), 0, g.len))
                          \o PassOn(c, r))
        \o CudaCopyChunkAtOffset(c, r, k))

CudaChunkedBroadcast(c, r) ==
  For(0, Chunks(c) - 1, LAMBDA round :
    LET k == ChunkOf(c, r, round)
        g == ChunkRange(c, k)
    IN  If(round < Chunks(c) - 2, <<WaitRecv(<<Left(c, r), ChunkSlot(k)>>)>>
                                  \o If(ChunkPresent(c, k), CopyAndWait(c, Scratch(c), g.off, Inbox(k % 2), 0, g.len)))
        \o If(ChunkPresent(c, k), ChunkBroadcast(c, k).start)
        \o If(round < Chunks(c) - 4, PassOn(c, r) \o CudaCopyChunkAtOffset(c, r, k)))

CudaAllreduceRingChunked(c, r) ==
  ForChunks(c, r, LAMBDA k : ChunkReduce(c, k).start)
  \o (IF c.n = 1
      THEN ForChunks(c, r, LAMBDA k : ChunkReduce(c, k).wait \o ChunkBroadcast(c, k).start)
           \o ForChunks(c, r, LAMBDA k : ChunkBroadcast(c, k).wait)
      ELSE CudaChunkedReduce(c, r) \o CudaChunkedBroadcast(c, r) \o PassOn(c, r)
           \o If(~c.async, ForChunks(c, r, LAMBDA k : ChunkBroadcast(c, k).wait)))

---------------------------------------------------------------------------
(* cuda_allreduce_halving_doubling.cc, with or without the local operations  *)
(* pipelined with the exchange.                                              *)

Pipelined(c, r) == c.pipelined /\ CudaBinaryBlock(c, r).steps > 0

\* init(): the operations of the whole buffer.
CudaHdOps(c, r) ==
  IF Pipelined(c, r) \/ ~LocalOpsNeeded(c) THEN [reduce |-> NoOp, broadcast |-> NoOp]
  ELSE [reduce |-> ReduceOp(c, 0, 0, c.count), broadcast |-> BroadcastOp(c, 0, c.count)]

\* devicePointerInit() and initReductionsAndBroadcasts(): the first range that is
\* sent, the first that is received, and what step i of the allgather completes.
ReduceBeforeFirstSend(c, r) ==
  LET s == InStep(c, r, 0) IN IF s.sendOff < c.count THEN ReduceOp(c, 0, s.sendOff, s.sendCount) ELSE NoOp
ReduceBeforeFirstRecv(c, r) ==
  LET s == InStep(c, r, 0) IN IF s.recvOff < c.count THEN ReduceOp(c, 1, s.recvOff, s.recvCount) ELSE NoOp
BroadcastInStep(c, r, i) ==
  LET s == InStep(c, r, i)
      last == i = CudaBinaryBlock(c, r).steps - 1
      off == IF last THEN Minimum(s.recvOff, s.sendOff) ELSE s.sendOff
      len == s.sendCount + (IF last THEN s.recvCount ELSE 0)
  IN  IF Pipelined(c, r) /\ off <= c.count THEN BroadcastOp(c, off, len) ELSE NoOp

CudaHdReduceScatter(c, r) ==
  For(0, CudaBinaryBlock(c, r).steps - 1, LAMBDA i :
    LET s == InStep(c, r, i)
        op == IF c.pipelined /\ i = 0 THEN ReduceBeforeFirstRecv(c, r) ELSE NoOp
    IN  If(s.sendCount > 0, <<Put0(s.peer, Scratch(c), s.sendOff, s.sendCount)>>)
        \o If(s.recvCount > 0, op.start \o <<WaitRecv(<<s.peer, 0>>)>> \o op.wait
                               \o ReduceAndWait(c, Scratch(c), s.recvOff, RecvBuf, s.buf, s.recvCount))
        \o <<Notify(s.peer, 1)>>)

CudaHdAcrossBlocks(c, r) ==
  LET k == HdKept(c, r)
      larger == LargerPieces(c, r)
  IN  If(HdSendsToSmaller(c, r), <<WaitRecv(<<SmallerPeer(c, r), 0>>)>>
                                 \o ReduceAndWait(c, Scratch(c), k.off, RecvBuf, k.buf, k.count))
      \o ForEach(larger, LAMBDA p : <<Put0(p.peer, Scratch(c), p.off, p.count)>>)
      \o If(larger # <<>>, ForEach(larger, LAMBDA p : <<WaitRecv(<<p.peer, 0>>)>>)
                           \o CopyAndWait(c, Scratch(c), k.off, RecvBuf, k.buf, k.count))
      \o If(HdSendsToSmaller(c, r), <<Put0(SmallerPeer(c, r), Scratch(c), k.off, k.count)>>)

CudaHdAllgather(c, r) ==
  LET steps == CudaBinaryBlock(c, r).steps
  IN  For(1, steps, LAMBDA k :
        LET s == InStep(c, r, steps - k)
        IN  <<WaitRecv(<<s.peer, 1>>)>>
            \o If(s.recvCount > 0, <<Put0(s.peer, Scratch(c), s.recvOff, s.recvCount)>>)
            \o If(s.sendCount > 0, <<WaitRecv(<<s.peer, 0>>)>>
                                   \o CopyAndWait(c, Scratch(c), s.sendOff, RecvBuf, s.buf, s.sendCount))
            \o BroadcastInStep(c, r, steps - k).start
            \o <<Notify(s.peer, 1)>>)

CudaAllreduceHalvingDoubling(c, r) ==
  LET steps == CudaBinaryBlock(c, r).steps
      peer(i) == InStep(c, r, steps - i).peer
  IN  RunOp(IF Pipelined(c, r) THEN ReduceBeforeFirstSend(c, r) ELSE CudaHdOps(c, r).reduce)
      \o (IF c.n = 1 THEN RunOp(CudaHdOps(c, r).broadcast)
          ELSE CudaHdReduceScatter(c, r) \o CudaHdAcrossBlocks(c, r) \o CudaHdAllgather(c, r)
               \o For(1, steps, LAMBDA i : BroadcastInStep(c, r, steps - i).wait)
               \o RunOp(CudaHdOps(c, r).broadcast)
               \o For(1, steps, LAMBDA i : <<WaitRecv(<<peer(i), 1>>)>>)
               \o If(HdSendsToSmaller(c, r), <<WaitSend(<<SmallerPeer(c, r), 0>>)>>))

---------------------------------------------------------------------------
(* cuda_allreduce_bcube.cc: the nodes are those of allreduce_bcube.h. *)

CudaBcubeReduceScatter(c, r) ==
  LET nodes == CudaBcubeNodes(c)
  IN  For(0, CudaBcubeSteps(c) - 1, LAMBDA s :
        LET peers == BcubePeers(c, nodes, r, s)
            me == nodes[s][r]
        IN  ForEach(peers, LAMBDA p : <<Put0(p, Scratch(c), nodes[s][p].off, nodes[s][p].count)>>)
            \o ForEach(peers, LAMBDA p :
                 <<WaitRecv(<<p, 0>>)>>
                 \o ReduceAndWait(c, Scratch(c), me.off, BcubeRecv(p), 0, me.count)
                 \o <<Notify(p, 1)>>))

CudaBcubeAllgather(c, r) ==
  LET nodes == CudaBcubeNodes(c)
  IN  For(1, CudaBcubeSteps(c), LAMBDA k :
        LET s == CudaBcubeSteps(c) - k
            peers == BcubePeers(c, nodes, r, s)
            me == nodes[s][r]
        IN  ForEach(peers, LAMBDA p : <<WaitRecv(<<p, 1>>), Put0(p, Scratch(c), me.off, me.count)>>)
            \o ForEach(peers, LAMBDA p :
                 <<WaitRecv(<<p, 0>>)>>
                 \o CopyAndWait(c, Scratch(c), nodes[s][p].off, BcubeRecv(p), 0, nodes[s][p].count)
                 \o If(s = 0, <<Notify(p, 1)>>)))

CudaAllreduceBcube(c, r) ==
  RunOp(ReduceOp(c, 0, 0, c.count))
  \o If(c.n > 1, CudaBcubeReduceScatter(c, r) \o CudaBcubeAllgather(c, r))
  \o RunOp(BroadcastOp(c, 0, c.count))
  \o If(c.n > 1, ForEach(BcubePeers(c, CudaBcubeNodes(c), r, 0), LAMBDA p : <<WaitRecv(<<p, 1>>)>>))

---------------------------------------------------------------------------
(* cuda_broadcast_one_to_all.cc.  The device workspace uses pointer 0. *)

CudaBroadcastScratch(c) == IF c.ws = "host" THEN Scratch(c) ELSE Out(0)

CudaBroadcastRegions(c, r) ==
  IF r = c.root THEN BroadcastRegions(c, r) ELSE <<c.root, 0>> :> Region(CudaBroadcastScratch(c), 0)

CudaBroadcastOneToAll(c, r) ==
  LET others(F(_)) == For(0, c.n - 1, LAMBDA i : If(i # r, F(i)))
      op == DeviceBroadcast(c, Out(c.rootPtr), 0, c.count)
      locally == If(c.outs > 1, StartBroadcast(c, op))
      stream == c.rootPtr
      scratch == CudaBroadcastScratch(c)
  IN  IF c.n = 1 THEN locally
      ELSE IF r = c.root
      THEN CopyAsync(stream, scratch, 0, Out(c.rootPtr), 0, c.count) \o <<Sync(stream)>>
           \o others(LAMBDA i : <<WaitRecv(<<i, 0>>), Put0(i, scratch, 0, c.count)>>)
           \o locally \o RootWaits(c, r)
      ELSE <<Sync(stream), Notify(c.root, 0), WaitRecv(<<c.root, 0>>)>>
           \o CopyAsync(stream, Out(c.rootPtr), 0, scratch, 0, c.count)
           \o (IF c.outs > 1 THEN locally ELSE If(~c.async, <<Sync(stream)>>))

---------------------------------------------------------------------------
(* The algorithms by name.  With streams of its own the caller waits for     *)
(* them before it looks at the result.                                       *)

CudaNames == {"cuda_local", "cuda_ring", "cuda_ring_chunked", "cuda_halving_doubling", "cuda_bcube",
              "cuda_broadcast_one_to_all"}

CudaProgram(c, r) ==
  (CASE c.alg = "cuda_local" -> CudaAllreduceLocal(c)
     [] c.alg = "cuda_ring" -> CudaAllreduceRing(c, r)
     [] c.alg = "cuda_ring_chunked" -> CudaAllreduceRingChunked(c, r)
     [] c.alg = "cuda_halving_doubling" -> CudaAllreduceHalvingDoubling(c, r)
     [] c.alg = "cuda_bcube" -> CudaAllreduceBcube(c, r)
     [] c.alg = "cuda_broadcast_one_to_all" -> CudaBroadcastOneToAll(c, r))
  \o If(c.async, For(0, c.outs - 1, LAMBDA i : <<Record(i)>>) \o SyncAll(c))

CudaRegions(c, r) ==
  CASE c.n = 1 -> <<>>
    [] c.alg = "cuda_ring" -> CudaRingRegions(c, r)
    [] c.alg = "cuda_ring_chunked" -> CudaChunkedRegions(c, r)
    [] c.alg = "cuda_halving_doubling" -> CudaHdRegions(c, r)
    [] c.alg = "cuda_bcube" -> CudaBcubeRegions(c, r)
    [] c.alg = "cuda_broadcast_one_to_all" -> CudaBroadcastRegions(c, r)

CudaBuffers(c, r) ==
  [k \in {Out(i) : i \in 0..(c.outs - 1)} \cup {TmpPtr(i) : i \in 1..(c.outs - 1)} |-> c.count]
  @@ (Dummy :> 1) @@ (Outbox :> c.count) @@ (<<"scratch", 0>> :> c.count)
  @@ [k \in {Inbox(0), Inbox(1)} |-> c.count]
  @@ (IF c.alg = "cuda_bcube" THEN BcubeBuffers(c, r) ELSE RecvBuf :> HdChunk(c) * 2^HdSteps(c))
=============================================================================
