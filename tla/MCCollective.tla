---------------------------- MODULE MCCollective ----------------------------
(***************************************************************************)
(* The cases on which TLC runs the collectives.  The sizes are the smallest *)
(* on which every branch of the algorithms is taken: counts that do not     *)
(* divide, chunks that are empty, ranks whose number is not a power of two, *)
(* lengths of zero, roots other than 0, several pointers.  Most cases run   *)
(* twice, so that a rank meets what the previous run left behind.           *)
(***************************************************************************)
EXTENDS Programs

\* A call with one input and one output, among n ranks; EXCEPT says what differs.
Case(alg, kind, n, count) ==
  [alg |-> alg, kind |-> kind, n |-> n, count |-> count, runs |-> 2, root |-> 0, rootPtr |-> 0,
   ins |-> 1, outs |-> 1, es |-> 1, seg |-> 100, lens |-> <<>>, mat |-> <<>>, minSize |-> 1, base |-> 2,
   streams |-> 0, ws |-> "host", index |-> 0, shuffle |-> <<>>, threshold |-> 100, async |-> FALSE,
   pipelined |-> FALSE]

Once(d) == [d EXCEPT !.runs = 1]

Ring(n, count) == Case("allreduce_ring", "allreduce", n, count)
InPlace(alg, n, count) == [Case(alg, "allreduce", n, count) EXCEPT !.ins = 0]
ReduceScatter(lens) ==
  [Case("reduce_scatter", "reduce_scatter", Len(lens), OffsetOf(lens, Len(lens))) EXCEPT !.ins = 0, !.lens = lens]
Cuda(alg, n, count, ptrs) ==
  [InPlace(alg, n, count) EXCEPT !.outs = ptrs, !.streams = ptrs, !.shuffle = << [i \in 1..ptrs |-> i - 1] >>]
CudaBroadcast(n, ptrs) == [Cuda("cuda_broadcast_one_to_all", n, 2, ptrs) EXCEPT !.kind = "broadcast"]

UnboundCases == <<
  Ring(2, 0), Ring(1, 2), Once(Ring(3, 6)), Ring(3, 2),
  [Ring(2, 5) EXCEPT !.ins = 2, !.outs = 2], [Ring(2, 4) EXCEPT !.ins = 0, !.outs = 2],
  [Once(Ring(2, 6)) EXCEPT !.seg = 3, !.es = 2], Once(Ring(4, 3)), Once(Ring(5, 2)),
  Once(Case("allreduce_bcube", "allreduce", 4, 3)), Case("allreduce_bcube", "allreduce", 3, 4),
  [Once(Case("allreduce_bcube", "allreduce", 4, 7)) EXCEPT !.ins = 2, !.outs = 2],
  [Case("reduce", "reduce", 2, 6) EXCEPT !.seg = 1], [Case("reduce", "reduce", 3, 5) EXCEPT !.root = 2, !.ins = 0],
  Case("allgather", "gather", 3, 3), [Case("allgather", "gather", 2, 1) EXCEPT !.ins = 0],
  [Case("allgatherv", "gather", 3, 0) EXCEPT !.lens = <<2, 0, 1>>],
  Case("alltoall", "exchange", 3, 2),
  [Case("alltoallv", "exchange", 3, 0) EXCEPT !.mat = << <<1, 0, 2>>, <<0, 1, 1>>, <<2, 1, 0>> >>],
  Case("barrier", "barrier", 4, 0), Case("barrier", "barrier", 3, 0),
  [Case("broadcast", "broadcast", 4, 2) EXCEPT !.root = 2],
  [Case("broadcast", "broadcast", 5, 2) EXCEPT !.root = 3], [Once(Case("broadcast", "broadcast", 7, 2)) EXCEPT !.root = 3],
  [Case("gather", "gather", 3, 2) EXCEPT !.root = 1],
  [Case("gatherv", "gather", 3, 0) EXCEPT !.root = 2, !.lens = <<2, 0, 1>>],
  [Case("scatter", "scatter", 3, 2) EXCEPT !.root = 2, !.ins = 3] >>

BoundCases == <<
  [InPlace("local", 1, 2) EXCEPT !.outs = 3], InPlace("ring", 3, 2), [InPlace("ring", 2, 3) EXCEPT !.outs = 2],
  InPlace("ring_chunked", 2, 3), Once(InPlace("ring_chunked", 3, 5)),
  [InPlace("halving_doubling", 2, 3) EXCEPT !.outs = 2], InPlace("halving_doubling", 3, 3),
  Once(InPlace("halving_doubling", 4, 2)), ReduceScatter(<<1, 3>>), ReduceScatter(<<1, 1, 3>>),
  InPlace("bcube", 2, 3), [InPlace("bcube", 3, 4) EXCEPT !.base = 3], Once(InPlace("bcube", 4, 5)),
  Once(Case("allgather_ring", "gather", 3, 2)),
  [Case("broadcast_one_to_all", "broadcast", 3, 2) EXCEPT !.ins = 0, !.outs = 2, !.root = 1, !.rootPtr = 1],
  Case("barrier_all_to_all", "barrier", 3, 0), [Case("barrier_all_to_one", "barrier", 3, 0) EXCEPT !.root = 1],
  [Once(Case("pairwise_exchange", "none", 4, 4)) EXCEPT !.ins = 2] >>

CudaCases == <<
  Cuda("cuda_local", 1, 2, 2), [Cuda("cuda_local", 1, 2, 4) EXCEPT !.shuffle = << <<2, 3, 0, 1>> >>],
  Cuda("cuda_ring", 2, 2, 1), Cuda("cuda_ring", 2, 2, 2),
  [Cuda("cuda_ring", 2, 2, 2) EXCEPT !.ws = "device", !.index = 1, !.async = TRUE],
  Cuda("cuda_ring_chunked", 1, 2, 2), Cuda("cuda_ring_chunked", 2, 3, 1),
  [Once(Cuda("cuda_ring_chunked", 2, 3, 2)) EXCEPT !.shuffle = << <<0, 1>>, <<1, 0>> >>],
  [Cuda("cuda_halving_doubling", 2, 3, 2) EXCEPT !.pipelined = TRUE, !.threshold = 2],
  [Cuda("cuda_halving_doubling", 2, 3, 2) EXCEPT !.ws = "device"],
  [Cuda("cuda_halving_doubling", 3, 3, 1) EXCEPT !.pipelined = TRUE],
  [Cuda("cuda_halving_doubling", 2, 2, 1) EXCEPT !.pipelined = TRUE, !.ws = "device"],
  [Cuda("cuda_bcube", 2, 3, 2) EXCEPT !.threshold = 1], [Once(Cuda("cuda_bcube", 3, 4, 1)) EXCEPT !.base = 3],
  [CudaBroadcast(2, 2) EXCEPT !.root = 1], CudaBroadcast(1, 2), [CudaBroadcast(2, 1) EXCEPT !.async = TRUE],
  [CudaBroadcast(2, 2) EXCEPT !.ws = "device"] >>

ListedCases == UnboundCases \o BoundCases \o CudaCases
ListedCode == CodeOf(ListedCases)
ListedProgress == ProgressOf(ListedCases)
ListedSizes == SizesOf(ListedCases)
ListedRegistered == RegisteredOf(ListedCases)
ListedExpected == ExpectedOf(ListedCases)

\* The values of the constants. TLC evaluates the definitions above once, and
\* gathers coverage for the model only because of the LETs, not for them.
AllCases == LET cases == ListedCases IN cases
AllCode == LET code == ListedCode IN code
AllProgress == LET progress == ListedProgress IN progress
AllSizes == LET sizes == ListedSizes IN sizes
AllRegistered == LET registered == ListedRegistered IN registered
AllExpected == LET expected == ListedExpected IN expected
=============================================================================
