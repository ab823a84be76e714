------------------------------ MODULE Programs ------------------------------
(***************************************************************************)
(* The programs of the collectives, ready for Collective to run: the        *)
(* program, the buffers and the regions of each rank, cut into blocks, and  *)
(* the reference results.                                                   *)
(***************************************************************************)
EXTENDS UnboundAlgorithms, BoundAlgorithms, CudaAlgorithms, Collective

---------------------------------------------------------------------------
(* What a case asks for *)

IsCuda(d) == d.alg \in CudaNames

Program(d, r) == IF d.alg \in UnboundNames THEN UnboundProgram(d, r)
                 ELSE IF IsCuda(d) THEN CudaProgram(d, r) ELSE BoundProgram(d, r)
Buffers(d, r) == IF d.alg \in UnboundNames THEN UnboundBuffers(d, r)
                 ELSE IF IsCuda(d) THEN CudaBuffers(d, r) ELSE BoundBuffers(d, r)
Regions(d, r) == IF d.alg \in UnboundNames THEN <<>>
                 ELSE IF IsCuda(d) THEN CudaRegions(d, r) ELSE BoundRegions(d, r)

\* The reference: what buffer b of rank r holds after run q.
Inputs(d) == 0..((IF d.ins = 0 THEN d.outs ELSE d.ins) - 1)
Total(d, q, e) == MapThenSumSet(LAMBDA r : MapThenSumSet(LAMBDA k : Value(q, r, k, e), Inputs(d)), 0..(d.n - 1))
Owner(lens, e) == CHOOSE i \in 1..Len(lens) : OffsetOf(lens, i - 1) <= e /\ e < OffsetOf(lens, i)

\* Concatenation of what every rank contributes; where in its input it is.
Gathered(d, q, e) ==
  LET lens == IF d.alg \in {"allgatherv", "gatherv"} THEN d.lens ELSE [i \in 1..d.n |-> d.count]
      i == Owner(lens, e)
  IN  Value(q, i - 1, 0, IF d.ins = 0 THEN e ELSE e - OffsetOf(lens, i - 1))
Exchanged(d, q, r, e) ==
  LET lens == AlltoallPieces(d, r).outLen
      i == Owner(lens, e)
  IN  Value(q, i - 1, 0, OffsetOf(AlltoallPieces(d, i - 1).inLen, r) + e - OffsetOf(lens, i - 1))

Reference(d, q, r, b, e) ==
  CASE d.kind = "allreduce" -> Total(d, q, e)
    [] d.kind = "reduce" -> Total(d, q, e)
    [] d.kind = "reduce_scatter" -> Total(d, q, OffsetOf(d.lens, r) + e)
    [] d.kind = "broadcast" -> Value(q, d.root, d.rootPtr, e)
    [] d.kind = "gather" -> Gathered(d, q, e)
    [] d.kind = "exchange" -> Exchanged(d, q, r, e)
    [] d.kind = "scatter" -> Value(q, d.root, r, e)

\* The cells of buffer b of rank r that are results.
IsResult(d, r, b, e) ==
  /\ b[1] = "out"
  /\ d.kind \notin {"barrier", "none"}
  /\ d.alg \in {"reduce", "gather", "gatherv"} => r = d.root
  /\ d.alg = "reduce_scatter" => ReduceScatterKeeps(d, r, e)

---------------------------------------------------------------------------
(* The programs in blocks, computed once for each case *)

BagOfKeys(block, op) ==
  LET keys == {i.key : i \in {j \in ToSet(block) : j.op = op}}
  IN  [k \in keys |-> Cardinality({i \in 1..Len(block) : block[i].op = op /\ block[i].key = k})]

Whole(d, r) == For(1, d.runs, LAMBDA q : <<Call(q)>> \o Program(d, r) \o <<Return(q)>>)

Compiled(block) ==
  [waitSend |-> BagOfKeys(block, "waitSend"), waitRecv |-> BagOfKeys(block, "waitRecv"),
   syncs |-> {i.stream : i \in {j \in ToSet(block) : j.op = "sync"}},
   local |-> SelectSeq(block, LAMBDA i : i.op \in {"call", "copy", "reduce"}),
   async |-> SelectSeq(block, LAMBDA i : i.op \in {"launch", "record"}),
   put |-> SelectSeq(block, LAMBDA i : i.op \in {"send", "put", "fill"}),
   recv |-> SelectSeq(block, LAMBDA i : i.op = "recv")]

CodeOf(cases) == [i \in 1..Len(cases) |->
          [r \in 0..(cases[i].n - 1) |->
            LET blocks == Blocks(Whole(cases[i], r)) IN [j \in 1..Len(blocks) |-> Compiled(blocks[j])]]]

\* How many calls and how many returns rank r has behind it after a block.
ProgressOf(cases) == [i \in 1..Len(cases) |->
              [r \in 0..(cases[i].n - 1) |->
                LET blocks == Blocks(Whole(cases[i], r))
                    upto(j, op) == Len(SelectSeq(FlattenSeq(SubSeq(blocks, 1, j)), LAMBDA k : k.op = op))
                IN  [j \in 0..Len(blocks) |-> [calls |-> upto(j, "call"), returns |-> upto(j, "return")]]]]

ExpectedOf(cases) == [i \in 1..Len(cases) |->
              [q \in 1..cases[i].runs |->
                [r \in 0..(cases[i].n - 1) |->
                  LET size == Buffers(cases[i], r)
                  IN  {<<b, e, Reference(cases[i], q, r, b, e)>> :
                         <<b, e>> \in {x \in (DOMAIN size) \X (0..15) :
                                         /\ x[2] < size[x[1]]
                                         /\ IsResult(cases[i], r, x[1], x[2])}}]]]

RegisteredOf(cases) == [i \in 1..Len(cases) |-> [r \in 0..(cases[i].n - 1) |-> Regions(cases[i], r)]]

SizesOf(cases) == [i \in 1..Len(cases) |-> [r \in 0..(cases[i].n - 1) |-> Buffers(cases[i], r)]]
=============================================================================
