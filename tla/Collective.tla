----------------------------- MODULE Collective -----------------------------
(***************************************************************************)
(* Ranks that run a collective together.  Every rank runs the program of   *)
(* its algorithm c.runs times; in between, its caller reads the results and *)
(* fills the inputs of the next run.  The transport is what the transport  *)
(* modules justify: between two ranks, sends arrive in order; a send on an *)
(* unbound buffer is transmitted once the peer has posted the receive it    *)
(* matches (SendRecv), a send on a bound buffer is transmitted eagerly and  *)
(* lands in the region registered for its slot whether or not the receiver  *)
(* is done with what was there (PairStream).  A send completes when its     *)
(* memory has been read, a receive when its memory has been written, and    *)
(* both happen at any time after they were posted.                          *)
(*                                                                         *)
(* A CUDA rank also has streams, queues of copies and reductions that run   *)
(* in order on each stream and in any order between streams, except where   *)
(* one waits for an event of another.                                       *)
(***************************************************************************)
EXTENDS Integers, Sequences, FiniteSets, Bags

CONSTANTS
  Cases,       \* a sequence of cases; each behaviour is about one of them
  Unbound,     \* the names of the algorithms on unbound buffers
  Code,        \* Code[i][r]: the program of rank r in the i-th case, in blocks
  Progress,    \* Progress[i][r][j]: calls and returns of r up to its j-th block
  Sizes,       \* Sizes[i][r]: the buffers of r and their sizes
  Registered,  \* Registered[i][r]: the regions r registered, by peer and slot
  Expected     \* Expected[i][q][r]: the results r must find after its q-th call

ASSUME CasesAssumption == \A i \in 1..Len(Cases) : Cases[i].n \in 1..8 /\ Cases[i].runs \in 1..2

VARIABLES
  case,      \* the case, an index of Cases
  pc,        \* pc[r]: the last block of its program that rank r has executed
  mem,       \* mem[r][b][e]: element e of buffer b of rank r
  posts,     \* posts[s, d]: sends of s to d that are not transmitted
  wire,      \* wire[s, d]: transmitted and not delivered
  wants,     \* wants[s, d]: receives from s that d has posted, not completed
  sent,      \* sent[r]: the bag of send completions nobody waited for, by key
  recvd,     \* recvd[r]: the same for receives
  streams    \* streams[r][s]: queue of stream s, tasks done, last event

vars == <<case, pc, mem, posts, wire, wants, sent, recvd, streams>>

c == Cases[case]
Ranks == 0..(c.n - 1)

(* Whether a case is about an algorithm on unbound buffers.                 *)
IsUnbound(d) == d.alg \in Unbound

\* Element e of the k-th input of rank r in run q. Squares, so that a missing, a
\* repeated or a displaced contribution is not made up for by another one.
Value(q, r, k, e) == ((37 * r + 11 * k + 5 * e + 101 * q + 1)^2) % 9973
Garbage == -1000000

\* What the caller fills: the inputs, or the outputs when the call is in place.
IsInput(d, b) == b[1] = (IF d.ins = 0 THEN "out" ELSE "in")

Calls(r) == Progress[case][r][pc[r]].calls
Returns(r) == Progress[case][r][pc[r]].returns
Done(r) == pc[r] = Len(Code[case][r])
AllDone == \A r \in Ranks : Done(r)

---------------------------------------------------------------------------
(* Initial states *)

InitFor(i) ==
  LET d == Cases[i]
      ranks == 0..(d.n - 1)
      none == [p \in ranks \X ranks |-> <<>>]
  IN  /\ case = i
      /\ pc = [r \in ranks |-> 0]
      /\ mem = [r \in ranks |->
                 LET size == Sizes[i][r]
                 IN  [b \in DOMAIN size |-> [e \in 0..(size[b] - 1) |-> Garbage]]]
      /\ posts = none /\ wire = none /\ wants = none
      /\ sent = [r \in ranks |-> EmptyBag]
      /\ recvd = [r \in ranks |-> EmptyBag]
      /\ streams = [r \in ranks |-> [s \in 0..(d.streams - 1) |-> [queue |-> <<>>, done |-> 0, event |-> 0]]]

Init == \E i \in 1..Len(Cases) : InitFor(i)

---------------------------------------------------------------------------
(* Work on the memory of one rank *)

Slice(m, b, off, len) == [e \in 1..len |-> m[b][off + e - 1]]
Write(m, b, off, data) ==
  [m EXCEPT ![b] = [e \in DOMAIN @ |-> IF e >= off /\ e < off + Len(data) THEN data[e - off + 1] ELSE @[e]]]

\* memcpy, a reduction of math.h, or the caller filling its inputs.
Apply(r, m, i) ==
  CASE i.op = "copy" -> Write(m, i.d, i.doff, Slice(m, i.s, i.soff, i.len))
    [] i.op = "reduce" ->
         Write(m, i.d, i.doff, [e \in 1..i.len |-> m[i.a][i.doff + e - 1] + m[i.s][i.soff + e - 1]])
    [] i.op = "call" ->
         [b \in DOMAIN m |-> IF IsInput(c, b) THEN [e \in DOMAIN m[b] |-> Value(i.run, r, b[2], e)] ELSE m[b]]

ApplyAll(r, m, is) ==
  LET after[k \in 0..Len(is)] == IF k = 0 THEN m ELSE Apply(r, after[k - 1], is[k])
  IN  after[Len(is)]

---------------------------------------------------------------------------
(* Streams: cuda.cu.  An event stands for everything queued before it.      *)

Enqueue(ss, i) ==
  LET queued(s) == ss[s].done + Len(ss[s].queue)
  IN  CASE i.op = "record" -> [ss EXCEPT ![i.stream].event = queued(i.stream)]
        [] i.op = "launch" ->
             LET task == IF i.task.op = "event" THEN [i.task EXCEPT !.upto = ss[i.task.on].event] ELSE i.task
             IN  [ss EXCEPT ![i.stream].queue = Append(@, task)]

EnqueueAll(ss, is) ==
  LET after[k \in 0..Len(is)] == IF k = 0 THEN ss ELSE Enqueue(after[k - 1], is[k])
  IN  after[Len(is)]

\* The head of a stream can run: an event it waits for has happened.
StreamReady(r, s) ==
  LET q == streams[r][s].queue
  IN  q # <<>> /\ (q[1].op = "event" => streams[r][q[1].on].done >= q[1].upto)

StreamStep(r, s) ==
  /\ StreamReady(r, s)
  /\ LET task == streams[r][s].queue[1]
     IN  mem' = IF task.op = "event" THEN mem ELSE [mem EXCEPT ![r] = Apply(r, @, task)]
  /\ streams' = [streams EXCEPT ![r][s].queue = Tail(@), ![r][s].done = @ + 1]
  /\ UNCHANGED <<case, pc, posts, wire, wants, sent, recvd>>

---------------------------------------------------------------------------
(* Steps of a rank *)

CanRun(r) ==
  /\ ~Done(r)
  /\ LET b == Code[case][r][pc[r] + 1]
     IN  /\ b.waitSend \sqsubseteq sent[r]
         /\ b.waitRecv \sqsubseteq recvd[r]
         /\ \A s \in b.syncs : streams[r][s].done >= streams[r][s].event

\* The next block of rank r: its waits are over, it works on its memory, queues
\* tasks and hands ranges to the transport. A send remembers the data it is
\* meant to carry.
Step(r) ==
  /\ CanRun(r)
  /\ LET b == Code[case][r][pc[r] + 1]
         m == ApplyAll(r, mem[r], b.local)
         to(d) == SelectSeq(b.put, LAMBDA i : i.peer = d)
         from(s) == SelectSeq(b.recv, LAMBDA i : i.peer = s)
         post(i) == [i |-> i, data |-> Slice(m, i.b, i.off, i.len)]
     IN  /\ pc' = [pc EXCEPT ![r] = @ + 1]
         /\ mem' = [mem EXCEPT ![r] = m]
         /\ sent' = [sent EXCEPT ![r] = @ (-) b.waitSend]
         /\ recvd' = [recvd EXCEPT ![r] = @ (-) b.waitRecv]
         /\ posts' = IF b.put = <<>> THEN posts
                     ELSE [p \in DOMAIN posts |->
                            IF p[1] # r THEN posts[p]
                            ELSE posts[p] \o [k \in 1..Len(to(p[2])) |-> post(to(p[2])[k])]]
         /\ wants' = IF b.recv = <<>> THEN wants
                     ELSE [p \in DOMAIN wants |-> IF p[2] # r THEN wants[p] ELSE wants[p] \o from(p[1])]
         /\ streams' = IF b.async = <<>> THEN streams ELSE [streams EXCEPT ![r] = EnqueueAll(@, b.async)]
  /\ UNCHANGED <<case, wire>>

---------------------------------------------------------------------------
(* Steps of the transport between s and d *)

CanTransmit(s, d) ==
  /\ posts[s, d] # <<>>
  /\ IsUnbound(c) => Len(wants[s, d]) > Len(wire[s, d])

\* The memory of the oldest send is read, and the send completes.
Transmit(s, d) ==
  /\ CanTransmit(s, d)
  /\ LET i == posts[s, d][1].i
     IN  /\ wire' = [wire EXCEPT ![s, d] = Append(@, [i |-> i, data |-> Slice(mem[s], i.b, i.off, i.len)])]
         /\ sent' = [sent EXCEPT ![s] = @ (+) SetToBag({i.key})]
  /\ posts' = [posts EXCEPT ![s, d] = Tail(@)]
  /\ UNCHANGED <<case, pc, mem, wants, recvd, streams>>

\* A message for a slot that has no region yet, or never, is not read.
CanDeliver(s, d) ==
  /\ wire[s, d] # <<>>
  /\ ~IsUnbound(c) => <<s, wire[s, d][1].i.slot>> \in DOMAIN Registered[case][d]

\* The oldest message is written to the memory it is for, and the receive
\* completes: the oldest posted receive, or the region registered for the slot.
Deliver(s, d) ==
  /\ CanDeliver(s, d)
  /\ LET m == wire[s, d][1]
     IN  IF IsUnbound(c)
         THEN LET w == wants[s, d][1]
              IN  /\ mem' = [mem EXCEPT ![d] = Write(@, w.b, w.off, m.data)]
                  /\ recvd' = [recvd EXCEPT ![d] = @ (+) SetToBag({w.key})]
                  /\ wants' = [wants EXCEPT ![s, d] = Tail(@)]
         ELSE LET region == Registered[case][d][s, m.i.slot]
              IN  /\ mem' = [mem EXCEPT ![d] = Write(@, region.b, region.off + m.i.roff, m.data)]
                  /\ recvd' = [recvd EXCEPT ![d] = @ (+) SetToBag({<<s, m.i.slot>>})]
                  /\ wants' = wants
  /\ wire' = [wire EXCEPT ![s, d] = Tail(@)]
  /\ UNCHANGED <<case, pc, posts, sent, streams>>

---------------------------------------------------------------------------
(* The specification *)

Pairs == Ranks \X Ranks
Quiet == \A p \in Pairs : ~CanDeliver(p[1], p[2]) /\ ~CanTransmit(p[1], p[2])
Idle == \A r \in Ranks : \A s \in DOMAIN streams[r] : ~StreamReady(r, s)
Finished == AllDone /\ Quiet /\ Idle /\ UNCHANGED vars

Next ==
  \/ \E r \in Ranks : Step(r)
  \/ \E p \in Pairs : Transmit(p[1], p[2])
  \/ \E p \in Pairs : Deliver(p[1], p[2])
  \/ \E r \in Ranks : \E s \in DOMAIN streams[r] : StreamStep(r, s)
  \/ Finished

Spec == Init /\ [][Next]_vars

---------------------------------------------------------------------------
(* Properties *)

\* From the moment run() returns on a rank until its caller calls again, the
\* caller reads the result of that call: the sum, the broadcast value, the
\* gathered pieces. A rank that is ahead or behind, in this run or the next, and
\* the data still on the wire must not disturb it.
ResultsCorrect ==
  \A r \in Ranks :
    Returns(r) = Calls(r) /\ Calls(r) > 0 =>
      \A x \in Expected[case][Calls(r)][r] : mem[r][x[1]][x[2]] = x[3]

\* Memory that was handed to the transport is not written before it has been
\* read: neither by the algorithm that goes on, nor by a peer's message, nor by a
\* stream, nor by the caller after run() returned. The algorithms skip waitSend
\* in many places and rely on an answer of the peer instead.
SendsStable ==
  \A p \in Pairs : \A k \in 1..Len(posts[p]) :
    LET i == posts[p][k].i IN i.op = "fill" \/ posts[p][k].data = Slice(mem[p[1]], i.b, i.off, i.len)

LengthsAgree ==
  \A p \in Pairs :
    LET out == wire[p] \o posts[p]
    IN  \A k \in (1..Len(out)) \cap (1..Len(wants[p])) :
          /\ out[k].i.len = wants[p][k].len
          /\ wants[p][k].len > 0 =>
               wants[p][k].off + wants[p][k].len <= Cardinality(DOMAIN mem[p[2]][wants[p][k].b])

NothingPending(r) ==
  /\ sent[r] = EmptyBag /\ recvd[r] = EmptyBag
  /\ \A o \in Ranks : posts[r, o] = <<>> /\ wants[o, r] = <<>>

\* On unbound buffers the ranks compute the pieces they exchange independently of
\* each other: the k-th send of a rank to a peer has the length of the k-th
\* receive, and fits the buffer it is received in, or is empty (Pair::recv looks at
\* the bounds of what is not). A call returns with nothing in
\* flight: every operation it posted has completed and was waited for, so that
\* the caller may free the buffers and the next call on the slot starts afresh.
ExchangesMatch ==
  IsUnbound(c) =>
    /\ LengthsAgree
    /\ \A r \in Ranks : Returns(r) = Calls(r) => NothingPending(r)

\* No rank leaves its q-th barrier before every rank has entered its q-th,
\* although notifications of two barriers may be in flight at once.
BarrierHolds ==
  c.kind = "barrier" => \A r, o \in Ranks : Returns(r) <= Calls(o)

\* The ranks never all wait for each other: as long as one has not returned from
\* its last call, a rank, a stream or the transport can make a step. Every step
\* is taken once, so every call returns.
NeverStuck ==
  AllDone \/ ~Quiet \/ ~Idle \/ \E r \in Ranks : CanRun(r)
=============================================================================
