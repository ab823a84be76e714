---------------------------- MODULE UnboundBuffer ----------------------------
(***************************************************************************)
(* Waiting for, aborting, timing out and failing operations on unbound     *)
(* buffers, at one rank: tcp/unbound_buffer.cc, Context::signalException   *)
(* (tcp/context.cc), Pair::signalException and signalExceptionExternal     *)
(* (tcp/pair.cc), and the lifetime of the buffer (common/memory.h).        *)
(*                                                                         *)
(* Each buffer is used by one thread, which posts an operation, waits for  *)
(* it and finally destroys the buffer; another thread may abort its waits; *)
(* the loop thread moves operations through the pairs' queues, completes   *)
(* them and finds that a pair failed.  What the peers do is open: an       *)
(* operation may make progress at any time, or never.                      *)
(***************************************************************************)
EXTENDS Naturals, FiniteSets

CONSTANTS
  Buffers,
  Peers,
  MaxOps,     \* MaxOps[b]: bound on the operations posted on buffer b
  MaxAborts   \* MaxAborts[b]: bound on the aborts of its waits, of each kind

ASSUME BoundsAssumption == MaxOps \in [Buffers -> Nat] /\ MaxAborts \in [Buffers -> Nat]

Kinds == {"send", "recv"}
NoPeer == "no peer"

ASSUME PeersAssumption == NoPeer \notin Peers

(* Where a posted operation is: with a pair (localPendingSend_,            *)
(* localPendingRecv_, tx_ or rx_), or with the context (pendingRecv_).     *)
Places == {"none", "localPendingSend", "localPendingRecv", "tx", "rx", "pendingRecv"}

NoOp == [kind |-> "send", place |-> "none", pair |-> NoPeer, from |-> {}]
Op == [kind : Kinds, place : Places, pair : Peers \cup {NoPeer}, from : SUBSET Peers]

VARIABLES
  op,           \* [b]: the operation pending on the buffer
  completions,  \* [b][k]: sendCompletions_ and recvCompletions_
  abortWait,    \* [b][k]: abortWaitSend_ and abortWaitRecv_
  bufferEx,     \* [b]: ex_ of the buffer is set
  pairEx,       \* [p]: ex_ of the pair is set, and the pair is CLOSED
  thread,       \* [b]: what the thread using the buffer does
  toSignal,     \* [b]: pairs Context::signalException has yet to visit
  inUse,        \* [b]: the loop thread holds a NonOwningPtr to the buffer
  nops,         \* [b]: operations posted
  ncompleted,   \* [b][k]: operations completed
  nreturned,    \* [b][k]: waits that returned true
  naborts,      \* [b][k]: calls of abortWaitSend / abortWaitRecv
  naborted      \* [b][k]: waits that returned false

buffer == <<completions, abortWait, bufferEx>>
history == <<nops, ncompleted, nreturned, naborts, naborted>>
vars == <<op, buffer, pairEx, thread, toSignal, inUse, history>>

(* The phases of a buffer's thread; a wait is for one kind of operation.   *)
Phases == {"ready", "wait send", "wait recv", "timed out", "threw", "destroying", "gone"}
Wait(k) == IF k = "send" THEN "wait send" ELSE "wait recv"

TypeOK ==
  /\ op \in [Buffers -> Op]
  /\ completions \in [Buffers -> [Kinds -> Nat]]
  /\ abortWait \in [Buffers -> [Kinds -> BOOLEAN]]
  /\ bufferEx \in [Buffers -> BOOLEAN]
  /\ pairEx \in [Peers -> BOOLEAN]
  /\ thread \in [Buffers -> Phases]
  /\ toSignal \in [Buffers -> SUBSET Peers]
  /\ inUse \in [Buffers -> BOOLEAN]
  /\ nops \in [Buffers -> Nat]
  /\ ncompleted \in [Buffers -> [Kinds -> Nat]]
  /\ nreturned \in [Buffers -> [Kinds -> Nat]]
  /\ naborts \in [Buffers -> [Kinds -> Nat]]
  /\ naborted \in [Buffers -> [Kinds -> Nat]]

Zero == [b \in Buffers |-> [k \in Kinds |-> 0]]

Init ==
  /\ op = [b \in Buffers |-> NoOp]
  /\ completions = Zero
  /\ abortWait = [b \in Buffers |-> [k \in Kinds |-> FALSE]]
  /\ bufferEx = [b \in Buffers |-> FALSE]
  /\ pairEx = [p \in Peers |-> FALSE]
  /\ thread = [b \in Buffers |-> "ready"]
  /\ toSignal = [b \in Buffers |-> {}]
  /\ inUse = [b \in Buffers |-> FALSE]
  /\ nops = [b \in Buffers |-> 0]
  /\ ncompleted = Zero /\ nreturned = Zero /\ naborts = Zero /\ naborted = Zero

-----------------------------------------------------------------------------
(* The pair's mutex is free: write() and read() hold it while they use a   *)
(* buffer.                                                                 *)
Unlocked(p) == \A b \in Buffers : inUse[b] => op[b].pair # p

(* The buffer's thread posts an operation.  At most one is pending, and    *)
(* what it completed was waited for ("There should only be a single        *)
(* pending operation against an unbound buffer at any given time").        *)
Post(b, k, p, from, place) ==
  /\ thread[b] = "ready" /\ op[b] = NoOp
  /\ \A l \in Kinds : completions[b][l] = 0
  /\ nops[b] < MaxOps[b]
  /\ nops' = [nops EXCEPT ![b] = @ + 1]
  /\ op' = [op EXCEPT ![b] = [kind |-> k, place |-> place, pair |-> p, from |-> from]]
  /\ UNCHANGED <<buffer, pairEx, thread, toSignal, inUse, ncompleted, nreturned, naborts, naborted>>

(* throwIfException at the start of Pair::send, recv and tryRecv.          *)
PostThrows(b, p) ==
  /\ thread[b] = "ready" /\ op[b] = NoOp
  /\ pairEx[p] /\ Unlocked(p)
  /\ thread' = [thread EXCEPT ![b] = "threw"]
  /\ UNCHANGED <<op, buffer, pairEx, toSignal, inUse, history>>

(* UnboundBuffer::send: queued until the peer is ready to receive, or      *)
(* transmitted at once.                                                    *)
Send(b, p) ==
  \/ ~pairEx[p] /\ Unlocked(p) /\ \E place \in {"localPendingSend", "tx"} : Post(b, "send", p, {p}, place)
  \/ PostThrows(b, p)

(* UnboundBuffer::recv from one rank.                                      *)
Recv(b, p) ==
  \/ ~pairEx[p] /\ Unlocked(p) /\ Post(b, "recv", p, {p}, "localPendingRecv")
  \/ PostThrows(b, p)

(* UnboundBuffer::recv from any of some ranks: from one that has a send    *)
(* pending (as Recv), else parked in the context.                          *)
RecvAny(b, from) == Post(b, "recv", NoPeer, from, "pendingRecv")

-----------------------------------------------------------------------------
(* The loop thread handles a notification of the peer: the operation moves *)
(* from one queue to the next.                                             *)
Alive(b) == thread[b] \notin {"destroying", "gone"}

HandleRemotePendingRecv(b) ==
  /\ op[b].place = "localPendingSend" /\ ~pairEx[op[b].pair]
  /\ Unlocked(op[b].pair)
  /\ op' = [op EXCEPT ![b].place = "tx"]
  /\ UNCHANGED <<buffer, pairEx, thread, toSignal, inUse, history>>

HandleRemotePendingSend(b, p) ==
  /\ op[b].place = "pendingRecv" /\ p \in op[b].from /\ ~pairEx[p]
  /\ Unlocked(p)
  /\ op' = [op EXCEPT ![b].place = "localPendingRecv", ![b].pair = p]
  /\ UNCHANGED <<buffer, pairEx, thread, toSignal, inUse, history>>

PrepareRead(b) ==
  /\ op[b].place = "localPendingRecv" /\ ~pairEx[op[b].pair]
  /\ Unlocked(op[b].pair)
  /\ op' = [op EXCEPT ![b].place = "rx"]
  /\ UNCHANGED <<buffer, pairEx, thread, toSignal, inUse, history>>

(* write() and read() turn the weak pointer into a NonOwningPtr; if the    *)
(* buffer is being destroyed they return, and the operation stays.         *)
Acquire(b) ==
  /\ op[b].place \in {"tx", "rx"} /\ ~pairEx[op[b].pair]
  /\ Unlocked(op[b].pair)
  /\ Alive(b)
  /\ inUse' = [inUse EXCEPT ![b] = TRUE]
  /\ UNCHANGED <<op, buffer, pairEx, thread, toSignal, history>>

(* ... and release it, without the operation being done.                   *)
Release(b) ==
  /\ inUse[b]
  /\ inUse' = [inUse EXCEPT ![b] = FALSE]
  /\ UNCHANGED <<op, buffer, pairEx, thread, toSignal, history>>

(* handleSendCompletion / handleRecvCompletion, from writeComplete or      *)
(* readComplete.                                                           *)
HandleCompletion(b) ==
  LET k == op[b].kind IN
  /\ inUse[b]
  /\ inUse' = [inUse EXCEPT ![b] = FALSE]
  /\ op' = [op EXCEPT ![b] = NoOp]
  /\ completions' = [completions EXCEPT ![b][k] = @ + 1]
  /\ ncompleted' = [ncompleted EXCEPT ![b][k] = @ + 1]
  /\ UNCHANGED <<abortWait, bufferEx, pairEx, thread, toSignal, nops, nreturned, naborts, naborted>>

-----------------------------------------------------------------------------
(* The buffers Pair::signalException visits: those of the operations in    *)
(* localPendingSend_ and localPendingRecv_, if they still exist.  Those in *)
(* tx_ and rx_ are not unbound buffers it looks for.                       *)
Signalled(p) ==
  {b \in Buffers : /\ op[b].pair = p
                   /\ op[b].place \in {"localPendingSend", "localPendingRecv"}
                   /\ Alive(b)}

(* Pair::signalException, with changeState(CLOSED).                        *)
SignalException(p) ==
  /\ ~pairEx[p]
  /\ pairEx' = [pairEx EXCEPT ![p] = TRUE]
  /\ bufferEx' = [b \in Buffers |-> bufferEx[b] \/ b \in Signalled(p)]

(* The loop thread finds the pair failed (end of file or a socket error).  *)
PairFails(p) ==
  /\ Unlocked(p)
  /\ SignalException(p)
  /\ UNCHANGED <<op, completions, abortWait, thread, toSignal, inUse, history>>

-----------------------------------------------------------------------------
(* waitSend and waitRecv.                                                  *)
WaitBegin(b, k) ==
  /\ thread[b] = "ready"
  /\ op[b] # NoOp => op[b].kind = k
  /\ thread' = [thread EXCEPT ![b] = Wait(k)]
  /\ UNCHANGED <<op, buffer, pairEx, toSignal, inUse, history>>

(* The predicate throws the buffer's exception before it looks at anything *)
(* else.  A completion that was there when the wait began is taken without *)
(* asking it (Ready).                                                      *)
WaitThrows(b, k) ==
  /\ thread[b] = Wait(k)
  /\ bufferEx[b]
  /\ thread' = [thread EXCEPT ![b] = "threw"]
  /\ UNCHANGED <<op, buffer, pairEx, toSignal, inUse, history>>

Ready(b, k) == completions[b][k] > 0 \/ (~bufferEx[b] /\ abortWait[b][k])

(* Mutant of WaitAborted: the flag is not reset.                           *)
WaitAbortedAgain(b, k) ==
  /\ thread[b] = Wait(k)
  /\ Ready(b, k) /\ abortWait[b][k]
  /\ naborted' = [naborted EXCEPT ![b][k] = @ + 1]
  /\ thread' = [thread EXCEPT ![b] = "ready"]
  /\ UNCHANGED <<op, buffer, pairEx, toSignal, inUse, nops, ncompleted, nreturned, naborts>>

(* Mutant of WaitAborted: the aborted wait takes a completion with it.     *)
WaitAbortedCompletion(b, k) ==
  /\ thread[b] = Wait(k)
  /\ Ready(b, k) /\ abortWait[b][k]
  /\ abortWait' = [abortWait EXCEPT ![b][k] = FALSE]
  /\ completions' = [completions EXCEPT ![b][k] = 0]
  /\ naborted' = [naborted EXCEPT ![b][k] = @ + 1]
  /\ thread' = [thread EXCEPT ![b] = "ready"]
  /\ UNCHANGED <<op, bufferEx, pairEx, toSignal, inUse, nops, ncompleted, nreturned, naborts>>

(* An abort comes first, even if there is a completion: return false.      *)
WaitAborted(b, k) ==
  /\ thread[b] = Wait(k)
  /\ Ready(b, k) /\ abortWait[b][k]
  /\ abortWait' = [abortWait EXCEPT ![b][k] = FALSE]
  /\ naborted' = [naborted EXCEPT ![b][k] = @ + 1]
  /\ thread' = [thread EXCEPT ![b] = "ready"]
  /\ UNCHANGED <<op, completions, bufferEx, pairEx, toSignal, inUse, nops, ncompleted, nreturned,
                 naborts>>

(* Take one completion: return true.                                       *)
WaitReturns(b, k) ==
  /\ thread[b] = Wait(k)
  /\ Ready(b, k) /\ ~abortWait[b][k]
  /\ completions' = [completions EXCEPT ![b][k] = @ - 1]
  /\ nreturned' = [nreturned EXCEPT ![b][k] = @ + 1]
  /\ thread' = [thread EXCEPT ![b] = "ready"]
  /\ UNCHANGED <<op, abortWait, bufferEx, pairEx, toSignal, inUse, nops, ncompleted, naborts,
                 naborted>>

(* Mutant of WaitTimesOut: only the pair of the operation is told.         *)
WaitTimesOutAlone(b, k) ==
  /\ thread[b] = Wait(k)
  /\ ~bufferEx[b] /\ ~Ready(b, k)
  /\ thread' = [thread EXCEPT ![b] = "timed out"]
  /\ toSignal' = [toSignal EXCEPT ![b] = {op[b].pair} \cap Peers]
  /\ UNCHANGED <<op, buffer, pairEx, inUse, history>>

(* wait_for gives up: release the buffer's mutex and tell every pair.      *)
WaitTimesOut(b, k) ==
  /\ thread[b] = Wait(k)
  /\ ~bufferEx[b] /\ ~Ready(b, k)
  /\ thread' = [thread EXCEPT ![b] = "timed out"]
  /\ toSignal' = [toSignal EXCEPT ![b] = Peers]
  /\ UNCHANGED <<op, buffer, pairEx, inUse, history>>

(* Mutant of SignalExceptionExternal: a pair that has failed already is    *)
(* not passed over.                                                        *)
SignalExceptionTwice(b, p) ==
  /\ thread[b] = "timed out" /\ p \in toSignal[b]
  /\ Unlocked(p)
  /\ toSignal' = [toSignal EXCEPT ![b] = @ \ {p}]
  /\ SignalException(p)
  /\ UNCHANGED <<op, completions, abortWait, thread, inUse, history>>

(* Context::signalException visits the next pair (signalExceptionExternal, *)
(* under the pair's mutex, which write() and read() hold as well), while   *)
(* other threads run.                                                      *)
SignalExceptionExternal(b, p) ==
  /\ thread[b] = "timed out" /\ p \in toSignal[b]
  /\ Unlocked(p)
  /\ toSignal' = [toSignal EXCEPT ![b] = @ \ {p}]
  /\ \/ SignalException(p)
     \/ pairEx[p] /\ UNCHANGED <<pairEx, bufferEx>>
  /\ UNCHANGED <<op, completions, abortWait, thread, inUse, history>>

(* ... and throws once all were told.                                      *)
ThrowTimeout(b) ==
  /\ thread[b] = "timed out" /\ toSignal[b] = {}
  /\ thread' = [thread EXCEPT ![b] = "threw"]
  /\ UNCHANGED <<op, buffer, pairEx, toSignal, inUse, history>>

(* abortWaitSend / abortWaitRecv, from another thread.                     *)
Abort(b, k) ==
  /\ Alive(b)
  /\ naborts[b][k] < MaxAborts[b]
  /\ naborts' = [naborts EXCEPT ![b][k] = @ + 1]
  /\ abortWait' = [abortWait EXCEPT ![b][k] = TRUE]
  /\ UNCHANGED <<op, completions, bufferEx, pairEx, thread, toSignal, inUse, nops, ncompleted,
                 nreturned, naborted>>

(* ~UnboundBuffer: drop the shared pointer, so that no new NonOwningPtr    *)
(* can be had; then wait until the ones in use are released.               *)
DestroyBegin(b) ==
  /\ thread[b] \in {"ready", "threw"}
  /\ thread' = [thread EXCEPT ![b] = "destroying"]
  /\ UNCHANGED <<op, buffer, pairEx, toSignal, inUse, history>>

(* Mutant of DestroyEnd: the destructor does not wait.                     *)
DestroyEndAtOnce(b) ==
  /\ thread[b] = "destroying"
  /\ thread' = [thread EXCEPT ![b] = "gone"]
  /\ UNCHANGED <<op, buffer, pairEx, toSignal, inUse, history>>

DestroyEnd(b) ==
  /\ thread[b] = "destroying" /\ ~inUse[b]
  /\ thread' = [thread EXCEPT ![b] = "gone"]
  /\ UNCHANGED <<op, buffer, pairEx, toSignal, inUse, history>>

-----------------------------------------------------------------------------
Waiting(b) ==
  \/ \E k \in Kinds :
       WaitThrows(b, k) \/ WaitAborted(b, k) \/ WaitReturns(b, k) \/ WaitTimesOut(b, k)
  \/ \E p \in Peers : SignalExceptionExternal(b, p)
  \/ ThrowTimeout(b)
  \/ DestroyEnd(b)

LoopThread(b) ==
  \/ HandleRemotePendingRecv(b) \/ PrepareRead(b)
  \/ \E p \in Peers : HandleRemotePendingSend(b, p)
  \/ Acquire(b)

Next ==
  \/ \E b \in Buffers : \E p \in Peers : Send(b, p) \/ Recv(b, p)
  \/ \E b \in Buffers : \E from \in SUBSET Peers \ {{}} : RecvAny(b, from)
  \/ \E b \in Buffers : LoopThread(b) \/ Release(b) \/ HandleCompletion(b)
  \/ \E p \in Peers : PairFails(p)
  \/ \E b \in Buffers : \E k \in Kinds : WaitBegin(b, k) \/ Abort(b, k)
  \/ \E b \in Buffers : Waiting(b) \/ DestroyBegin(b)

Spec == Init /\ [][Next]_vars

(* Threads run, a wait that is not woken times out, write() and read()     *)
(* return, and whoever blocks on the mutex of a pair gets it in the end    *)
(* although the loop thread takes it (with try_lock) again and again.      *)
FairSpec ==
  /\ Spec
  /\ \A b \in Buffers : WF_vars(Waiting(b))
  /\ \A b \in Buffers : WF_vars(Release(b) \/ HandleCompletion(b))
  /\ \A b \in Buffers, p \in Peers : SF_vars(SignalExceptionExternal(b, p))

-----------------------------------------------------------------------------
(* Every completed operation is reported by exactly one wait: aborts and   *)
(* exceptions neither swallow a completion nor invent one.                 *)
CompletionsReported ==
  \A b \in Buffers, k \in Kinds : completions[b][k] + nreturned[b][k] = ncompleted[b][k]

(* "only this waitRecv is interrupted": an abort ends one wait.            *)
AbortEndsOneWait ==
  \A b \in Buffers, k \in Kinds :
    naborted[b][k] + (IF abortWait[b][k] THEN 1 ELSE 0) \leq naborts[b][k]

(* The loop thread never touches a buffer whose destructor has returned.   *)
NoUseAfterDestroy == \A b \in Buffers : thread[b] = "gone" => ~inUse[b]

(* Once a wait has thrown, its own timeout or an exception, no thread does *)
(* I/O on the buffer any more: every pair that could still fulfil the      *)
(* operation, now or by a later match, is closed.                          *)
NoIoAfterThrow == \A b \in Buffers : thread[b] = "threw" => ~inUse[b]

(* A wait always ends, by a completion, an abort, an exception or its      *)
(* timeout; and so does the destructor.                                    *)
WaitsEnd ==
  \A b \in Buffers :
    /\ \A k \in Kinds : (thread[b] = Wait(k)) ~> (thread[b] # Wait(k))
    /\ (thread[b] \in {"timed out", "destroying"}) ~> (thread[b] \in {"threw", "gone"})

(* "Set exception and signal all pending buffers" (pair.h): whoever waits  *)
(* for an operation of a pair that failed is told.                         *)
AllPendingSignalled ==
  \A b \in Buffers :
    op[b].pair \in Peers /\ pairEx[op[b].pair] /\ thread[b] = Wait(op[b].kind) => bufferEx[b]
=============================================================================
