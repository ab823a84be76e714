-------------------------------- MODULE Loop --------------------------------
(***************************************************************************)
(* The epoll(2) event loop of the TCP transport                            *)
(* (gloo/transport/tcp/loop.{h,cc}): one loop thread that calls the        *)
(* handlers of registered descriptors, application threads that register   *)
(* and unregister descriptors concurrently, and the list of functions      *)
(* deferred to the loop thread through a pipe.                             *)
(*                                                                         *)
(* A descriptor and its handler are identified: a handler registers one    *)
(* descriptor in its life, and once unregistered it is never registered    *)
(* again (its owner is about to destroy it).                               *)
(***************************************************************************)
EXTENDS Integers, Sequences, FiniteSets

CONSTANTS
  Handlers,         \* handlers other than the deferrables (pairs, listener)
  Threads,          \* threads that call unregisterDescriptor
  Deferrables,      \* the handler of the deferrables' pipe
  Capacity,         \* capacity_: events one epoll_wait can return
  MaxDefer,         \* bound: functions deferred in a behaviour
  SpuriousWakeups   \* may condition_variable::wait return unnotified?

NoHandler == "no handler"

ASSUME HandlersAssumption ==
  /\ Deferrables \notin Handlers
  /\ NoHandler \notin Handlers \cup {Deferrables}

ASSUME CapacityAssumption == Capacity \in Nat \ {0}
ASSUME MaxDeferAssumption == MaxDefer \in Nat
ASSUME SpuriousAssumption == SpuriousWakeups \in BOOLEAN

VARIABLES
  interest,    \* handlers in the epoll set
  life,        \* life[h]: "fresh", "registered", "deleting" (by a thread), then "gone",
               \* or "hasty" if the thread was not notified; "selfgone" when
               \* unregistered on the loop thread
  thread,      \* thread[t]: where t is in unregisterDescriptor
  target,      \* target[t]: the handler t unregisters
  pc,          \* the loop thread: "top", "poll", "dispatch", "execute", "stopped"
  batch,       \* events returned by epoll_wait and not dispatched yet
  running,     \* the handler whose handleEvents is being executed
  done,        \* done_
  functions,   \* functions_: deferred and not yet taken by the loop thread
  triggered,   \* triggered_
  pipe,        \* bytes in the deferrables' pipe
  local,       \* localFunctions: taken and not executed yet
  deferred,    \* number of functions deferred so far
  executed     \* functions executed so far, in order

tickVars  == <<interest, life, thread, target, done>>
deferVars == <<functions, triggered, pipe, local, deferred, executed>>
vars == <<tickVars, pc, batch, running, deferVars>>

AllHandlers == Handlers \cup {Deferrables}

TypeOK ==
  /\ interest \subseteq AllHandlers
  /\ life \in [Handlers -> {"fresh", "registered", "deleting", "gone", "hasty", "selfgone"}]
  /\ thread \in [Threads -> {"idle", "deleted", "waiting", "notified", "spurious"}]
  /\ target \in [Threads -> Handlers \cup {NoHandler}]
  /\ pc \in {"top", "poll", "dispatch", "execute", "stopped"}
  /\ batch \subseteq AllHandlers
  /\ running \in AllHandlers \cup {NoHandler}
  /\ done \in BOOLEAN
  /\ functions \in Seq(Nat)
  /\ triggered \in BOOLEAN
  /\ pipe \in Nat
  /\ local \in Seq(Nat)
  /\ deferred \in 0..MaxDefer
  /\ executed \in Seq(Nat)

(* Loop::Loop: the loop thread runs and the pipe's read end is registered. *)
Init ==
  /\ interest = {Deferrables}
  /\ life = [h \in Handlers |-> "fresh"]
  /\ thread = [t \in Threads |-> "idle"]
  /\ target = [t \in Threads |-> NoHandler]
  /\ pc = "top"
  /\ batch = {}
  /\ running = NoHandler
  /\ done = FALSE
  /\ functions = <<>>
  /\ triggered = FALSE
  /\ pipe = 0
  /\ local = <<>>
  /\ deferred = 0
  /\ executed = <<>>

-----------------------------------------------------------------------------
(* Application threads, and handlers running on the loop thread.           *)

(* registerDescriptor: EPOLL_CTL_ADD, or MOD when already registered.  It  *)
(* takes no lock and may run at any time, on any thread.                   *)
RegisterDescriptor(h) ==
  /\ ~done
  /\ life[h] \in {"fresh", "registered"}
  /\ interest' = interest \cup {h}
  /\ life' = [life EXCEPT ![h] = "registered"]
  /\ UNCHANGED <<thread, target, done, pc, batch, running, deferVars>>

(* unregisterDescriptor on a thread other than the loop thread, first      *)
(* half: EPOLL_CTL_DEL.  The loop thread may hold an event for h already.  *)
UnregisterDelete(t, h) ==
  /\ ~done
  /\ thread[t] = "idle"
  /\ life[h] = "registered"
  /\ interest' = interest \ {h}
  /\ life' = [life EXCEPT ![h] = "deleting"]
  /\ thread' = [thread EXCEPT ![t] = "deleted"]
  /\ target' = [target EXCEPT ![t] = h]
  /\ UNCHANGED <<done, pc, batch, running, deferVars>>

(* A faulty variant: return right after EPOLL_CTL_DEL.                     *)
UnregisterWaitDropped(t) ==
  /\ thread[t] = "deleted"
  /\ thread' = [thread EXCEPT ![t] = "notified"]
  /\ UNCHANGED <<interest, life, target, done, pc, batch, running, deferVars>>

(* Second half: lock m_ and sleep on cv_.  There is no predicate to check. *)
UnregisterWait(t) ==
  /\ thread[t] = "deleted"
  /\ thread' = [thread EXCEPT ![t] = "waiting"]
  /\ UNCHANGED <<interest, life, target, done, pc, batch, running, deferVars>>

(* cv_.wait may return although nobody notified.                           *)
SpuriousWakeup(t) ==
  /\ SpuriousWakeups
  /\ thread[t] = "waiting"
  /\ thread' = [thread EXCEPT ![t] = "spurious"]
  /\ UNCHANGED <<interest, life, target, done, pc, batch, running, deferVars>>

(* cv_.wait returns, and with it unregisterDescriptor: from here on the    *)
(* owner of the handler may destroy it.  "hasty" records that no tick of   *)
(* the loop had woken the thread; the code does not know the difference.   *)
UnregisterReturn(t) ==
  /\ thread[t] \in {"notified", "spurious"}
  /\ thread' = [thread EXCEPT ![t] = "idle"]
  /\ target' = [target EXCEPT ![t] = NoHandler]
  /\ life' = [life EXCEPT ![target[t]] = IF thread[t] = "notified" THEN "gone" ELSE "hasty"]
  /\ UNCHANGED <<interest, done, pc, batch, running, deferVars>>

(* unregisterDescriptor on the loop thread, called by the handler that is  *)
(* running for its own descriptor: no waiting.                             *)
UnregisterOnLoop(h) ==
  /\ running = h
  /\ life[h] = "registered"
  /\ interest' = interest \ {h}
  /\ life' = [life EXCEPT ![h] = "selfgone"]
  /\ UNCHANGED <<thread, target, done, pc, batch, running, deferVars>>

(* A faulty variant: mark the pipe as triggered but write no byte.         *)
DeferWithoutByte ==
  /\ ~done
  /\ deferred < MaxDefer
  /\ deferred' = deferred + 1
  /\ functions' = Append(functions, deferred + 1)
  /\ triggered' = TRUE
  /\ UNCHANGED <<tickVars, pc, batch, running, pipe, local, executed>>

(* Deferrables::defer, on any thread: append, and write one byte to the    *)
(* pipe unless one is there already.                                       *)
Defer ==
  /\ ~done
  /\ deferred < MaxDefer
  /\ deferred' = deferred + 1
  /\ functions' = Append(functions, deferred + 1)
  /\ pipe' = IF triggered THEN pipe ELSE pipe + 1
  /\ triggered' = TRUE
  /\ UNCHANGED <<tickVars, pc, batch, running, local, executed>>

(* Loop::~Loop sets done_.  The device that owns the loop outlives its     *)
(* pairs, so nobody is inside unregisterDescriptor then.                   *)
Stop ==
  /\ ~done
  /\ \A t \in Threads : thread[t] = "idle"
  /\ done' = TRUE
  /\ UNCHANGED <<interest, life, thread, target, pc, batch, running, deferVars>>

-----------------------------------------------------------------------------
(* The loop thread: Loop::run.                                             *)

(* while (!done_) { cv_.notify_all(); ...                                  *)
NotifyAll ==
  /\ pc = "top"
  /\ ~done
  /\ thread' = [t \in Threads |->
                  IF thread[t] = "waiting" THEN "notified" ELSE thread[t]]
  /\ pc' = "poll"
  /\ UNCHANGED <<interest, life, target, done, batch, running, deferVars>>

Exit ==
  /\ pc = "top"
  /\ done
  /\ pc' = "stopped"
  /\ UNCHANGED <<tickVars, batch, running, deferVars>>

(* The descriptors epoll_wait may report: any registered one (its peer     *)
(* decides), the pipe only when it is readable.                            *)
Ready == {h \in interest : h = Deferrables => pipe > 0}

(* epoll_wait returns some events ...                                      *)
PollEvents(S) ==
  /\ pc = "poll"
  /\ S \subseteq Ready
  /\ S # {}
  /\ Cardinality(S) <= Capacity
  /\ batch' = S
  /\ pc' = "dispatch"
  /\ UNCHANGED <<tickVars, running, deferVars>>

(* A faulty variant: epoll_wait has no timeout, and is called again when   *)
(* it is interrupted.                                                      *)
PollWithoutTimeout == pc = "poll" /\ UNCHANGED vars

(* ... or times out after 10ms, or is interrupted.                         *)
PollTimeout ==
  /\ pc = "poll"
  /\ pc' = "top"
  /\ UNCHANGED <<tickVars, batch, running, deferVars>>

(* Call handleEvents of the next event.                                    *)
Dispatch(h) ==
  /\ pc = "dispatch"
  /\ running = NoHandler
  /\ h \in batch
  /\ batch' = batch \ {h}
  /\ running' = h
  /\ UNCHANGED <<tickVars, pc, deferVars>>

(* handleEvents of an ordinary handler returns.                            *)
HandlerReturn ==
  /\ running \in Handlers
  /\ running' = NoHandler
  /\ UNCHANGED <<tickVars, pc, batch, deferVars>>

(* A faulty variant: copy the functions instead of swapping them out.      *)
TakeCopy ==
  /\ pc = "dispatch"
  /\ running = Deferrables
  /\ pipe > 0
  /\ local' = functions
  /\ pipe' = pipe - 1
  /\ triggered' = FALSE
  /\ pc' = "execute"
  /\ UNCHANGED <<tickVars, batch, running, functions, deferred, executed>>

(* Deferrables::handleEvents, under mutex_: take all functions and drain   *)
(* the pipe.  The pipe is non-blocking: finding it empty is an error.      *)
TakeFunctions ==
  /\ pc = "dispatch"
  /\ running = Deferrables
  /\ pipe > 0
  /\ local' = functions
  /\ functions' = <<>>
  /\ pipe' = pipe - 1
  /\ triggered' = FALSE
  /\ pc' = "execute"
  /\ UNCHANGED <<tickVars, batch, running, deferred, executed>>

(* Without the lock: execute what was taken, one function after another.   *)
ExecuteNext ==
  /\ pc = "execute"
  /\ local # <<>>
  /\ executed' = Append(executed, Head(local))
  /\ local' = Tail(local)
  /\ UNCHANGED <<tickVars, pc, batch, running, functions, triggered, pipe, deferred>>

DeferrablesReturn ==
  /\ pc = "execute"
  /\ local = <<>>
  /\ running' = NoHandler
  /\ pc' = "dispatch"
  /\ UNCHANGED <<tickVars, batch, deferVars>>

(* The last event of the batch has been dispatched: next tick.             *)
BatchDone ==
  /\ pc = "dispatch"
  /\ batch = {}
  /\ running = NoHandler
  /\ pc' = "top"
  /\ UNCHANGED <<tickVars, batch, running, deferVars>>

(* The loop thread has been joined.                                        *)
Terminated == pc = "stopped" /\ UNCHANGED vars

-----------------------------------------------------------------------------
ThreadNext(t) ==
  \/ UnregisterWait(t)
  \/ UnregisterReturn(t)
  \/ SpuriousWakeup(t)
  \/ \E h \in Handlers : UnregisterDelete(t, h)

HandlerNext(h) ==
  \/ RegisterDescriptor(h)
  \/ UnregisterOnLoop(h)

LoopNext ==
  \/ NotifyAll
  \/ Exit
  \/ \E S \in SUBSET AllHandlers : PollEvents(S)
  \/ PollTimeout
  \/ \E h \in AllHandlers : Dispatch(h)
  \/ HandlerReturn
  \/ TakeFunctions
  \/ ExecuteNext
  \/ DeferrablesReturn
  \/ BatchDone

Next ==
  \/ LoopNext
  \/ \E t \in Threads : ThreadNext(t)
  \/ \E h \in Handlers : HandlerNext(h)
  \/ Defer
  \/ Stop
  \/ Terminated

Spec == Init /\ [][Next]_vars

(* The loop thread and a thread inside unregisterDescriptor keep running   *)
(* (handlers never block for ever); a readable pipe is reported by         *)
(* epoll_wait again and again, so the loop thread sees it eventually       *)
(* (epoll hands out ready descriptors round robin).  Nothing forces a      *)
(* thread to register, unregister, defer or stop.                          *)
Fairness ==
  /\ WF_vars(LoopNext)
  /\ \A t \in Threads : WF_vars(UnregisterWait(t)) /\ WF_vars(UnregisterReturn(t))
  /\ SF_vars(\E S \in SUBSET AllHandlers : Deferrables \in S /\ PollEvents(S))
  /\ WF_vars(Dispatch(Deferrables))

FairSpec == Spec /\ Fairness

-----------------------------------------------------------------------------
(* Once unregisterDescriptor has returned after a tick of the loop, the    *)
(* handler is neither running nor will it be called with an event the loop *)
(* thread picked up earlier: its owner can destroy it.  A handler that     *)
(* unregistered itself on the loop thread may still be on its way out, but *)
(* is not called again.                                                    *)
NoCallAfterUnregister ==
  \A h \in Handlers :
    /\ life[h] = "gone" => h \notin batch /\ running # h
    /\ life[h] = "selfgone" => h \notin batch

(* loop.cc: "make sure the handler for this fd is not called once this     *)
(* function returns", whatever woke the thread that waits in it.           *)
NotCalledOnceReturned ==
  \A h \in Handlers : life[h] \in {"gone", "hasty"} => h \notin batch /\ running # h

(* Deferred functions are executed exactly once, in the order in which     *)
(* they were deferred, however defer() and handleEvents interleave.        *)
DeferredInOrder ==
  executed \o local \o functions = [k \in 1..deferred |-> k]

(* A call of unregisterDescriptor returns: although nothing remembers a    *)
(* notification sent before the thread sleeps, a later tick wakes it.      *)
UnregisterReturns ==
  \A t \in Threads : thread[t] # "idle" ~> thread[t] = "idle"

(* Every deferred function runs, unless the loop is being destroyed.       *)
DeferredRuns ==
  \A k \in 1..MaxDefer : deferred = k ~> (Len(executed) >= k \/ done)
=============================================================================
