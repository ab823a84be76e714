----------------------------- MODULE LoopProofs -----------------------------
(***************************************************************************)
(* Proofs about the event loop for any number of handlers, threads and     *)
(* deferred functions: a handler is never called after its                 *)
(* unregisterDescriptor was woken by a tick and returned, and deferred     *)
(* functions run once and in order.                                        *)
(***************************************************************************)
EXTENDS Loop, SequenceTheorems, TLAPS

(* Between ticks the loop thread holds no event.                           *)
IdleBetweenTicks ==
  /\ pc \in {"top", "poll", "stopped"} => batch = {} /\ running = NoHandler
  /\ pc = "execute" => running = Deferrables
  /\ running \notin batch

(* A handler on its way out is not in the epoll set.                       *)
NotPolledAgain ==
  \A h \in Handlers :
    life[h] \in {"deleting", "gone", "hasty", "selfgone"} => h \notin interest

(* Each call of unregisterDescriptor works on a handler of its own.        *)
TargetsOwned ==
  /\ \A t \in Threads : thread[t] # "idle" =>
        target[t] \in Handlers /\ life[target[t]] = "deleting"
  /\ \A t, u \in Threads :
        thread[t] # "idle" /\ thread[u] # "idle" /\ target[t] = target[u] => t = u

(* A notified thread has seen a tick since its EPOLL_CTL_DEL.              *)
NotifiedSafe ==
  \A t \in Threads : thread[t] = "notified" =>
    target[t] \notin batch /\ running # target[t]

(* The inductive invariant behind NoCallAfterUnregister.                   *)
CallInv ==
  /\ TypeOK
  /\ IdleBetweenTicks
  /\ NotPolledAgain
  /\ TargetsOwned
  /\ NotifiedSafe
  /\ NoCallAfterUnregister

LEMMA InitCallInv == Init => CallInv
<1> SUFFICES ASSUME Init PROVE CallInv
  OBVIOUS
<1> USE HandlersAssumption, MaxDeferAssumption DEF Init
<1>1. TypeOK
  <2>1. functions \in Seq(Nat) /\ local \in Seq(Nat) /\ executed \in Seq(Nat)
    OBVIOUS
  <2>2. done \in BOOLEAN /\ triggered \in BOOLEAN
    OBVIOUS
  <2>3. deferred \in 0..MaxDefer /\ pipe \in Nat
    OBVIOUS
  <2> QED
    BY <2>1, <2>2, <2>3 DEF TypeOK, AllHandlers
<1>2. IdleBetweenTicks /\ NotPolledAgain /\ NoCallAfterUnregister
  BY DEF IdleBetweenTicks, NotPolledAgain, NoCallAfterUnregister
<1>3. TargetsOwned /\ NotifiedSafe
  BY DEF TargetsOwned, NotifiedSafe
<1> QED
  BY <1>1, <1>2, <1>3 DEF CallInv

(* Variable types are preserved by every step.                             *)
LEMMA TypeOKStep == TypeOK /\ [Next]_vars => TypeOK'
<1> SUFFICES ASSUME TypeOK, [Next]_vars PROVE TypeOK'
  OBVIOUS
<1> USE HandlersAssumption, MaxDeferAssumption
<1>1. CASE UNCHANGED vars
  BY <1>1 DEF TypeOK, vars, tickVars, deferVars
<1>2. ASSUME NEW t \in Threads, ThreadNext(t) PROVE TypeOK'
  <2>1. CASE UnregisterWait(t) \/ SpuriousWakeup(t)
    BY <2>1 DEF TypeOK, UnregisterWait, SpuriousWakeup, AllHandlers, deferVars
  <2>2. CASE UnregisterReturn(t)
    BY <2>2 DEF TypeOK, UnregisterReturn, AllHandlers, deferVars
  <2>3. CASE \E h \in Handlers : UnregisterDelete(t, h)
    BY <2>3 DEF TypeOK, UnregisterDelete, AllHandlers, deferVars
  <2> QED
    BY <1>2, <2>1, <2>2, <2>3 DEF ThreadNext
<1>3. ASSUME NEW h \in Handlers, HandlerNext(h) PROVE TypeOK'
  BY <1>3 DEF TypeOK, HandlerNext, RegisterDescriptor, UnregisterOnLoop, AllHandlers, deferVars
<1>4. CASE Defer
  BY <1>4 DEF TypeOK, Defer, tickVars, AllHandlers
<1>5. CASE Stop
  BY <1>5 DEF TypeOK, Stop, deferVars, AllHandlers
<1>6. CASE Terminated
  BY <1>6 DEF TypeOK, Terminated, vars, tickVars, deferVars
<1>7. CASE LoopNext
  <2>1. CASE NotifyAll \/ Exit \/ PollTimeout \/ HandlerReturn \/ BatchDone
    BY <2>1 DEF TypeOK, NotifyAll, Exit, PollTimeout, HandlerReturn, BatchDone,
       AllHandlers, tickVars, deferVars
  <2>2. ASSUME NEW S \in SUBSET AllHandlers, PollEvents(S) PROVE TypeOK'
    BY <2>2 DEF TypeOK, PollEvents, tickVars, deferVars
  <2>3. ASSUME NEW h \in AllHandlers, Dispatch(h) PROVE TypeOK'
    BY <2>3 DEF TypeOK, Dispatch, tickVars, deferVars
  <2>4. CASE TakeFunctions
    <3>1. triggered' \in BOOLEAN
      BY <2>4 DEF TakeFunctions
    <3>2. pipe' \in Nat /\ functions' \in Seq(Nat)
      BY <2>4 DEF TypeOK, TakeFunctions
    <3> QED
      BY <2>4, <3>1, <3>2 DEF TypeOK, TakeFunctions, tickVars, AllHandlers
  <2>5. CASE ExecuteNext
    BY <2>5 DEF TypeOK, ExecuteNext, tickVars, AllHandlers
  <2>6. CASE DeferrablesReturn
    BY <2>6 DEF TypeOK, DeferrablesReturn, tickVars, deferVars, AllHandlers
  <2> QED
    BY <1>7, <2>1, <2>2, <2>3, <2>4, <2>5, <2>6 DEF LoopNext
<1> QED
  BY <1>1, <1>2, <1>3, <1>4, <1>5, <1>6, <1>7 DEF Next

(* No step ends with a handler in the loop thread's hands after its        *)
(* unregisterDescriptor returned.                                          *)
LEMMA CallInvStep ==
  ASSUME CallInv, [Next]_vars
  PROVE  CallInv'
<1> USE HandlersAssumption
<1>0. TypeOK'
  BY TypeOKStep DEF CallInv
<1> DEFINE Rest == /\ IdleBetweenTicks' /\ NotPolledAgain' /\ TargetsOwned'
                   /\ NotifiedSafe' /\ NoCallAfterUnregister'
<1> SUFFICES Rest
  BY <1>0 DEF CallInv
<1> USE DEF Rest
<1>1. CASE UNCHANGED vars
  BY <1>1 DEF CallInv, vars, tickVars, deferVars, IdleBetweenTicks,
     NotPolledAgain, TargetsOwned, NotifiedSafe, NoCallAfterUnregister
<1>2. ASSUME NEW t \in Threads, ThreadNext(t) PROVE Rest
  <2>1. CASE UnregisterWait(t)
    BY <2>1 DEF CallInv, TypeOK, UnregisterWait, IdleBetweenTicks,
       NotPolledAgain, TargetsOwned, NotifiedSafe, NoCallAfterUnregister
  <2>2. CASE UnregisterReturn(t)
    <3>1. target[t] \in Handlers /\ life[target[t]] = "deleting"
      BY <2>2 DEF CallInv, TypeOK, UnregisterReturn, TargetsOwned
    <3>2. IdleBetweenTicks' /\ NotPolledAgain'
      BY <2>2, <3>1 DEF CallInv, TypeOK, UnregisterReturn, IdleBetweenTicks, NotPolledAgain
    <3>3. TargetsOwned'
      BY <2>2, <3>1 DEF CallInv, TypeOK, UnregisterReturn, TargetsOwned
    <3>4. NotifiedSafe'
      BY <2>2, <3>1 DEF CallInv, TypeOK, UnregisterReturn, NotifiedSafe
    <3>5. NoCallAfterUnregister'
      BY <2>2, <3>1 DEF CallInv, TypeOK, UnregisterReturn, NotifiedSafe, NoCallAfterUnregister
    <3> QED
      BY <3>2, <3>3, <3>4, <3>5
  <2>3. ASSUME NEW h \in Handlers, UnregisterDelete(t, h) PROVE Rest
    <3>1. IdleBetweenTicks' /\ NotPolledAgain' /\ NoCallAfterUnregister'
      BY <2>3 DEF CallInv, TypeOK, UnregisterDelete, IdleBetweenTicks, NotPolledAgain,
         NoCallAfterUnregister
    <3>2. TargetsOwned'
      BY <2>3 DEF CallInv, TypeOK, UnregisterDelete, TargetsOwned
    <3>3. NotifiedSafe'
      BY <2>3 DEF CallInv, TypeOK, UnregisterDelete, NotifiedSafe
    <3> QED
      BY <3>1, <3>2, <3>3
  <2>4. CASE SpuriousWakeup(t)
    BY <2>4 DEF CallInv, TypeOK, SpuriousWakeup, IdleBetweenTicks,
       NotPolledAgain, TargetsOwned, NotifiedSafe, NoCallAfterUnregister
  <2> QED
    BY <1>2, <2>1, <2>2, <2>3, <2>4 DEF ThreadNext
<1>3. ASSUME NEW h \in Handlers, HandlerNext(h) PROVE Rest
  <2> USE DEF CallInv, TypeOK, IdleBetweenTicks, NotPolledAgain, TargetsOwned, NotifiedSafe,
      NoCallAfterUnregister
  <2>1. CASE RegisterDescriptor(h)
    BY <2>1 DEF RegisterDescriptor
  <2>2. CASE UnregisterOnLoop(h)
    <3>1. NotPolledAgain' /\ NoCallAfterUnregister' /\ IdleBetweenTicks'
      BY <2>2 DEF UnregisterOnLoop
    <3>2. TargetsOwned' /\ NotifiedSafe'
      BY <2>2 DEF UnregisterOnLoop
    <3> QED
      BY <3>1, <3>2
  <2> QED
    BY <1>3, <2>1, <2>2 DEF HandlerNext
<1>4. CASE Defer \/ Stop \/ Terminated
  BY <1>4 DEF Defer, Stop, Terminated, vars, tickVars, deferVars, CallInv,
     IdleBetweenTicks, NotPolledAgain, TargetsOwned, NotifiedSafe, NoCallAfterUnregister
<1>5. CASE LoopNext
  <2> USE DEF CallInv, TypeOK, IdleBetweenTicks, NotPolledAgain, TargetsOwned, NotifiedSafe,
      NoCallAfterUnregister, tickVars
  <2>1. CASE NotifyAll
    BY <2>1 DEF NotifyAll
  <2>2. CASE Exit \/ PollTimeout \/ BatchDone
    BY <2>2 DEF Exit, PollTimeout, BatchDone
  <2>3. ASSUME NEW S \in SUBSET AllHandlers, PollEvents(S) PROVE Rest
    BY <2>3 DEF PollEvents, Ready, AllHandlers
  <2>4. ASSUME NEW h \in AllHandlers, Dispatch(h) PROVE Rest
    BY <2>4 DEF Dispatch, AllHandlers
  <2>5. CASE HandlerReturn
    BY <2>5 DEF HandlerReturn, AllHandlers
  <2>6. CASE TakeFunctions \/ ExecuteNext
    BY <2>6, SMTT(30) DEF TakeFunctions, ExecuteNext
  <2>7. CASE DeferrablesReturn
    BY <2>7 DEF DeferrablesReturn, AllHandlers
  <2> QED
    BY <1>5, <2>1, <2>2, <2>3, <2>4, <2>5, <2>6, <2>7 DEF LoopNext
<1> QED
  BY <1>1, <1>2, <1>3, <1>4, <1>5 DEF Next

(* The types of the variables never change.                                *)
THEOREM TypeCorrect == Spec => []TypeOK
<1>1. Init => TypeOK
  BY InitCallInv DEF CallInv
<1> QED
  BY <1>1, TypeOKStep, PTL DEF Spec

(* loop.cc:135: "Wait for loop to tick before returning, to make sure the  *)
(* handler for this fd is not called once this function returns."  For any *)
(* handlers and threads, this holds of every call whose cv_.wait returned  *)
(* because of a tick.                                                      *)
THEOREM UnregisterIsSafe == Spec => []NoCallAfterUnregister
<1>1. CallInv /\ [Next]_vars => CallInv'
  BY CallInvStep
<1>2. CallInv => NoCallAfterUnregister
  BY DEF CallInv
<1> QED
  BY <1>1, <1>2, InitCallInv, PTL DEF Spec

-----------------------------------------------------------------------------
(* Moving the head of the second sequence to the end of the first leaves   *)
(* their concatenation as it is.                                           *)
LEMMA MoveHead ==
  ASSUME NEW S, NEW x \in Seq(S), NEW y \in Seq(S), y # <<>>
  PROVE  Append(x, Head(y)) \o Tail(y) = x \o y
<1>1. Head(y) \in S /\ Tail(y) \in Seq(S) /\ Append(x, Head(y)) \in Seq(S)
  OBVIOUS
<1>2. Len(Append(x, Head(y)) \o Tail(y)) = Len(x \o y)
  BY <1>1
<1>3. ASSUME NEW k \in 1 .. Len(x \o y)
      PROVE  (Append(x, Head(y)) \o Tail(y))[k] = (x \o y)[k]
  BY <1>1
<1>4. Append(x, Head(y)) \o Tail(y) \in Seq(S) /\ x \o y \in Seq(S)
  BY <1>1
<1> QED
  BY <1>2, <1>3, <1>4, SeqEqual

(* Appending to the second of two sequences appends to both.               *)
LEMMA ConcatAppend ==
  ASSUME NEW S, NEW x \in Seq(S), NEW y \in Seq(S), NEW e \in S
  PROVE  x \o Append(y, e) = Append(x \o y, e)
<1>1. x \o Append(y, e) \in Seq(S) /\ Append(x \o y, e) \in Seq(S)
  OBVIOUS
<1>2. Len(x \o Append(y, e)) = Len(Append(x \o y, e))
  OBVIOUS
<1>3. ASSUME NEW k \in 1 .. Len(Append(x \o y, e))
      PROVE  (x \o Append(y, e))[k] = Append(x \o y, e)[k]
  OBVIOUS
<1> QED
  BY <1>1, <1>2, <1>3, SeqEqual

(* The inductive invariant behind DeferredInOrder: the functions taken by  *)
(* the loop thread are executed before more are taken.                     *)
DeferInv ==
  /\ TypeOK
  /\ pc # "execute" => local = <<>>
  /\ DeferredInOrder

LEMMA DeferInvStep == DeferInv /\ [Next]_vars => DeferInv'
<1> SUFFICES ASSUME DeferInv, [Next]_vars PROVE DeferInv'
  OBVIOUS
<1>0. TypeOK'
  BY TypeOKStep DEF DeferInv
<1> USE <1>0 DEF DeferInv
<1>1. CASE UNCHANGED vars
  BY <1>1 DEF vars, deferVars, DeferredInOrder
<1>2. ASSUME NEW t \in Threads, ThreadNext(t) PROVE DeferInv'
  BY <1>2 DEF ThreadNext, UnregisterWait, UnregisterReturn, SpuriousWakeup,
     UnregisterDelete, deferVars, DeferredInOrder
<1>3. ASSUME NEW h \in Handlers, HandlerNext(h) PROVE DeferInv'
  BY <1>3 DEF HandlerNext, RegisterDescriptor, UnregisterOnLoop, deferVars, DeferredInOrder
<1>4. CASE Stop \/ Terminated
  BY <1>4 DEF Stop, Terminated, vars, deferVars, DeferredInOrder
<1>5. CASE Defer
  <2> DEFINE before == executed \o local
  <2>1. before \in Seq(Nat) /\ functions \in Seq(Nat) /\ deferred + 1 \in Nat /\ deferred \in Nat
    BY MaxDeferAssumption DEF TypeOK
  <2>2. before \o Append(functions, deferred + 1) = Append(before \o functions, deferred + 1)
    BY <2>1, ConcatAppend, SMTT(30)
  <2>3. Append(before \o functions, deferred + 1) = [k \in 1 .. (deferred + 1) |-> k]
    BY <2>1 DEF DeferredInOrder
  <2> QED
    BY <1>5, <2>2, <2>3 DEF Defer, DeferredInOrder
<1>6. CASE LoopNext
  <2>1. CASE NotifyAll \/ Exit \/ PollTimeout \/ HandlerReturn \/ BatchDone
    BY <2>1 DEF NotifyAll, Exit, PollTimeout, HandlerReturn, BatchDone, deferVars, DeferredInOrder
  <2>2. ASSUME NEW S \in SUBSET AllHandlers, PollEvents(S) PROVE DeferInv'
    BY <2>2 DEF PollEvents, deferVars, DeferredInOrder
  <2>3. ASSUME NEW h \in AllHandlers, Dispatch(h) PROVE DeferInv'
    BY <2>3 DEF Dispatch, deferVars, DeferredInOrder
  <2>4. CASE TakeFunctions
    <3>1. local = <<>> /\ local' = functions /\ functions' = <<>> /\ executed' = executed
      BY <2>4 DEF TakeFunctions
    <3>2. executed \o functions \o <<>> = executed \o <<>> \o functions
      BY DEF TypeOK
    <3> QED
      BY <2>4, <3>1, <3>2 DEF TakeFunctions, DeferredInOrder
  <2>5. CASE ExecuteNext
    <3>1. executed \in Seq(Nat) /\ local \in Seq(Nat)
      BY DEF TypeOK
    <3>2. executed' \o local' = executed \o local
      BY <2>5, <3>1, MoveHead DEF ExecuteNext
    <3> QED
      BY <2>5, <3>2 DEF ExecuteNext, DeferredInOrder
  <2>6. CASE DeferrablesReturn
    BY <2>6 DEF DeferrablesReturn, deferVars, DeferredInOrder
  <2> QED
    BY <1>6, <2>1, <2>2, <2>3, <2>4, <2>5, <2>6 DEF LoopNext
<1> QED
  BY <1>1, <1>2, <1>3, <1>4, <1>5, <1>6 DEF Next

(* Deferrables: every function handed to defer() is executed exactly once  *)
(* and in order, whatever the threads that defer and the loop thread do.   *)
THEOREM DeferIsFifo == Spec => []DeferredInOrder
<1>1. Init => DeferInv
  <2> SUFFICES ASSUME Init PROVE DeferInv
    OBVIOUS
  <2>1. TypeOK
    BY InitCallInv DEF CallInv
  <2>2. <<>> \o <<>> \o <<>> = [k \in 1 .. 0 |-> k]
    OBVIOUS
  <2> QED
    BY <2>1, <2>2 DEF DeferInv, DeferredInOrder, Init
<1>2. DeferInv => DeferredInOrder
  BY DEF DeferInv
<1> QED
  BY <1>1, <1>2, DeferInvStep, PTL DEF Spec
=============================================================================
