------------------------- MODULE UnboundBufferProofs -------------------------
(***************************************************************************)
(* Proofs about UnboundBuffer, for any sets of buffers and peers and any   *)
(* bounds on the operations and aborts.                                    *)
(***************************************************************************)
EXTENDS UnboundBuffer, TLAPS

-----------------------------------------------------------------------------
(* Types.                                                                  *)
LEMMA InitTypes == Init => TypeOK
BY BoundsAssumption DEF Init, TypeOK, Zero, Op, NoOp, Kinds, Places, Phases

LEMMA OpMoves ==
  ASSUME NEW o \in Op, NEW place \in Places
  PROVE  /\ [o EXCEPT !.place = place] \in Op
         /\ \A p \in Peers : [o EXCEPT !.place = place, !.pair = p] \in Op
BY DEF Op

LEMMA NextTypes == TypeOK /\ [Next]_vars => TypeOK'
<1> SUFFICES ASSUME TypeOK, [Next]_vars PROVE TypeOK'
    OBVIOUS
<1> USE BoundsAssumption DEF TypeOK, buffer, history
<1>1. CASE UNCHANGED vars
      BY <1>1 DEF vars
<1>2. ASSUME NEW b \in Buffers, NEW p \in Peers, Send(b, p) \/ Recv(b, p)
      PROVE  TypeOK'
  <2>1. ASSUME NEW k \in Kinds, NEW place \in Places, Post(b, k, p, {p}, place)
        PROVE  TypeOK'
        BY <2>1 DEF Post, Op
  <2>2. CASE PostThrows(b, p)
        BY <2>2 DEF PostThrows, Phases
  <2> QED
      BY <1>2, <2>1, <2>2 DEF Send, Recv, Kinds, Places
<1>3. ASSUME NEW b \in Buffers, NEW from \in SUBSET Peers \ {{}}, RecvAny(b, from)
      PROVE  TypeOK'
      BY <1>3 DEF RecvAny, Post, Op, Kinds, Places
<1>4. ASSUME NEW b \in Buffers, LoopThread(b) PROVE TypeOK'
  <2>1. CASE HandleRemotePendingRecv(b)
    <3>1. [op[b] EXCEPT !.place = "tx"] \in Op
          BY OpMoves DEF Places
    <3> QED
        BY <2>1, <3>1 DEF HandleRemotePendingRecv
  <2>2. CASE PrepareRead(b)
    <3>1. [op[b] EXCEPT !.place = "rx"] \in Op
          BY OpMoves DEF Places
    <3> QED
        BY <2>2, <3>1 DEF PrepareRead
  <2>3. ASSUME NEW p \in Peers, HandleRemotePendingSend(b, p) PROVE TypeOK'
    <3>1. [op[b] EXCEPT !.place = "localPendingRecv", !.pair = p] \in Op
          BY OpMoves DEF Places
    <3> QED
        BY <2>3, <3>1 DEF HandleRemotePendingSend
  <2>4. CASE Acquire(b)
        BY <2>4 DEF Acquire
  <2> QED
      BY <1>4, <2>1, <2>2, <2>3, <2>4 DEF LoopThread
<1>5. ASSUME NEW b \in Buffers, Release(b) PROVE TypeOK'
      BY <1>5 DEF Release
<1>6. ASSUME NEW b \in Buffers, HandleCompletion(b) PROVE TypeOK'
      BY <1>6 DEF HandleCompletion, Op, NoOp, Kinds, Places
<1>7. ASSUME NEW p \in Peers, PairFails(p) PROVE TypeOK'
      BY <1>7 DEF PairFails, SignalException
<1>8. ASSUME NEW b \in Buffers, NEW k \in Kinds, WaitBegin(b, k) PROVE TypeOK'
      BY <1>8 DEF WaitBegin, Wait, Phases
<1>9. ASSUME NEW b \in Buffers, NEW k \in Kinds, Abort(b, k) PROVE TypeOK'
      BY <1>9 DEF Abort
<1>10. ASSUME NEW b \in Buffers, Waiting(b) PROVE TypeOK'
  <2>1. ASSUME NEW k \in Kinds, WaitThrows(b, k) PROVE TypeOK'
        BY <2>1 DEF WaitThrows, Phases
  <2>2. ASSUME NEW k \in Kinds, WaitAborted(b, k) PROVE TypeOK'
    <3>1. /\ [naborted[b] EXCEPT ![k] = @ + 1] \in [Kinds -> Nat]
          /\ [abortWait[b] EXCEPT ![k] = FALSE] \in [Kinds -> BOOLEAN]
          OBVIOUS
    <3> QED
        BY <2>2, <3>1 DEF WaitAborted, Phases
  <2>3. ASSUME NEW k \in Kinds, WaitReturns(b, k) PROVE TypeOK'
    <3>1. completions[b][k] > 0
          BY <2>3 DEF WaitReturns, Ready
    <3>2. /\ [completions[b] EXCEPT ![k] = @ - 1] \in [Kinds -> Nat]
          /\ [nreturned[b] EXCEPT ![k] = @ + 1] \in [Kinds -> Nat]
          BY <3>1
    <3> QED
        BY <2>3, <3>2 DEF WaitReturns, Phases
  <2>4. ASSUME NEW k \in Kinds, WaitTimesOut(b, k) PROVE TypeOK'
        BY <2>4 DEF WaitTimesOut, Phases
  <2>5. ASSUME NEW p \in Peers, SignalExceptionExternal(b, p) PROVE TypeOK'
        BY <2>5 DEF SignalExceptionExternal, SignalException
  <2>6. CASE ThrowTimeout(b)
        BY <2>6 DEF ThrowTimeout, Phases
  <2>7. CASE DestroyEnd(b)
        BY <2>7 DEF DestroyEnd, Phases
  <2> QED
      BY <1>10, <2>1, <2>2, <2>3, <2>4, <2>5, <2>6, <2>7 DEF Waiting
<1>11. ASSUME NEW b \in Buffers, DestroyBegin(b) PROVE TypeOK'
       BY <1>11 DEF DestroyBegin, Phases
<1> QED
    BY <1>1, <1>2, <1>3, <1>4, <1>5, <1>6, <1>7, <1>8, <1>9, <1>10, <1>11 DEF Next

(* Every variable keeps its type: completion counters never go below zero, *)
(* whatever the order of completions, aborts and waits.                    *)
THEOREM TypeCorrect == Spec => []TypeOK
<1> QED
    BY InitTypes, NextTypes, PTL DEF Spec

-----------------------------------------------------------------------------
(* Counting.  Only a completion, a wait that returns and an abort change   *)
(* the counters.                                                           *)
Reported(b, k) == completions[b][k] + nreturned[b][k] = ncompleted[b][k]
Interrupted(b, k) == naborted[b][k] + (IF abortWait[b][k] THEN 1 ELSE 0) \leq naborts[b][k]
Counted == \A b \in Buffers, k \in Kinds : Reported(b, k) /\ Interrupted(b, k)

counters == <<completions, nreturned, ncompleted, naborted, abortWait, naborts>>

LEMMA NextCounted == TypeOK /\ Counted /\ [Next]_vars => Counted'
<1> SUFFICES ASSUME TypeOK, Counted, [Next]_vars,
                    NEW c \in Buffers, NEW l \in Kinds
             PROVE  Reported(c, l)' /\ Interrupted(c, l)'
    BY DEF Counted
<1> USE DEF buffer, history
<1>0. Reported(c, l) /\ Interrupted(c, l)
      BY DEF Counted
<1>a. CASE UNCHANGED counters
      BY <1>0, <1>a DEF counters, Reported, Interrupted
<1>1. CASE UNCHANGED vars
      BY <1>1, <1>a DEF vars, counters
<1>2. ASSUME NEW b \in Buffers, NEW p \in Peers, Send(b, p) \/ Recv(b, p)
      PROVE  UNCHANGED counters
      BY <1>2 DEF Send, Recv, Post, PostThrows, counters
<1>3. ASSUME NEW b \in Buffers, NEW from \in SUBSET Peers \ {{}}, RecvAny(b, from)
      PROVE  UNCHANGED counters
      BY <1>3 DEF RecvAny, Post, counters
<1>4. ASSUME NEW b \in Buffers, LoopThread(b) \/ Release(b) PROVE UNCHANGED counters
      BY <1>4 DEF LoopThread, HandleRemotePendingRecv, PrepareRead, HandleRemotePendingSend,
                  Acquire, Release, counters
<1>5. ASSUME NEW b \in Buffers, HandleCompletion(b)
      PROVE  Reported(c, l)' /\ Interrupted(c, l)'
  <2>1. op[b].kind \in Kinds
        BY DEF TypeOK, Op
  <2>2. Reported(c, l)'
        BY <1>0, <1>5, <2>1 DEF HandleCompletion, Reported, TypeOK
  <2>3. Interrupted(c, l)'
        BY <1>0, <1>5 DEF HandleCompletion, Interrupted
  <2> QED
      BY <2>2, <2>3
<1>6. ASSUME NEW p \in Peers, PairFails(p) PROVE UNCHANGED counters
      BY <1>6 DEF PairFails, counters
<1>7. ASSUME NEW b \in Buffers, NEW k \in Kinds, WaitBegin(b, k) PROVE UNCHANGED counters
      BY <1>7 DEF WaitBegin, counters
<1>8. ASSUME NEW b \in Buffers, NEW k \in Kinds, Abort(b, k)
      PROVE  Reported(c, l)' /\ Interrupted(c, l)'
  <2>1. Reported(c, l)'
        BY <1>0, <1>8 DEF Abort, Reported
  <2>2. Interrupted(c, l)'
        BY <1>0, <1>8, BoundsAssumption DEF Abort, Interrupted, TypeOK
  <2> QED
      BY <2>1, <2>2
<1>9. ASSUME NEW b \in Buffers, Waiting(b)
      PROVE  Reported(c, l)' /\ Interrupted(c, l)'
  <2>1. ASSUME NEW k \in Kinds, WaitAborted(b, k)
        PROVE  Reported(c, l)' /\ Interrupted(c, l)'
    <3>1. Reported(c, l)'
          BY <1>0, <2>1 DEF WaitAborted, Reported
    <3>2. Interrupted(c, l)'
          BY <1>0, <2>1, BoundsAssumption DEF WaitAborted, Interrupted, TypeOK
    <3> QED
        BY <3>1, <3>2
  <2>2. ASSUME NEW k \in Kinds, WaitReturns(b, k)
        PROVE  Reported(c, l)' /\ Interrupted(c, l)'
    <3>1. Reported(c, l)'
          BY <1>0, <2>2 DEF WaitReturns, Reported, TypeOK
    <3>2. Interrupted(c, l)'
          BY <1>0, <2>2 DEF WaitReturns, Interrupted
    <3> QED
        BY <3>1, <3>2
  <2>3. ASSUME NEW k \in Kinds, WaitThrows(b, k) \/ WaitTimesOut(b, k) PROVE UNCHANGED counters
        BY <2>3 DEF WaitThrows, WaitTimesOut, counters
  <2>4. ASSUME NEW p \in Peers, SignalExceptionExternal(b, p) PROVE UNCHANGED counters
        BY <2>4 DEF SignalExceptionExternal, counters
  <2>5. ThrowTimeout(b) \/ DestroyEnd(b) => UNCHANGED counters
        BY DEF ThrowTimeout, DestroyEnd, counters
  <2> QED
      BY <1>9, <1>a, <2>1, <2>2, <2>3, <2>4, <2>5 DEF Waiting
<1>10. ASSUME NEW b \in Buffers, DestroyBegin(b) PROVE UNCHANGED counters
       BY <1>10 DEF DestroyBegin, counters
<1> QED
    BY <1>a, <1>1, <1>2, <1>3, <1>4, <1>5, <1>6, <1>7, <1>8, <1>9, <1>10 DEF Next

LEMMA CountedAlways == Spec => [](TypeOK /\ Counted)
<1>1. Init => Counted
      BY DEF Init, Counted, Reported, Interrupted, Zero
<1> QED
    BY <1>1, InitTypes, NextTypes, NextCounted, PTL DEF Spec

(* No completion is lost or reported twice: handleSendCompletion and       *)
(* handleRecvCompletion are matched by waits that return true, one by one. *)
THEOREM CompletionsAreReported == Spec => []CompletionsReported
<1>1. Counted => CompletionsReported
      BY DEF Counted, Reported, CompletionsReported
<1> QED
    BY <1>1, CountedAlways, PTL

(* There are never more interrupted waits than aborts.                     *)
THEOREM AbortsEndOneWait == Spec => []AbortEndsOneWait
<1>1. Counted => AbortEndsOneWait
      BY DEF Counted, Interrupted, AbortEndsOneWait
<1> QED
    BY <1>1, CountedAlways, PTL

-----------------------------------------------------------------------------
(* Ownership.  A buffer in use exists and its pair is open; a buffer that  *)
(* was signalled has its operation with a failed pair; a thread that timed *)
(* out has closed the pairs it visited; after a throw every pair that      *)
(* could fulfil the operation is closed.                                   *)
Placed(b) ==
  /\ op[b].place = "pendingRecv" => op[b].pair = NoPeer
  /\ op[b].place \in {"localPendingSend", "localPendingRecv", "tx", "rx"} => op[b].pair \in Peers
  /\ op[b].place = "none" => op[b].pair = NoPeer /\ op[b].from = {}
Used(b) ==
  inUse[b] => /\ thread[b] # "gone"
              /\ op[b].place \in {"tx", "rx"}
              /\ op[b].pair \in Peers
              /\ ~pairEx[op[b].pair]
Failed(b) == bufferEx[b] => op[b].pair \in Peers /\ pairEx[op[b].pair]
Told(b) == thread[b] = "timed out" => \A p \in Peers \ toSignal[b] : pairEx[p]
Closed(b) ==
  thread[b] = "threw" => /\ op[b].pair \in Peers => pairEx[op[b].pair]
                         /\ op[b].pair = NoPeer => \A p \in op[b].from : pairEx[p]

Owned(b) == Placed(b) /\ Used(b) /\ Failed(b) /\ Told(b) /\ Closed(b)
Ownership == \A b \in Buffers : Owned(b)

LEMMA NextOwnership == TypeOK /\ Ownership /\ [Next]_vars => Ownership'
<1> SUFFICES ASSUME TypeOK, Ownership, [Next]_vars, NEW c \in Buffers
             PROVE  Owned(c)'
    BY DEF Ownership
<1> USE PeersAssumption DEF buffer, history
<1>0. Owned(c)
      BY DEF Ownership
<1>t. /\ op[c] \in Op /\ thread[c] \in Phases /\ inUse[c] \in BOOLEAN
      /\ bufferEx[c] \in BOOLEAN /\ toSignal[c] \in SUBSET Peers
      BY DEF TypeOK
<1> USE DEF Owned, Placed, Used, Failed, Told, Closed
<1>1. CASE UNCHANGED vars
      BY <1>0, <1>1 DEF vars
<1>2. ASSUME NEW b \in Buffers, NEW k \in Kinds, NEW p \in Peers \cup {NoPeer},
             NEW from \in SUBSET Peers, NEW place \in Places,
             place = "pendingRecv" => p = NoPeer,
             place # "pendingRecv" => p \in Peers /\ ~pairEx[p],
             place # "none",
             Post(b, k, p, from, place)
      PROVE  Owned(c)'
  <2>1. CASE c = b
    <3>1. op'[c] = [kind |-> k, place |-> place, pair |-> p, from |-> from]
          BY <1>2, <2>1 DEF Post, TypeOK
    <3>2. op[c].pair = NoPeer /\ thread'[c] = "ready"
          BY <1>2, <2>1 DEF Post, NoOp
    <3>3. ~inUse'[c] /\ ~bufferEx'[c]
          BY <1>0, <1>2, <3>2 DEF Post
    <3> QED
        BY <1>2, <3>1, <3>2, <3>3 DEF Places
  <2>2. CASE c # b
        BY <1>0, <1>2, <2>2 DEF Post, TypeOK
  <2> QED
      BY <2>1, <2>2
<1>3. ASSUME NEW b \in Buffers, NEW p \in Peers, PostThrows(b, p) PROVE Owned(c)'
  <2>1. CASE c = b
    <3>1. op[c].pair = NoPeer /\ op[c].from = {} /\ op[c].place = "none"
          BY <1>3, <2>1 DEF PostThrows, NoOp
    <3>2. thread'[c] = "threw" /\ op'[c] = op[c] /\ UNCHANGED <<inUse, bufferEx, pairEx>>
          BY <1>3, <2>1 DEF PostThrows, TypeOK
    <3> QED
        BY <1>0, <3>1, <3>2
  <2>2. CASE c # b
        BY <1>0, <1>3, <2>2 DEF PostThrows, TypeOK
  <2> QED
      BY <2>1, <2>2
<1>4. ASSUME NEW b \in Buffers, NEW p \in Peers, Send(b, p) \/ Recv(b, p) PROVE Owned(c)'
      BY <1>2, <1>3, <1>4 DEF Send, Recv, Kinds, Places
<1>5. ASSUME NEW b \in Buffers, NEW from \in SUBSET Peers \ {{}}, RecvAny(b, from)
      PROVE  Owned(c)'
      BY <1>2, <1>5 DEF RecvAny, Kinds, Places
<1>6. ASSUME NEW b \in Buffers, LoopThread(b) PROVE Owned(c)'
  <2>1. CASE HandleRemotePendingRecv(b) \/ PrepareRead(b)
    <3>1. CASE c = b
      <4>1. /\ op[c].place \in {"localPendingSend", "localPendingRecv"}
            /\ op'[c].place \in {"tx", "rx"}
            /\ op'[c].pair = op[c].pair /\ op'[c].from = op[c].from
            BY <1>t, <2>1, <3>1 DEF HandleRemotePendingRecv, PrepareRead, TypeOK, Op
      <4>2. UNCHANGED <<thread, inUse, bufferEx, pairEx, toSignal>>
            BY <2>1 DEF HandleRemotePendingRecv, PrepareRead
      <4> QED
          BY <1>0, <4>1, <4>2
    <3>2. CASE c # b
          BY <1>0, <2>1, <3>2 DEF HandleRemotePendingRecv, PrepareRead, TypeOK
    <3> QED
        BY <3>1, <3>2
  <2>2. ASSUME NEW p \in Peers, HandleRemotePendingSend(b, p) PROVE Owned(c)'
        BY <1>0, <1>t, <2>2 DEF HandleRemotePendingSend, TypeOK, Op
  <2>3. CASE Acquire(b)
        BY <1>0, <1>t, <2>3 DEF Acquire, Alive, TypeOK
  <2> QED
      BY <1>6, <2>1, <2>2, <2>3 DEF LoopThread
<1>7. ASSUME NEW b \in Buffers, Release(b) PROVE Owned(c)'
      BY <1>0, <1>t, <1>7 DEF Release, TypeOK
<1>8. ASSUME NEW b \in Buffers, HandleCompletion(b) PROVE Owned(c)'
  <2>1. CASE c = b
    <3>1. op'[c] = NoOp /\ ~inUse'[c]
          BY <1>8, <2>1 DEF HandleCompletion, TypeOK
    <3>2. ~bufferEx'[c] /\ UNCHANGED <<thread, toSignal, pairEx>>
          BY <1>0, <1>8, <2>1 DEF HandleCompletion
    <3>3. op'[c].place = "none" /\ op'[c].pair = NoPeer /\ op'[c].from = {}
          BY <3>1 DEF NoOp
    <3> QED
        BY <1>0, <3>1, <3>2, <3>3
  <2>2. CASE c # b
        BY <1>0, <1>8, <2>2 DEF HandleCompletion, TypeOK
  <2> QED
      BY <2>1, <2>2
<1>9. ASSUME NEW p \in Peers, SignalException(p),
             \A b \in Buffers : inUse[b] => op[b].pair # p,
             UNCHANGED <<op, thread, inUse>>,
             toSignal'[c] = toSignal[c] \/ toSignal'[c] = toSignal[c] \ {p}
      PROVE  Owned(c)'
  <2>1. \A q \in Peers : pairEx'[q] <=> pairEx[q] \/ q = p
        BY <1>9 DEF SignalException, TypeOK
  <2>2. bufferEx'[c] => bufferEx[c] \/ op[c].pair = p
        BY <1>9 DEF SignalException, Signalled
  <2>3. Placed(c)' /\ Used(c)'
        BY <1>0, <1>9, <2>1
  <2>4. Failed(c)'
        BY <1>0, <1>9, <2>1, <2>2
  <2>5. Told(c)'
        BY <1>0, <1>9, <1>t, <2>1
  <2>6. Closed(c)'
    <3>1. thread'[c] = thread[c] /\ op'[c] = op[c]
          BY <1>9
    <3>2. \A q \in Peers : pairEx[q] => pairEx'[q]
          BY <2>1
    <3>3. op[c].from \subseteq Peers
          BY <1>t DEF Op
    <3> QED
        BY <1>0, <3>1, <3>2, <3>3
  <2> QED
      BY <2>3, <2>4, <2>5, <2>6
<1>10. ASSUME NEW p \in Peers, PairFails(p) PROVE Owned(c)'
       BY <1>9, <1>10 DEF PairFails, Unlocked
<1>11. ASSUME NEW b \in Buffers, NEW k \in Kinds, WaitBegin(b, k) PROVE Owned(c)'
       BY <1>0, <1>11 DEF WaitBegin, Wait, TypeOK
<1>12. ASSUME NEW b \in Buffers, NEW k \in Kinds, Abort(b, k) PROVE Owned(c)'
       BY <1>0, <1>12 DEF Abort
<1>13. ASSUME NEW b \in Buffers, Waiting(b) PROVE Owned(c)'
  <2>1. ASSUME NEW k \in Kinds, WaitThrows(b, k) PROVE Owned(c)'
        BY <1>0, <2>1 DEF WaitThrows, TypeOK
  <2>2. ASSUME NEW k \in Kinds, WaitAborted(b, k) \/ WaitReturns(b, k) PROVE Owned(c)'
        BY <1>0, <2>2, ZenonT(30) DEF WaitAborted, WaitReturns, TypeOK
  <2>3. ASSUME NEW k \in Kinds, WaitTimesOut(b, k) PROVE Owned(c)'
        BY <1>0, <2>3 DEF WaitTimesOut, TypeOK
  <2>4. ASSUME NEW p \in Peers, SignalExceptionExternal(b, p) PROVE Owned(c)'
    <3>1. toSignal'[c] = toSignal[c] \/ toSignal'[c] = toSignal[c] \ {p}
          BY <2>4 DEF SignalExceptionExternal, TypeOK
    <3>2. CASE SignalException(p)
          BY <1>9, <2>4, <3>1, <3>2 DEF SignalExceptionExternal, Unlocked
    <3>3. CASE pairEx[p] /\ UNCHANGED <<pairEx, bufferEx>>
          BY <1>0, <2>4, <3>1, <3>3 DEF SignalExceptionExternal
    <3> QED
        BY <2>4, <3>2, <3>3 DEF SignalExceptionExternal
  <2>5. CASE ThrowTimeout(b)
    <3>1. CASE c = b
      <4>1. \A p \in Peers : pairEx[p]
            BY <1>0, <2>5, <3>1 DEF ThrowTimeout
      <4> QED
          BY <1>0, <1>t, <2>5, <3>1, <4>1 DEF ThrowTimeout, TypeOK, Op
    <3>2. CASE c # b
          BY <1>0, <2>5, <3>2 DEF ThrowTimeout, TypeOK
    <3> QED
        BY <3>1, <3>2
  <2>6. CASE DestroyEnd(b)
        BY <1>0, <2>6 DEF DestroyEnd, TypeOK
  <2> QED
      BY <1>13, <2>1, <2>2, <2>3, <2>4, <2>5, <2>6 DEF Waiting
<1>14. ASSUME NEW b \in Buffers, DestroyBegin(b) PROVE Owned(c)'
       BY <1>0, <1>14 DEF DestroyBegin, TypeOK
<1> QED
    BY <1>1, <1>4, <1>5, <1>6, <1>7, <1>8, <1>10, <1>11, <1>12, <1>13, <1>14 DEF Next

LEMMA OwnershipAlways == Spec => [](TypeOK /\ Ownership)
<1>1. Init => Ownership
      BY PeersAssumption
         DEF Init, Ownership, Owned, Placed, Used, Failed, Told, Closed, NoOp
<1> QED
    BY <1>1, InitTypes, NextTypes, NextOwnership, PTL DEF Spec

(* The loop thread never holds a pointer to a buffer whose destructor has  *)
(* returned (~ShareableNonOwningPtr).                                      *)
THEOREM DestroyedIsUnused == Spec => []NoUseAfterDestroy
<1>1. Ownership => NoUseAfterDestroy
      BY DEF Ownership, Owned, Used, NoUseAfterDestroy
<1> QED
    BY <1>1, OwnershipAlways, PTL

(* Once waitSend or waitRecv has thrown, the memory of the buffer is       *)
(* neither read nor written by the transport.                              *)
THEOREM ThrowEndsIo == Spec => []NoIoAfterThrow
<1>1. Ownership => NoIoAfterThrow
      BY DEF Ownership, Owned, Used, Closed, NoIoAfterThrow
<1> QED
    BY <1>1, OwnershipAlways, PTL
=============================================================================
