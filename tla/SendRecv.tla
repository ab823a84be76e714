------------------------------ MODULE SendRecv ------------------------------
(***************************************************************************)
(* How unbound buffers are matched: Pair::send, Pair::recv and             *)
(* Pair::tryRecv, the notifications NOTIFY_SEND_READY / NOTIFY_RECV_READY  *)
(* and their handlers (gloo/transport/tcp/pair.cc), the tallies of the     *)
(* transport context (gloo/transport/context.{h,cc}) and recv-from-any     *)
(* (gloo/transport/tcp/context.cc).                                        *)
(*                                                                         *)
(* Every rank has a pair for every other rank.  A pair's operations run    *)
(* under the pair's mutex and, from the moment they touch a tally, under   *)
(* the context's mutex until they return, so each is one atomic step; only *)
(* recvFromAny gives up its lock between finding a candidate rank and      *)
(* trying to receive from it.  channel[i][j] is everything written by the  *)
(* pair of i for j and not yet handled by the loop thread of j: the        *)
(* transmit queue tx_ followed by the TCP stream.                          *)
(***************************************************************************)
EXTENDS Naturals, Sequences, FiniteSets, SequencesExt

CONSTANTS
  Ranks,
  Slots,
  MaxSends,   \* MaxSends[i]: bound on the sends posted by rank i
  MaxRecvs    \* MaxRecvs[i]: bound on the receives posted by rank i

ASSUME RanksAssumption == IsFiniteSet(Ranks)
ASSUME BoundsAssumption == MaxSends \in [Ranks -> Nat] /\ MaxRecvs \in [Ranks -> Nat]

VARIABLES
  localPendingSend,  \* [i][j][s]: sends i -> j waiting for a notification
  localPendingRecv,  \* [j][i][s]: receives at j for which i was notified
  sendList,          \* [j][s]: ranks with a pending send to j, in order
  recvList,          \* [i][s]: ranks with a pending receive from i, in order
  expected,          \* [j][s]: ranks that owe j a notification to be dropped
  pendingRecv,       \* [j][s]: recv-from-any waiting at j
  anyCalls,          \* [j]: calls of recvFromAny in progress at j
  channel,           \* [i][j]: messages in flight from i to j
  sent,              \* [i][j][s]: sends posted so far
  delivered,         \* [i][j][s]: payloads received so far
  nsend, nrecv       \* [i]: operations posted so far

tallies == <<sendList, recvList, expected>>
history == <<sent, delivered, nsend, nrecv>>
vars == <<localPendingSend, localPendingRecv, tallies, pendingRecv, anyCalls,
          channel, history>>

(* A receive: its number at its rank, and the ranks it accepts.            *)
Recv == [id : Nat, from : SUBSET Ranks]

NoRank == "no rank"

(* A call of recvFromAny: the receive, its slot, the rank to try next.     *)
AnyCall == [recv : Recv, slot : Slots, rank : Ranks \cup {NoRank}]

(* The preamble's opcode and slot, and which send a payload belongs to.    *)
NotifySendReady(s) == [opcode |-> "NOTIFY_SEND_READY", slot |-> s, id |-> 0]
NotifyRecvReady(s) == [opcode |-> "NOTIFY_RECV_READY", slot |-> s, id |-> 0]
SendUnboundBuffer(s, n) == [opcode |-> "SEND_UNBOUND_BUFFER", slot |-> s, id |-> n]

Message == [opcode : {"NOTIFY_SEND_READY", "NOTIFY_RECV_READY", "SEND_UNBOUND_BUFFER"},
            slot : Slots, id : Nat]

TypeOK ==
  /\ localPendingSend \in [Ranks -> [Ranks -> [Slots -> Seq(Nat)]]]
  /\ localPendingRecv \in [Ranks -> [Ranks -> [Slots -> Seq(Recv)]]]
  /\ sendList \in [Ranks -> [Slots -> Seq(Ranks)]]
  /\ recvList \in [Ranks -> [Slots -> Seq(Ranks)]]
  /\ expected \in [Ranks -> [Slots -> Seq(Ranks)]]
  /\ pendingRecv \in [Ranks -> [Slots -> Seq(Recv)]]
  /\ anyCalls \in [Ranks -> SUBSET AnyCall]
  /\ channel \in [Ranks -> [Ranks -> Seq(Message)]]
  /\ sent \in [Ranks -> [Ranks -> [Slots -> Nat]]]
  /\ delivered \in [Ranks -> [Ranks -> [Slots -> Nat]]]
  /\ nsend \in [Ranks -> Nat]
  /\ nrecv \in [Ranks -> Nat]

Init ==
  /\ localPendingSend = [i \in Ranks |-> [j \in Ranks |-> [s \in Slots |-> <<>>]]]
  /\ localPendingRecv = [i \in Ranks |-> [j \in Ranks |-> [s \in Slots |-> <<>>]]]
  /\ sendList = [i \in Ranks |-> [s \in Slots |-> <<>>]]
  /\ recvList = [i \in Ranks |-> [s \in Slots |-> <<>>]]
  /\ expected = [i \in Ranks |-> [s \in Slots |-> <<>>]]
  /\ pendingRecv = [i \in Ranks |-> [s \in Slots |-> <<>>]]
  /\ anyCalls = [i \in Ranks |-> {}]
  /\ channel = [i \in Ranks |-> [j \in Ranks |-> <<>>]]
  /\ sent = [i \in Ranks |-> [j \in Ranks |-> [s \in Slots |-> 0]]]
  /\ delivered = [i \in Ranks |-> [j \in Ranks |-> [s \in Slots |-> 0]]]
  /\ nsend = [i \in Ranks |-> 0]
  /\ nrecv = [i \in Ranks |-> 0]

-----------------------------------------------------------------------------
(* Mutant of Listed: only the head of the list is compared.                *)
ListedFirst(list, r) == list # <<>> /\ Head(list) = r

(* Tally::List.  A tally without ranks is erased (LazyTally), so a missing *)
(* tally is an empty list.                                                 *)
Listed(list, r) == \E k \in DOMAIN list : list[k] = r

(* shift: remove the first occurrence of r.                                *)
FirstIndex(list, r) ==
  CHOOSE k \in DOMAIN list : list[k] = r /\ \A l \in 1 .. k - 1 : list[l] # r

(* Mutant of Shift: every occurrence of r is erased.                       *)
ShiftAll(list, r) == SelectSeq(list, LAMBDA q : q # r)

Shift(list, r) == RemoveAt(list, FirstIndex(list, r))

(* Context::Mutator at rank j, for slot s and rank i: push to or shift     *)
(* from a tally.                                                           *)
PushTally(tally, j, s, i) == [tally EXCEPT ![j][s] = Append(@, i)]
ShiftTally(tally, j, s, i) == [tally EXCEPT ![j][s] = Shift(@, i)]

(* Mutant of Enqueue: push_front instead of push_back.                     *)
EnqueueFront(queues, i, j, s, x) == [queues EXCEPT ![i][j][s] = <<x>> \o @]

(* The queues of the pair of rank i for rank j.                            *)
Enqueue(queues, i, j, s, x) == [queues EXCEPT ![i][j][s] = Append(@, x)]
Dequeue(queues, i, j, s) == [queues EXCEPT ![i][j][s] = Tail(@)]

(* sendAsyncMode: pairs write in order, the loop thread of the peer reads  *)
(* in order.                                                               *)
Write(ch, i, j, m) == [ch EXCEPT ![i][j] = Append(@, m)]
Read(ch, i, j) == [ch EXCEPT ![i][j] = Tail(@)]

-----------------------------------------------------------------------------
(* Pair::send of an unbound buffer, at i for j: write the payload now if   *)
(* j is known to wait for one, else queue it; notify j either way.         *)
Send(i, j, s) ==
  LET n == sent[i][j][s] + 1 IN
  /\ i # j
  /\ nsend[i] < MaxSends[i]
  /\ nsend' = [nsend EXCEPT ![i] = @ + 1]
  /\ sent' = [sent EXCEPT ![i][j][s] = n]
  /\ \/ /\ Listed(recvList[i][s], j)
        /\ recvList' = ShiftTally(recvList, i, s, j)
        /\ channel' = Write(Write(channel, i, j, NotifySendReady(s)),
                         i, j, SendUnboundBuffer(s, n))
        /\ UNCHANGED localPendingSend
     \/ /\ ~Listed(recvList[i][s], j)
        /\ localPendingSend' = Enqueue(localPendingSend, i, j, s, n)
        /\ channel' = Write(channel, i, j, NotifySendReady(s))
        /\ UNCHANGED recvList
  /\ UNCHANGED <<localPendingRecv, sendList, expected, pendingRecv, anyCalls, delivered, nrecv>>

(* Mutant of CommitRecv: the sender is not notified.                       *)
CommitSilently(j, i, s, recv, ch) ==
  /\ localPendingRecv' = Enqueue(localPendingRecv, j, i, s, recv)
  /\ channel' = ch

(* The common end of Pair::recv, Pair::tryRecv and a matched               *)
(* recv-from-any: queue the receive and notify the sender.                 *)
CommitRecv(j, i, s, recv, ch) ==
  /\ localPendingRecv' = Enqueue(localPendingRecv, j, i, s, recv)
  /\ channel' = Write(ch, j, i, NotifyRecvReady(s))

(* Pair::recv of an unbound buffer, at j for i: take the send              *)
(* notification if it came already, else make sure it is dropped.          *)
RecvFrom(j, i, s) ==
  /\ i # j
  /\ nrecv[j] < MaxRecvs[j]
  /\ nrecv' = [nrecv EXCEPT ![j] = @ + 1]
  /\ \/ /\ Listed(sendList[j][s], i)
        /\ sendList' = ShiftTally(sendList, j, s, i)
        /\ UNCHANGED expected
     \/ /\ ~Listed(sendList[j][s], i)
        /\ expected' = PushTally(expected, j, s, i)
        /\ UNCHANGED sendList
  /\ CommitRecv(j, i, s, [id |-> nrecv[j] + 1, from |-> {i}], channel)
  /\ UNCHANGED <<localPendingSend, recvList, pendingRecv, anyCalls, sent, delivered, nsend>>

(* Context::recvFromAny is called by some thread of rank j.                *)
RecvFromAny(j, s, from) ==
  /\ from \subseteq Ranks \ {j}
  /\ from # {}
  /\ nrecv[j] < MaxRecvs[j]
  /\ nrecv' = [nrecv EXCEPT ![j] = @ + 1]
  /\ anyCalls' = [anyCalls EXCEPT ![j] = @ \cup
                    {[recv |-> [id |-> nrecv[j] + 1, from |-> from],
                      slot |-> s, rank |-> NoRank]}]
  /\ UNCHANGED <<localPendingSend, localPendingRecv, tallies, pendingRecv, channel,
                 sent, delivered, nsend>>

(* The call goes on with another rank to try.                              *)
Continue(j, call, r) ==
  anyCalls' = [anyCalls EXCEPT ![j] = (@ \ {call}) \cup {[call EXCEPT !.rank = r]}]

Return(j, call) == anyCalls' = [anyCalls EXCEPT ![j] = @ \ {call}]

(* Mutant of RecvFromAnyFindRank: only the head of the list is considered. *)
FindRankAtHead(j, call) ==
  LET list == sendList[j][call.slot] IN
  /\ call.rank = NoRank
  /\ \/ /\ list # <<>> /\ Head(list) \in call.recv.from
        /\ Continue(j, call, Head(list))
        /\ UNCHANGED pendingRecv
     \/ /\ list # <<>> => Head(list) \notin call.recv.from
        /\ pendingRecv' = [pendingRecv EXCEPT ![j][call.slot] = Append(@, call.recv)]
        /\ Return(j, call)
  /\ UNCHANGED <<localPendingSend, localPendingRecv, tallies, channel, history>>

(* recvFromAnyFindRank: the first listed sender that is acceptable, or     *)
(* register the receive if there is none.                                  *)
RecvFromAnyFindRank(j, call) ==
  LET list == sendList[j][call.slot]
      eligible == {k \in DOMAIN list : list[k] \in call.recv.from}
  IN
  /\ call.rank = NoRank
  /\ \/ \E k \in eligible :
          /\ \A l \in eligible : k <= l
          /\ Continue(j, call, list[k])
          /\ UNCHANGED pendingRecv
     \/ /\ eligible = {}
        /\ pendingRecv' = [pendingRecv EXCEPT ![j][call.slot] = Append(@, call.recv)]
        /\ Return(j, call)
  /\ UNCHANGED <<localPendingSend, localPendingRecv, tallies, channel, history>>

(* Pair::tryRecv of the rank found, which may have been taken since: then  *)
(* look again.                                                             *)
TryRecv(j, call) ==
  LET i == call.rank
      s == call.slot
  IN
  /\ i # NoRank
  /\ \/ /\ Listed(sendList[j][s], i)
        /\ sendList' = ShiftTally(sendList, j, s, i)
        /\ Return(j, call)
        /\ CommitRecv(j, i, s, call.recv, channel)
     \/ /\ ~Listed(sendList[j][s], i)
        /\ Continue(j, call, NoRank)
        /\ UNCHANGED <<sendList, localPendingRecv, channel>>
  /\ UNCHANGED <<localPendingSend, recvList, expected, pendingRecv, history>>

-----------------------------------------------------------------------------
(* The loop thread of rank j reads the next message from rank i            *)
(* (Pair::read, Pair::readComplete).                                       *)
Arrives(i, j, opcode, s) ==
  /\ channel[i][j] # <<>>
  /\ Head(channel[i][j]).opcode = opcode
  /\ Head(channel[i][j]).slot = s

(* Mutant of HandleRemotePendingSend: findRecvFromAny is not consulted.    *)
HandleSendWithoutAny(i, j, s) ==
  /\ Arrives(i, j, "NOTIFY_SEND_READY", s)
  /\ IF Listed(expected[j][s], i)
     THEN expected' = ShiftTally(expected, j, s, i) /\ UNCHANGED sendList
     ELSE sendList' = PushTally(sendList, j, s, i) /\ UNCHANGED expected
  /\ channel' = Read(channel, i, j)
  /\ UNCHANGED <<localPendingSend, localPendingRecv, recvList, pendingRecv, anyCalls, history>>

(* handleRemotePendingSend: drop the notification if a receive was posted  *)
(* before it came, give it to the first recv-from-any that accepts i, or   *)
(* remember it in the tally.                                               *)
HandleRemotePendingSend(i, j, s) ==
  LET recvs == pendingRecv[j][s]
      accepting == {k \in DOMAIN recvs : i \in recvs[k].from}
      ch == Read(channel, i, j)
  IN
  /\ Arrives(i, j, "NOTIFY_SEND_READY", s)
  /\ \/ /\ Listed(expected[j][s], i)
        /\ expected' = ShiftTally(expected, j, s, i)
        /\ channel' = ch
        /\ UNCHANGED <<localPendingRecv, sendList, pendingRecv>>
     \/ /\ ~Listed(expected[j][s], i)
        /\ \E k \in accepting :
             /\ \A l \in accepting : k <= l
             /\ pendingRecv' = [pendingRecv EXCEPT ![j][s] = RemoveAt(@, k)]
             /\ CommitRecv(j, i, s, recvs[k], ch)
        /\ UNCHANGED <<sendList, expected>>
     \/ /\ ~Listed(expected[j][s], i)
        /\ accepting = {}
        /\ sendList' = PushTally(sendList, j, s, i)
        /\ channel' = ch
        /\ UNCHANGED <<localPendingRecv, expected, pendingRecv>>
  /\ UNCHANGED <<localPendingSend, recvList, anyCalls, history>>

(* handleRemotePendingRecv at rank i, sent by rank j: execute the oldest   *)
(* pending send, or remember in the tally that j waits.                    *)
HandleRemotePendingRecv(j, i, s) ==
  LET queue == localPendingSend[i][j][s]
      ch == Read(channel, j, i)
  IN
  /\ Arrives(j, i, "NOTIFY_RECV_READY", s)
  /\ \/ /\ queue # <<>>
        /\ localPendingSend' = Dequeue(localPendingSend, i, j, s)
        /\ channel' = Write(ch, i, j, SendUnboundBuffer(s, Head(queue)))
        /\ UNCHANGED recvList
     \/ /\ queue = <<>>
        /\ recvList' = PushTally(recvList, i, s, j)
        /\ channel' = ch
        /\ UNCHANGED localPendingSend
  /\ UNCHANGED <<localPendingRecv, sendList, expected, pendingRecv, anyCalls, history>>

(* A payload from i goes into the oldest buffer j has told i about         *)
(* (Pair::prepareRead enforces that there is one), and completes it.       *)
ReceivePayload(i, j, s) ==
  /\ Arrives(i, j, "SEND_UNBOUND_BUFFER", s)
  /\ localPendingRecv[j][i][s] # <<>>
  /\ localPendingRecv' = Dequeue(localPendingRecv, j, i, s)
  /\ channel' = Read(channel, i, j)
  /\ delivered' = [delivered EXCEPT ![i][j][s] = Head(channel[i][j]).id]
  /\ UNCHANGED <<localPendingSend, tallies, pendingRecv, anyCalls, sent, nsend, nrecv>>

-----------------------------------------------------------------------------
Handle(i, j, s) ==
  \/ HandleRemotePendingSend(i, j, s)
  \/ HandleRemotePendingRecv(i, j, s)
  \/ ReceivePayload(i, j, s)

(* A step of the call of recvFromAny that posted receive n.                *)
CallStep(j, n) ==
  \E call \in anyCalls[j] :
    call.recv.id = n /\ (RecvFromAnyFindRank(j, call) \/ TryRecv(j, call))

Next ==
  \/ \E i, j \in Ranks, s \in Slots :
       Send(i, j, s) \/ RecvFrom(j, i, s) \/ Handle(i, j, s)
  \/ \E j \in Ranks :
       \/ \E n \in 1 .. MaxRecvs[j] : CallStep(j, n)
       \/ \E s \in Slots, from \in SUBSET Ranks : RecvFromAny(j, s, from)

Spec == Init /\ [][Next]_vars

(* The loop thread of every rank keeps handling what arrives on every      *)
(* pair, and a thread inside recvFromAny keeps running.  Nothing forces    *)
(* the application to post operations.                                     *)
Fairness ==
  /\ \A i, j \in Ranks : WF_vars(\E s \in Slots : Handle(i, j, s))
  /\ \A j \in Ranks : \A n \in 1 .. MaxRecvs[j] : WF_vars(CallStep(j, n))

FairSpec == Spec /\ Fairness

-----------------------------------------------------------------------------
(* What the properties count, for sends from i to j on slot s.             *)
Occurrences(q, S) == Cardinality({k \in DOMAIN q : q[k] \in S})

SendNotices(s) == {m \in Message : m.opcode = "NOTIFY_SEND_READY" /\ m.slot = s}
RecvNotices(s) == {m \in Message : m.opcode = "NOTIFY_RECV_READY" /\ m.slot = s}
Payloads(s)    == {m \in Message : m.opcode = "SEND_UNBOUND_BUFFER" /\ m.slot = s}

PendingSends(i, j, s)   == Len(localPendingSend[i][j][s])
CommittedRecvs(i, j, s) == Len(localPendingRecv[j][i][s])
KnownSends(i, j, s)     == Occurrences(sendList[j][s], {i})
KnownRecvs(i, j, s)     == Occurrences(recvList[i][s], {j})
OwedNotices(i, j, s)    == Occurrences(expected[j][s], {i})
SendNoticesInFlight(i, j, s) == Occurrences(channel[i][j], SendNotices(s))
RecvNoticesInFlight(i, j, s) == Occurrences(channel[j][i], RecvNotices(s))
PayloadsInFlight(i, j, s)    == Occurrences(channel[i][j], Payloads(s))

(* Every receive that j has committed to i is accounted for exactly once:  *)
(* its notification is in flight, remembered by i, or answered by a        *)
(* payload in flight.  Hence a payload always finds a buffer               *)
(* (GLOO_ENFORCE in Pair::prepareRead) and no receive is forgotten.        *)
RecvsAccounted ==
  /\ TypeOK
  /\ \A i, j \in Ranks, s \in Slots :
       CommittedRecvs(i, j, s) =
         RecvNoticesInFlight(i, j, s) + KnownRecvs(i, j, s) + PayloadsInFlight(i, j, s)

(* The two ends agree on the balance of sends and receives, up to the      *)
(* notifications in flight, although both may post at any time.            *)
BalanceAgreed ==
  \A i, j \in Ranks, s \in Slots :
    PendingSends(i, j, s) + OwedNotices(i, j, s) =
      SendNoticesInFlight(i, j, s) + KnownSends(i, j, s)
        + RecvNoticesInFlight(i, j, s) + KnownRecvs(i, j, s)

(* Neither end holds back: a send never waits at i while i knows of a      *)
(* receive for it, and j never expects a notification to drop while it has *)
(* one on its list.                                                        *)
NeverHeldBack ==
  \A i, j \in Ranks, s \in Slots :
    /\ PendingSends(i, j, s) > 0 => KnownRecvs(i, j, s) = 0
    /\ KnownSends(i, j, s) > 0 => OwedNotices(i, j, s) = 0

(* A recv-from-any is not registered as waiting while a send it accepts is *)
(* on the list, in whatever order notifications, receives and              *)
(* recvFromAny's two critical sections interleave.                         *)
NoMissedMatch ==
  \A i, j \in Ranks, s \in Slots :
    \A k \in DOMAIN pendingRecv[j][s] :
      i \in pendingRecv[j][s][k].from => KnownSends(i, j, s) = 0

(* The payloads of slot s in the channel q and behind them the pending     *)
(* sends p are those numbered d + 1, d + 2, ..., n, in this order.         *)
InOrder(q, p, d, n, s) ==
  /\ \A k \in 1 .. Len(q) :
       q[k] \in Payloads(s) => q[k].id = d + Occurrences(SubSeq(q, 1, k), Payloads(s))
  /\ \A k \in 1 .. Len(p) : p[k] = d + Occurrences(q, Payloads(s)) + k
  /\ n = d + Occurrences(q, Payloads(s)) + Len(p)

(* Sends are received in the order in which they were posted: a send that  *)
(* is written at once never overtakes one that had to wait.                *)
NonOvertaking ==
  \A i, j \in Ranks, s \in Slots :
    InOrder(channel[i][j], localPendingSend[i][j][s], delivered[i][j][s], sent[i][j][s], s)

-----------------------------------------------------------------------------
(* The abstract state: undelivered sends, and unfulfilled receives.        *)
UndeliveredSends(i, j, s) ==
  [k \in 1 .. sent[i][j][s] - delivered[i][j][s] |-> delivered[i][j][s] + k]

UnfulfilledRecvs(j, s) ==
  (UNION {ToSet(localPendingRecv[j][i][s]) : i \in Ranks})
    \cup ToSet(pendingRecv[j][s])
    \cup {call.recv : call \in {cl \in anyCalls[j] : cl.slot = s}}

Promise == INSTANCE Matching WITH
  Ids   <- UNION {(1 .. MaxSends[i]) \cup (1 .. MaxRecvs[i]) : i \in Ranks},
  sends <- [i \in Ranks |-> [j \in Ranks |-> [s \in Slots |-> UndeliveredSends(i, j, s)]]],
  recvs <- [j \in Ranks |-> [s \in Slots |-> UnfulfilledRecvs(j, s)]]

(* The protocol implements Matching: each payload goes to one receive that *)
(* accepts its source, in order, and whenever a posted receive accepts an  *)
(* undelivered send, a delivery follows.                                   *)
DeliversWhatMatches == Promise!Spec
=============================================================================
