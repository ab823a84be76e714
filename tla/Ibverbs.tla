------------------------------ MODULE Ibverbs -------------------------------
(***************************************************************************)
(* The ibverbs transport: a pair, its bound buffers and the device thread  *)
(* (gloo/transport/ibverbs/{pair,buffer,device}.cc), with the hardware and *)
(* a peer that runs the same code as its environment.                      *)
(*                                                                         *)
(* A receive buffer announces its memory region to the peer with a SEND;   *)
(* a send buffer waits for the region of its slot and writes into it with  *)
(* an RDMA write that carries the slot.  Both consume a receive work       *)
(* request at the other side, so a pair keeps kMaxBuffers of them posted,  *)
(* each with an inbox for a region.  Work completions of all four kinds go *)
(* to one completion queue.  In asynchronous mode the device thread drains *)
(* it when an event says so, after it has armed the next event; in         *)
(* synchronous mode the thread that waits polls it.                        *)
(***************************************************************************)
EXTENDS Naturals, Sequences, FiniteSets

CONSTANTS
  Slots,
  Sending, Receiving,   \* slots the application makes buffers for
  kMaxBuffers,   \* posted receives, and capacity of the send queue
  MaxSends,      \* bound on the sends of the pair
  MaxArrivals,   \* bound on the sends of the peer
  MaxTimeouts    \* bound on timeouts

ASSUME SlotsAssumption ==
  Slots \subseteq Nat \ {0} /\ Sending \subseteq Slots /\ Receiving \subseteq Slots
ASSUME BuffersAssumption == kMaxBuffers \in Nat \ {0}
ASSUME BoundsAssumption == {MaxSends, MaxArrivals, MaxTimeouts} \subseteq Nat

VARIABLES
  sync,           \* sync_
  raced,          \* switched to sync_ while the device thread was past its check
  handlers,       \* slots with a send and slots with a receive buffer
  peerRegions,    \* [s]: peerMemoryRegions_
  sendRegions,    \* mappedSendRegions_
  inbox,          \* [k]: mappedRecvRegions_
  recvPosted,     \* recvPosted_
  rq, sq,         \* receive queue; sends posted and not completed
  cq,             \* completion queue
  armed, events,  \* notification armed; events in the completion channel
  dev,            \* the device thread
  batch,          \* [t]: completions polled by thread t, not yet handled
  sendPending, sendCompletions, recvCompletions,   \* [s]: of the buffers
  sender, receiver,  \* [s]: the thread that uses the buffer
  ex, bufferEx,   \* ex_ of the pair, and buffers that have one
  stuck,          \* a thread waits for m_, which it holds itself
  announced,      \* slots whose region the peer has sent
  exposed,        \* slots whose region was sent to the peer
  nsend, narrive, timeouts

regions == <<peerRegions, sendRegions, inbox, recvPosted>>
queue == <<cq, armed, events>>
counts == <<sendPending, sendCompletions, recvCompletions>>
threads == <<sender, receiver>>
failure == <<ex, bufferEx, stuck, timeouts>>
peer == <<announced, exposed, narrive>>
vars == <<sync, raced, handlers, regions, rq, sq, queue, dev, batch, counts, threads,
          failure, peer, nsend>>

Capacity == 2 * kMaxBuffers   \* kCompletionQueueCapacity
Incoming == {"RECV_RDMA_WITH_IMM", "RECV"}
Outgoing == {"RDMA_WRITE", "SEND"}
Of(opcodes, slots) == [opcode : opcodes, slot : slots]
Work == Of(Incoming \cup Outgoing, Slots)
None == 0

(* Pair::Pair: a full bench of receives is posted, and events are armed.   *)
(* Pair::connect has been called on both sides.                            *)
Init ==
  /\ sync = FALSE /\ raced = FALSE
  /\ handlers = [send |-> {}, recv |-> {}]
  /\ peerRegions = [s \in Slots |-> None]
  /\ sendRegions = {}
  /\ inbox = [k \in 0 .. kMaxBuffers - 1 |-> None]
  /\ recvPosted = kMaxBuffers
  /\ rq = [k \in 1 .. kMaxBuffers |-> k - 1]
  /\ sq = <<>> /\ cq = <<>>
  /\ armed = TRUE /\ events = 0
  /\ dev = "idle"
  /\ batch = [t \in {"device", "user"} |-> <<>>]
  /\ sendPending = [s \in Slots |-> 0]
  /\ sendCompletions = [s \in Slots |-> 0]
  /\ recvCompletions = [s \in Slots |-> 0]
  /\ sender = [s \in Slots |-> "idle"]
  /\ receiver = [s \in Slots |-> "idle"]
  /\ ex = FALSE /\ bufferEx = [send |-> {}, recv |-> {}] /\ stuck = FALSE
  /\ announced = {} /\ exposed = {}
  /\ nsend = 0 /\ narrive = 0 /\ timeouts = 0

-----------------------------------------------------------------------------
(* The hardware, reliable connected queue pairs, and the peer.             *)

(* A work completion is added; an event follows if events are armed.       *)
Push(opcode, s) ==
  /\ cq' = Append(cq, [opcode |-> opcode, slot |-> s])
  /\ events' = IF armed THEN events + 1 ELSE events
  /\ armed' = FALSE

(* The oldest send has reached the peer and completes.  It is retried      *)
(* without end until the peer has a receive posted (rnr_retry = 7).        *)
Acknowledge ==
  /\ sq # <<>>
  /\ sq' = Tail(sq)
  /\ Push(Head(sq).opcode, Head(sq).slot)
  /\ UNCHANGED <<sync, raced, handlers, regions, rq, dev, batch, counts, threads, failure,
                 peer, nsend>>

(* The peer made a receive buffer: its region arrives in the inbox of the  *)
(* oldest receive.                                                         *)
RegionArrives(s) ==
  /\ s \notin announced
  /\ rq # <<>>
  /\ announced' = announced \cup {s}
  /\ inbox' = [inbox EXCEPT ![Head(rq)] = s]
  /\ rq' = Tail(rq)
  /\ Push("RECV", s)
  /\ UNCHANGED <<sync, raced, handlers, peerRegions, sendRegions, recvPosted, sq, dev,
                 batch, counts, threads, failure, exposed, narrive, nsend>>

(* The peer writes into a buffer whose region was sent to it, which may    *)
(* happen before that send completes.                                      *)
WriteArrives(s) ==
  /\ s \in exposed
  /\ narrive < MaxArrivals
  /\ rq # <<>>
  /\ narrive' = narrive + 1
  /\ rq' = Tail(rq)
  /\ Push("RECV_RDMA_WITH_IMM", s)
  /\ UNCHANGED <<sync, raced, handlers, regions, sq, dev, batch, counts, threads,
                 failure, announced, exposed, nsend>>

-----------------------------------------------------------------------------
(* m_ is held by the device thread while it polls and handles completions, *)
(* or for ever.                                                            *)
Free == dev \in {"idle", "arm", "lock"} /\ ~stuck

(* signalIoFailure, called without holding m_: the first exception is kept *)
(* and given to every buffer.                                              *)
SignalIoFailure ==
  /\ Free
  /\ ex' = TRUE
  /\ bufferEx' = IF ex THEN bufferEx ELSE handlers
  /\ UNCHANGED stuck

(* signalIoFailure, called while holding m_: the thread waits for itself.  *)
SelfDeadlock ==
  /\ stuck' = TRUE
  /\ UNCHANGED <<ex, bufferEx>>

(* In synchronous mode one thread uses the pair.                           *)
Unused ==
  /\ \A s \in Slots : {sender[s], receiver[s]} \subseteq {"idle", "threw"}
  /\ batch["user"] = <<>>

Available == sync => Unused

(* Pair::setSync, called when no thread uses the pair.                     *)
SetSync ==
  /\ ~sync /\ ~ex
  /\ Unused
  /\ sync' = TRUE
  /\ raced' = (dev # "idle")
  /\ UNCHANGED <<handlers, regions, rq, sq, queue, dev, batch, counts, threads, failure,
                 peer, nsend>>

(* Pair::createSendBuffer.                                                 *)
CreateSendBuffer(s) ==
  /\ Available /\ Free
  /\ s \in Sending \ handlers.send
  /\ handlers' = [handlers EXCEPT !.send = @ \cup {s}]
  /\ UNCHANGED <<sync, raced, regions, rq, sq, queue, dev, batch, counts, threads,
                 failure, peer, nsend>>

(* How many of the completions wcs are in S.                               *)
Count(wcs, S) == Cardinality({k \in DOMAIN wcs : wcs[k] \in S})

(* The send queue is full: a send occupies it until its completion is      *)
(* polled.                                                                 *)
QueueFull ==
  Len(sq) + Count(cq, Of(Outgoing, Slots)) >= kMaxBuffers

(* Pair::createRecvBuffer, with sendMemoryRegion, all under m_.            *)
CreateRecvBuffer(s) ==
  /\ Available /\ Free
  /\ s \in Receiving \ handlers.recv
  /\ handlers' = [handlers EXCEPT !.recv = @ \cup {s}]
  /\ \/ /\ ~QueueFull
        /\ sq' = Append(sq, [opcode |-> "SEND", slot |-> s])
        /\ sendRegions' = sendRegions \cup {s}
        /\ exposed' = exposed \cup {s}
        /\ UNCHANGED <<ex, bufferEx, stuck>>
     \/ /\ QueueFull
        /\ SelfDeadlock
        /\ UNCHANGED <<sq, sendRegions, exposed>>
  /\ UNCHANGED <<sync, raced, peerRegions, inbox, recvPosted, rq, queue, dev, batch,
                 counts, threads, timeouts, announced, narrive, nsend>>

-----------------------------------------------------------------------------
(* Buffer::send, up to getMemoryRegion.                                    *)
Send(s) ==
  /\ Available
  /\ nsend < MaxSends
  /\ s \in handlers.send \ bufferEx.send
  /\ sender[s] = "idle"
  /\ nsend' = nsend + 1
  /\ sendPending' = [sendPending EXCEPT ![s] = @ + 1]
  /\ sender' = [sender EXCEPT ![s] = "region"]
  /\ UNCHANGED <<sync, raced, handlers, regions, rq, sq, queue, dev, batch,
                 sendCompletions, recvCompletions, receiver, failure, peer>>

(* getMemoryRegion: the peer's region for the slot has arrived.            *)
RegionKnown(s) == peerRegions[s] # None

(* The rest of Pair::send; ibv_post_send fails when its queue is full.     *)
PostSend(s) ==
  /\ sender[s] = "region" /\ batch["user"] = <<>>
  /\ Free
  /\ RegionKnown(s)
  /\ \/ /\ ~QueueFull
        /\ sq' = Append(sq, [opcode |-> "RDMA_WRITE", slot |-> s])
        /\ sender' = [sender EXCEPT ![s] = "idle"]
        /\ UNCHANGED <<ex, bufferEx, stuck>>
     \/ /\ QueueFull
        /\ SignalIoFailure
        /\ sender' = [sender EXCEPT ![s] = "threw"]
        /\ UNCHANGED sq
  /\ UNCHANGED <<sync, raced, handlers, regions, rq, queue, dev, batch, counts,
                 receiver, timeouts, peer, nsend>>

(* getMemoryRegion times out.  In asynchronous mode it still holds m_.     *)
RegionTimeout(s) ==
  /\ sender[s] = "region" /\ batch["user"] = <<>>
  /\ Free
  /\ ~RegionKnown(s)
  /\ timeouts < MaxTimeouts
  /\ timeouts' = timeouts + 1
  /\ \/ sync /\ SignalIoFailure
     \/ ~sync /\ SelfDeadlock
  /\ sender' = [sender EXCEPT ![s] = "threw"]
  /\ UNCHANGED <<sync, raced, handlers, regions, rq, sq, queue, dev, batch, counts,
                 receiver, peer, nsend>>

(* Buffer::waitSend and Buffer::waitRecv: a thread begins to wait ...      *)
WaitSend(s) ==
  /\ Available
  /\ s \in handlers.send
  /\ sender[s] = "idle"
  /\ sendPending[s] + sendCompletions[s] > 0
  /\ sender' = [sender EXCEPT ![s] = "wait"]
  /\ UNCHANGED <<sync, raced, handlers, regions, rq, sq, queue, dev, batch, counts,
                 receiver, failure, peer, nsend>>

WaitRecv(s) ==
  /\ Available
  /\ s \in handlers.recv
  /\ receiver[s] = "idle"
  /\ receiver' = [receiver EXCEPT ![s] = "wait"]
  /\ UNCHANGED <<sync, raced, handlers, regions, rq, sq, queue, dev, batch, counts,
                 sender, failure, peer, nsend>>

(* In asynchronous mode a wait first looks for what signalError left.      *)
Throws(s, kind) == ~sync /\ s \in bufferEx[kind]

(* ... and takes a completion, or throws, ...                              *)
WaitSendEnds(s) ==
  /\ sender[s] = "wait" /\ batch["user"] = <<>>
  /\ \/ /\ sendCompletions[s] > 0 /\ ~Throws(s, "send")
        /\ sendCompletions' = [sendCompletions EXCEPT ![s] = @ - 1]
        /\ sender' = [sender EXCEPT ![s] = "idle"]
     \/ /\ Throws(s, "send")
        /\ sender' = [sender EXCEPT ![s] = "threw"]
        /\ UNCHANGED sendCompletions
  /\ UNCHANGED <<sync, raced, handlers, regions, rq, sq, queue, dev, batch, sendPending,
                 recvCompletions, receiver, failure, peer, nsend>>

WaitRecvEnds(s) ==
  /\ receiver[s] = "wait" /\ batch["user"] = <<>>
  /\ \/ /\ recvCompletions[s] > 0 /\ ~Throws(s, "recv")
        /\ recvCompletions' = [recvCompletions EXCEPT ![s] = @ - 1]
        /\ receiver' = [receiver EXCEPT ![s] = "idle"]
     \/ /\ Throws(s, "recv")
        /\ receiver' = [receiver EXCEPT ![s] = "threw"]
        /\ UNCHANGED recvCompletions
  /\ UNCHANGED <<sync, raced, handlers, regions, rq, sq, queue, dev, batch, sendPending,
                 sendCompletions, sender, failure, peer, nsend>>

(* ... or times out, having let go of its mutex before it says so.         *)
WaitTimeout(s) ==
  /\ batch["user"] = <<>>
  /\ timeouts < MaxTimeouts
  /\ timeouts' = timeouts + 1
  /\ SignalIoFailure
  /\ \/ /\ sender[s] = "wait" /\ sendCompletions[s] = 0
        /\ sender' = [sender EXCEPT ![s] = "threw"]
        /\ UNCHANGED receiver
     \/ /\ receiver[s] = "wait" /\ recvCompletions[s] = 0
        /\ receiver' = [receiver EXCEPT ![s] = "threw"]
        /\ UNCHANGED sender
  /\ UNCHANGED <<sync, raced, handlers, regions, rq, sq, queue, dev, batch, counts, peer,
                 nsend>>

-----------------------------------------------------------------------------
(* handleCompletion, and with it Buffer::handleCompletion, for the         *)
(* completions of a batch in order.  m_ is held, or one thread uses the    *)
(* pair, so ex_ does not change between two of them.                       *)

(* Mutant of InboxIndex: the inbox that was posted last.                   *)
LastPosted(posted) == (posted - 1) % kMaxBuffers

(* Receives complete in the order in which they were posted, so the oldest *)
(* one not handled has the inbox that is to be posted next.                *)
InboxIndex(posted) == posted % kMaxBuffers

(* Mutant of Received: an RDMA write makes no room for another.            *)
ReceivedRegions(wcs) == Count(wcs, Of({"RECV"}, Slots))

(* The number of completions that end with postReceive.                    *)
Received(wcs) == Count(wcs, Of(Incoming, Slots))

(* What the GLOO_ENFORCEs of handleCompletion demand of a completion that  *)
(* succeeded: the buffer is registered, the region of a SEND is kept.      *)
Expected(wc) ==
  \/ wc.opcode = "RECV_RDMA_WITH_IMM" /\ wc.slot \in handlers.recv
  \/ wc.opcode = "RDMA_WRITE" /\ wc.slot \in handlers.send
  \/ wc.opcode = "RECV"
  \/ wc.opcode = "SEND" /\ wc.slot \in sendRegions

(* The region for s, from the inbox of the receive that it came with.      *)
Region(s, wcs) ==
  LET ks == {k \in DOMAIN wcs : wcs[k] = [opcode |-> "RECV", slot |-> s]}
      last == CHOOSE k \in ks : \A l \in ks : l <= k
  IN  IF ks = {} THEN peerRegions[s]
      ELSE inbox[InboxIndex(recvPosted + Received(SubSeq(wcs, 1, last)) - 1)]

(* Mutant of RegionsKept: any send on the slot lets go of its region.      *)
RegionsKeptBySlot(wcs) == {s \in sendRegions : Count(wcs, Of(Outgoing, {s})) = 0}

(* A region is kept until the SEND that carries it completes.              *)
RegionsKept(wcs) == {s \in sendRegions : Count(wcs, Of({"SEND"}, {s})) = 0}

HandleCompletions(wcs) ==
  LET Slotted(opcode, s) == Count(wcs, Of({opcode}, {s})) IN
  /\ \A k \in DOMAIN wcs : Expected(wcs[k])
  /\ recvCompletions' = [s \in Slots |-> recvCompletions[s] + Slotted("RECV_RDMA_WITH_IMM", s)]
  /\ sendCompletions' = [s \in Slots |-> sendCompletions[s] + Slotted("RDMA_WRITE", s)]
  /\ sendPending' = [s \in Slots |-> sendPending[s] - Slotted("RDMA_WRITE", s)]
  /\ sendRegions' = RegionsKept(wcs)
  /\ peerRegions' = [s \in Slots |-> Region(s, wcs)]
  /\ rq' = rq \o [k \in 1 .. Received(wcs) |-> (recvPosted + k - 1) % kMaxBuffers]
  /\ recvPosted' = recvPosted + Received(wcs)
  /\ UNCHANGED inbox

-----------------------------------------------------------------------------
(* Device::loop and Pair::handleCompletionEvent.                           *)

(* An event is taken from the channel.  It is ignored in synchronous mode, *)
(* and by a pair that failed.                                              *)
HandleEvent ==
  /\ dev = "idle"
  /\ events > 0
  /\ events' = events - 1
  /\ dev' = IF sync \/ ex THEN "idle" ELSE "arm"
  /\ UNCHANGED <<sync, raced, handlers, regions, rq, sq, cq, armed, batch, counts,
                 threads, failure, peer, nsend>>

(* Mutant of Arm: the notification was requested before, not again.        *)
ArmedBefore ==
  /\ dev = "arm"
  /\ dev' = "lock"
  /\ UNCHANGED <<sync, raced, handlers, regions, rq, sq, queue, batch, counts, threads,
                 failure, peer, nsend>>

(* ibv_req_notify_cq.                                                      *)
Arm ==
  /\ dev = "arm"
  /\ armed' = TRUE
  /\ dev' = "lock"
  /\ UNCHANGED <<sync, raced, handlers, regions, rq, sq, cq, events, batch, counts,
                 threads, failure, peer, nsend>>

(* pollCompletions, with m_ held: take what there is and handle it; poll   *)
(* again if that was all the array can hold.                               *)
Poll ==
  /\ dev = "lock" \/ dev = "poll"
  /\ ~stuck
  /\ batch' = [batch EXCEPT !["device"] = cq]
  /\ cq' = <<>>
  /\ dev' = CASE cq = <<>> -> "idle"
              [] Len(cq) = Capacity -> "handle, poll"
              [] OTHER -> "handle"
  /\ UNCHANGED <<sync, raced, handlers, regions, rq, sq, armed, events, counts, threads,
                 failure, peer, nsend>>

(* The batch, unless the pair has failed: then the exception ends the loop *)
(* and the batch is lost.                                                  *)
HandleBatch ==
  /\ dev \in {"handle", "handle, poll"}
  /\ batch' = [batch EXCEPT !["device"] = <<>>]
  /\ \/ /\ ~ex
        /\ HandleCompletions(batch["device"])
        /\ dev' = IF dev = "handle" THEN "idle" ELSE "poll"
     \/ /\ ex
        /\ dev' = "idle"
        /\ UNCHANGED <<regions, rq, counts>>
  /\ UNCHANGED <<sync, raced, handlers, sq, queue, threads, failure, peer, nsend>>

-----------------------------------------------------------------------------
(* Synchronous mode: the thread that waits polls, without m_.              *)
MustPoll ==
  \E s \in Slots :
    \/ sender[s] = "region" /\ ~RegionKnown(s)
    \/ sender[s] = "wait" /\ sendCompletions[s] = 0
    \/ receiver[s] = "wait" /\ recvCompletions[s] = 0

UserPoll ==
  /\ sync
  /\ MustPoll
  /\ batch["user"] = <<>>
  /\ cq # <<>>
  /\ batch' = [batch EXCEPT !["user"] = cq]
  /\ cq' = <<>>
  /\ UNCHANGED <<sync, raced, handlers, regions, rq, sq, armed, events, dev, counts,
                 threads, failure, peer, nsend>>

Thrown(users) == [s \in Slots |-> IF users[s] = "idle" THEN "idle" ELSE "threw"]

UserThrows ==
  /\ sender' = Thrown(sender)
  /\ receiver' = Thrown(receiver)

(* A failed pair throws.  The time that has passed is looked at after      *)
(* every poll, before what it brought.                                     *)

UserHandleBatch ==
  /\ batch["user"] # <<>>
  /\ batch' = [batch EXCEPT !["user"] = <<>>]
  /\ \/ /\ ~ex
        /\ HandleCompletions(batch["user"])
        /\ UNCHANGED <<threads, failure>>
     \/ /\ ~ex
        /\ HandleCompletions(batch["user"])
        /\ timeouts < MaxTimeouts
        /\ timeouts' = timeouts + 1
        /\ SignalIoFailure
        /\ UserThrows
     \/ /\ ex
        /\ UserThrows
        /\ UNCHANGED <<regions, rq, counts, failure>>
  /\ UNCHANGED <<sync, raced, handlers, sq, queue, dev, peer, nsend>>

-----------------------------------------------------------------------------
DeviceThread == HandleEvent \/ Arm \/ Poll \/ HandleBatch

UserThreads ==
  \/ UserPoll \/ UserHandleBatch
  \/ \E s \in Slots : PostSend(s) \/ WaitSendEnds(s) \/ WaitRecvEnds(s)

Next ==
  \/ Acknowledge \/ DeviceThread \/ UserThreads \/ SetSync
  \/ \E s \in Slots :
       \/ RegionArrives(s) \/ WriteArrives(s)
       \/ CreateSendBuffer(s) \/ CreateRecvBuffer(s)
       \/ Send(s) \/ WaitSend(s) \/ WaitRecv(s)
       \/ RegionTimeout(s) \/ WaitTimeout(s)

(* The hardware delivers what is posted, the device thread and the threads *)
(* inside send or a wait keep running.  Nothing forces the peer or the     *)
(* application to do anything, or a timeout to happen.                     *)
Fairness == WF_vars(Acknowledge) /\ WF_vars(DeviceThread) /\ WF_vars(UserThreads)

Spec == Init /\ [][Next]_vars /\ Fairness

-----------------------------------------------------------------------------
TypeOK ==
  /\ sync \in BOOLEAN /\ raced \in BOOLEAN /\ ex \in BOOLEAN /\ stuck \in BOOLEAN
  /\ armed \in BOOLEAN
  /\ handlers \in [send : SUBSET Slots, recv : SUBSET Slots]
  /\ bufferEx \in [send : SUBSET Slots, recv : SUBSET Slots]
  /\ peerRegions \in [Slots -> Slots \cup {None}]
  /\ inbox \in [0 .. kMaxBuffers - 1 -> Slots \cup {None}]
  /\ rq \in Seq(0 .. kMaxBuffers - 1)
  /\ sq \in Seq(Work) /\ cq \in Seq(Work)
  /\ batch \in [{"device", "user"} -> Seq(Work)]
  /\ dev \in {"idle", "arm", "lock", "poll", "handle", "handle, poll"}
  /\ sendRegions \subseteq Slots /\ announced \subseteq Slots /\ exposed \subseteq Slots
  /\ sendPending \in [Slots -> Nat]
  /\ sendCompletions \in [Slots -> Nat] /\ recvCompletions \in [Slots -> Nat]
  /\ sender \in [Slots -> {"idle", "region", "wait", "threw"}]
  /\ receiver \in [Slots -> {"idle", "wait", "threw"}]
  /\ events \in Nat /\ recvPosted \in Nat
  /\ nsend \in Nat /\ narrive \in Nat /\ timeouts \in Nat

(* How many completions in S are polled or in the queue, to be handled.    *)
Unhandled(S) == Count(batch["device"], S) + Count(batch["user"], S) + Count(cq, S)

(* Completions were not handled by two threads at once (a switch to        *)
(* synchronous mode under the device thread), nor lost with an exception.  *)
Orderly == ~raced /\ ~ex

(* The region that handleCompletion takes from the inbox, by position, is  *)
(* the one the peer sent for that slot, however regions and RDMA writes    *)
(* interleave and the inbox wraps around.  Hence a send writes into the    *)
(* peer's buffer for its own slot, and into no other.                      *)
RegionsRight == TypeOK /\ (Orderly => \A s \in Slots : peerRegions[s] \in {None, s})

(* Receives that are posted, or completed and not handled, are kMaxBuffers *)
(* in number at any time, so the bench is full again after every batch,    *)
(* and the completion queue, shared with the sends, never overruns.        *)
BenchIsFull ==
  /\ Orderly => Len(rq) + Unhandled(Of(Incoming, Slots)) = kMaxBuffers
  /\ Len(cq) <= Capacity

(* Every completion that will be handled is one that handleCompletion      *)
(* accepts: the buffer of an RDMA write is registered, the region of a     *)
(* SEND is still kept, although a write to the same slot may be in flight  *)
(* with it.  Otherwise an exception would end the device thread.           *)
CompletionsExpected == Orderly => \A w \in Work : Unhandled({w}) > 0 => Expected(w)

(* A buffer's threads are waiting for something that is on its way.        *)
Waiting ==
  \E s \in Slots :
    \/ sender[s] = "wait"
    \/ sender[s] = "region" /\ s \in announced
    \/ /\ receiver[s] = "wait"
       /\ recvCompletions[s] + Unhandled(Of({"RECV_RDMA_WITH_IMM"}, {s})) > 0

(* A thread waits for a buffer that was told of a failure.                 *)
Told ==
  \E s \in Slots :
    \/ sender[s] = "wait" /\ Throws(s, "send")
    \/ receiver[s] = "wait" /\ Throws(s, "recv")

(* A thread in waitSend returns, one in send returns if the peer made a    *)
(* buffer for its slot, and one in waitRecv returns if the peer wrote to   *)
(* it, unless the pair fails; and when it fails, threads that wait for a   *)
(* buffer that was told do not wait on.                                    *)
WaitsEnd ==
  /\ Waiting ~> (~Waiting \/ ex \/ stuck \/ raced)
  /\ Told ~> ~Told
=============================================================================
