--------------------------------- MODULE Uv ---------------------------------
(***************************************************************************)
(* The libuv transport: two ranks, each with one pair, and the protocol of *)
(* SendRecv between them (gloo/transport/uv/{device,pair,context}.cc).     *)
(*                                                                         *)
(* The protocol is the one of the tcp transport and is not repeated here:  *)
(* an action of this module that runs a part of it conjoins the action of  *)
(* SendRecv, with the same variables.  What differs is how operations      *)
(* travel.  User threads never touch a handle; they queue an operation in  *)
(* writeOps_ and defer a function to the loop thread, which issues one or  *)
(* two write requests for it.  All else is done by callbacks of libuv: a   *)
(* handle's events carry no operation, so onWrite and onRead tell by       *)
(* counting which operation an event belongs to.                           *)
(***************************************************************************)
EXTENDS Integers, Sequences, SequencesExt, FiniteSets

CONSTANTS
  Ranks, Slots, MaxSends, MaxRecvs,  \* as in SendRecv
  Address,    \* [r]: socket address and sequence number of the pair of r
  Preamble,   \* bytes of a preamble
  Payload,    \* [s]: bytes of a send on slot s
  MaxFaults   \* bound on connection errors and timeouts

ASSUME AddressAssumption ==
  /\ IsFiniteSet(Ranks) /\ Cardinality(Ranks) = 2
  /\ Address \in [Ranks -> [sock : Nat, seq : Nat]]
  /\ \A r, p \in Ranks : Address[r] = Address[p] => r = p
ASSUME BoundsAssumption == MaxSends \in [Ranks -> Nat] /\ MaxRecvs \in [Ranks -> Nat]
ASSUME LengthsAssumption ==
  /\ Preamble \in Nat \ {0}
  /\ Payload \in [Slots -> Nat]
  /\ MaxFaults \in Nat

VARIABLES
  (* the variables of SendRecv *)
  localPendingSend, localPendingRecv, sendList, recvList, expected,
  pendingRecv, anyCalls, channel, sent, delivered, nsend, nrecv,
  state,     \* [r]: state_ of the pair, or "destroyed"
  errno,     \* [r]: errno_ of the pair
  connect,   \* [r]: the thread that calls Pair::connect
  handle,    \* [r]: the handle of the connection
  parked,    \* [r]: what the device of r holds for the pair's sequence number
  deferred,  \* [r]: deferred_ of the device
  stack,     \* [r]: the functions that asyncCallback has yet to run
  writeOps,  \* [r]: writeOps_: messages, numbered, with nwritten
  requests,  \* [r]: write requests whose callback has not been called
  wire,      \* [r]: what r has written and its peer has not read
  readOp,    \* [r]: readOp_ and the read segment of the handle
  posted,    \* [r]: number of operations queued so far
  completions, \* [r]: completions reported to the buffers of r
  faults     \* number of faults so far

protocol == <<localPendingSend, localPendingRecv, sendList, recvList, expected,
              pendingRecv, anyCalls, channel, sent, delivered, nsend, nrecv>>
connecting == <<connect, parked>>
loop == <<deferred, stack>>
writes == <<writeOps, posted, requests>>
stream == <<writes, wire, readOp, completions>>
vars == <<protocol, state, errno, connecting, handle, loop, stream, faults>>

M == INSTANCE SendRecv

NoError == "0"

Peer(r) == CHOOSE p \in Ranks : p # r

(* readNextOp: the next read fills a preamble.                             *)
NewRead == [stage |-> "preamble", left |-> Preamble]

Init ==
  /\ M!Init
  /\ state = [r \in Ranks |-> "INITIALIZED"]
  /\ errno = [r \in Ranks |-> NoError]
  /\ connect = [r \in Ranks |-> "not called"]
  /\ handle = [r \in Ranks |-> "none"]
  /\ parked = [r \in Ranks |-> "none"]
  /\ deferred = [r \in Ranks |-> <<>>]
  /\ stack = [r \in Ranks |-> <<>>]
  /\ writeOps = [r \in Ranks |-> <<>>]
  /\ requests = [r \in Ranks |-> <<>>]
  /\ wire = [r \in Ranks |-> <<>>]
  /\ readOp = [r \in Ranks |-> NewRead]
  /\ posted = [r \in Ranks |-> 0]
  /\ completions = [r \in Ranks |-> [send |-> 0, recv |-> 0]]
  /\ faults = 0

-----------------------------------------------------------------------------
(* Device::defer, and Device::asyncCallback in two steps: it takes all     *)
(* deferred functions and then runs them one after the other.  No other    *)
(* callback runs in between: there is one loop thread.                     *)

NoOp == [n |-> 0, late |-> FALSE]
Fn(name) == [fn |-> name, op |-> NoOp]

(* Mutant of Defer: push_front.                                            *)
DeferFront(r, fns) == deferred' = [deferred EXCEPT ![r] = fns \o @]

Defer(r, fns) == deferred' = [deferred EXCEPT ![r] = @ \o fns]

Alive(r) == state[r] # "crashed"

Idle(r) == stack[r] = <<>> /\ Alive(r)

TakeDeferred(r) ==
  /\ Idle(r)
  /\ deferred[r] # <<>>
  /\ stack' = [stack EXCEPT ![r] = deferred[r]]
  /\ deferred' = [deferred EXCEPT ![r] = <<>>]
  /\ UNCHANGED <<protocol, state, errno, connecting, handle, stream, faults>>

Runs(r, name) ==
  /\ Alive(r)
  /\ stack[r] # <<>>
  /\ Head(stack[r]).fn = name
  /\ stack' = [stack EXCEPT ![r] = Tail(@)]

-----------------------------------------------------------------------------
(* Connecting.                                                             *)

(* Device::connect: the pair with the smaller address waits for the other. *)
Role(r) ==
  LET self == Address[r]
      peer == Address[Peer(r)]
      rv == IF self.sock # peer.sock THEN self.sock - peer.sock ELSE self.seq - peer.seq
  IN  IF rv < 0 THEN "connectAsListener" ELSE "connectAsInitiator"

(* Pair::connect up to its wait.                                           *)
Connect(r) ==
  /\ state[r] = "INITIALIZED"
  /\ connect[r] = "not called"
  /\ state' = [state EXCEPT ![r] = "CONNECTING"]
  /\ connect' = [connect EXCEPT ![r] = "asleep"]
  /\ Defer(r, <<Fn(Role(r))>>)
  /\ UNCHANGED <<protocol, errno, parked, handle, stack, stream, faults>>

Notified(con, r) == [con EXCEPT ![r] = IF @ = "asleep" THEN "woken" ELSE @]

(* Pair::connectCallback.  An error is recorded and nobody is notified.    *)
ConnectCallback(r) ==
  /\ state' = [state EXCEPT ![r] = "CONNECTED"]
  /\ handle' = [handle EXCEPT ![r] = "open"]
  /\ readOp' = [readOp EXCEPT ![r] = NewRead]
  /\ connect' = Notified(connect, r)

ConnectCallbackError(r, error) ==
  /\ state' = [state EXCEPT ![r] = "CLOSED"]
  /\ errno' = [errno EXCEPT ![r] = error]
  /\ handle' = [handle EXCEPT ![r] = "closed"]
  /\ UNCHANGED connect

(* The rest of Pair::connect: it wakes up and looks at the state.          *)
ConnectReturns(r) ==
  /\ Alive(r)
  /\ connect[r] = "woken"
  /\ connect' = [connect EXCEPT ![r] =
                   IF state[r] \notin {"CONNECTED", "CLOSED"} THEN "asleep"
                   ELSE IF errno[r] # NoError THEN "threw" ELSE "returned"]
  /\ UNCHANGED <<protocol, state, errno, parked, handle, loop, stream, faults>>

(* Mutant of FindConnection: the callback is stashed without looking.      *)
StashCallback(r) == FALSE

FindConnection(r) == parked[r] = "connection"

(* Device::connectAsListener, deferred: take the connection if it is here, *)
(* else leave the callback.                                                *)
ConnectAsListener(r) ==
  /\ Runs(r, "connectAsListener")
  /\ \/ /\ FindConnection(r)
        /\ parked' = [parked EXCEPT ![r] = "none"]
        /\ ConnectCallback(r)
     \/ /\ ~FindConnection(r)
        /\ parked' = [parked EXCEPT ![r] = "callback"]
        /\ UNCHANGED <<state, connect, handle, readOp>>
  /\ UNCHANGED <<protocol, errno, deferred, writes, wire, completions, faults>>

(* Device::connectAsInitiator, deferred: start to connect, and a timer.    *)
ConnectAsInitiator(r) ==
  /\ Runs(r, "connectAsInitiator")
  /\ handle' = [handle EXCEPT ![r] = "connecting"]
  /\ UNCHANGED <<protocol, state, errno, connecting, deferred, stream, faults>>

(* ConnectEvent: write the sequence number.  The peer's listenCallback     *)
(* accepts the connection and waits for it.                                *)
OnConnect(r) ==
  /\ Idle(r)
  /\ handle[r] = "connecting"
  /\ Alive(Peer(r))
  /\ handle' = [handle EXCEPT ![r] = "writing", ![Peer(r)] = "accepted"]
  /\ UNCHANGED <<protocol, state, errno, connecting, loop, stream, faults>>

(* WriteEvent: the sequence number was written.                            *)
OnSequenceWritten(r) ==
  /\ Idle(r)
  /\ handle[r] = "writing"
  /\ ConnectCallback(r)
  /\ UNCHANGED <<protocol, errno, parked, loop, writes, wire, completions, faults>>

(* ErrorEvent, or TimerEvent, before that: the handle is closed.           *)
OnConnectError(r, error) ==
  /\ Idle(r)
  /\ faults < MaxFaults
  /\ handle[r] \in {"connecting", "writing"}
  /\ ConnectCallbackError(r, error)
  /\ faults' = faults + 1
  /\ UNCHANGED <<protocol, parked, loop, stream>>

(* ReadEvent at the listening device: connectAsListenerCallback takes the  *)
(* callback if it is here, else keeps the connection.                      *)
OnSequenceRead(r) ==
  /\ Idle(r)
  /\ handle[r] = "accepted"
  /\ \/ /\ parked[r] = "callback"
        /\ parked' = [parked EXCEPT ![r] = "none"]
        /\ ConnectCallback(r)
     \/ /\ parked[r] # "callback"
        /\ parked' = [parked EXCEPT ![r] = "connection"]
        /\ handle' = [handle EXCEPT ![r] = "parked"]
        /\ UNCHANGED <<state, connect, readOp>>
  /\ UNCHANGED <<protocol, errno, loop, writes, wire, completions, faults>>

(* EndEvent or ErrorEvent there, if the initiator gave up first.           *)
OnAcceptedEnd(r) ==
  /\ Idle(r)
  /\ handle[r] = "accepted"
  /\ handle[Peer(r)] = "closed"
  /\ handle' = [handle EXCEPT ![r] = "closed"]
  /\ UNCHANGED <<protocol, state, errno, connecting, loop, stream, faults>>

-----------------------------------------------------------------------------
(* Posting operations.                                                     *)

Length(msg) == IF msg.opcode = "SEND_UNBOUND_BUFFER" THEN Payload[msg.slot] ELSE 0

(* An operation is written with one or two calls.                          *)
Parts(msg) ==
  IF msg.opcode = "SEND_UNBOUND_BUFFER" THEN <<"preamble", "payload">> ELSE <<"preamble">>

Bytes(msg, part) ==
  [k \in 1 .. (IF part = "preamble" THEN Preamble ELSE Length(msg)) |-> <<msg, part>>]

(* What the step of the protocol has the pair of r write.                  *)
NewMessages(r) ==
  LET p == Peer(r) IN
  SubSeq(channel'[r][p], Len(channel[r][p]) + 1, Len(channel'[r][p]))

(* Pair::writeOp: queue the operation and defer a function that writes it. *)
WriteOp(r) ==
  LET new == NewMessages(r)
      ops == [k \in DOMAIN new |->
                [n |-> posted[r] + k, msg |-> new[k], late |-> state[r] # "CONNECTED",
                 nwritten |-> 0]]
  IN  /\ writeOps' = [writeOps EXCEPT ![r] = @ \o ops]
      /\ posted' = [posted EXCEPT ![r] = @ + Len(new)]
      /\ Defer(r, [k \in DOMAIN ops |-> [fn |-> "write", op |-> ops[k]]])

(* The application uses a pair once connect has returned.  The pair's      *)
(* state is not looked at.                                                 *)
MayPost(r) == connect[r] = "returned" /\ state[r] # "destroyed" /\ Alive(r)

Posts(r) ==
  /\ MayPost(r)
  /\ WriteOp(r)
  /\ UNCHANGED <<state, errno, connecting, handle, stack, requests, wire, readOp,
                 completions, faults>>

Send(r, s) == M!Send(r, Peer(r), s) /\ Posts(r)
RecvFrom(r, s) == M!RecvFrom(r, Peer(r), s) /\ Posts(r)
RecvFromAny(r, s) == M!RecvFromAny(r, s, {Peer(r)}) /\ Posts(r)
CallStep(r, n) == M!CallStep(r, n) /\ Posts(r)

-----------------------------------------------------------------------------
(* The handle of a connected pair.                                         *)

(* closeWhileHoldingPairLock of a connected pair.                          *)
BeginClose(r) ==
  /\ state[r] = "CONNECTED"
  /\ state' = [state EXCEPT ![r] = "CLOSING"]
  /\ Defer(r, <<Fn("close")>>)

(* The function deferred by writeOp.  On a handle that was closed the      *)
(* requests fail at once, with an ErrorEvent; once the pair is gone, both  *)
(* the operation and the pair that the event would go to are garbage.      *)
RunWrite(r) ==
  LET op == Head(stack[r]).op
      parts == Parts(op.msg)
      new == [k \in DOMAIN parts |->
                [n |-> op.n, msg |-> op.msg, part |-> parts[k], done |-> FALSE]]
  IN
  /\ Runs(r, "write")
  /\ \/ /\ handle[r] = "open"
        /\ requests' = [requests EXCEPT ![r] = @ \o new]
        /\ UNCHANGED <<state, errno>>
     \/ /\ handle[r] # "open"
        /\ state[r] # "destroyed"
        /\ errno' = [errno EXCEPT ![r] = "EBADF"]
        /\ UNCHANGED <<state, requests>>
     \/ /\ state[r] = "destroyed"
        /\ state' = [state EXCEPT ![r] = "crashed"]
        /\ UNCHANGED <<errno, requests>>
  /\ UNCHANGED <<protocol, connecting, handle, deferred, writeOps, posted, wire, readOp,
                 completions, faults>>

(* libuv writes the requests in order.                                     *)
Transmit(r) ==
  \E k \in DOMAIN requests[r] :
    /\ Alive(r)
    /\ handle[r] = "open"
    /\ errno[r] = NoError
    /\ \A l \in 1 .. k : requests[r][l].done = (l < k)
    /\ requests' = [requests EXCEPT ![r][k].done = TRUE]
    /\ wire' = [wire EXCEPT ![r] = @ \o Bytes(requests[r][k].msg, requests[r][k].part)]
    /\ UNCHANGED <<protocol, state, errno, connecting, handle, loop, writeOps, posted,
                   readOp, completions, faults>>

(* Mutant of Written: every event completes an operation.                  *)
WrittenAtOnce(op) == TRUE

(* Whether an event completes the operation at the head of writeOps_.      *)
Written(op) == op.msg.opcode = "SEND_UNBOUND_BUFFER" => op.nwritten > 0

(* Pair::onWrite.                                                          *)
OnWrite(r) ==
  LET op == Head(writeOps[r]) IN
  /\ Idle(r)
  /\ handle[r] \in {"open", "closing"}
  /\ requests[r] # <<>>
  /\ Head(requests[r]).done
  /\ writeOps[r] # <<>>
  /\ requests' = [requests EXCEPT ![r] = Tail(@)]
  /\ \/ /\ ~Written(op)
        /\ writeOps' = [writeOps EXCEPT ![r][1].nwritten = Preamble]
        /\ UNCHANGED completions
     \/ /\ Written(op)
        /\ writeOps' = [writeOps EXCEPT ![r] = Tail(@)]
        /\ completions' = IF op.msg.opcode = "SEND_UNBOUND_BUFFER"
                          THEN [completions EXCEPT ![r].send = @ + 1]
                          ELSE completions
  /\ UNCHANGED <<protocol, state, errno, connecting, handle, loop, posted, wire, readOp, faults>>

(* Pair::close, also called by the destructor.                             *)
Close(r) ==
  /\ Alive(r)
  /\ connect[r] \in {"not called", "returned"}
  /\ \/ /\ state[r] = "INITIALIZED"
        /\ state' = [state EXCEPT ![r] = "CLOSED"]
        /\ UNCHANGED deferred
     \/ BeginClose(r)
  /\ UNCHANGED <<protocol, errno, connecting, handle, stack, stream, faults>>

(* Mutant of DestroyReturns: ~Pair does not wait for the handle.           *)
DestroyAtOnce(r) ==
  /\ state[r] \in {"CLOSING", "CLOSED"}
  /\ connect[r] \in {"not called", "returned", "threw"}
  /\ anyCalls[r] = {}
  /\ state' = [state EXCEPT ![r] = "destroyed"]
  /\ UNCHANGED <<protocol, errno, connecting, handle, loop, stream, faults>>

(* Pair::~Pair returns.  The pair is not in use by then.                   *)
DestroyReturns(r) ==
  /\ state[r] = "CLOSED"
  /\ connect[r] \in {"not called", "returned", "threw"}
  /\ anyCalls[r] = {}
  /\ state' = [state EXCEPT ![r] = "destroyed"]
  /\ UNCHANGED <<protocol, errno, connecting, handle, loop, stream, faults>>

(* The function deferred by closeWhileHoldingPairLock.                     *)
RunClose(r) ==
  /\ Runs(r, "close")
  /\ handle' = [handle EXCEPT ![r] = IF @ = "open" THEN "closing" ELSE @]
  /\ UNCHANGED <<protocol, state, errno, connecting, deferred, stream, faults>>

(* libuv closes the handle: the requests not yet written are cancelled, an *)
(* ErrorEvent each, and then comes Pair::onClose.                          *)
OnClose(r) ==
  /\ Idle(r)
  /\ handle[r] = "closing"
  /\ requests[r] # <<>> => ~Head(requests[r]).done
  /\ handle' = [handle EXCEPT ![r] = "closed"]
  /\ state' = [state EXCEPT ![r] = "CLOSED"]
  /\ requests' = [requests EXCEPT ![r] = <<>>]
  /\ errno' = [errno EXCEPT ![r] = IF requests[r] = <<>> THEN @ ELSE "ECANCELED"]
  /\ connect' = Notified(connect, r)
  /\ UNCHANGED <<protocol, parked, loop, writeOps, posted, wire, readOp, completions, faults>>

Gone(r) == handle[r] \in {"closing", "closed"}

(* Pair::onEnd: the peer closed its end and all it wrote has been read.    *)
OnEnd(r) ==
  /\ Idle(r)
  /\ handle[r] = "open"
  /\ Gone(Peer(r))
  /\ wire[Peer(r)] = <<>>
  /\ BeginClose(r)
  /\ connect' = Notified(connect, r)
  /\ UNCHANGED <<protocol, errno, parked, handle, stack, stream, faults>>

(* Pair::onError: a read or a write fails, since the peer closed its end   *)
(* or because of a fault.                                                  *)
OnError(r) ==
  /\ Idle(r)
  /\ handle[r] = "open"
  /\ errno[r] = NoError
  /\ \/ Gone(Peer(r)) /\ UNCHANGED faults
     \/ faults < MaxFaults /\ faults' = faults + 1
  /\ \/ UNCHANGED requests
     \/ /\ requests[r] # <<>>
        /\ ~Head(requests[r]).done
        /\ requests' = [requests EXCEPT ![r] = Tail(@)]
  /\ errno' = [errno EXCEPT ![r] = "ECONNRESET"]
  /\ \/ BeginClose(r)
     \/ state[r] # "CONNECTED" /\ UNCHANGED <<state, deferred>>
  /\ connect' = Notified(connect, r)
  /\ UNCHANGED <<protocol, parked, handle, stack, writeOps, posted, wire, readOp, completions>>

-----------------------------------------------------------------------------
(* Pair::onRead, when the read segment is full.                            *)

(* Mutant of AwaitPayload: onRead does not return to read the payload.     *)
AwaitNothing(r, msg) ==
  /\ readOp' = [readOp EXCEPT ![r] = NewRead]
  /\ completions' = [completions EXCEPT ![r].recv = @ + 1]

(* onSendUnboundBuffer, now or when the payload has been read.             *)
AwaitPayload(r, msg) ==
  \/ /\ Length(msg) > 0
     /\ readOp' = [readOp EXCEPT ![r] = [stage |-> "payload", left |-> Length(msg)]]
     /\ UNCHANGED completions
  \/ /\ Length(msg) = 0
     /\ readOp' = [readOp EXCEPT ![r] = NewRead]
     /\ completions' = [completions EXCEPT ![r].recv = @ + 1]

OnReadPreamble(r, msg) ==
  LET p == Peer(r) IN
  \/ /\ \/ msg.opcode = "NOTIFY_SEND_READY" /\ M!HandleRemotePendingSend(p, r, msg.slot)
        \/ msg.opcode = "NOTIFY_RECV_READY" /\ M!HandleRemotePendingRecv(p, r, msg.slot)
     /\ WriteOp(r)
     /\ readOp' = [readOp EXCEPT ![r] = NewRead]
     /\ UNCHANGED completions
  \/ /\ msg.opcode = "SEND_UNBOUND_BUFFER"
     /\ M!ReceivePayload(p, r, msg.slot)
     /\ AwaitPayload(r, msg)
     /\ UNCHANGED <<writeOps, posted, deferred>>

OnReadPayload(r) ==
  /\ readOp' = [readOp EXCEPT ![r] = NewRead]
  /\ completions' = [completions EXCEPT ![r].recv = @ + 1]
  /\ UNCHANGED <<protocol, writeOps, posted, deferred>>

(* uv__read_cb: k bytes arrive.                                            *)
Read(r, k) ==
  LET p == Peer(r) IN
  /\ Idle(r)
  /\ handle[r] = "open"
  /\ k <= Len(wire[p])
  /\ wire' = [wire EXCEPT ![p] = SubSeq(@, k + 1, Len(@))]
  /\ \/ /\ k < readOp[r].left
        /\ readOp' = [readOp EXCEPT ![r].left = @ - k]
        /\ UNCHANGED <<protocol, deferred, writeOps, posted, completions>>
     \/ /\ k = readOp[r].left
        /\ readOp[r].stage = "preamble"
        /\ OnReadPreamble(r, wire[p][k][1])
     \/ /\ k = readOp[r].left
        /\ readOp[r].stage = "payload"
        /\ OnReadPayload(r)
  /\ UNCHANGED <<state, errno, connecting, handle, stack, requests, faults>>

-----------------------------------------------------------------------------
Connecting(r) ==
  \/ ConnectAsListener(r) \/ ConnectAsInitiator(r) \/ OnConnect(r)
  \/ OnSequenceWritten(r) \/ OnSequenceRead(r) \/ OnAcceptedEnd(r)

ReadSome(r) == \E k \in 1 .. readOp[r].left : Read(r, k)

(* What the loop thread of r does when nothing goes wrong.                 *)
LoopStep(r) ==
  \/ Connecting(r) \/ TakeDeferred(r) \/ RunWrite(r) \/ RunClose(r)
  \/ OnWrite(r) \/ OnClose(r) \/ OnEnd(r) \/ ReadSome(r)

CallAnyStep(r) == \E n \in 1 .. MaxRecvs[r] : CallStep(r, n)

Next ==
  \E r \in Ranks :
    \/ Connect(r) \/ ConnectReturns(r) \/ LoopStep(r) \/ Transmit(r) \/ OnError(r)
    \/ \E error \in {"ECONNREFUSED", "ETIMEDOUT"} : OnConnectError(r, error)
    \/ Close(r) \/ DestroyReturns(r)
    \/ \E s \in Slots : Send(r, s) \/ RecvFrom(r, s) \/ RecvFromAny(r, s)
    \/ CallAnyStep(r)

(* The application connects its pairs; every loop thread keeps running     *)
(* deferred functions and callbacks while any is due, and the system keeps *)
(* transmitting; threads that were woken, or that are inside recvFromAny,  *)
(* keep running.  Nothing forces the application to post or to close, or   *)
(* an error to happen.                                                     *)
Fairness ==
  \A r \in Ranks :
    /\ WF_vars(LoopStep(r) \/ Transmit(r))
    /\ WF_vars(Connect(r) \/ ConnectReturns(r))
    /\ WF_vars(CallAnyStep(r))

Spec == Init /\ [][Next]_vars /\ Fairness

-----------------------------------------------------------------------------
TypeOK ==
  /\ M!TypeOK
  /\ state \in [Ranks -> {"INITIALIZED", "CONNECTING", "CONNECTED", "CLOSING", "CLOSED",
                          "destroyed", "crashed"}]
  /\ errno \in [Ranks -> {NoError, "ECONNREFUSED", "ETIMEDOUT", "ECONNRESET", "EBADF",
                          "ECANCELED"}]
  /\ connect \in [Ranks -> {"not called", "asleep", "woken", "returned", "threw"}]
  /\ handle \in [Ranks -> {"none", "connecting", "writing", "accepted", "parked", "open",
                           "closing", "closed"}]
  /\ parked \in [Ranks -> {"none", "callback", "connection"}]
  /\ posted \in [Ranks -> Nat]
  /\ readOp \in [Ranks -> [stage : {"preamble", "payload"}, left : Nat \ {0}]]

(* The functions that r has yet to run, oldest first.                      *)
Functions(r) == stack[r] \o deferred[r]

(* The parts that operations and functions are written in.                 *)
PartsOf(op) == LET parts == Parts(op.msg)
               IN  [k \in DOMAIN parts |-> [n |-> op.n, msg |-> op.msg, part |-> parts[k]]]

FunctionParts(fns) ==
  FlattenSeq([k \in DOMAIN fns |-> IF fns[k].fn = "write" THEN PartsOf(fns[k].op) ELSE <<>>])

RequestParts(reqs) ==
  [k \in DOMAIN reqs |-> [n |-> reqs[k].n, msg |-> reqs[k].msg, part |-> reqs[k].part]]

(* libuv has written the first Done(reqs) of the requests.                 *)
Done(reqs) == Cardinality({k \in DOMAIN reqs : reqs[k].done})
Undone(reqs) == SubSeq(reqs, Done(reqs) + 1, Len(reqs))

(* The bytes of parts and of messages.                                     *)
PartBytes(parts) ==
  FlattenSeq([k \in DOMAIN parts |-> Bytes(parts[k].msg, parts[k].part)])

MessageBytes(msgs) ==
  FlattenSeq([k \in DOMAIN msgs |-> Bytes(msgs[k], "preamble") \o Bytes(msgs[k], "payload")])

(* All that is on its way to a peer: on the wire, in requests that are not *)
(* written, and in functions yet to run.                                   *)
Outgoing(w, reqs, fns) == w \o PartBytes(RequestParts(Undone(reqs)) \o FunctionParts(fns))

(* How many bytes of the unhandled messages the reader has read; it is     *)
(* negative in a payload, whose message was handled with its preamble.     *)
Skipped(op) == IF op.stage = "preamble" THEN Preamble - op.left ELSE -op.left

(* The bytes are the next ones of the messages after those skipped.        *)
Continue(bytes, msgs, skipped) ==
  LET unread == MessageBytes(msgs) IN
  \A k \in DOMAIN bytes :
    IF k + skipped > 0 THEN k + skipped <= Len(unread) /\ bytes[k] = unread[k + skipped]
    ELSE bytes[k][2] = "payload"

(* What r has queued will be written.                                      *)
Flowing(r) == handle[r] = "open" /\ errno[r] = NoError

(* What is on the wire from r to its peer continues what the peer has      *)
(* read: byte by byte it is what the messages that the peer has not        *)
(* handled consist of, even if r has failed or is being closed.  Until     *)
(* then the bytes on the wire, in requests and in functions are all that   *)
(* those messages have.  Hence the message that onRead acts on is the next *)
(* one in the order of posting, however user threads that defer writes,    *)
(* the loop threads and partial reads interleave.                          *)
StreamAgrees ==
  /\ TypeOK
  /\ \A r \in Ranks :
       LET msgs == channel[r][Peer(r)]
           skipped == Skipped(readOp[Peer(r)])
           out == Outgoing(wire[r], requests[r], Functions(r))
       IN  /\ Continue(wire[r], msgs, skipped)
           /\ Flowing(r) => /\ Continue(out, msgs, skipped)
                            /\ Len(out) + skipped = Len(MessageBytes(msgs))

(* When the bytes of a preamble have all arrived, they are a preamble, it  *)
(* is that of the next message in the order of posting, and if a payload   *)
(* follows then a receive is waiting for it.  Hence onRead never takes a   *)
(* payload for an opcode, and its GLOO_ENFORCEs on localPendingRecv_ hold, *)
(* even if the peer has failed or closed.                                  *)
ReadsNextMessage ==
  \A r \in Ranks :
    LET p == Peer(r)
        k == readOp[r].left
        msg == wire[p][k][1]
    IN  readOp[r].stage = "preamble" /\ k <= Len(wire[p]) =>
          /\ wire[p][k][2] = "preamble"
          /\ channel[p][r] # <<>>
          /\ msg = Head(channel[p][r])
          /\ msg.opcode = "SEND_UNBOUND_BUFFER" => localPendingRecv[r][p][msg.slot] # <<>>

(* The parts that operations wait for.                                     *)
Awaited(ops) ==
  FlattenSeq([k \in DOMAIN ops |->
                IF ops[k].nwritten = 0 THEN PartsOf(ops[k]) ELSE Tail(PartsOf(ops[k]))])

(* The write events to come are, in order, those that the operations in    *)
(* writeOps_ wait for, though they may end early if the pair fails or is   *)
(* closed.  Hence onWrite, which is not told what was written, never       *)
(* reports a send complete whose payload libuv still reads from the        *)
(* buffer, and never finds writeOps_ empty.                                *)
EventsMatchOps ==
  \A r \in Ranks :
    LET reqs == requests[r] IN
    /\ IsPrefix(RequestParts(SubSeq(reqs, 1, Done(reqs))), Awaited(writeOps[r]))
    /\ Flowing(r) => RequestParts(reqs) \o FunctionParts(Functions(r)) = Awaited(writeOps[r])

(* Once ~Pair has returned no callback and no deferred function can refer  *)
(* to the pair, except for the write of an operation posted after the pair *)
(* had begun to close (the state is not checked: TODO in Pair::send).      *)
NoUseAfterDestroy ==
  \A r \in Ranks :
    state[r] = "destroyed" =>
      /\ handle[r] \notin {"open", "closing"}
      /\ requests[r] = <<>>
      /\ \A k \in DOMAIN Functions(r) :
           Functions(r)[k].fn = "write" /\ Functions(r)[k].op.late

Failed == \E r \in Ranks : state[r] \in {"CLOSING", "CLOSED", "destroyed", "crashed"}

InTransit ==
  \E r \in Ranks :
    channel[r][Peer(r)] # <<>> \/ writeOps[r] # <<>> \/ readOp[r].stage = "payload"

(* A pair is closing, or a thread is in Pair::connect of a connected one.  *)
Unsettled ==
  \E r \in Ranks :
    \/ state[r] = "CLOSING"
    \/ state[r] = "CONNECTED" /\ connect[r] \notin {"returned", "threw"}

(* All that was posted is written, read and handled, and write completions *)
(* are reported, unless one of the pairs fails or is closed; a pair that   *)
(* begins to close, whoever began it, is closed at last, so that its       *)
(* destructor returns; and a thread in Pair::connect is not forgotten if   *)
(* the connection was made, even if it ended at once.                      *)
Drains ==
  /\ InTransit ~> (~InTransit \/ Failed)
  /\ Unsettled ~> ~Unsettled

(* The callback of Device::connect "is called with an associated error     *)
(* event" and Pair::connect is to "wait for callback to fire": a call of   *)
(* connect ends when the callback was called with an error.                *)
ConnectErrorReported ==
  \A r \in Ranks :
    (connect[r] = "asleep" /\ state[r] = "CLOSED" /\ errno[r] # NoError)
      ~> connect[r] = "threw"
=============================================================================
