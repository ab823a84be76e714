------------------------------- MODULE Dmludp -------------------------------
(***************************************************************************)
(* The dmludp transport: two connected pairs exchange operations over UDP. *)
(* gloo/connection.h is the protocol, gloo/transport/dmludp/socket.cc its  *)
(* handshake, and write2dmludp and handleread in                           *)
(* gloo/transport/dmludp/pair.cc drive it.                                 *)
(*                                                                         *)
(* A writer hands a window of segments to the network and then asks, with  *)
(* an ElicitAck that lists their offsets, which of them arrived; it        *)
(* repeats the question under a new packet number when no answer comes in  *)
(* time, and goes on once every question has been answered by an ACK.      *)
(* Datagrams may be lost, duplicated and overtake each other.              *)
(***************************************************************************)
EXTENDS DmludpBuffer

CONSTANTS
  Preamble,    \* length of an operation's preamble
  Ops,         \* Ops[e]: the operations e sends: payload lengths, or Notification
  ElicitMax,   \* most offsets in an ElicitAck (160)
  Faults,      \* what may happen: subset of {"lose", "duplicate", "overtake", "fail"}
  MaxFaults,   \* bound on the number of faults
  MaxRetries,  \* bound on the repetitions of one ElicitAck
  MaxQueue     \* datagrams a socket holds before resent ones are dropped

Notification == -1
Ends == {"client", "server"}
Peer(e) == IF e = "client" THEN "server" ELSE "client"

ASSUME OpsAssumption ==
  /\ Preamble \in Nat \ {0}
  /\ \A e \in Ends : Ops[e] \in Seq(Nat \cup {Notification})
ASSUME BoundsAssumption ==
  /\ ElicitMax \in Nat \ {0}
  /\ Faults \subseteq {"lose", "duplicate", "overtake", "fail"}
  /\ {MaxFaults, MaxRetries, MaxQueue} \subseteq Nat

VARIABLES
  pc,     \* [e]: where the pair's thread is
  todo,   \* [e]: the operations still to be written, with nwritten of the first
  snd,    \* [e]: the sending half of the Connection
  rcv,    \* [e]: the receiving half, and the handshake
  net,    \* [s]: the datagrams under way to socket s
  faults  \* number of faults so far

vars == <<pc, todo, snd, rcv, net, faults>>

-----------------------------------------------------------------------------
(* Datagrams: the packet types that are ever sent, with the header fields  *)
(* that are read.                                                          *)

Handshake == [type |-> "Handshake"]
Application(s) == [type |-> "Application", off |-> s.off]
ElicitAck(pn, offs) == [type |-> "ElicitAck", pn |-> pn, offs |-> offs]
ACK(pn, status) == [type |-> "ACK", pn |-> pn, status |-> status]

-----------------------------------------------------------------------------
(* Initial states: the client's Socket::connect_dmludp against the         *)
(* server's listener.                                                      *)

NewSender ==
  [data_buffer |-> <<>>, current |-> 1, written |-> 0, written_len |-> 0,
   messages |-> <<>>,
   buf |-> EmptySendBuf, recovery |-> EmptyRecovery, record_win |-> 0,
   high_priority |-> 0, sent_number |-> 0,
   record_send |-> <<>>, ack_point |-> 0, sent_dic |-> <<>>, stop_ack |-> TRUE,
   next_pkt_num |-> 0, ack_set |-> {}, keyToValues |-> <<>>, valueToKeys |-> <<>>,
   retransmission_ack |-> <<>>, timeout_ack |-> <<>>]

NewReceiver ==
  [rttZero |-> TRUE, handshake_confirmed |-> FALSE, recv_flag |-> FALSE,
   send_num |-> 0, recv_dic |-> {}, recv_hashmap |-> <<>>]

NewOp(payload) ==
  [payload |-> payload, nwritten |-> 0,
   nbytes |-> IF payload = Notification THEN Preamble ELSE Preamble + payload]

Init ==
  /\ pc = [e \in Ends |-> IF e = "client" THEN "connect" ELSE "listen"]
  /\ todo = [e \in Ends |-> [i \in DOMAIN Ops[e] |-> NewOp(Ops[e][i])]]
  /\ snd = [e \in Ends |-> NewSender]
  /\ rcv = [e \in Ends |-> NewReceiver]
  /\ net = [s \in Ends \cup {"listener"} |-> <<>>]
  /\ faults = 0

Goto(e, l) == pc' = [pc EXCEPT ![e] = l]
SendTo(s, msgs) == net' = [net EXCEPT ![s] = @ \o msgs]

(* Send msgs to s; the first datagram in from's socket has been read.      *)
Answer(from, s, msgs) == net' = [net EXCEPT ![from] = Tail(@), ![s] = @ \o msgs]

-----------------------------------------------------------------------------
(* Connection::write_pkt_type, as far as send_data is ever called: in the  *)
(* handshake, and to answer an ElicitAck.                                  *)
write_pkt_type(e, r) ==
  CASE e = "server" /\ r.rttZero -> "Handshake"
    [] e = "client" /\ ~r.handshake_confirmed -> "Handshake"
    [] OTHER -> IF r.recv_flag THEN "ACK" ELSE "none"

(* Connection::send_data: the datagram and the receiver's state after it.  *)
SendType(e, r, ty) ==
  CASE ty = "Handshake" ->
         [r |-> [r EXCEPT !.handshake_confirmed = @ \/ e = "client"], out |-> Handshake]
    [] ty = "ACK" ->
         [r |-> [r EXCEPT !.recv_flag = FALSE, !.recv_hashmap = <<>>],
          out |-> ACK(r.send_num, r.recv_hashmap)]
    [] OTHER -> [r |-> r, out |-> [type |-> "none"]]
send_data(e, r) == SendType(e, r, write_pkt_type(e, r))

(* Connection::check_loss: what was not reported before is reported as     *)
(* received (0) or missing (1); an earlier report is not replaced.         *)
CumulativeLoss(r, offs) ==
  [o \in DOMAIN r.recv_hashmap \cup Range(offs) |->
     IF \E q \in r.recv_dic : o <= q THEN 0 ELSE 1]
check_loss(r, offs) ==
  [o \in DOMAIN r.recv_hashmap \cup Range(offs) |->
     IF o \in DOMAIN r.recv_hashmap THEN r.recv_hashmap[o]
     ELSE IF o \in r.recv_dic THEN 0 ELSE 1]

(* Connection::recv_slice, but for an ACK: what the datagram p does to the *)
(* receiving half.                                                         *)
recv_slice(e, r, p) ==
  CASE p.type = "Handshake" ->
         IF e = "server" THEN [r EXCEPT !.rttZero = FALSE]
         ELSE [r EXCEPT !.handshake_confirmed = FALSE]
    [] p.type = "ElicitAck" ->
         [r EXCEPT !.recv_flag = TRUE, !.send_num = p.pn,
                   !.recv_hashmap = check_loss(r, p.offs)]
    [] p.type = "Application" -> [r EXCEPT !.recv_dic = @ \cup {p.off}]
    [] OTHER -> r

-----------------------------------------------------------------------------
(* The handshake.                                                          *)

ConnectDmludp ==
  /\ pc["client"] = "connect"
  /\ Goto("client", "handshake")
  /\ SendTo("listener", <<Handshake>>)
  /\ UNCHANGED <<todo, snd, rcv, faults>>

(* Socket::listen and the first half of Socket::accept.                    *)
Listen ==
  /\ pc["server"] = "listen"
  /\ net["listener"] # <<>>
  /\ \E s \in {send_data("server", rcv["server"])} :
         /\ rcv' = [rcv EXCEPT !["server"] = s.r]
         /\ Answer("listener", "client", <<s.out>>)
  /\ Goto("server", "accept")
  /\ UNCHANGED <<todo, snd, faults>>

(* The rest of connect_dmludp, once the server has answered: a new         *)
(* Connection, whose rtt is set, takes the answer and returns it.          *)
Connected ==
  /\ pc["client"] = "handshake"
  /\ net["client"] # <<>>
  /\ \E s \in {send_data("client", recv_slice("client", [NewReceiver EXCEPT !.rttZero = FALSE],
                                                  Head(net["client"])))} :
         /\ rcv' = [rcv EXCEPT !["client"] = s.r]
         /\ Answer("client", "server", <<s.out>>)
  /\ Goto("client", "idle")
  /\ UNCHANGED <<todo, snd, faults>>

(* The rest of Socket::accept.                                             *)
Accepted ==
  /\ pc["server"] = "accept"
  /\ net["server"] # <<>>
  /\ rcv' = [rcv EXCEPT !["server"] = recv_slice("server", @, Head(net["server"]))]
  /\ net' = [net EXCEPT !["server"] = Tail(@)]
  /\ Goto("server", "idle")
  /\ UNCHANGED <<todo, snd, faults>>

-----------------------------------------------------------------------------
(* Writing.                                                                *)

Buffer(n) == [len |-> n, left |-> n]

(* prepareWrite: the io vectors of what remains of the operation op.       *)
prepareWrite(op) ==
  LET preamble == IF op.nwritten < Preamble THEN <<Buffer(Preamble - op.nwritten)>>
                  ELSE <<>>
      payload == IF op.payload = Notification THEN <<>>
                 ELSE <<Buffer(op.payload - Max({0, op.nwritten - Preamble}))>>
  IN  preamble \o payload

(* write2dmludp up to its loop: get_data takes the io vectors, which it    *)
(* refuses while it still has some.  The pairs exchange operations once    *)
(* both have returned from the handshake.                                  *)
StartWrite(e) ==
  /\ pc[e] = "idle"
  /\ \A d \in Ends : pc[d] \notin {"connect", "handshake", "listen", "accept"}
  /\ todo[e] # <<>>
  /\ snd[e].data_buffer = <<>>
  /\ snd' = [snd EXCEPT ![e].data_buffer = prepareWrite(Head(todo[e])),
                        ![e].written = 0, ![e].messages = <<>>]
  /\ Goto(e, "mmsg")
  /\ UNCHANGED <<todo, rcv, net, faults>>

(* The window for the next round: a new one when nothing is to be          *)
(* retransmitted, smaller if more than one in a hundred went missing.      *)
Opened(s, w) ==
  [s EXCEPT !.recovery = w.r, !.record_win = w.window, !.high_priority = 0, !.sent_number = 0]

NextWindow(s) ==
  IF s.buf.data # <<>> THEN s
  ELSE Opened(s, IF 100 * s.high_priority > s.sent_number
                 THEN rollback(s.recovery) ELSE cwnd(s.recovery))

(* send_mmsg computes the window and starts to fill the send buffer.       *)
SendMmsg(e) ==
  /\ pc[e] = "mmsg"
  /\ snd' = [snd EXCEPT ![e] = [NextWindow(@) EXCEPT !.written_len = 0]]
  /\ Goto(e, "fill")
  /\ UNCHANGED <<todo, rcv, net, faults>>

(* Connection::nwrite on the io vector d.                                  *)
OffLen(s, d) ==
  IF s.buf.data # <<>> THEN 0 ELSE SEND_BUFFER_SIZE - ((d.len - d.left) % SEND_BUFFER_SIZE)
nwrite(s, d) == write(s.buf, d.left, s.record_win, OffLen(s, d))

(* s after a write w, and after the step to the next io vector.            *)
Wrote(s, w) ==
  [s EXCEPT !.buf = w.b, !.written_len = @ + w.n,
            !.data_buffer[s.current].left = @ - Max({0, w.n})]
Exhausted(s) == s.data_buffer[s.current].left = 0
Move(s) == IF Exhausted(s) THEN [s EXCEPT !.current = @ + 1] ELSE s

(* One turn of the loop of send_mmsg that fills the send buffer.  When the *)
(* first write takes nothing send_mmsg returns without emitting: the       *)
(* previous messages go out again, and the count of bytes written goes     *)
(* down by one each time, here not below 0.  When a later one takes        *)
(* nothing and its io vector is not exhausted, the loop spins.             *)
Fill(e) ==
  /\ pc[e] = "fill"
  /\ \E w \in {nwrite(snd[e], snd[e].data_buffer[snd[e].current])} :
     \E s \in {Wrote(snd[e], w)} :
       \/ /\ snd[e].written_len = 0 /\ w.n <= 0
          /\ Goto(e, "elicit")
          /\ snd' = [snd EXCEPT ![e] = [s EXCEPT !.written = Max({0, @ + w.n})]]
          /\ IF Len(net[Peer(e)]) + Len(s.messages) <= MaxQueue
             THEN SendTo(Peer(e), s.messages) ELSE UNCHANGED net
       \/ /\ snd[e].written_len # 0 \/ w.n > 0
          /\ UNCHANGED net
          /\ \/ /\ Exhausted(s) /\ s.current = Len(s.data_buffer)
                /\ Goto(e, "emit")
                /\ snd' = [snd EXCEPT ![e] = s]
             \/ /\ ~Exhausted(s) \/ s.current < Len(s.data_buffer)
                /\ snd' = [snd EXCEPT ![e] = Move(s)]
                /\ Goto(e, IF s.written_len >= s.record_win THEN "emit"
                           ELSE IF w.n <= 0 /\ ~Exhausted(s) THEN "spins"
                           ELSE "fill")
  /\ UNCHANGED <<todo, rcv, faults>>

(* The rest of send_mmsg: one round of emit.  The vector of messages is    *)
(* resized to the buffer, so entries of the previous round stay behind     *)
(* the ones emitted.                                                       *)
EmitRound(s, em, offs, pr) ==
  [s EXCEPT !.buf = em.b,
            !.sent_number = @ + Len(em.out),
            !.messages = [i \in DOMAIN em.out |-> Application(em.out[i])]
                         \o SubSeq(@, Len(em.out) + 1, Min({Len(@), Len(s.buf.data)})),
            !.record_send = @ \o [i \in DOMAIN em.out |-> em.out[i].off],
            !.sent_dic = [o \in DOMAIN @ \cup offs |->
                            IF o \notin offs THEN @[o]
                            ELSE IF o \in DOMAIN @ THEN (@[o] - 1) % U64 ELSE pr[o]],
            !.written = @ + s.written_len,
            !.stop_ack = IF s.written_len # 0 THEN FALSE ELSE @]

Emitting(e) ==
  /\ pc[e] = "emit"
  /\ \E em \in {emit(snd[e].buf)} :
     \E offs \in {{em.out[i].off : i \in DOMAIN em.out}} :
     \E pr \in priority_calculation(offs) :
       snd' = [snd EXCEPT ![e] = EmitRound(@, em, offs, pr)]

(* ... and the call to sendmmsg after it.                                  *)
Emit(e) ==
  /\ Emitting(e)
  /\ SendTo(Peer(e), snd'[e].messages)
  /\ Goto(e, "elicit")
  /\ UNCHANGED <<todo, rcv, faults>>

(* sendmmsg fails: write2dmludp returns false with its io vectors still in *)
(* the connection, and handleReadWrite spins on the operation from then on *)
(* because the transmission is never complete.                             *)
SendFails(e) ==
  /\ "fail" \in Faults /\ faults < MaxFaults
  /\ Emitting(e)
  /\ Goto(e, "spins")
  /\ faults' = faults + 1
  /\ UNCHANGED <<todo, rcv, net>>

-----------------------------------------------------------------------------
(* Asking what arrived: the inner loop of write2dmludp calls               *)
(* send_elicit_ack, reads one datagram if there is one, and starts over.   *)

(* The maps of the Connection, with v under key k.                         *)
Put(f, k, v) == [x \in DOMAIN f \cup {k} |-> IF x = k THEN v ELSE f[x]]
Without(f, S) == [x \in DOMAIN f \ S |-> f[x]]

Unasked(s) == Len(s.record_send) # s.ack_point

(* send_elicit_ack asks, in packet pn, about offsets sent since the last   *)
(* question.                                                               *)
Ask(s, pn, offs) ==
  [s EXCEPT !.next_pkt_num = @ + 1,
            !.ack_point = @ + Len(offs),
            !.ack_set = @ \cup {pn},
            !.keyToValues = Put(@, pn, <<pn>>),
            !.valueToKeys = Put(@, pn, pn),
            !.retransmission_ack = Put(@, pn, offs)]

NextOffsets(s) ==
  SubSeq(s.record_send, s.ack_point + 1, Min({Len(s.record_send), s.ack_point + ElicitMax}))

Elicit(e) ==
  /\ pc[e] = "elicit"
  /\ Unasked(snd[e])
  /\ \E offs \in {NextOffsets(snd[e])} :
       /\ snd' = [snd EXCEPT ![e] = Ask(@, snd[e].next_pkt_num, offs)]
       /\ SendTo(Peer(e), <<ElicitAck(snd[e].next_pkt_num, offs)>>)
  /\ Goto(e, "recv")
  /\ UNCHANGED <<todo, rcv, faults>>

(* ... or repeats, under a new number, a question pn that is 1.2 rtt old,  *)
(* and remembers that it did in timeout_ack.                               *)
RepeatForgotten(s, pn, new, ini) ==
  [s EXCEPT !.next_pkt_num = @ + 1,
            !.keyToValues[ini] = Append(@, new),
            !.valueToKeys = Put(@, new, ini),
            !.retransmission_ack = Put(Without(@, {pn}), new, s.retransmission_ack[pn])]
Repeat(s, pn, new, ini) ==
  [s EXCEPT !.next_pkt_num = @ + 1,
            !.keyToValues[ini] = Append(@, new),
            !.valueToKeys = Put(@, new, ini),
            !.timeout_ack = IF pn \in DOMAIN @ THEN @ ELSE Put(@, pn, s.retransmission_ack[pn]),
            !.retransmission_ack = Put(Without(@, {pn}), new, s.retransmission_ack[pn])]

Retransmit(e) ==
  /\ pc[e] = "elicit"
  /\ ~Unasked(snd[e])
  /\ \E pn \in DOMAIN snd[e].retransmission_ack :
       /\ Len(snd[e].keyToValues[snd[e].valueToKeys[pn]]) <= MaxRetries
       /\ snd' = [snd EXCEPT ![e] = Repeat(@, pn, @.next_pkt_num, @.valueToKeys[pn])]
       /\ SendTo(Peer(e), <<ElicitAck(snd[e].next_pkt_num, snd[e].retransmission_ack[pn])>>)
  /\ Goto(e, "recv")
  /\ UNCHANGED <<todo, rcv, faults>>

(* ... or finds nothing that has timed out.                                *)
NothingTimedOut(e) ==
  /\ pc[e] = "elicit"
  /\ ~Unasked(snd[e])
  /\ DOMAIN snd[e].retransmission_ack # {} \/ ~snd[e].stop_ack
  /\ Goto(e, "recv")
  /\ UNCHANGED <<todo, snd, rcv, net, faults>>

transmission_complete(s) ==
  /\ \A i \in DOMAIN s.data_buffer : s.data_buffer[i].left = 0
  /\ s.buf.data = <<>>
  /\ s.buf.offset_recv = <<>>

(* ... or ends the loop: every question has been answered.  The operation  *)
(* is done if the bytes that send_mmsg claims to have taken add up; if not *)
(* it stays first in tx_.                                                  *)
Answered(s) == /\ DOMAIN s.retransmission_ack = {}
               /\ ~Unasked(s)
               /\ s.stop_ack

EndRound(e) ==
  /\ pc[e] = "elicit"
  /\ Answered(snd[e])
  /\ IF transmission_complete(snd[e])
     THEN LET op == [Head(todo[e]) EXCEPT !.nwritten = @ + snd[e].written]
          IN  /\ todo' = [todo EXCEPT ![e] = IF op.nwritten = op.nbytes THEN Tail(@)
                                             ELSE <<op>> \o Tail(@)]
              /\ snd' = [snd EXCEPT ![e].data_buffer = <<>>, ![e].current = 1,
                                    ![e].messages = <<>>, ![e].written = 0]
              /\ Goto(e, "idle")
     ELSE /\ Goto(e, "mmsg")
          /\ UNCHANGED <<todo, snd>>
  /\ UNCHANGED <<rcv, net, faults>>

-----------------------------------------------------------------------------
(* Connection::process_ack.                                                *)

(* Missing segments that are to be sent again: those of priority 1 to 3    *)
(* that have not used up their transmissions.                              *)
KeptBelowThree(s, status, pr) ==
  {o \in DOMAIN status : status[o] # 0 /\ pr[o] \in {1, 2} /\ s.sent_dic[o] # 0}
Kept(s, status, pr) ==
  {o \in DOMAIN status : status[o] # 0 /\ Weight(pr[o]) # 0 /\ s.sent_dic[o] # 0}

(* What the missing ones among the first n offsets of an ACK weigh.        *)
Missing(status, pr, p, n) ==
  {o \in DOMAIN status : /\ status[o] # 0 /\ pr[o] = p
                         /\ Cardinality({q \in DOMAIN status : q <= o}) <= n}
WeightUpTo(status, pr, n) ==
  Weight(1) * Cardinality(Missing(status, pr, 1, n))
    + Weight(2) * Cardinality(Missing(status, pr, 2, n))
    + Weight(3) * Cardinality(Missing(status, pr, 3, n))

(* update_win is called for every eighth offset of the ACK and at its end, *)
(* with the weights so far.                                                *)
Windows(r, status, pr, N) ==
  LET window[n \in 0 .. N] ==
        IF n = 0 THEN r
        ELSE IF n % 8 = 0 \/ n = N
        THEN update_win(window[n - 1], WeightUpTo(status, pr, n), IF n % 8 = 0 THEN 8 ELSE n % 8)
        ELSE window[n - 1]
  IN  window
UpdateWindow(r, status, pr, N) == Windows(r, status, pr, N)[N]

(* The question ini is answered: all its repetitions are forgotten.        *)
Forget(s, ini, pns) ==
  [s EXCEPT !.ack_set = @ \ {ini},
            !.keyToValues = Without(@, {ini}),
            !.valueToKeys = Without(@, pns),
            !.retransmission_ack = Without(@, pns),
            !.timeout_ack = Without(@, pns)]

Awaited(s, pn) ==
  pn \in DOMAIN s.retransmission_ack \cup DOMAIN s.timeout_ack

(* The offsets that question pn, which is awaited, asks about.             *)
Asked(s, pn) ==
  IF pn \in DOMAIN s.retransmission_ack THEN Range(s.retransmission_ack[pn])
  ELSE Range(s.timeout_ack[pn])

Acknowledged(s, ini, status, pr) ==
  [Forget(s, ini, Range(s.keyToValues[ini])) EXCEPT
     !.buf = recv_and_drop(ack_and_drop(@, DOMAIN status \ Kept(s, status, pr))),
     !.recovery = UpdateWindow(@, status, pr, Cardinality(DOMAIN status)),
     !.high_priority = @ + Cardinality({o \in DOMAIN status : status[o] # 0 /\ pr[o] = 3})]

process_ack(s, p, pr) ==
  IF s.ack_set = {} THEN [s EXCEPT !.stop_ack = TRUE]
  ELSE IF ~Awaited(s, p.pn) THEN s
  ELSE Acknowledged(s, s.valueToKeys[p.pn], p.status, pr)

(* recv_slice for an ACK.                                                  *)
NeverStop(s) == s
StopIfAnswered(s) == IF s.ack_set = {} THEN [s EXCEPT !.stop_ack = TRUE] ELSE s
recv_ack(s, p, pr) == StopIfAnswered(process_ack(s, p, pr))

(* A datagram is read, in handleread or in the loop of write2dmludp: an    *)
(* ElicitAck is answered at once.                                          *)
Read(e) ==
  \E p \in {Head(net[e])} :
    \/ /\ p.type = "ACK"
       /\ \E pr \in priority_calculation(DOMAIN p.status) :
            snd' = [snd EXCEPT ![e] = recv_ack(@, p, pr)]
       /\ net' = [net EXCEPT ![e] = Tail(@)]
       /\ UNCHANGED rcv
    \/ /\ p.type = "ElicitAck"
       /\ \E s \in {send_data(e, recv_slice(e, rcv[e], p))} :
            /\ rcv' = [rcv EXCEPT ![e] = s.r]
            /\ Answer(e, Peer(e), <<s.out>>)
       /\ UNCHANGED snd
    \/ /\ p.type \notin {"ACK", "ElicitAck"}
       /\ rcv' = [rcv EXCEPT ![e] = recv_slice(e, @, p)]
       /\ net' = [net EXCEPT ![e] = Tail(@)]
       /\ UNCHANGED snd

ReadInLoop(e) ==
  /\ pc[e] = "recv"
  /\ IF net[e] = <<>> THEN UNCHANGED <<snd, rcv, net>> ELSE Read(e)
  /\ Goto(e, "elicit")
  /\ UNCHANGED <<todo, faults>>

HandleRead(e) ==
  /\ pc[e] = "idle"
  /\ net[e] # <<>>
  /\ Read(e)
  /\ UNCHANGED <<pc, todo, faults>>

-----------------------------------------------------------------------------
(* The network.  A second copy of the first Handshake would be another     *)
(* connection attempt: the listener's queue is left alone.                 *)

Lose(e) ==
  /\ "lose" \in Faults /\ faults < MaxFaults
  /\ \E i \in DOMAIN net[e] : net' = [net EXCEPT ![e] = RemoveAt(@, i)]
  /\ faults' = faults + 1
  /\ UNCHANGED <<pc, todo, snd, rcv>>

Duplicate(e) ==
  /\ "duplicate" \in Faults /\ faults < MaxFaults
  /\ \E i \in DOMAIN net[e] : net' = [net EXCEPT ![e] = Append(@, net[e][i])]
  /\ faults' = faults + 1
  /\ UNCHANGED <<pc, todo, snd, rcv>>

Overtake(e) ==
  /\ "overtake" \in Faults /\ faults < MaxFaults
  /\ \E i \in DOMAIN net[e] \ {1} :
       net' = [net EXCEPT ![e] = <<net[e][i]>> \o RemoveAt(@, i)]
  /\ faults' = faults + 1
  /\ UNCHANGED <<pc, todo, snd, rcv>>

-----------------------------------------------------------------------------
HandshakeStep == ConnectDmludp \/ Listen \/ Connected \/ Accepted

WriteStep(e) ==
  \/ StartWrite(e) \/ SendMmsg(e) \/ Fill(e) \/ Emit(e) \/ Elicit(e) \/ NothingTimedOut(e)
  \/ EndRound(e) \/ ReadInLoop(e)

Step(e) == WriteStep(e) \/ Retransmit(e) \/ HandleRead(e)

Fault(e) == Lose(e) \/ Duplicate(e) \/ Overtake(e) \/ SendFails(e)

Next == HandshakeStep \/ \E e \in Ends : Step(e) \/ Fault(e)

(* A thread inside write2dmludp goes on to its next step: of what it does  *)
(* there, only pc[e] is of interest.                                       *)
Advance(e) ==
  /\ pc[e] \in {"mmsg", "fill", "emit", "elicit", "recv"}
  /\ \E l \in {"mmsg", "fill", "emit", "elicit", "recv", "spins", "idle"} \ {pc[e]} : Goto(e, l)

(* Threads run and the clock advances: whoever asks often enough finds     *)
(* that his question has timed out.                                        *)
Spec ==
  /\ Init /\ [][Next]_vars
  /\ WF_vars(HandshakeStep)
  /\ \A e \in Ends : /\ WF_vars(StartWrite(e))
                     /\ WF_pc(Advance(e))
                     /\ WF_vars(HandleRead(e))
                     /\ SF_vars(Retransmit(e))

-----------------------------------------------------------------------------
Labels == {"connect", "handshake", "listen", "accept", "idle",
           "mmsg", "fill", "emit", "elicit", "recv", "spins"}
Types == {"Handshake", "Application", "ElicitAck", "ACK"}

(* The types of what the pairs keep and exchange; a datagram is always of  *)
(* a type its reader knows: send_data never falls through to the blank     *)
(* header it makes for any other type.                                     *)
TypeOK ==
  /\ pc \in [Ends -> Labels]
  /\ faults \in 0 .. MaxFaults
  /\ \A s \in DOMAIN net : \A i \in DOMAIN net[s] : net[s][i].type \in Types
  /\ \A e \in Ends :
       /\ \A i \in DOMAIN snd[e].buf.data : snd[e].buf.data[i] \in Segment
       /\ Offsets(snd[e].buf) = DOMAIN snd[e].buf.offset_recv
       /\ snd[e].ack_point \in 0 .. Len(snd[e].record_send)
       /\ rcv[e].recv_dic \subseteq Nat

(* Every question is accounted for (connection.h:196-201): an unanswered   *)
(* one, by its first number, has exactly one number that is still timed    *)
(* (retransmission_ack) and otherwise numbers that have timed out          *)
(* (timeout_ack), and the two maps between first and later numbers agree.  *)
(* An ACK that answers an old number late, or twice, must not unbalance    *)
(* them: the writer waits until all are answered.                          *)
QuestionsAccountedFor ==
  /\ TypeOK
  /\ \A e \in Ends : LET s == snd[e] IN
       /\ DOMAIN s.keyToValues = s.ack_set
       /\ DOMAIN s.valueToKeys = UNION {Range(s.keyToValues[k]) : k \in s.ack_set}
       /\ DOMAIN s.valueToKeys = DOMAIN s.retransmission_ack \cup DOMAIN s.timeout_ack
       /\ DOMAIN s.retransmission_ack \cap DOMAIN s.timeout_ack = {}
       /\ \A k \in s.ack_set :
            /\ Cardinality(Range(s.keyToValues[k]) \cap DOMAIN s.retransmission_ack) = 1
            /\ \A v \in Range(s.keyToValues[k]) : s.valueToKeys[v] = k

(* What an ACK on its way says is true: a segment it reports as received   *)
(* was received, whatever was lost, repeated or reordered; and an ACK that *)
(* will be accepted covers all that its question asked about.              *)
AcksAreTrue ==
  \A e \in Ends : \A i \in DOMAIN net[e] : LET p == net[e][i] IN
    p.type = "ACK" =>
      /\ \A o \in DOMAIN p.status : p.status[o] = 0 => o \in rcv[Peer(e)].recv_dic
      /\ Awaited(snd[e], p.pn) =>
           Asked(snd[e], p.pn) \subseteq DOMAIN p.status

(* A writer lets go of a segment only if the peer has received it, or has  *)
(* reported it missing as often as its priority allows (sent_dic is 0).    *)
(* Only segments whose priority is defined are meant: past the end of      *)
(* norm2_vec a missing segment may be let go at once.                      *)
DroppedIsReceived ==
  \A e \in Ends : \A o \in DOMAIN snd[e].sent_dic :
    InBounds(o) /\ o \notin Offsets(snd[e].buf) =>
      o \in rcv[Peer(e)].recv_dic \/ snd[e].sent_dic[o] = 0

(* A segment was reported missing and is to be sent again, or a call to    *)
(* sendmmsg failed.                                                        *)
Bereft(e) == pc[e] = "spins" \/ (pc[e] = "mmsg" /\ snd[e].buf.data # <<>>)

(* write2dmludp returns (its loops wait for the peer, holding the pair's   *)
(* mutex), even if questions and answers are lost, repeated or late and    *)
(* both sides write at once, provided no segment is reported missing to    *)
(* either side: a writer that is Bereft reads no more datagrams.           *)
WritesReturn ==
  \A e \in Ends : pc[e] = "mmsg" ~> (pc[e] = "idle" \/ \E d \in Ends : Bereft(d))
=============================================================================
