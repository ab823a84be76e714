---------------------------- MODULE DmludpProofs ----------------------------
(***************************************************************************)
(* Theorems about the dmludp transport: whatever the datagrams suffer, the *)
(* questions of a writer stay accounted for, an ACK on its way tells the   *)
(* truth, and a segment is let go only if it was received or was sent as   *)
(* often as its priority allows.  They hold for all operations, windows,   *)
(* sizes and numbers of faults.                                            *)
(***************************************************************************)
EXTENDS Dmludp, FiniteSetTheorems, WellFoundedInduction, TLAPS

-----------------------------------------------------------------------------
(* The inductive invariant.  What a sending half keeps is split by what it *)
(* is about: the send buffer, the window, the offsets to ask about, the    *)
(* questions.                                                              *)

Setup == {"connect", "handshake", "listen", "accept"}
InLoop == {"mmsg", "fill", "emit", "elicit", "recv"}

SenderFields ==
  {"data_buffer", "current", "written", "written_len", "messages", "buf", "recovery",
   "record_win", "high_priority", "sent_number", "record_send", "ack_point", "sent_dic",
   "stop_ack", "next_pkt_num", "ack_set", "keyToValues", "valueToKeys",
   "retransmission_ack", "timeout_ack"}

(* Each segment in the buffer is unacknowledged, and was cut from bytes    *)
(* before off: an offset that leaves the buffer does not come back.        *)
BufOK(b) ==
  /\ DOMAIN b = {"data", "off", "max_data", "sent", "offset_recv"}
  /\ b.data \in Seq(Segment)
  /\ b.off \in Nat
  /\ b.max_data \in Int
  /\ DOMAIN b.offset_recv = Offsets(b)
  /\ \A o \in Offsets(b) : b.offset_recv[o] = TRUE /\ o < b.off

(* A window is a number: those remembered for rollback are bounded.        *)
RecoveryOK(r) ==
  /\ DOMAIN r = {"incre_win", "decre_win", "incre_win_copy", "decre_win_copy",
                 "former_win_vecter", "roll_back_flag", "function_change"}
  /\ r.incre_win \in Int /\ r.decre_win \in Int
  /\ r.incre_win_copy \in Int /\ r.decre_win_copy \in Int
  /\ r.former_win_vecter \subseteq Nat
  /\ \E m \in Nat : \A w \in r.former_win_vecter : w <= m

WindowOK(s) == RecoveryOK(s.recovery) /\ s.record_win \in Int

(* What was sent since the last question.                                  *)
AskingOK(s) ==
  /\ s.record_send \in Seq(Nat)
  /\ s.ack_point \in 0 .. Len(s.record_send)

(* A question has one number that is timed, and no number is used twice.   *)
(* A is ack_set, K and V map first numbers to all and back, T and O hold   *)
(* the timed and the timed out ones, and next is the next number.          *)
Accounted(next, A, K, V, T, O) ==
  /\ next \in Nat
  /\ DOMAIN K = A
  /\ A \subseteq Nat
  /\ DOMAIN V = DOMAIN T \cup DOMAIN O
  /\ DOMAIN T \cap DOMAIN O = {}
  /\ \A v \in DOMAIN V : /\ v \in Nat /\ v < next
                         /\ V[v] \in A
                         /\ v \in Range(K[V[v]])
  /\ \A k \in A : /\ K[k] \in Seq(Nat) /\ k \in Range(K[k])
                  /\ \A v \in Range(K[k]) : v \in DOMAIN V /\ V[v] = k
                  /\ \E v \in Nat : Range(K[k]) \cap DOMAIN T = {v}
  /\ \A v \in DOMAIN T : T[v] \in Seq(Nat)
  /\ \A v \in DOMAIN O : O[v] \in Seq(Nat)

QuestionsOK(s) ==
  Accounted(s.next_pkt_num, s.ack_set, s.keyToValues, s.valueToKeys,
            s.retransmission_ack, s.timeout_ack)

(* The operations to be written, and how far the first one is.             *)
Operation ==
  {op \in [payload : Nat \cup {Notification}, nwritten : Nat, nbytes : Nat] :
     /\ op.nbytes = IF op.payload = Notification THEN Preamble ELSE Preamble + op.payload
     /\ op.nwritten < op.nbytes}

Vector == [len : Nat, left : Nat]

(* The bytes in at most two io vectors that are not in the send buffer.    *)
Left(d) == (IF 1 <= Len(d) THEN d[1].left ELSE 0) + (IF 2 <= Len(d) THEN d[2].left ELSE 0)

(* The bytes that send_mmsg has taken and not yet reported.                *)
Taken(l, s) == IF l \in {"fill", "emit"} THEN s.written_len ELSE 0

(* write2dmludp never counts more bytes than the operation has: with more, *)
(* the io vectors of its next attempt would have negative lengths.         *)
WritingOK(l, t, s) ==
  /\ t \in Seq(Operation)
  /\ s.data_buffer \in Seq(Vector)
  /\ s.written \in Nat /\ s.written_len \in Int
  /\ l \in {"fill", "emit"} => s.written_len >= 0
  /\ l \in InLoop =>
       /\ t # <<>>
       /\ Len(s.data_buffer) \in 1 .. 2
       /\ s.current \in 1 .. Len(s.data_buffer)
       /\ s.written + Taken(l, s) + Left(s.data_buffer) <= t[1].nbytes - t[1].nwritten
  /\ l \in {"fill", "emit"} /\ s.written_len # 0 => s.buf.data # <<>>
  /\ l = "emit" => s.buf.data # <<>>
  /\ l \notin InLoop \cup {"spins"} => s.data_buffer = <<>> /\ s.current = 1

App == [type : {"Application"}, off : Nat]

SenderOK(l, t, s) ==
  /\ DOMAIN s = SenderFields
  /\ BufOK(s.buf)
  /\ WindowOK(s)
  /\ AskingOK(s)
  /\ QuestionsOK(s)
  /\ WritingOK(l, t, s)
  /\ s.messages \in Seq(App)

(* The offsets that have been sent, and those that have been let go while  *)
(* the peer had received dic.                                              *)
SentOK(s, dic) ==
  /\ \A o \in DOMAIN s.sent_dic : o \in Nat /\ o < s.buf.off
  /\ \A o \in DOMAIN s.sent_dic :
       InBounds(o) /\ o \notin Offsets(s.buf) => o \in dic \/ s.sent_dic[o] = 0

(* A report tells the truth, on its way or still in recv_hashmap.          *)
IsReport(h) == DOMAIN h \subseteq Nat /\ IsFiniteSet(DOMAIN h)
Report == {h \in UNION {[D -> 0 .. 1] : D \in SUBSET Nat} : IsReport(h)}
IsTrue(h, dic) == \A o \in DOMAIN h : h[o] = 0 => o \in dic

ReceiverOK(r) ==
  /\ DOMAIN r = {"rttZero", "handshake_confirmed", "recv_flag", "send_num", "recv_dic",
                 "recv_hashmap"}
  /\ r.recv_dic \subseteq Nat
  /\ r.recv_hashmap \in Report
  /\ IsTrue(r.recv_hashmap, r.recv_dic)

Question == [type : {"ElicitAck"}, pn : Nat, offs : Seq(Nat)]
Reply == [type : {"ACK"}, pn : Nat, status : Report]
Datagram == {Handshake} \cup App \cup Question \cup Reply

(* A question p that s has asked, and a reply p to it by a peer that has   *)
(* received dic.                                                           *)
QuestionOK(p, s) ==
  /\ p.pn < s.next_pkt_num
  /\ Awaited(s, p.pn) => Asked(s, p.pn) \subseteq Range(p.offs)
ReplyOK(p, s, dic) ==
  /\ p.pn < s.next_pkt_num
  /\ Awaited(s, p.pn) => Asked(s, p.pn) \subseteq DOMAIN p.status
  /\ IsTrue(p.status, dic)

(* A datagram p on its way to an end with sending half s, from an end with *)
(* sending half t that has received dic.                                   *)
DatagramOK(p, s, t, dic) ==
  /\ p.type = "ElicitAck" => QuestionOK(p, t)
  /\ p.type = "ACK" => ReplyOK(p, s, dic)

(* The datagrams on their way to such an end.                              *)
QueueOK(q, s, t, dic) ==
  /\ q \in Seq(Datagram)
  /\ \A i \in DOMAIN q : DatagramOK(q[i], s, t, dic)
Handshakes(q) == q \in Seq(Datagram) /\ \A i \in DOMAIN q : q[i] = Handshake

NetOK ==
  /\ DOMAIN net = Ends \cup {"listener"}
  /\ Handshakes(net["listener"])
  /\ \A e \in Ends : QueueOK(net[e], snd[e], snd[Peer(e)], rcv[Peer(e)].recv_dic)

(* Until both ends are connected there is nothing but the handshake.       *)
Pristine ==
  /\ \A e \in Ends : pc[e] \in Setup \cup {"idle"}
  /\ \A e \in Ends : Handshakes(net[e]) /\ rcv[e].recv_dic = {}
  /\ pc["server"] = "listen" => rcv["server"].rttZero = TRUE

IInv ==
  /\ pc \in [Ends -> Labels]
  /\ faults \in 0 .. MaxFaults
  /\ DOMAIN todo = Ends /\ DOMAIN snd = Ends /\ DOMAIN rcv = Ends
  /\ \A e \in Ends : SenderOK(pc[e], todo[e], snd[e])
  /\ \A e \in Ends : ReceiverOK(rcv[e])
  /\ \A e \in Ends : SentOK(snd[e], rcv[Peer(e)].recv_dic)
  /\ NetOK
  /\ (\E e \in Ends : pc[e] \in Setup) => Pristine

-----------------------------------------------------------------------------
(* Numbers.                                                                *)

(* A non-empty set of natural numbers has a least element.                 *)
LEMMA LeastNatural ==
  ASSUME NEW D, D \subseteq Nat, D # {}
  PROVE  \E m \in D : \A k \in D : m <= k
<1>1. PICK m \in D : \A k \in D : ~(<<k, m>> \in OpToRel(<, Nat))
  BY WFMin, NatLessThanWellFounded
<1>2. \A k \in D : ~(k < m)
  BY <1>1 DEF OpToRel
<1> QED
  BY <1>2

(* Induction up to N, on a set.                                            *)
LEMMA UpTo ==
  ASSUME NEW N \in Nat, NEW S, 0 \in S, \A n \in 1 .. N : n - 1 \in S => n \in S
  PROVE  \A n \in 0 .. N : n \in S
<1> SUFFICES ASSUME NEW n \in 0 .. N, n \notin S PROVE FALSE
  OBVIOUS
<1> DEFINE D == {k \in 0 .. N : k \notin S}
<1>1. D \subseteq Nat /\ D # {}
  OBVIOUS
<1>2. PICK m \in D : \A k \in D : m <= k
  BY <1>1, LeastNatural
<1>3. m # 0 /\ m \in 1 .. N
  OBVIOUS
<1>4. m - 1 \in 0 .. N /\ m - 1 \notin D
  BY <1>2, <1>3
<1> QED
  BY <1>3, <1>4

LEMMA MinIsLeast ==
  ASSUME NEW D, D \subseteq Nat, D # {}
  PROVE  Min(D) \in D /\ \A k \in D : Min(D) <= k
<1>1. \E m \in D : \A k \in D : m <= k
  BY LeastNatural
<1> QED
  BY <1>1 DEF Min

LEMMA MinOfTwo ==
  ASSUME NEW a \in Int, NEW b \in Int
  PROVE  Min({a, b}) \in {a, b} /\ Min({a, b}) <= a /\ Min({a, b}) <= b
<1>1. \E m \in {a, b} : \A k \in {a, b} : m =< k
  OBVIOUS
<1>2. Min({a, b}) \in {a, b} /\ \A k \in {a, b} : Min({a, b}) =< k
  BY <1>1 DEF Min
<1> QED
  BY <1>2

LEMMA MaxOfTwo ==
  ASSUME NEW a \in Int, NEW b \in Int
  PROVE  Max({a, b}) \in {a, b} /\ Max({a, b}) >= a /\ Max({a, b}) >= b
<1>1. \E m \in {a, b} : \A k \in {a, b} : m >= k
  OBVIOUS
<1>2. Max({a, b}) \in {a, b} /\ \A k \in {a, b} : Max({a, b}) >= k
  BY <1>1 DEF Max
<1> QED
  BY <1>2

(* A bounded set of natural numbers has a greatest element.                *)
LEMMA MaxOfBounded ==
  ASSUME NEW D, D \subseteq Nat, D # {}, NEW b \in Nat, \A w \in D : w <= b
  PROVE  Max(D) \in D
<1> DEFINE E == {b - w : w \in D}
<1>1. E \subseteq Nat /\ E # {}
  <2>1. \A w \in D : b - w \in Nat
    OBVIOUS
  <2> QED
    BY <2>1
<1>2. PICK m \in E : \A k \in E : m <= k
  BY <1>1, LeastNatural
<1>3. PICK w \in D : m = b - w
  BY <1>2
<1>4. \A y \in D : w >= y
  <2> SUFFICES ASSUME NEW y \in D PROVE w >= y
    OBVIOUS
  <2>1. b - y \in E
    OBVIOUS
  <2>2. m <= b - y
    BY <1>2, <2>1
  <2> QED
    BY <1>3, <2>2
<1> QED
  BY <1>4 DEF Max

-----------------------------------------------------------------------------
(* The recursive functions of the buffer and the window.                   *)

(* There is one with the sum of the first n lengths.                       *)
IsSums(s, f, n) ==
  /\ f = [i \in 0 .. n |-> f[i]]
  /\ f[0] = 0
  /\ \A i \in 1 .. n : f[i] = f[i - 1] + s[i].len

LEMMA SumsExist ==
  ASSUME NEW s, NEW N \in Nat
  PROVE  \E f : IsSums(s, f, N)
<1> DEFINE S == {n \in 0 .. N : \E f : IsSums(s, f, n)}
<1>1. 0 \in S
  <2> DEFINE f == [i \in 0 .. 0 |-> 0]
  <2>1. IsSums(s, f, 0)
    BY DEF IsSums
  <2> QED
    BY <2>1
<1>2. ASSUME NEW n \in 1 .. N, n - 1 \in S PROVE n \in S
  <2>1. PICK f : IsSums(s, f, n - 1)
    BY <1>2
  <2> DEFINE g == [i \in 0 .. n |-> IF i = n THEN f[n - 1] + s[n].len ELSE f[i]]
  <2>2. g = [i \in 0 .. n |-> g[i]] /\ g[0] = 0
    BY <2>1 DEF IsSums
  <2>3. ASSUME NEW i \in 1 .. n PROVE g[i] = g[i - 1] + s[i].len
    <3>1. i - 1 \in 0 .. n /\ i - 1 # n /\ g[i - 1] = f[i - 1]
      OBVIOUS
    <3>2. CASE i = n
      BY <3>1, <3>2
    <3>3. CASE i # n
      <4>1. i \in 1 .. n - 1 /\ g[i] = f[i]
        BY <3>3
      <4> QED
        BY <2>1, <3>1, <4>1 DEF IsSums
    <3> QED
      BY <3>2, <3>3
  <2>4. IsSums(s, g, n)
    BY <2>2, <2>3 DEF IsSums
  <2> QED
    BY <2>4
<1>3. \A n \in 0 .. N : n \in S
  <2> HIDE DEF S
  <2> QED
    BY <1>1, <1>2, UpTo
<1> QED
  BY <1>3

LEMMA LengthIsNat ==
  ASSUME NEW s \in Seq(Segment)
  PROVE  Length(s) \in Nat
<1> DEFINE N == Len(s)
           F == Sums(s)
<1>1. N \in Nat
  OBVIOUS
<1>2. PICK f : IsSums(s, f, N)
  BY <1>1, SumsExist
<1>3. \E g : g = [n \in 0 .. Len(s) |-> IF n = 0 THEN 0 ELSE g[n - 1] + s[n].len]
  <2>1. \A n \in 0 .. N : f[n] = IF n = 0 THEN 0 ELSE f[n - 1] + s[n].len
    <3>1. f[0] = 0 /\ \A i \in 1 .. N : f[i] = f[i - 1] + s[i].len
      BY <1>2, Zenon DEF IsSums
    <3> QED
      BY <1>1, <3>1
  <2>2. f = [n \in 0 .. N |-> f[n]]
    BY <1>2 DEF IsSums
  <2>3. f = [n \in 0 .. N |-> IF n = 0 THEN 0 ELSE f[n - 1] + s[n].len]
    BY <2>1, <2>2, Zenon
  <2> QED
    BY <2>3
<1>4. F = [n \in 0 .. Len(s) |-> IF n = 0 THEN 0 ELSE F[n - 1] + s[n].len]
  BY <1>3, Zenon DEF Sums
<1> HIDE DEF F
<1> DEFINE S == {n \in 0 .. N : F[n] \in Nat}
<1>5. 0 \in S
  BY <1>1, <1>4
<1>6. ASSUME NEW n \in 1 .. N, n - 1 \in S PROVE n \in S
  <2>1. n - 1 \in 0 .. N /\ F[n - 1] \in Nat
    BY <1>6
  <2>2. F[n] = F[n - 1] + s[n].len
    BY <1>1, <1>4
  <2>3. s[n] \in Segment
    BY <1>1
  <2>4. s[n].len \in Nat
    BY <2>3 DEF Segment
  <2> QED
    BY <2>1, <2>2, <2>4
<1>7. \A n \in 0 .. N : n \in S
  <2> HIDE DEF S
  <2> QED
    BY <1>1, <1>5, <1>6, UpTo
<1> QED
  BY <1>1, <1>7 DEF Length, F

(* ... one with the segments selected among the first n, ...               *)
Selected(s, kept, q, i) == IF s[i].off \in kept THEN Append(q, s[i]) ELSE q

IsSelections(s, kept, f, n) ==
  /\ f = [i \in 0 .. n |-> f[i]]
  /\ f[0] = <<>>
  /\ \A i \in 1 .. n : f[i] = Selected(s, kept, f[i - 1], i)

LEMMA SelectionsExist ==
  ASSUME NEW s, NEW kept, NEW N \in Nat
  PROVE  \E f : IsSelections(s, kept, f, N)
<1> DEFINE S == {n \in 0 .. N : \E f : IsSelections(s, kept, f, n)}
<1>1. 0 \in S
  <2> DEFINE f == [i \in 0 .. 0 |-> <<>>]
  <2>1. IsSelections(s, kept, f, 0)
    BY DEF IsSelections
  <2> QED
    BY <2>1
<1>2. ASSUME NEW n \in 1 .. N, n - 1 \in S PROVE n \in S
  <2>1. PICK f : IsSelections(s, kept, f, n - 1)
    BY <1>2
  <2> DEFINE g == [i \in 0 .. n |-> IF i = n THEN Selected(s, kept, f[n - 1], n) ELSE f[i]]
  <2>2. g = [i \in 0 .. n |-> g[i]] /\ g[0] = <<>>
    BY <2>1 DEF IsSelections
  <2>3. ASSUME NEW i \in 1 .. n PROVE g[i] = Selected(s, kept, g[i - 1], i)
    <3>1. i - 1 \in 0 .. n /\ i - 1 # n /\ g[i - 1] = f[i - 1]
      OBVIOUS
    <3>2. CASE i = n
      BY <3>1, <3>2
    <3>3. CASE i # n
      <4>1. i \in 1 .. n - 1 /\ g[i] = f[i]
        BY <3>3
      <4> QED
        BY <2>1, <3>1, <4>1 DEF IsSelections
    <3> QED
      BY <3>2, <3>3
  <2>4. IsSelections(s, kept, g, n)
    BY <2>2, <2>3 DEF IsSelections
  <2> QED
    BY <2>4
<1>3. \A n \in 0 .. N : n \in S
  <2> HIDE DEF S
  <2> QED
    BY <1>1, <1>2, UpTo
<1> QED
  BY <1>3

LEMMA SelectionsAreRight ==
  ASSUME NEW s \in Seq(Segment), NEW kept
  PROVE  LET F == Selections(s, kept) IN
         F[0] = <<>> /\ \A n \in 1 .. Len(s) : F[n] = Selected(s, kept, F[n - 1], n)
<1> DEFINE N == Len(s)
           F == Selections(s, kept)
<1>1. N \in Nat
  OBVIOUS
<1>2. PICK f : IsSelections(s, kept, f, N)
  BY <1>1, SelectionsExist
<1>3. \E g : g = [n \in 0 .. Len(s) |->
                    IF n = 0 THEN <<>>
                    ELSE IF s[n].off \in kept THEN Append(g[n - 1], s[n])
                    ELSE g[n - 1]]
  <2>1. \A n \in 0 .. N : f[n] = IF n = 0 THEN <<>>
                                 ELSE IF s[n].off \in kept THEN Append(f[n - 1], s[n])
                                 ELSE f[n - 1]
    <3>1. f[0] = <<>> /\ \A i \in 1 .. N : f[i] = Selected(s, kept, f[i - 1], i)
      BY <1>2, Zenon DEF IsSelections
    <3>2. ASSUME NEW n \in 0 .. N, n # 0 PROVE f[n] = Selected(s, kept, f[n - 1], n)
      <4>1. n \in 1 .. N
        BY <1>1, <3>2
      <4> QED
        BY <3>1, <4>1
    <3> QED
      BY <3>1, <3>2, Zenon DEF Selected
  <2>2. f = [n \in 0 .. N |-> f[n]]
    BY <1>2 DEF IsSelections
  <2>3. f = [n \in 0 .. N |-> IF n = 0 THEN <<>>
                              ELSE IF s[n].off \in kept THEN Append(f[n - 1], s[n])
                              ELSE f[n - 1]]
    BY <2>1, <2>2, Zenon
  <2> QED
    BY <2>3
<1>4. F = [n \in 0 .. Len(s) |->
             IF n = 0 THEN <<>>
             ELSE IF s[n].off \in kept THEN Append(F[n - 1], s[n])
             ELSE F[n - 1]]
  BY <1>3, Zenon DEF Selections
<1> HIDE DEF F
<1>5. F[0] = <<>>
  BY <1>1, <1>4
<1>6. ASSUME NEW n \in 1 .. N PROVE F[n] = Selected(s, kept, F[n - 1], n)
  <2>1. n \in 0 .. N /\ n # 0
    BY <1>1
  <2> QED
    BY <1>4, <2>1, Zenon DEF Selected
<1> QED
  BY <1>5, <1>6 DEF F

(* recv_and_drop keeps the segments whose offset is kept.                  *)
OffsetsOf(q) == {q[i].off : i \in DOMAIN q}

LEMMA OffsetsOfAppend ==
  ASSUME NEW q \in Seq(Segment), NEW x \in Segment
  PROVE  Append(q, x) \in Seq(Segment) /\ OffsetsOf(Append(q, x)) = OffsetsOf(q) \cup {x.off}
<1>1. Append(q, x) \in Seq(Segment) /\ DOMAIN Append(q, x) = 1 .. Len(q) + 1 /\ DOMAIN q = 1 .. Len(q)
  OBVIOUS
<1>2. /\ Append(q, x)[Len(q) + 1] = x
      /\ \A i \in 1 .. Len(q) : Append(q, x)[i] = q[i]
  OBVIOUS
<1>3. \A i \in 1 .. Len(q) + 1 : i \in 1 .. Len(q) \/ i = Len(q) + 1
  OBVIOUS
<1>4. Len(q) + 1 \in 1 .. Len(q) + 1 /\ \A i \in 1 .. Len(q) : i \in 1 .. Len(q) + 1
  OBVIOUS
<1> HIDE DEF Segment
<1> DEFINE p == Append(q, x)
           n == Len(q) + 1
<1>5. p[n] = x /\ DOMAIN p = 1 .. n
  BY <1>1, <1>2
<1> HIDE DEF p, n
<1>6. OffsetsOf(p) = OffsetsOf(q) \cup {x.off}
  BY <1>1, <1>2, <1>3, <1>4, <1>5, Zenon DEF OffsetsOf, p, n
<1> QED
  BY <1>1, <1>6 DEF p

LEMMA SelectIsRight ==
  ASSUME NEW s \in Seq(Segment), NEW kept
  PROVE  /\ Select(s, kept) \in Seq(Segment)
         /\ OffsetsOf(Select(s, kept)) = OffsetsOf(s) \cap kept
<1> DEFINE N == Len(s)
           F == Selections(s, kept)
           Part(n) == {s[i].off : i \in 1 .. n} \cap kept
           S == {n \in 0 .. N : F[n] \in Seq(Segment) /\ OffsetsOf(F[n]) = Part(n)}
<1>1. N \in Nat /\ DOMAIN s = 1 .. N /\ \A i \in 1 .. N : s[i] \in Segment
  OBVIOUS
<1>2. F[0] = <<>> /\ \A n \in 1 .. N : F[n] = Selected(s, kept, F[n - 1], n)
  BY SelectionsAreRight
<1> HIDE DEF F
<1>3. 0 \in S
  <2>1. <<>> \in Seq(Segment) /\ OffsetsOf(<<>>) = {}
    BY DEF OffsetsOf
  <2>2. Part(0) = {}
    OBVIOUS
  <2>3. 0 \in 0 .. N
    BY <1>1
  <2> HIDE DEF Part, N
  <2> QED
    BY <1>2, <2>1, <2>2, <2>3
<1>4. ASSUME NEW n \in 1 .. N, n - 1 \in S PROVE n \in S
  <2>1. F[n - 1] \in Seq(Segment) /\ OffsetsOf(F[n - 1]) = Part(n - 1)
    BY <1>4
  <2>2. Part(n) = Part(n - 1) \cup ({s[n].off} \cap kept)
    <3>1. 1 .. n = (1 .. n - 1) \cup {n}
      OBVIOUS
    <3> QED
      BY <3>1, Zenon
  <2>3. s[n] \in Segment
    BY <1>1
  <2>4. CASE s[n].off \in kept
    <3>1. F[n] = Append(F[n - 1], s[n])
      BY <1>2, <2>4 DEF Selected
    <3>2. F[n] \in Seq(Segment) /\ OffsetsOf(F[n]) = OffsetsOf(F[n - 1]) \cup {s[n].off}
      BY <2>1, <2>3, <3>1, OffsetsOfAppend
    <3>3. OffsetsOf(F[n]) = Part(n)
      <4>1. {s[n].off} \cap kept = {s[n].off}
        BY <2>4
      <4> HIDE DEF Part
      <4> QED
        BY <2>1, <2>2, <3>2, <4>1
    <3> QED
      BY <1>1, <3>2, <3>3
  <2>5. CASE s[n].off \notin kept
    <3>1. F[n] = F[n - 1]
      BY <1>2, <2>5 DEF Selected
    <3>3. OffsetsOf(F[n]) = Part(n)
      <4>1. {s[n].off} \cap kept = {}
        BY <2>5
      <4> HIDE DEF Part
      <4> QED
        BY <2>1, <2>2, <3>1, <4>1
    <3> QED
      BY <1>1, <2>1, <3>1, <3>3
  <2> QED
    BY <2>4, <2>5
<1>5. \A n \in 0 .. N : n \in S
  <2> HIDE DEF S
  <2> QED
    BY <1>1, <1>3, <1>4, UpTo
<1>6. F[N] \in Seq(Segment) /\ OffsetsOf(F[N]) = Part(N)
  <2>1. N \in 0 .. N
    BY <1>1
  <2> HIDE DEF Part, N
  <2> QED
    BY <1>5, <2>1
<1>7. Part(N) = OffsetsOf(s) \cap kept
  BY <1>1 DEF OffsetsOf
<1> QED
  BY <1>6, <1>7 DEF Select, F

(* ... and one with the windows after n offsets of an ACK.                 *)
Updated(status, pr, N, q, n) ==
  IF n % 8 = 0 \/ n = N
  THEN update_win(q, WeightUpTo(status, pr, n), IF n % 8 = 0 THEN 8 ELSE n % 8)
  ELSE q

IsWindows(r, status, pr, N, f, n) ==
  /\ f = [i \in 0 .. n |-> f[i]]
  /\ f[0] = r
  /\ \A i \in 1 .. n : f[i] = Updated(status, pr, N, f[i - 1], i)

LEMMA WindowsExist ==
  ASSUME NEW r, NEW status, NEW pr, NEW N \in Nat
  PROVE  \E f : IsWindows(r, status, pr, N, f, N)
<1> DEFINE S == {n \in 0 .. N : \E f : IsWindows(r, status, pr, N, f, n)}
<1>1. 0 \in S
  <2> DEFINE f == [i \in 0 .. 0 |-> r]
  <2>1. IsWindows(r, status, pr, N, f, 0)
    BY DEF IsWindows
  <2> QED
    BY <2>1
<1>2. ASSUME NEW n \in 1 .. N, n - 1 \in S PROVE n \in S
  <2>1. PICK f : IsWindows(r, status, pr, N, f, n - 1)
    BY <1>2
  <2> DEFINE g == [i \in 0 .. n |-> IF i = n THEN Updated(status, pr, N, f[n - 1], n) ELSE f[i]]
  <2>2. g = [i \in 0 .. n |-> g[i]] /\ g[0] = r
    BY <2>1 DEF IsWindows
  <2>3. ASSUME NEW i \in 1 .. n PROVE g[i] = Updated(status, pr, N, g[i - 1], i)
    <3>1. i - 1 \in 0 .. n /\ i - 1 # n /\ g[i - 1] = f[i - 1]
      OBVIOUS
    <3>2. CASE i = n
      BY <3>1, <3>2
    <3>3. CASE i # n
      <4>1. i \in 1 .. n - 1 /\ g[i] = f[i]
        BY <3>3
      <4> QED
        BY <2>1, <3>1, <4>1 DEF IsWindows
    <3> QED
      BY <3>2, <3>3
  <2>4. IsWindows(r, status, pr, N, g, n)
    BY <2>2, <2>3 DEF IsWindows
  <2> QED
    BY <2>4
<1>3. \A n \in 0 .. N : n \in S
  <2> HIDE DEF S
  <2> QED
    BY <1>1, <1>2, UpTo
<1> QED
  BY <1>3

LEMMA WindowsAreRight ==
  ASSUME NEW r, NEW status, NEW pr, NEW N \in Nat
  PROVE  LET F == Windows(r, status, pr, N) IN
         F[0] = r /\ \A n \in 1 .. N : F[n] = Updated(status, pr, N, F[n - 1], n)
<1> DEFINE F == Windows(r, status, pr, N)
<1>2. PICK f : IsWindows(r, status, pr, N, f, N)
  BY WindowsExist
<1>3. \E g : g = [n \in 0 .. N |->
                    IF n = 0 THEN r
                    ELSE IF n % 8 = 0 \/ n = N
                    THEN update_win(g[n - 1], WeightUpTo(status, pr, n),
                                    IF n % 8 = 0 THEN 8 ELSE n % 8)
                    ELSE g[n - 1]]
  <2>1. \A n \in 0 .. N : f[n] = IF n = 0 THEN r
                                 ELSE IF n % 8 = 0 \/ n = N
                                 THEN update_win(f[n - 1], WeightUpTo(status, pr, n),
                                                 IF n % 8 = 0 THEN 8 ELSE n % 8)
                                 ELSE f[n - 1]
    <3>1. f[0] = r /\ \A i \in 1 .. N : f[i] = Updated(status, pr, N, f[i - 1], i)
      BY <1>2, Zenon DEF IsWindows
    <3>2. ASSUME NEW n \in 0 .. N, n # 0 PROVE f[n] = Updated(status, pr, N, f[n - 1], n)
      <4>1. n \in 1 .. N
        BY <3>2
      <4> QED
        BY <3>1, <4>1
    <3> QED
      BY <3>1, <3>2, Zenon DEF Updated
  <2>2. f = [n \in 0 .. N |-> f[n]]
    BY <1>2 DEF IsWindows
  <2>3. f = [n \in 0 .. N |-> IF n = 0 THEN r
                              ELSE IF n % 8 = 0 \/ n = N
                              THEN update_win(f[n - 1], WeightUpTo(status, pr, n),
                                              IF n % 8 = 0 THEN 8 ELSE n % 8)
                              ELSE f[n - 1]]
    BY <2>1, <2>2, Zenon
  <2> QED
    BY <2>3
<1>4. F = [n \in 0 .. N |->
             IF n = 0 THEN r
             ELSE IF n % 8 = 0 \/ n = N
             THEN update_win(F[n - 1], WeightUpTo(status, pr, n),
                             IF n % 8 = 0 THEN 8 ELSE n % 8)
             ELSE F[n - 1]]
  BY <1>3, Zenon DEF Windows
<1> HIDE DEF F
<1>5. F[0] = r
  <2>1. 0 \in 0 .. N
    OBVIOUS
  <2> QED
    BY <1>4, <2>1, Zenon
<1>6. ASSUME NEW n \in 1 .. N PROVE F[n] = Updated(status, pr, N, F[n - 1], n)
  <2>1. n \in 0 .. N /\ n # 0
    OBVIOUS
  <2> QED
    BY <1>4, <2>1, Zenon DEF Updated
<1> QED
  BY <1>5, <1>6 DEF F

(* Each of them is a window.                                               *)
LEMMA CubicIsInt ==
  ASSUME NEW w \in Int
  PROVE  Increase(Cubic(w)) \in Int /\ Decrease(Cubic(w)) \in Int
<1>1. SEND_BUFFER_SIZE \in Int
  BY SizesAssumption
<1>2. PICK x \in Int : x = 3 * w * w - 240 * w + 1600
  OBVIOUS
<1>3. PICK c \in Int : c = x * SEND_BUFFER_SIZE
  BY <1>1
<1>4. Cubic(w) = c
  BY <1>2, <1>3 DEF Cubic
<1>5. Increase(c) \in Int /\ Decrease(c) \in Int
  BY DEF Increase, Decrease
<1> QED
  BY <1>4, <1>5

LEMMA UpdateWinOK ==
  ASSUME NEW r, RecoveryOK(r), NEW w \in Int, NEW num \in Int
  PROVE  RecoveryOK(update_win(r, w, num))
<1>1. PICK i \in Int : i = Increase(Cubic(w))
  BY CubicIsInt
<1>2. PICK d \in Int : d = Decrease(Cubic(w))
  BY CubicIsInt
<1>3. PICK z \in Int : z = num * SEND_BUFFER_SIZE
  BY SizesAssumption
<1>4. CASE r.function_change
  <2>1. update_win(r, w, num) = [r EXCEPT !.incre_win = @ + i, !.decre_win = @ + d,
                                          !.roll_back_flag = TRUE]
    BY <1>1, <1>2, <1>4 DEF update_win
  <2> QED
    BY <2>1 DEF RecoveryOK
<1>5. CASE ~r.function_change
  <2>1. PICK q : q = Switched(r, w)
    OBVIOUS
  <2>2. RecoveryOK(q)
    BY <2>1 DEF Switched, RecoveryOK
  <2>3. update_win(r, w, num) = [q EXCEPT !.incre_win = @ + z, !.incre_win_copy = @ + i,
                                          !.decre_win_copy = @ + d, !.roll_back_flag = TRUE]
    BY <1>1, <1>2, <1>3, <1>5, <2>1 DEF update_win
  <2> QED
    BY <2>2, <2>3 DEF RecoveryOK
<1> QED
  BY <1>4, <1>5

LEMMA WeightUpToIsNat ==
  ASSUME NEW status, IsReport(status), NEW pr, NEW n \in Nat
  PROVE  WeightUpTo(status, pr, n) \in Nat
<1>1. \A p \in Nat : Cardinality(Missing(status, pr, p, n)) \in Nat
  <2> SUFFICES ASSUME NEW p \in Nat PROVE Cardinality(Missing(status, pr, p, n)) \in Nat
    OBVIOUS
  <2>1. Missing(status, pr, p, n) \subseteq DOMAIN status
    BY DEF Missing
  <2>2. IsFiniteSet(Missing(status, pr, p, n))
    BY <2>1, FS_Subset DEF IsReport
  <2> QED
    BY <2>2, FS_CardinalityType
<1>2. Weight(1) = 3 /\ Weight(2) = 4 /\ Weight(3) = 5
  BY DEF Weight
<1>3. PICK a \in Nat : a = Cardinality(Missing(status, pr, 1, n))
  BY <1>1
<1>4. PICK b \in Nat : b = Cardinality(Missing(status, pr, 2, n))
  BY <1>1
<1>5. PICK c \in Nat : c = Cardinality(Missing(status, pr, 3, n))
  BY <1>1
<1>6. WeightUpTo(status, pr, n) = 3 * a + 4 * b + 5 * c
  BY <1>2, <1>3, <1>4, <1>5 DEF WeightUpTo
<1> QED
  BY <1>6

LEMMA UpdateWindowOK ==
  ASSUME NEW r, RecoveryOK(r), NEW status, IsReport(status), NEW pr
  PROVE  RecoveryOK(UpdateWindow(r, status, pr, Cardinality(DOMAIN status)))
<1> DEFINE N == Cardinality(DOMAIN status)
           F == Windows(r, status, pr, N)
           S == {n \in 0 .. N : RecoveryOK(F[n])}
<1>1. N \in Nat
  BY FS_CardinalityType DEF IsReport
<1> HIDE DEF N
<1>2. F[0] = r /\ \A n \in 1 .. N : F[n] = Updated(status, pr, N, F[n - 1], n)
  BY <1>1, WindowsAreRight
<1> HIDE DEF F
<1>3. 0 \in S
  BY <1>1, <1>2
<1>4. ASSUME NEW n \in 1 .. N, n - 1 \in S PROVE n \in S
  <2>1. RecoveryOK(F[n - 1])
    BY <1>4
  <2>2. PICK w \in Int : w = WeightUpTo(status, pr, n)
    <3>1. n \in Nat
      BY <1>1
    <3>2. WeightUpTo(status, pr, n) \in Nat
      BY <3>1, WeightUpToIsNat
    <3> QED
      BY <3>2
  <2>3. PICK k \in Int : k = IF n % 8 = 0 THEN 8 ELSE n % 8
    BY <1>1
  <2>4. RecoveryOK(update_win(F[n - 1], w, k))
    BY <2>1, UpdateWinOK
  <2>5. F[n] \in {update_win(F[n - 1], w, k), F[n - 1]}
    BY <1>2, <2>2, <2>3 DEF Updated
  <2>6. RecoveryOK(F[n])
    BY <2>1, <2>4, <2>5
  <2> QED
    BY <1>1, <2>6
<1>5. \A n \in 0 .. N : n \in S
  <2> HIDE DEF S
  <2> QED
    BY <1>1, <1>3, <1>4, UpTo
<1>6. RecoveryOK(F[N])
  <2>1. N \in 0 .. N
    BY <1>1
  <2> QED
    BY <1>5, <2>1
<1> QED
  BY <1>6 DEF UpdateWindow, F, N

(* The windows for the next round.                                         *)
LEMMA INI_WINIsNat == INI_WIN \in Nat
BY SizesAssumption DEF INI_WIN

LEMMA CwndOK ==
  ASSUME NEW r, RecoveryOK(r)
  PROVE  RecoveryOK(cwnd(r).r) /\ cwnd(r).window \in Int
<1>1. PICK x \in Int : x = 2 * r.incre_win - r.decre_win
  BY DEF RecoveryOK
<1>2. PICK win \in Nat : win = Max({0, x})
  BY MaxOfTwo
<1>3. cwnd(r) = NewWindow(r, win)
  BY <1>1, <1>2 DEF cwnd
<1>4. Max({win, INI_WIN}) \in Int
  <2>1. win \in Int /\ INI_WIN \in Int
    BY INI_WINIsNat
  <2>2. Max({win, INI_WIN}) \in {win, INI_WIN}
    BY <2>1, MaxOfTwo
  <2> QED
    BY <2>1, <2>2
<1>5. PICK m \in Nat : \A w \in r.former_win_vecter : w <= m
  BY DEF RecoveryOK
<1>6. PICK former : former = IF r.roll_back_flag THEN r.former_win_vecter
                             ELSE r.former_win_vecter \cup {win}
  OBVIOUS
<1>7. former \subseteq Nat /\ \A w \in former : w <= m + win
  BY <1>5, <1>6 DEF RecoveryOK
<1>8. RecoveryOK([r EXCEPT !.former_win_vecter = former, !.incre_win = 0, !.decre_win = 0,
                           !.incre_win_copy = 0, !.decre_win_copy = 0])
  <2>1. m + win \in Nat
    OBVIOUS
  <2>2. \E k \in Nat : \A w \in former : w <= k
    BY <1>7, <2>1
  <2> HIDE <1>7
  <2>3. former \subseteq Nat
    BY <1>7
  <2> QED
    BY <2>2, <2>3 DEF RecoveryOK
<1>9. cwnd(r).r = [r EXCEPT !.former_win_vecter = former, !.incre_win = 0, !.decre_win = 0,
                            !.incre_win_copy = 0, !.decre_win_copy = 0]
  BY <1>3, <1>6 DEF NewWindow
<1>10. cwnd(r).window = Max({win, INI_WIN})
  BY <1>3 DEF NewWindow
<1> QED
  BY <1>4, <1>8, <1>9, <1>10

LEMMA RollbackOK ==
  ASSUME NEW r, RecoveryOK(r)
  PROVE  RecoveryOK(rollback(r).r) /\ rollback(r).window \in Int
<1>1. CASE r.former_win_vecter = {}
  BY <1>1, INI_WINIsNat DEF rollback
<1>2. CASE r.former_win_vecter # {}
  <2>1. PICK m \in Nat : \A w \in r.former_win_vecter : w <= m
    BY DEF RecoveryOK
  <2>2. PICK win \in r.former_win_vecter : win = Max(r.former_win_vecter)
    BY <1>2, <2>1, MaxOfBounded DEF RecoveryOK
  <2>3. rollback(r) = [r |-> [r EXCEPT !.former_win_vecter = @ \ {win}], window |-> win]
    BY <1>2, <2>2 DEF rollback
  <2>4. RecoveryOK([r EXCEPT !.former_win_vecter = @ \ {win}])
    BY <2>1 DEF RecoveryOK
  <2>5. win \in Int
    BY <2>2 DEF RecoveryOK
  <2> QED
    BY <2>3, <2>4, <2>5
<1> QED
  BY <1>1, <1>2

-----------------------------------------------------------------------------
(* Writing to the send buffer.                                             *)

LEMMA ProductMonotone ==
  ASSUME NEW a \in Nat, NEW b \in Nat, a <= b, NEW c \in Nat
  PROVE  a * c \in Nat /\ b * c \in Nat /\ a * c <= b * c
<1>1. PICK d \in Nat : b = a + d
  <2>1. b - a \in Nat /\ b = a + (b - a)
    OBVIOUS
  <2> QED
    BY <2>1
<1>2. b * c = a * c + d * c
  BY <1>1
<1>3. a * c \in Nat /\ d * c \in Nat
  OBVIOUS
<1> QED
  BY <1>2, <1>3

LEMMA StartIsMonotone ==
  ASSUME NEW first \in Nat, NEW i \in Nat \ {0}, NEW j \in Nat \ {0}, i <= j
  PROVE  Start(first, i) \in Nat /\ Start(first, j) \in Nat /\ Start(first, i) <= Start(first, j)
<1> DEFINE B == SEND_BUFFER_SIZE
<1>0. B \in Nat
  BY SizesAssumption
<1> HIDE DEF B
<1>1. CASE first = 0
  <2>1. (i - 1) * B \in Nat /\ (j - 1) * B \in Nat /\ (i - 1) * B <= (j - 1) * B
    <3>1. i - 1 \in Nat /\ j - 1 \in Nat /\ i - 1 <= j - 1
      OBVIOUS
    <3> QED
      BY <1>0, <3>1, ProductMonotone
  <2>2. Start(first, i) = (i - 1) * B /\ Start(first, j) = (j - 1) * B
    BY <1>1 DEF Start, B
  <2> QED
    BY <2>1, <2>2
<1>2. CASE first # 0 /\ i = 1
  <2>1. Start(first, i) = 0
    BY <1>2 DEF Start
  <2>2. CASE j = 1
    BY <2>1, <2>2, <1>2
  <2>3. CASE j # 1
    <3>1. Start(first, j) = first + (j - 2) * B
      BY <1>2, <2>3 DEF Start, B
    <3>2. j - 2 \in Nat
      BY <2>3
    <3>3. (j - 2) * B \in Nat
      BY <1>0, <3>2
    <3> QED
      BY <2>1, <3>1, <3>3
  <2> QED
    BY <2>2, <2>3
<1>3. CASE first # 0 /\ i # 1
  <2>1. (i - 2) * B \in Nat /\ (j - 2) * B \in Nat /\ (i - 2) * B <= (j - 2) * B
    <3>1. i - 2 \in Nat /\ j - 2 \in Nat /\ i - 2 <= j - 2
      BY <1>3
    <3> QED
      BY <1>0, <3>1, ProductMonotone
  <2>2. Start(first, i) = first + (i - 2) * B /\ Start(first, j) = first + (j - 2) * B
    BY <1>3 DEF Start, B
  <2> QED
    BY <2>1, <2>2
<1> QED
  BY <1>1, <1>2, <1>3

(* A write is cut into segments that begin inside it.                      *)
LEMMA SegmentsAreRight ==
  ASSUME NEW off \in Nat, NEW n \in Nat \ {0}, NEW first \in Nat
  PROVE  /\ Segments(off, n, first) \in Seq(Segment)
         /\ Segments(off, n, first) # <<>>
         /\ \A o \in OffsetsOf(Segments(off, n, first)) : o \in Nat /\ o < off + n
<1> DEFINE D == {j \in 1 .. n : Start(first, j) < n}
           s == Segments(off, n, first)
<1>1. 1 \in D
  <2>1. Start(first, 1) = 0
    BY SizesAssumption DEF Start
  <2> QED
    BY <2>1
<1>2. \A i \in 1 .. n : Start(first, i) \in Nat /\ Start(first, i + 1) \in Nat
                         /\ Start(first, i) <= Start(first, i + 1)
  <2> SUFFICES ASSUME NEW i \in 1 .. n
               PROVE  Start(first, i) \in Nat /\ Start(first, i + 1) \in Nat
                         /\ Start(first, i) <= Start(first, i + 1)
    OBVIOUS
  <2>1. i \in Nat \ {0} /\ i + 1 \in Nat \ {0} /\ i <= i + 1
    OBVIOUS
  <2> QED
    BY <2>1, StartIsMonotone
<1>3. \A i \in D, j \in 1 .. n : j <= i => j \in D
  <2> SUFFICES ASSUME NEW i \in D, NEW j \in 1 .. n, j <= i PROVE Start(first, j) < n
    OBVIOUS
  <2>1. i \in Nat \ {0} /\ j \in Nat \ {0} /\ Start(first, i) < n
    OBVIOUS
  <2>2. Start(first, j) <= Start(first, i) /\ Start(first, j) \in Nat /\ Start(first, i) \in Nat
    BY <2>1, StartIsMonotone
  <2> QED
    BY <2>1, <2>2
<1>4. PICK k \in 1 .. n : D = 1 .. k
  <2>1. D \subseteq Nat /\ D # {} /\ \A w \in D : w <= n
    BY <1>1
  <2>2. Max(D) \in D
    BY <2>1, MaxOfBounded
  <2>3. \A y \in D : Max(D) >= y
    <3>1. \E x \in D : \A y \in D : x >= y
      <4> DEFINE E == {n - w : w \in D}
      <4>1. E \subseteq Nat /\ E # {}
        BY <2>1
      <4>2. PICK m \in E : \A e \in E : m <= e
        BY <4>1, LeastNatural
      <4>3. PICK x \in D : m = n - x
        BY <4>2
      <4>4. ASSUME NEW y \in D PROVE x >= y
        <5>1. m <= n - y
          BY <4>2
        <5> QED
          BY <4>3, <5>1
      <4> QED
        BY <4>4
    <3> QED
      BY <3>1 DEF Max
  <2>4. \A j \in 1 .. n : j \in D <=> j <= Max(D)
    BY <1>3, <2>2, <2>3
  <2>5. D = 1 .. Max(D)
    BY <2>1, <2>2, <2>4
  <2> QED
    BY <2>2, <2>5
<1> DEFINE x(i) == [off |-> off + Start(first, i),
                    len |-> Min({n, Start(first, i + 1)}) - Start(first, i)]
<1>5. s = [i \in 1 .. k |-> x(i)]
  BY <1>4 DEF Segments
<1>6. ASSUME NEW i \in 1 .. k PROVE x(i) \in Segment /\ x(i).off \in Nat /\ x(i).off < off + n
  <2>1. i \in 1 .. n /\ Start(first, i) < n
    BY <1>4
  <2>2. PICK a \in Nat : a = Start(first, i) /\ a < n
    BY <1>2, <2>1
  <2>3. PICK c \in Nat : c = Start(first, i + 1) /\ a <= c
    BY <1>2, <2>1, <2>2
  <2>4. PICK m \in Nat : m = Min({n, c}) /\ a <= m
    <3>1. n \in Int /\ c \in Int
      OBVIOUS
    <3>2. Min({n, c}) \in {n, c}
      BY <3>1, MinOfTwo
    <3> QED
      BY <2>2, <2>3, <3>2
  <2>5. x(i) = [off |-> off + a, len |-> m - a]
    BY <2>2, <2>3, <2>4
  <2>6. off + a \in Nat /\ m - a \in Nat /\ off + a < off + n
    BY <2>2, <2>4
  <2> QED
    BY <2>5, <2>6 DEF Segment
<1> HIDE DEF x, D, s
<1>7. s \in Seq(Segment) /\ Len(s) = k
  BY <1>5, <1>6
<1>8. \A i \in DOMAIN s : s[i].off \in Nat /\ s[i].off < off + n
  BY <1>5, <1>6
<1>9. s # <<>>
  BY <1>7
<1> QED
  BY <1>7, <1>8, <1>9 DEF s, OffsetsOf

LEMMA OffsetsOfConcat ==
  ASSUME NEW q \in Seq(Segment), NEW p \in Seq(Segment)
  PROVE  q \o p \in Seq(Segment) /\ OffsetsOf(q \o p) = OffsetsOf(q) \cup OffsetsOf(p)
<1> DEFINE n == Len(q)
           m == Len(p)
           c == q \o p
<1>1. /\ n \in Nat /\ m \in Nat /\ DOMAIN q = 1 .. n /\ DOMAIN p = 1 .. m
      /\ c \in Seq(Segment) /\ DOMAIN c = 1 .. n + m
  OBVIOUS
<1>2. /\ \A i \in 1 .. n : c[i] = q[i]
      /\ \A i \in 1 .. m : c[n + i] = p[i]
  OBVIOUS
<1> HIDE DEF n, m, c, Segment
<1>3. \A i \in 1 .. n + m : i \in 1 .. n \/ \E j \in 1 .. m : i = n + j
  <2> SUFFICES ASSUME NEW i \in 1 .. n + m, i \notin 1 .. n PROVE \E j \in 1 .. m : i = n + j
    OBVIOUS
  <2>1. i - n \in 1 .. m /\ i = n + (i - n)
    BY <1>1
  <2> QED
    BY <2>1
<1>4. /\ \A i \in 1 .. n : i \in 1 .. n + m
      /\ \A j \in 1 .. m : n + j \in 1 .. n + m
  BY <1>1
<1>5. OffsetsOf(c) = OffsetsOf(q) \cup OffsetsOf(p)
  <2>1. ASSUME NEW o \in OffsetsOf(c) PROVE o \in OffsetsOf(q) \cup OffsetsOf(p)
    <3>1. PICK i \in 1 .. n + m : o = c[i].off
      BY <1>1 DEF OffsetsOf
    <3>2. (\E k \in 1 .. n : o = q[k].off) \/ (\E j \in 1 .. m : o = p[j].off)
      BY <1>2, <1>3, <3>1, Zenon
    <3> QED
      BY <1>1, <3>2 DEF OffsetsOf
  <2>2. ASSUME NEW o \in OffsetsOf(q) PROVE o \in OffsetsOf(c)
    BY <1>1, <1>2, <1>4, Zenon DEF OffsetsOf
  <2>3. ASSUME NEW o \in OffsetsOf(p) PROVE o \in OffsetsOf(c)
    <3>1. PICK j \in 1 .. m : o = p[j].off
      BY <1>1 DEF OffsetsOf
    <3>2. n + j \in DOMAIN c /\ c[n + j] = p[j]
      BY <1>1, <1>2, <1>4
    <3> QED
      BY <3>1, <3>2 DEF OffsetsOf
  <2> QED
    BY <2>1, <2>2, <2>3
<1> QED
  BY <1>1, <1>5 DEF c

LEMMA OffsetsIsOffsetsOf ==
  ASSUME NEW b
  PROVE  Offsets(b) = OffsetsOf(b.data)
BY DEF Offsets, OffsetsOf

(* What an operation does to a send buffer that the others rely on.        *)
Grows(b, c) == Offsets(b) \subseteq Offsets(c) /\ b.off <= c.off

LEMMA ExtendOK ==
  ASSUME NEW b, BufOK(b), NEW n \in Nat \ {0}, NEW off_len \in Nat
  PROVE  /\ BufOK(Extend(b, n, off_len))
         /\ Grows(b, Extend(b, n, off_len))
         /\ Extend(b, n, off_len).data # <<>>
<1>1. PICK first \in Nat : first = Min({n, off_len})
  <2>1. n \in Int /\ off_len \in Int
    OBVIOUS
  <2>2. Min({n, off_len}) \in {n, off_len}
    BY <2>1, MinOfTwo
  <2> QED
    BY <2>2
<1>2. b.off \in Nat /\ b.data \in Seq(Segment)
  BY DEF BufOK
<1>3. PICK new : new = Segments(b.off, n, first)
  OBVIOUS
<1>4. new \in Seq(Segment) /\ new # <<>>
  BY <1>2, <1>3, SegmentsAreRight
<1>5. \A o \in OffsetsOf(new) : o \in Nat /\ o < b.off + n
  BY <1>2, <1>3, SegmentsAreRight
<1>6. PICK c : c = Extend(b, n, off_len)
  OBVIOUS
<1>7. c = AppendSegments(b, n, new)
  BY <1>1, <1>3, <1>6 DEF Extend
<1>8. /\ DOMAIN c = {"data", "off", "max_data", "sent", "offset_recv"}
      /\ c.data = b.data \o new
      /\ c.off = b.off + n
      /\ c.max_data = b.max_data
  BY <1>7 DEF AppendSegments, BufOK
<1>9. c.offset_recv = [o \in DOMAIN b.offset_recv \cup OffsetsOf(new) |->
                         o \notin DOMAIN b.offset_recv \/ b.offset_recv[o]]
  BY <1>7 DEF AppendSegments, BufOK, OffsetsOf
<1>10. c.data \in Seq(Segment) /\ OffsetsOf(c.data) = OffsetsOf(b.data) \cup OffsetsOf(new)
  BY <1>2, <1>4, <1>8, OffsetsOfConcat
<1>11. c.data # <<>>
  BY <1>2, <1>4, <1>8
<1>12. Offsets(c) = Offsets(b) \cup OffsetsOf(new)
  BY <1>10, OffsetsIsOffsetsOf
<1>13. DOMAIN c.offset_recv = Offsets(c)
  BY <1>9, <1>12 DEF BufOK
<1>14. ASSUME NEW o \in Offsets(c) PROVE c.offset_recv[o] = TRUE
  <2>1. DOMAIN b.offset_recv = Offsets(b) /\ \A q \in Offsets(b) : b.offset_recv[q] = TRUE
    BY DEF BufOK
  <2> QED
    BY <1>9, <1>12, <2>1, Zenon
<1>15. ASSUME NEW o \in Offsets(c) PROVE o < c.off
  <2>1. CASE o \in OffsetsOf(new)
    BY <1>5, <1>8, <2>1
  <2>2. CASE o \in Offsets(b)
    <3>1. o < b.off
      BY <2>2 DEF BufOK
    <3>2. o \in Nat
      <4>1. o \in OffsetsOf(b.data)
        BY <2>2, OffsetsIsOffsetsOf
      <4>2. PICK i \in DOMAIN b.data : o = b.data[i].off
        BY <4>1 DEF OffsetsOf
      <4>3. b.data[i] \in Segment
        BY <1>2
      <4> QED
        BY <4>2, <4>3 DEF Segment
    <3> QED
      BY <1>2, <1>8, <3>1, <3>2
  <2> QED
    BY <1>12, <2>1, <2>2
<1>16. c.off \in Nat /\ b.off <= c.off
  BY <1>2, <1>8
<1>17. BufOK(c)
  <2>1. c.max_data \in Int
    BY <1>8 DEF BufOK
  <2> QED
    BY <1>8, <1>10, <1>13, <1>14, <1>15, <1>16, <2>1 DEF BufOK
<1>18. Grows(b, c)
  BY <1>12, <1>16 DEF Grows
<1> QED
  BY <1>6, <1>11, <1>17, <1>18

LEMMA MaxDataOK ==
  ASSUME NEW b, BufOK(b), NEW m \in Int,
         NEW c, c = [b EXCEPT !.max_data = m, !.sent = 0]
  PROVE  BufOK(c) /\ Grows(b, c) /\ c.data = b.data
<1>2. /\ DOMAIN c = {"data", "off", "max_data", "sent", "offset_recv"}
      /\ c.data = b.data /\ c.off = b.off /\ c.max_data = m /\ c.offset_recv = b.offset_recv
  BY DEF BufOK
<1>3. Offsets(c) = Offsets(b)
  BY <1>2 DEF Offsets
<1>4. BufOK(c)
  BY <1>2, <1>3 DEF BufOK
<1>5. Grows(b, c)
  BY <1>2, <1>3 DEF Grows, BufOK
<1> QED
  BY <1>2, <1>4, <1>5

LEMMA GrowsItself ==
  ASSUME NEW b, BufOK(b)
  PROVE  Grows(b, b)
BY DEF Grows, BufOK

(* What a write w of at most left bytes to b may come to.                  *)
WriteOK(b, left, w) ==
  /\ BufOK(w.b)
  /\ Grows(b, w.b)
  /\ w.n \in Int /\ w.n >= -1 /\ w.n <= left
  /\ w.n > 0 => w.b.data # <<>>
  /\ b.data # <<>> => w.b.data # <<>>

LEMMA WriteEmptyOK ==
  ASSUME NEW b, BufOK(b), NEW left \in Nat, NEW n \in Nat \ {0}, n <= left,
         NEW window \in Int, NEW off_len \in Nat, b.data = <<>>
  PROVE  WriteOK(b, left, WriteEmpty(b, n, window, off_len))
<1>1. CASE window = 0
  <2>1. PICK c : c = [b EXCEPT !.max_data = 0, !.sent = 0]
    OBVIOUS
  <2>2. BufOK(c) /\ Grows(b, c) /\ c.data = b.data
    <3>1. 0 \in Int
      OBVIOUS
    <3> QED
      BY <2>1, <3>1, MaxDataOK
  <2>3. WriteEmpty(b, n, window, off_len) = [b |-> c, n |-> 0]
    BY <1>1, <2>1 DEF WriteEmpty
  <2> QED
    BY <2>2, <2>3 DEF WriteOK
<1>2. CASE window # 0
  <2>1. PICK c : c = [b EXCEPT !.max_data = window, !.sent = 0]
    OBVIOUS
  <2>2. BufOK(c) /\ Grows(b, c)
    BY <2>1, MaxDataOK
  <2>3. PICK d : d = Extend(c, n, off_len)
    OBVIOUS
  <2>4. BufOK(d) /\ Grows(c, d) /\ d.data # <<>>
    BY <2>2, <2>3, ExtendOK
  <2>5. WriteEmpty(b, n, window, off_len) = [b |-> d, n |-> n]
    BY <1>2, <2>1, <2>3 DEF WriteEmpty
  <2>6. Grows(b, d)
    <3>1. b.off \in Nat /\ c.off \in Nat /\ d.off \in Nat
      BY <2>2, <2>4 DEF BufOK
    <3> QED
      BY <2>2, <2>4, <3>1 DEF Grows
  <2> QED
    BY <2>4, <2>5, <2>6 DEF WriteOK
<1> QED
  BY <1>1, <1>2

LEMMA WriteMoreOK ==
  ASSUME NEW b, BufOK(b), NEW left \in Nat, NEW n \in Nat \ {0}, n <= left,
         NEW window \in Int, NEW off_len \in Nat
  PROVE  WriteOK(b, left, WriteMore(b, n, window, off_len))
<1>1. CASE Length(b.data) >= window
  <2>1. WriteMore(b, n, window, off_len) = [b |-> b, n |-> 0]
    BY <1>1 DEF WriteMore
  <2> QED
    BY <2>1, GrowsItself DEF WriteOK
<1>2. CASE ~(Length(b.data) >= window)
  <2>1. PICK d : d = Extend(b, n, off_len)
    OBVIOUS
  <2>2. BufOK(d) /\ Grows(b, d) /\ d.data # <<>>
    BY <2>1, ExtendOK
  <2>3. WriteMore(b, n, window, off_len) = [b |-> d, n |-> n]
    BY <1>2, <2>1 DEF WriteMore
  <2> QED
    BY <2>2, <2>3 DEF WriteOK
<1> QED
  BY <1>1, <1>2

LEMMA CapIsNat ==
  ASSUME NEW b, BufOK(b)
  PROVE  cap(b) \in Nat
<1>1. PICK n \in Nat : n = Length(b.data)
  BY LengthIsNat DEF BufOK
<1>2. b.max_data \in Int
  BY DEF BufOK
<1>3. cap(b) = (b.max_data - n) % U64
  BY <1>1 DEF cap
<1> QED
  BY <1>2, <1>3 DEF U64

(* SendBuf::write.                                                         *)
LEMMA WriteIsOK ==
  ASSUME NEW b, BufOK(b), NEW left \in Nat, NEW window \in Int, NEW off_len \in Nat
  PROVE  WriteOK(b, left, write(b, left, window, off_len))
<1>1. PICK room \in Nat : room = cap(b)
  BY CapIsNat
<1>2. write(b, left, window, off_len) = WriteUpTo(b, left, window, off_len, room)
  BY <1>1 DEF write
<1>3. CASE room = 0
  <2>1. WriteUpTo(b, left, window, off_len, room) = [b |-> b, n |-> 0]
    BY <1>3 DEF WriteUpTo
  <2> QED
    BY <1>2, <2>1, GrowsItself DEF WriteOK
<1>4. CASE room # 0 /\ left = 0
  <2>1. WriteUpTo(b, left, window, off_len, room) = [b |-> b, n |-> -1]
    BY <1>4 DEF WriteUpTo
  <2> QED
    BY <1>2, <1>4, <2>1, GrowsItself DEF WriteOK
<1>5. CASE room # 0 /\ left # 0
  <2>1. PICK n \in Nat \ {0} : n = Min({left, room}) /\ n <= left
    <3>1. left \in Int /\ room \in Int
      OBVIOUS
    <3>2. Min({left, room}) \in {left, room} /\ Min({left, room}) <= left
      BY <3>1, MinOfTwo
    <3> QED
      BY <1>5, <3>2
  <2>2. CASE b.data = <<>>
    <3>1. WriteUpTo(b, left, window, off_len, room) = WriteEmpty(b, n, window, off_len)
      BY <1>5, <2>1, <2>2 DEF WriteUpTo
    <3> QED
      BY <1>2, <2>1, <2>2, <3>1, WriteEmptyOK
  <2>3. CASE b.data # <<>>
    <3>1. WriteUpTo(b, left, window, off_len, room) = WriteMore(b, n, window, off_len)
      BY <1>5, <2>1, <2>3 DEF WriteUpTo
    <3> QED
      BY <1>2, <2>1, <3>1, WriteMoreOK
  <2> QED
    BY <2>2, <2>3
<1> QED
  BY <1>3, <1>4, <1>5

(* SendBuf::emit hands out segments of the buffer, which keeps them.       *)
LEMMA EmitIsOK ==
  ASSUME NEW b, BufOK(b), b.data # <<>>, NEW em, em = emit(b)
  PROVE  /\ BufOK(em.b) /\ em.b.data = b.data /\ em.b.off = b.off
         /\ em.out \in Seq(Segment)
         /\ OffsetsOf(em.out) \subseteq Offsets(b)
<1> DEFINE K == {k \in 1 .. Len(b.data) : \/ b.sent + Length(SubSeq(b.data, 1, k)) >= b.max_data
                                           \/ k = Len(b.data)}
<1>1. b.data \in Seq(Segment)
  BY DEF BufOK
<1>2. K \subseteq Nat /\ K # {}
  <2>1. Len(b.data) \in 1 .. Len(b.data)
    BY <1>1
  <2> QED
    BY <1>1, <2>1
<1>3. PICK k \in 1 .. Len(b.data) : k = Emitted(b)
  <2>1. Min(K) \in K
    BY <1>2, MinIsLeast
  <2> QED
    BY <2>1 DEF Emitted
<1>4. PICK out : out = SubSeq(b.data, 1, k)
  OBVIOUS
<1>5. out \in Seq(Segment) /\ DOMAIN out = 1 .. k /\ \A i \in 1 .. k : out[i] = b.data[i]
  BY <1>1, <1>4
<1>6. em = [b |-> [b EXCEPT !.sent = @ + Length(out)], out |-> out]
  BY <1>3, <1>4 DEF emit, EmitFirst
<1>7. PICK c : c = em.b
  OBVIOUS
<1>8. /\ DOMAIN c = {"data", "off", "max_data", "sent", "offset_recv"}
      /\ c.data = b.data /\ c.off = b.off /\ c.max_data = b.max_data
      /\ c.offset_recv = b.offset_recv
  BY <1>6, <1>7 DEF BufOK
<1>9. Offsets(c) = Offsets(b)
  BY <1>8 DEF Offsets
<1>10. BufOK(c)
  BY <1>8, <1>9 DEF BufOK
<1>11. OffsetsOf(out) \subseteq Offsets(b)
  <2>1. \A i \in DOMAIN out : i \in DOMAIN b.data /\ out[i] = b.data[i]
    BY <1>1, <1>5
  <2> QED
    BY <2>1, Zenon DEF OffsetsOf, Offsets
<1> QED
  BY <1>5, <1>6, <1>7, <1>8, <1>10, <1>11

(* ack_and_drop and recv_and_drop take the dropped segments out.           *)
LEMMA DropIsOK ==
  ASSUME NEW b, BufOK(b), NEW dropped, NEW c, c = recv_and_drop(ack_and_drop(b, dropped))
  PROVE  /\ BufOK(c) /\ c.off = b.off
         /\ Offsets(c) = Offsets(b) \ dropped
<1>1. PICK a : a = ack_and_drop(b, dropped)
  OBVIOUS
<1>2. /\ DOMAIN a = {"data", "off", "max_data", "sent", "offset_recv"}
      /\ a.data = b.data /\ a.off = b.off /\ a.max_data = b.max_data
  BY <1>1 DEF ack_and_drop, BufOK
<1>3. a.offset_recv = [o \in DOMAIN b.offset_recv |-> b.offset_recv[o] /\ o \notin dropped]
  BY <1>1 DEF ack_and_drop, BufOK
<1>4. DOMAIN b.offset_recv = Offsets(b) /\ \A o \in Offsets(b) : b.offset_recv[o] = TRUE
  BY DEF BufOK
<1>5. PICK kept : kept = {o \in DOMAIN a.offset_recv : a.offset_recv[o]}
  OBVIOUS
<1>6. kept = Offsets(b) \ dropped
  BY <1>3, <1>4, <1>5, Zenon
<1>7. c = DropAllBut(a, kept)
  BY <1>1, <1>5 DEF recv_and_drop
<1>8. b.data \in Seq(Segment) /\ b.off \in Nat /\ b.max_data \in Int
  BY DEF BufOK
<1>9. CASE b.data = <<>>
  <2>1. c = a
    BY <1>2, <1>7, <1>9 DEF DropAllBut
  <2>2. Offsets(b) = {} /\ Offsets(a) = {}
    BY <1>2, <1>9 DEF Offsets
  <2>3. DOMAIN a.offset_recv = {}
    BY <1>3, <1>4, <2>2
  <2>4. BufOK(a)
    BY <1>2, <1>8, <2>2, <2>3 DEF BufOK
  <2> QED
    BY <1>2, <2>1, <2>2, <2>4
<1>10. CASE b.data # <<>>
  <2>1. c = [a EXCEPT !.data = Select(a.data, kept), !.offset_recv = [o \in kept |-> TRUE]]
    BY <1>2, <1>7, <1>10 DEF DropAllBut
  <2>2. PICK q : q = Select(b.data, kept)
    OBVIOUS
  <2>3. q \in Seq(Segment) /\ OffsetsOf(q) = OffsetsOf(b.data) \cap kept
    BY <1>8, <2>2, SelectIsRight
  <2>4. /\ DOMAIN c = {"data", "off", "max_data", "sent", "offset_recv"}
        /\ c.data = q /\ c.off = b.off /\ c.max_data = b.max_data
        /\ c.offset_recv = [o \in kept |-> TRUE]
    BY <1>2, <2>1, <2>2
  <2>5. Offsets(c) = kept
    BY <1>6, <2>3, <2>4, OffsetsIsOffsetsOf
  <2>6. \A o \in kept : o < b.off
    BY <1>6 DEF BufOK
  <2>7. BufOK(c)
    <3>1. DOMAIN c.offset_recv = kept /\ \A o \in kept : c.offset_recv[o] = TRUE
      BY <2>4
    <3> QED
      BY <1>8, <2>3, <2>4, <2>5, <2>6, <3>1 DEF BufOK
  <2> QED
    BY <1>6, <2>4, <2>5, <2>7
<1> QED
  BY <1>9, <1>10

-----------------------------------------------------------------------------
(* What the steps of a writer leave alone.                                 *)

SameQuestions(s, t) ==
  /\ t.next_pkt_num = s.next_pkt_num /\ t.ack_set = s.ack_set
  /\ t.keyToValues = s.keyToValues /\ t.valueToKeys = s.valueToKeys
  /\ t.retransmission_ack = s.retransmission_ack /\ t.timeout_ack = s.timeout_ack
SameAsking(s, t) == t.record_send = s.record_send /\ t.ack_point = s.ack_point
SameWindow(s, t) == t.recovery = s.recovery /\ t.record_win = s.record_win
SameBuf(s, t) == t.buf = s.buf /\ t.sent_dic = s.sent_dic
SameWriting(s, t) ==
  /\ t.data_buffer = s.data_buffer /\ t.current = s.current
  /\ t.written = s.written /\ t.written_len = s.written_len
SameMessages(s, t) == t.messages = s.messages

(* ... and what they do that others rely on: an old number stays out of    *)
(* use once its question was answered, and until then stands for the same  *)
(* offsets; the buffer lets nothing go.                                    *)
QStep(s, t) ==
  /\ s.next_pkt_num \in Nat /\ t.next_pkt_num \in Nat /\ s.next_pkt_num <= t.next_pkt_num
  /\ \A pn \in Nat : pn < s.next_pkt_num /\ Awaited(t, pn) =>
       Awaited(s, pn) /\ Asked(t, pn) = Asked(s, pn)
KeepsSent(s, t) == t.sent_dic = s.sent_dic /\ Grows(s.buf, t.buf)

LEMMA QuestionsFrame ==
  ASSUME NEW s, NEW t, QuestionsOK(s), SameQuestions(s, t)
  PROVE  QuestionsOK(t) /\ QStep(s, t)
<1>1. QuestionsOK(t)
  BY DEF QuestionsOK, SameQuestions
<1>2. QStep(s, t)
  <2>1. s.next_pkt_num \in Nat /\ t.next_pkt_num \in Nat /\ s.next_pkt_num <= t.next_pkt_num
    BY DEF QuestionsOK, SameQuestions, Accounted
  <2>2. ASSUME NEW pn, Awaited(t, pn) PROVE Awaited(s, pn) /\ Asked(t, pn) = Asked(s, pn)
    BY <2>2 DEF Awaited, Asked, SameQuestions
  <2> QED
    BY <2>1, <2>2 DEF QStep
<1> QED
  BY <1>1, <1>2

LEMMA AskingFrame ==
  ASSUME NEW s, NEW t, AskingOK(s), SameAsking(s, t)
  PROVE  AskingOK(t)
BY DEF AskingOK, SameAsking

LEMMA WindowFrame ==
  ASSUME NEW s, NEW t, WindowOK(s), SameWindow(s, t)
  PROVE  WindowOK(t)
BY DEF WindowOK, SameWindow

LEMMA BufFrame ==
  ASSUME NEW s, NEW t, BufOK(s.buf), SameBuf(s, t)
  PROVE  BufOK(t.buf) /\ KeepsSent(s, t)
BY GrowsItself DEF SameBuf, KeepsSent

LEMMA SentKept ==
  ASSUME NEW s, NEW t, NEW dic, SentOK(s, dic), KeepsSent(s, t), BufOK(s.buf), BufOK(t.buf)
  PROVE  SentOK(t, dic)
<1>1. s.buf.off \in Nat /\ t.buf.off \in Nat /\ s.buf.off <= t.buf.off
  BY DEF KeepsSent, Grows, BufOK
<1>2. \A o \in DOMAIN t.sent_dic : o \in Nat /\ o < t.buf.off
  BY <1>1 DEF SentOK, KeepsSent
<1>3. \A o \in DOMAIN t.sent_dic :
        InBounds(o) /\ o \notin Offsets(t.buf) => o \in dic \/ t.sent_dic[o] = 0
  BY DEF SentOK, KeepsSent, Grows
<1> QED
  BY <1>2, <1>3 DEF SentOK

(* What the peer has received only grows.                                  *)
LEMMA SentReceived ==
  ASSUME NEW s, NEW dic, NEW more, dic \subseteq more, SentOK(s, dic)
  PROVE  SentOK(s, more)
BY DEF SentOK

-----------------------------------------------------------------------------
(* The operations and their io vectors.                                    *)

LEMMA OperationFacts ==
  ASSUME NEW op \in Operation
  PROVE  /\ op.payload \in Nat \cup {Notification} /\ op.nwritten \in Nat /\ op.nbytes \in Nat
         /\ op.nbytes = IF op.payload = Notification THEN Preamble ELSE Preamble + op.payload
         /\ op.nwritten < op.nbytes
BY DEF Operation

LEMMA LeftIsNat ==
  ASSUME NEW v \in Seq(Vector)
  PROVE  /\ Left(v) \in Nat
         /\ \A i \in 1 .. Len(v) : v[i] \in Vector /\ v[i].left \in Nat
<1>1. \A i \in 1 .. Len(v) : v[i] \in Vector
  OBVIOUS
<1>2. \A x \in Vector : x.left \in Nat
  BY DEF Vector
<1>3. \A i \in 1 .. Len(v) : v[i].left \in Nat
  BY <1>1, <1>2, Zenon
<1>4. (1 <= Len(v) => 1 \in 1 .. Len(v)) /\ (2 <= Len(v) => 2 \in 1 .. Len(v))
  OBVIOUS
<1>5. PICK a \in Nat : a = IF 1 <= Len(v) THEN v[1].left ELSE 0
  BY <1>3, <1>4
<1>6. PICK c \in Nat : c = IF 2 <= Len(v) THEN v[2].left ELSE 0
  BY <1>3, <1>4
<1>7. Left(v) = a + c
  BY <1>5, <1>6 DEF Left
<1>8. Left(v) \in Nat
  BY <1>7
<1> QED
  BY <1>1, <1>3, <1>8

LEMMA VectorsOK ==
  ASSUME NEW op \in Operation, NEW v, v = prepareWrite(op)
  PROVE  /\ v \in Seq(Vector)
         /\ Len(v) \in 1 .. 2
         /\ Left(v) <= op.nbytes - op.nwritten
<1>1. /\ op.payload \in Nat \cup {Notification} /\ op.nwritten \in Nat /\ op.nbytes \in Nat
      /\ op.nwritten < op.nbytes
  BY OperationFacts
<1>2. op.nbytes = IF op.payload = Notification THEN Preamble ELSE Preamble + op.payload
  BY OperationFacts
<1>3. Preamble \in Nat
  BY OpsAssumption
<1>4. PICK m \in Nat : /\ m = Max({0, op.nwritten - Preamble})
                       /\ m = IF op.nwritten < Preamble THEN 0 ELSE op.nwritten - Preamble
  <2>1. PICK x \in Int : x = op.nwritten - Preamble
    BY <1>1, <1>3
  <2>2. Max({0, x}) \in {0, x} /\ Max({0, x}) >= 0 /\ Max({0, x}) >= x
    <3>1. 0 \in Int
      OBVIOUS
    <3> QED
      BY <3>1, MaxOfTwo
  <2> QED
    BY <1>1, <1>3, <2>1, <2>2
<1>5. \A n \in Nat : Buffer(n) \in Vector /\ Buffer(n).left = n
  BY DEF Buffer, Vector
<1> DEFINE a == Preamble - op.nwritten
           c == op.payload - m
<1>6. CASE op.payload = Notification
  <2>1. op.nwritten < Preamble /\ a \in Nat
    BY <1>1, <1>2, <1>3, <1>6
  <2>2. v = <<Buffer(a)>> \o <<>>
    BY <1>6, <2>1 DEF prepareWrite
  <2>3. v = <<Buffer(a)>>
    BY <2>2
  <2>4. Buffer(a) \in Vector /\ Buffer(a).left = a
    BY <1>5, <2>1
  <2>5. v \in Seq(Vector) /\ Len(v) = 1 /\ v[1] = Buffer(a)
    BY <2>3, <2>4
  <2>6. Left(v) = a
    BY <2>1, <2>4, <2>5 DEF Left
  <2>7. a = op.nbytes - op.nwritten
    BY <1>2, <1>6
  <2>8. a <= a
    BY <2>1
  <2> QED
    BY <2>5, <2>6, <2>7, <2>8
<1>7. CASE op.payload # Notification /\ op.nwritten < Preamble
  <2>1. a \in Nat /\ c \in Nat /\ m = 0
    BY <1>1, <1>3, <1>4, <1>7
  <2>2. v = <<Buffer(a)>> \o <<Buffer(c)>>
    BY <1>4, <1>7 DEF prepareWrite
  <2>3. Buffer(a) \in Vector /\ Buffer(a).left = a /\ Buffer(c) \in Vector /\ Buffer(c).left = c
    BY <1>5, <2>1
  <2>4. \A x, y \in Vector : LET w == <<x>> \o <<y>>
                             IN  w \in Seq(Vector) /\ Len(w) = 2 /\ w[1] = x /\ w[2] = y
    OBVIOUS
  <2>5. v \in Seq(Vector) /\ Len(v) = 2 /\ v[1] = Buffer(a) /\ v[2] = Buffer(c)
    BY <2>2, <2>3, <2>4
  <2>6. Left(v) = a + c
    BY <2>1, <2>3, <2>5 DEF Left
  <2>7. a + c <= op.nbytes - op.nwritten
    BY <1>1, <1>2, <1>3, <1>7, <2>1
  <2> QED
    BY <2>5, <2>6, <2>7
<1>8. CASE op.payload # Notification /\ ~(op.nwritten < Preamble)
  <2>1. c \in Nat /\ c = op.nbytes - op.nwritten
    <3>1. op.payload \in Nat /\ op.nbytes = Preamble + op.payload
      BY <1>1, <1>2, <1>8
    <3>2. m = op.nwritten - Preamble
      BY <1>4, <1>8
    <3> QED
      BY <1>1, <1>3, <3>1, <3>2
  <2>2. v = <<>> \o <<Buffer(c)>>
    BY <1>4, <1>8 DEF prepareWrite
  <2>3. v = <<Buffer(c)>>
    BY <2>2
  <2>4. Buffer(c) \in Vector /\ Buffer(c).left = c
    BY <1>5, <2>1
  <2>5. v \in Seq(Vector) /\ Len(v) = 1 /\ v[1] = Buffer(c)
    BY <2>3, <2>4
  <2>6. Left(v) = c
    BY <2>1, <2>4, <2>5 DEF Left
  <2>7. c <= c
    BY <2>1
  <2> QED
    BY <2>1, <2>5, <2>6, <2>7
<1> QED
  BY <1>6, <1>7, <1>8

-----------------------------------------------------------------------------
(* Asking, repeating and forgetting a question.                            *)

LEMMA RangeOfOne ==
  ASSUME NEW x \in Nat
  PROVE  <<x>> \in Seq(Nat) /\ Range(<<x>>) = {x}
BY DEF Range

LEMMA RangeOfAppend ==
  ASSUME NEW q \in Seq(Nat), NEW x \in Nat
  PROVE  Append(q, x) \in Seq(Nat) /\ Range(Append(q, x)) = Range(q) \cup {x}
<1> DEFINE p == Append(q, x)
           n == Len(q) + 1
<1>1. p \in Seq(Nat) /\ DOMAIN p = 1 .. n /\ DOMAIN q = 1 .. Len(q)
  OBVIOUS
<1>2. p[n] = x /\ \A i \in 1 .. Len(q) : p[i] = q[i]
  OBVIOUS
<1>3. \A i \in 1 .. n : i \in 1 .. Len(q) \/ i = n
  OBVIOUS
<1>4. n \in 1 .. n /\ \A i \in 1 .. Len(q) : i \in 1 .. n
  OBVIOUS
<1> HIDE DEF p, n
<1>5. Range(p) = Range(q) \cup {x}
  BY <1>1, <1>2, <1>3, <1>4, Zenon DEF Range
<1> QED
  BY <1>1, <1>5 DEF p

(* Every number in use is an old one.                                      *)
LEMMA NumbersAreOld ==
  ASSUME NEW next, NEW A, NEW K, NEW V, NEW T, NEW O, Accounted(next, A, K, V, T, O)
  PROVE  /\ next \in Nat
         /\ next \notin A /\ next \notin DOMAIN V /\ next \notin DOMAIN T /\ next \notin DOMAIN O
         /\ \A k \in A : next \notin Range(K[k])
<1>1. next \in Nat
  BY DEF Accounted
<1>2. \A v \in DOMAIN V : v \in Nat /\ v < next
  BY DEF Accounted
<1>3. next \notin DOMAIN V
  BY <1>1, <1>2
<1>4. DOMAIN V = DOMAIN T \cup DOMAIN O
  BY DEF Accounted
<1>5. \A k \in A : k \in Range(K[k]) /\ Range(K[k]) \subseteq DOMAIN V
  BY DEF Accounted
<1> QED
  BY <1>1, <1>3, <1>4, <1>5

LEMMA AskAccounted ==
  ASSUME NEW next, NEW A, NEW K, NEW V, NEW T, NEW O, Accounted(next, A, K, V, T, O),
         NEW offs \in Seq(Nat)
  PROVE  Accounted(next + 1, A \cup {next}, Put(K, next, <<next>>), Put(V, next, next),
                   Put(T, next, offs), O)
<1>1. PICK K2 : K2 = Put(K, next, <<next>>)
  OBVIOUS
<1>2. PICK V2 : V2 = Put(V, next, next)
  OBVIOUS
<1>3. PICK T2 : T2 = Put(T, next, offs)
  OBVIOUS
<1>4. /\ DOMAIN K2 = DOMAIN K \cup {next} /\ K2[next] = <<next>>
      /\ \A x \in DOMAIN K : x # next => K2[x] = K[x]
  BY <1>1 DEF Put
<1>5. /\ DOMAIN V2 = DOMAIN V \cup {next} /\ V2[next] = next
      /\ \A x \in DOMAIN V : x # next => V2[x] = V[x]
  BY <1>2 DEF Put
<1>6. /\ DOMAIN T2 = DOMAIN T \cup {next} /\ T2[next] = offs
      /\ \A x \in DOMAIN T : x # next => T2[x] = T[x]
  BY <1>3 DEF Put
<1>7. /\ next \in Nat
      /\ next \notin A /\ next \notin DOMAIN V /\ next \notin DOMAIN T /\ next \notin DOMAIN O
      /\ \A k \in A : next \notin Range(K[k])
  BY NumbersAreOld
<1>8. /\ DOMAIN K = A /\ A \subseteq Nat
      /\ DOMAIN V = DOMAIN T \cup DOMAIN O /\ DOMAIN T \cap DOMAIN O = {}
  BY DEF Accounted
<1>9. \A v \in DOMAIN V : v \in Nat /\ v < next /\ V[v] \in A /\ v \in Range(K[V[v]])
  BY DEF Accounted
<1>10. \A k \in A : /\ K[k] \in Seq(Nat) /\ k \in Range(K[k])
                    /\ \A v \in Range(K[k]) : v \in DOMAIN V /\ V[v] = k
                    /\ \E v \in Nat : Range(K[k]) \cap DOMAIN T = {v}
  BY DEF Accounted
<1>11. /\ \A v \in DOMAIN T : T[v] \in Seq(Nat)
       /\ \A v \in DOMAIN O : O[v] \in Seq(Nat)
  BY DEF Accounted
<1>12. <<next>> \in Seq(Nat) /\ Range(<<next>>) = {next}
  BY <1>7, RangeOfOne
<1>13. \A k \in A : K2[k] = K[k]
  BY <1>4, <1>7, <1>8
<1>14. \A v \in DOMAIN V : V2[v] = V[v]
  BY <1>5, <1>7
<1>15. next + 1 \in Nat /\ \A v \in DOMAIN V2 : v \in Nat /\ v < next + 1
  <2>1. \A v \in Nat : v < next => v < next + 1
    BY <1>7
  <2>2. next < next + 1 /\ next + 1 \in Nat
    BY <1>7
  <2> QED
    BY <1>5, <1>7, <1>9, <2>1, <2>2
<1>16. DOMAIN K2 = A \cup {next} /\ A \cup {next} \subseteq Nat
  BY <1>4, <1>7, <1>8
<1>17. DOMAIN V2 = DOMAIN T2 \cup DOMAIN O /\ DOMAIN T2 \cap DOMAIN O = {}
  BY <1>5, <1>6, <1>7, <1>8
<1>18. ASSUME NEW v \in DOMAIN V2 PROVE V2[v] \in A \cup {next} /\ v \in Range(K2[V2[v]])
  <2>1. CASE v = next
    BY <1>4, <1>5, <1>12, <2>1
  <2>2. CASE v \in DOMAIN V
    BY <1>9, <1>13, <1>14, <2>2
  <2> QED
    BY <1>5, <2>1, <2>2
<1>19. ASSUME NEW k \in A \cup {next}
       PROVE  /\ K2[k] \in Seq(Nat) /\ k \in Range(K2[k])
              /\ \A v \in Range(K2[k]) : v \in DOMAIN V2 /\ V2[v] = k
              /\ \E v \in Nat : Range(K2[k]) \cap DOMAIN T2 = {v}
  <2>1. CASE k = next
    <3>1. Range(K2[k]) = {next} /\ K2[k] \in Seq(Nat)
      BY <1>4, <1>12, <2>1
    <3>2. Range(K2[k]) \cap DOMAIN T2 = {next}
      BY <1>6, <3>1
    <3> QED
      BY <1>5, <1>7, <2>1, <3>1, <3>2
  <2>2. CASE k \in A
    <3>1. K2[k] = K[k] /\ next \notin Range(K[k])
      BY <1>7, <1>13, <2>2
    <3>2. PICK v \in Nat : Range(K[k]) \cap DOMAIN T = {v}
      BY <1>10, <2>2
    <3>3. Range(K2[k]) \cap DOMAIN T2 = {v}
      BY <1>6, <3>1, <3>2
    <3>4. \A w \in Range(K2[k]) : w \in DOMAIN V2 /\ V2[w] = k
      BY <1>5, <1>10, <1>14, <2>2, <3>1
    <3>5. K2[k] \in Seq(Nat) /\ k \in Range(K2[k])
      BY <1>10, <2>2, <3>1
    <3> QED
      BY <3>3, <3>4, <3>5
  <2> QED
    BY <2>1, <2>2
<1>20. \A v \in DOMAIN T2 : T2[v] \in Seq(Nat)
  BY <1>6, <1>7, <1>11
<1> HIDE DEF Range
<1>21. Accounted(next + 1, A \cup {next}, K2, V2, T2, O)
  BY <1>11, <1>15, <1>16, <1>17, <1>18, <1>19, <1>20, Zenon DEF Accounted
<1> QED
  BY <1>1, <1>2, <1>3, <1>21

LEMMA RepeatAccounted ==
  ASSUME NEW next, NEW A, NEW K, NEW V, NEW T, NEW O, Accounted(next, A, K, V, T, O),
         NEW pn \in DOMAIN T, NEW ini, ini = V[pn],
         NEW K2, K2 = [K EXCEPT ![ini] = Append(@, next)],
         NEW V2, V2 = Put(V, next, ini),
         NEW O2, O2 = IF pn \in DOMAIN O THEN O ELSE Put(O, pn, T[pn]),
         NEW T2, T2 = Put(Without(T, {pn}), next, T[pn])
  PROVE  Accounted(next + 1, A, K2, V2, T2, O2)
<1>7. /\ next \in Nat
      /\ next \notin A /\ next \notin DOMAIN V /\ next \notin DOMAIN T /\ next \notin DOMAIN O
      /\ \A k \in A : next \notin Range(K[k])
  BY NumbersAreOld
<1>8. /\ DOMAIN K = A /\ A \subseteq Nat
      /\ DOMAIN V = DOMAIN T \cup DOMAIN O /\ DOMAIN T \cap DOMAIN O = {}
  BY DEF Accounted
<1>9. \A v \in DOMAIN V : v \in Nat /\ v < next /\ V[v] \in A /\ v \in Range(K[V[v]])
  BY DEF Accounted
<1>10. \A k \in A : /\ K[k] \in Seq(Nat) /\ k \in Range(K[k])
                    /\ \A v \in Range(K[k]) : v \in DOMAIN V /\ V[v] = k
                    /\ \E v \in Nat : Range(K[k]) \cap DOMAIN T = {v}
  BY DEF Accounted
<1>11. /\ \A v \in DOMAIN T : T[v] \in Seq(Nat)
       /\ \A v \in DOMAIN O : O[v] \in Seq(Nat)
  BY DEF Accounted
<1>12. pn \in DOMAIN V /\ pn \notin DOMAIN O /\ ini \in A /\ pn \in Range(K[ini])
  BY <1>8, <1>9
<1>1. /\ DOMAIN K2 = DOMAIN K /\ K2[ini] = Append(K[ini], next)
      /\ \A x \in DOMAIN K : x # ini => K2[x] = K[x]
  BY <1>8, <1>12
<1>2. K2[ini] \in Seq(Nat) /\ Range(K2[ini]) = Range(K[ini]) \cup {next}
  BY <1>1, <1>7, <1>10, <1>12, RangeOfAppend
<1>3. /\ DOMAIN V2 = DOMAIN V \cup {next} /\ V2[next] = ini
      /\ \A x \in DOMAIN V : x # next => V2[x] = V[x]
  BY DEF Put
<1>4. /\ DOMAIN O2 = DOMAIN O \cup {pn} /\ O2[pn] = T[pn]
      /\ \A x \in DOMAIN O : O2[x] = O[x]
  <2>1. O2 = Put(O, pn, T[pn])
    BY <1>12
  <2>2. /\ DOMAIN O2 = DOMAIN O \cup {pn} /\ O2[pn] = T[pn]
        /\ \A x \in DOMAIN O : x # pn => O2[x] = O[x]
    BY <2>1 DEF Put
  <2> QED
    BY <1>12, <2>2
<1>5. PICK W : W = Without(T, {pn})
  OBVIOUS
<1>6. /\ DOMAIN T2 = (DOMAIN T \ {pn}) \cup {next} /\ T2[next] = T[pn]
      /\ \A x \in DOMAIN T \ {pn} : T2[x] = T[x]
  <2>1. DOMAIN W = DOMAIN T \ {pn} /\ \A x \in DOMAIN T \ {pn} : W[x] = T[x]
    BY <1>5 DEF Without
  <2>2. T2 = Put(W, next, T[pn])
    BY <1>5
  <2>3. /\ DOMAIN T2 = DOMAIN W \cup {next} /\ T2[next] = T[pn]
        /\ \A x \in DOMAIN W : x # next => T2[x] = W[x]
    BY <2>2 DEF Put
  <2> QED
    BY <1>7, <2>1, <2>3
<1>13. next # pn /\ \A v \in DOMAIN V : V2[v] = V[v]
  BY <1>3, <1>7
<1>14. next + 1 \in Nat /\ \A v \in DOMAIN V2 : v \in Nat /\ v < next + 1
  <2>1. \A v \in Nat : v < next => v < next + 1
    BY <1>7
  <2>2. next < next + 1 /\ next + 1 \in Nat
    BY <1>7
  <2> QED
    BY <1>3, <1>7, <1>9, <2>1, <2>2
<1>15. DOMAIN K2 = A
  BY <1>1, <1>8
<1>16. DOMAIN V2 = DOMAIN T2 \cup DOMAIN O2
  BY <1>3, <1>4, <1>6, <1>8
<1>17. DOMAIN T2 \cap DOMAIN O2 = {}
  BY <1>4, <1>6, <1>7, <1>8, <1>13
<1>18. ASSUME NEW v \in DOMAIN V2 PROVE V2[v] \in A /\ v \in Range(K2[V2[v]])
  <2>1. CASE v = next
    BY <1>2, <1>3, <1>12, <2>1
  <2>2. CASE v \in DOMAIN V
    <3>1. V2[v] = V[v] /\ V[v] \in A /\ v \in Range(K[V[v]])
      BY <1>9, <1>13, <2>2
    <3>2. CASE V[v] = ini
      BY <1>2, <3>1, <3>2
    <3>3. CASE V[v] # ini
      BY <1>1, <1>8, <3>1, <3>3
    <3> QED
      BY <3>2, <3>3
  <2> QED
    BY <1>3, <2>1, <2>2
<1>19. ASSUME NEW k \in A
       PROVE  /\ K2[k] \in Seq(Nat) /\ k \in Range(K2[k])
              /\ \A v \in Range(K2[k]) : v \in DOMAIN V2 /\ V2[v] = k
              /\ \E v \in Nat : Range(K2[k]) \cap DOMAIN T2 = {v}
  <2>1. CASE k = ini
    <3>1. PICK v \in Nat : Range(K[ini]) \cap DOMAIN T = {v}
      BY <1>10, <1>12
    <3>2. v = pn
      BY <1>12, <3>1
    <3>3. Range(K2[k]) \cap DOMAIN T2 = {next}
      BY <1>2, <1>6, <2>1, <3>1, <3>2
    <3>4. \A w \in Range(K2[k]) : w \in DOMAIN V2 /\ V2[w] = k
      BY <1>2, <1>3, <1>10, <1>12, <1>13, <2>1
    <3>5. K2[k] \in Seq(Nat) /\ k \in Range(K2[k])
      BY <1>2, <1>10, <2>1
    <3> QED
      BY <1>7, <3>3, <3>4, <3>5
  <2>2. CASE k # ini
    <3>1. K2[k] = K[k] /\ next \notin Range(K[k])
      BY <1>1, <1>7, <1>8, <2>2
    <3>2. PICK v \in Nat : Range(K[k]) \cap DOMAIN T = {v}
      BY <1>10
    <3>3. pn \notin Range(K[k])
      BY <1>10, <2>2
    <3>4. Range(K2[k]) \cap DOMAIN T2 = {v}
      BY <1>6, <3>1, <3>2, <3>3
    <3>5. \A w \in Range(K2[k]) : w \in DOMAIN V2 /\ V2[w] = k
      BY <1>3, <1>10, <1>13, <3>1
    <3>6. K2[k] \in Seq(Nat) /\ k \in Range(K2[k])
      BY <1>10, <3>1
    <3> QED
      BY <3>4, <3>5, <3>6
  <2> QED
    BY <2>1, <2>2
<1>20. \A v \in DOMAIN T2 : T2[v] \in Seq(Nat)
  BY <1>6, <1>11
<1>21. \A v \in DOMAIN O2 : O2[v] \in Seq(Nat)
  BY <1>4, <1>11
<1> QED
  BY <1>8, <1>14, <1>15, <1>16, <1>17, <1>18, <1>19, <1>20, <1>21, Zenon DEF Accounted

LEMMA ForgetAccounted ==
  ASSUME NEW next, NEW A, NEW K, NEW V, NEW T, NEW O, Accounted(next, A, K, V, T, O),
         NEW ini \in A, NEW pns, pns = Range(K[ini])
  PROVE  Accounted(next, A \ {ini}, Without(K, {ini}), Without(V, pns), Without(T, pns),
                   Without(O, pns))
<1>1. PICK K2 : K2 = Without(K, {ini})
  OBVIOUS
<1>2. PICK V2 : V2 = Without(V, pns)
  OBVIOUS
<1>3. PICK T2 : T2 = Without(T, pns)
  OBVIOUS
<1>4. PICK O2 : O2 = Without(O, pns)
  OBVIOUS
<1>5. /\ DOMAIN K2 = DOMAIN K \ {ini} /\ \A x \in DOMAIN K \ {ini} : K2[x] = K[x]
      /\ DOMAIN V2 = DOMAIN V \ pns /\ \A x \in DOMAIN V \ pns : V2[x] = V[x]
  BY <1>1, <1>2 DEF Without
<1>6. /\ DOMAIN T2 = DOMAIN T \ pns /\ \A x \in DOMAIN T \ pns : T2[x] = T[x]
      /\ DOMAIN O2 = DOMAIN O \ pns /\ \A x \in DOMAIN O \ pns : O2[x] = O[x]
  BY <1>3, <1>4 DEF Without
<1>8. /\ DOMAIN K = A /\ A \subseteq Nat /\ next \in Nat
      /\ DOMAIN V = DOMAIN T \cup DOMAIN O /\ DOMAIN T \cap DOMAIN O = {}
  BY DEF Accounted
<1>9. \A v \in DOMAIN V : v \in Nat /\ v < next /\ V[v] \in A /\ v \in Range(K[V[v]])
  BY DEF Accounted
<1>10. \A k \in A : /\ K[k] \in Seq(Nat) /\ k \in Range(K[k])
                    /\ \A v \in Range(K[k]) : v \in DOMAIN V /\ V[v] = k
                    /\ \E v \in Nat : Range(K[k]) \cap DOMAIN T = {v}
  BY DEF Accounted
<1>11. /\ \A v \in DOMAIN T : T[v] \in Seq(Nat)
       /\ \A v \in DOMAIN O : O[v] \in Seq(Nat)
  BY DEF Accounted
<1>12. DOMAIN K2 = A \ {ini} /\ A \ {ini} \subseteq Nat
  BY <1>5, <1>8
<1>13. DOMAIN V2 = DOMAIN T2 \cup DOMAIN O2 /\ DOMAIN T2 \cap DOMAIN O2 = {}
  BY <1>5, <1>6, <1>8
<1>14. ASSUME NEW v \in DOMAIN V2
       PROVE  v \in Nat /\ v < next /\ V2[v] \in A \ {ini} /\ v \in Range(K2[V2[v]])
  <2>1. v \in DOMAIN V /\ v \notin pns /\ V2[v] = V[v]
    BY <1>5
  <2>2. v \in Nat /\ v < next /\ V[v] \in A /\ v \in Range(K[V[v]])
    BY <1>9, <2>1
  <2>3. V[v] # ini
    BY <2>1, <2>2
  <2> QED
    BY <1>5, <1>8, <2>1, <2>2, <2>3
<1>15. ASSUME NEW k \in A \ {ini}
       PROVE  /\ K2[k] \in Seq(Nat) /\ k \in Range(K2[k])
              /\ \A v \in Range(K2[k]) : v \in DOMAIN V2 /\ V2[v] = k
              /\ \E v \in Nat : Range(K2[k]) \cap DOMAIN T2 = {v}
  <2>1. K2[k] = K[k]
    BY <1>5, <1>8
  <2>2. Range(K[k]) \cap pns = {}
    BY <1>10
  <2>3. PICK v \in Nat : Range(K[k]) \cap DOMAIN T = {v}
    BY <1>10
  <2>4. Range(K2[k]) \cap DOMAIN T2 = {v}
    BY <1>6, <2>1, <2>2, <2>3
  <2>5. \A w \in Range(K2[k]) : w \in DOMAIN V2 /\ V2[w] = k
    BY <1>5, <1>10, <2>1, <2>2
  <2>6. K2[k] \in Seq(Nat) /\ k \in Range(K2[k])
    BY <1>10, <2>1
  <2> QED
    BY <2>4, <2>5, <2>6
<1>16. /\ \A v \in DOMAIN T2 : T2[v] \in Seq(Nat)
       /\ \A v \in DOMAIN O2 : O2[v] \in Seq(Nat)
  BY <1>6, <1>11
<1>17. Accounted(next, A \ {ini}, K2, V2, T2, O2)
  BY <1>8, <1>12, <1>13, <1>14, <1>15, <1>16, Zenon DEF Accounted
<1> QED
  BY <1>1, <1>2, <1>3, <1>4, <1>17

-----------------------------------------------------------------------------
(* The steps of a writer, up to the call to sendmmsg.                      *)

LEMMA StartWriteOK ==
  ASSUME NEW t, NEW s, SenderOK("idle", t, s), t # <<>>,
         NEW s2, s2 = [s EXCEPT !.data_buffer = prepareWrite(Head(t)), !.written = 0,
                                !.messages = <<>>]
  PROVE  SenderOK("mmsg", t, s2) /\ QStep(s, s2) /\ KeepsSent(s, s2)
<1>1. PICK v : v = prepareWrite(Head(t))
  OBVIOUS
<1>2. DOMAIN s = SenderFields
  BY DEF SenderOK
<1>3. /\ DOMAIN s2 = SenderFields
      /\ s2.data_buffer = v /\ s2.current = s.current /\ s2.written = 0
      /\ s2.written_len = s.written_len /\ s2.messages = <<>>
  BY <1>1, <1>2 DEF SenderFields
<1>4. SameQuestions(s, s2)
  BY <1>2 DEF SenderFields, SameQuestions
<1>5. SameAsking(s, s2) /\ SameWindow(s, s2) /\ SameBuf(s, s2)
  BY <1>2 DEF SenderFields, SameAsking, SameWindow, SameBuf
<1>6. BufOK(s2.buf) /\ KeepsSent(s, s2)
  BY <1>5, BufFrame DEF SenderOK
<1>7. QuestionsOK(s2) /\ QStep(s, s2)
  BY <1>4, QuestionsFrame DEF SenderOK
<1>8. AskingOK(s2) /\ WindowOK(s2)
  BY <1>5, AskingFrame, WindowFrame DEF SenderOK
<1>9. t \in Seq(Operation) /\ s.written_len \in Int /\ s.current = 1
  BY DEF SenderOK, WritingOK, InLoop
<1>10. Head(t) = t[1] /\ t[1] \in Operation
  BY <1>9
<1>11. v \in Seq(Vector) /\ Len(v) \in 1 .. 2 /\ Left(v) <= t[1].nbytes - t[1].nwritten
  BY <1>1, <1>10, VectorsOK
<1>12. WritingOK("mmsg", t, s2)
  <2>1. s2.written \in Nat /\ s2.written_len \in Int
    BY <1>3, <1>9
  <2>2. s2.current \in 1 .. Len(s2.data_buffer) /\ Len(s2.data_buffer) \in 1 .. 2
    <3>1. \A n \in 1 .. 2 : 1 \in 1 .. n
      OBVIOUS
    <3> QED
      BY <1>3, <1>9, <1>11, <3>1
  <2>3. Taken("mmsg", s2) = 0
    BY DEF Taken
  <2>4. Left(v) \in Int
    BY <1>11, LeftIsNat
  <2>5. s2.written + Taken("mmsg", s2) + Left(s2.data_buffer) <= t[1].nbytes - t[1].nwritten
    BY <1>3, <1>11, <2>3, <2>4
  <2> QED
    BY <1>3, <1>9, <1>11, <2>1, <2>2, <2>5 DEF WritingOK, InLoop
<1>13. s2.messages \in Seq(App)
  BY <1>3
<1> QED
  BY <1>3, <1>6, <1>7, <1>8, <1>12, <1>13 DEF SenderOK

LEMMA SendMmsgOK ==
  ASSUME NEW t, NEW s, SenderOK("mmsg", t, s),
         NEW s2, s2 = [NextWindow(s) EXCEPT !.written_len = 0]
  PROVE  SenderOK("fill", t, s2) /\ QStep(s, s2) /\ KeepsSent(s, s2)
<1>1. PICK u : u = NextWindow(s)
  OBVIOUS
<1>2. DOMAIN s = SenderFields /\ WindowOK(s)
  BY DEF SenderOK
<1>3. /\ DOMAIN u = SenderFields
      /\ SameQuestions(s, u) /\ SameAsking(s, u) /\ SameBuf(s, u)
      /\ SameWriting(s, u) /\ SameMessages(s, u)
      /\ WindowOK(u)
  <2>1. CASE s.buf.data # <<>>
    <3>1. u = s
      BY <1>1, <2>1 DEF NextWindow
    <3> QED
      BY <1>2, <3>1 DEF SameQuestions, SameAsking, SameBuf, SameWriting, SameMessages
  <2>2. CASE s.buf.data = <<>>
    <3>1. PICK w : w = IF 100 * s.high_priority > s.sent_number
                       THEN rollback(s.recovery) ELSE cwnd(s.recovery)
      OBVIOUS
    <3>2. RecoveryOK(w.r) /\ w.window \in Int
      BY <1>2, <3>1, CwndOK, RollbackOK DEF WindowOK
    <3>3. u = Opened(s, w)
      BY <1>1, <2>2, <3>1 DEF NextWindow
    <3>4. DOMAIN u = SenderFields /\ u.recovery = w.r /\ u.record_win = w.window
      BY <1>2, <3>3 DEF Opened, SenderFields
    <3>5. SameQuestions(s, u) /\ SameAsking(s, u)
      BY <1>2, <3>3 DEF Opened, SenderFields, SameQuestions, SameAsking
    <3>6. SameBuf(s, u) /\ SameWriting(s, u) /\ SameMessages(s, u)
      BY <1>2, <3>3 DEF Opened, SenderFields, SameBuf, SameWriting, SameMessages
    <3> QED
      BY <3>2, <3>4, <3>5, <3>6 DEF WindowOK
  <2> QED
    BY <2>1, <2>2
<1>4. s2 = [u EXCEPT !.written_len = 0]
  BY <1>1
<1>5. /\ DOMAIN s2 = SenderFields /\ s2.written_len = 0
      /\ s2.data_buffer = s.data_buffer /\ s2.current = s.current /\ s2.written = s.written
      /\ s2.messages = s.messages
  BY <1>3, <1>4 DEF SenderFields, SameWriting, SameMessages
<1>6. SameQuestions(s, s2)
  BY <1>3, <1>4 DEF SenderFields, SameQuestions
<1>7. SameAsking(s, s2) /\ SameBuf(s, s2) /\ SameWindow(u, s2)
  BY <1>3, <1>4 DEF SenderFields, SameAsking, SameBuf, SameWindow
<1>8. BufOK(s2.buf) /\ KeepsSent(s, s2)
  BY <1>7, BufFrame DEF SenderOK
<1>9. QuestionsOK(s2) /\ QStep(s, s2)
  BY <1>6, QuestionsFrame DEF SenderOK
<1>10. AskingOK(s2) /\ WindowOK(s2)
  BY <1>3, <1>7, AskingFrame, WindowFrame DEF SenderOK
<1>11. WritingOK("mmsg", t, s) /\ s.messages \in Seq(App)
  BY DEF SenderOK
<1>12. WritingOK("fill", t, s2)
  <2>1. Taken("mmsg", s) = 0 /\ Taken("fill", s2) = 0
    BY <1>5 DEF Taken
  <2> QED
    BY <1>5, <1>11, <2>1 DEF WritingOK, InLoop
<1> QED
  BY <1>5, <1>8, <1>9, <1>10, <1>11, <1>12 DEF SenderOK

LEMMA LeftOfOne ==
  ASSUME NEW v \in Seq(Vector), Len(v) = 1
  PROVE  Left(v) = v[1].left
<1>1. 1 <= Len(v) /\ ~(2 <= Len(v)) /\ 1 \in 1 .. Len(v)
  OBVIOUS
<1>2. v[1].left \in Nat
  BY <1>1, LeftIsNat
<1>3. Left(v) = v[1].left + 0
  BY <1>1, Zenon DEF Left
<1> QED
  BY <1>2, <1>3

LEMMA LeftOfTwo ==
  ASSUME NEW v \in Seq(Vector), Len(v) = 2
  PROVE  Left(v) = v[1].left + v[2].left
<1>1. 1 <= Len(v) /\ 2 <= Len(v)
  OBVIOUS
<1> QED
  BY <1>1, Zenon DEF Left

LEMMA TakeFromVector ==
  ASSUME NEW d \in Seq(Vector), Len(d) \in 1 .. 2, NEW c \in 1 .. Len(d),
         NEW m \in Nat, m <= d[c].left, NEW d2, d2 = [d EXCEPT ![c].left = @ - m]
  PROVE  /\ d2 \in Seq(Vector) /\ Len(d2) = Len(d)
         /\ Left(d2) = Left(d) - m
<1>1. /\ Left(d) \in Nat
      /\ \A i \in 1 .. Len(d) : d[i] \in Vector /\ d[i].left \in Nat
  BY LeftIsNat
<1>2. PICK x : x = [d[c] EXCEPT !.left = @ - m]
  OBVIOUS
<1>3. d[c] \in Vector /\ d[c].left - m \in Nat /\ d[c].left \in Nat
  BY <1>1
<1>4. x \in Vector /\ x.left = d[c].left - m
  BY <1>2, <1>3 DEF Vector
<1>5. d2 = [d EXCEPT ![c] = x]
  BY <1>2
<1>6. d2 \in Seq(Vector) /\ Len(d2) = Len(d) /\ d2[c] = x
  BY <1>4, <1>5
<1>7. \A i \in 1 .. Len(d) : i # c => d2[i] = d[i]
  BY <1>5
<1>8. CASE Len(d) = 1
  <2>1. c = 1 /\ 1 \in 1 .. Len(d)
    BY <1>8
  <2>2. Left(d) = d[1].left /\ Left(d2) = d2[1].left
    BY <1>6, <1>8, LeftOfOne
  <2> QED
    BY <1>4, <1>6, <2>1, <2>2
<1>9. CASE Len(d) = 2
  <2>1. Left(d) = d[1].left + d[2].left /\ Left(d2) = d2[1].left + d2[2].left
    BY <1>6, <1>9, LeftOfTwo
  <2>2. 1 \in 1 .. Len(d) /\ 2 \in 1 .. Len(d) /\ c \in {1, 2}
    BY <1>9
  <2>3. d[1].left \in Nat /\ d[2].left \in Nat
    BY <1>1, <2>2
  <2>4. CASE c = 1
    <3>1. d2[1].left = d[1].left - m /\ d2[2].left = d[2].left
      BY <1>4, <1>6, <1>7, <2>2, <2>4
    <3> QED
      BY <1>6, <2>1, <2>3, <3>1
  <2>5. CASE c = 2
    <3>1. d2[2].left = d[2].left - m /\ d2[1].left = d[1].left
      BY <1>4, <1>6, <1>7, <2>2, <2>5
    <3> QED
      BY <1>6, <2>1, <2>3, <3>1
  <2> QED
    BY <2>2, <2>4, <2>5
<1> QED
  BY <1>8, <1>9

LEMMA OffLenIsNat ==
  ASSUME NEW s, NEW d \in Vector
  PROVE  OffLen(s, d) \in Nat
<1>1. PICK x \in Int : x = d.len - d.left
  BY DEF Vector
<1>2. PICK B \in Nat \ {0} : B = SEND_BUFFER_SIZE
  BY SizesAssumption
<1>3. x % B \in 0 .. B - 1
  BY Z3
<1>4. B - (x % B) \in Nat
  BY <1>3
<1> QED
  BY <1>1, <1>2, <1>4 DEF OffLen

(* A turn of the loop that fills the send buffer, whatever comes next.     *)
Wrote2(t, s, w, s1) ==
  /\ DOMAIN s1 = SenderFields
  /\ SameQuestions(s, s1) /\ SameAsking(s, s1) /\ SameWindow(s, s1) /\ SameMessages(s, s1)
  /\ s1.sent_dic = s.sent_dic
  /\ s1.buf = w.b
  /\ s1.written = s.written /\ s1.current = s.current
  /\ s1.written_len = s.written_len + w.n
  /\ s1.data_buffer \in Seq(Vector) /\ Len(s1.data_buffer) = Len(s.data_buffer)
  /\ s1.written + s1.written_len + Left(s1.data_buffer) <= t[1].nbytes - t[1].nwritten
  /\ s1.written + s.written_len + Left(s1.data_buffer) <= t[1].nbytes - t[1].nwritten

LEMMA WroteOK ==
  ASSUME NEW t, NEW s, SenderOK("fill", t, s),
         NEW w, w = nwrite(s, s.data_buffer[s.current]), NEW s1, s1 = Wrote(s, w)
  PROVE  /\ Wrote2(t, s, w, s1)
         /\ BufOK(w.b) /\ Grows(s.buf, w.b)
         /\ w.n \in Int /\ w.n >= -1
         /\ w.n > 0 => w.b.data # <<>>
         /\ s.buf.data # <<>> => w.b.data # <<>>
<1>1. WritingOK("fill", t, s) /\ DOMAIN s = SenderFields /\ BufOK(s.buf)
  BY DEF SenderOK
<1>2. s.record_win \in Int
  BY DEF SenderOK, WindowOK
<1>3. /\ s.data_buffer \in Seq(Vector) /\ Len(s.data_buffer) \in 1 .. 2
      /\ s.current \in 1 .. Len(s.data_buffer)
      /\ s.written \in Nat /\ s.written_len \in Int /\ s.written_len >= 0
      /\ t \in Seq(Operation) /\ t # <<>>
  BY <1>1 DEF WritingOK, InLoop
<1>4. s.written + s.written_len + Left(s.data_buffer) <= t[1].nbytes - t[1].nwritten
  BY <1>1 DEF WritingOK, InLoop, Taken
<1>5. PICK v \in Vector : v = s.data_buffer[s.current] /\ v.left \in Nat
  BY <1>3, LeftIsNat
<1>6. w = write(s.buf, v.left, s.record_win, OffLen(s, v))
  BY <1>5 DEF nwrite
<1>7. WriteOK(s.buf, v.left, w)
  <2>1. OffLen(s, v) \in Nat
    BY OffLenIsNat
  <2> QED
    BY <1>1, <1>2, <1>5, <1>6, <2>1, WriteIsOK
<1>8. /\ BufOK(w.b) /\ Grows(s.buf, w.b)
      /\ w.n \in Int /\ w.n >= -1 /\ w.n <= v.left
      /\ w.n > 0 => w.b.data # <<>>
      /\ s.buf.data # <<>> => w.b.data # <<>>
  BY <1>7 DEF WriteOK
<1>9. PICK m \in Nat : m = Max({0, w.n}) /\ m <= v.left /\ w.n <= m
  <2>1. 0 \in Int
    OBVIOUS
  <2>2. Max({0, w.n}) \in {0, w.n} /\ Max({0, w.n}) >= 0 /\ Max({0, w.n}) >= w.n
    BY <1>8, <2>1, MaxOfTwo
  <2> QED
    BY <1>5, <1>8, <2>2
<1>10. PICK d2 : d2 = [s.data_buffer EXCEPT ![s.current].left = @ - m]
  OBVIOUS
<1>11. d2 \in Seq(Vector) /\ Len(d2) = Len(s.data_buffer) /\ Left(d2) = Left(s.data_buffer) - m
  <2>1. PICK d \in Seq(Vector) : d = s.data_buffer /\ Len(d) \in 1 .. 2
    BY <1>3
  <2>2. PICK c \in 1 .. Len(d) : c = s.current
    BY <1>3, <2>1
  <2>3. m <= d[c].left
    BY <1>5, <1>9, <2>1, <2>2
  <2>4. d2 = [d EXCEPT ![c].left = @ - m]
    BY <1>10, <2>1, <2>2
  <2>5. d2 \in Seq(Vector) /\ Len(d2) = Len(d) /\ Left(d2) = Left(d) - m
    BY <2>1, <2>3, <2>4, TakeFromVector
  <2> QED
    BY <2>1, <2>5
<1>12. s1 = [s EXCEPT !.buf = w.b, !.written_len = @ + w.n, !.data_buffer = d2]
  BY <1>1, <1>9, <1>10 DEF Wrote, SenderFields
<1>13. /\ DOMAIN s1 = SenderFields /\ s1.buf = w.b /\ s1.written = s.written
       /\ s1.current = s.current /\ s1.written_len = s.written_len + w.n
       /\ s1.data_buffer = d2 /\ s1.sent_dic = s.sent_dic
  BY <1>1, <1>12 DEF SenderFields
<1>14. SameQuestions(s, s1)
  BY <1>1, <1>12 DEF SenderFields, SameQuestions
<1>15. SameAsking(s, s1) /\ SameWindow(s, s1) /\ SameMessages(s, s1)
  BY <1>1, <1>12 DEF SenderFields, SameAsking, SameWindow, SameMessages
<1>16. /\ s1.written + s1.written_len + Left(s1.data_buffer) <= t[1].nbytes - t[1].nwritten
       /\ s1.written + s.written_len + Left(s1.data_buffer) <= t[1].nbytes - t[1].nwritten
  <2>1. t[1] \in Operation
    BY <1>3
  <2>2. t[1].nbytes \in Nat /\ t[1].nwritten \in Nat
    BY <2>1, OperationFacts
  <2>3. Left(s.data_buffer) \in Nat
    BY <1>3, LeftIsNat
  <2>4. PICK a \in Nat : a = Left(s.data_buffer)
    BY <2>3
  <2>5. PICK n \in Int : n = w.n /\ n <= m
    BY <1>8, <1>9
  <2>6. PICK k \in Int : k = t[1].nbytes - t[1].nwritten
    BY <2>2
  <2>7. PICK x \in Int : x = s.written /\ x + s.written_len + a <= k
    BY <1>3, <1>4, <2>4, <2>6
  <2>8. x + (s.written_len + n) + (a - m) <= k /\ x + s.written_len + (a - m) <= k
    <3>1. PICK y \in Int : y = s.written_len
      BY <1>3
    <3>2. x + (y + n) + (a - m) <= k /\ x + y + (a - m) <= k
      BY <2>5, <2>7, <3>1
    <3> QED
      BY <3>1, <3>2
  <2> QED
    BY <1>11, <1>13, <2>4, <2>5, <2>6, <2>7, <2>8
<1> QED
  BY <1>8, <1>11, <1>13, <1>14, <1>15, <1>16 DEF Wrote2

LEMMA FillRest ==
  ASSUME NEW t, NEW s, SenderOK("fill", t, s), NEW w, NEW s1, Wrote2(t, s, w, s1),
         BufOK(w.b), Grows(s.buf, w.b),
         NEW s3, DOMAIN s3 = SenderFields,
         SameQuestions(s1, s3), SameAsking(s1, s3), SameWindow(s1, s3), SameMessages(s1, s3),
         SameBuf(s1, s3),
         NEW l, WritingOK(l, t, s3)
  PROVE  SenderOK(l, t, s3) /\ QStep(s, s3) /\ KeepsSent(s, s3)
<1>1. SameQuestions(s, s3)
  BY DEF Wrote2, SameQuestions
<1>2. SameAsking(s, s3) /\ SameWindow(s, s3) /\ s3.messages = s.messages
  BY DEF Wrote2, SameAsking, SameWindow, SameMessages
<1>3. s3.buf = w.b /\ s3.sent_dic = s.sent_dic
  BY DEF Wrote2, SameBuf
<1>4. BufOK(s3.buf) /\ KeepsSent(s, s3)
  BY <1>3 DEF KeepsSent
<1>5. QuestionsOK(s3) /\ QStep(s, s3)
  BY <1>1, QuestionsFrame DEF SenderOK
<1>6. AskingOK(s3) /\ WindowOK(s3)
  BY <1>2, AskingFrame, WindowFrame DEF SenderOK
<1>7. s3.messages \in Seq(App)
  BY <1>2 DEF SenderOK
<1> QED
  BY <1>4, <1>5, <1>6, <1>7 DEF SenderOK

LEMMA FillNothing ==
  ASSUME NEW t, NEW s, SenderOK("fill", t, s),
         NEW w, w = nwrite(s, s.data_buffer[s.current]), NEW s1, s1 = Wrote(s, w),
         s.written_len = 0, w.n <= 0,
         NEW s3, s3 = [s1 EXCEPT !.written = Max({0, @ + w.n})]
  PROVE  SenderOK("elicit", t, s3) /\ QStep(s, s3) /\ KeepsSent(s, s3)
         /\ s1.messages \in Seq(App)
<1>1. /\ Wrote2(t, s, w, s1) /\ BufOK(w.b) /\ Grows(s.buf, w.b)
      /\ w.n \in Int /\ w.n >= -1
  BY WroteOK
<1>2. WritingOK("fill", t, s)
  BY DEF SenderOK
<1>3. /\ t \in Seq(Operation) /\ t # <<>> /\ s.written \in Nat
      /\ Len(s.data_buffer) \in 1 .. 2 /\ s.current \in 1 .. Len(s.data_buffer)
  BY <1>2 DEF WritingOK, InLoop
<1>4. /\ DOMAIN s1 = SenderFields /\ s1.written = s.written /\ s1.current = s.current
      /\ s1.written_len = s.written_len + w.n
      /\ s1.data_buffer \in Seq(Vector) /\ Len(s1.data_buffer) = Len(s.data_buffer)
      /\ s1.written + s.written_len + Left(s1.data_buffer) <= t[1].nbytes - t[1].nwritten
  BY <1>1 DEF Wrote2
<1>5. PICK n \in Nat : n = Max({0, s1.written + w.n}) /\ n <= s.written
  <2>1. PICK x \in Int : x = s1.written + w.n /\ x <= s.written
    BY <1>1, <1>3, <1>4
  <2>2. 0 \in Int
    OBVIOUS
  <2>3. Max({0, x}) \in {0, x} /\ Max({0, x}) >= 0
    BY <2>2, MaxOfTwo
  <2> QED
    BY <1>3, <2>1, <2>3
<1>6. /\ DOMAIN s3 = SenderFields /\ s3.written = n /\ s3.current = s1.current
      /\ s3.written_len = s1.written_len /\ s3.data_buffer = s1.data_buffer
  BY <1>4, <1>5 DEF SenderFields
<1>7. SameQuestions(s1, s3)
  BY <1>4 DEF SenderFields, SameQuestions
<1>8. SameAsking(s1, s3) /\ SameWindow(s1, s3) /\ SameMessages(s1, s3) /\ SameBuf(s1, s3)
  BY <1>4 DEF SenderFields, SameAsking, SameWindow, SameMessages, SameBuf
<1>9. n + Left(s1.data_buffer) <= t[1].nbytes - t[1].nwritten
  <2>1. t[1] \in Operation
    BY <1>3
  <2>2. t[1].nbytes \in Nat /\ t[1].nwritten \in Nat
    BY <2>1, OperationFacts
  <2>3. Left(s1.data_buffer) \in Nat
    BY <1>4, LeftIsNat
  <2> QED
    BY <1>3, <1>4, <1>5, <2>2, <2>3
<1>10. WritingOK("elicit", t, s3)
  <2>1. s3.written \in Nat /\ s3.written_len \in Int /\ s3.data_buffer \in Seq(Vector)
    BY <1>1, <1>4, <1>5, <1>6
  <2>2. Len(s3.data_buffer) \in 1 .. 2 /\ s3.current \in 1 .. Len(s3.data_buffer)
    BY <1>3, <1>4, <1>6
  <2>3. s3.written + Taken("elicit", s3) + Left(s3.data_buffer) <= t[1].nbytes - t[1].nwritten
    <3>1. Taken("elicit", s3) = 0 /\ n + 0 = n
      BY DEF Taken
    <3> QED
      BY <1>6, <1>9, <3>1
  <2> QED
    BY <1>3, <2>1, <2>2, <2>3 DEF WritingOK, InLoop
<1>11. s1.messages \in Seq(App)
  BY <1>1 DEF Wrote2, SameMessages, SenderOK
<1> QED
  BY <1>1, <1>6, <1>7, <1>8, <1>10, <1>11, FillRest

(* The next label after a write that took something, and the io vector     *)
(* that comes next.                                                        *)
LEMMA FillSome ==
  ASSUME NEW t, NEW s, SenderOK("fill", t, s),
         NEW w, w = nwrite(s, s.data_buffer[s.current]), NEW s1, s1 = Wrote(s, w),
         s.written_len # 0 \/ w.n > 0,
         NEW s3, s3 = s1 \/ (s3 = [s1 EXCEPT !.current = @ + 1] /\ s1.current < Len(s1.data_buffer)),
         NEW l \in {"emit", "spins", "fill"}
  PROVE  SenderOK(l, t, s3) /\ QStep(s, s3) /\ KeepsSent(s, s3)
<1>1. /\ Wrote2(t, s, w, s1) /\ BufOK(w.b) /\ Grows(s.buf, w.b)
      /\ w.n \in Int /\ w.n >= -1
      /\ w.n > 0 => w.b.data # <<>>
      /\ s.buf.data # <<>> => w.b.data # <<>>
  BY WroteOK
<1>2. WritingOK("fill", t, s)
  BY DEF SenderOK
<1>3. /\ t \in Seq(Operation) /\ t # <<>> /\ s.written \in Nat
      /\ s.written_len \in Int /\ s.written_len >= 0
      /\ Len(s.data_buffer) \in 1 .. 2 /\ s.current \in 1 .. Len(s.data_buffer)
      /\ s.written_len # 0 => s.buf.data # <<>>
  BY <1>2 DEF WritingOK, InLoop
<1>4. /\ DOMAIN s1 = SenderFields /\ s1.written = s.written /\ s1.current = s.current
      /\ s1.written_len = s.written_len + w.n /\ s1.buf = w.b
      /\ s1.data_buffer \in Seq(Vector) /\ Len(s1.data_buffer) = Len(s.data_buffer)
      /\ s1.written + s1.written_len + Left(s1.data_buffer) <= t[1].nbytes - t[1].nwritten
  BY <1>1 DEF Wrote2
<1>5. /\ DOMAIN s3 = SenderFields /\ s3.written = s1.written /\ s3.buf = s1.buf
      /\ s3.written_len = s1.written_len /\ s3.data_buffer = s1.data_buffer
      /\ s3.current = s1.current \/ (s3.current = s1.current + 1 /\ s1.current < Len(s1.data_buffer))
  BY <1>4 DEF SenderFields
<1>6. SameQuestions(s1, s3)
  BY <1>4 DEF SenderFields, SameQuestions
<1>7. SameAsking(s1, s3) /\ SameWindow(s1, s3) /\ SameMessages(s1, s3) /\ SameBuf(s1, s3)
  BY <1>4 DEF SenderFields, SameAsking, SameWindow, SameMessages, SameBuf
<1>8. s3.written_len \in Int /\ s3.written_len >= 0
  BY <1>1, <1>3, <1>4, <1>5
<1>9. s3.buf.data # <<>>
  BY <1>1, <1>3, <1>4, <1>5
<1>10. s3.current \in 1 .. Len(s3.data_buffer)
  BY <1>3, <1>4, <1>5
<1>11. WritingOK(l, t, s3)
  <2>1. /\ s3.written \in Nat /\ s3.data_buffer \in Seq(Vector)
        /\ Len(s3.data_buffer) \in 1 .. 2
    BY <1>3, <1>4, <1>5
  <2>2. l \in InLoop => s3.written + Taken(l, s3) + Left(s3.data_buffer) <= t[1].nbytes - t[1].nwritten
    BY <1>4, <1>5 DEF Taken, InLoop
  <2> QED
    BY <1>3, <1>8, <1>9, <1>10, <2>1, <2>2 DEF WritingOK, InLoop
<1> QED
  BY <1>1, <1>5, <1>6, <1>7, <1>11, FillRest

-----------------------------------------------------------------------------
(* The call to sendmmsg.                                                   *)

LEMMA SubSeqOK ==
  ASSUME NEW S, NEW q \in Seq(S), NEW m \in Nat, m >= 1, NEW n \in Nat, n <= Len(q)
  PROVE  SubSeq(q, m, n) \in Seq(S)
OBVIOUS

LEMMA EmittedOK ==
  ASSUME NEW out \in Seq(Segment)
  PROVE  /\ [i \in DOMAIN out |-> Application(out[i])] \in Seq(App)
         /\ [i \in DOMAIN out |-> out[i].off] \in Seq(Nat)
<1>1. DOMAIN out = 1 .. Len(out) /\ Len(out) \in Nat
  OBVIOUS
<1>2. \A i \in 1 .. Len(out) : out[i] \in Segment
  OBVIOUS
<1>3. \A x \in Segment : x.off \in Nat
  BY DEF Segment
<1>4. \A x \in Segment : Application(x) \in App
  BY <1>3 DEF Application, App
<1>5. \A i \in 1 .. Len(out) : Application(out[i]) \in App /\ out[i].off \in Nat
  BY <1>2, <1>3, <1>4, Zenon
<1>6. [i \in 1 .. Len(out) |-> Application(out[i])] \in Seq(App)
  BY <1>1, <1>5
<1>7. [i \in 1 .. Len(out) |-> out[i].off] \in Seq(Nat)
  BY <1>1, <1>5
<1> QED
  BY <1>1, <1>6, <1>7

(* An offset that is sent is in the buffer.                                *)
LEMMA EmitOK ==
  ASSUME NEW t, NEW s, SenderOK("emit", t, s),
         NEW em, em = emit(s.buf), NEW offs, offs = OffsetsOf(em.out),
         NEW pr, NEW s2, s2 = EmitRound(s, em, offs, pr), NEW l \in {"elicit", "spins"}
  PROVE  /\ SenderOK(l, t, s2) /\ QStep(s, s2)
         /\ \A dic : SentOK(s, dic) => SentOK(s2, dic)
<1>1. DOMAIN s = SenderFields /\ BufOK(s.buf) /\ s.messages \in Seq(App)
  BY DEF SenderOK
<1>2. WritingOK("emit", t, s)
  BY DEF SenderOK
<1>3. /\ t \in Seq(Operation) /\ t # <<>> /\ s.written \in Nat
      /\ s.written_len \in Int /\ s.written_len >= 0 /\ s.buf.data # <<>>
      /\ s.data_buffer \in Seq(Vector)
      /\ Len(s.data_buffer) \in 1 .. 2 /\ s.current \in 1 .. Len(s.data_buffer)
      /\ s.written + Taken("emit", s) + Left(s.data_buffer) <= t[1].nbytes - t[1].nwritten
  BY <1>2 DEF WritingOK, InLoop
<1>4. /\ BufOK(em.b) /\ em.b.data = s.buf.data /\ em.b.off = s.buf.off
      /\ em.out \in Seq(Segment) /\ OffsetsOf(em.out) \subseteq Offsets(s.buf)
  BY <1>1, <1>3, EmitIsOK
<1>5. PICK out \in Seq(Segment) : out = em.out
  BY <1>4
<1>6. offs \subseteq Offsets(s.buf) /\ Offsets(em.b) = Offsets(s.buf)
  BY <1>4 DEF Offsets
<1>7. PICK m \in Seq(App) : m = [i \in DOMAIN out |-> Application(out[i])]
                                \o SubSeq(s.messages, Len(out) + 1,
                                          Min({Len(s.messages), Len(s.buf.data)}))
  <2>1. PICK h \in Seq(App) : h = [i \in DOMAIN out |-> Application(out[i])]
    BY EmittedOK
  <2>2. Len(s.messages) \in Int /\ Len(s.messages) \in Nat
    BY <1>1
  <2>3. Len(s.buf.data) \in Int /\ Len(s.buf.data) \in Nat
    BY <1>1 DEF BufOK
  <2>4. PICK n \in Nat : n = Min({Len(s.messages), Len(s.buf.data)}) /\ n <= Len(s.messages)
    <3>1. PICK a \in Int : a = Len(s.messages) /\ a \in Nat
      BY <2>2
    <3>2. PICK b \in Int : b = Len(s.buf.data) /\ b \in Nat
      BY <2>3
    <3>3. Min({a, b}) \in {a, b} /\ Min({a, b}) <= a
      BY MinOfTwo
    <3> QED
      BY <3>1, <3>2, <3>3
  <2>5. Len(out) + 1 \in Nat /\ Len(out) + 1 >= 1
    OBVIOUS
  <2>6. PICK x \in Seq(App) : x = SubSeq(s.messages, Len(out) + 1, n)
    BY <1>1, <2>4, <2>5, SubSeqOK
  <2>7. h \o x \in Seq(App)
    OBVIOUS
  <2> QED
    BY <2>1, <2>4, <2>6, <2>7, Zenon
<1>8. PICK q \in Seq(Nat) : q = [i \in DOMAIN out |-> out[i].off]
  BY EmittedOK
<1>9. /\ DOMAIN s2 = SenderFields /\ s2.buf = em.b /\ s2.messages = m
      /\ s2.record_send = s.record_send \o q /\ s2.ack_point = s.ack_point
      /\ s2.written = s.written + s.written_len
  BY <1>1, <1>5, <1>7, <1>8 DEF EmitRound, SenderFields
<1>10. /\ s2.data_buffer = s.data_buffer /\ s2.current = s.current
       /\ s2.written_len = s.written_len /\ SameWindow(s, s2)
  BY <1>1 DEF EmitRound, SenderFields, SameWindow
<1>11. SameQuestions(s, s2)
  BY <1>1 DEF EmitRound, SenderFields, SameQuestions
<1>12. s2.sent_dic = [o \in DOMAIN s.sent_dic \cup offs |->
                        IF o \notin offs THEN s.sent_dic[o]
                        ELSE IF o \in DOMAIN s.sent_dic THEN (s.sent_dic[o] - 1) % U64 ELSE pr[o]]
  BY <1>1 DEF EmitRound, SenderFields
<1>13. QuestionsOK(s2) /\ QStep(s, s2)
  BY <1>11, QuestionsFrame DEF SenderOK
<1>14. WindowOK(s2)
  BY <1>10, WindowFrame DEF SenderOK
<1>15. AskingOK(s2)
  <2>1. s.record_send \in Seq(Nat) /\ s.ack_point \in 0 .. Len(s.record_send)
    BY DEF SenderOK, AskingOK
  <2>2. PICK r \in Seq(Nat) : r = s.record_send
    BY <2>1
  <2>3. r \o q \in Seq(Nat) /\ Len(r \o q) = Len(r) + Len(q) /\ Len(q) \in Nat /\ Len(r) \in Nat
    OBVIOUS
  <2>4. s.ack_point \in 0 .. Len(r \o q)
    BY <2>1, <2>2, <2>3
  <2> QED
    BY <1>9, <2>2, <2>3, <2>4 DEF AskingOK
<1>16. WritingOK(l, t, s2)
  <2>1. Taken("emit", s) = s.written_len /\ Taken(l, s2) = 0
    BY DEF Taken
  <2>2. Left(s.data_buffer) \in Nat
    BY <1>3, LeftIsNat
  <2>3. PICK a \in Nat : a = s.written + s.written_len
    <3>1. \A x \in Nat, y \in Int : y >= 0 => x + y \in Nat
      OBVIOUS
    <3> QED
      BY <1>3, <3>1
  <2>4. a + 0 + Left(s.data_buffer) <= t[1].nbytes - t[1].nwritten
    BY <1>3, <2>1, <2>2, <2>3
  <2>5. s2.written + Taken(l, s2) + Left(s2.data_buffer) <= t[1].nbytes - t[1].nwritten
    BY <1>9, <1>10, <2>1, <2>3, <2>4, Zenon
  <2>6. s2.written \in Nat
    BY <1>9, <2>3, Zenon
  <2> QED
    BY <1>3, <1>10, <2>5, <2>6 DEF WritingOK, InLoop
<1>17. ASSUME NEW dic, SentOK(s, dic) PROVE SentOK(s2, dic)
  <2>1. DOMAIN s2.sent_dic = DOMAIN s.sent_dic \cup offs
    BY <1>12
  <2>2. \A o \in DOMAIN s.sent_dic : o \notin offs => s2.sent_dic[o] = s.sent_dic[o]
    BY <1>12
  <2>3. \A o \in Offsets(s.buf) : o \in Nat /\ o < s.buf.off
    <3>1. \A o \in Offsets(s.buf) : o < s.buf.off
      BY <1>1 DEF BufOK
    <3>2. Offsets(s.buf) \subseteq Nat
      <4>1. s.buf.data \in Seq(Segment)
        BY <1>1 DEF BufOK
      <4>2. \A i \in DOMAIN s.buf.data : s.buf.data[i] \in Segment
        BY <4>1
      <4>3. \A x \in Segment : x.off \in Nat
        BY DEF Segment
      <4> QED
        BY <4>2, <4>3, Zenon DEF Offsets
    <3> QED
      BY <3>1, <3>2
  <2>4. \A o \in DOMAIN s2.sent_dic : o \in Nat /\ o < s2.buf.off
    BY <1>4, <1>6, <1>9, <1>17, <2>1, <2>3 DEF SentOK
  <2>5. \A o \in DOMAIN s2.sent_dic :
          InBounds(o) /\ o \notin Offsets(s2.buf) => o \in dic \/ s2.sent_dic[o] = 0
    BY <1>6, <1>9, <1>17, <2>1, <2>2 DEF SentOK
  <2> QED
    BY <2>4, <2>5 DEF SentOK
<1>18. SenderOK(l, t, s2)
  BY <1>4, <1>9, <1>13, <1>14, <1>15, <1>16 DEF SenderOK
<1> QED
  BY <1>13, <1>17, <1>18

-----------------------------------------------------------------------------
(* Asking what arrived.                                                    *)

LEMMA WritingMoves ==
  ASSUME NEW l \in {"mmsg", "elicit", "recv"}, NEW l2 \in {"mmsg", "elicit", "recv"},
         NEW t, NEW s, WritingOK(l, t, s), NEW s2, SameWriting(s, s2)
  PROVE  WritingOK(l2, t, s2)
<1>1. Taken(l, s) = 0 /\ Taken(l2, s2) = 0
  BY DEF Taken
<1> QED
  BY <1>1 DEF WritingOK, SameWriting, InLoop

(* Between one question and the next nothing changes but the questions.    *)
LEMMA AskingRest ==
  ASSUME NEW t, NEW s, SenderOK("elicit", t, s),
         NEW s2, DOMAIN s2 = SenderFields, QuestionsOK(s2), AskingOK(s2),
         SameWindow(s, s2), SameBuf(s, s2), SameWriting(s, s2), SameMessages(s, s2)
  PROVE  SenderOK("recv", t, s2) /\ KeepsSent(s, s2)
<1>1. BufOK(s2.buf) /\ KeepsSent(s, s2)
  BY BufFrame DEF SenderOK
<1>2. WindowOK(s2)
  BY WindowFrame DEF SenderOK
<1>3. WritingOK("recv", t, s2)
  BY WritingMoves DEF SenderOK
<1>4. s2.messages \in Seq(App)
  BY DEF SenderOK, SameMessages
<1> QED
  BY <1>1, <1>2, <1>3, <1>4 DEF SenderOK

LEMMA AskOK ==
  ASSUME NEW t, NEW s, SenderOK("elicit", t, s), Unasked(s),
         NEW offs, offs = NextOffsets(s),
         NEW s2, s2 = Ask(s, s.next_pkt_num, offs)
  PROVE  /\ SenderOK("recv", t, s2) /\ QStep(s, s2) /\ KeepsSent(s, s2)
         /\ offs \in Seq(Nat) /\ s.next_pkt_num \in Nat /\ s2.next_pkt_num = s.next_pkt_num + 1
         /\ Asked(s2, s.next_pkt_num) = Range(offs)
<1>1. DOMAIN s = SenderFields /\ AskingOK(s) /\ QuestionsOK(s)
  BY DEF SenderOK
<1>2. s.record_send \in Seq(Nat) /\ s.ack_point \in 0 .. Len(s.record_send)
  BY <1>1 DEF AskingOK
<1>3. PICK q \in Seq(Nat) : q = s.record_send
  BY <1>2
<1>4. PICK a \in 0 .. Len(q) : a = s.ack_point
  BY <1>2, <1>3
<1>5. a # Len(q) /\ Len(q) \in Nat /\ a \in Nat
  BY <1>3, <1>4 DEF Unasked
<1>6. PICK n \in Nat : n = Min({Len(q), a + ElicitMax}) /\ n <= Len(q) /\ n > a
  <2>1. ElicitMax \in Nat \ {0}
    BY BoundsAssumption
  <2>2. PICK m \in Int : m = a + ElicitMax /\ m > a
    BY <1>5, <2>1
  <2>3. Len(q) \in Int /\ Len(q) > a
    BY <1>5
  <2>4. Min({Len(q), m}) \in {Len(q), m} /\ Min({Len(q), m}) <= Len(q)
    BY <2>3, MinOfTwo
  <2> QED
    BY <1>5, <2>2, <2>3, <2>4
<1>7. offs = SubSeq(q, a + 1, n)
  BY <1>3, <1>4, <1>6 DEF NextOffsets
<1>8. offs \in Seq(Nat) /\ Len(offs) = n - a
  <2>1. a + 1 \in Nat /\ a + 1 >= 1
    BY <1>5
  <2>2. offs \in Seq(Nat)
    BY <1>6, <1>7, <2>1, SubSeqOK
  <2>3. Len(offs) = n - a
    BY <1>5, <1>6, <1>7, <2>1
  <2> QED
    BY <2>2, <2>3
<1>9. PICK next : next = s.next_pkt_num
  OBVIOUS
<1>10. /\ DOMAIN s2 = SenderFields /\ s2.next_pkt_num = next + 1
       /\ s2.ack_point = a + Len(offs) /\ s2.record_send = q
       /\ s2.ack_set = s.ack_set \cup {next}
       /\ s2.keyToValues = Put(s.keyToValues, next, <<next>>)
       /\ s2.valueToKeys = Put(s.valueToKeys, next, next)
       /\ s2.retransmission_ack = Put(s.retransmission_ack, next, offs)
       /\ s2.timeout_ack = s.timeout_ack
  BY <1>1, <1>3, <1>4, <1>9 DEF Ask, SenderFields
<1>11. SameWindow(s, s2) /\ SameBuf(s, s2)
  BY <1>1 DEF Ask, SenderFields, SameWindow, SameBuf
<1>12. SameWriting(s, s2) /\ SameMessages(s, s2)
  BY <1>1 DEF Ask, SenderFields, SameWriting, SameMessages
<1>13. AskingOK(s2)
  BY <1>5, <1>6, <1>8, <1>10 DEF AskingOK
<1>14. Accounted(next, s.ack_set, s.keyToValues, s.valueToKeys, s.retransmission_ack, s.timeout_ack)
  BY <1>1, <1>9 DEF QuestionsOK
<1>15. QuestionsOK(s2)
  <2>1. Accounted(next + 1, s.ack_set \cup {next}, Put(s.keyToValues, next, <<next>>),
                  Put(s.valueToKeys, next, next), Put(s.retransmission_ack, next, offs),
                  s.timeout_ack)
    BY <1>8, <1>14, AskAccounted
  <2> QED
    BY <1>10, <2>1 DEF QuestionsOK
<1>16. next \in Nat /\ next \notin DOMAIN s.timeout_ack
  BY <1>14, NumbersAreOld
<1>17. Asked(s2, next) = Range(offs)
  BY <1>10 DEF Asked, Put
<1>18. QStep(s, s2)
  <2>1. ASSUME NEW pn \in Nat, pn < next, Awaited(s2, pn)
        PROVE  Awaited(s, pn) /\ Asked(s2, pn) = Asked(s, pn)
    <3>1. pn # next
      BY <1>16, <2>1
    <3>2. /\ DOMAIN s2.retransmission_ack = DOMAIN s.retransmission_ack \cup {next}
          /\ pn \in DOMAIN s.retransmission_ack =>
               s2.retransmission_ack[pn] = s.retransmission_ack[pn]
      BY <1>10, <3>1 DEF Put
    <3> QED
      BY <1>10, <2>1, <3>1, <3>2 DEF Awaited, Asked
  <2>2. next + 1 \in Nat /\ next <= next + 1
    BY <1>16
  <2> QED
    BY <1>9, <1>10, <1>16, <2>1, <2>2 DEF QStep
<1> QED
  BY <1>8, <1>9, <1>10, <1>11, <1>12, <1>13, <1>15, <1>16, <1>17, <1>18, AskingRest

LEMMA RepeatOK ==
  ASSUME NEW t, NEW s, SenderOK("elicit", t, s),
         NEW pn \in DOMAIN s.retransmission_ack,
         NEW s2, s2 = Repeat(s, pn, s.next_pkt_num, s.valueToKeys[pn])
  PROVE  /\ SenderOK("recv", t, s2) /\ QStep(s, s2) /\ KeepsSent(s, s2)
         /\ s.retransmission_ack[pn] \in Seq(Nat)
         /\ s.next_pkt_num \in Nat /\ s2.next_pkt_num = s.next_pkt_num + 1
         /\ Asked(s2, s.next_pkt_num) = Range(s.retransmission_ack[pn])
<1>1. DOMAIN s = SenderFields /\ AskingOK(s) /\ QuestionsOK(s)
  BY DEF SenderOK
<1>2. PICK next : next = s.next_pkt_num
  OBVIOUS
<1>3. PICK ini : ini = s.valueToKeys[pn]
  OBVIOUS
<1>4. PICK K : K = s.keyToValues
  OBVIOUS
<1>5. PICK T : T = s.retransmission_ack
  OBVIOUS
<1>6. PICK O : O = s.timeout_ack
  OBVIOUS
<1>7. /\ DOMAIN s2 = SenderFields /\ s2.next_pkt_num = next + 1
      /\ s2.ack_set = s.ack_set
      /\ s2.keyToValues = [K EXCEPT ![ini] = Append(@, next)]
      /\ s2.valueToKeys = Put(s.valueToKeys, next, ini)
  BY <1>1, <1>2, <1>3, <1>4 DEF Repeat, SenderFields
<1>8. /\ s2.retransmission_ack = Put(Without(T, {pn}), next, T[pn])
      /\ s2.timeout_ack = IF pn \in DOMAIN O THEN O ELSE Put(O, pn, T[pn])
  BY <1>1, <1>2, <1>3, <1>5, <1>6 DEF Repeat, SenderFields
<1>9. SameAsking(s, s2) /\ SameWindow(s, s2) /\ SameBuf(s, s2)
  BY <1>1 DEF Repeat, SenderFields, SameAsking, SameWindow, SameBuf
<1>10. SameWriting(s, s2) /\ SameMessages(s, s2)
  BY <1>1 DEF Repeat, SenderFields, SameWriting, SameMessages
<1>11. AskingOK(s2)
  BY <1>1, <1>9, AskingFrame
<1>12. Accounted(next, s.ack_set, K, s.valueToKeys, T, O)
  BY <1>1, <1>2, <1>4, <1>5, <1>6 DEF QuestionsOK
<1>13. pn \in DOMAIN T
  BY <1>5
<1>14. QuestionsOK(s2)
  <2>1. Accounted(next + 1, s.ack_set, s2.keyToValues, s2.valueToKeys, s2.retransmission_ack,
                  s2.timeout_ack)
    BY <1>3, <1>7, <1>8, <1>12, <1>13, RepeatAccounted
  <2> QED
    BY <1>7, <2>1 DEF QuestionsOK
<1>15. next \in Nat /\ next \notin DOMAIN T /\ next \notin DOMAIN O
  BY <1>12, NumbersAreOld
<1>16. T[pn] \in Seq(Nat) /\ pn \notin DOMAIN O
  BY <1>12, <1>13 DEF Accounted
<1>17. Asked(s2, next) = Range(T[pn])
  <2>1. next \in DOMAIN s2.retransmission_ack /\ s2.retransmission_ack[next] = T[pn]
    BY <1>8 DEF Put
  <2> QED
    BY <2>1 DEF Asked
<1>18. QStep(s, s2)
  <2>1. ASSUME NEW x \in Nat, x < next, Awaited(s2, x)
        PROVE  Awaited(s, x) /\ Asked(s2, x) = Asked(s, x)
    <3>1. x # next
      BY <1>15, <2>1
    <3>2. /\ DOMAIN s2.retransmission_ack = (DOMAIN T \ {pn}) \cup {next}
          /\ x \in DOMAIN T \ {pn} => s2.retransmission_ack[x] = T[x]
      BY <1>8, <3>1 DEF Put, Without
    <3>3. /\ DOMAIN s2.timeout_ack = DOMAIN O \cup {pn} /\ s2.timeout_ack[pn] = T[pn]
          /\ x \in DOMAIN O => s2.timeout_ack[x] = O[x]
      BY <1>8, <1>16 DEF Put
    <3>4. CASE x = pn
      BY <1>5, <1>13, <3>1, <3>2, <3>3, <3>4 DEF Awaited, Asked
    <3>5. CASE x # pn
      BY <1>5, <1>6, <2>1, <3>1, <3>2, <3>3, <3>5 DEF Awaited, Asked
    <3> QED
      BY <3>4, <3>5
  <2>2. next + 1 \in Nat /\ next <= next + 1
    BY <1>15
  <2> QED
    BY <1>2, <1>7, <1>15, <2>1, <2>2 DEF QStep
<1> QED
  BY <1>2, <1>5, <1>7, <1>9, <1>10, <1>11, <1>14, <1>15, <1>16, <1>17, <1>18, AskingRest

-----------------------------------------------------------------------------
(* The end of a round: what is left of the operation is never negative.    *)

LEMMA EndRoundOK ==
  ASSUME NEW t, NEW s, SenderOK("elicit", t, s),
         NEW op, op = [Head(t) EXCEPT !.nwritten = @ + s.written],
         NEW t2, t2 = IF op.nwritten = op.nbytes THEN Tail(t) ELSE <<op>> \o Tail(t),
         NEW s2, s2 = [s EXCEPT !.data_buffer = <<>>, !.current = 1, !.messages = <<>>,
                                !.written = 0]
  PROVE  SenderOK("idle", t2, s2) /\ QStep(s, s2) /\ KeepsSent(s, s2)
<1>1. DOMAIN s = SenderFields /\ WritingOK("elicit", t, s)
  BY DEF SenderOK
<1>2. /\ t \in Seq(Operation) /\ t # <<>> /\ s.written \in Nat /\ s.written_len \in Int
      /\ s.data_buffer \in Seq(Vector)
      /\ s.written + Taken("elicit", s) + Left(s.data_buffer) <= t[1].nbytes - t[1].nwritten
  BY <1>1 DEF WritingOK, InLoop
<1>3. t[1] \in Operation /\ Head(t) = t[1] /\ Tail(t) \in Seq(Operation)
  BY <1>2
<1>4. PICK o \in Operation : o = t[1]
  BY <1>3
<1>5. /\ o.payload \in Nat \cup {Notification} /\ o.nwritten \in Nat /\ o.nbytes \in Nat
      /\ o.nbytes = IF o.payload = Notification THEN Preamble ELSE Preamble + o.payload
  BY OperationFacts
<1>6. DOMAIN o = {"payload", "nwritten", "nbytes"}
  BY DEF Operation
<1>7. s.written <= o.nbytes - o.nwritten
  <2>1. Taken("elicit", s) = 0
    BY DEF Taken
  <2>2. Left(s.data_buffer) \in Nat
    BY <1>2, LeftIsNat
  <2> QED
    BY <1>2, <1>4, <1>5, <2>1, <2>2
<1>8. PICK n \in Nat : n = o.nwritten + s.written /\ n <= o.nbytes
  BY <1>2, <1>5, <1>7
<1>9. op = [payload |-> o.payload, nwritten |-> n, nbytes |-> o.nbytes]
  BY <1>3, <1>4, <1>6, <1>8 DEF Operation
<1>10. n # o.nbytes => op \in Operation
  BY <1>5, <1>8, <1>9 DEF Operation
<1>11. t2 \in Seq(Operation)
  <2>1. CASE n = o.nbytes
    BY <1>3, <1>9, <2>1
  <2>2. CASE n # o.nbytes
    <3>1. t2 = <<op>> \o Tail(t)
      BY <1>9, <2>2
    <3>2. <<op>> \in Seq(Operation)
      BY <1>10, <2>2
    <3>3. PICK q \in Seq(Operation) : q = Tail(t)
      BY <1>3
    <3>4. PICK p \in Seq(Operation) : p = <<op>>
      BY <3>2
    <3>5. p \o q \in Seq(Operation)
      OBVIOUS
    <3> QED
      BY <3>1, <3>3, <3>4, <3>5, Zenon
  <2> QED
    BY <2>1, <2>2
<1>12. /\ DOMAIN s2 = SenderFields
       /\ s2.data_buffer = <<>> /\ s2.current = 1 /\ s2.written = 0
       /\ s2.written_len = s.written_len /\ s2.messages = <<>>
  BY <1>1 DEF SenderFields
<1>13. SameQuestions(s, s2)
  BY <1>1 DEF SenderFields, SameQuestions
<1>14. SameAsking(s, s2) /\ SameWindow(s, s2) /\ SameBuf(s, s2)
  BY <1>1 DEF SenderFields, SameAsking, SameWindow, SameBuf
<1>15. BufOK(s2.buf) /\ KeepsSent(s, s2)
  BY <1>14, BufFrame DEF SenderOK
<1>16. QuestionsOK(s2) /\ QStep(s, s2)
  BY <1>13, QuestionsFrame DEF SenderOK
<1>17. AskingOK(s2) /\ WindowOK(s2)
  BY <1>14, AskingFrame, WindowFrame DEF SenderOK
<1>18. WritingOK("idle", t2, s2)
  <2>1. s2.data_buffer \in Seq(Vector) /\ s2.written \in Nat
    BY <1>12
  <2> QED
    BY <1>2, <1>11, <1>12, <2>1 DEF WritingOK, InLoop
<1>19. s2.messages \in Seq(App)
  BY <1>12
<1> QED
  BY <1>12, <1>15, <1>16, <1>17, <1>18, <1>19 DEF SenderOK

LEMMA SenderMoves ==
  ASSUME NEW l \in {"mmsg", "elicit", "recv"}, NEW l2 \in {"mmsg", "elicit", "recv"},
         NEW t, NEW s, SenderOK(l, t, s)
  PROVE  SenderOK(l2, t, s)
<1>1. SameWriting(s, s)
  BY DEF SameWriting
<1>2. WritingOK(l2, t, s)
  BY <1>1, WritingMoves DEF SenderOK
<1> QED
  BY <1>2 DEF SenderOK

-----------------------------------------------------------------------------
(* An ACK: what it lets go of was received, or was sent often enough.      *)

LEMMA StopAckOK ==
  ASSUME NEW l, NEW t, NEW s, SenderOK(l, t, s), NEW s2, s2 = [s EXCEPT !.stop_ack = TRUE]
  PROVE  SenderOK(l, t, s2) /\ QStep(s, s2) /\ KeepsSent(s, s2)
<1>1. DOMAIN s = SenderFields
  BY DEF SenderOK
<1>2. DOMAIN s2 = SenderFields /\ SameQuestions(s, s2)
  BY <1>1 DEF SenderFields, SameQuestions
<1>3. SameAsking(s, s2) /\ SameWindow(s, s2) /\ SameBuf(s, s2)
  BY <1>1 DEF SenderFields, SameAsking, SameWindow, SameBuf
<1>4. SameWriting(s, s2) /\ SameMessages(s, s2)
  BY <1>1 DEF SenderFields, SameWriting, SameMessages
<1>5. BufOK(s2.buf) /\ KeepsSent(s, s2)
  BY <1>3, BufFrame DEF SenderOK
<1>6. QuestionsOK(s2) /\ QStep(s, s2)
  BY <1>2, QuestionsFrame DEF SenderOK
<1>7. AskingOK(s2) /\ WindowOK(s2)
  BY <1>3, AskingFrame, WindowFrame DEF SenderOK
<1>8. WritingOK(l, t, s)
  BY DEF SenderOK
<1>9. Taken(l, s2) = Taken(l, s)
  BY <1>4 DEF Taken, SameWriting
<1>10. WritingOK(l, t, s2)
  BY <1>3, <1>4, <1>8, <1>9 DEF WritingOK, SameWriting, SameBuf
<1>11. s2.messages \in Seq(App)
  BY <1>4 DEF SenderOK, SameMessages
<1> QED
  BY <1>2, <1>5, <1>6, <1>7, <1>10, <1>11 DEF SenderOK

LEMMA AcknowledgedOK ==
  ASSUME NEW l \in {"recv", "idle"}, NEW t, NEW s, SenderOK(l, t, s),
         NEW dic, SentOK(s, dic),
         NEW status, IsReport(status), IsTrue(status, dic),
         NEW pr \in priority_calculation(DOMAIN status),
         NEW ini \in s.ack_set,
         NEW s2, s2 = Acknowledged(s, ini, status, pr)
  PROVE  SenderOK(l, t, s2) /\ QStep(s, s2) /\ SentOK(s2, dic)
<1>1. DOMAIN s = SenderFields /\ BufOK(s.buf) /\ WindowOK(s) /\ QuestionsOK(s)
  BY DEF SenderOK
<1>2. PICK pns : pns = Range(s.keyToValues[ini])
  OBVIOUS
<1>3. PICK kept : kept = Kept(s, status, pr)
  OBVIOUS
<1>4. PICK c : c = recv_and_drop(ack_and_drop(s.buf, DOMAIN status \ kept))
  OBVIOUS
<1>5. PICK r : r = UpdateWindow(s.recovery, status, pr, Cardinality(DOMAIN status))
  OBVIOUS
<1>6. PICK f : f = Forget(s, ini, pns)
  OBVIOUS
<1>7. /\ DOMAIN f = SenderFields /\ f.next_pkt_num = s.next_pkt_num
      /\ f.ack_set = s.ack_set \ {ini} /\ f.keyToValues = Without(s.keyToValues, {ini})
      /\ f.valueToKeys = Without(s.valueToKeys, pns)
      /\ f.retransmission_ack = Without(s.retransmission_ack, pns)
      /\ f.timeout_ack = Without(s.timeout_ack, pns)
  BY <1>1, <1>6 DEF Forget, SenderFields
<1>8. SameAsking(s, f) /\ SameWindow(s, f) /\ SameBuf(s, f)
  BY <1>1, <1>6 DEF Forget, SenderFields, SameAsking, SameWindow, SameBuf
<1>9. SameWriting(s, f) /\ SameMessages(s, f) /\ f.high_priority = s.high_priority
  BY <1>1, <1>6 DEF Forget, SenderFields, SameWriting, SameMessages
<1>10. PICK h : h = f.high_priority + Cardinality({o \in DOMAIN status : status[o] # 0 /\ pr[o] = 3})
  OBVIOUS
<1>11. s2 = [f EXCEPT !.buf = c, !.recovery = r, !.high_priority = h]
  <2>1. f.buf = s.buf /\ f.recovery = s.recovery
    BY <1>8 DEF SameBuf, SameWindow
  <2> QED
    BY <1>2, <1>3, <1>4, <1>5, <1>6, <1>10, <2>1 DEF Acknowledged
<1>12. /\ DOMAIN s2 = SenderFields /\ SameQuestions(f, s2) /\ SameAsking(f, s2)
       /\ s2.buf = c /\ s2.recovery = r /\ s2.record_win = f.record_win
  BY <1>7, <1>11 DEF SenderFields, SameQuestions, SameAsking
<1>13. s2.sent_dic = f.sent_dic /\ SameWriting(f, s2) /\ SameMessages(f, s2)
  BY <1>7, <1>11 DEF SenderFields, SameWriting, SameMessages
<1>14. /\ BufOK(c) /\ c.off = s.buf.off
       /\ Offsets(c) = Offsets(s.buf) \ (DOMAIN status \ kept)
  BY <1>1, <1>4, DropIsOK
<1>15. WindowOK(s2)
  <2>1. RecoveryOK(r)
    BY <1>1, <1>5, UpdateWindowOK DEF WindowOK
  <2> QED
    BY <1>1, <1>8, <1>12, <2>1 DEF WindowOK, SameWindow
<1>16. Accounted(s.next_pkt_num, s.ack_set, s.keyToValues, s.valueToKeys,
                 s.retransmission_ack, s.timeout_ack)
  BY <1>1 DEF QuestionsOK
<1>17. QuestionsOK(f)
  <2>1. Accounted(s.next_pkt_num, s.ack_set \ {ini}, Without(s.keyToValues, {ini}),
                  Without(s.valueToKeys, pns), Without(s.retransmission_ack, pns),
                  Without(s.timeout_ack, pns))
    BY <1>2, <1>16, ForgetAccounted
  <2> QED
    BY <1>7, <2>1 DEF QuestionsOK
<1>18. QuestionsOK(s2)
  BY <1>12, <1>17, QuestionsFrame
<1>19. AskingOK(s2)
  BY <1>8, <1>12 DEF SenderOK, AskingOK, SameAsking
<1>20. WritingOK(l, t, s2)
  <2>1. WritingOK(l, t, s) /\ SameWriting(s, s2)
    BY <1>9, <1>13 DEF SenderOK, SameWriting
  <2>2. Taken(l, s2) = 0 /\ Taken(l, s) = 0
    BY DEF Taken
  <2> QED
    BY <2>1, <2>2 DEF WritingOK, SameWriting
<1>21. s2.messages \in Seq(App)
  BY <1>9, <1>13 DEF SenderOK, SameMessages
<1>22. QStep(s, s2)
  <2>1. s.next_pkt_num \in Nat /\ s2.next_pkt_num = s.next_pkt_num
    BY <1>7, <1>12, <1>16 DEF Accounted, SameQuestions
  <2>2. ASSUME NEW pn \in Nat, Awaited(s2, pn)
        PROVE  Awaited(s, pn) /\ Asked(s2, pn) = Asked(s, pn)
    <3>1. /\ s2.retransmission_ack = Without(s.retransmission_ack, pns)
          /\ s2.timeout_ack = Without(s.timeout_ack, pns)
      BY <1>7, <1>12 DEF SameQuestions
    <3>2. /\ DOMAIN s2.retransmission_ack = DOMAIN s.retransmission_ack \ pns
          /\ \A x \in DOMAIN s.retransmission_ack \ pns :
               s2.retransmission_ack[x] = s.retransmission_ack[x]
      BY <3>1 DEF Without
    <3>3. /\ DOMAIN s2.timeout_ack = DOMAIN s.timeout_ack \ pns
          /\ \A x \in DOMAIN s.timeout_ack \ pns : s2.timeout_ack[x] = s.timeout_ack[x]
      BY <3>1 DEF Without
    <3> QED
      BY <2>2, <3>2, <3>3 DEF Awaited, Asked
  <2>3. s.next_pkt_num <= s2.next_pkt_num
    BY <2>1
  <2> QED
    BY <2>1, <2>2, <2>3 DEF QStep
<1>23. SentOK(s2, dic)
  <2>1. s2.sent_dic = s.sent_dic /\ s2.buf.off = s.buf.off
    BY <1>8, <1>12, <1>13, <1>14 DEF SameBuf
  <2>2. ASSUME NEW o \in DOMAIN s.sent_dic, InBounds(o), o \notin Offsets(c)
        PROVE  o \in dic \/ s.sent_dic[o] = 0
    <3>1. CASE o \notin Offsets(s.buf)
      BY <2>2, <3>1 DEF SentOK
    <3>2. CASE o \in DOMAIN status /\ o \notin kept
      <4>1. pr[o] = 3
        BY <2>2, <3>2 DEF priority_calculation
      <4>2. Weight(pr[o]) # 0
        BY <4>1 DEF Weight
      <4>3. status[o] = 0 \/ s.sent_dic[o] = 0
        BY <1>3, <3>2, <4>2 DEF Kept
      <4> QED
        BY <3>2, <4>3 DEF IsTrue
    <3> QED
      BY <1>14, <2>2, <3>1, <3>2
  <2> QED
    BY <1>12, <2>1, <2>2 DEF SentOK
<1> QED
  BY <1>12, <1>14, <1>15, <1>18, <1>19, <1>20, <1>21, <1>22, <1>23 DEF SenderOK

LEMMA QStepTwice ==
  ASSUME NEW s, NEW u, NEW v, QStep(s, u), QStep(u, v)
  PROVE  QStep(s, v)
<1>1. /\ s.next_pkt_num \in Nat /\ u.next_pkt_num \in Nat /\ v.next_pkt_num \in Nat
      /\ s.next_pkt_num <= u.next_pkt_num /\ u.next_pkt_num <= v.next_pkt_num
  BY DEF QStep
<1>2. s.next_pkt_num <= v.next_pkt_num
  BY <1>1
<1>3. ASSUME NEW pn \in Nat, pn < s.next_pkt_num, Awaited(v, pn)
      PROVE  Awaited(s, pn) /\ Asked(v, pn) = Asked(s, pn)
  <2>1. pn < u.next_pkt_num
    BY <1>1, <1>3
  <2>2. Awaited(u, pn) /\ Asked(v, pn) = Asked(u, pn)
    BY <1>3, <2>1, Zenon DEF QStep
  <2>3. Awaited(s, pn) /\ Asked(u, pn) = Asked(s, pn)
    BY <1>3, <2>2, Zenon DEF QStep
  <2> QED
    BY <2>2, <2>3
<1> QED
  BY <1>1, <1>2, <1>3, Zenon DEF QStep

LEMMA QStepItself ==
  ASSUME NEW s, QuestionsOK(s)
  PROVE  QStep(s, s)
<1>1. SameQuestions(s, s)
  BY DEF SameQuestions
<1> QED
  BY <1>1, QuestionsFrame

LEMMA ReplyFacts ==
  ASSUME NEW p \in Reply
  PROVE  p.pn \in Nat /\ IsReport(p.status) /\ p.type = "ACK"
<1>1. p.status \in Report /\ p.pn \in Nat /\ p.type = "ACK"
  BY DEF Reply
<1> QED
  BY <1>1, Zenon DEF Report

LEMMA RecvAckOK ==
  ASSUME NEW l \in {"recv", "idle"}, NEW t, NEW s, SenderOK(l, t, s),
         NEW dic, SentOK(s, dic),
         NEW p \in Reply, IsTrue(p.status, dic),
         NEW pr \in priority_calculation(DOMAIN p.status),
         NEW s2, s2 = recv_ack(s, p, pr)
  PROVE  SenderOK(l, t, s2) /\ QStep(s, s2) /\ SentOK(s2, dic)
<1>1. PICK u : u = process_ack(s, p, pr)
  OBVIOUS
<1>2. IsReport(p.status)
  BY ReplyFacts
<1>3. SenderOK(l, t, u) /\ QStep(s, u) /\ SentOK(u, dic)
  <2>1. CASE s.ack_set = {}
    <3>1. u = [s EXCEPT !.stop_ack = TRUE]
      BY <1>1, <2>1 DEF process_ack
    <3>2. SenderOK(l, t, u) /\ QStep(s, u) /\ KeepsSent(s, u)
      BY <3>1, StopAckOK
    <3> QED
      BY <3>2, SentKept DEF SenderOK
  <2>2. CASE s.ack_set # {} /\ ~Awaited(s, p.pn)
    <3>1. u = s
      BY <1>1, <2>2 DEF process_ack
    <3> QED
      BY <3>1, QStepItself DEF SenderOK
  <2>3. CASE s.ack_set # {} /\ Awaited(s, p.pn)
    <3>1. PICK ini : ini = s.valueToKeys[p.pn]
      OBVIOUS
    <3>2. ini \in s.ack_set
      <4>1. p.pn \in DOMAIN s.valueToKeys
        BY <2>3 DEF SenderOK, QuestionsOK, Accounted, Awaited
      <4> QED
        BY <3>1, <4>1 DEF SenderOK, QuestionsOK, Accounted
    <3>3. u = Acknowledged(s, ini, p.status, pr)
      BY <1>1, <2>3, <3>1 DEF process_ack
    <3> QED
      BY <1>2, <3>2, <3>3, AcknowledgedOK
  <2> QED
    BY <2>1, <2>2, <2>3
<1>4. CASE u.ack_set = {}
  <2>1. s2 = [u EXCEPT !.stop_ack = TRUE]
    BY <1>1, <1>4 DEF recv_ack, StopIfAnswered
  <2>2. SenderOK(l, t, s2) /\ QStep(u, s2) /\ KeepsSent(u, s2)
    BY <1>3, <2>1, StopAckOK
  <2>3. SentOK(s2, dic)
    BY <1>3, <2>2, SentKept DEF SenderOK
  <2> QED
    BY <1>3, <2>2, <2>3, QStepTwice
<1>5. CASE u.ack_set # {}
  <2>1. s2 = u
    BY <1>1, <1>5 DEF recv_ack, StopIfAnswered
  <2> QED
    BY <1>3, <2>1
<1> QED
  BY <1>4, <1>5

-----------------------------------------------------------------------------
(* The receiving half.                                                     *)

LEMMA RangeIsFinite ==
  ASSUME NEW q \in Seq(Nat)
  PROVE  Range(q) \subseteq Nat /\ IsFiniteSet(Range(q))
<1>1. DOMAIN q = 1 .. Len(q) /\ Len(q) \in Nat /\ \A i \in DOMAIN q : q[i] \in Nat
  OBVIOUS
<1>2. Range(q) \subseteq Nat
  BY <1>1, Zenon DEF Range
<1>3. IsFiniteSet(DOMAIN q)
  <2>1. 1 \in Int /\ Len(q) \in Int
    BY <1>1
  <2>2. IsFiniteSet(1 .. Len(q))
    BY <2>1, FS_Interval
  <2> QED
    BY <1>1, <2>2
<1>4. [i \in DOMAIN q |-> q[i]] \in Surjection(DOMAIN q, Range(q))
  BY Zenon DEF Surjection, Range
<1>5. IsFiniteSet(Range(q))
  BY <1>3, <1>4, FS_Surjection
<1> QED
  BY <1>2, <1>5

LEMMA ReportFacts ==
  ASSUME NEW h \in Report
  PROVE  /\ DOMAIN h \subseteq Nat /\ IsFiniteSet(DOMAIN h)
         /\ \A o \in DOMAIN h : h[o] \in 0 .. 1
<1>1. IsReport(h)
  BY Zenon DEF Report
<1>2. PICK D \in SUBSET Nat : h \in [D -> 0 .. 1]
  BY DEF Report
<1>3. DOMAIN h = D /\ \A o \in D : h[o] \in 0 .. 1
  BY <1>2
<1> QED
  BY <1>1, <1>3 DEF IsReport

LEMMA IsAReport ==
  ASSUME NEW D, D \subseteq Nat, IsFiniteSet(D), NEW h \in [D -> 0 .. 1]
  PROVE  h \in Report
<1>1. DOMAIN h = D
  OBVIOUS
<1>2. IsReport(h)
  BY <1>1 DEF IsReport
<1>3. h \in UNION {[E -> 0 .. 1] : E \in SUBSET Nat}
  OBVIOUS
<1> QED
  BY <1>2, <1>3 DEF Report

(* What check_loss reports is true, and says something of every offset.    *)
LEMMA CheckLossOK ==
  ASSUME NEW r, ReceiverOK(r), NEW offs \in Seq(Nat), NEW h, h = check_loss(r, offs)
  PROVE  h \in Report /\ Range(offs) \subseteq DOMAIN h /\ IsTrue(h, r.recv_dic)
<1>1. PICK g \in Report : g = r.recv_hashmap
  BY DEF ReceiverOK
<1>2. /\ DOMAIN g \subseteq Nat /\ IsFiniteSet(DOMAIN g)
      /\ \A o \in DOMAIN g : g[o] \in 0 .. 1
  BY ReportFacts
<1>3. Range(offs) \subseteq Nat /\ IsFiniteSet(Range(offs))
  BY RangeIsFinite
<1>4. PICK D : D = DOMAIN g \cup Range(offs)
  OBVIOUS
<1>5. D \subseteq Nat /\ IsFiniteSet(D)
  BY <1>2, <1>3, <1>4, FS_Union
<1>6. h = [o \in D |-> IF o \in DOMAIN g THEN g[o]
                       ELSE IF o \in r.recv_dic THEN 0 ELSE 1]
  BY <1>1, <1>4 DEF check_loss
<1>7. h \in [D -> 0 .. 1]
  BY <1>2, <1>6
<1>8. h \in Report
  BY <1>5, <1>7, IsAReport
<1>9. IsTrue(g, r.recv_dic)
  BY <1>1 DEF ReceiverOK
<1>10. IsTrue(h, r.recv_dic)
  BY <1>6, <1>9 DEF IsTrue
<1> QED
  BY <1>4, <1>6, <1>8, <1>10

LEMMA EmptyReport == <<>> \in Report /\ \A dic : IsTrue(<<>>, dic)
<1>1. DOMAIN <<>> = {} /\ <<>> \in [{} -> 0 .. 1]
  OBVIOUS
<1>2. IsFiniteSet({}) /\ {} \subseteq Nat
  BY FS_EmptySet
<1> QED
  BY <1>1, <1>2, IsAReport DEF IsTrue

LEMMA QuestionFacts ==
  ASSUME NEW p \in Question
  PROVE  p.pn \in Nat /\ p.offs \in Seq(Nat) /\ p.type = "ElicitAck"
BY DEF Question

(* An ElicitAck is answered with an ACK, or with what is left of a         *)
(* handshake.                                                              *)
AnswerOK(r, p, sd) ==
  /\ ReceiverOK(sd.r) /\ sd.r.recv_dic = r.recv_dic
  /\ \/ sd.out = Handshake
     \/ /\ sd.out \in Reply /\ sd.out.pn = p.pn
        /\ Range(p.offs) \subseteq DOMAIN sd.out.status
        /\ IsTrue(sd.out.status, r.recv_dic)

LEMMA ElicitedOK ==
  ASSUME NEW e, NEW r, ReceiverOK(r), NEW p \in Question,
         NEW sd, sd = send_data(e, recv_slice(e, r, p))
  PROVE  AnswerOK(r, p, sd)
<1>1. p.pn \in Nat /\ p.offs \in Seq(Nat) /\ p.type = "ElicitAck"
  BY QuestionFacts
<1>2. PICK h : h = check_loss(r, p.offs)
  OBVIOUS
<1>3. h \in Report /\ Range(p.offs) \subseteq DOMAIN h /\ IsTrue(h, r.recv_dic)
  BY <1>1, <1>2, CheckLossOK
<1>4. PICK u : u = recv_slice(e, r, p)
  OBVIOUS
<1>5. u = [r EXCEPT !.recv_flag = TRUE, !.send_num = p.pn, !.recv_hashmap = h]
  BY <1>1, <1>2, <1>4 DEF recv_slice
<1>6. /\ DOMAIN u = DOMAIN r /\ u.recv_flag = TRUE /\ u.send_num = p.pn /\ u.recv_hashmap = h
      /\ u.recv_dic = r.recv_dic
  BY <1>5 DEF ReceiverOK
<1>7. ReceiverOK(u)
  BY <1>3, <1>6 DEF ReceiverOK
<1>8. PICK ty : ty = write_pkt_type(e, u)
  OBVIOUS
<1>9. ty = "Handshake" \/ ty = "ACK"
  BY <1>6, <1>8 DEF write_pkt_type
<1>10. sd = SendType(e, u, ty)
  BY <1>4, <1>8 DEF send_data
<1>11. CASE ty = "Handshake"
  <2>1. sd = [r |-> [u EXCEPT !.handshake_confirmed = @ \/ e = "client"], out |-> Handshake]
    BY <1>10, <1>11 DEF SendType
  <2>2. PICK v : v = sd.r
    OBVIOUS
  <2>3. DOMAIN v = DOMAIN u /\ v.recv_dic = u.recv_dic /\ v.recv_hashmap = u.recv_hashmap
    BY <1>7, <2>1, <2>2 DEF ReceiverOK
  <2>4. ReceiverOK(v)
    BY <1>7, <2>3 DEF ReceiverOK
  <2>5. sd.out = Handshake
    BY <2>1
  <2> QED
    BY <1>6, <2>2, <2>3, <2>4, <2>5 DEF AnswerOK
<1>12. CASE ty = "ACK"
  <2>0. PICK nil : nil = <<>>
    OBVIOUS
  <2>1. sd = [r |-> [u EXCEPT !.recv_flag = FALSE, !.recv_hashmap = nil],
              out |-> ACK(u.send_num, u.recv_hashmap)]
    BY <1>10, <1>12, <2>0 DEF SendType
  <2>2. PICK v : v = [u EXCEPT !.recv_flag = FALSE, !.recv_hashmap = nil]
    OBVIOUS
  <2>3. DOMAIN v = DOMAIN u /\ v.recv_dic = u.recv_dic /\ v.recv_hashmap = nil
    <3>1. DOMAIN u = {"rttZero", "handshake_confirmed", "recv_flag", "send_num", "recv_dic",
                      "recv_hashmap"}
      BY <1>7 DEF ReceiverOK
    <3> QED
      BY <2>2, <3>1
  <2>4. ReceiverOK(v)
    BY <1>7, <2>0, <2>3, EmptyReport DEF ReceiverOK
  <2>5. sd.out = [type |-> "ACK", pn |-> p.pn, status |-> h]
    BY <1>6, <2>1 DEF ACK
  <2>6. sd.out \in Reply /\ sd.out.pn = p.pn /\ sd.out.status = h
    BY <1>1, <1>3, <2>5 DEF Reply
  <2>7. sd.r = v
    BY <2>1, <2>2
  <2> QED
    BY <1>3, <1>6, <2>3, <2>4, <2>6, <2>7 DEF AnswerOK
<1> QED
  BY <1>9, <1>11, <1>12

LEMMA ReceivedOK ==
  ASSUME NEW e, NEW r, ReceiverOK(r), NEW p \in {Handshake} \cup App,
         NEW r2, r2 = recv_slice(e, r, p)
  PROVE  /\ ReceiverOK(r2) /\ r.recv_dic \subseteq r2.recv_dic
         /\ p = Handshake => r2.recv_dic = r.recv_dic
<1>1. CASE p = Handshake
  <2>1. p.type = "Handshake"
    BY <1>1 DEF Handshake
  <2>2. \/ r2 = [r EXCEPT !.rttZero = FALSE]
        \/ r2 = [r EXCEPT !.handshake_confirmed = FALSE]
    BY <2>1 DEF recv_slice
  <2>3. DOMAIN r2 = DOMAIN r /\ r2.recv_dic = r.recv_dic /\ r2.recv_hashmap = r.recv_hashmap
    BY <2>2 DEF ReceiverOK
  <2>4. ReceiverOK(r2)
    BY <2>3 DEF ReceiverOK
  <2> QED
    BY <2>3, <2>4
<1>2. CASE p \in App
  <2>1. p.type = "Application" /\ p.off \in Nat
    BY <1>2 DEF App
  <2>2. r2 = [r EXCEPT !.recv_dic = @ \cup {p.off}]
    BY <2>1 DEF recv_slice
  <2>3. /\ DOMAIN r2 = DOMAIN r /\ r2.recv_dic = r.recv_dic \cup {p.off}
        /\ r2.recv_hashmap = r.recv_hashmap
    BY <2>2 DEF ReceiverOK
  <2>4. IsTrue(r2.recv_hashmap, r2.recv_dic)
    BY <2>3 DEF ReceiverOK, IsTrue
  <2>5. ReceiverOK(r2)
    BY <2>1, <2>3, <2>4 DEF ReceiverOK
  <2>6. p # Handshake
    BY <2>1 DEF Handshake
  <2> QED
    BY <2>3, <2>5, <2>6
<1> QED
  BY <1>1, <1>2

-----------------------------------------------------------------------------
(* The network.                                                            *)

LEMMA TypeOfDatagram ==
  ASSUME NEW p \in Datagram
  PROVE  /\ p.type = "ACK" => p \in Reply
         /\ p.type = "ElicitAck" => p \in Question
         /\ p.type \notin {"ACK", "ElicitAck"} => p \in {Handshake} \cup App
         /\ p.type \in Types
<1>1. \A x \in App : x.type = "Application"
  BY DEF App
<1>2. \A x \in Question : x.type = "ElicitAck"
  BY DEF Question
<1>3. \A x \in Reply : x.type = "ACK"
  BY DEF Reply
<1>4. Handshake.type = "Handshake"
  BY DEF Handshake
<1> QED
  BY <1>1, <1>2, <1>3, <1>4 DEF Datagram, Types

(* What is right about a datagram stays right.                             *)
LEMMA DatagramKept ==
  ASSUME NEW p \in Datagram, NEW s, NEW t, NEW dic, DatagramOK(p, s, t, dic),
         NEW s2, QStep(s, s2), NEW t2, QStep(t, t2), NEW more, dic \subseteq more
  PROVE  DatagramOK(p, s2, t2, more)
<1>1. ASSUME p.type = "ElicitAck" PROVE QuestionOK(p, t2)
  <2>1. p.pn \in Nat
    BY <1>1, TypeOfDatagram, QuestionFacts
  <2>2. p.pn < t.next_pkt_num /\ (Awaited(t, p.pn) => Asked(t, p.pn) \subseteq Range(p.offs))
    BY <1>1 DEF DatagramOK, QuestionOK
  <2>3. p.pn < t2.next_pkt_num
    BY <2>1, <2>2 DEF QStep
  <2>4. Awaited(t2, p.pn) => Awaited(t, p.pn) /\ Asked(t2, p.pn) = Asked(t, p.pn)
    BY <2>1, <2>2, Zenon DEF QStep
  <2> QED
    BY <2>2, <2>3, <2>4, Zenon DEF QuestionOK
<1>2. ASSUME p.type = "ACK" PROVE ReplyOK(p, s2, more)
  <2>1. p.pn \in Nat
    BY <1>2, TypeOfDatagram, ReplyFacts
  <2>2. /\ p.pn < s.next_pkt_num
        /\ Awaited(s, p.pn) => Asked(s, p.pn) \subseteq DOMAIN p.status
        /\ IsTrue(p.status, dic)
    BY <1>2 DEF DatagramOK, ReplyOK
  <2>3. p.pn < s2.next_pkt_num
    BY <2>1, <2>2 DEF QStep
  <2>4. Awaited(s2, p.pn) => Awaited(s, p.pn) /\ Asked(s2, p.pn) = Asked(s, p.pn)
    BY <2>1, <2>2, Zenon DEF QStep
  <2>5. IsTrue(p.status, more)
    BY <2>2 DEF IsTrue
  <2> QED
    BY <2>2, <2>3, <2>4, <2>5, Zenon DEF ReplyOK
<1> QED
  BY <1>1, <1>2 DEF DatagramOK

LEMMA QueueKept ==
  ASSUME NEW q, NEW s, NEW t, NEW dic, QueueOK(q, s, t, dic),
         NEW s2, QStep(s, s2), NEW t2, QStep(t, t2), NEW more, dic \subseteq more
  PROVE  QueueOK(q, s2, t2, more)
<1>1. q \in Seq(Datagram) /\ \A i \in DOMAIN q : q[i] \in Datagram /\ DatagramOK(q[i], s, t, dic)
  BY DEF QueueOK
<1>2. \A i \in DOMAIN q : DatagramOK(q[i], s2, t2, more)
  BY <1>1, DatagramKept
<1> QED
  BY <1>1, <1>2 DEF QueueOK

(* All the elements of a queue have a property if they are in the set D.   *)
LEMMA QueueInSet ==
  ASSUME NEW s, NEW t, NEW dic, NEW q, NEW D, D = {p \in Datagram : DatagramOK(p, s, t, dic)}
  PROVE  QueueOK(q, s, t, dic) <=> q \in Seq(D)
<1>1. ASSUME QueueOK(q, s, t, dic) PROVE q \in Seq(D)
  <2>1. q \in Seq(Datagram) /\ \A i \in DOMAIN q : DatagramOK(q[i], s, t, dic)
    BY <1>1 DEF QueueOK
  <2>2. \A i \in 1 .. Len(q) : q[i] \in D
    BY <2>1
  <2> QED
    BY <2>1, <2>2
<1>2. ASSUME q \in Seq(D) PROVE QueueOK(q, s, t, dic)
  <2>1. \A i \in DOMAIN q : q[i] \in D
    BY <1>2
  <2>2. q \in Seq(Datagram)
    BY <1>2
  <2> QED
    BY <2>1, <2>2 DEF QueueOK
<1> QED
  BY <1>1, <1>2

LEMMA HandshakesInSet ==
  ASSUME NEW q
  PROVE  Handshakes(q) <=> q \in Seq({Handshake})
<1>1. Handshake \in Datagram
  BY DEF Datagram
<1>2. ASSUME Handshakes(q) PROVE q \in Seq({Handshake})
  <2>1. q \in Seq(Datagram) /\ \A i \in DOMAIN q : q[i] = Handshake
    BY <1>2 DEF Handshakes
  <2>2. \A i \in 1 .. Len(q) : q[i] \in {Handshake}
    BY <2>1
  <2> QED
    BY <2>1, <2>2
<1>3. ASSUME q \in Seq({Handshake}) PROVE Handshakes(q)
  <2>1. \A i \in DOMAIN q : q[i] \in {Handshake}
    BY <1>3
  <2>2. q \in Seq(Datagram)
    BY <1>1, <1>3
  <2> QED
    BY <2>1, <2>2 DEF Handshakes
<1> QED
  BY <1>2, <1>3

LEMMA LongerQueue ==
  ASSUME NEW D, NEW q \in Seq(D), NEW m \in Seq(D)
  PROVE  q \o m \in Seq(D)
OBVIOUS

LEMMA ShortestQueue ==
  ASSUME NEW D, NEW x \in D
  PROVE  <<x>> \in Seq(D)
OBVIOUS

(* What the network makes of a queue.                                      *)
LEMMA ChangedQueue ==
  ASSUME NEW D, NEW q \in Seq(D), NEW i \in DOMAIN q
  PROVE  /\ RemoveAt(q, i) \in Seq(D)
         /\ Append(q, q[i]) \in Seq(D)
         /\ <<q[i]>> \o RemoveAt(q, i) \in Seq(D)
<1>1. i \in Nat /\ i >= 1 /\ i <= Len(q) /\ Len(q) \in Nat /\ q[i] \in D
  OBVIOUS
<1>2. PICK a \in Nat : a = i - 1 /\ a <= Len(q)
  BY <1>1
<1>3. PICK b \in Nat : b = i + 1 /\ b >= 1
  BY <1>1
<1>4. 1 \in Nat /\ 1 >= 1 /\ Len(q) <= Len(q)
  BY <1>1
<1>5. PICK u \in Seq(D) : u = SubSeq(q, 1, i - 1)
  BY <1>2, <1>4, SubSeqOK
<1>6. PICK v \in Seq(D) : v = SubSeq(q, i + 1, Len(q))
  BY <1>1, <1>3, <1>4, SubSeqOK
<1>7. PICK w \in Seq(D) : w = u \o v
  BY LongerQueue, Zenon
<1>8. RemoveAt(q, i) = w
  BY <1>5, <1>6, <1>7 DEF RemoveAt
<1>9. Append(q, q[i]) \in Seq(D)
  BY <1>1
<1>10. PICK x \in Seq(D) : x = <<q[i]>>
  BY <1>1, ShortestQueue, Zenon
<1>11. x \o w \in Seq(D)
  OBVIOUS
<1> QED
  BY <1>8, <1>9, <1>10, <1>11

LEMMA ShorterQueue ==
  ASSUME NEW D, NEW q \in Seq(D), q # <<>>
  PROVE  Head(q) \in D /\ Tail(q) \in Seq(D)
OBVIOUS

(* Messages can be added to a queue, and the first one read.               *)
LEMMA QueueAppended ==
  ASSUME NEW s, NEW t, NEW dic, NEW q, QueueOK(q, s, t, dic), NEW m, QueueOK(m, s, t, dic)
  PROVE  QueueOK(q \o m, s, t, dic)
<1>1. PICK D : D = {p \in Datagram : DatagramOK(p, s, t, dic)}
  OBVIOUS
<1>2. q \in Seq(D) /\ m \in Seq(D)
  BY <1>1, QueueInSet
<1>3. q \o m \in Seq(D)
  BY <1>2, LongerQueue
<1> QED
  BY <1>1, <1>3, QueueInSet

LEMMA QueueRead ==
  ASSUME NEW s, NEW t, NEW dic, NEW q, QueueOK(q, s, t, dic), q # <<>>
  PROVE  /\ Head(q) \in Datagram /\ DatagramOK(Head(q), s, t, dic)
         /\ QueueOK(Tail(q), s, t, dic)
<1>1. PICK D : D = {p \in Datagram : DatagramOK(p, s, t, dic)}
  OBVIOUS
<1>2. q \in Seq(D)
  BY <1>1, QueueInSet
<1>3. Head(q) \in D /\ Tail(q) \in Seq(D)
  BY <1>2, ShorterQueue
<1> QED
  BY <1>1, <1>3, QueueInSet

LEMMA QueueOfOne ==
  ASSUME NEW s, NEW t, NEW dic, NEW p \in Datagram, DatagramOK(p, s, t, dic)
  PROVE  QueueOK(<<p>>, s, t, dic)
<1>1. PICK D : D = {x \in Datagram : DatagramOK(x, s, t, dic)}
  OBVIOUS
<1>2. p \in D
  BY <1>1
<1>3. <<p>> \in Seq(D)
  BY <1>2
<1> QED
  BY <1>1, <1>3, QueueInSet

LEMMA QueueOfApp ==
  ASSUME NEW s, NEW t, NEW dic, NEW m \in Seq(App)
  PROVE  QueueOK(m, s, t, dic)
<1>1. \A x \in App : x \in Datagram /\ DatagramOK(x, s, t, dic)
  <2>1. \A x \in App : x.type = "Application"
    BY DEF App
  <2> QED
    BY <2>1 DEF Datagram, DatagramOK
<1>2. m \in Seq(Datagram)
  BY <1>1
<1>3. \A i \in DOMAIN m : m[i] \in App
  OBVIOUS
<1> QED
  BY <1>1, <1>2, <1>3 DEF QueueOK

LEMMA HandshakeOK ==
  ASSUME NEW s, NEW t, NEW dic
  PROVE  Handshake \in Datagram /\ DatagramOK(Handshake, s, t, dic)
BY DEF Handshake, Datagram, DatagramOK

-----------------------------------------------------------------------------
(* The steps.                                                              *)

LEMMA PeerFacts ==
  ASSUME NEW e \in Ends
  PROVE  /\ Peer(e) \in Ends /\ Peer(e) # e /\ Peer(Peer(e)) = e
         /\ \A x \in Ends : x = e \/ x = Peer(e)
         /\ e # "listener" /\ Peer(e) # "listener"
BY DEF Ends, Peer

LEMMA EndFacts ==
  ASSUME IInv, NEW e \in Ends
  PROVE  /\ SenderOK(pc[e], todo[e], snd[e]) /\ ReceiverOK(rcv[e])
         /\ SentOK(snd[e], rcv[Peer(e)].recv_dic)
         /\ QueueOK(net[e], snd[e], snd[Peer(e)], rcv[Peer(e)].recv_dic)
         /\ QuestionsOK(snd[e]) /\ QStep(snd[e], snd[e])
<1>1. /\ SenderOK(pc[e], todo[e], snd[e]) /\ ReceiverOK(rcv[e])
      /\ SentOK(snd[e], rcv[Peer(e)].recv_dic)
  BY Zenon DEF IInv
<1>2. QueueOK(net[e], snd[e], snd[Peer(e)], rcv[Peer(e)].recv_dic)
  BY Zenon DEF IInv, NetOK
<1>3. QuestionsOK(snd[e])
  BY <1>1 DEF SenderOK
<1> QED
  BY <1>1, <1>2, <1>3, QStepItself

LEMMA DomainFacts ==
  ASSUME IInv
  PROVE  /\ pc \in [Ends -> Labels] /\ faults \in 0 .. MaxFaults
         /\ DOMAIN todo = Ends /\ DOMAIN snd = Ends /\ DOMAIN rcv = Ends
         /\ DOMAIN net = Ends \cup {"listener"} /\ Handshakes(net["listener"])
BY DEF IInv, NetOK

(* A step of e leaves its peer d alone but for what it sends.              *)
LEMMA StepOK ==
  ASSUME IInv, NEW e \in Ends, NEW d, d = Peer(e),
         pc' \in [Ends -> Labels], faults' \in 0 .. MaxFaults,
         DOMAIN todo' = Ends, DOMAIN snd' = Ends, DOMAIN rcv' = Ends,
         DOMAIN net' = Ends \cup {"listener"}, Handshakes(net'["listener"]),
         pc'[d] = pc[d], todo'[d] = todo[d], snd'[d] = snd[d], rcv'[d] = rcv[d],
         SenderOK(pc'[e], todo'[e], snd'[e]), QStep(snd[e], snd'[e]),
         SentOK(snd'[e], rcv[d].recv_dic),
         ReceiverOK(rcv'[e]), rcv[e].recv_dic \subseteq rcv'[e].recv_dic,
         QueueOK(net'[e], snd'[e], snd[d], rcv[d].recv_dic),
         QueueOK(net'[d], snd[d], snd'[e], rcv'[e].recv_dic),
         (\E x \in Ends : pc'[x] \in Setup) => Pristine'
  PROVE  IInv'
<1>1. d \in Ends /\ d # e /\ Peer(d) = e /\ \A x \in Ends : x = e \/ x = d
  BY PeerFacts
<1>2. /\ SenderOK(pc[d], todo[d], snd[d]) /\ ReceiverOK(rcv[d])
      /\ SentOK(snd[d], rcv[e].recv_dic)
  BY <1>1, EndFacts
<1>3. ASSUME NEW x \in Ends PROVE SenderOK(pc'[x], todo'[x], snd'[x])
  <2>1. CASE x = e
    BY <2>1
  <2>2. CASE x = d
    BY <1>2, <2>2
  <2> QED
    BY <1>1, <2>1, <2>2
<1>4. ASSUME NEW x \in Ends PROVE ReceiverOK(rcv'[x])
  <2>1. CASE x = e
    BY <2>1
  <2>2. CASE x = d
    BY <1>2, <2>2
  <2> QED
    BY <1>1, <2>1, <2>2
<1>5. ASSUME NEW x \in Ends PROVE SentOK(snd'[x], rcv'[Peer(x)].recv_dic)
  <2>1. CASE x = e
    BY <2>1
  <2>2. CASE x = d
    <3>1. SentOK(snd[d], rcv'[e].recv_dic)
      BY <1>2, SentReceived
    <3> QED
      BY <1>1, <2>2, <3>1
  <2> QED
    BY <1>1, <2>1, <2>2
<1>6. ASSUME NEW x \in Ends
      PROVE  QueueOK(net'[x], snd'[x], snd'[Peer(x)], rcv'[Peer(x)].recv_dic)
  <2>1. CASE x = e
    BY <2>1
  <2>2. CASE x = d
    BY <1>1, <2>2
  <2> QED
    BY <1>1, <2>1, <2>2
<1>7. NetOK'
  BY <1>6 DEF NetOK
<1> QED
  BY <1>3, <1>4, <1>5, <1>7 DEF IInv

(* Nobody writes before both are connected.                                *)
LEMMA ConnectedFirst ==
  ASSUME IInv, NEW e \in Ends, pc[e] \notin Setup \cup {"idle"}
  PROVE  \A x \in Ends : pc[x] \notin Setup
BY DEF IInv, Pristine

(* A writer's step: it may send messages m.                                *)
LEMMA WriterOK ==
  ASSUME IInv, NEW e \in Ends, \A x \in Ends : pc[x] \notin Setup,
         NEW l \in Labels \ Setup, pc' = [pc EXCEPT ![e] = l],
         faults' \in 0 .. MaxFaults, rcv' = rcv,
         DOMAIN todo' = Ends, DOMAIN snd' = Ends,
         todo'[Peer(e)] = todo[Peer(e)], snd'[Peer(e)] = snd[Peer(e)],
         SenderOK(l, todo'[e], snd'[e]), QStep(snd[e], snd'[e]),
         SentOK(snd'[e], rcv[Peer(e)].recv_dic),
         \/ net' = net
         \/ \E m : /\ net' = [net EXCEPT ![Peer(e)] = @ \o m]
                   /\ QueueOK(m, snd[Peer(e)], snd'[e], rcv[e].recv_dic)
  PROVE  IInv'
<1>1. PICK d : d = Peer(e)
  OBVIOUS
<1>2. d \in Ends /\ d # e /\ Peer(d) = e /\ e # "listener" /\ d # "listener"
  BY <1>1, PeerFacts
<1>3. /\ pc \in [Ends -> Labels] /\ DOMAIN rcv = Ends
      /\ DOMAIN net = Ends \cup {"listener"} /\ Handshakes(net["listener"])
  BY DomainFacts
<1>4. pc' \in [Ends -> Labels] /\ pc'[e] = l /\ pc'[d] = pc[d]
  BY <1>2, <1>3
<1>5. ~ \E x \in Ends : pc'[x] \in Setup
  BY <1>3
<1>6. QStep(snd[d], snd[d]) /\ ReceiverOK(rcv[e])
  BY <1>2, EndFacts
<1>7. QueueOK(net[e], snd'[e], snd[d], rcv[d].recv_dic)
  <2>1. QueueOK(net[e], snd[e], snd[d], rcv[d].recv_dic)
    BY <1>1, EndFacts
  <2> QED
    BY <1>6, <2>1, QueueKept
<1>8. QueueOK(net[d], snd[d], snd'[e], rcv[e].recv_dic)
  <2>1. QueueOK(net[d], snd[d], snd[e], rcv[e].recv_dic)
    BY <1>2, EndFacts
  <2> QED
    BY <1>6, <2>1, QueueKept
<1>9. /\ DOMAIN net' = Ends \cup {"listener"} /\ net'["listener"] = net["listener"]
      /\ net'[e] = net[e] /\ QueueOK(net'[d], snd[d], snd'[e], rcv[e].recv_dic)
  <2>1. CASE net' = net
    BY <1>3, <1>8, <2>1
  <2>2. ASSUME NEW m, net' = [net EXCEPT ![d] = @ \o m],
               QueueOK(m, snd[d], snd'[e], rcv[e].recv_dic)
        PROVE  <1>9
    <3>1. QueueOK(net[d] \o m, snd[d], snd'[e], rcv[e].recv_dic)
      BY <1>8, <2>2, QueueAppended
    <3>2. net'[d] = net[d] \o m /\ net'[e] = net[e] /\ net'["listener"] = net["listener"]
      BY <1>2, <1>3, <2>2
    <3>3. DOMAIN net' = Ends \cup {"listener"}
      BY <1>3, <2>2
    <3> QED
      BY <3>1, <3>2, <3>3
  <2> QED
    BY <1>1, <2>1, <2>2
<1> QED
  BY <1>1, <1>3, <1>4, <1>5, <1>6, <1>7, <1>9, StepOK

(* ... and one that keeps all that was sent.                               *)
LEMMA SentStill ==
  ASSUME IInv, NEW e \in Ends, NEW l, NEW t, NEW s2, SenderOK(l, t, s2), KeepsSent(snd[e], s2)
  PROVE  SentOK(s2, rcv[Peer(e)].recv_dic)
<1>1. SentOK(snd[e], rcv[Peer(e)].recv_dic) /\ SenderOK(pc[e], todo[e], snd[e])
  BY EndFacts
<1>2. BufOK(snd[e].buf) /\ BufOK(s2.buf)
  BY <1>1 DEF SenderOK
<1> QED
  BY <1>1, <1>2, SentKept

LEMMA StartWriteStep ==
  ASSUME IInv, NEW e \in Ends, StartWrite(e)
  PROVE  IInv'
<1>1. PICK s2 : s2 = [snd[e] EXCEPT !.data_buffer = prepareWrite(Head(todo[e])), !.written = 0,
                                    !.messages = <<>>]
  OBVIOUS
<1>2. /\ pc[e] = "idle" /\ todo[e] # <<>> /\ pc' = [pc EXCEPT ![e] = "mmsg"]
      /\ todo' = todo /\ rcv' = rcv /\ net' = net /\ faults' = faults
  BY DEF StartWrite, Goto
<1>3. \A x \in Ends : pc[x] \notin Setup
  BY DEF StartWrite, Setup
<1>4. DOMAIN snd = Ends /\ DOMAIN todo = Ends /\ faults \in 0 .. MaxFaults
  BY DomainFacts
<1>5. DOMAIN snd' = Ends /\ snd'[e] = s2 /\ snd'[Peer(e)] = snd[Peer(e)]
  BY <1>1, <1>4, PeerFacts DEF StartWrite
<1>6. SenderOK("idle", todo[e], snd[e])
  BY <1>2, EndFacts
<1>7. SenderOK("mmsg", todo[e], s2) /\ QStep(snd[e], s2) /\ KeepsSent(snd[e], s2)
  BY <1>1, <1>2, <1>6, StartWriteOK
<1>8. SentOK(s2, rcv[Peer(e)].recv_dic)
  BY <1>7, SentStill
<1>9. "mmsg" \in Labels \ Setup
  BY DEF Labels, Setup
<1> QED
  BY <1>2, <1>3, <1>4, <1>5, <1>7, <1>8, <1>9, WriterOK

LEMMA SendMmsgStep ==
  ASSUME IInv, NEW e \in Ends, SendMmsg(e)
  PROVE  IInv'
<1>1. PICK s2 : s2 = [NextWindow(snd[e]) EXCEPT !.written_len = 0]
  OBVIOUS
<1>2. /\ pc[e] = "mmsg" /\ pc' = [pc EXCEPT ![e] = "fill"]
      /\ snd' = [snd EXCEPT ![e] = s2]
      /\ todo' = todo /\ rcv' = rcv /\ net' = net /\ faults' = faults
  BY <1>1 DEF SendMmsg, Goto
<1>3. \A x \in Ends : pc[x] \notin Setup
  BY <1>2, ConnectedFirst DEF Setup
<1>4. DOMAIN snd = Ends /\ DOMAIN todo = Ends /\ faults \in 0 .. MaxFaults
  BY DomainFacts
<1>5. DOMAIN snd' = Ends /\ snd'[e] = s2 /\ snd'[Peer(e)] = snd[Peer(e)]
  BY <1>2, <1>4, PeerFacts
<1>6. SenderOK("mmsg", todo[e], snd[e])
  BY <1>2, EndFacts
<1>7. SenderOK("fill", todo[e], s2) /\ QStep(snd[e], s2) /\ KeepsSent(snd[e], s2)
  BY <1>1, <1>6, SendMmsgOK
<1>8. SentOK(s2, rcv[Peer(e)].recv_dic)
  BY <1>7, SentStill
<1>9. "fill" \in Labels \ Setup
  BY DEF Labels, Setup
<1> QED
  BY <1>2, <1>3, <1>4, <1>5, <1>7, <1>8, <1>9, WriterOK

LEMMA FillStep ==
  ASSUME IInv, NEW e \in Ends, Fill(e)
  PROVE  IInv'
<1>1. PICK w : w = nwrite(snd[e], snd[e].data_buffer[snd[e].current])
  OBVIOUS
<1>2. PICK s : s = Wrote(snd[e], w)
  OBVIOUS
<1>3. pc[e] = "fill" /\ todo' = todo /\ rcv' = rcv /\ faults' = faults
  BY DEF Fill
<1>4. \/ /\ snd[e].written_len = 0 /\ w.n <= 0
         /\ Goto(e, "elicit")
         /\ snd' = [snd EXCEPT ![e] = [s EXCEPT !.written = Max({0, @ + w.n})]]
         /\ IF Len(net[Peer(e)]) + Len(s.messages) <= MaxQueue
            THEN SendTo(Peer(e), s.messages) ELSE UNCHANGED net
      \/ /\ snd[e].written_len # 0 \/ w.n > 0
         /\ UNCHANGED net
         /\ \/ /\ Exhausted(s) /\ s.current = Len(s.data_buffer)
               /\ Goto(e, "emit")
               /\ snd' = [snd EXCEPT ![e] = s]
            \/ /\ ~Exhausted(s) \/ s.current < Len(s.data_buffer)
               /\ snd' = [snd EXCEPT ![e] = Move(s)]
               /\ Goto(e, IF s.written_len >= s.record_win THEN "emit"
                          ELSE IF w.n <= 0 /\ ~Exhausted(s) THEN "spins"
                          ELSE "fill")
  BY <1>1, <1>2, Zenon DEF Fill
<1>5. \A x \in Ends : pc[x] \notin Setup
  BY <1>3, ConnectedFirst DEF Setup
<1>6. DOMAIN snd = Ends /\ DOMAIN todo = Ends /\ faults \in 0 .. MaxFaults
  BY DomainFacts
<1>7. SenderOK("fill", todo[e], snd[e])
  BY <1>3, EndFacts
<1>8. {"elicit", "emit", "spins", "fill"} \subseteq Labels \ Setup
  BY DEF Labels, Setup
<1>9. CASE /\ snd[e].written_len = 0 /\ w.n <= 0
           /\ Goto(e, "elicit")
           /\ snd' = [snd EXCEPT ![e] = [s EXCEPT !.written = Max({0, @ + w.n})]]
           /\ IF Len(net[Peer(e)]) + Len(s.messages) <= MaxQueue
              THEN SendTo(Peer(e), s.messages) ELSE UNCHANGED net
  <2>1. PICK s2 : s2 = [s EXCEPT !.written = Max({0, @ + w.n})]
    OBVIOUS
  <2>2. /\ SenderOK("elicit", todo[e], s2) /\ QStep(snd[e], s2) /\ KeepsSent(snd[e], s2)
        /\ s.messages \in Seq(App)
    BY <1>1, <1>2, <1>7, <1>9, <2>1, FillNothing
  <2>3. pc' = [pc EXCEPT ![e] = "elicit"] /\ snd' = [snd EXCEPT ![e] = s2]
    BY <1>9, <2>1 DEF Goto
  <2>4. DOMAIN snd' = Ends /\ snd'[e] = s2 /\ snd'[Peer(e)] = snd[Peer(e)]
    BY <1>6, <2>3, PeerFacts
  <2>5. QueueOK(s.messages, snd[Peer(e)], snd'[e], rcv[e].recv_dic)
    BY <2>2, QueueOfApp
  <2>6. net' = net \/ net' = [net EXCEPT ![Peer(e)] = @ \o s.messages]
    BY <1>9 DEF SendTo
  <2>7. SentOK(s2, rcv[Peer(e)].recv_dic)
    BY <2>2, SentStill
  <2> QED
    BY <1>3, <1>5, <1>6, <1>8, <2>2, <2>3, <2>4, <2>5, <2>6, <2>7, WriterOK
<1>10. CASE /\ snd[e].written_len # 0 \/ w.n > 0
            /\ UNCHANGED net
            /\ \/ /\ Exhausted(s) /\ s.current = Len(s.data_buffer)
                  /\ Goto(e, "emit")
                  /\ snd' = [snd EXCEPT ![e] = s]
               \/ /\ ~Exhausted(s) \/ s.current < Len(s.data_buffer)
                  /\ snd' = [snd EXCEPT ![e] = Move(s)]
                  /\ Goto(e, IF s.written_len >= s.record_win THEN "emit"
                             ELSE IF w.n <= 0 /\ ~Exhausted(s) THEN "spins"
                             ELSE "fill")
  <2>1. PICK l \in {"emit", "spins", "fill"} : pc' = [pc EXCEPT ![e] = l]
    <3>1. PICK l \in {"emit", "spins", "fill"} : Goto(e, l)
      BY <1>10
    <3> QED
      BY <3>1 DEF Goto
  <2>2. PICK s2 :
          /\ snd' = [snd EXCEPT ![e] = s2]
          /\ s2 = s \/ (s2 = [s EXCEPT !.current = @ + 1] /\ s.current < Len(s.data_buffer))
    <3>1. CASE snd' = [snd EXCEPT ![e] = s]
      BY <3>1, Zenon
    <3>2. CASE /\ ~Exhausted(s) \/ s.current < Len(s.data_buffer)
               /\ snd' = [snd EXCEPT ![e] = Move(s)]
      <4>1. \/ Move(s) = s
            \/ Move(s) = [s EXCEPT !.current = @ + 1] /\ s.current < Len(s.data_buffer)
        BY <3>2 DEF Move
      <4> QED
        BY <3>2, <4>1, Zenon
    <3> QED
      BY <1>10, <3>1, <3>2
  <2>3. SenderOK(l, todo[e], s2) /\ QStep(snd[e], s2) /\ KeepsSent(snd[e], s2)
    <3>1. PICK u : u = snd[e]
      OBVIOUS
    <3>2. /\ SenderOK("fill", todo[e], u) /\ w = nwrite(u, u.data_buffer[u.current])
          /\ s = Wrote(u, w)
      BY <1>1, <1>2, <1>7, <3>1
    <3>3. u.written_len # 0 \/ w.n > 0
      BY <1>10, <3>1
    <3>4. SenderOK(l, todo[e], s2) /\ QStep(u, s2) /\ KeepsSent(u, s2)
      BY <2>2, <3>2, <3>3, FillSome
    <3> QED
      BY <3>1, <3>4
  <2>4. DOMAIN snd' = Ends /\ snd'[e] = s2 /\ snd'[Peer(e)] = snd[Peer(e)]
    BY <1>6, <2>2, PeerFacts
  <2>5. SentOK(s2, rcv[Peer(e)].recv_dic)
    BY <2>3, SentStill
  <2>6. l \in Labels \ Setup /\ net' = net
    BY <1>8, <1>10
  <2> QED
    BY <1>3, <1>5, <1>6, <2>1, <2>2, <2>3, <2>4, <2>5, <2>6, WriterOK
<1> QED
  BY <1>4, <1>9, <1>10

(* Emitting, whether sendmmsg succeeds or not.                             *)
LEMMA EmitStep ==
  ASSUME IInv, NEW e \in Ends, Emit(e) \/ SendFails(e)
  PROVE  IInv'
<1>1. Emitting(e)
  BY DEF Emit, SendFails
<1>2. PICK em, offs, pr : /\ em = emit(snd[e].buf)
                          /\ offs = {em.out[i].off : i \in DOMAIN em.out}
                          /\ snd' = [snd EXCEPT ![e] = EmitRound(snd[e], em, offs, pr)]
  BY <1>1 DEF Emitting
<1>3. PICK s2 : s2 = EmitRound(snd[e], em, offs, pr)
  OBVIOUS
<1>4. pc[e] = "emit" /\ todo' = todo /\ rcv' = rcv
  BY DEF Emit, SendFails, Emitting
<1>5. \A x \in Ends : pc[x] \notin Setup
  BY <1>4, ConnectedFirst DEF Setup
<1>6. DOMAIN snd = Ends /\ DOMAIN todo = Ends /\ faults \in 0 .. MaxFaults
  BY DomainFacts
<1>7. DOMAIN snd' = Ends /\ snd'[e] = s2 /\ snd'[Peer(e)] = snd[Peer(e)]
  BY <1>2, <1>3, <1>6, PeerFacts
<1>8. SenderOK("emit", todo[e], snd[e]) /\ SentOK(snd[e], rcv[Peer(e)].recv_dic)
  BY <1>4, EndFacts
<1>9. ASSUME NEW l \in {"elicit", "spins"}
      PROVE  SenderOK(l, todo[e], s2) /\ QStep(snd[e], s2) /\ SentOK(s2, rcv[Peer(e)].recv_dic)
  <2>1. PICK s : s = snd[e]
    OBVIOUS
  <2>2. em = emit(s.buf) /\ s2 = EmitRound(s, em, offs, pr) /\ SenderOK("emit", todo[e], s)
    BY <1>2, <1>3, <1>8, <2>1
  <2>3. offs = OffsetsOf(em.out)
    BY <1>2 DEF OffsetsOf
  <2>4. /\ SenderOK(l, todo[e], s2) /\ QStep(s, s2)
        /\ \A dic : SentOK(s, dic) => SentOK(s2, dic)
    BY <2>2, <2>3, EmitOK
  <2> QED
    BY <1>8, <2>1, <2>4
<1>10. {"elicit", "spins"} \subseteq Labels \ Setup
  BY DEF Labels, Setup
<1>11. CASE Emit(e)
  <2>1. /\ pc' = [pc EXCEPT ![e] = "elicit"] /\ faults' = faults
        /\ net' = [net EXCEPT ![Peer(e)] = @ \o s2.messages]
    BY <1>7, <1>11 DEF Emit, SendTo, Goto
  <2>2. SenderOK("elicit", todo[e], s2) /\ QStep(snd[e], s2) /\ SentOK(s2, rcv[Peer(e)].recv_dic)
    BY <1>9
  <2>3. QueueOK(s2.messages, snd[Peer(e)], snd'[e], rcv[e].recv_dic)
    BY <2>2, QueueOfApp DEF SenderOK
  <2> QED
    BY <1>4, <1>5, <1>6, <1>7, <1>10, <2>1, <2>2, <2>3, WriterOK
<1>12. CASE SendFails(e)
  <2>1. /\ pc' = [pc EXCEPT ![e] = "spins"] /\ net' = net
        /\ faults' = faults + 1 /\ faults < MaxFaults
    BY <1>12 DEF SendFails, Goto
  <2>2. SenderOK("spins", todo[e], s2) /\ QStep(snd[e], s2) /\ SentOK(s2, rcv[Peer(e)].recv_dic)
    BY <1>9
  <2>3. faults' \in 0 .. MaxFaults
    BY <1>6, <2>1, BoundsAssumption
  <2> QED
    BY <1>4, <1>5, <1>6, <1>7, <1>10, <2>1, <2>2, <2>3, WriterOK
<1> QED
  BY <1>11, <1>12

LEMMA QuestionSent ==
  ASSUME NEW n \in Nat, NEW offs \in Seq(Nat), NEW s, NEW s2, NEW dic,
         s2.next_pkt_num = n + 1, Asked(s2, n) = Range(offs)
  PROVE  QueueOK(<<ElicitAck(n, offs)>>, s, s2, dic)
<1>1. PICK p : p = ElicitAck(n, offs)
  OBVIOUS
<1>2. p \in Question /\ p.type = "ElicitAck" /\ p.pn = n /\ p.offs = offs
  BY <1>1 DEF ElicitAck, Question
<1>3. n < n + 1
  OBVIOUS
<1>4. QuestionOK(p, s2)
  BY <1>2, <1>3 DEF QuestionOK
<1>5. p \in Datagram /\ DatagramOK(p, s, s2, dic)
  BY <1>2, <1>4 DEF Datagram, DatagramOK
<1> QED
  BY <1>1, <1>5, QueueOfOne

LEMMA ElicitStep ==
  ASSUME IInv, NEW e \in Ends, Elicit(e)
  PROVE  IInv'
<1>1. PICK offs : offs = NextOffsets(snd[e])
  OBVIOUS
<1>2. PICK n : n = snd[e].next_pkt_num
  OBVIOUS
<1>3. PICK s2 : s2 = Ask(snd[e], n, offs)
  OBVIOUS
<1>4. /\ pc[e] = "elicit" /\ Unasked(snd[e]) /\ pc' = [pc EXCEPT ![e] = "recv"]
      /\ snd' = [snd EXCEPT ![e] = s2]
      /\ net' = [net EXCEPT ![Peer(e)] = @ \o <<ElicitAck(n, offs)>>]
      /\ todo' = todo /\ rcv' = rcv /\ faults' = faults
  BY <1>1, <1>2, <1>3 DEF Elicit, SendTo, Goto
<1>5. \A x \in Ends : pc[x] \notin Setup
  BY <1>4, ConnectedFirst DEF Setup
<1>6. DOMAIN snd = Ends /\ DOMAIN todo = Ends /\ faults \in 0 .. MaxFaults
  BY DomainFacts
<1>7. DOMAIN snd' = Ends /\ snd'[e] = s2 /\ snd'[Peer(e)] = snd[Peer(e)]
  BY <1>4, <1>6, PeerFacts
<1>8. SenderOK("elicit", todo[e], snd[e])
  BY <1>4, EndFacts
<1>9. /\ SenderOK("recv", todo[e], s2) /\ QStep(snd[e], s2) /\ KeepsSent(snd[e], s2)
      /\ offs \in Seq(Nat) /\ n \in Nat /\ s2.next_pkt_num = n + 1
      /\ Asked(s2, n) = Range(offs)
  BY <1>1, <1>2, <1>3, <1>4, <1>8, AskOK
<1>10. SentOK(s2, rcv[Peer(e)].recv_dic)
  BY <1>9, SentStill
<1>11. QueueOK(<<ElicitAck(n, offs)>>, snd[Peer(e)], s2, rcv[e].recv_dic)
  BY <1>9, QuestionSent
<1>12. "recv" \in Labels \ Setup
  BY DEF Labels, Setup
<1> QED
  BY <1>4, <1>5, <1>6, <1>7, <1>9, <1>10, <1>11, <1>12, WriterOK

LEMMA RetransmitStep ==
  ASSUME IInv, NEW e \in Ends, Retransmit(e)
  PROVE  IInv'
<1>1. PICK pn \in DOMAIN snd[e].retransmission_ack :
        /\ snd' = [snd EXCEPT ![e] = Repeat(snd[e], pn, snd[e].next_pkt_num, snd[e].valueToKeys[pn])]
        /\ SendTo(Peer(e), <<ElicitAck(snd[e].next_pkt_num, snd[e].retransmission_ack[pn])>>)
  BY DEF Retransmit
<1>2. PICK n : n = snd[e].next_pkt_num
  OBVIOUS
<1>3. PICK offs : offs = snd[e].retransmission_ack[pn]
  OBVIOUS
<1>4. PICK s2 : s2 = Repeat(snd[e], pn, snd[e].next_pkt_num, snd[e].valueToKeys[pn])
  OBVIOUS
<1>5. /\ pc[e] = "elicit" /\ pc' = [pc EXCEPT ![e] = "recv"]
      /\ snd' = [snd EXCEPT ![e] = s2]
      /\ net' = [net EXCEPT ![Peer(e)] = @ \o <<ElicitAck(n, offs)>>]
      /\ todo' = todo /\ rcv' = rcv /\ faults' = faults
  BY <1>1, <1>2, <1>3, <1>4 DEF Retransmit, SendTo, Goto
<1>6. \A x \in Ends : pc[x] \notin Setup
  BY <1>5, ConnectedFirst DEF Setup
<1>7. DOMAIN snd = Ends /\ DOMAIN todo = Ends /\ faults \in 0 .. MaxFaults
  BY DomainFacts
<1>8. DOMAIN snd' = Ends /\ snd'[e] = s2 /\ snd'[Peer(e)] = snd[Peer(e)]
  BY <1>5, <1>7, PeerFacts
<1>9. SenderOK("elicit", todo[e], snd[e])
  BY <1>5, EndFacts
<1>10. /\ SenderOK("recv", todo[e], s2) /\ QStep(snd[e], s2) /\ KeepsSent(snd[e], s2)
       /\ offs \in Seq(Nat) /\ n \in Nat /\ s2.next_pkt_num = n + 1
       /\ Asked(s2, n) = Range(offs)
  BY <1>2, <1>3, <1>4, <1>9, RepeatOK
<1>11. SentOK(s2, rcv[Peer(e)].recv_dic)
  BY <1>10, SentStill
<1>12. QueueOK(<<ElicitAck(n, offs)>>, snd[Peer(e)], s2, rcv[e].recv_dic)
  BY <1>10, QuestionSent
<1>13. "recv" \in Labels \ Setup
  BY DEF Labels, Setup
<1> QED
  BY <1>5, <1>6, <1>7, <1>8, <1>10, <1>11, <1>12, <1>13, WriterOK

LEMMA NothingTimedOutStep ==
  ASSUME IInv, NEW e \in Ends, NothingTimedOut(e)
  PROVE  IInv'
<1>1. /\ pc[e] = "elicit" /\ pc' = [pc EXCEPT ![e] = "recv"] /\ snd' = snd /\ net' = net
      /\ todo' = todo /\ rcv' = rcv /\ faults' = faults
  BY DEF NothingTimedOut, Goto
<1>2. \A x \in Ends : pc[x] \notin Setup
  BY <1>1, ConnectedFirst DEF Setup
<1>3. DOMAIN snd = Ends /\ DOMAIN todo = Ends /\ faults \in 0 .. MaxFaults
  BY DomainFacts
<1>4. /\ SenderOK("elicit", todo[e], snd[e]) /\ QStep(snd[e], snd[e])
      /\ SentOK(snd[e], rcv[Peer(e)].recv_dic)
  BY <1>1, EndFacts
<1>5. SenderOK("recv", todo[e], snd[e])
  BY <1>4, SenderMoves
<1>6. "recv" \in Labels \ Setup
  BY DEF Labels, Setup
<1> QED
  BY <1>1, <1>2, <1>3, <1>4, <1>5, <1>6, WriterOK

LEMMA EndRoundStep ==
  ASSUME IInv, NEW e \in Ends, EndRound(e)
  PROVE  IInv'
<1>1. pc[e] = "elicit" /\ rcv' = rcv /\ net' = net /\ faults' = faults
  BY DEF EndRound
<1>2. \A x \in Ends : pc[x] \notin Setup
  BY <1>1, ConnectedFirst DEF Setup
<1>3. DOMAIN snd = Ends /\ DOMAIN todo = Ends /\ faults \in 0 .. MaxFaults
  BY DomainFacts
<1>4. /\ SenderOK("elicit", todo[e], snd[e]) /\ QStep(snd[e], snd[e])
      /\ SentOK(snd[e], rcv[Peer(e)].recv_dic)
  BY <1>1, EndFacts
<1>5. {"idle", "mmsg"} \subseteq Labels \ Setup
  BY DEF Labels, Setup
<1>6. CASE transmission_complete(snd[e])
  <2>1. PICK op : op = [Head(todo[e]) EXCEPT !.nwritten = @ + snd[e].written]
    OBVIOUS
  <2>2. PICK t2 : t2 = IF op.nwritten = op.nbytes THEN Tail(todo[e]) ELSE <<op>> \o Tail(todo[e])
    OBVIOUS
  <2>3. PICK s2 : s2 = [snd[e] EXCEPT !.data_buffer = <<>>, !.current = 1, !.messages = <<>>,
                                      !.written = 0]
    OBVIOUS
  <2>4. todo' = [todo EXCEPT ![e] = t2] /\ pc' = [pc EXCEPT ![e] = "idle"]
    BY <1>6, <2>1, <2>2 DEF EndRound, Goto
  <2>5. DOMAIN snd' = Ends /\ snd'[e] = s2 /\ snd'[Peer(e)] = snd[Peer(e)]
    BY <1>3, <1>6, <2>3, PeerFacts DEF EndRound
  <2>6. DOMAIN todo' = Ends /\ todo'[e] = t2 /\ todo'[Peer(e)] = todo[Peer(e)]
    BY <1>3, <2>4, PeerFacts
  <2>7. SenderOK("idle", t2, s2) /\ QStep(snd[e], s2) /\ KeepsSent(snd[e], s2)
    BY <1>4, <2>1, <2>2, <2>3, EndRoundOK
  <2>8. SentOK(s2, rcv[Peer(e)].recv_dic)
    BY <2>7, SentStill
  <2> QED
    BY <1>1, <1>2, <1>3, <1>5, <2>4, <2>5, <2>6, <2>7, <2>8, WriterOK
<1>7. CASE ~transmission_complete(snd[e])
  <2>1. pc' = [pc EXCEPT ![e] = "mmsg"] /\ todo' = todo /\ snd' = snd
    BY <1>7 DEF EndRound, Goto
  <2>2. SenderOK("mmsg", todo[e], snd[e])
    BY <1>4, SenderMoves
  <2> QED
    BY <1>1, <1>2, <1>3, <1>4, <1>5, <2>1, <2>2, WriterOK
<1> QED
  BY <1>6, <1>7

(* A datagram is read by an idle end, or by one in the loop of             *)
(* write2dmludp.                                                           *)
LEMMA ReadOK ==
  ASSUME IInv, NEW e \in Ends, net[e] # <<>>, Read(e),
         NEW l, pc' = [pc EXCEPT ![e] = l],
         (pc[e] = "idle" /\ l = "idle") \/ (pc[e] = "recv" /\ l = "elicit"),
         todo' = todo, faults' = faults
  PROVE  IInv'
<1>1. PICK d : d = Peer(e)
  OBVIOUS
<1>2. PICK p : p = Head(net[e])
  OBVIOUS
<1>3. /\ d \in Ends /\ d # e /\ Peer(d) = e /\ e # "listener" /\ d # "listener"
      /\ \A x \in Ends : x = e \/ x = d
  BY <1>1, PeerFacts
<1>4. /\ pc \in [Ends -> Labels] /\ faults \in 0 .. MaxFaults
      /\ DOMAIN todo = Ends /\ DOMAIN snd = Ends /\ DOMAIN rcv = Ends
      /\ DOMAIN net = Ends \cup {"listener"} /\ Handshakes(net["listener"])
  BY DomainFacts
<1>5. l \in Labels \ Setup
  BY DEF Labels, Setup
<1>6. pc' \in [Ends -> Labels] /\ pc'[e] = l /\ pc'[d] = pc[d]
  BY <1>3, <1>4, <1>5
<1>7. /\ SenderOK(pc[e], todo[e], snd[e]) /\ ReceiverOK(rcv[e])
      /\ SentOK(snd[e], rcv[d].recv_dic) /\ QStep(snd[e], snd[e]) /\ QStep(snd[d], snd[d])
  BY <1>1, <1>3, EndFacts
<1>8. QueueOK(net[d], snd[d], snd[e], rcv[e].recv_dic)
  BY <1>3, EndFacts
<1>9. /\ p \in Datagram /\ DatagramOK(p, snd[e], snd[d], rcv[d].recv_dic)
      /\ QueueOK(Tail(net[e]), snd[e], snd[d], rcv[d].recv_dic)
  <2>1. QueueOK(net[e], snd[e], snd[d], rcv[d].recv_dic)
    BY <1>1, EndFacts
  <2> QED
    BY <1>2, <2>1, QueueRead
<1>10. ASSUME NEW s, SenderOK(pc[e], todo[e], s) PROVE SenderOK(l, todo[e], s)
  <2>1. CASE pc[e] = l
    BY <1>10, <2>1
  <2>2. CASE pc[e] = "recv" /\ l = "elicit"
    BY <1>10, <2>2, SenderMoves
  <2> QED
    BY <2>1, <2>2
(* Before both ends are connected only a Handshake can be read.            *)
<1>11. ASSUME NEW x \in Ends, pc'[x] \in Setup
       PROVE  /\ Pristine /\ p = Handshake /\ pc[e] = "idle" /\ Handshakes(Tail(net[e]))
  <2>1. x = d /\ pc[d] \in Setup
    BY <1>3, <1>5, <1>6, <1>11
  <2>2. Pristine
    BY <1>3, <2>1 DEF IInv
  <2>3. Handshakes(net[e]) /\ pc[e] # "recv"
    BY <2>2 DEF Pristine, Setup
  <2>4. net[e] \in Seq({Handshake})
    BY <2>3, HandshakesInSet
  <2>5. Head(net[e]) \in {Handshake} /\ Tail(net[e]) \in Seq({Handshake})
    BY <2>4, ShorterQueue
  <2>6. Handshakes(Tail(net[e]))
    BY <2>5, HandshakesInSet
  <2> QED
    BY <1>2, <2>2, <2>3, <2>5, <2>6
<1>12. CASE /\ p.type = "ACK"
            /\ \E pr \in priority_calculation(DOMAIN p.status) :
                 snd' = [snd EXCEPT ![e] = recv_ack(snd[e], p, pr)]
            /\ net' = [net EXCEPT ![e] = Tail(@)]
            /\ UNCHANGED rcv
  <2>1. PICK pr \in priority_calculation(DOMAIN p.status) :
          snd' = [snd EXCEPT ![e] = recv_ack(snd[e], p, pr)]
    BY <1>12
  <2>2. PICK s2 : s2 = recv_ack(snd[e], p, pr)
    OBVIOUS
  <2>3. p \in Reply /\ IsTrue(p.status, rcv[d].recv_dic)
    BY <1>9, <1>12, TypeOfDatagram DEF DatagramOK, ReplyOK
  <2>4. SenderOK(pc[e], todo[e], s2) /\ QStep(snd[e], s2) /\ SentOK(s2, rcv[d].recv_dic)
    BY <1>7, <2>2, <2>3, RecvAckOK
  <2>5. SenderOK(l, todo[e], s2)
    BY <1>10, <2>4
  <2>6. DOMAIN snd' = Ends /\ snd'[e] = s2 /\ snd'[d] = snd[d]
    BY <1>3, <1>4, <2>1, <2>2
  <2>7. /\ DOMAIN net' = Ends \cup {"listener"} /\ net'["listener"] = net["listener"]
        /\ net'[e] = Tail(net[e]) /\ net'[d] = net[d]
    BY <1>3, <1>4, <1>12
  <2>8. QueueOK(Tail(net[e]), s2, snd[d], rcv[d].recv_dic)
    BY <1>7, <1>9, <2>4, QueueKept
  <2>9. QueueOK(net[d], snd[d], s2, rcv[e].recv_dic)
    BY <1>7, <1>8, <2>4, QueueKept
  <2>10. ~ \E x \in Ends : pc'[x] \in Setup
    BY <1>11, <1>12 DEF Handshake
  <2>11. rcv' = rcv
    BY <1>12
  <2> QED
    <3>1. ReceiverOK(rcv'[e]) /\ rcv[e].recv_dic \subseteq rcv'[e].recv_dic
      BY <1>7, <2>11
    <3>2. /\ SenderOK(pc'[e], todo'[e], snd'[e]) /\ QStep(snd[e], snd'[e])
          /\ SentOK(snd'[e], rcv[d].recv_dic)
      BY <1>6, <2>4, <2>5, <2>6
    <3>3. QueueOK(net'[e], snd'[e], snd[d], rcv[d].recv_dic)
      BY <2>6, <2>7, <2>8
    <3>4. QueueOK(net'[d], snd[d], snd'[e], rcv'[e].recv_dic)
      BY <2>6, <2>7, <2>9, <2>11
    <3>5. /\ faults' \in 0 .. MaxFaults /\ DOMAIN todo' = Ends /\ DOMAIN rcv' = Ends
          /\ todo'[d] = todo[d] /\ rcv'[d] = rcv[d] /\ Handshakes(net'["listener"])
      BY <1>4, <2>7, <2>11
    <3> QED
      BY <1>1, <1>6, <2>6, <2>7, <2>10, <3>1, <3>2, <3>3, <3>4, <3>5, StepOK
<1>13. CASE /\ p.type = "ElicitAck"
            /\ \E s \in {send_data(e, recv_slice(e, rcv[e], p))} :
                 /\ rcv' = [rcv EXCEPT ![e] = s.r]
                 /\ Answer(e, Peer(e), <<s.out>>)
            /\ UNCHANGED snd
  <2>1. PICK sd : /\ sd = send_data(e, recv_slice(e, rcv[e], p))
                  /\ rcv' = [rcv EXCEPT ![e] = sd.r]
                  /\ Answer(e, d, <<sd.out>>)
    BY <1>1, <1>13
  <2>2. p \in Question /\ QuestionOK(p, snd[d])
    BY <1>9, <1>13, TypeOfDatagram DEF DatagramOK
  <2>3. /\ ReceiverOK(sd.r) /\ sd.r.recv_dic = rcv[e].recv_dic
        /\ \/ sd.out = Handshake
           \/ /\ sd.out \in Reply /\ sd.out.pn = p.pn
              /\ Range(p.offs) \subseteq DOMAIN sd.out.status
              /\ IsTrue(sd.out.status, rcv[e].recv_dic)
    <3>1. PICK r : r = rcv[e]
      OBVIOUS
    <3>2. ReceiverOK(r) /\ sd = send_data(e, recv_slice(e, r, p))
      BY <1>7, <2>1, <3>1
    <3>3. AnswerOK(r, p, sd)
      BY <2>2, <3>2, ElicitedOK
    <3> QED
      BY <3>1, <3>3 DEF AnswerOK
  <2>4. sd.out \in Datagram /\ DatagramOK(sd.out, snd[d], snd[e], rcv[e].recv_dic)
    <3>1. CASE sd.out = Handshake
      BY <3>1, HandshakeOK
    <3>2. CASE sd.out # Handshake
      <4>1. PICK q \in Reply : /\ q = sd.out /\ q.pn = p.pn
                               /\ Range(p.offs) \subseteq DOMAIN q.status
                               /\ IsTrue(q.status, rcv[e].recv_dic)
        BY <2>3, <3>2
      <4>2. ReplyOK(q, snd[d], rcv[e].recv_dic)
        BY <2>2, <4>1 DEF QuestionOK, ReplyOK
      <4>3. q.type = "ACK" /\ q \in Datagram
        BY ReplyFacts DEF Datagram
      <4>4. DatagramOK(q, snd[d], snd[e], rcv[e].recv_dic)
        BY <4>2, <4>3 DEF DatagramOK
      <4> QED
        BY <4>1, <4>3, <4>4
    <3> QED
      BY <3>1, <3>2
  <2>5. QueueOK(net[d] \o <<sd.out>>, snd[d], snd[e], rcv[e].recv_dic)
    BY <1>8, <2>4, QueueOfOne, QueueAppended
  <2>6. net' = [net EXCEPT ![e] = Tail(net[e]), ![d] = net[d] \o <<sd.out>>]
    BY <1>3, <1>4, <2>1 DEF Answer
  <2>7. /\ DOMAIN net' = Ends \cup {"listener"} /\ net'["listener"] = net["listener"]
        /\ net'[e] = Tail(net[e]) /\ net'[d] = net[d] \o <<sd.out>>
    BY <1>3, <1>4, <2>6
  <2>8. DOMAIN rcv' = Ends /\ rcv'[e] = sd.r /\ rcv'[d] = rcv[d]
    BY <1>3, <1>4, <2>1
  <2>9. ~ \E x \in Ends : pc'[x] \in Setup
    BY <1>11, <1>13 DEF Handshake
  <2>10. snd' = snd /\ SenderOK(l, todo[e], snd[e])
    BY <1>7, <1>10, <1>13
  <2>11. ReceiverOK(rcv'[e]) /\ rcv[e].recv_dic \subseteq rcv'[e].recv_dic
    BY <2>3, <2>8
  <2>12. /\ SenderOK(pc'[e], todo'[e], snd'[e]) /\ QStep(snd[e], snd'[e])
         /\ SentOK(snd'[e], rcv[d].recv_dic)
    BY <1>6, <1>7, <2>10
  <2>13. QueueOK(net'[e], snd'[e], snd[d], rcv[d].recv_dic)
    BY <1>9, <2>7, <2>10
  <2>14. QueueOK(net'[d], snd[d], snd'[e], rcv'[e].recv_dic)
    BY <2>3, <2>5, <2>7, <2>8, <2>10
  <2>15. /\ faults' \in 0 .. MaxFaults /\ DOMAIN todo' = Ends /\ DOMAIN snd' = Ends
         /\ todo'[d] = todo[d] /\ snd'[d] = snd[d] /\ Handshakes(net'["listener"])
    BY <1>4, <2>7, <2>10
  <2> QED
    BY <1>1, <1>6, <2>7, <2>8, <2>9, <2>11, <2>12, <2>13, <2>14, <2>15, StepOK
<1>14. CASE /\ p.type \notin {"ACK", "ElicitAck"}
            /\ rcv' = [rcv EXCEPT ![e] = recv_slice(e, @, p)]
            /\ net' = [net EXCEPT ![e] = Tail(@)]
            /\ UNCHANGED snd
  <2>1. PICK r2 : r2 = recv_slice(e, rcv[e], p)
    OBVIOUS
  <2>2. p \in {Handshake} \cup App
    BY <1>9, <1>14, TypeOfDatagram
  <2>3. /\ ReceiverOK(r2) /\ rcv[e].recv_dic \subseteq r2.recv_dic
        /\ p = Handshake => r2.recv_dic = rcv[e].recv_dic
    <3>1. PICK r : r = rcv[e]
      OBVIOUS
    <3>2. ReceiverOK(r) /\ r2 = recv_slice(e, r, p)
      BY <1>7, <2>1, <3>1
    <3>3. /\ ReceiverOK(r2) /\ r.recv_dic \subseteq r2.recv_dic
          /\ p = Handshake => r2.recv_dic = r.recv_dic
      BY <2>2, <3>2, ReceivedOK
    <3> QED
      BY <3>1, <3>3
  <2>4. DOMAIN rcv' = Ends /\ rcv'[e] = r2 /\ rcv'[d] = rcv[d]
    BY <1>3, <1>4, <1>14, <2>1
  <2>5. /\ DOMAIN net' = Ends \cup {"listener"} /\ net'["listener"] = net["listener"]
        /\ net'[e] = Tail(net[e]) /\ net'[d] = net[d]
    BY <1>3, <1>4, <1>14
  <2>6. QueueOK(net[d], snd[d], snd[e], r2.recv_dic)
    BY <1>7, <1>8, <2>3, QueueKept
  <2>7. snd' = snd /\ SenderOK(l, todo[e], snd[e])
    BY <1>7, <1>10, <1>14
  <2>8. ASSUME NEW x \in Ends, pc'[x] \in Setup PROVE Pristine'
    <3>1. Pristine /\ p = Handshake /\ pc[e] = "idle" /\ Handshakes(Tail(net[e]))
      BY <1>11, <2>8
    <3>2. l = "idle"
      BY <3>1
    <3>3. \A y \in Ends : pc'[y] \in Setup \cup {"idle"}
      BY <1>3, <1>6, <3>1, <3>2 DEF Pristine
    <3>4. \A y \in Ends : Handshakes(net'[y]) /\ rcv'[y].recv_dic = {}
      BY <1>3, <2>3, <2>4, <2>5, <3>1 DEF Pristine
    <3>5. pc'["server"] = "listen" => rcv'["server"].rttZero = TRUE
      <4>1. SUFFICES ASSUME pc'["server"] = "listen" PROVE rcv'["server"].rttZero = TRUE
        OBVIOUS
      <4>2. "server" \in Ends
        BY DEF Ends
      <4>3. "server" = d
        BY <1>3, <1>6, <3>2, <4>1, <4>2
      <4> QED
        BY <1>6, <2>4, <3>1, <4>1, <4>3 DEF Pristine
    <3> QED
      BY <3>3, <3>4, <3>5 DEF Pristine
  <2>9. ReceiverOK(rcv'[e]) /\ rcv[e].recv_dic \subseteq rcv'[e].recv_dic
    BY <2>3, <2>4
  <2>10. /\ SenderOK(pc'[e], todo'[e], snd'[e]) /\ QStep(snd[e], snd'[e])
         /\ SentOK(snd'[e], rcv[d].recv_dic)
    BY <1>6, <1>7, <2>7
  <2>11. QueueOK(net'[e], snd'[e], snd[d], rcv[d].recv_dic)
    BY <1>9, <2>5, <2>7
  <2>12. QueueOK(net'[d], snd[d], snd'[e], rcv'[e].recv_dic)
    BY <2>4, <2>5, <2>6, <2>7
  <2>13. /\ faults' \in 0 .. MaxFaults /\ DOMAIN todo' = Ends /\ DOMAIN snd' = Ends
         /\ todo'[d] = todo[d] /\ snd'[d] = snd[d] /\ Handshakes(net'["listener"])
    BY <1>4, <2>5, <2>7
  <2>14. (\E x \in Ends : pc'[x] \in Setup) => Pristine'
    BY <2>8
  <2> QED
    BY <1>1, <1>6, <2>4, <2>5, <2>9, <2>10, <2>11, <2>12, <2>13, <2>14, StepOK
<1> QED
  BY <1>2, <1>12, <1>13, <1>14 DEF Read

LEMMA ReadInLoopStep ==
  ASSUME IInv, NEW e \in Ends, ReadInLoop(e)
  PROVE  IInv'
<1>1. pc[e] = "recv" /\ pc' = [pc EXCEPT ![e] = "elicit"] /\ todo' = todo /\ faults' = faults
  BY DEF ReadInLoop, Goto
<1>2. CASE net[e] # <<>>
  <2>1. Read(e)
    BY <1>2 DEF ReadInLoop
  <2> QED
    BY <1>1, <1>2, <2>1, ReadOK
<1>3. CASE net[e] = <<>>
  <2>1. snd' = snd /\ rcv' = rcv /\ net' = net
    BY <1>3 DEF ReadInLoop
  <2>2. \A x \in Ends : pc[x] \notin Setup
    BY <1>1, ConnectedFirst DEF Setup
  <2>3. DOMAIN snd = Ends /\ DOMAIN todo = Ends /\ faults \in 0 .. MaxFaults
    BY DomainFacts
  <2>4. /\ SenderOK("recv", todo[e], snd[e]) /\ QStep(snd[e], snd[e])
        /\ SentOK(snd[e], rcv[Peer(e)].recv_dic)
    BY <1>1, EndFacts
  <2>5. SenderOK("elicit", todo[e], snd[e])
    BY <2>4, SenderMoves
  <2>6. "elicit" \in Labels \ Setup
    BY DEF Labels, Setup
  <2> QED
    BY <1>1, <2>1, <2>2, <2>3, <2>4, <2>5, <2>6, WriterOK
<1> QED
  BY <1>2, <1>3

LEMMA HandleReadStep ==
  ASSUME IInv, NEW e \in Ends, HandleRead(e)
  PROVE  IInv'
<1>1. pc[e] = "idle" /\ net[e] # <<>> /\ Read(e) /\ pc' = pc /\ todo' = todo /\ faults' = faults
  BY DEF HandleRead
<1>2. pc' = [pc EXCEPT ![e] = "idle"]
  BY <1>1, DomainFacts
<1> QED
  BY <1>1, <1>2, ReadOK

(* Losing, repeating or delaying datagrams does not change any of them.    *)
LEMMA FaultOK ==
  ASSUME IInv, NEW e \in Ends, NEW q, net' = [net EXCEPT ![e] = q],
         \A D : net[e] \in Seq(D) => q \in Seq(D),
         faults < MaxFaults, faults' = faults + 1,
         pc' = pc, todo' = todo, snd' = snd, rcv' = rcv
  PROVE  IInv'
<1>1. PICK d : d = Peer(e)
  OBVIOUS
<1>2. /\ d \in Ends /\ d # e /\ Peer(d) = e /\ e # "listener" /\ d # "listener"
      /\ \A x \in Ends : x = e \/ x = d
  BY <1>1, PeerFacts
<1>3. /\ pc \in [Ends -> Labels] /\ faults \in 0 .. MaxFaults
      /\ DOMAIN todo = Ends /\ DOMAIN snd = Ends /\ DOMAIN rcv = Ends
      /\ DOMAIN net = Ends \cup {"listener"} /\ Handshakes(net["listener"])
  BY DomainFacts
<1>4. /\ SenderOK(pc[e], todo[e], snd[e]) /\ ReceiverOK(rcv[e])
      /\ SentOK(snd[e], rcv[d].recv_dic) /\ QStep(snd[e], snd[e])
      /\ QueueOK(net[e], snd[e], snd[d], rcv[d].recv_dic)
  BY <1>1, EndFacts
<1>5. QueueOK(net[d], snd[d], snd[e], rcv[e].recv_dic)
  BY <1>2, EndFacts
<1>6. QueueOK(q, snd[e], snd[d], rcv[d].recv_dic)
  <2>1. PICK D : D = {p \in Datagram : DatagramOK(p, snd[e], snd[d], rcv[d].recv_dic)}
    OBVIOUS
  <2>2. net[e] \in Seq(D)
    BY <1>4, <2>1, QueueInSet
  <2> QED
    BY <2>1, <2>2, QueueInSet
<1>7. Handshakes(net[e]) => Handshakes(q)
  BY HandshakesInSet
<1>8. /\ DOMAIN net' = Ends \cup {"listener"} /\ net'["listener"] = net["listener"]
      /\ net'[e] = q /\ net'[d] = net[d]
  BY <1>2, <1>3
<1>9. faults' \in 0 .. MaxFaults
  BY <1>3, BoundsAssumption
<1>10. ASSUME NEW x \in Ends, pc'[x] \in Setup PROVE Pristine'
  <2>1. Pristine
    BY <1>10 DEF IInv
  <2>2. \A y \in Ends : Handshakes(net'[y])
    BY <1>2, <1>7, <1>8, <2>1 DEF Pristine
  <2> QED
    BY <2>1, <2>2 DEF Pristine
<1>11. (\E x \in Ends : pc'[x] \in Setup) => Pristine'
  BY <1>10
<1> QED
  BY <1>1, <1>3, <1>4, <1>5, <1>6, <1>8, <1>9, <1>11, StepOK

LEMMA NetworkStep ==
  ASSUME IInv, NEW e \in Ends, Lose(e) \/ Duplicate(e) \/ Overtake(e)
  PROVE  IInv'
<1>1. faults < MaxFaults /\ faults' = faults + 1 /\ pc' = pc /\ todo' = todo /\ snd' = snd /\ rcv' = rcv
  BY DEF Lose, Duplicate, Overtake
<1>2. PICK i, q :
        /\ i \in DOMAIN net[e]
        /\ net' = [net EXCEPT ![e] = q]
        /\ \/ q = RemoveAt(net[e], i) \/ q = Append(net[e], net[e][i])
           \/ q = <<net[e][i]>> \o RemoveAt(net[e], i)
  BY DEF Lose, Duplicate, Overtake
<1>3. ASSUME NEW D, net[e] \in Seq(D) PROVE q \in Seq(D)
  BY <1>2, <1>3, ChangedQueue
<1> QED
  BY <1>1, <1>2, <1>3, FaultOK

-----------------------------------------------------------------------------
(* The handshake.                                                          *)

LEMMA QueueOfHandshakes ==
  ASSUME NEW s, NEW t, NEW dic, NEW q, Handshakes(q)
  PROVE  QueueOK(q, s, t, dic)
BY HandshakeOK DEF Handshakes, QueueOK

LEMMA SetupMoves ==
  ASSUME NEW l \in Setup, NEW l2 \in Setup \cup {"idle"}, NEW t, NEW s, SenderOK(l, t, s)
  PROVE  SenderOK(l2, t, s)
<1>1. WritingOK(l, t, s)
  BY DEF SenderOK
<1>2. WritingOK(l2, t, s)
  BY <1>1 DEF WritingOK, Setup, InLoop
<1> QED
  BY <1>2 DEF SenderOK

LEMMA HandshakingOK ==
  ASSUME IInv, NEW e \in Ends, pc[e] \in Setup,
         NEW l \in (Setup \cup {"idle"}) \ {"listen"}, pc' = [pc EXCEPT ![e] = l],
         NEW r2, DOMAIN rcv' = Ends, rcv'[e] = r2, rcv'[Peer(e)] = rcv[Peer(e)],
         ReceiverOK(r2), r2.recv_dic = {},
         DOMAIN net' = Ends \cup {"listener"}, \A s \in Ends \cup {"listener"} : Handshakes(net'[s]),
         todo' = todo, snd' = snd, faults' = faults
  PROVE  IInv'
<1>1. PICK d : d = Peer(e)
  OBVIOUS
<1>2. /\ d \in Ends /\ d # e /\ Peer(d) = e /\ e # "listener" /\ d # "listener"
      /\ \A x \in Ends : x = e \/ x = d
  BY <1>1, PeerFacts
<1>3. /\ pc \in [Ends -> Labels] /\ faults \in 0 .. MaxFaults
      /\ DOMAIN todo = Ends /\ DOMAIN snd = Ends /\ DOMAIN rcv = Ends
  BY DomainFacts
<1>4. Pristine
  BY DEF IInv
<1>5. l \in Labels
  BY DEF Labels, Setup
<1>6. pc' \in [Ends -> Labels] /\ pc'[e] = l /\ pc'[d] = pc[d]
  BY <1>2, <1>3, <1>5
<1>7. DOMAIN rcv' = Ends /\ rcv'[e] = r2 /\ rcv'[d] = rcv[d]
  BY <1>1
<1>8. /\ SenderOK(pc[e], todo[e], snd[e]) /\ QStep(snd[e], snd[e])
      /\ SentOK(snd[e], rcv[d].recv_dic)
  BY <1>1, EndFacts
<1>9. SenderOK(l, todo[e], snd[e])
  BY <1>8, SetupMoves
<1>10. QueueOK(net'[e], snd[e], snd[d], rcv[d].recv_dic)
  BY QueueOfHandshakes
<1>11. QueueOK(net'[d], snd[d], snd[e], r2.recv_dic)
  BY <1>2, QueueOfHandshakes
<1>12. Pristine'
  <2>1. \A x \in Ends : pc'[x] \in Setup \cup {"idle"}
    BY <1>2, <1>4, <1>6 DEF Pristine
  <2>2. \A x \in Ends : Handshakes(net'[x]) /\ rcv'[x].recv_dic = {}
    BY <1>2, <1>4, <1>7 DEF Pristine
  <2>3. ASSUME pc'["server"] = "listen" PROVE rcv'["server"].rttZero = TRUE
    <3>1. "server" \in Ends
      BY DEF Ends
    <3>2. "server" = d
      BY <1>2, <1>6, <2>3, <3>1
    <3> QED
      BY <1>4, <1>6, <1>7, <2>3, <3>2 DEF Pristine
  <2> QED
    BY <2>1, <2>2, <2>3 DEF Pristine
<1>13. rcv[e].recv_dic \subseteq r2.recv_dic
  BY <1>4 DEF Pristine
<1>14. Handshakes(net'["listener"])
  OBVIOUS
<1> QED
  BY <1>1, <1>3, <1>6, <1>7, <1>8, <1>9, <1>10, <1>11, <1>12, <1>13, <1>14, StepOK

(* A queue of Handshakes with one more, and without its first.             *)
LEMMA HandshakesChanged ==
  ASSUME NEW q, Handshakes(q)
  PROVE  /\ Handshakes(q \o <<Handshake>>)
         /\ q # <<>> => Head(q) = Handshake /\ Handshakes(Tail(q))
<1>1. q \in Seq({Handshake})
  BY HandshakesInSet
<1>2. <<Handshake>> \in Seq({Handshake})
  OBVIOUS
<1>3. q \o <<Handshake>> \in Seq({Handshake})
  BY <1>1, <1>2, LongerQueue
<1>4. ASSUME q # <<>> PROVE Head(q) = Handshake /\ Handshakes(Tail(q))
  <2>1. Head(q) \in {Handshake} /\ Tail(q) \in Seq({Handshake})
    BY <1>1, <1>4, ShorterQueue
  <2> QED
    BY <2>1, HandshakesInSet
<1> QED
  BY <1>3, <1>4, HandshakesInSet

LEMMA HandshakeFacts ==
  ASSUME IInv, NEW e \in Ends, pc[e] \in Setup
  PROVE  /\ Pristine /\ ReceiverOK(rcv["client"]) /\ ReceiverOK(rcv["server"])
         /\ rcv["client"].recv_dic = {} /\ rcv["server"].recv_dic = {}
         /\ \A s \in Ends \cup {"listener"} : Handshakes(net[s])
         /\ DOMAIN net = Ends \cup {"listener"} /\ DOMAIN rcv = Ends
<1>1. Pristine
  BY DEF IInv
<1>2. "client" \in Ends /\ "server" \in Ends
  BY DEF Ends
<1>3. ReceiverOK(rcv["client"]) /\ ReceiverOK(rcv["server"])
  BY <1>2, EndFacts
<1>4. Handshakes(net["listener"]) /\ DOMAIN net = Ends \cup {"listener"} /\ DOMAIN rcv = Ends
  BY DomainFacts
<1> QED
  BY <1>1, <1>2, <1>3, <1>4 DEF Pristine

LEMMA ConnectDmludpStep ==
  ASSUME IInv, ConnectDmludp
  PROVE  IInv'
<1>1. /\ pc["client"] = "connect" /\ pc' = [pc EXCEPT !["client"] = "handshake"]
      /\ net' = [net EXCEPT !["listener"] = @ \o <<Handshake>>]
      /\ todo' = todo /\ snd' = snd /\ rcv' = rcv /\ faults' = faults
  BY DEF ConnectDmludp, Goto, SendTo
<1>2. "client" \in Ends /\ pc["client"] \in Setup
      /\ "handshake" \in (Setup \cup {"idle"}) \ {"listen"}
  BY <1>1 DEF Ends, Setup
<1>3. /\ ReceiverOK(rcv["client"]) /\ rcv["client"].recv_dic = {}
      /\ \A s \in Ends \cup {"listener"} : Handshakes(net[s])
      /\ DOMAIN net = Ends \cup {"listener"} /\ DOMAIN rcv = Ends
  BY <1>2, HandshakeFacts
<1>4. Handshakes(net["listener"] \o <<Handshake>>)
  BY <1>3, HandshakesChanged
<1>5. DOMAIN net' = Ends \cup {"listener"} /\ \A s \in Ends \cup {"listener"} : Handshakes(net'[s])
  BY <1>1, <1>3, <1>4
<1> QED
  BY <1>1, <1>2, <1>3, <1>5, HandshakingOK

LEMMA ListenStep ==
  ASSUME IInv, Listen
  PROVE  IInv'
<1>1. PICK sd : /\ sd = send_data("server", rcv["server"])
                /\ rcv' = [rcv EXCEPT !["server"] = sd.r]
                /\ Answer("listener", "client", <<sd.out>>)
  BY DEF Listen
<1>2. /\ pc["server"] = "listen" /\ pc' = [pc EXCEPT !["server"] = "accept"]
      /\ net["listener"] # <<>>
      /\ todo' = todo /\ snd' = snd /\ faults' = faults
  BY DEF Listen, Goto
<1>3. /\ "server" \in Ends /\ pc["server"] \in Setup
      /\ "accept" \in (Setup \cup {"idle"}) \ {"listen"}
  BY <1>2 DEF Ends, Setup
<1>4. /\ Pristine /\ ReceiverOK(rcv["server"]) /\ rcv["server"].recv_dic = {}
      /\ \A s \in Ends \cup {"listener"} : Handshakes(net[s])
      /\ DOMAIN net = Ends \cup {"listener"} /\ DOMAIN rcv = Ends
  BY <1>3, HandshakeFacts
<1>5. PICK r : r = rcv["server"]
  OBVIOUS
<1>6. write_pkt_type("server", r) = "Handshake"
  BY <1>2, <1>4, <1>5 DEF Pristine, write_pkt_type
<1>7. sd = [r |-> [r EXCEPT !.handshake_confirmed = @ \/ "server" = "client"], out |-> Handshake]
  BY <1>1, <1>5, <1>6 DEF send_data, SendType
<1>8. PICK r2 : r2 = sd.r
  OBVIOUS
<1>9. DOMAIN r2 = DOMAIN r /\ r2.recv_dic = r.recv_dic /\ r2.recv_hashmap = r.recv_hashmap
  BY <1>4, <1>5, <1>7, <1>8 DEF ReceiverOK
<1>10. ReceiverOK(r2) /\ r2.recv_dic = {}
  BY <1>4, <1>5, <1>9 DEF ReceiverOK
<1>11. /\ DOMAIN net' = Ends \cup {"listener"} /\ net'["listener"] = Tail(net["listener"])
       /\ net'["client"] = net["client"] \o <<Handshake>> /\ net'["server"] = net["server"]
  <2>1. sd.out = Handshake
    BY <1>7
  <2> QED
    BY <1>1, <1>4, <2>1 DEF Answer, Ends
<1>12. Handshakes(Tail(net["listener"])) /\ Handshakes(net["client"] \o <<Handshake>>)
  BY <1>2, <1>4, HandshakesChanged DEF Ends
<1>13. DOMAIN net' = Ends \cup {"listener"} /\ \A s \in Ends \cup {"listener"} : Handshakes(net'[s])
  BY <1>4, <1>11, <1>12 DEF Ends
<1>14. DOMAIN rcv' = Ends /\ rcv'["server"] = r2 /\ rcv'[Peer("server")] = rcv[Peer("server")]
  BY <1>1, <1>3, <1>4, <1>8, PeerFacts
<1> QED
  BY <1>2, <1>3, <1>10, <1>13, <1>14, HandshakingOK

LEMMA NewReceiverOK == ReceiverOK([NewReceiver EXCEPT !.rttZero = FALSE]) /\ ReceiverOK(NewReceiver)
BY EmptyReport DEF NewReceiver, ReceiverOK

LEMMA ConnectedStep ==
  ASSUME IInv, Connected
  PROVE  IInv'
<1>1. PICK r : r = [NewReceiver EXCEPT !.rttZero = FALSE]
  OBVIOUS
<1>2. PICK sd : /\ sd = send_data("client", recv_slice("client", r, Head(net["client"])))
                /\ rcv' = [rcv EXCEPT !["client"] = sd.r]
                /\ Answer("client", "server", <<sd.out>>)
  BY <1>1 DEF Connected
<1>3. /\ pc["client"] = "handshake" /\ pc' = [pc EXCEPT !["client"] = "idle"]
      /\ net["client"] # <<>>
      /\ todo' = todo /\ snd' = snd /\ faults' = faults
  BY DEF Connected, Goto
<1>4. /\ "client" \in Ends /\ pc["client"] \in Setup
      /\ "idle" \in (Setup \cup {"idle"}) \ {"listen"}
  BY <1>3 DEF Ends, Setup
<1>5. /\ \A s \in Ends \cup {"listener"} : Handshakes(net[s])
      /\ DOMAIN net = Ends \cup {"listener"} /\ DOMAIN rcv = Ends
  BY <1>4, HandshakeFacts
<1>6. Head(net["client"]) = Handshake /\ Handshakes(Tail(net["client"]))
  BY <1>3, <1>4, <1>5, HandshakesChanged
<1>7. Handshakes(net["server"] \o <<Handshake>>)
  BY <1>5, HandshakesChanged DEF Ends
<1>8. ReceiverOK(r) /\ r.recv_dic = {}
  BY <1>1, NewReceiverOK DEF NewReceiver
<1>9. PICK u : u = recv_slice("client", r, Handshake)
  OBVIOUS
<1>10. u = [r EXCEPT !.handshake_confirmed = FALSE]
  BY <1>9 DEF recv_slice, Handshake
<1>11. ReceiverOK(u) /\ u.recv_dic = {} /\ u.handshake_confirmed = FALSE
  <2>1. Handshake \in {Handshake} \cup App
    OBVIOUS
  <2>2. ReceiverOK(u) /\ u.recv_dic = r.recv_dic
    BY <1>8, <1>9, <2>1, ReceivedOK
  <2> QED
    BY <1>8, <1>10, <2>2 DEF ReceiverOK
<1>12. write_pkt_type("client", u) = "Handshake"
  BY <1>11 DEF write_pkt_type
<1>13. sd = [r |-> [u EXCEPT !.handshake_confirmed = @ \/ "client" = "client"], out |-> Handshake]
  BY <1>2, <1>6, <1>9, <1>12 DEF send_data, SendType
<1>14. PICK r2 : r2 = sd.r
  OBVIOUS
<1>15. DOMAIN r2 = DOMAIN u /\ r2.recv_dic = u.recv_dic /\ r2.recv_hashmap = u.recv_hashmap
  BY <1>11, <1>13, <1>14 DEF ReceiverOK
<1>16. ReceiverOK(r2) /\ r2.recv_dic = {}
  BY <1>11, <1>15 DEF ReceiverOK
<1>17. /\ DOMAIN net' = Ends \cup {"listener"} /\ net'["client"] = Tail(net["client"])
       /\ net'["server"] = net["server"] \o <<Handshake>> /\ net'["listener"] = net["listener"]
  <2>1. sd.out = Handshake
    BY <1>13
  <2> QED
    BY <1>2, <1>5, <2>1 DEF Answer, Ends
<1>18. DOMAIN net' = Ends \cup {"listener"} /\ \A s \in Ends \cup {"listener"} : Handshakes(net'[s])
  BY <1>5, <1>6, <1>7, <1>17 DEF Ends
<1>19. DOMAIN rcv' = Ends /\ rcv'["client"] = r2 /\ rcv'[Peer("client")] = rcv[Peer("client")]
  BY <1>2, <1>4, <1>5, <1>14, PeerFacts
<1> QED
  BY <1>3, <1>4, <1>16, <1>18, <1>19, HandshakingOK

LEMMA AcceptedStep ==
  ASSUME IInv, Accepted
  PROVE  IInv'
<1>1. PICK r2 : r2 = recv_slice("server", rcv["server"], Head(net["server"]))
  OBVIOUS
<1>2. /\ pc["server"] = "accept" /\ pc' = [pc EXCEPT !["server"] = "idle"]
      /\ net["server"] # <<>>
      /\ rcv' = [rcv EXCEPT !["server"] = r2]
      /\ net' = [net EXCEPT !["server"] = Tail(@)]
      /\ todo' = todo /\ snd' = snd /\ faults' = faults
  BY <1>1 DEF Accepted, Goto
<1>3. /\ "server" \in Ends /\ pc["server"] \in Setup
      /\ "idle" \in (Setup \cup {"idle"}) \ {"listen"}
  BY <1>2 DEF Ends, Setup
<1>4. /\ ReceiverOK(rcv["server"]) /\ rcv["server"].recv_dic = {}
      /\ \A s \in Ends \cup {"listener"} : Handshakes(net[s])
      /\ DOMAIN net = Ends \cup {"listener"} /\ DOMAIN rcv = Ends
  BY <1>3, HandshakeFacts
<1>5. Head(net["server"]) = Handshake /\ Handshakes(Tail(net["server"]))
  BY <1>2, <1>3, <1>4, HandshakesChanged
<1>6. ReceiverOK(r2) /\ r2.recv_dic = {}
  <2>1. PICK r : r = rcv["server"]
    OBVIOUS
  <2>2. Handshake \in {Handshake} \cup App
    OBVIOUS
  <2>3. ReceiverOK(r) /\ r2 = recv_slice("server", r, Handshake) /\ r.recv_dic = {}
    BY <1>1, <1>4, <1>5, <2>1
  <2>4. ReceiverOK(r2) /\ r2.recv_dic = r.recv_dic
    BY <2>2, <2>3, ReceivedOK
  <2> QED
    BY <2>3, <2>4
<1>7. DOMAIN net' = Ends \cup {"listener"} /\ \A s \in Ends \cup {"listener"} : Handshakes(net'[s])
  BY <1>2, <1>4, <1>5
<1>8. DOMAIN rcv' = Ends /\ rcv'["server"] = r2 /\ rcv'[Peer("server")] = rcv[Peer("server")]
  BY <1>2, <1>3, <1>4, PeerFacts
<1> QED
  BY <1>2, <1>3, <1>6, <1>7, <1>8, HandshakingOK

-----------------------------------------------------------------------------
(* The initial states.                                                     *)

LEMMA NewOpsOK ==
  ASSUME NEW ops \in Seq(Nat \cup {Notification})
  PROVE  [i \in DOMAIN ops |-> NewOp(ops[i])] \in Seq(Operation)
<1>1. \A n \in Nat \cup {Notification} : NewOp(n) \in Operation
  BY OpsAssumption DEF NewOp, Operation, Notification
<1>2. DOMAIN ops = 1 .. Len(ops) /\ Len(ops) \in Nat
  OBVIOUS
<1>3. \A i \in 1 .. Len(ops) : ops[i] \in Nat \cup {Notification}
  OBVIOUS
<1>4. \A i \in 1 .. Len(ops) : NewOp(ops[i]) \in Operation
  BY <1>1, <1>3, Zenon
<1>5. [i \in 1 .. Len(ops) |-> NewOp(ops[i])] \in Seq(Operation)
  BY <1>2, <1>4
<1> QED
  BY <1>2, <1>5

LEMMA NewSenderOK ==
  ASSUME NEW l \in {"connect", "listen"}, NEW t \in Seq(Operation)
  PROVE  SenderOK(l, t, NewSender) /\ \A dic : SentOK(NewSender, dic)
<1>1. PICK s : s = NewSender
  OBVIOUS
<1>2. /\ DOMAIN s = SenderFields /\ s.data_buffer = <<>> /\ s.current = 1 /\ s.written = 0
      /\ s.written_len = 0 /\ s.messages = <<>> /\ s.buf = EmptySendBuf
      /\ s.recovery = EmptyRecovery /\ s.record_win = 0
  BY <1>1 DEF NewSender, SenderFields
<1>3. /\ s.record_send = <<>> /\ s.ack_point = 0 /\ s.sent_dic = <<>>
      /\ s.next_pkt_num = 0 /\ s.ack_set = {} /\ s.keyToValues = <<>> /\ s.valueToKeys = <<>>
      /\ s.retransmission_ack = <<>> /\ s.timeout_ack = <<>>
  BY <1>1 DEF NewSender
<1>4. DOMAIN <<>> = {}
  OBVIOUS
<1>5. BufOK(EmptySendBuf)
  <2>1. PICK b : b = EmptySendBuf
    OBVIOUS
  <2>2. /\ DOMAIN b = {"data", "off", "max_data", "sent", "offset_recv"}
        /\ b.data = <<>> /\ b.off = 0 /\ b.max_data = INI_WIN /\ b.offset_recv = <<>>
    BY <2>1 DEF EmptySendBuf
  <2>3. Offsets(b) = {}
    BY <1>4, <2>2 DEF Offsets
  <2>4. INI_WIN \in Int
    BY INI_WINIsNat
  <2>5. b.data \in Seq(Segment) /\ b.off \in Nat
    BY <2>2
  <2> QED
    BY <1>4, <2>1, <2>2, <2>3, <2>4, <2>5 DEF BufOK
<1>6. WindowOK(s)
  <2>1. RecoveryOK(EmptyRecovery)
    BY DEF RecoveryOK, EmptyRecovery
  <2> QED
    BY <1>2, <2>1 DEF WindowOK
<1>7. AskingOK(s)
  BY <1>3 DEF AskingOK
<1>8. Accounted(0, {}, <<>>, <<>>, <<>>, <<>>)
  BY <1>4 DEF Accounted
<1>9. QuestionsOK(s)
  BY <1>3, <1>8 DEF QuestionsOK
<1>10. WritingOK(l, t, s)
  BY <1>2 DEF WritingOK, InLoop
<1>11. s.messages \in Seq(App)
  BY <1>2
<1>12. SenderOK(l, t, s)
  BY <1>2, <1>5, <1>6, <1>7, <1>9, <1>10, <1>11 DEF SenderOK
<1>13. \A dic : SentOK(s, dic)
  BY <1>3, <1>4 DEF SentOK
<1> QED
  BY <1>1, <1>12, <1>13

LEMMA InitOK ==
  ASSUME Init
  PROVE  IInv
<1>1. /\ pc = [e \in Ends |-> IF e = "client" THEN "connect" ELSE "listen"]
      /\ todo = [e \in Ends |-> [i \in DOMAIN Ops[e] |-> NewOp(Ops[e][i])]]
      /\ snd = [e \in Ends |-> NewSender] /\ rcv = [e \in Ends |-> NewReceiver]
      /\ net = [s \in Ends \cup {"listener"} |-> <<>>] /\ faults = 0
  BY DEF Init
<1>2. pc \in [Ends -> Labels]
  BY <1>1 DEF Labels
<1>3. faults \in 0 .. MaxFaults
  BY <1>1, BoundsAssumption
<1>4. ASSUME NEW e \in Ends
      PROVE  /\ SenderOK(pc[e], todo[e], snd[e]) /\ ReceiverOK(rcv[e])
             /\ SentOK(snd[e], rcv[Peer(e)].recv_dic)
  <2>1. pc[e] \in {"connect", "listen"} /\ snd[e] = NewSender /\ rcv[e] = NewReceiver
    BY <1>1
  <2>2. todo[e] = [i \in DOMAIN Ops[e] |-> NewOp(Ops[e][i])]
    BY <1>1
  <2>3. PICK ops \in Seq(Nat \cup {Notification}) : ops = Ops[e]
    BY OpsAssumption
  <2>4. todo[e] \in Seq(Operation)
    BY <2>2, <2>3, NewOpsOK
  <2>5. SenderOK(pc[e], todo[e], NewSender) /\ \A dic : SentOK(NewSender, dic)
    BY <2>1, <2>4, NewSenderOK
  <2> QED
    BY <2>1, <2>5, NewReceiverOK
<1>5. \A s \in Ends \cup {"listener"} : Handshakes(net[s])
  <2>1. Handshakes(<<>>)
    BY DEF Handshakes
  <2> QED
    BY <1>1, <2>1
<1>6. NetOK
  <2>1. \A e \in Ends : QueueOK(net[e], snd[e], snd[Peer(e)], rcv[Peer(e)].recv_dic)
    BY <1>5, QueueOfHandshakes
  <2> QED
    BY <1>1, <1>5, <2>1 DEF NetOK
<1>7. Pristine
  <2>1. \A e \in Ends : pc[e] \in Setup \cup {"idle"}
    BY <1>1 DEF Setup
  <2>2. \A e \in Ends : rcv[e].recv_dic = {} /\ rcv[e].rttZero = TRUE
    BY <1>1 DEF NewReceiver
  <2> QED
    BY <1>5, <2>1, <2>2 DEF Pristine, Ends
<1>8. DOMAIN todo = Ends /\ DOMAIN snd = Ends /\ DOMAIN rcv = Ends
  BY <1>1
<1> QED
  BY <1>2, <1>3, <1>4, <1>6, <1>7, <1>8 DEF IInv

-----------------------------------------------------------------------------
(* The theorems.                                                           *)

LEMMA StutterOK ==
  ASSUME IInv, UNCHANGED vars
  PROVE  IInv'
BY DEF IInv, NetOK, Pristine, vars

LEMMA NextOK ==
  ASSUME IInv, [Next]_vars
  PROVE  IInv'
<1>1. CASE UNCHANGED vars
  BY <1>1, StutterOK
<1>2. CASE HandshakeStep
  BY <1>2, ConnectDmludpStep, ListenStep, ConnectedStep, AcceptedStep DEF HandshakeStep
<1>3. ASSUME NEW e \in Ends, WriteStep(e) PROVE IInv'
  BY <1>3, StartWriteStep, SendMmsgStep, FillStep, EmitStep, ElicitStep, NothingTimedOutStep,
     EndRoundStep, ReadInLoopStep DEF WriteStep
<1>4. ASSUME NEW e \in Ends, Step(e) PROVE IInv'
  BY <1>3, <1>4, RetransmitStep, HandleReadStep DEF Step
<1>5. ASSUME NEW e \in Ends, Fault(e) PROVE IInv'
  BY <1>5, NetworkStep, EmitStep DEF Fault
<1> QED
  BY <1>1, <1>2, <1>4, <1>5 DEF Next

(* The inductive invariant holds throughout.                               *)
THEOREM DmludpInvariant == Spec => []IInv
<1>1. Init => IInv
  BY InitOK
<1>2. IInv /\ [Next]_vars => IInv'
  BY NextOK
<1> QED
  BY <1>1, <1>2, PTL DEF Spec

LEMMA TypesFollow ==
  ASSUME IInv
  PROVE  TypeOK
<1>1. pc \in [Ends -> Labels] /\ faults \in 0 .. MaxFaults
  BY DomainFacts
<1>2. ASSUME NEW s \in DOMAIN net, NEW i \in DOMAIN net[s] PROVE net[s][i].type \in Types
  <2>1. net[s] \in Seq(Datagram)
    BY DEF IInv, NetOK, QueueOK, Handshakes
  <2>2. net[s][i] \in Datagram
    BY <2>1
  <2> QED
    BY <2>2, TypeOfDatagram
<1>3. ASSUME NEW e \in Ends
      PROVE  /\ \A i \in DOMAIN snd[e].buf.data : snd[e].buf.data[i] \in Segment
             /\ Offsets(snd[e].buf) = DOMAIN snd[e].buf.offset_recv
             /\ snd[e].ack_point \in 0 .. Len(snd[e].record_send)
             /\ rcv[e].recv_dic \subseteq Nat
  <2>1. SenderOK(pc[e], todo[e], snd[e]) /\ ReceiverOK(rcv[e])
    BY EndFacts
  <2>2. BufOK(snd[e].buf) /\ AskingOK(snd[e])
    BY <2>1 DEF SenderOK
  <2>3. snd[e].buf.data \in Seq(Segment) /\ Offsets(snd[e].buf) = DOMAIN snd[e].buf.offset_recv
    BY <2>2 DEF BufOK
  <2>4. \A i \in DOMAIN snd[e].buf.data : snd[e].buf.data[i] \in Segment
    BY <2>3
  <2>5. snd[e].ack_point \in 0 .. Len(snd[e].record_send)
    BY <2>2 DEF AskingOK
  <2>6. rcv[e].recv_dic \subseteq Nat
    BY <2>1 DEF ReceiverOK
  <2> QED
    BY <2>3, <2>4, <2>5, <2>6
<1> QED
  BY <1>1, <1>2, <1>3 DEF TypeOK

LEMMA AccountsFollow ==
  ASSUME NEW s, QuestionsOK(s)
  PROVE  /\ DOMAIN s.keyToValues = s.ack_set
         /\ DOMAIN s.valueToKeys = UNION {Range(s.keyToValues[k]) : k \in s.ack_set}
         /\ DOMAIN s.valueToKeys = DOMAIN s.retransmission_ack \cup DOMAIN s.timeout_ack
         /\ DOMAIN s.retransmission_ack \cap DOMAIN s.timeout_ack = {}
         /\ \A k \in s.ack_set :
              /\ Cardinality(Range(s.keyToValues[k]) \cap DOMAIN s.retransmission_ack) = 1
              /\ \A v \in Range(s.keyToValues[k]) : s.valueToKeys[v] = k
<1>1. PICK A : A = s.ack_set
  OBVIOUS
<1>2. PICK K : K = s.keyToValues
  OBVIOUS
<1>3. PICK V : V = s.valueToKeys
  OBVIOUS
<1>4. PICK T : T = s.retransmission_ack
  OBVIOUS
<1>5. Accounted(s.next_pkt_num, A, K, V, T, s.timeout_ack)
  BY <1>1, <1>2, <1>3, <1>4 DEF QuestionsOK
<1>6. /\ DOMAIN K = A /\ DOMAIN V = DOMAIN T \cup DOMAIN s.timeout_ack
      /\ DOMAIN T \cap DOMAIN s.timeout_ack = {}
  BY <1>5 DEF Accounted
<1>7. \A v \in DOMAIN V : V[v] \in A /\ v \in Range(K[V[v]])
  BY <1>5 DEF Accounted
<1>8. \A k \in A : /\ \A v \in Range(K[k]) : v \in DOMAIN V /\ V[v] = k
                   /\ \E v \in Nat : Range(K[k]) \cap DOMAIN T = {v}
  BY <1>5 DEF Accounted
<1>9. DOMAIN V = UNION {Range(K[k]) : k \in A}
  <2>1. \A v \in DOMAIN V : \E k \in A : v \in Range(K[k])
    BY <1>7
  <2>2. \A k \in A : Range(K[k]) \subseteq DOMAIN V
    BY <1>8
  <2> QED
    BY <2>1, <2>2
<1>10. ASSUME NEW k \in A PROVE Cardinality(Range(K[k]) \cap DOMAIN T) = 1
  <2>1. PICK v \in Nat : Range(K[k]) \cap DOMAIN T = {v}
    BY <1>8
  <2>2. Cardinality({v}) = 1
    BY FS_Singleton
  <2> QED
    BY <2>1, <2>2
<1> QED
  BY <1>1, <1>2, <1>3, <1>4, <1>6, <1>8, <1>9, <1>10

(* Every question is accounted for, and all types are right: whatever is   *)
(* lost, repeated or late, send_elicit_ack and process_ack keep the maps   *)
(* of question numbers in agreement (connection.h:196-201).                *)
THEOREM QuestionsStayAccountedFor == Spec => []QuestionsAccountedFor
<1>1. IInv => QuestionsAccountedFor
  <2> SUFFICES ASSUME IInv PROVE QuestionsAccountedFor
    OBVIOUS
  <2>1. TypeOK
    BY TypesFollow
  <2>2. \A e \in Ends : QuestionsOK(snd[e])
    BY EndFacts
  <2> QED
    BY <2>1, <2>2, AccountsFollow DEF QuestionsAccountedFor
<1> QED
  BY <1>1, DmludpInvariant, PTL

(* An ACK on its way reports as received only what was received, and one   *)
(* that will be accepted covers its whole question (check_loss,            *)
(* process_ack).                                                           *)
THEOREM AcksStayTrue == Spec => []AcksAreTrue
<1>1. IInv => AcksAreTrue
  <2> SUFFICES ASSUME IInv, NEW e \in Ends, NEW i \in DOMAIN net[e], net[e][i].type = "ACK"
               PROVE  /\ \A o \in DOMAIN net[e][i].status :
                           net[e][i].status[o] = 0 => o \in rcv[Peer(e)].recv_dic
                      /\ Awaited(snd[e], net[e][i].pn) =>
                           Asked(snd[e], net[e][i].pn) \subseteq DOMAIN net[e][i].status
    BY DEF AcksAreTrue
  <2>1. QueueOK(net[e], snd[e], snd[Peer(e)], rcv[Peer(e)].recv_dic)
    BY EndFacts
  <2>2. ReplyOK(net[e][i], snd[e], rcv[Peer(e)].recv_dic)
    BY <2>1 DEF QueueOK, DatagramOK
  <2> QED
    BY <2>2 DEF ReplyOK, IsTrue
<1> QED
  BY <1>1, DmludpInvariant, PTL

(* ack_and_drop and recv_and_drop let go of a segment whose priority is    *)
(* defined only if the peer has received it, or it has used up its         *)
(* transmissions.                                                          *)
THEOREM DroppedWasReceived == Spec => []DroppedIsReceived
<1>1. IInv => DroppedIsReceived
  <2> SUFFICES ASSUME IInv, NEW e \in Ends, NEW o \in DOMAIN snd[e].sent_dic,
                      InBounds(o), o \notin Offsets(snd[e].buf)
               PROVE  o \in rcv[Peer(e)].recv_dic \/ snd[e].sent_dic[o] = 0
    BY DEF DroppedIsReceived
  <2>1. SentOK(snd[e], rcv[Peer(e)].recv_dic)
    BY EndFacts
  <2> QED
    BY <2>1 DEF SentOK
<1> QED
  BY <1>1, DmludpInvariant, PTL
=============================================================================
