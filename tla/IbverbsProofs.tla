--------------------------- MODULE IbverbsProofs ----------------------------
(***************************************************************************)
(* Proofs about the ibverbs transport, for any set of slots, any capacity  *)
(* of the queues and any number of operations: a send writes into the      *)
(* peer's buffer for its own slot, the bench of receives is full whenever  *)
(* completions have been handled, and no completion is refused.            *)
(***************************************************************************)
EXTENDS Ibverbs, FiniteSetTheorems, SequenceTheorems, WellFoundedInduction, TLAPS

-----------------------------------------------------------------------------
(* Counting completions.                                                   *)

LEMMA CountType ==
  ASSUME NEW T, NEW q \in Seq(T), NEW S
  PROVE  /\ Count(q, S) \in Nat
         /\ IsFiniteSet({k \in DOMAIN q : q[k] \in S})
<1>1. DOMAIN q = 1 .. Len(q) /\ Len(q) \in Nat
  OBVIOUS
<1>2. IsFiniteSet(1 .. Len(q))
  BY <1>1, FS_Interval
<1>3. {k \in DOMAIN q : q[k] \in S} \in SUBSET (1 .. Len(q))
  BY <1>1
<1>4. IsFiniteSet({k \in DOMAIN q : q[k] \in S})
  BY <1>2, <1>3, FS_Subset
<1> QED
  BY <1>4, FS_CardinalityType DEF Count

LEMMA CountEmpty ==
  ASSUME NEW S PROVE Count(<<>>, S) = 0
<1>1. {k \in DOMAIN <<>> : <<>>[k] \in S} = {}
  OBVIOUS
<1> QED
  BY <1>1, FS_EmptySet DEF Count

LEMMA CountAppend ==
  ASSUME NEW T, NEW q \in Seq(T), NEW e \in T, NEW S
  PROVE  /\ Append(q, e) \in Seq(T)
         /\ Count(Append(q, e), S) = Count(q, S) + (IF e \in S THEN 1 ELSE 0)
<1> DEFINE D == {k \in DOMAIN q : q[k] \in S}
           p == Append(q, e)
           E == {k \in DOMAIN p : p[k] \in S}
           n == Len(q) + 1
<1>1. IsFiniteSet(D) /\ Count(q, S) \in Nat
  BY CountType
<1>2. DOMAIN q = 1 .. Len(q) /\ DOMAIN p = 1 .. n /\ Len(q) \in Nat
  OBVIOUS
<1>3. p[n] = e /\ \A k \in 1 .. Len(q) : p[k] = q[k]
  OBVIOUS
<1>4. n \notin D
  BY <1>2
<1>5. ASSUME e \in S PROVE Cardinality(E) = Cardinality(D) + 1
  <2>1. E = D \cup {n}
    BY <1>2, <1>3, <1>5
  <2> QED
    BY <1>1, <1>4, <2>1, FS_AddElement
<1>6. ASSUME e \notin S PROVE Cardinality(E) = Cardinality(D)
  <2>1. E = D
    BY <1>2, <1>3, <1>6
  <2> QED
    BY <2>1
<1>7. p \in Seq(T)
  OBVIOUS
<1>8. Cardinality(D) = Count(q, S) /\ Cardinality(E) = Count(p, S)
  BY DEF Count
<1> HIDE DEF D, E
<1> QED
  BY <1>1, <1>5, <1>6, <1>7, <1>8

LEMMA CountTail ==
  ASSUME NEW T, NEW q \in Seq(T), q # <<>>, NEW S
  PROVE  /\ Tail(q) \in Seq(T) /\ Len(Tail(q)) = Len(q) - 1
         /\ Count(Tail(q), S) = Count(q, S) - (IF Head(q) \in S THEN 1 ELSE 0)
<1>0. PICK p \in Seq(T) : p = Tail(q) /\ Len(p) = Len(q) - 1 /\ \A k \in 1 .. Len(p) : p[k] = q[k + 1]
  <2>1. Tail(q) \in Seq(T) /\ Len(Tail(q)) = Len(q) - 1
    OBVIOUS
  <2>2. \A k \in 1 .. Len(q) - 1 : Tail(q)[k] = q[k + 1]
    OBVIOUS
  <2> QED
    BY <2>1, <2>2
<1> DEFINE D == {k \in DOMAIN q : q[k] \in S}
           E == {k \in DOMAIN p : p[k] \in S}
           f == [k \in E |-> k + 1]
<1>1. IsFiniteSet(D) /\ IsFiniteSet(E) /\ Cardinality(D) \in Nat /\ Cardinality(E) \in Nat
  BY CountType, FS_CardinalityType
<1>2. DOMAIN q = 1 .. Len(q) /\ DOMAIN p = 1 .. Len(p) /\ Len(q) \in Nat /\ Len(p) \in Nat
  OBVIOUS
<1>3. \A k \in E : f[k] \in D \ {1}
  BY <1>0, <1>2
<1>4. \A k, l \in E : f[k] = f[l] => k = l
  BY <1>2
<1>5. \A d \in D \ {1} : \E k \in E : f[k] = d
  <2> TAKE d \in D \ {1}
  <2>1. d \in 1 .. Len(q) /\ d # 1 /\ q[d] \in S
    BY <1>2
  <2>2. d - 1 \in 1 .. Len(p) /\ (d - 1) + 1 = d
    BY <1>0, <1>2, <2>1
  <2>3. p[d - 1] = q[d]
    BY <1>0, <2>2
  <2>4. d - 1 \in E
    BY <1>2, <2>1, <2>2, <2>3
  <2> QED
    BY <2>2, <2>4
<1>6. f \in Bijection(E, D \ {1})
  BY <1>3, <1>4, <1>5 DEF Bijection, Injection, Surjection, IsInjective
<1>7. Cardinality(D \ {1}) = Cardinality(E)
  BY <1>1, <1>6, FS_Bijection DEF ExistsBijection
<1>8. Cardinality(D \ {1}) = IF 1 \in D THEN Cardinality(D) - 1 ELSE Cardinality(D)
  BY <1>1, FS_RemoveElement
<1>9. 1 \in D <=> Head(q) \in S
  BY <1>2
<1>10. Cardinality(D) = Count(q, S) /\ Cardinality(E) = Count(Tail(q), S)
  BY <1>0 DEF Count
<1> HIDE DEF D, E
<1> QED
  BY <1>0, <1>1, <1>7, <1>8, <1>9, <1>10

(* Each element is counted with itself.                                    *)
LEMMA CountPositive ==
  ASSUME NEW T, NEW q \in Seq(T), NEW S
  PROVE  Count(q, S) > 0 <=> \E k \in DOMAIN q : q[k] \in S
<1> DEFINE D == {k \in DOMAIN q : q[k] \in S}
<1>1. IsFiniteSet(D) /\ Count(q, S) \in Nat
  BY CountType
<1>2. Cardinality(D) = 0 <=> D = {}
  BY <1>1, FS_EmptySet
<1>3. D # {} <=> \E k \in DOMAIN q : q[k] \in S
  OBVIOUS
<1> QED
  BY <1>1, <1>2, <1>3 DEF Count

(* Up to an element that is counted there is one, and no more than in all. *)
LEMMA CountPrefix ==
  ASSUME NEW T, NEW q \in Seq(T), NEW S, NEW k \in DOMAIN q
  PROVE  /\ Count(SubSeq(q, 1, k), S) \in Nat /\ Count(SubSeq(q, 1, k), S) <= Count(q, S)
         /\ q[k] \in S => Count(SubSeq(q, 1, k), S) >= 1
<1>1. PICK p \in Seq(T) : p = SubSeq(q, 1, k) /\ Len(p) = k /\ \A l \in 1 .. k : p[l] = q[l]
  <2>1. k \in 1 .. Len(q)
    OBVIOUS
  <2>2. SubSeq(q, 1, k) \in Seq(T) /\ Len(SubSeq(q, 1, k)) = k
    BY <2>1
  <2>3. \A l \in 1 .. k : SubSeq(q, 1, k)[l] = q[l]
    BY <2>1
  <2> QED
    BY <2>2, <2>3
<1>2. k \in 1 .. Len(q) /\ Len(q) \in Nat /\ DOMAIN q = 1 .. Len(q) /\ DOMAIN p = 1 .. k
  BY <1>1
<1> DEFINE D == {l \in DOMAIN q : q[l] \in S}
           E == {l \in DOMAIN p : p[l] \in S}
<1>3. IsFiniteSet(D) /\ Count(p, S) \in Nat /\ Count(q, S) \in Nat
  BY CountType
<1>4. E \in SUBSET D
  BY <1>1, <1>2
<1>5. Cardinality(E) <= Cardinality(D)
  BY <1>3, <1>4, FS_Subset
<1>6. Count(p, S) <= Count(q, S)
  BY <1>5 DEF Count
<1>7. ASSUME q[k] \in S PROVE Count(p, S) >= 1
  <2>1. k \in DOMAIN p /\ p[k] \in S
    BY <1>1, <1>2, <1>7
  <2>2. Count(p, S) > 0
    BY <2>1, CountPositive
  <2> QED
    BY <1>3, <2>2
<1> QED
  BY <1>1, <1>3, <1>6, <1>7

(* Completions are of incoming or of outgoing work.                        *)
LEMMA CountKinds ==
  ASSUME NEW q \in Seq(Work)
  PROVE  Len(q) = Count(q, Of(Incoming, Slots)) + Count(q, Of(Outgoing, Slots))
<1> DEFINE D == {k \in DOMAIN q : q[k] \in Of(Incoming, Slots)}
           E == {k \in DOMAIN q : q[k] \in Of(Outgoing, Slots)}
<1>1. IsFiniteSet(D) /\ IsFiniteSet(E)
  BY CountType
<1>2. DOMAIN q = 1 .. Len(q) /\ Len(q) \in Nat
  OBVIOUS
<1>3. \A w \in Work : w \in Of(Incoming, Slots) <=> w \notin Of(Outgoing, Slots)
  BY DEF Work, Of, Incoming, Outgoing
<1>4. \A k \in DOMAIN q : q[k] \in Work
  OBVIOUS
<1>5. D \cup E = 1 .. Len(q) /\ D \cap E = {}
  BY <1>2, <1>3, <1>4
<1>6. Cardinality(D \cup E) = Cardinality(D) + Cardinality(E) - Cardinality(D \cap E)
  BY <1>1, FS_Union
<1>7. Cardinality(D \cup E) = Len(q) /\ Cardinality(D \cap E) = 0
  <2>1. Cardinality(1 .. Len(q)) = Len(q)
    BY <1>2, FS_Interval
  <2>2. Cardinality({}) = 0
    BY FS_EmptySet
  <2> QED
    BY <1>5, <2>1, <2>2
<1>8. Cardinality(D) \in Nat /\ Cardinality(E) \in Nat
  BY <1>1, FS_CardinalityType
<1> QED
  BY <1>6, <1>7, <1>8 DEF Count

-----------------------------------------------------------------------------
(* The inbox wraps around.                                                 *)

LEMMA Division ==
  ASSUME NEW K \in Nat \ {0}, NEW a \in Nat
  PROVE  a = K * (a \div K) + (a % K) /\ a \div K \in Nat /\ a % K \in 0 .. K - 1
OBVIOUS

LEMMA Remainder ==
  ASSUME NEW K \in Nat \ {0}, NEW q \in Int, NEW r \in 0 .. K - 1
  PROVE  (K * q + r) % K = r
OBVIOUS

LEMMA MultiplesApart ==
  ASSUME NEW K \in Nat \ {0}, NEW q \in Int, NEW p \in Int, K * q - K * p > 0
  PROVE  K * q - K * p >= K
OBVIOUS

LEMMA OnceAround ==
  ASSUME NEW K \in Nat \ {0}, NEW a \in Nat
  PROVE  (a + K) % K = a % K
<1>1. PICK q \in Nat, r \in 0 .. K - 1 : a = K * q + r /\ a % K = r
  BY Division
<1>2. a + K = K * (q + 1) + r
  BY <1>1
<1>3. (K * (q + 1) + r) % K = r
  BY Remainder
<1> QED
  BY <1>1, <1>2, <1>3

LEMMA NearApart ==
  ASSUME NEW K \in Nat \ {0}, NEW a \in Nat, NEW b \in Nat, a < b, b < a + K
  PROVE  a % K # b % K
<1>1. PICK q \in Nat, r \in 0 .. K - 1 : a = K * q + r /\ a % K = r
  BY Division
<1>2. PICK p \in Nat, e \in 0 .. K - 1 : b = K * p + e /\ b % K = e
  BY Division
<1>3. SUFFICES ASSUME r = e PROVE FALSE
  BY <1>1, <1>2
<1>4. PICK x \in Int, y \in Int : x = K * q /\ y = K * p
  OBVIOUS
<1>5. y - x > 0 /\ y - x < K
  BY <1>1, <1>2, <1>3, <1>4
<1>6. y - x > 0 => y - x >= K
  BY <1>4, MultiplesApart
<1> QED
  BY <1>4, <1>5, <1>6

-----------------------------------------------------------------------------
(* The inductive invariant.                                                *)

(* Completions w on their way: in the send queue, or to be handled.        *)
InFlight(w) == Count(sq, {w}) + Unhandled({w})

(* Which thread polls, and so has a batch.                                 *)
Pollers ==
  /\ dev \notin {"handle", "handle, poll"} => batch["device"] = <<>>
  /\ ~sync => ~raced /\ batch["user"] = <<>>
  /\ sync /\ ~raced => dev = "idle"

Wc(opcode, s) == [opcode |-> opcode, slot |-> s]

Accounted(s) ==
  /\ sender[s] # "idle" => s \in handlers.send
  /\ s \in exposed => s \in handlers.recv
  /\ InFlight(Wc("RECV_RDMA_WITH_IMM", s)) > 0 => s \in exposed
  /\ InFlight(Wc("RDMA_WRITE", s)) > 0 => s \in handlers.send
  /\ sendPending[s] >= InFlight(Wc("RDMA_WRITE", s)) + IF sender[s] = "region" THEN 1 ELSE 0
  /\ InFlight(Wc("SEND", s)) <= 1
  /\ InFlight(Wc("SEND", s)) > 0 => s \in sendRegions /\ s \in handlers.recv

Queues ==
  /\ \A k \in DOMAIN sq : sq[k] \in Of(Outgoing, Slots)
  /\ Len(sq) + Count(cq, Of(Outgoing, Slots)) <= kMaxBuffers
  /\ Len(rq) + Unhandled(Of(Incoming, Slots)) <= kMaxBuffers
  /\ Orderly => Len(rq) + Unhandled(Of(Incoming, Slots)) = kMaxBuffers

(* The regions among the completions wcs are in the inboxes ib at the      *)
(* positions of their receives, of which the first is number first.        *)
Placed(ib, wcs, first) ==
  \A k \in DOMAIN wcs : wcs[k].opcode = "RECV" =>
    ib[InboxIndex(first + Received(SubSeq(wcs, 1, k)) - 1)] = wcs[k].slot

Positions ==
  /\ Placed(inbox, batch["device"], recvPosted)
  /\ Placed(inbox, batch["user"], recvPosted)
  /\ Placed(inbox, cq, recvPosted + Received(batch["device"]) + Received(batch["user"]))
  /\ \A k \in DOMAIN rq : rq[k] = InboxIndex(recvPosted + Unhandled(Of(Incoming, Slots)) + k - 1)
  /\ \A s \in Slots : peerRegions[s] \in {None, s}

IbInv == TypeOK /\ Pollers /\ (\A s \in Slots : Accounted(s)) /\ Queues /\ (Orderly => Positions)


LEMMA InitInv == Init => IbInv
<1> SUFFICES ASSUME Init PROVE IbInv
  OBVIOUS
<1>1. \A S : Count(<<>>, S) = 0
  BY CountEmpty
<1>2. /\ sq = <<>> /\ cq = <<>> /\ batch["device"] = <<>> /\ batch["user"] = <<>>
      /\ Len(rq) = kMaxBuffers /\ rq \in Seq(0 .. kMaxBuffers - 1)
  <2>1. rq = [k \in 1 .. kMaxBuffers |-> k - 1]
    BY DEF Init
  <2>2. \A k \in 1 .. kMaxBuffers : k - 1 \in 0 .. kMaxBuffers - 1
    BY BuffersAssumption
  <2> QED
    BY <2>1, <2>2, BuffersAssumption DEF Init
<1>3. \A S : Unhandled(S) = 0
  BY <1>1, <1>2 DEF Unhandled
<1>4. \A w : InFlight(w) = 0
  BY <1>1, <1>2, <1>3 DEF InFlight
<1>5. TypeOK
  <2>1. /\ sync \in BOOLEAN /\ raced \in BOOLEAN /\ ex \in BOOLEAN /\ stuck \in BOOLEAN
        /\ armed \in BOOLEAN
    BY DEF Init
  <2>2. /\ handlers \in [send : SUBSET Slots, recv : SUBSET Slots]
        /\ bufferEx \in [send : SUBSET Slots, recv : SUBSET Slots]
        /\ sendRegions \subseteq Slots /\ announced \subseteq Slots /\ exposed \subseteq Slots
    BY DEF Init
  <2>3. /\ peerRegions \in [Slots -> Slots \cup {None}]
        /\ inbox \in [0 .. kMaxBuffers - 1 -> Slots \cup {None}]
        /\ batch \in [{"device", "user"} -> Seq(Work)]
    BY DEF Init
  <2>4. /\ sendPending \in [Slots -> Nat] /\ sendCompletions \in [Slots -> Nat]
        /\ recvCompletions \in [Slots -> Nat]
        /\ sender \in [Slots -> {"idle", "region", "wait", "threw"}]
        /\ receiver \in [Slots -> {"idle", "wait", "threw"}]
        /\ dev \in {"idle", "arm", "lock", "poll", "handle", "handle, poll"}
    BY DEF Init
  <2>5. events \in Nat /\ recvPosted \in Nat /\ nsend \in Nat /\ narrive \in Nat /\ timeouts \in Nat
    BY BuffersAssumption DEF Init
  <2>6. sq \in Seq(Work) /\ cq \in Seq(Work)
    BY <1>2
  <2> QED
    BY <1>2, <2>1, <2>2, <2>3, <2>4, <2>5, <2>6 DEF TypeOK
<1>6. Pollers
  BY <1>2 DEF Init, Pollers
<1>7. \A s \in Slots : Accounted(s)
  BY <1>4 DEF Init, Accounted
<1>8. Queues
  BY <1>1, <1>2, <1>3, BuffersAssumption DEF Queues
<1>9. Positions
  <2>1. Placed(inbox, <<>>, recvPosted) /\ Placed(inbox, <<>>, recvPosted + 0 + 0)
    BY DEF Placed
  <2>2. \A k \in DOMAIN rq : rq[k] = InboxIndex(recvPosted + 0 + k - 1)
    <3> TAKE k \in DOMAIN rq
    <3>1. k \in 1 .. kMaxBuffers /\ rq[k] = k - 1 /\ recvPosted = kMaxBuffers
      BY <1>2 DEF Init
    <3>2. k - 1 \in Nat /\ k - 1 \in 0 .. kMaxBuffers - 1 /\ kMaxBuffers \in Nat \ {0}
      BY <3>1, BuffersAssumption
    <3>3. (k - 1 + kMaxBuffers) % kMaxBuffers = (k - 1) % kMaxBuffers
      BY <3>2, OnceAround
    <3>4. (k - 1) % kMaxBuffers = k - 1
      BY <3>2
    <3>5. recvPosted + 0 + k - 1 = k - 1 + kMaxBuffers
      BY <3>1, <3>2
    <3> QED
      BY <3>1, <3>3, <3>4, <3>5 DEF InboxIndex
  <2>3. \A s \in Slots : peerRegions[s] \in {None, s}
    BY DEF Init
  <2>4. Received(<<>>) = 0
    BY <1>1 DEF Received
  <2> QED
    BY <1>2, <1>3, <2>1, <2>2, <2>3, <2>4 DEF Positions
<1> QED
  BY <1>5, <1>6, <1>7, <1>8, <1>9 DEF IbInv

-----------------------------------------------------------------------------
(* What the steps do to the queues, the batches and the inbox.             *)

Pollings == {"device", "user"}
Placement == <<rq, inbox, recvPosted, peerRegions>>

Quiet == UNCHANGED <<sq, cq, batch, Placement>>

Acks ==
  /\ sq # <<>> /\ sq' = Tail(sq) /\ cq' = Append(cq, Head(sq))
  /\ UNCHANGED <<batch, Placement>>

Arrives(x) ==
  /\ rq # <<>> /\ rq' = Tail(rq) /\ cq' = Append(cq, x)
  /\ inbox' = IF x.opcode = "RECV" THEN [inbox EXCEPT ![Head(rq)] = x.slot] ELSE inbox
  /\ UNCHANGED <<sq, batch, recvPosted, peerRegions>>

Posts(x) ==
  /\ ~QueueFull /\ sq' = Append(sq, x)
  /\ UNCHANGED <<cq, batch, Placement>>

Polls(t) ==
  /\ batch[t] = <<>> /\ batch' = [batch EXCEPT ![t] = cq] /\ cq' = <<>>
  /\ UNCHANGED <<sq, Placement>>

Handles(t) ==
  /\ batch' = [batch EXCEPT ![t] = <<>>]
  /\ HandleCompletions(batch[t])
  /\ UNCHANGED <<sq, cq>>

Loses(t) ==
  /\ ex /\ batch' = [batch EXCEPT ![t] = <<>>]
  /\ UNCHANGED <<sq, cq, Placement>>

Kinds ==
  \/ Quiet \/ Acks
  \/ \E x \in Of(Incoming, Slots) : Arrives(x)
  \/ \E x \in Of(Outgoing, Slots) : Posts(x)
  \/ \E t \in Pollings : Polls(t) \/ Handles(t) \/ Loses(t)

LEMMA WorkMeaning ==
  /\ \A w \in Work : w = Wc(w.opcode, w.slot) /\ w.slot \in Slots
  /\ \A s \in Slots : /\ Wc("RECV", s) \in Of(Incoming, Slots) /\ Wc("RECV", s) \in Work
                      /\ Wc("RECV_RDMA_WITH_IMM", s) \in Of(Incoming, Slots)
                      /\ Wc("RDMA_WRITE", s) \in Of(Outgoing, Slots)
                      /\ Wc("SEND", s) \in Of(Outgoing, Slots)
  /\ \A x \in Of(Incoming, Slots) : x \in Work /\ x \notin Of(Outgoing, Slots)
  /\ \A x \in Of(Outgoing, Slots) : x \in Work /\ x \notin Of(Incoming, Slots)
<1>1. \A w \in Work : w = Wc(w.opcode, w.slot) /\ w.slot \in Slots
  BY DEF Work, Of, Wc
<1>2. \A s \in Slots : /\ Wc("RECV", s) \in Of(Incoming, Slots) /\ Wc("RECV", s) \in Work
                       /\ Wc("RECV_RDMA_WITH_IMM", s) \in Of(Incoming, Slots)
                       /\ Wc("RDMA_WRITE", s) \in Of(Outgoing, Slots)
                       /\ Wc("SEND", s) \in Of(Outgoing, Slots)
  BY DEF Wc, Of, Work, Incoming, Outgoing
<1>3. /\ \A x \in Of(Incoming, Slots) : x \in Work /\ x \notin Of(Outgoing, Slots)
      /\ \A x \in Of(Outgoing, Slots) : x \in Work /\ x \notin Of(Incoming, Slots)
  BY DEF Of, Work, Incoming, Outgoing
<1> QED
  BY <1>1, <1>2, <1>3

LEMMA StepKinds ==
  ASSUME TypeOK, Pollers, Next
  PROVE  Kinds
<1> USE DEF Placement, regions, queue
<1>1. CASE Acknowledge
  <2>1. sq # <<>> /\ sq \in Seq(Work)
    BY <1>1 DEF Acknowledge, TypeOK
  <2>2. Head(sq) \in Work
    BY <2>1
  <2>3. Head(sq) = Wc(Head(sq).opcode, Head(sq).slot)
    BY <2>2, WorkMeaning
  <2>4. cq' = Append(cq, Head(sq))
    BY <1>1, <2>3 DEF Acknowledge, Push, Wc
  <2> QED
    BY <1>1, <2>1, <2>4 DEF Acknowledge, Acks, Kinds
<1>2. ASSUME NEW s \in Slots, RegionArrives(s) PROVE Kinds
  <2>1. Wc("RECV", s).opcode = "RECV" /\ Wc("RECV", s).slot = s
    BY DEF Wc
  <2>2. cq' = Append(cq, Wc("RECV", s))
    BY <1>2 DEF RegionArrives, Push, Wc
  <2>3. Arrives(Wc("RECV", s))
    BY <1>2, <2>1, <2>2 DEF RegionArrives, Arrives
  <2> QED
    BY <2>3, WorkMeaning DEF Kinds
<1>3. ASSUME NEW s \in Slots, WriteArrives(s) PROVE Kinds
  <2>1. Wc("RECV_RDMA_WITH_IMM", s).opcode # "RECV"
    BY DEF Wc
  <2>2. cq' = Append(cq, Wc("RECV_RDMA_WITH_IMM", s))
    BY <1>3 DEF WriteArrives, Push, Wc
  <2>3. Arrives(Wc("RECV_RDMA_WITH_IMM", s))
    BY <1>3, <2>1, <2>2 DEF WriteArrives, Arrives
  <2> QED
    BY <2>3, WorkMeaning DEF Kinds
<1>4. ASSUME NEW s \in Slots, CreateRecvBuffer(s) PROVE Kinds
  <2>1. CASE ~QueueFull
    <3>1. Posts(Wc("SEND", s))
      BY <1>4, <2>1 DEF CreateRecvBuffer, Posts, Wc
    <3> QED
      BY <3>1, WorkMeaning DEF Kinds
  <2>2. CASE QueueFull
    BY <1>4, <2>2 DEF CreateRecvBuffer, Quiet, Kinds
  <2> QED
    BY <2>1, <2>2
<1>5. ASSUME NEW s \in Slots, PostSend(s) PROVE Kinds
  <2>1. CASE ~QueueFull
    <3>1. Posts(Wc("RDMA_WRITE", s))
      BY <1>5, <2>1 DEF PostSend, Posts, Wc
    <3> QED
      BY <3>1, WorkMeaning DEF Kinds
  <2>2. CASE QueueFull
    BY <1>5, <2>2 DEF PostSend, Quiet, Kinds
  <2> QED
    BY <2>1, <2>2
<1>6. CASE Poll
  <2>1. Polls("device")
    BY <1>6 DEF Poll, Polls, Pollers
  <2> QED
    BY <2>1 DEF Kinds, Pollings
<1>7. CASE HandleBatch
  <2>1. Handles("device") \/ Loses("device")
    BY <1>7 DEF HandleBatch, Handles, Loses
  <2> QED
    BY <2>1 DEF Kinds, Pollings
<1>8. CASE UserPoll
  <2>1. Polls("user")
    BY <1>8 DEF UserPoll, Polls
  <2> QED
    BY <2>1 DEF Kinds, Pollings
<1>9. CASE UserHandleBatch
  <2>1. Handles("user") \/ Loses("user")
    BY <1>9 DEF UserHandleBatch, Handles, Loses
  <2> QED
    BY <2>1 DEF Kinds, Pollings
<1>10. CASE HandleEvent \/ Arm \/ SetSync
  BY <1>10 DEF HandleEvent, Arm, SetSync, Quiet, Kinds
<1>11. ASSUME NEW s \in Slots,
              CreateSendBuffer(s) \/ Send(s) \/ WaitSend(s) \/ WaitRecv(s) \/ WaitSendEnds(s)
                \/ WaitRecvEnds(s) \/ RegionTimeout(s) \/ WaitTimeout(s)
       PROVE  Kinds
  BY <1>11 DEF CreateSendBuffer, Send, WaitSend, WaitRecv, WaitSendEnds, WaitRecvEnds,
               RegionTimeout, WaitTimeout, Quiet, Kinds
<1> QED
  BY <1>1, <1>2, <1>3, <1>4, <1>5, <1>6, <1>7, <1>8, <1>9, <1>10, <1>11
  DEF Next, DeviceThread, UserThreads

-----------------------------------------------------------------------------
(* What the steps do to the number of completions on their way.            *)

QueueTypes == sq \in Seq(Work) /\ cq \in Seq(Work) /\ batch \in [Pollings -> Seq(Work)]

LEMMA CountsAreNat ==
  ASSUME QueueTypes, NEW S
  PROVE  /\ Count(sq, S) \in Nat /\ Count(cq, S) \in Nat /\ Unhandled(S) \in Nat
         /\ Count(batch["device"], S) \in Nat /\ Count(batch["user"], S) \in Nat
<1>1. batch["device"] \in Seq(Work) /\ batch["user"] \in Seq(Work)
  BY DEF QueueTypes, Pollings
<1>2. /\ Count(sq, S) \in Nat /\ Count(cq, S) \in Nat
      /\ Count(batch["device"], S) \in Nat /\ Count(batch["user"], S) \in Nat
  BY <1>1, CountType DEF QueueTypes
<1> QED
  BY <1>2 DEF Unhandled

(* A completion is added to the queue.                                     *)
LEMMA UnhandledGrows ==
  ASSUME QueueTypes, NEW x \in Work, cq' = Append(cq, x), batch' = batch, NEW S
  PROVE  Unhandled(S)' = Unhandled(S) + (IF x \in S THEN 1 ELSE 0)
<1>1. Count(cq', S) = Count(cq, S) + (IF x \in S THEN 1 ELSE 0)
  BY CountAppend DEF QueueTypes
<1>2. Unhandled(S)' = Count(batch["device"], S) + Count(batch["user"], S) + Count(cq', S)
  BY DEF Unhandled
<1> QED
  BY <1>1, <1>2, CountsAreNat DEF Unhandled

(* The queue is polled.                                                    *)
LEMMA UnhandledPolled ==
  ASSUME QueueTypes, NEW t \in Pollings, batch[t] = <<>>, batch' = [batch EXCEPT ![t] = cq],
         cq' = <<>>, NEW S
  PROVE  Unhandled(S)' = Unhandled(S)
<1>1. Count(<<>>, S) = 0
  BY CountEmpty
<1>2. PICK d \in Nat, u \in Nat, c \in Nat :
        d = Count(batch["device"], S) /\ u = Count(batch["user"], S) /\ c = Count(cq, S)
  BY CountsAreNat
<1>3. Unhandled(S) = d + u + c
  BY <1>2 DEF Unhandled
<1>4. CASE t = "device"
  <2>1. batch'["device"] = cq /\ batch'["user"] = batch["user"] /\ cq' = <<>>
    BY <1>4 DEF QueueTypes, Pollings
  <2>2. Unhandled(S)' = c + u + 0 /\ d = 0
    BY <1>1, <1>2, <1>4, <2>1 DEF Unhandled
  <2> QED
    BY <1>3, <2>2
<1>5. CASE t = "user"
  <2>1. batch'["user"] = cq /\ batch'["device"] = batch["device"] /\ cq' = <<>>
    BY <1>5 DEF QueueTypes, Pollings
  <2>2. Unhandled(S)' = d + c + 0 /\ u = 0
    BY <1>1, <1>2, <1>5, <2>1 DEF Unhandled
  <2> QED
    BY <1>3, <2>2
<1> QED
  BY <1>4, <1>5 DEF Pollings

(* A batch is handled, or lost.                                            *)
LEMMA UnhandledShrinks ==
  ASSUME QueueTypes, NEW t \in Pollings, batch' = [batch EXCEPT ![t] = <<>>], cq' = cq, NEW S
  PROVE  /\ Count(batch[t], S) \in Nat /\ Count(batch[t], S) <= Unhandled(S)
         /\ Unhandled(S)' = Unhandled(S) - Count(batch[t], S)
<1>1. Count(<<>>, S) = 0
  BY CountEmpty
<1>2. PICK d \in Nat, u \in Nat, c \in Nat :
        d = Count(batch["device"], S) /\ u = Count(batch["user"], S) /\ c = Count(cq, S)
  BY CountsAreNat
<1>3. Unhandled(S) = d + u + c
  BY <1>2 DEF Unhandled
<1>4. CASE t = "device"
  <2>1. batch'["device"] = <<>> /\ batch'["user"] = batch["user"]
    BY <1>4 DEF QueueTypes, Pollings
  <2>2. Unhandled(S)' = 0 + u + c /\ Count(batch[t], S) = d
    BY <1>1, <1>2, <1>4, <2>1 DEF Unhandled
  <2> QED
    BY <1>3, <2>2
<1>5. CASE t = "user"
  <2>1. batch'["user"] = <<>> /\ batch'["device"] = batch["device"]
    BY <1>5 DEF QueueTypes, Pollings
  <2>2. Unhandled(S)' = d + 0 + c /\ Count(batch[t], S) = u
    BY <1>1, <1>2, <1>5, <2>1 DEF Unhandled
  <2> QED
    BY <1>3, <2>2
<1> QED
  BY <1>4, <1>5 DEF Pollings

LEMMA FlightIsNat ==
  ASSUME QueueTypes, NEW w
  PROVE  InFlight(w) \in Nat /\ Unhandled({w}) \in Nat /\ Unhandled({w}) <= InFlight(w)
<1>1. Count(sq, {w}) \in Nat /\ Unhandled({w}) \in Nat
  BY CountsAreNat
<1> QED
  BY <1>1 DEF InFlight

LEMMA FlightIsNatThen ==
  ASSUME QueueTypes', NEW w
  PROVE  InFlight(w)' \in Nat
<1>1. /\ Count(sq', {w}) \in Nat /\ Count(cq', {w}) \in Nat
      /\ Count(batch'["device"], {w}) \in Nat /\ Count(batch'["user"], {w}) \in Nat
  <2>1. /\ sq' \in Seq(Work) /\ cq' \in Seq(Work) /\ batch'["device"] \in Seq(Work)
        /\ batch'["user"] \in Seq(Work)
    BY DEF QueueTypes, Pollings
  <2> QED
    BY <2>1, CountType
<1>2. InFlight(w)' = Count(sq', {w})
                       + (Count(batch'["device"], {w}) + Count(batch'["user"], {w}) + Count(cq', {w}))
  BY DEF InFlight, Unhandled
<1> QED
  BY <1>1, <1>2

LEMMA FlightSame ==
  ASSUME QueueTypes, \/ UNCHANGED <<sq, cq, batch>>
                     \/ Acks \/ \E t \in Pollings : Polls(t),
         NEW w
  PROVE  InFlight(w)' = InFlight(w)
<1>1. CASE UNCHANGED <<sq, cq, batch>>
  BY <1>1 DEF InFlight, Unhandled
<1>2. CASE Acks
  <2>1. /\ sq # <<>> /\ sq \in Seq(Work) /\ sq' = Tail(sq) /\ cq' = Append(cq, Head(sq))
        /\ batch' = batch
    BY <1>2 DEF Acks, QueueTypes
  <2>2. PICK x \in Work : x = Head(sq)
    BY <2>1
  <2>3. Count(Tail(sq), {w}) = Count(sq, {w}) - (IF x \in {w} THEN 1 ELSE 0)
    BY <2>1, <2>2, CountTail
  <2>4. Unhandled({w})' = Unhandled({w}) + (IF x \in {w} THEN 1 ELSE 0)
    BY <2>1, <2>2, UnhandledGrows
  <2>5. Count(sq, {w}) \in Nat /\ Unhandled({w}) \in Nat
    BY CountsAreNat
  <2>6. InFlight(w)' = Count(Tail(sq), {w}) + Unhandled({w})'
    BY <2>1 DEF InFlight
  <2> QED
    BY <2>3, <2>4, <2>5, <2>6 DEF InFlight
<1>3. ASSUME NEW t \in Pollings, Polls(t) PROVE InFlight(w)' = InFlight(w)
  <2>1. Unhandled({w})' = Unhandled({w})
    BY <1>3, UnhandledPolled DEF Polls
  <2> QED
    BY <1>3, <2>1 DEF InFlight, Polls
<1> QED
  BY <1>1, <1>2, <1>3

LEMMA FlightGrows ==
  ASSUME QueueTypes, NEW x \in Work,
         \/ cq' = Append(cq, x) /\ sq' = sq
         \/ cq' = cq /\ sq' = Append(sq, x),
         batch' = batch, NEW w
  PROVE  InFlight(w)' = InFlight(w) + (IF w = x THEN 1 ELSE 0)
<1>0. Count(sq, {w}) \in Nat /\ Unhandled({w}) \in Nat
  BY CountsAreNat
<1>1. CASE cq' = Append(cq, x) /\ sq' = sq
  <2>1. Unhandled({w})' = Unhandled({w}) + (IF x \in {w} THEN 1 ELSE 0)
    BY <1>1, UnhandledGrows
  <2> QED
    BY <1>0, <1>1, <2>1 DEF InFlight
<1>2. CASE cq' = cq /\ sq' = Append(sq, x)
  <2>1. Count(sq', {w}) = Count(sq, {w}) + (IF x \in {w} THEN 1 ELSE 0)
    BY <1>2, CountAppend DEF QueueTypes
  <2>2. Unhandled({w})' = Unhandled({w})
    BY <1>2 DEF Unhandled
  <2> QED
    BY <1>0, <2>1, <2>2 DEF InFlight
<1> QED
  BY <1>1, <1>2

LEMMA FlightShrinks ==
  ASSUME QueueTypes, NEW t \in Pollings, batch' = [batch EXCEPT ![t] = <<>>],
         UNCHANGED <<cq, sq>>, NEW w
  PROVE  /\ Count(batch[t], {w}) \in Nat /\ Count(batch[t], {w}) <= InFlight(w)
         /\ InFlight(w)' = InFlight(w) - Count(batch[t], {w})
<1>1. /\ Count(batch[t], {w}) \in Nat /\ Count(batch[t], {w}) <= Unhandled({w})
      /\ Unhandled({w})' = Unhandled({w}) - Count(batch[t], {w})
  BY UnhandledShrinks
<1>2. Count(sq, {w}) \in Nat /\ Unhandled({w}) \in Nat
  BY CountsAreNat
<1>3. InFlight(w)' = Count(sq, {w}) + Unhandled({w})'
  BY DEF InFlight
<1> QED
  BY <1>1, <1>2, <1>3 DEF InFlight

-----------------------------------------------------------------------------
(* The capacities.                                                         *)

(* The receives that a batch makes room for are posted.                    *)
LEMMA Reposted ==
  ASSUME QueueTypes, rq \in Seq(0 .. kMaxBuffers - 1), recvPosted \in Nat, NEW t \in Pollings,
         Handles(t)
  PROVE  LET r == Received(batch[t])
             more == [k \in 1 .. r |-> (recvPosted + k - 1) % kMaxBuffers]
         IN  /\ r \in Nat /\ more \in Seq(0 .. kMaxBuffers - 1) /\ Len(more) = r
             /\ rq' = rq \o more /\ recvPosted' = recvPosted + r
             /\ rq' \in Seq(0 .. kMaxBuffers - 1) /\ Len(rq') = Len(rq) + r
             /\ UNCHANGED <<inbox, sq, cq>>
<1> DEFINE r == Received(batch[t])
           more == [k \in 1 .. r |-> (recvPosted + k - 1) % kMaxBuffers]
<1>1. r \in Nat
  BY CountType DEF QueueTypes, Received
<1>2. rq' = rq \o more /\ recvPosted' = recvPosted + r /\ UNCHANGED <<inbox, sq, cq>>
  BY DEF Handles, HandleCompletions, RegionsKept
<1> HIDE DEF r
<1>3. more \in Seq(0 .. kMaxBuffers - 1) /\ Len(more) = r
  <2>1. \A k \in 1 .. r : recvPosted + k - 1 \in Nat
    BY <1>1
  <2>2. \A a \in Nat : a % kMaxBuffers \in 0 .. kMaxBuffers - 1
    BY BuffersAssumption, Division
  <2>3. \A k \in 1 .. r : (recvPosted + k - 1) % kMaxBuffers \in 0 .. kMaxBuffers - 1
    BY <2>1, <2>2
  <2> QED
    BY <1>1, <2>3
<1> HIDE DEF more
<1>4. rq \o more \in Seq(0 .. kMaxBuffers - 1) /\ Len(rq \o more) = Len(rq) + Len(more)
  BY <1>3, ConcatProperties
<1> QED
  BY <1>1, <1>2, <1>3, <1>4 DEF r, more

LEMMA NextQueues ==
  ASSUME QueueTypes, rq \in Seq(0 .. kMaxBuffers - 1), recvPosted \in Nat, Queues, Kinds,
         Orderly' => Orderly
  PROVE  Queues'
<1> DEFINE In == Of(Incoming, Slots)
           Out == Of(Outgoing, Slots)
<1>0. PICK a \in Nat, o \in Nat, r \in Nat, u \in Nat :
        a = Len(sq) /\ o = Count(cq, Out) /\ r = Len(rq) /\ u = Unhandled(In)
  BY CountsAreNat DEF QueueTypes
<1>00. kMaxBuffers \in Nat /\ Of(Incoming, Slots) \cap Of(Outgoing, Slots) = {}
  BY WorkMeaning, BuffersAssumption
<1>000. /\ a + o <= kMaxBuffers /\ r + u <= kMaxBuffers /\ (Orderly => r + u = kMaxBuffers)
        /\ \A k \in DOMAIN sq : sq[k] \in Out
  BY <1>0 DEF Queues
<1> SUFFICES /\ Len(sq') + Count(cq', Out) <= kMaxBuffers
             /\ Len(rq') + Unhandled(In)' <= kMaxBuffers
             /\ Orderly' => Len(rq') + Unhandled(In)' = kMaxBuffers
             /\ \A k \in DOMAIN sq' : sq'[k] \in Out
  BY DEF Queues
<1> HIDE DEF In, Out
<1>1. CASE Quiet
  <2>1. /\ Len(sq') = a /\ Count(cq', Out) = o /\ Len(rq') = r /\ sq' = sq
    BY <1>0, <1>1 DEF Quiet, Placement
  <2>2. Unhandled(In)' = u
    BY <1>0, <1>1 DEF Quiet, Unhandled
  <2> QED
    BY <1>000, <2>1, <2>2
<1>2. CASE Acks
  <2>1. /\ sq # <<>> /\ sq \in Seq(Work) /\ sq' = Tail(sq) /\ cq' = Append(cq, Head(sq))
        /\ batch' = batch /\ rq' = rq
    BY <1>2 DEF Acks, QueueTypes, Placement
  <2>2. PICK x \in Work : x = Head(sq) /\ x \in Out
    BY <1>000, <2>1
  <2>3. x \notin In
    BY <1>00, <2>2 DEF In, Out
  <2>4. Len(sq') = a - 1
    BY <1>0, <2>1, CountTail
  <2>5. Count(cq', Out) = o + 1
    <3>1. Count(Append(cq, x), Out) = Count(cq, Out) + 1
      BY <2>2, CountAppend DEF QueueTypes
    <3> QED
      BY <1>0, <2>1, <2>2, <3>1
  <2>6. Unhandled(In)' = u
    <3>1. Unhandled(In)' = Unhandled(In) + (IF x \in In THEN 1 ELSE 0)
      BY <2>1, <2>2, UnhandledGrows
    <3> QED
      BY <1>0, <2>3, <3>1
  <2>7. \A k \in DOMAIN sq' : sq'[k] \in Out
    <3>1. \A k \in DOMAIN Tail(sq) : Tail(sq)[k] = sq[k + 1] /\ k + 1 \in DOMAIN sq
      BY <2>1
    <3> QED
      BY <1>000, <2>1, <3>1
  <2>8. Len(rq') = r
    BY <1>0, <2>1
  <2> QED
    BY <1>000, <1>00, <2>4, <2>5, <2>6, <2>7, <2>8
<1>3. ASSUME NEW x \in Of(Incoming, Slots), Arrives(x)
      PROVE  /\ Len(sq') + Count(cq', Out) <= kMaxBuffers
             /\ Len(rq') + Unhandled(In)' <= kMaxBuffers
             /\ Orderly' => Len(rq') + Unhandled(In)' = kMaxBuffers
             /\ \A k \in DOMAIN sq' : sq'[k] \in Out
  <2>1. /\ rq # <<>> /\ rq' = Tail(rq) /\ cq' = Append(cq, x) /\ sq' = sq /\ batch' = batch
    BY <1>3 DEF Arrives
  <2>2. x \in Work /\ x \in In /\ x \notin Out
    BY WorkMeaning DEF In, Out
  <2>3. Count(cq', Out) = o
    <3>1. Count(Append(cq, x), Out) = Count(cq, Out) + 0
      BY <2>2, CountAppend DEF QueueTypes
    <3> QED
      BY <1>0, <2>1, <3>1
  <2>4. Unhandled(In)' = u + 1
    <3>1. Unhandled(In)' = Unhandled(In) + (IF x \in In THEN 1 ELSE 0)
      BY <2>1, <2>2, UnhandledGrows
    <3> QED
      BY <1>0, <2>2, <3>1
  <2>5. Len(rq') = r - 1
    BY <1>0, <2>1, CountTail
  <2>6. Len(sq') = a
    BY <1>0, <2>1
  <2> QED
    BY <1>000, <1>00, <2>1, <2>3, <2>4, <2>5, <2>6
<1>4. ASSUME NEW x \in Of(Outgoing, Slots), Posts(x)
      PROVE  /\ Len(sq') + Count(cq', Out) <= kMaxBuffers
             /\ Len(rq') + Unhandled(In)' <= kMaxBuffers
             /\ Orderly' => Len(rq') + Unhandled(In)' = kMaxBuffers
             /\ \A k \in DOMAIN sq' : sq'[k] \in Out
  <2>1. /\ sq' = Append(sq, x) /\ cq' = cq /\ rq' = rq /\ batch' = batch /\ ~QueueFull
    BY <1>4 DEF Posts, Placement
  <2>2. x \in Work /\ x \in Out
    BY WorkMeaning DEF Out
  <2>3. a + o < kMaxBuffers
    BY <1>0, <1>00, <2>1 DEF QueueFull, Out
  <2>4. Len(sq') = a + 1
    BY <1>0, <2>1 DEF QueueTypes
  <2>5. \A k \in DOMAIN sq' : sq'[k] \in Out
    <3>1. sq \in Seq(Work)
      BY DEF QueueTypes
    <3>2. \A k \in DOMAIN Append(sq, x) :
            (k \in DOMAIN sq /\ Append(sq, x)[k] = sq[k]) \/ Append(sq, x)[k] = x
      BY <2>2, <3>1
    <3> QED
      BY <1>000, <2>1, <2>2, <3>2
  <2>6. Unhandled(In)' = u /\ Count(cq', Out) = o /\ Len(rq') = r
    BY <1>0, <2>1 DEF Unhandled
  <2> QED
    BY <1>000, <1>00, <2>3, <2>4, <2>5, <2>6
<1>5. ASSUME NEW t \in Pollings, Polls(t)
      PROVE  /\ Len(sq') + Count(cq', Out) <= kMaxBuffers
             /\ Len(rq') + Unhandled(In)' <= kMaxBuffers
             /\ Orderly' => Len(rq') + Unhandled(In)' = kMaxBuffers
             /\ \A k \in DOMAIN sq' : sq'[k] \in Out
  <2>1. sq' = sq /\ rq' = rq /\ cq' = <<>>
    BY <1>5 DEF Polls, Placement
  <2>2. Unhandled(In)' = u
    BY <1>0, <1>5, UnhandledPolled DEF Polls
  <2>3. Count(cq', Out) = 0
    BY <2>1, CountEmpty
  <2>4. Len(sq') = a /\ Len(rq') = r
    BY <1>0, <2>1
  <2> QED
    BY <1>000, <1>00, <2>1, <2>2, <2>3, <2>4
<1>6. ASSUME NEW t \in Pollings, Handles(t)
      PROVE  /\ Len(sq') + Count(cq', Out) <= kMaxBuffers
             /\ Len(rq') + Unhandled(In)' <= kMaxBuffers
             /\ Orderly' => Len(rq') + Unhandled(In)' = kMaxBuffers
             /\ \A k \in DOMAIN sq' : sq'[k] \in Out
  <2>1. PICK n \in Nat : n = Received(batch[t]) /\ Len(rq') = Len(rq) + n /\ UNCHANGED <<sq, cq>>
    BY <1>6, Reposted
  <2>2. n = Count(batch[t], In)
    BY <2>1 DEF Received, In
  <2>3. Count(batch[t], In) <= Unhandled(In) /\ Unhandled(In)' = Unhandled(In) - Count(batch[t], In)
    BY <1>6, <2>1, UnhandledShrinks DEF Handles
  <2>4. Unhandled(In)' = u - n /\ Len(rq') = r + n
    BY <1>0, <2>1, <2>2, <2>3
  <2>5. Len(sq') = a /\ Count(cq', Out) = o /\ \A k \in DOMAIN sq' : sq'[k] \in Out
    BY <1>0, <1>000, <2>1
  <2>6. Len(rq') + Unhandled(In)' = r + u
    BY <2>4
  <2> QED
    BY <1>000, <2>5, <2>6
<1>7. ASSUME NEW t \in Pollings, Loses(t)
      PROVE  /\ Len(sq') + Count(cq', Out) <= kMaxBuffers
             /\ Len(rq') + Unhandled(In)' <= kMaxBuffers
             /\ Orderly' => Len(rq') + Unhandled(In)' = kMaxBuffers
             /\ \A k \in DOMAIN sq' : sq'[k] \in Out
  <2>1. sq' = sq /\ cq' = cq /\ rq' = rq /\ ex
    BY <1>7 DEF Loses, Placement
  <2>2. PICK n \in Nat : n = Count(batch[t], In) /\ Unhandled(In)' = u - n
    BY <1>0, <1>7, UnhandledShrinks DEF Loses
  <2>3. ~Orderly'
    BY <2>1 DEF Orderly
  <2>4. Len(sq') = a /\ Count(cq', Out) = o /\ Len(rq') = r
    BY <1>0, <2>1
  <2> QED
    BY <1>000, <1>00, <2>1, <2>2, <2>3, <2>4
<1> QED
  BY <1>1, <1>2, <1>3, <1>4, <1>5, <1>6, <1>7 DEF Kinds

-----------------------------------------------------------------------------
(* The positions of the regions.                                           *)

LEMMA LeastNatural ==
  ASSUME NEW D, D \subseteq Nat, D # {}
  PROVE  \E m \in D : \A k \in D : m <= k
<1>1. PICK m \in D : \A k \in D : ~(<<k, m>> \in OpToRel(<, Nat))
  BY WFMin, NatLessThanWellFounded
<1>2. \A k \in D : ~(k < m)
  BY <1>1 DEF OpToRel
<1> QED
  BY <1>2

LEMMA Greatest ==
  ASSUME NEW n \in Nat, NEW D, D \subseteq 1 .. n, D # {}
  PROVE  \E m \in D : \A k \in D : k <= m
<1> DEFINE E == {e \in Nat : n - e \in D}
<1>1. PICK d \in D : TRUE
  OBVIOUS
<1>2. \A k \in D : n - k \in E /\ n - (n - k) = k
  OBVIOUS
<1>3. E \subseteq Nat /\ E # {}
  BY <1>1, <1>2
<1> HIDE DEF E
<1>4. PICK m \in E : \A k \in E : m <= k
  BY <1>3, LeastNatural
<1>5. \A k \in D : k <= n - m
  <2> TAKE k \in D
  <2>1. n - k \in E
    BY <1>2
  <2>2. m <= n - k
    BY <1>4, <2>1
  <2>3. k \in Nat /\ m \in Nat
    BY <1>3, <1>4
  <2> QED
    BY <2>2, <2>3
<1>6. n - m \in D
  BY <1>4 DEF E
<1> QED
  BY <1>5, <1>6

LEMMA PlacedEmpty ==
  ASSUME NEW ib, NEW first PROVE Placed(ib, <<>>, first)
BY DEF Placed

(* The number of the receive of a region.                                  *)
LEMMA ReceiveNumber ==
  ASSUME NEW q \in Seq(Work), NEW k \in DOMAIN q, q[k].opcode = "RECV"
  PROVE  /\ Received(SubSeq(q, 1, k)) \in Nat /\ Received(q) \in Nat
         /\ 1 <= Received(SubSeq(q, 1, k)) /\ Received(SubSeq(q, 1, k)) <= Received(q)
<1>1. q[k] \in Of(Incoming, Slots)
  <2>1. q[k] \in Work
    OBVIOUS
  <2> QED
    BY <2>1 DEF Work, Of, Incoming
<1>2. Count(q, Of(Incoming, Slots)) \in Nat
  BY CountType
<1>3. /\ Count(SubSeq(q, 1, k), Of(Incoming, Slots)) \in Nat
      /\ Count(SubSeq(q, 1, k), Of(Incoming, Slots)) <= Count(q, Of(Incoming, Slots))
      /\ Count(SubSeq(q, 1, k), Of(Incoming, Slots)) >= 1
  BY <1>1, CountPrefix
<1> QED
  BY <1>2, <1>3 DEF Received

(* A region that arrives in the inbox of a later receive disturbs none.    *)
LEMMA PlacedArrive ==
  ASSUME NEW T, NEW ib \in [0 .. kMaxBuffers - 1 -> T], NEW q \in Seq(Work), NEW f \in Nat, NEW n \in Nat, NEW v,
         f + Received(q) <= n, n < f + kMaxBuffers, Placed(ib, q, f)
  PROVE  Placed([ib EXCEPT ![InboxIndex(n)] = v], q, f)
<1> SUFFICES ASSUME NEW k \in DOMAIN q, q[k].opcode = "RECV"
             PROVE  [ib EXCEPT ![InboxIndex(n)] = v]
                      [InboxIndex(f + Received(SubSeq(q, 1, k)) - 1)] = q[k].slot
  BY DEF Placed
<1>1. ib[InboxIndex(f + Received(SubSeq(q, 1, k)) - 1)] = q[k].slot
  BY DEF Placed
<1>2. PICK r \in Nat : r = Received(SubSeq(q, 1, k)) /\ 1 <= r /\ r <= Received(q)
  BY ReceiveNumber
<1>3. Received(q) \in Nat /\ kMaxBuffers \in Nat \ {0}
  BY ReceiveNumber, BuffersAssumption
<1>4. PICK a \in Nat : a = f + r - 1
  BY <1>2
<1>5. a < n /\ n < a + kMaxBuffers
  BY <1>2, <1>3, <1>4, SMTT(30)
<1>6. InboxIndex(a) # InboxIndex(n)
  BY <1>3, <1>5, NearApart DEF InboxIndex
<1>7. \A i \in 0 .. kMaxBuffers - 1 :
        i # InboxIndex(n) => [ib EXCEPT ![InboxIndex(n)] = v][i] = ib[i]
  OBVIOUS
<1>8. InboxIndex(a) \in 0 .. kMaxBuffers - 1
  BY <1>3, Division DEF InboxIndex
<1> QED
  BY <1>1, <1>2, <1>4, <1>6, <1>7, <1>8

(* A completion is added whose region is at the next position.             *)
LEMMA PlacedAppend ==
  ASSUME NEW ib, NEW q \in Seq(Work), NEW x \in Work, NEW f \in Nat, Placed(ib, q, f),
         x.opcode = "RECV" => ib[InboxIndex(f + Received(q))] = x.slot
  PROVE  Placed(ib, Append(q, x), f)
<1> SUFFICES ASSUME NEW k \in DOMAIN Append(q, x), Append(q, x)[k].opcode = "RECV"
             PROVE  ib[InboxIndex(f + Received(SubSeq(Append(q, x), 1, k)) - 1)] = Append(q, x)[k].slot
  BY DEF Placed
<1>1. k \in 1 .. Len(q) + 1 /\ Len(q) \in Nat /\ DOMAIN q = 1 .. Len(q)
  OBVIOUS
<1>2. CASE k \in 1 .. Len(q)
  <2>1. Append(q, x)[k] = q[k]
    BY <1>2
  <2>2. SubSeq(Append(q, x), 1, k) = SubSeq(q, 1, k)
    <3>1. k \in Nat /\ k <= Len(q) /\ Len(Append(q, x)) = Len(q) + 1
      BY <1>2
    <3>2. \A l \in 1 .. k : Append(q, x)[l] = q[l]
      BY <3>1
    <3> QED
      BY <3>1, <3>2
  <2>3. q[k].opcode = "RECV" /\ k \in DOMAIN q
    BY <1>1, <1>2, <2>1
  <2>4. ib[InboxIndex(f + Received(SubSeq(q, 1, k)) - 1)] = q[k].slot
    BY <2>3 DEF Placed
  <2> QED
    BY <2>1, <2>2, <2>4
<1>3. CASE k = Len(q) + 1
  <2>1. Append(q, x)[k] = x
    BY <1>3
  <2>2. SubSeq(Append(q, x), 1, k) = Append(q, x)
    BY <1>3
  <2>3. x.opcode = "RECV" /\ x \in Of(Incoming, Slots)
    BY <2>1 DEF Work, Of, Incoming
  <2>4. Received(Append(q, x)) = Received(q) + 1 /\ Received(q) \in Nat
    <3>1. Count(Append(q, x), Of(Incoming, Slots)) = Count(q, Of(Incoming, Slots)) + 1
      BY <2>3, CountAppend
    <3>2. Count(q, Of(Incoming, Slots)) \in Nat
      BY CountType
    <3> QED
      BY <3>1, <3>2 DEF Received
  <2>5. f + Received(Append(q, x)) - 1 = f + Received(q)
    BY <2>4
  <2> QED
    BY <2>1, <2>2, <2>3, <2>5
<1> QED
  BY <1>1, <1>2, <1>3

(* Completions are handled in the order of their receives, by one thread.  *)
OneBatch == batch["device"] = <<>> \/ batch["user"] = <<>>

PlaceTypes ==
  /\ rq \in Seq(0 .. kMaxBuffers - 1) /\ recvPosted \in Nat
  /\ inbox \in [0 .. kMaxBuffers - 1 -> Slots \cup {None}]
  /\ peerRegions \in [Slots -> Slots \cup {None}]

(* The counts that the positions are about.                                *)
LEMMA ReceivedCounts ==
  ASSUME QueueTypes
  PROVE  /\ Received(batch["device"]) \in Nat /\ Received(batch["user"]) \in Nat
         /\ Received(cq) \in Nat
         /\ Unhandled(Of(Incoming, Slots)) =
              Received(batch["device"]) + Received(batch["user"]) + Received(cq)
BY CountsAreNat DEF Received, Unhandled

LEMMA ArrivesPositions ==
  ASSUME QueueTypes, PlaceTypes, Positions,
         Len(rq) + Unhandled(Of(Incoming, Slots)) = kMaxBuffers,
         NEW x \in Of(Incoming, Slots), Arrives(x)
  PROVE  Positions'
<1> DEFINE In == Of(Incoming, Slots)
<1>1. PICK d \in Nat, u \in Nat, c \in Nat, f \in Nat :
        /\ d = Received(batch["device"]) /\ u = Received(batch["user"]) /\ c = Received(cq)
        /\ Unhandled(In) = d + u + c /\ f = recvPosted
  BY ReceivedCounts DEF PlaceTypes
<1>2. /\ rq # <<>> /\ rq' = Tail(rq) /\ cq' = Append(cq, x) /\ batch' = batch
      /\ inbox' = IF x.opcode = "RECV" THEN [inbox EXCEPT ![Head(rq)] = x.slot] ELSE inbox
      /\ recvPosted' = recvPosted /\ peerRegions' = peerRegions
  BY DEF Arrives
<1>3. x \in Work /\ x \in In /\ rq \in Seq(0 .. kMaxBuffers - 1)
  BY WorkMeaning DEF PlaceTypes
<1>4. /\ batch["device"] \in Seq(Work) /\ batch["user"] \in Seq(Work) /\ cq \in Seq(Work)
  BY DEF QueueTypes, Pollings
<1>5. /\ Placed(inbox, batch["device"], f)
      /\ Placed(inbox, batch["user"], f)
      /\ Placed(inbox, cq, f + d + u)
      /\ \A k \in DOMAIN rq : rq[k] = InboxIndex(f + (d + u + c) + k - 1)
      /\ \A s \in Slots : peerRegions[s] \in {None, s}
  BY <1>1 DEF Positions
<1>6. PICK n \in Nat : n = f + d + u + c /\ Head(rq) = InboxIndex(n)
  <2>1. 1 \in DOMAIN rq /\ Head(rq) = rq[1]
    BY <1>2, <1>3
  <2>2. f + (d + u + c) + 1 - 1 = f + d + u + c /\ f + d + u + c \in Nat
    OBVIOUS
  <2>3. rq[1] = InboxIndex(f + (d + u + c) + 1 - 1)
    BY <1>5, <2>1
  <2> QED
    BY <2>1, <2>2, <2>3
<1>7. kMaxBuffers \in Nat \ {0} /\ n < f + kMaxBuffers
  <2>1. Len(rq) \in Nat /\ Len(rq) > 0 /\ kMaxBuffers \in Nat \ {0}
    BY <1>2, <1>3, BuffersAssumption
  <2>2. Len(rq) + (d + u + c) = kMaxBuffers
    BY <1>1
  <2> QED
    BY <1>6, <2>1, <2>2
<1>8. /\ Placed(inbox', batch["device"], f)
      /\ Placed(inbox', batch["user"], f)
      /\ Placed(inbox', cq, f + d + u)
      /\ x.opcode = "RECV" => inbox'[InboxIndex(f + d + u + c)] = x.slot
  <2>1. CASE x.opcode # "RECV"
    BY <1>2, <1>5, <2>1
  <2>2. CASE x.opcode = "RECV"
    <3>1. inbox' = [inbox EXCEPT ![InboxIndex(n)] = x.slot]
      BY <1>2, <1>6, <2>2
    <3>2. inbox \in [0 .. kMaxBuffers - 1 -> Slots \cup {None}]
      BY DEF PlaceTypes
    <3>3. Placed([inbox EXCEPT ![InboxIndex(n)] = x.slot], batch["device"], f)
      <4>0. f + d <= n
        BY <1>6
      <4>1. f + Received(batch["device"]) <= n
        BY <1>1, <4>0
      <4> QED
        BY <1>4, <1>5, <1>7, <3>2, <4>1, PlacedArrive
    <3>4. Placed([inbox EXCEPT ![InboxIndex(n)] = x.slot], batch["user"], f)
      <4>0. f + u <= n
        BY <1>6
      <4>1. f + Received(batch["user"]) <= n
        BY <1>1, <4>0
      <4> QED
        BY <1>4, <1>5, <1>7, <3>2, <4>1, PlacedArrive
    <3>5. Placed([inbox EXCEPT ![InboxIndex(n)] = x.slot], cq, f + d + u)
      <4>1. PICK g \in Nat : g = f + d + u
        OBVIOUS
      <4>0. g + c <= n /\ n < g + kMaxBuffers
        BY <1>6, <1>7, <4>1
      <4>2. g + Received(cq) <= n /\ n < g + kMaxBuffers
        BY <1>1, <4>0
      <4>3. Placed(inbox, cq, g)
        BY <1>5, <4>1
      <4>4. Placed([inbox EXCEPT ![InboxIndex(n)] = x.slot], cq, g)
        BY <1>4, <3>2, <4>2, <4>3, PlacedArrive
      <4> QED
        BY <4>1, <4>4
    <3>6. InboxIndex(n) \in 0 .. kMaxBuffers - 1
      BY <1>7, Division DEF InboxIndex
    <3>7. [inbox EXCEPT ![InboxIndex(n)] = x.slot][InboxIndex(n)] = x.slot
      BY <3>2, <3>6
    <3> QED
      BY <1>6, <3>1, <3>3, <3>4, <3>5, <3>7
  <2> QED
    BY <2>1, <2>2
<1>9. Placed(inbox', cq', f + d + u)
  <2>1. PICK g \in Nat : g = f + d + u
    OBVIOUS
  <2>2. Placed(inbox', cq, g) /\ (x.opcode = "RECV" => inbox'[InboxIndex(g + Received(cq))] = x.slot)
    BY <1>1, <1>8, <2>1
  <2>3. Placed(inbox', Append(cq, x), g)
    BY <1>3, <1>4, <2>2, PlacedAppend
  <2> QED
    BY <1>2, <2>1, <2>3
<1>10. Unhandled(In)' = d + u + c + 1
  <2>1. Unhandled(In)' = Unhandled(In) + (IF x \in In THEN 1 ELSE 0)
    BY <1>2, <1>3, UnhandledGrows
  <2> QED
    BY <1>1, <1>3, <2>1
<1>11. \A k \in DOMAIN rq' : rq'[k] = InboxIndex(f + (d + u + c + 1) + k - 1)
  <2>1. \A k \in DOMAIN Tail(rq) : Tail(rq)[k] = rq[k + 1] /\ k + 1 \in DOMAIN rq /\ k \in Nat
    BY <1>2, <1>3
  <2> TAKE k \in DOMAIN rq'
  <2>2. rq'[k] = rq[k + 1] /\ k + 1 \in DOMAIN rq /\ k \in Nat
    BY <1>2, <2>1
  <2>3. f + (d + u + c) + (k + 1) - 1 = f + (d + u + c + 1) + k - 1
    BY <2>2
  <2> QED
    BY <1>5, <2>2, <2>3
<1>12. Received(batch["device"])' = d /\ Received(batch["user"])' = u /\ recvPosted' = f
  BY <1>1, <1>2 DEF Received
<1>13. /\ Placed(inbox', batch'["device"], recvPosted')
       /\ Placed(inbox', batch'["user"], recvPosted')
       /\ Placed(inbox', cq', recvPosted' + Received(batch'["device"]) + Received(batch'["user"]))
  BY <1>1, <1>2, <1>8, <1>9
<1>14. \A k \in DOMAIN rq' : rq'[k] = InboxIndex(recvPosted' + Unhandled(In)' + k - 1)
  BY <1>10, <1>11, <1>12
<1> QED
  BY <1>2, <1>5, <1>13, <1>14 DEF Positions, Placed

LEMMA PollsPositions ==
  ASSUME QueueTypes, PlaceTypes, Positions, OneBatch', NEW t \in Pollings, Polls(t)
  PROVE  Positions'
<1> DEFINE In == Of(Incoming, Slots)
<1>1. /\ batch[t] = <<>> /\ batch' = [batch EXCEPT ![t] = cq] /\ cq' = <<>>
      /\ rq' = rq /\ inbox' = inbox /\ recvPosted' = recvPosted /\ peerRegions' = peerRegions
  BY DEF Polls, Placement
<1>2. Unhandled(In)' = Unhandled(In)
  BY <1>1, UnhandledPolled
<1>3. PICK o \in Pollings : o # t /\ Pollings = {t, o} /\ batch'[t] = cq /\ batch'[o] = batch[o]
  <2>1. PICK o \in Pollings : o # t /\ Pollings = {t, o}
    BY DEF Pollings
  <2>2. DOMAIN batch = Pollings
    BY DEF QueueTypes
  <2> QED
    BY <1>1, <2>1, <2>2
<1>4. Placed(inbox, batch[o], recvPosted)
  BY DEF Positions, Pollings
<1>5. Placed(inbox, cq, recvPosted)
  <2>1. CASE cq = <<>>
    BY <2>1, PlacedEmpty
  <2>2. CASE cq # <<>>
    <3>1. batch[o] = <<>>
      BY <1>3, <2>2 DEF OneBatch, Pollings
    <3>2. batch["device"] = <<>> /\ batch["user"] = <<>>
      BY <1>1, <1>3, <3>1 DEF Pollings
    <3>3. Received(<<>>) = 0
      BY CountEmpty DEF Received
    <3>4. recvPosted + 0 + 0 = recvPosted
      BY DEF PlaceTypes
    <3>5. Placed(inbox, cq, recvPosted + 0 + 0)
      BY <3>2, <3>3 DEF Positions
    <3> QED
      BY <3>4, <3>5
  <2> QED
    BY <2>1, <2>2
<1>6. \A p \in Pollings : Placed(inbox, batch'[p], recvPosted)
  BY <1>3, <1>4, <1>5
<1>7. "device" \in Pollings /\ "user" \in Pollings
  BY DEF Pollings
<1>8. Placed(inbox, batch'["device"], recvPosted) /\ Placed(inbox, batch'["user"], recvPosted)
  BY <1>6, <1>7
<1>9. \A f : Placed(inbox, cq', f)
  BY <1>1, PlacedEmpty
<1>10. \A k \in DOMAIN rq : rq[k] = InboxIndex(recvPosted + Unhandled(In) + k - 1)
  BY DEF Positions
<1>11. \A s \in Slots : peerRegions[s] \in {None, s}
  BY DEF Positions
<1>12. \A k \in DOMAIN rq' : rq'[k] = InboxIndex(recvPosted' + Unhandled(In)' + k - 1)
  BY <1>1, <1>2, <1>10
<1> QED
  BY <1>1, <1>8, <1>9, <1>11, <1>12 DEF Positions, Placed

(* The region that handleCompletion takes for a slot is that of the slot.  *)
LEMMA RegionRight ==
  ASSUME NEW q \in Seq(Work), Placed(inbox, q, recvPosted), NEW s \in Slots,
         peerRegions[s] \in {None, s}
  PROVE  Region(s, q) \in {None, s}
<1> DEFINE ks == {k \in DOMAIN q : q[k] = [opcode |-> "RECV", slot |-> s]}
           last == CHOOSE k \in ks : \A l \in ks : l <= k
<1>1. CASE ks = {}
  BY <1>1 DEF Region
<1>2. CASE ks # {}
  <2>1. ks \subseteq 1 .. Len(q) /\ Len(q) \in Nat
    OBVIOUS
  <2>2. \E k \in ks : \A l \in ks : l <= k
    BY <1>2, <2>1, Greatest
  <2>3. last \in ks
    BY <2>2
  <2>4. last \in DOMAIN q /\ q[last] = Wc("RECV", s)
    BY <2>3 DEF Wc
  <2>5. q[last].opcode = "RECV" /\ q[last].slot = s
    BY <2>4 DEF Wc
  <2>6. inbox[InboxIndex(recvPosted + Received(SubSeq(q, 1, last)) - 1)] = s
    BY <2>4, <2>5 DEF Placed
  <2>7. Region(s, q) = inbox[InboxIndex(recvPosted + Received(SubSeq(q, 1, last)) - 1)]
    BY <1>2 DEF Region
  <2> QED
    BY <2>6, <2>7
<1> QED
  BY <1>1, <1>2

LEMMA HandlesPositions ==
  ASSUME QueueTypes, PlaceTypes, Positions, OneBatch,
         Len(rq) + Unhandled(Of(Incoming, Slots)) = kMaxBuffers,
         NEW t \in Pollings, Handles(t)
  PROVE  Positions'
<1> DEFINE In == Of(Incoming, Slots)
           more == [k \in 1 .. Received(batch[t]) |-> (recvPosted + k - 1) % kMaxBuffers]
<1>1. PICK r \in Nat, f \in Nat, h \in Nat, u \in Nat :
        r = Received(batch[t]) /\ f = recvPosted /\ h = Len(rq) /\ u = Unhandled(In)
  <2>1. Received(batch[t]) \in Nat
    BY ReceivedCounts DEF Pollings
  <2>2. Unhandled(In) \in Nat
    BY CountsAreNat
  <2>3. recvPosted \in Nat /\ Len(rq) \in Nat
    BY DEF PlaceTypes
  <2> HIDE DEF In
  <2> QED
    BY <2>1, <2>2, <2>3
<1>2. /\ more \in Seq(0 .. kMaxBuffers - 1) /\ Len(more) = r
      /\ rq' = rq \o more /\ recvPosted' = f + r
      /\ inbox' = inbox /\ cq' = cq /\ sq' = sq
  BY <1>1, Reposted DEF PlaceTypes
<1>3. PICK o \in Pollings : o # t /\ Pollings = {t, o} /\ batch'[t] = <<>> /\ batch'[o] = batch[o]
  <2>1. PICK o \in Pollings : o # t /\ Pollings = {t, o}
    BY DEF Pollings
  <2>2. DOMAIN batch = Pollings
    BY DEF QueueTypes
  <2> QED
    BY <2>1, <2>2 DEF Handles
<1>4. PICK v \in Nat : v = Received(batch[o]) /\ r + v = Received(batch["device"]) + Received(batch["user"])
  <2>1. Received(batch["device"]) \in Nat /\ Received(batch["user"]) \in Nat
    BY ReceivedCounts
  <2> QED
    BY <1>1, <1>3, <2>1 DEF Pollings
<1>5. Received(<<>>) = 0
  BY CountEmpty DEF Received
<1>6. Unhandled(In)' = u - r /\ r <= u
  <2>1. Count(batch[t], In) = r
    BY <1>1 DEF Received
  <2>2. Unhandled(In)' = Unhandled(In) - Count(batch[t], In) /\ Count(batch[t], In) <= Unhandled(In)
    BY <1>2, UnhandledShrinks DEF Handles
  <2> QED
    BY <1>1, <2>1, <2>2
<1>7. Placed(inbox, batch[t], f) /\ Placed(inbox, batch[o], f)
  BY <1>1 DEF Positions, Pollings
<1>8. Placed(inbox, batch[o], f + r)
  <2>1. CASE batch[o] = <<>>
    BY <2>1, PlacedEmpty
  <2>2. CASE batch[t] = <<>>
    <3>1. r = 0
      BY <1>1, <1>5, <2>2
    <3> QED
      BY <1>7, <3>1
  <2> QED
    BY <1>3, <2>1, <2>2 DEF OneBatch, Pollings
<1>9. \A p \in Pollings : Placed(inbox, batch'[p], f + r)
  BY <1>3, <1>8, PlacedEmpty
<1>10. Placed(inbox, batch'["device"], f + r) /\ Placed(inbox, batch'["user"], f + r)
  BY <1>9 DEF Pollings
<1>11. Received(batch'["device"]) + Received(batch'["user"]) = v
  BY <1>3, <1>4, <1>5 DEF Pollings
<1>12. Placed(inbox, cq, f + r + v)
  <2>1. Placed(inbox, cq, f + Received(batch["device"]) + Received(batch["user"]))
    BY <1>1 DEF Positions
  <2>2. Received(batch["device"]) \in Nat /\ Received(batch["user"]) \in Nat
    BY ReceivedCounts
  <2>3. f + Received(batch["device"]) + Received(batch["user"]) = f + r + v
    BY <1>4, <2>2
  <2> QED
    BY <2>1, <2>3
<1>13. \A k \in DOMAIN rq : rq[k] = InboxIndex(f + u + k - 1)
  BY <1>1 DEF Positions
<1>14. ASSUME NEW k \in DOMAIN rq' PROVE rq'[k] = InboxIndex(f + u + k - 1)
  <2>0. rq \in Seq(0 .. kMaxBuffers - 1) /\ kMaxBuffers \in Nat \ {0} /\ h + u = kMaxBuffers
    BY <1>1, BuffersAssumption DEF PlaceTypes
  <2>1. /\ k \in 1 .. h + r
        /\ k \in 1 .. h => k \in DOMAIN rq /\ rq'[k] = rq[k]
        /\ k \notin 1 .. h => k - h \in 1 .. r /\ rq'[k] = more[k - h]
    <3>1. PICK m \in Seq(0 .. kMaxBuffers - 1) : m = more /\ Len(m) = r
      BY <1>2
    <3>2. rq' = rq \o m /\ Len(rq) = h
      BY <1>1, <1>2, <3>1
    <3>3. Len(rq \o m) = h + r /\ rq \o m \in Seq(0 .. kMaxBuffers - 1)
      BY <2>0, <3>1, <3>2, ConcatProperties
    <3>4. k \in 1 .. h + r
      BY <3>2, <3>3
    <3>5. (rq \o m)[k] = IF k <= h THEN rq[k] ELSE m[k - h]
      BY <2>0, <3>1, <3>2, <3>4, ConcatProperties, ZenonT(30)
    <3>6. k \notin 1 .. h => k - h \in 1 .. r
      BY <3>4
    <3>7. k \in 1 .. h => k \in DOMAIN rq /\ k <= h
      BY <2>0, <3>2
    <3>8. k \notin 1 .. h => ~(k <= h)
      BY <3>4
    <3> HIDE DEF more
    <3> QED
      BY <3>1, <3>2, <3>4, <3>5, <3>6, <3>7, <3>8
  <2>2. CASE k \in 1 .. h
    BY <1>13, <2>1, <2>2
  <2>3. CASE k \notin 1 .. h
    <3>1. k - h \in 1 .. r /\ rq'[k] = more[k - h]
      BY <2>1, <2>3
    <3>2. more[k - h] = (f + (k - h) - 1) % kMaxBuffers
      BY <1>1, <3>1
    <3>0. f + (k - h) - 1 \in Nat /\ k \in Nat
      BY <2>1, <3>1
    <3>3. PICK a \in Nat : a = f + (k - h) - 1 /\ a + kMaxBuffers = f + u + k - 1
      <4>1. (f + (k - h) - 1) + (h + u) = f + u + k - 1
        BY <3>0
      <4> QED
        BY <2>0, <3>0, <4>1
    <3>4. (a + kMaxBuffers) % kMaxBuffers = a % kMaxBuffers
      BY <2>0, OnceAround
    <3> QED
      BY <3>1, <3>2, <3>3, <3>4 DEF InboxIndex
  <2> QED
    BY <2>2, <2>3
<1>15. \A k \in DOMAIN rq' : rq'[k] = InboxIndex(recvPosted' + Unhandled(In)' + k - 1)
  <2> TAKE k \in DOMAIN rq'
  <2>1. recvPosted' + Unhandled(In)' = f + u
    BY <1>2, <1>6
  <2> QED
    BY <1>14, <2>1
<1>16. \A s \in Slots : peerRegions'[s] \in {None, s}
  <2> TAKE s \in Slots
  <2>1. batch[t] \in Seq(Work)
    BY DEF QueueTypes
  <2>2. peerRegions[s] \in {None, s}
    BY DEF Positions
  <2>3. peerRegions'[s] = Region(s, batch[t])
    BY DEF Handles, HandleCompletions, RegionsKept
  <2>4. Placed(inbox, batch[t], recvPosted)
    BY <1>1, <1>7
  <2> QED
    BY <2>1, <2>2, <2>3, <2>4, RegionRight
<1>17. /\ Placed(inbox', batch'["device"], recvPosted')
       /\ Placed(inbox', batch'["user"], recvPosted')
  BY <1>2, <1>10
<1>18. Placed(inbox', cq', recvPosted' + Received(batch'["device"]) + Received(batch'["user"]))
  <2>1. Received(batch'["device"]) \in Nat /\ Received(batch'["user"]) \in Nat
    BY <1>3, <1>4, <1>5 DEF Pollings
  <2>2. f + r + Received(batch'["device"]) + Received(batch'["user"]) = f + r + v
    BY <1>11, <2>1
  <2> QED
    BY <1>2, <1>12, <2>2
<1> QED
  BY <1>15, <1>16, <1>17, <1>18 DEF Positions, Placed

LEMMA AcksPositions ==
  ASSUME QueueTypes, PlaceTypes, Positions, Queues, Acks
  PROVE  Positions'
<1> DEFINE In == Of(Incoming, Slots)
<1>1. /\ sq # <<>> /\ sq \in Seq(Work) /\ cq' = Append(cq, Head(sq)) /\ batch' = batch
      /\ rq' = rq /\ inbox' = inbox /\ recvPosted' = recvPosted /\ peerRegions' = peerRegions
  BY DEF Acks, Placement, QueueTypes
<1>2. PICK x \in Work : x = Head(sq) /\ x \in Of(Outgoing, Slots)
  BY <1>1 DEF Queues
<1>3. x \notin In /\ x.opcode # "RECV"
  BY <1>2, WorkMeaning DEF Of, Outgoing
<1>4. Unhandled(In)' = Unhandled(In)
  <2>1. Unhandled(In)' = Unhandled(In) + (IF x \in In THEN 1 ELSE 0)
    BY <1>1, <1>2, UnhandledGrows
  <2>2. Unhandled(In) \in Nat
    BY CountsAreNat
  <2> QED
    BY <1>3, <2>1, <2>2
<1>5. PICK f \in Nat : f = recvPosted + Received(batch["device"]) + Received(batch["user"])
  BY ReceivedCounts DEF PlaceTypes
<1>6. Placed(inbox, Append(cq, x), f)
  <2>1. Placed(inbox, cq, f) /\ cq \in Seq(Work)
    BY <1>5 DEF Positions, QueueTypes
  <2> QED
    BY <1>3, <2>1, PlacedAppend
<1>7. Placed(inbox, cq', recvPosted + Received(batch["device"]) + Received(batch["user"]))
  BY <1>1, <1>2, <1>5, <1>6
<1>8. /\ Placed(inbox, batch["device"], recvPosted) /\ Placed(inbox, batch["user"], recvPosted)
      /\ \A s \in Slots : peerRegions[s] \in {None, s}
      /\ \A k \in DOMAIN rq : rq[k] = InboxIndex(recvPosted + Unhandled(In) + k - 1)
  BY DEF Positions
<1>9. \A k \in DOMAIN rq' : rq'[k] = InboxIndex(recvPosted' + Unhandled(In)' + k - 1)
  BY <1>1, <1>4, <1>8
<1> HIDE DEF In
<1>10. /\ Placed(inbox', batch'["device"], recvPosted') /\ Placed(inbox', batch'["user"], recvPosted')
       /\ Placed(inbox', cq', recvPosted' + Received(batch'["device"]) + Received(batch'["user"]))
       /\ \A s \in Slots : peerRegions'[s] \in {None, s}
  BY <1>1, <1>7, <1>8
<1> QED
  BY <1>9, <1>10 DEF Positions, Placed, In

LEMMA NextPositions ==
  ASSUME QueueTypes, PlaceTypes, Positions, Queues, Kinds, Orderly, Orderly', OneBatch, OneBatch'
  PROVE  Positions'
<1>1. Len(rq) + Unhandled(Of(Incoming, Slots)) = kMaxBuffers
  BY DEF Queues
<1>2. CASE Quiet \/ \E x \in Of(Outgoing, Slots) : Posts(x)
  <2>1. UNCHANGED <<cq, batch, rq, inbox, recvPosted, peerRegions>>
    BY <1>2 DEF Quiet, Posts, Placement
  <2>2. Unhandled(Of(Incoming, Slots))' = Unhandled(Of(Incoming, Slots))
    BY <2>1 DEF Unhandled
  <2> QED
    BY <2>1, <2>2 DEF Positions, Placed
<1>3. ~\E t \in Pollings : Loses(t)
  BY DEF Loses, Orderly
<1> QED
  BY <1>1, <1>2, <1>3, AcksPositions, ArrivesPositions, PollsPositions, HandlesPositions DEF Kinds

-----------------------------------------------------------------------------
(* Types.                                                                  *)

FlagTypes ==
  /\ sync \in BOOLEAN /\ raced \in BOOLEAN /\ armed \in BOOLEAN
  /\ dev \in {"idle", "arm", "lock", "poll", "handle", "handle, poll"}

NumberTypes == events \in Nat /\ nsend \in Nat /\ narrive \in Nat

BufferTypes ==
  /\ handlers \in [send : SUBSET Slots, recv : SUBSET Slots]
  /\ sendRegions \subseteq Slots /\ announced \subseteq Slots /\ exposed \subseteq Slots

FailureTypes ==
  /\ ex \in BOOLEAN /\ stuck \in BOOLEAN /\ timeouts \in Nat
  /\ bufferEx \in [send : SUBSET Slots, recv : SUBSET Slots]

CounterTypes ==
  /\ sendPending \in [Slots -> Nat]
  /\ sendCompletions \in [Slots -> Nat] /\ recvCompletions \in [Slots -> Nat]

ThreadTypes ==
  /\ sender \in [Slots -> {"idle", "region", "wait", "threw"}]
  /\ receiver \in [Slots -> {"idle", "wait", "threw"}]

OtherTypes ==
  FlagTypes /\ NumberTypes /\ BufferTypes /\ FailureTypes /\ CounterTypes /\ ThreadTypes

LEMMA TypeParts == TypeOK <=> QueueTypes /\ PlaceTypes /\ OtherTypes
<1>1. TypeOK => QueueTypes
  BY DEF TypeOK, QueueTypes, Pollings
<1>2. TypeOK => PlaceTypes
  BY DEF TypeOK, PlaceTypes
<1>3. TypeOK => OtherTypes
  BY DEF TypeOK, OtherTypes, FlagTypes, NumberTypes, BufferTypes, FailureTypes, CounterTypes, ThreadTypes
<1>4. QueueTypes /\ PlaceTypes /\ OtherTypes => TypeOK
  BY DEF TypeOK, QueueTypes, PlaceTypes, Pollings, OtherTypes, FlagTypes, NumberTypes, BufferTypes, FailureTypes,
         CounterTypes, ThreadTypes
<1> QED
  BY <1>1, <1>2, <1>3, <1>4

LEMMA TypePartsThen == TypeOK' <=> QueueTypes' /\ PlaceTypes' /\ OtherTypes'
BY TypeParts, PTL

LEMMA NextQueueTypes ==
  ASSUME QueueTypes, Kinds
  PROVE  QueueTypes'
<1>0. sq \in Seq(Work) /\ cq \in Seq(Work) /\ batch \in [Pollings -> Seq(Work)]
  BY DEF QueueTypes
<1>1. CASE Quiet
  BY <1>0, <1>1 DEF Quiet, QueueTypes
<1>2. CASE Acks
  <2>1. sq # <<>> /\ sq' = Tail(sq) /\ cq' = Append(cq, Head(sq)) /\ batch' = batch
    BY <1>2 DEF Acks
  <2>2. Head(sq) \in Work
    BY <1>0, <2>1
  <2>3. sq' \in Seq(Work) /\ cq' \in Seq(Work)
    BY <1>0, <2>1, <2>2
  <2> QED
    BY <1>0, <2>1, <2>3 DEF QueueTypes
<1>3. ASSUME NEW x \in Of(Incoming, Slots), Arrives(x) PROVE QueueTypes'
  <2>1. cq' \in Seq(Work)
    BY <1>0, <1>3, WorkMeaning DEF Arrives
  <2> QED
    BY <1>0, <1>3, <2>1 DEF Arrives, QueueTypes
<1>4. ASSUME NEW x \in Of(Outgoing, Slots), Posts(x) PROVE QueueTypes'
  <2>1. sq' \in Seq(Work)
    BY <1>0, <1>4, WorkMeaning DEF Posts
  <2> QED
    BY <1>0, <1>4, <2>1 DEF Posts, QueueTypes
<1>5. ASSUME NEW t \in Pollings, Polls(t) \/ Handles(t) \/ Loses(t) PROVE QueueTypes'
  <2>1. sq' = sq /\ (cq' = cq \/ cq' = <<>>)
    BY <1>5 DEF Polls, Handles, Loses
  <2>2. <<>> \in Seq(Work)
    OBVIOUS
  <2>3. \E q \in Seq(Work) : batch' = [batch EXCEPT ![t] = q]
    BY <1>0, <1>5, <2>2 DEF Polls, Handles, Loses
  <2>4. batch' \in [Pollings -> Seq(Work)]
    BY <1>0, <2>3
  <2> QED
    BY <1>0, <2>1, <2>2, <2>4 DEF QueueTypes
<1> QED
  BY <1>1, <1>2, <1>3, <1>4, <1>5 DEF Kinds

LEMMA RegionType ==
  ASSUME PlaceTypes, NEW q \in Seq(Work), NEW s \in Slots
  PROVE  Region(s, q) \in Slots \cup {None}
<1> DEFINE ks == {k \in DOMAIN q : q[k] = [opcode |-> "RECV", slot |-> s]}
           last == CHOOSE k \in ks : \A l \in ks : l <= k
<1>1. CASE ks = {}
  BY <1>1 DEF Region, PlaceTypes
<1>2. CASE ks # {}
  <2>1. ks \subseteq 1 .. Len(q) /\ Len(q) \in Nat
    OBVIOUS
  <2>2. \E k \in ks : \A l \in ks : l <= k
    BY <1>2, <2>1, Greatest
  <2>3. last \in ks
    BY <2>2
  <2>4. last \in DOMAIN q /\ q[last].opcode = "RECV"
    BY <2>3
  <2>5. PICK r \in Nat : r = Received(SubSeq(q, 1, last)) /\ 1 <= r
    BY <2>4, ReceiveNumber
  <2>6. recvPosted + r - 1 \in Nat /\ kMaxBuffers \in Nat \ {0}
    BY <2>5, BuffersAssumption DEF PlaceTypes
  <2>7. InboxIndex(recvPosted + r - 1) \in 0 .. kMaxBuffers - 1
    BY <2>6, Division DEF InboxIndex
  <2>8. Region(s, q) = inbox[InboxIndex(recvPosted + Received(SubSeq(q, 1, last)) - 1)]
    BY <1>2 DEF Region
  <2>9. Region(s, q) = inbox[InboxIndex(recvPosted + r - 1)]
    BY <2>5, <2>8
  <2> HIDE DEF last, ks
  <2> QED
    BY <2>7, <2>9 DEF PlaceTypes
<1> QED
  BY <1>1, <1>2

LEMMA NextPlaceTypes ==
  ASSUME QueueTypes, PlaceTypes, Kinds
  PROVE  PlaceTypes'
<1>1. CASE UNCHANGED Placement
  BY <1>1 DEF Placement, PlaceTypes
<1>2. ASSUME NEW x \in Of(Incoming, Slots), Arrives(x) PROVE PlaceTypes'
  <2>1. /\ rq # <<>> /\ rq' = Tail(rq) /\ rq \in Seq(0 .. kMaxBuffers - 1)
        /\ inbox' = IF x.opcode = "RECV" THEN [inbox EXCEPT ![Head(rq)] = x.slot] ELSE inbox
        /\ recvPosted' = recvPosted /\ peerRegions' = peerRegions
    BY <1>2 DEF Arrives, PlaceTypes
  <2>2. x.slot \in Slots /\ Head(rq) \in 0 .. kMaxBuffers - 1 /\ rq' \in Seq(0 .. kMaxBuffers - 1)
    <3>1. x.slot \in Slots
      BY WorkMeaning
    <3>2. Head(rq) \in 0 .. kMaxBuffers - 1
      <4>1. \A T : \A q \in Seq(T) : q # <<>> => Head(q) \in T
        OBVIOUS
      <4> QED
        BY <2>1, <4>1
    <3>3. Tail(rq) \in Seq(0 .. kMaxBuffers - 1)
      BY <2>1
    <3> QED
      BY <2>1, <3>1, <3>2, <3>3
  <2>3. inbox' \in [0 .. kMaxBuffers - 1 -> Slots \cup {None}]
    BY <2>1, <2>2 DEF PlaceTypes
  <2> QED
    BY <2>1, <2>2, <2>3 DEF PlaceTypes
<1>3. ASSUME NEW t \in Pollings, Handles(t) PROVE PlaceTypes'
  <2>1. rq' \in Seq(0 .. kMaxBuffers - 1) /\ inbox' = inbox
    BY <1>3, Reposted DEF PlaceTypes
  <2>2. recvPosted' \in Nat
    <3>1. recvPosted' = recvPosted + Received(batch[t])
      BY <1>3 DEF Handles, HandleCompletions, RegionsKept
    <3>2. Received(batch[t]) \in Nat
      BY ReceivedCounts DEF Pollings
    <3> QED
      BY <3>1, <3>2 DEF PlaceTypes
  <2>3. peerRegions' \in [Slots -> Slots \cup {None}]
    <3>1. batch[t] \in Seq(Work)
      BY DEF QueueTypes
    <3>2. \A s \in Slots : Region(s, batch[t]) \in Slots \cup {None}
      BY <3>1, RegionType
    <3>3. peerRegions' = [s \in Slots |-> Region(s, batch[t])]
      BY <1>3 DEF Handles, HandleCompletions, RegionsKept
    <3> QED
      BY <3>2, <3>3
  <2> QED
    BY <2>1, <2>2, <2>3 DEF PlaceTypes
<1> QED
  BY <1>1, <1>2, <1>3 DEF Kinds, Quiet, Acks, Posts, Polls, Loses

LEMMA OneWork ==
  ASSUME NEW op, NEW s PROVE Of({op}, {s}) = {Wc(op, s)}
<1>1. \A w \in Of({op}, {s}) : w = Wc(op, s)
  BY DEF Of, Wc
<1>2. Wc(op, s) \in Of({op}, {s})
  BY DEF Of, Wc
<1> QED
  BY <1>1, <1>2

(* The counters of the buffers after a batch.                              *)
LEMMA HandledCounters ==
  ASSUME QueueTypes, CounterTypes, \A s \in Slots : Accounted(s), NEW t \in Pollings, Handles(t)
  PROVE  /\ \A w : /\ Count(batch[t], {w}) \in Nat /\ Count(batch[t], {w}) <= InFlight(w)
                   /\ InFlight(w)' = InFlight(w) - Count(batch[t], {w})
         /\ \A s \in Slots : sendPending'[s] = sendPending[s] - Count(batch[t], {Wc("RDMA_WRITE", s)})
         /\ sendRegions' = {s \in sendRegions : Count(batch[t], {Wc("SEND", s)}) = 0}
         /\ sendPending' \in [Slots -> Nat] /\ sendCompletions' \in [Slots -> Nat]
         /\ recvCompletions' \in [Slots -> Nat]
<1> DEFINE C(op, s) == Count(batch[t], {Wc(op, s)})
<1>1. \A op, s : Of({op}, {s}) = {Wc(op, s)}
  BY OneWork
<1>2. /\ recvCompletions' = [s \in Slots |->
           recvCompletions[s] + Count(batch[t], Of({"RECV_RDMA_WITH_IMM"}, {s}))]
      /\ sendCompletions' = [s \in Slots |->
           sendCompletions[s] + Count(batch[t], Of({"RDMA_WRITE"}, {s}))]
      /\ sendPending' = [s \in Slots |->
           sendPending[s] - Count(batch[t], Of({"RDMA_WRITE"}, {s}))]
      /\ sendRegions' = {s \in sendRegions : Count(batch[t], Of({"SEND"}, {s})) = 0}
  BY DEF Handles, HandleCompletions, RegionsKept
<1>3. /\ recvCompletions' = [s \in Slots |-> recvCompletions[s] + C("RECV_RDMA_WITH_IMM", s)]
      /\ sendCompletions' = [s \in Slots |-> sendCompletions[s] + C("RDMA_WRITE", s)]
      /\ sendPending' = [s \in Slots |-> sendPending[s] - C("RDMA_WRITE", s)]
      /\ sendRegions' = {s \in sendRegions : C("SEND", s) = 0}
  BY <1>1, <1>2
<1>4. \A w : /\ Count(batch[t], {w}) \in Nat /\ Count(batch[t], {w}) <= InFlight(w)
             /\ InFlight(w)' = InFlight(w) - Count(batch[t], {w})
  BY FlightShrinks DEF Handles
<1>5. \A op, s : C(op, s) \in Nat /\ C(op, s) <= InFlight(Wc(op, s))
  BY <1>4
<1>6. \A s \in Slots : sendPending[s] - C("RDMA_WRITE", s) \in Nat
  <2> TAKE s \in Slots
  <2>1. PICK n \in Nat, c \in Nat, m \in Nat :
          n = InFlight(Wc("RDMA_WRITE", s)) /\ c = C("RDMA_WRITE", s) /\ m = sendPending[s]
    BY <1>5, FlightIsNat DEF CounterTypes
  <2>2. c <= n
    BY <1>5, <2>1
  <2>3. m >= n + IF sender[s] = "region" THEN 1 ELSE 0
    BY <2>1 DEF Accounted
  <2>4. m - c \in Nat
    BY <2>2, <2>3
  <2> QED
    BY <2>1, <2>4
<1>7. \A op, s : C(op, s) \in Nat
  BY <1>5
<1>8. \A s \in Slots : sendPending'[s] = sendPending[s] - C("RDMA_WRITE", s)
  BY <1>3
<1> HIDE DEF C
<1>9. sendPending' \in [Slots -> Nat]
  BY <1>3, <1>6
<1>10. sendCompletions' \in [Slots -> Nat]
  <2>1. \A s \in Slots : sendCompletions[s] + C("RDMA_WRITE", s) \in Nat
    BY <1>7 DEF CounterTypes
  <2> QED
    BY <1>3, <2>1
<1>11. recvCompletions' \in [Slots -> Nat]
  <2>1. \A s \in Slots : recvCompletions[s] + C("RECV_RDMA_WITH_IMM", s) \in Nat
    BY <1>7 DEF CounterTypes
  <2> QED
    BY <1>3, <2>1
<1> QED
  BY <1>3, <1>4, <1>8, <1>9, <1>10, <1>11 DEF C

LEMMA NextNumberTypes ==
  ASSUME NumberTypes, Next
  PROVE  NumberTypes'
<1> USE DEF queue, peer, NumberTypes
<1>1. UNCHANGED nsend \/ nsend' = nsend + 1
  <2>1. CASE Acknowledge \/ DeviceThread \/ UserPoll \/ UserHandleBatch \/ SetSync
    BY <2>1 DEF Acknowledge, DeviceThread, HandleEvent, Arm, Poll, HandleBatch, UserPoll,
                UserHandleBatch, SetSync
  <2>2. ASSUME NEW s \in Slots,
               \/ RegionArrives(s) \/ WriteArrives(s) \/ CreateSendBuffer(s) \/ CreateRecvBuffer(s)
               \/ Send(s) \/ PostSend(s) \/ RegionTimeout(s) \/ WaitSend(s)
               \/ WaitRecv(s) \/ WaitSendEnds(s) \/ WaitRecvEnds(s) \/ WaitTimeout(s)
        PROVE  UNCHANGED nsend \/ nsend' = nsend + 1
    BY <2>2 DEF RegionArrives, WriteArrives, CreateSendBuffer, CreateRecvBuffer, Send, PostSend,
                RegionTimeout, WaitSend, WaitRecv, WaitSendEnds, WaitRecvEnds, WaitTimeout
  <2> QED
    BY <2>1, <2>2 DEF Next, UserThreads
<1>2. UNCHANGED narrive \/ narrive' = narrive + 1
  <2>1. CASE Acknowledge \/ DeviceThread \/ UserPoll \/ UserHandleBatch \/ SetSync
    BY <2>1 DEF Acknowledge, DeviceThread, HandleEvent, Arm, Poll, HandleBatch, UserPoll,
                UserHandleBatch, SetSync
  <2>2. ASSUME NEW s \in Slots,
               \/ RegionArrives(s) \/ WriteArrives(s) \/ CreateSendBuffer(s) \/ CreateRecvBuffer(s)
               \/ Send(s) \/ PostSend(s) \/ RegionTimeout(s) \/ WaitSend(s)
               \/ WaitRecv(s) \/ WaitSendEnds(s) \/ WaitRecvEnds(s) \/ WaitTimeout(s)
        PROVE  UNCHANGED narrive \/ narrive' = narrive + 1
    BY <2>2 DEF RegionArrives, WriteArrives, CreateSendBuffer, CreateRecvBuffer, Send, PostSend,
                RegionTimeout, WaitSend, WaitRecv, WaitSendEnds, WaitRecvEnds, WaitTimeout
  <2> QED
    BY <2>1, <2>2 DEF Next, UserThreads
<1>3. UNCHANGED events \/ events' = events + 1 \/ (events > 0 /\ events' = events - 1)
  <2>1. CASE Acknowledge \/ DeviceThread \/ UserPoll \/ UserHandleBatch \/ SetSync
    BY <2>1 DEF Acknowledge, Push, DeviceThread, HandleEvent, Arm, Poll, HandleBatch, UserPoll,
                UserHandleBatch, SetSync
  <2>2. ASSUME NEW s \in Slots,
               \/ RegionArrives(s) \/ WriteArrives(s) \/ CreateSendBuffer(s) \/ CreateRecvBuffer(s)
               \/ Send(s) \/ PostSend(s) \/ RegionTimeout(s) \/ WaitSend(s)
               \/ WaitRecv(s) \/ WaitSendEnds(s) \/ WaitRecvEnds(s) \/ WaitTimeout(s)
        PROVE  UNCHANGED events \/ events' = events + 1
    BY <2>2 DEF RegionArrives, WriteArrives, Push, CreateSendBuffer, CreateRecvBuffer, Send,
                PostSend, RegionTimeout, WaitSend, WaitRecv, WaitSendEnds, WaitRecvEnds, WaitTimeout
  <2> QED
    BY <2>1, <2>2 DEF Next, UserThreads
<1> QED
  BY <1>1, <1>2, <1>3

LEMMA NextFlagTypes ==
  ASSUME FlagTypes, Next
  PROVE  FlagTypes'
<1> USE DEF queue, FlagTypes
<1>1. CASE Acknowledge
  BY <1>1 DEF Acknowledge, Push
<1>2. ASSUME NEW s \in Slots, RegionArrives(s) \/ WriteArrives(s) PROVE FlagTypes'
  BY <1>2 DEF RegionArrives, WriteArrives, Push
<1>3. ASSUME NEW s \in Slots,
             \/ CreateSendBuffer(s) \/ CreateRecvBuffer(s)
             \/ Send(s) \/ PostSend(s) \/ RegionTimeout(s) \/ WaitSend(s)
             \/ WaitRecv(s) \/ WaitSendEnds(s) \/ WaitRecvEnds(s) \/ WaitTimeout(s)
        PROVE  FlagTypes'
  BY <1>3 DEF CreateSendBuffer, CreateRecvBuffer, Send, PostSend, RegionTimeout, WaitSend, WaitRecv,
              WaitSendEnds, WaitRecvEnds, WaitTimeout
<1>4. CASE HandleEvent \/ Arm \/ SetSync
  BY <1>4 DEF HandleEvent, Arm, SetSync
<1>5. CASE Poll \/ HandleBatch
  BY <1>5 DEF Poll, HandleBatch
<1>6. CASE UserPoll \/ UserHandleBatch
  BY <1>6 DEF UserPoll, UserHandleBatch
<1> QED
  BY <1>1, <1>2, <1>3, <1>4, <1>5, <1>6 DEF Next, DeviceThread, UserThreads

(* What a step does to the buffers and their counters.                     *)
LEMMA CounterKinds ==
  ASSUME Next
  PROVE  \/ UNCHANGED <<counts, sendRegions>>
         \/ UNCHANGED counts /\ \E s \in Slots : sendRegions' = sendRegions \cup {s}
         \/ \E s \in Slots : Send(s) \/ WaitSendEnds(s) \/ WaitRecvEnds(s)
         \/ \E t \in Pollings : Handles(t)
<1> USE DEF counts, regions, queue
<1>1. CASE HandleBatch
  <2>1. Handles("device") \/ UNCHANGED <<counts, sendRegions>>
    BY <1>1 DEF HandleBatch, Handles
  <2> QED
    BY <2>1 DEF Pollings
<1>2. CASE UserHandleBatch
  <2>1. Handles("user") \/ UNCHANGED <<counts, sendRegions>>
    BY <1>2 DEF UserHandleBatch, Handles
  <2> QED
    BY <2>1 DEF Pollings
<1>3. ASSUME NEW s \in Slots, CreateRecvBuffer(s)
      PROVE  UNCHANGED counts /\ (sendRegions' = sendRegions \/ sendRegions' = sendRegions \cup {s})
  BY <1>3 DEF CreateRecvBuffer
<1>4. CASE Acknowledge \/ HandleEvent \/ Arm \/ Poll \/ UserPoll \/ SetSync
  BY <1>4 DEF Acknowledge, HandleEvent, Arm, Poll, UserPoll, SetSync
<1>5. ASSUME NEW s \in Slots,
             RegionArrives(s) \/ WriteArrives(s) \/ CreateSendBuffer(s) \/ PostSend(s) \/ WaitSend(s)
               \/ WaitRecv(s) \/ RegionTimeout(s) \/ WaitTimeout(s)
      PROVE  UNCHANGED <<counts, sendRegions>>
  BY <1>5 DEF RegionArrives, WriteArrives, CreateSendBuffer, PostSend, WaitSend, WaitRecv,
              RegionTimeout, WaitTimeout
<1> QED
  BY <1>1, <1>2, <1>3, <1>4, <1>5 DEF Next, DeviceThread, UserThreads

LEMMA NextCounterTypes ==
  ASSUME QueueTypes, CounterTypes, \A s \in Slots : Accounted(s), Next
  PROVE  CounterTypes'
<1>1. CASE UNCHANGED counts
  BY <1>1 DEF counts, CounterTypes
<1>2. ASSUME NEW s \in Slots, Send(s) PROVE CounterTypes'
  BY <1>2 DEF Send, CounterTypes
<1>3. ASSUME NEW s \in Slots, WaitSendEnds(s) PROVE CounterTypes'
  <2>1. /\ sendPending' = sendPending /\ recvCompletions' = recvCompletions
        /\ \/ sendCompletions' = sendCompletions
           \/ sendCompletions[s] > 0 /\ sendCompletions' = [sendCompletions EXCEPT ![s] = @ - 1]
    BY <1>3 DEF WaitSendEnds
  <2> QED
    BY <2>1 DEF CounterTypes
<1>4. ASSUME NEW s \in Slots, WaitRecvEnds(s) PROVE CounterTypes'
  <2>1. /\ sendPending' = sendPending /\ sendCompletions' = sendCompletions
        /\ \/ recvCompletions' = recvCompletions
           \/ recvCompletions[s] > 0 /\ recvCompletions' = [recvCompletions EXCEPT ![s] = @ - 1]
    BY <1>4 DEF WaitRecvEnds
  <2> QED
    BY <2>1 DEF CounterTypes
<1>5. ASSUME NEW t \in Pollings, Handles(t) PROVE CounterTypes'
  BY <1>5, HandledCounters DEF CounterTypes
<1> QED
  BY <1>1, <1>2, <1>3, <1>4, <1>5, CounterKinds DEF counts

LEMMA NextBufferTypes ==
  ASSUME QueueTypes, CounterTypes, \A s \in Slots : Accounted(s), BufferTypes, Next
  PROVE  BufferTypes'
<1>1. sendRegions' \subseteq Slots
  <2>1. ASSUME NEW t \in Pollings, Handles(t) PROVE sendRegions' \subseteq Slots
    BY <2>1, HandledCounters DEF BufferTypes
  <2>2. ASSUME NEW s \in Slots, Send(s) \/ WaitSendEnds(s) \/ WaitRecvEnds(s)
        PROVE  sendRegions' = sendRegions
    BY <2>2 DEF Send, WaitSendEnds, WaitRecvEnds, regions
  <2> QED
    BY <2>1, <2>2, CounterKinds DEF BufferTypes
<1>2. /\ handlers' \in [send : SUBSET Slots, recv : SUBSET Slots]
      /\ announced' \subseteq Slots /\ exposed' \subseteq Slots
  <2>1. CASE UNCHANGED <<handlers, announced, exposed>>
    BY <2>1 DEF BufferTypes
  <2>2. ASSUME NEW s \in Slots, CreateSendBuffer(s)
        PROVE  /\ handlers' \in [send : SUBSET Slots, recv : SUBSET Slots]
               /\ announced' \subseteq Slots /\ exposed' \subseteq Slots
    BY <2>2 DEF CreateSendBuffer, BufferTypes, peer
  <2>3. ASSUME NEW s \in Slots, CreateRecvBuffer(s)
        PROVE  /\ handlers' \in [send : SUBSET Slots, recv : SUBSET Slots]
               /\ announced' \subseteq Slots /\ exposed' \subseteq Slots
    BY <2>3 DEF CreateRecvBuffer, BufferTypes
  <2>4. ASSUME NEW s \in Slots, RegionArrives(s)
        PROVE  /\ handlers' \in [send : SUBSET Slots, recv : SUBSET Slots]
               /\ announced' \subseteq Slots /\ exposed' \subseteq Slots
    BY <2>4 DEF RegionArrives, BufferTypes
  <2> USE DEF peer
  <2>5. CASE Acknowledge \/ DeviceThread \/ UserPoll \/ UserHandleBatch \/ SetSync
    BY <2>1, <2>5 DEF Acknowledge, DeviceThread, HandleEvent, Arm, Poll, HandleBatch, UserPoll,
                      UserHandleBatch, SetSync
  <2>6. ASSUME NEW s \in Slots,
               \/ WriteArrives(s) \/ Send(s) \/ PostSend(s) \/ RegionTimeout(s) \/ WaitSend(s)
               \/ WaitRecv(s) \/ WaitSendEnds(s) \/ WaitRecvEnds(s) \/ WaitTimeout(s)
        PROVE  UNCHANGED <<handlers, announced, exposed>>
    BY <2>6 DEF WriteArrives, Send, PostSend, RegionTimeout, WaitSend, WaitRecv, WaitSendEnds,
                WaitRecvEnds, WaitTimeout
  <2> QED
    BY <2>1, <2>2, <2>3, <2>4, <2>5, <2>6 DEF Next, UserThreads
<1> QED
  BY <1>1, <1>2 DEF BufferTypes

LEMMA FailureKinds ==
  ASSUME Next
  PROVE  /\ ex' = ex \/ ex' = TRUE
         /\ stuck' = stuck \/ stuck' = TRUE
         /\ timeouts' = timeouts \/ timeouts' = timeouts + 1
         /\ bufferEx' = bufferEx \/ bufferEx' = handlers
<1> USE DEF failure, SignalIoFailure, SelfDeadlock
<1>1. CASE Acknowledge \/ DeviceThread \/ UserPoll \/ SetSync
  BY <1>1 DEF Acknowledge, DeviceThread, HandleEvent, Arm, Poll, HandleBatch, UserPoll, SetSync
<1>2. CASE UserHandleBatch
  BY <1>2 DEF UserHandleBatch
<1>3. ASSUME NEW s \in Slots,
             \/ RegionArrives(s) \/ WriteArrives(s) \/ CreateSendBuffer(s)
             \/ Send(s) \/ WaitSend(s) \/ WaitRecv(s) \/ WaitSendEnds(s) \/ WaitRecvEnds(s)
      PROVE  UNCHANGED failure
  BY <1>3 DEF RegionArrives, WriteArrives, CreateSendBuffer, Send, WaitSend, WaitRecv, WaitSendEnds,
              WaitRecvEnds
<1>4. ASSUME NEW s \in Slots, CreateRecvBuffer(s) \/ PostSend(s)
      PROVE  /\ ex' = ex \/ ex' = TRUE
             /\ stuck' = stuck \/ stuck' = TRUE
             /\ timeouts' = timeouts
             /\ bufferEx' = bufferEx \/ bufferEx' = handlers
  BY <1>4 DEF CreateRecvBuffer, PostSend
<1>5. ASSUME NEW s \in Slots, RegionTimeout(s) \/ WaitTimeout(s)
      PROVE  /\ ex' = ex \/ ex' = TRUE
             /\ stuck' = stuck \/ stuck' = TRUE
             /\ timeouts' = timeouts + 1
             /\ bufferEx' = bufferEx \/ bufferEx' = handlers
  BY <1>5 DEF RegionTimeout, WaitTimeout
<1> QED
  BY <1>1, <1>2, <1>3, <1>4, <1>5 DEF Next, UserThreads

LEMMA NextFailureTypes ==
  ASSUME FailureTypes, BufferTypes, Next
  PROVE  FailureTypes'
<1>1. ex' \in BOOLEAN /\ stuck' \in BOOLEAN
  BY FailureKinds DEF FailureTypes
<1>2. timeouts' \in Nat
  <2>1. timeouts \in Nat
    BY DEF FailureTypes
  <2>2. timeouts' = timeouts \/ timeouts' = timeouts + 1
    BY FailureKinds
  <2> QED
    BY <2>1, <2>2
<1>3. bufferEx' \in [send : SUBSET Slots, recv : SUBSET Slots]
  BY FailureKinds DEF FailureTypes, BufferTypes
<1> QED
  BY <1>1, <1>2, <1>3 DEF FailureTypes

(* What a step does to the threads that use the buffers.                   *)
LEMMA ThreadKinds ==
  ASSUME Next
  PROVE  /\ \/ sender' = sender \/ sender' = Thrown(sender)
            \/ \E s \in Slots : \E v \in {"idle", "region", "wait", "threw"} :
                 sender' = [sender EXCEPT ![s] = v]
         /\ \/ receiver' = receiver \/ receiver' = Thrown(receiver)
            \/ \E s \in Slots : \E v \in {"idle", "wait", "threw"} :
                 receiver' = [receiver EXCEPT ![s] = v]
<1> USE DEF threads
<1>1. CASE Acknowledge \/ DeviceThread \/ UserPoll \/ SetSync
  BY <1>1 DEF Acknowledge, DeviceThread, HandleEvent, Arm, Poll, HandleBatch, UserPoll, SetSync
<1>2. CASE UserHandleBatch
  BY <1>2 DEF UserHandleBatch, UserThrows
<1>3. ASSUME NEW s \in Slots,
             RegionArrives(s) \/ WriteArrives(s) \/ CreateSendBuffer(s) \/ CreateRecvBuffer(s)
      PROVE  UNCHANGED threads
  BY <1>3 DEF RegionArrives, WriteArrives, CreateSendBuffer, CreateRecvBuffer
<1>4. ASSUME NEW s \in Slots,
             \/ Send(s) \/ PostSend(s) \/ RegionTimeout(s) \/ WaitSend(s) \/ WaitSendEnds(s)
             \/ WaitRecv(s) \/ WaitRecvEnds(s) \/ WaitTimeout(s)
      PROVE  /\ \/ sender' = sender
                \/ \E v \in {"idle", "region", "wait", "threw"} : sender' = [sender EXCEPT ![s] = v]
             /\ \/ receiver' = receiver
                \/ \E v \in {"idle", "wait", "threw"} : receiver' = [receiver EXCEPT ![s] = v]
  BY <1>4 DEF Send, PostSend, RegionTimeout, WaitSend, WaitSendEnds, WaitRecv, WaitRecvEnds,
              WaitTimeout
<1> QED
  BY <1>1, <1>2, <1>3, <1>4 DEF Next, UserThreads

LEMMA NextThreadTypes ==
  ASSUME ThreadTypes, Next
  PROVE  ThreadTypes'
<1>1. sender' \in [Slots -> {"idle", "region", "wait", "threw"}]
  <2>1. CASE sender' = sender \/ sender' = Thrown(sender)
    BY <2>1 DEF ThreadTypes, Thrown
  <2>2. CASE \E s \in Slots : \E v \in {"idle", "region", "wait", "threw"} :
               sender' = [sender EXCEPT ![s] = v]
    BY <2>2 DEF ThreadTypes
  <2> QED
    BY <2>1, <2>2, ThreadKinds
<1>2. receiver' \in [Slots -> {"idle", "wait", "threw"}]
  <2>1. CASE receiver' = receiver \/ receiver' = Thrown(receiver)
    BY <2>1 DEF ThreadTypes, Thrown
  <2>2. CASE \E s \in Slots : \E v \in {"idle", "wait", "threw"} :
               receiver' = [receiver EXCEPT ![s] = v]
    BY <2>2 DEF ThreadTypes
  <2> QED
    BY <2>1, <2>2, ThreadKinds
<1> QED
  BY <1>1, <1>2 DEF ThreadTypes

LEMMA NextTypes ==
  ASSUME TypeOK, Pollers, \A s \in Slots : Accounted(s), Next
  PROVE  TypeOK'
<1>1. QueueTypes /\ PlaceTypes /\ OtherTypes /\ Kinds
  BY TypeParts, StepKinds
<1>2. FlagTypes /\ NumberTypes /\ BufferTypes /\ FailureTypes /\ CounterTypes /\ ThreadTypes
  BY <1>1 DEF OtherTypes
<1>3. QueueTypes' /\ PlaceTypes'
  BY <1>1, NextQueueTypes, NextPlaceTypes
<1>4. FlagTypes' /\ NumberTypes'
  BY <1>2, NextFlagTypes, NextNumberTypes
<1>5. BufferTypes' /\ CounterTypes'
  BY <1>1, <1>2, NextBufferTypes, NextCounterTypes
<1>6. FailureTypes' /\ ThreadTypes'
  BY <1>2, NextFailureTypes, NextThreadTypes
<1> QED
  BY <1>3, <1>4, <1>5, <1>6, TypePartsThen DEF OtherTypes

-----------------------------------------------------------------------------
(* Who polls.                                                              *)

LEMMA PollingOne ==
  ASSUME Pollers, Orderly PROVE OneBatch
BY DEF Pollers, Orderly, OneBatch

LEMMA PollingOneThen ==
  ASSUME Pollers', Orderly' PROVE OneBatch'
BY DEF Pollers, Orderly, OneBatch

LEMMA NextPollers ==
  ASSUME TypeOK, Pollers, Next
  PROVE  Pollers' /\ (raced => raced')
<1>0. DOMAIN batch = {"device", "user"} /\ sync \in BOOLEAN /\ raced \in BOOLEAN
  BY DEF TypeOK
<1>1. CASE SetSync
  <2>1. ~sync /\ sync' /\ (raced' <=> dev # "idle")
    BY <1>1 DEF SetSync
  <2>2. dev' = dev /\ batch' = batch
    BY <1>1 DEF SetSync
  <2>3. ~raced
    BY <2>1 DEF Pollers
  <2>4. dev \notin {"handle", "handle, poll"} => batch["device"] = <<>>
    BY DEF Pollers
  <2> QED
    BY <2>1, <2>2, <2>3, <2>4 DEF Pollers
<1>2. CASE HandleEvent \/ Arm
  <2>1. UNCHANGED <<sync, raced, batch>> /\ dev \in {"idle", "arm"}
    BY <1>2 DEF HandleEvent, Arm
  <2>2. dev' \in {"idle", "arm", "lock"}
    BY <1>2 DEF HandleEvent, Arm
  <2>3. (dev = "idle" /\ (sync => dev' = "idle")) \/ dev = "arm"
    BY <1>2 DEF HandleEvent, Arm
  <2> QED
    BY <2>1, <2>2, <2>3 DEF Pollers
<1>3. CASE Poll
  <2>1. UNCHANGED <<sync, raced>> /\ (dev = "lock" \/ dev = "poll")
    BY <1>3 DEF Poll
  <2>2. batch'["user"] = batch["user"] /\ batch'["device"] = cq
    BY <1>0, <1>3 DEF Poll
  <2>3. cq = <<>> \/ dev' \in {"handle", "handle, poll"}
    BY <1>3 DEF Poll
  <2> QED
    BY <2>1, <2>2, <2>3 DEF Pollers
<1>4. CASE HandleBatch
  <2>1. UNCHANGED <<sync, raced>> /\ dev \in {"handle", "handle, poll"}
    BY <1>4 DEF HandleBatch
  <2>2. batch'["user"] = batch["user"] /\ batch'["device"] = <<>>
    BY <1>0, <1>4 DEF HandleBatch
  <2> QED
    BY <2>1, <2>2 DEF Pollers
<1>5. CASE UserPoll
  <2>1. UNCHANGED <<sync, raced, dev>> /\ sync
    BY <1>5 DEF UserPoll
  <2>2. batch'["device"] = batch["device"]
    BY <1>0, <1>5 DEF UserPoll
  <2> QED
    BY <2>1, <2>2 DEF Pollers
<1>6. CASE UserHandleBatch
  <2>1. UNCHANGED <<sync, raced, dev>>
    BY <1>6 DEF UserHandleBatch
  <2>2. batch'["device"] = batch["device"] /\ batch'["user"] = <<>>
    BY <1>0, <1>6 DEF UserHandleBatch
  <2> QED
    BY <2>1, <2>2 DEF Pollers
<1>7. CASE UNCHANGED <<sync, raced, dev, batch>>
  BY <1>7 DEF Pollers
<1>8. CASE Acknowledge
  BY <1>7, <1>8 DEF Acknowledge
<1>9. ASSUME NEW s \in Slots,
             \/ RegionArrives(s) \/ WriteArrives(s) \/ CreateSendBuffer(s) \/ CreateRecvBuffer(s)
             \/ Send(s) \/ PostSend(s) \/ RegionTimeout(s) \/ WaitSend(s)
             \/ WaitRecv(s) \/ WaitSendEnds(s) \/ WaitRecvEnds(s) \/ WaitTimeout(s)
      PROVE  UNCHANGED <<sync, raced, dev, batch>>
  BY <1>9 DEF RegionArrives, WriteArrives, CreateSendBuffer, CreateRecvBuffer, Send, PostSend,
              RegionTimeout, WaitSend, WaitRecv, WaitSendEnds, WaitRecvEnds, WaitTimeout
<1> QED
  BY <1>1, <1>2, <1>3, <1>4, <1>5, <1>6, <1>7, <1>8, <1>9 DEF Next, DeviceThread, UserThreads

LEMMA OrderlyBefore ==
  ASSUME TypeOK, Pollers, Next, Orderly'
  PROVE  Orderly
<1>1. raced => raced'
  BY NextPollers
<1>2. ex => ex'
  BY FailureKinds
<1> QED
  BY <1>1, <1>2 DEF Orderly

-----------------------------------------------------------------------------
(* Every completion on its way is accounted for.                           *)

Begun(user) == IF user = "region" THEN 1 ELSE 0

(* Nothing more is on its way for a slot.                                  *)
LEMMA AccountedKept ==
  ASSUME QueueTypes, QueueTypes', CounterTypes, CounterTypes', NEW s \in Slots, Accounted(s),
         s \in handlers.send => s \in handlers'.send, s \in handlers.recv => s \in handlers'.recv,
         s \in exposed => s \in exposed', s \in exposed' => s \in exposed \/ s \in handlers'.recv,
         InFlight(Wc("RECV_RDMA_WITH_IMM", s))' <= InFlight(Wc("RECV_RDMA_WITH_IMM", s)),
         InFlight(Wc("RDMA_WRITE", s))' <= InFlight(Wc("RDMA_WRITE", s)),
         InFlight(Wc("SEND", s))' <= InFlight(Wc("SEND", s)),
         InFlight(Wc("SEND", s))' > 0 /\ s \in sendRegions => s \in sendRegions',
         sender'[s] # "idle" => sender[s] # "idle" \/ s \in handlers.send,
         sendPending'[s] + Begun(sender[s]) + InFlight(Wc("RDMA_WRITE", s)) >=
           sendPending[s] + Begun(sender'[s]) + InFlight(Wc("RDMA_WRITE", s))'
  PROVE  Accounted(s)'
<1>1. PICK a \in Nat, b \in Nat, c \in Nat :
        /\ a = InFlight(Wc("RECV_RDMA_WITH_IMM", s)) /\ b = InFlight(Wc("RDMA_WRITE", s))
        /\ c = InFlight(Wc("SEND", s))
  BY FlightIsNat
<1>2. PICK d \in Nat, e \in Nat, f \in Nat :
        /\ d = InFlight(Wc("RECV_RDMA_WITH_IMM", s))' /\ e = InFlight(Wc("RDMA_WRITE", s))'
        /\ f = InFlight(Wc("SEND", s))'
  BY FlightIsNatThen
<1>3. d <= a /\ e <= b /\ f <= c
  BY <1>1, <1>2
<1>4. PICK m \in Nat, n \in Nat, g \in Nat, h \in Nat :
        m = sendPending[s] /\ n = sendPending'[s] /\ g = Begun(sender[s]) /\ h = Begun(sender'[s])
  <2>1. \A x : Begun(x) \in Nat
    BY DEF Begun
  <2>2. sendPending[s] \in Nat /\ sendPending'[s] \in Nat
    BY DEF CounterTypes
  <2> QED
    BY <2>1, <2>2
<1>5. n + g + b >= m + h + e
  BY <1>1, <1>2, <1>4
<1>6. /\ sender[s] # "idle" => s \in handlers.send
      /\ s \in exposed => s \in handlers.recv
      /\ a > 0 => s \in exposed
      /\ b > 0 => s \in handlers.send
      /\ m >= b + g
      /\ c <= 1
      /\ c > 0 => s \in sendRegions /\ s \in handlers.recv
  BY <1>1, <1>4 DEF Accounted, Begun
<1>7. /\ d > 0 => a > 0
      /\ e > 0 => b > 0
      /\ n >= e + h
      /\ f <= 1
      /\ f > 0 => c > 0
  BY <1>3, <1>5, <1>6
<1>8. /\ sender'[s] # "idle" => s \in handlers'.send
      /\ s \in exposed' => s \in handlers'.recv
      /\ d > 0 => s \in exposed'
      /\ e > 0 => s \in handlers'.send
      /\ f > 0 => s \in sendRegions' /\ s \in handlers'.recv
  BY <1>2, <1>6, <1>7
<1> QED
  BY <1>2, <1>4, <1>7, <1>8 DEF Accounted, Begun

(* What a step leaves true of a slot while no more is on its way.          *)
Steady(s) ==
  /\ s \in handlers.send => s \in handlers'.send
  /\ s \in handlers.recv => s \in handlers'.recv
  /\ sender'[s] # "idle" => sender[s] # "idle" \/ s \in handlers.send
  /\ sendPending'[s] + Begun(sender[s]) >= sendPending[s] + Begun(sender'[s])
  /\ s \in exposed <=> s \in exposed'
  /\ s \in sendRegions => s \in sendRegions'

LEMMA SteadyAccounted ==
  ASSUME QueueTypes, QueueTypes', CounterTypes, CounterTypes', NEW s \in Slots, Accounted(s),
         Steady(s),
         InFlight(Wc("RECV_RDMA_WITH_IMM", s))' = InFlight(Wc("RECV_RDMA_WITH_IMM", s)),
         InFlight(Wc("RDMA_WRITE", s))' = InFlight(Wc("RDMA_WRITE", s)),
         InFlight(Wc("SEND", s))' = InFlight(Wc("SEND", s))
  PROVE  Accounted(s)'
<1>1. PICK a \in Nat, b \in Nat, c \in Nat :
        /\ a = InFlight(Wc("RECV_RDMA_WITH_IMM", s)) /\ b = InFlight(Wc("RDMA_WRITE", s))
        /\ c = InFlight(Wc("SEND", s))
  BY FlightIsNat
<1>2. PICK m \in Nat, n \in Nat, g \in Nat, h \in Nat :
        m = sendPending[s] /\ n = sendPending'[s] /\ g = Begun(sender[s]) /\ h = Begun(sender'[s])
  <2>1. \A x : Begun(x) \in Nat
    BY DEF Begun
  <2>2. sendPending[s] \in Nat /\ sendPending'[s] \in Nat
    BY DEF CounterTypes
  <2> QED
    BY <2>1, <2>2
<1>3. n + g >= m + h
  BY <1>2 DEF Steady
<1>4. n + g + b >= m + h + b
  BY <1>3
<1>5. sendPending'[s] + Begun(sender[s]) + InFlight(Wc("RDMA_WRITE", s)) >=
        sendPending[s] + Begun(sender'[s]) + InFlight(Wc("RDMA_WRITE", s))'
  BY <1>1, <1>2, <1>4
<1>6. /\ InFlight(Wc("RECV_RDMA_WITH_IMM", s))' <= InFlight(Wc("RECV_RDMA_WITH_IMM", s))
      /\ InFlight(Wc("RDMA_WRITE", s))' <= InFlight(Wc("RDMA_WRITE", s))
      /\ InFlight(Wc("SEND", s))' <= InFlight(Wc("SEND", s))
  BY <1>1
<1>7. /\ s \in handlers.send => s \in handlers'.send
      /\ s \in handlers.recv => s \in handlers'.recv
      /\ sender'[s] # "idle" => sender[s] # "idle" \/ s \in handlers.send
      /\ s \in exposed => s \in exposed'
      /\ s \in exposed' => s \in exposed \/ s \in handlers'.recv
      /\ InFlight(Wc("SEND", s))' > 0 /\ s \in sendRegions => s \in sendRegions'
  BY DEF Steady
<1> QED
  BY <1>5, <1>6, <1>7, AccountedKept

(* A step that touches no thread and no buffer.                            *)
LEMMA StillSteady ==
  ASSUME CounterTypes, NEW s \in Slots,
         UNCHANGED <<handlers, exposed, sendRegions, sendPending, sender>>
  PROVE  Steady(s)
<1>1. PICK m \in Nat, g \in Nat : m = sendPending[s] /\ g = Begun(sender[s])
  <2>1. Begun(sender[s]) \in Nat
    BY DEF Begun
  <2> QED
    BY <2>1 DEF CounterTypes
<1>2. sendPending'[s] = m /\ Begun(sender'[s]) = g
  BY <1>1
<1>3. sendPending'[s] + Begun(sender[s]) >= sendPending[s] + Begun(sender'[s])
  BY <1>1, <1>2
<1> QED
  BY <1>3 DEF Steady

(* A step of a thread that uses the buffer for slot s.                     *)
LEMMA UserSteady ==
  ASSUME CounterTypes, ThreadTypes, NEW s \in Slots, NEW r \in Slots, NEW v,
         UNCHANGED <<handlers, exposed, sendRegions>>,
         sender' = [sender EXCEPT ![s] = v],
         \/ sendPending' = sendPending /\ v # "region" /\ (sender[s] # "idle" \/ s \in handlers.send)
         \/ sendPending' = [sendPending EXCEPT ![s] = @ + 1] /\ s \in handlers.send
  PROVE  Steady(r)
<1>1. PICK m \in Nat, g \in Nat, h \in Nat :
        m = sendPending[r] /\ g = Begun(sender[r]) /\ h = Begun(sender'[r])
  <2>1. \A x : Begun(x) \in Nat
    BY DEF Begun
  <2> QED
    BY <2>1 DEF CounterTypes
<1>2. g <= 1 /\ h <= 1 /\ g >= 0 /\ h >= 0
  BY <1>1 DEF Begun
<1>3. CASE r = s
  <2>1. sender'[r] = v
    BY <1>3 DEF ThreadTypes
  <2>2. sender'[r] # "idle" => sender[r] # "idle" \/ r \in handlers.send
    BY <1>3
  <2>3. sendPending'[r] + g >= m + h
    <3>1. CASE sendPending' = sendPending /\ v # "region"
      <4>1. h = 0 /\ sendPending'[r] = m
        BY <1>1, <2>1, <3>1 DEF Begun
      <4> QED
        BY <4>1
    <3>2. CASE sendPending' = [sendPending EXCEPT ![s] = @ + 1]
      <4>1. sendPending'[r] = m + 1
        BY <1>1, <1>3, <3>2 DEF CounterTypes
      <4> QED
        BY <1>2, <4>1
    <3> QED
      BY <3>1, <3>2
  <2> QED
    BY <1>1, <2>2, <2>3 DEF Steady
<1>4. CASE r # s
  <2>1. sender'[r] = sender[r]
    BY <1>4 DEF ThreadTypes
  <2>2. sendPending'[r] = m
    BY <1>1, <1>4 DEF CounterTypes
  <2>3. sendPending'[r] + g >= m + h
    BY <1>1, <2>1, <2>2
  <2> QED
    BY <1>1, <2>1, <2>3 DEF Steady
<1> QED
  BY <1>3, <1>4

(* The completions that the accounts are about.                            *)
LEMMA WorkApart ==
  \A s, r : /\ Wc("RECV_RDMA_WITH_IMM", s) # Wc("RDMA_WRITE", r)
            /\ Wc("RECV_RDMA_WITH_IMM", s) # Wc("SEND", r) /\ Wc("RDMA_WRITE", s) # Wc("SEND", r)
            /\ Wc("RECV", s) # Wc("RECV_RDMA_WITH_IMM", r)
            /\ Wc("RECV", s) # Wc("RDMA_WRITE", r) /\ Wc("RECV", s) # Wc("SEND", r)
            /\ \A op : Wc(op, s) = Wc(op, r) => s = r
BY DEF Wc

(* One more completion x is on its way, and none for slot r.               *)
LEMMA GrowthElsewhere ==
  ASSUME QueueTypes, NEW x \in Work,
         \/ cq' = Append(cq, x) /\ sq' = sq
         \/ cq' = cq /\ sq' = Append(sq, x),
         batch' = batch, NEW w, w # x
  PROVE  InFlight(w)' = InFlight(w)
<1>1. InFlight(w)' = InFlight(w) + (IF w = x THEN 1 ELSE 0)
  BY FlightGrows
<1>2. InFlight(w) \in Nat
  BY FlightIsNat
<1> QED
  BY <1>1, <1>2

LEMMA GrowthHere ==
  ASSUME QueueTypes, NEW x \in Work,
         \/ cq' = Append(cq, x) /\ sq' = sq
         \/ cq' = cq /\ sq' = Append(sq, x),
         batch' = batch
  PROVE  InFlight(x)' = InFlight(x) + 1
<1>1. \A w : InFlight(w)' = InFlight(w) + (IF w = x THEN 1 ELSE 0)
  BY FlightGrows
<1> QED
  BY <1>1

LEMMA WriteArrivesAccounted ==
  ASSUME QueueTypes, QueueTypes', CounterTypes, CounterTypes', \A s \in Slots : Accounted(s),
         NEW s \in Slots, WriteArrives(s), NEW r \in Slots
  PROVE  Accounted(r)'
<1> DEFINE x == Wc("RECV_RDMA_WITH_IMM", s)
<1>1. x \in Work
  BY WorkMeaning
<1>2. cq' = Append(cq, x) /\ sq' = sq /\ batch' = batch
  BY DEF WriteArrives, Push, Wc
<1>3. UNCHANGED <<handlers, exposed, sendRegions, sendPending, sender>> /\ s \in exposed
  BY DEF WriteArrives, regions, counts, threads
<1>4. /\ InFlight(Wc("RDMA_WRITE", r))' = InFlight(Wc("RDMA_WRITE", r))
      /\ InFlight(Wc("SEND", r))' = InFlight(Wc("SEND", r))
  BY <1>1, <1>2, WorkApart, GrowthElsewhere
<1>5. CASE r # s
  <2>1. InFlight(Wc("RECV_RDMA_WITH_IMM", r))' = InFlight(Wc("RECV_RDMA_WITH_IMM", r))
    BY <1>1, <1>2, <1>5, WorkApart, GrowthElsewhere
  <2>2. Steady(r)
    BY <1>3, StillSteady
  <2> QED
    BY <1>4, <2>1, <2>2, SteadyAccounted
<1>6. CASE r = s
  <2>1. Accounted(r)
    OBVIOUS
  <2> HIDE DEF x
  <2> QED
    BY <1>3, <1>4, <1>6, <2>1 DEF Accounted
<1> QED
  BY <1>5, <1>6

LEMMA PostSendAccounted ==
  ASSUME QueueTypes, QueueTypes', CounterTypes, CounterTypes', ThreadTypes,
         \A s \in Slots : Accounted(s), NEW s \in Slots, PostSend(s), NEW r \in Slots
  PROVE  Accounted(r)'
<1> DEFINE x == Wc("RDMA_WRITE", s)
<1>0. x \in Work
  BY WorkMeaning
<1>1. /\ UNCHANGED <<handlers, exposed, sendRegions, sendPending, cq, batch>>
      /\ sender[s] = "region"
  BY DEF PostSend, regions, counts, queue, peer
<1>2. \/ sq' = Append(sq, x) /\ sender' = [sender EXCEPT ![s] = "idle"]
      \/ sq' = sq /\ sender' = [sender EXCEPT ![s] = "threw"]
  BY DEF PostSend, Wc
<1>3. Steady(r)
  <2>1. PICK v : v # "region" /\ sender' = [sender EXCEPT ![s] = v]
    BY <1>2
  <2>2. sender[s] # "idle"
    BY <1>1
  <2> QED
    BY <1>1, <2>1, <2>2, UserSteady
<1>4. CASE sq' = sq
  <2>1. \A w : InFlight(w)' = InFlight(w)
    BY <1>1, <1>4, FlightSame
  <2> QED
    BY <1>3, <2>1, SteadyAccounted
<1>5. CASE sq' = Append(sq, x) /\ sender' = [sender EXCEPT ![s] = "idle"]
  <2>1. /\ InFlight(Wc("RECV_RDMA_WITH_IMM", r))' = InFlight(Wc("RECV_RDMA_WITH_IMM", r))
        /\ InFlight(Wc("SEND", r))' = InFlight(Wc("SEND", r))
    BY <1>0, <1>1, <1>5, WorkApart, GrowthElsewhere
  <2>2. CASE r # s
    <3>1. InFlight(Wc("RDMA_WRITE", r))' = InFlight(Wc("RDMA_WRITE", r))
      BY <1>0, <1>1, <1>5, <2>2, WorkApart, GrowthElsewhere
    <3> QED
      BY <1>3, <2>1, <3>1, SteadyAccounted
  <2>3. CASE r = s
    <3>1. InFlight(x)' = InFlight(x) + 1
      BY <1>0, <1>1, <1>5, GrowthHere
    <3>2. sender'[r] = "idle"
      BY <1>5, <2>3 DEF ThreadTypes
    <3>3. PICK b \in Nat, m \in Nat : b = InFlight(x) /\ m = sendPending[s]
      BY FlightIsNat DEF CounterTypes
    <3>4. m >= b + 1 /\ s \in handlers.send
      BY <1>1, <3>3 DEF Accounted
    <3>5. sendPending'[r] >= InFlight(Wc("RDMA_WRITE", r))' + 0
      BY <1>1, <2>3, <3>1, <3>3, <3>4
    <3>6. Accounted(r)
      OBVIOUS
    <3>7. r \in handlers'.send
      BY <1>1, <2>3, <3>4
    <3> HIDE DEF x
    <3> QED
      BY <1>1, <2>1, <3>2, <3>5, <3>6, <3>7 DEF Accounted
  <2> QED
    BY <2>2, <2>3
<1> QED
  BY <1>2, <1>4, <1>5

LEMMA CreateRecvBufferAccounted ==
  ASSUME QueueTypes, QueueTypes', CounterTypes, CounterTypes', BufferTypes,
         \A s \in Slots : Accounted(s), NEW s \in Slots, CreateRecvBuffer(s), NEW r \in Slots
  PROVE  Accounted(r)'
<1> DEFINE x == Wc("SEND", s)
<1>0. x \in Work
  BY WorkMeaning
<1>1. UNCHANGED <<sendPending, sender, cq, batch>> /\ s \notin handlers.recv
  BY DEF CreateRecvBuffer, counts, queue, threads
<1>2. handlers'.send = handlers.send /\ handlers'.recv = handlers.recv \cup {s}
  BY DEF CreateRecvBuffer, BufferTypes
<1>3. \/ /\ sq' = Append(sq, x) /\ sendRegions' = sendRegions \cup {s} /\ exposed' = exposed \cup {s}
      \/ UNCHANGED <<sq, sendRegions, exposed>>
  BY DEF CreateRecvBuffer, Wc
<1>4. PICK m \in Nat, g \in Nat : /\ m = sendPending[r] /\ g = Begun(sender[r])
                                  /\ sendPending'[r] = m /\ Begun(sender'[r]) = g
  <2>1. Begun(sender[r]) \in Nat
    BY DEF Begun
  <2> QED
    BY <1>1, <2>1 DEF CounterTypes
<1>5. sendPending'[r] + Begun(sender[r]) >= sendPending[r] + Begun(sender'[r])
  BY <1>4
<1>6. CASE r # s \/ UNCHANGED <<sendRegions, exposed>>
  <2>0. r \in exposed <=> r \in exposed'
    BY <1>3, <1>6
  <2>1. Steady(r)
    BY <1>1, <1>2, <1>3, <1>5, <2>0 DEF Steady
  <2>2. CASE sq' = sq
    <3>1. \A w : InFlight(w)' = InFlight(w)
      BY <1>1, <2>2, FlightSame
    <3> QED
      BY <2>1, <3>1, SteadyAccounted
  <2>3. CASE sq' = Append(sq, x) /\ r # s
    <3>1. /\ InFlight(Wc("RECV_RDMA_WITH_IMM", r))' = InFlight(Wc("RECV_RDMA_WITH_IMM", r))
          /\ InFlight(Wc("RDMA_WRITE", r))' = InFlight(Wc("RDMA_WRITE", r))
          /\ InFlight(Wc("SEND", r))' = InFlight(Wc("SEND", r))
      BY <1>0, <1>1, <2>3, WorkApart, GrowthElsewhere
    <3> QED
      BY <2>1, <3>1, SteadyAccounted
  <2>4. CASE sq' = Append(sq, x) /\ r = s /\ UNCHANGED <<sendRegions, exposed>>
    <3>1. s \in exposed /\ Accounted(s)
      BY <1>3, <2>4
    <3> QED
      BY <1>1, <3>1 DEF Accounted
  <2> QED
    BY <1>3, <1>6, <2>2, <2>3, <2>4
<1>7. CASE /\ r = s /\ sq' = Append(sq, x)
           /\ sendRegions' = sendRegions \cup {s} /\ exposed' = exposed \cup {s}
  <2>1. /\ InFlight(Wc("RECV_RDMA_WITH_IMM", r))' = InFlight(Wc("RECV_RDMA_WITH_IMM", r))
        /\ InFlight(Wc("RDMA_WRITE", r))' = InFlight(Wc("RDMA_WRITE", r))
    BY <1>0, <1>1, <1>7, WorkApart, GrowthElsewhere
  <2>2. InFlight(x)' = InFlight(x) + 1
    BY <1>0, <1>1, <1>7, GrowthHere
  <2>3. Accounted(r) /\ InFlight(x) \in Nat
    BY FlightIsNat
  <2>4. InFlight(x) = 0
    BY <1>1, <1>7, <2>3 DEF Accounted
  <2>5. InFlight(Wc("SEND", r))' <= 1
    BY <1>7, <2>2, <2>4
  <2>6. r \in exposed' /\ r \in sendRegions' /\ r \in handlers'.recv
    BY <1>2, <1>7
  <2> HIDE DEF x
  <2> QED
    BY <1>1, <1>2, <2>1, <2>3, <2>5, <2>6 DEF Accounted
<1> QED
  BY <1>3, <1>6, <1>7

(* A batch is handled, or lost with an exception.                          *)
LEMMA BatchAccounted ==
  ASSUME QueueTypes, QueueTypes', CounterTypes, CounterTypes', ThreadTypes,
         \A s \in Slots : Accounted(s), NEW t \in Pollings,
         \/ Handles(t)
         \/ Loses(t) /\ UNCHANGED <<sendPending, sendRegions>>,
         UNCHANGED <<handlers, exposed>>, sender' = sender \/ sender' = Thrown(sender),
         NEW r \in Slots
  PROVE  Accounted(r)'
<1>1. \A w : /\ Count(batch[t], {w}) \in Nat /\ Count(batch[t], {w}) <= InFlight(w)
             /\ InFlight(w)' = InFlight(w) - Count(batch[t], {w})
  BY FlightShrinks DEF Handles, Loses
<1>2. /\ sender'[r] # "idle" => sender[r] # "idle"
      /\ Begun(sender'[r]) \in Nat /\ Begun(sender[r]) \in Nat /\ Begun(sender'[r]) <= Begun(sender[r])
  BY DEF Thrown, Begun, ThreadTypes
<1>3. \A w : InFlight(w)' <= InFlight(w)
  <2> TAKE w
  <2>1. PICK b \in Nat, c \in Nat : b = InFlight(w) /\ c = Count(batch[t], {w})
    BY <1>1, FlightIsNat
  <2>2. InFlight(w)' = b - c
    BY <1>1, <2>1
  <2>3. b - c <= b
    OBVIOUS
  <2> QED
    BY <2>1, <2>2, <2>3
<1>4. sendPending'[r] = sendPending[r] \/
        sendPending'[r] = sendPending[r] - Count(batch[t], {Wc("RDMA_WRITE", r)})
  BY HandledCounters
<1>5. sendPending'[r] + Begun(sender[r]) + InFlight(Wc("RDMA_WRITE", r)) >=
        sendPending[r] + Begun(sender'[r]) + InFlight(Wc("RDMA_WRITE", r))'
  <2>1. PICK m \in Nat, n \in Nat, b \in Nat, c \in Nat :
          /\ m = sendPending[r] /\ n = sendPending'[r] /\ b = InFlight(Wc("RDMA_WRITE", r))
          /\ c = Count(batch[t], {Wc("RDMA_WRITE", r)})
    BY <1>1, FlightIsNat DEF CounterTypes
  <2>2. PICK g \in Nat, h \in Nat : g = Begun(sender[r]) /\ h = Begun(sender'[r]) /\ h <= g
    BY <1>2
  <2>3. n = m \/ n = m - c
    BY <1>4, <2>1
  <2>4. InFlight(Wc("RDMA_WRITE", r))' = b - c
    BY <1>1, <2>1
  <2>5. n + g + b >= m + h + (b - c)
    BY <2>2, <2>3
  <2> QED
    BY <2>1, <2>2, <2>4, <2>5
<1>6. InFlight(Wc("SEND", r))' > 0 /\ r \in sendRegions => r \in sendRegions'
  <2> SUFFICES ASSUME InFlight(Wc("SEND", r))' > 0, r \in sendRegions PROVE r \in sendRegions'
    OBVIOUS
  <2>1. CASE UNCHANGED sendRegions
    BY <2>1
  <2>2. CASE Handles(t)
    <3>1. PICK b \in Nat, c \in Nat :
            b = InFlight(Wc("SEND", r)) /\ c = Count(batch[t], {Wc("SEND", r)})
      BY <1>1, FlightIsNat
    <3>2. b <= 1
      BY <3>1 DEF Accounted
    <3>3. b - c > 0
      BY <1>1, <3>1
    <3>4. c = 0
      BY <3>2, <3>3
    <3>5. sendRegions' = {s \in sendRegions : Count(batch[t], {Wc("SEND", s)}) = 0}
      BY <2>2, HandledCounters
    <3> QED
      BY <3>1, <3>4, <3>5
  <2> QED
    BY <2>1, <2>2
<1>7. /\ InFlight(Wc("RECV_RDMA_WITH_IMM", r))' <= InFlight(Wc("RECV_RDMA_WITH_IMM", r))
      /\ InFlight(Wc("RDMA_WRITE", r))' <= InFlight(Wc("RDMA_WRITE", r))
      /\ InFlight(Wc("SEND", r))' <= InFlight(Wc("SEND", r))
  BY <1>3
<1>8. Accounted(r)
  OBVIOUS
<1>9. /\ r \in handlers.send => r \in handlers'.send
      /\ r \in handlers.recv => r \in handlers'.recv
      /\ r \in exposed => r \in exposed'
      /\ r \in exposed' => r \in exposed \/ r \in handlers'.recv
  OBVIOUS
<1> QED
  BY <1>2, <1>5, <1>6, <1>7, <1>8, <1>9, AccountedKept

LEMMA NextAccounted ==
  ASSUME TypeOK, TypeOK', Pollers, \A s \in Slots : Accounted(s), Next, NEW r \in Slots
  PROVE  Accounted(r)'
<1>0. /\ QueueTypes /\ QueueTypes' /\ CounterTypes /\ CounterTypes' /\ ThreadTypes /\ BufferTypes
      /\ Accounted(r)
  BY TypeParts, TypePartsThen DEF OtherTypes
<1> USE DEF regions, queue, counts, threads, peer
<1>1. ASSUME Steady(r), UNCHANGED <<sq, cq, batch>> PROVE Accounted(r)'
  <2>1. \A w : InFlight(w)' = InFlight(w)
    BY <1>0, <1>1, FlightSame
  <2> QED
    BY <1>0, <1>1, <2>1, SteadyAccounted
<1>2. CASE Acknowledge \/ Poll \/ UserPoll
  <2>1. UNCHANGED <<handlers, exposed, sendRegions, sendPending, sender>>
    BY <1>2 DEF Acknowledge, Poll, UserPoll
  <2>2. Steady(r)
    BY <1>0, <2>1, StillSteady
  <2>3. Acks \/ \E t \in Pollings : Polls(t)
    <3>1. CASE Acknowledge
      <4>1. sq # <<>> /\ sq \in Seq(Work)
        BY <1>0, <3>1 DEF Acknowledge, QueueTypes
      <4>2. Head(sq) \in Work
        BY <4>1
      <4>3. Head(sq) = Wc(Head(sq).opcode, Head(sq).slot)
        BY <4>2, WorkMeaning
      <4>4. cq' = Append(cq, Head(sq))
        BY <3>1, <4>3 DEF Acknowledge, Push, Wc
      <4> QED
        BY <3>1, <4>1, <4>4 DEF Acknowledge, Acks, Placement
    <3>2. CASE Poll
      <4>1. Polls("device")
        BY <3>2 DEF Poll, Polls, Pollers, Placement
      <4> QED
        BY <4>1 DEF Pollings
    <3>3. CASE UserPoll
      <4>1. Polls("user")
        BY <3>3 DEF UserPoll, Polls, Placement
      <4> QED
        BY <4>1 DEF Pollings
    <3> QED
      BY <1>2, <3>1, <3>2, <3>3
  <2>4. \A w : InFlight(w)' = InFlight(w)
    BY <1>0, <2>3, FlightSame
  <2> QED
    BY <1>0, <2>2, <2>4, SteadyAccounted
<1>3. CASE HandleEvent \/ Arm \/ SetSync
  <2>1. UNCHANGED <<handlers, exposed, sendRegions, sendPending, sender, sq, cq, batch>>
    BY <1>3 DEF HandleEvent, Arm, SetSync
  <2>2. Steady(r)
    BY <1>0, <2>1, StillSteady
  <2> QED
    BY <1>1, <2>1, <2>2
<1>4. ASSUME NEW s \in Slots, RegionArrives(s) PROVE Accounted(r)'
  <2>1. UNCHANGED <<handlers, exposed, sendRegions, sendPending, sender, sq, batch>>
    BY <1>4 DEF RegionArrives
  <2>2. Steady(r)
    BY <1>0, <2>1, StillSteady
  <2>3. cq' = Append(cq, Wc("RECV", s)) /\ Wc("RECV", s) \in Work
    BY <1>4, WorkMeaning DEF RegionArrives, Push, Wc
  <2>4. /\ InFlight(Wc("RECV_RDMA_WITH_IMM", r))' = InFlight(Wc("RECV_RDMA_WITH_IMM", r))
        /\ InFlight(Wc("RDMA_WRITE", r))' = InFlight(Wc("RDMA_WRITE", r))
        /\ InFlight(Wc("SEND", r))' = InFlight(Wc("SEND", r))
    BY <1>0, <2>1, <2>3, WorkApart, GrowthElsewhere
  <2> QED
    BY <1>0, <2>2, <2>4, SteadyAccounted
<1>5. ASSUME NEW s \in Slots, CreateSendBuffer(s) PROVE Accounted(r)'
  <2>1. UNCHANGED <<exposed, sendRegions, sendPending, sender, sq, cq, batch>>
    BY <1>5 DEF CreateSendBuffer
  <2>2. handlers'.send = handlers.send \cup {s} /\ handlers'.recv = handlers.recv
    BY <1>0, <1>5 DEF CreateSendBuffer, BufferTypes
  <2>3. \A w : InFlight(w)' = InFlight(w)
    BY <1>0, <2>1, FlightSame
  <2> QED
    BY <1>0, <2>1, <2>2, <2>3 DEF Accounted
<1>6. ASSUME NEW s \in Slots, Send(s) PROVE Accounted(r)'
  <2>1. /\ UNCHANGED <<handlers, exposed, sendRegions, sq, cq, batch>>
        /\ sender' = [sender EXCEPT ![s] = "region"] /\ s \in handlers.send
        /\ sendPending' = [sendPending EXCEPT ![s] = @ + 1]
    BY <1>6 DEF Send
  <2>2. Steady(r)
    BY <1>0, <2>1, UserSteady
  <2> QED
    BY <1>1, <2>1, <2>2
<1>7. ASSUME NEW s \in Slots,
             RegionTimeout(s) \/ WaitSend(s) \/ WaitSendEnds(s) \/ WaitTimeout(s)
               \/ WaitRecv(s) \/ WaitRecvEnds(s)
      PROVE  Accounted(r)'
  <2>1. UNCHANGED <<handlers, exposed, sendRegions, sendPending, sq, cq, batch>>
    BY <1>7 DEF RegionTimeout, WaitSend, WaitSendEnds, WaitTimeout, WaitRecv, WaitRecvEnds
  <2>2. \/ sender' = sender
        \/ /\ sender[s] # "idle" \/ s \in handlers.send
           /\ \E v \in {"idle", "wait", "threw"} : sender' = [sender EXCEPT ![s] = v]
    BY <1>7 DEF RegionTimeout, WaitSend, WaitSendEnds, WaitTimeout, WaitRecv, WaitRecvEnds
  <2>3. Steady(r)
    <3>1. CASE sender' = sender
      BY <1>0, <2>1, <3>1, StillSteady
    <3>2. ASSUME sender[s] # "idle" \/ s \in handlers.send, NEW v \in {"idle", "wait", "threw"},
                 sender' = [sender EXCEPT ![s] = v]
          PROVE  Steady(r)
      <4>1. v # "region"
        OBVIOUS
      <4> QED
        BY <1>0, <2>1, <3>2, <4>1, UserSteady
    <3> QED
      BY <2>2, <3>1, <3>2
  <2> QED
    BY <1>1, <2>1, <2>3
<1>8. ASSUME NEW s \in Slots, WriteArrives(s) PROVE Accounted(r)'
  BY <1>0, <1>8, WriteArrivesAccounted
<1>9. ASSUME NEW s \in Slots, CreateRecvBuffer(s) PROVE Accounted(r)'
  BY <1>0, <1>9, CreateRecvBufferAccounted
<1>10. ASSUME NEW s \in Slots, PostSend(s) PROVE Accounted(r)'
  BY <1>0, <1>10, PostSendAccounted
<1>11. CASE HandleBatch
  <2>1. UNCHANGED <<handlers, exposed, sender>>
    BY <1>11 DEF HandleBatch
  <2>2. Handles("device") \/ (Loses("device") /\ UNCHANGED <<sendPending, sendRegions>>)
    BY <1>11 DEF HandleBatch, Handles, Loses, Placement
  <2>3. "device" \in Pollings
    BY DEF Pollings
  <2> QED
    BY <1>0, <2>1, <2>2, <2>3, BatchAccounted
<1>12. CASE UserHandleBatch
  <2>1. UNCHANGED <<handlers, exposed>> /\ (sender' = sender \/ sender' = Thrown(sender))
    BY <1>12 DEF UserHandleBatch, UserThrows
  <2>2. Handles("user") \/ (Loses("user") /\ UNCHANGED <<sendPending, sendRegions>>)
    BY <1>12 DEF UserHandleBatch, Handles, Loses, Placement
  <2>3. "user" \in Pollings
    BY DEF Pollings
  <2> QED
    BY <1>0, <2>1, <2>2, <2>3, BatchAccounted
<1> QED
  BY <1>2, <1>3, <1>4, <1>5, <1>6, <1>7, <1>8, <1>9, <1>10, <1>11, <1>12
  DEF Next, DeviceThread, UserThreads

-----------------------------------------------------------------------------
LEMMA NextInv == IbInv /\ [Next]_vars => IbInv'
<1> SUFFICES ASSUME IbInv, [Next]_vars PROVE IbInv'
  OBVIOUS
<1>1. CASE UNCHANGED vars
  <2>1. UNCHANGED <<sync, raced, handlers, peerRegions, sendRegions, inbox, recvPosted, rq, sq, cq,
                    armed, events, dev, batch>>
    BY <1>1 DEF vars, regions, queue
  <2>2. UNCHANGED <<sendPending, sendCompletions, recvCompletions, sender, receiver, ex, bufferEx,
                    stuck, timeouts, announced, exposed, narrive, nsend>>
    BY <1>1 DEF vars, counts, threads, failure, peer
  <2>3. \A S : Unhandled(S)' = Unhandled(S)
    BY <2>1 DEF Unhandled
  <2>4. \A w : InFlight(w)' = InFlight(w)
    BY <2>1, <2>3 DEF InFlight
  <2>5. TypeOK'
    BY <2>1, <2>2 DEF IbInv, TypeOK
  <2>6. Pollers'
    BY <2>1 DEF IbInv, Pollers
  <2>7. \A s \in Slots : Accounted(s)'
    BY <2>1, <2>2, <2>4 DEF IbInv, Accounted
  <2>8. Orderly' <=> Orderly
    BY <2>1, <2>2 DEF Orderly
  <2>9. Queues'
    BY <2>1, <2>3, <2>8 DEF IbInv, Queues
  <2>10. Orderly' => Positions'
    BY <2>1, <2>3, <2>8 DEF IbInv, Positions, Placed
  <2> QED
    BY <2>5, <2>6, <2>7, <2>9, <2>10 DEF IbInv
<1>2. CASE Next
  <2>1. TypeOK /\ Pollers /\ (\A s \in Slots : Accounted(s)) /\ Queues /\ (Orderly => Positions)
    BY DEF IbInv
  <2>2. TypeOK'
    BY <1>2, <2>1, NextTypes
  <2>3. Pollers'
    BY <1>2, <2>1, NextPollers
  <2>4. \A s \in Slots : Accounted(s)'
    BY <1>2, <2>1, <2>2, NextAccounted
  <2>5. Kinds /\ QueueTypes /\ PlaceTypes
    BY <1>2, <2>1, StepKinds, TypeParts
  <2>6. Orderly' => Orderly
    BY <1>2, <2>1, OrderlyBefore
  <2>7. Queues'
    BY <2>1, <2>5, <2>6, NextQueues DEF PlaceTypes
  <2>8. ASSUME Orderly' PROVE Positions'
    <3>1. OneBatch /\ OneBatch'
      BY <2>1, <2>3, <2>6, <2>8, PollingOne, PollingOneThen
    <3> QED
      BY <2>1, <2>5, <2>6, <2>8, <3>1, NextPositions
  <2> QED
    BY <2>2, <2>3, <2>4, <2>7, <2>8 DEF IbInv
<1> QED
  BY <1>1, <1>2

(* The invariant of the ibverbs transport: types, which thread has a       *)
(* batch, that every completion on its way is accounted for, the           *)
(* capacities of the queues, and where the regions are in the inbox.       *)
THEOREM IbverbsInvariance == Spec => []IbInv
<1>1. Init => IbInv
  BY InitInv
<1>2. IbInv /\ [Next]_vars => IbInv'
  BY NextInv
<1> QED
  BY <1>1, <1>2, PTL DEF Spec

(* A send writes into the peer's buffer for its own slot: the region that  *)
(* handleCompletion takes from the inbox, by its position alone, is that   *)
(* of the slot, however often the inbox has wrapped around.                *)
THEOREM RegionsAreRight == Spec => []RegionsRight
<1>1. IbInv => RegionsRight
  BY DEF IbInv, Positions, RegionsRight
<1> QED
  BY <1>1, IbverbsInvariance, PTL

(* The bench of receives is full again whenever completions have been      *)
(* handled, and the completion queue that sends and receives share never   *)
(* holds more than its capacity of 2 * kMaxBuffers.                        *)
THEOREM BenchStaysFull == Spec => []BenchIsFull
<1>1. ASSUME IbInv PROVE BenchIsFull
  <2>1. QueueTypes /\ Queues
    BY <1>1, TypeParts DEF IbInv
  <2>2. PICK i \in Nat, o \in Nat, a \in Nat, h \in Nat, n \in Nat :
          /\ i = Count(cq, Of(Incoming, Slots)) /\ o = Count(cq, Of(Outgoing, Slots))
          /\ a = Len(sq) /\ h = Len(rq) /\ n = Unhandled(Of(Incoming, Slots))
    <3>1. Len(sq) \in Nat /\ Len(rq) \in Nat
      <4>1. sq \in Seq(Work) /\ rq \in Seq(0 .. kMaxBuffers - 1)
        BY <1>1, TypeParts DEF IbInv, QueueTypes, PlaceTypes
      <4> QED
        BY <4>1
    <3>2. Count(cq, Of(Incoming, Slots)) \in Nat /\ Count(cq, Of(Outgoing, Slots)) \in Nat
      BY <2>1, CountsAreNat
    <3>3. Unhandled(Of(Incoming, Slots)) \in Nat
      BY <2>1, CountsAreNat
    <3> QED
      BY <3>1, <3>2, <3>3
  <2>3. Len(cq) = i + o
    BY <2>1, <2>2, CountKinds DEF QueueTypes
  <2>4. a + o <= kMaxBuffers /\ h + n <= kMaxBuffers
    BY <2>1, <2>2 DEF Queues
  <2>5. i <= n
    <3>1. PICK d \in Nat, u \in Nat :
            d = Count(batch["device"], Of(Incoming, Slots)) /\ u = Count(batch["user"], Of(Incoming, Slots))
      BY <2>1, CountsAreNat
    <3>2. n = d + u + i
      BY <2>2, <3>1 DEF Unhandled
    <3> QED
      BY <3>2
  <2>6. i + o <= 2 * kMaxBuffers
    BY <2>4, <2>5, BuffersAssumption
  <2>7. Len(cq) <= Capacity
    BY <2>3, <2>6 DEF Capacity
  <2> QED
    BY <2>1, <2>7 DEF BenchIsFull, Queues
<1> QED
  BY <1>1, IbverbsInvariance, PTL

(* No completion is refused by the GLOO_ENFORCEs of handleCompletion,      *)
(* which would end the device thread: its buffer is registered, and the    *)
(* region of a SEND is still kept.                                         *)
THEOREM CompletionsAreExpected == Spec => []CompletionsExpected
<1>1. ASSUME IbInv PROVE CompletionsExpected
  <2> SUFFICES ASSUME NEW w \in Work, Unhandled({w}) > 0 PROVE Expected(w)
    BY DEF CompletionsExpected
  <2>1. QueueTypes
    BY <1>1, TypeParts DEF IbInv
  <2>2. InFlight(w) \in Nat /\ InFlight(w) > 0
    <3>1. PICK a \in Nat, b \in Nat : a = InFlight(w) /\ b = Unhandled({w}) /\ b <= a
      BY <2>1, FlightIsNat
    <3> QED
      BY <3>1
  <2>3. PICK s \in Slots : s = w.slot /\ w = Wc(w.opcode, s)
    BY WorkMeaning
  <2>4. w.opcode \in {"RECV_RDMA_WITH_IMM", "RECV", "RDMA_WRITE", "SEND"}
    BY DEF Work, Of, Incoming, Outgoing
  <2>5. Accounted(s)
    BY <1>1 DEF IbInv
  <2>6. CASE w.opcode = "RECV_RDMA_WITH_IMM"
    BY <2>2, <2>3, <2>5, <2>6 DEF Accounted, Expected
  <2>7. CASE w.opcode = "RECV"
    BY <2>7 DEF Expected
  <2>8. CASE w.opcode = "RDMA_WRITE"
    <3>1. InFlight(Wc("RDMA_WRITE", s)) > 0 /\ InFlight(Wc("RDMA_WRITE", s)) \in Nat
      BY <2>2, <2>3, <2>8
    <3>2. s \in handlers.send
      BY <2>5, <3>1 DEF Accounted
    <3> QED
      BY <2>3, <2>8, <3>2 DEF Expected
  <2>9. CASE w.opcode = "SEND"
    BY <2>2, <2>3, <2>5, <2>9 DEF Accounted, Expected
  <2> QED
    BY <2>4, <2>6, <2>7, <2>8, <2>9
<1> QED
  BY <1>1, IbverbsInvariance, PTL
=============================================================================
