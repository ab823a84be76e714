--------------------------- MODULE SendRecvProofs ---------------------------
(***************************************************************************)
(* Proofs about the matching of unbound buffers, for any set of ranks and  *)
(* slots and any number of operations: the two ends of a pair always agree *)
(* on what is pending, a payload always finds the buffer it is for,        *)
(* recv-from-any misses no send, sends are received in order, and the      *)
(* protocol implements the safety part of Matching.                        *)
(***************************************************************************)
EXTENDS SendRecv, FiniteSetTheorems, SequenceTheorems, WellFoundedInduction, TLAPS

-----------------------------------------------------------------------------
(* Counting the elements of a sequence that belong to a set.               *)

LEMMA OccurrencesType ==
  ASSUME NEW T, NEW q \in Seq(T), NEW S
  PROVE  /\ Occurrences(q, S) \in Nat
         /\ IsFiniteSet({k \in DOMAIN q : q[k] \in S})
<1>1. DOMAIN q = 1 .. Len(q) /\ Len(q) \in Nat
  OBVIOUS
<1>2. IsFiniteSet(1 .. Len(q))
  BY <1>1, FS_Interval
<1>3. {k \in DOMAIN q : q[k] \in S} \in SUBSET (1 .. Len(q))
  BY <1>1
<1>4. IsFiniteSet({k \in DOMAIN q : q[k] \in S})
  BY <1>2, <1>3, FS_Subset
<1> QED
  BY <1>4, FS_CardinalityType DEF Occurrences

LEMMA OccurrencesEmpty ==
  ASSUME NEW S PROVE Occurrences(<<>>, S) = 0
<1>1. {k \in DOMAIN <<>> : <<>>[k] \in S} = {}
  OBVIOUS
<1> QED
  BY <1>1, FS_EmptySet DEF Occurrences

LEMMA OccurrencesListed ==
  ASSUME NEW T, NEW q \in Seq(T), NEW r
  PROVE  Listed(q, r) <=> Occurrences(q, {r}) > 0
<1> DEFINE D == {k \in DOMAIN q : q[k] \in {r}}
<1>1. IsFiniteSet(D) /\ Occurrences(q, {r}) \in Nat
  BY OccurrencesType
<1>2. Cardinality(D) = 0 <=> D = {}
  BY <1>1, FS_EmptySet
<1>3. D # {} <=> Listed(q, r)
  BY DEF Listed
<1> QED
  BY <1>1, <1>2, <1>3 DEF Occurrences

LEMMA OccurrencesAppend ==
  ASSUME NEW T, NEW q \in Seq(T), NEW e \in T, NEW S
  PROVE  /\ Append(q, e) \in Seq(T)
         /\ Occurrences(Append(q, e), S) = Occurrences(q, S) + (IF e \in S THEN 1 ELSE 0)
<1> DEFINE D == {k \in DOMAIN q : q[k] \in S}
           p == Append(q, e)
           E == {k \in DOMAIN p : p[k] \in S}
           n == Len(q) + 1
<1>1. IsFiniteSet(D) /\ Occurrences(q, S) \in Nat
  BY OccurrencesType
<1>2. DOMAIN q = 1 .. Len(q) /\ DOMAIN p = 1 .. n /\ Len(q) \in Nat
  OBVIOUS
<1>3. p[n] = e /\ \A k \in 1 .. Len(q) : p[k] = q[k]
  OBVIOUS
<1>4. n \notin D
  BY <1>2
<1>5. ASSUME e \in S PROVE Cardinality(E) = Cardinality(D) + 1
  <2>1. E = D \cup {n}
    BY <1>2, <1>3, <1>5
  <2> QED
    BY <1>1, <1>4, <2>1, FS_AddElement
<1>6. ASSUME e \notin S PROVE Cardinality(E) = Cardinality(D)
  <2>1. E = D
    BY <1>2, <1>3, <1>6
  <2> QED
    BY <2>1
<1>7. p \in Seq(T)
  OBVIOUS
<1>8. Cardinality(D) = Occurrences(q, S) /\ Cardinality(E) = Occurrences(p, S)
  BY DEF Occurrences
<1> HIDE DEF D, E
<1> QED
  BY <1>1, <1>5, <1>6, <1>7, <1>8

(* p is q without its n-th element.                                        *)
IsWithout(p, q, n) ==
  /\ Len(p) = Len(q) - 1
  /\ \A k \in 1 .. Len(p) : p[k] = IF k < n THEN q[k] ELSE q[k + 1]

LEMMA OccurrencesWithout ==
  ASSUME NEW T, NEW q \in Seq(T), NEW p \in Seq(T), NEW n \in 1 .. Len(q), NEW S,
         IsWithout(p, q, n)
  PROVE  Occurrences(p, S) = Occurrences(q, S) - (IF q[n] \in S THEN 1 ELSE 0)
<1> DEFINE D == {k \in DOMAIN q : q[k] \in S}
           E == {k \in DOMAIN p : p[k] \in S}
           f == [k \in E |-> IF k < n THEN k ELSE k + 1]
<1> USE DEF IsWithout
<1>1. IsFiniteSet(D) /\ IsFiniteSet(E) /\ Cardinality(D) \in Nat /\ Cardinality(E) \in Nat
  BY OccurrencesType, FS_CardinalityType
<1>2. DOMAIN q = 1 .. Len(q) /\ DOMAIN p = 1 .. Len(p) /\ Len(q) \in Nat /\ Len(p) \in Nat
  OBVIOUS
<1>3. \A k \in E : f[k] \in D \ {n}
  BY <1>2, SMTT(30)
<1>4. \A k, l \in E : f[k] = f[l] => k = l
  BY <1>2
<1>5. \A d \in D \ {n} : \E k \in E : f[k] = d
  <2> TAKE d \in D \ {n}
  <2>0. d \in 1 .. Len(q) /\ d # n /\ d \in Int /\ n \in Int
    BY <1>2
  <2>1. CASE d < n
    <3>1. d \in E /\ f[d] = d
      BY <1>2, <2>1
    <3> QED
      BY <3>1
  <2>2. CASE d > n
    <3>1. d - 1 \in E /\ f[d - 1] = d
      BY <1>2, <2>2
    <3> QED
      BY <3>1
  <2>3. d < n \/ d > n
    BY <2>0
  <2> QED
    BY <2>1, <2>2, <2>3
<1>6. f \in Bijection(E, D \ {n})
  BY <1>3, <1>4, <1>5 DEF Bijection, Injection, Surjection, IsInjective
<1>7. Cardinality(D \ {n}) = Cardinality(E)
  BY <1>1, <1>6, FS_Bijection DEF ExistsBijection
<1>8. Cardinality(D \ {n}) = IF n \in D THEN Cardinality(D) - 1 ELSE Cardinality(D)
  BY <1>1, FS_RemoveElement
<1>9. n \in D <=> q[n] \in S
  BY <1>2
<1> QED
  BY <1>1, <1>7, <1>8, <1>9 DEF Occurrences

LEMMA OccurrencesTail ==
  ASSUME NEW T, NEW q \in Seq(T), q # <<>>, NEW S
  PROVE  /\ Tail(q) \in Seq(T)
         /\ Occurrences(Tail(q), S) = Occurrences(q, S) - (IF Head(q) \in S THEN 1 ELSE 0)
<1> DEFINE p == Tail(q)
           n == 1
<1>1. p \in Seq(T) /\ n \in 1 .. Len(q) /\ Head(q) = q[n]
  OBVIOUS
<1>2. IsWithout(p, q, n)
  BY DEF IsWithout
<1>3. Occurrences(p, S) = Occurrences(q, S) - (IF q[n] \in S THEN 1 ELSE 0)
  <2> HIDE DEF p, n
  <2> QED
    BY <1>1, <1>2, OccurrencesWithout
<1> QED
  BY <1>1, <1>3

LEMMA RemoveAtIsWithout ==
  ASSUME NEW T, NEW q \in Seq(T), NEW n \in 1 .. Len(q)
  PROVE  RemoveAt(q, n) \in Seq(T) /\ IsWithout(RemoveAt(q, n), q, n)
<1> DEFINE l == SubSeq(q, 1, n - 1)
           r == SubSeq(q, n + 1, Len(q))
           p == l \o r
<1>1. /\ l \in Seq(T) /\ Len(l) = n - 1
      /\ \A k \in 1 .. n - 1 : l[k] = q[k]
  OBVIOUS
<1>2. /\ r \in Seq(T) /\ Len(r) = Len(q) - n
      /\ \A k \in 1 .. Len(q) - n : r[k] = q[k + n]
  OBVIOUS
<1>3. RemoveAt(q, n) = p
  BY DEF RemoveAt
<1> HIDE DEF l, r
<1>4. p \in Seq(T) /\ IsWithout(p, q, n)
  <2>1. l \in Seq(T) /\ r \in Seq(T)
    BY <1>1, <1>2
  <2>2. p \in Seq(T) /\ Len(p) = Len(l) + Len(r)
    BY <2>1, ConcatProperties
  <2>3. Len(p) = Len(q) - 1 /\ Len(q) \in Nat
    BY <1>1, <1>2, <2>2
  <2> QED
    BY <1>1, <1>2, <2>2, <2>3, SMTT(30) DEF IsWithout
<1> QED
  BY <1>3, <1>4

LEMMA OccurrencesRemoveAt ==
  ASSUME NEW T, NEW q \in Seq(T), NEW n \in 1 .. Len(q), NEW S
  PROVE  /\ RemoveAt(q, n) \in Seq(T)
         /\ Occurrences(RemoveAt(q, n), S) = Occurrences(q, S) - (IF q[n] \in S THEN 1 ELSE 0)
<1> DEFINE p == RemoveAt(q, n)
<1>1. p \in Seq(T) /\ IsWithout(p, q, n)
  BY RemoveAtIsWithout
<1> HIDE DEF p
<1>2. Occurrences(p, S) = Occurrences(q, S) - (IF q[n] \in S THEN 1 ELSE 0)
  BY <1>1, OccurrencesWithout
<1> QED
  BY <1>1, <1>2 DEF p

(* A non-empty set of natural numbers has a least element.                 *)
LEMMA LeastNatural ==
  ASSUME NEW D, D \subseteq Nat, D # {}
  PROVE  \E m \in D : \A k \in D : m <= k
<1>1. PICK m \in D : \A k \in D : ~(<<k, m>> \in OpToRel(<, Nat))
  BY WFMin, NatLessThanWellFounded
<1>2. \A k \in D : ~(k < m)
  BY <1>1 DEF OpToRel
<1> QED
  BY <1>2

(* shift removes one occurrence of the rank it is given and nothing else.  *)
LEMMA OccurrencesShift ==
  ASSUME NEW T, NEW q \in Seq(T), NEW r, Listed(q, r), NEW S
  PROVE  /\ Shift(q, r) \in Seq(T)
         /\ Occurrences(Shift(q, r), S) = Occurrences(q, S) - (IF r \in S THEN 1 ELSE 0)
<1> DEFINE D == {k \in DOMAIN q : q[k] = r}
           n == FirstIndex(q, r)
<1>1. D \subseteq Nat /\ D # {}
  BY DEF Listed
<1>2. \E m \in D : \A k \in D : m <= k
  BY <1>1, LeastNatural
<1>3. \E k \in DOMAIN q : q[k] = r /\ \A l \in 1 .. k - 1 : q[l] # r
  BY <1>2
<1>4. n \in 1 .. Len(q) /\ q[n] = r
  BY <1>3 DEF FirstIndex
<1> HIDE DEF n
<1>5. Shift(q, r) = RemoveAt(q, n)
  BY DEF Shift, n
<1> QED
  BY <1>4, <1>5, OccurrencesRemoveAt

-----------------------------------------------------------------------------
(* What the updates of tallies, queues and channels do to the counters.    *)

Tallies == [Ranks -> [Slots -> Seq(Ranks)]]
Queues(T) == [Ranks -> [Ranks -> [Slots -> Seq(T)]]]
Channels == [Ranks -> [Ranks -> Seq(Message)]]

(* The counters of the sends from a to b on slot c, as functions of the    *)
(* variable they are read from, and the one triple an operation touches.   *)

QueuedSends(f, a, b, c) == Len(f[a][b][c])
QueuedRecvs(f, a, b, c) == Len(f[b][a][c])
SendMarks(f, a, b, c) == Occurrences(f[b][c], {a})
RecvMarks(f, a, b, c) == Occurrences(f[a][c], {b})
SendNoticesIn(ch, a, b, c) == Occurrences(ch[a][b], SendNotices(c))
RecvNoticesIn(ch, a, b, c) == Occurrences(ch[b][a], RecvNotices(c))
PayloadsIn(ch, a, b, c) == Occurrences(ch[a][b], Payloads(c))

(* Whether the counters of a, b and c are the ones an operation touches.   *)
At(a, b, c, i, j, s) == IF a = i /\ b = j /\ c = s THEN 1 ELSE 0

LEMMA AtIsBit ==
  ASSUME NEW a, NEW b, NEW c, NEW i, NEW j, NEW s
  PROVE  /\ At(a, b, c, i, j, s) = 0 \/ At(a, b, c, i, j, s) = 1
         /\ At(a, b, c, i, j, s) = 1 => a = i /\ b = j /\ c = s
         /\ a = i /\ b = j /\ c = s => At(a, b, c, i, j, s) = 1
         /\ At(a, b, c, i, j, s) = At(b, a, c, j, i, s)
BY DEF At

LEMMA PushTallyCounts ==
  ASSUME NEW f \in Tallies, NEW j \in Ranks, NEW s \in Slots, NEW i \in Ranks
  PROVE  /\ PushTally(f, j, s, i) \in Tallies
         /\ \A a, b \in Ranks, c \in Slots :
              SendMarks(PushTally(f, j, s, i), a, b, c) =
                SendMarks(f, a, b, c) + At(a, b, c, i, j, s)
<1> DEFINE new == PushTally(f, j, s, i)
           q == Append(f[j][s], i)
<1>1. f[j][s] \in Seq(Ranks) /\ q \in Seq(Ranks)
  BY DEF Tallies
<1>2. new \in Tallies /\ \A b \in Ranks, c \in Slots :
        new[b][c] = IF b = j /\ c = s THEN q ELSE f[b][c]
  <2> HIDE DEF q
  <2>1. new = [f EXCEPT ![j][s] = q]
    BY DEF PushTally, q
  <2> QED
    BY <1>1, <2>1 DEF Tallies
<1>3. ASSUME NEW a \in Ranks, NEW b \in Ranks, NEW c \in Slots
      PROVE  /\ Occurrences(f[b][c], {a}) \in Nat
             /\ Occurrences(q, {a}) = Occurrences(f[j][s], {a}) + (IF a = i THEN 1 ELSE 0)
  <2>1. Occurrences(f[b][c], {a}) \in Nat
    BY OccurrencesType DEF Tallies
  <2>2. Occurrences(q, {a}) = Occurrences(f[j][s], {a}) + (IF i \in {a} THEN 1 ELSE 0)
    BY <1>1, OccurrencesAppend
  <2> QED
    BY <2>1, <2>2
<1> HIDE DEF new, q
<1>4. ASSUME NEW a \in Ranks, NEW b \in Ranks, NEW c \in Slots
      PROVE  Occurrences(new[b][c], {a}) =
               Occurrences(f[b][c], {a}) + At(a, b, c, i, j, s)
  <2>1. CASE b = j /\ c = s
    <3>1. new[b][c] = q
      BY <1>2, <2>1
    <3>2. Occurrences(q, {a}) = Occurrences(f[b][c], {a}) + (IF a = i THEN 1 ELSE 0)
      BY <1>3, <2>1
    <3>3. At(a, b, c, i, j, s) = IF a = i THEN 1 ELSE 0
      BY <2>1 DEF At
    <3> QED
      BY <3>1, <3>2, <3>3
  <2>2. CASE ~(b = j /\ c = s)
    <3>1. new[b][c] = f[b][c]
      BY <1>2, <2>2
    <3>2. Occurrences(f[b][c], {a}) \in Nat
      BY <1>3
    <3>3. At(a, b, c, i, j, s) = 0
      BY <2>2 DEF At
    <3> QED
      BY <3>1, <3>2, <3>3
  <2> QED
    BY <2>1, <2>2
<1> QED
  BY <1>2, <1>4 DEF new, SendMarks

LEMMA ShiftTallyCounts ==
  ASSUME NEW f \in Tallies, NEW j \in Ranks, NEW s \in Slots, NEW i \in Ranks,
         Listed(f[j][s], i)
  PROVE  /\ ShiftTally(f, j, s, i) \in Tallies
         /\ \A a, b \in Ranks, c \in Slots :
              SendMarks(ShiftTally(f, j, s, i), a, b, c) =
                SendMarks(f, a, b, c) - At(a, b, c, i, j, s)
<1> DEFINE new == ShiftTally(f, j, s, i)
           q == Shift(f[j][s], i)
<1>0. f[j][s] \in Seq(Ranks)
  BY DEF Tallies
<1>1. q \in Seq(Ranks)
  BY <1>0, OccurrencesShift
<1>2. new \in Tallies /\ \A b \in Ranks, c \in Slots :
        new[b][c] = IF b = j /\ c = s THEN q ELSE f[b][c]
  <2> HIDE DEF q
  <2>1. new = [f EXCEPT ![j][s] = q]
    BY DEF ShiftTally, q
  <2> QED
    BY <1>1, <2>1 DEF Tallies
<1>3. ASSUME NEW a \in Ranks, NEW b \in Ranks, NEW c \in Slots
      PROVE  /\ Occurrences(f[b][c], {a}) \in Nat
             /\ Occurrences(q, {a}) = Occurrences(f[j][s], {a}) - (IF a = i THEN 1 ELSE 0)
  <2>1. Occurrences(f[b][c], {a}) \in Nat
    BY OccurrencesType DEF Tallies
  <2>2. Occurrences(q, {a}) = Occurrences(f[j][s], {a}) - (IF i \in {a} THEN 1 ELSE 0)
    BY <1>0, OccurrencesShift
  <2> QED
    BY <2>1, <2>2
<1> HIDE DEF new, q
<1>4. ASSUME NEW a \in Ranks, NEW b \in Ranks, NEW c \in Slots
      PROVE  Occurrences(new[b][c], {a}) =
               Occurrences(f[b][c], {a}) - At(a, b, c, i, j, s)
  <2>1. CASE b = j /\ c = s
    <3>1. new[b][c] = q
      BY <1>2, <2>1
    <3>2. Occurrences(q, {a}) = Occurrences(f[b][c], {a}) - (IF a = i THEN 1 ELSE 0)
      BY <1>3, <2>1
    <3>3. At(a, b, c, i, j, s) = IF a = i THEN 1 ELSE 0
      BY <2>1 DEF At
    <3> QED
      BY <3>1, <3>2, <3>3
  <2>2. CASE ~(b = j /\ c = s)
    <3>1. new[b][c] = f[b][c]
      BY <1>2, <2>2
    <3>2. Occurrences(f[b][c], {a}) \in Nat
      BY <1>3
    <3>3. At(a, b, c, i, j, s) = 0
      BY <2>2 DEF At
    <3> QED
      BY <3>1, <3>2, <3>3
  <2> QED
    BY <2>1, <2>2
<1> QED
  BY <1>2, <1>4 DEF new, SendMarks

PutQueue(f, i, j, s, q) == [f EXCEPT ![i][j][s] = q]

LEMMA UpdateQueue ==
  ASSUME NEW T, NEW f \in Queues(T), NEW i \in Ranks, NEW j \in Ranks, NEW s \in Slots,
         NEW q \in Seq(T)
  PROVE  /\ PutQueue(f, i, j, s, q) \in Queues(T)
         /\ \A a, b \in Ranks, c \in Slots :
              PutQueue(f, i, j, s, q)[a][b][c] = IF a = i /\ b = j /\ c = s THEN q ELSE f[a][b][c]
<1> DEFINE new == PutQueue(f, i, j, s, q)
           g == [f[i][j] EXCEPT ![s] = q]
           h == [f[i] EXCEPT ![j] = g]
<1>1. g \in [Slots -> Seq(T)] /\ \A c \in Slots : g[c] = IF c = s THEN q ELSE f[i][j][c]
  BY DEF Queues
<1>2. new = [f EXCEPT ![i] = h]
  BY DEF PutQueue
<1> HIDE DEF g
<1>3. h \in [Ranks -> [Slots -> Seq(T)]] /\ \A b \in Ranks : h[b] = IF b = j THEN g ELSE f[i][b]
  BY <1>1 DEF Queues
<1> HIDE DEF h, new
<1>4. new \in Queues(T) /\ \A a \in Ranks : new[a] = IF a = i THEN h ELSE f[a]
  BY <1>2, <1>3 DEF Queues
<1> QED
  BY <1>1, <1>3, <1>4 DEF new

LEMMA EnqueueLength ==
  ASSUME NEW T, NEW f \in Queues(T), NEW i \in Ranks, NEW j \in Ranks, NEW s \in Slots,
         NEW x \in T
  PROVE  /\ Enqueue(f, i, j, s, x) \in Queues(T)
         /\ \A a, b \in Ranks, c \in Slots :
              Len(Enqueue(f, i, j, s, x)[a][b][c]) =
                Len(f[a][b][c]) + At(a, b, c, i, j, s)
<1> DEFINE new == Enqueue(f, i, j, s, x)
           q == Append(f[i][j][s], x)
<1>1. f[i][j][s] \in Seq(T) /\ q \in Seq(T) /\ Len(q) = Len(f[i][j][s]) + 1
  BY DEF Queues
<1> HIDE DEF q
<1>2. new = PutQueue(f, i, j, s, q)
  BY DEF PutQueue, Enqueue, q
<1>3. new \in Queues(T) /\ \A a, b \in Ranks, c \in Slots :
        new[a][b][c] = IF a = i /\ b = j /\ c = s THEN q ELSE f[a][b][c]
  <2>1. q \in Seq(T)
    BY <1>1
  <2>2. /\ PutQueue(f, i, j, s, q) \in Queues(T)
        /\ \A a, b \in Ranks, c \in Slots :
             PutQueue(f, i, j, s, q)[a][b][c] =
               IF a = i /\ b = j /\ c = s THEN q ELSE f[a][b][c]
    BY <2>1, UpdateQueue
  <2> HIDE DEF new
  <2> QED
    BY <1>2, <2>2
<1>4. \A a, b \in Ranks, c \in Slots : Len(f[a][b][c]) \in Nat
  BY DEF Queues
<1>5. ASSUME NEW a \in Ranks, NEW b \in Ranks, NEW c \in Slots
      PROVE  Len(new[a][b][c]) =
               Len(f[a][b][c]) + At(a, b, c, i, j, s)
  <2> HIDE DEF new
  <2>1. new[a][b][c] = IF a = i /\ b = j /\ c = s THEN q ELSE f[a][b][c]
    BY <1>3
  <2>2. Len(f[a][b][c]) \in Nat
    BY <1>4
  <2>3. CASE a = i /\ b = j /\ c = s
    <3>1. new[a][b][c] = q
      BY <2>1, <2>3
    <3>2. At(a, b, c, i, j, s) = 1
      BY <2>3 DEF At
    <3>3. Len(q) = Len(f[a][b][c]) + 1
      BY <1>1, <2>3
    <3> QED
      BY <3>1, <3>2, <3>3
  <2>4. CASE ~(a = i /\ b = j /\ c = s)
    <3>1. Len(new[a][b][c]) = Len(f[a][b][c])
      BY <2>1, <2>4
    <3>2. At(a, b, c, i, j, s) = 0
      BY <2>4 DEF At
    <3> QED
      BY <2>2, <3>1, <3>2
  <2> QED
    BY <2>3, <2>4
<1> QED
  BY <1>3, <1>5

LEMMA DequeueLength ==
  ASSUME NEW T, NEW f \in Queues(T), NEW i \in Ranks, NEW j \in Ranks, NEW s \in Slots,
         f[i][j][s] # <<>>
  PROVE  /\ Dequeue(f, i, j, s) \in Queues(T)
         /\ \A a, b \in Ranks, c \in Slots :
              Len(Dequeue(f, i, j, s)[a][b][c]) =
                Len(f[a][b][c]) - At(a, b, c, i, j, s)
<1> DEFINE new == Dequeue(f, i, j, s)
           q == Tail(f[i][j][s])
<1>1. f[i][j][s] \in Seq(T) /\ q \in Seq(T) /\ Len(q) = Len(f[i][j][s]) - 1
  BY DEF Queues
<1> HIDE DEF q
<1>2. new = PutQueue(f, i, j, s, q)
  BY DEF PutQueue, Dequeue, q
<1>3. new \in Queues(T) /\ \A a, b \in Ranks, c \in Slots :
        new[a][b][c] = IF a = i /\ b = j /\ c = s THEN q ELSE f[a][b][c]
  <2>1. q \in Seq(T)
    BY <1>1
  <2>2. /\ PutQueue(f, i, j, s, q) \in Queues(T)
        /\ \A a, b \in Ranks, c \in Slots :
             PutQueue(f, i, j, s, q)[a][b][c] =
               IF a = i /\ b = j /\ c = s THEN q ELSE f[a][b][c]
    BY <2>1, UpdateQueue
  <2> HIDE DEF new
  <2> QED
    BY <1>2, <2>2
<1>4. \A a, b \in Ranks, c \in Slots : Len(f[a][b][c]) \in Nat
  BY DEF Queues
<1>5. ASSUME NEW a \in Ranks, NEW b \in Ranks, NEW c \in Slots
      PROVE  Len(new[a][b][c]) =
               Len(f[a][b][c]) - At(a, b, c, i, j, s)
  <2> HIDE DEF new
  <2>1. new[a][b][c] = IF a = i /\ b = j /\ c = s THEN q ELSE f[a][b][c]
    BY <1>3
  <2>2. Len(f[a][b][c]) \in Nat
    BY <1>4
  <2>3. CASE a = i /\ b = j /\ c = s
    <3>1. new[a][b][c] = q
      BY <2>1, <2>3
    <3>2. At(a, b, c, i, j, s) = 1
      BY <2>3 DEF At
    <3>3. Len(q) = Len(f[a][b][c]) - 1
      BY <1>1, <2>3
    <3> QED
      BY <3>1, <3>2, <3>3
  <2>4. CASE ~(a = i /\ b = j /\ c = s)
    <3>1. Len(new[a][b][c]) = Len(f[a][b][c])
      BY <2>1, <2>4
    <3>2. At(a, b, c, i, j, s) = 0
      BY <2>4 DEF At
    <3> QED
      BY <2>2, <3>1, <3>2
  <2> QED
    BY <2>3, <2>4
<1> QED
  BY <1>3, <1>5
-----------------------------------------------------------------------------
(* Channels.                                                               *)

(* Which messages each counter counts.                                     *)
LEMMA MessageKinds ==
  ASSUME NEW s \in Slots, NEW c \in Slots, NEW n \in Nat
  PROVE  /\ NotifySendReady(s) \in Message
         /\ NotifyRecvReady(s) \in Message
         /\ SendUnboundBuffer(s, n) \in Message
         /\ NotifySendReady(s) \in SendNotices(c) <=> s = c
         /\ NotifySendReady(s) \notin RecvNotices(c)
         /\ NotifySendReady(s) \notin Payloads(c)
         /\ NotifyRecvReady(s) \in RecvNotices(c) <=> s = c
         /\ NotifyRecvReady(s) \notin SendNotices(c)
         /\ NotifyRecvReady(s) \notin Payloads(c)
         /\ SendUnboundBuffer(s, n) \in Payloads(c) <=> s = c
         /\ SendUnboundBuffer(s, n) \notin SendNotices(c)
         /\ SendUnboundBuffer(s, n) \notin RecvNotices(c)
BY DEF NotifySendReady, NotifyRecvReady, SendUnboundBuffer, Message, SendNotices,
   RecvNotices, Payloads

(* Writing one message adds it to the counters of one channel.             *)
LEMMA WriteOne ==
  ASSUME NEW ch \in Channels, NEW i \in Ranks, NEW j \in Ranks, NEW m \in Message
  PROVE  /\ Write(ch, i, j, m) \in Channels
         /\ \A a, b \in Ranks : \A S : m \notin S =>
              Occurrences(Write(ch, i, j, m)[a][b], S) = Occurrences(ch[a][b], S)
         /\ \A a, b \in Ranks : Write(ch, i, j, m)[a][b] = ch[a][b] \/ (a = i /\ b = j)
         /\ \A S : m \in S =>
              Occurrences(Write(ch, i, j, m)[i][j], S) = Occurrences(ch[i][j], S) + 1
<1> DEFINE new == Write(ch, i, j, m)
<1>1. ch[i][j] \in Seq(Message)
  BY DEF Channels
<1>2. new = [ch EXCEPT ![i][j] = Append(ch[i][j], m)]
  BY DEF Write
<1> HIDE DEF new
<1>3. Append(ch[i][j], m) \in Seq(Message)
  BY <1>1, OccurrencesAppend
<1>4. new \in Channels
  BY <1>2, <1>3 DEF Channels
<1>5. \A a, b \in Ranks : new[a][b] = ch[a][b] \/ (a = i /\ b = j)
  <2> SUFFICES ASSUME NEW a \in Ranks, NEW b \in Ranks, ~(a = i /\ b = j)
               PROVE  new[a][b] = ch[a][b]
    OBVIOUS
  <2> QED
    BY <1>2 DEF Channels
<1>6. new[i][j] = Append(ch[i][j], m)
  BY <1>2 DEF Channels
<1>7. ASSUME NEW S
      PROVE  /\ m \notin S => Occurrences(new[i][j], S) = Occurrences(ch[i][j], S)
             /\ m \in S => Occurrences(new[i][j], S) = Occurrences(ch[i][j], S) + 1
  <2>1. Occurrences(new[i][j], S) = Occurrences(ch[i][j], S) + (IF m \in S THEN 1 ELSE 0)
    BY <1>1, <1>6, OccurrencesAppend
  <2>2. Occurrences(ch[i][j], S) \in Nat
    BY <1>1, OccurrencesType
  <2> QED
    BY <2>1, <2>2
<1> QED
  BY <1>4, <1>5, <1>7 DEF new

(* Reading the first message takes it off the counters of one channel.     *)
LEMMA ReadOne ==
  ASSUME NEW ch \in Channels, NEW i \in Ranks, NEW j \in Ranks, ch[i][j] # <<>>
  PROVE  /\ Read(ch, i, j) \in Channels
         /\ Head(ch[i][j]) \in Message
         /\ \A a, b \in Ranks : \A S : Head(ch[i][j]) \notin S =>
              Occurrences(Read(ch, i, j)[a][b], S) = Occurrences(ch[a][b], S)
         /\ \A a, b \in Ranks : Read(ch, i, j)[a][b] = ch[a][b] \/ (a = i /\ b = j)
         /\ \A S : Head(ch[i][j]) \in S =>
              Occurrences(Read(ch, i, j)[i][j], S) = Occurrences(ch[i][j], S) - 1
<1> DEFINE new == Read(ch, i, j)
           m == Head(ch[i][j])
<1>1. ch[i][j] \in Seq(Message) /\ m \in Message
  BY DEF Channels
<1>2. new = [ch EXCEPT ![i][j] = Tail(ch[i][j])]
  BY <1>1 DEF Read
<1> HIDE DEF new
<1>3. Tail(ch[i][j]) \in Seq(Message)
  BY <1>1, OccurrencesTail
<1>4. new \in Channels
  BY <1>2, <1>3 DEF Channels
<1>5. \A a, b \in Ranks : new[a][b] = ch[a][b] \/ (a = i /\ b = j)
  <2> SUFFICES ASSUME NEW a \in Ranks, NEW b \in Ranks, ~(a = i /\ b = j)
               PROVE  new[a][b] = ch[a][b]
    OBVIOUS
  <2> QED
    BY <1>2 DEF Channels
<1>6. new[i][j] = Tail(ch[i][j])
  BY <1>2 DEF Channels
<1>7. ASSUME NEW S
      PROVE  /\ m \notin S => Occurrences(new[i][j], S) = Occurrences(ch[i][j], S)
             /\ m \in S => Occurrences(new[i][j], S) = Occurrences(ch[i][j], S) - 1
  <2>1. Occurrences(new[i][j], S) = Occurrences(ch[i][j], S) - (IF m \in S THEN 1 ELSE 0)
    BY <1>1, <1>6, OccurrencesTail
  <2>2. Occurrences(ch[i][j], S) \in Nat
    BY <1>1, OccurrencesType
  <2> QED
    BY <2>1, <2>2
<1> QED
  BY <1>1, <1>4, <1>5, <1>7 DEF new

-----------------------------------------------------------------------------
(* The counters are numbers, and what each update does to them.            *)

LEMMA CountersAreNat ==
  ASSUME NEW a \in Ranks, NEW b \in Ranks, NEW c \in Slots
  PROVE  /\ \A T : \A f \in Queues(T) : QueuedSends(f, a, b, c) \in Nat
         /\ \A T : \A f \in Queues(T) : QueuedRecvs(f, a, b, c) \in Nat
         /\ \A f \in Tallies : SendMarks(f, a, b, c) \in Nat
         /\ \A f \in Tallies : RecvMarks(f, a, b, c) \in Nat
         /\ \A ch \in Channels : SendNoticesIn(ch, a, b, c) \in Nat
         /\ \A ch \in Channels : RecvNoticesIn(ch, a, b, c) \in Nat
         /\ \A ch \in Channels : PayloadsIn(ch, a, b, c) \in Nat
<1>1. \A T : \A f \in Queues(T) : QueuedSends(f, a, b, c) \in Nat /\ QueuedRecvs(f, a, b, c) \in Nat
  BY DEF Queues, QueuedSends, QueuedRecvs
<1>2. \A f \in Tallies : f[a][c] \in Seq(Ranks) /\ f[b][c] \in Seq(Ranks)
  BY DEF Tallies
<1>3. \A ch \in Channels : ch[a][b] \in Seq(Message) /\ ch[b][a] \in Seq(Message)
  BY DEF Channels
<1>4. \A f \in Tallies : SendMarks(f, a, b, c) \in Nat /\ RecvMarks(f, a, b, c) \in Nat
  BY <1>2, OccurrencesType DEF SendMarks, RecvMarks
<1>5. \A ch \in Channels : SendNoticesIn(ch, a, b, c) \in Nat /\ RecvNoticesIn(ch, a, b, c) \in Nat
  BY <1>3, OccurrencesType DEF SendNoticesIn, RecvNoticesIn
<1>6. \A ch \in Channels : PayloadsIn(ch, a, b, c) \in Nat
  BY <1>3, OccurrencesType DEF PayloadsIn
<1> QED
  BY <1>1, <1>4, <1>5, <1>6

LEMMA MarksListed ==
  ASSUME NEW f \in Tallies, NEW i \in Ranks, NEW j \in Ranks, NEW s \in Slots
  PROVE  /\ Listed(f[j][s], i) <=> SendMarks(f, i, j, s) > 0
         /\ Listed(f[i][s], j) <=> RecvMarks(f, i, j, s) > 0
<1>1. f[j][s] \in Seq(Ranks) /\ f[i][s] \in Seq(Ranks)
  BY DEF Tallies
<1> QED
  BY <1>1, OccurrencesListed DEF SendMarks, RecvMarks

LEMMA RecvMarksPush ==
  ASSUME NEW f \in Tallies, NEW i \in Ranks, NEW j \in Ranks, NEW s \in Slots,
         NEW a \in Ranks, NEW b \in Ranks, NEW c \in Slots
  PROVE  RecvMarks(PushTally(f, i, s, j), a, b, c) = RecvMarks(f, a, b, c) + At(a, b, c, i, j, s)
<1>1. SendMarks(PushTally(f, i, s, j), b, a, c) = SendMarks(f, b, a, c) + At(b, a, c, j, i, s)
  BY PushTallyCounts
<1> QED
  BY <1>1, AtIsBit DEF RecvMarks, SendMarks

LEMMA RecvMarksShift ==
  ASSUME NEW f \in Tallies, NEW i \in Ranks, NEW j \in Ranks, NEW s \in Slots,
         Listed(f[i][s], j), NEW a \in Ranks, NEW b \in Ranks, NEW c \in Slots
  PROVE  RecvMarks(ShiftTally(f, i, s, j), a, b, c) = RecvMarks(f, a, b, c) - At(a, b, c, i, j, s)
<1>1. SendMarks(ShiftTally(f, i, s, j), b, a, c) = SendMarks(f, b, a, c) - At(b, a, c, j, i, s)
  BY ShiftTallyCounts
<1> QED
  BY <1>1, AtIsBit DEF RecvMarks, SendMarks

LEMMA QueuedSendsGrow ==
  ASSUME NEW T, NEW f \in Queues(T), NEW i \in Ranks, NEW j \in Ranks, NEW s \in Slots, NEW x \in T,
         NEW a \in Ranks, NEW b \in Ranks, NEW c \in Slots
  PROVE  QueuedSends(Enqueue(f, i, j, s, x), a, b, c) =
           QueuedSends(f, a, b, c) + At(a, b, c, i, j, s)
BY EnqueueLength DEF QueuedSends

LEMMA QueuedSendsShrink ==
  ASSUME NEW T, NEW f \in Queues(T), NEW i \in Ranks, NEW j \in Ranks, NEW s \in Slots,
         f[i][j][s] # <<>>, NEW a \in Ranks, NEW b \in Ranks, NEW c \in Slots
  PROVE  QueuedSends(Dequeue(f, i, j, s), a, b, c) =
           QueuedSends(f, a, b, c) - At(a, b, c, i, j, s)
BY DequeueLength DEF QueuedSends

LEMMA QueuedRecvsGrow ==
  ASSUME NEW T, NEW f \in Queues(T), NEW i \in Ranks, NEW j \in Ranks, NEW s \in Slots, NEW x \in T,
         NEW a \in Ranks, NEW b \in Ranks, NEW c \in Slots
  PROVE  QueuedRecvs(Enqueue(f, j, i, s, x), a, b, c) =
           QueuedRecvs(f, a, b, c) + At(a, b, c, i, j, s)
<1>1. Len(Enqueue(f, j, i, s, x)[b][a][c]) = Len(f[b][a][c]) + At(b, a, c, j, i, s)
  BY EnqueueLength
<1> QED
  BY <1>1, AtIsBit DEF QueuedRecvs

LEMMA QueuedRecvsShrink ==
  ASSUME NEW T, NEW f \in Queues(T), NEW i \in Ranks, NEW j \in Ranks, NEW s \in Slots,
         f[j][i][s] # <<>>, NEW a \in Ranks, NEW b \in Ranks, NEW c \in Slots
  PROVE  QueuedRecvs(Dequeue(f, j, i, s), a, b, c) =
           QueuedRecvs(f, a, b, c) - At(a, b, c, i, j, s)
<1>1. Len(Dequeue(f, j, i, s)[b][a][c]) = Len(f[b][a][c]) - At(b, a, c, j, i, s)
  BY DequeueLength
<1> QED
  BY <1>1, AtIsBit DEF QueuedRecvs

-----------------------------------------------------------------------------
(* Each kind of message, written or read, moves one counter.               *)

LEMMA WriteSendNotice ==
  ASSUME NEW ch \in Channels, NEW i \in Ranks, NEW j \in Ranks, NEW s \in Slots,
         NEW a \in Ranks, NEW b \in Ranks, NEW c \in Slots
  PROVE  /\ Write(ch, i, j, NotifySendReady(s)) \in Channels
         /\ SendNoticesIn(Write(ch, i, j, NotifySendReady(s)), a, b, c) = SendNoticesIn(ch, a, b, c) + At(a, b, c, i, j, s)
         /\ RecvNoticesIn(Write(ch, i, j, NotifySendReady(s)), a, b, c) = RecvNoticesIn(ch, a, b, c)
         /\ PayloadsIn(Write(ch, i, j, NotifySendReady(s)), a, b, c) = PayloadsIn(ch, a, b, c)
<1> DEFINE m == NotifySendReady(s)
           new == Write(ch, i, j, m)
<1>1. /\ m \in Message
      /\ m \in SendNotices(c) <=> s = c
      /\ m \in RecvNotices(c) <=> FALSE
      /\ m \in Payloads(c) <=> FALSE
  BY MessageKinds, 0 \in Nat
<1> HIDE DEF m
<1>2. new \in Channels
  BY <1>1, WriteOne
<1>3. \A x, y \in Ranks : \A S : m \notin S =>
        Occurrences(new[x][y], S) = Occurrences(ch[x][y], S)
  BY <1>1, WriteOne
<1>4. \A x, y \in Ranks : new[x][y] = ch[x][y] \/ (x = i /\ y = j)
  BY <1>1, WriteOne
<1>5. \A S : m \in S => Occurrences(new[i][j], S) = Occurrences(ch[i][j], S) + 1
  BY <1>1, WriteOne
<1> HIDE DEF new
<1>6. SendNoticesIn(new, a, b, c) = SendNoticesIn(ch, a, b, c) + At(a, b, c, i, j, s)
  <2>1. CASE a = i /\ b = j /\ c = s
    <3>1. At(a, b, c, i, j, s) = 1 /\ m \in SendNotices(c)
      BY <1>1, <2>1, AtIsBit
    <3> QED
      BY <1>5, <2>1, <3>1 DEF SendNoticesIn
  <2>2. CASE ~(a = i /\ b = j /\ c = s)
    <3>1. At(a, b, c, i, j, s) = 0
      BY <2>2, AtIsBit
    <3>2. SendNoticesIn(new, a, b, c) = SendNoticesIn(ch, a, b, c)
      BY <1>1, <1>3, <1>4, <2>2 DEF SendNoticesIn
    <3>3. SendNoticesIn(ch, a, b, c) \in Nat
      BY CountersAreNat
    <3> QED
      BY <3>1, <3>2, <3>3
  <2> QED
    BY <2>1, <2>2
<1>7. RecvNoticesIn(new, a, b, c) = RecvNoticesIn(ch, a, b, c)
  BY <1>1, <1>3 DEF RecvNoticesIn
<1>8. PayloadsIn(new, a, b, c) = PayloadsIn(ch, a, b, c)
  BY <1>1, <1>3 DEF PayloadsIn
<1> QED
  BY <1>2, <1>6, <1>7, <1>8 DEF new, m

LEMMA WriteRecvNotice ==
  ASSUME NEW ch \in Channels, NEW i \in Ranks, NEW j \in Ranks, NEW s \in Slots,
         NEW a \in Ranks, NEW b \in Ranks, NEW c \in Slots
  PROVE  /\ Write(ch, j, i, NotifyRecvReady(s)) \in Channels
         /\ SendNoticesIn(Write(ch, j, i, NotifyRecvReady(s)), a, b, c) = SendNoticesIn(ch, a, b, c)
         /\ RecvNoticesIn(Write(ch, j, i, NotifyRecvReady(s)), a, b, c) = RecvNoticesIn(ch, a, b, c) + At(a, b, c, i, j, s)
         /\ PayloadsIn(Write(ch, j, i, NotifyRecvReady(s)), a, b, c) = PayloadsIn(ch, a, b, c)
<1> DEFINE m == NotifyRecvReady(s)
           new == Write(ch, j, i, m)
<1>1. /\ m \in Message
      /\ m \in SendNotices(c) <=> FALSE
      /\ m \in RecvNotices(c) <=> s = c
      /\ m \in Payloads(c) <=> FALSE
  BY MessageKinds, 0 \in Nat
<1> HIDE DEF m
<1>2. new \in Channels
  BY <1>1, WriteOne
<1>3. \A x, y \in Ranks : \A S : m \notin S =>
        Occurrences(new[x][y], S) = Occurrences(ch[x][y], S)
  BY <1>1, WriteOne
<1>4. \A x, y \in Ranks : new[x][y] = ch[x][y] \/ (x = j /\ y = i)
  BY <1>1, WriteOne
<1>5. \A S : m \in S => Occurrences(new[j][i], S) = Occurrences(ch[j][i], S) + 1
  BY <1>1, WriteOne
<1> HIDE DEF new
<1>6. SendNoticesIn(new, a, b, c) = SendNoticesIn(ch, a, b, c)
  BY <1>1, <1>3 DEF SendNoticesIn
<1>7. RecvNoticesIn(new, a, b, c) = RecvNoticesIn(ch, a, b, c) + At(a, b, c, i, j, s)
  <2>1. CASE a = i /\ b = j /\ c = s
    <3>1. At(a, b, c, i, j, s) = 1 /\ m \in RecvNotices(c)
      BY <1>1, <2>1, AtIsBit
    <3> QED
      BY <1>5, <2>1, <3>1 DEF RecvNoticesIn
  <2>2. CASE ~(a = i /\ b = j /\ c = s)
    <3>1. At(a, b, c, i, j, s) = 0
      BY <2>2, AtIsBit
    <3>2. RecvNoticesIn(new, a, b, c) = RecvNoticesIn(ch, a, b, c)
      BY <1>1, <1>3, <1>4, <2>2 DEF RecvNoticesIn
    <3>3. RecvNoticesIn(ch, a, b, c) \in Nat
      BY CountersAreNat
    <3> QED
      BY <3>1, <3>2, <3>3
  <2> QED
    BY <2>1, <2>2
<1>8. PayloadsIn(new, a, b, c) = PayloadsIn(ch, a, b, c)
  BY <1>1, <1>3 DEF PayloadsIn
<1> QED
  BY <1>2, <1>6, <1>7, <1>8 DEF new, m

LEMMA WritePayload ==
  ASSUME NEW ch \in Channels, NEW i \in Ranks, NEW j \in Ranks, NEW s \in Slots,
         NEW n \in Nat, NEW a \in Ranks, NEW b \in Ranks, NEW c \in Slots
  PROVE  /\ Write(ch, i, j, SendUnboundBuffer(s, n)) \in Channels
         /\ SendNoticesIn(Write(ch, i, j, SendUnboundBuffer(s, n)), a, b, c) = SendNoticesIn(ch, a, b, c)
         /\ RecvNoticesIn(Write(ch, i, j, SendUnboundBuffer(s, n)), a, b, c) = RecvNoticesIn(ch, a, b, c)
         /\ PayloadsIn(Write(ch, i, j, SendUnboundBuffer(s, n)), a, b, c) = PayloadsIn(ch, a, b, c) + At(a, b, c, i, j, s)
<1> DEFINE m == SendUnboundBuffer(s, n)
           new == Write(ch, i, j, m)
<1>1. /\ m \in Message
      /\ m \in SendNotices(c) <=> FALSE
      /\ m \in RecvNotices(c) <=> FALSE
      /\ m \in Payloads(c) <=> s = c
  BY MessageKinds
<1> HIDE DEF m
<1>2. new \in Channels
  BY <1>1, WriteOne
<1>3. \A x, y \in Ranks : \A S : m \notin S =>
        Occurrences(new[x][y], S) = Occurrences(ch[x][y], S)
  BY <1>1, WriteOne
<1>4. \A x, y \in Ranks : new[x][y] = ch[x][y] \/ (x = i /\ y = j)
  BY <1>1, WriteOne
<1>5. \A S : m \in S => Occurrences(new[i][j], S) = Occurrences(ch[i][j], S) + 1
  BY <1>1, WriteOne
<1> HIDE DEF new
<1>6. SendNoticesIn(new, a, b, c) = SendNoticesIn(ch, a, b, c)
  BY <1>1, <1>3 DEF SendNoticesIn
<1>7. RecvNoticesIn(new, a, b, c) = RecvNoticesIn(ch, a, b, c)
  BY <1>1, <1>3 DEF RecvNoticesIn
<1>8. PayloadsIn(new, a, b, c) = PayloadsIn(ch, a, b, c) + At(a, b, c, i, j, s)
  <2>1. CASE a = i /\ b = j /\ c = s
    <3>1. At(a, b, c, i, j, s) = 1 /\ m \in Payloads(c)
      BY <1>1, <2>1, AtIsBit
    <3> QED
      BY <1>5, <2>1, <3>1 DEF PayloadsIn
  <2>2. CASE ~(a = i /\ b = j /\ c = s)
    <3>1. At(a, b, c, i, j, s) = 0
      BY <2>2, AtIsBit
    <3>2. PayloadsIn(new, a, b, c) = PayloadsIn(ch, a, b, c)
      BY <1>1, <1>3, <1>4, <2>2 DEF PayloadsIn
    <3>3. PayloadsIn(ch, a, b, c) \in Nat
      BY CountersAreNat
    <3> QED
      BY <3>1, <3>2, <3>3
  <2> QED
    BY <2>1, <2>2
<1> QED
  BY <1>2, <1>6, <1>7, <1>8 DEF new, m

LEMMA ReadSendNotice ==
  ASSUME NEW ch \in Channels, NEW i \in Ranks, NEW j \in Ranks, NEW s \in Slots,
         ch[i][j] # <<>>, Head(ch[i][j]).opcode = "NOTIFY_SEND_READY",
         Head(ch[i][j]).slot = s,
         NEW a \in Ranks, NEW b \in Ranks, NEW c \in Slots
  PROVE  /\ Read(ch, i, j) \in Channels
         /\ SendNoticesIn(Read(ch, i, j), a, b, c) = SendNoticesIn(ch, a, b, c) - At(a, b, c, i, j, s)
         /\ RecvNoticesIn(Read(ch, i, j), a, b, c) = RecvNoticesIn(ch, a, b, c)
         /\ PayloadsIn(Read(ch, i, j), a, b, c) = PayloadsIn(ch, a, b, c)
<1> DEFINE m == Head(ch[i][j])
           new == Read(ch, i, j)
<1>0. m \in Message /\ m.opcode = "NOTIFY_SEND_READY" /\ m.slot = s
  BY ReadOne
<1> HIDE DEF m
<1>1. /\ m \in Message
      /\ m \in SendNotices(c) <=> s = c
      /\ m \in RecvNotices(c) <=> FALSE
      /\ m \in Payloads(c) <=> FALSE
  BY <1>0 DEF SendNotices, RecvNotices, Payloads
<1>2. new \in Channels
  BY <1>1, ReadOne
<1>3. \A x, y \in Ranks : \A S : m \notin S =>
        Occurrences(new[x][y], S) = Occurrences(ch[x][y], S)
  BY <1>1, ReadOne DEF m
<1>4. \A x, y \in Ranks : new[x][y] = ch[x][y] \/ (x = i /\ y = j)
  BY <1>1, ReadOne
<1>5. \A S : m \in S => Occurrences(new[i][j], S) = Occurrences(ch[i][j], S) - 1
  BY <1>1, ReadOne DEF m
<1> HIDE DEF new
<1>6. SendNoticesIn(new, a, b, c) = SendNoticesIn(ch, a, b, c) - At(a, b, c, i, j, s)
  <2>1. CASE a = i /\ b = j /\ c = s
    <3>1. At(a, b, c, i, j, s) = 1 /\ m \in SendNotices(c)
      BY <1>1, <2>1, AtIsBit
    <3> QED
      BY <1>5, <2>1, <3>1 DEF SendNoticesIn
  <2>2. CASE ~(a = i /\ b = j /\ c = s)
    <3>1. At(a, b, c, i, j, s) = 0
      BY <2>2, AtIsBit
    <3>2. SendNoticesIn(new, a, b, c) = SendNoticesIn(ch, a, b, c)
      BY <1>1, <1>3, <1>4, <2>2 DEF SendNoticesIn
    <3>3. SendNoticesIn(ch, a, b, c) \in Nat
      BY CountersAreNat
    <3> QED
      BY <3>1, <3>2, <3>3
  <2> QED
    BY <2>1, <2>2
<1>7. RecvNoticesIn(new, a, b, c) = RecvNoticesIn(ch, a, b, c)
  BY <1>1, <1>3 DEF RecvNoticesIn
<1>8. PayloadsIn(new, a, b, c) = PayloadsIn(ch, a, b, c)
  BY <1>1, <1>3 DEF PayloadsIn
<1> QED
  BY <1>2, <1>6, <1>7, <1>8 DEF new

LEMMA ReadRecvNotice ==
  ASSUME NEW ch \in Channels, NEW i \in Ranks, NEW j \in Ranks, NEW s \in Slots,
         ch[j][i] # <<>>, Head(ch[j][i]).opcode = "NOTIFY_RECV_READY",
         Head(ch[j][i]).slot = s,
         NEW a \in Ranks, NEW b \in Ranks, NEW c \in Slots
  PROVE  /\ Read(ch, j, i) \in Channels
         /\ SendNoticesIn(Read(ch, j, i), a, b, c) = SendNoticesIn(ch, a, b, c)
         /\ RecvNoticesIn(Read(ch, j, i), a, b, c) = RecvNoticesIn(ch, a, b, c) - At(a, b, c, i, j, s)
         /\ PayloadsIn(Read(ch, j, i), a, b, c) = PayloadsIn(ch, a, b, c)
<1> DEFINE m == Head(ch[j][i])
           new == Read(ch, j, i)
<1>0. m \in Message /\ m.opcode = "NOTIFY_RECV_READY" /\ m.slot = s
  BY ReadOne
<1> HIDE DEF m
<1>1. /\ m \in Message
      /\ m \in SendNotices(c) <=> FALSE
      /\ m \in RecvNotices(c) <=> s = c
      /\ m \in Payloads(c) <=> FALSE
  BY <1>0 DEF SendNotices, RecvNotices, Payloads
<1>2. new \in Channels
  BY <1>1, ReadOne
<1>3. \A x, y \in Ranks : \A S : m \notin S =>
        Occurrences(new[x][y], S) = Occurrences(ch[x][y], S)
  BY <1>1, ReadOne DEF m
<1>4. \A x, y \in Ranks : new[x][y] = ch[x][y] \/ (x = j /\ y = i)
  BY <1>1, ReadOne
<1>5. \A S : m \in S => Occurrences(new[j][i], S) = Occurrences(ch[j][i], S) - 1
  BY <1>1, ReadOne DEF m
<1> HIDE DEF new
<1>6. SendNoticesIn(new, a, b, c) = SendNoticesIn(ch, a, b, c)
  BY <1>1, <1>3 DEF SendNoticesIn
<1>7. RecvNoticesIn(new, a, b, c) = RecvNoticesIn(ch, a, b, c) - At(a, b, c, i, j, s)
  <2>1. CASE a = i /\ b = j /\ c = s
    <3>1. At(a, b, c, i, j, s) = 1 /\ m \in RecvNotices(c)
      BY <1>1, <2>1, AtIsBit
    <3> QED
      BY <1>5, <2>1, <3>1 DEF RecvNoticesIn
  <2>2. CASE ~(a = i /\ b = j /\ c = s)
    <3>1. At(a, b, c, i, j, s) = 0
      BY <2>2, AtIsBit
    <3>2. RecvNoticesIn(new, a, b, c) = RecvNoticesIn(ch, a, b, c)
      BY <1>1, <1>3, <1>4, <2>2 DEF RecvNoticesIn
    <3>3. RecvNoticesIn(ch, a, b, c) \in Nat
      BY CountersAreNat
    <3> QED
      BY <3>1, <3>2, <3>3
  <2> QED
    BY <2>1, <2>2
<1>8. PayloadsIn(new, a, b, c) = PayloadsIn(ch, a, b, c)
  BY <1>1, <1>3 DEF PayloadsIn
<1> QED
  BY <1>2, <1>6, <1>7, <1>8 DEF new

LEMMA ReadPayload ==
  ASSUME NEW ch \in Channels, NEW i \in Ranks, NEW j \in Ranks, NEW s \in Slots,
         ch[i][j] # <<>>, Head(ch[i][j]).opcode = "SEND_UNBOUND_BUFFER",
         Head(ch[i][j]).slot = s,
         NEW a \in Ranks, NEW b \in Ranks, NEW c \in Slots
  PROVE  /\ Read(ch, i, j) \in Channels
         /\ SendNoticesIn(Read(ch, i, j), a, b, c) = SendNoticesIn(ch, a, b, c)
         /\ RecvNoticesIn(Read(ch, i, j), a, b, c) = RecvNoticesIn(ch, a, b, c)
         /\ PayloadsIn(Read(ch, i, j), a, b, c) = PayloadsIn(ch, a, b, c) - At(a, b, c, i, j, s)
<1> DEFINE m == Head(ch[i][j])
           new == Read(ch, i, j)
<1>0. m \in Message /\ m.opcode = "SEND_UNBOUND_BUFFER" /\ m.slot = s
  BY ReadOne
<1> HIDE DEF m
<1>1. /\ m \in Message
      /\ m \in SendNotices(c) <=> FALSE
      /\ m \in RecvNotices(c) <=> FALSE
      /\ m \in Payloads(c) <=> s = c
  BY <1>0 DEF SendNotices, RecvNotices, Payloads
<1>2. new \in Channels
  BY <1>1, ReadOne
<1>3. \A x, y \in Ranks : \A S : m \notin S =>
        Occurrences(new[x][y], S) = Occurrences(ch[x][y], S)
  BY <1>1, ReadOne DEF m
<1>4. \A x, y \in Ranks : new[x][y] = ch[x][y] \/ (x = i /\ y = j)
  BY <1>1, ReadOne
<1>5. \A S : m \in S => Occurrences(new[i][j], S) = Occurrences(ch[i][j], S) - 1
  BY <1>1, ReadOne DEF m
<1> HIDE DEF new
<1>6. SendNoticesIn(new, a, b, c) = SendNoticesIn(ch, a, b, c)
  BY <1>1, <1>3 DEF SendNoticesIn
<1>7. RecvNoticesIn(new, a, b, c) = RecvNoticesIn(ch, a, b, c)
  BY <1>1, <1>3 DEF RecvNoticesIn
<1>8. PayloadsIn(new, a, b, c) = PayloadsIn(ch, a, b, c) - At(a, b, c, i, j, s)
  <2>1. CASE a = i /\ b = j /\ c = s
    <3>1. At(a, b, c, i, j, s) = 1 /\ m \in Payloads(c)
      BY <1>1, <2>1, AtIsBit
    <3> QED
      BY <1>5, <2>1, <3>1 DEF PayloadsIn
  <2>2. CASE ~(a = i /\ b = j /\ c = s)
    <3>1. At(a, b, c, i, j, s) = 0
      BY <2>2, AtIsBit
    <3>2. PayloadsIn(new, a, b, c) = PayloadsIn(ch, a, b, c)
      BY <1>1, <1>3, <1>4, <2>2 DEF PayloadsIn
    <3>3. PayloadsIn(ch, a, b, c) \in Nat
      BY CountersAreNat
    <3> QED
      BY <3>1, <3>2, <3>3
  <2> QED
    BY <2>1, <2>2
<1> QED
  BY <1>2, <1>6, <1>7, <1>8 DEF new

-----------------------------------------------------------------------------
(* The invariant, stated for the counters of one source, destination and   *)
(* slot.                                                                   *)

Balanced(P, L, S, R, E, NS, NR, D) ==
  /\ L = NR + R + D
  /\ P + E = NS + S + NR + R
  /\ P > 0 => R = 0
  /\ S > 0 => E = 0

BalancedAt(a, b, c) ==
  Balanced(QueuedSends(localPendingSend, a, b, c), QueuedRecvs(localPendingRecv, a, b, c),
           SendMarks(sendList, a, b, c), RecvMarks(recvList, a, b, c),
           SendMarks(expected, a, b, c), SendNoticesIn(channel, a, b, c),
           RecvNoticesIn(channel, a, b, c), PayloadsIn(channel, a, b, c))

AllBalanced == \A a, b \in Ranks, c \in Slots : BalancedAt(a, b, c)

(* The types of the variables that the counters are read from.             *)
ProtocolTypes ==
  /\ localPendingSend \in Queues(Nat)
  /\ localPendingRecv \in Queues(Recv)
  /\ sendList \in Tallies
  /\ recvList \in Tallies
  /\ expected \in Tallies
  /\ channel \in Channels

(* The three invariants together say that every triple is balanced.        *)
LEMMA BalancedMeaning ==
  TypeOK /\ AllBalanced <=> RecvsAccounted /\ BalanceAgreed /\ NeverHeldBack
<1>1. ASSUME NEW a \in Ranks, NEW b \in Ranks, NEW c \in Slots
      PROVE  BalancedAt(a, b, c) <=>
               Balanced(PendingSends(a, b, c), CommittedRecvs(a, b, c), KnownSends(a, b, c),
                        KnownRecvs(a, b, c), OwedNotices(a, b, c), SendNoticesInFlight(a, b, c),
                        RecvNoticesInFlight(a, b, c), PayloadsInFlight(a, b, c))
  BY DEF BalancedAt, QueuedSends, QueuedRecvs, SendMarks, RecvMarks, SendNoticesIn, RecvNoticesIn,
     PayloadsIn, PendingSends, CommittedRecvs, KnownSends, KnownRecvs, OwedNotices,
     SendNoticesInFlight, RecvNoticesInFlight, PayloadsInFlight
<1>2. ASSUME TypeOK, AllBalanced PROVE RecvsAccounted /\ BalanceAgreed /\ NeverHeldBack
  BY <1>1, <1>2 DEF AllBalanced, Balanced, RecvsAccounted, BalanceAgreed, NeverHeldBack
<1>3. ASSUME RecvsAccounted, BalanceAgreed, NeverHeldBack PROVE TypeOK /\ AllBalanced
  BY <1>1, <1>3 DEF AllBalanced, Balanced, RecvsAccounted, BalanceAgreed, NeverHeldBack
<1> QED
  BY <1>2, <1>3

(* The moves of the protocol, as arithmetic.                               *)
LEMMA Moves ==
  ASSUME NEW P \in Nat, NEW L \in Nat, NEW S \in Nat, NEW R \in Nat, NEW E \in Nat,
         NEW NS \in Nat, NEW NR \in Nat, NEW D \in Nat, NEW d, d = 0 \/ d = 1,
         Balanced(P, L, S, R, E, NS, NR, D)
  PROVE  /\ d <= R => Balanced(P, L, S, R - d, E, NS + d, NR, D + d)
         /\ d <= E => Balanced(P, L, S, R, E - d, NS - d, NR, D)
         /\ Balanced(P, L + d, S, R, E, NS - d, NR + d, D)
         /\ (d = 1 => ~(E > 0)) => Balanced(P, L, S + d, R, E, NS - d, NR, D)
<1>1. d \in Nat
  OBVIOUS
<1>2. d <= R => Balanced(P, L, S, R - d, E, NS + d, NR, D + d)
  BY <1>1 DEF Balanced
<1>3. d <= E => Balanced(P, L, S, R, E - d, NS - d, NR, D)
  BY <1>1 DEF Balanced
<1>4. Balanced(P, L + d, S, R, E, NS - d, NR + d, D)
  BY <1>1 DEF Balanced
<1>5. (d = 1 => ~(E > 0)) => Balanced(P, L, S + d, R, E, NS - d, NR, D)
  BY <1>1 DEF Balanced
<1> QED
  BY <1>2, <1>3, <1>4, <1>5

LEMMA NumbersAt ==
  ASSUME ProtocolTypes, NEW a \in Ranks, NEW b \in Ranks, NEW c \in Slots
  PROVE  /\ QueuedSends(localPendingSend, a, b, c) \in Nat
         /\ QueuedRecvs(localPendingRecv, a, b, c) \in Nat
         /\ SendMarks(sendList, a, b, c) \in Nat
         /\ RecvMarks(recvList, a, b, c) \in Nat
         /\ SendMarks(expected, a, b, c) \in Nat
         /\ SendNoticesIn(channel, a, b, c) \in Nat
         /\ RecvNoticesIn(channel, a, b, c) \in Nat
         /\ PayloadsIn(channel, a, b, c) \in Nat
BY CountersAreNat DEF ProtocolTypes

LEMMA SendBalance ==
  ASSUME ProtocolTypes, AllBalanced, NEW i \in Ranks, NEW j \in Ranks, NEW s \in Slots,
         sent[i][j][s] \in Nat, Send(i, j, s)
  PROVE  ProtocolTypes' /\ AllBalanced'
<1> DEFINE n == sent[i][j][s] + 1
           ch1 == Write(channel, i, j, NotifySendReady(s))
           ch2 == Write(ch1, i, j, SendUnboundBuffer(s, n))
<1>1. n \in Nat
  OBVIOUS
<1>2. ch1 \in Channels
  BY WriteSendNotice DEF ProtocolTypes
<1>3. /\ (Listed(recvList[i][s], j)
            => recvList' = ShiftTally(recvList, i, s, j) /\ channel' = ch2
               /\ localPendingSend' = localPendingSend)
      /\ (~Listed(recvList[i][s], j)
            => recvList' = recvList /\ channel' = ch1
               /\ localPendingSend' = Enqueue(localPendingSend, i, j, s, n))
      /\ localPendingRecv' = localPendingRecv /\ sendList' = sendList /\ expected' = expected
  BY DEF Send
<1> HIDE DEF n
<1>4. ASSUME NEW a \in Ranks, NEW b \in Ranks, NEW c \in Slots
      PROVE  /\ SendNoticesIn(ch1, a, b, c) = SendNoticesIn(channel, a, b, c) + At(a, b, c, i, j, s)
             /\ RecvNoticesIn(ch1, a, b, c) = RecvNoticesIn(channel, a, b, c)
             /\ PayloadsIn(ch1, a, b, c) = PayloadsIn(channel, a, b, c)
  BY WriteSendNotice DEF ProtocolTypes
<1> HIDE DEF ch1
<1>5. ch2 \in Channels
  BY <1>1, <1>2, WritePayload
<1>6. ASSUME NEW a \in Ranks, NEW b \in Ranks, NEW c \in Slots
      PROVE  /\ SendNoticesIn(ch2, a, b, c) = SendNoticesIn(ch1, a, b, c)
             /\ RecvNoticesIn(ch2, a, b, c) = RecvNoticesIn(ch1, a, b, c)
             /\ PayloadsIn(ch2, a, b, c) = PayloadsIn(ch1, a, b, c) + At(a, b, c, i, j, s)
  BY <1>1, <1>2, WritePayload
<1> HIDE DEF ch2
<1>7. CASE Listed(recvList[i][s], j)
  <2>1. recvList' \in Tallies
    BY <1>3, <1>7, ShiftTallyCounts DEF ProtocolTypes
  <2>2. ProtocolTypes'
    BY <1>3, <1>5, <1>7, <2>1 DEF ProtocolTypes
  <2>3. ASSUME NEW a \in Ranks, NEW b \in Ranks, NEW c \in Slots
        PROVE  BalancedAt(a, b, c)'
    <3>1. RecvMarks(recvList', a, b, c) = RecvMarks(recvList, a, b, c) - At(a, b, c, i, j, s)
      BY <1>3, <1>7, RecvMarksShift DEF ProtocolTypes
    <3>2. /\ SendNoticesIn(channel', a, b, c) = SendNoticesIn(channel, a, b, c) + At(a, b, c, i, j, s)
          /\ RecvNoticesIn(channel', a, b, c) = RecvNoticesIn(channel, a, b, c)
          /\ PayloadsIn(channel', a, b, c) = PayloadsIn(channel, a, b, c) + At(a, b, c, i, j, s)
      BY <1>3, <1>4, <1>6, <1>7
    <3>3. BalancedAt(a, b, c)
      BY DEF AllBalanced
    <3>4. /\ localPendingSend' = localPendingSend /\ localPendingRecv' = localPendingRecv
          /\ sendList' = sendList /\ expected' = expected
      BY <1>3, <1>7
    <3> DEFINE d == At(a, b, c, i, j, s)
               P == QueuedSends(localPendingSend, a, b, c)
               L == QueuedRecvs(localPendingRecv, a, b, c)
               S == SendMarks(sendList, a, b, c)
               R == RecvMarks(recvList, a, b, c)
               E == SendMarks(expected, a, b, c)
               NS == SendNoticesIn(channel, a, b, c)
               NR == RecvNoticesIn(channel, a, b, c)
               D == PayloadsIn(channel, a, b, c)
    <3>11. /\ P \in Nat /\ L \in Nat /\ S \in Nat /\ R \in Nat /\ E \in Nat
          /\ NS \in Nat /\ NR \in Nat /\ D \in Nat /\ (d = 0 \/ d = 1)
      BY NumbersAt, AtIsBit
    <3>12. Balanced(P, L, S, R, E, NS, NR, D)
      BY <3>3 DEF BalancedAt
    <3>13. d <= R
      <4>1. RecvMarks(recvList', a, b, c) \in Nat
        BY <2>1, CountersAreNat
      <4> QED
        BY <3>1, <4>1, <3>11
    <3> HIDE DEF d, P, L, S, R, E, NS, NR, D
    <3>14. Balanced(P, L, S, R - d, E, NS + d, NR, D + d)
      BY <3>11, <3>12, <3>13, Moves
    <3> QED
      BY <3>1, <3>2, <3>4, <3>14 DEF BalancedAt, d, P, L, S, R, E, NS, NR, D
  <2> QED
    BY <2>2, <2>3 DEF AllBalanced
<1>8. CASE ~Listed(recvList[i][s], j)
  <2>1. localPendingSend' \in Queues(Nat)
    BY <1>1, <1>3, <1>8, EnqueueLength DEF ProtocolTypes
  <2>2. ProtocolTypes'
    BY <1>2, <1>3, <1>8, <2>1 DEF ProtocolTypes
  <2>3. ASSUME NEW a \in Ranks, NEW b \in Ranks, NEW c \in Slots
        PROVE  BalancedAt(a, b, c)'
    <3>1. QueuedSends(localPendingSend', a, b, c) =
            QueuedSends(localPendingSend, a, b, c) + At(a, b, c, i, j, s)
      BY <1>1, <1>3, <1>8, QueuedSendsGrow DEF ProtocolTypes
    <3>2. At(a, b, c, i, j, s) = 1 => ~(RecvMarks(recvList, a, b, c) > 0)
      BY <1>8, MarksListed, AtIsBit DEF ProtocolTypes
    <3>3. BalancedAt(a, b, c)
      BY DEF AllBalanced
    <3> QED
      BY <1>3, <1>4, <1>8, <3>1, <3>2, <3>3, NumbersAt, AtIsBit DEF BalancedAt, Balanced
  <2> QED
    BY <2>2, <2>3 DEF AllBalanced
<1> QED
  BY <1>7, <1>8

(* What committing a receive does to the counters.                         *)
LEMMA CommitCounts ==
  ASSUME NEW i \in Ranks, NEW j \in Ranks, NEW s \in Slots, NEW ch \in Channels,
         NEW recv \in Recv, localPendingRecv \in Queues(Recv), CommitRecv(j, i, s, recv, ch)
  PROVE  /\ localPendingRecv' \in Queues(Recv)
         /\ channel' \in Channels
         /\ \A a, b \in Ranks, c \in Slots :
              /\ QueuedRecvs(localPendingRecv', a, b, c) =
                   QueuedRecvs(localPendingRecv, a, b, c) + At(a, b, c, i, j, s)
              /\ SendNoticesIn(channel', a, b, c) = SendNoticesIn(ch, a, b, c)
              /\ RecvNoticesIn(channel', a, b, c) =
                   RecvNoticesIn(ch, a, b, c) + At(a, b, c, i, j, s)
              /\ PayloadsIn(channel', a, b, c) = PayloadsIn(ch, a, b, c)
<1>1. /\ localPendingRecv' = Enqueue(localPendingRecv, j, i, s, recv)
      /\ channel' = Write(ch, j, i, NotifyRecvReady(s))
  BY DEF CommitRecv
<1>2. localPendingRecv' \in Queues(Recv)
  BY <1>1, EnqueueLength
<1>3. ASSUME NEW a \in Ranks, NEW b \in Ranks, NEW c \in Slots
      PROVE  /\ channel' \in Channels
             /\ QueuedRecvs(localPendingRecv', a, b, c) =
                  QueuedRecvs(localPendingRecv, a, b, c) + At(a, b, c, i, j, s)
             /\ SendNoticesIn(channel', a, b, c) = SendNoticesIn(ch, a, b, c)
             /\ RecvNoticesIn(channel', a, b, c) =
                  RecvNoticesIn(ch, a, b, c) + At(a, b, c, i, j, s)
             /\ PayloadsIn(channel', a, b, c) = PayloadsIn(ch, a, b, c)
  <2>1. QueuedRecvs(localPendingRecv', a, b, c) =
          QueuedRecvs(localPendingRecv, a, b, c) + At(a, b, c, i, j, s)
    BY <1>1, QueuedRecvsGrow
  <2> QED
    BY <1>1, <2>1, WriteRecvNotice
<1> QED
  BY <1>2, <1>3

(* A receive that takes a notification from the list.                      *)
LEMMA TakeBalance ==
  ASSUME ProtocolTypes, AllBalanced, NEW i \in Ranks, NEW j \in Ranks, NEW s \in Slots,
         NEW recv \in Recv, Listed(sendList[j][s], i), sendList' = ShiftTally(sendList, j, s, i),
         CommitRecv(j, i, s, recv, channel), localPendingSend' = localPendingSend,
         recvList' = recvList, expected' = expected
  PROVE  ProtocolTypes' /\ AllBalanced'
<1>1. sendList' \in Tallies
  BY ShiftTallyCounts DEF ProtocolTypes
<1>2. ProtocolTypes'
  BY <1>1, CommitCounts DEF ProtocolTypes
<1>3. ASSUME NEW a \in Ranks, NEW b \in Ranks, NEW c \in Slots
      PROVE  BalancedAt(a, b, c)'
  <2>1. SendMarks(sendList', a, b, c) = SendMarks(sendList, a, b, c) - At(a, b, c, i, j, s)
    BY ShiftTallyCounts DEF ProtocolTypes
  <2>2. /\ QueuedRecvs(localPendingRecv', a, b, c) =
             QueuedRecvs(localPendingRecv, a, b, c) + At(a, b, c, i, j, s)
        /\ SendNoticesIn(channel', a, b, c) = SendNoticesIn(channel, a, b, c)
        /\ RecvNoticesIn(channel', a, b, c) = RecvNoticesIn(channel, a, b, c) + At(a, b, c, i, j, s)
        /\ PayloadsIn(channel', a, b, c) = PayloadsIn(channel, a, b, c)
    BY CommitCounts DEF ProtocolTypes
  <2>3. BalancedAt(a, b, c)
    BY DEF AllBalanced
  <2> QED
    BY <2>1, <2>2, <2>3, NumbersAt, AtIsBit DEF BalancedAt, Balanced
<1> QED
  BY <1>2, <1>3 DEF AllBalanced

LEMMA RecvFromBalance ==
  ASSUME ProtocolTypes, AllBalanced, NEW i \in Ranks, NEW j \in Ranks, NEW s \in Slots,
         nrecv[j] \in Nat, RecvFrom(j, i, s)
  PROVE  ProtocolTypes' /\ AllBalanced'
<1> DEFINE recv == [id |-> nrecv[j] + 1, from |-> {i}]
<1>1. recv \in Recv
  BY DEF Recv
<1>2. /\ CommitRecv(j, i, s, recv, channel)
      /\ localPendingSend' = localPendingSend /\ recvList' = recvList
      /\ (Listed(sendList[j][s], i) => sendList' = ShiftTally(sendList, j, s, i) /\ expected' = expected)
      /\ (~Listed(sendList[j][s], i) => expected' = PushTally(expected, j, s, i) /\ sendList' = sendList)
  BY DEF RecvFrom
<1> HIDE DEF recv
<1>3. CASE Listed(sendList[j][s], i)
  BY <1>1, <1>2, <1>3, TakeBalance
<1>4. CASE ~Listed(sendList[j][s], i)
  <2>1. expected' \in Tallies
    BY <1>2, <1>4, PushTallyCounts DEF ProtocolTypes
  <2>2. ProtocolTypes'
    BY <1>1, <1>2, <1>4, <2>1, CommitCounts DEF ProtocolTypes
  <2>3. ASSUME NEW a \in Ranks, NEW b \in Ranks, NEW c \in Slots
        PROVE  BalancedAt(a, b, c)'
    <3>1. SendMarks(expected', a, b, c) = SendMarks(expected, a, b, c) + At(a, b, c, i, j, s)
      BY <1>2, <1>4, PushTallyCounts DEF ProtocolTypes
    <3>2. /\ QueuedRecvs(localPendingRecv', a, b, c) =
               QueuedRecvs(localPendingRecv, a, b, c) + At(a, b, c, i, j, s)
          /\ SendNoticesIn(channel', a, b, c) = SendNoticesIn(channel, a, b, c)
          /\ RecvNoticesIn(channel', a, b, c) =
               RecvNoticesIn(channel, a, b, c) + At(a, b, c, i, j, s)
          /\ PayloadsIn(channel', a, b, c) = PayloadsIn(channel, a, b, c)
      BY <1>1, <1>2, CommitCounts DEF ProtocolTypes
    <3>3. At(a, b, c, i, j, s) = 1 => ~(SendMarks(sendList, a, b, c) > 0)
      BY <1>4, MarksListed, AtIsBit DEF ProtocolTypes
    <3>4. BalancedAt(a, b, c)
      BY DEF AllBalanced
    <3> QED
      BY <1>2, <1>4, <3>1, <3>2, <3>3, <3>4, NumbersAt, AtIsBit DEF BalancedAt, Balanced
  <2> QED
    BY <2>2, <2>3 DEF AllBalanced
<1> QED
  BY <1>3, <1>4

(* Nothing that is counted changes.                                        *)
LEMMA UnchangedBalance ==
  ASSUME ProtocolTypes, AllBalanced,
         UNCHANGED <<localPendingSend, localPendingRecv, sendList, recvList, expected, channel>>
  PROVE  ProtocolTypes' /\ AllBalanced'
BY DEF ProtocolTypes, AllBalanced, BalancedAt

LEMMA TryRecvBalance ==
  ASSUME ProtocolTypes, AllBalanced, NEW j \in Ranks, NEW call \in AnyCall, TryRecv(j, call)
  PROVE  ProtocolTypes' /\ AllBalanced'
<1> DEFINE i == call.rank
           s == call.slot
           recv == call.recv
<1>1. i \in Ranks /\ s \in Slots /\ recv \in Recv
  BY DEF TryRecv, AnyCall
<1>2. /\ localPendingSend' = localPendingSend /\ recvList' = recvList /\ expected' = expected
      /\ (Listed(sendList[j][s], i) =>
            sendList' = ShiftTally(sendList, j, s, i) /\ CommitRecv(j, i, s, recv, channel))
      /\ (~Listed(sendList[j][s], i) => UNCHANGED <<sendList, localPendingRecv, channel>>)
  BY DEF TryRecv
<1> HIDE DEF i, s, recv
<1>3. CASE Listed(sendList[j][s], i)
  BY <1>1, <1>2, <1>3, TakeBalance
<1>4. CASE ~Listed(sendList[j][s], i)
  BY <1>2, <1>4, UnchangedBalance
<1> QED
  BY <1>3, <1>4

LEMMA HandleSendBalance ==
  ASSUME ProtocolTypes, AllBalanced, NEW i \in Ranks, NEW j \in Ranks, NEW s \in Slots,
         pendingRecv[j][s] \in Seq(Recv), HandleRemotePendingSend(i, j, s)
  PROVE  ProtocolTypes' /\ AllBalanced'
<1> DEFINE recvs == pendingRecv[j][s]
           ch == Read(channel, i, j)
<1>1. /\ channel[i][j] # <<>>
      /\ Head(channel[i][j]).opcode = "NOTIFY_SEND_READY"
      /\ Head(channel[i][j]).slot = s
  BY DEF HandleRemotePendingSend, Arrives
<1>2. ch \in Channels
  BY <1>1, ReadSendNotice DEF ProtocolTypes
<1>3. ASSUME NEW a \in Ranks, NEW b \in Ranks, NEW c \in Slots
      PROVE  /\ SendNoticesIn(ch, a, b, c) = SendNoticesIn(channel, a, b, c) - At(a, b, c, i, j, s)
             /\ RecvNoticesIn(ch, a, b, c) = RecvNoticesIn(channel, a, b, c)
             /\ PayloadsIn(ch, a, b, c) = PayloadsIn(channel, a, b, c)
  BY <1>1, ReadSendNotice DEF ProtocolTypes
<1>4. localPendingSend' = localPendingSend /\ recvList' = recvList
  BY DEF HandleRemotePendingSend
<1>5. \/ /\ Listed(expected[j][s], i) /\ expected' = ShiftTally(expected, j, s, i) /\ channel' = ch
         /\ localPendingRecv' = localPendingRecv /\ sendList' = sendList
      \/ /\ \E k \in DOMAIN recvs : CommitRecv(j, i, s, recvs[k], ch)
         /\ sendList' = sendList /\ expected' = expected
      \/ /\ ~Listed(expected[j][s], i) /\ sendList' = PushTally(sendList, j, s, i) /\ channel' = ch
         /\ localPendingRecv' = localPendingRecv /\ expected' = expected
  BY DEF HandleRemotePendingSend
<1> HIDE DEF ch
<1>6. CASE /\ Listed(expected[j][s], i) /\ expected' = ShiftTally(expected, j, s, i) /\ channel' = ch
           /\ localPendingRecv' = localPendingRecv /\ sendList' = sendList
  <2>1. expected' \in Tallies
    BY <1>6, ShiftTallyCounts DEF ProtocolTypes
  <2>2. ProtocolTypes'
    BY <1>2, <1>4, <1>6, <2>1 DEF ProtocolTypes
  <2>3. ASSUME NEW a \in Ranks, NEW b \in Ranks, NEW c \in Slots
        PROVE  BalancedAt(a, b, c)'
    <3>1. SendMarks(expected', a, b, c) = SendMarks(expected, a, b, c) - At(a, b, c, i, j, s)
      BY <1>6, ShiftTallyCounts DEF ProtocolTypes
    <3>2. SendMarks(expected', a, b, c) \in Nat
      BY <2>1, CountersAreNat
    <3>3. BalancedAt(a, b, c)
      BY DEF AllBalanced
    <3>4. /\ SendNoticesIn(channel', a, b, c) = SendNoticesIn(channel, a, b, c) - At(a, b, c, i, j, s)
          /\ RecvNoticesIn(channel', a, b, c) = RecvNoticesIn(channel, a, b, c)
          /\ PayloadsIn(channel', a, b, c) = PayloadsIn(channel, a, b, c)
      BY <1>3, <1>6
    <3>5. /\ localPendingSend' = localPendingSend /\ localPendingRecv' = localPendingRecv
          /\ sendList' = sendList /\ recvList' = recvList
      BY <1>4, <1>6
    <3> DEFINE d == At(a, b, c, i, j, s)
               P == QueuedSends(localPendingSend, a, b, c)
               L == QueuedRecvs(localPendingRecv, a, b, c)
               S == SendMarks(sendList, a, b, c)
               R == RecvMarks(recvList, a, b, c)
               E == SendMarks(expected, a, b, c)
               NS == SendNoticesIn(channel, a, b, c)
               NR == RecvNoticesIn(channel, a, b, c)
               D == PayloadsIn(channel, a, b, c)
    <3>11. /\ P \in Nat /\ L \in Nat /\ S \in Nat /\ R \in Nat /\ E \in Nat
          /\ NS \in Nat /\ NR \in Nat /\ D \in Nat /\ (d = 0 \/ d = 1)
      BY NumbersAt, AtIsBit
    <3>12. Balanced(P, L, S, R, E, NS, NR, D)
      BY <3>3 DEF BalancedAt
    <3>13. d <= E
      <4>1. SendMarks(expected', a, b, c) \in Nat
        BY <2>1, CountersAreNat
      <4> QED
        BY <3>1, <4>1, <3>11
    <3> HIDE DEF d, P, L, S, R, E, NS, NR, D
    <3>14. Balanced(P, L, S, R, E - d, NS - d, NR, D)
      BY <3>11, <3>12, <3>13, Moves
    <3> QED
      BY <3>1, <3>4, <3>5, <3>14 DEF BalancedAt, d, P, L, S, R, E, NS, NR, D
  <2> QED
    BY <2>2, <2>3 DEF AllBalanced
<1>7. ASSUME NEW k \in DOMAIN recvs, CommitRecv(j, i, s, recvs[k], ch),
             sendList' = sendList, expected' = expected
      PROVE  ProtocolTypes' /\ AllBalanced'
  <2>0. recvs[k] \in Recv
    OBVIOUS
  <2>1. ProtocolTypes'
    BY <1>2, <1>4, <1>7, <2>0, CommitCounts DEF ProtocolTypes
  <2>2. ASSUME NEW a \in Ranks, NEW b \in Ranks, NEW c \in Slots
        PROVE  BalancedAt(a, b, c)'
    <3>1. /\ QueuedRecvs(localPendingRecv', a, b, c) =
               QueuedRecvs(localPendingRecv, a, b, c) + At(a, b, c, i, j, s)
          /\ SendNoticesIn(channel', a, b, c) = SendNoticesIn(ch, a, b, c)
          /\ RecvNoticesIn(channel', a, b, c) = RecvNoticesIn(ch, a, b, c) + At(a, b, c, i, j, s)
          /\ PayloadsIn(channel', a, b, c) = PayloadsIn(ch, a, b, c)
      BY <1>2, <1>7, <2>0, CommitCounts DEF ProtocolTypes
    <3>2. BalancedAt(a, b, c)
      BY DEF AllBalanced
    <3>3. /\ SendNoticesIn(channel', a, b, c) = SendNoticesIn(channel, a, b, c) - At(a, b, c, i, j, s)
          /\ RecvNoticesIn(channel', a, b, c) = RecvNoticesIn(channel, a, b, c) + At(a, b, c, i, j, s)
          /\ PayloadsIn(channel', a, b, c) = PayloadsIn(channel, a, b, c)
      BY <1>3, <3>1
    <3>4. /\ localPendingSend' = localPendingSend /\ recvList' = recvList
          /\ sendList' = sendList /\ expected' = expected
      BY <1>4, <1>7
    <3> DEFINE d == At(a, b, c, i, j, s)
               P == QueuedSends(localPendingSend, a, b, c)
               L == QueuedRecvs(localPendingRecv, a, b, c)
               S == SendMarks(sendList, a, b, c)
               R == RecvMarks(recvList, a, b, c)
               E == SendMarks(expected, a, b, c)
               NS == SendNoticesIn(channel, a, b, c)
               NR == RecvNoticesIn(channel, a, b, c)
               D == PayloadsIn(channel, a, b, c)
    <3>11. /\ P \in Nat /\ L \in Nat /\ S \in Nat /\ R \in Nat /\ E \in Nat
          /\ NS \in Nat /\ NR \in Nat /\ D \in Nat /\ (d = 0 \/ d = 1)
      BY NumbersAt, AtIsBit
    <3>12. Balanced(P, L, S, R, E, NS, NR, D)
      BY <3>2 DEF BalancedAt
    <3> HIDE DEF d, P, L, S, R, E, NS, NR, D
    <3>14. Balanced(P, L + d, S, R, E, NS - d, NR + d, D)
      BY <3>11, <3>12, Moves
    <3> QED
      BY <3>1, <3>3, <3>4, <3>14 DEF BalancedAt, d, P, L, S, R, E, NS, NR, D
  <2> QED
    BY <2>1, <2>2 DEF AllBalanced
<1>8. CASE /\ ~Listed(expected[j][s], i) /\ sendList' = PushTally(sendList, j, s, i) /\ channel' = ch
           /\ localPendingRecv' = localPendingRecv /\ expected' = expected
  <2>1. sendList' \in Tallies
    BY <1>8, PushTallyCounts DEF ProtocolTypes
  <2>2. ProtocolTypes'
    BY <1>2, <1>4, <1>8, <2>1 DEF ProtocolTypes
  <2>3. ASSUME NEW a \in Ranks, NEW b \in Ranks, NEW c \in Slots
        PROVE  BalancedAt(a, b, c)'
    <3>1. SendMarks(sendList', a, b, c) = SendMarks(sendList, a, b, c) + At(a, b, c, i, j, s)
      BY <1>8, PushTallyCounts DEF ProtocolTypes
    <3>2. At(a, b, c, i, j, s) = 1 => ~(SendMarks(expected, a, b, c) > 0)
      BY <1>8, MarksListed, AtIsBit DEF ProtocolTypes
    <3>3. BalancedAt(a, b, c)
      BY DEF AllBalanced
    <3>4. /\ SendNoticesIn(channel', a, b, c) = SendNoticesIn(channel, a, b, c) - At(a, b, c, i, j, s)
          /\ RecvNoticesIn(channel', a, b, c) = RecvNoticesIn(channel, a, b, c)
          /\ PayloadsIn(channel', a, b, c) = PayloadsIn(channel, a, b, c)
      BY <1>3, <1>8
    <3>5. /\ localPendingSend' = localPendingSend /\ localPendingRecv' = localPendingRecv
          /\ expected' = expected /\ recvList' = recvList
      BY <1>4, <1>8
    <3> DEFINE d == At(a, b, c, i, j, s)
               P == QueuedSends(localPendingSend, a, b, c)
               L == QueuedRecvs(localPendingRecv, a, b, c)
               S == SendMarks(sendList, a, b, c)
               R == RecvMarks(recvList, a, b, c)
               E == SendMarks(expected, a, b, c)
               NS == SendNoticesIn(channel, a, b, c)
               NR == RecvNoticesIn(channel, a, b, c)
               D == PayloadsIn(channel, a, b, c)
    <3>11. /\ P \in Nat /\ L \in Nat /\ S \in Nat /\ R \in Nat /\ E \in Nat
          /\ NS \in Nat /\ NR \in Nat /\ D \in Nat /\ (d = 0 \/ d = 1)
      BY NumbersAt, AtIsBit
    <3>12. Balanced(P, L, S, R, E, NS, NR, D)
      BY <3>3 DEF BalancedAt
    <3>13. d = 1 => ~(E > 0)
      BY <3>2
    <3> HIDE DEF d, P, L, S, R, E, NS, NR, D
    <3>14. Balanced(P, L, S + d, R, E, NS - d, NR, D)
      BY <3>11, <3>12, <3>13, Moves
    <3> QED
      BY <3>1, <3>4, <3>5, <3>14 DEF BalancedAt, d, P, L, S, R, E, NS, NR, D
  <2> QED
    BY <2>2, <2>3 DEF AllBalanced
<1> QED
  BY <1>5, <1>6, <1>7, <1>8

LEMMA HandleRecvBalance ==
  ASSUME ProtocolTypes, AllBalanced, NEW i \in Ranks, NEW j \in Ranks, NEW s \in Slots,
         HandleRemotePendingRecv(j, i, s)
  PROVE  ProtocolTypes' /\ AllBalanced'
<1> DEFINE queue == localPendingSend[i][j][s]
           n == Head(queue)
           ch == Read(channel, j, i)
           ch2 == Write(ch, i, j, SendUnboundBuffer(s, n))
<1>1. /\ channel[j][i] # <<>>
      /\ Head(channel[j][i]).opcode = "NOTIFY_RECV_READY"
      /\ Head(channel[j][i]).slot = s
  BY DEF HandleRemotePendingRecv, Arrives
<1>2. ch \in Channels /\ queue \in Seq(Nat)
  <2>1. ch \in Channels
    BY <1>1, ReadRecvNotice DEF ProtocolTypes
  <2>2. queue \in Seq(Nat)
    BY DEF ProtocolTypes, Queues
  <2> QED
    BY <2>1, <2>2
<1>3. ASSUME NEW a \in Ranks, NEW b \in Ranks, NEW c \in Slots
      PROVE  /\ SendNoticesIn(ch, a, b, c) = SendNoticesIn(channel, a, b, c)
             /\ RecvNoticesIn(ch, a, b, c) = RecvNoticesIn(channel, a, b, c) - At(a, b, c, i, j, s)
             /\ PayloadsIn(ch, a, b, c) = PayloadsIn(channel, a, b, c)
  BY <1>1, ReadRecvNotice DEF ProtocolTypes
<1>4. /\ localPendingRecv' = localPendingRecv /\ sendList' = sendList /\ expected' = expected
      /\ (queue # <<>> => localPendingSend' = Dequeue(localPendingSend, i, j, s)
                          /\ channel' = ch2 /\ recvList' = recvList)
      /\ (queue = <<>> => localPendingSend' = localPendingSend
                          /\ channel' = ch /\ recvList' = PushTally(recvList, i, s, j))
  BY DEF HandleRemotePendingRecv
<1> HIDE DEF ch
<1>5. CASE queue # <<>>
  <2>0. n \in Nat
    BY <1>2, <1>5
  <2> HIDE DEF n
  <2>1. ch2 \in Channels
    BY <1>2, <2>0, WritePayload
  <2>2. ASSUME NEW a \in Ranks, NEW b \in Ranks, NEW c \in Slots
        PROVE  /\ SendNoticesIn(ch2, a, b, c) = SendNoticesIn(ch, a, b, c)
               /\ RecvNoticesIn(ch2, a, b, c) = RecvNoticesIn(ch, a, b, c)
               /\ PayloadsIn(ch2, a, b, c) = PayloadsIn(ch, a, b, c) + At(a, b, c, i, j, s)
    BY <1>2, <2>0, WritePayload
  <2> HIDE DEF ch2
  <2>3. localPendingSend' \in Queues(Nat)
    BY <1>4, <1>5, DequeueLength DEF ProtocolTypes
  <2>4. ProtocolTypes'
    BY <1>4, <1>5, <2>1, <2>3 DEF ProtocolTypes
  <2>5. ASSUME NEW a \in Ranks, NEW b \in Ranks, NEW c \in Slots
        PROVE  BalancedAt(a, b, c)'
    <3>1. QueuedSends(localPendingSend', a, b, c) =
            QueuedSends(localPendingSend, a, b, c) - At(a, b, c, i, j, s)
      BY <1>4, <1>5, QueuedSendsShrink DEF ProtocolTypes
    <3>2. QueuedSends(localPendingSend', a, b, c) \in Nat
      BY <2>3, CountersAreNat
    <3>3. BalancedAt(a, b, c)
      BY DEF AllBalanced
    <3>4. /\ localPendingRecv' = localPendingRecv /\ sendList' = sendList /\ expected' = expected
          /\ recvList' = recvList /\ channel' = ch2
      BY <1>4, <1>5
    <3> QED
      BY <1>3, <2>2, <3>1, <3>2, <3>3, <3>4, NumbersAt, AtIsBit DEF BalancedAt, Balanced
  <2> QED
    BY <2>4, <2>5 DEF AllBalanced
<1>6. CASE queue = <<>>
  <2>1. recvList' \in Tallies
    BY <1>4, <1>6, PushTallyCounts DEF ProtocolTypes
  <2>2. ProtocolTypes'
    BY <1>2, <1>4, <1>6, <2>1 DEF ProtocolTypes
  <2>3. ASSUME NEW a \in Ranks, NEW b \in Ranks, NEW c \in Slots
        PROVE  BalancedAt(a, b, c)'
    <3>1. RecvMarks(recvList', a, b, c) = RecvMarks(recvList, a, b, c) + At(a, b, c, i, j, s)
      BY <1>4, <1>6, RecvMarksPush DEF ProtocolTypes
    <3>2. At(a, b, c, i, j, s) = 1 => QueuedSends(localPendingSend, a, b, c) = 0
      BY <1>6, AtIsBit DEF QueuedSends
    <3>3. BalancedAt(a, b, c)
      BY DEF AllBalanced
    <3>4. /\ localPendingRecv' = localPendingRecv /\ sendList' = sendList /\ expected' = expected
          /\ localPendingSend' = localPendingSend /\ channel' = ch
      BY <1>4, <1>6
    <3> QED
      BY <1>3, <3>1, <3>2, <3>3, <3>4, NumbersAt, AtIsBit DEF BalancedAt, Balanced
  <2> QED
    BY <2>2, <2>3 DEF AllBalanced
<1> QED
  BY <1>5, <1>6

LEMMA PayloadBalance ==
  ASSUME ProtocolTypes, AllBalanced, NEW i \in Ranks, NEW j \in Ranks, NEW s \in Slots,
         ReceivePayload(i, j, s)
  PROVE  ProtocolTypes' /\ AllBalanced'
<1>1. /\ channel[i][j] # <<>>
      /\ Head(channel[i][j]).opcode = "SEND_UNBOUND_BUFFER"
      /\ Head(channel[i][j]).slot = s
      /\ localPendingRecv[j][i][s] # <<>>
      /\ localPendingRecv' = Dequeue(localPendingRecv, j, i, s)
      /\ channel' = Read(channel, i, j)
      /\ localPendingSend' = localPendingSend /\ sendList' = sendList
      /\ recvList' = recvList /\ expected' = expected
  BY DEF ReceivePayload, Arrives, tallies
<1>2. channel' \in Channels
  BY <1>1, ReadPayload DEF ProtocolTypes
<1>3. localPendingRecv' \in Queues(Recv)
  BY <1>1, DequeueLength DEF ProtocolTypes
<1>4. ProtocolTypes'
  BY <1>1, <1>2, <1>3 DEF ProtocolTypes
<1>5. ASSUME NEW a \in Ranks, NEW b \in Ranks, NEW c \in Slots
      PROVE  BalancedAt(a, b, c)'
  <2>1. QueuedRecvs(localPendingRecv', a, b, c) =
          QueuedRecvs(localPendingRecv, a, b, c) - At(a, b, c, i, j, s)
    BY <1>1, QueuedRecvsShrink DEF ProtocolTypes
  <2>2. /\ SendNoticesIn(channel', a, b, c) = SendNoticesIn(channel, a, b, c)
        /\ RecvNoticesIn(channel', a, b, c) = RecvNoticesIn(channel, a, b, c)
        /\ PayloadsIn(channel', a, b, c) = PayloadsIn(channel, a, b, c) - At(a, b, c, i, j, s)
    BY <1>1, ReadPayload DEF ProtocolTypes
  <2>3. BalancedAt(a, b, c)
    BY DEF AllBalanced
  <2>4. /\ localPendingSend' = localPendingSend /\ sendList' = sendList
        /\ recvList' = recvList /\ expected' = expected
    BY <1>1
  <2> QED
    BY <2>1, <2>2, <2>3, <2>4, NumbersAt, AtIsBit DEF BalancedAt, Balanced
<1> QED
  BY <1>4, <1>5 DEF AllBalanced

-----------------------------------------------------------------------------
(* The remaining variables.                                                *)

Waiting == [Ranks -> [Slots -> Seq(Recv)]]

OtherTypes ==
  /\ pendingRecv \in Waiting
  /\ anyCalls \in [Ranks -> SUBSET AnyCall]
  /\ sent \in [Ranks -> [Ranks -> [Slots -> Nat]]]
  /\ delivered \in [Ranks -> [Ranks -> [Slots -> Nat]]]
  /\ nsend \in [Ranks -> Nat]
  /\ nrecv \in [Ranks -> Nat]

LEMMA TypeMeaning == TypeOK <=> ProtocolTypes /\ OtherTypes
BY DEF TypeOK, ProtocolTypes, OtherTypes, Waiting, Queues, Tallies, Channels

LEMMA CallTypes ==
  ASSUME NEW j \in Ranks, NEW call \in AnyCall, anyCalls \in [Ranks -> SUBSET AnyCall]
  PROVE  /\ call.recv \in Recv /\ call.slot \in Slots
         /\ \A r \in Ranks \cup {NoRank} : Continue(j, call, r) =>
              anyCalls' \in [Ranks -> SUBSET AnyCall]
         /\ Return(j, call) => anyCalls' \in [Ranks -> SUBSET AnyCall]
<1>1. \A r \in Ranks \cup {NoRank} : [call EXCEPT !.rank = r] \in AnyCall
  BY DEF AnyCall
<1>2. call.recv \in Recv /\ call.slot \in Slots
  BY DEF AnyCall
<1> QED
  BY <1>1, <1>2 DEF Continue, Return

PutWaiting(f, j, s, q) == [f EXCEPT ![j][s] = q]

LEMMA UpdateWaiting ==
  ASSUME NEW f \in Waiting, NEW j \in Ranks, NEW s \in Slots, NEW q \in Seq(Recv)
  PROVE  /\ PutWaiting(f, j, s, q) \in Waiting
         /\ \A b \in Ranks, c \in Slots :
              PutWaiting(f, j, s, q)[b][c] = IF b = j /\ c = s THEN q ELSE f[b][c]
BY DEF PutWaiting, Waiting

(* Taking a receive out of a queue leaves only receives that were there.   *)
LEMMA RemoveAtElements ==
  ASSUME NEW T, NEW q \in Seq(T), NEW n \in DOMAIN q
  PROVE  /\ RemoveAt(q, n) \in Seq(T)
         /\ \A k \in DOMAIN RemoveAt(q, n) : \E l \in DOMAIN q : RemoveAt(q, n)[k] = q[l]
<1> DEFINE p == RemoveAt(q, n)
<1>1. n \in 1 .. Len(q) /\ DOMAIN q = 1 .. Len(q) /\ Len(q) \in Nat
  OBVIOUS
<1>2. p \in Seq(T) /\ IsWithout(p, q, n)
  BY <1>1, RemoveAtIsWithout
<1> HIDE DEF p
<1>3. ASSUME NEW k \in DOMAIN p
      PROVE  \E l \in DOMAIN q : p[k] = q[l]
  <2>1. k \in 1 .. Len(p) /\ Len(p) = Len(q) - 1 /\ Len(p) \in Nat
    BY <1>2 DEF IsWithout
  <2>2. p[k] = IF k < n THEN q[k] ELSE q[k + 1]
    BY <1>2, <2>1 DEF IsWithout
  <2>3. k \in DOMAIN q /\ k + 1 \in DOMAIN q
    BY <1>1, <2>1
  <2> QED
    BY <2>2, <2>3
<1> QED
  BY <1>2, <1>3 DEF p

-----------------------------------------------------------------------------
(* A waiting recv-from-any and the list of pending sends.                  *)

NoMatchAt(waiting, list) ==
  \A a, b \in Ranks, c \in Slots :
    \A k \in DOMAIN waiting[b][c] :
      a \in waiting[b][c][k].from => SendMarks(list, a, b, c) = 0

LEMMA MatchMeaning == NoMissedMatch <=> NoMatchAt(pendingRecv, sendList)
BY DEF NoMissedMatch, NoMatchAt, KnownSends, SendMarks

LEMMA MatchShift ==
  ASSUME NEW w, NEW f \in Tallies, NEW i \in Ranks, NEW j \in Ranks, NEW s \in Slots,
         Listed(f[j][s], i), NoMatchAt(w, f)
  PROVE  NoMatchAt(w, ShiftTally(f, j, s, i))
<1> DEFINE g == ShiftTally(f, j, s, i)
<1>1. g \in Tallies
  BY ShiftTallyCounts
<1>2. \A a, b \in Ranks, c \in Slots : SendMarks(g, a, b, c) = SendMarks(f, a, b, c) - At(a, b, c, i, j, s)
  BY ShiftTallyCounts
<1> HIDE DEF g
<1>3. ASSUME NEW a \in Ranks, NEW b \in Ranks, NEW c \in Slots, SendMarks(f, a, b, c) = 0
      PROVE  SendMarks(g, a, b, c) = 0
  <2>1. SendMarks(g, a, b, c) \in Nat
    BY <1>1, CountersAreNat
  <2>2. SendMarks(g, a, b, c) = 0 - At(a, b, c, i, j, s)
    BY <1>2, <1>3
  <2>3. At(a, b, c, i, j, s) = 0 \/ At(a, b, c, i, j, s) = 1
    BY AtIsBit
  <2> QED
    BY <2>1, <2>2, <2>3
<1> QED
  BY <1>3 DEF NoMatchAt, g

LEMMA MatchRegister ==
  ASSUME NEW w \in Waiting, NEW f \in Tallies, NEW j \in Ranks, NEW s \in Slots,
         NEW recv \in Recv, NoMatchAt(w, f),
         \A k \in DOMAIN f[j][s] : f[j][s][k] \notin recv.from
  PROVE  /\ PutWaiting(w, j, s, Append(w[j][s], recv)) \in Waiting
         /\ NoMatchAt(PutWaiting(w, j, s, Append(w[j][s], recv)), f)
<1> DEFINE q == Append(w[j][s], recv)
           v == PutWaiting(w, j, s, q)
<1>1. w[j][s] \in Seq(Recv) /\ q \in Seq(Recv)
  BY DEF Waiting
<1>2. \A k \in DOMAIN q : (k \in DOMAIN w[j][s] /\ q[k] = w[j][s][k]) \/ q[k] = recv
  BY <1>1
<1> HIDE DEF q
<1>3. v \in Waiting /\ \A b \in Ranks, c \in Slots : v[b][c] = IF b = j /\ c = s THEN q ELSE w[b][c]
  BY <1>1, UpdateWaiting
<1>4. ASSUME NEW a \in Ranks, a \in recv.from PROVE SendMarks(f, a, j, s) = 0
  <2>1. ~Listed(f[j][s], a)
    BY <1>4 DEF Listed
  <2>2. SendMarks(f, a, j, s) \in Nat /\ ~(SendMarks(f, a, j, s) > 0)
    BY <2>1, MarksListed, CountersAreNat
  <2> QED
    BY <2>2
<1> HIDE DEF v
<1>5. ASSUME NEW a \in Ranks, NEW b \in Ranks, NEW c \in Slots, NEW k \in DOMAIN v[b][c],
             a \in v[b][c][k].from
      PROVE  SendMarks(f, a, b, c) = 0
  <2>1. CASE b = j /\ c = s
    <3>1. v[b][c] = q
      BY <1>3, <2>1
    <3>2. CASE q[k] = recv
      BY <1>4, <1>5, <2>1, <3>1, <3>2
    <3>3. CASE k \in DOMAIN w[j][s] /\ q[k] = w[j][s][k]
      BY <1>5, <2>1, <3>1, <3>3 DEF NoMatchAt
    <3> QED
      BY <1>2, <1>5, <3>1, <3>2, <3>3
  <2>2. CASE ~(b = j /\ c = s)
    <3>1. v[b][c] = w[b][c]
      BY <1>3, <2>2
    <3> QED
      BY <1>5, <3>1 DEF NoMatchAt
  <2> QED
    BY <2>1, <2>2
<1> QED
  BY <1>3, <1>5 DEF NoMatchAt, v, q

LEMMA MatchRemove ==
  ASSUME NEW w \in Waiting, NEW f \in Tallies, NEW j \in Ranks, NEW s \in Slots,
         NEW n \in DOMAIN w[j][s], NoMatchAt(w, f)
  PROVE  /\ PutWaiting(w, j, s, RemoveAt(w[j][s], n)) \in Waiting
         /\ NoMatchAt(PutWaiting(w, j, s, RemoveAt(w[j][s], n)), f)
<1> DEFINE q == RemoveAt(w[j][s], n)
           v == PutWaiting(w, j, s, q)
<1>0. w[j][s] \in Seq(Recv)
  BY DEF Waiting
<1>1. q \in Seq(Recv) /\ \A k \in DOMAIN q : \E l \in DOMAIN w[j][s] : q[k] = w[j][s][l]
  BY <1>0, RemoveAtElements
<1> HIDE DEF q
<1>3. v \in Waiting /\ \A b \in Ranks, c \in Slots : v[b][c] = IF b = j /\ c = s THEN q ELSE w[b][c]
  BY <1>1, UpdateWaiting
<1> HIDE DEF v
<1>5. ASSUME NEW a \in Ranks, NEW b \in Ranks, NEW c \in Slots, NEW k \in DOMAIN v[b][c],
             a \in v[b][c][k].from
      PROVE  SendMarks(f, a, b, c) = 0
  <2>1. CASE b = j /\ c = s
    <3>1. v[b][c] = q
      BY <1>3, <2>1
    <3>2. PICK l \in DOMAIN w[j][s] : q[k] = w[j][s][l]
      BY <1>1, <1>5, <3>1
    <3> QED
      BY <1>5, <2>1, <3>1, <3>2 DEF NoMatchAt
  <2>2. CASE ~(b = j /\ c = s)
    <3>1. v[b][c] = w[b][c]
      BY <1>3, <2>2
    <3> QED
      BY <1>5, <3>1 DEF NoMatchAt
  <2> QED
    BY <2>1, <2>2
<1> QED
  BY <1>3, <1>5 DEF NoMatchAt, v, q

LEMMA MatchTally ==
  ASSUME NEW w, NEW f \in Tallies, NEW i \in Ranks, NEW j \in Ranks, NEW s \in Slots,
         NoMatchAt(w, f), \A k \in DOMAIN w[j][s] : i \notin w[j][s][k].from
  PROVE  NoMatchAt(w, PushTally(f, j, s, i))
<1> DEFINE g == PushTally(f, j, s, i)
<1>2. \A a, b \in Ranks, c \in Slots : SendMarks(g, a, b, c) = SendMarks(f, a, b, c) + At(a, b, c, i, j, s)
  BY PushTallyCounts
<1> HIDE DEF g
<1>3. ASSUME NEW a \in Ranks, NEW b \in Ranks, NEW c \in Slots, NEW k \in DOMAIN w[b][c],
             a \in w[b][c][k].from
      PROVE  SendMarks(g, a, b, c) = 0
  <2>1. SendMarks(f, a, b, c) = 0
    BY <1>3 DEF NoMatchAt
  <2>2. ~(a = i /\ b = j /\ c = s)
    BY <1>3
  <2>3. At(a, b, c, i, j, s) = 0
    BY <2>2, AtIsBit
  <2> QED
    BY <1>2, <2>1, <2>3
<1> QED
  BY <1>3 DEF NoMatchAt, g

-----------------------------------------------------------------------------
(* The inductive invariant.                                                *)

IInv == /\ ProtocolTypes
        /\ OtherTypes
        /\ AllBalanced
        /\ NoMatchAt(pendingRecv, sendList)

LEMMA InitIInv == Init => IInv
<1> SUFFICES ASSUME Init PROVE IInv
  OBVIOUS
<1>1. <<>> \in Seq(Nat) /\ <<>> \in Seq(Recv) /\ <<>> \in Seq(Ranks) /\ <<>> \in Seq(Message)
  OBVIOUS
<1>2. TypeOK
  BY <1>1 DEF Init, TypeOK
<1>3. ASSUME NEW a \in Ranks, NEW b \in Ranks, NEW c \in Slots
      PROVE  BalancedAt(a, b, c) /\ SendMarks(sendList, a, b, c) = 0
  <2>1. /\ QueuedSends(localPendingSend, a, b, c) = 0
        /\ QueuedRecvs(localPendingRecv, a, b, c) = 0
    BY DEF Init, QueuedSends, QueuedRecvs
  <2>2. /\ sendList[b][c] = <<>> /\ recvList[a][c] = <<>> /\ expected[b][c] = <<>>
        /\ channel[a][b] = <<>> /\ channel[b][a] = <<>>
    BY DEF Init
  <2>3. /\ SendMarks(sendList, a, b, c) = 0 /\ RecvMarks(recvList, a, b, c) = 0
        /\ SendMarks(expected, a, b, c) = 0 /\ SendNoticesIn(channel, a, b, c) = 0
        /\ RecvNoticesIn(channel, a, b, c) = 0 /\ PayloadsIn(channel, a, b, c) = 0
    BY <2>2, OccurrencesEmpty DEF SendMarks, RecvMarks, SendNoticesIn, RecvNoticesIn, PayloadsIn
  <2> QED
    BY <2>1, <2>3 DEF BalancedAt, Balanced
<1> QED
  BY <1>2, <1>3, TypeMeaning DEF IInv, AllBalanced, NoMatchAt

LEMMA NextIInv == IInv /\ [Next]_vars => IInv'
<1> SUFFICES ASSUME IInv, [Next]_vars PROVE IInv'
  OBVIOUS
<1>0. ProtocolTypes /\ OtherTypes /\ AllBalanced /\ NoMatchAt(pendingRecv, sendList)
  BY DEF IInv
<1>00. sendList \in Tallies /\ pendingRecv \in Waiting
  BY <1>0 DEF ProtocolTypes, OtherTypes
<1>1. CASE UNCHANGED vars
  BY <1>0, <1>1, UnchangedBalance DEF IInv, OtherTypes, NoMatchAt, vars, tallies, history
<1>2. ASSUME NEW i \in Ranks, NEW j \in Ranks, NEW s \in Slots, Send(i, j, s)
      PROVE  IInv'
  <2>1. sent[i][j][s] \in Nat
    BY <1>0 DEF OtherTypes
  <2>2. ProtocolTypes' /\ AllBalanced'
    BY <1>0, <1>2, <2>1, SendBalance
  <2>3. OtherTypes'
    BY <1>0, <1>2, <2>1 DEF OtherTypes, Send
  <2>4. pendingRecv' = pendingRecv /\ sendList' = sendList
    BY <1>2 DEF Send
  <2> QED
    BY <1>0, <2>2, <2>3, <2>4 DEF IInv
<1>3. ASSUME NEW i \in Ranks, NEW j \in Ranks, NEW s \in Slots, RecvFrom(j, i, s)
      PROVE  IInv'
  <2>1. nrecv[j] \in Nat
    BY <1>0 DEF OtherTypes
  <2>2. ProtocolTypes' /\ AllBalanced'
    BY <1>0, <1>3, <2>1, RecvFromBalance
  <2>3. OtherTypes'
    BY <1>0, <1>3, <2>1 DEF OtherTypes, RecvFrom
  <2>4. pendingRecv' = pendingRecv
        /\ \/ Listed(sendList[j][s], i) /\ sendList' = ShiftTally(sendList, j, s, i)
           \/ sendList' = sendList
    BY <1>3 DEF RecvFrom
  <2>5. NoMatchAt(pendingRecv', sendList')
    BY <1>0, <1>00, <2>4, MatchShift
  <2> QED
    BY <2>2, <2>3, <2>5 DEF IInv
<1>4. ASSUME NEW j \in Ranks, NEW s \in Slots, NEW from \in SUBSET Ranks, RecvFromAny(j, s, from)
      PROVE  IInv'
  <2>1. UNCHANGED <<localPendingSend, localPendingRecv, sendList, recvList, expected, channel,
                    pendingRecv>>
    BY <1>4 DEF RecvFromAny, tallies
  <2>2. ProtocolTypes' /\ AllBalanced' /\ NoMatchAt(pendingRecv', sendList')
    BY <1>0, <2>1, UnchangedBalance
  <2>3. [recv |-> [id |-> nrecv[j] + 1, from |-> from], slot |-> s, rank |-> NoRank] \in AnyCall
    BY <1>0 DEF OtherTypes, AnyCall, Recv
  <2>4. anyCalls' \in [Ranks -> SUBSET AnyCall] /\ nrecv' \in [Ranks -> Nat]
    BY <1>0, <1>4, <2>3 DEF RecvFromAny, OtherTypes
  <2>5. OtherTypes'
    BY <1>0, <1>4, <2>1, <2>4 DEF OtherTypes, RecvFromAny
  <2> QED
    BY <2>2, <2>5 DEF IInv
<1>5. ASSUME NEW j \in Ranks, NEW call \in anyCalls[j], RecvFromAnyFindRank(j, call)
      PROVE  IInv'
  <2> DEFINE s == call.slot
             recv == call.recv
             list == sendList[j][s]
  <2>0. anyCalls \in [Ranks -> SUBSET AnyCall] /\ call \in AnyCall
    BY <1>0 DEF OtherTypes
  <2>1. recv \in Recv /\ s \in Slots
    BY <2>0, CallTypes
  <2>2. UNCHANGED <<localPendingSend, localPendingRecv, sendList, recvList, expected, channel,
                    sent, delivered, nsend, nrecv>>
    BY <1>5 DEF RecvFromAnyFindRank, tallies, history
  <2>3. ProtocolTypes' /\ AllBalanced'
    BY <1>0, <2>2, UnchangedBalance
  <2>4. \/ (\E k \in DOMAIN list : Continue(j, call, list[k])) /\ pendingRecv' = pendingRecv
        \/ /\ \A k \in DOMAIN list : list[k] \notin recv.from
           /\ pendingRecv' = PutWaiting(pendingRecv, j, s, Append(pendingRecv[j][s], recv))
           /\ Return(j, call)
    BY <1>5 DEF RecvFromAnyFindRank, PutWaiting
  <2>5. \A k \in DOMAIN list : list[k] \in Ranks
    BY <1>00, <2>1 DEF Tallies
  <2>6. anyCalls' \in [Ranks -> SUBSET AnyCall]
    BY <2>0, <2>4, <2>5, CallTypes
  <2> HIDE DEF s, recv
  <2>7. pendingRecv' \in Waiting /\ NoMatchAt(pendingRecv', sendList)
    BY <1>0, <1>00, <2>1, <2>4, MatchRegister
  <2>8. OtherTypes'
    BY <1>0, <2>2, <2>6, <2>7 DEF OtherTypes
  <2> QED
    BY <2>2, <2>3, <2>7, <2>8 DEF IInv
<1>6. ASSUME NEW j \in Ranks, NEW call \in anyCalls[j], TryRecv(j, call)
      PROVE  IInv'
  <2> DEFINE s == call.slot
             i == call.rank
  <2>0. anyCalls \in [Ranks -> SUBSET AnyCall] /\ call \in AnyCall
    BY <1>0 DEF OtherTypes
  <2>1. s \in Slots /\ i \in Ranks
    BY <1>6, <2>0 DEF TryRecv, AnyCall
  <2>2. ProtocolTypes' /\ AllBalanced'
    BY <1>0, <1>6, <2>0, TryRecvBalance
  <2>3. /\ UNCHANGED <<pendingRecv, sent, delivered, nsend, nrecv>>
        /\ (Return(j, call) \/ Continue(j, call, NoRank))
        /\ \/ Listed(sendList[j][s], i) /\ sendList' = ShiftTally(sendList, j, s, i)
           \/ sendList' = sendList
    BY <1>6 DEF TryRecv, history
  <2>4. anyCalls' \in [Ranks -> SUBSET AnyCall]
    BY <2>0, <2>3, CallTypes
  <2>5. OtherTypes'
    BY <1>0, <2>3, <2>4 DEF OtherTypes
  <2> HIDE DEF s, i
  <2>6. NoMatchAt(pendingRecv', sendList')
    BY <1>0, <1>00, <2>1, <2>3, MatchShift
  <2> QED
    BY <2>2, <2>5, <2>6 DEF IInv
<1>7. ASSUME NEW i \in Ranks, NEW j \in Ranks, NEW s \in Slots, HandleRemotePendingSend(i, j, s)
      PROVE  IInv'
  <2> DEFINE recvs == pendingRecv[j][s]
  <2>1. pendingRecv[j][s] \in Seq(Recv)
    BY <1>00 DEF Waiting
  <2>2. ProtocolTypes' /\ AllBalanced'
    BY <1>0, <1>7, <2>1, HandleSendBalance
  <2>3. UNCHANGED <<anyCalls, sent, delivered, nsend, nrecv>>
    BY <1>7 DEF HandleRemotePendingSend, history
  <2>4. \/ pendingRecv' = pendingRecv /\ sendList' = sendList
        \/ \E k \in DOMAIN recvs :
             pendingRecv' = PutWaiting(pendingRecv, j, s, RemoveAt(recvs, k)) /\ sendList' = sendList
        \/ /\ pendingRecv' = pendingRecv
           /\ sendList' = PushTally(sendList, j, s, i)
           /\ \A k \in DOMAIN recvs : i \notin recvs[k].from
    BY <1>7 DEF HandleRemotePendingSend, PutWaiting
  <2>5. pendingRecv' \in Waiting /\ NoMatchAt(pendingRecv', sendList')
    <3>1. CASE pendingRecv' = pendingRecv /\ sendList' = sendList
      BY <1>0, <1>00, <3>1
    <3>2. ASSUME NEW k \in DOMAIN recvs,
                 pendingRecv' = PutWaiting(pendingRecv, j, s, RemoveAt(recvs, k)), sendList' = sendList
          PROVE  pendingRecv' \in Waiting /\ NoMatchAt(pendingRecv', sendList')
      BY <1>0, <1>00, <3>2, MatchRemove
    <3>3. CASE /\ pendingRecv' = pendingRecv
               /\ sendList' = PushTally(sendList, j, s, i)
               /\ \A k \in DOMAIN recvs : i \notin recvs[k].from
      BY <1>0, <1>00, <3>3, MatchTally
    <3> QED
      BY <2>4, <3>1, <3>2, <3>3
  <2>6. OtherTypes'
    BY <1>0, <2>3, <2>5 DEF OtherTypes
  <2> QED
    BY <2>2, <2>5, <2>6 DEF IInv
<1>8. ASSUME NEW i \in Ranks, NEW j \in Ranks, NEW s \in Slots, HandleRemotePendingRecv(j, i, s)
      PROVE  IInv'
  <2>1. ProtocolTypes' /\ AllBalanced'
    BY <1>0, <1>8, HandleRecvBalance
  <2>2. UNCHANGED <<pendingRecv, sendList, anyCalls, sent, delivered, nsend, nrecv>>
    BY <1>8 DEF HandleRemotePendingRecv, history
  <2>3. OtherTypes'
    BY <1>0, <2>2 DEF OtherTypes
  <2> QED
    BY <1>0, <2>1, <2>2, <2>3 DEF IInv
<1>9. ASSUME NEW i \in Ranks, NEW j \in Ranks, NEW s \in Slots, ReceivePayload(i, j, s)
      PROVE  IInv'
  <2>1. ProtocolTypes' /\ AllBalanced'
    BY <1>0, <1>9, PayloadBalance
  <2>2. /\ UNCHANGED <<pendingRecv, sendList, anyCalls, sent, nsend, nrecv>>
        /\ delivered' = [delivered EXCEPT ![i][j][s] = Head(channel[i][j]).id]
        /\ channel[i][j] # <<>>
    BY <1>9 DEF ReceivePayload, Arrives, tallies
  <2>3. Head(channel[i][j]) \in Message
    BY <1>0, <2>2, ReadOne DEF ProtocolTypes
  <2>4. Head(channel[i][j]).id \in Nat
    BY <2>3 DEF Message
  <2>5. OtherTypes'
    BY <1>0, <2>2, <2>4 DEF OtherTypes
  <2> QED
    BY <1>0, <2>1, <2>2, <2>5 DEF IInv
<1>10. CASE \E i, j \in Ranks, s \in Slots : Send(i, j, s) \/ RecvFrom(j, i, s) \/ Handle(i, j, s)
  BY <1>10, <1>2, <1>3, <1>7, <1>8, <1>9 DEF Handle
<1>11. CASE \E j \in Ranks : \/ \E n \in 1 .. MaxRecvs[j] : CallStep(j, n)
                             \/ \E s \in Slots, from \in SUBSET Ranks : RecvFromAny(j, s, from)
  BY <1>11, <1>4, <1>5, <1>6 DEF CallStep
<1> QED
  BY <1>1, <1>10, <1>11 DEF Next

LEMMA Invariance == Spec => []IInv
BY InitIInv, NextIInv, PTL DEF Spec

-----------------------------------------------------------------------------
(* Type correctness, for every number of ranks, slots and operations.      *)
THEOREM TypeCorrect == Spec => []TypeOK
<1>1. IInv => TypeOK
  BY TypeMeaning DEF IInv
<1> QED
  BY Invariance, <1>1, PTL

(* Whatever is posted and in whatever order notifications cross, every     *)
(* receive committed by Pair::recv, Pair::tryRecv or a matched             *)
(* recv-from-any is accounted for exactly once; in particular the          *)
(* GLOO_ENFORCE of Pair::prepareRead never fails.                          *)
THEOREM RecvsAreAccounted == Spec => []RecvsAccounted
<1>1. IInv => RecvsAccounted
  BY BalancedMeaning, TypeMeaning DEF IInv
<1> QED
  BY Invariance, <1>1, PTL

(* The tallies of both ends always describe the same balance of sends and  *)
(* receives, up to the notifications in flight.                            *)
THEOREM EndsAgree == Spec => []BalanceAgreed
<1>1. IInv => BalanceAgreed
  BY BalancedMeaning, TypeMeaning DEF IInv
<1> QED
  BY Invariance, <1>1, PTL

(* A send and a receive that know of each other are never both left        *)
(* waiting.                                                                *)
THEOREM NothingIsHeldBack == Spec => []NeverHeldBack
<1>1. IInv => NeverHeldBack
  BY BalancedMeaning, TypeMeaning DEF IInv
<1> QED
  BY Invariance, <1>1, PTL

(* recvFromAny never leaves a receive registered while a send it accepts   *)
(* is listed, although it releases the context's lock between finding and  *)
(* trying a rank.                                                          *)
THEOREM RecvFromAnyMissesNothing == Spec => []NoMissedMatch
<1>1. IInv => NoMissedMatch
  BY MatchMeaning DEF IInv
<1> QED
  BY Invariance, <1>1, PTL

-----------------------------------------------------------------------------
(* The order of sends.                                                     *)

(* What a channel is after a write and after a read.                       *)
LEMMA WriteAt ==
  ASSUME NEW ch \in Channels, NEW i \in Ranks, NEW j \in Ranks, NEW m \in Message
  PROVE  /\ Write(ch, i, j, m) \in Channels
         /\ \A a, b \in Ranks :
              Write(ch, i, j, m)[a][b] = IF a = i /\ b = j THEN Append(ch[i][j], m) ELSE ch[a][b]
<1>1. Append(ch[i][j], m) \in Seq(Message)
  BY DEF Channels
<1>2. Write(ch, i, j, m) \in Channels
  BY WriteOne
<1> QED
  BY <1>1, <1>2 DEF Write, Channels

LEMMA ReadAt ==
  ASSUME NEW ch \in Channels, NEW i \in Ranks, NEW j \in Ranks, ch[i][j] # <<>>
  PROVE  /\ Read(ch, i, j) \in Channels
         /\ \A a, b \in Ranks :
              Read(ch, i, j)[a][b] = IF a = i /\ b = j THEN Tail(ch[i][j]) ELSE ch[a][b]
<1>1. Read(ch, i, j) \in Channels
  BY ReadOne
<1> QED
  BY <1>1 DEF Read, Channels

(* The beginnings of a longer and of a shorter channel.                    *)
LEMMA PrefixOfAppend ==
  ASSUME NEW q \in Seq(Message), NEW m \in Message
  PROVE  /\ \A k \in 1 .. Len(q) : SubSeq(Append(q, m), 1, k) = SubSeq(q, 1, k)
         /\ SubSeq(Append(q, m), 1, Len(q) + 1) = Append(q, m)
<1>1. ASSUME NEW k \in 1 .. Len(q) PROVE SubSeq(Append(q, m), 1, k) = SubSeq(q, 1, k)
  <2>1. k \in Nat /\ k <= Len(q) /\ Len(Append(q, m)) = Len(q) + 1
    OBVIOUS
  <2>2. \A l \in 1 .. k : Append(q, m)[l] = q[l]
    BY <2>1
  <2> QED
    BY <2>1, <2>2
<1>2. SubSeq(Append(q, m), 1, Len(q) + 1) = Append(q, m)
  OBVIOUS
<1> QED
  BY <1>1, <1>2

LEMMA PrefixOfTail ==
  ASSUME NEW q \in Seq(Message), q # <<>>
  PROVE  \A k \in 1 .. Len(Tail(q)) :
           /\ SubSeq(Tail(q), 1, k) = Tail(SubSeq(q, 1, k + 1))
           /\ SubSeq(q, 1, k + 1) \in Seq(Message) /\ SubSeq(q, 1, k + 1) # <<>>
           /\ Head(SubSeq(q, 1, k + 1)) = Head(q)
           /\ Tail(q)[k] = q[k + 1] /\ k + 1 \in 1 .. Len(q)
<1> TAKE k \in 1 .. Len(Tail(q))
<1>1. Len(Tail(q)) = Len(q) - 1 /\ Len(q) \in Nat /\ k \in Nat /\ k + 1 \in 1 .. Len(q)
  OBVIOUS
<1>2. Tail(q)[k] = q[k + 1]
  BY <1>1
<1>3. PICK u \in Seq(Message) : u = SubSeq(q, 1, k + 1)
  <2>1. SubSeq(q, 1, k + 1) \in Seq(Message)
    BY <1>1
  <2> QED
    BY <2>1
<1>4. Len(u) = k + 1 /\ \A l \in 1 .. k + 1 : u[l] = q[l]
  BY <1>1, <1>3
<1>5. u # <<>> /\ Head(u) = Head(q)
  BY <1>1, <1>4
<1>6. Tail(u) \in Seq(Message) /\ Len(Tail(u)) = k /\ \A l \in 1 .. k : Tail(u)[l] = q[l + 1]
  BY <1>1, <1>4, <1>5
<1>7. PICK v \in Seq(Message) : v = SubSeq(Tail(q), 1, k)
  <2>1. SubSeq(Tail(q), 1, k) \in Seq(Message)
    BY <1>1
  <2> QED
    BY <2>1
<1>8. Len(v) = k /\ \A l \in 1 .. k : v[l] = q[l + 1]
  BY <1>1, <1>7
<1>9. v = Tail(u)
  BY <1>6, <1>8
<1> QED
  BY <1>1, <1>2, <1>3, <1>5, <1>7, <1>9

(* A message of another kind is written.                                   *)
LEMMA OrderOther ==
  ASSUME NEW q \in Seq(Message), NEW p \in Seq(Nat), NEW d \in Nat, NEW n \in Nat, NEW s \in Slots,
         NEW m \in Message, m \notin Payloads(s), InOrder(q, p, d, n, s)
  PROVE  InOrder(Append(q, m), p, d, n, s)
<1>1. Occurrences(Append(q, m), Payloads(s)) = Occurrences(q, Payloads(s))
  <2>1. Occurrences(Append(q, m), Payloads(s)) =
          Occurrences(q, Payloads(s)) + (IF m \in Payloads(s) THEN 1 ELSE 0)
    BY OccurrencesAppend
  <2>2. Occurrences(q, Payloads(s)) \in Nat
    BY OccurrencesType
  <2> QED
    BY <2>1, <2>2
<1>2. ASSUME NEW k \in 1 .. Len(Append(q, m)), Append(q, m)[k] \in Payloads(s)
      PROVE  Append(q, m)[k].id = d + Occurrences(SubSeq(Append(q, m), 1, k), Payloads(s))
  <2>1. k \in 1 .. Len(q) /\ Append(q, m)[k] = q[k]
    BY <1>2
  <2> QED
    BY <1>2, <2>1, PrefixOfAppend DEF InOrder
<1> QED
  BY <1>1, <1>2 DEF InOrder

(* A send is written: the oldest one pending, or a new one if none is.     *)
LEMMA OrderWrite ==
  ASSUME NEW q \in Seq(Message), NEW p \in Seq(Nat), NEW d \in Nat, NEW n \in Nat, NEW s \in Slots,
         NEW m \in Message, NEW r \in Seq(Nat), NEW l \in Nat,
         m \in Payloads(s), m.id = d + Occurrences(q, Payloads(s)) + 1,
         \A k \in 1 .. Len(r) : r[k] = d + Occurrences(q, Payloads(s)) + 1 + k,
         l = d + Occurrences(q, Payloads(s)) + 1 + Len(r),
         InOrder(q, p, d, n, s)
  PROVE  InOrder(Append(q, m), r, d, l, s)
<1>1. PICK o \in Nat : o = Occurrences(q, Payloads(s))
  BY OccurrencesType
<1>2. Occurrences(Append(q, m), Payloads(s)) = o + 1
  BY <1>1, OccurrencesAppend
<1>3. ASSUME NEW k \in 1 .. Len(Append(q, m)), Append(q, m)[k] \in Payloads(s)
      PROVE  Append(q, m)[k].id = d + Occurrences(SubSeq(Append(q, m), 1, k), Payloads(s))
  <2>1. CASE k \in 1 .. Len(q)
    <3>1. Append(q, m)[k] = q[k]
      BY <2>1
    <3> QED
      BY <1>3, <2>1, <3>1, PrefixOfAppend DEF InOrder
  <2>2. CASE k = Len(q) + 1
    <3>1. Append(q, m)[k] = m /\ SubSeq(Append(q, m), 1, k) = Append(q, m)
      BY <2>2, PrefixOfAppend
    <3>2. d + (o + 1) = d + o + 1
      OBVIOUS
    <3> QED
      BY <1>1, <1>2, <3>1, <3>2
  <2> QED
    BY <2>1, <2>2
<1>4. ASSUME NEW k \in 1 .. Len(r) PROVE r[k] = d + (o + 1) + k
  BY <1>1
<1>5. l = d + (o + 1) + Len(r)
  BY <1>1
<1> QED
  BY <1>2, <1>3, <1>4, <1>5 DEF InOrder

LEMMA OrderSendNow ==
  ASSUME NEW q \in Seq(Message), NEW d \in Nat, NEW n \in Nat, NEW s \in Slots,
         NEW m \in Message, m \in Payloads(s), m.id = n + 1, InOrder(q, <<>>, d, n, s)
  PROVE  InOrder(Append(q, m), <<>>, d, n + 1, s)
<1>1. PICK o \in Nat : o = Occurrences(q, Payloads(s))
  BY OccurrencesType
<1>2. n = d + o
  BY <1>1 DEF InOrder
<1>3. PICK r \in Seq(Nat) : r = <<>> /\ Len(r) = 0
  <2>1. <<>> \in Seq(Nat) /\ Len(<<>>) = 0
    OBVIOUS
  <2> QED
    BY <2>1
<1>4. PICK l \in Nat : l = n + 1
  OBVIOUS
<1>5. m.id = d + o + 1 /\ l = d + o + 1 + Len(r) /\ \A k \in 1 .. Len(r) : r[k] = d + o + 1 + k
  BY <1>2, <1>3, <1>4
<1>6. InOrder(q, r, d, n, s)
  BY <1>3
<1>7. InOrder(Append(q, m), r, d, l, s)
  BY <1>1, <1>5, <1>6, OrderWrite
<1> QED
  BY <1>3, <1>4, <1>7

LEMMA OrderSendLater ==
  ASSUME NEW q \in Seq(Message), NEW p \in Seq(Nat), NEW d \in Nat, NEW n \in Nat, NEW s \in Slots,
         InOrder(q, p, d, n, s)
  PROVE  InOrder(q, Append(p, n + 1), d, n + 1, s)
<1>1. PICK o \in Nat : o = Occurrences(q, Payloads(s))
  BY OccurrencesType
<1>2. n = d + o + Len(p) /\ Len(p) \in Nat
  BY <1>1 DEF InOrder
<1>3. /\ Len(Append(p, n + 1)) = Len(p) + 1 /\ Append(p, n + 1)[Len(p) + 1] = n + 1
      /\ \A k \in 1 .. Len(p) : Append(p, n + 1)[k] = p[k]
  OBVIOUS
<1>4. ASSUME NEW k \in 1 .. Len(p) + 1 PROVE Append(p, n + 1)[k] = d + o + k
  <2>1. CASE k \in 1 .. Len(p)
    BY <1>1, <1>3, <2>1 DEF InOrder
  <2>2. CASE k = Len(p) + 1
    BY <1>2, <1>3, <2>2
  <2> QED
    BY <1>2, <2>1, <2>2
<1>5. n + 1 = d + o + (Len(p) + 1)
  BY <1>2
<1> QED
  BY <1>1, <1>3, <1>4, <1>5 DEF InOrder

LEMMA OrderDequeue ==
  ASSUME NEW q \in Seq(Message), NEW p \in Seq(Nat), NEW d \in Nat, NEW n \in Nat, NEW s \in Slots,
         NEW m \in Message, p # <<>>, m \in Payloads(s), m.id = Head(p), InOrder(q, p, d, n, s)
  PROVE  InOrder(Append(q, m), Tail(p), d, n, s)
<1>1. PICK o \in Nat : o = Occurrences(q, Payloads(s))
  BY OccurrencesType
<1>2. PICK h \in Nat : h = Len(p) /\ h > 0
  OBVIOUS
<1>3. n = d + o + h /\ \A k \in 1 .. h : p[k] = d + o + k
  BY <1>1, <1>2 DEF InOrder
<1>4. PICK r \in Seq(Nat) : r = Tail(p) /\ Len(r) = h - 1 /\ \A k \in 1 .. h - 1 : r[k] = p[k + 1]
  <2>1. /\ Tail(p) \in Seq(Nat) /\ Len(Tail(p)) = Len(p) - 1
        /\ \A k \in 1 .. Len(p) - 1 : Tail(p)[k] = p[k + 1]
    OBVIOUS
  <2> QED
    BY <1>2, <2>1
<1>5. m.id = d + o + 1
  <2>1. Head(p) = p[1] /\ 1 \in 1 .. h
    BY <1>2
  <2> QED
    BY <1>3, <2>1
<1>6. ASSUME NEW k \in 1 .. h - 1 PROVE r[k] = d + o + 1 + k
  <2>1. k + 1 \in 1 .. h /\ d + o + (k + 1) = d + o + 1 + k
    BY <1>2
  <2> QED
    BY <1>3, <1>4, <2>1
<1>7. n = d + o + 1 + (h - 1)
  BY <1>2, <1>3
<1>8. InOrder(Append(q, m), r, d, n, s)
  BY <1>1, <1>4, <1>5, <1>6, <1>7, OrderWrite
<1> QED
  BY <1>4, <1>8

(* A message is read.                                                      *)
LEMMA OrderRead ==
  ASSUME NEW q \in Seq(Message), NEW p \in Seq(Nat), NEW d \in Nat, NEW n \in Nat, NEW s \in Slots,
         q # <<>>, InOrder(q, p, d, n, s)
  PROVE  /\ Head(q) \notin Payloads(s) => InOrder(Tail(q), p, d, n, s)
         /\ Head(q) \in Payloads(s) => /\ Head(q).id = d + 1 /\ InOrder(Tail(q), p, d + 1, n, s)
                                       /\ d < n
<1>1. PICK o \in Nat : o = Occurrences(q, Payloads(s))
  BY OccurrencesType
<1>2. n = d + o + Len(p) /\ (\A k \in 1 .. Len(p) : p[k] = d + o + k) /\ Len(p) \in Nat
  BY <1>1 DEF InOrder
<1>3. Occurrences(Tail(q), Payloads(s)) = o - (IF Head(q) \in Payloads(s) THEN 1 ELSE 0)
  BY <1>1, OccurrencesTail
<1>4. Occurrences(Tail(q), Payloads(s)) \in Nat
  BY OccurrencesTail, OccurrencesType
<1>5. ASSUME NEW k \in 1 .. Len(Tail(q)), Tail(q)[k] \in Payloads(s)
      PROVE  \E b \in Nat :
               /\ Tail(q)[k].id = d + b
               /\ Occurrences(SubSeq(Tail(q), 1, k), Payloads(s)) =
                    b - (IF Head(q) \in Payloads(s) THEN 1 ELSE 0)
  <2>1. PICK u \in Seq(Message) :
          /\ u = SubSeq(q, 1, k + 1) /\ u # <<>> /\ Head(u) = Head(q)
          /\ SubSeq(Tail(q), 1, k) = Tail(u)
          /\ Tail(q)[k] = q[k + 1] /\ k + 1 \in 1 .. Len(q)
    BY PrefixOfTail
  <2>2. PICK b \in Nat : b = Occurrences(u, Payloads(s))
    BY OccurrencesType
  <2>3. Tail(q)[k].id = d + b
    BY <1>5, <2>1, <2>2 DEF InOrder
  <2>4. Occurrences(Tail(u), Payloads(s)) = b - (IF Head(u) \in Payloads(s) THEN 1 ELSE 0)
    <3>1. Occurrences(Tail(u), Payloads(s)) =
            Occurrences(u, Payloads(s)) - (IF Head(u) \in Payloads(s) THEN 1 ELSE 0)
      <4>1. u # <<>>
        BY <2>1
      <4> QED
        BY <4>1, OccurrencesTail
    <3> QED
      BY <2>2, <3>1
  <2> QED
    BY <2>1, <2>3, <2>4
<1>6. ASSUME Head(q) \notin Payloads(s) PROVE InOrder(Tail(q), p, d, n, s)
  <2>1. Occurrences(Tail(q), Payloads(s)) = o
    BY <1>3, <1>6
  <2>2. ASSUME NEW k \in 1 .. Len(Tail(q)), Tail(q)[k] \in Payloads(s)
        PROVE  Tail(q)[k].id = d + Occurrences(SubSeq(Tail(q), 1, k), Payloads(s))
    <3>1. PICK b \in Nat : /\ Tail(q)[k].id = d + b
                           /\ Occurrences(SubSeq(Tail(q), 1, k), Payloads(s)) = b - 0
      BY <1>5, <1>6, <2>2
    <3> QED
      BY <3>1
  <2> QED
    BY <1>2, <2>1, <2>2 DEF InOrder
<1>7. ASSUME Head(q) \in Payloads(s)
      PROVE  Head(q).id = d + 1 /\ InOrder(Tail(q), p, d + 1, n, s) /\ d < n
  <2>1. Occurrences(Tail(q), Payloads(s)) = o - 1 /\ o - 1 \in Nat
    BY <1>3, <1>4, <1>7
  <2>2. ASSUME NEW k \in 1 .. Len(Tail(q)), Tail(q)[k] \in Payloads(s)
        PROVE  Tail(q)[k].id = d + 1 + Occurrences(SubSeq(Tail(q), 1, k), Payloads(s))
    <3>1. PICK b \in Nat : /\ Tail(q)[k].id = d + b
                           /\ Occurrences(SubSeq(Tail(q), 1, k), Payloads(s)) = b - 1
      BY <1>5, <1>7, <2>2
    <3> QED
      BY <3>1
  <2>3. Head(q).id = d + 1
    <3>1. 1 \in 1 .. Len(q) /\ Head(q) = q[1]
      OBVIOUS
    <3>2. PICK u \in Seq(Message) : u = SubSeq(q, 1, 1) /\ Len(u) = 1 /\ u[1] = q[1]
      <4>1. SubSeq(q, 1, 1) \in Seq(Message) /\ Len(SubSeq(q, 1, 1)) = 1
        BY <3>1
      <4>2. SubSeq(q, 1, 1)[1] = q[1]
        BY <3>1
      <4> QED
        BY <4>1, <4>2
    <3>3. PICK e \in Seq(Message), m \in Message : e = <<>> /\ m = Head(q)
      <4>1. <<>> \in Seq(Message) /\ Head(q) \in Message
        OBVIOUS
      <4> QED
        BY <4>1
    <3>4. u = Append(e, m)
      <4>1. Append(e, m) \in Seq(Message) /\ Len(Append(e, m)) = 1 /\ Append(e, m)[1] = m
        BY <3>3
      <4>2. Len(u) = Len(Append(e, m)) /\ \A k \in 1 .. Len(u) : u[k] = Append(e, m)[k]
        BY <3>1, <3>2, <3>3, <4>1
      <4> QED
        BY <4>1, <4>2, SeqEqual
    <3>5. Occurrences(Append(e, m), Payloads(s)) =
            Occurrences(e, Payloads(s)) + (IF m \in Payloads(s) THEN 1 ELSE 0)
      BY OccurrencesAppend
    <3>6. Occurrences(e, Payloads(s)) = 0
      BY <3>3, OccurrencesEmpty
    <3>7. Occurrences(u, Payloads(s)) = 1
      BY <1>7, <3>3, <3>4, <3>5, <3>6
    <3> QED
      BY <1>7, <3>1, <3>2, <3>7 DEF InOrder
  <2>4. (\A k \in 1 .. Len(p) : p[k] = d + 1 + (o - 1) + k) /\ n = d + 1 + (o - 1) + Len(p) /\ d < n
    BY <1>2, <2>1
  <2> QED
    BY <2>1, <2>2, <2>3, <2>4 DEF InOrder
<1> QED
  BY <1>6, <1>7

(* The order of all sends, as a function of the variables it is read from. *)
Counts == [Ranks -> [Ranks -> [Slots -> Nat]]]

OrderIn(ch, f, d, n) ==
  \A a, b \in Ranks, c \in Slots : InOrder(ch[a][b], f[a][b][c], d[a][b][c], n[a][b][c], c)

(* x is the number of the send after the y-th.                             *)
IsNumberAfter(x, y) == x = y + 1

LEMMA UpdateCount ==
  ASSUME NEW f \in Counts, NEW i \in Ranks, NEW j \in Ranks, NEW s \in Slots, NEW x \in Nat
  PROVE  /\ PutQueue(f, i, j, s, x) \in Counts
         /\ \A a, b \in Ranks, c \in Slots :
              PutQueue(f, i, j, s, x)[a][b][c] = IF a = i /\ b = j /\ c = s THEN x ELSE f[a][b][c]
<1> DEFINE new == PutQueue(f, i, j, s, x)
           g == [f[i][j] EXCEPT ![s] = x]
           h == [f[i] EXCEPT ![j] = g]
<1>1. g \in [Slots -> Nat] /\ \A c \in Slots : g[c] = IF c = s THEN x ELSE f[i][j][c]
  BY DEF Counts
<1>2. new = [f EXCEPT ![i] = h]
  BY DEF PutQueue
<1> HIDE DEF g
<1>3. h \in [Ranks -> [Slots -> Nat]] /\ \A b \in Ranks : h[b] = IF b = j THEN g ELSE f[i][b]
  BY <1>1 DEF Counts
<1> HIDE DEF h, new
<1>4. new \in Counts /\ \A a \in Ranks : new[a] = IF a = i THEN h ELSE f[a]
  BY <1>2, <1>3 DEF Counts
<1> QED
  BY <1>1, <1>3, <1>4 DEF new

LEMMA OrderTypes ==
  ASSUME NEW ch \in Channels, NEW f \in Queues(Nat), NEW d \in Counts, NEW n \in Counts,
         NEW a \in Ranks, NEW b \in Ranks, NEW c \in Slots
  PROVE  ch[a][b] \in Seq(Message) /\ f[a][b][c] \in Seq(Nat) /\ d[a][b][c] \in Nat /\ n[a][b][c] \in Nat
<1>1. ch[a][b] \in Seq(Message)
  BY DEF Channels
<1>2. f[a][b][c] \in Seq(Nat)
  BY DEF Queues
<1>3. d[a][b][c] \in Nat /\ n[a][b][c] \in Nat
  BY DEF Counts
<1> QED
  BY <1>1, <1>2, <1>3

(* A notification is written, and is read.                                 *)
LEMMA OrderWriteNotice ==
  ASSUME NEW ch \in Channels, NEW f \in Queues(Nat), NEW d \in Counts, NEW n \in Counts,
         NEW i \in Ranks, NEW j \in Ranks, NEW m \in Message, \A c \in Slots : m \notin Payloads(c),
         OrderIn(ch, f, d, n)
  PROVE  OrderIn(Write(ch, i, j, m), f, d, n)
<1> SUFFICES ASSUME NEW a \in Ranks, NEW b \in Ranks, NEW c \in Slots
             PROVE  InOrder(Write(ch, i, j, m)[a][b], f[a][b][c], d[a][b][c], n[a][b][c], c)
  BY DEF OrderIn
<1>1. InOrder(ch[a][b], f[a][b][c], d[a][b][c], n[a][b][c], c)
  BY DEF OrderIn
<1>2. InOrder(Append(ch[a][b], m), f[a][b][c], d[a][b][c], n[a][b][c], c)
  BY <1>1, OrderTypes, OrderOther
<1>3. Write(ch, i, j, m)[a][b] = ch[a][b] \/ Write(ch, i, j, m)[a][b] = Append(ch[a][b], m)
  <2>1. Write(ch, i, j, m)[a][b] = IF a = i /\ b = j THEN Append(ch[i][j], m) ELSE ch[a][b]
    BY WriteAt
  <2> QED
    BY <2>1
<1> QED
  BY <1>1, <1>2, <1>3

LEMMA OrderReadNotice ==
  ASSUME NEW ch \in Channels, NEW f \in Queues(Nat), NEW d \in Counts, NEW n \in Counts,
         NEW i \in Ranks, NEW j \in Ranks, ch[i][j] # <<>>,
         \A c \in Slots : Head(ch[i][j]) \notin Payloads(c),
         OrderIn(ch, f, d, n)
  PROVE  OrderIn(Read(ch, i, j), f, d, n)
<1> SUFFICES ASSUME NEW a \in Ranks, NEW b \in Ranks, NEW c \in Slots
             PROVE  InOrder(Read(ch, i, j)[a][b], f[a][b][c], d[a][b][c], n[a][b][c], c)
  BY DEF OrderIn
<1>1. InOrder(ch[a][b], f[a][b][c], d[a][b][c], n[a][b][c], c)
  BY DEF OrderIn
<1>2. CASE a = i /\ b = j
  <2>1. Read(ch, i, j)[a][b] = Tail(ch[a][b]) /\ ch[a][b] # <<>> /\ Head(ch[a][b]) \notin Payloads(c)
    BY <1>2, ReadAt
  <2>2. InOrder(Tail(ch[a][b]), f[a][b][c], d[a][b][c], n[a][b][c], c)
    <3>1. ch[a][b] # <<>>
      BY <2>1
    <3> QED
      BY <1>1, <2>1, <3>1, OrderTypes, OrderRead
  <2> QED
    BY <2>1, <2>2
<1>3. CASE ~(a = i /\ b = j)
  <2>1. Read(ch, i, j)[a][b] = ch[a][b]
    BY <1>3, ReadAt
  <2> QED
    BY <1>1, <2>1
<1> QED
  BY <1>2, <1>3

(* A send is written at once.                                              *)
LEMMA OrderSendsNow ==
  ASSUME NEW ch \in Channels, NEW f \in Queues(Nat), NEW d \in Counts, NEW n \in Counts,
         NEW i \in Ranks, NEW j \in Ranks, NEW s \in Slots, NEW x \in Nat,
         IsNumberAfter(x, n[i][j][s]), f[i][j][s] = <<>>, OrderIn(ch, f, d, n)
  PROVE  OrderIn(Write(ch, i, j, SendUnboundBuffer(s, x)), f, d, PutQueue(n, i, j, s, x))
<1> SUFFICES ASSUME NEW a \in Ranks, NEW b \in Ranks, NEW c \in Slots
             PROVE  InOrder(Write(ch, i, j, SendUnboundBuffer(s, x))[a][b], f[a][b][c], d[a][b][c],
                            PutQueue(n, i, j, s, x)[a][b][c], c)
  BY DEF OrderIn
<1>1. PICK m \in Message : m = SendUnboundBuffer(s, x) /\ m.id = x /\ (m \in Payloads(c) <=> s = c)
  <2>1. SendUnboundBuffer(s, x).id = x
    BY DEF SendUnboundBuffer
  <2> QED
    BY <2>1, MessageKinds
<1>2. InOrder(ch[a][b], f[a][b][c], d[a][b][c], n[a][b][c], c)
  BY DEF OrderIn
<1>3. /\ ch[a][b] \in Seq(Message) /\ f[a][b][c] \in Seq(Nat) /\ d[a][b][c] \in Nat
      /\ n[a][b][c] \in Nat
  BY OrderTypes
<1>4. Write(ch, i, j, m)[a][b] = IF a = i /\ b = j THEN Append(ch[i][j], m) ELSE ch[a][b]
  BY WriteAt
<1>5. PutQueue(n, i, j, s, x)[a][b][c] = IF a = i /\ b = j /\ c = s THEN x ELSE n[a][b][c]
  BY UpdateCount, SMTT(30)
<1>6. CASE a = i /\ b = j /\ c = s
  <2>1. InOrder(ch[a][b], <<>>, d[a][b][c], n[a][b][c], c)
    BY <1>2, <1>6
  <2>2. m.id = n[a][b][c] + 1 /\ x = n[a][b][c] + 1 /\ m \in Payloads(c)
    BY <1>1, <1>6 DEF IsNumberAfter
  <2>3. InOrder(Append(ch[a][b], m), <<>>, d[a][b][c], n[a][b][c] + 1, c)
    BY <1>3, <2>1, <2>2, OrderSendNow
  <2> QED
    BY <1>1, <1>4, <1>5, <1>6, <2>2, <2>3
<1>7. CASE a = i /\ b = j /\ c # s
  <2>1. InOrder(Append(ch[a][b], m), f[a][b][c], d[a][b][c], n[a][b][c], c)
    BY <1>1, <1>2, <1>3, <1>7, OrderOther
  <2> QED
    BY <1>1, <1>4, <1>5, <1>7, <2>1
<1>8. CASE ~(a = i /\ b = j)
  BY <1>1, <1>2, <1>4, <1>5, <1>8
<1> QED
  BY <1>6, <1>7, <1>8

(* A send is queued.                                                       *)
LEMMA OrderSendsLater ==
  ASSUME NEW ch \in Channels, NEW f \in Queues(Nat), NEW d \in Counts, NEW n \in Counts,
         NEW i \in Ranks, NEW j \in Ranks, NEW s \in Slots, NEW x \in Nat,
         IsNumberAfter(x, n[i][j][s]), OrderIn(ch, f, d, n)
  PROVE  OrderIn(ch, Enqueue(f, i, j, s, x), d, PutQueue(n, i, j, s, x))
<1>0. PICK q \in Seq(Nat) : q = Append(f[i][j][s], x)
  <2>1. f[i][j][s] \in Seq(Nat)
    BY OrderTypes
  <2>2. Append(f[i][j][s], x) \in Seq(Nat)
    BY <2>1
  <2> QED
    BY <2>2
<1>1. Enqueue(f, i, j, s, x) = PutQueue(f, i, j, s, q)
  BY <1>0 DEF Enqueue, PutQueue
<1> SUFFICES ASSUME NEW a \in Ranks, NEW b \in Ranks, NEW c \in Slots
             PROVE  InOrder(ch[a][b], PutQueue(f, i, j, s, q)[a][b][c], d[a][b][c],
                            PutQueue(n, i, j, s, x)[a][b][c], c)
  BY <1>1 DEF OrderIn
<1>2. InOrder(ch[a][b], f[a][b][c], d[a][b][c], n[a][b][c], c)
  BY DEF OrderIn
<1>3. /\ ch[a][b] \in Seq(Message) /\ f[a][b][c] \in Seq(Nat) /\ d[a][b][c] \in Nat
      /\ n[a][b][c] \in Nat
  BY OrderTypes
<1>4. PutQueue(f, i, j, s, q)[a][b][c] = IF a = i /\ b = j /\ c = s THEN q ELSE f[a][b][c]
  BY UpdateQueue
<1>5. PutQueue(n, i, j, s, x)[a][b][c] = IF a = i /\ b = j /\ c = s THEN x ELSE n[a][b][c]
  BY UpdateCount, SMTT(30)
<1>6. InOrder(ch[a][b], Append(f[a][b][c], n[a][b][c] + 1), d[a][b][c], n[a][b][c] + 1, c)
  BY <1>2, <1>3, OrderSendLater
<1>7. CASE a = i /\ b = j /\ c = s
  <2>1. q = Append(f[a][b][c], n[a][b][c] + 1) /\ x = n[a][b][c] + 1
    BY <1>0, <1>7 DEF IsNumberAfter
  <2> QED
    BY <1>4, <1>5, <1>6, <1>7, <2>1
<1>8. CASE ~(a = i /\ b = j /\ c = s)
  BY <1>2, <1>4, <1>5, <1>8
<1> QED
  BY <1>7, <1>8

(* The oldest queued send is written.                                      *)
LEMMA OrderSendsOldest ==
  ASSUME NEW ch \in Channels, NEW f \in Queues(Nat), NEW d \in Counts, NEW n \in Counts,
         NEW i \in Ranks, NEW j \in Ranks, NEW s \in Slots, f[i][j][s] # <<>>, OrderIn(ch, f, d, n)
  PROVE  OrderIn(Write(ch, i, j, SendUnboundBuffer(s, Head(f[i][j][s]))), Dequeue(f, i, j, s), d, n)
<1>0. f[i][j][s] \in Seq(Nat)
  BY OrderTypes
<1>1. PICK q \in Seq(Nat), x \in Nat : q = Tail(f[i][j][s]) /\ x = Head(f[i][j][s])
  <2>1. Tail(f[i][j][s]) \in Seq(Nat) /\ Head(f[i][j][s]) \in Nat
    BY <1>0
  <2> QED
    BY <2>1
<1>2. Dequeue(f, i, j, s) = PutQueue(f, i, j, s, q)
  BY <1>1 DEF Dequeue, PutQueue
<1> SUFFICES ASSUME NEW a \in Ranks, NEW b \in Ranks, NEW c \in Slots
             PROVE  InOrder(Write(ch, i, j, SendUnboundBuffer(s, x))[a][b],
                            PutQueue(f, i, j, s, q)[a][b][c], d[a][b][c], n[a][b][c], c)
  BY <1>1, <1>2 DEF OrderIn
<1>3. PICK m \in Message : m = SendUnboundBuffer(s, x) /\ m.id = x /\ (m \in Payloads(c) <=> s = c)
  <2>1. SendUnboundBuffer(s, x).id = x
    BY DEF SendUnboundBuffer
  <2> QED
    BY <2>1, MessageKinds
<1>4. InOrder(ch[a][b], f[a][b][c], d[a][b][c], n[a][b][c], c)
  BY DEF OrderIn
<1>5. /\ ch[a][b] \in Seq(Message) /\ f[a][b][c] \in Seq(Nat) /\ d[a][b][c] \in Nat
      /\ n[a][b][c] \in Nat
  BY OrderTypes
<1>6. Write(ch, i, j, m)[a][b] = IF a = i /\ b = j THEN Append(ch[i][j], m) ELSE ch[a][b]
  BY WriteAt
<1>7. PutQueue(f, i, j, s, q)[a][b][c] = IF a = i /\ b = j /\ c = s THEN q ELSE f[a][b][c]
  BY UpdateQueue
<1>8. CASE a = i /\ b = j /\ c = s
  <2>1. f[a][b][c] # <<>> /\ m \in Payloads(c) /\ m.id = Head(f[a][b][c]) /\ q = Tail(f[a][b][c])
    BY <1>1, <1>3, <1>8
  <2>2. InOrder(Append(ch[a][b], m), Tail(f[a][b][c]), d[a][b][c], n[a][b][c], c)
    <3>1. f[a][b][c] # <<>>
      BY <2>1
    <3> QED
      BY <1>4, <1>5, <2>1, <3>1, OrderDequeue
  <2> QED
    BY <1>3, <1>6, <1>7, <1>8, <2>1, <2>2
<1>9. CASE a = i /\ b = j /\ c # s
  <2>1. InOrder(Append(ch[a][b], m), f[a][b][c], d[a][b][c], n[a][b][c], c)
    BY <1>3, <1>4, <1>5, <1>9, OrderOther
  <2> QED
    BY <1>3, <1>6, <1>7, <1>9, <2>1
<1>10. CASE ~(a = i /\ b = j)
  BY <1>3, <1>4, <1>6, <1>7, <1>10
<1> QED
  BY <1>8, <1>9, <1>10

(* A payload is received.                                                  *)
LEMMA OrderReceives ==
  ASSUME NEW ch \in Channels, NEW f \in Queues(Nat), NEW d \in Counts, NEW n \in Counts,
         NEW i \in Ranks, NEW j \in Ranks, NEW s \in Slots, ch[i][j] # <<>>,
         Head(ch[i][j]) \in Payloads(s), OrderIn(ch, f, d, n)
  PROVE  /\ Head(ch[i][j]).id = d[i][j][s] + 1 /\ d[i][j][s] < n[i][j][s]
         /\ OrderIn(Read(ch, i, j), f, PutQueue(d, i, j, s, d[i][j][s] + 1), n)
<1>0. /\ ch[i][j] \in Seq(Message) /\ f[i][j][s] \in Seq(Nat) /\ d[i][j][s] \in Nat
      /\ n[i][j][s] \in Nat
  BY OrderTypes
<1>1. InOrder(ch[i][j], f[i][j][s], d[i][j][s], n[i][j][s], s)
  BY DEF OrderIn
<1>2. /\ Head(ch[i][j]).id = d[i][j][s] + 1 /\ d[i][j][s] < n[i][j][s]
      /\ InOrder(Tail(ch[i][j]), f[i][j][s], d[i][j][s] + 1, n[i][j][s], s)
  BY <1>0, <1>1, OrderRead
<1>3. PICK x \in Nat : x = d[i][j][s] + 1
  BY <1>0
<1>4. ASSUME NEW a \in Ranks, NEW b \in Ranks, NEW c \in Slots
      PROVE  InOrder(Read(ch, i, j)[a][b], f[a][b][c], PutQueue(d, i, j, s, x)[a][b][c],
                     n[a][b][c], c)
  <2>1. InOrder(ch[a][b], f[a][b][c], d[a][b][c], n[a][b][c], c)
    BY DEF OrderIn
  <2>2. /\ ch[a][b] \in Seq(Message) /\ f[a][b][c] \in Seq(Nat) /\ d[a][b][c] \in Nat
        /\ n[a][b][c] \in Nat
    BY OrderTypes
  <2>3. Read(ch, i, j)[a][b] = IF a = i /\ b = j THEN Tail(ch[i][j]) ELSE ch[a][b]
    BY ReadAt
  <2>4. PutQueue(d, i, j, s, x)[a][b][c] = IF a = i /\ b = j /\ c = s THEN x ELSE d[a][b][c]
    BY UpdateCount, SMTT(30)
  <2>5. CASE a = i /\ b = j /\ c = s
    BY <1>2, <1>3, <2>3, <2>4, <2>5
  <2>6. CASE a = i /\ b = j /\ c # s
    <3>1. Head(ch[a][b]) \notin Payloads(c)
      BY <2>6 DEF Payloads
    <3>2. ch[a][b] # <<>>
      BY <2>6
    <3>3. InOrder(Tail(ch[a][b]), f[a][b][c], d[a][b][c], n[a][b][c], c)
      BY <2>1, <2>2, <3>1, <3>2, OrderRead
    <3> QED
      BY <2>3, <2>4, <2>6, <3>3
  <2>7. CASE ~(a = i /\ b = j)
    BY <2>1, <2>3, <2>4, <2>7
  <2> QED
    BY <2>5, <2>6, <2>7
<1>5. OrderIn(Read(ch, i, j), f, PutQueue(d, i, j, s, x), n)
  BY <1>4 DEF OrderIn
<1> QED
  BY <1>2, <1>3, <1>5

(* The messages of each kind are in no other set.                          *)
LEMMA HeadKinds ==
  ASSUME ProtocolTypes, NEW i \in Ranks, NEW j \in Ranks, NEW s \in Slots
  PROVE  /\ Arrives(i, j, "NOTIFY_SEND_READY", s) =>
              channel[i][j] # <<>> /\ \A c \in Slots : Head(channel[i][j]) \notin Payloads(c)
         /\ Arrives(i, j, "NOTIFY_RECV_READY", s) =>
              channel[i][j] # <<>> /\ \A c \in Slots : Head(channel[i][j]) \notin Payloads(c)
         /\ Arrives(i, j, "SEND_UNBOUND_BUFFER", s) =>
              channel[i][j] # <<>> /\ Head(channel[i][j]) \in Payloads(s)
<1>1. channel[i][j] # <<>> => Head(channel[i][j]) \in Message
  BY ReadOne DEF ProtocolTypes
<1> QED
  BY <1>1 DEF Arrives, Payloads

(* A receive is committed: only a notification is written.                 *)
LEMMA OrderCommit ==
  ASSUME NEW f \in Queues(Nat), NEW d \in Counts, NEW n \in Counts, NEW ch \in Channels,
         NEW i \in Ranks, NEW j \in Ranks, NEW s \in Slots, NEW r,
         CommitRecv(j, i, s, r, ch), OrderIn(ch, f, d, n)
  PROVE  OrderIn(channel', f, d, n)
<1>1. channel' = Write(ch, j, i, NotifyRecvReady(s))
  BY DEF CommitRecv
<1>2. NotifyRecvReady(s) \in Message /\ \A c \in Slots : NotifyRecvReady(s) \notin Payloads(c)
  BY MessageKinds
<1>3. OrderIn(Write(ch, j, i, NotifyRecvReady(s)), f, d, n)
  BY <1>2, OrderWriteNotice
<1> QED
  BY <1>1, <1>3

LEMMA OrderMeaning == NonOvertaking <=> OrderIn(channel, localPendingSend, delivered, sent)
BY DEF NonOvertaking, OrderIn

LEMMA NextOrder == IInv /\ NonOvertaking /\ [Next]_vars => NonOvertaking'
<1> SUFFICES ASSUME IInv, NonOvertaking, [Next]_vars PROVE NonOvertaking'
  OBVIOUS
<1>0. /\ ProtocolTypes /\ OtherTypes /\ AllBalanced
      /\ OrderIn(channel, localPendingSend, delivered, sent)
  BY OrderMeaning DEF IInv
<1>00. /\ channel \in Channels /\ localPendingSend \in Queues(Nat) /\ recvList \in Tallies
       /\ delivered \in Counts /\ sent \in Counts
  BY <1>0 DEF ProtocolTypes, OtherTypes, Counts
<1>000. OrderIn(channel', localPendingSend', delivered', sent') => NonOvertaking'
  BY DEF NonOvertaking, OrderIn
<1>1. CASE UNCHANGED vars
  BY <1>0, <1>000, <1>1 DEF vars, history
<1>2. ASSUME NEW i \in Ranks, NEW j \in Ranks, NEW s \in Slots, Send(i, j, s)
      PROVE  NonOvertaking'
  <2>1. PICK x \in Nat : x = sent[i][j][s] + 1
    BY <1>00 DEF Counts
  <2>2. IsNumberAfter(x, sent[i][j][s])
    BY <2>1 DEF IsNumberAfter
  <2>3. PICK ch \in Channels : /\ ch = Write(channel, i, j, NotifySendReady(s))
                               /\ OrderIn(ch, localPendingSend, delivered, sent)
    <3>1. NotifySendReady(s) \in Message /\ \A c \in Slots : NotifySendReady(s) \notin Payloads(c)
      BY MessageKinds
    <3>2. Write(channel, i, j, NotifySendReady(s)) \in Channels
      BY <1>00, <3>1, WriteAt
    <3>3. OrderIn(Write(channel, i, j, NotifySendReady(s)), localPendingSend, delivered, sent)
      BY <1>0, <1>00, <3>1, OrderWriteNotice
    <3> QED
      BY <3>2, <3>3
  <2>4. /\ sent' = PutQueue(sent, i, j, s, x) /\ delivered' = delivered
        /\ \/ /\ Listed(recvList[i][s], j) /\ localPendingSend' = localPendingSend
              /\ channel' = Write(ch, i, j, SendUnboundBuffer(s, x))
           \/ /\ localPendingSend' = Enqueue(localPendingSend, i, j, s, x)
              /\ channel' = ch
    BY <1>2, <2>1, <2>3 DEF Send, PutQueue
  <2>5. ASSUME Listed(recvList[i][s], j)
        PROVE  localPendingSend[i][j][s] = <<>>
    <3>1. RecvMarks(recvList, i, j, s) > 0
      BY <1>00, <2>5, MarksListed
    <3>2. BalancedAt(i, j, s)
      BY <1>0 DEF AllBalanced
    <3>3. ~(QueuedSends(localPendingSend, i, j, s) > 0)
      BY <3>1, <3>2 DEF BalancedAt, Balanced
    <3>4. localPendingSend[i][j][s] \in Seq(Nat)
      BY <1>00 DEF Queues
    <3> QED
      BY <3>3, <3>4 DEF QueuedSends
  <2>6. CASE /\ Listed(recvList[i][s], j) /\ localPendingSend' = localPendingSend
             /\ channel' = Write(ch, i, j, SendUnboundBuffer(s, x))
    <3>1. localPendingSend[i][j][s] = <<>>
      BY <2>5, <2>6
    <3>2. OrderIn(Write(ch, i, j, SendUnboundBuffer(s, x)), localPendingSend, delivered,
                  PutQueue(sent, i, j, s, x))
      BY <1>00, <2>2, <2>3, <3>1, OrderSendsNow
    <3> QED
      BY <1>000, <2>4, <2>6, <3>2
  <2>7. CASE localPendingSend' = Enqueue(localPendingSend, i, j, s, x) /\ channel' = ch
    <3>1. OrderIn(ch, Enqueue(localPendingSend, i, j, s, x), delivered, PutQueue(sent, i, j, s, x))
      BY <1>00, <2>2, <2>3, OrderSendsLater
    <3> QED
      BY <1>000, <2>4, <2>7, <3>1
  <2> QED
    BY <2>4, <2>6, <2>7
<1>3. ASSUME NEW i \in Ranks, NEW j \in Ranks, NEW s \in Slots, RecvFrom(j, i, s)
      PROVE  NonOvertaking'
  <2>1. /\ CommitRecv(j, i, s, [id |-> nrecv[j] + 1, from |-> {i}], channel)
        /\ UNCHANGED <<localPendingSend, sent, delivered>>
    BY <1>3 DEF RecvFrom
  <2>2. OrderIn(channel', localPendingSend, delivered, sent)
    BY <1>0, <1>00, <2>1, OrderCommit
  <2> QED
    BY <1>000, <2>1, <2>2
<1>4. ASSUME NEW j \in Ranks, NEW s \in Slots, NEW from \in SUBSET Ranks, RecvFromAny(j, s, from)
      PROVE  NonOvertaking'
  BY <1>0, <1>000, <1>4 DEF RecvFromAny
<1>5. ASSUME NEW j \in Ranks, NEW call \in anyCalls[j], RecvFromAnyFindRank(j, call)
      PROVE  NonOvertaking'
  BY <1>0, <1>000, <1>5 DEF RecvFromAnyFindRank, history
<1>6. ASSUME NEW j \in Ranks, NEW call \in anyCalls[j], TryRecv(j, call)
      PROVE  NonOvertaking'
  <2>1. PICK i \in Ranks, s \in Slots : i = call.rank /\ s = call.slot
    <3>1. call \in AnyCall
      BY <1>0 DEF OtherTypes
    <3>2. call.rank \in Ranks /\ call.slot \in Slots
      BY <1>6, <3>1 DEF TryRecv, AnyCall
    <3> QED
      BY <3>2
  <2>2. /\ CommitRecv(j, i, s, call.recv, channel) \/ channel' = channel
        /\ UNCHANGED <<localPendingSend, sent, delivered>>
    BY <1>6, <2>1 DEF TryRecv, history
  <2>3. OrderIn(channel', localPendingSend, delivered, sent)
    BY <1>0, <1>00, <2>2, OrderCommit
  <2> QED
    BY <1>000, <2>2, <2>3
<1>7. ASSUME NEW i \in Ranks, NEW j \in Ranks, NEW s \in Slots, HandleRemotePendingSend(i, j, s)
      PROVE  NonOvertaking'
  <2>1. /\ Arrives(i, j, "NOTIFY_SEND_READY", s)
        /\ UNCHANGED <<localPendingSend, sent, delivered>>
        /\ \/ channel' = Read(channel, i, j)
           \/ \E r : CommitRecv(j, i, s, r, Read(channel, i, j))
    BY <1>7 DEF HandleRemotePendingSend, history
  <2>2. channel[i][j] # <<>> /\ \A c \in Slots : Head(channel[i][j]) \notin Payloads(c)
    BY <1>0, <2>1, HeadKinds
  <2>3. PICK ch \in Channels : ch = Read(channel, i, j) /\ OrderIn(ch, localPendingSend, delivered, sent)
    <3>1. Read(channel, i, j) \in Channels
      BY <1>00, <2>2, ReadAt
    <3>2. OrderIn(Read(channel, i, j), localPendingSend, delivered, sent)
      BY <1>0, <1>00, <2>2, OrderReadNotice
    <3> QED
      BY <3>1, <3>2
  <2>4. ASSUME NEW r, CommitRecv(j, i, s, r, ch)
        PROVE  OrderIn(channel', localPendingSend, delivered, sent)
    BY <1>00, <2>3, <2>4, OrderCommit
  <2>5. OrderIn(channel', localPendingSend, delivered, sent)
    BY <2>1, <2>3, <2>4
  <2> QED
    BY <1>000, <2>1, <2>5
<1>8. ASSUME NEW i \in Ranks, NEW j \in Ranks, NEW s \in Slots, HandleRemotePendingRecv(j, i, s)
      PROVE  NonOvertaking'
  <2>1. Arrives(j, i, "NOTIFY_RECV_READY", s) /\ UNCHANGED <<sent, delivered>>
    BY <1>8 DEF HandleRemotePendingRecv, history
  <2>2. channel[j][i] # <<>> /\ \A c \in Slots : Head(channel[j][i]) \notin Payloads(c)
    BY <1>0, <2>1, HeadKinds
  <2>3. PICK ch \in Channels : ch = Read(channel, j, i) /\ OrderIn(ch, localPendingSend, delivered, sent)
    <3>1. Read(channel, j, i) \in Channels
      BY <1>00, <2>2, ReadAt
    <3>2. OrderIn(Read(channel, j, i), localPendingSend, delivered, sent)
      BY <1>0, <1>00, <2>2, OrderReadNotice
    <3> QED
      BY <3>1, <3>2
  <2>4. \/ /\ localPendingSend[i][j][s] # <<>>
           /\ localPendingSend' = Dequeue(localPendingSend, i, j, s)
           /\ channel' = Write(ch, i, j, SendUnboundBuffer(s, Head(localPendingSend[i][j][s])))
        \/ localPendingSend' = localPendingSend /\ channel' = ch
    BY <1>8, <2>3 DEF HandleRemotePendingRecv
  <2>5. CASE /\ localPendingSend[i][j][s] # <<>>
             /\ localPendingSend' = Dequeue(localPendingSend, i, j, s)
             /\ channel' = Write(ch, i, j, SendUnboundBuffer(s, Head(localPendingSend[i][j][s])))
    <3>1. localPendingSend[i][j][s] # <<>>
      BY <2>5
    <3>2. OrderIn(Write(ch, i, j, SendUnboundBuffer(s, Head(localPendingSend[i][j][s]))),
                  Dequeue(localPendingSend, i, j, s), delivered, sent)
      BY <1>00, <2>3, <3>1, OrderSendsOldest
    <3> QED
      BY <1>000, <2>1, <2>5, <3>2
  <2>6. CASE localPendingSend' = localPendingSend /\ channel' = ch
    BY <1>000, <2>1, <2>3, <2>6
  <2> QED
    BY <2>4, <2>5, <2>6
<1>9. ASSUME NEW i \in Ranks, NEW j \in Ranks, NEW s \in Slots, ReceivePayload(i, j, s)
      PROVE  NonOvertaking'
  <2>1. /\ Arrives(i, j, "SEND_UNBOUND_BUFFER", s) /\ UNCHANGED <<localPendingSend, sent>>
        /\ channel' = Read(channel, i, j)
        /\ delivered' = PutQueue(delivered, i, j, s, Head(channel[i][j]).id)
    BY <1>9 DEF ReceivePayload, PutQueue
  <2>2. channel[i][j] # <<>> /\ Head(channel[i][j]) \in Payloads(s)
    BY <1>0, <2>1, HeadKinds
  <2>3. /\ Head(channel[i][j]).id = delivered[i][j][s] + 1
        /\ OrderIn(Read(channel, i, j), localPendingSend,
                   PutQueue(delivered, i, j, s, delivered[i][j][s] + 1), sent)
    BY <1>0, <1>00, <2>2, OrderReceives
  <2> QED
    BY <1>000, <2>1, <2>3
<1>10. CASE \E i, j \in Ranks, s \in Slots : Send(i, j, s) \/ RecvFrom(j, i, s) \/ Handle(i, j, s)
  BY <1>10, <1>2, <1>3, <1>7, <1>8, <1>9 DEF Handle
<1>11. CASE \E j \in Ranks : \/ \E n \in 1 .. MaxRecvs[j] : CallStep(j, n)
                             \/ \E s \in Slots, from \in SUBSET Ranks : RecvFromAny(j, s, from)
  BY <1>11, <1>4, <1>5, <1>6 DEF CallStep
<1> QED
  BY <1>1, <1>10, <1>11 DEF Next

LEMMA InitOrder == Init => NonOvertaking
<1> SUFFICES ASSUME Init, NEW i \in Ranks, NEW j \in Ranks, NEW s \in Slots
             PROVE  InOrder(channel[i][j], localPendingSend[i][j][s], delivered[i][j][s],
                            sent[i][j][s], s)
  BY DEF NonOvertaking
<1>1. /\ channel[i][j] = <<>> /\ localPendingSend[i][j][s] = <<>>
      /\ delivered[i][j][s] = 0 /\ sent[i][j][s] = 0
  BY DEF Init
<1>2. Occurrences(<<>>, Payloads(s)) = 0
  BY OccurrencesEmpty
<1>3. InOrder(<<>>, <<>>, 0, 0, s)
  BY <1>2 DEF InOrder
<1> QED
  BY <1>1, <1>3

(* Between any two ranks the sends of a slot are received in the order in  *)
(* which Pair::send was called, whether the payload was written at once or *)
(* waited in localPendingSend_ for a notification.                         *)
THEOREM SendsNeverOvertake == Spec => []NonOvertaking
<1>1. IInv /\ NonOvertaking /\ [Next]_vars => (IInv /\ NonOvertaking)'
  BY NextIInv, NextOrder
<1>2. Init => IInv /\ NonOvertaking
  BY InitIInv, InitOrder
<1> QED
  BY <1>1, <1>2, PTL DEF Spec

-----------------------------------------------------------------------------
(* The refinement of Matching: where an unfulfilled receive is kept.       *)

(* A place for receives: a queue localPendingRecv_ of one of the pairs, or *)
(* the queue pendingRecv_ of the context, which is named by no rank.       *)
AnyHome == CHOOSE h : h \notin Ranks
Homes == Ranks \cup {AnyHome}
Keeps(f, w, j, s) == [h \in Homes |-> IF h \in Ranks THEN f[j][h][s] ELSE w[j][s]]

(* The calls of recvFromAny in progress, which hold the other receives.    *)
CallsOn(calls, j, s) == {call \in calls[j] : call.slot = s}

IsHeld(F, C, r) ==
  \/ \E h \in Homes : \E k \in 1 .. Len(F[h]) : F[h][k] = r
  \/ \E call \in C : call.recv = r

(* No receive is in two places.                                            *)
Distinct(F, C) ==
  /\ \A h, g \in Homes : \A k \in 1 .. Len(F[h]), l \in 1 .. Len(F[g]) :
       F[h][k].id = F[g][l].id => h = g /\ k = l
  /\ \A call, other \in C : call.recv.id = other.recv.id => call = other
  /\ \A h \in Homes, call \in C : \A k \in 1 .. Len(F[h]) : F[h][k].id # call.recv.id

(* No receive has number n.                                                *)
IsAbsent(F, C, n) ==
  /\ \A h \in Homes : \A k \in 1 .. Len(F[h]) : F[h][k].id # n
  /\ \A call \in C : call.recv.id # n

Kept == [Homes -> Seq(Recv)]

LEMMA AnyHomeIsNoRank == AnyHome \notin Ranks
BY NoSetContainsEverything DEF AnyHome

(* A receive is taken out of a queue.                                      *)
LEMMA TakeFromQueue ==
  ASSUME NEW F \in Kept, NEW G \in Kept, NEW C \in SUBSET AnyCall, NEW h \in Homes,
         NEW k \in 1 .. Len(F[h]), IsWithout(G[h], F[h], k),
         \A g \in Homes \ {h} : G[g] = F[g], Distinct(F, C)
  PROVE  /\ Distinct(G, C) /\ IsAbsent(G, C, F[h][k].id)
         /\ \A r : IsHeld(G, C, r) <=> IsHeld(F, C, r) /\ r # F[h][k]
<1>1. \A g \in Homes : /\ F[g] \in Seq(Recv) /\ G[g] \in Seq(Recv)
                       /\ Len(F[g]) \in Nat /\ Len(G[g]) \in Nat
  BY DEF Kept
<1>2. Len(G[h]) = Len(F[h]) - 1
  BY DEF IsWithout
<1>3. ASSUME NEW g \in Homes, NEW l \in 1 .. Len(G[g])
      PROVE  \E m \in 1 .. Len(F[g]) :
               /\ G[g][l] = F[g][m] /\ (g = h => m # k)
               /\ m = IF g = h /\ l >= k THEN l + 1 ELSE l
  <2>1. CASE g = h
    BY <1>1, <1>2, <2>1, SMTT(30) DEF IsWithout
  <2>2. CASE g # h
    BY <2>2
  <2> QED
    BY <2>1, <2>2
<1>4. ASSUME NEW g \in Homes, NEW m \in 1 .. Len(F[g]), ~(g = h /\ m = k)
      PROVE  \E l \in 1 .. Len(G[g]) : G[g][l] = F[g][m]
  <2>1. CASE g = h /\ m < k
    <3>1. m \in 1 .. Len(G[g]) /\ G[g][m] = F[g][m]
      BY <1>1, <1>2, <2>1 DEF IsWithout
    <3> QED
      BY <3>1
  <2>2. CASE g = h /\ m > k
    <3>1. m - 1 \in 1 .. Len(G[g]) /\ G[g][m - 1] = F[g][m]
      BY <1>1, <1>2, <2>2 DEF IsWithout
    <3> QED
      BY <3>1
  <2>3. CASE g # h
    BY <2>3
  <2>4. m < k \/ m > k \/ m = k
    BY <1>1
  <2> QED
    BY <1>4, <2>1, <2>2, <2>3, <2>4
<1>5. \A g, e \in Homes : \A l \in 1 .. Len(G[g]), m \in 1 .. Len(G[e]) :
        G[g][l].id = G[e][m].id => g = e /\ l = m
  <2> SUFFICES ASSUME NEW g \in Homes, NEW e \in Homes, NEW l \in 1 .. Len(G[g]),
                      NEW m \in 1 .. Len(G[e]), G[g][l].id = G[e][m].id
               PROVE  g = e /\ l = m
    OBVIOUS
  <2>1. PICK u \in 1 .. Len(F[g]) : G[g][l] = F[g][u] /\ u = IF g = h /\ l >= k THEN l + 1 ELSE l
    BY <1>3
  <2>2. PICK v \in 1 .. Len(F[e]) : G[e][m] = F[e][v] /\ v = IF e = h /\ m >= k THEN m + 1 ELSE m
    BY <1>3
  <2>3. g = e /\ u = v
    BY <2>1, <2>2 DEF Distinct
  <2> QED
    BY <1>1, <2>1, <2>2, <2>3
<1>6. \A g \in Homes, call \in C : \A l \in 1 .. Len(G[g]) : G[g][l].id # call.recv.id
  BY <1>3 DEF Distinct
<1>7. \A g \in Homes : \A l \in 1 .. Len(G[g]) : G[g][l].id # F[h][k].id
  BY <1>3, SMTT(30) DEF Distinct
<1>8. \A call \in C : call.recv.id # F[h][k].id
  BY DEF Distinct
<1>9. ASSUME NEW r PROVE IsHeld(G, C, r) <=> IsHeld(F, C, r) /\ r # F[h][k]
  <2>1. ASSUME IsHeld(G, C, r) PROVE IsHeld(F, C, r) /\ r # F[h][k]
    <3>1. CASE \E g \in Homes : \E l \in 1 .. Len(G[g]) : G[g][l] = r
      <4>0. PICK g \in Homes : \E l \in 1 .. Len(G[g]) : G[g][l] = r
        BY <3>1
      <4>1. PICK l \in 1 .. Len(G[g]) : G[g][l] = r
        BY <4>0
      <4>2. PICK m \in 1 .. Len(F[g]) : G[g][l] = F[g][m]
        BY <1>3
      <4>3. r.id # F[h][k].id
        BY <1>7, <4>1
      <4> QED
        BY <4>1, <4>2, <4>3 DEF IsHeld
    <3>2. CASE \E call \in C : call.recv = r
      BY <1>8, <3>2 DEF IsHeld
    <3> QED
      BY <2>1, <3>1, <3>2 DEF IsHeld
  <2>2. ASSUME IsHeld(F, C, r), r # F[h][k] PROVE IsHeld(G, C, r)
    BY <1>4, <2>2 DEF IsHeld
  <2> QED
    BY <2>1, <2>2
<1>10. Distinct(G, C)
  BY <1>5, <1>6 DEF Distinct
<1>11. IsAbsent(G, C, F[h][k].id)
  BY <1>7, <1>8 DEF IsAbsent
<1> QED
  BY <1>9, <1>10, <1>11

(* A receive is put at the end of a queue.                                 *)
LEMMA PutInQueue ==
  ASSUME NEW F \in Kept, NEW G \in Kept, NEW C \in SUBSET AnyCall, NEW h \in Homes,
         NEW x \in Recv, G[h] = Append(F[h], x), \A g \in Homes \ {h} : G[g] = F[g],
         Distinct(F, C), IsAbsent(F, C, x.id)
  PROVE  /\ Distinct(G, C)
         /\ \A r : IsHeld(G, C, r) <=> IsHeld(F, C, r) \/ r = x
<1>1. \A g \in Homes : F[g] \in Seq(Recv) /\ Len(F[g]) \in Nat
  BY DEF Kept
<1>2. PICK n \in Nat : n = Len(F[h]) + 1 /\ Len(G[h]) = n /\ G[h][n] = x
                       /\ \A l \in 1 .. n - 1 : G[h][l] = F[h][l]
  <2>1. /\ Len(Append(F[h], x)) = Len(F[h]) + 1 /\ Append(F[h], x)[Len(F[h]) + 1] = x
        /\ \A l \in 1 .. Len(F[h]) : Append(F[h], x)[l] = F[h][l]
    BY <1>1
  <2>2. Len(F[h]) + 1 \in Nat /\ Len(F[h]) + 1 - 1 = Len(F[h])
    BY <1>1
  <2> QED
    BY <2>1, <2>2
<1>3. ASSUME NEW g \in Homes, NEW l \in 1 .. Len(G[g])
      PROVE  \/ g = h /\ l = n /\ G[g][l] = x
             \/ l \in 1 .. Len(F[g]) /\ G[g][l] = F[g][l]
  BY <1>1, <1>2, SMTT(30)
<1>4. ASSUME NEW g \in Homes, NEW l \in 1 .. Len(F[g])
      PROVE  l \in 1 .. Len(G[g]) /\ G[g][l] = F[g][l]
  BY <1>1, <1>2
<1>5. n \in 1 .. Len(G[h]) /\ G[h][n] = x
  BY <1>1, <1>2
<1>6. \A g, e \in Homes : \A l \in 1 .. Len(G[g]), m \in 1 .. Len(G[e]) :
        G[g][l].id = G[e][m].id => g = e /\ l = m
  <2> SUFFICES ASSUME NEW g \in Homes, NEW e \in Homes, NEW l \in 1 .. Len(G[g]),
                      NEW m \in 1 .. Len(G[e]), G[g][l].id = G[e][m].id
               PROVE  g = e /\ l = m
    OBVIOUS
  <2>1. (g = h /\ l = n /\ G[g][l] = x) \/ (l \in 1 .. Len(F[g]) /\ G[g][l] = F[g][l])
    BY <1>3
  <2>2. (e = h /\ m = n /\ G[e][m] = x) \/ (m \in 1 .. Len(F[e]) /\ G[e][m] = F[e][m])
    BY <1>3
  <2>3. ASSUME l \in 1 .. Len(F[g]), m \in 1 .. Len(F[e]), F[g][l].id = F[e][m].id
        PROVE  g = e /\ l = m
    BY <2>3 DEF Distinct
  <2>4. l \in 1 .. Len(F[g]) => F[g][l].id # x.id
    BY DEF IsAbsent
  <2>5. m \in 1 .. Len(F[e]) => F[e][m].id # x.id
    BY DEF IsAbsent
  <2>6. G[g][l].id = G[e][m].id
    OBVIOUS
  <2> QED
    BY <2>1, <2>2, <2>3, <2>4, <2>5, <2>6, Zenon
<1>7. \A g \in Homes, call \in C : \A l \in 1 .. Len(G[g]) : G[g][l].id # call.recv.id
  BY <1>3 DEF Distinct, IsAbsent
<1>8. ASSUME NEW r PROVE IsHeld(G, C, r) <=> IsHeld(F, C, r) \/ r = x
  <2>1. ASSUME IsHeld(G, C, r) PROVE IsHeld(F, C, r) \/ r = x
    BY <1>3, <2>1 DEF IsHeld
  <2>2. ASSUME IsHeld(F, C, r) \/ r = x PROVE IsHeld(G, C, r)
    BY <1>4, <1>5, <2>2 DEF IsHeld
  <2> QED
    BY <2>1, <2>2
<1>9. Distinct(G, C)
  BY <1>6, <1>7 DEF Distinct
<1> QED
  BY <1>8, <1>9

(* A call of recvFromAny returns, and begins or goes on.                   *)
LEMMA EndCall ==
  ASSUME NEW F \in Kept, NEW C \in SUBSET AnyCall, NEW call \in C, Distinct(F, C)
  PROVE  /\ Distinct(F, C \ {call}) /\ IsAbsent(F, C \ {call}, call.recv.id)
         /\ \A r : IsHeld(F, C \ {call}, r) <=> IsHeld(F, C, r) /\ r # call.recv
<1>1. Distinct(F, C \ {call}) /\ IsAbsent(F, C \ {call}, call.recv.id)
  BY DEF Distinct, IsAbsent
<1>2. ASSUME NEW r PROVE IsHeld(F, C \ {call}, r) <=> IsHeld(F, C, r) /\ r # call.recv
  BY DEF Distinct, IsHeld
<1> QED
  BY <1>1, <1>2

LEMMA BeginCall ==
  ASSUME NEW F \in Kept, NEW C \in SUBSET AnyCall, NEW call \in AnyCall,
         Distinct(F, C), IsAbsent(F, C, call.recv.id)
  PROVE  /\ Distinct(F, C \cup {call})
         /\ \A r : IsHeld(F, C \cup {call}, r) <=> IsHeld(F, C, r) \/ r = call.recv
<1>1. Distinct(F, C \cup {call})
  BY DEF Distinct, IsAbsent
<1>2. ASSUME NEW r PROVE IsHeld(F, C \cup {call}, r) <=> IsHeld(F, C, r) \/ r = call.recv
  BY DEF IsHeld
<1> QED
  BY <1>1, <1>2

(* What holds of the receives of rank j on a slot, when n were posted:     *)
(* besides, a receive that is committed to a pair accepts its rank, and so *)
(* does a call that is about to try one.                                   *)
HeldAt(F, C, n, j) ==
  /\ Distinct(F, C)
  /\ \A r : IsHeld(F, C, r) => r.id <= n /\ r.from \subseteq Ranks \ {j}
  /\ \A i \in Ranks : \A k \in 1 .. Len(F[i]) : i \in F[i][k].from
  /\ \A call \in C : call.rank # NoRank => call.rank \in call.recv.from

LEMMA HeldLater ==
  ASSUME NEW F \in Kept, NEW C \in SUBSET AnyCall, NEW n \in Nat, NEW m \in Nat, NEW j \in Ranks,
         n <= m, HeldAt(F, C, n, j)
  PROVE  HeldAt(F, C, m, j)
<1>1. ASSUME NEW r, IsHeld(F, C, r) PROVE r.id \in Nat
  <2>1. CASE \E call \in C : call.recv = r
    BY <2>1 DEF AnyCall, Recv
  <2>2. ASSUME NEW h \in Homes, NEW k \in 1 .. Len(F[h]), F[h][k] = r
        PROVE  r.id \in Nat
    <3>1. F[h] \in Seq(Recv)
      BY DEF Kept
    <3>2. r \in Recv
      BY <2>2, <3>1
    <3> QED
      BY <3>2 DEF Recv
  <2> QED
    BY <1>1, <2>1, <2>2 DEF IsHeld
<1>2. ASSUME NEW r, IsHeld(F, C, r) PROVE r.id <= m /\ r.from \subseteq Ranks \ {j}
  <2>1. r.id <= n /\ r.id \in Nat /\ r.from \subseteq Ranks \ {j}
    BY <1>1, <1>2 DEF HeldAt
  <2> QED
    BY <2>1
<1> QED
  BY <1>2 DEF HeldAt

LEMMA NextIsAbsent ==
  ASSUME NEW F \in Kept, NEW C \in SUBSET AnyCall, NEW n \in Nat, NEW j \in Ranks, HeldAt(F, C, n, j)
  PROVE  IsAbsent(F, C, n + 1)
<1>1. ASSUME NEW r, IsHeld(F, C, r) PROVE r.id # n + 1
  <2>1. r.id <= n
    BY <1>1 DEF HeldAt
  <2> QED
    BY <2>1
<1> QED
  BY <1>1 DEF IsAbsent, IsHeld

(* G is F with the receive x taken from place h, and with x put there.     *)
IsTaken(F, G, h, x) ==
  /\ \E k \in 1 .. Len(F[h]) : F[h][k] = x /\ IsWithout(G[h], F[h], k)
  /\ \A g \in Homes \ {h} : G[g] = F[g]
Lacks(G, C, x) == IsAbsent(G, C, x.id)
Loses(F, G, C, x) == \A r : IsHeld(G, C, r) <=> IsHeld(F, C, r) /\ r # x
IsPut(F, G, h, x) == G[h] = Append(F[h], x) /\ \A g \in Homes \ {h} : G[g] = F[g]

LEMMA HeldTake ==
  ASSUME NEW F \in Kept, NEW G \in Kept, NEW C \in SUBSET AnyCall, NEW h \in Homes,
         NEW x \in Recv, NEW n \in Nat, NEW j \in Ranks, IsTaken(F, G, h, x), HeldAt(F, C, n, j)
  PROVE  HeldAt(G, C, n, j) /\ Lacks(G, C, x) /\ Loses(F, G, C, x)
<1>0. PICK k \in 1 .. Len(F[h]) :
        F[h][k] = x /\ IsWithout(G[h], F[h], k) /\ \A g \in Homes \ {h} : G[g] = F[g]
  BY DEF IsTaken
<1>1. Distinct(F, C)
  BY DEF HeldAt
<1>2. /\ Distinct(G, C) /\ IsAbsent(G, C, F[h][k].id)
      /\ \A r : IsHeld(G, C, r) <=> IsHeld(F, C, r) /\ r # F[h][k]
  BY <1>0, <1>1, TakeFromQueue
<1>3. ASSUME NEW i \in Ranks, NEW l \in 1 .. Len(G[i]) PROVE i \in G[i][l].from
  <2>1. i \in Homes /\ F[i] \in Seq(Recv) /\ G[i] \in Seq(Recv)
    BY DEF Homes, Kept
  <2>2. \E m \in 1 .. Len(F[i]) : G[i][l] = F[i][m]
    <3>1. CASE i = h
      <4>1. Len(G[i]) = Len(F[i]) - 1 /\ G[i][l] = IF l < k THEN F[i][l] ELSE F[i][l + 1]
        BY <1>0, <3>1 DEF IsWithout
      <4>2. l \in 1 .. Len(F[i]) /\ l + 1 \in 1 .. Len(F[i])
        BY <1>0, <2>1, <4>1
      <4> QED
        BY <4>1, <4>2
    <3>2. CASE i # h
      BY <1>0, <2>1, <3>2
    <3> QED
      BY <3>1, <3>2
  <2> QED
    BY <2>2 DEF HeldAt
<1> QED
  BY <1>0, <1>2, <1>3 DEF HeldAt, Lacks, Loses

LEMMA HeldPut ==
  ASSUME NEW F \in Kept, NEW G \in Kept, NEW C \in SUBSET AnyCall, NEW h \in Homes,
         NEW x \in Recv, NEW n \in Nat, NEW j \in Ranks,
         IsPut(F, G, h, x), HeldAt(F, C, n, j), IsAbsent(F, C, x.id),
         x.id <= n, x.from \subseteq Ranks \ {j}, h \in Ranks => h \in x.from
  PROVE  /\ HeldAt(G, C, n, j)
         /\ \A r : IsHeld(G, C, r) <=> IsHeld(F, C, r) \/ r = x
<1>0. G[h] = Append(F[h], x) /\ \A g \in Homes \ {h} : G[g] = F[g]
  BY DEF IsPut
<1>1. Distinct(F, C)
  BY DEF HeldAt
<1>2. /\ Distinct(G, C)
      /\ \A r : IsHeld(G, C, r) <=> IsHeld(F, C, r) \/ r = x
  BY <1>0, <1>1, PutInQueue
<1>3. ASSUME NEW i \in Ranks, NEW l \in 1 .. Len(G[i]) PROVE i \in G[i][l].from
  <2>1. i \in Homes /\ F[i] \in Seq(Recv)
    BY DEF Homes, Kept
  <2>2. (i = h /\ G[i][l] = x) \/ (l \in 1 .. Len(F[i]) /\ G[i][l] = F[i][l])
    <3>1. CASE i = h
      BY <1>0, <2>1, <3>1
    <3>2. CASE i # h
      BY <1>0, <2>1, <3>2
    <3> QED
      BY <3>1, <3>2
  <2>3. CASE i = h /\ G[i][l] = x
    BY <2>3
  <2>4. CASE l \in 1 .. Len(F[i]) /\ G[i][l] = F[i][l]
    <3>1. i \in F[i][l].from
      BY <2>4 DEF HeldAt
    <3> QED
      BY <2>4, <3>1
  <2> QED
    BY <2>2, <2>3, <2>4
<1>4. ASSUME NEW r, IsHeld(G, C, r) PROVE r.id <= n /\ r.from \subseteq Ranks \ {j}
  <2>1. IsHeld(F, C, r) \/ r = x
    BY <1>2, <1>4
  <2>2. IsHeld(F, C, r) => r.id <= n /\ r.from \subseteq Ranks \ {j}
    BY DEF HeldAt
  <2> QED
    BY <2>1, <2>2, Zenon
<1>5. \A call \in C : call.rank # NoRank => call.rank \in call.recv.from
  BY DEF HeldAt
<1> QED
  BY <1>2, <1>3, <1>4, <1>5 DEF HeldAt

LEMMA HeldEnd ==
  ASSUME NEW F \in Kept, NEW C \in SUBSET AnyCall, NEW call \in C, NEW n \in Nat, NEW j \in Ranks,
         HeldAt(F, C, n, j)
  PROVE  /\ HeldAt(F, C \ {call}, n, j) /\ IsAbsent(F, C \ {call}, call.recv.id)
         /\ \A r : IsHeld(F, C \ {call}, r) <=> IsHeld(F, C, r) /\ r # call.recv
<1>1. Distinct(F, C)
  BY DEF HeldAt
<1>2. /\ Distinct(F, C \ {call}) /\ IsAbsent(F, C \ {call}, call.recv.id)
      /\ \A r : IsHeld(F, C \ {call}, r) <=> IsHeld(F, C, r) /\ r # call.recv
  BY <1>1, EndCall
<1> QED
  BY <1>2 DEF HeldAt

LEMMA HeldBegin ==
  ASSUME NEW F \in Kept, NEW C \in SUBSET AnyCall, NEW call \in AnyCall, NEW n \in Nat,
         NEW j \in Ranks, HeldAt(F, C, n, j), IsAbsent(F, C, call.recv.id),
         call.recv.id <= n, call.recv.from \subseteq Ranks \ {j},
         call.rank # NoRank => call.rank \in call.recv.from
  PROVE  /\ HeldAt(F, C \cup {call}, n, j)
         /\ \A r : IsHeld(F, C \cup {call}, r) <=> IsHeld(F, C, r) \/ r = call.recv
<1>1. Distinct(F, C)
  BY DEF HeldAt
<1>2. /\ Distinct(F, C \cup {call})
      /\ \A r : IsHeld(F, C \cup {call}, r) <=> IsHeld(F, C, r) \/ r = call.recv
  BY <1>1, BeginCall
<1>3. ASSUME NEW r, IsHeld(F, C \cup {call}, r) PROVE r.id <= n /\ r.from \subseteq Ranks \ {j}
  <2>1. IsHeld(F, C, r) \/ r = call.recv
    BY <1>2, <1>3
  <2>2. IsHeld(F, C, r) => r.id <= n /\ r.from \subseteq Ranks \ {j}
    BY DEF HeldAt
  <2> QED
    BY <2>1, <2>2, Zenon
<1>4. /\ \A i \in Ranks : \A k \in 1 .. Len(F[i]) : i \in F[i][k].from
      /\ \A e \in C \cup {call} : e.rank # NoRank => e.rank \in e.recv.from
  BY DEF HeldAt
<1> QED
  BY <1>2, <1>3, <1>4 DEF HeldAt

-----------------------------------------------------------------------------
(* How the updates of the queues and of the calls show in these places.    *)

LEMMA KeepsAt ==
  ASSUME NEW f \in Queues(Recv), NEW w \in Waiting, NEW b \in Ranks, NEW e \in Slots
  PROVE  /\ Keeps(f, w, b, e) \in Kept
         /\ \A i \in Ranks : Keeps(f, w, b, e)[i] = f[b][i][e]
         /\ Keeps(f, w, b, e)[AnyHome] = w[b][e]
<1>1. \A i \in Ranks : f[b][i][e] \in Seq(Recv)
  BY DEF Queues
<1>2. w[b][e] \in Seq(Recv)
  BY DEF Waiting
<1> QED
  BY <1>1, <1>2, AnyHomeIsNoRank DEF Keeps, Kept, Homes

LEMMA KeepsQueue ==
  ASSUME NEW f \in Queues(Recv), NEW w \in Waiting, NEW j \in Ranks, NEW i \in Ranks, NEW s \in Slots,
         NEW q \in Seq(Recv), NEW b \in Ranks, NEW e \in Slots
  PROVE  \A h \in Homes : Keeps(PutQueue(f, j, i, s, q), w, b, e)[h] =
                            IF b = j /\ e = s /\ h = i THEN q ELSE Keeps(f, w, b, e)[h]
<1> TAKE h \in Homes
<1>1. PICK g \in Queues(Recv) : g = PutQueue(f, j, i, s, q)
  BY UpdateQueue
<1>2. h \in Ranks => g[b][h][e] = IF b = j /\ h = i /\ e = s THEN q ELSE f[b][h][e]
  BY <1>1, UpdateQueue, SMTT(30)
<1>3. CASE h \in Ranks
  <2>1. Keeps(g, w, b, e)[h] = g[b][h][e] /\ Keeps(f, w, b, e)[h] = f[b][h][e]
    BY <1>3, KeepsAt
  <2> QED
    BY <1>1, <1>2, <1>3, <2>1
<1>4. CASE h = AnyHome
  <2>1. Keeps(g, w, b, e)[h] = w[b][e] /\ Keeps(f, w, b, e)[h] = w[b][e] /\ h # i
    BY <1>4, KeepsAt, AnyHomeIsNoRank
  <2> QED
    BY <1>1, <2>1
<1> QED
  BY <1>3, <1>4 DEF Homes

LEMMA KeepsWaiting ==
  ASSUME NEW f \in Queues(Recv), NEW w \in Waiting, NEW j \in Ranks, NEW s \in Slots,
         NEW q \in Seq(Recv), NEW b \in Ranks, NEW e \in Slots
  PROVE  \A h \in Homes : Keeps(f, PutWaiting(w, j, s, q), b, e)[h] =
                            IF b = j /\ e = s /\ h = AnyHome THEN q ELSE Keeps(f, w, b, e)[h]
<1> TAKE h \in Homes
<1>1. PICK g \in Waiting : g = PutWaiting(w, j, s, q)
  BY UpdateWaiting
<1>2. g[b][e] = IF b = j /\ e = s THEN q ELSE w[b][e]
  BY <1>1, UpdateWaiting
<1>3. CASE h \in Ranks
  <2>1. Keeps(f, g, b, e)[h] = f[b][h][e] /\ Keeps(f, w, b, e)[h] = f[b][h][e] /\ h # AnyHome
    BY <1>3, KeepsAt, AnyHomeIsNoRank
  <2> QED
    BY <1>1, <2>1
<1>4. CASE h = AnyHome
  <2>1. Keeps(f, g, b, e)[h] = g[b][e] /\ Keeps(f, w, b, e)[h] = w[b][e]
    BY <1>4, KeepsAt
  <2> QED
    BY <1>1, <1>2, <1>4, <2>1
<1> QED
  BY <1>3, <1>4 DEF Homes

LEMMA CallsAt ==
  ASSUME NEW calls \in [Ranks -> SUBSET AnyCall], NEW b \in Ranks, NEW e \in Slots
  PROVE  CallsOn(calls, b, e) \in SUBSET AnyCall
BY DEF CallsOn

LEMMA KeptEqual ==
  ASSUME NEW F \in Kept, NEW G \in Kept, \A h \in Homes : G[h] = F[h]
  PROVE  G = F
BY DEF Kept

(* A receive that may be put among those of rank j, and what a change of   *)
(* the places adds or takes away.                                          *)
Fits(F, C, x, n, j) == IsAbsent(F, C, x.id) /\ x.id <= n /\ x.from \subseteq Ranks \ {j}
Gains(F, C, G, D, X) == \A r : IsHeld(G, D, r) <=> IsHeld(F, C, r) \/ r \in X
Drops(F, C, G, D, X) == \A r : IsHeld(G, D, r) <=> IsHeld(F, C, r) /\ r \notin X
OneAt(b, e, j, s, x) == IF b = j /\ e = s THEN {x} ELSE {}

(* The receives of rank b on slot e, when those of rank j on slot s are    *)
(* touched.  A receive x is committed to the pair for rank i.              *)
LEMMA CommitMove ==
  ASSUME NEW f \in Queues(Recv), NEW w \in Waiting, NEW C \in SUBSET AnyCall, NEW n \in Nat,
         NEW j \in Ranks, NEW i \in Ranks, NEW s \in Slots, NEW x \in Recv,
         NEW b \in Ranks, NEW e \in Slots, HeldAt(Keeps(f, w, b, e), C, n, b),
         b = j /\ e = s => Fits(Keeps(f, w, b, e), C, x, n, j), i \in x.from
  PROVE  /\ HeldAt(Keeps(Enqueue(f, j, i, s, x), w, b, e), C, n, b)
         /\ Gains(Keeps(f, w, b, e), C, Keeps(Enqueue(f, j, i, s, x), w, b, e), C,
                  OneAt(b, e, j, s, x))
<1>1. PICK q \in Seq(Recv) : q = Append(f[j][i][s], x)
  <2>1. f[j][i][s] \in Seq(Recv)
    BY DEF Queues
  <2>2. Append(f[j][i][s], x) \in Seq(Recv)
    BY <2>1
  <2> QED
    BY <2>2
<1>2. PICK g \in Queues(Recv) : g = Enqueue(f, j, i, s, x) /\ g = PutQueue(f, j, i, s, q)
  <2>1. Enqueue(f, j, i, s, x) = PutQueue(f, j, i, s, q)
    BY <1>1 DEF Enqueue, PutQueue
  <2>2. PutQueue(f, j, i, s, q) \in Queues(Recv)
    BY UpdateQueue
  <2> QED
    BY <2>1, <2>2
<1>3. PICK F \in Kept, G \in Kept : F = Keeps(f, w, b, e) /\ G = Keeps(g, w, b, e)
  BY KeepsAt
<1>4. \A h \in Homes : G[h] = IF b = j /\ e = s /\ h = i THEN q ELSE F[h]
  BY <1>2, <1>3, KeepsQueue
<1>5. HeldAt(F, C, n, b)
  BY <1>3
<1>6. CASE b = j /\ e = s
  <2>1. i \in Homes /\ F[i] = f[j][i][s]
    BY <1>3, <1>6, KeepsAt DEF Homes
  <2>2. IsPut(F, G, i, x)
    BY <1>1, <1>4, <1>6, <2>1 DEF IsPut
  <2>3. IsAbsent(F, C, x.id) /\ x.id <= n /\ x.from \subseteq Ranks \ {b}
    BY <1>3, <1>6 DEF Fits
  <2>4. /\ HeldAt(G, C, n, b)
        /\ \A r : IsHeld(G, C, r) <=> IsHeld(F, C, r) \/ r = x
    BY <1>5, <2>1, <2>2, <2>3, HeldPut
  <2> QED
    BY <1>2, <1>3, <1>6, <2>4 DEF Gains, OneAt
<1>7. CASE ~(b = j /\ e = s)
  <2>1. \A h \in Homes : G[h] = F[h]
    BY <1>4, <1>7
  <2>2. G = F
    BY <2>1, KeptEqual
  <2> QED
    BY <1>2, <1>3, <1>5, <1>7, <2>2 DEF Gains, Drops, OneAt
<1> QED
  BY <1>6, <1>7

(* A receive is registered as waiting.                                     *)
LEMMA RegisterMove ==
  ASSUME NEW f \in Queues(Recv), NEW w \in Waiting, NEW C \in SUBSET AnyCall, NEW n \in Nat,
         NEW j \in Ranks, NEW s \in Slots, NEW x \in Recv,
         NEW b \in Ranks, NEW e \in Slots, HeldAt(Keeps(f, w, b, e), C, n, b),
         b = j /\ e = s => Fits(Keeps(f, w, b, e), C, x, n, j)
  PROVE  /\ HeldAt(Keeps(f, PutWaiting(w, j, s, Append(w[j][s], x)), b, e), C, n, b)
         /\ Gains(Keeps(f, w, b, e), C, Keeps(f, PutWaiting(w, j, s, Append(w[j][s], x)), b, e), C,
                  OneAt(b, e, j, s, x))
<1>1. PICK q \in Seq(Recv) : q = Append(w[j][s], x)
  <2>1. w[j][s] \in Seq(Recv)
    BY DEF Waiting
  <2>2. Append(w[j][s], x) \in Seq(Recv)
    BY <2>1
  <2> QED
    BY <2>2
<1>2. PICK g \in Waiting : g = PutWaiting(w, j, s, q)
  BY UpdateWaiting
<1>3. PICK F \in Kept, G \in Kept : F = Keeps(f, w, b, e) /\ G = Keeps(f, g, b, e)
  BY KeepsAt
<1>4. \A h \in Homes : G[h] = IF b = j /\ e = s /\ h = AnyHome THEN q ELSE F[h]
  BY <1>2, <1>3, KeepsWaiting
<1>5. HeldAt(F, C, n, b)
  BY <1>3
<1>6. CASE b = j /\ e = s
  <2>1. AnyHome \in Homes /\ F[AnyHome] = w[j][s]
    BY <1>3, <1>6, KeepsAt DEF Homes
  <2>2. IsPut(F, G, AnyHome, x)
    BY <1>1, <1>4, <1>6, <2>1 DEF IsPut
  <2>3. IsAbsent(F, C, x.id) /\ x.id <= n /\ x.from \subseteq Ranks \ {b}
    BY <1>3, <1>6 DEF Fits
  <2>4. AnyHome \in Ranks => AnyHome \in x.from
    BY AnyHomeIsNoRank
  <2>5. /\ HeldAt(G, C, n, b)
        /\ \A r : IsHeld(G, C, r) <=> IsHeld(F, C, r) \/ r = x
    BY <1>5, <2>1, <2>2, <2>3, <2>4, HeldPut
  <2> QED
    BY <1>1, <1>2, <1>3, <1>6, <2>5 DEF Gains, OneAt
<1>7. CASE ~(b = j /\ e = s)
  <2>1. \A h \in Homes : G[h] = F[h]
    BY <1>4, <1>7
  <2>2. G = F
    BY <2>1, KeptEqual
  <2> QED
    BY <1>1, <1>2, <1>3, <1>5, <1>7, <2>2 DEF Gains, Drops, OneAt
<1> QED
  BY <1>6, <1>7

(* x is the k-th waiting receive, and the oldest one committed to a pair.  *)
IsWaiting(x, w, j, s, k) == k \in 1 .. Len(w[j][s]) /\ x = w[j][s][k]
MayFulfil(F, C, x, i) == IsHeld(F, C, x) /\ i \in x.from
IsOldest(x, f, j, i, s) == f[j][i][s] # <<>> /\ x = Head(f[j][i][s])

(* The k-th waiting receive is taken.                                      *)
LEMMA UnregisterMove ==
  ASSUME NEW f \in Queues(Recv), NEW w \in Waiting, NEW C \in SUBSET AnyCall, NEW n \in Nat,
         NEW j \in Ranks, NEW s \in Slots, NEW k, NEW x \in Recv, IsWaiting(x, w, j, s, k),
         NEW b \in Ranks, NEW e \in Slots, HeldAt(Keeps(f, w, b, e), C, n, b)
  PROVE  /\ PutWaiting(w, j, s, RemoveAt(w[j][s], k)) \in Waiting
         /\ HeldAt(Keeps(f, PutWaiting(w, j, s, RemoveAt(w[j][s], k)), b, e), C, n, b)
         /\ b = j /\ e = s =>
              /\ Fits(Keeps(f, PutWaiting(w, j, s, RemoveAt(w[j][s], k)), b, e), C, x, n, j)
              /\ IsHeld(Keeps(f, w, b, e), C, x)
         /\ Drops(Keeps(f, w, b, e), C, Keeps(f, PutWaiting(w, j, s, RemoveAt(w[j][s], k)), b, e), C,
                  OneAt(b, e, j, s, x))
<1>0. k \in 1 .. Len(w[j][s]) /\ x = w[j][s][k]
  BY DEF IsWaiting
<1>1. PICK q \in Seq(Recv) : q = RemoveAt(w[j][s], k) /\ IsWithout(q, w[j][s], k)
  <2>1. w[j][s] \in Seq(Recv)
    BY DEF Waiting
  <2> QED
    BY <1>0, <2>1, RemoveAtIsWithout
<1>2. PICK g \in Waiting : g = PutWaiting(w, j, s, q)
  BY UpdateWaiting
<1>3. PICK F \in Kept, G \in Kept : F = Keeps(f, w, b, e) /\ G = Keeps(f, g, b, e)
  BY KeepsAt
<1>4. \A h \in Homes : G[h] = IF b = j /\ e = s /\ h = AnyHome THEN q ELSE F[h]
  BY <1>2, <1>3, KeepsWaiting
<1>5. HeldAt(F, C, n, b)
  BY <1>3
<1>6. CASE b = j /\ e = s
  <2>1. AnyHome \in Homes /\ F[AnyHome] = w[j][s]
    BY <1>3, <1>6, KeepsAt DEF Homes
  <2>2. IsTaken(F, G, AnyHome, x)
    BY <1>0, <1>1, <1>4, <1>6, <2>1 DEF IsTaken
  <2>3. HeldAt(G, C, n, b) /\ Lacks(G, C, x) /\ Loses(F, G, C, x)
    BY <1>5, <2>1, <2>2, HeldTake
  <2>4. IsHeld(F, C, x)
    BY <1>0, <2>1 DEF IsHeld
  <2>5. x.id <= n /\ x.from \subseteq Ranks \ {b}
    BY <1>5, <2>4 DEF HeldAt
  <2>6. Fits(G, C, x, n, b)
    BY <2>3, <2>5 DEF Fits, Lacks
  <2>7. Drops(F, C, G, C, OneAt(b, e, j, s, x))
    BY <1>6, <2>3 DEF Drops, Loses, OneAt
  <2>8. g = PutWaiting(w, j, s, RemoveAt(w[j][s], k))
    BY <1>1, <1>2
  <2> QED
    BY <1>3, <1>6, <2>3, <2>4, <2>6, <2>7, <2>8
<1>7. CASE ~(b = j /\ e = s)
  <2>1. \A h \in Homes : G[h] = F[h]
    BY <1>4, <1>7
  <2>2. G = F
    BY <2>1, KeptEqual
  <2> QED
    BY <1>1, <1>2, <1>3, <1>5, <1>7, <2>2 DEF Gains, Drops, OneAt
<1> QED
  BY <1>6, <1>7

(* The oldest receive committed to the pair for rank i is fulfilled.       *)
LEMMA FulfilMove ==
  ASSUME NEW f \in Queues(Recv), NEW w \in Waiting, NEW C \in SUBSET AnyCall, NEW n \in Nat,
         NEW j \in Ranks, NEW i \in Ranks, NEW s \in Slots, NEW x \in Recv, IsOldest(x, f, j, i, s),
         NEW b \in Ranks, NEW e \in Slots, HeldAt(Keeps(f, w, b, e), C, n, b)
  PROVE  /\ HeldAt(Keeps(Dequeue(f, j, i, s), w, b, e), C, n, b)
         /\ Drops(Keeps(f, w, b, e), C, Keeps(Dequeue(f, j, i, s), w, b, e), C,
                  OneAt(b, e, j, s, x))
         /\ b = j /\ e = s => MayFulfil(Keeps(f, w, b, e), C, x, i)
<1>0. f[j][i][s] \in Seq(Recv) /\ f[j][i][s] # <<>> /\ x = Head(f[j][i][s])
  BY DEF Queues, IsOldest
<1>1. PICK q \in Seq(Recv), k \in 1 .. Len(f[j][i][s]) :
        q = Tail(f[j][i][s]) /\ IsWithout(q, f[j][i][s], k) /\ f[j][i][s][k] = Head(f[j][i][s])
  <2>1. Tail(f[j][i][s]) \in Seq(Recv) /\ 1 \in 1 .. Len(f[j][i][s])
    BY <1>0
  <2>2. IsWithout(Tail(f[j][i][s]), f[j][i][s], 1) /\ f[j][i][s][1] = Head(f[j][i][s])
    BY <1>0 DEF IsWithout
  <2> QED
    BY <2>1, <2>2
<1>2. PICK g \in Queues(Recv) : g = Dequeue(f, j, i, s) /\ g = PutQueue(f, j, i, s, q)
  <2>1. Dequeue(f, j, i, s) = PutQueue(f, j, i, s, q)
    BY <1>1 DEF Dequeue, PutQueue
  <2>2. PutQueue(f, j, i, s, q) \in Queues(Recv)
    BY UpdateQueue
  <2> QED
    BY <2>1, <2>2
<1>3. PICK F \in Kept, G \in Kept : F = Keeps(f, w, b, e) /\ G = Keeps(g, w, b, e)
  BY KeepsAt
<1>4. \A h \in Homes : G[h] = IF b = j /\ e = s /\ h = i THEN q ELSE F[h]
  BY <1>2, <1>3, KeepsQueue
<1>5. HeldAt(F, C, n, b)
  BY <1>3
<1>6. CASE b = j /\ e = s
  <2>1. i \in Homes /\ F[i] = f[j][i][s]
    BY <1>3, <1>6, KeepsAt DEF Homes
  <2>2. IsTaken(F, G, i, x)
    BY <1>0, <1>1, <1>4, <1>6, <2>1 DEF IsTaken
  <2>3. HeldAt(G, C, n, b) /\ Lacks(G, C, x) /\ Loses(F, G, C, x)
    BY <1>5, <2>1, <2>2, HeldTake
  <2>4. F[i][k] = x
    BY <1>0, <1>1, <2>1
  <2>5. IsHeld(F, C, F[i][k]) /\ i \in F[i][k].from
    BY <1>5, <2>1 DEF IsHeld, HeldAt
  <2>6. Drops(F, C, G, C, OneAt(b, e, j, s, x))
    BY <1>6, <2>3 DEF Drops, Loses, OneAt
  <2> QED
    BY <1>2, <1>3, <1>6, <2>3, <2>4, <2>5, <2>6 DEF MayFulfil
<1>7. CASE ~(b = j /\ e = s)
  <2>1. \A h \in Homes : G[h] = F[h]
    BY <1>4, <1>7
  <2>2. G = F
    BY <2>1, KeptEqual
  <2> QED
    BY <1>2, <1>3, <1>5, <1>7, <2>2 DEF Gains, Drops, OneAt
<1> QED
  BY <1>6, <1>7

(* A call of recvFromAny returns.                                          *)
Returned(calls, j, call) == [calls EXCEPT ![j] = @ \ {call}]
Entered(calls, j, call) == [calls EXCEPT ![j] = @ \cup {call}]

LEMMA EndMove ==
  ASSUME NEW F \in Kept, NEW calls \in [Ranks -> SUBSET AnyCall], NEW n \in Nat,
         NEW j \in Ranks, NEW call \in calls[j],
         NEW b \in Ranks, NEW e \in Slots, HeldAt(F, CallsOn(calls, b, e), n, b)
  PROVE  /\ Returned(calls, j, call) \in [Ranks -> SUBSET AnyCall]
         /\ HeldAt(F, CallsOn(Returned(calls, j, call), b, e), n, b)
         /\ b = j /\ e = call.slot =>
              /\ Fits(F, CallsOn(Returned(calls, j, call), b, e), call.recv, n, j)
              /\ IsHeld(F, CallsOn(calls, b, e), call.recv)
              /\ call.rank # NoRank => call.rank \in call.recv.from
         /\ Drops(F, CallsOn(calls, b, e), F, CallsOn(Returned(calls, j, call), b, e),
                  OneAt(b, e, j, call.slot, call.recv))
<1>1. Returned(calls, j, call) \in [Ranks -> SUBSET AnyCall]
  BY DEF Returned
<1>2. PICK C \in SUBSET AnyCall : C = CallsOn(calls, b, e)
  BY CallsAt
<1>3. HeldAt(F, C, n, b)
  BY <1>2
<1>4. CASE b = j /\ e = call.slot
  <2>1. call \in C /\ CallsOn(Returned(calls, j, call), b, e) = C \ {call}
    BY <1>2, <1>4 DEF CallsOn, Returned
  <2>2. /\ HeldAt(F, C \ {call}, n, b) /\ IsAbsent(F, C \ {call}, call.recv.id)
        /\ \A r : IsHeld(F, C \ {call}, r) <=> IsHeld(F, C, r) /\ r # call.recv
    BY <1>3, <2>1, HeldEnd
  <2>3. IsHeld(F, C, call.recv) /\ (call.rank # NoRank => call.rank \in call.recv.from)
    BY <1>3, <2>1 DEF IsHeld, HeldAt
  <2>4. call.recv.id <= n /\ call.recv.from \subseteq Ranks \ {b}
    BY <1>3, <2>3 DEF HeldAt
  <2>5. Fits(F, C \ {call}, call.recv, n, b)
    BY <2>2, <2>4 DEF Fits
  <2>6. Drops(F, C, F, C \ {call}, OneAt(b, e, j, call.slot, call.recv))
    BY <1>4, <2>2 DEF Drops, OneAt
  <2> QED
    BY <1>1, <1>2, <1>4, <2>1, <2>2, <2>3, <2>5, <2>6
<1>5. CASE ~(b = j /\ e = call.slot)
  <2>1. CallsOn(Returned(calls, j, call), b, e) = C
    BY <1>2, <1>5 DEF CallsOn, Returned
  <2> QED
    BY <1>1, <1>2, <1>3, <1>5, <2>1 DEF Drops, OneAt
<1> QED
  BY <1>4, <1>5

(* A call of recvFromAny begins, or goes on with another rank.             *)
LEMMA BeginMove ==
  ASSUME NEW F \in Kept, NEW calls \in [Ranks -> SUBSET AnyCall], NEW n \in Nat,
         NEW j \in Ranks, NEW call \in AnyCall,
         NEW b \in Ranks, NEW e \in Slots, HeldAt(F, CallsOn(calls, b, e), n, b),
         b = j /\ e = call.slot => Fits(F, CallsOn(calls, b, e), call.recv, n, j),
         call.rank # NoRank => call.rank \in call.recv.from
  PROVE  /\ HeldAt(F, CallsOn(Entered(calls, j, call), b, e), n, b)
         /\ Gains(F, CallsOn(calls, b, e), F, CallsOn(Entered(calls, j, call), b, e),
                  OneAt(b, e, j, call.slot, call.recv))
<1>2. PICK C \in SUBSET AnyCall : C = CallsOn(calls, b, e)
  BY CallsAt
<1>3. HeldAt(F, C, n, b)
  BY <1>2
<1>4. CASE b = j /\ e = call.slot
  <2>1. CallsOn(Entered(calls, j, call), b, e) = C \cup {call}
    BY <1>2, <1>4 DEF CallsOn, Entered
  <2>2. IsAbsent(F, C, call.recv.id) /\ call.recv.id <= n /\ call.recv.from \subseteq Ranks \ {b}
    BY <1>2, <1>4 DEF Fits
  <2>3. /\ HeldAt(F, C \cup {call}, n, b)
        /\ \A r : IsHeld(F, C \cup {call}, r) <=> IsHeld(F, C, r) \/ r = call.recv
    BY <1>3, <2>2, HeldBegin
  <2> QED
    BY <1>2, <1>4, <2>1, <2>3 DEF Gains, OneAt
<1>5. CASE ~(b = j /\ e = call.slot)
  <2>1. CallsOn(Entered(calls, j, call), b, e) = C
    BY <1>2, <1>5 DEF CallsOn, Entered
  <2> QED
    BY <1>2, <1>3, <1>5, <2>1 DEF Gains, OneAt
<1> QED
  BY <1>4, <1>5


-----------------------------------------------------------------------------
(* The receives that are unfulfilled, and what a step does to them.        *)

KeptNow(b, e) == Keeps(localPendingRecv, pendingRecv, b, e)
CallsNow(b, e) == CallsOn(anyCalls, b, e)

HeldInv == \A b \in Ranks, e \in Slots : HeldAt(KeptNow(b, e), CallsNow(b, e), nrecv[b], b)

RecvTypes == ProtocolTypes /\ OtherTypes

Posts(j, s, x) ==
  \A b \in Ranks, e \in Slots :
    Gains(KeptNow(b, e), CallsNow(b, e), KeptNow(b, e)', CallsNow(b, e)', OneAt(b, e, j, s, x))

Fulfils(j, s, x) ==
  \A b \in Ranks, e \in Slots :
    Drops(KeptNow(b, e), CallsNow(b, e), KeptNow(b, e)', CallsNow(b, e)', OneAt(b, e, j, s, x))

SameHeld ==
  \A b \in Ranks, e \in Slots :
    Gains(KeptNow(b, e), CallsNow(b, e), KeptNow(b, e)', CallsNow(b, e)', {})

LEMMA HeldTypes ==
  ASSUME RecvTypes, NEW b \in Ranks, NEW e \in Slots
  PROVE  /\ localPendingRecv \in Queues(Recv) /\ pendingRecv \in Waiting
         /\ anyCalls \in [Ranks -> SUBSET AnyCall]
         /\ KeptNow(b, e) \in Kept /\ CallsNow(b, e) \in SUBSET AnyCall /\ nrecv[b] \in Nat
<1>1. /\ localPendingRecv \in Queues(Recv) /\ pendingRecv \in Waiting
      /\ anyCalls \in [Ranks -> SUBSET AnyCall] /\ nrecv[b] \in Nat
  BY DEF RecvTypes, ProtocolTypes, OtherTypes
<1> QED
  BY <1>1, KeepsAt, CallsAt DEF KeptNow, CallsNow

(* What is taken from one place and put in another remains.                *)
LEMMA DropAndGain ==
  ASSUME NEW F, NEW C, NEW G, NEW D, NEW H, NEW E, NEW X,
         Drops(F, C, G, D, X), Gains(G, D, H, E, X), \A r \in X : IsHeld(F, C, r)
  PROVE  Gains(F, C, H, E, {})
BY DEF Drops, Gains

(* A step that leaves the places alone.                                    *)
LEMMA HeldUnchanged ==
  ASSUME HeldInv, UNCHANGED <<localPendingRecv, pendingRecv, anyCalls, nrecv>>
  PROVE  HeldInv' /\ SameHeld
<1>1. \A b \in Ranks, e \in Slots : KeptNow(b, e)' = KeptNow(b, e) /\ CallsNow(b, e)' = CallsNow(b, e)
  BY DEF KeptNow, CallsNow
<1> QED
  BY <1>1 DEF HeldInv, SameHeld, Gains

(* A receive that is posted may be put anywhere.                           *)
LEMMA NewFits ==
  ASSUME RecvTypes, HeldInv, NEW j \in Ranks, NEW x \in Recv, x.id = nrecv[j] + 1,
         x.from \subseteq Ranks \ {j}, nrecv' = [nrecv EXCEPT ![j] = @ + 1],
         NEW b \in Ranks, NEW e \in Slots
  PROVE  /\ nrecv'[b] \in Nat
         /\ HeldAt(KeptNow(b, e), CallsNow(b, e), nrecv'[b], b)
         /\ b = j => Fits(KeptNow(b, e), CallsNow(b, e), x, nrecv'[b], j)
<1>0. nrecv \in [Ranks -> Nat]
  BY DEF RecvTypes, OtherTypes
<1>1. PICK n \in Nat, m \in Nat :
        n = nrecv'[b] /\ m = nrecv[b] /\ m <= n /\ (b = j => n = m + 1 /\ x.id = m + 1)
  BY <1>0
<1>2. HeldAt(KeptNow(b, e), CallsNow(b, e), m, b)
  BY <1>1 DEF HeldInv
<1>3. KeptNow(b, e) \in Kept /\ CallsNow(b, e) \in SUBSET AnyCall
  BY HeldTypes
<1>4. IsAbsent(KeptNow(b, e), CallsNow(b, e), m + 1)
  BY <1>2, <1>3, NextIsAbsent
<1>5. HeldAt(KeptNow(b, e), CallsNow(b, e), n, b)
  BY <1>1, <1>2, <1>3, HeldLater
<1>6. b = j => x.id <= n /\ x.id = m + 1
  BY <1>1
<1> QED
  BY <1>1, <1>4, <1>5, <1>6 DEF Fits

(* Pair::recv posts a receive for one rank.                                *)
LEMMA RecvFromHeld ==
  ASSUME RecvTypes, HeldInv, NEW i \in Ranks, NEW j \in Ranks, NEW s \in Slots, RecvFrom(j, i, s)
  PROVE  HeldInv' /\ Posts(j, s, [id |-> nrecv[j] + 1, from |-> {i}])
<1>0. nrecv \in [Ranks -> Nat]
  BY DEF RecvTypes, OtherTypes
<1>1. PICK x \in Recv : x = [id |-> nrecv[j] + 1, from |-> {i}]
  <2>1. [id |-> nrecv[j] + 1, from |-> {i}] \in Recv
    BY <1>0 DEF Recv
  <2> QED
    BY <2>1
<1>2. x.id = nrecv[j] + 1 /\ x.from \subseteq Ranks \ {j} /\ i \in x.from
  BY <1>1 DEF RecvFrom
<1>3. /\ localPendingRecv' = Enqueue(localPendingRecv, j, i, s, x)
      /\ nrecv' = [nrecv EXCEPT ![j] = @ + 1] /\ UNCHANGED <<pendingRecv, anyCalls>>
  BY <1>1 DEF RecvFrom, CommitRecv
<1>4. ASSUME NEW b \in Ranks, NEW e \in Slots
      PROVE  /\ HeldAt(KeptNow(b, e)', CallsNow(b, e)', nrecv'[b], b)
             /\ Gains(KeptNow(b, e), CallsNow(b, e), KeptNow(b, e)', CallsNow(b, e)', OneAt(b, e, j, s, x))
  <2>1. PICK n \in Nat : /\ n = nrecv'[b] /\ HeldAt(KeptNow(b, e), CallsNow(b, e), n, b)
                         /\ b = j => Fits(KeptNow(b, e), CallsNow(b, e), x, n, j)
    BY <1>2, <1>3, NewFits
  <2>2. PICK f \in Queues(Recv), w \in Waiting, C \in SUBSET AnyCall :
          f = localPendingRecv /\ w = pendingRecv /\ C = CallsNow(b, e)
    BY HeldTypes
  <2>3. Keeps(f, w, b, e) = KeptNow(b, e)
    BY <2>2 DEF KeptNow
  <2>4. HeldAt(Keeps(f, w, b, e), C, n, b) /\ (b = j => Fits(Keeps(f, w, b, e), C, x, n, j))
    BY <2>1, <2>2, <2>3
  <2>5. i \in x.from
    BY <1>2
  <2>6. /\ HeldAt(Keeps(Enqueue(f, j, i, s, x), w, b, e), C, n, b)
        /\ Gains(Keeps(f, w, b, e), C, Keeps(Enqueue(f, j, i, s, x), w, b, e), C,
                 OneAt(b, e, j, s, x))
    BY <2>4, <2>5, CommitMove
  <2>7. KeptNow(b, e)' = Keeps(Enqueue(f, j, i, s, x), w, b, e) /\ CallsNow(b, e)' = C
    BY <1>3, <2>2 DEF KeptNow, CallsNow
  <2> QED
    BY <2>1, <2>2, <2>3, <2>6, <2>7
<1> QED
  BY <1>1, <1>4 DEF HeldInv, Posts

(* recvFromAny posts a receive for several ranks.                          *)
LEMMA RecvFromAnyHeld ==
  ASSUME RecvTypes, HeldInv, NEW j \in Ranks, NEW s \in Slots, NEW from \in SUBSET Ranks,
         RecvFromAny(j, s, from)
  PROVE  HeldInv' /\ Posts(j, s, [id |-> nrecv[j] + 1, from |-> from])
<1>0. nrecv \in [Ranks -> Nat]
  BY DEF RecvTypes, OtherTypes
<1>1. PICK x \in Recv : x = [id |-> nrecv[j] + 1, from |-> from]
  <2>1. [id |-> nrecv[j] + 1, from |-> from] \in Recv
    BY <1>0 DEF Recv
  <2> QED
    BY <2>1
<1>2. x.id = nrecv[j] + 1 /\ x.from \subseteq Ranks \ {j}
  BY <1>1 DEF RecvFromAny
<1>3. PICK call \in AnyCall : call = [recv |-> x, slot |-> s, rank |-> NoRank]
  <2>1. [recv |-> x, slot |-> s, rank |-> NoRank] \in AnyCall
    BY DEF AnyCall
  <2> QED
    BY <2>1
<1>4. call.recv = x /\ call.slot = s /\ call.rank = NoRank
  BY <1>3
<1>5. /\ anyCalls' = Entered(anyCalls, j, call)
      /\ nrecv' = [nrecv EXCEPT ![j] = @ + 1] /\ UNCHANGED <<localPendingRecv, pendingRecv>>
  BY <1>1, <1>3 DEF RecvFromAny, Entered
<1>6. ASSUME NEW b \in Ranks, NEW e \in Slots
      PROVE  /\ HeldAt(KeptNow(b, e)', CallsNow(b, e)', nrecv'[b], b)
             /\ Gains(KeptNow(b, e), CallsNow(b, e), KeptNow(b, e)', CallsNow(b, e)', OneAt(b, e, j, s, x))
  <2>1. PICK n \in Nat : /\ n = nrecv'[b] /\ HeldAt(KeptNow(b, e), CallsNow(b, e), n, b)
                         /\ b = j => Fits(KeptNow(b, e), CallsNow(b, e), x, n, j)
    BY <1>2, <1>5, NewFits
  <2>2. PICK F \in Kept, calls \in [Ranks -> SUBSET AnyCall] : F = KeptNow(b, e) /\ calls = anyCalls
    BY HeldTypes
  <2>3. CallsOn(calls, b, e) = CallsNow(b, e)
    BY <2>2 DEF CallsNow
  <2>4. /\ HeldAt(F, CallsOn(calls, b, e), n, b)
        /\ b = j /\ e = call.slot => Fits(F, CallsOn(calls, b, e), call.recv, n, j)
    BY <1>4, <2>1, <2>2, <2>3
  <2>5. call.rank # NoRank => call.rank \in call.recv.from
    BY <1>4
  <2>6. /\ HeldAt(F, CallsOn(Entered(calls, j, call), b, e), n, b)
        /\ Gains(F, CallsOn(calls, b, e), F, CallsOn(Entered(calls, j, call), b, e),
                 OneAt(b, e, j, call.slot, call.recv))
    BY <2>4, <2>5, BeginMove
  <2>7. KeptNow(b, e)' = F /\ CallsNow(b, e)' = CallsOn(Entered(calls, j, call), b, e)
    BY <1>5, <2>2 DEF KeptNow, CallsNow
  <2> QED
    BY <1>4, <2>1, <2>2, <2>3, <2>6, <2>7
<1> QED
  BY <1>1, <1>6 DEF HeldInv, Posts

(* A call goes on with another rank.                                       *)
LEMMA ContinueMove ==
  ASSUME NEW F \in Kept, NEW calls \in [Ranks -> SUBSET AnyCall], NEW n \in Nat,
         NEW j \in Ranks, NEW call \in calls[j], NEW next \in AnyCall,
         next.recv = call.recv, next.slot = call.slot,
         next.rank # NoRank => next.rank \in call.recv.from,
         NEW b \in Ranks, NEW e \in Slots, HeldAt(F, CallsOn(calls, b, e), n, b)
  PROVE  /\ HeldAt(F, CallsOn(Entered(Returned(calls, j, call), j, next), b, e), n, b)
         /\ Gains(F, CallsOn(calls, b, e),
                  F, CallsOn(Entered(Returned(calls, j, call), j, next), b, e), {})
<1>1. PICK left \in [Ranks -> SUBSET AnyCall] : left = Returned(calls, j, call)
  BY EndMove
<1>2. /\ HeldAt(F, CallsOn(left, b, e), n, b)
      /\ b = j /\ e = call.slot => /\ Fits(F, CallsOn(left, b, e), call.recv, n, j)
                                   /\ IsHeld(F, CallsOn(calls, b, e), call.recv)
      /\ Drops(F, CallsOn(calls, b, e), F, CallsOn(left, b, e), OneAt(b, e, j, call.slot, call.recv))
  BY <1>1, EndMove
<1>3. b = j /\ e = next.slot => Fits(F, CallsOn(left, b, e), next.recv, n, j)
  BY <1>2
<1>4. next.rank # NoRank => next.rank \in next.recv.from
  OBVIOUS
<1>5. /\ HeldAt(F, CallsOn(Entered(left, j, next), b, e), n, b)
      /\ Gains(F, CallsOn(left, b, e), F, CallsOn(Entered(left, j, next), b, e),
               OneAt(b, e, j, next.slot, next.recv))
  BY <1>2, <1>3, <1>4, BeginMove
<1>6. \A r \in OneAt(b, e, j, call.slot, call.recv) : IsHeld(F, CallsOn(calls, b, e), r)
  BY <1>2 DEF OneAt
<1>7. Gains(F, CallsOn(left, b, e), F, CallsOn(Entered(left, j, next), b, e),
            OneAt(b, e, j, call.slot, call.recv))
  BY <1>5
<1>8. Gains(F, CallsOn(calls, b, e), F, CallsOn(Entered(left, j, next), b, e), {})
  BY <1>2, <1>6, <1>7, DropAndGain
<1> QED
  BY <1>1, <1>5, <1>8

LEMMA ContinueHeld ==
  ASSUME RecvTypes, HeldInv, NEW j \in Ranks, NEW call \in anyCalls[j], NEW r \in Ranks \cup {NoRank},
         r # NoRank => r \in call.recv.from, Continue(j, call, r),
         UNCHANGED <<localPendingRecv, pendingRecv, nrecv>>
  PROVE  HeldInv' /\ SameHeld
<1>0. anyCalls \in [Ranks -> SUBSET AnyCall] /\ nrecv \in [Ranks -> Nat]
  BY DEF RecvTypes, OtherTypes
<1>1. PICK next \in AnyCall : next = [call EXCEPT !.rank = r]
  <2>1. call \in AnyCall
    BY <1>0
  <2>2. [call EXCEPT !.rank = r] \in AnyCall
    BY <2>1 DEF AnyCall
  <2> QED
    BY <2>2
<1>2. next.recv = call.recv /\ next.slot = call.slot /\ next.rank = r
  BY <1>0, <1>1 DEF AnyCall
<1>3. anyCalls' = Entered(Returned(anyCalls, j, call), j, next)
  BY <1>0, <1>1 DEF Continue, Entered, Returned
<1>4. ASSUME NEW b \in Ranks, NEW e \in Slots
      PROVE  /\ HeldAt(KeptNow(b, e)', CallsNow(b, e)', nrecv'[b], b)
             /\ Gains(KeptNow(b, e), CallsNow(b, e), KeptNow(b, e)', CallsNow(b, e)', {})
  <2>1. PICK F \in Kept, calls \in [Ranks -> SUBSET AnyCall], n \in Nat :
          F = KeptNow(b, e) /\ calls = anyCalls /\ n = nrecv[b]
    BY HeldTypes
  <2>2. HeldAt(F, CallsOn(calls, b, e), n, b) /\ CallsOn(calls, b, e) = CallsNow(b, e)
    BY <2>1 DEF CallsNow, HeldInv
  <2>3. /\ call \in calls[j] /\ next.recv = call.recv /\ next.slot = call.slot
        /\ next.rank # NoRank => next.rank \in call.recv.from
    BY <1>2, <2>1
  <2>4. /\ HeldAt(F, CallsOn(Entered(Returned(calls, j, call), j, next), b, e), n, b)
        /\ Gains(F, CallsOn(calls, b, e),
                 F, CallsOn(Entered(Returned(calls, j, call), j, next), b, e), {})
    BY <2>2, <2>3, ContinueMove
  <2>5. /\ KeptNow(b, e)' = F /\ nrecv'[b] = n
        /\ CallsNow(b, e)' = CallsOn(Entered(Returned(calls, j, call), j, next), b, e)
    BY <1>3, <2>1 DEF KeptNow, CallsNow
  <2> QED
    BY <2>1, <2>2, <2>4, <2>5
<1> QED
  BY <1>4 DEF HeldInv, SameHeld

(* recvFromAnyFindRank finds a rank, or registers the receive.             *)
LEMMA FindRankHeld ==
  ASSUME RecvTypes, HeldInv, NEW j \in Ranks, NEW call \in anyCalls[j], RecvFromAnyFindRank(j, call)
  PROVE  HeldInv' /\ SameHeld
<1>0. /\ anyCalls \in [Ranks -> SUBSET AnyCall] /\ sendList \in Tallies /\ call \in AnyCall
      /\ nrecv \in [Ranks -> Nat]
  BY DEF RecvTypes, OtherTypes, ProtocolTypes
<1>1. PICK s \in Slots, x \in Recv : s = call.slot /\ x = call.recv
  BY <1>0, CallTypes
<1>2. UNCHANGED <<localPendingRecv, nrecv>>
  BY DEF RecvFromAnyFindRank, history
<1>3. \/ /\ \E k \in DOMAIN sendList[j][s] : /\ sendList[j][s][k] \in call.recv.from
                                             /\ Continue(j, call, sendList[j][s][k])
         /\ pendingRecv' = pendingRecv
      \/ /\ pendingRecv' = PutWaiting(pendingRecv, j, s, Append(pendingRecv[j][s], x))
         /\ Return(j, call)
  BY <1>1 DEF RecvFromAnyFindRank, PutWaiting
<1>4. ASSUME NEW k \in DOMAIN sendList[j][s], sendList[j][s][k] \in call.recv.from,
             Continue(j, call, sendList[j][s][k]), pendingRecv' = pendingRecv
      PROVE  HeldInv' /\ SameHeld
  <2>1. sendList[j][s][k] \in Ranks
    BY <1>0 DEF Tallies
  <2> QED
    BY <1>2, <1>4, <2>1, ContinueHeld
<1>5. ASSUME pendingRecv' = PutWaiting(pendingRecv, j, s, Append(pendingRecv[j][s], x)), Return(j, call)
      PROVE  HeldInv' /\ SameHeld
  <2>1. ASSUME NEW b \in Ranks, NEW e \in Slots
        PROVE  /\ HeldAt(KeptNow(b, e)', CallsNow(b, e)', nrecv'[b], b)
               /\ Gains(KeptNow(b, e), CallsNow(b, e), KeptNow(b, e)', CallsNow(b, e)', {})
    <3>1. PICK f \in Queues(Recv), w \in Waiting, calls \in [Ranks -> SUBSET AnyCall], n \in Nat :
            f = localPendingRecv /\ w = pendingRecv /\ calls = anyCalls /\ n = nrecv[b]
      BY HeldTypes
    <3>2. PICK F \in Kept : F = Keeps(f, w, b, e)
      BY KeepsAt
    <3>3. F = KeptNow(b, e) /\ CallsOn(calls, b, e) = CallsNow(b, e)
      BY <3>1, <3>2 DEF KeptNow, CallsNow
    <3>4. HeldAt(F, CallsOn(calls, b, e), n, b) /\ call \in calls[j]
      BY <3>1, <3>3 DEF HeldInv
    <3>5. PICK left \in [Ranks -> SUBSET AnyCall] : left = Returned(calls, j, call)
      BY <3>4, EndMove
    <3>6. /\ HeldAt(F, CallsOn(left, b, e), n, b)
          /\ b = j /\ e = call.slot => /\ Fits(F, CallsOn(left, b, e), call.recv, n, j)
                                       /\ IsHeld(F, CallsOn(calls, b, e), call.recv)
          /\ Drops(F, CallsOn(calls, b, e), F, CallsOn(left, b, e), OneAt(b, e, j, call.slot, call.recv))
      BY <3>4, <3>5, EndMove
    <3>7. PICK C \in SUBSET AnyCall : C = CallsOn(left, b, e)
      BY CallsAt
    <3>8. HeldAt(Keeps(f, w, b, e), C, n, b) /\ (b = j /\ e = s => Fits(Keeps(f, w, b, e), C, x, n, j))
      BY <1>1, <3>2, <3>6, <3>7
    <3>9. /\ HeldAt(Keeps(f, PutWaiting(w, j, s, Append(w[j][s], x)), b, e), C, n, b)
          /\ Gains(Keeps(f, w, b, e), C, Keeps(f, PutWaiting(w, j, s, Append(w[j][s], x)), b, e), C,
                   OneAt(b, e, j, s, x))
      BY <3>8, RegisterMove
    <3>10. \A r \in OneAt(b, e, j, s, x) : IsHeld(F, CallsOn(calls, b, e), r)
      BY <1>1, <3>6 DEF OneAt
    <3>11. Drops(F, CallsOn(calls, b, e), F, C, OneAt(b, e, j, s, x))
      BY <1>1, <3>6, <3>7
    <3>12. Gains(F, C, Keeps(f, PutWaiting(w, j, s, Append(w[j][s], x)), b, e), C, OneAt(b, e, j, s, x))
      BY <3>2, <3>9
    <3>13. Gains(F, CallsOn(calls, b, e), Keeps(f, PutWaiting(w, j, s, Append(w[j][s], x)), b, e), C, {})
      BY <3>10, <3>11, <3>12, DropAndGain
    <3>14. /\ KeptNow(b, e)' = Keeps(f, PutWaiting(w, j, s, Append(w[j][s], x)), b, e)
           /\ CallsNow(b, e)' = C /\ nrecv'[b] = n
      BY <1>2, <1>5, <3>1, <3>5, <3>7 DEF KeptNow, CallsNow, Return, Returned
    <3> QED
      BY <3>3, <3>9, <3>13, <3>14
  <2> QED
    BY <2>1 DEF HeldInv, SameHeld
<1> QED
  BY <1>3, <1>4, <1>5

(* Pair::tryRecv commits the receive, or recvFromAny looks again.          *)
LEMMA TryRecvHeld ==
  ASSUME RecvTypes, HeldInv, NEW j \in Ranks, NEW call \in anyCalls[j], TryRecv(j, call)
  PROVE  HeldInv' /\ SameHeld
<1>0. anyCalls \in [Ranks -> SUBSET AnyCall] /\ call \in AnyCall /\ nrecv \in [Ranks -> Nat]
  BY DEF RecvTypes, OtherTypes
<1>1. PICK s \in Slots, x \in Recv, i \in Ranks : s = call.slot /\ x = call.recv /\ i = call.rank
  <2>1. call.slot \in Slots /\ call.recv \in Recv /\ call.rank \in Ranks
    BY <1>0 DEF TryRecv, AnyCall
  <2> QED
    BY <2>1
<1>2. UNCHANGED <<pendingRecv, nrecv>> /\ call.rank # NoRank
  BY DEF TryRecv, history
<1>3. \/ /\ localPendingRecv' = Enqueue(localPendingRecv, j, i, s, x) /\ Return(j, call)
      \/ Continue(j, call, NoRank) /\ UNCHANGED localPendingRecv
  BY <1>1 DEF TryRecv, CommitRecv
<1>4. ASSUME Continue(j, call, NoRank), UNCHANGED localPendingRecv
      PROVE  HeldInv' /\ SameHeld
  BY <1>2, <1>4, ContinueHeld
<1>5. ASSUME localPendingRecv' = Enqueue(localPendingRecv, j, i, s, x), Return(j, call)
      PROVE  HeldInv' /\ SameHeld
  <2>0. i \in x.from
    <3>1. call \in CallsNow(j, s)
      BY <1>1 DEF CallsNow, CallsOn
    <3>2. HeldAt(KeptNow(j, s), CallsNow(j, s), nrecv[j], j)
      BY DEF HeldInv
    <3> QED
      BY <1>1, <1>2, <3>1, <3>2 DEF HeldAt
  <2>1. ASSUME NEW b \in Ranks, NEW e \in Slots
        PROVE  /\ HeldAt(KeptNow(b, e)', CallsNow(b, e)', nrecv'[b], b)
               /\ Gains(KeptNow(b, e), CallsNow(b, e), KeptNow(b, e)', CallsNow(b, e)', {})
    <3>1. PICK f \in Queues(Recv), w \in Waiting, calls \in [Ranks -> SUBSET AnyCall], n \in Nat :
            f = localPendingRecv /\ w = pendingRecv /\ calls = anyCalls /\ n = nrecv[b]
      BY HeldTypes
    <3>2. PICK F \in Kept : F = Keeps(f, w, b, e)
      BY KeepsAt
    <3>3. F = KeptNow(b, e) /\ CallsOn(calls, b, e) = CallsNow(b, e)
      BY <3>1, <3>2 DEF KeptNow, CallsNow
    <3>4. HeldAt(F, CallsOn(calls, b, e), n, b) /\ call \in calls[j]
      BY <3>1, <3>3 DEF HeldInv
    <3>5. PICK left \in [Ranks -> SUBSET AnyCall] : left = Returned(calls, j, call)
      BY <3>4, EndMove
    <3>6. /\ HeldAt(F, CallsOn(left, b, e), n, b)
          /\ b = j /\ e = call.slot => /\ Fits(F, CallsOn(left, b, e), call.recv, n, j)
                                       /\ IsHeld(F, CallsOn(calls, b, e), call.recv)
          /\ Drops(F, CallsOn(calls, b, e), F, CallsOn(left, b, e), OneAt(b, e, j, call.slot, call.recv))
      BY <3>4, <3>5, EndMove
    <3>7. PICK C \in SUBSET AnyCall : C = CallsOn(left, b, e)
      BY CallsAt
    <3>8. HeldAt(Keeps(f, w, b, e), C, n, b) /\ (b = j /\ e = s => Fits(Keeps(f, w, b, e), C, x, n, j))
      BY <1>1, <3>2, <3>6, <3>7
    <3>9. /\ HeldAt(Keeps(Enqueue(f, j, i, s, x), w, b, e), C, n, b)
          /\ Gains(Keeps(f, w, b, e), C, Keeps(Enqueue(f, j, i, s, x), w, b, e), C,
                   OneAt(b, e, j, s, x))
      BY <2>0, <3>8, CommitMove
    <3>10. \A r \in OneAt(b, e, j, s, x) : IsHeld(F, CallsOn(calls, b, e), r)
      BY <1>1, <3>6 DEF OneAt
    <3>11. Drops(F, CallsOn(calls, b, e), F, C, OneAt(b, e, j, s, x))
      BY <1>1, <3>6, <3>7
    <3>12. Gains(F, C, Keeps(Enqueue(f, j, i, s, x), w, b, e), C, OneAt(b, e, j, s, x))
      BY <3>2, <3>9
    <3>13. Gains(F, CallsOn(calls, b, e), Keeps(Enqueue(f, j, i, s, x), w, b, e), C, {})
      BY <3>10, <3>11, <3>12, DropAndGain
    <3>14. /\ KeptNow(b, e)' = Keeps(Enqueue(f, j, i, s, x), w, b, e)
           /\ CallsNow(b, e)' = C /\ nrecv'[b] = n
      BY <1>2, <1>5, <3>1, <3>5, <3>7 DEF KeptNow, CallsNow, Return, Returned
    <3> QED
      BY <3>3, <3>9, <3>13, <3>14
  <2> QED
    BY <2>1 DEF HeldInv, SameHeld
<1> QED
  BY <1>3, <1>4, <1>5

(* A notification takes a waiting recv-from-any.                           *)
LEMMA HandleSendHeld ==
  ASSUME RecvTypes, HeldInv, NEW i \in Ranks, NEW j \in Ranks, NEW s \in Slots,
         HandleRemotePendingSend(i, j, s)
  PROVE  HeldInv' /\ SameHeld
<1>0. pendingRecv \in Waiting /\ pendingRecv[j][s] \in Seq(Recv)
  BY DEF RecvTypes, OtherTypes, Waiting
<1>1. UNCHANGED <<anyCalls, nrecv>>
  BY DEF HandleRemotePendingSend, history
<1>2. \/ UNCHANGED <<localPendingRecv, pendingRecv>>
      \/ \E k \in DOMAIN pendingRecv[j][s] :
           /\ i \in pendingRecv[j][s][k].from
           /\ pendingRecv' = PutWaiting(pendingRecv, j, s, RemoveAt(pendingRecv[j][s], k))
           /\ localPendingRecv' = Enqueue(localPendingRecv, j, i, s, pendingRecv[j][s][k])
  BY DEF HandleRemotePendingSend, CommitRecv, PutWaiting
<1>3. ASSUME NEW k \in DOMAIN pendingRecv[j][s], i \in pendingRecv[j][s][k].from,
             pendingRecv' = PutWaiting(pendingRecv, j, s, RemoveAt(pendingRecv[j][s], k)),
             localPendingRecv' = Enqueue(localPendingRecv, j, i, s, pendingRecv[j][s][k])
      PROVE  HeldInv' /\ SameHeld
  <2>0. PICK x \in Recv : x = pendingRecv[j][s][k]
    BY <1>0
  <2>1. k \in 1 .. Len(pendingRecv[j][s]) /\ i \in x.from
    BY <1>0, <1>3, <2>0
  <2>2. ASSUME NEW b \in Ranks, NEW e \in Slots
        PROVE  /\ HeldAt(KeptNow(b, e)', CallsNow(b, e)', nrecv'[b], b)
               /\ Gains(KeptNow(b, e), CallsNow(b, e), KeptNow(b, e)', CallsNow(b, e)', {})
    <3>1. PICK f \in Queues(Recv), w \in Waiting, C \in SUBSET AnyCall, n \in Nat :
            f = localPendingRecv /\ w = pendingRecv /\ C = CallsNow(b, e) /\ n = nrecv[b]
      BY HeldTypes
    <3>2. IsWaiting(x, w, j, s, k)
      BY <2>0, <2>1, <3>1 DEF IsWaiting
    <3>3. HeldAt(Keeps(f, w, b, e), C, n, b) /\ Keeps(f, w, b, e) = KeptNow(b, e)
      BY <3>1 DEF HeldInv, KeptNow
    <3>4. PICK v \in Waiting : v = PutWaiting(w, j, s, RemoveAt(w[j][s], k))
      BY <3>2, <3>3, UnregisterMove
    <3>5. /\ HeldAt(Keeps(f, v, b, e), C, n, b)
          /\ b = j /\ e = s => Fits(Keeps(f, v, b, e), C, x, n, j) /\ IsHeld(Keeps(f, w, b, e), C, x)
          /\ Drops(Keeps(f, w, b, e), C, Keeps(f, v, b, e), C, OneAt(b, e, j, s, x))
      BY <3>2, <3>3, <3>4, UnregisterMove
    <3>6. b = j /\ e = s => Fits(Keeps(f, v, b, e), C, x, n, j)
      BY <3>5
    <3>7. /\ HeldAt(Keeps(Enqueue(f, j, i, s, x), v, b, e), C, n, b)
          /\ Gains(Keeps(f, v, b, e), C, Keeps(Enqueue(f, j, i, s, x), v, b, e), C,
                   OneAt(b, e, j, s, x))
      BY <2>1, <3>5, <3>6, CommitMove
    <3>8. \A r \in OneAt(b, e, j, s, x) : IsHeld(Keeps(f, w, b, e), C, r)
      BY <3>5 DEF OneAt
    <3>9. Gains(Keeps(f, w, b, e), C, Keeps(Enqueue(f, j, i, s, x), v, b, e), C, {})
      BY <3>5, <3>7, <3>8, DropAndGain
    <3>10. /\ KeptNow(b, e)' = Keeps(Enqueue(f, j, i, s, x), v, b, e)
           /\ CallsNow(b, e)' = C /\ nrecv'[b] = n
      BY <1>1, <1>3, <2>0, <3>1, <3>4 DEF KeptNow, CallsNow
    <3> QED
      BY <3>1, <3>3, <3>7, <3>9, <3>10
  <2> QED
    BY <2>2 DEF HeldInv, SameHeld
<1> QED
  BY <1>1, <1>2, <1>3, HeldUnchanged

(* A payload fulfils the oldest receive that its pair was told about.      *)
LEMMA PayloadHeld ==
  ASSUME RecvTypes, HeldInv, NEW i \in Ranks, NEW j \in Ranks, NEW s \in Slots,
         ReceivePayload(i, j, s)
  PROVE  /\ HeldInv' /\ Fulfils(j, s, Head(localPendingRecv[j][i][s]))
         /\ IsHeld(KeptNow(j, s), CallsNow(j, s), Head(localPendingRecv[j][i][s]))
         /\ i \in Head(localPendingRecv[j][i][s]).from
<1>1. /\ localPendingRecv' = Dequeue(localPendingRecv, j, i, s) /\ localPendingRecv[j][i][s] # <<>>
      /\ UNCHANGED <<pendingRecv, anyCalls, nrecv>>
  BY DEF ReceivePayload
<1>2. localPendingRecv[j][i][s] \in Seq(Recv)
  BY DEF RecvTypes, ProtocolTypes, Queues
<1>3. PICK x \in Recv : x = Head(localPendingRecv[j][i][s])
  BY <1>1, <1>2
<1>4. ASSUME NEW b \in Ranks, NEW e \in Slots
      PROVE  /\ HeldAt(KeptNow(b, e)', CallsNow(b, e)', nrecv'[b], b)
             /\ Drops(KeptNow(b, e), CallsNow(b, e), KeptNow(b, e)', CallsNow(b, e)', OneAt(b, e, j, s, x))
             /\ b = j /\ e = s => IsHeld(KeptNow(b, e), CallsNow(b, e), x) /\ i \in x.from
  <2>1. PICK f \in Queues(Recv), w \in Waiting, C \in SUBSET AnyCall, n \in Nat :
          f = localPendingRecv /\ w = pendingRecv /\ C = CallsNow(b, e) /\ n = nrecv[b]
    BY HeldTypes
  <2>2. IsOldest(x, f, j, i, s)
    BY <1>1, <1>3, <2>1 DEF IsOldest
  <2>3. HeldAt(Keeps(f, w, b, e), C, n, b) /\ Keeps(f, w, b, e) = KeptNow(b, e)
    BY <2>1 DEF HeldInv, KeptNow
  <2>4. /\ HeldAt(Keeps(Dequeue(f, j, i, s), w, b, e), C, n, b)
        /\ Drops(Keeps(f, w, b, e), C, Keeps(Dequeue(f, j, i, s), w, b, e), C,
                 OneAt(b, e, j, s, x))
        /\ b = j /\ e = s => MayFulfil(Keeps(f, w, b, e), C, x, i)
    <3>1. HeldAt(Keeps(f, w, b, e), C, n, b)
      BY <2>3
    <3> QED
      BY <2>2, <3>1, FulfilMove
  <2>5. /\ KeptNow(b, e)' = Keeps(Dequeue(f, j, i, s), w, b, e)
        /\ CallsNow(b, e)' = C /\ nrecv'[b] = n
    BY <1>1, <2>1 DEF KeptNow, CallsNow
  <2> QED
    BY <2>1, <2>3, <2>4, <2>5 DEF MayFulfil
<1>5. HeldInv' /\ Fulfils(j, s, x)
  BY <1>4 DEF HeldInv, Fulfils
<1>6. IsHeld(KeptNow(j, s), CallsNow(j, s), x) /\ i \in x.from
  BY <1>4
<1> QED
  BY <1>3, <1>5, <1>6

(* A held receive is an unfulfilled one.                                   *)
LEMMA HeldMeaning ==
  RecvTypes => \A j \in Ranks, s \in Slots : \A r :
                 r \in UnfulfilledRecvs(j, s) <=> IsHeld(KeptNow(j, s), CallsNow(j, s), r)
<1> SUFFICES ASSUME RecvTypes, NEW j \in Ranks, NEW s \in Slots, NEW r
             PROVE  r \in UnfulfilledRecvs(j, s) <=> IsHeld(KeptNow(j, s), CallsNow(j, s), r)
  OBVIOUS
<1>1. PICK F \in Kept, C \in SUBSET AnyCall : F = KeptNow(j, s) /\ C = CallsNow(j, s)
  BY HeldTypes
<1>2. /\ \A i \in Ranks : F[i] = localPendingRecv[j][i][s]
      /\ F[AnyHome] = pendingRecv[j][s]
  BY <1>1, HeldTypes, KeepsAt DEF KeptNow
<1>3. \A h \in Homes : DOMAIN F[h] = 1 .. Len(F[h])
  BY DEF Kept
<1>4. r \in UnfulfilledRecvs(j, s) <=>
        \/ \E i \in Ranks : \E k \in DOMAIN localPendingRecv[j][i][s] : localPendingRecv[j][i][s][k] = r
        \/ \E k \in DOMAIN pendingRecv[j][s] : pendingRecv[j][s][k] = r
        \/ \E call \in C : call.recv = r
  BY <1>1 DEF UnfulfilledRecvs, ToSet, CallsNow, CallsOn
<1>5. IsHeld(F, C, r) <=>
        \/ \E i \in Ranks : \E k \in 1 .. Len(F[i]) : F[i][k] = r
        \/ \E k \in 1 .. Len(F[AnyHome]) : F[AnyHome][k] = r
        \/ \E call \in C : call.recv = r
  BY DEF IsHeld, Homes
<1>6. (\A i \in Ranks : DOMAIN F[i] = 1 .. Len(F[i])) /\ DOMAIN F[AnyHome] = 1 .. Len(F[AnyHome])
  BY <1>3 DEF Homes
<1> QED
  BY <1>1, <1>2, <1>4, <1>5, <1>6

LEMMA HeldMeaningThen ==
  RecvTypes' => (\A j \in Ranks, s \in Slots : \A r :
                   r \in UnfulfilledRecvs(j, s) <=> IsHeld(KeptNow(j, s), CallsNow(j, s), r))'
BY HeldMeaning, PTL

-----------------------------------------------------------------------------
(* The steps of Matching, in terms of the state that is mapped to it.      *)

SendsBar == [i \in Ranks |-> [j \in Ranks |-> [s \in Slots |-> UndeliveredSends(i, j, s)]]]
RecvsBar == [j \in Ranks |-> [s \in Slots |-> UnfulfilledRecvs(j, s)]]
IdsBar == UNION {(1 .. MaxSends[i]) \cup (1 .. MaxRecvs[i]) : i \in Ranks}

LEMMA PromisePostSend ==
  ASSUME NEW i \in Ranks, NEW j \in Ranks, NEW s \in Slots, NEW n \in IdsBar,
         SendsBar' = [SendsBar EXCEPT ![i][j][s] = Append(SendsBar[i][j][s], n)], RecvsBar' = RecvsBar
  PROVE  Promise!PostSend(i, j, s)
BY DEF Promise!PostSend, SendsBar, RecvsBar, IdsBar

LEMMA PromisePostRecv ==
  ASSUME NEW j \in Ranks, NEW s \in Slots, NEW n \in IdsBar, NEW from \in SUBSET Ranks,
         \A r \in RecvsBar[j][s] : r.id # n,
         RecvsBar' = [RecvsBar EXCEPT ![j][s] = RecvsBar[j][s] \cup {[id |-> n, from |-> from]}],
         SendsBar' = SendsBar
  PROVE  Promise!PostRecv(j, s)
BY DEF Promise!PostRecv, SendsBar, RecvsBar, IdsBar

LEMMA PromiseDeliver ==
  ASSUME NEW i \in Ranks, NEW j \in Ranks, NEW s \in Slots, NEW r \in RecvsBar[j][s],
         SendsBar[i][j][s] # <<>>, i \in r.from,
         SendsBar' = [SendsBar EXCEPT ![i][j][s] = Tail(SendsBar[i][j][s])],
         RecvsBar' = [RecvsBar EXCEPT ![j][s] = RecvsBar[j][s] \ {r}]
  PROVE  Promise!Deliver(i, j, s)
BY DEF Promise!Deliver, SendsBar, RecvsBar

LEMMA PromiseStutter ==
  ASSUME SendsBar' = SendsBar, RecvsBar' = RecvsBar
  PROVE  UNCHANGED Promise!vars
BY DEF Promise!vars, SendsBar, RecvsBar

(* Two tables that differ in one entry.                                    *)
LEMMA TableEntry ==
  ASSUME NEW V, NEW f \in [Ranks -> [Slots -> V]], NEW g \in [Ranks -> [Slots -> V]],
         NEW j \in Ranks, NEW s \in Slots, NEW q, g[j][s] = q,
         \A b \in Ranks, e \in Slots : ~(b = j /\ e = s) => g[b][e] = f[b][e]
  PROVE  g = [f EXCEPT ![j][s] = q]
<1> DEFINE h == [f[j] EXCEPT ![s] = q]
<1>1. h = g[j]
  <2>1. f[j] \in [Slots -> V] /\ g[j] \in [Slots -> V]
    OBVIOUS
  <2>2. DOMAIN h = Slots /\ \A e \in Slots : h[e] = g[j][e]
    BY <2>1
  <2> QED
    BY <2>1, <2>2
<1>2. \A b \in Ranks : b # j => g[b] = f[b]
  <2> TAKE b \in Ranks
  <2> HAVE b # j
  <2>1. f[b] \in [Slots -> V] /\ g[b] \in [Slots -> V] /\ \A e \in Slots : g[b][e] = f[b][e]
    OBVIOUS
  <2> QED
    BY <2>1
<1>3. [f EXCEPT ![j][s] = q] = [f EXCEPT ![j] = h]
  OBVIOUS
<1> HIDE DEF h
<1>4. g = [f EXCEPT ![j] = h]
  <2>1. \A b \in Ranks : [f EXCEPT ![j] = h][b] = g[b]
    BY <1>1, <1>2
  <2> QED
    BY <2>1
<1> QED
  BY <1>3, <1>4

LEMMA RecvsTable ==
  RecvsBar \in [Ranks -> [Slots -> {UnfulfilledRecvs(b, e) : b \in Ranks, e \in Slots}]]
BY DEF RecvsBar

LEMMA RecvsAt == \A b \in Ranks, e \in Slots : RecvsBar[b][e] = UnfulfilledRecvs(b, e)
BY DEF RecvsBar

LEMMA RecvsTableThen ==
  RecvsBar' \in [Ranks -> [Slots -> {UnfulfilledRecvs(b, e)' : b \in Ranks, e \in Slots}]]
BY DEF RecvsBar

LEMMA RecvsAtThen == \A b \in Ranks, e \in Slots : RecvsBar'[b][e] = UnfulfilledRecvs(b, e)'
BY DEF RecvsBar

(* One entry of the table of receives changes.                             *)
LEMMA RecvsEntry ==
  ASSUME NEW j \in Ranks, NEW s \in Slots, NEW q, UnfulfilledRecvs(j, s)' = q,
         \A b \in Ranks, e \in Slots :
           ~(b = j /\ e = s) => UnfulfilledRecvs(b, e)' = UnfulfilledRecvs(b, e)
  PROVE  RecvsBar' = [RecvsBar EXCEPT ![j][s] = q]
<1> DEFINE A == {UnfulfilledRecvs(b, e) : b \in Ranks, e \in Slots}
           B == {UnfulfilledRecvs(b, e)' : b \in Ranks, e \in Slots}
           V == A \cup B
<1>a. RecvsBar \in [Ranks -> [Slots -> A]]
  BY RecvsTable
<1>b. RecvsBar' \in [Ranks -> [Slots -> B]]
  BY RecvsTableThen
<1> HIDE DEF A, B
<1>1. RecvsBar \in [Ranks -> [Slots -> V]] /\ RecvsBar' \in [Ranks -> [Slots -> V]]
  BY <1>a, <1>b
<1> HIDE DEF V
<1>2. PICK f \in [Ranks -> [Slots -> V]] :
        f = RecvsBar /\ \A b \in Ranks, e \in Slots : f[b][e] = UnfulfilledRecvs(b, e)
  BY <1>1, RecvsAt
<1>3. PICK g \in [Ranks -> [Slots -> V]] :
        g = RecvsBar' /\ \A b \in Ranks, e \in Slots : g[b][e] = UnfulfilledRecvs(b, e)'
  BY <1>1, RecvsAtThen
<1>4. g = [f EXCEPT ![j][s] = q]
  <2>1. g[j][s] = q
    BY <1>3
  <2>2. \A b \in Ranks, e \in Slots : ~(b = j /\ e = s) => g[b][e] = f[b][e]
    BY <1>2, <1>3
  <2> QED
    BY <2>1, <2>2, TableEntry
<1> QED
  BY <1>2, <1>3, <1>4

(* The receives.                                                           *)
LEMMA RecvsPosted ==
  ASSUME RecvTypes, RecvTypes', NEW j \in Ranks, NEW s \in Slots, NEW x, Posts(j, s, x)
  PROVE  RecvsBar' = [RecvsBar EXCEPT ![j][s] = RecvsBar[j][s] \cup {x}]
<1>1. ASSUME NEW b \in Ranks, NEW e \in Slots
      PROVE  UnfulfilledRecvs(b, e)' = UnfulfilledRecvs(b, e) \cup OneAt(b, e, j, s, x)
  <2>1. Gains(KeptNow(b, e), CallsNow(b, e), KeptNow(b, e)', CallsNow(b, e)', OneAt(b, e, j, s, x))
    BY DEF Posts
  <2>2. ASSUME NEW r
        PROVE  r \in UnfulfilledRecvs(b, e)' <=>
                 r \in UnfulfilledRecvs(b, e) \/ r \in OneAt(b, e, j, s, x)
    <3>1. r \in UnfulfilledRecvs(b, e) <=> IsHeld(KeptNow(b, e), CallsNow(b, e), r)
      BY HeldMeaning
    <3>2. r \in UnfulfilledRecvs(b, e)' <=> IsHeld(KeptNow(b, e)', CallsNow(b, e)', r)
      BY HeldMeaningThen
    <3> QED
      BY <2>1, <3>1, <3>2 DEF Gains
  <2> QED
    BY <2>2
<1>2. UnfulfilledRecvs(j, s)' = RecvsBar[j][s] \cup {x}
  <2>1. UnfulfilledRecvs(j, s)' = UnfulfilledRecvs(j, s) \cup OneAt(j, s, j, s, x)
    BY <1>1
  <2>2. OneAt(j, s, j, s, x) = {x} /\ RecvsBar[j][s] = UnfulfilledRecvs(j, s)
    BY RecvsAt DEF OneAt
  <2> QED
    BY <2>1, <2>2
<1>3. \A b \in Ranks, e \in Slots :
        ~(b = j /\ e = s) => UnfulfilledRecvs(b, e)' = UnfulfilledRecvs(b, e)
  BY <1>1 DEF OneAt
<1> QED
  BY <1>2, <1>3, RecvsEntry

LEMMA RecvsFulfilled ==
  ASSUME RecvTypes, RecvTypes', NEW j \in Ranks, NEW s \in Slots, NEW x, Fulfils(j, s, x)
  PROVE  RecvsBar' = [RecvsBar EXCEPT ![j][s] = RecvsBar[j][s] \ {x}]
<1>1. ASSUME NEW b \in Ranks, NEW e \in Slots
      PROVE  UnfulfilledRecvs(b, e)' = UnfulfilledRecvs(b, e) \ OneAt(b, e, j, s, x)
  <2>1. Drops(KeptNow(b, e), CallsNow(b, e), KeptNow(b, e)', CallsNow(b, e)', OneAt(b, e, j, s, x))
    BY DEF Fulfils
  <2>2. ASSUME NEW r
        PROVE  r \in UnfulfilledRecvs(b, e)' <=>
                 r \in UnfulfilledRecvs(b, e) /\ r \notin OneAt(b, e, j, s, x)
    <3>1. r \in UnfulfilledRecvs(b, e) <=> IsHeld(KeptNow(b, e), CallsNow(b, e), r)
      BY HeldMeaning
    <3>2. r \in UnfulfilledRecvs(b, e)' <=> IsHeld(KeptNow(b, e)', CallsNow(b, e)', r)
      BY HeldMeaningThen
    <3> QED
      BY <2>1, <3>1, <3>2 DEF Drops
  <2> QED
    BY <2>2
<1>2. UnfulfilledRecvs(j, s)' = RecvsBar[j][s] \ {x}
  <2>1. UnfulfilledRecvs(j, s)' = UnfulfilledRecvs(j, s) \ OneAt(j, s, j, s, x)
    BY <1>1
  <2>2. OneAt(j, s, j, s, x) = {x} /\ RecvsBar[j][s] = UnfulfilledRecvs(j, s)
    BY RecvsAt DEF OneAt
  <2> QED
    BY <2>1, <2>2
<1>3. \A b \in Ranks, e \in Slots :
        ~(b = j /\ e = s) => UnfulfilledRecvs(b, e)' = UnfulfilledRecvs(b, e)
  BY <1>1 DEF OneAt
<1> QED
  BY <1>2, <1>3, RecvsEntry

LEMMA RecvsRemain ==
  ASSUME RecvTypes, RecvTypes', SameHeld
  PROVE  RecvsBar' = RecvsBar
<1>1. ASSUME NEW b \in Ranks, NEW e \in Slots
      PROVE  UnfulfilledRecvs(b, e)' = UnfulfilledRecvs(b, e)
  <2>1. Gains(KeptNow(b, e), CallsNow(b, e), KeptNow(b, e)', CallsNow(b, e)', {})
    BY DEF SameHeld
  <2>2. ASSUME NEW r
        PROVE  r \in UnfulfilledRecvs(b, e)' <=> r \in UnfulfilledRecvs(b, e)
    <3>1. r \in UnfulfilledRecvs(b, e) <=> IsHeld(KeptNow(b, e), CallsNow(b, e), r)
      BY HeldMeaning
    <3>2. r \in UnfulfilledRecvs(b, e)' <=> IsHeld(KeptNow(b, e)', CallsNow(b, e)', r)
      BY HeldMeaningThen
    <3> QED
      BY <2>1, <3>1, <3>2 DEF Gains
  <2> QED
    BY <2>2
<1> QED
  BY <1>1 DEF RecvsBar

(* The sends numbered d + 1 to n.                                          *)
Numbers(d, n) == [k \in 1 .. n - d |-> d + k]

LEMMA NumbersGrow ==
  ASSUME NEW d \in Nat, NEW n \in Nat, d <= n
  PROVE  Numbers(d, n + 1) = Append(Numbers(d, n), n + 1)
<1>1. PICK m \in Nat : m = n - d /\ n + 1 - d = m + 1
  OBVIOUS
<1>2. PICK q \in Seq(Nat) : q = Numbers(d, n) /\ Len(q) = m /\ \A k \in 1 .. m : q[k] = d + k
  <2>1. [k \in 1 .. m |-> d + k] \in Seq(Nat) /\ Len([k \in 1 .. m |-> d + k]) = m
    OBVIOUS
  <2>2. \A k \in 1 .. m : [l \in 1 .. m |-> d + l][k] = d + k
    OBVIOUS
  <2>3. Numbers(d, n) = [k \in 1 .. m |-> d + k]
    BY <1>1 DEF Numbers
  <2> QED
    BY <2>1, <2>2, <2>3
<1>3. PICK p \in Seq(Nat) : p = Numbers(d, n + 1) /\ Len(p) = m + 1 /\ \A k \in 1 .. m + 1 : p[k] = d + k
  <2>1. [k \in 1 .. m + 1 |-> d + k] \in Seq(Nat) /\ Len([k \in 1 .. m + 1 |-> d + k]) = m + 1
    OBVIOUS
  <2>2. \A k \in 1 .. m + 1 : [l \in 1 .. m + 1 |-> d + l][k] = d + k
    OBVIOUS
  <2>3. Numbers(d, n + 1) = [k \in 1 .. m + 1 |-> d + k]
    BY <1>1 DEF Numbers
  <2> QED
    BY <2>1, <2>2, <2>3
<1>4. n + 1 = d + (m + 1)
  BY <1>1
<1>5. /\ Append(q, n + 1) \in Seq(Nat) /\ Len(Append(q, n + 1)) = m + 1
      /\ \A k \in 1 .. m : Append(q, n + 1)[k] = q[k]
      /\ Append(q, n + 1)[m + 1] = n + 1
  BY <1>2
<1>6. \A k \in 1 .. m + 1 : p[k] = Append(q, n + 1)[k]
  <2> TAKE k \in 1 .. m + 1
  <2>1. CASE k \in 1 .. m
    BY <1>2, <1>3, <1>5, <2>1
  <2>2. CASE k = m + 1
    <3>1. m + 1 \in 1 .. m + 1
      OBVIOUS
    <3>2. p[m + 1] = d + (m + 1)
      BY <1>3, <3>1
    <3> QED
      BY <1>4, <1>5, <2>2, <3>2
  <2>3. k \in 1 .. m \/ k = m + 1
    OBVIOUS
  <2> QED
    BY <2>1, <2>2, <2>3
<1>7. p = Append(q, n + 1)
  BY <1>3, <1>5, <1>6, SeqEqual
<1> QED
  BY <1>2, <1>3, <1>7

LEMMA NumbersShrink ==
  ASSUME NEW d \in Nat, NEW n \in Nat, d < n
  PROVE  Numbers(d, n) # <<>> /\ Numbers(d + 1, n) = Tail(Numbers(d, n))
<1>1. PICK m \in Nat : n - d = m + 1 /\ n - (d + 1) = m
  <2>1. n - (d + 1) \in Nat /\ n - d = n - (d + 1) + 1
    OBVIOUS
  <2> QED
    BY <2>1
<1>2. PICK q \in Seq(Nat) : q = Numbers(d + 1, n) /\ Len(q) = m /\ \A k \in 1 .. m : q[k] = d + 1 + k
  <2>1. [k \in 1 .. m |-> d + 1 + k] \in Seq(Nat) /\ Len([k \in 1 .. m |-> d + 1 + k]) = m
    OBVIOUS
  <2>2. \A k \in 1 .. m : [l \in 1 .. m |-> d + 1 + l][k] = d + 1 + k
    OBVIOUS
  <2>3. Numbers(d + 1, n) = [k \in 1 .. m |-> d + 1 + k]
    BY <1>1 DEF Numbers
  <2> QED
    BY <2>1, <2>2, <2>3
<1>3. PICK p \in Seq(Nat) : p = Numbers(d, n) /\ Len(p) = m + 1 /\ \A k \in 1 .. m + 1 : p[k] = d + k
  <2>1. [k \in 1 .. m + 1 |-> d + k] \in Seq(Nat) /\ Len([k \in 1 .. m + 1 |-> d + k]) = m + 1
    OBVIOUS
  <2>2. \A k \in 1 .. m + 1 : [l \in 1 .. m + 1 |-> d + l][k] = d + k
    OBVIOUS
  <2>3. Numbers(d, n) = [k \in 1 .. m + 1 |-> d + k]
    BY <1>1 DEF Numbers
  <2> QED
    BY <2>1, <2>2, <2>3
<1>4. p # <<>> /\ Tail(p) \in Seq(Nat) /\ Len(Tail(p)) = m /\ \A k \in 1 .. m : Tail(p)[k] = p[k + 1]
  BY <1>3
<1>5. \A k \in 1 .. m : q[k] = Tail(p)[k]
  <2> TAKE k \in 1 .. m
  <2>1. k + 1 \in 1 .. m + 1 /\ d + (k + 1) = d + 1 + k
    OBVIOUS
  <2> QED
    BY <1>2, <1>3, <1>4, <2>1
<1>6. q = Tail(p)
  BY <1>2, <1>4, <1>5, SeqEqual
<1> QED
  BY <1>2, <1>3, <1>4, <1>6

(* The same for the table of sends.                                        *)
LEMMA SendTableEntry ==
  ASSUME NEW V, NEW f \in [Ranks -> [Ranks -> [Slots -> V]]],
         NEW g \in [Ranks -> [Ranks -> [Slots -> V]]],
         NEW i \in Ranks, NEW j \in Ranks, NEW s \in Slots, NEW q, g[i][j][s] = q,
         \A a, b \in Ranks, e \in Slots : ~(a = i /\ b = j /\ e = s) => g[a][b][e] = f[a][b][e]
  PROVE  g = [f EXCEPT ![i][j][s] = q]
<1> DEFINE h == [f[i] EXCEPT ![j][s] = q]
<1>1. h = g[i]
  <2>1. PICK u \in [Ranks -> [Slots -> V]], w \in [Ranks -> [Slots -> V]] : u = f[i] /\ w = g[i]
    OBVIOUS
  <2>2. w[j][s] = q /\ \A b \in Ranks, e \in Slots : ~(b = j /\ e = s) => w[b][e] = u[b][e]
    BY <2>1
  <2>3. w = [u EXCEPT ![j][s] = q]
    BY <2>2, TableEntry
  <2> QED
    BY <2>1, <2>3
<1>2. \A a \in Ranks : a # i => g[a] = f[a]
  <2> TAKE a \in Ranks
  <2> HAVE a # i
  <2>1. PICK u \in [Ranks -> [Slots -> V]], w \in [Ranks -> [Slots -> V]] : u = f[a] /\ w = g[a]
    OBVIOUS
  <2>2. \A b \in Ranks, e \in Slots : w[b][e] = u[b][e]
    BY <2>1
  <2>3. \A b \in Ranks : w[b] = u[b]
    BY <2>2
  <2> QED
    BY <2>1, <2>3
<1>3. [f EXCEPT ![i][j][s] = q] = [f EXCEPT ![i] = h]
  OBVIOUS
<1> HIDE DEF h
<1>4. g = [f EXCEPT ![i] = h]
  <2>1. \A a \in Ranks : [f EXCEPT ![i] = h][a] = g[a]
    BY <1>1, <1>2
  <2> QED
    BY <2>1
<1> QED
  BY <1>3, <1>4

AllSends == {UndeliveredSends(a, b, e) : a \in Ranks, b \in Ranks, e \in Slots}

LEMMA SendsTable == SendsBar \in [Ranks -> [Ranks -> [Slots -> AllSends]]]
BY DEF SendsBar, AllSends

LEMMA SendsAt ==
  \A a, b \in Ranks, e \in Slots : SendsBar[a][b][e] = UndeliveredSends(a, b, e)
BY DEF SendsBar

LEMMA SendsTableThen == SendsBar' \in [Ranks -> [Ranks -> [Slots -> AllSends']]]
BY DEF SendsBar, AllSends

LEMMA SendsAtThen ==
  \A a, b \in Ranks, e \in Slots : SendsBar'[a][b][e] = UndeliveredSends(a, b, e)'
BY DEF SendsBar

(* One entry of the table of sends changes.                                *)
LEMMA SendsEntry ==
  ASSUME NEW i \in Ranks, NEW j \in Ranks, NEW s \in Slots, NEW q, UndeliveredSends(i, j, s)' = q,
         \A a, b \in Ranks, e \in Slots :
           ~(a = i /\ b = j /\ e = s) => UndeliveredSends(a, b, e)' = UndeliveredSends(a, b, e)
  PROVE  SendsBar' = [SendsBar EXCEPT ![i][j][s] = q]
<1> DEFINE V == AllSends \cup AllSends'
<1>1. /\ SendsBar \in [Ranks -> [Ranks -> [Slots -> V]]]
      /\ SendsBar' \in [Ranks -> [Ranks -> [Slots -> V]]]
  BY SendsTable, SendsTableThen
<1> HIDE DEF V
<1>2. PICK f \in [Ranks -> [Ranks -> [Slots -> V]]] :
        f = SendsBar /\ \A a, b \in Ranks, e \in Slots : f[a][b][e] = UndeliveredSends(a, b, e)
  BY <1>1, SendsAt
<1>3. PICK g \in [Ranks -> [Ranks -> [Slots -> V]]] :
        g = SendsBar' /\ \A a, b \in Ranks, e \in Slots : g[a][b][e] = UndeliveredSends(a, b, e)'
  BY <1>1, SendsAtThen
<1>4. g = [f EXCEPT ![i][j][s] = q]
  <2>1. g[i][j][s] = q
    BY <1>3
  <2>2. \A a, b \in Ranks, e \in Slots : ~(a = i /\ b = j /\ e = s) => g[a][b][e] = f[a][b][e]
    BY <1>2, <1>3
  <2> QED
    BY <2>1, <2>2, SendTableEntry
<1> QED
  BY <1>2, <1>3, <1>4

LEMMA SendsRemain ==
  ASSUME UNCHANGED <<sent, delivered>>
  PROVE  SendsBar' = SendsBar
BY DEF SendsBar, UndeliveredSends

LEMMA UndeliveredNumbers ==
  \A a, b \in Ranks, e \in Slots :
    UndeliveredSends(a, b, e) = Numbers(delivered[a][b][e], sent[a][b][e])
BY DEF UndeliveredSends, Numbers

LEMMA UndeliveredNumbersThen ==
  \A a, b \in Ranks, e \in Slots :
    UndeliveredSends(a, b, e)' = Numbers(delivered'[a][b][e], sent'[a][b][e])
BY DEF UndeliveredSends, Numbers

(* No more is delivered than was sent.                                     *)
LEMMA DeliveredWasSent ==
  ASSUME RecvTypes, NonOvertaking, NEW i \in Ranks, NEW j \in Ranks, NEW s \in Slots
  PROVE  /\ delivered[i][j][s] \in Nat /\ sent[i][j][s] \in Nat
         /\ delivered[i][j][s] <= sent[i][j][s]
<1>1. /\ channel \in Channels /\ localPendingSend \in Queues(Nat)
      /\ delivered \in Counts /\ sent \in Counts
  BY DEF RecvTypes, ProtocolTypes, OtherTypes, Counts
<1>2. /\ channel[i][j] \in Seq(Message) /\ localPendingSend[i][j][s] \in Seq(Nat)
      /\ delivered[i][j][s] \in Nat /\ sent[i][j][s] \in Nat
  BY <1>1, OrderTypes
<1>3. InOrder(channel[i][j], localPendingSend[i][j][s], delivered[i][j][s], sent[i][j][s], s)
  BY DEF NonOvertaking
<1>4. PICK x \in Nat, y \in Nat :
        x = Occurrences(channel[i][j], Payloads(s)) /\ y = Len(localPendingSend[i][j][s])
  <2>1. Occurrences(channel[i][j], Payloads(s)) \in Nat
    BY <1>2, OccurrencesType
  <2>2. Len(localPendingSend[i][j][s]) \in Nat
    BY <1>2
  <2> QED
    BY <2>1, <2>2
<1>5. sent[i][j][s] = delivered[i][j][s] + x + y
  BY <1>3, <1>4 DEF InOrder
<1> QED
  BY <1>2, <1>5

(* The sends.                                                              *)
LEMMA SentAfter ==
  ASSUME sent \in Counts, NEW i \in Ranks, NEW j \in Ranks, NEW s \in Slots, NEW x \in Nat,
         sent' = PutQueue(sent, i, j, s, x)
  PROVE  \A a, b \in Ranks, e \in Slots :
           sent'[a][b][e] = IF a = i /\ b = j /\ e = s THEN x ELSE sent[a][b][e]
<1>1. \A a, b \in Ranks, e \in Slots :
        PutQueue(sent, i, j, s, x)[a][b][e] = IF a = i /\ b = j /\ e = s THEN x ELSE sent[a][b][e]
  BY UpdateCount, SMTT(30)
<1> QED
  BY <1>1

LEMMA SendsPosted ==
  ASSUME RecvTypes, NonOvertaking, NEW i \in Ranks, NEW j \in Ranks, NEW s \in Slots, Send(i, j, s)
  PROVE  SendsBar' = [SendsBar EXCEPT ![i][j][s] = Append(SendsBar[i][j][s], sent[i][j][s] + 1)]
<1>1. sent \in Counts /\ delivered' = delivered
  BY DEF RecvTypes, OtherTypes, Counts, Send
<1>2. PICK x \in Nat : x = sent[i][j][s] + 1
  BY <1>1 DEF Counts
<1>3. sent' = PutQueue(sent, i, j, s, x)
  BY <1>2 DEF Send, PutQueue
<1>4. \A a, b \in Ranks, e \in Slots :
        sent'[a][b][e] = IF a = i /\ b = j /\ e = s THEN x ELSE sent[a][b][e]
  BY <1>1, <1>3, SentAfter
<1>5. UndeliveredSends(i, j, s)' = Append(SendsBar[i][j][s], x)
  <2>1. UndeliveredSends(i, j, s)' = Numbers(delivered[i][j][s], sent[i][j][s] + 1)
    BY <1>1, <1>2, <1>4, UndeliveredNumbersThen
  <2>2. SendsBar[i][j][s] = Numbers(delivered[i][j][s], sent[i][j][s])
    BY SendsAt, UndeliveredNumbers
  <2>3. /\ delivered[i][j][s] \in Nat /\ sent[i][j][s] \in Nat
        /\ delivered[i][j][s] <= sent[i][j][s]
    BY DeliveredWasSent
  <2>4. Numbers(delivered[i][j][s], sent[i][j][s] + 1) =
          Append(Numbers(delivered[i][j][s], sent[i][j][s]), sent[i][j][s] + 1)
    BY <2>3, NumbersGrow
  <2> QED
    BY <1>2, <2>1, <2>2, <2>4
<1>6. \A a, b \in Ranks, e \in Slots :
        ~(a = i /\ b = j /\ e = s) => UndeliveredSends(a, b, e)' = UndeliveredSends(a, b, e)
  BY <1>1, <1>4, UndeliveredNumbers, UndeliveredNumbersThen
<1>7. PICK q : q = Append(SendsBar[i][j][s], x)
  OBVIOUS
<1>8. SendsBar' = [SendsBar EXCEPT ![i][j][s] = q]
  <2>1. UndeliveredSends(i, j, s)' = q
    BY <1>5, <1>7
  <2> QED
    BY <1>6, <2>1, SendsEntry
<1> QED
  BY <1>2, <1>7, <1>8

LEMMA SendsDelivered ==
  ASSUME RecvTypes, NonOvertaking, NEW i \in Ranks, NEW j \in Ranks, NEW s \in Slots,
         ReceivePayload(i, j, s)
  PROVE  /\ SendsBar[i][j][s] # <<>>
         /\ SendsBar' = [SendsBar EXCEPT ![i][j][s] = Tail(SendsBar[i][j][s])]
<1>0. /\ channel \in Channels /\ localPendingSend \in Queues(Nat)
      /\ delivered \in Counts /\ sent \in Counts /\ ProtocolTypes
  BY DEF RecvTypes, ProtocolTypes, OtherTypes, Counts
<1>1. /\ Arrives(i, j, "SEND_UNBOUND_BUFFER", s) /\ sent' = sent
      /\ delivered' = PutQueue(delivered, i, j, s, Head(channel[i][j]).id)
  BY DEF ReceivePayload, PutQueue
<1>2. channel[i][j] # <<>> /\ Head(channel[i][j]) \in Payloads(s)
  BY <1>0, <1>1, HeadKinds
<1>3. Head(channel[i][j]).id = delivered[i][j][s] + 1 /\ delivered[i][j][s] < sent[i][j][s]
  <2>1. OrderIn(channel, localPendingSend, delivered, sent)
    BY OrderMeaning
  <2> QED
    BY <1>0, <1>2, <2>1, OrderReceives
<1>4. PICK x \in Nat : x = delivered[i][j][s] + 1
  BY <1>0 DEF Counts
<1>5. \A a, b \in Ranks, e \in Slots :
        delivered'[a][b][e] = IF a = i /\ b = j /\ e = s THEN x ELSE delivered[a][b][e]
  <2>1. delivered' = PutQueue(delivered, i, j, s, x)
    BY <1>1, <1>3, <1>4
  <2> QED
    BY <1>0, <2>1, UpdateCount, SMTT(30)
<1>6. SendsBar[i][j][s] # <<>> /\ UndeliveredSends(i, j, s)' = Tail(SendsBar[i][j][s])
  <2>1. UndeliveredSends(i, j, s)' = Numbers(delivered[i][j][s] + 1, sent[i][j][s])
    BY <1>1, <1>4, <1>5, UndeliveredNumbersThen
  <2>2. SendsBar[i][j][s] = Numbers(delivered[i][j][s], sent[i][j][s])
    BY SendsAt, UndeliveredNumbers
  <2>3. delivered[i][j][s] \in Nat /\ sent[i][j][s] \in Nat
    BY DeliveredWasSent
  <2>4. /\ Numbers(delivered[i][j][s], sent[i][j][s]) # <<>>
        /\ Numbers(delivered[i][j][s] + 1, sent[i][j][s]) =
             Tail(Numbers(delivered[i][j][s], sent[i][j][s]))
    BY <1>3, <2>3, NumbersShrink
  <2> QED
    BY <2>1, <2>2, <2>4
<1>7. \A a, b \in Ranks, e \in Slots :
        ~(a = i /\ b = j /\ e = s) => UndeliveredSends(a, b, e)' = UndeliveredSends(a, b, e)
  BY <1>1, <1>5, UndeliveredNumbers, UndeliveredNumbersThen
<1> QED
  BY <1>6, <1>7, SendsEntry

-----------------------------------------------------------------------------
(* The invariant of the refinement.                                        *)

(* The sends to one rank on one slot are among all sends.                  *)
SentInv == \A i, j \in Ranks, s \in Slots : sent[i][j][s] <= nsend[i]

LEMMA InitHeld == Init => HeldInv /\ SentInv
<1> SUFFICES ASSUME Init PROVE HeldInv /\ SentInv
  OBVIOUS
<1>1. SentInv
  BY DEF Init, SentInv
<1>2. ASSUME NEW b \in Ranks, NEW e \in Slots
      PROVE  HeldAt(KeptNow(b, e), CallsNow(b, e), nrecv[b], b)
  <2>1. CallsNow(b, e) = {}
    BY DEF Init, CallsNow, CallsOn
  <2>2. \A h \in Homes : KeptNow(b, e)[h] = <<>>
    BY DEF Init, KeptNow, Keeps
  <2>3. \A h \in Homes : Len(KeptNow(b, e)[h]) = 0
    BY <2>2
  <2>4. PICK F, C : F = KeptNow(b, e) /\ C = CallsNow(b, e)
    OBVIOUS
  <2>5. C = {} /\ \A h \in Homes : \A k \in 1 .. Len(F[h]) : FALSE
    BY <2>1, <2>3, <2>4
  <2>6. HeldAt(F, C, nrecv[b], b)
    <3>1. Distinct(F, C)
      BY <2>5 DEF Distinct
    <3>2. \A r : ~IsHeld(F, C, r)
      BY <2>5 DEF IsHeld
    <3>3. \A i \in Ranks : \A k \in 1 .. Len(F[i]) : i \in F[i][k].from
      BY <2>5 DEF Homes
    <3>4. \A call \in C : call.rank # NoRank => call.rank \in call.recv.from
      BY <2>5
    <3> QED
      BY <3>1, <3>2, <3>3, <3>4 DEF HeldAt
  <2> QED
    BY <2>4, <2>6
<1> QED
  BY <1>1, <1>2 DEF HeldInv

LEMMA SentStep ==
  ASSUME RecvTypes, SentInv, NEW i \in Ranks, NEW j \in Ranks, NEW s \in Slots, Send(i, j, s)
  PROVE  SentInv' /\ sent[i][j][s] + 1 \in IdsBar
<1>1. sent \in Counts /\ nsend \in [Ranks -> Nat]
  BY DEF RecvTypes, OtherTypes, Counts
<1>2. PICK x \in Nat : x = sent[i][j][s] + 1
  BY <1>1 DEF Counts
<1>3. nsend' = [nsend EXCEPT ![i] = @ + 1] /\ nsend[i] < MaxSends[i]
  BY DEF Send
<1>4. \A a, b \in Ranks, e \in Slots :
        sent'[a][b][e] = IF a = i /\ b = j /\ e = s THEN x ELSE sent[a][b][e]
  <2>1. sent' = PutQueue(sent, i, j, s, x)
    BY <1>2 DEF Send, PutQueue
  <2>2. sent \in Counts
    BY <1>1
  <2> QED
    BY <2>1, <2>2, SentAfter
<1>5. ASSUME NEW a \in Ranks, NEW b \in Ranks, NEW e \in Slots
      PROVE  sent'[a][b][e] <= nsend'[a]
  <2>1. /\ sent[a][b][e] <= nsend[a] /\ sent[i][j][s] <= nsend[i]
        /\ sent[a][b][e] \in Nat /\ sent[i][j][s] \in Nat /\ nsend[a] \in Nat
    BY <1>1 DEF SentInv, Counts
  <2>2. nsend'[a] = IF a = i THEN nsend[i] + 1 ELSE nsend[a]
    BY <1>1, <1>3
  <2> QED
    BY <1>2, <1>4, <2>1, <2>2
<1>6. sent[i][j][s] + 1 \in 1 .. MaxSends[i]
  <2>1. /\ sent[i][j][s] <= nsend[i] /\ sent[i][j][s] \in Nat /\ nsend[i] \in Nat
        /\ MaxSends[i] \in Nat
    BY <1>1, BoundsAssumption DEF SentInv, Counts
  <2> QED
    BY <1>3, <2>1
<1>7. sent[i][j][s] + 1 \in IdsBar
  BY <1>6 DEF IdsBar
<1> QED
  BY <1>5, <1>7 DEF SentInv

LEMMA RecvIsNew ==
  ASSUME RecvTypes, HeldInv, NEW j \in Ranks, NEW s \in Slots, nrecv[j] < MaxRecvs[j]
  PROVE  nrecv[j] + 1 \in IdsBar /\ \A r \in RecvsBar[j][s] : r.id # nrecv[j] + 1
<1>1. nrecv[j] \in Nat /\ MaxRecvs[j] \in Nat
  BY BoundsAssumption DEF RecvTypes, OtherTypes
<1>2. nrecv[j] + 1 \in 1 .. MaxRecvs[j]
  BY <1>1
<1>3. ASSUME NEW r \in RecvsBar[j][s] PROVE r.id # nrecv[j] + 1
  <2>1. IsHeld(KeptNow(j, s), CallsNow(j, s), r)
    BY HeldMeaning, RecvsAt
  <2>2. HeldAt(KeptNow(j, s), CallsNow(j, s), nrecv[j], j)
    BY DEF HeldInv
  <2>3. PICK F \in Kept, C \in SUBSET AnyCall, n \in Nat :
          F = KeptNow(j, s) /\ C = CallsNow(j, s) /\ n = nrecv[j]
    BY <1>1, HeldTypes
  <2>4. IsHeld(F, C, r) /\ HeldAt(F, C, n, j)
    BY <2>1, <2>2, <2>3
  <2>5. r.id <= n
    BY <2>4 DEF IsHeld, HeldAt
  <2>6. r.id \in Nat
    <3>2. r \in Recv
      BY <2>4 DEF IsHeld, Kept, AnyCall
    <3> QED
      BY <3>2 DEF Recv
  <2> QED
    BY <2>3, <2>5, <2>6
<1> QED
  BY <1>2, <1>3 DEF IdsBar

LEMMA PromiseInit == Init => Promise!Init
<1> SUFFICES ASSUME Init PROVE Promise!Init
  OBVIOUS
<1>1. \A i, j \in Ranks, s \in Slots : UndeliveredSends(i, j, s) = <<>>
  <2> TAKE i, j \in Ranks, s \in Slots
  <2>1. sent[i][j][s] = 0 /\ delivered[i][j][s] = 0
    BY DEF Init
  <2>2. 1 .. 0 - 0 = {}
    OBVIOUS
  <2> QED
    BY <2>1, <2>2 DEF UndeliveredSends
<1>2. \A j \in Ranks, s \in Slots : UnfulfilledRecvs(j, s) = {}
  <2> TAKE j \in Ranks, s \in Slots
  <2>1. pendingRecv[j][s] = <<>> /\ anyCalls[j] = {}
    BY DEF Init
  <2>2. \A i \in Ranks : localPendingRecv[j][i][s] = <<>>
    BY DEF Init
  <2>3. ToSet(<<>>) = {}
    BY DEF ToSet
  <2> QED
    BY <2>1, <2>2, <2>3 DEF UnfulfilledRecvs
<1>3. /\ SendsBar = [i \in Ranks |-> [j \in Ranks |-> [s \in Slots |-> <<>>]]]
      /\ RecvsBar = [j \in Ranks |-> [s \in Slots |-> {}]]
  BY <1>1, <1>2 DEF SendsBar, RecvsBar
<1> QED
  BY <1>3 DEF Promise!Init, SendsBar, RecvsBar

(* A step of Matching.                                                     *)
LEMMA PromiseStep ==
  ASSUME NEW i \in Ranks, NEW j \in Ranks, NEW s \in Slots,
         \/ Promise!PostRecv(j, s)
         \/ i # j /\ (Promise!PostSend(i, j, s) \/ Promise!Deliver(i, j, s))
  PROVE  Promise!Next
BY DEF Promise!Next

Refines == HeldInv' /\ SentInv' /\ [Promise!Next]_(Promise!vars)

(* A step that neither posts nor delivers.                                 *)
LEMMA RefinesStutter ==
  ASSUME RecvTypes, RecvTypes', SentInv, HeldInv', SameHeld, UNCHANGED <<sent, delivered, nsend>>
  PROVE  Refines
<1>1. SendsBar' = SendsBar /\ RecvsBar' = RecvsBar
  BY SendsRemain, RecvsRemain
<1>2. UNCHANGED Promise!vars
  BY <1>1, PromiseStutter
<1>3. SentInv'
  BY DEF SentInv
<1> QED
  BY <1>2, <1>3 DEF Refines

LEMMA RefinesSend ==
  ASSUME RecvTypes, RecvTypes', NonOvertaking, HeldInv, SentInv,
         NEW i \in Ranks, NEW j \in Ranks, NEW s \in Slots, Send(i, j, s)
  PROVE  Refines
<1>1. UNCHANGED <<localPendingRecv, pendingRecv, anyCalls, nrecv>> /\ i # j
  BY DEF Send
<1>2. HeldInv' /\ SameHeld
  BY <1>1, HeldUnchanged
<1>3. RecvsBar' = RecvsBar
  BY <1>2, RecvsRemain
<1>4. SentInv' /\ sent[i][j][s] + 1 \in IdsBar
  BY SentStep
<1>5. SendsBar' = [SendsBar EXCEPT ![i][j][s] = Append(SendsBar[i][j][s], sent[i][j][s] + 1)]
  BY SendsPosted
<1>6. PICK n \in IdsBar : n = sent[i][j][s] + 1
  BY <1>4
<1>7. Promise!PostSend(i, j, s)
  BY <1>3, <1>5, <1>6, PromisePostSend
<1>8. Promise!Next
  BY <1>1, <1>7, PromiseStep
<1> QED
  BY <1>2, <1>4, <1>8 DEF Refines

(* A receive is posted, by Pair::recv or by recvFromAny.                   *)
LEMMA RefinesPost ==
  ASSUME RecvTypes, RecvTypes', HeldInv, SentInv, HeldInv', NEW j \in Ranks, NEW s \in Slots,
         NEW from \in SUBSET Ranks, nrecv[j] < MaxRecvs[j],
         Posts(j, s, [id |-> nrecv[j] + 1, from |-> from]), UNCHANGED <<sent, delivered, nsend>>
  PROVE  Refines
<1>1. SendsBar' = SendsBar
  BY SendsRemain
<1>2. nrecv[j] + 1 \in IdsBar /\ \A r \in RecvsBar[j][s] : r.id # nrecv[j] + 1
  BY RecvIsNew
<1>3. PICK n \in IdsBar : n = nrecv[j] + 1
  BY <1>2
<1>4. RecvsBar' = [RecvsBar EXCEPT ![j][s] = RecvsBar[j][s] \cup {[id |-> n, from |-> from]}]
  <2>1. PICK x : x = [id |-> n, from |-> from]
    OBVIOUS
  <2>2. Posts(j, s, x)
    BY <1>3, <2>1
  <2>3. RecvsBar' = [RecvsBar EXCEPT ![j][s] = RecvsBar[j][s] \cup {x}]
    BY <2>2, RecvsPosted
  <2> QED
    BY <2>1, <2>3
<1>5. \A r \in RecvsBar[j][s] : r.id # n
  BY <1>2, <1>3
<1>6. Promise!PostRecv(j, s)
  BY <1>1, <1>4, <1>5, PromisePostRecv
<1>7. Promise!Next
  BY <1>6, PromiseStep
<1>8. SentInv'
  BY DEF SentInv
<1> QED
  BY <1>7, <1>8 DEF Refines

LEMMA RefinesPayload ==
  ASSUME RecvTypes, RecvTypes', NonOvertaking, HeldInv, SentInv,
         NEW i \in Ranks, NEW j \in Ranks, NEW s \in Slots, ReceivePayload(i, j, s)
  PROVE  Refines
<1>1. PICK x : x = Head(localPendingRecv[j][i][s])
  OBVIOUS
<1>2. HeldInv' /\ Fulfils(j, s, x) /\ IsHeld(KeptNow(j, s), CallsNow(j, s), x) /\ i \in x.from
  BY <1>1, PayloadHeld
<1>3. x \in RecvsBar[j][s]
  BY <1>2, HeldMeaning, RecvsAt
<1>4. RecvsBar' = [RecvsBar EXCEPT ![j][s] = RecvsBar[j][s] \ {x}]
  BY <1>2, RecvsFulfilled
<1>5. /\ SendsBar[i][j][s] # <<>>
      /\ SendsBar' = [SendsBar EXCEPT ![i][j][s] = Tail(SendsBar[i][j][s])]
  BY SendsDelivered
<1>6. i # j
  <2>1. HeldAt(KeptNow(j, s), CallsNow(j, s), nrecv[j], j)
    BY DEF HeldInv
  <2>2. x.from \subseteq Ranks \ {j}
    BY <1>2, <2>1 DEF HeldAt
  <2> QED
    BY <1>2, <2>2
<1>7. Promise!Deliver(i, j, s)
  BY <1>2, <1>3, <1>4, <1>5, PromiseDeliver
<1>8. Promise!Next
  BY <1>6, <1>7, PromiseStep
<1>9. SentInv'
  BY DEF SentInv, ReceivePayload
<1> QED
  BY <1>2, <1>8, <1>9 DEF Refines

LEMMA NextRefines ==
  IInv /\ NonOvertaking /\ HeldInv /\ SentInv /\ [Next]_vars /\ IInv' => Refines
<1> SUFFICES ASSUME IInv, NonOvertaking, HeldInv, SentInv, [Next]_vars, IInv' PROVE Refines
  OBVIOUS
<1>0. RecvTypes /\ RecvTypes'
  BY DEF IInv, RecvTypes
<1>1. CASE UNCHANGED vars
  <2>1. UNCHANGED <<localPendingRecv, pendingRecv, anyCalls, nrecv>>
    BY <1>1 DEF vars, history
  <2>2. UNCHANGED <<sent, delivered, nsend>>
    BY <1>1 DEF vars, history
  <2>3. HeldInv' /\ SameHeld
    BY <2>1, HeldUnchanged
  <2> QED
    BY <1>0, <2>2, <2>3, RefinesStutter
<1>2. ASSUME NEW i \in Ranks, NEW j \in Ranks, NEW s \in Slots, Send(i, j, s)
      PROVE  Refines
  BY <1>0, <1>2, RefinesSend
<1>3. ASSUME NEW i \in Ranks, NEW j \in Ranks, NEW s \in Slots, RecvFrom(j, i, s)
      PROVE  Refines
  <2>1. HeldInv' /\ Posts(j, s, [id |-> nrecv[j] + 1, from |-> {i}])
    BY <1>0, <1>3, RecvFromHeld
  <2>2. nrecv[j] < MaxRecvs[j] /\ UNCHANGED <<sent, delivered, nsend>>
    BY <1>3 DEF RecvFrom
  <2>3. {i} \in SUBSET Ranks
    OBVIOUS
  <2> QED
    BY <1>0, <2>1, <2>2, <2>3, RefinesPost
<1>4. ASSUME NEW j \in Ranks, NEW s \in Slots, NEW from \in SUBSET Ranks, RecvFromAny(j, s, from)
      PROVE  Refines
  <2>1. HeldInv' /\ Posts(j, s, [id |-> nrecv[j] + 1, from |-> from])
    BY <1>0, <1>4, RecvFromAnyHeld
  <2>2. nrecv[j] < MaxRecvs[j] /\ UNCHANGED <<sent, delivered, nsend>>
    BY <1>4 DEF RecvFromAny
  <2> QED
    BY <1>0, <2>1, <2>2, RefinesPost
<1>5. ASSUME NEW j \in Ranks, NEW call \in anyCalls[j], RecvFromAnyFindRank(j, call)
      PROVE  Refines
  <2>1. HeldInv' /\ SameHeld
    BY <1>0, <1>5, FindRankHeld
  <2>2. UNCHANGED <<sent, delivered, nsend>>
    BY <1>5 DEF RecvFromAnyFindRank, history
  <2> QED
    BY <1>0, <2>1, <2>2, RefinesStutter
<1>6. ASSUME NEW j \in Ranks, NEW call \in anyCalls[j], TryRecv(j, call)
      PROVE  Refines
  <2>1. HeldInv' /\ SameHeld
    BY <1>0, <1>6, TryRecvHeld
  <2>2. UNCHANGED <<sent, delivered, nsend>>
    BY <1>6 DEF TryRecv, history
  <2> QED
    BY <1>0, <2>1, <2>2, RefinesStutter
<1>7. ASSUME NEW i \in Ranks, NEW j \in Ranks, NEW s \in Slots, HandleRemotePendingSend(i, j, s)
      PROVE  Refines
  <2>1. HeldInv' /\ SameHeld
    BY <1>0, <1>7, HandleSendHeld
  <2>2. UNCHANGED <<sent, delivered, nsend>>
    BY <1>7 DEF HandleRemotePendingSend, history
  <2> QED
    BY <1>0, <2>1, <2>2, RefinesStutter
<1>8. ASSUME NEW i \in Ranks, NEW j \in Ranks, NEW s \in Slots, HandleRemotePendingRecv(i, j, s)
      PROVE  Refines
  <2>1. UNCHANGED <<localPendingRecv, pendingRecv, anyCalls, nrecv>>
    BY <1>8 DEF HandleRemotePendingRecv, history
  <2>2. UNCHANGED <<sent, delivered, nsend>>
    BY <1>8 DEF HandleRemotePendingRecv, history
  <2>3. HeldInv' /\ SameHeld
    BY <2>1, HeldUnchanged
  <2> QED
    BY <1>0, <2>2, <2>3, RefinesStutter
<1>9. ASSUME NEW i \in Ranks, NEW j \in Ranks, NEW s \in Slots, ReceivePayload(i, j, s)
      PROVE  Refines
  BY <1>0, <1>9, RefinesPayload
<1>10. CASE \E i, j \in Ranks, s \in Slots : Send(i, j, s) \/ RecvFrom(j, i, s) \/ Handle(i, j, s)
  BY <1>10, <1>2, <1>3, <1>7, <1>8, <1>9 DEF Handle
<1>11. CASE \E j \in Ranks : \/ \E n \in 1 .. MaxRecvs[j] : CallStep(j, n)
                             \/ \E s \in Slots, from \in SUBSET Ranks : RecvFromAny(j, s, from)
  BY <1>11, <1>4, <1>5, <1>6 DEF CallStep
<1> QED
  BY <1>1, <1>10, <1>11 DEF Next

(* The safety part of DeliversWhatMatches: whatever the interleaving of    *)
(* Pair::send, Pair::recv, the two critical sections of recvFromAny and    *)
(* the handlers of the notifications, each payload goes to one posted and  *)
(* unfulfilled receive of its slot that accepts its source, and the sends  *)
(* of a rank are delivered in order, none twice.                           *)
THEOREM DeliversOnlyWhatMatches == Spec => Promise!Safety
<1> DEFINE Inv == IInv /\ NonOvertaking /\ HeldInv /\ SentInv
<1>1. Init => Inv
  BY InitIInv, InitOrder, InitHeld
<1>2. Inv /\ [Next]_vars => IInv' /\ NonOvertaking'
  BY NextIInv, NextOrder
<1>3. Inv /\ [Next]_vars => HeldInv' /\ SentInv' /\ [Promise!Next]_(Promise!vars)
  BY <1>2, NextRefines DEF Refines
<1>4. Inv /\ [Next]_vars => Inv'
  BY <1>2, <1>3
<1> HIDE DEF Inv
<1>5. Init => Promise!Init
  BY PromiseInit
<1> QED
  BY <1>1, <1>3, <1>4, <1>5, PTL DEF Spec, Promise!Safety
=============================================================================
