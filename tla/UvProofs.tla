------------------------------ MODULE UvProofs ------------------------------
(***************************************************************************)
(* Theorems about the libuv transport, for all messages, lengths, bounds   *)
(* and two ranks that may both send and receive.                           *)
(*                                                                         *)
(* The bytes of StreamAgrees and the parts of EventsMatchOps are made with *)
(* FlattenSeq, so the module begins with what FlattenSeq does to a longer  *)
(* and to a shorter sequence.  Then come the steps of one direction of a   *)
(* connection (Stream, Events and both together, Data), and those of one   *)
(* end of it (Link: which state goes with which handle and which functions *)
(* yet to run).  UvInv puts them together with the inductive invariant of  *)
(* the protocol, from SendRecvProofs.                                      *)
(***************************************************************************)
EXTENDS Uv, FiniteSetTheorems, SequenceTheorems, WellFoundedInduction, TLAPS

P == INSTANCE SendRecvProofs

-----------------------------------------------------------------------------
(* Induction up to N, on a set.                                            *)
LEMMA LeastNatural ==
  ASSUME NEW D, D \subseteq Nat, D # {}
  PROVE  \E m \in D : \A k \in D : m <= k
<1>1. PICK m \in D : \A k \in D : ~(<<k, m>> \in OpToRel(<, Nat))
  BY WFMin, NatLessThanWellFounded
<1>2. \A k \in D : ~(k < m)
  BY <1>1 DEF OpToRel
<1> QED
  BY <1>2

LEMMA UpTo ==
  ASSUME NEW N \in Nat, NEW S, 0 \in S, \A n \in 1 .. N : n - 1 \in S => n \in S
  PROVE  \A n \in 0 .. N : n \in S
<1> SUFFICES ASSUME NEW n \in 0 .. N, n \notin S PROVE FALSE
  OBVIOUS
<1> DEFINE D == {k \in 0 .. N : k \notin S}
<1>1. D \subseteq Nat /\ D # {}
  OBVIOUS
<1>2. PICK m \in D : \A k \in D : m <= k
  BY <1>1, LeastNatural
<1>3. m # 0 /\ m \in 1 .. N
  OBVIOUS
<1>4. m - 1 \in 0 .. N /\ m - 1 \notin D
  BY <1>2, <1>3
<1> QED
  BY <1>3, <1>4

-----------------------------------------------------------------------------
(* What FlattenSeq computes.  Its recursive function exists.               *)
IsFlattening(s, f, n) ==
  /\ f = [i \in 1 .. n |-> f[i]]
  /\ \A i \in 1 .. n : f[i] = IF i = 1 THEN s[i] ELSE f[i - 1] \o s[i]

LEMMA FlatteningExists ==
  ASSUME NEW s, NEW N \in Nat
  PROVE  \E f : IsFlattening(s, f, N)
<1> DEFINE S == {n \in 0 .. N : \E f : IsFlattening(s, f, n)}
<1>1. 0 \in S
  <2> DEFINE f == [i \in 1 .. 0 |-> <<>>]
  <2>1. IsFlattening(s, f, 0)
    BY DEF IsFlattening
  <2> QED
    BY <2>1
<1>2. ASSUME NEW n \in 1 .. N, n - 1 \in S PROVE n \in S
  <2>1. PICK f : IsFlattening(s, f, n - 1)
    BY <1>2
  <2> DEFINE g == [i \in 1 .. n |-> IF i < n THEN f[i]
                                    ELSE IF n = 1 THEN s[n] ELSE f[n - 1] \o s[n]]
  <2>2. g = [i \in 1 .. n |-> g[i]]
    OBVIOUS
  <2>3. ASSUME NEW i \in 1 .. n PROVE g[i] = IF i = 1 THEN s[i] ELSE g[i - 1] \o s[i]
    <3>1. CASE i = n
      <4>1. i # 1 => i - 1 \in 1 .. n /\ g[i - 1] = f[n - 1]
        BY <3>1
      <4> QED
        BY <3>1, <4>1
    <3>2. CASE i # n
      <4>1. i \in 1 .. n - 1 /\ g[i] = f[i]
        BY <3>2
      <4>2. i # 1 => i - 1 \in 1 .. n /\ g[i - 1] = f[i - 1]
        BY <3>2
      <4>3. f[i] = IF i = 1 THEN s[i] ELSE f[i - 1] \o s[i]
        BY <2>1, <4>1, Zenon DEF IsFlattening
      <4> QED
        BY <4>1, <4>2, <4>3, Zenon
    <3> QED
      BY <3>1, <3>2
  <2>4. IsFlattening(s, g, n)
    <3> HIDE DEF g
    <3> QED
      BY <2>2, <2>3, Zenon DEF IsFlattening
  <2> QED
    BY <2>4
<1>3. \A n \in 0 .. N : n \in S
  <2> HIDE DEF S
  <2> QED
    BY <1>1, <1>2, UpTo
<1> QED
  BY <1>3

Flattening(s) ==
  CHOOSE f : f = [i \in 1 .. Len(s) |-> IF i = 1 THEN s[i] ELSE f[i - 1] \o s[i]]

LEMMA FlattenDef ==
  ASSUME NEW s
  PROVE  FlattenSeq(s) = IF Len(s) = 0 THEN s ELSE Flattening(s)[Len(s)]
BY Zenon DEF FlattenSeq, Flattening

LEMMA FlatteningIsRight ==
  ASSUME NEW X, NEW s \in Seq(X)
  PROVE  \A i \in 1 .. Len(s) :
           Flattening(s)[i] = IF i = 1 THEN s[i] ELSE Flattening(s)[i - 1] \o s[i]
<1> DEFINE N == Len(s)
           F == Flattening(s)
<1>1. N \in Nat
  OBVIOUS
<1>2. PICK f : IsFlattening(s, f, N)
  BY <1>1, FlatteningExists
<1>3. f = [i \in 1 .. N |-> IF i = 1 THEN s[i] ELSE f[i - 1] \o s[i]]
  BY <1>2, Zenon DEF IsFlattening
<1>4. F = [i \in 1 .. Len(s) |-> IF i = 1 THEN s[i] ELSE F[i - 1] \o s[i]]
  BY <1>3, Zenon DEF Flattening
<1> HIDE DEF F
<1>5. \A i \in 1 .. Len(s) : F[i] = IF i = 1 THEN s[i] ELSE F[i - 1] \o s[i]
  BY <1>4, Zenon
<1> QED
  BY <1>5 DEF F

Regroups(p, q, r) == (p \o q) \o r = p \o (q \o r)

LEMMA Associative ==
  ASSUME NEW A, NEW p \in Seq(A), NEW q \in Seq(A), NEW r \in Seq(A)
  PROVE  Regroups(p, q, r)
BY ConcatAssociative DEF Regroups

LEMMA FlattenEmpty == FlattenSeq(<<>>) = <<>>
BY FlattenDef

LEMMA FlattenOne ==
  ASSUME NEW x
  PROVE  FlattenSeq(<<x>>) = x
<1> DEFINE s == <<x>>
<1>1. s \in Seq({x}) /\ Len(s) = 1 /\ s[1] = x
  OBVIOUS
<1> HIDE DEF s
<1>2. Flattening(s)[1] = s[1]
  BY <1>1, FlatteningIsRight
<1>3. FlattenSeq(s) = Flattening(s)[1]
  <2>1. FlattenSeq(s) = IF Len(s) = 0 THEN s ELSE Flattening(s)[Len(s)]
    BY FlattenDef, Zenon
  <2> QED
    BY <1>1, <2>1
<1> QED
  BY <1>1, <1>2, <1>3 DEF s

(* The function agrees on a common prefix.                                 *)
LEMMA FlatteningPrefix ==
  ASSUME NEW X, NEW s \in Seq(X), NEW t \in Seq(X),
         Len(s) <= Len(t), \A i \in 1 .. Len(s) : t[i] = s[i]
  PROVE  \A i \in 1 .. Len(s) : Flattening(t)[i] = Flattening(s)[i]
<1> DEFINE N == Len(s)
           S == {n \in 0 .. N : n > 0 => Flattening(t)[n] = Flattening(s)[n]}
<1>1. N \in Nat /\ Len(t) \in Nat
  OBVIOUS
<1>2. 0 \in S
  BY <1>1
<1>3. ASSUME NEW n \in 1 .. N, n - 1 \in S PROVE n \in S
  <2>1. n \in 1 .. Len(s) /\ n \in 1 .. Len(t) /\ t[n] = s[n]
    BY <1>1
  <2>2. /\ Flattening(s)[n] = IF n = 1 THEN s[n] ELSE Flattening(s)[n - 1] \o s[n]
        /\ Flattening(t)[n] = IF n = 1 THEN t[n] ELSE Flattening(t)[n - 1] \o t[n]
    BY <2>1, FlatteningIsRight, Zenon
  <2>3. n # 1 => Flattening(t)[n - 1] = Flattening(s)[n - 1]
    BY <1>1, <1>3
  <2>4. Flattening(t)[n] = Flattening(s)[n]
    BY <2>1, <2>2, <2>3, Zenon
  <2> QED
    BY <1>1, <2>4
<1>4. \A n \in 0 .. N : n \in S
  <2> HIDE DEF S
  <2> QED
    BY <1>1, <1>2, <1>3, UpTo
<1> QED
  BY <1>1, <1>4

LEMMA FlattenAppend ==
  ASSUME NEW X, NEW s \in Seq(Seq(X)), NEW x \in Seq(X)
  PROVE  FlattenSeq(Append(s, x)) = FlattenSeq(s) \o x
<1> DEFINE t == Append(s, x)
           N == Len(s)
<1>1. /\ t \in Seq(Seq(X)) /\ Len(t) = N + 1 /\ N \in Nat
      /\ t[N + 1] = x /\ \A i \in 1 .. N : t[i] = s[i]
  OBVIOUS
<1>2. CASE N = 0
  <2>1. s = <<>> /\ t = <<x>>
    BY <1>2
  <2>2. <<>> \o x = x
    OBVIOUS
  <2> QED
    BY <2>1, <2>2, FlattenEmpty, FlattenOne
<1>3. CASE N # 0
  <2> HIDE DEF t
  <2>1. FlattenSeq(s) = Flattening(s)[N] /\ FlattenSeq(t) = Flattening(t)[N + 1]
    <3>1. FlattenSeq(s) = IF Len(s) = 0 THEN s ELSE Flattening(s)[Len(s)]
      BY FlattenDef, Zenon
    <3>2. FlattenSeq(t) = IF Len(t) = 0 THEN t ELSE Flattening(t)[Len(t)]
      BY FlattenDef, Zenon
    <3> QED
      BY <1>1, <1>3, <3>1, <3>2
  <2>2. Flattening(t)[N] = Flattening(s)[N]
    <3>1. Len(s) <= Len(t) /\ \A i \in 1 .. Len(s) : t[i] = s[i]
      BY <1>1
    <3>2. \A i \in 1 .. Len(s) : Flattening(t)[i] = Flattening(s)[i]
      BY <1>1, <3>1, FlatteningPrefix, Zenon
    <3> QED
      BY <1>1, <1>3, <3>2
  <2>3. Flattening(t)[N + 1] = IF N + 1 = 1 THEN t[N + 1] ELSE Flattening(t)[N + 1 - 1] \o t[N + 1]
    <3>1. N + 1 \in 1 .. Len(t)
      BY <1>1
    <3>2. \A i \in 1 .. Len(t) :
            Flattening(t)[i] = IF i = 1 THEN t[i] ELSE Flattening(t)[i - 1] \o t[i]
      BY <1>1, FlatteningIsRight, Zenon
    <3> QED
      BY ONLY <3>1, <3>2
  <2>4. N + 1 # 1 /\ N + 1 - 1 = N
    BY <1>1, <1>3
  <2>5. FlattenSeq(t) = FlattenSeq(s) \o x
    BY <1>1, <2>1, <2>2, <2>3, <2>4
  <2> QED
    BY <2>5 DEF t
<1> QED
  BY <1>2, <1>3

LEMMA FlattenType ==
  ASSUME NEW X, NEW s \in Seq(Seq(X))
  PROVE  FlattenSeq(s) \in Seq(X)
<1> DEFINE N == Len(s)
           S == {n \in 0 .. N : n > 0 => Flattening(s)[n] \in Seq(X)}
<1>1. N \in Nat
  OBVIOUS
<1>2. 0 \in S
  BY <1>1
<1>3. ASSUME NEW n \in 1 .. N, n - 1 \in S PROVE n \in S
  <2>1. n \in 1 .. Len(s) /\ s[n] \in Seq(X)
    BY <1>1
  <2>2. Flattening(s)[n] = IF n = 1 THEN s[n] ELSE Flattening(s)[n - 1] \o s[n]
    BY <2>1, FlatteningIsRight, Zenon
  <2>3. n # 1 => Flattening(s)[n - 1] \in Seq(X)
    BY <1>1, <1>3
  <2>4. Flattening(s)[n] \in Seq(X)
    BY <2>1, <2>2, <2>3
  <2> QED
    BY <1>1, <2>4
<1>4. \A n \in 0 .. N : n \in S
  <2> HIDE DEF S
  <2> QED
    BY <1>1, <1>2, <1>3, UpTo
<1>5. FlattenSeq(s) = IF N = 0 THEN s ELSE Flattening(s)[N]
  BY FlattenDef
<1>6. CASE N = 0
  <2>1. s = <<>>
    BY <1>6
  <2> QED
    BY <2>1, FlattenEmpty, EmptySeq, Zenon
<1>7. CASE N # 0
  <2>1. N \in 0 .. N /\ N > 0
    BY <1>1, <1>7
  <2> QED
    BY <1>4, <1>5, <1>7, <2>1
<1> QED
  BY <1>6, <1>7

LEMMA FlattenConcat ==
  ASSUME NEW X, NEW s \in Seq(Seq(X)), NEW t \in Seq(Seq(X))
  PROVE  FlattenSeq(s \o t) = FlattenSeq(s) \o FlattenSeq(t)
<1> DEFINE N == Len(t)
           T(n) == SubSeq(t, 1, n)
           S == {n \in 0 .. N : FlattenSeq(s \o T(n)) = FlattenSeq(s) \o FlattenSeq(T(n))}
<1>1. N \in Nat
  OBVIOUS
<1>2. 0 \in S
  <2>1. T(0) = <<>>
    BY SubSeqEmpty
  <2>2. s \o <<>> = s
    OBVIOUS
  <2>3. FlattenSeq(s) \o <<>> = FlattenSeq(s)
    BY FlattenType
  <2>4. 0 \in 0 .. N
    BY <1>1
  <2> QED
    BY <2>1, <2>2, <2>3, <2>4, FlattenEmpty, Zenon
<1>3. ASSUME NEW n \in 1 .. N, n - 1 \in S PROVE n \in S
  <2>1. T(n - 1) \in Seq(Seq(X)) /\ T(n) \in Seq(Seq(X)) /\ t[n] \in Seq(X)
    BY <1>1
  <2>2. T(n) = Append(T(n - 1), t[n])
    BY <1>1, SubSeqRecursiveSecond
  <2> DEFINE u == T(n - 1)
             v == T(n)
  <2>3. u \in Seq(Seq(X)) /\ v = Append(u, t[n])
        /\ FlattenSeq(s \o u) = FlattenSeq(s) \o FlattenSeq(u)
    BY <1>3, <2>1, <2>2
  <2> HIDE DEF u, v, S, T
  <2>4. s \o v = Append(s \o u, t[n]) /\ s \o u \in Seq(Seq(X))
    <3> DEFINE Y == Seq(X)
               y == t[n]
    <3>1. u \in Seq(Y) /\ s \in Seq(Y) /\ y \in Y
      BY <2>1, <2>3
    <3> HIDE DEF Y, y
    <3>2. s \o Append(u, y) = Append(s \o u, y) /\ s \o u \in Seq(Y)
      BY <3>1
    <3> QED
      BY <2>3, <3>2 DEF Y, y
  <2>5. FlattenSeq(s \o v) = FlattenSeq(s \o u) \o t[n]
    BY <2>1, <2>4, FlattenAppend
  <2>6. FlattenSeq(v) = FlattenSeq(u) \o t[n]
    BY <2>1, <2>3, FlattenAppend
  <2>7. FlattenSeq(s) \in Seq(X) /\ FlattenSeq(u) \in Seq(X)
    BY <2>3, FlattenType
  <2>8. FlattenSeq(s \o u) \o t[n] = FlattenSeq(s) \o FlattenSeq(v)
    <3>1. Regroups(FlattenSeq(s), FlattenSeq(u), t[n])
      BY <2>1, <2>7, Associative, Zenon
    <3> QED
      BY <2>3, <2>6, <3>1, Zenon DEF Regroups
  <2>9. FlattenSeq(s \o v) = FlattenSeq(s) \o FlattenSeq(v)
    BY <2>5, <2>8, Zenon
  <2>10. n \in 0 .. N
    BY <1>1
  <2> QED
    BY <2>9, <2>10, Zenon DEF S, v
<1>4. \A n \in 0 .. N : n \in S
  <2> HIDE DEF S
  <2> QED
    BY <1>1, <1>2, <1>3, UpTo
<1>5. T(N) = t
  BY SubSeqFull
<1>6. N \in S
  BY <1>1, <1>4
<1> QED
  BY <1>5, <1>6

-----------------------------------------------------------------------------
(* What the properties list is flattened from what a function G gives for  *)
(* each element.                                                           *)
Map(G, s) == [k \in DOMAIN s |-> G[s[k]]]
FlatMap(G, s) == FlattenSeq(Map(G, s))

IsMap(Y, G, s, m) ==
  m \in Seq(Y) /\ Len(m) = Len(s) /\ \A k \in 1 .. Len(s) : m[k] = G[s[k]]

LEMMA MapType ==
  ASSUME NEW X, NEW Y, NEW G \in [X -> Y], NEW s \in Seq(X)
  PROVE  IsMap(Y, G, s, Map(G, s))
<1>1. Len(s) \in Nat /\ DOMAIN s = 1 .. Len(s) /\ \A k \in 1 .. Len(s) : s[k] \in X
  OBVIOUS
<1>2. Map(G, s) = [k \in 1 .. Len(s) |-> G[s[k]]]
  BY <1>1, Zenon DEF Map
<1>3. \A k \in 1 .. Len(s) : G[s[k]] \in Y
  BY <1>1
<1> QED
  BY <1>1, <1>2, <1>3 DEF IsMap

MapDistributes(G, s, t) == Map(G, s \o t) = Map(G, s) \o Map(G, t)

LEMMA MapConcat ==
  ASSUME NEW X, NEW Y, NEW G \in [X -> Y], NEW s \in Seq(X), NEW t \in Seq(X)
  PROVE  MapDistributes(G, s, t)
<1> DEFINE st == s \o t
           l == Map(G, st)
           a == Map(G, s)
           b == Map(G, t)
<1>1. st \in Seq(X) /\ Len(st) = Len(s) + Len(t) /\ Len(s) \in Nat /\ Len(t) \in Nat
  OBVIOUS
<1>2. \A k \in 1 .. Len(s) + Len(t) : st[k] = IF k <= Len(s) THEN s[k] ELSE t[k - Len(s)]
  OBVIOUS
<1> HIDE DEF st
<1>3. l \in Seq(Y) /\ Len(l) = Len(st) /\ \A k \in 1 .. Len(st) : l[k] = G[st[k]]
  <2>1. IsMap(Y, G, st, l)
    BY <1>1, MapType, Zenon
  <2> QED
    BY <2>1, Zenon DEF IsMap
<1>4. a \in Seq(Y) /\ Len(a) = Len(s) /\ \A k \in 1 .. Len(s) : a[k] = G[s[k]]
  <2>1. IsMap(Y, G, s, a)
    BY <1>1, MapType, Zenon
  <2> QED
    BY <2>1, Zenon DEF IsMap
<1>5. b \in Seq(Y) /\ Len(b) = Len(t) /\ \A k \in 1 .. Len(t) : b[k] = G[t[k]]
  <2>1. IsMap(Y, G, t, b)
    BY <1>1, MapType, Zenon
  <2> QED
    BY <2>1, Zenon DEF IsMap
<1> HIDE DEF l, a, b
<1>6. a \o b \in Seq(Y) /\ Len(a \o b) = Len(l)
  <2>1. a \in Seq(Y) /\ b \in Seq(Y) /\ Len(l) = Len(a) + Len(b)
    BY <1>1, <1>3, <1>4, <1>5
  <2> QED
    BY <2>1
<1>7. ASSUME NEW k \in 1 .. Len(l) PROVE l[k] = (a \o b)[k]
  <2>1. k \in 1 .. Len(s) + Len(t) /\ l[k] = G[st[k]]
    BY <1>1, <1>3
  <2>2. (a \o b)[k] = IF k <= Len(a) THEN a[k] ELSE b[k - Len(a)]
    BY <1>1, <1>3, <1>4, <1>5
  <2>3. CASE k <= Len(s)
    BY <1>1, <1>2, <1>4, <2>1, <2>2, <2>3
  <2>4. CASE ~(k <= Len(s))
    <3>1. k - Len(s) \in 1 .. Len(t)
      BY <1>1, <2>1, <2>4
    <3> QED
      BY <1>1, <1>2, <1>4, <1>5, <2>1, <2>2, <2>4, <3>1
  <2> QED
    BY <2>3, <2>4
<1>8. l = a \o b
  BY <1>3, <1>6, <1>7, SeqEqual
<1> QED
  BY <1>8 DEF l, a, b, st, MapDistributes

LEMMA FlatMapType ==
  ASSUME NEW X, NEW Y, NEW G \in [X -> Seq(Y)], NEW s \in Seq(X)
  PROVE  FlatMap(G, s) \in Seq(Y)
<1>1. Map(G, s) \in Seq(Seq(Y))
  BY MapType, Zenon DEF IsMap
<1> QED
  BY <1>1, FlattenType, Zenon DEF FlatMap

LEMMA FlatMapEmpty ==
  ASSUME NEW G
  PROVE  FlatMap(G, <<>>) = <<>>
<1>1. Map(G, <<>>) = <<>>
  BY DEF Map
<1> QED
  BY <1>1, FlattenEmpty, Zenon DEF FlatMap

LEMMA FlatMapOne ==
  ASSUME NEW G, NEW x
  PROVE  FlatMap(G, <<x>>) = G[x]
<1>1. Map(G, <<x>>) = <<G[x]>>
  BY DEF Map
<1> QED
  BY <1>1, FlattenOne, Zenon DEF FlatMap

Distributes(G, s, t) == FlatMap(G, s \o t) = FlatMap(G, s) \o FlatMap(G, t)

LEMMA FlatMapConcat ==
  ASSUME NEW X, NEW Y, NEW G \in [X -> Seq(Y)], NEW s \in Seq(X), NEW t \in Seq(X)
  PROVE  Distributes(G, s, t)
<1>1. Map(G, s) \in Seq(Seq(Y)) /\ Map(G, t) \in Seq(Seq(Y))
  BY MapType, Zenon DEF IsMap
<1>2. MapDistributes(G, s, t)
  BY MapConcat, Zenon
<1>3. FlattenSeq(Map(G, s) \o Map(G, t)) = FlattenSeq(Map(G, s)) \o FlattenSeq(Map(G, t))
  BY <1>1, FlattenConcat, Zenon
<1> QED
  BY <1>2, <1>3, Zenon DEF FlatMap, MapDistributes, Distributes

Peels(G, s) == FlatMap(G, s) = G[Head(s)] \o FlatMap(G, Tail(s))

LEMMA FlatMapTail ==
  ASSUME NEW X, NEW Y, NEW G \in [X -> Seq(Y)], NEW s \in Seq(X), s # <<>>
  PROVE  Peels(G, s)
<1> DEFINE x == Head(s)
           t == Tail(s)
<1>1. x \in X /\ t \in Seq(X) /\ <<x>> \in Seq(X) /\ s = <<x>> \o t
  OBVIOUS
<1> HIDE DEF x, t
<1>2. Distributes(G, <<x>>, t)
  BY <1>1, FlatMapConcat, Zenon
<1>3. FlatMap(G, <<x>>) = G[x]
  BY FlatMapOne, Zenon
<1>4. FlatMap(G, s) = G[x] \o FlatMap(G, t)
  BY <1>1, <1>2, <1>3, Zenon DEF Distributes
<1> QED
  BY <1>4 DEF x, t, Peels

-----------------------------------------------------------------------------
(* The types of what TypeOK leaves open.                                   *)
Kinds == {"preamble", "payload"}
Byte == M!Message \X Kinds
Part == [n : Nat, msg : M!Message, part : Kinds]
Request == [n : Nat, msg : M!Message, part : Kinds, done : BOOLEAN]

(* Only an operation with a payload is ever left half written.             *)
Operation ==
  {op \in [n : Nat, msg : M!Message, late : BOOLEAN, nwritten : {0, Preamble}] :
     op.nwritten # 0 => op.msg.opcode = "SEND_UNBOUND_BUFFER"}

Function ==
  [fn : {"write"}, op : Operation]
    \cup {Fn("close"), Fn("connectAsListener"), Fn("connectAsInitiator")}

LEMMA LengthIsNat ==
  ASSUME NEW msg \in M!Message
  PROVE  Length(msg) \in Nat
BY LengthsAssumption DEF Length, M!Message

LEMMA BytesType ==
  ASSUME NEW msg \in M!Message, NEW part \in Kinds
  PROVE  /\ Bytes(msg, part) \in Seq(Byte)
         /\ Len(Bytes(msg, part)) = IF part = "preamble" THEN Preamble ELSE Length(msg)
         /\ \A k \in 1 .. Len(Bytes(msg, part)) : Bytes(msg, part)[k] = <<msg, part>>
<1> DEFINE N == IF part = "preamble" THEN Preamble ELSE Length(msg)
<1>1. N \in Nat
  BY LengthIsNat, LengthsAssumption
<1>2. Bytes(msg, part) = [k \in 1 .. N |-> <<msg, part>>]
  BY DEF Bytes
<1>3. <<msg, part>> \in Byte
  BY DEF Byte
<1> HIDE DEF N
<1>4. /\ Bytes(msg, part) \in Seq(Byte)
      /\ Len(Bytes(msg, part)) = N
      /\ \A k \in 1 .. N : Bytes(msg, part)[k] = <<msg, part>>
  BY <1>1, <1>2, <1>3
<1> QED
  BY <1>4 DEF N

(* The parts of an operation, with and without a payload.                  *)
PartOf(q) == [n |-> q.n, msg |-> q.msg, part |-> q.part]
ThePart(op, part) == [n |-> op.n, msg |-> op.msg, part |-> part]

LEMMA PartsOfIs ==
  ASSUME NEW op
  PROVE  PartsOf(op) = IF op.msg.opcode = "SEND_UNBOUND_BUFFER"
                       THEN <<ThePart(op, "preamble"), ThePart(op, "payload")>>
                       ELSE <<ThePart(op, "preamble")>>
<1>1. CASE op.msg.opcode = "SEND_UNBOUND_BUFFER"
  <2>1. Parts(op.msg) = <<"preamble", "payload">>
    BY <1>1 DEF Parts
  <2>2. PartsOf(op) = [k \in 1 .. 2 |-> [n |-> op.n, msg |-> op.msg, part |-> <<"preamble", "payload">>[k]]]
    BY <2>1 DEF PartsOf
  <2> QED
    BY <1>1, <2>2 DEF ThePart
<1>2. CASE op.msg.opcode # "SEND_UNBOUND_BUFFER"
  <2>1. Parts(op.msg) = <<"preamble">>
    BY <1>2 DEF Parts
  <2>2. PartsOf(op) = [k \in 1 .. 1 |-> [n |-> op.n, msg |-> op.msg, part |-> <<"preamble">>[k]]]
    BY <2>1 DEF PartsOf
  <2> QED
    BY <1>2, <2>2 DEF ThePart
<1> QED
  BY <1>1, <1>2

LEMMA ThePartType ==
  ASSUME NEW op, op.n \in Nat, op.msg \in M!Message, NEW part \in Kinds
  PROVE  ThePart(op, part) \in Part
BY DEF ThePart, Part

LEMMA PartsOfType ==
  ASSUME NEW op, op.n \in Nat, op.msg \in M!Message
  PROVE  /\ PartsOf(op) \in Seq(Part)
         /\ Tail(PartsOf(op)) \in Seq(Part)
<1>1. ThePart(op, "preamble") \in Part /\ ThePart(op, "payload") \in Part
  BY ThePartType DEF Kinds
<1> DEFINE a == ThePart(op, "preamble")
           b == ThePart(op, "payload")
<1>2. PartsOf(op) = <<a, b>> \/ PartsOf(op) = <<a>>
  BY PartsOfIs, Zenon
<1>3. a \in Part /\ b \in Part
  BY <1>1
<1> HIDE DEF a, b
<1>4. <<a, b>> \in Seq(Part) /\ <<a>> \in Seq(Part)
  BY <1>3
<1>5. Tail(<<a, b>>) \in Seq(Part) /\ Tail(<<a>>) \in Seq(Part)
  BY <1>3
<1> QED
  BY <1>2, <1>4, <1>5, Zenon

LEMMA OperationFields ==
  ASSUME NEW op \in Operation
  PROVE  /\ op.n \in Nat /\ op.msg \in M!Message /\ op.late \in BOOLEAN
         /\ op.nwritten \in {0, Preamble}
         /\ op.nwritten # 0 => op.msg.opcode = "SEND_UNBOUND_BUFFER"
BY DEF Operation

-----------------------------------------------------------------------------
(* The flattened sequences of the properties, as FlatMap.                  *)
FnParts == [f \in Function |-> IF f.fn = "write" THEN PartsOf(f.op) ELSE <<>>]
ReqPart == [q \in Request |-> PartOf(q)]
PartRun == [x \in Part |-> Bytes(x.msg, x.part)]
MsgRun == [m \in M!Message |-> Bytes(m, "preamble") \o Bytes(m, "payload")]
OpParts == [op \in Operation |-> IF op.nwritten = 0 THEN PartsOf(op) ELSE Tail(PartsOf(op))]

LEMMA FunctionKinds ==
  ASSUME NEW f \in Function
  PROVE  f.fn = "write" => f.op \in Operation
BY DEF Function, Fn

LEMMA FlatMaps ==
  /\ FnParts \in [Function -> Seq(Part)]
  /\ ReqPart \in [Request -> Part]
  /\ PartRun \in [Part -> Seq(Byte)]
  /\ MsgRun \in [M!Message -> Seq(Byte)]
  /\ OpParts \in [Operation -> Seq(Part)]
<1>1. ASSUME NEW f \in Function
      PROVE  (IF f.fn = "write" THEN PartsOf(f.op) ELSE <<>>) \in Seq(Part)
  <2>1. CASE f.fn = "write"
    <3>1. f.op.n \in Nat /\ f.op.msg \in M!Message
      BY <2>1, FunctionKinds, OperationFields
    <3> QED
      BY <2>1, <3>1, PartsOfType, Zenon
  <2>2. CASE f.fn # "write"
    BY <2>2, EmptySeq, Zenon
  <2> QED
    BY <2>1, <2>2
<1>2. ASSUME NEW q \in Request PROVE PartOf(q) \in Part
  BY DEF PartOf, Part, Request
<1>3. ASSUME NEW x \in Part PROVE Bytes(x.msg, x.part) \in Seq(Byte)
  <2>1. x.msg \in M!Message /\ x.part \in Kinds
    BY DEF Part
  <2> QED
    BY <2>1, BytesType, Zenon
<1>4. ASSUME NEW m \in M!Message
      PROVE  Bytes(m, "preamble") \o Bytes(m, "payload") \in Seq(Byte)
  <2>1. "preamble" \in Kinds /\ "payload" \in Kinds
    BY DEF Kinds
  <2>2. Bytes(m, "preamble") \in Seq(Byte) /\ Bytes(m, "payload") \in Seq(Byte)
    BY <2>1, BytesType, Zenon
  <2> QED
    BY <2>2
<1>5. ASSUME NEW op \in Operation
      PROVE  (IF op.nwritten = 0 THEN PartsOf(op) ELSE Tail(PartsOf(op))) \in Seq(Part)
  <2>1. op.n \in Nat /\ op.msg \in M!Message
    BY OperationFields
  <2>2. PartsOf(op) \in Seq(Part) /\ Tail(PartsOf(op)) \in Seq(Part)
    BY <2>1, PartsOfType, Zenon
  <2> QED
    BY <2>2, Zenon
<1>6. FnParts \in [Function -> Seq(Part)]
  BY <1>1, Zenon DEF FnParts
<1>7. ReqPart \in [Request -> Part]
  BY <1>2, Zenon DEF ReqPart
<1>8. PartRun \in [Part -> Seq(Byte)]
  BY <1>3, Zenon DEF PartRun
<1>9. MsgRun \in [M!Message -> Seq(Byte)]
  BY <1>4, Zenon DEF MsgRun
<1>10. OpParts \in [Operation -> Seq(Part)]
  BY <1>5, Zenon DEF OpParts
<1> QED
  BY <1>6, <1>7, <1>8, <1>9, <1>10

LEMMA FunctionPartsIs ==
  ASSUME NEW fns \in Seq(Function)
  PROVE  FunctionParts(fns) = FlatMap(FnParts, fns)
<1>1. \A k \in DOMAIN fns : fns[k] \in Function
  OBVIOUS
<1>2. \A k \in DOMAIN fns :
        FnParts[fns[k]] = IF fns[k].fn = "write" THEN PartsOf(fns[k].op) ELSE <<>>
  BY <1>1, Zenon DEF FnParts
<1>3. Map(FnParts, fns) =
        [k \in DOMAIN fns |-> IF fns[k].fn = "write" THEN PartsOf(fns[k].op) ELSE <<>>]
  BY <1>2, Zenon DEF Map
<1> QED
  BY <1>3, Zenon DEF FunctionParts, FlatMap

LEMMA RequestPartsIs ==
  ASSUME NEW reqs \in Seq(Request)
  PROVE  RequestParts(reqs) = Map(ReqPart, reqs)
<1>1. \A k \in DOMAIN reqs : reqs[k] \in Request
  OBVIOUS
<1>2. \A k \in DOMAIN reqs :
        ReqPart[reqs[k]] = [n |-> reqs[k].n, msg |-> reqs[k].msg, part |-> reqs[k].part]
  BY <1>1, Zenon DEF ReqPart, PartOf
<1> QED
  BY <1>2, Zenon DEF RequestParts, Map

LEMMA PartBytesIs ==
  ASSUME NEW parts \in Seq(Part)
  PROVE  PartBytes(parts) = FlatMap(PartRun, parts)
<1>1. \A k \in DOMAIN parts : parts[k] \in Part
  OBVIOUS
<1>2. \A k \in DOMAIN parts : PartRun[parts[k]] = Bytes(parts[k].msg, parts[k].part)
  BY <1>1, Zenon DEF PartRun
<1>3. Map(PartRun, parts) = [k \in DOMAIN parts |-> Bytes(parts[k].msg, parts[k].part)]
  BY <1>2, Zenon DEF Map
<1> QED
  BY <1>3, Zenon DEF PartBytes, FlatMap

LEMMA MessageBytesIs ==
  ASSUME NEW msgs \in Seq(M!Message)
  PROVE  MessageBytes(msgs) = FlatMap(MsgRun, msgs)
<1>1. \A k \in DOMAIN msgs : msgs[k] \in M!Message
  OBVIOUS
<1>2. \A k \in DOMAIN msgs :
        MsgRun[msgs[k]] = Bytes(msgs[k], "preamble") \o Bytes(msgs[k], "payload")
  BY <1>1, Zenon DEF MsgRun
<1>3. Map(MsgRun, msgs) =
        [k \in DOMAIN msgs |-> Bytes(msgs[k], "preamble") \o Bytes(msgs[k], "payload")]
  BY <1>2, Zenon DEF Map
<1> QED
  BY <1>3, Zenon DEF MessageBytes, FlatMap

LEMMA AwaitedIs ==
  ASSUME NEW ops \in Seq(Operation)
  PROVE  Awaited(ops) = FlatMap(OpParts, ops)
<1>1. \A k \in DOMAIN ops : ops[k] \in Operation
  OBVIOUS
<1>2. \A k \in DOMAIN ops :
        OpParts[ops[k]] = IF ops[k].nwritten = 0 THEN PartsOf(ops[k]) ELSE Tail(PartsOf(ops[k]))
  BY <1>1, Zenon DEF OpParts
<1>3. Map(OpParts, ops) =
        [k \in DOMAIN ops |->
           IF ops[k].nwritten = 0 THEN PartsOf(ops[k]) ELSE Tail(PartsOf(ops[k]))]
  BY <1>2, Zenon DEF Map
<1> QED
  BY <1>3, Zenon DEF Awaited, FlatMap

-----------------------------------------------------------------------------
(* How they grow and shrink.                                               *)
LEMMA PartBytesType ==
  ASSUME NEW parts \in Seq(Part)
  PROVE  PartBytes(parts) \in Seq(Byte)
<1>1. FlatMap(PartRun, parts) \in Seq(Byte)
  BY FlatMaps, FlatMapType, Zenon
<1> QED
  BY <1>1, PartBytesIs, Zenon

LEMMA PartBytesConcat ==
  ASSUME NEW s \in Seq(Part), NEW t \in Seq(Part)
  PROVE  PartBytes(s \o t) = PartBytes(s) \o PartBytes(t)
<1>1. s \o t \in Seq(Part)
  OBVIOUS
<1>2. Distributes(PartRun, s, t)
  BY FlatMaps, FlatMapConcat, Zenon
<1>3. /\ PartBytes(s) = FlatMap(PartRun, s) /\ PartBytes(t) = FlatMap(PartRun, t)
      /\ PartBytes(s \o t) = FlatMap(PartRun, s \o t)
  BY <1>1, PartBytesIs, Zenon
<1> QED
  BY <1>2, <1>3, Zenon DEF Distributes

LEMMA PartBytesOne ==
  ASSUME NEW x \in Part
  PROVE  PartBytes(<<x>>) = Bytes(x.msg, x.part)
<1>1. <<x>> \in Seq(Part)
  OBVIOUS
<1>2. PartBytes(<<x>>) = FlatMap(PartRun, <<x>>)
  BY <1>1, PartBytesIs, Zenon
<1>3. FlatMap(PartRun, <<x>>) = PartRun[x]
  BY FlatMapOne, Zenon
<1>4. PartRun[x] = Bytes(x.msg, x.part)
  BY Zenon DEF PartRun
<1> QED
  BY <1>2, <1>3, <1>4, Zenon

LEMMA PartBytesEmpty == PartBytes(<<>>) = <<>>
<1>1. PartBytes(<<>>) = FlatMap(PartRun, <<>>)
  BY PartBytesIs, EmptySeq, Zenon
<1> QED
  BY <1>1, FlatMapEmpty, Zenon

LEMMA MessageBytesType ==
  ASSUME NEW msgs \in Seq(M!Message)
  PROVE  MessageBytes(msgs) \in Seq(Byte)
<1>1. FlatMap(MsgRun, msgs) \in Seq(Byte)
  BY FlatMaps, FlatMapType, Zenon
<1> QED
  BY <1>1, MessageBytesIs, Zenon

LEMMA MessageBytesEmpty == MessageBytes(<<>>) = <<>>
<1>1. MessageBytes(<<>>) = FlatMap(MsgRun, <<>>)
  BY MessageBytesIs, EmptySeq, Zenon
<1> QED
  BY <1>1, FlatMapEmpty, Zenon

LEMMA MessageBytesConcat ==
  ASSUME NEW s \in Seq(M!Message), NEW t \in Seq(M!Message)
  PROVE  MessageBytes(s \o t) = MessageBytes(s) \o MessageBytes(t)
<1>1. s \o t \in Seq(M!Message)
  OBVIOUS
<1>2. Distributes(MsgRun, s, t)
  BY FlatMaps, FlatMapConcat, Zenon
<1>3. /\ MessageBytes(s) = FlatMap(MsgRun, s) /\ MessageBytes(t) = FlatMap(MsgRun, t)
      /\ MessageBytes(s \o t) = FlatMap(MsgRun, s \o t)
  BY <1>1, MessageBytesIs, Zenon
<1> QED
  BY <1>2, <1>3, Zenon DEF Distributes

LEMMA MessageBytesOne ==
  ASSUME NEW m \in M!Message
  PROVE  MessageBytes(<<m>>) = Bytes(m, "preamble") \o Bytes(m, "payload")
<1>1. <<m>> \in Seq(M!Message)
  OBVIOUS
<1>2. MessageBytes(<<m>>) = FlatMap(MsgRun, <<m>>)
  BY <1>1, MessageBytesIs, Zenon
<1>3. FlatMap(MsgRun, <<m>>) = MsgRun[m]
  BY FlatMapOne, Zenon
<1>4. MsgRun[m] = Bytes(m, "preamble") \o Bytes(m, "payload")
  BY Zenon DEF MsgRun
<1> QED
  BY <1>2, <1>3, <1>4, Zenon

LEMMA MessageBytesTail ==
  ASSUME NEW msgs \in Seq(M!Message), msgs # <<>>
  PROVE  MessageBytes(msgs) =
           (Bytes(Head(msgs), "preamble") \o Bytes(Head(msgs), "payload")) \o MessageBytes(Tail(msgs))
<1> DEFINE m == Head(msgs)
           t == Tail(msgs)
<1>1. m \in M!Message /\ t \in Seq(M!Message)
  OBVIOUS
<1>2. Peels(MsgRun, msgs)
  BY FlatMaps, FlatMapTail, Zenon
<1>3. MessageBytes(msgs) = FlatMap(MsgRun, msgs) /\ MessageBytes(t) = FlatMap(MsgRun, t)
  BY <1>1, MessageBytesIs, Zenon
<1>4. MsgRun[m] = Bytes(m, "preamble") \o Bytes(m, "payload")
  BY <1>1, Zenon DEF MsgRun
<1> QED
  BY <1>2, <1>3, <1>4, Zenon DEF Peels

LEMMA FunctionPartsType ==
  ASSUME NEW fns \in Seq(Function)
  PROVE  FunctionParts(fns) \in Seq(Part)
<1>1. FlatMap(FnParts, fns) \in Seq(Part)
  BY FlatMaps, FlatMapType, Zenon
<1> QED
  BY <1>1, FunctionPartsIs, Zenon

LEMMA FunctionPartsEmpty == FunctionParts(<<>>) = <<>>
<1>1. FunctionParts(<<>>) = FlatMap(FnParts, <<>>)
  BY FunctionPartsIs, EmptySeq, Zenon
<1> QED
  BY <1>1, FlatMapEmpty, Zenon

LEMMA FunctionPartsConcat ==
  ASSUME NEW s \in Seq(Function), NEW t \in Seq(Function)
  PROVE  FunctionParts(s \o t) = FunctionParts(s) \o FunctionParts(t)
<1>1. s \o t \in Seq(Function)
  OBVIOUS
<1>2. Distributes(FnParts, s, t)
  BY FlatMaps, FlatMapConcat, Zenon
<1>3. /\ FunctionParts(s) = FlatMap(FnParts, s) /\ FunctionParts(t) = FlatMap(FnParts, t)
      /\ FunctionParts(s \o t) = FlatMap(FnParts, s \o t)
  BY <1>1, FunctionPartsIs, Zenon
<1> QED
  BY <1>2, <1>3, Zenon DEF Distributes

LEMMA FunctionPartsTail ==
  ASSUME NEW fns \in Seq(Function), fns # <<>>, Head(fns).fn = "write"
  PROVE  FunctionParts(fns) = PartsOf(Head(fns).op) \o FunctionParts(Tail(fns))
<1> DEFINE f == Head(fns)
           t == Tail(fns)
<1>1. f \in Function /\ t \in Seq(Function)
  OBVIOUS
<1>2. Peels(FnParts, fns)
  BY FlatMaps, FlatMapTail, Zenon
<1>3. FunctionParts(fns) = FlatMap(FnParts, fns) /\ FunctionParts(t) = FlatMap(FnParts, t)
  BY <1>1, FunctionPartsIs, Zenon
<1>4. FnParts[f] = PartsOf(f.op)
  BY <1>1, Zenon DEF FnParts
<1> QED
  BY <1>2, <1>3, <1>4, Zenon DEF Peels

LEMMA FunctionPartsOne ==
  ASSUME NEW f \in Function, f.fn = "write"
  PROVE  FunctionParts(<<f>>) = PartsOf(f.op)
<1>1. <<f>> \in Seq(Function)
  OBVIOUS
<1>2. FunctionParts(<<f>>) = FlatMap(FnParts, <<f>>)
  BY <1>1, FunctionPartsIs, Zenon
<1>3. FlatMap(FnParts, <<f>>) = FnParts[f]
  BY FlatMapOne, Zenon
<1>4. FnParts[f] = PartsOf(f.op)
  BY Zenon DEF FnParts
<1> QED
  BY <1>2, <1>3, <1>4, Zenon

LEMMA AwaitedType ==
  ASSUME NEW ops \in Seq(Operation)
  PROVE  Awaited(ops) \in Seq(Part)
<1>1. FlatMap(OpParts, ops) \in Seq(Part)
  BY FlatMaps, FlatMapType, Zenon
<1> QED
  BY <1>1, AwaitedIs, Zenon

LEMMA AwaitedEmpty == Awaited(<<>>) = <<>>
<1>1. Awaited(<<>>) = FlatMap(OpParts, <<>>)
  BY AwaitedIs, EmptySeq, Zenon
<1> QED
  BY <1>1, FlatMapEmpty, Zenon

LEMMA AwaitedConcat ==
  ASSUME NEW s \in Seq(Operation), NEW t \in Seq(Operation)
  PROVE  Awaited(s \o t) = Awaited(s) \o Awaited(t)
<1>1. s \o t \in Seq(Operation)
  OBVIOUS
<1>2. Distributes(OpParts, s, t)
  BY FlatMaps, FlatMapConcat, Zenon
<1>3. /\ Awaited(s) = FlatMap(OpParts, s) /\ Awaited(t) = FlatMap(OpParts, t)
      /\ Awaited(s \o t) = FlatMap(OpParts, s \o t)
  BY <1>1, AwaitedIs, Zenon
<1> QED
  BY <1>2, <1>3, Zenon DEF Distributes

LEMMA AwaitedTail ==
  ASSUME NEW ops \in Seq(Operation), ops # <<>>
  PROVE  Awaited(ops) = OpParts[Head(ops)] \o Awaited(Tail(ops))
<1> DEFINE t == Tail(ops)
<1>1. t \in Seq(Operation)
  OBVIOUS
<1>2. Peels(OpParts, ops)
  BY FlatMaps, FlatMapTail, Zenon
<1>3. Awaited(ops) = FlatMap(OpParts, ops) /\ Awaited(t) = FlatMap(OpParts, t)
  BY <1>1, AwaitedIs, Zenon
<1> QED
  BY <1>2, <1>3, Zenon DEF Peels

-----------------------------------------------------------------------------
(* What writeOp queues and defers for new messages.                        *)
NewOps(new, n0, late) ==
  [k \in DOMAIN new |-> [n |-> n0 + k, msg |-> new[k], late |-> late, nwritten |-> 0]]
NewFns(ops) == [k \in DOMAIN ops |-> [fn |-> "write", op |-> ops[k]]]

AreNewOps(ops, new, late) ==
  /\ ops \in Seq(Operation) /\ Len(ops) = Len(new)
  /\ \A k \in 1 .. Len(new) : ops[k].msg = new[k] /\ ops[k].late = late /\ ops[k].nwritten = 0

LEMMA NewOpsType ==
  ASSUME NEW new \in Seq(M!Message), NEW n0 \in Nat, NEW late \in BOOLEAN
  PROVE  /\ NewOps(new, n0, late) \in Seq(Operation)
         /\ Len(NewOps(new, n0, late)) = Len(new)
         /\ \A k \in 1 .. Len(new) :
              /\ NewOps(new, n0, late)[k].msg = new[k]
              /\ NewOps(new, n0, late)[k].late = late
              /\ NewOps(new, n0, late)[k].nwritten = 0
<1> DEFINE e(k) == [n |-> n0 + k, msg |-> new[k], late |-> late, nwritten |-> 0]
           N == Len(new)
<1>1. N \in Nat /\ DOMAIN new = 1 .. N /\ \A k \in 1 .. N : new[k] \in M!Message
  OBVIOUS
<1>2. \A k \in 1 .. N : e(k) \in Operation
  BY <1>1 DEF Operation
<1>3. NewOps(new, n0, late) = [k \in 1 .. N |-> e(k)]
  BY <1>1, Zenon DEF NewOps
<1>4. \A k \in 1 .. N : e(k).msg = new[k] /\ e(k).late = late /\ e(k).nwritten = 0
  OBVIOUS
<1> HIDE DEF e
<1> QED
  BY <1>1, <1>2, <1>3, <1>4

LEMMA NewOpsAre ==
  ASSUME NEW new \in Seq(M!Message), NEW n0 \in Nat, NEW late \in BOOLEAN
  PROVE  AreNewOps(NewOps(new, n0, late), new, late)
<1>1. /\ NewOps(new, n0, late) \in Seq(Operation)
      /\ Len(NewOps(new, n0, late)) = Len(new)
      /\ \A k \in 1 .. Len(new) :
           /\ NewOps(new, n0, late)[k].msg = new[k]
           /\ NewOps(new, n0, late)[k].late = late
           /\ NewOps(new, n0, late)[k].nwritten = 0
  BY NewOpsType
<1> QED
  BY <1>1, Zenon DEF AreNewOps

LEMMA NewFnsType ==
  ASSUME NEW ops \in Seq(Operation)
  PROVE  /\ NewFns(ops) \in Seq(Function)
         /\ Len(NewFns(ops)) = Len(ops)
         /\ \A k \in 1 .. Len(ops) : NewFns(ops)[k].fn = "write" /\ NewFns(ops)[k].op = ops[k]
<1> DEFINE e(k) == [fn |-> "write", op |-> ops[k]]
           N == Len(ops)
<1>1. N \in Nat /\ DOMAIN ops = 1 .. N /\ \A k \in 1 .. N : ops[k] \in Operation
  OBVIOUS
<1>2. \A k \in 1 .. N : e(k) \in Function
  BY <1>1 DEF Function
<1>3. NewFns(ops) = [k \in 1 .. N |-> e(k)]
  BY <1>1, Zenon DEF NewFns
<1>4. \A k \in 1 .. N : e(k).fn = "write" /\ e(k).op = ops[k]
  OBVIOUS
<1> HIDE DEF e
<1> QED
  BY <1>1, <1>2, <1>3, <1>4

LEMMA NewAwaited ==
  ASSUME NEW ops \in Seq(Operation), \A k \in 1 .. Len(ops) : ops[k].nwritten = 0
  PROVE  Awaited(ops) = FunctionParts(NewFns(ops))
<1> DEFINE fns == NewFns(ops)
<1>1. /\ DOMAIN ops = 1 .. Len(ops) /\ DOMAIN fns = DOMAIN ops
      /\ \A k \in DOMAIN ops : fns[k].fn = "write" /\ fns[k].op = ops[k]
  BY NewFnsType
<1> HIDE DEF fns
<1>2. \A k \in DOMAIN ops : ops[k].nwritten = 0
  BY <1>1
<1>3. [k \in DOMAIN ops |-> IF ops[k].nwritten = 0 THEN PartsOf(ops[k]) ELSE Tail(PartsOf(ops[k]))]
      = [k \in DOMAIN ops |-> PartsOf(ops[k])]
  BY <1>2, Zenon
<1>4. [k \in DOMAIN fns |-> IF fns[k].fn = "write" THEN PartsOf(fns[k].op) ELSE <<>>]
      = [k \in DOMAIN ops |-> PartsOf(ops[k])]
  BY <1>1, Zenon
<1> QED
  BY <1>3, <1>4, Zenon DEF Awaited, FunctionParts, fns

LEMMA TwoIsConcat ==
  ASSUME NEW x, NEW y
  PROVE  <<x, y>> = <<x>> \o <<y>>
<1> DEFINE X == {x, y}
           s == <<x>>
           t == <<y>>
           l == <<x, y>>
<1>1. l \in Seq(X) /\ Len(l) = 2 /\ l[1] = x /\ l[2] = y
  OBVIOUS
<1>2. s \in Seq(X) /\ Len(s) = 1 /\ s[1] = x
  OBVIOUS
<1>3. t \in Seq(X) /\ Len(t) = 1 /\ t[1] = y
  OBVIOUS
<1> HIDE DEF X, s, t, l
<1>4. s \o t \in Seq(X) /\ Len(s \o t) = 2 /\ (s \o t)[1] = x /\ (s \o t)[2] = y
  <2>1. /\ s \o t \in Seq(X) /\ Len(s \o t) = Len(s) + Len(t)
        /\ \A i \in 1 .. Len(s) + Len(t) : (s \o t)[i] = IF i <= Len(s) THEN s[i] ELSE t[i - Len(s)]
    BY <1>2, <1>3, ConcatProperties, Zenon
  <2> QED
    BY <1>2, <1>3, <2>1
<1>5. \A i \in 1 .. Len(l) : l[i] = (s \o t)[i]
  BY <1>1, <1>4
<1>6. l = s \o t
  BY <1>1, <1>4, <1>5, SeqEqual
<1> QED
  BY <1>6 DEF s, t, l

(* An operation is written as the bytes of its message.                    *)
LEMMA OpBytes ==
  ASSUME NEW op, op.n \in Nat, op.msg \in M!Message
  PROVE  PartBytes(PartsOf(op)) = Bytes(op.msg, "preamble") \o Bytes(op.msg, "payload")
<1> DEFINE a == ThePart(op, "preamble")
           b == ThePart(op, "payload")
           A == Bytes(op.msg, "preamble")
           B == Bytes(op.msg, "payload")
<1>1. a \in Part /\ b \in Part
  BY ThePartType DEF Kinds
<1>2. a.msg = op.msg /\ a.part = "preamble" /\ b.msg = op.msg /\ b.part = "payload"
  BY DEF ThePart
<1>3. A \in Seq(Byte) /\ B \in Seq(Byte) /\ Len(B) = Length(op.msg)
  <2>1. "preamble" \in Kinds /\ "payload" \in Kinds /\ "payload" # "preamble"
    BY DEF Kinds
  <2>2. A \in Seq(Byte) /\ B \in Seq(Byte)
    BY <2>1, BytesType, Zenon
  <2>3. Len(B) = IF "payload" = "preamble" THEN Preamble ELSE Length(op.msg)
    BY <2>1, BytesType, Zenon
  <2> QED
    BY <2>2, <2>3
<1>4. PartBytes(<<a>>) = A /\ PartBytes(<<b>>) = B
  BY <1>1, <1>2, PartBytesOne, Zenon
<1>5. CASE op.msg.opcode = "SEND_UNBOUND_BUFFER"
  <2>1. PartsOf(op) = <<a, b>>
    BY <1>5, PartsOfIs, Zenon
  <2> HIDE DEF a, b, A, B
  <2>2. <<a, b>> = <<a>> \o <<b>> /\ <<a>> \in Seq(Part) /\ <<b>> \in Seq(Part)
    <3>1. <<a>> \in Seq(Part) /\ <<b>> \in Seq(Part)
      BY <1>1
    <3>2. <<a, b>> = <<a>> \o <<b>>
      BY TwoIsConcat, Zenon
    <3> QED
      BY <3>1, <3>2
  <2>3. PartBytes(<<a>> \o <<b>>) = PartBytes(<<a>>) \o PartBytes(<<b>>)
    BY <2>2, PartBytesConcat, Zenon
  <2>4. PartBytes(PartsOf(op)) = A \o B
    BY <1>4, <2>1, <2>2, <2>3, Zenon
  <2> QED
    BY <2>4 DEF A, B
<1>6. CASE op.msg.opcode # "SEND_UNBOUND_BUFFER"
  <2>1. PartsOf(op) = <<a>>
    BY <1>6, PartsOfIs, Zenon
  <2>2. Length(op.msg) = 0
    BY <1>6 DEF Length
  <2> HIDE DEF a, b, A, B
  <2>3. A \o B = A
    BY <1>3, <2>2
  <2>4. PartBytes(PartsOf(op)) = A \o B
    BY <1>4, <2>1, <2>3, Zenon
  <2> QED
    BY <2>4 DEF A, B
<1> QED
  BY <1>5, <1>6

LEMMA NewBytes ==
  ASSUME NEW new \in Seq(M!Message), NEW fns \in Seq(Function), Len(fns) = Len(new),
         \A k \in 1 .. Len(new) : fns[k].fn = "write" /\ fns[k].op.msg = new[k]
  PROVE  PartBytes(FunctionParts(fns)) = MessageBytes(new)
<1> DEFINE N == Len(new)
           T(n) == SubSeq(new, 1, n)
           U(n) == SubSeq(fns, 1, n)
           S == {n \in 0 .. N : PartBytes(FunctionParts(U(n))) = MessageBytes(T(n))}
<1>1. N \in Nat
  OBVIOUS
<1>2. 0 \in S
  <2>1. T(0) = <<>> /\ U(0) = <<>>
    BY SubSeqEmpty
  <2>2. 0 \in 0 .. N
    BY <1>1
  <2> QED
    BY <2>1, <2>2, FunctionPartsEmpty, PartBytesEmpty, MessageBytesEmpty, Zenon
<1>3. ASSUME NEW n \in 1 .. N, n - 1 \in S PROVE n \in S
  <2> DEFINE t == T(n - 1)
             u == U(n - 1)
             m == new[n]
             f == fns[n]
  <2>1. /\ t \in Seq(M!Message) /\ m \in M!Message /\ <<m>> \in Seq(M!Message)
        /\ T(n) = t \o <<m>>
    BY <1>1, SubSeqRecursiveSecond
  <2>2. /\ u \in Seq(Function) /\ f \in Function /\ <<f>> \in Seq(Function)
        /\ U(n) = u \o <<f>>
    BY <1>1, SubSeqRecursiveSecond
  <2>3. f.fn = "write" /\ f.op.msg = m /\ n \in 0 .. N
    BY <1>1
  <2>4. PartBytes(FunctionParts(u)) = MessageBytes(t)
    BY <1>3
  <2> HIDE DEF t, u, m, f, T, U
  <2>5. f.op \in Operation /\ f.op.n \in Nat /\ f.op.msg \in M!Message
    BY <2>2, <2>3, FunctionKinds, OperationFields
  <2>6. FunctionParts(u \o <<f>>) = FunctionParts(u) \o PartsOf(f.op)
    <3>1. FunctionParts(u \o <<f>>) = FunctionParts(u) \o FunctionParts(<<f>>)
      BY <2>2, FunctionPartsConcat, Zenon
    <3>2. FunctionParts(<<f>>) = PartsOf(f.op)
      BY <2>2, <2>3, FunctionPartsOne, Zenon
    <3> QED
      BY <3>1, <3>2, Zenon
  <2>7. PartBytes(FunctionParts(u) \o PartsOf(f.op)) = PartBytes(FunctionParts(u)) \o PartBytes(PartsOf(f.op))
    <3>1. FunctionParts(u) \in Seq(Part) /\ PartsOf(f.op) \in Seq(Part)
      BY <2>2, <2>5, FunctionPartsType, PartsOfType, Zenon
    <3> QED
      BY <3>1, PartBytesConcat, Zenon
  <2>8. PartBytes(PartsOf(f.op)) = MessageBytes(<<m>>)
    <3>1. PartBytes(PartsOf(f.op)) = Bytes(f.op.msg, "preamble") \o Bytes(f.op.msg, "payload")
      BY <2>5, OpBytes, Zenon
    <3>2. MessageBytes(<<m>>) = Bytes(m, "preamble") \o Bytes(m, "payload")
      BY <2>1, MessageBytesOne, Zenon
    <3> QED
      BY <2>3, <3>1, <3>2, Zenon
  <2>9. MessageBytes(t \o <<m>>) = MessageBytes(t) \o MessageBytes(<<m>>)
    BY <2>1, MessageBytesConcat, Zenon
  <2>10. PartBytes(FunctionParts(U(n))) = MessageBytes(T(n))
    BY <2>1, <2>2, <2>4, <2>6, <2>7, <2>8, <2>9, Zenon
  <2> QED
    BY <2>3, <2>10, Zenon
<1>4. \A n \in 0 .. N : n \in S
  <2> HIDE DEF S
  <2> QED
    BY <1>1, <1>2, <1>3, UpTo
<1>5. T(N) = new /\ U(N) = fns
  BY SubSeqFull
<1>6. N \in S
  BY <1>1, <1>4
<1> QED
  BY <1>5, <1>6

-----------------------------------------------------------------------------
(* Continue, on the bytes of the messages.                                 *)
Follows(bytes, unread, skipped) ==
  \A k \in 1 .. Len(bytes) :
    IF k + skipped > 0 THEN k + skipped <= Len(unread) /\ bytes[k] = unread[k + skipped]
    ELSE bytes[k][2] = "payload"

LEMMA ContinueIs ==
  ASSUME NEW bytes \in Seq(Byte), NEW msgs, NEW skipped
  PROVE  Continue(bytes, msgs, skipped) <=> Follows(bytes, MessageBytes(msgs), skipped)
<1>1. DOMAIN bytes = 1 .. Len(bytes)
  OBVIOUS
<1> QED
  BY <1>1, Zenon DEF Continue, Follows

LEMMA FollowsLonger ==
  ASSUME NEW X, NEW w \in Seq(X), NEW u \in Seq(X), NEW b \in Seq(X), NEW sk \in Int,
         Follows(w, u, sk)
  PROVE  Follows(w, u \o b, sk)
<1> SUFFICES ASSUME NEW k \in 1 .. Len(w)
             PROVE  IF k + sk > 0 THEN k + sk <= Len(u \o b) /\ w[k] = (u \o b)[k + sk]
                    ELSE w[k][2] = "payload"
  BY DEF Follows
<1>1. IF k + sk > 0 THEN k + sk <= Len(u) /\ w[k] = u[k + sk] ELSE w[k][2] = "payload"
  BY DEF Follows
<1>2. /\ Len(u) \in Nat /\ Len(b) \in Nat /\ Len(u \o b) = Len(u) + Len(b) /\ k \in Int
      /\ \A i \in 1 .. Len(u) : (u \o b)[i] = u[i]
  OBVIOUS
<1> QED
  BY <1>1, <1>2

LEMMA FollowsGrow ==
  ASSUME NEW X, NEW w \in Seq(X), NEW u \in Seq(X), NEW b \in Seq(X), NEW sk \in Int,
         Follows(w, u, sk), Len(w) + sk = Len(u)
  PROVE  Follows(w \o b, u \o b, sk) /\ Len(w \o b) + sk = Len(u \o b)
<1>1. /\ Len(u) \in Nat /\ Len(b) \in Nat /\ Len(w) \in Nat
      /\ Len(u \o b) = Len(u) + Len(b) /\ Len(w \o b) = Len(w) + Len(b)
  OBVIOUS
<1>2. /\ \A i \in 1 .. Len(u) + Len(b) : (u \o b)[i] = IF i <= Len(u) THEN u[i] ELSE b[i - Len(u)]
      /\ \A i \in 1 .. Len(w) + Len(b) : (w \o b)[i] = IF i <= Len(w) THEN w[i] ELSE b[i - Len(w)]
  BY ConcatProperties, Zenon
<1>3. ASSUME NEW k \in 1 .. Len(w \o b)
      PROVE  IF k + sk > 0 THEN k + sk <= Len(u \o b) /\ (w \o b)[k] = (u \o b)[k + sk]
             ELSE (w \o b)[k][2] = "payload"
  <2>1. CASE k <= Len(w)
    <3>1. k \in 1 .. Len(w) /\ k \in 1 .. Len(w) + Len(b) /\ (w \o b)[k] = w[k]
      BY <1>1, <1>2, <2>1
    <3>2. IF k + sk > 0 THEN k + sk <= Len(u) /\ w[k] = u[k + sk] ELSE w[k][2] = "payload"
      BY <3>1 DEF Follows
    <3>3. k + sk > 0 => k + sk \in 1 .. Len(u) + Len(b) /\ k + sk <= Len(u)
      BY <1>1, <3>1, <3>2
    <3>4. k + sk > 0 => (u \o b)[k + sk] = u[k + sk]
      BY <1>1, <1>2, <3>3
    <3> QED
      BY <1>1, <3>1, <3>2, <3>3, <3>4
  <2>2. CASE ~(k <= Len(w))
    <3>1. k \in 1 .. Len(w) + Len(b) /\ k + sk \in 1 .. Len(u) + Len(b) /\ k + sk > 0
          /\ ~(k + sk <= Len(u)) /\ k - Len(w) = k + sk - Len(u) /\ k + sk <= Len(u \o b)
      BY <1>1, <2>2
    <3>2. (w \o b)[k] = b[k - Len(w)] /\ (u \o b)[k + sk] = b[k + sk - Len(u)]
      BY <1>2, <2>2, <3>1
    <3> QED
      BY <3>1, <3>2
  <2> QED
    BY <2>1, <2>2
<1>4. Follows(w \o b, u \o b, sk)
  BY <1>3, Zenon DEF Follows
<1> QED
  BY <1>1, <1>4

LEMMA FollowsPrefix ==
  ASSUME NEW X, NEW w \in Seq(X), NEW v \in Seq(X), NEW u \in Seq(X), NEW sk \in Int,
         Follows(w \o v, u, sk)
  PROVE  Follows(w, u, sk)
<1>1. Len(w) \in Nat /\ Len(v) \in Nat /\ Len(w \o v) = Len(w) + Len(v)
  OBVIOUS
<1>2. ASSUME NEW k \in 1 .. Len(w)
      PROVE  IF k + sk > 0 THEN k + sk <= Len(u) /\ w[k] = u[k + sk] ELSE w[k][2] = "payload"
  <2>1. k \in 1 .. Len(w \o v) /\ (w \o v)[k] = w[k]
    BY <1>1
  <2> QED
    BY <2>1 DEF Follows
<1> QED
  BY <1>2, Zenon DEF Follows

LEMMA FollowsDrop ==
  ASSUME NEW X, NEW w \in Seq(X), NEW u \in Seq(X), NEW sk \in Int, NEW n \in 0 .. Len(w),
         Follows(w, u, sk)
  PROVE  Follows(SubSeq(w, n + 1, Len(w)), u, n + sk)
<1> DEFINE v == SubSeq(w, n + 1, Len(w))
<1>1. Len(w) \in Nat /\ n \in Nat
  OBVIOUS
<1>2. Len(v) = Len(w) - n /\ \A k \in 1 .. Len(w) - n : v[k] = w[k + n]
  BY <1>1
<1> HIDE DEF v
<1>3. ASSUME NEW k \in 1 .. Len(v)
      PROVE  IF k + (n + sk) > 0 THEN k + (n + sk) <= Len(u) /\ v[k] = u[k + (n + sk)]
             ELSE v[k][2] = "payload"
  <2>1. k + n \in 1 .. Len(w) /\ v[k] = w[k + n] /\ k + (n + sk) = (k + n) + sk
    BY <1>1, <1>2
  <2>2. IF (k + n) + sk > 0 THEN (k + n) + sk <= Len(u) /\ w[k + n] = u[(k + n) + sk]
        ELSE w[k + n][2] = "payload"
    BY <2>1, Zenon DEF Follows
  <2> QED
    BY <2>1, <2>2
<1>4. Follows(v, u, n + sk)
  BY <1>3, Zenon DEF Follows
<1> QED
  BY <1>4 DEF v

(* After the head was handled, u is what remains behind it.                *)
LEMMA FollowsHandled ==
  ASSUME NEW X, NEW w \in Seq(X), NEW h \in Seq(X), NEW p \in Seq(X), NEW u \in Seq(X),
         \A k \in 1 .. Len(p) : p[k][2] = "payload",
         Follows(w, (h \o p) \o u, Len(h))
  PROVE  Follows(w, u, -Len(p))
<1> DEFINE hp == h \o p
           U == hp \o u
           sk == Len(h)
           M0 == Len(p)
<1>1. /\ Len(h) \in Nat /\ Len(p) \in Nat /\ Len(u) \in Nat /\ hp \in Seq(X)
      /\ Len(hp) = Len(h) + Len(p) /\ Len(U) = Len(h) + Len(p) + Len(u)
  OBVIOUS
<1>2. \A i \in 1 .. Len(p) : hp[Len(h) + i] = p[i]
  OBVIOUS
<1>3. /\ \A i \in 1 .. Len(hp) : U[i] = hp[i]
      /\ \A i \in 1 .. Len(u) : U[Len(hp) + i] = u[i]
  BY <1>1
<1>4. Follows(w, U, sk)
  OBVIOUS
<1> HIDE DEF hp, U
<1>5. ASSUME NEW k \in 1 .. Len(w)
      PROVE  IF k + (-Len(p)) > 0 THEN k + (-Len(p)) <= Len(u) /\ w[k] = u[k + (-Len(p))]
             ELSE w[k][2] = "payload"
  <2>1. k + sk <= Len(U) /\ w[k] = U[k + sk] /\ k \in Nat \ {0}
    <3>1. IF k + sk > 0 THEN k + sk <= Len(U) /\ w[k] = U[k + sk] ELSE w[k][2] = "payload"
      BY <1>4, Zenon DEF Follows
    <3>2. k + sk > 0 /\ k \in Nat \ {0}
      BY <1>1
    <3> QED
      BY <3>1, <3>2, Zenon
  <2>2. CASE k <= Len(p)
    <3>1. k \in 1 .. Len(p) /\ Len(h) + k \in 1 .. Len(hp) /\ k + sk = Len(h) + k
      BY <1>1, <2>1, <2>2
    <3>2. w[k] = p[k]
      BY <1>2, <1>3, <2>1, <3>1
    <3>3. ~(k + (-Len(p)) > 0)
      BY <1>1, <2>2
    <3> QED
      BY <3>1, <3>2, <3>3
  <2>3. CASE ~(k <= Len(p))
    <3>1. /\ k + (-Len(p)) > 0 /\ k + (-Len(p)) \in 1 .. Len(u)
          /\ k + sk = Len(hp) + (k + (-Len(p)))
      BY <1>1, <2>1, <2>3
    <3> QED
      BY <1>3, <2>1, <3>1
  <2> QED
    BY <2>2, <2>3
<1> QED
  BY <1>5, Zenon DEF Follows

(* A part that was read is dropped from the front of what is on its way.   *)
LEMMA DropFront ==
  ASSUME NEW X, NEW w \in Seq(X), NEW v \in Seq(X), NEW n \in 0 .. Len(w)
  PROVE  SubSeq(w \o v, n + 1, Len(w \o v)) = SubSeq(w, n + 1, Len(w)) \o v
<1> DEFINE l == SubSeq(w \o v, n + 1, Len(w \o v))
           a == SubSeq(w, n + 1, Len(w))
<1>1. /\ Len(w) \in Nat /\ Len(v) \in Nat /\ n \in Nat /\ w \o v \in Seq(X)
      /\ Len(w \o v) = Len(w) + Len(v)
  OBVIOUS
<1>2. /\ \A i \in 1 .. Len(w) + Len(v) : (w \o v)[i] = IF i <= Len(w) THEN w[i] ELSE v[i - Len(w)]
  BY ConcatProperties, Zenon
<1>3. /\ l \in Seq(X) /\ Len(l) = Len(w) + Len(v) - n
      /\ \A i \in 1 .. Len(w) + Len(v) - n : l[i] = (w \o v)[i + n]
  BY <1>1
<1>4. /\ a \in Seq(X) /\ Len(a) = Len(w) - n
      /\ \A i \in 1 .. Len(w) - n : a[i] = w[i + n]
  BY <1>1
<1> HIDE DEF l, a
<1>5. /\ a \o v \in Seq(X) /\ Len(a \o v) = Len(a) + Len(v)
      /\ \A i \in 1 .. Len(a) + Len(v) : (a \o v)[i] = IF i <= Len(a) THEN a[i] ELSE v[i - Len(a)]
  BY <1>4, ConcatProperties, Zenon
<1>6. ASSUME NEW i \in 1 .. Len(l) PROVE l[i] = (a \o v)[i]
  <2>1. i \in 1 .. Len(w) + Len(v) - n /\ i + n \in 1 .. Len(w) + Len(v)
        /\ i \in 1 .. Len(a) + Len(v)
    BY <1>1, <1>3, <1>4
  <2>2. l[i] = IF i + n <= Len(w) THEN w[i + n] ELSE v[i + n - Len(w)]
    BY <1>2, <1>3, <2>1
  <2>3. (a \o v)[i] = IF i <= Len(a) THEN a[i] ELSE v[i - Len(a)]
    BY <1>5, <2>1
  <2>4. CASE i <= Len(a)
    <3>1. i \in 1 .. Len(w) - n /\ i + n <= Len(w)
      BY <1>1, <1>4, <2>1, <2>4
    <3> QED
      BY <1>4, <2>2, <2>3, <2>4, <3>1
  <2>5. CASE ~(i <= Len(a))
    <3>1. ~(i + n <= Len(w)) /\ i + n - Len(w) = i - Len(a)
      BY <1>1, <1>4, <2>1, <2>5
    <3> QED
      BY <2>2, <2>3, <2>5, <3>1
  <2> QED
    BY <2>4, <2>5
<1>7. l = a \o v
  <2>1. Len(l) = Len(a \o v)
    BY <1>1, <1>3, <1>4, <1>5
  <2> QED
    BY <1>3, <1>5, <1>6, <2>1, SeqEqual
<1> QED
  BY <1>7 DEF l, a

-----------------------------------------------------------------------------
(* The requests: libuv has written the first ones.                         *)
WrittenUpTo(reqs, d) == \A k \in 1 .. Len(reqs) : reqs[k].done <=> k <= d
DoneFirst(reqs) == \E d \in 0 .. Len(reqs) : WrittenUpTo(reqs, d)

LEMMA DoneIs ==
  ASSUME NEW reqs \in Seq(Request), NEW d \in 0 .. Len(reqs), WrittenUpTo(reqs, d)
  PROVE  Done(reqs) = d
<1>1. DOMAIN reqs = 1 .. Len(reqs) /\ Len(reqs) \in Nat
  OBVIOUS
<1>2. {k \in DOMAIN reqs : reqs[k].done} = 1 .. d
  <2>1. \A k : k \in 1 .. d => k \in DOMAIN reqs /\ reqs[k].done
    BY <1>1 DEF WrittenUpTo
  <2>2. \A k \in DOMAIN reqs : reqs[k].done => k \in 1 .. d
    BY <1>1 DEF WrittenUpTo
  <2> QED
    BY <2>1, <2>2, Zenon
<1>3. Cardinality(1 .. d) = d
  BY <1>1, FS_Interval
<1> QED
  BY <1>2, <1>3, Zenon DEF Done

LEMMA UndoneType ==
  ASSUME NEW reqs \in Seq(Request), DoneFirst(reqs)
  PROVE  /\ Done(reqs) \in 0 .. Len(reqs) /\ WrittenUpTo(reqs, Done(reqs))
         /\ Undone(reqs) \in Seq(Request)
<1>1. PICK d \in 0 .. Len(reqs) : WrittenUpTo(reqs, d)
  BY DEF DoneFirst
<1>2. Done(reqs) = d
  BY <1>1, DoneIs, Zenon
<1>3. SubSeq(reqs, d + 1, Len(reqs)) \in Seq(Request)
  OBVIOUS
<1> QED
  BY <1>1, <1>2, <1>3, Zenon DEF Undone

LEMMA RequestPartsType ==
  ASSUME NEW reqs \in Seq(Request)
  PROVE  /\ RequestParts(reqs) \in Seq(Part)
         /\ Len(RequestParts(reqs)) = Len(reqs)
         /\ \A k \in 1 .. Len(reqs) : RequestParts(reqs)[k] = PartOf(reqs[k])
<1>1. IsMap(Part, ReqPart, reqs, Map(ReqPart, reqs))
  BY FlatMaps, MapType, Zenon
<1>2. \A k \in 1 .. Len(reqs) : ReqPart[reqs[k]] = PartOf(reqs[k])
  BY DEF ReqPart
<1> QED
  BY <1>1, <1>2, RequestPartsIs, Zenon DEF IsMap

LEMMA RequestPartsConcat ==
  ASSUME NEW s \in Seq(Request), NEW t \in Seq(Request)
  PROVE  RequestParts(s \o t) = RequestParts(s) \o RequestParts(t)
<1>1. s \o t \in Seq(Request)
  OBVIOUS
<1>2. MapDistributes(ReqPart, s, t)
  BY FlatMaps, MapConcat, Zenon
<1>3. /\ RequestParts(s) = Map(ReqPart, s) /\ RequestParts(t) = Map(ReqPart, t)
      /\ RequestParts(s \o t) = Map(ReqPart, s \o t)
  BY <1>1, RequestPartsIs, Zenon
<1> QED
  BY <1>2, <1>3, Zenon DEF MapDistributes

(* Requests are added ...                                                  *)
NotDone(new) == \A k \in 1 .. Len(new) : ~new[k].done

LEMMA UndoneGrow ==
  ASSUME NEW reqs \in Seq(Request), DoneFirst(reqs), NEW new \in Seq(Request), NotDone(new)
  PROVE  /\ DoneFirst(reqs \o new)
         /\ Done(reqs \o new) = Done(reqs)
         /\ Undone(reqs \o new) = Undone(reqs) \o new
<1> DEFINE d == Done(reqs)
           s == reqs \o new
<1>1. d \in 0 .. Len(reqs) /\ WrittenUpTo(reqs, d)
  BY UndoneType, Zenon
<1>2. /\ s \in Seq(Request) /\ Len(s) = Len(reqs) + Len(new)
      /\ \A i \in 1 .. Len(reqs) + Len(new) : s[i] = IF i <= Len(reqs) THEN reqs[i] ELSE new[i - Len(reqs)]
  BY ConcatProperties, Zenon
<1>3. Len(reqs) \in Nat /\ Len(new) \in Nat
  OBVIOUS
<1> HIDE DEF d
<1>4. Undone(s) = SubSeq(s, Done(s) + 1, Len(s)) /\ Undone(reqs) = SubSeq(reqs, d + 1, Len(reqs))
  BY Zenon DEF Undone, d
<1>5. SubSeq(s, d + 1, Len(s)) = SubSeq(reqs, d + 1, Len(reqs)) \o new
  BY <1>1, DropFront, Zenon
<1> HIDE DEF s
<1>6. d \in 0 .. Len(s) /\ WrittenUpTo(s, d)
  <2>1. ASSUME NEW k \in 1 .. Len(s) PROVE s[k].done <=> k <= d
    <3>1. CASE k <= Len(reqs)
      <4>1. k \in 1 .. Len(reqs) /\ s[k] = reqs[k]
        BY <1>2, <1>3, <3>1
      <4> QED
        BY <1>1, <4>1, Zenon DEF WrittenUpTo
    <3>2. CASE ~(k <= Len(reqs))
      <4>1. k - Len(reqs) \in 1 .. Len(new) /\ s[k] = new[k - Len(reqs)] /\ ~(k <= d)
        BY <1>1, <1>2, <1>3, <3>2
      <4> QED
        BY <4>1, Zenon DEF NotDone
    <3> QED
      BY <3>1, <3>2
  <2>2. d \in 0 .. Len(s)
    BY <1>1, <1>2, <1>3
  <2> QED
    BY <2>1, <2>2, Zenon DEF WrittenUpTo
<1>7. Done(s) = d /\ DoneFirst(s)
  BY <1>2, <1>6, DoneIs, Zenon DEF DoneFirst
<1>8. Undone(s) = Undone(reqs) \o new
  BY <1>4, <1>5, <1>7, Zenon
<1> QED
  BY <1>7, <1>8, Zenon DEF s, d

(* ... the first undone one is written ...                                 *)
LEMMA UndoneWrite ==
  ASSUME NEW reqs \in Seq(Request), DoneFirst(reqs), NEW i \in 1 .. Len(reqs),
         \A l \in 1 .. i : reqs[l].done = (l < i)
  PROVE  LET s == [reqs EXCEPT ![i].done = TRUE] IN
         /\ s \in Seq(Request) /\ DoneFirst(s) /\ Len(s) = Len(reqs)
         /\ \A k \in 1 .. Len(reqs) : PartOf(s[k]) = PartOf(reqs[k])
         /\ Done(reqs) = i - 1 /\ Done(s) = i
         /\ Undone(reqs) = <<reqs[i]>> \o Undone(s)
<1> DEFINE s == [reqs EXCEPT ![i].done = TRUE]
           d == Done(reqs)
           N == Len(reqs)
<1>1. d \in 0 .. N /\ WrittenUpTo(reqs, d) /\ N \in Nat /\ i \in Nat
  BY UndoneType
<1>2. d = i - 1
  <2>1. /\ i \in 1 .. i /\ ~(i < i)
        /\ i > 1 => i - 1 \in 1 .. i /\ i - 1 < i /\ i - 1 \in 1 .. N
    BY <1>1
  <2>2. ~(i <= d)
    BY <1>1, <2>1, Zenon DEF WrittenUpTo
  <2>3. i > 1 => reqs[i - 1].done
    BY <2>1, Zenon
  <2>4. i > 1 => i - 1 <= d
    BY <1>1, <2>1, <2>3, Zenon DEF WrittenUpTo
  <2> QED
    BY <1>1, <2>2, <2>4
<1> HIDE DEF d
<1>3. \A k \in 1 .. N : reqs[k] \in Request
  OBVIOUS
<1>4. s = [k \in 1 .. N |-> IF k = i THEN [reqs[i] EXCEPT !.done = TRUE] ELSE reqs[k]]
  <2>1. reqs = [k \in 1 .. N |-> reqs[k]]
    BY <1>1
  <2> QED
    BY <2>1
<1>5. [reqs[i] EXCEPT !.done = TRUE] \in Request /\ [reqs[i] EXCEPT !.done = TRUE].done = TRUE
      /\ PartOf([reqs[i] EXCEPT !.done = TRUE]) = PartOf(reqs[i])
  BY <1>3 DEF Request, PartOf
<1> HIDE DEF s
<1>6. /\ s \in Seq(Request) /\ Len(s) = N
      /\ \A k \in 1 .. N : s[k] = IF k = i THEN [reqs[i] EXCEPT !.done = TRUE] ELSE reqs[k]
  <2> DEFINE e(k) == IF k = i THEN [reqs[i] EXCEPT !.done = TRUE] ELSE reqs[k]
  <2>1. \A k \in 1 .. N : e(k) \in Request
    BY <1>3, <1>5
  <2>2. s = [k \in 1 .. N |-> e(k)]
    BY <1>4
  <2> HIDE DEF e
  <2>3. s \in Seq(Request) /\ Len(s) = N /\ \A k \in 1 .. N : s[k] = e(k)
    BY <1>1, <2>1, <2>2
  <2> QED
    BY <2>3, Zenon DEF e
<1>7. WrittenUpTo(s, i)
  <2>1. ASSUME NEW k \in 1 .. N PROVE s[k].done <=> k <= i
    <3>1. CASE k = i
      <4>1. k <= i
        BY <1>1, <3>1
      <4> QED
        BY <1>5, <1>6, <3>1, <4>1, Zenon
    <3>2. CASE k # i
      <4>1. s[k] = reqs[k]
        BY <1>6, <3>2
      <4>2. reqs[k].done <=> k <= d
        BY <1>1, Zenon DEF WrittenUpTo
      <4>3. k <= d <=> k <= i
        BY <1>1, <1>2, <3>2
      <4> QED
        BY <4>1, <4>2, <4>3, Zenon
    <3> QED
      BY <3>1, <3>2
  <2> QED
    BY <1>6, <2>1, Zenon DEF WrittenUpTo
<1>8. Done(s) = i /\ DoneFirst(s)
  <2>1. i \in 0 .. Len(s)
    BY <1>1, <1>6
  <2> QED
    BY <1>6, <1>7, <2>1, DoneIs, Zenon DEF DoneFirst
<1>9. Undone(reqs) = <<reqs[i]>> \o Undone(s)
  <2>1. Undone(reqs) = SubSeq(reqs, (i - 1) + 1, N) /\ (i - 1) + 1 = i
    <3>1. Undone(reqs) = SubSeq(reqs, d + 1, N)
      BY Zenon DEF Undone, d
    <3> QED
      BY <1>1, <1>2, <3>1
  <2>2. Undone(s) = SubSeq(s, i + 1, N)
    BY <1>6, <1>8, Zenon DEF Undone
  <2>3. SubSeq(reqs, i, N) = <<reqs[i]>> \o SubSeq(reqs, i + 1, N)
    BY <1>1, SubSeqRecursiveFirst
  <2>4. SubSeq(s, i + 1, N) = SubSeq(reqs, i + 1, N)
    <3> DEFINE a == SubSeq(s, i + 1, N)
               b == SubSeq(reqs, i + 1, N)
    <3>1. a \in Seq(Request) /\ Len(a) = N - i /\ \A k \in 1 .. N - i : a[k] = s[k + i]
      BY <1>1, <1>6
    <3>2. b \in Seq(Request) /\ Len(b) = N - i /\ \A k \in 1 .. N - i : b[k] = reqs[k + i]
      BY <1>1
    <3> HIDE DEF a, b
    <3>3. \A k \in 1 .. N - i : s[k + i] = reqs[k + i]
      <4>1. \A k \in 1 .. N - i : k + i \in 1 .. N /\ k + i # i
        BY <1>1
      <4> QED
        BY <1>6, <4>1, Zenon
    <3>4. a = b
      BY <3>1, <3>2, <3>3, SeqEqual
    <3> QED
      BY <3>4 DEF a, b
  <2> QED
    BY <2>1, <2>2, <2>3, <2>4, Zenon
<1>10. \A k \in 1 .. N : PartOf(s[k]) = PartOf(reqs[k])
  BY <1>5, <1>6
<1>11. Done(reqs) = i - 1
  BY <1>2 DEF d
<1> QED
  BY <1>6, <1>8, <1>9, <1>10, <1>11 DEF s

(* ... and one that is done is taken by onWrite.                           *)
LEMMA UndoneTail ==
  ASSUME NEW reqs \in Seq(Request), DoneFirst(reqs), reqs # <<>>, Head(reqs).done
  PROVE  /\ Tail(reqs) \in Seq(Request) /\ DoneFirst(Tail(reqs))
         /\ Done(reqs) \in 1 .. Len(reqs) /\ Done(Tail(reqs)) = Done(reqs) - 1
         /\ Undone(Tail(reqs)) = Undone(reqs)
<1> DEFINE s == Tail(reqs)
           d == Done(reqs)
           N == Len(reqs)
<1>1. d \in 0 .. N /\ WrittenUpTo(reqs, d) /\ N \in Nat \ {0}
  BY UndoneType
<1>2. s \in Seq(Request) /\ Len(s) = N - 1 /\ \A k \in 1 .. N - 1 : s[k] = reqs[k + 1]
  BY <1>1
<1>3. d \in 1 .. N
  <2>1. 1 \in 1 .. N /\ Head(reqs) = reqs[1]
    BY <1>1
  <2>2. 1 <= d
    BY <1>1, <2>1, Zenon DEF WrittenUpTo
  <2> QED
    BY <1>1, <2>2
<1> HIDE DEF s, d
<1>4. WrittenUpTo(s, d - 1)
  <2>1. ASSUME NEW k \in 1 .. N - 1 PROVE s[k].done <=> k <= d - 1
    <3>1. k + 1 \in 1 .. N /\ (k + 1 <= d <=> k <= d - 1)
      BY <1>1
    <3> QED
      BY <1>1, <1>2, <3>1, Zenon DEF WrittenUpTo
  <2> QED
    BY <1>2, <2>1, Zenon DEF WrittenUpTo
<1>5. Done(s) = d - 1 /\ DoneFirst(s)
  <2>1. d - 1 \in 0 .. Len(s)
    BY <1>1, <1>2, <1>3
  <2> QED
    BY <1>2, <1>4, <2>1, DoneIs, Zenon DEF DoneFirst
<1>6. Undone(s) = Undone(reqs)
  <2>1. Undone(s) = SubSeq(s, (d - 1) + 1, N - 1)
    BY <1>2, <1>5, Zenon DEF Undone
  <2>2. Undone(reqs) = SubSeq(reqs, d + 1, N)
    BY Zenon DEF Undone, d
  <2>3. SubSeq(s, (d - 1) + 1, N - 1) = SubSeq(reqs, d + 1, N)
    <3> DEFINE a == SubSeq(s, (d - 1) + 1, N - 1)
               b == SubSeq(reqs, d + 1, N)
    <3>1. a \in Seq(Request) /\ Len(a) = N - d /\ \A k \in 1 .. N - d : a[k] = s[k + (d - 1)]
      BY <1>1, <1>2, <1>3
    <3>2. b \in Seq(Request) /\ Len(b) = N - d /\ \A k \in 1 .. N - d : b[k] = reqs[k + d]
      BY <1>1
    <3> HIDE DEF a, b
    <3>3. \A k \in 1 .. N - d : k + (d - 1) \in 1 .. N - 1 /\ (k + (d - 1)) + 1 = k + d
      BY <1>1, <1>3
    <3>4. \A k \in 1 .. N - d : a[k] = b[k]
      BY <1>2, <3>1, <3>2, <3>3
    <3>5. a = b
      BY <3>1, <3>2, <3>4, SeqEqual
    <3> QED
      BY <3>5 DEF a, b
  <2> QED
    BY <2>1, <2>2, <2>3, Zenon
<1> QED
  BY <1>2, <1>3, <1>5, <1>6 DEF s, d

LEMMA NoneDone ==
  ASSUME NEW reqs \in Seq(Request), DoneFirst(reqs), reqs # <<>> => ~Head(reqs).done
  PROVE  Done(reqs) = 0
<1>1. Done(reqs) \in 0 .. Len(reqs) /\ WrittenUpTo(reqs, Done(reqs)) /\ Len(reqs) \in Nat
  BY UndoneType
<1>2. CASE reqs = <<>>
  BY <1>1, <1>2
<1>3. CASE reqs # <<>>
  <2>1. 1 \in 1 .. Len(reqs) /\ Head(reqs) = reqs[1]
    BY <1>3
  <2>2. ~(1 <= Done(reqs))
    BY <1>1, <1>3, <2>1, Zenon DEF WrittenUpTo
  <2> QED
    BY <1>1, <2>2
<1> QED
  BY <1>2, <1>3

LEMMA NoneDoneTail ==
  ASSUME NEW reqs \in Seq(Request), DoneFirst(reqs), reqs # <<>>, ~Head(reqs).done
  PROVE  Tail(reqs) \in Seq(Request) /\ DoneFirst(Tail(reqs)) /\ Done(Tail(reqs)) = 0
<1> DEFINE s == Tail(reqs)
           N == Len(reqs)
<1>1. Done(reqs) = 0 /\ WrittenUpTo(reqs, Done(reqs)) /\ N \in Nat \ {0}
  BY NoneDone, UndoneType
<1>2. s \in Seq(Request) /\ Len(s) = N - 1 /\ \A k \in 1 .. N - 1 : s[k] = reqs[k + 1]
  BY <1>1
<1> HIDE DEF s
<1>3. WrittenUpTo(s, 0)
  <2>1. ASSUME NEW k \in 1 .. N - 1 PROVE s[k].done <=> k <= 0
    <3>1. k + 1 \in 1 .. N /\ (k + 1 <= 0 <=> k <= 0)
      BY <1>1
    <3> QED
      BY <1>1, <1>2, <3>1, Zenon DEF WrittenUpTo
  <2> QED
    BY <1>2, <2>1, Zenon DEF WrittenUpTo
<1>4. 0 \in 0 .. Len(s)
  BY <1>1, <1>2
<1>5. Done(s) = 0 /\ DoneFirst(s)
  BY <1>2, <1>3, <1>4, DoneIs, Zenon DEF DoneFirst
<1> QED
  BY <1>2, <1>5 DEF s

-----------------------------------------------------------------------------
(* What is on its way behind the wire.                                     *)
Rest(reqs, fns) == PartBytes(RequestParts(Undone(reqs)) \o FunctionParts(fns))

LEMMA OutgoingIs ==
  ASSUME NEW w, NEW reqs, NEW fns
  PROVE  Outgoing(w, reqs, fns) = w \o Rest(reqs, fns)
BY Zenon DEF Outgoing, Rest

LEMMA RestType ==
  ASSUME NEW reqs \in Seq(Request), DoneFirst(reqs), NEW fns \in Seq(Function)
  PROVE  /\ RequestParts(Undone(reqs)) \in Seq(Part)
         /\ FunctionParts(fns) \in Seq(Part)
         /\ Rest(reqs, fns) \in Seq(Byte)
<1> DEFINE a == RequestParts(Undone(reqs))
           b == FunctionParts(fns)
<1>1. a \in Seq(Part) /\ b \in Seq(Part)
  BY UndoneType, RequestPartsType, FunctionPartsType, Zenon
<1> HIDE DEF a, b
<1>2. a \o b \in Seq(Part)
  BY <1>1
<1>3. PartBytes(a \o b) \in Seq(Byte)
  BY <1>2, PartBytesType, Zenon
<1> QED
  BY <1>1, <1>3, Zenon DEF Rest, a, b

(* A function is deferred.                                                 *)
LEMMA RestGrow ==
  ASSUME NEW reqs \in Seq(Request), DoneFirst(reqs),
         NEW fns \in Seq(Function), NEW new \in Seq(Function)
  PROVE  Rest(reqs, fns \o new) = Rest(reqs, fns) \o PartBytes(FunctionParts(new))
<1> DEFINE a == RequestParts(Undone(reqs))
           b == FunctionParts(fns)
           c == FunctionParts(new)
<1>1. a \in Seq(Part) /\ b \in Seq(Part) /\ c \in Seq(Part)
  BY RestType, FunctionPartsType, Zenon
<1>2. FunctionParts(fns \o new) = b \o c
  BY FunctionPartsConcat, Zenon
<1> HIDE DEF a, b, c
<1>3. Regroups(a, b, c)
  BY <1>1, Associative, Zenon
<1>4. a \o b \in Seq(Part)
  BY <1>1
<1>5. PartBytes((a \o b) \o c) = PartBytes(a \o b) \o PartBytes(c)
  BY <1>1, <1>4, PartBytesConcat, Zenon
<1>6. PartBytes(a \o (b \o c)) = PartBytes(a \o b) \o PartBytes(c)
  BY <1>3, <1>5, Zenon DEF Regroups
<1> QED
  BY <1>2, <1>6, Zenon DEF Rest, a, b, c

(* A function is run: its parts become requests.                           *)
LEMMA RestRun ==
  ASSUME NEW reqs \in Seq(Request), DoneFirst(reqs), NEW fns \in Seq(Function),
         fns # <<>>, Head(fns).fn = "write",
         NEW new \in Seq(Request), NotDone(new), RequestParts(new) = PartsOf(Head(fns).op)
  PROVE  Rest(reqs \o new, Tail(fns)) = Rest(reqs, fns)
<1> DEFINE a == RequestParts(Undone(reqs))
           b == RequestParts(new)
           c == FunctionParts(Tail(fns))
<1>1. a \in Seq(Part) /\ b \in Seq(Part) /\ c \in Seq(Part)
  <2>1. Tail(fns) \in Seq(Function)
    OBVIOUS
  <2> QED
    BY <2>1, RestType, RequestPartsType, FunctionPartsType, Zenon
<1>2. FunctionParts(fns) = b \o c
  BY FunctionPartsTail, Zenon
<1>3. RequestParts(Undone(reqs \o new)) = a \o b
  <2>1. Undone(reqs \o new) = Undone(reqs) \o new
    BY UndoneGrow, Zenon
  <2>2. RequestParts(Undone(reqs) \o new) = RequestParts(Undone(reqs)) \o RequestParts(new)
    BY UndoneType, RequestPartsConcat, Zenon
  <2> QED
    BY <2>1, <2>2, Zenon
<1> HIDE DEF a, b, c
<1>4. Regroups(a, b, c)
  BY <1>1, Associative, Zenon
<1> QED
  BY <1>2, <1>3, <1>4, Zenon DEF Rest, Regroups, a, c

(* A request is written: its bytes go to the wire.                         *)
LEMMA RestWrite ==
  ASSUME NEW reqs \in Seq(Request), NEW s \in Seq(Request), DoneFirst(reqs), DoneFirst(s),
         NEW q \in Request, Undone(reqs) = <<q>> \o Undone(s), NEW fns \in Seq(Function)
  PROVE  Rest(reqs, fns) = Bytes(q.msg, q.part) \o Rest(s, fns)
<1> DEFINE a == RequestParts(<<q>>)
           b == RequestParts(Undone(s))
           c == FunctionParts(fns)
<1>1. <<q>> \in Seq(Request)
  OBVIOUS
<1>2. a \in Seq(Part) /\ b \in Seq(Part) /\ c \in Seq(Part)
  BY <1>1, RestType, RequestPartsType, Zenon
<1>3. RequestParts(Undone(reqs)) = a \o b
  <2>1. RequestParts(<<q>> \o Undone(s)) = RequestParts(<<q>>) \o RequestParts(Undone(s))
    BY <1>1, UndoneType, RequestPartsConcat, Zenon
  <2> QED
    BY <2>1, Zenon
<1>4. PartBytes(a) = Bytes(q.msg, q.part)
  <2>1. a = <<PartOf(q)>>
    BY DEF RequestParts, PartOf
  <2>2. PartOf(q) \in Part /\ PartOf(q).msg = q.msg /\ PartOf(q).part = q.part
    BY DEF PartOf, Part, Request
  <2>3. PartBytes(<<PartOf(q)>>) = Bytes(PartOf(q).msg, PartOf(q).part)
    BY <2>2, PartBytesOne, Zenon
  <2> QED
    BY <2>1, <2>2, <2>3, Zenon
<1> HIDE DEF a, b, c
<1>5. Regroups(a, b, c)
  BY <1>2, Associative, Zenon
<1>6. b \o c \in Seq(Part)
  BY <1>2
<1>7. PartBytes(a \o (b \o c)) = PartBytes(a) \o PartBytes(b \o c)
  BY <1>2, <1>6, PartBytesConcat, Zenon
<1>8. PartBytes((a \o b) \o c) = PartBytes(a) \o PartBytes(b \o c)
  BY <1>5, <1>7, Zenon DEF Regroups
<1> QED
  BY <1>3, <1>4, <1>8, Zenon DEF Rest, b, c

-----------------------------------------------------------------------------
(* What StreamAgrees says of one direction: w is on the wire, rest on its  *)
(* way, unread are the bytes of the messages not handled, skipped those of *)
(* them that were read.                                                    *)
Stream(w, rest, unread, skipped, flowing) ==
  /\ Follows(w, unread, skipped)
  /\ flowing => Follows(w \o rest, unread, skipped) /\ Len(w \o rest) + skipped = Len(unread)

LEMMA StreamGrow ==
  ASSUME NEW X, NEW w \in Seq(X), NEW rest \in Seq(X), NEW u \in Seq(X), NEW b \in Seq(X),
         NEW sk \in Int, NEW fl, Stream(w, rest, u, sk, fl)
  PROVE  Stream(w, rest \o b, u \o b, sk, fl)
<1>1. Follows(w, u \o b, sk)
  BY FollowsLonger, Zenon DEF Stream
<1>2. ASSUME fl
      PROVE  /\ Follows(w \o (rest \o b), u \o b, sk)
             /\ Len(w \o (rest \o b)) + sk = Len(u \o b)
  <2> DEFINE v == w \o rest
  <2>1. v \in Seq(X)
    OBVIOUS
  <2>2. Follows(v, u, sk) /\ Len(v) + sk = Len(u)
    BY <1>2, Zenon DEF Stream
  <2>3. Regroups(w, rest, b)
    BY Associative, Zenon
  <2>4. v \o b = w \o (rest \o b)
    BY <2>3, Zenon DEF Regroups
  <2> HIDE DEF v
  <2>5. Follows(v \o b, u \o b, sk)
    BY <2>1, <2>2, FollowsGrow, Zenon
  <2>6. Len(v \o b) + sk = Len(u \o b)
    BY <2>1, <2>2
  <2> QED
    BY <2>4, <2>5, <2>6, Zenon
<1> QED
  BY <1>1, <1>2, Zenon DEF Stream

LEMMA StreamWrite ==
  ASSUME NEW X, NEW w \in Seq(X), NEW rest \in Seq(X), NEW u \in Seq(X), NEW b \in Seq(X),
         NEW sk \in Int, NEW fl, Stream(w, b \o rest, u, sk, TRUE)
  PROVE  Stream(w \o b, rest, u, sk, fl)
<1> DEFINE v == w \o b
<1>1. v \in Seq(X)
  OBVIOUS
<1>2. Regroups(w, b, rest)
  BY Associative, Zenon
<1>3. w \o (b \o rest) = v \o rest
  BY <1>2, Zenon DEF Regroups
<1> HIDE DEF v
<1>4. Follows(v \o rest, u, sk) /\ Len(v \o rest) + sk = Len(u)
  BY <1>3, Zenon DEF Stream
<1>5. Follows(v, u, sk)
  BY <1>1, <1>4, FollowsPrefix, Zenon
<1> QED
  BY <1>4, <1>5, Zenon DEF Stream, v

LEMMA StreamDrop ==
  ASSUME NEW X, NEW w \in Seq(X), NEW rest \in Seq(X), NEW u \in Seq(X), NEW sk \in Int,
         NEW fl, NEW n \in 0 .. Len(w), Stream(w, rest, u, sk, fl)
  PROVE  Stream(SubSeq(w, n + 1, Len(w)), rest, u, n + sk, fl)
<1> DEFINE a == SubSeq(w, n + 1, Len(w))
           v == w \o rest
<1>1. Follows(a, u, n + sk)
  BY FollowsDrop, Zenon DEF Stream
<1>2. ASSUME fl PROVE Follows(a \o rest, u, n + sk) /\ Len(a \o rest) + (n + sk) = Len(u)
  <2>1. /\ v \in Seq(X) /\ Len(w) \in Nat /\ Len(rest) \in Nat /\ Len(v) = Len(w) + Len(rest)
        /\ n \in 0 .. Len(v) /\ n \in Nat
    OBVIOUS
  <2>2. Follows(v, u, sk) /\ Len(v) + sk = Len(u)
    BY <1>2, Zenon DEF Stream
  <2>3. SubSeq(v, n + 1, Len(v)) = a \o rest
    BY DropFront, Zenon
  <2> HIDE DEF v
  <2>4. Follows(SubSeq(v, n + 1, Len(v)), u, n + sk)
    BY <2>1, <2>2, FollowsDrop, Zenon
  <2>5. Len(a \o rest) = Len(v) - n
    <3>1. a \in Seq(X) /\ Len(a) = Len(w) - n
      BY <2>1
    <3> HIDE DEF a
    <3>2. Len(a \o rest) = Len(a) + Len(rest)
      BY <3>1, ConcatProperties, Zenon
    <3> QED
      BY <2>1, <3>1, <3>2
  <2>6. Len(v) \in Nat
    BY <2>1
  <2> HIDE DEF a
  <2>7. Len(a \o rest) + (n + sk) = Len(u)
    BY <2>1, <2>2, <2>5, <2>6
  <2> QED
    BY <2>3, <2>4, <2>7, Zenon
<1> QED
  BY <1>1, <1>2, Zenon DEF Stream

LEMMA StreamHandled ==
  ASSUME NEW X, NEW w \in Seq(X), NEW rest \in Seq(X), NEW h \in Seq(X), NEW p \in Seq(X),
         NEW u \in Seq(X), NEW fl, \A k \in 1 .. Len(p) : p[k][2] = "payload",
         Stream(w, rest, (h \o p) \o u, Len(h), fl)
  PROVE  Stream(w, rest, u, -Len(p), fl)
<1>1. Follows(w, u, -Len(p))
  BY FollowsHandled, Zenon DEF Stream
<1>2. ASSUME fl PROVE Follows(w \o rest, u, -Len(p)) /\ Len(w \o rest) + (-Len(p)) = Len(u)
  <2> DEFINE v == w \o rest
             U == (h \o p) \o u
  <2>1. v \in Seq(X)
    OBVIOUS
  <2>2. Follows(v, (h \o p) \o u, Len(h)) /\ Len(v) + Len(h) = Len(U)
    BY <1>2, Zenon DEF Stream
  <2>3. Len(U) = Len(h) + Len(p) + Len(u)
    <3> DEFINE q == h \o p
    <3>1. q \in Seq(X) /\ Len(q) = Len(h) + Len(p)
      OBVIOUS
    <3> HIDE DEF q
    <3>2. Len(q \o u) = Len(q) + Len(u)
      BY <3>1
    <3> QED
      BY <3>1, <3>2 DEF q
  <2> HIDE DEF v, U
  <2>4. Follows(v, u, -Len(p))
    BY <2>1, <2>2, FollowsHandled, Zenon
  <2>5. Len(v) \in Nat /\ Len(h) \in Nat /\ Len(p) \in Nat /\ Len(u) \in Nat
    BY <2>1
  <2>6. Len(v) + (-Len(p)) = Len(u)
    BY <2>2, <2>3, <2>5
  <2> QED
    BY <2>4, <2>6 DEF v
<1> QED
  BY <1>1, <1>2, Zenon DEF Stream

LEMMA StreamStop ==
  ASSUME NEW w, NEW rest, NEW u, NEW sk, NEW fl, Stream(w, rest, u, sk, fl), NEW other
  PROVE  Stream(w, other, u, sk, FALSE)
BY Zenon DEF Stream

LEMMA StreamLonger ==
  ASSUME NEW X, NEW w \in Seq(X), NEW rest, NEW u \in Seq(X), NEW b \in Seq(X), NEW sk \in Int,
         NEW fl, Stream(w, rest, u, sk, fl), NEW other
  PROVE  Stream(w, other, u \o b, sk, FALSE)
BY FollowsLonger, Zenon DEF Stream

LEMMA StreamNone ==
  ASSUME NEW fl
  PROVE  Stream(<<>>, <<>>, <<>>, 0, fl)
<1>1. <<>> \o <<>> = <<>> /\ Len(<<>>) = 0
  OBVIOUS
<1>2. Follows(<<>>, <<>>, 0)
  BY DEF Follows
<1> QED
  BY <1>1, <1>2 DEF Stream

-----------------------------------------------------------------------------
(* What EventsMatchOps says of one rank: a are the parts in requests, the  *)
(* first d of them written, b those in functions, and ws are awaited.      *)
Events(a, d, b, ws, flowing) ==
  /\ d <= Len(ws) /\ \A k \in 1 .. d : ws[k] = a[k]
  /\ flowing => a \o b = ws

LEMMA EventsIs ==
  ASSUME NEW reqs \in Seq(Request), DoneFirst(reqs), NEW ws \in Seq(Part)
  PROVE  IsPrefix(RequestParts(SubSeq(reqs, 1, Done(reqs))), ws) <=>
           Done(reqs) <= Len(ws) /\ \A k \in 1 .. Done(reqs) : ws[k] = RequestParts(reqs)[k]
<1> DEFINE d == Done(reqs)
           s == SubSeq(reqs, 1, d)
           p == RequestParts(s)
<1>1. d \in 0 .. Len(reqs) /\ Len(reqs) \in Nat /\ d \in Nat
  BY UndoneType
<1> HIDE DEF d
<1>2. s \in Seq(Request) /\ Len(s) = d /\ \A k \in 1 .. d : s[k] = reqs[k]
  BY <1>1
<1> HIDE DEF s
<1>3. p \in Seq(Part) /\ Len(p) = d /\ \A k \in 1 .. d : p[k] = PartOf(s[k])
  BY <1>2, RequestPartsType, Zenon
<1>4. \A k \in 1 .. d : k \in 1 .. Len(reqs)
  BY <1>1
<1>5. \A k \in 1 .. Len(reqs) : RequestParts(reqs)[k] = PartOf(reqs[k])
  BY RequestPartsType, Zenon
<1>6. \A k \in 1 .. d : p[k] = RequestParts(reqs)[k]
  BY <1>2, <1>3, <1>4, <1>5, Zenon
<1> HIDE DEF p
<1>7. SubSeq(p, 1, Len(p)) = p
  BY <1>3, SubSeqFull
<1>8. ASSUME d <= Len(ws)
      PROVE  SubSeq(p, 1, Len(p)) = SubSeq(ws, 1, Len(p)) <=> \A k \in 1 .. d : ws[k] = p[k]
  <2> DEFINE q == SubSeq(ws, 1, d)
  <2>1. q \in Seq(Part) /\ Len(q) = d /\ \A k \in 1 .. d : q[k] = ws[k]
    BY <1>1, <1>8
  <2> HIDE DEF q
  <2>2. ASSUME \A k \in 1 .. d : ws[k] = p[k] PROVE p = q
    <3>1. Len(p) = Len(q) /\ \A k \in 1 .. Len(p) : p[k] = q[k]
      BY <1>3, <2>1, <2>2
    <3> QED
      BY <1>3, <2>1, <3>1, SeqEqual
  <2>3. p = q => \A k \in 1 .. d : ws[k] = p[k]
    BY <2>1, Zenon
  <2>4. SubSeq(ws, 1, Len(p)) = q
    BY <1>3, Zenon DEF q
  <2> QED
    BY <1>7, <2>2, <2>3, <2>4, Zenon
<1>9. IsPrefix(p, ws) <=> d <= Len(ws) /\ \A k \in 1 .. d : ws[k] = p[k]
  BY <1>3, <1>8, Zenon DEF IsPrefix
<1>10. (\A k \in 1 .. d : ws[k] = p[k]) <=> \A k \in 1 .. d : ws[k] = RequestParts(reqs)[k]
  BY <1>6, Zenon
<1> QED
  BY <1>9, <1>10, Zenon DEF d, s, p

LEMMA EventsGrow ==
  ASSUME NEW X, NEW a \in Seq(X), NEW b \in Seq(X), NEW ws \in Seq(X), NEW c \in Seq(X),
         NEW d \in Nat, NEW fl, Events(a, d, b, ws, fl)
  PROVE  Events(a, d, b \o c, ws \o c, fl)
<1>1. Len(ws) \in Nat /\ Len(c) \in Nat /\ Len(ws \o c) = Len(ws) + Len(c)
  OBVIOUS
<1>2. d <= Len(ws) /\ \A k \in 1 .. d : ws[k] = a[k]
  BY Zenon DEF Events
<1>3. d <= Len(ws \o c)
  BY <1>1, <1>2
<1>4. \A k \in 1 .. d : k \in 1 .. Len(ws)
  BY <1>1, <1>2
<1>5. \A k \in 1 .. Len(ws) : (ws \o c)[k] = ws[k]
  OBVIOUS
<1>6. Regroups(a, b, c)
  BY Associative, Zenon
<1>7. fl => a \o (b \o c) = ws \o c
  <2>1. fl => a \o b = ws
    BY Zenon DEF Events
  <2>2. (a \o b) \o c = a \o (b \o c)
    BY <1>6, Zenon DEF Regroups
  <2> QED
    BY <2>1, <2>2, Zenon
<1> QED
  BY <1>2, <1>3, <1>4, <1>5, <1>7, Zenon DEF Events

LEMMA EventsRun ==
  ASSUME NEW X, NEW a \in Seq(X), NEW b \in Seq(X), NEW c \in Seq(X), NEW ws,
         NEW d \in 0 .. Len(a), NEW fl, Events(a, d, c \o b, ws, fl)
  PROVE  Events(a \o c, d, b, ws, fl)
<1>1. d <= Len(ws) /\ \A k \in 1 .. d : ws[k] = a[k]
  BY Zenon DEF Events
<1>2. \A k \in 1 .. d : (a \o c)[k] = a[k]
  OBVIOUS
<1>3. Regroups(a, c, b)
  BY Associative, Zenon
<1>4. fl => (a \o c) \o b = ws
  <2>1. fl => a \o (c \o b) = ws
    BY Zenon DEF Events
  <2> QED
    BY <1>3, <2>1, Zenon DEF Regroups
<1> QED
  BY <1>1, <1>2, <1>4, Zenon DEF Events

LEMMA EventsWrite ==
  ASSUME NEW X, NEW a \in Seq(X), NEW b \in Seq(X), NEW ws, NEW d \in 0 .. Len(a), NEW fl,
         Events(a, d, b, ws, TRUE), NEW e \in 0 .. Len(a)
  PROVE  Events(a, e, b, ws, fl)
<1>1. a \o b = ws
  BY Zenon DEF Events
<1>2. Len(a) \in Nat /\ Len(b) \in Nat /\ Len(a \o b) = Len(a) + Len(b) /\ e \in Nat /\ e <= Len(a)
  OBVIOUS
<1>3. \A k \in 1 .. e : (a \o b)[k] = a[k]
  OBVIOUS
<1>4. e <= Len(a \o b)
  BY <1>2
<1> QED
  BY <1>1, <1>3, <1>4, Zenon DEF Events

LEMMA EventsTail ==
  ASSUME NEW X, NEW a \in Seq(X), NEW b \in Seq(X), NEW ws \in Seq(X), NEW d \in 1 .. Len(a),
         NEW fl, Events(a, d, b, ws, fl)
  PROVE  Events(Tail(a), d - 1, b, Tail(ws), fl)
<1>1. d <= Len(ws) /\ \A k \in 1 .. d : ws[k] = a[k]
  BY Zenon DEF Events
<1>2. Len(a) \in Nat /\ Len(ws) \in Nat /\ a # <<>> /\ ws # <<>> /\ d \in Nat
  BY <1>1
<1>3. /\ Len(Tail(ws)) = Len(ws) - 1 /\ \A k \in 1 .. Len(ws) - 1 : Tail(ws)[k] = ws[k + 1]
      /\ \A k \in 1 .. Len(a) - 1 : Tail(a)[k] = a[k + 1]
  BY <1>2
<1>4. d - 1 <= Len(Tail(ws))
  BY <1>1, <1>2, <1>3
<1>5. ASSUME NEW k \in 1 .. d - 1 PROVE Tail(ws)[k] = Tail(a)[k]
  <2>1. k \in 1 .. Len(ws) - 1 /\ k \in 1 .. Len(a) - 1 /\ k + 1 \in 1 .. d
    BY <1>1, <1>2
  <2> QED
    BY <1>1, <1>3, <2>1
<1>6. Tail(a \o b) = Tail(a) \o b
  BY <1>2
<1>7. fl => Tail(a) \o b = Tail(ws)
  BY <1>6, Zenon DEF Events
<1> QED
  BY <1>4, <1>5, <1>7, Zenon DEF Events

LEMMA EventsStop ==
  ASSUME NEW a, NEW d, NEW b, NEW ws, NEW fl, Events(a, d, b, ws, fl), NEW other
  PROVE  Events(a, d, other, ws, FALSE)
BY Zenon DEF Events

LEMMA EventsZero ==
  ASSUME NEW a, NEW b, NEW X, NEW ws \in Seq(X)
  PROVE  Events(a, 0, b, ws, FALSE)
<1>1. 0 <= Len(ws) /\ \A k \in 1 .. 0 : ws[k] = a[k]
  OBVIOUS
<1> QED
  BY <1>1, Zenon DEF Events

LEMMA EventsNone ==
  ASSUME NEW fl
  PROVE  Events(<<>>, 0, <<>>, <<>>, fl)
BY DEF Events

(* onWrite leaves the rest of what was awaited.                            *)
LEMMA TailOfOne ==
  ASSUME NEW X, NEW x \in X, NEW t \in Seq(X)
  PROVE  Tail(<<x>> \o t) = t
OBVIOUS

LEMMA TailOfTwo ==
  ASSUME NEW X, NEW x \in X, NEW y \in X, NEW t \in Seq(X)
  PROVE  Tail(<<x, y>> \o t) = <<y>> \o t
<1>1. Regroups(<<x>>, <<y>>, t)
  <2>1. <<x>> \in Seq(X) /\ <<y>> \in Seq(X)
    OBVIOUS
  <2> QED
    BY <2>1, Associative, Zenon
<1>2. <<x, y>> \o t = <<x>> \o (<<y>> \o t)
  BY <1>1, TwoIsConcat, Zenon DEF Regroups
<1>3. <<y>> \o t \in Seq(X)
  OBVIOUS
<1>4. Tail(<<x>> \o (<<y>> \o t)) = <<y>> \o t
  BY <1>3, TailOfOne, Zenon
<1> QED
  BY <1>2, <1>4, Zenon

LEMMA AwaitedWritten ==
  ASSUME NEW ops \in Seq(Operation), ops # <<>>, Written(Head(ops))
  PROVE  Awaited(Tail(ops)) = Tail(Awaited(ops))
<1> DEFINE h == Head(ops)
           t == Awaited(Tail(ops))
           x == ThePart(h, "preamble")
           y == ThePart(h, "payload")
<1>1. h \in Operation /\ Tail(ops) \in Seq(Operation)
  OBVIOUS
<1>2. /\ h.n \in Nat /\ h.msg \in M!Message /\ h.nwritten \in {0, Preamble}
      /\ h.nwritten # 0 => h.msg.opcode = "SEND_UNBOUND_BUFFER"
  BY <1>1, OperationFields, Zenon
<1>3. t \in Seq(Part) /\ Awaited(ops) = OpParts[h] \o t
  BY <1>1, AwaitedType, AwaitedTail, Zenon
<1>4. x \in Part /\ y \in Part
  BY <1>2, ThePartType DEF Kinds
<1>5. OpParts[h] = IF h.nwritten = 0 THEN PartsOf(h) ELSE Tail(PartsOf(h))
  BY <1>1, Zenon DEF OpParts
<1>6. OpParts[h] = <<x>> \/ OpParts[h] = <<y>>
  <2>1. CASE h.msg.opcode = "SEND_UNBOUND_BUFFER"
    <3>1. h.nwritten # 0
      BY <2>1, LengthsAssumption DEF Written
    <3>2. PartsOf(h) = <<x, y>>
      BY <2>1, PartsOfIs, Zenon
    <3>3. Tail(<<x, y>>) = <<y>>
      <4> HIDE DEF x, y
      <4> QED
        OBVIOUS
    <3> QED
      BY <1>5, <3>1, <3>2, <3>3, Zenon
  <2>2. CASE h.msg.opcode # "SEND_UNBOUND_BUFFER"
    <3>1. PartsOf(h) = <<x>>
      BY <2>2, PartsOfIs, Zenon
    <3> QED
      BY <1>2, <1>5, <2>2, <3>1, Zenon
  <2> QED
    BY <2>1, <2>2
<1> HIDE DEF x, y, t
<1>7. Tail(<<x>> \o t) = t /\ Tail(<<y>> \o t) = t
  BY <1>3, <1>4, TailOfOne, Zenon
<1>8. Tail(Awaited(ops)) = t
  BY <1>3, <1>6, <1>7, Zenon
<1> QED
  BY <1>8 DEF t

LEMMA AwaitedHalf ==
  ASSUME NEW ops \in Seq(Operation), ops # <<>>, ~Written(Head(ops))
  PROVE  LET s == [ops EXCEPT ![1].nwritten = Preamble] IN
         s \in Seq(Operation) /\ Awaited(s) = Tail(Awaited(ops))
<1> DEFINE s == [ops EXCEPT ![1].nwritten = Preamble]
           h == Head(ops)
           g == [h EXCEPT !.nwritten = Preamble]
           t == Awaited(Tail(ops))
           x == ThePart(h, "preamble")
           y == ThePart(h, "payload")
<1>1. h \in Operation /\ Tail(ops) \in Seq(Operation) /\ h = ops[1] /\ 1 \in 1 .. Len(ops)
  OBVIOUS
<1>2. h.n \in Nat /\ h.msg \in M!Message /\ h.nwritten \in {0, Preamble}
  BY <1>1, OperationFields, Zenon
<1>3. h.msg.opcode = "SEND_UNBOUND_BUFFER" /\ h.nwritten = 0
  BY <1>2, LengthsAssumption DEF Written
<1>4. g \in Operation /\ g.nwritten = Preamble /\ g.n = h.n /\ g.msg = h.msg
  BY <1>1, <1>3 DEF Operation
<1>5. s = [ops EXCEPT ![1] = g]
  BY <1>1
<1> HIDE DEF s, g, h
<1>6. s \in Seq(Operation) /\ Head(s) = g /\ Tail(s) = Tail(ops) /\ s # <<>>
  BY <1>1, <1>4, <1>5
<1>7. t \in Seq(Part) /\ Awaited(ops) = OpParts[h] \o t /\ Awaited(s) = OpParts[g] \o t
  BY <1>1, <1>6, AwaitedType, AwaitedTail, Zenon DEF h
<1>8. x \in Part /\ y \in Part
  BY <1>2, ThePartType DEF Kinds
<1>9. OpParts[h] = <<x, y>>
  <2>1. OpParts[h] = PartsOf(h)
    BY <1>1, <1>3, Zenon DEF OpParts
  <2>2. PartsOf(h) = <<x, y>>
    BY <1>3, PartsOfIs, Zenon
  <2> QED
    BY <2>1, <2>2, Zenon
<1>10. OpParts[g] = <<y>>
  <2>1. g.nwritten # 0
    BY <1>4, LengthsAssumption
  <2>2. OpParts[g] = Tail(PartsOf(g))
    BY <1>4, <2>1, Zenon DEF OpParts
  <2>3. PartsOf(g) = <<x, y>>
    <3>1. ThePart(g, "preamble") = x /\ ThePart(g, "payload") = y
      BY <1>4, Zenon DEF ThePart
    <3>2. g.msg.opcode = "SEND_UNBOUND_BUFFER"
      BY <1>3, <1>4, Zenon
    <3> QED
      BY <3>1, <3>2, PartsOfIs, Zenon
  <2>4. Tail(<<x, y>>) = <<y>>
    <3> HIDE DEF x, y
    <3> QED
      OBVIOUS
  <2> QED
    BY <2>2, <2>3, <2>4, Zenon
<1> HIDE DEF x, y, t
<1>11. Tail(<<x, y>> \o t) = <<y>> \o t
  BY <1>7, <1>8, TailOfTwo, Zenon
<1>12. Awaited(s) = Tail(Awaited(ops))
  BY <1>7, <1>9, <1>10, <1>11, Zenon
<1> QED
  BY <1>6, <1>12 DEF s

-----------------------------------------------------------------------------
(* The two ranks.                                                          *)
LEMMA PeerIs ==
  ASSUME NEW r \in Ranks
  PROVE  /\ Peer(r) \in Ranks /\ Peer(r) # r /\ Peer(Peer(r)) = r
         /\ \A q \in Ranks : q = r \/ q = Peer(r)
<1>1. IsFiniteSet(Ranks) /\ Cardinality(Ranks) = 2
  BY AddressAssumption
<1>2. IsFiniteSet(Ranks \ {r}) /\ Cardinality(Ranks \ {r}) = 1
  BY <1>1, FS_RemoveElement
<1>3. PICK p : Ranks \ {r} = {p}
  BY <1>2, FS_Singleton
<1>4. p \in Ranks /\ p # r /\ \A q \in Ranks : q = r \/ q = p
  BY <1>3
<1>5. Peer(r) = p
  BY <1>4 DEF Peer
<1>6. Peer(p) = r
  BY <1>4 DEF Peer
<1> QED
  BY <1>4, <1>5, <1>6

LEMMA RoleIs ==
  ASSUME NEW r \in Ranks
  PROVE  /\ Role(r) \in {"connectAsListener", "connectAsInitiator"}
         /\ Role(Peer(r)) # Role(r)
<1> DEFINE p == Peer(r)
           a == Address[r]
           b == Address[p]
<1>1. p \in Ranks /\ p # r /\ Peer(p) = r
  BY PeerIs
<1>2. a \in [sock : Nat, seq : Nat] /\ b \in [sock : Nat, seq : Nat] /\ a # b
  BY <1>1, AddressAssumption
<1>3. a.sock \in Nat /\ b.sock \in Nat /\ a.seq \in Nat /\ b.seq \in Nat
  BY <1>2
<1>4. a.sock # b.sock \/ a.seq # b.seq
  BY <1>2
<1>5. Role(r) = IF (IF a.sock # b.sock THEN a.sock - b.sock ELSE a.seq - b.seq) < 0
                THEN "connectAsListener" ELSE "connectAsInitiator"
  BY DEF Role
<1>6. Role(p) = IF (IF b.sock # a.sock THEN b.sock - a.sock ELSE b.seq - a.seq) < 0
                THEN "connectAsListener" ELSE "connectAsInitiator"
  BY <1>1 DEF Role
<1> HIDE DEF p, a, b
<1> QED
  BY <1>3, <1>4, <1>5, <1>6 DEF p

-----------------------------------------------------------------------------
(* The protocol is the one of SendRecvProofs, the same with the same       *)
(* variables.                                                              *)
LEMMA ProtocolAssumptions == P!RanksAssumption /\ P!BoundsAssumption
BY AddressAssumption, BoundsAssumption
   DEF P!RanksAssumption, P!BoundsAssumption, IsFiniteSet, P!IsFiniteSet

LEMMA SameMessages == M!Message = P!Message
BY DEF M!Message, P!Message

LEMMA SameInit == M!Init = P!Init
BY Zenon DEF M!Init, P!Init

LEMMA SameSend ==
  ASSUME NEW i, NEW j, NEW s
  PROVE  M!Send(i, j, s) = P!Send(i, j, s)
BY Zenon DEF M!Send, P!Send, M!Listed, P!Listed, M!ShiftTally, P!ShiftTally, M!Shift, P!Shift,
             M!FirstIndex, P!FirstIndex, M!RemoveAt, P!RemoveAt, M!Write, P!Write,
             M!NotifySendReady, P!NotifySendReady, M!SendUnboundBuffer, P!SendUnboundBuffer,
             M!Enqueue, P!Enqueue

LEMMA SameRecvFrom ==
  ASSUME NEW i, NEW j, NEW s
  PROVE  M!RecvFrom(j, i, s) = P!RecvFrom(j, i, s)
BY Zenon DEF M!RecvFrom, P!RecvFrom, M!Listed, P!Listed, M!ShiftTally, P!ShiftTally, M!Shift,
             P!Shift, M!FirstIndex, P!FirstIndex, M!RemoveAt, P!RemoveAt, M!Write, P!Write,
             M!PushTally, P!PushTally, M!CommitRecv, P!CommitRecv,
             M!NotifyRecvReady, P!NotifyRecvReady, M!Enqueue, P!Enqueue

LEMMA SameRecvFromAny ==
  ASSUME NEW j, NEW s, NEW from
  PROVE  M!RecvFromAny(j, s, from) = P!RecvFromAny(j, s, from)
BY Zenon DEF M!RecvFromAny, P!RecvFromAny, M!NoRank, P!NoRank, M!tallies, P!tallies

LEMMA SameCallStep ==
  ASSUME NEW j, NEW n
  PROVE  M!CallStep(j, n) = P!CallStep(j, n)
BY Zenon DEF M!CallStep, P!CallStep, M!RecvFromAnyFindRank, P!RecvFromAnyFindRank,
             M!TryRecv, P!TryRecv, M!Listed, P!Listed, M!ShiftTally, P!ShiftTally, M!Shift,
             P!Shift, M!FirstIndex, P!FirstIndex, M!RemoveAt, P!RemoveAt, M!Write, P!Write,
             M!CommitRecv, P!CommitRecv, M!NotifyRecvReady, P!NotifyRecvReady,
             M!Enqueue, P!Enqueue, M!Continue, P!Continue, M!Return, P!Return,
             M!NoRank, P!NoRank, M!tallies, P!tallies, M!history, P!history

LEMMA SameHandle ==
  ASSUME NEW i, NEW j, NEW s
  PROVE  M!Handle(i, j, s) = P!Handle(i, j, s)
BY Zenon DEF M!Handle, P!Handle, M!HandleRemotePendingSend, P!HandleRemotePendingSend,
             M!HandleRemotePendingRecv, P!HandleRemotePendingRecv, M!ReceivePayload,
             P!ReceivePayload, M!Arrives, P!Arrives, M!Listed, P!Listed, M!ShiftTally,
             P!ShiftTally, M!Shift, P!Shift, M!FirstIndex, P!FirstIndex, M!RemoveAt, P!RemoveAt,
             M!Write, P!Write, M!Read, P!Read, M!PushTally, P!PushTally, M!CommitRecv,
             P!CommitRecv, M!NotifyRecvReady, P!NotifyRecvReady, M!SendUnboundBuffer,
             P!SendUnboundBuffer, M!Enqueue, P!Enqueue, M!Dequeue, P!Dequeue,
             M!tallies, P!tallies, M!history, P!history

LEMMA SameVars == UNCHANGED protocol <=> UNCHANGED P!vars
BY Zenon DEF protocol, P!vars, P!tallies, P!history

LEMMA StartsRight == M!Init => P!IInv
BY P!InitIInv, ProtocolAssumptions, SameInit, Zenon DEF P!RanksAssumption, P!BoundsAssumption

LEMMA StepsRight == P!IInv /\ [P!Next]_P!vars => P!IInv'
BY P!NextIInv, ProtocolAssumptions, Zenon DEF P!RanksAssumption, P!BoundsAssumption

-----------------------------------------------------------------------------
(* What the protocol does to the channels of the two ranks.                *)
Channels == [Ranks -> [Ranks -> Seq(M!Message)]]

LEMMA ProtocolTypes ==
  ASSUME P!IInv
  PROVE  M!TypeOK /\ channel \in Channels /\ anyCalls \in [Ranks -> SUBSET M!AnyCall]
<1>1. P!TypeOK
  BY P!TypeMeaning, ProtocolAssumptions DEF P!IInv, P!RanksAssumption, P!BoundsAssumption
<1>2. M!TypeOK = P!TypeOK
  BY Zenon DEF M!TypeOK, P!TypeOK, M!Recv, P!Recv, M!AnyCall, P!AnyCall, M!Message, P!Message,
               M!NoRank, P!NoRank
<1> QED
  BY <1>1, <1>2 DEF M!TypeOK, Channels

(* ch2 is ch where r has written new to its peer.                          *)
Extends(ch, ch2, r, new) ==
  /\ new \in Seq(M!Message)
  /\ ch2[r][Peer(r)] = ch[r][Peer(r)] \o new
  /\ ch2[Peer(r)][r] = ch[Peer(r)][r]

LEMMA ExtendsNone ==
  ASSUME NEW r \in Ranks, NEW ch \in Channels
  PROVE  Extends(ch, ch, r, <<>>)
BY PeerIs DEF Extends, Channels

LEMMA TypeParts ==
  ASSUME M!TypeOK
  PROVE  /\ sent \in [Ranks -> [Ranks -> [Slots -> Nat]]]
         /\ localPendingSend \in [Ranks -> [Ranks -> [Slots -> Seq(Nat)]]]
         /\ anyCalls \in [Ranks -> SUBSET M!AnyCall]
BY Zenon DEF M!TypeOK

LEMMA WriteType ==
  ASSUME NEW r \in Ranks, NEW j \in Ranks, NEW ch \in Channels, NEW m \in M!Message
  PROVE  /\ M!Write(ch, r, j, m) \in Channels
         /\ \E new : Extends(ch, M!Write(ch, r, j, m), r, new)
<1> DEFINE p == Peer(r)
           ch2 == M!Write(ch, r, j, m)
<1>1. p \in Ranks /\ p # r
  BY PeerIs
<1>2. ch2 \in Channels
  BY DEF M!Write, Channels
<1>3. CASE j = p
  <2>0. ch[r][p] \in Seq(M!Message)
    BY <1>1 DEF Channels
  <2>1. ch2[r][p] = ch[r][p] \o <<m>>
    <3>1. ch2[r][p] = Append(ch[r][p], m)
      BY <1>1, <1>3 DEF M!Write, Channels
    <3> QED
      BY <3>1, <2>0, AppendIsConcat
  <2>2. ch2[p][r] = ch[p][r]
    BY <1>1 DEF M!Write, Channels
  <2>3. <<m>> \in Seq(M!Message)
    OBVIOUS
  <2> QED
    BY <1>2, <2>1, <2>2, <2>3 DEF Extends
<1>4. CASE j # p
  <2>1. ch2[r][p] = ch[r][p]
    BY <1>1, <1>4 DEF M!Write, Channels
  <2>2. ch2[p][r] = ch[p][r]
    BY <1>1 DEF M!Write, Channels
  <2>3. ch[r][p] = ch[r][p] \o <<>>
    BY <1>1 DEF Channels
  <2>4. <<>> \in Seq(M!Message)
    OBVIOUS
  <2> QED
    BY <1>2, <2>1, <2>2, <2>3, <2>4 DEF Extends
<1> QED
  BY <1>3, <1>4

LEMMA ExtendsTwice ==
  ASSUME NEW r \in Ranks, NEW c1 \in Channels, NEW c2, NEW c3, NEW a, NEW b,
         Extends(c1, c2, r, a), Extends(c2, c3, r, b)
  PROVE  Extends(c1, c3, r, a \o b)
<1> DEFINE q == c1[r][Peer(r)]
<1>1. q \in Seq(M!Message) /\ a \in Seq(M!Message) /\ b \in Seq(M!Message)
  BY PeerIs DEF Extends, Channels
<1>2. (q \o a) \o b = q \o (a \o b)
  <2>1. Regroups(q, a, b)
    BY <1>1, Associative, Zenon
  <2> QED
    BY <2>1 DEF Regroups
<1>3. a \o b \in Seq(M!Message)
  BY <1>1
<1> QED
  BY <1>2, <1>3 DEF Extends

LEMMA MessagesType ==
  ASSUME NEW s \in Slots
  PROVE  /\ M!NotifySendReady(s) \in M!Message
         /\ M!NotifyRecvReady(s) \in M!Message
         /\ \A n \in Nat : M!SendUnboundBuffer(s, n) \in M!Message
BY DEF M!NotifySendReady, M!NotifyRecvReady, M!SendUnboundBuffer, M!Message

(* A rank that posts an operation only writes.                             *)
LEMMA PostEffect ==
  ASSUME NEW r \in Ranks, M!TypeOK, channel \in Channels,
         \/ \E s \in Slots : \/ M!Send(r, Peer(r), s) \/ M!RecvFrom(r, Peer(r), s)
                             \/ M!RecvFromAny(r, s, {Peer(r)})
         \/ \E n \in 1 .. MaxRecvs[r] : M!CallStep(r, n)
  PROVE  \E new : Extends(channel, channel', r, new)
<1> DEFINE p == Peer(r)
<1>0. p \in Ranks /\ p # r
  BY PeerIs
<1>1. CASE UNCHANGED channel
  BY <1>1, ExtendsNone
<1>2. ASSUME NEW s \in Slots, M!Send(r, p, s)
      PROVE  \E new : Extends(channel, channel', r, new)
  <2> DEFINE n == sent[r][p][s] + 1
             c2 == M!Write(channel, r, p, M!NotifySendReady(s))
  <2>1. n \in Nat
    BY <1>0, TypeParts
  <2>2. channel' = M!Write(c2, r, p, M!SendUnboundBuffer(s, n)) \/ channel' = c2
    BY <1>2 DEF M!Send
  <2> HIDE DEF n, c2
  <2>3. c2 \in Channels /\ \E a : Extends(channel, c2, r, a)
    BY <1>0, MessagesType, WriteType DEF c2
  <2>4. \E b : Extends(c2, M!Write(c2, r, p, M!SendUnboundBuffer(s, n)), r, b)
    BY <1>0, <2>1, <2>3, MessagesType, WriteType
  <2> QED
    BY <2>2, <2>3, <2>4, ExtendsTwice
<1>3. ASSUME NEW j \in Ranks, NEW s \in Slots, NEW recv, M!CommitRecv(r, j, s, recv, channel)
      PROVE  \E new : Extends(channel, channel', r, new)
  BY <1>3, MessagesType, WriteType DEF M!CommitRecv
<1>4. ASSUME NEW s \in Slots, M!RecvFrom(r, p, s)
      PROVE  \E new : Extends(channel, channel', r, new)
  BY <1>0, <1>3, <1>4 DEF M!RecvFrom
<1>5. ASSUME NEW call \in anyCalls[r],
             M!RecvFromAnyFindRank(r, call) \/ M!TryRecv(r, call)
      PROVE  \E new : Extends(channel, channel', r, new)
  <2>1. call.slot \in Slots /\ (call.rank # M!NoRank => call.rank \in Ranks)
    BY TypeParts DEF M!AnyCall
  <2>2. CASE M!RecvFromAnyFindRank(r, call)
    BY <2>2, <1>1 DEF M!RecvFromAnyFindRank
  <2>3. CASE M!TryRecv(r, call)
    BY <2>1, <2>3, <1>1, <1>3 DEF M!TryRecv
  <2> QED
    BY <1>5, <2>2, <2>3
<1>6. ASSUME NEW s \in Slots, M!RecvFromAny(r, s, {p}) PROVE UNCHANGED channel
  BY <1>6 DEF M!RecvFromAny
<1> QED
  BY <1>1, <1>2, <1>4, <1>5, <1>6 DEF M!CallStep

(* The loop thread handles the head of what its peer has written.          *)
Handles(ch, ch2, r, new) ==
  /\ new \in Seq(M!Message)
  /\ ch[Peer(r)][r] # <<>>
  /\ ch2[Peer(r)][r] = Tail(ch[Peer(r)][r])
  /\ ch2[r][Peer(r)] = ch[r][Peer(r)] \o new

LEMMA HandleEffect ==
  ASSUME NEW r \in Ranks, NEW s \in Slots, M!TypeOK, channel \in Channels,
         M!Handle(Peer(r), r, s)
  PROVE  /\ \E new : Handles(channel, channel', r, new)
         /\ M!ReceivePayload(Peer(r), r, s) => Handles(channel, channel', r, <<>>)
<1> DEFINE p == Peer(r)
           ch == M!Read(channel, p, r)
<1>0. p \in Ranks /\ p # r
  BY PeerIs
<1>1. channel[p][r] # <<>>
  BY DEF M!Handle, M!HandleRemotePendingSend, M!HandleRemotePendingRecv, M!ReceivePayload, M!Arrives
<1>2. ch \in Channels /\ ch[p][r] = Tail(channel[p][r]) /\ ch[r][p] = channel[r][p]
  BY <1>0, <1>1 DEF M!Read, Channels
<1>3. ASSUME NEW c2, NEW new, Extends(ch, c2, r, new) PROVE Handles(channel, c2, r, new)
  BY <1>1, <1>2, <1>3 DEF Extends, Handles
<1>4. Handles(channel, ch, r, <<>>)
  BY <1>2, <1>3, ExtendsNone
<1>5. ASSUME NEW m \in M!Message PROVE \E new : Handles(channel, M!Write(ch, r, p, m), r, new)
  BY <1>0, <1>2, <1>3, WriteType
<1> HIDE DEF ch
<1>6. ASSUME M!HandleRemotePendingSend(p, r, s)
      PROVE  \E new : Handles(channel, channel', r, new)
  <2>1. channel' = ch \/ channel' = M!Write(ch, r, p, M!NotifyRecvReady(s))
    BY <1>6 DEF M!HandleRemotePendingSend, M!CommitRecv, ch
  <2>2. CASE channel' = ch
    BY <2>2, <1>4
  <2>3. CASE channel' = M!Write(ch, r, p, M!NotifyRecvReady(s))
    <3>1. M!NotifyRecvReady(s) \in M!Message
      BY MessagesType
    <3>2. \E new : Handles(channel, M!Write(ch, r, p, M!NotifyRecvReady(s)), r, new)
      BY <3>1, <1>5, Zenon
    <3> QED
      BY <3>2, <2>3
  <2> QED
    BY <2>1, <2>2, <2>3
<1>7. ASSUME M!HandleRemotePendingRecv(p, r, s)
      PROVE  \E new : Handles(channel, channel', r, new)
  <2>1. localPendingSend[r][p][s] # <<>> => Head(localPendingSend[r][p][s]) \in Nat
    BY <1>0, TypeParts
  <2> DEFINE n == Head(localPendingSend[r][p][s])
  <2>2. \/ channel' = ch
        \/ n \in Nat /\ channel' = M!Write(ch, r, p, M!SendUnboundBuffer(s, n))
    BY <1>7, <2>1 DEF M!HandleRemotePendingRecv, ch
  <2>3. CASE channel' = ch
    BY <2>3, <1>4
  <2>4. CASE n \in Nat /\ channel' = M!Write(ch, r, p, M!SendUnboundBuffer(s, n))
    <3>1. M!SendUnboundBuffer(s, n) \in M!Message
      BY <2>4, MessagesType
    <3>2. \E new : Handles(channel, M!Write(ch, r, p, M!SendUnboundBuffer(s, n)), r, new)
      BY <3>1, <1>5, Zenon
    <3> QED
      BY <3>2, <2>4
  <2> QED
    BY <2>2, <2>3, <2>4
<1>8. M!ReceivePayload(p, r, s) => Handles(channel, channel', r, <<>>)
  BY <1>4 DEF M!ReceivePayload, ch
<1> QED
  BY <1>6, <1>7, <1>8 DEF M!Handle

(* In both cases, what is new is what WriteOp writes.                      *)
LEMMA NewMessagesIs ==
  ASSUME NEW r \in Ranks, channel \in Channels, NEW new \in Seq(M!Message),
         channel'[r][Peer(r)] = channel[r][Peer(r)] \o new
  PROVE  NewMessages(r) = new
<1> DEFINE q == channel[r][Peer(r)]
<1>1. q \in Seq(M!Message)
  BY PeerIs DEF Channels
<1>2. NewMessages(r) = SubSeq(q \o new, Len(q) + 1, Len(q \o new))
  BY DEF NewMessages
<1> HIDE DEF q
<1>3. Len(q) \in 0 .. Len(q)
  BY <1>1
<1>4. SubSeq(q \o new, Len(q) + 1, Len(q \o new)) = SubSeq(q, Len(q) + 1, Len(q)) \o new
  BY <1>1, <1>3, DropFront, Zenon
<1>5. SubSeq(q, Len(q) + 1, Len(q)) = <<>>
  BY <1>1
<1> QED
  BY <1>2, <1>4, <1>5

-----------------------------------------------------------------------------
(* The states of one end of the connection: how the state of the pair, the *)
(* handle, what the device has parked, the thread in Pair::connect and the *)
(* functions yet to run go together.                                       *)
AllWrites(fns) == \A k \in 1 .. Len(fns) : fns[k].fn = "write"
AllLate(fns) == \A k \in 1 .. Len(fns) : fns[k].fn = "write" /\ fns[k].op.late
Closes(fns) ==
  \E c \in 1 .. Len(fns) :
    /\ fns[c].fn = "close"
    /\ \A k \in 1 .. c - 1 : fns[k].fn = "write"
    /\ \A k \in c + 1 .. Len(fns) : fns[k].fn = "write" /\ fns[k].op.late

LEMMA FunctionLists ==
  ASSUME NEW fns \in Seq(Function)
  PROVE  /\ AllWrites(<<>>) /\ AllLate(<<>>)
         /\ AllLate(fns) => AllWrites(fns)
         /\ fns # <<>> /\ AllWrites(fns) => Head(fns).fn = "write" /\ AllWrites(Tail(fns))
         /\ fns # <<>> /\ AllLate(fns) => AllLate(Tail(fns))
         /\ Closes(fns) => fns # <<>> /\ Head(fns).fn \in {"write", "close"}
         /\ Closes(fns) /\ Head(fns).fn = "write" => Closes(Tail(fns))
         /\ Closes(fns) /\ Head(fns).fn = "close" => AllLate(Tail(fns))
<1>1. AllWrites(<<>>) /\ AllLate(<<>>) /\ (AllLate(fns) => AllWrites(fns))
  BY DEF AllWrites, AllLate
<1>2. ASSUME fns # <<>>
      PROVE  /\ Len(Tail(fns)) = Len(fns) - 1 /\ Head(fns) = fns[1] /\ 1 \in 1 .. Len(fns)
             /\ \A k \in 1 .. Len(Tail(fns)) : Tail(fns)[k] = fns[k + 1] /\ k + 1 \in 1 .. Len(fns)
             /\ Len(fns) \in Nat
  BY <1>2
<1>3. fns # <<>> /\ AllWrites(fns) => Head(fns).fn = "write" /\ AllWrites(Tail(fns))
  BY <1>2 DEF AllWrites
<1>4. fns # <<>> /\ AllLate(fns) => AllLate(Tail(fns))
  BY <1>2, Zenon DEF AllLate
<1>5. ASSUME Closes(fns)
      PROVE  /\ fns # <<>> /\ Head(fns).fn \in {"write", "close"}
             /\ Head(fns).fn = "write" => Closes(Tail(fns))
             /\ Head(fns).fn = "close" => AllLate(Tail(fns))
  <2>1. PICK c \in 1 .. Len(fns) :
          /\ fns[c].fn = "close"
          /\ \A k \in 1 .. c - 1 : fns[k].fn = "write"
          /\ \A k \in c + 1 .. Len(fns) : fns[k].fn = "write" /\ fns[k].op.late
    BY <1>5 DEF Closes
  <2>2. fns # <<>>
    BY <2>1
  <2>3. CASE c = 1
    <3>1. \A k \in 1 .. Len(Tail(fns)) : k + 1 \in c + 1 .. Len(fns)
      BY <2>2, <2>3, <1>2
    <3>2. AllLate(Tail(fns))
      BY <3>1, <2>1, <2>2, <1>2, Zenon DEF AllLate
    <3> QED
      BY <3>2, <2>1, <2>2, <2>3, <1>2
  <2>4. CASE c # 1
    <3>1. c - 1 \in 1 .. Len(Tail(fns)) /\ 1 \in 1 .. c - 1 /\ (c - 1) + 1 = c
      BY <2>2, <2>4, <1>2
    <3>2. \A k \in 1 .. (c - 1) - 1 : k \in 1 .. Len(Tail(fns)) /\ k + 1 \in 1 .. c - 1
      BY <2>2, <1>2
    <3>3. \A k \in (c - 1) + 1 .. Len(Tail(fns)) :
            k \in 1 .. Len(Tail(fns)) /\ k + 1 \in c + 1 .. Len(fns)
      BY <2>2, <1>2
    <3>4. Tail(fns)[c - 1].fn = "close"
      BY <3>1, <2>1, <2>2, <1>2
    <3>5. \A k \in 1 .. (c - 1) - 1 : Tail(fns)[k].fn = "write"
      BY <3>2, <2>1, <2>2, <1>2, Zenon
    <3>6. \A k \in (c - 1) + 1 .. Len(Tail(fns)) : Tail(fns)[k].fn = "write" /\ Tail(fns)[k].op.late
      BY <3>3, <2>1, <2>2, <1>2, Zenon
    <3>7. Closes(Tail(fns))
      BY <3>1, <3>4, <3>5, <3>6, Zenon DEF Closes
    <3>8. Head(fns).fn = "write"
      BY <3>1, <2>1, <2>2, <1>2
    <3> QED
      BY <3>7, <3>8, <2>2
  <2> QED
    BY <2>3, <2>4
<1> QED
  BY <1>1, <1>3, <1>4, <1>5

LEMMA FunctionListsGrow ==
  ASSUME NEW fns \in Seq(Function), NEW new \in Seq(Function)
  PROVE  /\ AllWrites(fns) /\ AllWrites(new) => AllWrites(fns \o new)
         /\ AllLate(fns) /\ AllLate(new) => AllLate(fns \o new)
         /\ Closes(fns) /\ AllLate(new) => Closes(fns \o new)
         /\ AllWrites(fns) => Closes(fns \o <<Fn("close")>>)
<1>1. ASSUME NEW b \in Seq(Function)
      PROVE  /\ Len(fns \o b) = Len(fns) + Len(b) /\ Len(fns) \in Nat /\ Len(b) \in Nat
             /\ \A k \in 1 .. Len(fns) : (fns \o b)[k] = fns[k] /\ k \in 1 .. Len(fns \o b)
             /\ \A k \in 1 .. Len(fns \o b) : k \in 1 .. Len(fns) \/ k - Len(fns) \in 1 .. Len(b)
             /\ \A k \in 1 .. Len(fns \o b) :
                  k \notin 1 .. Len(fns) => (fns \o b)[k] = b[k - Len(fns)]
  BY ConcatProperties
<1>a. /\ \A k \in 1 .. Len(fns) : (fns \o new)[k] = fns[k] /\ k \in 1 .. Len(fns \o new)
      /\ \A k \in 1 .. Len(fns \o new) : k \in 1 .. Len(fns) \/ k - Len(fns) \in 1 .. Len(new)
      /\ \A k \in 1 .. Len(fns \o new) :
           k \notin 1 .. Len(fns) => (fns \o new)[k] = new[k - Len(fns)]
  BY <1>1
<1>2. AllWrites(fns) /\ AllWrites(new) => AllWrites(fns \o new)
  BY <1>a, Zenon DEF AllWrites
<1>3. ASSUME AllLate(fns), AllLate(new) PROVE AllLate(fns \o new)
  <2> SUFFICES ASSUME NEW k \in 1 .. Len(fns \o new)
               PROVE  (fns \o new)[k].fn = "write" /\ (fns \o new)[k].op.late
    BY Zenon DEF AllLate
  <2>1. CASE k \in 1 .. Len(fns)
    BY <2>1, <1>a, <1>3, Zenon DEF AllLate
  <2>2. CASE k \notin 1 .. Len(fns)
    <3>1. (fns \o new)[k] = new[k - Len(fns)] /\ k - Len(fns) \in 1 .. Len(new)
      BY <2>2, <1>a, Zenon
    <3> QED
      BY <3>1, <1>3, Zenon DEF AllLate
  <2> QED
    BY <2>1, <2>2, Zenon
<1>4. ASSUME Closes(fns), AllLate(new) PROVE Closes(fns \o new)
  <2>1. PICK c \in 1 .. Len(fns) :
          /\ fns[c].fn = "close"
          /\ \A k \in 1 .. c - 1 : fns[k].fn = "write"
          /\ \A k \in c + 1 .. Len(fns) : fns[k].fn = "write" /\ fns[k].op.late
    BY <1>4 DEF Closes
  <2>2. c \in 1 .. Len(fns \o new) /\ \A k \in 1 .. c - 1 : k \in 1 .. Len(fns)
    BY <1>1
  <2>3. \A k \in c + 1 .. Len(fns \o new) :
          /\ k \in 1 .. Len(fns \o new)
          /\ k \in c + 1 .. Len(fns) \/ (k \notin 1 .. Len(fns) /\ k - Len(fns) \in 1 .. Len(new))
          /\ k \in c + 1 .. Len(fns) => k \in 1 .. Len(fns)
    BY <1>1
  <2>4. (fns \o new)[c].fn = "close" /\ \A k \in 1 .. c - 1 : (fns \o new)[k].fn = "write"
    BY <1>1, <2>1, <2>2
  <2>5. \A k \in c + 1 .. Len(fns \o new) : (fns \o new)[k].fn = "write" /\ (fns \o new)[k].op.late
    <3> SUFFICES ASSUME NEW k \in c + 1 .. Len(fns \o new)
                 PROVE  (fns \o new)[k].fn = "write" /\ (fns \o new)[k].op.late
      BY Zenon
    <3>1. CASE k \in c + 1 .. Len(fns)
      BY <3>1, <1>a, <2>1, <2>3, Zenon
    <3>2. CASE k \notin 1 .. Len(fns) /\ k - Len(fns) \in 1 .. Len(new)
      BY <3>2, <1>a, <1>4, <2>3, Zenon DEF AllLate
    <3> QED
      BY <3>1, <3>2, <2>3, Zenon
  <2> QED
    BY <2>2, <2>4, <2>5, Zenon DEF Closes
<1>5. ASSUME AllWrites(fns) PROVE Closes(fns \o <<Fn("close")>>)
  <2> DEFINE b == <<Fn("close")>>
  <2>1. b \in Seq(Function) /\ Len(b) = 1 /\ b[1].fn = "close"
    BY DEF Function, Fn
  <2> HIDE DEF b
  <2>0. Len(fns \o b) = Len(fns) + 1 /\ Len(fns) \in Nat
    BY <1>1, <2>1
  <2>a. /\ Len(fns \o b) = Len(fns) + 1 /\ Len(fns) \in Nat
        /\ (fns \o b)[Len(fns) + 1] = b[1]
    <3>1. Len(fns) + 1 \in 1 .. Len(fns \o b) /\ Len(fns) + 1 \notin 1 .. Len(fns)
      BY <2>0
    <3>2. (fns \o b)[Len(fns) + 1] = b[(Len(fns) + 1) - Len(fns)]
      BY <3>1, <2>1, <1>1
    <3> QED
      BY <3>2, <2>0
  <2>2. Len(fns) + 1 \in 1 .. Len(fns \o b) /\ (fns \o b)[Len(fns) + 1].fn = "close"
    BY <2>a, <2>1
  <2>3. \A k \in 1 .. (Len(fns) + 1) - 1 : (fns \o b)[k].fn = "write"
    BY <1>1, <1>5, <2>1 DEF AllWrites
  <2>4. \A k \in (Len(fns) + 1) + 1 .. Len(fns \o b) : FALSE
    BY <1>1, <2>1
  <2> QED
    BY <2>2, <2>3, <2>4, Zenon DEF Closes, b
<1> QED
  BY <1>2, <1>3, <1>4, <1>5

Early == {"INITIALIZED", "CONNECTING"}
Ended == {"CLOSED", "destroyed", "crashed"}

(* The handles of a pair without a connection; a listener's is opened by   *)
(* its peer.                                                               *)
Waiting(role) ==
  IF role = "connectAsListener" THEN {"none", "accepted", "parked", "closed"} ELSE {"none"}

HandleOK(role, st, h) ==
  /\ st = "INITIALIZED" => h \in Waiting(role)
  /\ st = "CONNECTING" =>
       h \in Waiting(role) \/ (role = "connectAsInitiator" /\ h \in {"connecting", "writing"})
  /\ st = "CONNECTED" => h = "open"
  /\ st = "CLOSING" => h \in {"open", "closing"}
  /\ st \in Ended => h \in Waiting(role) \/ h = "closed"

ParkedOK(role, st, h, pk, fns) ==
  /\ pk = "connection" => h = "parked"
  /\ pk = "callback" => role = "connectAsListener" /\ st = "CONNECTING" /\ fns = <<>>

ConnectOK(st, con) ==
  /\ st = "INITIALIZED" => con = "not called"
  /\ st = "CONNECTING" => con = "asleep"

FunctionsOK(role, st, h, fns) ==
  /\ st = "INITIALIZED" => fns = <<>>
  /\ st = "CONNECTING" => \/ fns = <<>>
                          \/ fns = <<Fn(role)>> /\ h \notin {"connecting", "writing"}
  /\ st = "CONNECTED" => AllWrites(fns)
  /\ st = "CLOSING" /\ h = "open" => Closes(fns)
  /\ st \in Ended \/ h = "closing" => AllLate(fns)

Link(role, st, h, pk, con, fns) ==
  HandleOK(role, st, h) /\ ParkedOK(role, st, h, pk, fns) /\ ConnectOK(st, con)
    /\ FunctionsOK(role, st, h, fns)

States == {"INITIALIZED", "CONNECTING", "CONNECTED", "CLOSING", "CLOSED", "destroyed", "crashed"}
Roles == {"connectAsListener", "connectAsInitiator"}

(* What a link says of the functions and of the handle.                    *)
LEMMA LinkMeans ==
  ASSUME NEW role \in Roles, NEW st \in States, NEW h, NEW pk, NEW con,
         NEW fns \in Seq(Function), Link(role, st, h, pk, con, fns)
  PROVE  /\ h \in {"connecting", "writing"} =>
              st = "CONNECTING" /\ role = "connectAsInitiator" /\ fns = <<>>
         /\ h = "open" => st \in {"CONNECTED", "CLOSING"}
         /\ h = "closing" => st = "CLOSING"
         /\ h \in {"accepted", "parked"} =>
              role = "connectAsListener" /\ st \notin {"CONNECTED", "CLOSING"}
         /\ con = "returned" => st \notin Early
         /\ fns # <<>> /\ Head(fns).fn \in Roles =>
              /\ st = "CONNECTING" /\ Head(fns).fn = role /\ Tail(fns) = <<>>
              /\ h \in Waiting(role)
         /\ fns # <<>> /\ Head(fns).fn = "close" => st = "CLOSING" /\ h = "open"
<1>1. /\ h \in {"connecting", "writing"} =>
            st = "CONNECTING" /\ role = "connectAsInitiator" /\ fns = <<>>
      /\ h = "open" => st \in {"CONNECTED", "CLOSING"}
      /\ h = "closing" => st = "CLOSING"
      /\ h \in {"accepted", "parked"} =>
           role = "connectAsListener" /\ st \notin {"CONNECTED", "CLOSING"}
      /\ con = "returned" => st \notin Early
  BY DEF Link, HandleOK, FunctionsOK, ConnectOK, States, Roles, Waiting, Early, Ended
<1>2. ASSUME fns # <<>>, ~(st = "CONNECTING" /\ fns = <<Fn(role)>>)
      PROVE  \/ Head(fns).fn = "write"
             \/ Head(fns).fn = "close" /\ st = "CLOSING" /\ h = "open"
  BY <1>2, FunctionLists DEF Link, HandleOK, FunctionsOK, States, Ended
<1>3. ASSUME st = "CONNECTING", fns = <<Fn(role)>>
      PROVE  Head(fns).fn = role /\ Tail(fns) = <<>> /\ h \in Waiting(role)
  BY <1>3 DEF Link, HandleOK, FunctionsOK, Fn
<1> QED
  BY <1>1, <1>2, <1>3 DEF Roles

(* The steps of a link.                                                    *)
LEMMA LinkConnecting ==
  ASSUME NEW role \in Roles, NEW h, NEW pk, NEW con, NEW fns \in Seq(Function),
         Link(role, "INITIALIZED", h, pk, con, fns)
  PROVE  /\ Link(role, "CONNECTING", h, pk, "asleep", fns \o <<Fn(role)>>)
         /\ fns = <<>> /\ h \in Waiting(role)
<1>1. fns = <<>> /\ h \in Waiting(role) /\ pk # "callback" /\ (pk = "connection" => h = "parked")
  BY DEF Link, HandleOK, FunctionsOK, ParkedOK
<1>2. <<>> \o <<Fn(role)>> = <<Fn(role)>>
  OBVIOUS
<1> QED
  BY <1>1, <1>2 DEF Link, HandleOK, FunctionsOK, ParkedOK, ConnectOK, Waiting, Roles, Ended

LEMMA LinkReturned ==
  ASSUME NEW role, NEW st, NEW h, NEW pk, NEW con, NEW fns, st \notin Early \/ con = "woken",
         Link(role, st, h, pk, con, fns), NEW con2
  PROVE  Link(role, st, h, pk, con2, fns)
BY DEF Link, ConnectOK, Early

LEMMA LinkConnected ==
  ASSUME NEW role, NEW con
  PROVE  Link(role, "CONNECTED", "open", "none", con, <<>>)
BY DEF Link, HandleOK, FunctionsOK, ParkedOK, ConnectOK, AllWrites, Ended

LEMMA LinkStashed ==
  ASSUME NEW role \in Roles, NEW h, NEW pk, NEW con, NEW fns \in Seq(Function), fns # <<>>,
         Head(fns).fn = "connectAsListener", Link(role, "CONNECTING", h, pk, con, fns),
         pk # "connection"
  PROVE  Link(role, "CONNECTING", h, "callback", con, <<>>)
<1>1. role = "connectAsListener" /\ h \in Waiting(role)
  BY LinkMeans DEF Roles, States
<1> QED
  BY <1>1 DEF Link, HandleOK, FunctionsOK, ParkedOK, ConnectOK, Waiting, Ended

LEMMA LinkInitiated ==
  ASSUME NEW role \in Roles, NEW h, NEW pk, NEW con, NEW fns \in Seq(Function), fns # <<>>,
         h \in Waiting(role), role = "connectAsInitiator", Link(role, "CONNECTING", h, pk, con, fns)
  PROVE  Link(role, "CONNECTING", "connecting", pk, con, <<>>)
BY DEF Link, HandleOK, FunctionsOK, ParkedOK, ConnectOK, Waiting, Roles, Ended

LEMMA LinkWriting ==
  ASSUME NEW role \in Roles, NEW st \in States, NEW pk, NEW con, NEW fns \in Seq(Function),
         Link(role, st, "connecting", pk, con, fns)
  PROVE  Link(role, st, "writing", pk, con, fns)
BY LinkMeans DEF Link, HandleOK, FunctionsOK, ParkedOK, ConnectOK, Waiting, Roles, Ended

LEMMA LinkAccepted ==
  ASSUME NEW st \in States, NEW pk, NEW con, NEW fns,
         Link("connectAsListener", st, "none", pk, con, fns)
  PROVE  Link("connectAsListener", st, "accepted", pk, con, fns)
BY DEF Link, HandleOK, FunctionsOK, ParkedOK, ConnectOK, Waiting, States, Ended

LEMMA LinkRefused ==
  ASSUME NEW role \in Roles, NEW st \in States, NEW h \in {"connecting", "writing"}, NEW pk,
         NEW con, NEW fns \in Seq(Function), Link(role, st, h, pk, con, fns)
  PROVE  Link(role, "CLOSED", "closed", pk, con, fns)
<1>1. st = "CONNECTING" /\ role = "connectAsInitiator" /\ fns = <<>>
  BY LinkMeans
<1> QED
  BY <1>1, FunctionLists DEF Link, HandleOK, FunctionsOK, ParkedOK, ConnectOK, Waiting, Ended

LEMMA LinkParked ==
  ASSUME NEW role \in Roles, NEW st \in States, NEW pk, NEW con, NEW fns \in Seq(Function),
         Link(role, st, "accepted", pk, con, fns)
  PROVE  /\ Link(role, st, "closed", pk, con, fns)
         /\ pk # "callback" => Link(role, st, "parked", "connection", con, fns)
<1>1. role = "connectAsListener" /\ st \notin {"CONNECTED", "CLOSING"}
  BY LinkMeans
<1> QED
  BY <1>1 DEF Link, HandleOK, FunctionsOK, ParkedOK, ConnectOK, Waiting, Ended, States

LEMMA LinkRunWrite ==
  ASSUME NEW role \in Roles, NEW st \in States, NEW h, NEW pk, NEW con, NEW fns \in Seq(Function),
         fns # <<>>, Head(fns).fn = "write", Link(role, st, h, pk, con, fns)
  PROVE  /\ Link(role, st, h, pk, con, Tail(fns))
         /\ st = "destroyed" => Link(role, "crashed", h, pk, con, Tail(fns))
<1>1. fns # <<Fn(role)>>
  BY DEF Fn, Roles
<1>2. st \notin Early /\ pk # "callback"
  BY <1>1 DEF Link, FunctionsOK, ParkedOK, Early
<1> QED
  BY <1>2, FunctionLists
     DEF Link, HandleOK, FunctionsOK, ParkedOK, ConnectOK, Waiting, Ended, Early

LEMMA LinkRunClose ==
  ASSUME NEW role \in Roles, NEW st \in States, NEW h, NEW pk, NEW con, NEW fns \in Seq(Function),
         fns # <<>>, Head(fns).fn = "close", Link(role, st, h, pk, con, fns)
  PROVE  h = "open" /\ Link(role, st, "closing", pk, con, Tail(fns))
<1>1. st = "CLOSING" /\ h = "open"
  BY LinkMeans
<1> QED
  BY <1>1, FunctionLists DEF Link, HandleOK, FunctionsOK, ParkedOK, ConnectOK, Ended

LEMMA LinkClosed ==
  ASSUME NEW role \in Roles, NEW st \in States, NEW pk, NEW con, NEW con2,
         NEW fns \in Seq(Function), Link(role, st, "closing", pk, con, fns)
  PROVE  Link(role, "CLOSED", "closed", pk, con2, fns)
<1>1. st = "CLOSING"
  BY LinkMeans
<1> QED
  BY <1>1 DEF Link, HandleOK, FunctionsOK, ParkedOK, ConnectOK, Ended

LEMMA LinkClosing ==
  ASSUME NEW role, NEW h, NEW pk, NEW con, NEW con2, NEW fns \in Seq(Function),
         Link(role, "CONNECTED", h, pk, con, fns)
  PROVE  Link(role, "CLOSING", h, pk, con2, fns \o <<Fn("close")>>)
<1>1. h = "open" /\ AllWrites(fns) /\ pk \notin {"callback", "connection"}
  BY DEF Link, HandleOK, FunctionsOK, ParkedOK
<1>2. Closes(fns \o <<Fn("close")>>)
  BY <1>1, FunctionListsGrow
<1> QED
  BY <1>1, <1>2 DEF Link, HandleOK, FunctionsOK, ParkedOK, ConnectOK, Ended

LEMMA LinkUnused ==
  ASSUME NEW role, NEW h, NEW pk, NEW con, NEW fns \in Seq(Function),
         Link(role, "INITIALIZED", h, pk, con, fns)
  PROVE  Link(role, "CLOSED", h, pk, con, fns)
BY FunctionLists DEF Link, HandleOK, FunctionsOK, ParkedOK, ConnectOK, Ended, Waiting

LEMMA LinkDestroyed ==
  ASSUME NEW role, NEW h, NEW pk, NEW con, NEW fns, Link(role, "CLOSED", h, pk, con, fns)
  PROVE  Link(role, "destroyed", h, pk, con, fns)
BY DEF Link, HandleOK, FunctionsOK, ParkedOK, ConnectOK, Ended

LEMMA LinkPosted ==
  ASSUME NEW role \in Roles, NEW st \in States, NEW h, NEW pk, NEW con,
         NEW fns \in Seq(Function), NEW new \in Seq(Function), AllWrites(new),
         st # "CONNECTED" => AllLate(new), st \notin Early, Link(role, st, h, pk, con, fns)
  PROVE  Link(role, st, h, pk, con, fns \o new)
<1>1. h = "closing" => st = "CLOSING"
  BY LinkMeans
<1> QED
  BY <1>1, FunctionListsGrow DEF Link, HandleOK, FunctionsOK, ParkedOK, ConnectOK, Ended, Early, States

-----------------------------------------------------------------------------
(* One direction of the connection, and its steps: the requests, functions *)
(* and operations of the writer, the wire, the messages that the reader    *)
(* has not handled and its read operation.                                 *)
Data(reqs, fns, ws, w, msgs, rd, fl) ==
  /\ DoneFirst(reqs)
  /\ Stream(w, Rest(reqs, fns), MessageBytes(msgs), Skipped(rd), fl)
  /\ Events(RequestParts(reqs), Done(reqs), FunctionParts(fns), Awaited(ws), fl)

ReadOps == [stage : {"preamble", "payload"}, left : Nat \ {0}]

LEMMA SkippedType ==
  ASSUME NEW rd \in ReadOps
  PROVE  Skipped(rd) \in Int /\ NewRead \in ReadOps /\ Skipped(NewRead) = 0
BY LengthsAssumption DEF Skipped, ReadOps, NewRead

LEMMA DataTypes ==
  ASSUME NEW reqs \in Seq(Request), DoneFirst(reqs), NEW fns \in Seq(Function),
         NEW ws \in Seq(Operation), NEW msgs \in Seq(M!Message), NEW rd \in ReadOps
  PROVE  /\ Rest(reqs, fns) \in Seq(Byte) /\ MessageBytes(msgs) \in Seq(Byte)
         /\ Skipped(rd) \in Int
         /\ RequestParts(reqs) \in Seq(Part) /\ Len(RequestParts(reqs)) = Len(reqs)
         /\ FunctionParts(fns) \in Seq(Part) /\ Awaited(ws) \in Seq(Part)
         /\ Done(reqs) \in 0 .. Len(reqs) /\ Done(reqs) \in Nat
<1>1. Rest(reqs, fns) \in Seq(Byte) /\ FunctionParts(fns) \in Seq(Part)
  BY RestType
<1>2. MessageBytes(msgs) \in Seq(Byte)
  BY MessageBytesType
<1>3. Skipped(rd) \in Int
  BY SkippedType
<1>4. RequestParts(reqs) \in Seq(Part) /\ Len(RequestParts(reqs)) = Len(reqs)
  BY RequestPartsType
<1>5. Awaited(ws) \in Seq(Part)
  BY AwaitedType
<1>6. Done(reqs) \in 0 .. Len(reqs)
  BY UndoneType
<1>7. Done(reqs) \in Nat
  BY <1>6
<1> QED
  BY <1>1, <1>2, <1>3, <1>4, <1>5, <1>6, <1>7

(* Nothing is queued yet.                                                  *)
LEMMA DataNone ==
  ASSUME NEW fl
  PROVE  Data(<<>>, <<>>, <<>>, <<>>, <<>>, NewRead, fl)
<1>1. <<>> \in Seq(Request) /\ <<>> \in Seq(Function) /\ Len(<<>>) = 0
  OBVIOUS
<1>2. DoneFirst(<<>>) /\ Done(<<>>) = 0
  <2>1. WrittenUpTo(<<>>, 0) /\ 0 \in 0 .. Len(<<>>)
    BY <1>1 DEF WrittenUpTo
  <2> QED
    BY <1>1, <2>1, DoneIs DEF DoneFirst
<1>3. RequestParts(<<>>) = <<>>
  BY DEF RequestParts
<1>4. Undone(<<>>) = <<>>
  BY <1>2 DEF Undone
<1>5. Rest(<<>>, <<>>) = <<>>
  <2>1. <<>> \o <<>> = <<>>
    OBVIOUS
  <2> QED
    BY <1>3, <1>4, <2>1, FunctionPartsEmpty, PartBytesEmpty DEF Rest
<1>6. Skipped(NewRead) = 0
  BY LengthsAssumption DEF Skipped, NewRead
<1> QED
  BY <1>2, <1>3, <1>5, <1>6, MessageBytesEmpty, FunctionPartsEmpty, AwaitedEmpty, StreamNone,
     EventsNone DEF Data

(* The connection fails or begins to close.                                *)
LEMMA DataStop ==
  ASSUME NEW reqs, NEW fns, NEW ws, NEW w, NEW msgs, NEW rd, NEW fl,
         Data(reqs, fns, ws, w, msgs, rd, fl), NEW fns2
  PROVE  Data(reqs, fns2, ws, w, msgs, rd, FALSE)
<1>1. Stream(w, Rest(reqs, fns2), MessageBytes(msgs), Skipped(rd), FALSE)
  BY StreamStop, Zenon DEF Data
<1>2. Events(RequestParts(reqs), Done(reqs), FunctionParts(fns2), Awaited(ws), FALSE)
  BY EventsStop, Zenon DEF Data
<1> QED
  BY <1>1, <1>2 DEF Data

(* Requests that were not written are cancelled.                           *)
LEMMA DataCancel ==
  ASSUME NEW reqs, NEW fns, NEW ws \in Seq(Operation), NEW w, NEW msgs, NEW rd,
         Data(reqs, fns, ws, w, msgs, rd, FALSE),
         NEW reqs2, DoneFirst(reqs2), Done(reqs2) = 0, NEW fns2
  PROVE  Data(reqs2, fns2, ws, w, msgs, rd, FALSE)
<1>1. Stream(w, Rest(reqs2, fns2), MessageBytes(msgs), Skipped(rd), FALSE)
  BY StreamStop, Zenon DEF Data
<1>2. Awaited(ws) \in Seq(Part)
  BY AwaitedType
<1>3. Events(RequestParts(reqs2), 0, FunctionParts(fns2), Awaited(ws), FALSE)
  BY <1>2, EventsZero, Zenon
<1> QED
  BY <1>1, <1>3 DEF Data

(* A function that writes nothing is deferred.                             *)
LEMMA DataDefer ==
  ASSUME NEW reqs \in Seq(Request), NEW fns \in Seq(Function), NEW ws, NEW w, NEW msgs, NEW rd,
         NEW fl, Data(reqs, fns, ws, w, msgs, rd, fl), NEW f \in Function, f.fn # "write"
  PROVE  Data(reqs, fns \o <<f>>, ws, w, msgs, rd, fl)
<1>1. <<f>> \in Seq(Function) /\ DoneFirst(reqs)
  BY DEF Data
<1>2. FunctionParts(<<f>>) = <<>>
  <2>1. FlatMap(FnParts, <<f>>) = FnParts[f]
    BY FlatMaps, FlatMapOne, Zenon
  <2>2. FnParts[f] = <<>>
    BY DEF FnParts
  <2> QED
    BY <1>1, <2>1, <2>2, FunctionPartsIs
<1>3. FunctionParts(fns) \in Seq(Part) /\ Rest(reqs, fns) \in Seq(Byte)
  BY <1>1, RestType
<1>4. FunctionParts(fns \o <<f>>) = FunctionParts(fns)
  <2>1. FunctionParts(fns \o <<f>>) = FunctionParts(fns) \o FunctionParts(<<f>>)
    BY <1>1, FunctionPartsConcat, Zenon
  <2>2. FunctionParts(fns) \o <<>> = FunctionParts(fns)
    BY <1>3
  <2> QED
    BY <2>1, <2>2, <1>2
<1>5. Rest(reqs, fns \o <<f>>) = Rest(reqs, fns)
  BY <1>4 DEF Rest
<1> QED
  BY <1>4, <1>5 DEF Data

(* The function that writes an operation is run.                           *)
NewRequests(op) ==
  LET parts == Parts(op.msg)
  IN  [k \in DOMAIN parts |-> [n |-> op.n, msg |-> op.msg, part |-> parts[k], done |-> FALSE]]

LEMMA NewRequestsType ==
  ASSUME NEW op \in Operation
  PROVE  /\ NewRequests(op) \in Seq(Request) /\ NotDone(NewRequests(op))
         /\ RequestParts(NewRequests(op)) = PartsOf(op)
<1> DEFINE parts == Parts(op.msg)
           new == NewRequests(op)
<1>1. op.n \in Nat /\ op.msg \in M!Message
  BY OperationFields
<1>2. parts \in Seq(Kinds) /\ DOMAIN parts = 1 .. Len(parts) /\ Len(parts) \in Nat
  <2>1. parts = <<"preamble", "payload">> \/ parts = <<"preamble">>
    BY DEF Parts
  <2>2. "preamble" \in Kinds /\ "payload" \in Kinds
    BY DEF Kinds
  <2>3. <<"preamble", "payload">> \in Seq(Kinds) /\ <<"preamble">> \in Seq(Kinds)
    BY <2>2
  <2> HIDE DEF parts
  <2>4. parts \in Seq(Kinds)
    BY <2>1, <2>3, Zenon
  <2> QED
    BY <2>4
<1> HIDE DEF parts
<1>3. new = [k \in 1 .. Len(parts) |-> [n |-> op.n, msg |-> op.msg, part |-> parts[k], done |-> FALSE]]
  BY <1>2 DEF NewRequests, parts
<1> HIDE DEF new
<1>4. \A k \in 1 .. Len(parts) : new[k] \in Request /\ new[k].done = FALSE
  BY <1>1, <1>2, <1>3 DEF Request
<1>5. new \in Seq(Request) /\ Len(new) = Len(parts) /\ DOMAIN new = 1 .. Len(parts)
  BY <1>2, <1>3, <1>4
<1>6. NotDone(new)
  BY <1>4, <1>5, Zenon DEF NotDone
<1>7. RequestParts(new) = PartsOf(op)
  <2>1. RequestParts(new) = [k \in 1 .. Len(parts) |-> [n |-> new[k].n, msg |-> new[k].msg, part |-> new[k].part]]
    BY <1>5 DEF RequestParts
  <2>2. PartsOf(op) = [k \in 1 .. Len(parts) |-> [n |-> op.n, msg |-> op.msg, part |-> parts[k]]]
    BY <1>2 DEF PartsOf, parts
  <2>3. \A k \in 1 .. Len(parts) : new[k].n = op.n /\ new[k].msg = op.msg /\ new[k].part = parts[k]
    BY <1>3
  <2> QED
    BY <2>1, <2>2, <2>3
<1> QED
  BY <1>5, <1>6, <1>7 DEF new

LEMMA DataRun ==
  ASSUME NEW reqs \in Seq(Request), NEW fns \in Seq(Function), NEW ws \in Seq(Operation), NEW w,
         NEW msgs, NEW rd, NEW fl, Data(reqs, fns, ws, w, msgs, rd, fl),
         fns # <<>>, Head(fns).fn = "write"
  PROVE  /\ NewRequests(Head(fns).op) \in Seq(Request)
         /\ Data(reqs \o NewRequests(Head(fns).op), Tail(fns), ws, w, msgs, rd, fl)
<1> DEFINE op == Head(fns).op
           new == NewRequests(op)
<1>1. Head(fns) \in Function /\ Tail(fns) \in Seq(Function)
  OBVIOUS
<1>2. op \in Operation
  BY <1>1, FunctionKinds
<1>3. new \in Seq(Request) /\ NotDone(new) /\ RequestParts(new) = PartsOf(op)
  BY <1>2, NewRequestsType
<1> HIDE DEF new
<1>4. DoneFirst(reqs)
  BY DEF Data
<1>5. DoneFirst(reqs \o new) /\ Done(reqs \o new) = Done(reqs)
  BY <1>3, <1>4, UndoneGrow
<1>6. Rest(reqs \o new, Tail(fns)) = Rest(reqs, fns)
  BY <1>3, <1>4, RestRun
<1>7. Events(RequestParts(reqs \o new), Done(reqs), FunctionParts(Tail(fns)), Awaited(ws), fl)
  <2>1. RequestParts(reqs \o new) = RequestParts(reqs) \o PartsOf(op)
    BY <1>3, RequestPartsConcat
  <2>2. FunctionParts(fns) = PartsOf(op) \o FunctionParts(Tail(fns))
    BY FunctionPartsTail
  <2>3. PartsOf(op) \in Seq(Part)
    BY <1>2, OperationFields, PartsOfType
  <2>4. FunctionParts(Tail(fns)) \in Seq(Part)
    BY <1>1, FunctionPartsType
  <2>5. RequestParts(reqs) \in Seq(Part) /\ Done(reqs) \in 0 .. Len(RequestParts(reqs))
    BY <1>4, RequestPartsType, UndoneType
  <2>6. Events(RequestParts(reqs), Done(reqs), PartsOf(op) \o FunctionParts(Tail(fns)), Awaited(ws), fl)
    BY <2>2 DEF Data
  <2>7. Events(RequestParts(reqs) \o PartsOf(op), Done(reqs), FunctionParts(Tail(fns)), Awaited(ws), fl)
    BY <2>3, <2>4, <2>5, <2>6, EventsRun, Zenon
  <2> QED
    BY <2>1, <2>7
<1> QED
  BY <1>3, <1>5, <1>6, <1>7 DEF Data, new

(* A request is written.                                                   *)
LEMMA DataWrite ==
  ASSUME NEW reqs \in Seq(Request), NEW fns \in Seq(Function), NEW ws \in Seq(Operation),
         NEW w \in Seq(Byte), NEW msgs \in Seq(M!Message), NEW rd \in ReadOps,
         Data(reqs, fns, ws, w, msgs, rd, TRUE),
         NEW i \in 1 .. Len(reqs), \A l \in 1 .. i : reqs[l].done = (l < i), NEW fl
  PROVE  LET s == [reqs EXCEPT ![i].done = TRUE] IN
         /\ s \in Seq(Request)
         /\ Bytes(reqs[i].msg, reqs[i].part) \in Seq(Byte)
         /\ Data(s, fns, ws, w \o Bytes(reqs[i].msg, reqs[i].part), msgs, rd, fl)
<1> DEFINE s == [reqs EXCEPT ![i].done = TRUE]
           q == reqs[i]
           b == Bytes(q.msg, q.part)
<1>0. DoneFirst(reqs)
  BY DEF Data
<1>1. /\ s \in Seq(Request) /\ DoneFirst(s) /\ Len(s) = Len(reqs)
      /\ \A k \in 1 .. Len(reqs) : PartOf(s[k]) = PartOf(reqs[k])
      /\ Done(s) = i /\ Undone(reqs) = <<q>> \o Undone(s)
  BY <1>0, UndoneWrite
<1>2. q \in Request /\ q.msg \in M!Message /\ q.part \in Kinds
  <2>1. q \in Request
    BY ElementOfSeq, Zenon
  <2> HIDE DEF q
  <2> QED
    BY <2>1 DEF Request
<1> HIDE DEF s, q
<1>3. b \in Seq(Byte)
  BY <1>2, BytesType
<1>4. Rest(reqs, fns) = b \o Rest(s, fns)
  BY <1>0, <1>1, <1>2, RestWrite
<1>5. RequestParts(s) = RequestParts(reqs)
  <2>1. /\ RequestParts(s) \in Seq(Part) /\ RequestParts(reqs) \in Seq(Part)
        /\ Len(RequestParts(s)) = Len(reqs) /\ Len(RequestParts(reqs)) = Len(reqs)
        /\ \A k \in 1 .. Len(reqs) : RequestParts(s)[k] = RequestParts(reqs)[k]
    BY <1>1, RequestPartsType
  <2> DEFINE a == RequestParts(s)
             c == RequestParts(reqs)
  <2> HIDE DEF a, c
  <2>2. a = c
    BY <2>1, SeqEqual DEF a, c
  <2> QED
    BY <2>2 DEF a, c
<1>6. /\ Rest(s, fns) \in Seq(Byte) /\ MessageBytes(msgs) \in Seq(Byte) /\ Skipped(rd) \in Int
      /\ RequestParts(reqs) \in Seq(Part) /\ FunctionParts(fns) \in Seq(Part)
      /\ Len(RequestParts(reqs)) = Len(reqs)
  BY <1>0, <1>1, DataTypes
<1>7. Done(reqs) \in 0 .. Len(reqs)
  BY <1>0, DataTypes
<1> HIDE DEF b
<1>8. Stream(w, b \o Rest(s, fns), MessageBytes(msgs), Skipped(rd), TRUE)
  BY <1>4 DEF Data
<1>9. Stream(w \o b, Rest(s, fns), MessageBytes(msgs), Skipped(rd), fl)
  BY <1>3, <1>6, <1>8, StreamWrite, Zenon
<1>10. i \in 0 .. Len(RequestParts(reqs)) /\ Done(reqs) \in 0 .. Len(RequestParts(reqs))
  BY <1>6, <1>7
<1>11. Events(RequestParts(reqs), i, FunctionParts(fns), Awaited(ws), fl)
  BY <1>6, <1>10, EventsWrite, Zenon DEF Data
<1> QED
  BY <1>1, <1>3, <1>5, <1>9, <1>11 DEF Data, s, b, q

(* onWrite takes a request that was written.                               *)
LEMMA DataOnWrite ==
  ASSUME NEW reqs \in Seq(Request), NEW fns \in Seq(Function), NEW ws \in Seq(Operation), NEW w,
         NEW msgs, NEW rd, NEW fl, Data(reqs, fns, ws, w, msgs, rd, fl),
         reqs # <<>>, Head(reqs).done, ws # <<>>, NEW ws2,
         \/ ~Written(Head(ws)) /\ ws2 = [ws EXCEPT ![1].nwritten = Preamble]
         \/ Written(Head(ws)) /\ ws2 = Tail(ws)
  PROVE  /\ Tail(reqs) \in Seq(Request) /\ ws2 \in Seq(Operation)
         /\ Data(Tail(reqs), fns, ws2, w, msgs, rd, fl)
<1>0. DoneFirst(reqs)
  BY DEF Data
<1>1. /\ Tail(reqs) \in Seq(Request) /\ DoneFirst(Tail(reqs))
      /\ Done(reqs) \in 1 .. Len(reqs) /\ Done(Tail(reqs)) = Done(reqs) - 1
      /\ Undone(Tail(reqs)) = Undone(reqs)
  BY <1>0, UndoneTail
<1>2. ws2 \in Seq(Operation) /\ Awaited(ws2) = Tail(Awaited(ws))
  <2>1. CASE ~Written(Head(ws)) /\ ws2 = [ws EXCEPT ![1].nwritten = Preamble]
    BY <2>1, AwaitedHalf
  <2>2. CASE Written(Head(ws)) /\ ws2 = Tail(ws)
    <3>1. Tail(ws) \in Seq(Operation)
      OBVIOUS
    <3> QED
      BY <3>1, <2>2, AwaitedWritten
  <2> QED
    BY <2>1, <2>2
<1>3. Rest(Tail(reqs), fns) = Rest(reqs, fns)
  BY <1>1 DEF Rest
<1>4. RequestParts(Tail(reqs)) = Tail(RequestParts(reqs))
  <2> DEFINE a == RequestParts(Tail(reqs))
             c == RequestParts(reqs)
  <2>1. a \in Seq(Part) /\ Len(a) = Len(Tail(reqs))
    BY <1>1, RequestPartsType
  <2>2. \A k \in 1 .. Len(Tail(reqs)) : a[k] = PartOf(Tail(reqs)[k])
    BY <1>1, RequestPartsType, Zenon
  <2>3. c \in Seq(Part) /\ Len(c) = Len(reqs)
    BY RequestPartsType
  <2>4. \A k \in 1 .. Len(reqs) : c[k] = PartOf(reqs[k])
    BY RequestPartsType, Zenon
  <2>5. /\ Len(Tail(reqs)) = Len(reqs) - 1 /\ Len(reqs) \in Nat
        /\ \A k \in 1 .. Len(Tail(reqs)) : Tail(reqs)[k] = reqs[k + 1] /\ k + 1 \in 1 .. Len(reqs)
    OBVIOUS
  <2>6. \A k \in 1 .. Len(Tail(reqs)) : a[k] = c[k + 1]
    BY <2>2, <2>4, <2>5, Zenon
  <2> HIDE DEF a, c
  <2>7. c # <<>> /\ Tail(c) \in Seq(Part) /\ Len(Tail(c)) = Len(a)
    BY <2>1, <2>3, <2>5
  <2>8. \A k \in 1 .. Len(a) : a[k] = Tail(c)[k]
    BY <2>1, <2>3, <2>5, <2>6
  <2>9. a = Tail(c)
    BY <2>1, <2>7, <2>8, SeqEqual
  <2> QED
    BY <2>9 DEF a, c
<1>5. Events(Tail(RequestParts(reqs)), Done(reqs) - 1, FunctionParts(fns), Tail(Awaited(ws)), fl)
  <2>1. RequestParts(reqs) \in Seq(Part) /\ Done(reqs) \in 1 .. Len(RequestParts(reqs))
    BY <1>1, RequestPartsType
  <2>2. FunctionParts(fns) \in Seq(Part) /\ Awaited(ws) \in Seq(Part)
    BY FunctionPartsType, AwaitedType
  <2> QED
    BY <2>1, <2>2, EventsTail, Zenon DEF Data
<1> QED
  BY <1>1, <1>2, <1>3, <1>4, <1>5 DEF Data

(* Operations are posted.                                                  *)
LEMMA DataPost ==
  ASSUME NEW reqs \in Seq(Request), NEW fns \in Seq(Function), NEW ws \in Seq(Operation),
         NEW w \in Seq(Byte), NEW msgs \in Seq(M!Message), NEW rd \in ReadOps, NEW fl,
         Data(reqs, fns, ws, w, msgs, rd, fl),
         NEW new \in Seq(M!Message), NEW n0 \in Nat, NEW late \in BOOLEAN
  PROVE  LET ops == NewOps(new, n0, late) IN
         /\ ops \in Seq(Operation) /\ NewFns(ops) \in Seq(Function)
         /\ AllWrites(NewFns(ops)) /\ (late => AllLate(NewFns(ops)))
         /\ Data(reqs, fns \o NewFns(ops), ws \o ops, w, msgs \o new, rd, fl)
<1> DEFINE ops == NewOps(new, n0, late)
           fs == NewFns(ops)
<1>1. /\ ops \in Seq(Operation) /\ Len(ops) = Len(new)
      /\ \A k \in 1 .. Len(new) : ops[k].msg = new[k] /\ ops[k].late = late /\ ops[k].nwritten = 0
  <2>1. AreNewOps(ops, new, late)
    BY NewOpsAre, Zenon
  <2> HIDE DEF ops
  <2> QED
    BY <2>1, Zenon DEF AreNewOps
<1> HIDE DEF ops
<1>2. /\ fs \in Seq(Function) /\ Len(fs) = Len(ops)
      /\ \A k \in 1 .. Len(ops) : fs[k].fn = "write" /\ fs[k].op = ops[k]
  BY <1>1, NewFnsType
<1>3. Awaited(ops) = FunctionParts(fs)
  BY <1>1, NewAwaited
<1> HIDE DEF fs
<1>4. AllWrites(fs)
  BY <1>1, <1>2 DEF AllWrites
<1>5. late => AllLate(fs)
  BY <1>1, <1>2, Zenon DEF AllLate
<1>6. PartBytes(FunctionParts(fs)) = MessageBytes(new)
  <2>1. \A k \in 1 .. Len(new) : fs[k].fn = "write" /\ fs[k].op.msg = new[k]
    BY <1>1, <1>2
  <2> QED
    BY <1>1, <1>2, <2>1, NewBytes
<1>7. DoneFirst(reqs)
  BY DEF Data
<1>8. Rest(reqs, fns \o fs) = Rest(reqs, fns) \o MessageBytes(new)
  BY <1>2, <1>6, <1>7, RestGrow
<1>9. MessageBytes(msgs \o new) = MessageBytes(msgs) \o MessageBytes(new)
  BY MessageBytesConcat
<1>10. FunctionParts(fns \o fs) = FunctionParts(fns) \o FunctionParts(fs)
  BY <1>2, FunctionPartsConcat
<1>11. Awaited(ws \o ops) = Awaited(ws) \o FunctionParts(fs)
  BY <1>1, <1>3, AwaitedConcat
<1>12. /\ Rest(reqs, fns) \in Seq(Byte) /\ MessageBytes(msgs) \in Seq(Byte)
       /\ Skipped(rd) \in Int
       /\ RequestParts(reqs) \in Seq(Part) /\ FunctionParts(fns) \in Seq(Part)
       /\ Awaited(ws) \in Seq(Part) /\ Done(reqs) \in Nat
  BY <1>7, DataTypes
<1>13. MessageBytes(new) \in Seq(Byte) /\ FunctionParts(fs) \in Seq(Part)
  BY <1>2, MessageBytesType, FunctionPartsType
<1>14. Stream(w, Rest(reqs, fns) \o MessageBytes(new), MessageBytes(msgs) \o MessageBytes(new),
              Skipped(rd), fl)
  BY <1>12, <1>13, StreamGrow, Zenon DEF Data
<1>15. Events(RequestParts(reqs), Done(reqs), FunctionParts(fns) \o FunctionParts(fs),
              Awaited(ws) \o FunctionParts(fs), fl)
  BY <1>12, <1>13, EventsGrow, Zenon DEF Data
<1>16. Data(reqs, fns \o fs, ws \o ops, w, msgs \o new, rd, fl)
  BY <1>7, <1>8, <1>9, <1>10, <1>11, <1>14, <1>15 DEF Data
<1> QED
  BY <1>1, <1>2, <1>4, <1>5, <1>16 DEF ops, fs

LEMMA DropType ==
  ASSUME NEW X, NEW w \in Seq(X), NEW n \in 0 .. Len(w)
  PROVE  SubSeq(w, n + 1, Len(w)) \in Seq(X)
OBVIOUS

(* Bytes are read that complete no preamble.                               *)
LEMMA DataRead ==
  ASSUME NEW reqs \in Seq(Request), NEW fns \in Seq(Function), NEW ws \in Seq(Operation),
         NEW w \in Seq(Byte), NEW msgs \in Seq(M!Message), NEW rd \in ReadOps, NEW fl,
         Data(reqs, fns, ws, w, msgs, rd, fl),
         NEW n \in 0 .. Len(w), NEW rd2, Skipped(rd2) = n + Skipped(rd)
  PROVE  Data(reqs, fns, ws, SubSeq(w, n + 1, Len(w)), msgs, rd2, fl)
<1>1. /\ Rest(reqs, fns) \in Seq(Byte) /\ MessageBytes(msgs) \in Seq(Byte) /\ Skipped(rd) \in Int
  BY DataTypes DEF Data
<1>2. Stream(SubSeq(w, n + 1, Len(w)), Rest(reqs, fns), MessageBytes(msgs), n + Skipped(rd), fl)
  BY <1>1, StreamDrop, Zenon DEF Data
<1> QED
  BY <1>2 DEF Data

(* A preamble is complete and its message handled.                         *)
LEMMA DataHandle ==
  ASSUME NEW reqs \in Seq(Request), NEW fns \in Seq(Function), NEW ws \in Seq(Operation),
         NEW w \in Seq(Byte), NEW msgs \in Seq(M!Message), NEW rd \in ReadOps, NEW fl,
         Data(reqs, fns, ws, w, msgs, rd, fl),
         NEW n \in 0 .. Len(w), n + Skipped(rd) = Preamble, msgs # <<>>,
         NEW rd2, Skipped(rd2) = -Length(Head(msgs))
  PROVE  Data(reqs, fns, ws, SubSeq(w, n + 1, Len(w)), Tail(msgs), rd2, fl)
<1> DEFINE v == SubSeq(w, n + 1, Len(w))
           h == Bytes(Head(msgs), "preamble")
           p == Bytes(Head(msgs), "payload")
           u == MessageBytes(Tail(msgs))
<1>1. /\ Rest(reqs, fns) \in Seq(Byte) /\ MessageBytes(msgs) \in Seq(Byte) /\ Skipped(rd) \in Int
  BY DataTypes DEF Data
<1>2. Head(msgs) \in M!Message /\ Tail(msgs) \in Seq(M!Message)
  OBVIOUS
<1>3. u \in Seq(Byte)
  BY <1>2, MessageBytesType
<1>4. /\ h \in Seq(Byte) /\ Len(h) = Preamble
      /\ p \in Seq(Byte) /\ Len(p) = Length(Head(msgs))
      /\ \A k \in 1 .. Len(p) : p[k] = <<Head(msgs), "payload">>
  BY <1>2, BytesType DEF Kinds
<1>5. MessageBytes(msgs) = (h \o p) \o u
  BY MessageBytesTail
<1>6. v \in Seq(Byte)
  BY DropType
<1> HIDE DEF v, h, p, u
<1>7. Stream(v, Rest(reqs, fns), MessageBytes(msgs), n + Skipped(rd), fl)
  BY <1>1, StreamDrop, Zenon DEF Data, v
<1>8. Stream(v, Rest(reqs, fns), (h \o p) \o u, Len(h), fl)
  BY <1>4, <1>5, <1>7
<1>9. \A k \in 1 .. Len(p) : p[k][2] = "payload"
  BY <1>4
<1>10. Stream(v, Rest(reqs, fns), u, -Len(p), fl)
  BY <1>1, <1>3, <1>4, <1>6, <1>8, <1>9, StreamHandled, Zenon
<1>11. Stream(v, Rest(reqs, fns), u, Skipped(rd2), fl)
  BY <1>4, <1>10
<1> QED
  BY <1>11 DEF Data, u, v

-----------------------------------------------------------------------------
(* The functions yet to run.                                               *)
LoopTypes == deferred \in [Ranks -> Seq(Function)] /\ stack \in [Ranks -> Seq(Function)]

LEMMA FunctionsType ==
  ASSUME NEW r \in Ranks, LoopTypes
  PROVE  stack[r] \in Seq(Function) /\ deferred[r] \in Seq(Function) /\ Functions(r) \in Seq(Function)
<1>1. stack[r] \in Seq(Function) /\ deferred[r] \in Seq(Function)
  BY DEF LoopTypes
<1> QED
  BY <1>1, ConcatProperties DEF Functions

LEMMA TailConcat ==
  ASSUME NEW X, NEW s \in Seq(X), NEW t \in Seq(X), s # <<>>
  PROVE  s \o t # <<>> /\ Head(s \o t) = Head(s) /\ Tail(s \o t) = Tail(s) \o t
<1>1. s \o t # <<>> /\ Head(s \o t) = Head(s)
  OBVIOUS
<1>2. 1 \in 0 .. Len(s)
  OBVIOUS
<1>3. SubSeq(s \o t, 1 + 1, Len(s \o t)) = SubSeq(s, 1 + 1, Len(s)) \o t
  BY <1>2, DropFront, Zenon
<1>4. Tail(s \o t) = SubSeq(s \o t, 1 + 1, Len(s \o t)) /\ Tail(s) = SubSeq(s, 1 + 1, Len(s))
  BY <1>1, TailIsSubSeq, ConcatProperties
<1> QED
  BY <1>1, <1>3, <1>4

LEMMA FunctionsRun ==
  ASSUME NEW r \in Ranks, LoopTypes, NEW name, Runs(r, name), UNCHANGED deferred
  PROVE  /\ LoopTypes'
         /\ Functions(r) # <<>> /\ Head(Functions(r)) = Head(stack[r])
         /\ Head(Functions(r)).fn = name /\ Functions(r)' = Tail(Functions(r))
         /\ \A q \in Ranks : q # r => Functions(q)' = Functions(q)
<1> DEFINE s == stack[r]
           d == deferred[r]
<1>1. s \in Seq(Function) /\ d \in Seq(Function) /\ s # <<>> /\ Head(s).fn = name
  BY DEF LoopTypes, Runs
<1>2. Tail(s) \in Seq(Function)
  BY <1>1, HeadTailProperties
<1>3. stack' = [stack EXCEPT ![r] = Tail(s)]
  BY DEF Runs
<1>4. LoopTypes'
  BY <1>2, <1>3 DEF LoopTypes
<1>5. stack'[r] = Tail(s) /\ \A q \in Ranks : q # r => stack'[q] = stack[q]
  BY <1>3 DEF LoopTypes
<1>6. Functions(r) = s \o d /\ Functions(r)' = Tail(s) \o d
  BY <1>5 DEF Functions
<1>7. \A q \in Ranks : q # r => Functions(q)' = Functions(q)
  BY <1>5 DEF Functions
<1>8. s \o d # <<>> /\ Head(s \o d) = Head(s) /\ Tail(s \o d) = Tail(s) \o d
  BY <1>1, TailConcat, Zenon
<1> QED
  BY <1>1, <1>4, <1>6, <1>7, <1>8

LEMMA FunctionsDefer ==
  ASSUME NEW r \in Ranks, LoopTypes, NEW fns \in Seq(Function), Defer(r, fns), UNCHANGED stack
  PROVE  /\ LoopTypes'
         /\ Functions(r)' = Functions(r) \o fns
         /\ \A q \in Ranks : q # r => Functions(q)' = Functions(q)
<1> DEFINE s == stack[r]
           d == deferred[r]
<1>1. s \in Seq(Function) /\ d \in Seq(Function)
  BY DEF LoopTypes
<1>2. d \o fns \in Seq(Function)
  BY <1>1, ConcatProperties
<1>3. deferred' = [deferred EXCEPT ![r] = d \o fns]
  BY DEF Defer
<1>4. LoopTypes'
  BY <1>2, <1>3 DEF LoopTypes
<1>5. deferred'[r] = d \o fns /\ \A q \in Ranks : q # r => deferred'[q] = deferred[q]
  BY <1>3 DEF LoopTypes
<1>6. Functions(r) = s \o d /\ Functions(r)' = s \o (d \o fns)
  BY <1>5 DEF Functions
<1>7. \A q \in Ranks : q # r => Functions(q)' = Functions(q)
  BY <1>5 DEF Functions
<1>8. Regroups(s, d, fns)
  BY <1>1, Associative, Zenon
<1> QED
  BY <1>4, <1>6, <1>7, <1>8 DEF Regroups

LEMMA FunctionsTake ==
  ASSUME NEW r \in Ranks, LoopTypes, TakeDeferred(r)
  PROVE  LoopTypes' /\ \A q \in Ranks : Functions(q)' = Functions(q)
<1> DEFINE d == deferred[r]
<1>1. d \in Seq(Function) /\ stack[r] = <<>>
  BY DEF LoopTypes, TakeDeferred, Idle
<1>2. stack' = [stack EXCEPT ![r] = d] /\ deferred' = [deferred EXCEPT ![r] = <<>>]
  BY DEF TakeDeferred
<1>3. LoopTypes'
  BY <1>1, <1>2 DEF LoopTypes
<1>4. /\ stack'[r] = d /\ deferred'[r] = <<>>
      /\ \A q \in Ranks : q # r => stack'[q] = stack[q] /\ deferred'[q] = deferred[q]
  BY <1>2 DEF LoopTypes
<1>5. Functions(r)' = d \o <<>> /\ Functions(r) = <<>> \o d
  BY <1>1, <1>4 DEF Functions
<1> HIDE DEF d
<1>6. d \o <<>> = d /\ <<>> \o d = d
  BY <1>1, ConcatEmptySeq
<1>7. \A q \in Ranks : q # r => Functions(q)' = Functions(q)
  BY <1>4 DEF Functions
<1> QED
  BY <1>3, <1>5, <1>6, <1>7

LEMMA FunctionsSame ==
  ASSUME LoopTypes, UNCHANGED <<deferred, stack>>
  PROVE  LoopTypes' /\ \A q \in Ranks : Functions(q)' = Functions(q)
BY DEF LoopTypes, Functions

LEMMA FnTypes ==
  ASSUME NEW r \in Ranks
  PROVE  Fn("close") \in Function /\ Fn(Role(r)) \in Function /\ Role(r) \in Roles
BY RoleIs DEF Function, Roles

-----------------------------------------------------------------------------
(* The inductive invariant: the protocol's own, the types, and of each     *)
(* rank how its end of the connection stands, that nothing moves before it *)
(* is connected, and the direction that it writes.                         *)
ControlTypes ==
  /\ state \in [Ranks -> States]
  /\ errno \in [Ranks -> {NoError, "ECONNREFUSED", "ETIMEDOUT", "ECONNRESET", "EBADF", "ECANCELED"}]
  /\ connect \in [Ranks -> {"not called", "asleep", "woken", "returned", "threw"}]
  /\ handle \in [Ranks -> {"none", "connecting", "writing", "accepted", "parked", "open",
                           "closing", "closed"}]
  /\ parked \in [Ranks -> {"none", "callback", "connection"}]

WriteTypes ==
  /\ posted \in [Ranks -> Nat]
  /\ writeOps \in [Ranks -> Seq(Operation)]
  /\ requests \in [Ranks -> Seq(Request)]

ReadTypes == wire \in [Ranks -> Seq(Byte)] /\ readOp \in [Ranks -> ReadOps]

Types == ControlTypes /\ LoopTypes /\ WriteTypes /\ ReadTypes

(* The listener has no handle until the initiator's is connected.          *)
PeersOK(role, h, there) ==
  role = "connectAsInitiator" /\ h \in {"none", "connecting"} => there = "none"

Quiet(st, ws, reqs, w, msgs, rd, there) ==
  /\ st \in Early => /\ ws = <<>> /\ reqs = <<>> /\ w = <<>> /\ msgs = <<>>
                     /\ rd = NewRead /\ there = NewRead
  /\ st \in Ended => reqs = <<>>

LinkAt(q) == Link(Role(q), state[q], handle[q], parked[q], connect[q], Functions(q))
PeersAt(q) == PeersOK(Role(q), handle[q], handle[Peer(q)])
QuietAt(q) == Quiet(state[q], writeOps[q], requests[q], wire[q], channel[q][Peer(q)], readOp[q],
                    readOp[Peer(q)])
DataAt(q) == Data(requests[q], Functions(q), writeOps[q], wire[q], channel[q][Peer(q)],
                  readOp[Peer(q)], Flowing(q))

RankInv(q) == LinkAt(q) /\ PeersAt(q) /\ QuietAt(q) /\ DataAt(q)

UvInv == P!IInv /\ Types /\ \A q \in Ranks : RankInv(q)

(* What the invariant says of a rank and its peer.                         *)
LEMMA InvHas ==
  ASSUME UvInv, NEW r \in Ranks
  PROVE  /\ P!IInv /\ M!TypeOK /\ channel \in Channels
         /\ ControlTypes /\ LoopTypes /\ WriteTypes /\ ReadTypes
         /\ Peer(r) \in Ranks /\ Peer(r) # r /\ Peer(Peer(r)) = r
         /\ LinkAt(r) /\ PeersAt(r) /\ QuietAt(r) /\ DataAt(r)
         /\ LinkAt(Peer(r)) /\ PeersAt(Peer(r)) /\ QuietAt(Peer(r)) /\ DataAt(Peer(r))
<1>1. Peer(r) \in Ranks /\ Peer(r) # r /\ Peer(Peer(r)) = r
  BY PeerIs
<1>2. P!IInv /\ Types /\ RankInv(r) /\ RankInv(Peer(r))
  BY <1>1 DEF UvInv
<1>3. M!TypeOK /\ channel \in Channels
  BY <1>2, ProtocolTypes
<1> QED
  BY <1>1, <1>2, <1>3 DEF RankInv, Types

LEMMA ValuesHave ==
  ASSUME UvInv, NEW q \in Ranks
  PROVE  /\ state[q] \in States /\ Role(q) \in Roles
         /\ Functions(q) \in Seq(Function) /\ writeOps[q] \in Seq(Operation)
         /\ requests[q] \in Seq(Request) /\ wire[q] \in Seq(Byte) /\ readOp[q] \in ReadOps
         /\ channel[q][Peer(q)] \in Seq(M!Message) /\ posted[q] \in Nat
<1>1. /\ channel \in Channels /\ ControlTypes /\ LoopTypes /\ WriteTypes /\ ReadTypes
      /\ Peer(q) \in Ranks
  BY InvHas
<1>2. Functions(q) \in Seq(Function) /\ Role(q) \in Roles
  BY <1>1, FunctionsType, FnTypes
<1>3. state[q] \in States
  BY <1>1 DEF ControlTypes
<1>4. writeOps[q] \in Seq(Operation) /\ requests[q] \in Seq(Request) /\ posted[q] \in Nat
  BY <1>1 DEF WriteTypes
<1>5. wire[q] \in Seq(Byte) /\ readOp[q] \in ReadOps
  BY <1>1 DEF ReadTypes
<1>6. channel[q][Peer(q)] \in Seq(M!Message)
  BY <1>1 DEF Channels
<1> QED
  BY <1>2, <1>3, <1>4, <1>5, <1>6

LEMMA Assemble ==
  ASSUME NEW r \in Ranks, P!IInv', Types', RankInv(r)', RankInv(Peer(r))'
  PROVE  UvInv'
<1>1. \A q \in Ranks : q = r \/ q = Peer(r)
  BY PeerIs
<1>2. \A q \in Ranks : RankInv(q)'
  BY <1>1
<1> QED
  BY <1>2 DEF UvInv

LEMMA ProtocolStays ==
  ASSUME UvInv, UNCHANGED protocol
  PROVE  P!IInv' /\ channel' = channel
<1>1. P!IInv
  BY DEF UvInv
<1>2. UNCHANGED P!vars
  BY SameVars
<1> QED
  BY <1>1, <1>2, StepsRight DEF protocol

(* A step that moves no data: what is left to show is how the end of r     *)
(* stands and the direction that r writes.                                 *)
Frame(r) ==
  LET p == Peer(r) IN
  /\ state'[p] = state[p] /\ errno'[p] = errno[p] /\ connect'[p] = connect[p]
  /\ parked'[p] = parked[p] /\ Functions(p)' = Functions(p)

LEMMA LocalStep ==
  ASSUME UvInv, NEW r \in Ranks, UNCHANGED <<protocol, writeOps, posted, requests, wire, readOp>>,
         ControlTypes', LoopTypes', Frame(r), LinkAt(r)', LinkAt(Peer(r))', PeersAt(r)',
         PeersAt(Peer(r))', DataAt(r)', Flowing(Peer(r))' = Flowing(Peer(r)),
         state'[r] \in Early => state[r] \in Early,
         state'[r] \in Ended => state[r] \in Early \cup Ended
  PROVE  UvInv'
<1> DEFINE p == Peer(r)
<1>1. P!IInv' /\ channel' = channel
  BY ProtocolStays
<1>2. Types'
  BY InvHas DEF Types, WriteTypes, ReadTypes
<1>3. p \in Ranks /\ Peer(p) = r /\ QuietAt(r) /\ QuietAt(p) /\ DataAt(p)
  BY InvHas
<1>4. QuietAt(r)' /\ QuietAt(p)'
  BY <1>1, <1>3 DEF QuietAt, Quiet, Frame
<1>5. DataAt(p)'
  BY <1>1, <1>3 DEF DataAt, Frame
<1> HIDE DEF p
<1>6. RankInv(r)' /\ RankInv(p)'
  BY <1>4, <1>5 DEF RankInv, p
<1> QED
  BY <1>1, <1>2, <1>6, Assemble DEF p

(* The direction that r writes, in such a step.                            *)
LEMMA LocalStop ==
  ASSUME UvInv, NEW r \in Ranks, UNCHANGED <<protocol, writeOps, posted, requests, wire, readOp>>,
         ~Flowing(r)'
  PROVE  DataAt(r)'
<1>1. channel' = channel /\ DataAt(r)
  BY ProtocolStays, InvHas
<1>2. Data(requests[r], Functions(r)', writeOps[r], wire[r], channel[r][Peer(r)], readOp[Peer(r)], FALSE)
  BY <1>1, DataStop, Zenon DEF DataAt
<1>3. Flowing(r)' = FALSE
  BY DEF Flowing
<1> QED
  BY <1>1, <1>2, <1>3 DEF DataAt

LEMMA LocalSame ==
  ASSUME UvInv, NEW r \in Ranks, UNCHANGED <<protocol, writeOps, posted, requests, wire, readOp>>,
         UNCHANGED <<handle[r], errno[r]>>,
         \/ Functions(r)' = Functions(r)
         \/ \E f \in Function : f.fn # "write" /\ Functions(r)' = Functions(r) \o <<f>>
  PROVE  DataAt(r)' /\ Flowing(r)' = Flowing(r)
<1> DEFINE D(fns) == Data(requests[r], fns, writeOps[r], wire[r], channel[r][Peer(r)],
                          readOp[Peer(r)], Flowing(r))
<1>1. channel' = channel /\ DataAt(r)
  BY ProtocolStays, InvHas
<1>2. Flowing(r)' = Flowing(r)
  BY DEF Flowing
<1>3. requests[r] \in Seq(Request) /\ Functions(r) \in Seq(Function)
  BY ValuesHave
<1>4. D(Functions(r))
  BY <1>1 DEF DataAt
<1>5. ASSUME NEW f \in Function, f.fn # "write" PROVE D(Functions(r) \o <<f>>)
  BY <1>3, <1>4, <1>5, DataDefer, Zenon
<1> HIDE DEF D
<1>6. D(Functions(r)')
  BY <1>4, <1>5
<1> QED
  BY <1>1, <1>2, <1>6 DEF DataAt, D

-----------------------------------------------------------------------------
(* The steps of connecting and closing.                                    *)
LEMMA NotFlowing ==
  ASSUME UvInv, NEW r \in Ranks, handle[r] # "open"
  PROVE  ~Flowing(r)
BY DEF Flowing

LEMMA StepConnect ==
  ASSUME UvInv, NEW r \in Ranks, Connect(r)
  PROVE  UvInv'
<1> DEFINE p == Peer(r)
<1>0. ControlTypes /\ LoopTypes /\ p \in Ranks /\ p # r /\ Peer(p) = r
  BY InvHas
<1>1. LinkAt(r) /\ LinkAt(p) /\ PeersAt(r) /\ PeersAt(p)
  BY InvHas
<1>2. Role(r) \in Roles /\ Functions(r) \in Seq(Function) /\ Fn(Role(r)) \in Function
  BY ValuesHave, FnTypes
<1>3. <<Fn(Role(r))>> \in Seq(Function)
  BY <1>2
<1>4. Defer(r, <<Fn(Role(r))>>) /\ UNCHANGED stack
  BY DEF Connect
<1>5. /\ LoopTypes' /\ Functions(r)' = Functions(r) \o <<Fn(Role(r))>>
      /\ \A q \in Ranks : q # r => Functions(q)' = Functions(q)
  BY <1>0, <1>3, <1>4, FunctionsDefer, Zenon
<1>6. /\ state[r] = "INITIALIZED" /\ state' = [state EXCEPT ![r] = "CONNECTING"]
      /\ connect' = [connect EXCEPT ![r] = "asleep"] /\ UNCHANGED <<errno, parked, handle>>
      /\ UNCHANGED <<protocol, writeOps, posted, requests, wire, readOp>>
  BY DEF Connect, stream, writes
<1>7. /\ ControlTypes' /\ state'[r] = "CONNECTING" /\ connect'[r] = "asleep"
      /\ state'[p] = state[p] /\ connect'[p] = connect[p]
  BY <1>0, <1>6 DEF ControlTypes, States
<1>8. Frame(r)
  BY <1>0, <1>5, <1>6, <1>7 DEF Frame
<1>9. /\ Link(Role(r), "CONNECTING", handle[r], parked[r], "asleep", Functions(r)')
      /\ handle[r] \in Waiting(Role(r))
  BY <1>1, <1>2, <1>5, <1>6, LinkConnecting DEF LinkAt
<1>10. LinkAt(r)'
  BY <1>6, <1>7, <1>9 DEF LinkAt
<1>11. LinkAt(p)' /\ PeersAt(r)' /\ PeersAt(p)'
  BY <1>0, <1>1, <1>5, <1>6, <1>7 DEF LinkAt, PeersAt
<1>12. DataAt(r)'
  <2>1. Fn(Role(r)).fn # "write"
    BY <1>2 DEF Fn, Roles
  <2> QED
    BY <2>1, <1>2, <1>5, <1>6, LocalSame
<1>13. Flowing(p)' = Flowing(p)
  BY <1>6 DEF Flowing
<1>14. /\ state'[r] \in Early => state[r] \in Early
       /\ state'[r] \in Ended => state[r] \in Early \cup Ended
  BY <1>6, <1>7 DEF Early, Ended
<1> QED
  BY <1>5, <1>6, <1>7, <1>8, <1>10, <1>11, <1>12, <1>13, <1>14, LocalStep

LEMMA StepConnectReturns ==
  ASSUME UvInv, NEW r \in Ranks, ConnectReturns(r)
  PROVE  UvInv'
<1> DEFINE p == Peer(r)
<1>0. ControlTypes /\ LoopTypes /\ p \in Ranks /\ p # r /\ Peer(p) = r
  BY InvHas
<1>1. LinkAt(r) /\ LinkAt(p) /\ PeersAt(r) /\ PeersAt(p)
  BY InvHas
<1>2. /\ connect[r] = "woken" /\ UNCHANGED <<state, errno, parked, handle, deferred, stack>>
      /\ UNCHANGED <<protocol, writeOps, posted, requests, wire, readOp>>
  BY DEF ConnectReturns, stream, writes, loop
<1>3. LoopTypes' /\ \A q \in Ranks : Functions(q)' = Functions(q)
  BY <1>0, <1>2, FunctionsSame
<1>4. PICK c \in {"asleep", "threw", "returned"} : connect' = [connect EXCEPT ![r] = c]
  BY DEF ConnectReturns
<1>5. ControlTypes' /\ connect'[r] = c /\ connect'[p] = connect[p]
  BY <1>0, <1>2, <1>4 DEF ControlTypes
<1>6. Frame(r)
  BY <1>0, <1>2, <1>3, <1>5 DEF Frame
<1>7. Link(Role(r), state[r], handle[r], parked[r], c, Functions(r))
  BY <1>1, <1>2, LinkReturned DEF LinkAt
<1>8. LinkAt(r)' /\ LinkAt(p)' /\ PeersAt(r)' /\ PeersAt(p)'
  BY <1>0, <1>1, <1>2, <1>3, <1>5, <1>7 DEF LinkAt, PeersAt
<1>9. DataAt(r)'
  BY <1>2, <1>3, LocalSame
<1>10. Flowing(p)' = Flowing(p)
  BY <1>2 DEF Flowing
<1> QED
  BY <1>2, <1>3, <1>5, <1>6, <1>8, <1>9, <1>10, LocalStep

(* ... of r alone.                                                         *)
HandleMoves(r) ==
  \/ handle'[r] = handle[r]
  \/ handle[r] # "none" /\ handle'[r] \notin {"none", "connecting"}

LEMMA PeersStay ==
  ASSUME UvInv, NEW r \in Ranks, handle'[Peer(r)] = handle[Peer(r)], HandleMoves(r)
  PROVE  PeersAt(r)' /\ PeersAt(Peer(r))'
<1>1. Peer(Peer(r)) = r /\ PeersAt(r) /\ PeersAt(Peer(r))
  BY InvHas
<1> QED
  BY <1>1 DEF PeersAt, PeersOK, HandleMoves

LEMMA OwnStep ==
  ASSUME UvInv, NEW r \in Ranks, UNCHANGED <<protocol, writeOps, posted, requests, wire, readOp>>,
         ControlTypes', LoopTypes', Frame(r), handle'[Peer(r)] = handle[Peer(r)],
         HandleMoves(r), LinkAt(r)', DataAt(r)',
         state'[r] \in Early => state[r] \in Early,
         state'[r] \in Ended => state[r] \in Early \cup Ended
  PROVE  UvInv'
<1>1. LinkAt(Peer(r))
  BY InvHas
<1>2. LinkAt(Peer(r))'
  BY <1>1 DEF LinkAt, Frame
<1>3. Flowing(Peer(r))' = Flowing(Peer(r))
  BY DEF Flowing, Frame
<1>4. PeersAt(r)' /\ PeersAt(Peer(r))'
  BY PeersStay
<1> QED
  BY <1>2, <1>3, <1>4, LocalStep

(* The connection is made: nothing was queued, written or read before.     *)
LEMMA Connected ==
  ASSUME UvInv, NEW r \in Ranks, state[r] \in Early, handle[r] # "none",
         ConnectCallback(r), UNCHANGED <<errno, protocol, writes, wire>>,
         LoopTypes', Functions(r)' = <<>>, Functions(Peer(r))' = Functions(Peer(r)),
         parked' = [parked EXCEPT ![r] = "none"]
  PROVE  UvInv'
<1> DEFINE p == Peer(r)
<1>0. ControlTypes /\ ReadTypes /\ p \in Ranks /\ p # r /\ Peer(p) = r /\ QuietAt(r)
  BY InvHas
<1>1. readOp[r] = NewRead /\ readOp[p] = NewRead /\ requests[r] = <<>> /\ writeOps[r] = <<>>
      /\ wire[r] = <<>> /\ channel[r][p] = <<>>
  BY <1>0 DEF QuietAt, Quiet
<1>2. readOp' = readOp
  BY <1>0, <1>1 DEF ConnectCallback, ReadTypes
<1>3. UNCHANGED <<protocol, writeOps, posted, requests, wire, readOp>>
  BY <1>2 DEF writes
<1>4. /\ ControlTypes' /\ state'[r] = "CONNECTED" /\ handle'[r] = "open" /\ parked'[r] = "none"
      /\ state'[p] = state[p] /\ handle'[p] = handle[p] /\ parked'[p] = parked[p]
      /\ connect'[p] = connect[p]
  BY <1>0 DEF ControlTypes, ConnectCallback, Notified, States
<1>5. Frame(r) /\ HandleMoves(r)
  BY <1>4 DEF Frame, HandleMoves
<1>6. Link(Role(r), "CONNECTED", "open", "none", connect'[r], <<>>)
  BY LinkConnected
<1>7. LinkAt(r)'
  BY <1>4, <1>6 DEF LinkAt
<1>8. channel' = channel
  BY DEF protocol
<1>9. Data(<<>>, <<>>, <<>>, <<>>, <<>>, NewRead, Flowing(r)')
  BY DataNone
<1>10. DataAt(r)'
  BY <1>1, <1>2, <1>3, <1>8, <1>9 DEF DataAt
<1>11. state'[r] \notin Early /\ state'[r] \notin Ended
  BY <1>4 DEF Early, Ended
<1> QED
  BY <1>3, <1>4, <1>5, <1>7, <1>10, <1>11, OwnStep

LEMMA StepConnectAsListener ==
  ASSUME UvInv, NEW r \in Ranks, ConnectAsListener(r)
  PROVE  UvInv'
<1> DEFINE p == Peer(r)
<1>0. ControlTypes /\ LoopTypes /\ p \in Ranks /\ p # r /\ LinkAt(r)
  BY InvHas
<1>1. Role(r) \in Roles /\ Functions(r) \in Seq(Function) /\ state[r] \in States
  BY ValuesHave
<1>2. Runs(r, "connectAsListener") /\ UNCHANGED deferred
  BY DEF ConnectAsListener
<1>3. /\ LoopTypes' /\ Functions(r) # <<>> /\ Head(Functions(r)).fn = "connectAsListener"
      /\ Functions(r)' = Tail(Functions(r)) /\ Functions(p)' = Functions(p)
  BY <1>0, <1>2, FunctionsRun
<1>4. /\ state[r] = "CONNECTING" /\ Functions(r)' = <<>> /\ handle[r] \in Waiting(Role(r))
  BY <1>0, <1>1, <1>3, LinkMeans DEF LinkAt, Roles
<1>5. CASE FindConnection(r) /\ parked' = [parked EXCEPT ![r] = "none"] /\ ConnectCallback(r)
  <2>1. handle[r] # "none"
    BY <1>0, <1>5 DEF FindConnection, LinkAt, Link, ParkedOK
  <2>2. UNCHANGED <<errno, protocol, writes, wire>>
    BY DEF ConnectAsListener
  <2>3. state[r] \in Early
    BY <1>4 DEF Early
  <2> QED
    BY <1>3, <1>4, <1>5, <2>1, <2>2, <2>3, Connected
<1>6. CASE /\ ~FindConnection(r) /\ parked' = [parked EXCEPT ![r] = "callback"]
           /\ UNCHANGED <<state, connect, handle, readOp>>
  <2>1. UNCHANGED <<errno, protocol, writeOps, posted, requests, wire, readOp>>
    BY <1>6 DEF ConnectAsListener, writes
  <2>2. ControlTypes' /\ parked'[r] = "callback" /\ parked'[p] = parked[p]
    BY <1>0, <1>6, <2>1 DEF ControlTypes
  <2>3. Frame(r) /\ HandleMoves(r)
    BY <1>3, <1>6, <2>1, <2>2 DEF Frame, HandleMoves
  <2>4. Link(Role(r), "CONNECTING", handle[r], "callback", connect[r], <<>>)
    BY <1>0, <1>1, <1>3, <1>4, <1>6, LinkStashed DEF LinkAt, FindConnection
  <2>5. LinkAt(r)'
    BY <1>4, <1>6, <2>2, <2>4 DEF LinkAt
  <2>6. handle[r] # "open"
    BY <1>4 DEF Waiting
  <2>7. ~Flowing(r)'
    BY <1>6, <2>6 DEF Flowing
  <2>8. DataAt(r)'
    BY <2>1, <2>7, LocalStop
  <2> QED
    BY <1>3, <1>6, <2>1, <2>2, <2>3, <2>5, <2>8, OwnStep
<1> QED
  BY <1>5, <1>6 DEF ConnectAsListener

LEMMA StepConnectAsInitiator ==
  ASSUME UvInv, NEW r \in Ranks, ConnectAsInitiator(r)
  PROVE  UvInv'
<1> DEFINE p == Peer(r)
<1>0. /\ ControlTypes /\ LoopTypes /\ p \in Ranks /\ p # r /\ Peer(p) = r
      /\ LinkAt(r) /\ LinkAt(p) /\ PeersAt(r) /\ PeersAt(p)
  BY InvHas
<1>1. Role(r) \in Roles /\ Functions(r) \in Seq(Function) /\ state[r] \in States
  BY ValuesHave
<1>2. Runs(r, "connectAsInitiator") /\ UNCHANGED deferred
  BY DEF ConnectAsInitiator
<1>3. /\ LoopTypes' /\ Functions(r) # <<>> /\ Head(Functions(r)).fn = "connectAsInitiator"
      /\ Functions(r)' = Tail(Functions(r)) /\ Functions(p)' = Functions(p)
  BY <1>0, <1>2, FunctionsRun
<1>4. /\ state[r] = "CONNECTING" /\ Functions(r)' = <<>> /\ handle[r] \in Waiting(Role(r))
      /\ Role(r) = "connectAsInitiator"
  BY <1>0, <1>1, <1>3, LinkMeans DEF LinkAt, Roles
<1>5. /\ handle' = [handle EXCEPT ![r] = "connecting"]
      /\ UNCHANGED <<state, errno, connect, parked>>
      /\ UNCHANGED <<protocol, writeOps, posted, requests, wire, readOp>>
  BY DEF ConnectAsInitiator, stream, writes, connecting
<1>6. ControlTypes' /\ handle'[r] = "connecting" /\ handle'[p] = handle[p]
  BY <1>0, <1>5 DEF ControlTypes
<1>7. Frame(r)
  BY <1>3, <1>5 DEF Frame
<1>8. Link(Role(r), "CONNECTING", "connecting", parked[r], connect[r], <<>>)
  BY <1>0, <1>1, <1>3, <1>4, LinkInitiated DEF LinkAt
<1>9. LinkAt(r)' /\ LinkAt(p)'
  BY <1>0, <1>3, <1>4, <1>5, <1>6, <1>8 DEF LinkAt
<1>10. PeersAt(r)' /\ PeersAt(p)'
  <2>1. Role(p) # Role(r)
    BY RoleIs
  <2> QED
    BY <2>1, <1>0, <1>4, <1>6 DEF PeersAt, PeersOK, Waiting
<1>11. ~Flowing(r)' /\ Flowing(p)' = Flowing(p)
  BY <1>5, <1>6 DEF Flowing
<1>12. DataAt(r)'
  BY <1>5, <1>11, LocalStop
<1> QED
  BY <1>3, <1>5, <1>6, <1>7, <1>9, <1>10, <1>11, <1>12, LocalStep

LEMMA StepOnConnect ==
  ASSUME UvInv, NEW r \in Ranks, OnConnect(r)
  PROVE  UvInv'
<1> DEFINE p == Peer(r)
<1>0. /\ ControlTypes /\ LoopTypes /\ p \in Ranks /\ p # r /\ Peer(p) = r
      /\ LinkAt(r) /\ LinkAt(p) /\ PeersAt(r) /\ PeersAt(p)
  BY InvHas
<1>1. Role(r) \in Roles /\ Functions(r) \in Seq(Function) /\ state[r] \in States
  BY ValuesHave
<1>2. Role(p) \in Roles /\ state[p] \in States
  BY <1>0, ValuesHave
<1>3. /\ handle[r] = "connecting" /\ handle' = [handle EXCEPT ![r] = "writing", ![p] = "accepted"]
      /\ UNCHANGED <<state, errno, connect, parked, deferred, stack>>
      /\ UNCHANGED <<protocol, writeOps, posted, requests, wire, readOp>>
  BY DEF OnConnect, stream, writes, connecting, loop
<1>4. LoopTypes' /\ \A q \in Ranks : Functions(q)' = Functions(q)
  BY <1>0, <1>3, FunctionsSame
<1>5. Role(r) = "connectAsInitiator" /\ Role(p) = "connectAsListener"
  BY <1>0, <1>1, <1>2, <1>3, LinkMeans, RoleIs DEF LinkAt, Roles
<1>6. handle[p] = "none"
  BY <1>0, <1>3, <1>5 DEF PeersAt, PeersOK
<1>7. ControlTypes' /\ handle'[r] = "writing" /\ handle'[p] = "accepted"
  BY <1>0, <1>3 DEF ControlTypes
<1>8. Frame(r)
  BY <1>0, <1>3, <1>4 DEF Frame
<1>9. Link(Role(r), state[r], "writing", parked[r], connect[r], Functions(r))
  BY <1>0, <1>1, <1>3, LinkWriting DEF LinkAt
<1>10. Link(Role(p), state[p], "accepted", parked[p], connect[p], Functions(p))
  BY <1>0, <1>2, <1>5, <1>6, LinkAccepted DEF LinkAt
<1>11. LinkAt(r)' /\ LinkAt(p)'
  BY <1>0, <1>3, <1>4, <1>7, <1>9, <1>10 DEF LinkAt
<1>12. PeersAt(r)' /\ PeersAt(p)'
  BY <1>0, <1>5, <1>7 DEF PeersAt, PeersOK
<1>13. ~Flowing(r)' /\ Flowing(p)' = Flowing(p)
  BY <1>6, <1>7 DEF Flowing
<1>14. DataAt(r)'
  BY <1>3, <1>13, LocalStop
<1> QED
  BY <1>3, <1>4, <1>7, <1>8, <1>11, <1>12, <1>13, <1>14, LocalStep

LEMMA StepOnSequenceWritten ==
  ASSUME UvInv, NEW r \in Ranks, OnSequenceWritten(r)
  PROVE  UvInv'
<1>0. /\ ControlTypes /\ LoopTypes /\ Peer(r) \in Ranks /\ LinkAt(r)
  BY InvHas
<1>1. Role(r) \in Roles /\ Functions(r) \in Seq(Function) /\ state[r] \in States
  BY ValuesHave
<1>2. /\ handle[r] = "writing" /\ ConnectCallback(r)
      /\ UNCHANGED <<deferred, stack>> /\ UNCHANGED <<errno, protocol, writes, wire>>
      /\ parked' = parked
  BY DEF OnSequenceWritten, loop
<1>3. LoopTypes' /\ \A q \in Ranks : Functions(q)' = Functions(q)
  BY <1>0, <1>2, FunctionsSame
<1>4. state[r] = "CONNECTING" /\ Functions(r) = <<>> /\ Role(r) = "connectAsInitiator"
  BY <1>0, <1>1, <1>2, LinkMeans DEF LinkAt
<1>5. parked[r] = "none"
  BY <1>0, <1>2, <1>4 DEF LinkAt, Link, ParkedOK, ControlTypes
<1>6. parked' = [parked EXCEPT ![r] = "none"]
  BY <1>0, <1>2, <1>5 DEF ControlTypes
<1>7. state[r] \in Early
  BY <1>4 DEF Early
<1> QED
  BY <1>0, <1>2, <1>3, <1>4, <1>6, <1>7, Connected

LEMMA StepOnConnectError ==
  ASSUME UvInv, NEW r \in Ranks, NEW error \in {"ECONNREFUSED", "ETIMEDOUT"},
         OnConnectError(r, error)
  PROVE  UvInv'
<1> DEFINE p == Peer(r)
<1>0. ControlTypes /\ LoopTypes /\ p \in Ranks /\ p # r /\ Peer(p) = r /\ LinkAt(r)
  BY InvHas
<1>1. Role(r) \in Roles /\ Functions(r) \in Seq(Function) /\ state[r] \in States
  BY ValuesHave
<1>2. /\ handle[r] \in {"connecting", "writing"} /\ state' = [state EXCEPT ![r] = "CLOSED"]
      /\ errno' = [errno EXCEPT ![r] = error] /\ handle' = [handle EXCEPT ![r] = "closed"]
      /\ UNCHANGED <<connect, parked, deferred, stack>>
      /\ UNCHANGED <<protocol, writeOps, posted, requests, wire, readOp>>
  BY DEF OnConnectError, ConnectCallbackError, stream, writes, loop
<1>3. LoopTypes' /\ \A q \in Ranks : Functions(q)' = Functions(q)
  BY <1>0, <1>2, FunctionsSame
<1>4. /\ ControlTypes' /\ state'[r] = "CLOSED" /\ handle'[r] = "closed"
      /\ state'[p] = state[p] /\ handle'[p] = handle[p] /\ errno'[p] = errno[p]
  BY <1>0, <1>2 DEF ControlTypes, States
<1>5. Frame(r) /\ HandleMoves(r)
  BY <1>0, <1>2, <1>3, <1>4 DEF Frame, HandleMoves
<1>6. Link(Role(r), "CLOSED", "closed", parked[r], connect[r], Functions(r))
  BY <1>0, <1>1, <1>2, LinkRefused DEF LinkAt
<1>7. LinkAt(r)'
  BY <1>2, <1>3, <1>4, <1>6 DEF LinkAt
<1>8. ~Flowing(r)'
  BY <1>4 DEF Flowing
<1>9. DataAt(r)'
  BY <1>2, <1>8, LocalStop
<1>10. state[r] \in Early /\ state'[r] \notin Early
  BY <1>0, <1>1, <1>2, <1>4, LinkMeans DEF LinkAt, Early
<1> QED
  BY <1>2, <1>3, <1>4, <1>5, <1>7, <1>9, <1>10, OwnStep

LEMMA StepOnSequenceRead ==
  ASSUME UvInv, NEW r \in Ranks, OnSequenceRead(r)
  PROVE  UvInv'
<1> DEFINE p == Peer(r)
<1>0. ControlTypes /\ LoopTypes /\ p \in Ranks /\ p # r /\ Peer(p) = r /\ LinkAt(r)
  BY InvHas
<1>1. Role(r) \in Roles /\ Functions(r) \in Seq(Function) /\ state[r] \in States
  BY ValuesHave
<1>2. /\ handle[r] = "accepted" /\ UNCHANGED <<deferred, stack>>
      /\ UNCHANGED <<errno, protocol, writes, wire>>
  BY DEF OnSequenceRead, loop
<1>3. LoopTypes' /\ \A q \in Ranks : Functions(q)' = Functions(q)
  BY <1>0, <1>2, FunctionsSame
<1>4. CASE parked[r] = "callback" /\ parked' = [parked EXCEPT ![r] = "none"] /\ ConnectCallback(r)
  <2>1. state[r] \in Early /\ Functions(r) = <<>>
    BY <1>0, <1>4 DEF LinkAt, Link, ParkedOK, Early
  <2> QED
    BY <1>0, <1>2, <1>3, <1>4, <2>1, Connected
<1>5. CASE /\ parked[r] # "callback" /\ parked' = [parked EXCEPT ![r] = "connection"]
           /\ handle' = [handle EXCEPT ![r] = "parked"] /\ UNCHANGED <<state, connect, readOp>>
  <2>1. UNCHANGED <<protocol, writeOps, posted, requests, wire, readOp>>
    BY <1>2, <1>5 DEF writes
  <2>2. /\ ControlTypes' /\ handle'[r] = "parked" /\ parked'[r] = "connection"
        /\ handle'[p] = handle[p] /\ parked'[p] = parked[p]
    BY <1>0, <1>2, <1>5 DEF ControlTypes
  <2>3. Frame(r) /\ HandleMoves(r)
    BY <1>0, <1>2, <1>3, <1>5, <2>2 DEF Frame, HandleMoves
  <2>4. Link(Role(r), state[r], "parked", "connection", connect[r], Functions(r))
    BY <1>0, <1>1, <1>2, <1>5, LinkParked DEF LinkAt
  <2>5. LinkAt(r)'
    BY <1>3, <1>5, <2>2, <2>4 DEF LinkAt
  <2>6. ~Flowing(r)'
    BY <2>2 DEF Flowing
  <2>7. DataAt(r)'
    BY <2>1, <2>6, LocalStop
  <2> QED
    BY <1>3, <1>5, <2>1, <2>2, <2>3, <2>5, <2>7, OwnStep
<1> QED
  BY <1>4, <1>5 DEF OnSequenceRead

LEMMA StepOnAcceptedEnd ==
  ASSUME UvInv, NEW r \in Ranks, OnAcceptedEnd(r)
  PROVE  UvInv'
<1> DEFINE p == Peer(r)
<1>0. ControlTypes /\ LoopTypes /\ p \in Ranks /\ p # r /\ Peer(p) = r /\ LinkAt(r)
  BY InvHas
<1>1. Role(r) \in Roles /\ Functions(r) \in Seq(Function) /\ state[r] \in States
  BY ValuesHave
<1>2. /\ handle[r] = "accepted" /\ handle' = [handle EXCEPT ![r] = "closed"]
      /\ UNCHANGED <<state, errno, connect, parked, deferred, stack>>
      /\ UNCHANGED <<protocol, writeOps, posted, requests, wire, readOp>>
  BY DEF OnAcceptedEnd, stream, writes, connecting, loop
<1>3. LoopTypes' /\ \A q \in Ranks : Functions(q)' = Functions(q)
  BY <1>0, <1>2, FunctionsSame
<1>4. ControlTypes' /\ handle'[r] = "closed" /\ handle'[p] = handle[p]
  BY <1>0, <1>2 DEF ControlTypes
<1>5. Frame(r) /\ HandleMoves(r)
  BY <1>0, <1>2, <1>3, <1>4 DEF Frame, HandleMoves
<1>6. Link(Role(r), state[r], "closed", parked[r], connect[r], Functions(r))
  BY <1>0, <1>1, <1>2, LinkParked DEF LinkAt
<1>7. LinkAt(r)'
  BY <1>2, <1>3, <1>4, <1>6 DEF LinkAt
<1>8. ~Flowing(r)'
  BY <1>4 DEF Flowing
<1>9. DataAt(r)'
  BY <1>2, <1>8, LocalStop
<1> QED
  BY <1>2, <1>3, <1>4, <1>5, <1>7, <1>9, OwnStep

LEMMA StepTakeDeferred ==
  ASSUME UvInv, NEW r \in Ranks, TakeDeferred(r)
  PROVE  UvInv'
<1>0. ControlTypes /\ LoopTypes /\ Peer(r) \in Ranks /\ LinkAt(r)
  BY InvHas
<1>1. LoopTypes' /\ \A q \in Ranks : Functions(q)' = Functions(q)
  BY <1>0, FunctionsTake
<1>2. /\ UNCHANGED <<state, errno, connect, parked, handle>>
      /\ UNCHANGED <<protocol, writeOps, posted, requests, wire, readOp>>
  BY DEF TakeDeferred, stream, writes, connecting
<1>3. ControlTypes' /\ Frame(r) /\ HandleMoves(r) /\ LinkAt(r)'
  BY <1>0, <1>1, <1>2 DEF ControlTypes, Frame, HandleMoves, LinkAt
<1>4. DataAt(r)'
  BY <1>1, <1>2, LocalSame
<1> QED
  BY <1>1, <1>2, <1>3, <1>4, OwnStep

LEMMA StepRunClose ==
  ASSUME UvInv, NEW r \in Ranks, RunClose(r)
  PROVE  UvInv'
<1> DEFINE p == Peer(r)
<1>0. ControlTypes /\ LoopTypes /\ p \in Ranks /\ p # r /\ Peer(p) = r /\ LinkAt(r)
  BY InvHas
<1>1. Role(r) \in Roles /\ Functions(r) \in Seq(Function) /\ state[r] \in States
  BY ValuesHave
<1>2. Runs(r, "close") /\ UNCHANGED deferred
  BY DEF RunClose
<1>3. /\ LoopTypes' /\ Functions(r) # <<>> /\ Head(Functions(r)).fn = "close"
      /\ Functions(r)' = Tail(Functions(r)) /\ Functions(p)' = Functions(p)
  BY <1>0, <1>2, FunctionsRun
<1>4. /\ handle[r] = "open"
      /\ Link(Role(r), state[r], "closing", parked[r], connect[r], Tail(Functions(r)))
  BY <1>0, <1>1, <1>3, LinkRunClose DEF LinkAt
<1>5. /\ handle' = [handle EXCEPT ![r] = "closing"]
      /\ UNCHANGED <<state, errno, connect, parked>>
      /\ UNCHANGED <<protocol, writeOps, posted, requests, wire, readOp>>
  BY <1>4 DEF RunClose, stream, writes, connecting
<1>6. ControlTypes' /\ handle'[r] = "closing" /\ handle'[p] = handle[p]
  BY <1>0, <1>5 DEF ControlTypes
<1>7. Frame(r) /\ HandleMoves(r)
  BY <1>3, <1>4, <1>5, <1>6 DEF Frame, HandleMoves
<1>8. LinkAt(r)'
  BY <1>3, <1>4, <1>5, <1>6 DEF LinkAt
<1>9. ~Flowing(r)'
  BY <1>6 DEF Flowing
<1>10. DataAt(r)'
  BY <1>5, <1>9, LocalStop
<1> QED
  BY <1>3, <1>5, <1>6, <1>7, <1>8, <1>10, OwnStep

(* A step in which r may write, but reads nothing.                         *)
LEMMA WriterStep ==
  ASSUME UvInv, NEW r \in Ranks, P!IInv', ControlTypes', LoopTypes', WriteTypes', ReadTypes',
         Frame(r), handle'[Peer(r)] = handle[Peer(r)], HandleMoves(r), UNCHANGED readOp,
         channel'[Peer(r)][r] = channel[Peer(r)][r], writeOps'[Peer(r)] = writeOps[Peer(r)],
         requests'[Peer(r)] = requests[Peer(r)], wire'[Peer(r)] = wire[Peer(r)],
         LinkAt(r)', DataAt(r)', state'[r] \notin Early, state'[r] \in Ended => requests'[r] = <<>>
  PROVE  UvInv'
<1> DEFINE p == Peer(r)
<1>1. p \in Ranks /\ Peer(p) = r /\ LinkAt(p) /\ QuietAt(p) /\ DataAt(p)
  BY InvHas
<1>2. LinkAt(p)'
  BY <1>1 DEF LinkAt, Frame
<1>3. DataAt(p)'
  <2>1. Flowing(p)' = Flowing(p)
    BY DEF Flowing, Frame
  <2> QED
    BY <1>1, <2>1 DEF DataAt, Frame
<1>4. QuietAt(p)'
  BY <1>1 DEF QuietAt, Frame
<1>5. QuietAt(r)'
  BY DEF QuietAt, Quiet
<1>6. PeersAt(r)' /\ PeersAt(p)'
  BY PeersStay
<1>7. Types'
  BY DEF Types
<1>8. RankInv(r)' /\ RankInv(p)'
  BY <1>2, <1>3, <1>4, <1>5, <1>6 DEF RankInv
<1> QED
  BY <1>7, <1>8, Assemble

(* Pair::close, onEnd and onError begin to close the pair.                 *)
LEMMA BeginsToClose ==
  ASSUME UvInv, NEW r \in Ranks, BeginClose(r), UNCHANGED <<stack, handle, parked>>, NEW c
  PROVE  /\ LoopTypes' /\ Functions(r)' = Functions(r) \o <<Fn("close")>>
         /\ \A q \in Ranks : q # r => Functions(q)' = Functions(q)
         /\ state[r] = "CONNECTED" /\ state' \in [Ranks -> States]
         /\ state'[r] = "CLOSING" /\ state'[Peer(r)] = state[Peer(r)]
         /\ state'[r] \notin Early \cup Ended
         /\ Link(Role(r), state'[r], handle'[r], parked'[r], c, Functions(r)')
<1>0. ControlTypes /\ LoopTypes /\ Peer(r) \in Ranks /\ Peer(r) # r /\ LinkAt(r)
  BY InvHas
<1>1. Functions(r) \in Seq(Function) /\ Fn("close") \in Function
  BY ValuesHave, FnTypes
<1>2. <<Fn("close")>> \in Seq(Function)
  BY <1>1
<1>3. Defer(r, <<Fn("close")>>) /\ state[r] = "CONNECTED" /\ state' = [state EXCEPT ![r] = "CLOSING"]
  BY DEF BeginClose
<1>4. /\ LoopTypes' /\ Functions(r)' = Functions(r) \o <<Fn("close")>>
      /\ \A q \in Ranks : q # r => Functions(q)' = Functions(q)
  BY <1>0, <1>2, <1>3, FunctionsDefer, Zenon
<1>5. /\ state' \in [Ranks -> States] /\ state'[r] = "CLOSING" /\ state'[Peer(r)] = state[Peer(r)]
  BY <1>0, <1>3 DEF ControlTypes, States
<1>6. Link(Role(r), "CLOSING", handle[r], parked[r], c, Functions(r) \o <<Fn("close")>>)
  BY <1>0, <1>1, <1>3, LinkClosing DEF LinkAt
<1>7. state'[r] \notin Early \cup Ended
  BY <1>5 DEF Early, Ended
<1> QED
  BY <1>3, <1>4, <1>5, <1>6, <1>7

LEMMA ClosingStep ==
  ASSUME UvInv, NEW r \in Ranks, BeginClose(r), UNCHANGED <<stack, errno, handle, parked>>,
         UNCHANGED <<protocol, writeOps, posted, requests, wire, readOp>>,
         connect' \in [Ranks -> {"not called", "asleep", "woken", "returned", "threw"}],
         connect'[Peer(r)] = connect[Peer(r)]
  PROVE  UvInv'
<1> DEFINE p == Peer(r)
<1>0. ControlTypes /\ p \in Ranks /\ p # r
  BY InvHas
<1>1. /\ LoopTypes' /\ Functions(r)' = Functions(r) \o <<Fn("close")>> /\ Functions(p)' = Functions(p)
      /\ state' \in [Ranks -> States] /\ state'[p] = state[p] /\ state'[r] \notin Early \cup Ended
      /\ Link(Role(r), state'[r], handle'[r], parked'[r], connect'[r], Functions(r)')
  BY <1>0, BeginsToClose
<1>2. ControlTypes'
  BY <1>0, <1>1 DEF ControlTypes
<1>3. Frame(r) /\ HandleMoves(r) /\ LinkAt(r)'
  BY <1>1 DEF Frame, HandleMoves, LinkAt
<1>4. DataAt(r)'
  <2>1. Fn("close") \in Function /\ Fn("close").fn # "write"
    BY FnTypes DEF Fn
  <2> QED
    BY <1>1, <2>1, LocalSame
<1> QED
  BY <1>1, <1>2, <1>3, <1>4, OwnStep

LEMMA StepClose ==
  ASSUME UvInv, NEW r \in Ranks, Close(r)
  PROVE  UvInv'
<1> DEFINE p == Peer(r)
<1>0. ControlTypes /\ LoopTypes /\ p \in Ranks /\ p # r /\ LinkAt(r)
  BY InvHas
<1>1. /\ UNCHANGED <<stack, errno, handle, connect, parked>>
      /\ UNCHANGED <<protocol, writeOps, posted, requests, wire, readOp>>
  BY DEF Close, stream, writes, connecting
<1>2. CASE BeginClose(r)
  <2>1. connect' \in [Ranks -> {"not called", "asleep", "woken", "returned", "threw"}]
    BY <1>0, <1>1 DEF ControlTypes
  <2> QED
    BY <1>1, <1>2, <2>1, ClosingStep
<1>3. CASE /\ state[r] = "INITIALIZED" /\ state' = [state EXCEPT ![r] = "CLOSED"]
           /\ UNCHANGED deferred
  <2>1. LoopTypes' /\ \A q \in Ranks : Functions(q)' = Functions(q)
    BY <1>0, <1>1, <1>3, FunctionsSame
  <2>2. ControlTypes' /\ state'[r] = "CLOSED" /\ state'[p] = state[p]
    BY <1>0, <1>1, <1>3 DEF ControlTypes, States
  <2>3. Frame(r) /\ HandleMoves(r)
    BY <1>0, <1>1, <2>1, <2>2 DEF Frame, HandleMoves
  <2>4. Functions(r) \in Seq(Function)
    BY ValuesHave
  <2>5. LinkAt(r)'
    BY <1>0, <1>1, <1>3, <2>1, <2>2, <2>4, LinkUnused DEF LinkAt
  <2>6. DataAt(r)'
    BY <1>1, <2>1, LocalSame
  <2>7. state[r] \in Early /\ state'[r] \notin Early
    BY <1>3, <2>2 DEF Early
  <2> QED
    BY <1>1, <2>1, <2>2, <2>3, <2>5, <2>6, <2>7, OwnStep
<1> QED
  BY <1>2, <1>3 DEF Close

LEMMA StepDestroyReturns ==
  ASSUME UvInv, NEW r \in Ranks, DestroyReturns(r)
  PROVE  UvInv'
<1> DEFINE p == Peer(r)
<1>0. ControlTypes /\ LoopTypes /\ p \in Ranks /\ p # r /\ LinkAt(r)
  BY InvHas
<1>1. /\ state[r] = "CLOSED" /\ state' = [state EXCEPT ![r] = "destroyed"]
      /\ UNCHANGED <<errno, handle, connect, parked, deferred, stack>>
      /\ UNCHANGED <<protocol, writeOps, posted, requests, wire, readOp>>
  BY DEF DestroyReturns, stream, writes, connecting, loop
<1>2. LoopTypes' /\ \A q \in Ranks : Functions(q)' = Functions(q)
  BY <1>0, <1>1, FunctionsSame
<1>3. ControlTypes' /\ state'[r] = "destroyed" /\ state'[p] = state[p]
  BY <1>0, <1>1 DEF ControlTypes, States
<1>4. Frame(r) /\ HandleMoves(r)
  BY <1>0, <1>1, <1>2, <1>3 DEF Frame, HandleMoves
<1>5. LinkAt(r)'
  BY <1>0, <1>1, <1>2, <1>3, LinkDestroyed DEF LinkAt
<1>6. DataAt(r)'
  BY <1>1, <1>2, LocalSame
<1>7. state[r] \in Ended /\ state'[r] \notin Early
  BY <1>1, <1>3 DEF Early, Ended
<1> QED
  BY <1>1, <1>2, <1>3, <1>4, <1>5, <1>6, <1>7, OwnStep

LEMMA NotifiedIs ==
  ASSUME UvInv, NEW r \in Ranks, connect' = Notified(connect, r)
  PROVE  /\ connect' \in [Ranks -> {"not called", "asleep", "woken", "returned", "threw"}]
         /\ connect'[Peer(r)] = connect[Peer(r)]
<1>1. ControlTypes /\ Peer(r) \in Ranks /\ Peer(r) # r
  BY InvHas
<1> QED
  BY <1>1 DEF ControlTypes, Notified

LEMMA StepOnEnd ==
  ASSUME UvInv, NEW r \in Ranks, OnEnd(r)
  PROVE  UvInv'
<1>1. /\ BeginClose(r) /\ UNCHANGED <<stack, errno, handle, parked>>
      /\ UNCHANGED <<protocol, writeOps, posted, requests, wire, readOp>>
      /\ connect' = Notified(connect, r)
  BY DEF OnEnd, stream, writes
<1> QED
  BY <1>1, NotifiedIs, ClosingStep

(* Requests that were not written are dropped, and the pair has failed.    *)
LEMMA CancelStep ==
  ASSUME UvInv, NEW r \in Ranks, UNCHANGED <<protocol, writeOps, posted, wire, readOp>>,
         NEW reqs \in Seq(Request), DoneFirst(reqs), Done(reqs) = 0,
         requests' = [requests EXCEPT ![r] = reqs],
         ControlTypes', LoopTypes', Frame(r), handle'[Peer(r)] = handle[Peer(r)], HandleMoves(r),
         LinkAt(r)', ~Flowing(r)', state'[r] \notin Early, state'[r] \in Ended => reqs = <<>>
  PROVE  UvInv'
<1> DEFINE p == Peer(r)
<1>0. WriteTypes /\ ReadTypes /\ p \in Ranks /\ p # r /\ DataAt(r)
  BY InvHas
<1>1. P!IInv' /\ channel' = channel
  BY ProtocolStays
<1>2. WriteTypes' /\ ReadTypes' /\ requests'[r] = reqs /\ requests'[p] = requests[p]
  BY <1>0 DEF WriteTypes, ReadTypes
<1>3. writeOps[r] \in Seq(Operation)
  BY ValuesHave
<1>4. Data(reqs, Functions(r)', writeOps[r], wire[r], channel[r][p], readOp[p], FALSE)
  <2>1. Data(requests[r], Functions(r), writeOps[r], wire[r], channel[r][p], readOp[p], FALSE)
    BY <1>0, DataStop, Zenon DEF DataAt
  <2> QED
    BY <1>3, <2>1, DataCancel
<1>5. Flowing(r)' = FALSE
  BY DEF Flowing
<1>6. DataAt(r)'
  BY <1>1, <1>2, <1>4, <1>5 DEF DataAt
<1> QED
  BY <1>1, <1>2, <1>6, WriterStep

LEMMA NoRequests == <<>> \in Seq(Request) /\ DoneFirst(<<>>) /\ Done(<<>>) = 0
<1>1. <<>> \in Seq(Request) /\ WrittenUpTo(<<>>, 0) /\ 0 \in 0 .. Len(<<>>)
  BY DEF WrittenUpTo
<1> QED
  BY <1>1, DoneIs DEF DoneFirst

LEMMA StepOnClose ==
  ASSUME UvInv, NEW r \in Ranks, OnClose(r)
  PROVE  UvInv'
<1> DEFINE p == Peer(r)
<1>0. ControlTypes /\ LoopTypes /\ p \in Ranks /\ p # r /\ LinkAt(r)
  BY InvHas
<1>1. Role(r) \in Roles /\ Functions(r) \in Seq(Function) /\ state[r] \in States
  BY ValuesHave
<1>2. /\ handle[r] = "closing" /\ handle' = [handle EXCEPT ![r] = "closed"]
      /\ state' = [state EXCEPT ![r] = "CLOSED"] /\ requests' = [requests EXCEPT ![r] = <<>>]
      /\ connect' = Notified(connect, r) /\ UNCHANGED <<parked, deferred, stack>>
      /\ UNCHANGED <<protocol, writeOps, posted, wire, readOp>>
  BY DEF OnClose, loop
<1>3. PICK e \in {errno[r], "ECANCELED"} : errno' = [errno EXCEPT ![r] = e]
  BY DEF OnClose
<1>4. LoopTypes' /\ \A q \in Ranks : Functions(q)' = Functions(q)
  BY <1>0, <1>2, FunctionsSame
<1>5. /\ connect' \in [Ranks -> {"not called", "asleep", "woken", "returned", "threw"}]
      /\ connect'[p] = connect[p]
  BY <1>2, NotifiedIs
<1>6. /\ ControlTypes' /\ state'[r] = "CLOSED" /\ handle'[r] = "closed"
      /\ state'[p] = state[p] /\ handle'[p] = handle[p] /\ errno'[p] = errno[p]
  BY <1>0, <1>2, <1>3, <1>5 DEF ControlTypes, States
<1>7. Frame(r) /\ HandleMoves(r)
  BY <1>0, <1>2, <1>4, <1>5, <1>6 DEF Frame, HandleMoves
<1>8. Link(Role(r), "CLOSED", "closed", parked[r], connect'[r], Functions(r))
  BY <1>0, <1>1, <1>2, LinkClosed DEF LinkAt
<1>9. LinkAt(r)'
  BY <1>2, <1>4, <1>6, <1>8 DEF LinkAt
<1>10. ~Flowing(r)' /\ state'[r] \notin Early
  BY <1>6 DEF Flowing, Early
<1> QED
  BY <1>2, <1>4, <1>6, <1>7, <1>9, <1>10, NoRequests, CancelStep

LEMMA StepOnError ==
  ASSUME UvInv, NEW r \in Ranks, OnError(r)
  PROVE  UvInv'
<1> DEFINE p == Peer(r)
<1>0. /\ ControlTypes /\ LoopTypes /\ WriteTypes /\ p \in Ranks /\ p # r /\ LinkAt(r) /\ DataAt(r)
  BY InvHas
<1>1. /\ Role(r) \in Roles /\ Functions(r) \in Seq(Function) /\ state[r] \in States
      /\ requests[r] \in Seq(Request)
  BY ValuesHave
<1>2. /\ handle[r] = "open" /\ errno' = [errno EXCEPT ![r] = "ECONNRESET"]
      /\ connect' = Notified(connect, r) /\ UNCHANGED <<handle, parked, stack>>
      /\ UNCHANGED <<protocol, writeOps, posted, wire, readOp>>
  BY DEF OnError
<1>3. /\ connect' \in [Ranks -> {"not called", "asleep", "woken", "returned", "threw"}]
      /\ connect'[p] = connect[p]
  BY <1>2, NotifiedIs
<1>4. /\ LoopTypes' /\ Functions(p)' = Functions(p)
      /\ state' \in [Ranks -> States] /\ state'[p] = state[p] /\ state'[r] \notin Early \cup Ended
      /\ Link(Role(r), state'[r], handle'[r], parked'[r], connect'[r], Functions(r)')
  <2>1. CASE BeginClose(r)
    BY <1>0, <1>2, <2>1, BeginsToClose
  <2>2. CASE state[r] # "CONNECTED" /\ UNCHANGED <<state, deferred>>
    <3>1. LoopTypes' /\ \A q \in Ranks : Functions(q)' = Functions(q)
      BY <1>0, <1>2, <2>2, FunctionsSame
    <3>2. state[r] = "CLOSING"
      BY <1>0, <1>1, <1>2, <2>2, LinkMeans DEF LinkAt
    <3>3. state[r] \notin Early \cup Ended
      BY <3>2 DEF Early, Ended
    <3>4. Link(Role(r), state[r], handle[r], parked[r], connect'[r], Functions(r))
      BY <1>0, <3>3, LinkReturned DEF LinkAt
    <3> QED
      BY <1>0, <1>2, <2>2, <3>1, <3>3, <3>4 DEF ControlTypes
  <2> QED
    BY <2>1, <2>2 DEF OnError
<1>5. ControlTypes' /\ errno'[r] = "ECONNRESET" /\ errno'[p] = errno[p]
  BY <1>0, <1>2, <1>3, <1>4 DEF ControlTypes
<1>6. Frame(r) /\ HandleMoves(r) /\ LinkAt(r)'
  BY <1>2, <1>3, <1>4, <1>5 DEF Frame, HandleMoves, LinkAt
<1>7. ~Flowing(r)'
  BY <1>5 DEF Flowing, NoError
<1>8. CASE UNCHANGED requests
  <2>1. DataAt(r)'
    BY <1>2, <1>7, <1>8, LocalStop
  <2> QED
    BY <1>2, <1>4, <1>5, <1>6, <1>8, <2>1, OwnStep
<1>9. CASE /\ requests[r] # <<>> /\ ~Head(requests[r]).done
           /\ requests' = [requests EXCEPT ![r] = Tail(@)]
  <2>1. DoneFirst(requests[r])
    BY <1>0 DEF DataAt, Data
  <2>2. Tail(requests[r]) \in Seq(Request) /\ DoneFirst(Tail(requests[r])) /\ Done(Tail(requests[r])) = 0
    BY <1>1, <1>9, <2>1, NoneDoneTail
  <2>3. requests' = [requests EXCEPT ![r] = Tail(requests[r])]
    BY <1>9
  <2> QED
    BY <1>2, <1>4, <1>5, <1>6, <1>7, <2>2, <2>3, CancelStep
<1> QED
  BY <1>8, <1>9 DEF OnError

LEMMA StepRunWrite ==
  ASSUME UvInv, NEW r \in Ranks, RunWrite(r)
  PROVE  UvInv'
<1> DEFINE p == Peer(r)
           fns == Functions(r)
           op == Head(fns).op
<1>0. /\ ControlTypes /\ LoopTypes /\ WriteTypes /\ ReadTypes /\ p \in Ranks /\ p # r /\ LinkAt(r)
      /\ DataAt(r)
  BY InvHas
<1>1. /\ Role(r) \in Roles /\ fns \in Seq(Function) /\ state[r] \in States
      /\ requests[r] \in Seq(Request) /\ writeOps[r] \in Seq(Operation)
  BY ValuesHave
<1>2. Runs(r, "write") /\ UNCHANGED deferred
  BY DEF RunWrite
<1>3. /\ LoopTypes' /\ fns # <<>> /\ Head(fns).fn = "write" /\ Head(fns) = Head(stack[r])
      /\ Functions(r)' = Tail(fns) /\ Functions(p)' = Functions(p)
  BY <1>0, <1>2, FunctionsRun
<1>4. /\ Link(Role(r), state[r], handle[r], parked[r], connect[r], Tail(fns))
      /\ state[r] = "destroyed" =>
           Link(Role(r), "crashed", handle[r], parked[r], connect[r], Tail(fns))
  BY <1>0, <1>1, <1>3, LinkRunWrite DEF LinkAt
<1>5. UNCHANGED <<protocol, connect, parked, handle, writeOps, posted, wire, readOp>>
  BY DEF RunWrite, connecting
<1>6. HandleMoves(r) /\ handle'[p] = handle[p]
  BY <1>5 DEF HandleMoves
<1>7. CASE /\ handle[r] = "open" /\ requests' = [requests EXCEPT ![r] = @ \o NewRequests(op)]
           /\ UNCHANGED <<state, errno>>
  <2> DEFINE new == NewRequests(op)
  <2>1. /\ new \in Seq(Request)
        /\ Data(requests[r] \o new, Tail(fns), writeOps[r], wire[r], channel[r][p], readOp[p], Flowing(r))
    BY <1>0, <1>1, <1>3, DataRun, Zenon DEF DataAt
  <2> HIDE DEF new
  <2>2. requests[r] \o new \in Seq(Request)
    BY <1>1, <2>1, ConcatProperties
  <2>3. requests' = [requests EXCEPT ![r] = requests[r] \o new]
    BY <1>7 DEF new
  <2>4. WriteTypes' /\ requests'[r] = requests[r] \o new /\ requests'[p] = requests[p]
    BY <1>0, <1>5, <2>2, <2>3 DEF WriteTypes
  <2>5. ReadTypes' /\ ControlTypes'
    BY <1>0, <1>5, <1>7 DEF ReadTypes, ControlTypes
  <2>6. P!IInv' /\ channel' = channel
    BY <1>5, ProtocolStays
  <2>7. Flowing(r)' = Flowing(r)
    BY <1>5, <1>7 DEF Flowing
  <2>8. DataAt(r)'
    BY <1>3, <1>5, <2>1, <2>4, <2>6, <2>7 DEF DataAt
  <2>9. Frame(r) /\ LinkAt(r)'
    BY <1>3, <1>4, <1>5, <1>7 DEF Frame, LinkAt
  <2>10. state'[r] \notin Early /\ state'[r] \notin Ended
    BY <1>0, <1>1, <1>7, LinkMeans DEF LinkAt, Early, Ended
  <2> QED
    BY <1>3, <1>5, <1>6, <2>4, <2>5, <2>6, <2>8, <2>9, <2>10, WriterStep
<1>8. CASE /\ handle[r] # "open" /\ UNCHANGED requests
           /\ \/ errno' = [errno EXCEPT ![r] = "EBADF"] /\ UNCHANGED state
              \/ /\ state[r] = "destroyed" /\ state' = [state EXCEPT ![r] = "crashed"]
                 /\ UNCHANGED errno
  <2>1. /\ ControlTypes' /\ state'[p] = state[p] /\ errno'[p] = errno[p]
        /\ \/ state'[r] = state[r]
           \/ state[r] = "destroyed" /\ state'[r] = "crashed"
    BY <1>0, <1>5, <1>8 DEF ControlTypes, States
  <2>2. Frame(r) /\ LinkAt(r)'
    BY <1>3, <1>4, <1>5, <2>1 DEF Frame, LinkAt
  <2>3. ~Flowing(r)'
    BY <1>5, <1>8 DEF Flowing
  <2>4. DataAt(r)'
    BY <1>5, <1>8, <2>3, LocalStop
  <2>5. /\ state'[r] \in Early => state[r] \in Early
        /\ state'[r] \in Ended => state[r] \in Early \cup Ended
    BY <2>1 DEF Early, Ended
  <2> QED
    BY <1>3, <1>5, <1>6, <1>8, <2>1, <2>2, <2>4, <2>5, OwnStep
<1>9. state[r] = "destroyed" => handle[r] # "open"
  BY <1>0 DEF LinkAt, Link, HandleOK, Ended, Waiting
<1> QED
  BY <1>3, <1>7, <1>8, <1>9 DEF RunWrite, NewRequests

LEMMA OpenState ==
  ASSUME UvInv, NEW r \in Ranks, handle[r] \in {"open", "closing"}
  PROVE  state[r] \notin Early /\ state[r] \notin Ended
<1>1. /\ Link(Role(r), state[r], handle[r], parked[r], connect[r], Functions(r))
      /\ Role(r) \in Roles /\ Functions(r) \in Seq(Function) /\ state[r] \in States
  BY InvHas, ValuesHave DEF LinkAt
<1>2. /\ handle[r] = "open" => state[r] \in {"CONNECTED", "CLOSING"}
      /\ handle[r] = "closing" => state[r] = "CLOSING"
  BY <1>1, LinkMeans
<1>3. state[r] \in {"CONNECTED", "CLOSING"}
  BY <1>2
<1> QED
  BY <1>3 DEF Early, Ended

LEMMA StepTransmit ==
  ASSUME UvInv, NEW r \in Ranks, Transmit(r)
  PROVE  UvInv'
<1> DEFINE p == Peer(r)
           reqs == requests[r]
<1>0. /\ ControlTypes /\ LoopTypes /\ WriteTypes /\ ReadTypes /\ p \in Ranks /\ p # r /\ LinkAt(r)
      /\ DataAt(r)
  BY InvHas
<1>1. /\ Role(r) \in Roles /\ Functions(r) \in Seq(Function) /\ state[r] \in States
      /\ reqs \in Seq(Request) /\ writeOps[r] \in Seq(Operation) /\ wire[r] \in Seq(Byte)
      /\ channel[r][p] \in Seq(M!Message)
  BY ValuesHave
<1>2. readOp[p] \in ReadOps
  BY <1>0, ValuesHave
<1>3. PICK k \in DOMAIN reqs :
        /\ handle[r] = "open" /\ errno[r] = NoError
        /\ \A l \in 1 .. k : reqs[l].done = (l < k)
        /\ requests' = [requests EXCEPT ![r][k].done = TRUE]
        /\ wire' = [wire EXCEPT ![r] = @ \o Bytes(reqs[k].msg, reqs[k].part)]
        /\ UNCHANGED <<protocol, state, errno, connect, parked, handle, deferred, stack, writeOps,
                       posted, readOp>>
  BY Zenon DEF Transmit, connecting, loop
<1>4. k \in 1 .. Len(reqs)
  BY <1>1
<1> DEFINE s == [reqs EXCEPT ![k].done = TRUE]
           b == Bytes(reqs[k].msg, reqs[k].part)
<1>5. Data(reqs, Functions(r), writeOps[r], wire[r], channel[r][p], readOp[p], TRUE)
  <2>1. Flowing(r) = TRUE
    BY <1>3, Zenon DEF Flowing
  <2> QED
    BY <1>0, <2>1, Zenon DEF DataAt
<1>6. /\ s \in Seq(Request) /\ b \in Seq(Byte)
      /\ \A fl : Data(s, Functions(r), writeOps[r], wire[r] \o b, channel[r][p], readOp[p], fl)
  BY <1>1, <1>2, <1>3, <1>4, <1>5, DataWrite, Zenon
<1>7. requests' = [requests EXCEPT ![r] = s] /\ wire' = [wire EXCEPT ![r] = wire[r] \o b]
  BY <1>3, Zenon
<1> HIDE DEF s, b
<1>8. wire[r] \o b \in Seq(Byte)
  BY <1>1, <1>6, ConcatProperties
<1>9. WriteTypes' /\ requests'[r] = s /\ requests'[p] = requests[p]
  <2>1. UNCHANGED <<writeOps, posted>>
    BY <1>3, Zenon
  <2> QED
    BY <1>0, <1>6, <1>7, <2>1 DEF WriteTypes
<1>10. /\ UNCHANGED <<protocol, state, errno, connect, parked, handle>>
       /\ UNCHANGED <<deferred, stack, writeOps, readOp>> /\ handle[r] = "open"
  BY <1>3, Zenon
<1>11. ReadTypes' /\ wire'[r] = wire[r] \o b /\ wire'[p] = wire[p]
  BY <1>0, <1>7, <1>8, <1>10 DEF ReadTypes
<1>12. LoopTypes' /\ \A q \in Ranks : Functions(q)' = Functions(q)
  BY <1>0, <1>10, FunctionsSame
<1>13. P!IInv' /\ channel' = channel
  BY <1>10, ProtocolStays
<1>14. ControlTypes' /\ Frame(r) /\ HandleMoves(r) /\ LinkAt(r)'
  BY <1>0, <1>10, <1>12 DEF ControlTypes, Frame, HandleMoves, LinkAt
<1>15. DataAt(r)'
  BY <1>6, <1>9, <1>10, <1>11, <1>12, <1>13 DEF DataAt
<1>16. state'[r] \notin Early /\ state'[r] \notin Ended
  BY <1>10, OpenState
<1> QED
  BY <1>9, <1>10, <1>11, <1>12, <1>13, <1>14, <1>15, <1>16, WriterStep

LEMMA StepOnWrite ==
  ASSUME UvInv, NEW r \in Ranks, OnWrite(r)
  PROVE  UvInv'
<1> DEFINE p == Peer(r)
           reqs == requests[r]
           ws == writeOps[r]
<1>0. /\ ControlTypes /\ LoopTypes /\ WriteTypes /\ ReadTypes /\ p \in Ranks /\ p # r /\ LinkAt(r)
      /\ DataAt(r)
  BY InvHas
<1>1. /\ Role(r) \in Roles /\ Functions(r) \in Seq(Function) /\ state[r] \in States
      /\ reqs \in Seq(Request) /\ ws \in Seq(Operation)
  BY ValuesHave
<1>2. /\ handle[r] \in {"open", "closing"} /\ reqs # <<>> /\ Head(reqs).done /\ ws # <<>>
      /\ requests' = [requests EXCEPT ![r] = Tail(reqs)]
      /\ UNCHANGED <<protocol, state, errno, connect, parked, handle, deferred, stack, posted,
                     wire, readOp>>
  BY Zenon DEF OnWrite, connecting, loop
<1>3. PICK ws2 : /\ writeOps' = [writeOps EXCEPT ![r] = ws2]
                 /\ \/ ~Written(Head(ws)) /\ ws2 = [ws EXCEPT ![1].nwritten = Preamble]
                    \/ Written(Head(ws)) /\ ws2 = Tail(ws)
  BY Zenon DEF OnWrite
<1>4. /\ Tail(reqs) \in Seq(Request) /\ ws2 \in Seq(Operation)
      /\ Data(Tail(reqs), Functions(r), ws2, wire[r], channel[r][p], readOp[p], Flowing(r))
  <2>1. Data(reqs, Functions(r), ws, wire[r], channel[r][p], readOp[p], Flowing(r))
    BY <1>0 DEF DataAt
  <2> QED
    BY <1>1, <1>2, <1>3, <2>1, DataOnWrite, Zenon
<1>5. /\ UNCHANGED <<protocol, state, errno, connect, parked, handle>>
      /\ UNCHANGED <<deferred, stack, posted, wire, readOp>>
  BY <1>2, Zenon
<1>6. requests' = [requests EXCEPT ![r] = Tail(reqs)]
  BY <1>2, Zenon
<1>7. /\ WriteTypes' /\ requests'[r] = Tail(reqs) /\ requests'[p] = requests[p]
      /\ writeOps'[r] = ws2 /\ writeOps'[p] = writeOps[p]
  BY <1>0, <1>3, <1>4, <1>5, <1>6 DEF WriteTypes
<1>8. ReadTypes'
  BY <1>0, <1>5 DEF ReadTypes
<1>9. LoopTypes' /\ \A q \in Ranks : Functions(q)' = Functions(q)
  BY <1>0, <1>5, FunctionsSame
<1>10. P!IInv' /\ channel' = channel
  BY <1>5, ProtocolStays
<1>11. ControlTypes' /\ Frame(r) /\ HandleMoves(r) /\ LinkAt(r)'
  BY <1>0, <1>5, <1>9 DEF ControlTypes, Frame, HandleMoves, LinkAt
<1>12. Flowing(r)' = Flowing(r)
  BY <1>5 DEF Flowing
<1>13. DataAt(r)'
  BY <1>4, <1>5, <1>7, <1>9, <1>10, <1>12 DEF DataAt
<1>14. handle[r] \in {"open", "closing"}
  BY <1>2, Zenon
<1>15. state'[r] \notin Early /\ state'[r] \notin Ended
  BY <1>5, <1>14, OpenState
<1> QED
  BY <1>5, <1>7, <1>8, <1>9, <1>10, <1>11, <1>13, <1>15, WriterStep

-----------------------------------------------------------------------------
(* Posting operations.                                                     *)
LEMMA PostsProtocol ==
  ASSUME NEW r \in Ranks,
         \/ \E s \in Slots : \/ M!Send(r, Peer(r), s) \/ M!RecvFrom(r, Peer(r), s)
                             \/ M!RecvFromAny(r, s, {Peer(r)})
         \/ \E n \in 1 .. MaxRecvs[r] : M!CallStep(r, n)
  PROVE  P!Next
<1>1. Peer(r) \in Ranks /\ {Peer(r)} \in SUBSET Ranks
  BY PeerIs
<1>2. ASSUME NEW s \in Slots, M!Send(r, Peer(r), s) PROVE P!Next
  BY <1>1, <1>2, SameSend, Zenon DEF P!Next
<1>3. ASSUME NEW s \in Slots, M!RecvFrom(r, Peer(r), s) PROVE P!Next
  BY <1>1, <1>3, SameRecvFrom, Zenon DEF P!Next
<1>4. ASSUME NEW s \in Slots, M!RecvFromAny(r, s, {Peer(r)}) PROVE P!Next
  BY <1>1, <1>4, SameRecvFromAny, Zenon DEF P!Next
<1>5. ASSUME NEW n \in 1 .. MaxRecvs[r], M!CallStep(r, n) PROVE P!Next
  BY <1>5, SameCallStep, Zenon DEF P!Next
<1> QED
  BY <1>2, <1>3, <1>4, <1>5

LEMMA HandleProtocol ==
  ASSUME NEW r \in Ranks, NEW s \in Slots, M!Handle(Peer(r), r, s)
  PROVE  P!Next
<1>1. Peer(r) \in Ranks
  BY PeerIs
<1> QED
  BY <1>1, SameHandle, Zenon DEF P!Next

LEMMA WriteOpEffect ==
  ASSUME UvInv, NEW r \in Ranks, NEW new \in Seq(M!Message), WriteOp(r),
         channel'[r][Peer(r)] = channel[r][Peer(r)] \o new,
         UNCHANGED <<state, errno, connect, parked, handle, stack, requests>>,
         wire'[r] = wire[r], readOp'[Peer(r)] = readOp[Peer(r)], state[r] \notin Early
  PROVE  /\ LoopTypes' /\ WriteTypes' /\ LinkAt(r)' /\ DataAt(r)'
         /\ Functions(Peer(r))' = Functions(Peer(r)) /\ writeOps'[Peer(r)] = writeOps[Peer(r)]
<1> DEFINE p == Peer(r)
           late == state[r] # "CONNECTED"
           ops == NewOps(new, posted[r], late)
           fs == NewFns(ops)
<1>0. /\ ControlTypes /\ LoopTypes /\ WriteTypes /\ p \in Ranks /\ p # r /\ LinkAt(r)
      /\ DataAt(r) /\ channel \in Channels
  BY InvHas
<1>1. /\ Role(r) \in Roles /\ Functions(r) \in Seq(Function) /\ state[r] \in States
      /\ requests[r] \in Seq(Request) /\ writeOps[r] \in Seq(Operation) /\ wire[r] \in Seq(Byte)
      /\ channel[r][p] \in Seq(M!Message) /\ posted[r] \in Nat
  BY ValuesHave
<1>2. readOp[p] \in ReadOps
  BY <1>0, ValuesHave
<1>3. NewMessages(r) = new
  BY <1>0, NewMessagesIs
<1>4. /\ writeOps' = [writeOps EXCEPT ![r] = writeOps[r] \o ops]
      /\ posted' = [posted EXCEPT ![r] = posted[r] + Len(new)]
      /\ Defer(r, fs)
  BY <1>3, Zenon DEF WriteOp, NewOps, NewFns
<1>5. Data(requests[r], Functions(r), writeOps[r], wire[r], channel[r][p], readOp[p], Flowing(r))
  BY <1>0 DEF DataAt
<1>6. late \in BOOLEAN
  OBVIOUS
<1>7. /\ ops \in Seq(Operation) /\ fs \in Seq(Function)
      /\ AllWrites(fs) /\ (late => AllLate(fs))
      /\ Data(requests[r], Functions(r) \o fs, writeOps[r] \o ops, wire[r], channel[r][p] \o new,
              readOp[p], Flowing(r))
  BY <1>1, <1>2, <1>5, <1>6, DataPost, Zenon
<1> HIDE DEF ops, fs
<1>8. /\ LoopTypes' /\ Functions(r)' = Functions(r) \o fs
      /\ \A q \in Ranks : q # r => Functions(q)' = Functions(q)
  BY <1>0, <1>4, <1>7, FunctionsDefer, Zenon
<1>9. writeOps[r] \o ops \in Seq(Operation) /\ posted[r] + Len(new) \in Nat
  BY <1>1, <1>7, ConcatProperties
<1>10. WriteTypes' /\ writeOps'[r] = writeOps[r] \o ops /\ writeOps'[p] = writeOps[p]
  BY <1>0, <1>4, <1>9 DEF WriteTypes
<1>11. Flowing(r)' = Flowing(r)
  BY DEF Flowing
<1>12. DataAt(r)'
  BY <1>7, <1>8, <1>10, <1>11 DEF DataAt
<1>13. Link(Role(r), state[r], handle[r], parked[r], connect[r], Functions(r))
  BY <1>0 DEF LinkAt
<1>14. Link(Role(r), state[r], handle[r], parked[r], connect[r], Functions(r) \o fs)
  BY <1>1, <1>7, <1>13, LinkPosted
<1>15. LinkAt(r)'
  BY <1>8, <1>14 DEF LinkAt
<1> QED
  BY <1>0, <1>8, <1>10, <1>12, <1>15

LEMMA StepPost ==
  ASSUME UvInv, NEW r \in Ranks, Posts(r),
         \/ \E s \in Slots : \/ M!Send(r, Peer(r), s) \/ M!RecvFrom(r, Peer(r), s)
                             \/ M!RecvFromAny(r, s, {Peer(r)})
         \/ \E n \in 1 .. MaxRecvs[r] : M!CallStep(r, n)
  PROVE  UvInv'
<1> DEFINE p == Peer(r)
<1>0. /\ P!IInv /\ M!TypeOK /\ channel \in Channels /\ ControlTypes /\ LoopTypes /\ ReadTypes
      /\ p \in Ranks /\ p # r /\ LinkAt(r) /\ QuietAt(r)
  BY InvHas
<1>1. Role(r) \in Roles /\ Functions(r) \in Seq(Function) /\ state[r] \in States
  BY ValuesHave
<1>2. PICK new : Extends(channel, channel', r, new)
  BY <1>0, PostEffect, Zenon
<1>3. /\ new \in Seq(M!Message) /\ channel'[r][p] = channel[r][p] \o new
      /\ channel'[p][r] = channel[p][r]
  BY <1>2, Zenon DEF Extends
<1>4. P!IInv'
  BY <1>0, PostsProtocol, StepsRight
<1>5. /\ WriteOp(r) /\ connect[r] = "returned"
      /\ UNCHANGED <<state, errno, connect, parked, handle, stack, requests>>
      /\ UNCHANGED <<wire, readOp>>
  BY DEF Posts, MayPost, connecting
<1>6. state[r] \notin Early
  <2>1. Link(Role(r), state[r], handle[r], parked[r], connect[r], Functions(r))
    BY <1>0 DEF LinkAt
  <2> QED
    BY <1>1, <1>5, <2>1, LinkMeans
<1>7. /\ LoopTypes' /\ WriteTypes' /\ LinkAt(r)' /\ DataAt(r)'
      /\ Functions(p)' = Functions(p) /\ writeOps'[p] = writeOps[p]
  BY <1>3, <1>5, <1>6, WriteOpEffect
<1>8. ControlTypes' /\ ReadTypes' /\ Frame(r) /\ HandleMoves(r)
  BY <1>0, <1>5, <1>7 DEF ControlTypes, ReadTypes, Frame, HandleMoves
<1>9. state[r] \in Ended => requests[r] = <<>>
  BY <1>0 DEF QuietAt, Quiet
<1> QED
  BY <1>3, <1>4, <1>5, <1>6, <1>7, <1>8, <1>9, WriterStep

-----------------------------------------------------------------------------
(* Reading.  Both directions may move: the peer's loses what is read, and  *)
(* what is handled may have r write.                                       *)
LEMMA ReaderStep ==
  ASSUME UvInv, NEW r \in Ranks, P!IInv', LoopTypes', WriteTypes', ReadTypes',
         UNCHANGED <<state, errno, connect, parked, handle, requests>>,
         Functions(Peer(r))' = Functions(Peer(r)),
         state[r] \notin Early, state[r] \notin Ended, state[Peer(r)] \notin Early,
         LinkAt(r)', DataAt(r)', DataAt(Peer(r))'
  PROVE  UvInv'
<1> DEFINE p == Peer(r)
<1>1. /\ ControlTypes /\ p \in Ranks /\ Peer(p) = r /\ LinkAt(p) /\ PeersAt(r) /\ PeersAt(p)
      /\ QuietAt(p)
  BY InvHas
<1>2. Types'
  BY <1>1 DEF Types, ControlTypes
<1>3. LinkAt(p)' /\ PeersAt(r)' /\ PeersAt(p)'
  BY <1>1 DEF LinkAt, PeersAt
<1>4. QuietAt(r)' /\ QuietAt(p)'
  BY <1>1 DEF QuietAt, Quiet
<1> HIDE DEF p
<1>5. RankInv(r)' /\ RankInv(p)'
  BY <1>3, <1>4 DEF RankInv, p
<1> QED
  BY <1>2, <1>5, Assemble DEF p

LEMMA ReadBasics ==
  ASSUME UvInv, NEW r \in Ranks, NEW k \in 1 .. readOp[r].left, Read(r, k)
  PROVE  /\ UNCHANGED <<state, errno, connect, parked, handle, stack, requests>>
         /\ k \in 1 .. Len(wire[Peer(r)]) /\ k \in 0 .. Len(wire[Peer(r)]) /\ k \in Nat \ {0}
         /\ wire' = [wire EXCEPT ![Peer(r)] = SubSeq(wire[Peer(r)], k + 1, Len(wire[Peer(r)]))]
         /\ SubSeq(wire[Peer(r)], k + 1, Len(wire[Peer(r)])) \in Seq(Byte)
         /\ state[r] \notin Early /\ state[r] \notin Ended /\ state[Peer(r)] \notin Early
         /\ wire[Peer(r)][k] \in Byte
<1> DEFINE p == Peer(r)
<1>0. p \in Ranks /\ p # r /\ QuietAt(p)
  BY InvHas
<1>1. wire[p] \in Seq(Byte) /\ readOp[r] \in ReadOps
  BY <1>0, ValuesHave
<1>2. /\ handle[r] = "open" /\ k <= Len(wire[p])
      /\ wire' = [wire EXCEPT ![p] = SubSeq(wire[p], k + 1, Len(wire[p]))]
      /\ UNCHANGED <<state, errno, connect, parked, handle, stack, requests>>
  BY Zenon DEF Read, connecting
<1>3. k \in Nat \ {0}
  BY <1>1 DEF ReadOps
<1>4. k \in 1 .. Len(wire[p]) /\ k \in 0 .. Len(wire[p])
  BY <1>1, <1>2, <1>3
<1>5. wire[p][k] \in Byte
  BY <1>1, <1>4, ElementOfSeq
<1>6. SubSeq(wire[p], k + 1, Len(wire[p])) \in Seq(Byte)
  BY <1>1, <1>4, DropType, Zenon
<1>7. state[p] \notin Early
  BY <1>0, <1>4 DEF QuietAt, Quiet
<1>8. state[r] \notin Early /\ state[r] \notin Ended
  BY <1>2, OpenState
<1> QED
  BY <1>2, <1>3, <1>4, <1>5, <1>6, <1>7, <1>8

(* The peer's direction, once k bytes of it are read.                      *)
LEMMA PeersData ==
  ASSUME UvInv, NEW r \in Ranks, NEW w, wire' = [wire EXCEPT ![Peer(r)] = w],
         UNCHANGED <<errno, handle, requests>>, Functions(Peer(r))' = Functions(Peer(r)),
         writeOps'[Peer(r)] = writeOps[Peer(r)],
         Data(requests[Peer(r)], Functions(Peer(r)), writeOps[Peer(r)], w, channel'[Peer(r)][r],
              readOp'[r], Flowing(Peer(r)))
  PROVE  DataAt(Peer(r))' /\ wire'[r] = wire[r]
<1> DEFINE p == Peer(r)
<1>1. p \in Ranks /\ p # r /\ Peer(p) = r /\ ReadTypes
  BY InvHas
<1>2. Flowing(p)' = Flowing(p)
  BY DEF Flowing
<1>3. wire'[p] = w /\ wire'[r] = wire[r]
  BY <1>1 DEF ReadTypes
<1> QED
  BY <1>1, <1>2, <1>3 DEF DataAt

LEMMA NewReadOp ==
  ASSUME UvInv, NEW r \in Ranks, NEW rd \in ReadOps, readOp' = [readOp EXCEPT ![r] = rd],
         NEW w \in Seq(Byte), wire' = [wire EXCEPT ![Peer(r)] = w]
  PROVE  ReadTypes' /\ readOp'[r] = rd /\ readOp'[Peer(r)] = readOp[Peer(r)]
<1>1. ReadTypes /\ Peer(r) \in Ranks /\ Peer(r) # r
  BY InvHas
<1> QED
  BY <1>1 DEF ReadTypes

(* Nothing is handled: a part of a preamble or a payload was read, or all  *)
(* of a payload.                                                           *)
LEMMA ReadOn ==
  ASSUME UvInv, NEW r \in Ranks, NEW k \in 1 .. readOp[r].left, Read(r, k),
         NEW rd \in ReadOps, readOp' = [readOp EXCEPT ![r] = rd],
         Skipped(rd) = k + Skipped(readOp[r]), UNCHANGED <<protocol, deferred, writeOps, posted>>
  PROVE  UvInv'
<1> DEFINE p == Peer(r)
           w == SubSeq(wire[p], k + 1, Len(wire[p]))
<1>0. /\ LoopTypes /\ WriteTypes /\ p \in Ranks /\ Peer(p) = r /\ p # r /\ LinkAt(r) /\ DataAt(r)
      /\ DataAt(p)
  BY InvHas
<1>1. /\ Functions(p) \in Seq(Function) /\ writeOps[p] \in Seq(Operation)
      /\ requests[p] \in Seq(Request) /\ wire[p] \in Seq(Byte) /\ readOp[r] \in ReadOps
      /\ channel[p][r] \in Seq(M!Message)
  BY <1>0, ValuesHave
<1>2. /\ UNCHANGED <<state, errno, connect, parked, handle, stack, requests>>
      /\ k \in 0 .. Len(wire[p])
      /\ wire' = [wire EXCEPT ![p] = w] /\ w \in Seq(Byte)
      /\ state[r] \notin Early /\ state[r] \notin Ended /\ state[p] \notin Early
  BY ReadBasics
<1>3. P!IInv' /\ channel' = channel
  BY ProtocolStays
<1>4. ReadTypes' /\ readOp'[r] = rd /\ readOp'[p] = readOp[p]
  BY <1>2, NewReadOp, Zenon
<1>5. LoopTypes' /\ \A q \in Ranks : Functions(q)' = Functions(q)
  BY <1>0, <1>2, FunctionsSame
<1>6. Data(requests[p], Functions(p), writeOps[p], w, channel[p][r], rd, Flowing(p))
  <2>1. Data(requests[p], Functions(p), writeOps[p], wire[p], channel[p][r], readOp[r], Flowing(p))
    BY <1>0 DEF DataAt
  <2> QED
    BY <1>1, <1>2, <2>1, DataRead, Zenon
<1> HIDE DEF w
<1>7. DataAt(p)' /\ wire'[r] = wire[r]
  BY <1>0, <1>2, <1>3, <1>4, <1>5, <1>6, PeersData
<1>8. Flowing(r)' = Flowing(r)
  BY <1>2 DEF Flowing
<1>9. DataAt(r)'
  BY <1>0, <1>2, <1>3, <1>4, <1>5, <1>7, <1>8 DEF DataAt
<1>10. LinkAt(r)'
  BY <1>0, <1>2, <1>5 DEF LinkAt
<1>11. WriteTypes'
  BY <1>0, <1>2 DEF WriteTypes
<1> QED
  BY <1>0, <1>2, <1>3, <1>4, <1>5, <1>7, <1>9, <1>10, <1>11, ReaderStep

(* The head of the channel has the opcode and the slot that were read, and *)
(* so the length.                                                          *)
LEMMA ArrivesLength ==
  ASSUME NEW i, NEW j, NEW msg, M!Arrives(i, j, msg.opcode, msg.slot)
  PROVE  Length(Head(channel[i][j])) = Length(msg)
BY DEF M!Arrives, Length

LEMMA HandleArrives ==
  ASSUME NEW i, NEW j, NEW s
  PROVE  /\ M!HandleRemotePendingSend(i, j, s) => M!Arrives(i, j, "NOTIFY_SEND_READY", s)
         /\ M!HandleRemotePendingRecv(i, j, s) => M!Arrives(i, j, "NOTIFY_RECV_READY", s)
         /\ M!ReceivePayload(i, j, s) => M!Arrives(i, j, "SEND_UNBOUND_BUFFER", s)
BY DEF M!HandleRemotePendingSend, M!HandleRemotePendingRecv, M!ReceivePayload

(* A preamble is complete: its message is handled, and r may write.        *)
LEMMA ReadHandles ==
  ASSUME UvInv, NEW r \in Ranks, NEW k \in 1 .. readOp[r].left, Read(r, k),
         k = readOp[r].left, readOp[r].stage = "preamble",
         NEW s \in Slots, M!Handle(Peer(r), r, s),
         NEW new, Handles(channel, channel', r, new),
         NEW rd \in ReadOps, readOp' = [readOp EXCEPT ![r] = rd],
         Skipped(rd) = -Length(Head(channel[Peer(r)][r])),
         \/ WriteOp(r)
         \/ new = <<>> /\ UNCHANGED <<deferred, writeOps, posted>>
  PROVE  UvInv'
<1> DEFINE p == Peer(r)
           w == SubSeq(wire[p], k + 1, Len(wire[p]))
<1>0. /\ P!IInv /\ LoopTypes /\ WriteTypes /\ p \in Ranks /\ Peer(p) = r /\ p # r /\ LinkAt(r)
      /\ DataAt(r) /\ DataAt(p)
  BY InvHas
<1>1. /\ Functions(p) \in Seq(Function) /\ writeOps[p] \in Seq(Operation)
      /\ requests[p] \in Seq(Request) /\ wire[p] \in Seq(Byte) /\ readOp[r] \in ReadOps
      /\ channel[p][r] \in Seq(M!Message) /\ channel[r][p] \in Seq(M!Message)
  BY <1>0, ValuesHave
<1>2. /\ UNCHANGED <<state, errno, connect, parked, handle, stack, requests>>
      /\ k \in 0 .. Len(wire[p])
      /\ wire' = [wire EXCEPT ![p] = w] /\ w \in Seq(Byte)
      /\ state[r] \notin Early /\ state[r] \notin Ended /\ state[p] \notin Early
  BY ReadBasics
<1>3. P!IInv'
  BY <1>0, HandleProtocol, StepsRight
<1>4. /\ new \in Seq(M!Message) /\ channel[p][r] # <<>> /\ channel'[p][r] = Tail(channel[p][r])
      /\ channel'[r][p] = channel[r][p] \o new
  BY Zenon DEF Handles
<1>5. k + Skipped(readOp[r]) = Preamble
  BY <1>1, LengthsAssumption DEF Skipped, ReadOps
<1>6. ReadTypes' /\ readOp'[r] = rd /\ readOp'[p] = readOp[p]
  BY <1>2, NewReadOp, Zenon
<1>7. wire'[r] = wire[r]
  <2>1. ReadTypes
    BY InvHas
  <2> QED
    BY <1>0, <1>2, <2>1 DEF ReadTypes
<1>8. Data(requests[p], Functions(p), writeOps[p], w, Tail(channel[p][r]), rd, Flowing(p))
  <2>1. Data(requests[p], Functions(p), writeOps[p], wire[p], channel[p][r], readOp[r], Flowing(p))
    BY <1>0 DEF DataAt
  <2> QED
    BY <1>1, <1>2, <1>4, <1>5, <2>1, DataHandle, Zenon
<1> HIDE DEF w
<1>9. /\ LoopTypes' /\ WriteTypes' /\ LinkAt(r)' /\ DataAt(r)'
      /\ Functions(p)' = Functions(p) /\ writeOps'[p] = writeOps[p]
  <2>1. ASSUME WriteOp(r)
        PROVE  /\ LoopTypes' /\ WriteTypes' /\ LinkAt(r)' /\ DataAt(r)'
               /\ Functions(p)' = Functions(p) /\ writeOps'[p] = writeOps[p]
    BY <2>1, <1>2, <1>4, <1>6, <1>7, WriteOpEffect
  <2>2. ASSUME new = <<>>, UNCHANGED <<deferred, writeOps, posted>>
        PROVE  /\ LoopTypes' /\ WriteTypes' /\ LinkAt(r)' /\ DataAt(r)'
               /\ Functions(p)' = Functions(p) /\ writeOps'[p] = writeOps[p]
    <3>1. LoopTypes' /\ \A q \in Ranks : Functions(q)' = Functions(q)
      BY <1>0, <1>2, <2>2, FunctionsSame
    <3>2. channel'[r][p] = channel[r][p]
      BY <1>1, <1>4, <2>2
    <3>3. Flowing(r)' = Flowing(r)
      BY <1>2 DEF Flowing
    <3>4. DataAt(r)'
      BY <1>0, <1>2, <1>6, <1>7, <2>2, <3>1, <3>2, <3>3 DEF DataAt
    <3>5. LinkAt(r)' /\ WriteTypes'
      BY <1>0, <1>2, <2>2, <3>1 DEF LinkAt, WriteTypes
    <3> QED
      BY <1>0, <2>2, <3>1, <3>4, <3>5
  <2> QED
    BY <2>1, <2>2, Zenon
<1>10. DataAt(p)'
  BY <1>2, <1>4, <1>6, <1>8, <1>9, PeersData
<1> QED
  BY <1>0, <1>2, <1>3, <1>6, <1>9, <1>10, ReaderStep

LEMMA StepOnReadPreamble ==
  ASSUME UvInv, NEW r \in Ranks, NEW k \in 1 .. readOp[r].left, Read(r, k),
         k = readOp[r].left, readOp[r].stage = "preamble", NEW msg \in M!Message,
         OnReadPreamble(r, msg)
  PROVE  UvInv' /\ P!Next
<1> DEFINE p == Peer(r)
           s == msg.slot
<1>0. M!TypeOK /\ channel \in Channels /\ p \in Ranks
  BY InvHas
<1>1. s \in Slots
  BY DEF M!Message
<1>2. NewRead \in ReadOps /\ Skipped(NewRead) = 0
  <2>1. readOp[r] \in ReadOps
    BY ValuesHave
  <2> QED
    BY <2>1, SkippedType
<1>3. ASSUME \/ msg.opcode = "NOTIFY_SEND_READY" /\ M!HandleRemotePendingSend(p, r, s)
             \/ msg.opcode = "NOTIFY_RECV_READY" /\ M!HandleRemotePendingRecv(p, r, s),
             WriteOp(r), readOp' = [readOp EXCEPT ![r] = NewRead]
      PROVE  UvInv' /\ P!Next
  <2>1. M!Handle(p, r, s)
    BY <1>3, Zenon DEF M!Handle
  <2>2. PICK new : Handles(channel, channel', r, new)
    BY <1>0, <1>1, <2>1, HandleEffect, Zenon
  <2>3. M!Arrives(p, r, msg.opcode, s) /\ msg.opcode # "SEND_UNBOUND_BUFFER"
    BY <1>3, HandleArrives
  <2>4. Length(Head(channel[p][r])) = 0
    <3>1. Length(Head(channel[p][r])) = Length(msg)
      BY <2>3, ArrivesLength, Zenon
    <3> QED
      BY <2>3, <3>1 DEF Length
  <2>5. Skipped(NewRead) = -Length(Head(channel[p][r]))
    BY <1>2, <2>4
  <2>6. UvInv'
    BY <1>1, <1>2, <1>3, <2>1, <2>2, <2>5, ReadHandles, Zenon
  <2> QED
    BY <1>1, <2>1, <2>6, HandleProtocol, Zenon
<1>4. ASSUME msg.opcode = "SEND_UNBOUND_BUFFER", M!ReceivePayload(p, r, s), AwaitPayload(r, msg),
             UNCHANGED <<writeOps, posted, deferred>>
      PROVE  UvInv' /\ P!Next
  <2>1. M!Handle(p, r, s)
    BY <1>4, Zenon DEF M!Handle
  <2>2. Handles(channel, channel', r, <<>>)
    BY <1>0, <1>1, <1>4, <2>1, HandleEffect, Zenon
  <2>3. M!Arrives(p, r, msg.opcode, s)
    BY <1>4, HandleArrives
  <2>4. Length(Head(channel[p][r])) = Length(msg) /\ Length(msg) \in Nat
    <3>1. Length(Head(channel[p][r])) = Length(msg)
      BY <2>3, ArrivesLength, Zenon
    <3> QED
      BY <1>1, <1>4, <3>1, LengthsAssumption DEF Length
  <2>5. PICK rd \in ReadOps : /\ readOp' = [readOp EXCEPT ![r] = rd]
                              /\ Skipped(rd) = -Length(Head(channel[p][r]))
    <3>1. CASE Length(msg) > 0 /\ readOp' = [readOp EXCEPT ![r] = [stage |-> "payload", left |-> Length(msg)]]
      <4> DEFINE rd == [stage |-> "payload", left |-> Length(msg)]
      <4>1. rd \in ReadOps /\ Skipped(rd) = -Length(msg)
        BY <2>4, <3>1 DEF ReadOps, Skipped
      <4> HIDE DEF rd
      <4>2. readOp' = [readOp EXCEPT ![r] = rd]
        BY <3>1 DEF rd
      <4> QED
        BY <2>4, <4>1, <4>2
    <3>2. CASE Length(msg) = 0 /\ readOp' = [readOp EXCEPT ![r] = NewRead]
      <4>1. Skipped(NewRead) = -Length(Head(channel[p][r]))
        BY <1>2, <2>4, <3>2
      <4> QED
        BY <1>2, <3>2, <4>1
    <3> QED
      BY <1>4, <3>1, <3>2 DEF AwaitPayload
  <2>6. UNCHANGED <<deferred, writeOps, posted>>
    BY <1>4
  <2>7. UvInv'
    BY <1>1, <2>1, <2>2, <2>5, <2>6, ReadHandles, Zenon
  <2> QED
    BY <1>1, <2>1, <2>7, HandleProtocol, Zenon
<1> QED
  BY <1>3, <1>4, Zenon DEF OnReadPreamble

LEMMA StepRead ==
  ASSUME UvInv, NEW r \in Ranks, NEW k \in 1 .. readOp[r].left, Read(r, k)
  PROVE  UvInv' /\ (UNCHANGED protocol \/ P!Next)
<1> DEFINE p == Peer(r)
           rd == readOp[r]
<1>1. rd \in ReadOps /\ NewRead \in ReadOps /\ Skipped(NewRead) = 0 /\ k \in Nat \ {0}
  BY ValuesHave, SkippedType, ReadBasics
<1>2. wire[p][k][1] \in M!Message
  BY ReadBasics DEF Byte
<1>3. ASSUME k < rd.left, readOp' = [readOp EXCEPT ![r].left = @ - k],
             UNCHANGED <<protocol, deferred, writeOps, posted>>
      PROVE  UvInv'
  <2> DEFINE rd2 == [rd EXCEPT !.left = rd.left - k]
  <2>1. rd2 \in ReadOps /\ Skipped(rd2) = k + Skipped(rd)
    BY <1>1, <1>3, LengthsAssumption DEF ReadOps, Skipped
  <2>2. readOp' = [readOp EXCEPT ![r] = rd2]
    BY <1>3, Zenon
  <2> HIDE DEF rd2
  <2> QED
    BY <1>3, <2>1, <2>2, ReadOn
<1>4. ASSUME k = rd.left, rd.stage = "payload", OnReadPayload(r)
      PROVE  UvInv' /\ UNCHANGED protocol
  <2>1. /\ readOp' = [readOp EXCEPT ![r] = NewRead]
        /\ UNCHANGED <<protocol, deferred, writeOps, posted>>
    BY <1>4 DEF OnReadPayload
  <2>2. Skipped(NewRead) = k + Skipped(rd)
    BY <1>1, <1>4 DEF Skipped, ReadOps
  <2>3. UvInv'
    BY <1>1, <2>1, <2>2, ReadOn
  <2> QED
    BY <2>1, <2>3
<1>5. ASSUME k = rd.left, rd.stage = "preamble", OnReadPreamble(r, wire[p][k][1])
      PROVE  UvInv' /\ P!Next
  BY <1>2, <1>5, StepOnReadPreamble, Zenon
<1> QED
  BY <1>3, <1>4, <1>5, Zenon DEF Read

-----------------------------------------------------------------------------
(* The invariant is inductive.                                             *)
LEMMA InitUv == Init => UvInv
<1> SUFFICES ASSUME Init PROVE UvInv
  OBVIOUS
<1>1. M!Init /\ P!IInv
  BY StartsRight DEF Init
<1>2. ControlTypes
  BY DEF Init, ControlTypes, States
<1>3. LoopTypes /\ \A q \in Ranks : Functions(q) = <<>>
  <2>1. deferred = [r \in Ranks |-> <<>>] /\ stack = [r \in Ranks |-> <<>>]
    BY Zenon DEF Init
  <2>2. <<>> \in Seq(Function) /\ <<>> \o <<>> = <<>>
    OBVIOUS
  <2> QED
    BY <2>1, <2>2 DEF LoopTypes, Functions
<1>4. WriteTypes
  <2>1. /\ posted = [r \in Ranks |-> 0] /\ writeOps = [r \in Ranks |-> <<>>]
        /\ requests = [r \in Ranks |-> <<>>]
    BY Zenon DEF Init
  <2>2. <<>> \in Seq(Operation) /\ <<>> \in Seq(Request)
    OBVIOUS
  <2> QED
    BY <2>1, <2>2 DEF WriteTypes
<1>5. NewRead \in ReadOps
  BY LengthsAssumption DEF NewRead, ReadOps
<1>6. ReadTypes
  <2>1. wire = [r \in Ranks |-> <<>>] /\ readOp = [r \in Ranks |-> NewRead]
    BY Zenon DEF Init
  <2>2. <<>> \in Seq(Byte)
    OBVIOUS
  <2> QED
    BY <1>5, <2>1, <2>2 DEF ReadTypes
<1>7. ASSUME NEW q \in Ranks PROVE RankInv(q)
  <2>1. Peer(q) \in Ranks /\ Role(q) \in Roles
    BY PeerIs, FnTypes
  <2>2. /\ state[q] = "INITIALIZED" /\ handle[q] = "none" /\ handle[Peer(q)] = "none"
        /\ parked[q] = "none" /\ connect[q] = "not called"
    BY <2>1 DEF Init
  <2>3. /\ requests[q] = <<>> /\ writeOps[q] = <<>> /\ wire[q] = <<>>
        /\ readOp[q] = NewRead /\ readOp[Peer(q)] = NewRead
    BY <2>1 DEF Init
  <2>4. channel[q][Peer(q)] = <<>>
    BY <1>1, <2>1 DEF M!Init
  <2>5. LinkAt(q)
    BY <1>3, <2>1, <2>2 DEF LinkAt, Link, HandleOK, ParkedOK, ConnectOK, FunctionsOK, Waiting, Early,
       Ended, Roles
  <2>6. PeersAt(q)
    BY <2>2 DEF PeersAt, PeersOK
  <2>7. QuietAt(q)
    BY <2>2, <2>3, <2>4 DEF QuietAt, Quiet
  <2>8. DataAt(q)
    BY <1>3, <2>3, <2>4, DataNone, Zenon DEF DataAt
  <2> QED
    BY <2>5, <2>6, <2>7, <2>8 DEF RankInv
<1> QED
  BY <1>1, <1>2, <1>3, <1>4, <1>6, <1>7 DEF UvInv, Types

(* A step of the application that posts.                                   *)
PostStep(r) ==
  \/ \E s \in Slots : Send(r, s) \/ RecvFrom(r, s) \/ RecvFromAny(r, s)
  \/ CallAnyStep(r)

(* A step that leaves the protocol alone.                                  *)
OtherStep(r) ==
  \/ Connect(r) \/ ConnectReturns(r) \/ Connecting(r) \/ TakeDeferred(r) \/ RunWrite(r)
  \/ RunClose(r) \/ OnWrite(r) \/ OnClose(r) \/ OnEnd(r) \/ Transmit(r) \/ OnError(r)
  \/ \E error \in {"ECONNREFUSED", "ETIMEDOUT"} : OnConnectError(r, error)
  \/ Close(r) \/ DestroyReturns(r)

LEMMA NextCases ==
  ASSUME Next
  PROVE  \E r \in Ranks : PostStep(r) \/ ReadSome(r) \/ OtherStep(r)
BY Zenon DEF Next, LoopStep, PostStep, OtherStep

LEMMA PostsAre ==
  ASSUME NEW r \in Ranks, PostStep(r)
  PROVE  /\ Posts(r)
         /\ \/ \E s \in Slots : \/ M!Send(r, Peer(r), s) \/ M!RecvFrom(r, Peer(r), s)
                                \/ M!RecvFromAny(r, s, {Peer(r)})
            \/ \E n \in 1 .. MaxRecvs[r] : M!CallStep(r, n)
BY Zenon DEF PostStep, Send, RecvFrom, RecvFromAny, CallAnyStep, CallStep

LEMMA OthersLeaveProtocol ==
  ASSUME NEW r \in Ranks, OtherStep(r)
  PROVE  UNCHANGED protocol
<1>1. Connecting(r) => UNCHANGED protocol
  BY Zenon DEF Connecting, ConnectAsListener, ConnectAsInitiator, OnConnect, OnSequenceWritten,
     OnSequenceRead, OnAcceptedEnd
<1>2. Transmit(r) => UNCHANGED protocol
  BY Zenon DEF Transmit
<1>3. ASSUME NEW error, OnConnectError(r, error) PROVE UNCHANGED protocol
  BY <1>3, Zenon DEF OnConnectError
<1> QED
  BY <1>1, <1>2, <1>3, Zenon DEF OtherStep, Connect, ConnectReturns, TakeDeferred, RunWrite, RunClose,
     OnWrite, OnClose, OnEnd, OnError, Close, DestroyReturns

LEMMA OthersKeepInvariant ==
  ASSUME UvInv, NEW r \in Ranks, OtherStep(r)
  PROVE  UvInv'
<1>1. ASSUME Connecting(r) PROVE UvInv'
  BY <1>1, StepConnectAsListener, StepConnectAsInitiator, StepOnConnect, StepOnSequenceWritten,
     StepOnSequenceRead, StepOnAcceptedEnd, Zenon DEF Connecting
<1>2. ASSUME NEW error \in {"ECONNREFUSED", "ETIMEDOUT"}, OnConnectError(r, error) PROVE UvInv'
  BY <1>2, StepOnConnectError, Zenon
<1> QED
  BY <1>1, <1>2, StepConnect, StepConnectReturns, StepTakeDeferred, StepRunWrite, StepRunClose,
     StepOnWrite, StepOnClose, StepOnEnd, StepTransmit, StepOnError, StepClose, StepDestroyReturns,
     Zenon DEF OtherStep

LEMMA StutterUv ==
  ASSUME UvInv, UNCHANGED vars
  PROVE  UvInv' /\ UNCHANGED protocol
<1>1. /\ UNCHANGED <<protocol, state, errno, connect, parked, handle>>
      /\ UNCHANGED <<deferred, stack, writeOps, posted, requests, wire, readOp>>
  BY Zenon DEF vars, connecting, loop, stream, writes
<1>2. P!IInv' /\ channel' = channel
  BY <1>1, ProtocolStays
<1>3. Types'
  BY <1>1 DEF UvInv, Types, ControlTypes, LoopTypes, WriteTypes, ReadTypes
<1>4. ASSUME NEW q \in Ranks PROVE RankInv(q)'
  <2>1. LinkAt(q) /\ PeersAt(q) /\ QuietAt(q) /\ DataAt(q)
    BY InvHas
  <2>2. Functions(q)' = Functions(q) /\ Flowing(q)' = Flowing(q)
    BY <1>1 DEF Functions, Flowing
  <2>3. LinkAt(q)' /\ PeersAt(q)' /\ QuietAt(q)'
    BY <1>1, <1>2, <2>1, <2>2 DEF LinkAt, PeersAt, QuietAt
  <2>4. DataAt(q)'
    BY <1>1, <1>2, <2>1, <2>2 DEF DataAt
  <2> QED
    BY <2>3, <2>4 DEF RankInv
<1> QED
  BY <1>1, <1>2, <1>3, <1>4 DEF UvInv

LEMMA NextUv ==
  ASSUME UvInv, [Next]_vars
  PROVE  UvInv' /\ [P!Next]_P!vars
<1>1. ASSUME UNCHANGED vars PROVE UvInv' /\ UNCHANGED protocol
  BY <1>1, StutterUv
<1>2. ASSUME NEW r \in Ranks, PostStep(r) PROVE UvInv' /\ P!Next
  BY <1>2, PostsAre, StepPost, PostsProtocol, Zenon
<1>3. ASSUME NEW r \in Ranks, ReadSome(r) PROVE UvInv' /\ (UNCHANGED protocol \/ P!Next)
  BY <1>3, StepRead, Zenon DEF ReadSome
<1>4. ASSUME NEW r \in Ranks, OtherStep(r) PROVE UvInv' /\ UNCHANGED protocol
  BY <1>4, OthersLeaveProtocol, OthersKeepInvariant, Zenon
<1>5. UvInv' /\ (UNCHANGED protocol \/ P!Next)
  BY <1>1, <1>2, <1>3, <1>4, NextCases, Zenon
<1> QED
  BY <1>5, SameVars, Zenon

-----------------------------------------------------------------------------
(* What the invariant says.                                                *)
LEMMA StreamMeaning == UvInv => StreamAgrees
<1> SUFFICES ASSUME UvInv PROVE StreamAgrees
  OBVIOUS
<1>1. TypeOK
  <2>1. M!TypeOK /\ ControlTypes /\ WriteTypes /\ ReadTypes
    BY ProtocolTypes DEF UvInv, Types
  <2> QED
    BY <2>1, Zenon DEF TypeOK, ControlTypes, WriteTypes, ReadTypes, States, ReadOps
<1>2. ASSUME NEW r \in Ranks
      PROVE  LET msgs == channel[r][Peer(r)]
                 skipped == Skipped(readOp[Peer(r)])
                 out == Outgoing(wire[r], requests[r], Functions(r))
             IN  /\ Continue(wire[r], msgs, skipped)
                 /\ Flowing(r) => /\ Continue(out, msgs, skipped)
                                  /\ Len(out) + skipped = Len(MessageBytes(msgs))
  <2> DEFINE msgs == channel[r][Peer(r)]
             skipped == Skipped(readOp[Peer(r)])
             rest == Rest(requests[r], Functions(r))
  <2>1. /\ Functions(r) \in Seq(Function) /\ requests[r] \in Seq(Request)
        /\ wire[r] \in Seq(Byte)
    BY ValuesHave
  <2>2. DoneFirst(requests[r]) /\ Stream(wire[r], rest, MessageBytes(msgs), skipped, Flowing(r))
    BY InvHas DEF DataAt, Data
  <2>3. rest \in Seq(Byte)
    BY <2>1, <2>2, RestType
  <2>4. Outgoing(wire[r], requests[r], Functions(r)) = wire[r] \o rest
    BY OutgoingIs, Zenon
  <2> HIDE DEF msgs, skipped, rest
  <2>5. wire[r] \o rest \in Seq(Byte)
    BY <2>1, <2>3, ConcatProperties
  <2>6. Continue(wire[r], msgs, skipped)
    BY <2>1, <2>2, ContinueIs DEF Stream
  <2>7. Flowing(r) => /\ Continue(wire[r] \o rest, msgs, skipped)
                      /\ Len(wire[r] \o rest) + skipped = Len(MessageBytes(msgs))
    BY <2>2, <2>5, ContinueIs DEF Stream
  <2> QED
    BY <2>4, <2>6, <2>7 DEF msgs, skipped
<1> QED
  BY <1>1, <1>2, Zenon DEF StreamAgrees

LEMMA EventsMeaning == UvInv => EventsMatchOps
<1> SUFFICES ASSUME UvInv, NEW r \in Ranks
             PROVE  /\ IsPrefix(RequestParts(SubSeq(requests[r], 1, Done(requests[r]))),
                                Awaited(writeOps[r]))
                    /\ Flowing(r) => RequestParts(requests[r]) \o FunctionParts(Functions(r))
                                       = Awaited(writeOps[r])
  BY Zenon DEF EventsMatchOps
<1>1. requests[r] \in Seq(Request) /\ writeOps[r] \in Seq(Operation)
  BY ValuesHave
<1>2. /\ DoneFirst(requests[r])
      /\ Events(RequestParts(requests[r]), Done(requests[r]), FunctionParts(Functions(r)),
                Awaited(writeOps[r]), Flowing(r))
  BY InvHas DEF DataAt, Data
<1>3. Awaited(writeOps[r]) \in Seq(Part)
  BY <1>1, AwaitedType
<1>4. IsPrefix(RequestParts(SubSeq(requests[r], 1, Done(requests[r]))), Awaited(writeOps[r]))
  BY <1>1, <1>2, <1>3, EventsIs, Zenon DEF Events
<1>5. Flowing(r) => RequestParts(requests[r]) \o FunctionParts(Functions(r)) = Awaited(writeOps[r])
  BY <1>2, Zenon DEF Events
<1> QED
  BY <1>4, <1>5

LEMMA DestroyMeaning == UvInv => NoUseAfterDestroy
<1> SUFFICES ASSUME UvInv, NEW r \in Ranks, state[r] = "destroyed"
             PROVE  /\ handle[r] \notin {"open", "closing"}
                    /\ requests[r] = <<>>
                    /\ \A k \in DOMAIN Functions(r) :
                         Functions(r)[k].fn = "write" /\ Functions(r)[k].op.late
  BY Zenon DEF NoUseAfterDestroy
<1>1. /\ Link(Role(r), state[r], handle[r], parked[r], connect[r], Functions(r))
      /\ Role(r) \in Roles /\ Functions(r) \in Seq(Function) /\ state[r] \in States
  BY InvHas, ValuesHave DEF LinkAt
<1>2. requests[r] = <<>>
  BY InvHas DEF QuietAt, Quiet, Ended
<1>3. handle[r] \notin {"open", "closing"}
  BY <1>1, LinkMeans
<1>4. AllLate(Functions(r))
  BY <1>1 DEF Link, FunctionsOK, Ended
<1>5. DOMAIN Functions(r) = 1 .. Len(Functions(r))
  BY <1>1
<1> QED
  BY <1>2, <1>3, <1>4, <1>5, Zenon DEF AllLate

LEMMA Counts ==
  ASSUME NEW T, NEW q \in Seq(T), NEW S
  PROVE  /\ P!Occurrences(q, S) \in Nat
         /\ q # <<>> => /\ P!Occurrences(Tail(q), S) \in Nat
                        /\ P!Occurrences(Tail(q), S) =
                             P!Occurrences(q, S) - (IF Head(q) \in S THEN 1 ELSE 0)
<1>1. ASSUME NEW t \in Seq(T) PROVE P!Occurrences(t, S) \in Nat
  BY <1>1, P!OccurrencesType, ProtocolAssumptions, Zenon DEF P!RanksAssumption, P!BoundsAssumption
<1>2. ASSUME q # <<>>
      PROVE  /\ Tail(q) \in Seq(T)
             /\ P!Occurrences(Tail(q), S) =
                  P!Occurrences(q, S) - (IF Head(q) \in S THEN 1 ELSE 0)
  BY <1>2, P!OccurrencesTail, ProtocolAssumptions, Zenon DEF P!RanksAssumption, P!BoundsAssumption
<1> QED
  BY <1>1, <1>2, Zenon

(* A payload at the head of a channel has a receive to go to.              *)
LEMMA PayloadHasRecv ==
  ASSUME P!IInv, NEW i \in Ranks, NEW j \in Ranks, NEW s \in Slots, channel[i][j] # <<>>,
         Head(channel[i][j]) \in P!Payloads(s)
  PROVE  localPendingRecv[j][i][s] # <<>>
<1>1. P!RecvsAccounted /\ P!TypeOK
  BY P!BalancedMeaning, P!TypeMeaning, ProtocolAssumptions, Zenon
     DEF P!IInv, P!RanksAssumption, P!BoundsAssumption
<1>2. /\ channel[i][j] \in Seq(P!Message) /\ channel[j][i] \in Seq(P!Message)
      /\ recvList[i][s] \in Seq(Ranks)
  BY <1>1 DEF P!TypeOK
<1>3. /\ P!Occurrences(channel[i][j], P!Payloads(s)) \in Nat
      /\ P!Occurrences(channel[j][i], P!RecvNotices(s)) \in Nat
      /\ P!Occurrences(recvList[i][s], {j}) \in Nat
  BY <1>2, Counts, Zenon
<1>4. P!Occurrences(channel[i][j], P!Payloads(s)) > 0
  <2>1. /\ P!Occurrences(Tail(channel[i][j]), P!Payloads(s)) \in Nat
        /\ P!Occurrences(Tail(channel[i][j]), P!Payloads(s))
             = P!Occurrences(channel[i][j], P!Payloads(s)) - 1
    BY <1>2, Counts
  <2> QED
    BY <1>3, <2>1
<1>5. P!CommittedRecvs(i, j, s) =
        P!RecvNoticesInFlight(i, j, s) + P!KnownRecvs(i, j, s) + P!PayloadsInFlight(i, j, s)
  BY <1>1 DEF P!RecvsAccounted
<1>6. Len(localPendingRecv[j][i][s]) > 0
  BY <1>3, <1>4, <1>5 DEF P!CommittedRecvs, P!RecvNoticesInFlight, P!KnownRecvs, P!PayloadsInFlight
<1> QED
  BY <1>6

LEMMA ReadsMeaning == UvInv => ReadsNextMessage
<1> SUFFICES ASSUME UvInv, NEW r \in Ranks,
                    readOp[r].stage = "preamble", readOp[r].left <= Len(wire[Peer(r)])
             PROVE  LET p == Peer(r)
                        k == readOp[r].left
                        msg == wire[p][k][1]
                    IN  /\ wire[p][k][2] = "preamble"
                        /\ channel[p][r] # <<>>
                        /\ msg = Head(channel[p][r])
                        /\ msg.opcode = "SEND_UNBOUND_BUFFER" =>
                             localPendingRecv[r][p][msg.slot] # <<>>
  BY Zenon DEF ReadsNextMessage
<1> DEFINE p == Peer(r)
           k == readOp[r].left
           msgs == channel[p][r]
           h == Bytes(Head(msgs), "preamble")
           y == Bytes(Head(msgs), "payload")
           u == MessageBytes(Tail(msgs))
<1>1. P!IInv /\ p \in Ranks /\ Peer(p) = r /\ DataAt(p)
  BY InvHas
<1>2. wire[p] \in Seq(Byte) /\ msgs \in Seq(M!Message) /\ readOp[r] \in ReadOps
  BY <1>1, ValuesHave
<1>3. k \in 1 .. Len(wire[p]) /\ k + Skipped(readOp[r]) = Preamble
  BY <1>2, LengthsAssumption DEF ReadOps, Skipped
<1>4. Follows(wire[p], MessageBytes(msgs), Skipped(readOp[r]))
  BY <1>1 DEF DataAt, Data, Stream
<1> HIDE DEF k
<1>5. Preamble <= Len(MessageBytes(msgs)) /\ wire[p][k] = MessageBytes(msgs)[Preamble]
  BY <1>3, <1>4, LengthsAssumption DEF Follows
<1>6. msgs # <<>>
  <2>1. ASSUME msgs = <<>> PROVE Len(MessageBytes(msgs)) = 0
    BY <2>1, MessageBytesEmpty
  <2> QED
    BY <1>5, <2>1, LengthsAssumption
<1>7. Head(msgs) \in M!Message /\ Tail(msgs) \in Seq(M!Message)
  BY <1>2, <1>6
<1>8. u \in Seq(Byte)
  BY <1>7, MessageBytesType
<1>9. /\ h \in Seq(Byte) /\ Len(h) = Preamble /\ y \in Seq(Byte)
      /\ \A l \in 1 .. Len(h) : h[l] = <<Head(msgs), "preamble">>
  BY <1>7, BytesType DEF Kinds
<1>10. MessageBytes(msgs) = (h \o y) \o u
  BY <1>2, <1>6, MessageBytesTail
<1> HIDE DEF h, y, u, msgs
<1>11. h \o y \in Seq(Byte) /\ Preamble \in 1 .. Len(h) /\ Preamble \in 1 .. Len(h \o y)
       /\ (h \o y)[Preamble] = h[Preamble]
  BY <1>9, LengthsAssumption, ConcatProperties
<1>12. ((h \o y) \o u)[Preamble] = (h \o y)[Preamble]
  BY <1>8, <1>11, ConcatProperties
<1>13. wire[p][k] = <<Head(msgs), "preamble">>
  BY <1>5, <1>9, <1>10, <1>11, <1>12
<1>14. ASSUME Head(msgs).opcode = "SEND_UNBOUND_BUFFER"
       PROVE  localPendingRecv[r][p][Head(msgs).slot] # <<>>
  <2>1. Head(msgs).slot \in Slots /\ Head(msgs) \in P!Payloads(Head(msgs).slot)
    BY <1>7, <1>14, SameMessages DEF P!Payloads, M!Message
  <2> QED
    BY <1>1, <1>6, <2>1, PayloadHasRecv, Zenon DEF msgs
<1> QED
  BY <1>6, <1>13, <1>14 DEF msgs, k

LEMMA SameNext == M!Next = P!Next /\ (UNCHANGED M!vars <=> UNCHANGED P!vars)
<1>1. UNCHANGED M!vars <=> UNCHANGED P!vars
  BY Zenon DEF M!vars, P!vars, M!tallies, P!tallies, M!history, P!history
<1>2. M!Next = P!Next
  BY SameSend, SameRecvFrom, SameRecvFromAny, SameCallStep, SameHandle, Zenon DEF M!Next, P!Next
<1> QED
  BY <1>1, <1>2, Zenon

-----------------------------------------------------------------------------
LEMMA UvInvariance == Spec => []UvInv
<1>1. UvInv /\ [Next]_vars => UvInv'
  BY NextUv
<1> QED
  BY InitUv, <1>1, PTL DEF Spec

(* However user threads that post and defer, the two loop threads, writes  *)
(* and partial reads interleave, what travels from one end of a connection *)
(* to the other is the messages of the protocol in the order of posting,   *)
(* also while an end fails or closes.                                      *)
THEOREM UvStreamAgrees == Spec => []StreamAgrees
BY UvInvariance, StreamMeaning, PTL

(* Pair::onRead always acts on the preamble of the next message, and for a *)
(* payload always finds a receive: its GLOO_ENFORCEs never fail.           *)
THEOREM UvReadsNextMessage == Spec => []ReadsNextMessage
BY UvInvariance, ReadsMeaning, PTL

(* Pair::onWrite, which only counts events, attributes each to the         *)
(* operation that was written, and a send is reported complete only when   *)
(* its payload has left the buffer.                                        *)
THEOREM UvEventsMatchOps == Spec => []EventsMatchOps
BY UvInvariance, EventsMeaning, PTL

(* Once Pair::~Pair has returned, the loop holds no handle, request or     *)
(* deferred function that refers to the pair, but for writes that were     *)
(* posted when the pair had begun to close.                                *)
THEOREM UvDestroyedIsUnused == Spec => []NoUseAfterDestroy
BY UvInvariance, DestroyMeaning, PTL

(* The libuv transport implements the protocol of SendRecv: its steps, the *)
(* posts of user threads and the reads of loop threads among them, are     *)
(* steps of the protocol or leave it alone.                                *)
THEOREM UvFollowsProtocol == Spec => M!Spec
<1>1. Init => M!Init
  BY DEF Init
<1>2. UvInv /\ [Next]_vars => [M!Next]_M!vars
  BY NextUv, SameNext, Zenon
<1> QED
  BY UvInvariance, <1>1, <1>2, PTL DEF Spec, M!Spec

LEMMA SameSpec == M!Spec => P!Spec
<1>1. M!Init => P!Init
  BY SameInit, Zenon
<1>2. [M!Next]_M!vars => [P!Next]_P!vars
  BY SameNext, Zenon
<1> QED
  BY <1>1, <1>2, PTL DEF M!Spec, P!Spec

(* So what is proved of the protocol holds of the libuv transport: between *)
(* its two ranks, sends of a slot are received in the order of posting.    *)
THEOREM UvSendsNeverOvertake == Spec => []M!NonOvertaking
<1>1. P!Spec => []P!NonOvertaking
  BY P!SendsNeverOvertake, ProtocolAssumptions, Zenon DEF P!RanksAssumption, P!BoundsAssumption
<1>2. M!NonOvertaking = P!NonOvertaking
  BY Zenon DEF M!NonOvertaking, P!NonOvertaking, M!InOrder, P!InOrder, M!Occurrences, P!Occurrences,
     M!Cardinality, P!Cardinality, M!IsFiniteSet, P!IsFiniteSet, M!Payloads, P!Payloads, M!Message,
     P!Message
<1>3. P!NonOvertaking => M!NonOvertaking
  BY <1>2, Zenon
<1> QED
  BY UvFollowsProtocol, SameSpec, <1>1, <1>3, PTL

(* And each payload goes to one posted and unfulfilled receive of its slot *)
(* that accepts its source, none twice: the promise of Matching.           *)
THEOREM UvDeliversOnlyWhatMatches == Spec => P!Promise!Safety
<1>1. P!Spec => P!Promise!Safety
  BY P!DeliversOnlyWhatMatches, ProtocolAssumptions, Zenon DEF P!RanksAssumption, P!BoundsAssumption
<1> QED
  BY UvFollowsProtocol, SameSpec, <1>1, PTL
=============================================================================
