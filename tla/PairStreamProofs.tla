------------------------- MODULE PairStreamProofs -------------------------
(***************************************************************************)
(* Proofs about the byte stream of a pair, for any operations, any lengths *)
(* and any socket size: the stream is intact, an operation that completed  *)
(* is written, and the pair is a FIFO queue of operations.                 *)
(***************************************************************************)
EXTENDS PairStream, SequenceTheorems, WellFoundedInduction, TLAPS

(* The bytes that were given to the socket and are not yet handled.        *)
Out == rx \o wire

-----------------------------------------------------------------------------
(* The inductive invariant.                                                *)

(* An operation is posted once.                                            *)
PostedOnce ==
  \A i, j \in 1 .. Len(posted) : posted[i] = posted[j] => i = j

(* An operation is written in place only while nothing is queued, and the  *)
(* loop thread writes only what is queued.                                 *)
Writers ==
  /\ (holder = "caller") <=> (inPlace # <<>>)
  /\ inPlace # <<>> => tx = <<>>
  /\ holder = "loop" => tx # <<>>

(* A completed operation was posted before all that is pending.            *)
CompletedFirst ==
  \A o \in completed : \E k \in 1 .. Len(posted) - Len(Pending) : posted[k] = o

StreamInv == StreamIntact /\ PostedOnce /\ Writers /\ CompletedFirst

-----------------------------------------------------------------------------
(* Operators.                                                              *)

LEMMA NBytesType ==
  ASSUME NEW o \in Ops
  PROVE  NBytes(o) \in Nat /\ NBytes(o) >= Preamble /\ NBytes(o) > 0
BY OpsAssumption, SizesAssumption DEF NBytes, PayloadLength

LEMMA BytesOfShape ==
  ASSUME NEW o \in Ops, NEW from \in Nat, NEW to \in Nat, from <= to
  PROVE  /\ BytesOf(o, from, to) \in Seq(Byte)
         /\ Len(BytesOf(o, from, to)) = to - from
         /\ \A k \in 1 .. to - from : BytesOf(o, from, to)[k] = [op |-> o, at |-> from + k]
<1> DEFINE n == to - from
<1>1. n \in Nat
  OBVIOUS
<1>2. \A k \in 1 .. n : [op |-> o, at |-> from + k] \in Byte
  BY DEF Byte
<1> QED
  BY <1>1, <1>2 DEF BytesOf

LEMMA EmptyLength ==
  ASSUME NEW T, NEW q \in Seq(T)
  PROVE  (q = <<>>) <=> (Len(q) = 0)
OBVIOUS

LEMMA LeastNatural ==
  ASSUME NEW D, D \subseteq Nat, D # {}
  PROVE  \E m \in D : \A k \in D : m <= k
<1>1. PICK m \in D : \A k \in D : ~(<<k, m>> \in OpToRel(<, Nat))
  BY WFMin, NatLessThanWellFounded
<1>2. \A k \in D : ~(k < m)
  BY <1>1 DEF OpToRel
<1> QED
  BY <1>2

(* The stream is what was given to the socket, and the byte that comes     *)
(* next.                                                                   *)
Shape ==
  /\ Pending \in Seq(TxOp) /\ Out \in Seq(Byte) /\ Stream \in Seq(Byte)
  /\ Len(Out) = Len(rx) + Len(wire)
  /\ \A k \in 1 .. Len(rx) : Out[k] = rx[k]
  /\ \A k \in 1 .. Len(wire) : Out[Len(rx) + k] = wire[k]
  /\ \A k \in 1 .. Len(Out) : Stream[k] = Out[k]
  /\ Pending = <<>> => Stream = Out
  /\ Pending # <<>> =>
       /\ Len(Stream) = Len(Out) + 1
       /\ Stream[Len(Out) + 1] = [op |-> Pending[1].op, at |-> Pending[1].nwritten + 1]

LEMMA StreamShape == TypeOK => Shape
<1> SUFFICES ASSUME TypeOK PROVE Shape
  OBVIOUS
<1>1. Pending \in Seq(TxOp)
  BY DEF Pending, TypeOK
<1>2. /\ Out \in Seq(Byte) /\ Len(Out) = Len(rx) + Len(wire)
      /\ \A k \in 1 .. Len(rx) : Out[k] = rx[k]
      /\ \A k \in 1 .. Len(wire) : Out[Len(rx) + k] = wire[k]
  BY DEF Out, TypeOK
<1>3. CASE Pending = <<>>
  <2>1. Stream = Out
    BY <1>2, <1>3 DEF Stream, Out
  <2> QED
    BY <1>1, <1>2, <1>3, <2>1 DEF Shape
<1>4. CASE Pending # <<>>
  <2>0. PICK t \in TxOp : t = Pending[1]
    BY <1>1, <1>4
  <2>1. PICK b \in Byte : b = [op |-> Pending[1].op, at |-> Pending[1].nwritten + 1]
    <3>1. [op |-> t.op, at |-> t.nwritten + 1] \in Byte
      BY DEF TxOp, Byte
    <3> QED
      BY <2>0, <3>1
  <2>2. Stream = Out \o <<b>>
    BY <1>4, <2>1 DEF Stream, Out
  <2> HIDE DEF Stream, Out, Pending
  <2>3. /\ Stream \in Seq(Byte) /\ Len(Stream) = Len(Out) + 1 /\ Stream[Len(Out) + 1] = b
        /\ \A k \in 1 .. Len(Out) : Stream[k] = Out[k]
    <3>1. <<b>> \in Seq(Byte) /\ Len(<<b>>) = 1 /\ <<b>>[1] = b
      OBVIOUS
    <3>2. PICK r \in Seq(Byte) : r = <<b>>
      BY <3>1
    <3>3. Stream = Out \o r
      BY <2>2, <3>2
    <3>4. PICK q \in Seq(Byte) : q = Out
      BY <1>2
    <3>5. /\ q \o r \in Seq(Byte) /\ Len(q \o r) = Len(q) + Len(r)
          /\ \A k \in 1 .. Len(q) : (q \o r)[k] = q[k]
          /\ \A k \in 1 .. Len(r) : (q \o r)[Len(q) + k] = r[k]
      OBVIOUS
    <3>6. (q \o r)[Len(q) + 1] = r[1]
      BY <3>1, <3>2, <3>5
    <3> QED
      BY <3>1, <3>2, <3>3, <3>4, <3>5, <3>6
  <2> QED
    BY <1>1, <1>2, <1>4, <2>1, <2>3 DEF Shape
<1> QED
  BY <1>3, <1>4

LEMMA StreamShapeThen == TypeOK' => Shape'
BY StreamShape, PTL

(* What is pending is the operation written in place, or the queue.        *)
LEMMA PendingIs ==
  ASSUME TypeOK, Writers
  PROVE  /\ inPlace = <<>> => Pending = tx
         /\ inPlace # <<>> => Pending = inPlace
BY SMTT(30) DEF Pending, Writers, TypeOK

LEMMA CurrentFirst ==
  ASSUME TypeOK, Writers, holder # "none"
  PROVE  /\ Pending # <<>> /\ Current = Pending[1] /\ Current \in TxOp
         /\ holder = "caller" => Pending = inPlace /\ Len(inPlace) = 1
         /\ holder = "loop" => Pending = tx /\ tx # <<>> /\ inPlace = <<>>
<1>1. CASE holder = "caller"
  <2>1. Pending = inPlace /\ inPlace # <<>> /\ Current = Head(inPlace) /\ inPlace \in Seq(TxOp)
    BY <1>1, PendingIs DEF Writers, Current, TypeOK
  <2>2. PICK n \in Nat : n = Len(inPlace) /\ n # 0 /\ n <= 1
    BY <2>1 DEF TypeOK
  <2>3. Len(inPlace) = 1
    BY <2>2
  <2>4. inPlace[1] \in TxOp /\ Head(inPlace) = inPlace[1]
    BY <2>1
  <2> QED
    BY <1>1, <2>1, <2>3, <2>4
<1>2. CASE holder = "loop"
  <2>1. Pending = tx /\ tx # <<>> /\ Current = Head(tx) /\ tx \in Seq(TxOp) /\ inPlace = <<>>
    BY <1>2, PendingIs DEF Writers, Current, TypeOK
  <2> QED
    BY <1>2, <2>1
<1> QED
  BY <1>1, <1>2 DEF TypeOK

(* One operation at a time is rewritten: what EXCEPT ![1].nwritten does.   *)
LEMMA AdvanceFirst ==
  ASSUME NEW q \in Seq(TxOp), q # <<>>, NEW n \in Nat
  PROVE  /\ [q EXCEPT ![1].nwritten = @ + n] \in Seq(TxOp)
         /\ Len([q EXCEPT ![1].nwritten = @ + n]) = Len(q)
         /\ [q EXCEPT ![1].nwritten = @ + n][1] = [op |-> q[1].op, nwritten |-> q[1].nwritten + n]
         /\ \A k \in 2 .. Len(q) : [q EXCEPT ![1].nwritten = @ + n][k] = q[k]
<1>1. PICK t \in TxOp : t = q[1]
  OBVIOUS
<1>2. PICK u \in TxOp : u = [op |-> t.op, nwritten |-> t.nwritten + n]
  <2>1. [op |-> t.op, nwritten |-> t.nwritten + n] \in TxOp
    BY DEF TxOp
  <2> QED
    BY <2>1
<1>3. [q[1] EXCEPT !.nwritten = @ + n] = u
  BY <1>1, <1>2 DEF TxOp
<1>4. [q EXCEPT ![1].nwritten = @ + n] = [q EXCEPT ![1] = u]
  BY <1>3
<1>5. /\ [q EXCEPT ![1] = u] \in Seq(TxOp) /\ Len([q EXCEPT ![1] = u]) = Len(q)
      /\ [q EXCEPT ![1] = u][1] = u
      /\ \A k \in 2 .. Len(q) : [q EXCEPT ![1] = u][k] = q[k]
  OBVIOUS
<1> QED
  BY <1>1, <1>2, <1>4, <1>5

-----------------------------------------------------------------------------
(* The type invariant, and who writes.                                     *)

LEMMA SendTypes ==
  ASSUME StreamInv, NEW o \in Ops, SendAsyncMode(o)
  PROVE  TypeOK' /\ Writers'
<1> USE DEF StreamInv, StreamIntact
<1>1. PICK t \in TxOp : t = [op |-> o, nwritten |-> 0]
  BY DEF TxOp
<1>2. posted' \in Seq(Ops)
  BY DEF SendAsyncMode, TypeOK
<1>3. inPlace = <<>>
  BY DEF SendAsyncMode, Writers
<1>4. CASE tx # <<>>
  <2>1. tx' = Append(tx, t) /\ inPlace' = inPlace /\ holder' = holder
    BY <1>1, <1>4 DEF SendAsyncMode
  <2>2. tx' \in Seq(TxOp) /\ tx' # <<>>
    BY <2>1 DEF TypeOK
  <2> QED
    BY <1>2, <1>3, <2>1, <2>2 DEF SendAsyncMode, TypeOK, Writers
<1>5. CASE tx = <<>>
  <2>1. tx' = tx /\ inPlace' = <<t>> /\ holder' = "caller"
    BY <1>1, <1>5 DEF SendAsyncMode
  <2>2. inPlace' \in Seq(TxOp) /\ inPlace' # <<>> /\ Len(inPlace') = 1
    BY <2>1
  <2> QED
    BY <1>2, <1>5, <2>1, <2>2 DEF SendAsyncMode, TypeOK, Writers
<1> QED
  BY <1>4, <1>5

(* What write() gives to the socket.                                       *)
LEMMA WireGrows ==
  ASSUME TypeOK, NEW o \in Ops, NEW from \in Nat, NEW to \in Nat,
         from <= to, to - from <= Room,
         wire' = wire \o BytesOf(o, from, to), rx' = rx
  PROVE  /\ wire' \in Seq(Byte) /\ Len(wire') <= SocketSize
         /\ Out' \in Seq(Byte) /\ Len(Out') = Len(Out) + (to - from)
         /\ \A k \in 1 .. Len(Out) : Out'[k] = Out[k]
         /\ \A k \in 1 .. to - from : Out'[Len(Out) + k] = [op |-> o, at |-> from + k]
<1>1. PICK b \in Seq(Byte) :
        /\ b = BytesOf(o, from, to) /\ Len(b) = to - from
        /\ \A k \in 1 .. to - from : b[k] = [op |-> o, at |-> from + k]
  BY BytesOfShape
<1>2. PICK r \in Seq(Byte), w \in Seq(Byte) : r = rx /\ w = wire
  BY DEF TypeOK
<1>3. wire' = w \o b /\ Out = r \o w /\ Out' = r \o (w \o b)
  BY <1>1, <1>2 DEF Out
<1>4. r \o (w \o b) = (r \o w) \o b
  BY SMTT(30)
<1>5. PICK q \in Seq(Byte) : q = r \o w
  <2>1. r \o w \in Seq(Byte)
    OBVIOUS
  <2> QED
    BY <2>1
<1>6. /\ q \o b \in Seq(Byte) /\ Len(q \o b) = Len(q) + Len(b)
      /\ \A k \in 1 .. Len(q) : (q \o b)[k] = q[k]
      /\ \A k \in 1 .. Len(b) : (q \o b)[Len(q) + k] = b[k]
  OBVIOUS
<1>7. /\ Out' \in Seq(Byte) /\ Len(Out') = Len(Out) + (to - from)
      /\ \A k \in 1 .. Len(Out) : Out'[k] = Out[k]
      /\ \A k \in 1 .. to - from : Out'[Len(Out) + k] = [op |-> o, at |-> from + k]
  BY <1>1, <1>3, <1>4, <1>5, <1>6, SMTT(30)
<1>8. wire' \in Seq(Byte) /\ Len(wire') = Len(wire) + (to - from)
  <2>1. w \o b \in Seq(Byte) /\ Len(w \o b) = Len(w) + Len(b)
    OBVIOUS
  <2> QED
    BY <1>1, <1>2, <1>3, <2>1
<1>9. Len(wire') <= SocketSize
  BY <1>8, SizesAssumption DEF Room, TypeOK
<1> QED
  BY <1>7, <1>8, <1>9

(* A partial write: the bytes go to the socket, and the first pending      *)
(* operation has so much less to write.                                    *)
LEMMA WritePartEffect ==
  ASSUME StreamInv, NEW n \in 1 .. SocketSize, WritePart(n)
  PROVE  /\ TypeOK' /\ Writers'
         /\ \E c \in TxOp :
              /\ c = Pending[1] /\ c.nwritten + n < NBytes(c.op)
              /\ Out' \in Seq(Byte) /\ Len(Out') = Len(Out) + n
              /\ \A k \in 1 .. Len(Out) : Out'[k] = Out[k]
              /\ \A k \in 1 .. n : Out'[Len(Out) + k] = [op |-> c.op, at |-> c.nwritten + k]
              /\ Pending # <<>> /\ Pending' # <<>> /\ Len(Pending') = Len(Pending)
              /\ Pending'[1] = [op |-> c.op, nwritten |-> c.nwritten + n]
              /\ \A k \in 2 .. Len(Pending) : Pending'[k] = Pending[k]
<1>0. TypeOK /\ Writers /\ n \in Nat
  BY SizesAssumption DEF StreamInv, StreamIntact
<1>1. holder # "none"
  BY DEF WritePart
<1>2. PICK c \in TxOp : c = Current
  BY <1>0, <1>1, CurrentFirst
<1>3. Pending # <<>> /\ c = Pending[1] /\ Pending \in Seq(TxOp)
  BY <1>0, <1>1, <1>2, CurrentFirst, StreamShape DEF Shape
<1>4. c.op \in Ops /\ c.nwritten \in Nat /\ NBytes(c.op) \in Nat
  BY NBytesType DEF TxOp
<1>5. c.nwritten + n < NBytes(c.op) /\ n <= Room
  BY <1>2, <1>4, <1>0 DEF WritePart, Remaining
<1>6. /\ wire' \in Seq(Byte) /\ Len(wire') <= SocketSize
      /\ Out' \in Seq(Byte) /\ Len(Out') = Len(Out) + n
      /\ \A k \in 1 .. Len(Out) : Out'[k] = Out[k]
      /\ \A k \in 1 .. n : Out'[Len(Out) + k] = [op |-> c.op, at |-> c.nwritten + k]
  <2>1. PICK to \in Nat : to = c.nwritten + n /\ c.nwritten <= to /\ to - c.nwritten = n
    BY <1>0, <1>4
  <2>2. wire' = wire \o BytesOf(c.op, c.nwritten, to) /\ rx' = rx
    BY <1>2, <2>1 DEF WritePart
  <2>3. /\ wire' \in Seq(Byte) /\ Len(wire') <= SocketSize
        /\ Out' \in Seq(Byte) /\ Len(Out') = Len(Out) + (to - c.nwritten)
        /\ \A k \in 1 .. Len(Out) : Out'[k] = Out[k]
        /\ \A k \in 1 .. to - c.nwritten :
             Out'[Len(Out) + k] = [op |-> c.op, at |-> c.nwritten + k]
    BY <1>0, <1>4, <1>5, <2>1, <2>2, WireGrows, ZenonT(30)
  <2> QED
    BY <2>1, <2>3
<1>7. /\ TypeOK' /\ Writers'
      /\ Pending' = [Pending EXCEPT ![1].nwritten = @ + n]
  <2>1. CASE holder = "caller"
    <3>1. Pending = inPlace /\ Len(inPlace) = 1 /\ tx = <<>> /\ inPlace # <<>>
      BY <1>0, <1>1, <2>1, CurrentFirst DEF Writers
    <3>2. inPlace' = [inPlace EXCEPT ![1].nwritten = @ + n] /\ tx' = tx /\ holder' = holder
      BY <2>1 DEF WritePart
    <3>3. inPlace' \in Seq(TxOp) /\ Len(inPlace') = 1 /\ inPlace' # <<>>
      <4>1. PICK q \in Seq(TxOp) : q = inPlace /\ q # <<>>
        BY <1>3, <3>1
      <4>2. /\ [q EXCEPT ![1].nwritten = @ + n] \in Seq(TxOp)
            /\ Len([q EXCEPT ![1].nwritten = @ + n]) = Len(q)
        BY <1>0, <4>1, AdvanceFirst
      <4>3. inPlace' \in Seq(TxOp) /\ Len(inPlace') = 1
        BY <3>1, <3>2, <4>1, <4>2
      <4>4. Len(inPlace') # 0
        BY <4>3
      <4> QED
        BY <4>3, <4>4, EmptyLength
    <3>4. TypeOK' /\ Writers'
      BY <1>0, <1>6, <2>1, <3>1, <3>2, <3>3 DEF WritePart, TypeOK, Writers
    <3> QED
      BY <3>1, <3>2, <3>3, <3>4 DEF Pending
  <2>2. CASE holder = "loop"
    <3>1. Pending = tx /\ tx # <<>> /\ inPlace = <<>>
      BY <1>0, <1>1, <2>2, CurrentFirst
    <3>2. tx' = [tx EXCEPT ![1].nwritten = @ + n] /\ inPlace' = inPlace /\ holder' = holder
      BY <2>2 DEF WritePart
    <3>3. tx' \in Seq(TxOp) /\ Len(tx') = Len(tx)
      BY <1>0, <1>3, <3>1, <3>2, AdvanceFirst
    <3>4. tx' # <<>>
      BY <3>1, <3>3, <1>0 DEF TypeOK
    <3>5. TypeOK' /\ Writers'
      BY <1>0, <1>6, <2>2, <3>1, <3>2, <3>3, <3>4 DEF WritePart, TypeOK, Writers
    <3> QED
      BY <3>1, <3>2, <3>3, <3>5 DEF Pending
  <2> QED
    BY <1>0, <1>1, <2>1, <2>2 DEF TypeOK
<1>8. /\ Len(Pending') = Len(Pending) /\ Pending' \in Seq(TxOp)
      /\ Pending'[1] = [op |-> c.op, nwritten |-> c.nwritten + n]
      /\ \A k \in 2 .. Len(Pending) : Pending'[k] = Pending[k]
  BY <1>0, <1>3, <1>7, AdvanceFirst
<1>9. Pending' # <<>>
  <2>1. Len(Pending) > 0
    BY <1>3
  <2> QED
    BY <2>1, <1>8
<1> QED
  BY <1>3, <1>5, <1>6, <1>7, <1>8, <1>9

(* The last write of an operation, which is then no longer pending.        *)
LEMMA WriteRestEffect ==
  ASSUME StreamInv, WriteRest
  PROVE  /\ TypeOK' /\ Writers'
         /\ \E c \in TxOp :
              /\ c = Pending[1] /\ completed' = completed \cup {c.op}
              /\ Out' \in Seq(Byte) /\ Len(Out') = Len(Out) + (NBytes(c.op) - c.nwritten)
              /\ \A k \in 1 .. Len(Out) : Out'[k] = Out[k]
              /\ \A k \in 1 .. NBytes(c.op) - c.nwritten :
                   Out'[Len(Out) + k] = [op |-> c.op, at |-> c.nwritten + k]
              /\ Pending # <<>> /\ Pending' = Tail(Pending)
<1>0. TypeOK /\ Writers /\ StreamEnds
  BY DEF StreamInv, StreamIntact
<1>1. holder # "none"
  BY DEF WriteRest
<1>2. PICK c \in TxOp : c = Current
  BY <1>0, <1>1, CurrentFirst
<1>3. Pending # <<>> /\ c = Pending[1] /\ Pending \in Seq(TxOp)
  BY <1>0, <1>1, <1>2, CurrentFirst, StreamShape DEF Shape
<1>4. c.op \in Ops /\ c.nwritten \in Nat /\ NBytes(c.op) \in Nat
  BY NBytesType DEF TxOp
<1>5. c.nwritten < NBytes(c.op) /\ NBytes(c.op) - c.nwritten <= Room
  <2>1. 1 \in 1 .. Len(Pending)
    BY <1>3
  <2> QED
    BY <1>0, <1>2, <1>3, <2>1 DEF WriteRest, Remaining, StreamEnds
<1>6. /\ wire' \in Seq(Byte) /\ Len(wire') <= SocketSize
      /\ Out' \in Seq(Byte) /\ Len(Out') = Len(Out) + (NBytes(c.op) - c.nwritten)
      /\ \A k \in 1 .. Len(Out) : Out'[k] = Out[k]
      /\ \A k \in 1 .. NBytes(c.op) - c.nwritten :
           Out'[Len(Out) + k] = [op |-> c.op, at |-> c.nwritten + k]
  <2>1. PICK to \in Nat : to = NBytes(c.op)
    BY <1>4
  <2>2. wire' = wire \o BytesOf(c.op, c.nwritten, to) /\ rx' = rx
    BY <1>2, <2>1 DEF WriteRest
  <2>3. c.nwritten <= to
    BY <1>4, <1>5, <2>1
  <2> QED
    BY <1>0, <1>4, <1>5, <2>1, <2>2, <2>3, WireGrows
<1>7. completed' = completed \cup {c.op} /\ completed' \subseteq Ops
  BY <1>0, <1>2, <1>4 DEF WriteRest, TypeOK
<1>8. TypeOK' /\ Writers' /\ Pending' = Tail(Pending)
  <2>1. CASE holder = "caller"
    <3>1. Pending = inPlace /\ Len(inPlace) = 1 /\ tx = <<>>
      BY <1>0, <1>1, <2>1, CurrentFirst DEF Writers
    <3>2. inPlace' = <<>> /\ tx' = tx /\ holder' = "none" /\ epollout' = epollout
      BY <2>1 DEF WriteRest
    <3>3. TypeOK' /\ Writers'
      BY <1>0, <1>6, <1>7, <3>1, <3>2 DEF WriteRest, TypeOK, Writers
    <3>4. Tail(Pending) = <<>> /\ Pending' = <<>>
      <4>1. Tail(Pending) \in Seq(TxOp) /\ Len(Tail(Pending)) = 0
        BY <1>3, <3>1
      <4>2. Tail(Pending) = <<>>
        BY <4>1, EmptyLength
      <4>3. Pending' = <<>>
        BY <3>1, <3>2 DEF Pending
      <4> QED
        BY <4>2, <4>3
    <3> QED
      BY <3>3, <3>4
  <2>2. CASE holder = "loop"
    <3>1. Pending = tx /\ tx # <<>> /\ inPlace = <<>>
      BY <1>0, <1>1, <2>2, CurrentFirst
    <3>2. /\ tx' = Tail(tx) /\ inPlace' = <<>>
          /\ holder' = IF tx' = <<>> THEN "none" ELSE "loop"
          /\ epollout' = (tx' # <<>>)
      BY <2>2, <3>1 DEF WriteRest
    <3>3. tx' \in Seq(TxOp)
      BY <1>3, <3>1, <3>2
    <3>4. /\ epollout' \in BOOLEAN
          /\ holder' \in {"none", "loop"} /\ (holder' = "loop" => tx' # <<>>)
      BY <3>2
    <3>5. TypeOK'
      <4>1. UNCHANGED <<rx, registered, dead, posted, handled>>
        BY DEF WriteRest
      <4>2. inPlace' \in Seq(TxOp) /\ Len(inPlace') <= 1
        BY <3>2
      <4> QED
        BY <1>0, <1>6, <1>7, <3>3, <3>4, <4>1, <4>2 DEF TypeOK
    <3>6. Writers'
      BY <3>2, <3>4 DEF Writers
    <3> QED
      BY <3>1, <3>2, <3>3, <3>5, <3>6 DEF Pending
  <2> QED
    BY <1>0, <1>1, <2>1, <2>2 DEF TypeOK
<1> QED
  BY <1>3, <1>6, <1>7, <1>8

-----------------------------------------------------------------------------
(* The stream S of the operations P, of which H are handled and Q are      *)
(* pending: StreamBegins, StreamEnds and the order of the bytes, of        *)
(* constants instead of the state.                                         *)

Comes(P, b, c) ==
  IF b.at < NBytes(b.op) THEN c = [op |-> b.op, at |-> b.at + 1]
  ELSE c.at = 1 /\ \E i \in 1 .. Len(P) - 1 : P[i] = b.op /\ P[i + 1] = c.op

Begins(S, P, H) ==
  /\ Len(H) <= Len(P)
  /\ \A k \in 1 .. Len(H) : H[k] = P[k]
  /\ S # <<>> => Len(H) < Len(P) /\ S[1] = [op |-> P[Len(H) + 1], at |-> 1]

Queued(P, Q) ==
  /\ Len(Q) <= Len(P)
  /\ \A k \in 1 .. Len(Q) :
       /\ Q[k].op = P[Len(P) - Len(Q) + k]
       /\ Q[k].nwritten < NBytes(Q[k].op)
       /\ k > 1 => Q[k].nwritten = 0

Ends(S, P, H) ==
  IF S = <<>> THEN Len(H) = Len(P)
  ELSE S[Len(S)] = [op |-> P[Len(P)], at |-> NBytes(P[Len(P)])]

Chained(S, P) == \A k \in 1 .. Len(S) - 1 : Comes(P, S[k], S[k + 1])

Intact(S, P, H, Q) ==
  Begins(S, P, H) /\ Queued(P, Q) /\ (Q = <<>> => Ends(S, P, H)) /\ Chained(S, P)

LEMMA IntactNow ==
  StreamIntact <=> TypeOK /\ ReadIntact /\ Intact(Stream, posted, handled, Pending)
BY DEF StreamIntact, Intact, StreamBegins, StreamEnds, Follows, Begins, Queued, Ends, Chained,
       Comes

LEMMA IntactThen ==
  StreamIntact' <=> TypeOK' /\ ReadIntact' /\ Intact(Stream', posted', handled', Pending')
BY DEF StreamIntact, Intact, StreamBegins, StreamEnds, Follows, Begins, Queued, Ends, Chained,
       Comes

(* Posting an operation: its first byte comes next if nothing else does.   *)
LEMMA IntactPut ==
  ASSUME NEW P \in Seq(Ops), NEW H \in Seq(Ops), NEW Q \in Seq(TxOp), NEW S \in Seq(Byte),
         NEW T \in Seq(Byte), NEW o \in Ops, NEW t \in TxOp,
         t = [op |-> o, nwritten |-> 0], Intact(S, P, H, Q),
         Q # <<>> => T = S,
         Q = <<>> => /\ Len(T) = Len(S) + 1 /\ T[Len(T)] = [op |-> o, at |-> 1]
                     /\ \A k \in 1 .. Len(S) : T[k] = S[k]
  PROVE  Intact(T, Append(P, o), H, Append(Q, t))
<1> DEFINE R == Append(P, o)
<1>1. R \in Seq(Ops) /\ Len(R) = Len(P) + 1 /\ R[Len(R)] = o /\ \A k \in 1 .. Len(P) : R[k] = P[k]
  OBVIOUS
<1>2. /\ Append(Q, t) \in Seq(TxOp) /\ Len(Append(Q, t)) = Len(Q) + 1
      /\ Append(Q, t)[Len(Q) + 1] = t /\ \A k \in 1 .. Len(Q) : Append(Q, t)[k] = Q[k]
      /\ Append(Q, t) # <<>>
  OBVIOUS
<1> HIDE DEF R
<1>3. \A b \in Byte, c \in Byte : Comes(P, b, c) => Comes(R, b, c)
  <2> SUFFICES ASSUME NEW b \in Byte, NEW c \in Byte, Comes(P, b, c) PROVE Comes(R, b, c)
    OBVIOUS
  <2>1. CASE b.at < NBytes(b.op)
    BY <2>1 DEF Comes
  <2>2. CASE ~(b.at < NBytes(b.op))
    <3>1. PICK i \in 1 .. Len(P) - 1 : P[i] = b.op /\ P[i + 1] = c.op
      BY <2>2 DEF Comes
    <3>2. i \in 1 .. Len(R) - 1 /\ R[i] = b.op /\ R[i + 1] = c.op
      BY <1>1, <3>1
    <3> QED
      BY <2>2, <3>2 DEF Comes
  <2> QED
    BY <2>1, <2>2
<1>4. Queued(R, Append(Q, t))
  <2>1. Len(Append(Q, t)) <= Len(R)
    BY <1>1, <1>2 DEF Intact, Queued
  <2>2. \A k \in 1 .. Len(Q) : Append(Q, t)[k].op = R[Len(R) - Len(Append(Q, t)) + k]
    <3> TAKE k \in 1 .. Len(Q)
    <3>1. /\ Len(R) - Len(Append(Q, t)) + k = Len(P) - Len(Q) + k
          /\ Len(P) - Len(Q) + k \in 1 .. Len(P)
      BY <1>1, <1>2 DEF Intact, Queued
    <3>2. Q[k].op = P[Len(P) - Len(Q) + k]
      BY DEF Intact, Queued
    <3> QED
      BY <1>1, <1>2, <3>1, <3>2
  <2>3. t.op = R[Len(R)] /\ t.nwritten = 0 /\ 0 < NBytes(t.op)
    BY <1>1, NBytesType
  <2>4. ASSUME NEW k \in 1 .. Len(Append(Q, t))
        PROVE  /\ Append(Q, t)[k].op = R[Len(R) - Len(Append(Q, t)) + k]
               /\ Append(Q, t)[k].nwritten < NBytes(Append(Q, t)[k].op)
               /\ k > 1 => Append(Q, t)[k].nwritten = 0
    <3>1. CASE k \in 1 .. Len(Q)
      BY <1>2, <2>2, <3>1 DEF Intact, Queued
    <3>2. CASE k = Len(Q) + 1
      <4>1. Len(R) - Len(Append(Q, t)) + k = Len(R)
        BY <1>1, <1>2, <3>2
      <4> QED
        BY <1>2, <2>3, <3>2, <4>1
    <3> QED
      BY <1>2, <3>1, <3>2
  <2> QED
    BY <2>1, <2>4 DEF Queued
<1>5. Len(H) <= Len(R) /\ \A k \in 1 .. Len(H) : H[k] = R[k]
  <2>1. Len(H) <= Len(P) /\ \A k \in 1 .. Len(H) : H[k] = P[k] /\ k \in 1 .. Len(P)
    BY DEF Intact, Begins
  <2>2. \A k \in 1 .. Len(H) : H[k] = R[k]
    BY <1>1, <2>1
  <2>3. Len(H) \in Nat /\ Len(P) \in Nat /\ Len(R) = Len(P) + 1
    BY <1>1
  <2> QED
    BY <2>1, <2>2, <2>3
<1>6. ASSUME S # <<>> PROVE Len(H) < Len(R) /\ S[1] = [op |-> R[Len(H) + 1], at |-> 1]
  <2>1. Len(H) < Len(P) /\ S[1] = [op |-> P[Len(H) + 1], at |-> 1] /\ Len(H) + 1 \in 1 .. Len(P)
    BY <1>6 DEF Intact, Begins
  <2> QED
    BY <1>1, <2>1
<1>7. CASE Q # <<>>
  <2>1. Begins(T, R, H)
    BY <1>5, <1>6, <1>7 DEF Begins
  <2>2. Chained(T, R)
    BY <1>1, <1>3, <1>7 DEF Intact, Chained
  <2> QED
    BY <1>2, <1>4, <2>1, <2>2 DEF Intact, R
<1>8. CASE Q = <<>>
  <2>1. Len(T) = Len(S) + 1 /\ T[Len(T)] = [op |-> o, at |-> 1] /\ \A k \in 1 .. Len(S) : T[k] = S[k]
    BY <1>8
  <2>2. Begins(T, R, H)
    <3>1. CASE S = <<>>
      BY <1>1, <1>8, <2>1, <3>1 DEF Intact, Begins, Ends
    <3>2. CASE S # <<>>
      <4>1. T[1] = S[1]
        BY <2>1, <3>2
      <4> QED
        BY <1>5, <1>6, <3>2, <4>1 DEF Begins
    <3> QED
      BY <3>1, <3>2
  <2>3. ASSUME NEW k \in 1 .. Len(T) - 1 PROVE Comes(R, T[k], T[k + 1])
    <3>1. CASE k < Len(S)
      <4>1. k \in 1 .. Len(S) - 1 /\ k \in 1 .. Len(S) /\ k + 1 \in 1 .. Len(S)
        BY <3>1
      <4>2. T[k] = S[k] /\ T[k + 1] = S[k + 1]
        BY <2>1, <4>1
      <4> QED
        BY <1>3, <4>1, <4>2 DEF Intact, Chained
    <3>2. CASE k = Len(S)
      <4>1. S # <<>> /\ T[k] = S[Len(S)] /\ T[k + 1] = [op |-> o, at |-> 1] /\ Len(P) > 0
        BY <2>1, <3>2 DEF Intact, Begins
      <4>2. T[k] = [op |-> P[Len(P)], at |-> NBytes(P[Len(P)])]
        BY <1>8, <4>1 DEF Intact, Ends
      <4>3. PICK i \in Nat : i = Len(P)
        OBVIOUS
      <4>4. i \in 1 .. Len(R) - 1 /\ R[i] = T[k].op /\ R[i + 1] = T[k + 1].op
        BY <1>1, <4>1, <4>2, <4>3
      <4>5. ~(T[k].at < NBytes(T[k].op)) /\ T[k + 1].at = 1
        <5>1. P[Len(P)] \in Ops
          BY <4>1
        <5> QED
          BY <4>1, <4>2, <5>1, NBytesType
      <4> QED
        BY <4>4, <4>5 DEF Comes
    <3> QED
      BY <2>1, <3>1, <3>2
  <2> QED
    BY <1>2, <1>4, <2>2, <2>3 DEF Intact, Chained, R
<1> QED
  BY <1>7, <1>8

(* T is S, of L + 1 bytes, in which the byte that came next is followed    *)
(* by others of its operation o, m together.                               *)
Writes(S, T, L, o, w, m) ==
  /\ Len(S) = L + 1
  /\ \A k \in 1 .. L + 1 : T[k] = S[k]
  /\ \A k \in 1 .. m : T[L + k] = [op |-> o, at |-> w + k]

(* The first operation of Q is o, with w of its N bytes written.           *)
First(Q, o, w, N) == Q # <<>> /\ Q[1].op = o /\ Q[1].nwritten = w /\ N = NBytes(o)

(* R is Q, of whose first operation another n bytes are written.           *)
Advanced(Q, R, n) ==
  /\ Len(R) = Len(Q) /\ R[1].op = Q[1].op /\ R[1].nwritten = Q[1].nwritten + n
  /\ \A k \in 2 .. Len(Q) : R[k] = Q[k]

(* R is Q without its first operation.                                     *)
Shorter(Q, R) == Len(Q) = Len(R) + 1 /\ \A k \in 1 .. Len(R) : R[k] = Q[k + 1]

(* The M bytes of T are followed by the next one of the pending R.         *)
GoesOn(T, M, R) ==
  /\ R = <<>> => Len(T) = M
  /\ R # <<>> => Len(T) = M + 1 /\ T[M + 1] = [op |-> R[1].op, at |-> R[1].nwritten + 1]

(* Writing n more bytes of the first pending operation, not the last: the  *)
(* byte that comes next is n further.                                      *)
LEMMA IntactPart ==
  ASSUME NEW P \in Seq(Ops), NEW H \in Seq(Ops), NEW Q \in Seq(TxOp), NEW S \in Seq(Byte),
         NEW T \in Seq(Byte), NEW R \in Seq(TxOp), NEW n \in Nat, NEW L \in Nat,
         NEW o \in Ops, NEW w \in Nat, NEW N \in Nat,
         Intact(S, P, H, Q), First(Q, o, w, N), w + n < N,
         Writes(S, T, L, o, w, n + 1), Len(T) = L + (n + 1), Advanced(Q, R, n)
  PROVE  Intact(T, P, H, R)
<1>1. Begins(T, P, H)
  <2>1. 1 \in 1 .. L + 1
    OBVIOUS
  <2>2. S # <<>> /\ T[1] = S[1]
    BY <2>1 DEF Writes
  <2> QED
    BY <2>2 DEF Intact, Begins
<1>2. Queued(P, R)
  <2>1. ASSUME NEW k \in 1 .. Len(R)
        PROVE  /\ R[k].op = P[Len(P) - Len(R) + k]
               /\ R[k].nwritten < NBytes(R[k].op)
               /\ k > 1 => R[k].nwritten = 0
    <3>1. CASE k = 1
      BY <3>1 DEF Intact, Queued, Advanced, First
    <3>2. CASE k \in 2 .. Len(Q)
      <4>1. R[k] = Q[k] /\ k \in 1 .. Len(Q)
        BY <3>2 DEF Advanced
      <4> QED
        BY <4>1 DEF Intact, Queued, Advanced
    <3> QED
      BY <3>1, <3>2 DEF Advanced
  <2> QED
    BY <2>1 DEF Intact, Queued, Advanced
<1>3. R # <<>>
  <2>1. Len(Q) # 0 /\ Len(R) = Len(Q)
    BY EmptyLength DEF Advanced, First
  <2> QED
    BY <2>1
<1>4. ASSUME NEW k \in 1 .. L + n PROVE Comes(P, T[k], T[k + 1])
  <2>1. CASE k <= L
    <3>1. k \in 1 .. L /\ k \in 1 .. L + 1 /\ k + 1 \in 1 .. L + 1
      BY <2>1
    <3>2. T[k] = S[k] /\ T[k + 1] = S[k + 1] /\ Len(S) - 1 = L
      BY <3>1 DEF Writes
    <3> QED
      BY <3>1, <3>2 DEF Intact, Chained
  <2>2. CASE k > L
    <3>1. PICK l \in Int : l = k - L
      OBVIOUS
    <3>2. l \in 1 .. n + 1 /\ l + 1 \in 1 .. n + 1 /\ k = L + l /\ k + 1 = L + (l + 1)
      BY <2>2, <3>1
    <3>3. T[k] = [op |-> o, at |-> w + l]
      BY <3>2 DEF Writes
    <3>4. T[k + 1] = [op |-> o, at |-> w + (l + 1)]
      BY <3>2 DEF Writes
    <3>5. w + l < N /\ w + (l + 1) = (w + l) + 1
      BY <3>2
    <3>6. N = NBytes(o)
      BY DEF First
    <3> QED
      BY <3>3, <3>4, <3>5, <3>6 DEF Comes
  <2> QED
    BY <2>1, <2>2
<1>5. Len(T) - 1 = L + n
  OBVIOUS
<1> QED
  BY <1>1, <1>2, <1>3, <1>4, <1>5 DEF Intact, Chained

(* Writing the remaining m bytes of the first pending operation: the first *)
(* byte of the operation behind it comes next.                             *)
LEMMA IntactRest ==
  ASSUME NEW P \in Seq(Ops), NEW H \in Seq(Ops), NEW Q \in Seq(TxOp), NEW S \in Seq(Byte),
         NEW T \in Seq(Byte), NEW R \in Seq(TxOp), NEW m \in Nat, NEW L \in Nat,
         NEW o \in Ops, NEW w \in Nat, NEW N \in Nat,
         Intact(S, P, H, Q), First(Q, o, w, N), Shorter(Q, R), w + m = N,
         Writes(S, T, L, o, w, m), GoesOn(T, L + m, R)
  PROVE  Intact(T, P, H, R)
<1>1. w < N /\ o = P[Len(P) - Len(Q) + 1] /\ Len(Q) \in Nat /\ Len(Q) > 0 /\ N = NBytes(o)
  <2>1. Q # <<>> /\ Q[1].op = o /\ Q[1].nwritten = w /\ N = NBytes(o)
    BY DEF First
  <2>2. Len(Q) \in Nat /\ Len(Q) > 0 /\ 1 \in 1 .. Len(Q)
    BY <2>1
  <2> QED
    BY <2>1, <2>2 DEF Intact, Queued
<1>2. m > 0 /\ m \in 1 .. m
  BY <1>1
<1>3. Len(Q) = Len(R) + 1 /\ \A k \in 1 .. Len(R) : R[k] = Q[k + 1]
  BY DEF Shorter
<1>4. Begins(T, P, H)
  <2>1. 1 \in 1 .. L + 1
    OBVIOUS
  <2>2. S # <<>> /\ T[1] = S[1]
    BY <2>1 DEF Writes
  <2> QED
    BY <2>2 DEF Intact, Begins
<1>5. ASSUME NEW k \in 1 .. Len(R)
      PROVE  /\ R[k].op = P[Len(P) - Len(R) + k]
             /\ R[k].nwritten < NBytes(R[k].op)
             /\ R[k].nwritten = 0
  <2>1. k + 1 \in 1 .. Len(Q) /\ k + 1 > 1
    BY <1>1, <1>3
  <2>2. /\ Q[k + 1].op = P[Len(P) - Len(Q) + (k + 1)]
        /\ Q[k + 1].nwritten < NBytes(Q[k + 1].op)
        /\ Q[k + 1].nwritten = 0
    BY <2>1 DEF Intact, Queued
  <2>3. Len(P) - Len(Q) + (k + 1) = Len(P) - Len(R) + k
    BY <1>1, <1>3
  <2>4. R[k] = Q[k + 1]
    BY <1>3
  <2> QED
    BY <2>2, <2>3, <2>4
<1>6. Queued(P, R)
  BY <1>1, <1>3, <1>5, SMTT(30) DEF Intact, Queued
<1>7. T[L + m] = [op |-> o, at |-> N]
  BY <1>2 DEF Writes
<1>8. ASSUME R = <<>> PROVE Ends(T, P, H)
  <2>1. Len(T) = L + m
    BY <1>8 DEF GoesOn
  <2>2. Len(R) = 0
    BY <1>8
  <2>3. Len(P) - Len(Q) + 1 = Len(P)
    BY <1>1, <1>3, <2>2
  <2>4. T # <<>>
    BY <1>2, <2>1
  <2> QED
    BY <1>1, <1>7, <2>1, <2>3, <2>4 DEF Ends
<1>9. ASSUME NEW k \in 1 .. Len(T) - 1 PROVE Comes(P, T[k], T[k + 1])
  <2>1. CASE k <= L
    <3>1. k \in 1 .. L /\ k \in 1 .. L + 1 /\ k + 1 \in 1 .. L + 1
      BY <2>1
    <3>2. T[k] = S[k] /\ T[k + 1] = S[k + 1] /\ Len(S) - 1 = L
      BY <3>1 DEF Writes
    <3> QED
      BY <3>1, <3>2 DEF Intact, Chained
  <2>2. CASE k > L /\ k < L + m
    <3>1. PICK l \in Int : l = k - L
      OBVIOUS
    <3>2. l \in 1 .. m /\ l + 1 \in 1 .. m /\ k = L + l /\ k + 1 = L + (l + 1)
      BY <2>2, <3>1
    <3>3. T[k] = [op |-> o, at |-> w + l]
      BY <3>2 DEF Writes
    <3>4. T[k + 1] = [op |-> o, at |-> w + (l + 1)]
      BY <3>2 DEF Writes
    <3>5. w + l < N /\ w + (l + 1) = (w + l) + 1
      BY <3>2
    <3>6. N = NBytes(o)
      BY DEF First
    <3> QED
      BY <3>3, <3>4, <3>5, <3>6 DEF Comes
  <2>3. CASE k = L + m
    <3>1. R # <<>>
      BY <2>3 DEF GoesOn
    <3>2. PICK r \in Nat : r = Len(R) /\ r # 0
      BY <3>1
    <3>3. /\ R[1].op = P[Len(P) - Len(R) + 1] /\ R[1].nwritten = 0
      <4>1. 1 \in 1 .. Len(R)
        BY <3>2
      <4> QED
        BY <1>5, <4>1
    <3>4. T[k + 1] = [op |-> R[1].op, at |-> R[1].nwritten + 1]
      BY <2>3, <3>1 DEF GoesOn
    <3>5. PICK i \in Int : i = Len(P) - Len(Q) + 1
      <4>1. Len(P) - Len(Q) + 1 \in Int
        BY <1>1
      <4> QED
        BY <4>1
    <3>6. i \in 1 .. Len(P) - 1 /\ i + 1 = Len(P) - Len(R) + 1
      BY <1>1, <1>3, <3>2, <3>5 DEF Intact, Queued
    <3>7. P[i] = o /\ P[i + 1] = R[1].op
      BY <1>1, <3>3, <3>5, <3>6
    <3>8. T[k + 1].op = R[1].op /\ T[k + 1].at = 1
      <4>1. R[1].nwritten + 1 = 1
        BY <3>3
      <4> QED
        BY <3>4, <4>1
    <3>9. T[k].op = o /\ T[k].at = N
      BY <1>7, <2>3
    <3>10. ~(T[k].at < NBytes(T[k].op))
      BY <1>1, <3>9
    <3> QED
      BY <3>6, <3>7, <3>8, <3>9, <3>10 DEF Comes
  <2> QED
    <3>1. k <= L + m
      BY DEF GoesOn
    <3> QED
      BY <2>1, <2>2, <2>3, <3>1
<1> QED
  BY <1>4, <1>6, <1>8, <1>9 DEF Intact, Chained

(* The stream begins with the bytes of the operation after the handled     *)
(* ones, in order.                                                         *)
LEMMA FirstBytes ==
  ASSUME NEW P \in Seq(Ops), NEW H \in Seq(Ops), NEW Q \in Seq(TxOp), NEW S \in Seq(Byte),
         NEW o \in Ops, NEW N \in Nat,
         Intact(S, P, H, Q), S # <<>>, o = P[Len(H) + 1], N = NBytes(o)
  PROVE  \A k \in 1 .. Len(S) : k <= N => S[k] = [op |-> o, at |-> k]
<1> DEFINE D == {k \in 1 .. Len(S) : k <= N /\ S[k] # [op |-> o, at |-> k]}
<1>1. S[1] = [op |-> o, at |-> 1]
  BY DEF Intact, Begins
<1>2. ASSUME D # {} PROVE FALSE
  <2>1. D \subseteq Nat
    OBVIOUS
  <2>2. PICK m \in D : \A k \in D : m <= k
    <3> HIDE DEF D
    <3> QED
      BY <1>2, <2>1, LeastNatural
  <2>3. m \in 1 .. Len(S) /\ m <= N /\ S[m] # [op |-> o, at |-> m]
    OBVIOUS
  <2>4. m # 1
    BY <1>1, <2>3
  <2>5. PICK l \in Nat : l = m - 1
    BY <2>3, <2>4
  <2>6. l \in 1 .. Len(S) - 1 /\ l \in 1 .. Len(S) /\ l < N /\ m = l + 1 /\ ~(m <= l)
    BY <2>3, <2>4, <2>5
  <2>7. S[l] = [op |-> o, at |-> l]
    BY <2>2, <2>6
  <2>8. Comes(P, S[l], S[l + 1])
    BY <2>6 DEF Intact, Chained
  <2>9. S[l + 1] = [op |-> o, at |-> l + 1]
    BY <2>6, <2>7, <2>8 DEF Comes
  <2> QED
    BY <2>3, <2>6, <2>9
<1> QED
  BY <1>2

(* T is S without its first N bytes.                                       *)
Moved(S, T, N) == Len(S) = Len(T) + N /\ \A k \in 1 .. Len(T) : T[k] = S[N + k]

Spans(o, N) == N = NBytes(o)

Once(P) == \A i, j \in 1 .. Len(P) : P[i] = P[j] => i = j

(* Handling the operation whose last byte was read.                        *)
LEMMA IntactGet ==
  ASSUME NEW P \in Seq(Ops), NEW H \in Seq(Ops), NEW Q \in Seq(TxOp), NEW S \in Seq(Byte),
         NEW T \in Seq(Byte), NEW o \in Ops, NEW N \in Nat,
         Once(P), Intact(S, P, H, Q), S # <<>>, o = P[Len(H) + 1], Spans(o, N), Moved(S, T, N)
  PROVE  Intact(T, P, Append(H, o), Q)
<1>1. N > 0 /\ N <= Len(S) /\ N \in 1 .. Len(S)
  BY NBytesType DEF Moved, Spans
<1>2. S[N] = [op |-> o, at |-> N]
  BY <1>1, FirstBytes DEF Spans
<1>3. PICK h \in Nat : h = Len(H) + 1 /\ h \in 1 .. Len(P) /\ P[h] = o
  <2>1. Len(H) < Len(P) /\ Len(H) \in Nat /\ Len(P) \in Nat
    BY DEF Intact, Begins
  <2> QED
    BY <2>1
<1>4. PICK G \in Seq(Ops) :
        G = Append(H, o) /\ Len(G) = h /\ G[h] = o /\ \A k \in 1 .. h - 1 : G[k] = H[k]
  <2>1. /\ Append(H, o) \in Seq(Ops) /\ Len(Append(H, o)) = Len(H) + 1
        /\ Append(H, o)[Len(H) + 1] = o /\ \A k \in 1 .. Len(H) : Append(H, o)[k] = H[k]
    OBVIOUS
  <2>2. h - 1 = Len(H)
    BY <1>3
  <2> QED
    BY <1>3, <2>1, <2>2
<1>5. Len(G) <= Len(P) /\ \A k \in 1 .. Len(G) : G[k] = P[k]
  <2>1. \A k \in 1 .. h - 1 : H[k] = P[k]
    BY <1>3 DEF Intact, Begins
  <2>2. ASSUME NEW k \in 1 .. Len(G) PROVE G[k] = P[k]
    <3>1. CASE k = h
      BY <1>3, <1>4, <3>1
    <3>2. CASE k \in 1 .. h - 1
      BY <1>4, <2>1, <3>2
    <3> QED
      BY <1>3, <1>4, <3>1, <3>2
  <2> QED
    BY <1>3, <1>4, <2>2
<1>6. ASSUME T # <<>> PROVE Len(G) < Len(P) /\ T[1] = [op |-> P[Len(G) + 1], at |-> 1]
  <2>1. 1 \in 1 .. Len(T) /\ T[1] = S[N + 1] /\ N \in 1 .. Len(S) - 1
    <3>1. PICK n \in Nat : n = Len(T) /\ n # 0
      BY <1>6
    <3> QED
      BY <1>1, <3>1 DEF Moved
  <2>2. Comes(P, S[N], S[N + 1])
    BY <2>1 DEF Intact, Chained
  <2>3. PICK i \in 1 .. Len(P) - 1 : P[i] = o /\ P[i + 1] = S[N + 1].op /\ S[N + 1].at = 1
    BY <1>2, <2>2 DEF Comes, Spans
  <2>4. i \in 1 .. Len(P)
    OBVIOUS
  <2>5. i = h
    BY <1>3, <2>3, <2>4 DEF Once
  <2>6. T[1] \in Byte
    BY <2>1
  <2>7. T[1] = [op |-> T[1].op, at |-> T[1].at]
    BY <2>6 DEF Byte
  <2> QED
    BY <1>4, <2>1, <2>3, <2>5, <2>7
<1>7. Begins(T, P, G)
  BY <1>5, <1>6 DEF Begins
<1>8. Chained(T, P)
  <2>1. ASSUME NEW k \in 1 .. Len(T) - 1 PROVE Comes(P, T[k], T[k + 1])
    <3>0. PICK n \in Nat : n = Len(T) /\ k \in 1 .. n - 1
      OBVIOUS
    <3>1. k \in 1 .. n /\ k + 1 \in 1 .. n /\ N + (k + 1) = (N + k) + 1 /\ N + k \in 1 .. (n + N) - 1
      BY <3>0
    <3>2. T[k] = S[N + k] /\ T[k + 1] = S[(N + k) + 1]
      <4>1. T[k] = S[N + k] /\ T[k + 1] = S[N + (k + 1)]
        BY <3>0, <3>1 DEF Moved
      <4> QED
        BY <3>1, <4>1
    <3>3. N + k \in 1 .. Len(S) - 1
      BY <3>0, <3>1 DEF Moved
    <3> QED
      BY <3>2, <3>3 DEF Intact, Chained
  <2> QED
    BY <2>1 DEF Chained
<1>9. ASSUME Q = <<>> PROVE Ends(T, P, G)
  <2>1. S[Len(S)] = [op |-> P[Len(P)], at |-> NBytes(P[Len(P)])]
    BY <1>9 DEF Intact, Ends
  <2>2. CASE T = <<>>
    <3>1. Len(S) = N
      BY <2>2 DEF Moved
    <3>2. P[Len(P)] = o
      BY <1>2, <2>1, <3>1
    <3>3. Len(P) \in 1 .. Len(P)
      BY <1>3
    <3>4. Len(P) = h
      BY <1>3, <3>2, <3>3 DEF Once
    <3> QED
      BY <1>4, <2>2, <3>4 DEF Ends
  <2>3. CASE T # <<>>
    <3>1. PICK n \in Nat : n = Len(T) /\ n \in 1 .. n
      BY <2>3
    <3>2. T[n] = S[N + n] /\ N + n = Len(S)
      BY <3>1 DEF Moved
    <3> QED
      BY <2>1, <2>3, <3>1, <3>2 DEF Ends
  <2> QED
    BY <2>2, <2>3
<1> QED
  BY <1>4, <1>7, <1>8, <1>9 DEF Intact

-----------------------------------------------------------------------------
(* The steps.                                                              *)

(* Steps that write and read nothing.                                      *)
LEMMA SameStream ==
  ASSUME StreamInv, TypeOK', Writers',
         UNCHANGED <<rx, wire, posted, handled, completed, Pending>>
  PROVE  StreamInv'
<1>1. Stream' = Stream
  BY DEF Stream
<1>2. ReadIntact'
  BY DEF StreamInv, StreamIntact, ReadIntact
<1>3. Intact(Stream', posted', handled', Pending')
  BY <1>1, IntactNow DEF StreamInv
<1>4. PostedOnce' /\ CompletedFirst'
  BY DEF StreamInv, PostedOnce, CompletedFirst
<1> QED
  BY <1>2, <1>3, <1>4, IntactThen DEF StreamInv

LEMMA QuietSteps ==
  ASSUME StreamInv,
         \/ HandleEpollOut
         \/ \E o \in Ops : RegisterBuffer(o)
         \/ \E side \in Sides, o \in Ops : DestroyUnboundBuffer(side, o)
  PROVE  StreamInv'
<1>0. TypeOK /\ Writers
  BY DEF StreamInv, StreamIntact
<1>1. CASE HandleEpollOut
  <2>1. /\ TypeOK' /\ Writers'
        /\ UNCHANGED <<rx, wire, posted, handled, completed, Pending>>
    BY <1>0, <1>1 DEF HandleEpollOut, TypeOK, Writers, Pending
  <2> QED
    BY <2>1, SameStream
<1>2. ASSUME NEW o \in Ops, RegisterBuffer(o) PROVE StreamInv'
  <2>1. /\ TypeOK' /\ Writers'
        /\ UNCHANGED <<rx, wire, posted, handled, completed, Pending>>
    BY <1>0, <1>2 DEF RegisterBuffer, TypeOK, Writers, Pending
  <2> QED
    BY <2>1, SameStream
<1>3. ASSUME NEW side \in Sides, NEW o \in Ops, DestroyUnboundBuffer(side, o) PROVE StreamInv'
  <2>0. dead' \subseteq Sides \X Ops
    BY <1>0, <1>3 DEF DestroyUnboundBuffer, TypeOK
  <2>1. /\ TypeOK' /\ Writers'
        /\ UNCHANGED <<rx, wire, posted, handled, completed, Pending>>
    BY <1>0, <1>3, <2>0 DEF DestroyUnboundBuffer, TypeOK, Writers, Pending
  <2> QED
    BY <2>1, SameStream
<1> QED
  BY <1>1, <1>2, <1>3

LEMMA BlockedStep ==
  ASSUME StreamInv, WriteBlocked
  PROVE  StreamInv'
<1>0. TypeOK /\ Writers /\ holder # "none"
  BY DEF StreamInv, StreamIntact, WriteBlocked
<1>1. CASE holder = "caller"
  <2>1. tx = <<>> /\ Pending = inPlace /\ inPlace # <<>>
    BY <1>0, <1>1, CurrentFirst DEF Writers
  <2>2. tx' = inPlace /\ inPlace' = <<>> /\ holder' = "none" /\ epollout' = TRUE
    BY <1>1 DEF WriteBlocked
  <2>3. TypeOK' /\ Writers'
    BY <1>0, <2>1, <2>2 DEF WriteBlocked, TypeOK, Writers
  <2>4. Pending' = Pending
    <3>1. Pending' = tx'
      BY <2>2, <2>3, PendingIs DEF Pending, TypeOK
    <3> QED
      BY <2>1, <2>2, <3>1
  <2>5. UNCHANGED <<rx, wire, posted, handled, completed>>
    BY DEF WriteBlocked
  <2> QED
    BY <2>3, <2>4, <2>5, SameStream
<1>2. CASE holder = "loop"
  <2>1. UNCHANGED <<tx, inPlace, epollout>> /\ holder' = "none"
    BY <1>2 DEF WriteBlocked
  <2>2. TypeOK' /\ Writers'
    BY <1>0, <1>2, <2>1 DEF WriteBlocked, TypeOK, Writers
  <2>3. UNCHANGED <<rx, wire, posted, handled, completed, Pending>>
    BY <2>1 DEF WriteBlocked, Pending
  <2> QED
    BY <2>2, <2>3, SameStream
<1> QED
  BY <1>0, <1>1, <1>2 DEF TypeOK

LEMMA SendStep ==
  ASSUME StreamInv, NEW o \in Ops, SendAsyncMode(o)
  PROVE  StreamInv'
<1>0. /\ TypeOK /\ Writers /\ ReadIntact /\ PostedOnce /\ CompletedFirst
      /\ Intact(Stream, posted, handled, Pending)
  BY IntactNow DEF StreamInv
<1>1. TypeOK' /\ Writers'
  BY SendTypes
<1>2. PICK t \in TxOp : t = [op |-> o, nwritten |-> 0]
  BY DEF TxOp
<1>3. inPlace = <<>> /\ Pending = tx
  BY <1>0, PendingIs DEF SendAsyncMode, Writers
<1>4. /\ posted' = Append(posted, o) /\ o \notin Range(posted)
      /\ UNCHANGED <<rx, wire, handled, completed>>
  BY DEF SendAsyncMode
<1>5. Pending' = Append(Pending, t)
  <2>1. CASE tx # <<>>
    <3>1. tx' = Append(tx, t) /\ inPlace' = inPlace
      BY <1>2, <2>1 DEF SendAsyncMode
    <3> QED
      BY <1>0, <1>1, <1>3, <3>1 DEF Pending, TypeOK
  <2>2. CASE tx = <<>>
    <3>1. tx' = tx /\ inPlace' = <<t>>
      BY <1>2, <2>2 DEF SendAsyncMode
    <3> QED
      BY <1>3, <2>2, <3>1 DEF Pending
  <2> QED
    BY <2>1, <2>2
<1>6. Pending \in Seq(TxOp) /\ posted \in Seq(Ops) /\ handled \in Seq(Ops) /\ completed \subseteq Ops
  BY <1>0, StreamShape DEF Shape, TypeOK
<1>7. Out' = Out
  BY <1>4 DEF Out
<1>8. Intact(Stream', posted', handled', Pending')
  <2>1. PICK S \in Seq(Byte), T \in Seq(Byte) : S = Stream /\ T = Stream'
    BY <1>0, <1>1, StreamShape, StreamShapeThen DEF Shape
  <2>2. ASSUME Pending # <<>> PROVE T = S
    <3>1. Pending' # <<>> /\ Pending'[1] = Pending[1]
      BY <1>5, <1>6, <2>2
    <3> QED
      BY <1>7, <2>1, <2>2, <3>1 DEF Stream, Out
  <2>3. ASSUME Pending = <<>>
        PROVE  /\ Len(T) = Len(S) + 1 /\ T[Len(T)] = [op |-> o, at |-> 1]
               /\ \A k \in 1 .. Len(S) : T[k] = S[k]
    <3>1. Pending' # <<>> /\ Pending'[1] = t
      BY <1>5, <2>3
    <3>2. S = Out /\ Out \in Seq(Byte)
      BY <1>0, <2>1, <2>3, StreamShape DEF Shape
    <3>3. /\ Len(T) = Len(Out') + 1 /\ T[Len(Out') + 1] = [op |-> t.op, at |-> t.nwritten + 1]
          /\ \A k \in 1 .. Len(Out') : T[k] = Out'[k]
      BY <1>1, <2>1, <3>1, StreamShapeThen DEF Shape
    <3>4. t.nwritten + 1 = 1 /\ t.op = o
      BY <1>2
    <3> QED
      BY <1>7, <3>2, <3>3, <3>4
  <2>4. PICK Q \in Seq(TxOp) : Q = Pending
    BY <1>6
  <2>5. Intact(S, posted, handled, Q) /\ (Q # <<>> => T = S)
    BY <1>0, <2>1, <2>2, <2>4
  <2>6. Q = <<>> => /\ Len(T) = Len(S) + 1 /\ T[Len(T)] = [op |-> o, at |-> 1]
                    /\ \A k \in 1 .. Len(S) : T[k] = S[k]
    BY <2>3, <2>4
  <2>7. Intact(T, Append(posted, o), handled, Append(Q, t))
    BY <1>2, <1>6, <2>5, <2>6, IntactPut
  <2> QED
    BY <1>4, <1>5, <2>1, <2>4, <2>7
<1>9. PostedOnce'
  <2>1. \A k \in 1 .. Len(posted) : posted[k] # o
    BY <1>4, <1>6 DEF Range
  <2>2. /\ Len(posted') = Len(posted) + 1 /\ posted'[Len(posted) + 1] = o
        /\ \A k \in 1 .. Len(posted) : posted'[k] = posted[k]
    BY <1>4, <1>6
  <2> SUFFICES ASSUME NEW i \in 1 .. Len(posted'), NEW j \in 1 .. Len(posted'),
                      posted'[i] = posted'[j]
               PROVE  i = j
    BY DEF PostedOnce
  <2>3. PICK n \in Nat : n = Len(posted)
    BY <1>6
  <2>4. i \in 1 .. n \/ i = n + 1
    BY <2>2, <2>3
  <2>5. j \in 1 .. n \/ j = n + 1
    BY <2>2, <2>3
  <2> QED
    BY <1>0, <2>1, <2>2, <2>3, <2>4, <2>5 DEF PostedOnce
<1>10. CompletedFirst'
  <2> SUFFICES ASSUME NEW c \in completed
               PROVE  \E k \in 1 .. Len(posted') - Len(Pending') : posted'[k] = c
    BY <1>4 DEF CompletedFirst
  <2>1. PICK k \in 1 .. Len(posted) - Len(Pending) : posted[k] = c
    BY <1>0 DEF CompletedFirst
  <2>2. /\ Len(posted') = Len(posted) + 1 /\ Len(Pending') = Len(Pending) + 1
        /\ Len(posted) \in Nat /\ Len(Pending) \in Nat
    BY <1>4, <1>5, <1>6
  <2>3. k \in 1 .. Len(posted') - Len(Pending') /\ k \in 1 .. Len(posted)
    BY <2>2
  <2>4. posted'[k] = posted[k]
    BY <1>4, <1>6, <2>3
  <2> QED
    BY <2>1, <2>3, <2>4
<1>11. ReadIntact'
  BY <1>0, <1>4 DEF ReadIntact
<1> QED
  BY <1>1, <1>8, <1>9, <1>10, <1>11, IntactThen DEF StreamInv

LEMMA WritePartStep ==
  ASSUME StreamInv, NEW n \in 1 .. SocketSize, WritePart(n)
  PROVE  StreamInv'
<1>0. /\ TypeOK /\ ReadIntact /\ PostedOnce /\ CompletedFirst
      /\ Intact(Stream, posted, handled, Pending)
  BY IntactNow DEF StreamInv
<1>1. TypeOK' /\ Writers' /\ Shape /\ Shape' /\ n \in Nat
  BY <1>0, WritePartEffect, StreamShape, StreamShapeThen, SizesAssumption
<1>2. UNCHANGED <<rx, posted, handled, completed>>
  BY DEF WritePart
<1>3. PICK c \in TxOp :
        /\ c = Pending[1] /\ c.nwritten + n < NBytes(c.op)
        /\ Len(Out') = Len(Out) + n
        /\ \A k \in 1 .. Len(Out) : Out'[k] = Out[k]
        /\ \A k \in 1 .. n : Out'[Len(Out) + k] = [op |-> c.op, at |-> c.nwritten + k]
        /\ Pending # <<>> /\ Pending' # <<>> /\ Len(Pending') = Len(Pending)
        /\ Pending'[1] = [op |-> c.op, nwritten |-> c.nwritten + n]
        /\ \A k \in 2 .. Len(Pending) : Pending'[k] = Pending[k]
  BY WritePartEffect
<1>4. PICK o \in Ops, w \in Nat, N \in Nat : o = c.op /\ w = c.nwritten /\ N = NBytes(c.op)
  BY NBytesType DEF TxOp
<1>5. PICK S \in Seq(Byte), T \in Seq(Byte), Q \in Seq(TxOp), R \in Seq(TxOp), L \in Nat :
        S = Stream /\ T = Stream' /\ Q = Pending /\ R = Pending' /\ L = Len(Out)
  BY <1>1 DEF Shape
<1>6. /\ Len(S) = L + 1 /\ S[L + 1] = [op |-> o, at |-> w + 1]
      /\ \A k \in 1 .. L : S[k] = Out[k]
  BY <1>1, <1>3, <1>4, <1>5 DEF Shape
<1>7. /\ Len(T) = L + (n + 1) /\ T[L + (n + 1)] = [op |-> o, at |-> w + (n + 1)]
      /\ \A k \in 1 .. L + n : T[k] = Out'[k]
  <2>1. Len(Out') = L + n /\ (L + n) + 1 = L + (n + 1)
    BY <1>1, <1>3, <1>5
  <2>2. /\ Len(T) = Len(Out') + 1
        /\ T[Len(Out') + 1] = [op |-> Pending'[1].op, at |-> Pending'[1].nwritten + 1]
        /\ \A k \in 1 .. Len(Out') : T[k] = Out'[k]
    BY <1>1, <1>3, <1>5 DEF Shape
  <2>3. Pending'[1].op = o /\ Pending'[1].nwritten + 1 = w + (n + 1)
    <3>1. Pending'[1] = [op |-> o, nwritten |-> w + n]
      BY <1>3, <1>4
    <3>2. (w + n) + 1 = w + (n + 1)
      BY <1>1
    <3> QED
      BY <3>1, <3>2
  <2> QED
    BY <2>1, <2>2, <2>3
<1>8. Writes(S, T, L, o, w, n + 1)
  <2>1. \A k \in 1 .. n : T[L + k] = [op |-> o, at |-> w + k]
    <3> TAKE k \in 1 .. n
    <3>1. L + k \in 1 .. L + n
      BY <1>1
    <3> QED
      BY <1>3, <1>4, <1>5, <1>7, <3>1
  <2>2. ASSUME NEW k \in 1 .. n + 1 PROVE T[L + k] = [op |-> o, at |-> w + k]
    <3>1. k \in 1 .. n \/ k = n + 1
      BY <1>1
    <3> QED
      BY <1>7, <2>1, <3>1
  <2>3. ASSUME NEW k \in 1 .. L PROVE T[k] = S[k]
    <3>1. k \in 1 .. L + n
      BY <1>1
    <3> QED
      BY <1>3, <1>5, <1>6, <1>7, <3>1
  <2>4. T[L + 1] = S[L + 1]
    <3>1. 1 \in 1 .. n + 1
      BY <1>1
    <3> QED
      BY <1>6, <2>2, <3>1
  <2>5. ASSUME NEW k \in 1 .. L + 1 PROVE T[k] = S[k]
    <3>1. k \in 1 .. L \/ k = L + 1
      OBVIOUS
    <3> QED
      BY <2>3, <2>4, <3>1
  <2> QED
    BY <1>6, <2>2, <2>5 DEF Writes
<1>9. First(Q, o, w, N) /\ w + n < N
  BY <1>3, <1>4, <1>5 DEF First
<1>10. Advanced(Q, R, n)
  BY <1>3, <1>5 DEF Advanced
<1>11. Intact(T, posted, handled, R)
  <2>1. Intact(S, posted, handled, Q) /\ posted \in Seq(Ops) /\ handled \in Seq(Ops)
    BY <1>0, <1>5 DEF TypeOK
  <2>2. Len(T) = L + (n + 1)
    BY <1>7
  <2> QED
    BY <1>1, <1>8, <1>9, <1>10, <2>1, <2>2, IntactPart
<1>12. PostedOnce' /\ CompletedFirst' /\ ReadIntact'
  BY <1>0, <1>2, <1>3 DEF PostedOnce, CompletedFirst, ReadIntact
<1> QED
  BY <1>1, <1>2, <1>5, <1>11, <1>12, IntactThen DEF StreamInv

LEMMA WriteRestStep ==
  ASSUME StreamInv, WriteRest
  PROVE  StreamInv'
<1>0. /\ TypeOK /\ ReadIntact /\ PostedOnce /\ CompletedFirst
      /\ Intact(Stream, posted, handled, Pending)
  BY IntactNow DEF StreamInv
<1>1. TypeOK' /\ Writers' /\ Shape /\ Shape'
  BY <1>0, WriteRestEffect, StreamShape, StreamShapeThen
<1>2. UNCHANGED <<rx, posted, handled>>
  BY DEF WriteRest
<1>3. PICK c \in TxOp :
        /\ c = Pending[1] /\ completed' = completed \cup {c.op}
        /\ Len(Out') = Len(Out) + (NBytes(c.op) - c.nwritten)
        /\ \A k \in 1 .. Len(Out) : Out'[k] = Out[k]
        /\ \A k \in 1 .. NBytes(c.op) - c.nwritten :
             Out'[Len(Out) + k] = [op |-> c.op, at |-> c.nwritten + k]
        /\ Pending # <<>> /\ Pending' = Tail(Pending)
  BY WriteRestEffect
<1>4. PICK o \in Ops, w \in Nat, N \in Nat : o = c.op /\ w = c.nwritten /\ N = NBytes(c.op)
  BY NBytesType DEF TxOp
<1>5. PICK S \in Seq(Byte), T \in Seq(Byte), Q \in Seq(TxOp), R \in Seq(TxOp), L \in Nat :
        S = Stream /\ T = Stream' /\ Q = Pending /\ R = Pending' /\ L = Len(Out)
  BY <1>1 DEF Shape
<1>6. First(Q, o, w, N) /\ Len(Q) \in Nat /\ Len(Q) > 0
  BY <1>3, <1>4, <1>5 DEF First
<1>7. w < N /\ Len(Q) <= Len(posted) /\ o = posted[Len(posted) - Len(Q) + 1]
  <2>1. 1 \in 1 .. Len(Q)
    BY <1>6
  <2> QED
    BY <1>0, <1>5, <1>6, <2>1 DEF Intact, Queued, First
<1>8. PICK m \in Nat : m > 0 /\ m = N - w /\ w + m = N
  <2>1. N - w \in Nat /\ N - w > 0 /\ w + (N - w) = N
    BY <1>7
  <2> QED
    BY <2>1
<1>9. /\ Len(S) = L + 1 /\ S[L + 1] = [op |-> o, at |-> w + 1]
      /\ \A k \in 1 .. L : S[k] = Out[k]
  BY <1>1, <1>3, <1>4, <1>5 DEF Shape
<1>10. Shorter(Q, R) /\ Len(Q) = Len(R) + 1
  <2>1. R = Tail(Q) /\ Q # <<>>
    BY <1>3, <1>5
  <2>2. Len(Tail(Q)) = Len(Q) - 1 /\ \A k \in 1 .. Len(Q) - 1 : Tail(Q)[k] = Q[k + 1]
    BY <2>1
  <2>3. Len(Q) = Len(R) + 1
    BY <1>6, <2>1, <2>2
  <2> QED
    BY <2>1, <2>2, <2>3 DEF Shorter
<1>11. Len(Out') = L + m /\ \A k \in 1 .. L + m : T[k] = Out'[k]
  <2>1. Len(Out') = L + m
    BY <1>3, <1>4, <1>5, <1>8
  <2> QED
    BY <1>1, <1>5, <2>1 DEF Shape
<1>12. GoesOn(T, L + m, R)
  <2>1. R = <<>> => T = Out'
    BY <1>1, <1>5 DEF Shape
  <2>2. R # <<>> => /\ Len(T) = Len(Out') + 1
                    /\ T[Len(Out') + 1] = [op |-> R[1].op, at |-> R[1].nwritten + 1]
    BY <1>1, <1>5 DEF Shape
  <2> QED
    BY <1>11, <2>1, <2>2 DEF GoesOn
<1>13. Writes(S, T, L, o, w, m)
  <2>1. ASSUME NEW k \in 1 .. m PROVE T[L + k] = [op |-> o, at |-> w + k]
    <3>1. L + k \in 1 .. L + m
      OBVIOUS
    <3>2. Out'[L + k] = [op |-> o, at |-> w + k]
      BY <1>3, <1>4, <1>5, <1>8
    <3> QED
      BY <1>11, <3>1, <3>2
  <2>2. ASSUME NEW k \in 1 .. L PROVE T[k] = S[k]
    <3>1. k \in 1 .. L + m
      OBVIOUS
    <3> QED
      BY <1>3, <1>5, <1>9, <1>11, <3>1
  <2>3. T[L + 1] = S[L + 1]
    <3>1. 1 \in 1 .. m
      BY <1>8
    <3> QED
      BY <1>9, <2>1, <3>1
  <2>4. ASSUME NEW k \in 1 .. L + 1 PROVE T[k] = S[k]
    <3>1. k \in 1 .. L \/ k = L + 1
      OBVIOUS
    <3> QED
      BY <2>2, <2>3, <3>1
  <2> QED
    BY <1>9, <2>1, <2>4 DEF Writes
<1>14. Intact(T, posted, handled, R)
  <2>1. Intact(S, posted, handled, Q) /\ posted \in Seq(Ops) /\ handled \in Seq(Ops)
    BY <1>0, <1>5 DEF TypeOK
  <2>2. w + m = N
    BY <1>8
  <2> QED
    BY <1>6, <1>10, <1>12, <1>13, <2>1, <2>2, IntactRest
<1>15. CompletedFirst'
  <2> SUFFICES ASSUME NEW d \in completed'
               PROVE  \E k \in 1 .. Len(posted) - Len(R) : posted[k] = d
    BY <1>2, <1>5 DEF CompletedFirst
  <2>0. PICK p \in Nat, q \in Nat : p = Len(posted) /\ q = Len(Q) /\ Len(R) = q - 1 /\ q <= p
    <3>1. Len(posted) \in Nat /\ Len(R) \in Nat
      BY <1>0 DEF TypeOK
    <3> QED
      BY <1>6, <1>7, <1>10, <3>1
  <2>1. CASE d \in completed
    <3>1. PICK k \in 1 .. Len(posted) - Len(Q) : posted[k] = d
      BY <1>0, <1>5, <2>1 DEF CompletedFirst
    <3>2. k \in 1 .. Len(posted) - Len(R)
      BY <2>0
    <3> QED
      BY <3>1, <3>2
  <2>2. CASE d = o
    <3>1. (p - q) + 1 \in 1 .. p - (q - 1) /\ posted[(p - q) + 1] = d
      BY <1>6, <1>7, <2>0, <2>2
    <3> QED
      BY <2>0, <3>1
  <2> QED
    BY <1>3, <1>4, <2>1, <2>2
<1>16. PostedOnce' /\ ReadIntact'
  BY <1>0, <1>2 DEF PostedOnce, ReadIntact
<1> QED
  BY <1>1, <1>2, <1>5, <1>14, <1>15, <1>16, IntactThen DEF StreamInv

(* What was read belongs to the operation after the handled ones.          *)
LEMMA ReadIsNext ==
  ASSUME StreamInv, rx # <<>>
  PROVE  /\ Stream # <<>> /\ Len(handled) < Len(posted)
         /\ rx[1].op = posted[Len(handled) + 1] /\ posted[Len(handled) + 1] \in Ops
<1>1. TypeOK /\ Shape /\ Intact(Stream, posted, handled, Pending)
  BY IntactNow, StreamShape DEF StreamInv
<1>2. rx \in Seq(Byte) /\ wire \in Seq(Byte) /\ posted \in Seq(Ops) /\ handled \in Seq(Ops)
  BY <1>1 DEF TypeOK
<1>3. PICK r \in Nat, w \in Nat : r = Len(rx) /\ w = Len(wire) /\ r # 0
  BY <1>2
<1>4. 1 \in 1 .. Len(rx) /\ 1 \in 1 .. Len(Out) /\ Len(Out) # 0
  BY <1>1, <1>3 DEF Shape
<1>5. Stream[1] = Out[1] /\ Out[1] = rx[1]
  BY <1>1, <1>4 DEF Shape
<1>6. Stream # <<>>
  <2>1. CASE Pending = <<>>
    BY <1>1, <1>4, <2>1 DEF Shape
  <2>2. CASE Pending # <<>>
    <3>1. PICK l \in Nat : l = Len(Out) /\ Len(Stream) = l + 1
      BY <1>1, <2>2 DEF Shape
    <3>2. Len(Stream) # 0
      BY <3>1
    <3> QED
      BY <3>2
  <2> QED
    BY <2>1, <2>2
<1>7. Len(handled) < Len(posted) /\ Stream[1] = [op |-> posted[Len(handled) + 1], at |-> 1]
  BY <1>1, <1>6 DEF Intact, Begins
<1>8. posted[Len(handled) + 1] \in Ops
  BY <1>2, <1>7
<1> QED
  BY <1>5, <1>6, <1>7, <1>8

LEMMA ReadBytesStep ==
  ASSUME StreamInv, NEW n \in 1 .. SocketSize, ReadBytes(n)
  PROVE  StreamInv'
<1>0. /\ TypeOK /\ Shape /\ ReadIntact /\ Writers /\ PostedOnce /\ CompletedFirst
      /\ Intact(Stream, posted, handled, Pending)
  BY IntactNow, StreamShape DEF StreamInv
<1>1. /\ rx' = rx \o SubSeq(wire, 1, n) /\ wire' = SubSeq(wire, n + 1, Len(wire))
      /\ n <= Wanted /\ n <= Len(wire)
      /\ UNCHANGED <<tx, holder, inPlace, epollout, registered, dead, completed, posted, handled>>
  BY DEF ReadBytes
<1>2. PICK r \in Seq(Byte), w \in Seq(Byte) : r = rx /\ w = wire /\ n \in Nat
  BY <1>0, SizesAssumption DEF TypeOK
<1>3. PICK x \in Seq(Byte), y \in Seq(Byte) :
        /\ x = SubSeq(w, 1, n) /\ y = SubSeq(w, n + 1, Len(w))
        /\ Len(x) = n /\ Len(y) = Len(w) - n /\ w = x \o y
  <2>1. n <= Len(w) /\ n \in 1 .. Len(w)
    BY <1>1, <1>2
  <2>2. SubSeq(w, 1, n) \in Seq(Byte) /\ SubSeq(w, n + 1, Len(w)) \in Seq(Byte)
    BY <1>2, <2>1
  <2>3. Len(SubSeq(w, 1, n)) = n /\ Len(SubSeq(w, n + 1, Len(w))) = Len(w) - n
    BY <1>2, <2>1
  <2>4. w = SubSeq(w, 1, n) \o SubSeq(w, n + 1, Len(w))
    BY <1>2, <2>1, <2>2, <2>3
  <2> QED
    BY <2>2, <2>3, <2>4
<1>4. rx' = r \o x /\ wire' = y /\ rx' \in Seq(Byte) /\ Len(rx') = Len(rx) + n
  <2>1. r \o x \in Seq(Byte) /\ Len(r \o x) = Len(r) + Len(x)
    OBVIOUS
  <2> QED
    BY <1>1, <1>2, <1>3, <2>1
<1>5. rx' \o wire' = rx \o wire
  <2>1. (r \o x) \o y = r \o (x \o y)
    OBVIOUS
  <2> QED
    BY <1>2, <1>3, <1>4, <2>1
<1>6. Pending' = Pending /\ Stream' = Stream /\ Out' = Out
  BY <1>1, <1>5 DEF Pending, Stream, Out
<1>7. TypeOK' /\ Writers'
  <2>1. wire' \in Seq(Byte) /\ Len(wire') <= SocketSize
    BY <1>0, <1>2, <1>3, <1>4, SizesAssumption DEF TypeOK
  <2> QED
    BY <1>0, <1>1, <1>4, <2>1 DEF TypeOK, Writers
<1>8. Shape'
  BY <1>7, StreamShapeThen
<1>9. Len(rx') \in Nat /\ Len(rx') > 0 /\ Len(Out) = Len(rx') + Len(wire') /\ Len(wire') \in Nat
  <2>1. Len(r) \in Nat /\ Len(y) \in Nat
    OBVIOUS
  <2>2. Len(rx') = Len(r) + n /\ wire' = y
    BY <1>2, <1>4
  <2>3. Len(Out') = Len(rx') + Len(wire')
    BY <1>8 DEF Shape
  <2> QED
    BY <1>2, <1>6, <2>1, <2>2, <2>3
<1>10. ASSUME NEW k \in 1 .. Len(rx') PROVE rx'[k] = Stream[k] /\ k \in 1 .. Len(Stream)
  <2>1. rx'[k] = Out[k]
    BY <1>6, <1>8 DEF Shape
  <2>2. k \in 1 .. Len(Out)
    BY <1>9
  <2>3. Stream[k] = Out[k]
    BY <1>0, <2>2 DEF Shape
  <2>4. Len(Stream) = Len(Out) \/ Len(Stream) = Len(Out) + 1
    BY <1>0 DEF Shape
  <2>5. PICK l \in Nat : l = Len(Out)
    BY <1>9
  <2> QED
    BY <2>1, <2>2, <2>3, <2>4, <2>5
<1>11. PICK S \in Seq(Byte) : S = Stream /\ S # <<>>
  <2>1. 1 \in 1 .. Len(rx')
    BY <1>9
  <2>2. 1 \in 1 .. Len(Stream)
    BY <1>10, <2>1
  <2>3. Stream \in Seq(Byte)
    BY <1>0 DEF Shape
  <2>4. Len(Stream) # 0
    BY <2>2, <2>3
  <2> QED
    BY <2>3, <2>4
<1>12. PICK o \in Ops, N \in Nat : o = posted[Len(handled) + 1] /\ N = NBytes(o) /\ Preamble <= N
  <2>1. Len(handled) < Len(posted) /\ posted \in Seq(Ops) /\ handled \in Seq(Ops)
    BY <1>0, <1>11 DEF Intact, Begins, TypeOK
  <2>2. posted[Len(handled) + 1] \in Ops
    BY <2>1
  <2> QED
    BY <2>2, NBytesType, SizesAssumption
<1>13. Len(rx') <= N
  <2>1. CASE InPreamble
    <3>1. PICK l \in Nat : l = Len(rx)
      BY <1>0 DEF TypeOK
    <3>2. n <= Preamble - l
      BY <1>1, <2>1, <3>1 DEF Wanted
    <3> QED
      BY <1>2, <1>4, <1>12, <3>1, <3>2, SizesAssumption
  <2>2. CASE ~InPreamble
    <3>1. rx # <<>>
      BY <2>2, <1>0, SizesAssumption DEF InPreamble, TypeOK
    <3>2. rx[1].op = o
      BY <1>12, <3>1, ReadIsNext
    <3>3. PICK l \in Nat : l = Len(rx)
      BY <1>0 DEF TypeOK
    <3>4. n <= N - l
      BY <1>1, <1>12, <2>2, <3>2, <3>3 DEF Wanted
    <3> QED
      BY <1>2, <1>4, <1>12, <3>3, <3>4
  <2> QED
    BY <2>1, <2>2
<1>14. \A k \in 1 .. Len(S) : k <= N => S[k] = [op |-> o, at |-> k]
  <2>1. Intact(S, posted, handled, Pending) /\ Pending \in Seq(TxOp)
        /\ posted \in Seq(Ops) /\ handled \in Seq(Ops)
    BY <1>0, <1>11 DEF TypeOK, Shape
  <2>2. o = posted[Len(handled) + 1] /\ N = NBytes(o)
    BY <1>12
  <2> QED
    BY <1>11, <2>1, <2>2, FirstBytes
<1>15. ReadIntact'
  <2>1. \A k \in 1 .. Len(rx') : rx'[k] = [op |-> o, at |-> k]
    <3> TAKE k \in 1 .. Len(rx')
    <3>1. k <= N
      BY <1>9, <1>13
    <3> QED
      BY <1>10, <1>11, <1>14, <3>1
  <2>2. rx'[1].op = o
    <3>1. 1 \in 1 .. Len(rx')
      BY <1>9
    <3>2. rx'[1] = [op |-> o, at |-> 1]
      BY <2>1, <3>1
    <3> QED
      BY <3>2
  <2> QED
    BY <1>12, <1>13, <2>1, <2>2 DEF ReadIntact
<1>16. PostedOnce' /\ CompletedFirst'
  BY <1>0, <1>1, <1>6 DEF PostedOnce, CompletedFirst
<1>17. Intact(Stream', posted', handled', Pending')
  BY <1>0, <1>1, <1>6
<1> QED
  BY <1>7, <1>15, <1>16, <1>17, IntactThen DEF StreamInv

(* A read that is complete has all bytes of the operation that is next.    *)
LEMMA ReadCompleteEffect ==
  ASSUME StreamInv, ReadComplete
  PROVE  /\ StreamInv'
         /\ Len(handled) < Len(posted)
         /\ handled' = Append(handled, posted[Len(handled) + 1])
<1>0. /\ TypeOK /\ Shape /\ ReadIntact /\ Writers /\ PostedOnce /\ CompletedFirst
      /\ Intact(Stream, posted, handled, Pending)
  BY IntactNow, StreamShape DEF StreamInv
<1>1. /\ rx' = <<>> /\ handled' = Append(handled, rx[1].op) /\ Wanted = 0 /\ ~InPreamble
      /\ UNCHANGED <<tx, holder, inPlace, epollout, wire, registered, dead, completed, posted>>
  BY DEF ReadComplete
<1>2. rx # <<>> /\ rx \in Seq(Byte)
  BY <1>0, <1>1, SizesAssumption DEF InPreamble, TypeOK
<1>3. PICK o \in Ops : o = posted[Len(handled) + 1] /\ o = rx[1].op
  BY <1>2, ReadIsNext
<1>4. PICK N \in Nat : N = NBytes(o) /\ N = Len(rx)
  <2>1. NBytes(o) \in Nat /\ Len(rx) \in Nat
    BY <1>2, NBytesType
  <2> QED
    BY <1>1, <1>3, <2>1 DEF Wanted
<1>5. TypeOK' /\ Writers'
  <2>1. handled' \in Seq(Ops) /\ rx' \in Seq(Byte)
    BY <1>0, <1>1, <1>3 DEF TypeOK
  <2> QED
    BY <1>0, <1>1, <2>1 DEF TypeOK, Writers
<1>6. Shape' /\ Pending' = Pending
  BY <1>1, <1>5, StreamShapeThen DEF Pending
<1>7. PICK S \in Seq(Byte), T \in Seq(Byte) : S = Stream /\ T = Stream'
  BY <1>0, <1>6 DEF Shape
<1>8. PICK L \in Nat : L = Len(wire) /\ Len(Out) = N + L /\ Len(Out') = L
  <2>1. Len(rx') = 0 /\ wire' = wire /\ Len(wire) \in Nat
    BY <1>0, <1>1 DEF TypeOK
  <2>2. Len(Out') = Len(rx') + Len(wire') /\ Len(Out) = Len(rx) + Len(wire)
    BY <1>0, <1>6 DEF Shape
  <2> QED
    BY <1>4, <2>1, <2>2
<1>9. \A k \in 1 .. L : T[k] = wire[k] /\ S[N + k] = wire[k]
  <2> TAKE k \in 1 .. L
  <2>1. Out[Len(rx) + k] = wire[k]
    BY <1>0, <1>8 DEF Shape
  <2>2. Out'[k] = wire[k]
    <3>1. Out' = wire
      BY <1>0, <1>1 DEF Out, TypeOK
    <3> QED
      BY <3>1
  <2>3. N + k \in 1 .. N + L
    OBVIOUS
  <2>4. S[N + k] = Out[N + k] /\ T[k] = Out'[k]
    BY <1>0, <1>6, <1>7, <1>8, <2>3 DEF Shape
  <2> QED
    BY <1>4, <2>1, <2>2, <2>4
<1>10. Moved(S, T, N)
  <2>1. CASE Pending = <<>>
    <3>1. Len(S) = N + L /\ Len(T) = L
      BY <1>0, <1>6, <1>7, <1>8, <2>1 DEF Shape
    <3> QED
      BY <1>9, <3>1 DEF Moved
  <2>2. CASE Pending # <<>>
    <3>1. PICK b : b = [op |-> Pending[1].op, at |-> Pending[1].nwritten + 1]
      OBVIOUS
    <3>2. Len(S) = (N + L) + 1 /\ S[(N + L) + 1] = b
      BY <1>0, <1>7, <1>8, <2>2, <3>1 DEF Shape
    <3>3. Len(T) = L + 1 /\ T[L + 1] = b
      BY <1>6, <1>7, <1>8, <2>2, <3>1 DEF Shape
    <3>4. ASSUME NEW k \in 1 .. L + 1 PROVE T[k] = S[N + k]
      <4>1. k \in 1 .. L \/ k = L + 1
        OBVIOUS
      <4>2. N + (L + 1) = (N + L) + 1
        OBVIOUS
      <4> QED
        BY <1>9, <3>2, <3>3, <4>1, <4>2
    <3>5. Len(S) = Len(T) + N
      BY <3>2, <3>3
    <3> QED
      BY <3>3, <3>4, <3>5 DEF Moved
  <2> QED
    BY <2>1, <2>2
<1>11. Intact(T, posted, Append(handled, o), Pending)
  <2>1. Intact(S, posted, handled, Pending) /\ Pending \in Seq(TxOp)
        /\ posted \in Seq(Ops) /\ handled \in Seq(Ops) /\ Once(posted)
    BY <1>0, <1>7 DEF TypeOK, Shape, PostedOnce, Once
  <2>2. S # <<>>
    BY <1>2, <1>7, ReadIsNext
  <2>3. o = posted[Len(handled) + 1] /\ Spans(o, N)
    BY <1>3, <1>4 DEF Spans
  <2> QED
    BY <1>10, <2>1, <2>2, <2>3, IntactGet
<1>12. Intact(Stream', posted', handled', Pending')
  BY <1>1, <1>3, <1>6, <1>7, <1>11
<1>13. ReadIntact' /\ PostedOnce' /\ CompletedFirst'
  <2>1. ReadIntact'
    BY <1>1 DEF ReadIntact
  <2> QED
    BY <1>0, <1>1, <1>6, <2>1 DEF PostedOnce, CompletedFirst
<1> QED
  BY <1>1, <1>2, <1>3, <1>5, <1>12, <1>13, IntactThen, ReadIsNext DEF StreamInv

-----------------------------------------------------------------------------
LEMMA StreamInit == Init => StreamInv
<1> SUFFICES ASSUME Init PROVE StreamInv
  OBVIOUS
<1>1. TypeOK
  <2>1. /\ <<>> \in Seq(TxOp) /\ <<>> \in Seq(Byte) /\ <<>> \in Seq(Ops) /\ Len(<<>>) = 0
        /\ 0 <= 1 /\ 0 <= SocketSize
    BY SizesAssumption
  <2> QED
    BY <2>1 DEF Init, TypeOK
<1>2. Pending = <<>> /\ Stream = <<>>
  BY DEF Init, Pending, Stream
<1>3. Intact(<<>>, <<>>, <<>>, <<>>)
  BY DEF Intact, Begins, Queued, Ends, Chained
<1>4. ReadIntact /\ PostedOnce /\ Writers /\ CompletedFirst
  BY DEF Init, ReadIntact, PostedOnce, Writers, CompletedFirst
<1> QED
  BY <1>1, <1>2, <1>3, <1>4, IntactNow DEF StreamInv, Init

LEMMA StreamNext == StreamInv /\ [Next]_vars => StreamInv'
<1> SUFFICES ASSUME StreamInv, [Next]_vars PROVE StreamInv'
  OBVIOUS
<1>1. ASSUME NEW o \in Ops, SendAsyncMode(o) PROVE StreamInv'
  BY <1>1, SendStep
<1>2. CASE \/ HandleEpollOut
           \/ \E o \in Ops : RegisterBuffer(o)
           \/ \E side \in Sides, o \in Ops : DestroyUnboundBuffer(side, o)
  BY <1>2, QuietSteps
<1>3. CASE Write
  <2>1. ASSUME NEW n \in 1 .. SocketSize, WritePart(n) PROVE StreamInv'
    BY <2>1, WritePartStep
  <2> QED
    BY <1>3, <2>1, WriteRestStep, BlockedStep DEF Write
<1>4. CASE Read
  <2>1. ASSUME NEW n \in 1 .. SocketSize, ReadBytes(n) PROVE StreamInv'
    BY <2>1, ReadBytesStep
  <2> QED
    BY <1>4, <2>1, ReadCompleteEffect DEF Read
<1>5. CASE UNCHANGED vars
  <2>1. TypeOK' /\ Writers' /\ UNCHANGED <<rx, wire, posted, handled, completed, Pending>>
    BY <1>5 DEF StreamInv, StreamIntact, vars, TypeOK, Writers, Pending
  <2> QED
    BY <2>1, SameStream
<1> QED
  BY <1>1, <1>2, <1>3, <1>4, <1>5 DEF Next

LEMMA StreamAlways == Spec => []StreamInv
BY StreamInit, StreamNext, PTL DEF Spec

(* Whatever is posted, however writev and recv split it and whoever holds  *)
(* the pair's mutex (Pair::write, Pair::read): all bytes of all posted     *)
(* operations reach the receiver in order, none is lost, torn or read into *)
(* the wrong operation.                                                    *)
THEOREM StreamIsIntact == Spec => []StreamIntact
<1>1. StreamInv => StreamIntact
  BY DEF StreamInv
<1> QED
  BY <1>1, StreamAlways, PTL

(* An operation whose sender was told that it completed                    *)
(* (Pair::writeComplete) has no byte left to write.                        *)
THEOREM StreamCompletedIsWritten == Spec => []CompletedIsWritten
<1>1. StreamInv => CompletedIsWritten
  <2> SUFFICES ASSUME StreamInv, NEW o \in completed, NEW k \in 1 .. Len(Pending), Pending[k].op = o
               PROVE  FALSE
    BY DEF CompletedIsWritten
  <2>1. TypeOK /\ StreamEnds /\ PostedOnce /\ CompletedFirst /\ Shape
    BY StreamShape DEF StreamInv, StreamIntact
  <2>2. PICK p \in Nat, q \in Nat : p = Len(posted) /\ q = Len(Pending) /\ q <= p
    BY <2>1 DEF StreamEnds, Shape, TypeOK
  <2>3. PICK l \in 1 .. p - q : posted[l] = o
    BY <2>1, <2>2 DEF CompletedFirst
  <2>4. posted[(p - q) + k] = o
    BY <2>1, <2>2 DEF StreamEnds
  <2>5. l \in 1 .. p /\ (p - q) + k \in 1 .. p /\ l # (p - q) + k
    BY <2>2
  <2> QED
    BY <2>1, <2>2, <2>3, <2>4, <2>5 DEF PostedOnce
<1> QED
  BY <1>1, StreamAlways, PTL

(* The pair implements a FIFO queue of operations: posting one             *)
(* (Pair::sendAsyncMode) puts it in, completing its read                   *)
(* (Pair::readComplete) takes the oldest out, and no other step shows.     *)
THEOREM StreamIsFifo == Spec => FifoRefinement
<1>1. Init => Channel!Init
  BY DEF Init, Channel!Init
<1>2. StreamInv /\ [Next]_vars => [Channel!Next]_<<posted, handled>>
  <2> SUFFICES ASSUME StreamInv, [Next]_vars, UNCHANGED <<posted, handled>> => FALSE
               PROVE  Channel!Next
    OBVIOUS
  <2>1. ASSUME NEW o \in Ops, SendAsyncMode(o) PROVE Channel!Next
    <3>1. Channel!Put(o)
      BY <2>1 DEF SendAsyncMode, Channel!Put
    <3> QED
      BY <3>1 DEF Channel!Next
  <2>2. CASE ReadComplete
    <3>1. posted' = posted
      BY <2>2 DEF ReadComplete
    <3>2. Channel!Get
      BY <2>2, <3>1, ReadCompleteEffect DEF Channel!Get
    <3> QED
      BY <3>2 DEF Channel!Next
  <2>3. CASE \/ HandleEpollOut \/ Write \/ (\E n \in 1 .. SocketSize : ReadBytes(n))
             \/ (\E o \in Ops : RegisterBuffer(o))
             \/ (\E side \in Sides, o \in Ops : DestroyUnboundBuffer(side, o))
             \/ UNCHANGED vars
    BY <2>3 DEF HandleEpollOut, Write, WritePart, WriteRest, WriteBlocked, ReadBytes,
                RegisterBuffer, DestroyUnboundBuffer, vars
  <2> QED
    BY <2>1, <2>2, <2>3 DEF Next, Read
<1> QED
  BY <1>1, <1>2, StreamAlways, PTL DEF Spec, FifoRefinement, Channel!Spec
=============================================================================
