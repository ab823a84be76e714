---------------------------- MODULE PairStream ----------------------------
(***************************************************************************)
(* One direction of a connected pair in asynchronous mode, byte by byte    *)
(* (gloo/transport/tcp/pair.cc): sendAsyncMode, prepareWrite, write,       *)
(* writeComplete and the EPOLLOUT half of handleReadWrite on the sending   *)
(* side; prepareRead, read and readComplete on the receiving side.         *)
(*                                                                         *)
(* The mutex of the sending pair is held from the first writev of an       *)
(* operation until its last one or EAGAIN, by the thread that posts the    *)
(* operation ("caller") or by the loop thread ("loop"); the peer drains    *)
(* the socket meanwhile.  An operation is a model value, its wire format a *)
(* preamble of Preamble bytes that carries its opcode and length, followed *)
(* by its payload.                                                         *)
(***************************************************************************)
EXTENDS Naturals, Sequences, Functions

CONSTANTS
  Ops,         \* the operations that may be posted
  Opcode,      \* Opcode[o], the preamble's opcode
  Length,      \* Length[o], the preamble's length field
  Preamble,    \* sizeof(op.preamble)
  SocketSize   \* bytes the socket buffers between the two sides hold

Payloads == {"SEND_BUFFER", "SEND_UNBOUND_BUFFER"}
Notifications == {"NOTIFY_SEND_READY", "NOTIFY_RECV_READY"}

ASSUME OpsAssumption ==
  /\ Opcode \in [Ops -> Payloads \cup Notifications]
  /\ Length \in [Ops -> Nat]
ASSUME SizesAssumption == Preamble \in Nat \ {0} /\ SocketSize \in Nat \ {0}

VARIABLES
  tx,          \* tx_: operations with a transmission in progress
  holder,      \* the thread inside write(), if any
  inPlace,     \* the caller's operation while it is written in place
  epollout,    \* the descriptor is registered for EPOLLOUT
  wire,        \* bytes in the socket
  rx,          \* rx_: the bytes read of the current operation
  registered,  \* bound buffers registered at the receiving pair
  dead,        \* <<side, o>>: that side destroyed the unbound buffer of o
  completed,   \* operations whose sender was told they completed
  posted,      \* operations in the order they were posted
  handled      \* operations in the order the receiver handled them

vars == <<tx, holder, inPlace, epollout, wire, rx, registered, dead, completed,
          posted, handled>>

Sides == {"sender", "receiver"}
TxOp == [op : Ops, nwritten : Nat]
Byte == [op : Ops, at : Nat]

TypeOK ==
  /\ tx \in Seq(TxOp)
  /\ holder \in {"none", "caller", "loop"}
  /\ inPlace \in Seq(TxOp) /\ Len(inPlace) \leq 1
  /\ epollout \in BOOLEAN
  /\ wire \in Seq(Byte) /\ Len(wire) \leq SocketSize
  /\ rx \in Seq(Byte)
  /\ registered \subseteq Ops
  /\ dead \subseteq Sides \X Ops
  /\ completed \subseteq Ops
  /\ posted \in Seq(Ops)
  /\ handled \in Seq(Ops)

Init ==
  /\ tx = <<>> /\ inPlace = <<>> /\ wire = <<>> /\ rx = <<>>
  /\ holder = "none"
  /\ epollout = FALSE
  /\ registered = {} /\ dead = {} /\ completed = {}
  /\ posted = <<>> /\ handled = <<>>

-----------------------------------------------------------------------------
(* A notification announces the length of the buffer, and carries nothing. *)
PayloadLength(o) == IF Opcode[o] \in Payloads THEN Length[o] ELSE 0

(* preamble.nbytes *)
NBytes(o) == Preamble + PayloadLength(o)

BytesOf(o, from, to) == [k \in 1 .. to - from |-> [op |-> o, at |-> from + k]]

(* The operation write() works on.                                         *)
Current == IF holder = "caller" THEN Head(inPlace) ELSE Head(tx)

Remaining == NBytes(Current.op) - Current.nwritten
Room == SocketSize - Len(wire)

-----------------------------------------------------------------------------
(* Mutant of SendAsyncMode: write in place although earlier operations are *)
(* still queued.                                                           *)
SendOvertaking(o) ==
  /\ holder = "none"
  /\ o \notin Range(posted)
  /\ posted' = Append(posted, o)
  /\ holder' = "caller" /\ inPlace' = <<[op |-> o, nwritten |-> 0]>>
  /\ UNCHANGED <<tx, epollout, wire, rx, registered, dead, completed, handled>>

(* Pair::sendAsyncMode: behind earlier operations, else in place.  The     *)
(* unbound buffer of a posted operation may already be gone.               *)
SendAsyncMode(o) ==
  /\ holder = "none"
  /\ o \notin Range(posted)
  /\ posted' = Append(posted, o)
  /\ \/ /\ tx # <<>>
        /\ tx' = Append(tx, [op |-> o, nwritten |-> 0])
        /\ UNCHANGED <<holder, inPlace>>
     \/ /\ tx = <<>>
        /\ holder' = "caller" /\ inPlace' = <<[op |-> o, nwritten |-> 0]>>
        /\ UNCHANGED tx
  /\ UNCHANGED <<epollout, wire, rx, registered, dead, completed, handled>>

(* Pair::handleEvents with EPOLLOUT: try_lock succeeded, and the queue     *)
(* is flushed from its head.                                               *)
HandleEpollOut ==
  /\ epollout /\ Room > 0
  /\ holder = "none"
  /\ tx # <<>>
  /\ holder' = "loop"
  /\ UNCHANGED <<tx, inPlace, epollout, wire, rx, registered, dead, completed, posted, handled>>

(* Mutant of WritePart: the sender is told before the last byte is out.    *)
WritePartCompletes(n) ==
  /\ holder # "none" /\ <<"sender", Current.op>> \notin dead
  /\ n < Remaining /\ n \leq Room
  /\ wire' = wire \o BytesOf(Current.op, Current.nwritten, Current.nwritten + n)
  /\ completed' = completed \cup {Current.op}
  /\ \/ /\ holder = "caller"
        /\ inPlace' = [inPlace EXCEPT ![1].nwritten = @ + n]
        /\ UNCHANGED tx
     \/ /\ holder = "loop"
        /\ tx' = [tx EXCEPT ![1].nwritten = @ + n]
        /\ UNCHANGED inPlace
  /\ UNCHANGED <<holder, epollout, rx, registered, dead, posted, handled>>

(* writev accepts n of the remaining bytes, not the last: write() retries. *)
WritePart(n) ==
  /\ holder # "none" /\ <<"sender", Current.op>> \notin dead
  /\ n < Remaining /\ n \leq Room
  /\ wire' = wire \o BytesOf(Current.op, Current.nwritten, Current.nwritten + n)
  /\ \/ /\ holder = "caller"
        /\ inPlace' = [inPlace EXCEPT ![1].nwritten = @ + n]
        /\ UNCHANGED tx
     \/ /\ holder = "loop"
        /\ tx' = [tx EXCEPT ![1].nwritten = @ + n]
        /\ UNCHANGED inPlace
  /\ UNCHANGED <<holder, epollout, rx, registered, dead, completed, posted, handled>>

(* Mutant of WriteRest: EPOLLOUT is dropped after the first operation.     *)
WriteRestOnce ==
  /\ holder # "none" /\ <<"sender", Current.op>> \notin dead
  /\ Remaining \leq Room
  /\ wire' = wire \o BytesOf(Current.op, Current.nwritten, NBytes(Current.op))
  /\ completed' = completed \cup {Current.op}
  /\ \/ /\ holder = "caller"
        /\ holder' = "none" /\ inPlace' = <<>>
        /\ UNCHANGED <<tx, epollout>>
     \/ /\ holder = "loop"
        /\ tx' = Tail(tx)
        /\ holder' = "none" /\ epollout' = FALSE
        /\ UNCHANGED inPlace
  /\ UNCHANGED <<rx, registered, dead, posted, handled>>

(* writev accepts all that remains: writeComplete.  The loop thread goes   *)
(* on with the queue, and gives up EPOLLOUT when there is nothing left.    *)
WriteRest ==
  /\ holder # "none" /\ <<"sender", Current.op>> \notin dead
  /\ Remaining \leq Room
  /\ wire' = wire \o BytesOf(Current.op, Current.nwritten, NBytes(Current.op))
  /\ completed' = completed \cup {Current.op}
  /\ \/ /\ holder = "caller"
        /\ holder' = "none" /\ inPlace' = <<>>
        /\ UNCHANGED <<tx, epollout>>
     \/ /\ holder = "loop"
        /\ tx' = Tail(tx)
        /\ holder' = IF tx' = <<>> THEN "none" ELSE "loop"
        /\ epollout' = (tx' # <<>>)
        /\ UNCHANGED inPlace
  /\ UNCHANGED <<rx, registered, dead, posted, handled>>

(* Mutant of WriteBlocked: the queued operation starts again at byte 0.    *)
WriteBlockedRestart ==
  /\ holder # "none"
  /\ Room = 0 \/ <<"sender", Current.op>> \in dead
  /\ holder' = "none"
  /\ \/ /\ holder = "caller"
        /\ tx' = <<[op |-> Current.op, nwritten |-> 0]>>
        /\ inPlace' = <<>>
        /\ epollout' = TRUE
     \/ /\ holder = "loop"
        /\ UNCHANGED <<tx, inPlace, epollout>>
  /\ UNCHANGED <<wire, rx, registered, dead, completed, posted, handled>>

(* EAGAIN, or the unbound buffer no longer exists: write() returns false.  *)
(* The caller queues its operation and asks for EPOLLOUT; the loop thread  *)
(* leaves it at the head of the queue.                                     *)
WriteBlocked ==
  /\ holder # "none"
  /\ Room = 0 \/ <<"sender", Current.op>> \in dead
  /\ holder' = "none"
  /\ \/ /\ holder = "caller"
        /\ tx' = inPlace /\ inPlace' = <<>>
        /\ epollout' = TRUE
     \/ /\ holder = "loop"
        /\ UNCHANGED <<tx, inPlace, epollout>>
  /\ UNCHANGED <<wire, rx, registered, dead, completed, posted, handled>>

-----------------------------------------------------------------------------
(* What prepareRead asks for: the rest of the preamble; then the rest of   *)
(* the payload the preamble describes; a negative count (here: no step)    *)
(* while the bound buffer is not registered or the unbound one is gone.    *)
InPreamble == Len(rx) < Preamble

TargetReady(o) ==
  CASE Opcode[o] = "SEND_BUFFER" -> o \in registered
    [] Opcode[o] = "SEND_UNBOUND_BUFFER" -> <<"receiver", o>> \notin dead
    [] OTHER -> TRUE

Wanted == IF InPreamble THEN Preamble - Len(rx) ELSE NBytes(rx[1].op) - Len(rx)

(* Pair::read: recv returns n bytes.                                       *)
ReadBytes(n) ==
  /\ ~InPreamble => TargetReady(rx[1].op)
  /\ n \leq Wanted /\ n \leq Len(wire)
  /\ rx' = rx \o SubSeq(wire, 1, n)
  /\ wire' = SubSeq(wire, n + 1, Len(wire))
  /\ UNCHANGED <<tx, holder, inPlace, epollout, registered, dead, completed, posted, handled>>

(* Pair::readComplete: prepareRead wants nothing more.                     *)
ReadComplete ==
  /\ ~InPreamble /\ TargetReady(rx[1].op)
  /\ Wanted = 0
  /\ handled' = Append(handled, rx[1].op)
  /\ rx' = <<>>
  /\ UNCHANGED <<tx, holder, inPlace, epollout, wire, registered, dead, completed, posted>>

(* Pair::registerBuffer at the receiving side, possibly after the bytes    *)
(* for the buffer have arrived.                                            *)
RegisterBuffer(o) ==
  /\ Opcode[o] = "SEND_BUFFER"
  /\ o \notin registered
  /\ registered' = registered \cup {o}
  /\ UNCHANGED <<tx, holder, inPlace, epollout, wire, rx, dead, completed, posted, handled>>

(* The owner of an unbound buffer destroys it before the operation is      *)
(* done.  ~ShareableNonOwningPtr waits while write() or read() holds a     *)
(* NonOwningPtr, so this never happens inside write().                     *)
DestroyUnboundBuffer(side, o) ==
  /\ Opcode[o] = "SEND_UNBOUND_BUFFER"
  /\ <<side, o>> \notin dead
  /\ ~(side = "sender" /\ holder # "none" /\ Current.op = o)
  /\ dead' = dead \cup {<<side, o>>}
  /\ UNCHANGED <<tx, holder, inPlace, epollout, wire, rx, registered, completed, posted, handled>>

Write == (\E n \in 1 .. SocketSize : WritePart(n)) \/ WriteRest \/ WriteBlocked
Read == (\E n \in 1 .. SocketSize : ReadBytes(n)) \/ ReadComplete

Next ==
  \/ \E o \in Ops : SendAsyncMode(o)
  \/ HandleEpollOut
  \/ Write
  \/ Read
  \/ \E o \in Ops : RegisterBuffer(o)
  \/ \E side \in Sides, o \in Ops : DestroyUnboundBuffer(side, o)

Spec == Init /\ [][Next]_vars

(* The kernel makes progress on a write in progress, the loop threads poll *)
(* level-triggered descriptors forever, and the receiver creates the       *)
(* buffers it is sent data for.                                            *)
FairSpec ==
  /\ Spec
  /\ WF_vars(HandleEpollOut) /\ WF_vars(Write) /\ WF_vars(Read)
  /\ \A o \in Ops : WF_vars(RegisterBuffer(o))

-----------------------------------------------------------------------------
(* Operations with bytes that were not yet given to the socket, in order.  *)
Pending == inPlace \o tx

(* The bytes on their way, up to the one that is written next.             *)
Stream ==
  rx \o wire \o
  IF Pending = <<>> THEN <<>>
  ELSE <<[op |-> Pending[1].op, at |-> Pending[1].nwritten + 1]>>

(* The byte c comes right after the byte b when the posted operations are  *)
(* written one after the other.                                            *)
Follows(b, c) ==
  IF b.at < NBytes(b.op) THEN c = [op |-> b.op, at |-> b.at + 1]
  ELSE c.at = 1 /\ \E i \in 1 .. Len(posted) - 1 : posted[i] = b.op /\ posted[i + 1] = c.op

(* What was handled is a prefix of what was posted, and the bytes on their *)
(* way begin with the first byte of the operation after it.                *)
StreamBegins ==
  /\ Len(handled) \leq Len(posted)
  /\ \A k \in 1 .. Len(handled) : handled[k] = posted[k]
  /\ Stream # <<>> =>
       /\ Len(handled) < Len(posted)
       /\ Stream[1] = [op |-> posted[Len(handled) + 1], at |-> 1]

(* What is pending is a suffix of what was posted, of which only the first *)
(* operation can be partly written; if nothing is pending the bytes on     *)
(* their way end with the last byte of the last operation.                 *)
StreamEnds ==
  /\ Len(Pending) \leq Len(posted)
  /\ \A k \in 1 .. Len(Pending) :
       /\ Pending[k].op = posted[Len(posted) - Len(Pending) + k]
       /\ Pending[k].nwritten < NBytes(Pending[k].op)
       /\ k > 1 => Pending[k].nwritten = 0
  /\ Pending = <<>> =>
       IF Stream = <<>> THEN Len(handled) = Len(posted)
       ELSE LET o == posted[Len(posted)] IN Stream[Len(Stream)] = [op |-> o, at |-> NBytes(o)]

(* The bytes read so far belong to one operation.                          *)
ReadIntact ==
  /\ \A k \in 1 .. Len(rx) : rx[k] = [op |-> rx[1].op, at |-> k]
  /\ rx # <<>> => Len(rx) \leq NBytes(rx[1].op)

(* The stream is intact: what was handled, the bytes read, the bytes in    *)
(* the socket and the bytes still to be written are, in this order, all    *)
(* bytes of all posted operations: partial writes resume where they        *)
(* stopped, no operation is torn by another, no byte is read into the      *)
(* wrong operation.                                                        *)
StreamIntact ==
  /\ TypeOK
  /\ StreamBegins /\ StreamEnds /\ ReadIntact
  /\ \A k \in 1 .. Len(Stream) - 1 : Follows(Stream[k], Stream[k + 1])

(* waitSend returns only after the last byte left the user's memory: the   *)
(* buffer may be reused.                                                   *)
CompletedIsWritten ==
  \A o \in completed : \A k \in 1 .. Len(Pending) : Pending[k].op # o

(* The pair is a FIFO queue of operations.                                 *)
Channel == INSTANCE Fifo WITH in <- posted, out <- handled

FifoRefinement == Channel!Spec

(* Unless an unbound buffer is destroyed under an operation, everything    *)
(* that is posted is handled.                                              *)
EverythingIsHandled ==
  \A o \in Ops : (o \in Range(posted)) ~> (o \in Range(handled) \/ dead # {})
=============================================================================
