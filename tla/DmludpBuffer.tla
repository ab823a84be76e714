---------------------------- MODULE DmludpBuffer ----------------------------
(***************************************************************************)
(* The pure parts of a dmludp connection's sending side: the send buffer   *)
(* (gloo/send_buf.h), the congestion window (gloo/Recovery.h) and the      *)
(* priorities of the segments (gloo/connection.h).  A segment is its       *)
(* offset and its length; the bytes it points to play no part.             *)
(***************************************************************************)
EXTENDS Integers, Sequences, SequencesExt, FiniteSetsExt

CONSTANTS
  SEND_BUFFER_SIZE,        \* longest segment (1350)
  INITIAL_WINDOW_PACKETS,  \* segments of the smallest window (8)
  PRIORITY_UNIT,           \* bytes per entry of norm2_vec as it is indexed (1024)
  OutOfBounds              \* what norm2_vec may yield past its end

ASSUME SizesAssumption ==
  /\ SEND_BUFFER_SIZE \in Nat \ {0, 1}
  /\ INITIAL_WINDOW_PACKETS \in Nat \ {0}
  /\ PRIORITY_UNIT \in 1 .. SEND_BUFFER_SIZE
  /\ OutOfBounds \subseteq 0 .. 255

INI_WIN == SEND_BUFFER_SIZE * INITIAL_WINDOW_PACKETS

-----------------------------------------------------------------------------
(* SendBuf.  offset_recv[o] is TRUE until the segment at o is acknowledged *)
(* or given up.  pos is 0 whenever emit is not running, and is left out.   *)

Segment == [off : Nat, len : Nat]

EmptySendBuf ==
  [data |-> <<>>, off |-> 0, max_data |-> INI_WIN, sent |-> 0, offset_recv |-> <<>>]

Offsets(b) == {b.data[i].off : i \in DOMAIN b.data}

(* The bytes in the first n segments, for every n.                         *)
Sums(segments) ==
  LET sum[n \in 0 .. Len(segments)] == IF n = 0 THEN 0 ELSE sum[n - 1] + segments[n].len
  IN  sum
Length(segments) == Sums(segments)[Len(segments)]

(* Unsigned 64-bit arithmetic; no length here comes near the bound.        *)
U64 == 2^30

cap(b) == (b.max_data - Length(b.data)) % U64

(* Where the i-th segment of a write begins.  The first one has length     *)
(* first, to complete a segment begun by the previous window, unless first *)
(* is 0; the others have full size.                                        *)
Start(first, i) ==
  IF first = 0 THEN (i - 1) * SEND_BUFFER_SIZE
  ELSE IF i = 1 THEN 0 ELSE first + (i - 2) * SEND_BUFFER_SIZE

(* The segments that n bytes from offset off are cut into.                 *)
Segments(off, n, first) ==
  [i \in {j \in 1 .. n : Start(first, j) < n} |->
     [off |-> off + Start(first, i), len |-> Min({n, Start(first, i + 1)}) - Start(first, i)]]

AppendSegments(b, n, new) ==
  [b EXCEPT !.data = @ \o new,
            !.off = @ + n,
            !.offset_recv = [o \in DOMAIN @ \cup {new[i].off : i \in DOMAIN new} |->
                               \/ o \notin DOMAIN b.offset_recv
                               \/ b.offset_recv[o]]]

Extend(b, n, off_len) == AppendSegments(b, n, Segments(b.off, n, Min({n, off_len})))

(* SendBuf::write on an empty buffer: the window applies from now on, but  *)
(* the capacity was computed from the previous one.                        *)
WriteEmpty(b, n, window, off_len) ==
  IF window = 0 THEN [b |-> [b EXCEPT !.max_data = 0, !.sent = 0], n |-> 0]
  ELSE [b |-> Extend([b EXCEPT !.max_data = window, !.sent = 0], n, off_len), n |-> n]

(* ... and on one that still holds segments to retransmit.                 *)
WriteMore(b, n, window, off_len) ==
  IF Length(b.data) >= window THEN [b |-> b, n |-> 0]
  ELSE [b |-> Extend(b, n, off_len), n |-> n]

WriteUpTo(b, left, window, off_len, room) ==
  CASE room = 0 -> [b |-> b, n |-> 0]
    [] room # 0 /\ left = 0 -> [b |-> b, n |-> -1]
    [] room # 0 /\ left # 0 /\ b.data = <<>> -> WriteEmpty(b, Min({left, room}), window, off_len)
    [] OTHER -> WriteMore(b, Min({left, room}), window, off_len)

write(b, left, window, off_len) == WriteUpTo(b, left, window, off_len, cap(b))

(* How many segments one round of emit hands out: it ends when the bytes   *)
(* handed out since the buffer was last empty fill the window, or at the   *)
(* end of the buffer.                                                      *)
Emitted(b) ==
  Min({k \in 1 .. Len(b.data) :
         \/ b.sent + Length(SubSeq(b.data, 1, k)) >= b.max_data
         \/ k = Len(b.data)})

EmitFirst(b, out) == [b |-> [b EXCEPT !.sent = @ + Length(out)], out |-> out]
emit(b) == EmitFirst(b, SubSeq(b.data, 1, Emitted(b)))

(* ack_and_drop, for every offset in dropped, and then recv_and_drop.      *)
ack_and_drop(b, dropped) ==
  [b EXCEPT !.offset_recv = [o \in DOMAIN @ |-> @[o] /\ o \notin dropped]]

(* Those of the first n segments that have an offset in kept.              *)
Selections(segments, kept) ==
  LET selected[n \in 0 .. Len(segments)] ==
        IF n = 0 THEN <<>>
        ELSE IF segments[n].off \in kept THEN Append(selected[n - 1], segments[n])
        ELSE selected[n - 1]
  IN  selected
Select(segments, kept) == Selections(segments, kept)[Len(segments)]

DropAllBut(b, kept) ==
  IF b.data = <<>> THEN b
  ELSE [b EXCEPT !.data = Select(@, kept), !.offset_recv = [o \in kept |-> TRUE]]
recv_and_drop(b) == DropAllBut(b, {o \in DOMAIN b.offset_recv : b.offset_recv[o]})

-----------------------------------------------------------------------------
(* Recovery.  Weights are counted in twentieths.                           *)

EmptyRecovery ==
  [incre_win |-> 0, decre_win |-> 0, incre_win_copy |-> 0, decre_win_copy |-> 0,
   former_win_vecter |-> {}, roll_back_flag |-> FALSE, function_change |-> FALSE]

(* (3 w^2 - 12 w + 4) segments, in bytes, times 400.                       *)
Cubic(w) == (3 * w * w - 240 * w + 1600) * SEND_BUFFER_SIZE

Increase(x) == IF x > 0 THEN x \div 400 ELSE 0
Decrease(x) == IF x > 0 THEN 0 ELSE (-x) \div 400

(* The first loss switches to what the cubic has added up so far.          *)
Switched(r, w) ==
  IF w > 0 THEN [r EXCEPT !.function_change = TRUE, !.incre_win = r.incre_win_copy,
                          !.decre_win = r.decre_win_copy]
  ELSE r

update_win(r, w, num) ==
  IF r.function_change
  THEN [r EXCEPT !.incre_win = @ + Increase(Cubic(w)),
                 !.decre_win = @ + Decrease(Cubic(w)),
                 !.roll_back_flag = TRUE]
  ELSE [Switched(r, w) EXCEPT !.incre_win = @ + num * SEND_BUFFER_SIZE,
                              !.incre_win_copy = @ + Increase(Cubic(w)),
                              !.decre_win_copy = @ + Decrease(Cubic(w)),
                              !.roll_back_flag = TRUE]

NewWindow(r, win) ==
  [r |-> [r EXCEPT !.former_win_vecter = IF r.roll_back_flag THEN @ ELSE @ \cup {win},
                   !.incre_win = 0, !.decre_win = 0,
                   !.incre_win_copy = 0, !.decre_win_copy = 0],
   window |-> Max({win, INI_WIN})]
cwnd(r) == NewWindow(r, Max({0, 2 * r.incre_win - r.decre_win}))

rollback(r) ==
  IF r.former_win_vecter = {} THEN [r |-> r, window |-> INI_WIN]
  ELSE LET win == Max(r.former_win_vecter)
       IN  [r |-> [r EXCEPT !.former_win_vecter = @ \ {win}], window |-> win]

-----------------------------------------------------------------------------
(* norm2_vec has one entry per 1350 io vectors, not bytes: one entry.  An  *)
(* offset past it reads what lies behind the vector.                       *)
InBounds(o) == o \div PRIORITY_UNIT = 0

(* The ways priority_calculation may come out for the offsets in offs.     *)
priority_calculation(offs) ==
  {pr \in [offs -> {3} \cup OutOfBounds] : \A o \in offs : InBounds(o) => pr[o] = 3}

(* What a missing segment of priority p adds to the weights.               *)
Weight(p) == CASE p = 1 -> 3 [] p = 2 -> 4 [] p = 3 -> 5 [] OTHER -> 0
=============================================================================
