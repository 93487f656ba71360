------------------------------- MODULE SendBuf -------------------------------
(***************************************************************************)
(* The send-side stream buffer, quiche/src/stream/send_buf.rs.  A SendBuf  *)
(* is one record; each method is an operator on it.  Bytes are named by    *)
(* their offset.  A chunk (RangeBuf) covers off .. off+len-1 and `pos' of  *)
(* its bytes were emitted.  `pos' of the buffer is the code's index plus   *)
(* one.  `acked' is the RangeSet of acked offsets as the set of bytes it   *)
(* covers; `acks' says that a range was ever inserted, which is what tells *)
(* the empty RangeSet from the one that holds the empty range 0..0.        *)
(***************************************************************************)
EXTENDS Integers, Sequences, FiniteSets, FiniteSetsExt, SequencesExt

CONSTANT SEND_BUFFER_SIZE

ASSUME BufferSizeAssumption == SEND_BUFFER_SIZE \in Nat \ {0}

NoFin == -1   \* fin_off is None

new(max_data) ==
    [data |-> <<>>, pos |-> 1, off |-> 0, emit_off |-> 0, len |-> 0,
     max_data |-> max_data, fin_off |-> NoFin, shutdown |-> FALSE,
     acked |-> {}, acks |-> FALSE, error |-> FALSE]

Chunk == [off : Nat, len : Nat, pos : Nat]

(* RangeBuf::off, RangeBuf::max_off, RangeBuf::is_empty *)
FrontOf(buf) == buf.off + buf.pos
max_off(buf) == buf.off + buf.len
Unsent(buf) == FrontOf(buf) .. max_off(buf) - 1

\* The bytes emit has still to send: those of the chunks from pos on.
Pending(sb) == UNION {Unsent(sb.data[i]) : i \in sb.pos .. Len(sb.data)}

off_front(sb) == IF Pending(sb) = {} THEN sb.off ELSE Min(Pending(sb))

\* The highest offset below which everything was acked.
ack_off(sb) == CHOOSE k \in 0..sb.off : /\ 0 .. k - 1 \subseteq sb.acked
                                       /\ k \notin sb.acked

cap(sb) == sb.max_data - sb.off

is_fin(sb) == sb.fin_off = sb.off

\* Mutant: the final offset itself must be acked too.
is_complete_inclusive(sb) ==
    sb.fin_off # NoFin /\ sb.acks /\ sb.acked = 0 .. sb.fin_off

\* acked == (0..fin_off)
is_complete(sb) ==
    /\ sb.fin_off # NoFin
    /\ sb.acks
    /\ sb.acked = 0 .. sb.fin_off - 1

ack(sb, off, len) == [sb EXCEPT !.acked = @ \cup (off .. off + len - 1), !.acks = TRUE]

-----------------------------------------------------------------------------
(* write: n bytes, cut to the capacity, in chunks of SEND_BUFFER_SIZE.       *)

\* Mutant: the final offset is not checked.
WriteError_never(sb, n, fin) == FALSE

\* The FinalSize errors: writing past the final offset or undoing it.
WriteError(sb, n, fin) ==
    /\ sb.fin_off # NoFin
    /\ \/ sb.off + n > sb.fin_off
       \/ sb.off + n = sb.fin_off /\ ~(fin /\ n <= cap(sb))

Chunks(off, n) ==
    [i \in 1 .. (n + SEND_BUFFER_SIZE - 1) \div SEND_BUFFER_SIZE |->
        [off |-> off + (i - 1) * SEND_BUFFER_SIZE,
         len |-> Min({SEND_BUFFER_SIZE, n - (i - 1) * SEND_BUFFER_SIZE}),
         pos |-> 0]]

write(sb, n, fin) ==
    LET stored == Min({n, cap(sb)})
        final == IF fin /\ n <= cap(sb)
                 THEN [sb EXCEPT !.fin_off = sb.off + n] ELSE sb
    IN  IF ack_off(sb) >= sb.off + n \/ stored = 0
        THEN final
        ELSE [final EXCEPT !.data = @ \o Chunks(sb.off, stored),
                           !.off = @ + stored, !.len = @ + stored]

-----------------------------------------------------------------------------
(* emit: up to n bytes from the front, as long as they are contiguous.       *)

EmitEnd(sb, n) ==
    LET front == off_front(sb)
    IN  Max({e \in front .. front + n : front .. e - 1 \subseteq Pending(sb)})

emit(sb, n) ==
    LET front == off_front(sb)
        end == EmitEnd(sb, n)
        touched == {i \in sb.pos .. Len(sb.data) :
                       Unsent(sb.data[i]) \cap (front .. end - 1) # {}}
        last == Max(touched)
    IN  [sb EXCEPT
           !.data = [i \in DOMAIN sb.data |->
               IF i \in touched
               THEN [sb.data[i] EXCEPT !.pos = Min({end, max_off(sb.data[i])}) - sb.data[i].off]
               ELSE sb.data[i]],
           !.pos = IF touched = {} THEN @
                   ELSE IF end < max_off(sb.data[last]) THEN last ELSE last + 1,
           !.len = @ - (end - front),
           !.emit_off = Max({@, end})]

-----------------------------------------------------------------------------
ack_and_drop(sb, off, len) ==
    LET a == ack(sb, off, len)
        acked_off == ack_off(a)
        drop == Max({d \in 0 .. Len(sb.data) :
                        \A i \in 1 .. d : max_off(sb.data[i]) <= acked_off})
    IN  IF off > acked_off THEN a
        ELSE [a EXCEPT !.data = SubSeq(@, drop + 1, Len(@)),
                       !.pos = Max({@ - drop, 1})]

\* The chunks that hold bytes of a retransmission of off .. upto-1.
Hit(sb, off, upto) ==
    {i \in DOMAIN sb.data : sb.data[i].off < upto /\ off <= max_off(sb.data[i])}

\* Such a chunk ends at upto, and is sent again from off on.
Rewind(buf, off, upto) ==
    LET pos == Min({buf.pos, upto - buf.off})
    IN  [buf EXCEPT !.len = Min({@, upto - buf.off}),
                    !.pos = IF off > buf.off THEN Min({pos, off - buf.off}) ELSE 0]

\* RangeBuf::split_off: the part of a chunk after upto.
split_off(buf, upto) ==
    [off |-> upto, len |-> max_off(buf) - upto, pos |-> Max({FrontOf(buf), upto}) - upto]

\* The chunks after it: the last one is split when it goes on after upto.
Rescheduled(sb, off, upto) ==
    LET hit == Hit(sb, off, upto)
        again == [i \in DOMAIN sb.data |-> IF i \in hit THEN Rewind(sb.data[i], off, upto)
                                           ELSE sb.data[i]]
        longer == {i \in hit : upto < max_off(sb.data[i])}
    IN  IF longer = {} THEN again
        ELSE InsertAt(again, Max(longer) + 1, split_off(sb.data[Max(longer)], upto))

\* Mutant: pos stays behind the chunks that are sent again.
retransmit_pos(sb, off, len) ==
    LET upto == off + len
    IN  IF upto <= ack_off(sb) \/ Hit(sb, off, upto) = {} THEN sb
        ELSE [sb EXCEPT !.data = Rescheduled(sb, off, upto)]

retransmit(sb, off, len) ==
    LET upto == off + len
        hit == Hit(sb, off, upto)
        regained == MapThenSumSet(
                        LAMBDA i : Min({sb.data[i].pos, upto - sb.data[i].off})
                                       - Rewind(sb.data[i], off, upto).pos, hit)
    IN  IF upto <= ack_off(sb) \/ hit = {} THEN sb
        ELSE [sb EXCEPT !.data = Rescheduled(sb, off, upto),
                        !.pos = Min({@} \cup hit),
                        !.len = @ + regained]

-----------------------------------------------------------------------------
UnsentOff(sb) == Max({off_front(sb), sb.emit_off})

reset(sb) ==
    LET r == [sb EXCEPT !.fin_off = UnsentOff(sb), !.data = <<>>,
                        !.off = UnsentOff(sb), !.pos = 1, !.len = 0]
    IN  ack(r, 0, UnsentOff(sb))

stop(sb) == [reset(sb) EXCEPT !.error = TRUE]
shutdown(sb) == [reset(sb) EXCEPT !.shutdown = TRUE]

update_max_data(sb, max) == [sb EXCEPT !.max_data = Max({@, max})]

\* Stream::is_flushable
is_flushable(sb) ==
    /\ sb.data # <<>>
    /\ off_front(sb) < sb.off
    /\ off_front(sb) < sb.max_data
=============================================================================
