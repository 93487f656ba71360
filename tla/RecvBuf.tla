------------------------------- MODULE RecvBuf -------------------------------
(***************************************************************************)
(* The receive-side stream buffer, quiche/src/stream/recv_buf.rs.  A       *)
(* RecvBuf is one record; each method is an operator on it.  Bytes are     *)
(* named by their offset.  `data' is the BTreeMap keyed by max_off, as the *)
(* set of its chunks (RangeBuf); a consumed chunk starts later and keeps   *)
(* its key.  The flow controller is modelled in ConnFlow.                  *)
(***************************************************************************)
EXTENDS Integers, Sequences, FiniteSets, FiniteSetsExt

NoFin == -1   \* fin_off is None

new == [data |-> {}, off |-> 0, len |-> 0, fin_off |-> NoFin,
        error |-> FALSE, drain |-> FALSE]

Chunk == [off : Nat, len : Nat]

(* RangeBuf::max_off, RangeBuf::split_off *)
max_off(buf) == buf.off + buf.len
Upto(buf, off) == [buf EXCEPT !.len = off - buf.off]
From(buf, off) == [off |-> off, len |-> max_off(buf) - off]

(* The keys of the BTreeMap, and the chunk with one of them. *)
Keys(data) == {max_off(b) : b \in data}
At(data, key) == CHOOSE b \in data : max_off(b) = key
LastKey(data) == Max(Keys(data) \cup {0})

\* Mutant: the final size is known.
is_fin_known(rb) == rb.fin_off # NoFin

\* The application has read everything up to the final size.
is_fin(rb) == rb.fin_off = rb.off

\* The chunk that comes first holds the next byte to read, or is the empty chunk
\* that marks the end.
ready(rb) ==
    \E b \in rb.data : b.off = rb.off /\ \A c \in rb.data : max_off(b) <= max_off(c)

-----------------------------------------------------------------------------
(* write *)

\* The FinalSize errors.
WriteError(rb, buf, fin) ==
    \/ rb.fin_off # NoFin /\ max_off(buf) > rb.fin_off
    \/ rb.fin_off # NoFin /\ fin /\ rb.fin_off # max_off(buf)
    \/ fin /\ max_off(buf) < rb.len

\* Mutant: what goes on after an existing chunk is dropped.
Overlap_cut(st, b) ==
    IF st.done \/ b.off > max_off(st.buf) THEN [st EXCEPT !.done = TRUE]
    ELSE IF st.buf.off >= b.off /\ max_off(st.buf) <= max_off(b)
         THEN [st EXCEPT !.done = TRUE, !.dup = TRUE]
    ELSE IF st.buf.off >= b.off /\ st.buf.off < max_off(b)
         THEN [st EXCEPT !.buf = From(@, max_off(b))]
    ELSE IF st.buf.off < b.off /\ max_off(st.buf) > b.off
         THEN [st EXCEPT !.buf = Upto(@, b.off)]
    ELSE st

\* One round of the loop over the stored chunks: `buf' is what is left of the new
\* data in front of them, `later' what goes on after an existing chunk.
Overlap(st, b) ==
    IF st.done \/ b.off > max_off(st.buf) THEN [st EXCEPT !.done = TRUE]
    ELSE IF st.buf.off >= b.off /\ max_off(st.buf) <= max_off(b)
         THEN [st EXCEPT !.done = TRUE, !.dup = TRUE]
    ELSE IF st.buf.off >= b.off /\ st.buf.off < max_off(b)
         THEN [st EXCEPT !.buf = From(@, max_off(b))]
    ELSE IF st.buf.off < b.off /\ max_off(st.buf) > b.off
         THEN [st EXCEPT !.buf = Upto(@, b.off), !.later = Append(@, From(st.buf, b.off))]
    ELSE st

Alone(buf) == [buf |-> buf, later |-> <<>>, done |-> FALSE, dup |-> FALSE]

\* The loop, over the keys from buf.off on.
OverlapAt(st, data, off, key) ==
    IF key \in Keys(data) /\ key >= off THEN Overlap(st, At(data, key)) ELSE st

Overlapped(data, buf) ==
    LET after[k \in 0 .. LastKey(data) + 1] ==
          IF k = 0 THEN Alone(buf) ELSE OverlapAt(after[k - 1], data, buf.off, k - 1)
    IN  after[LastKey(data) + 1]

\* BTreeMap::insert replaces the chunk with the same key.
InsertChunk(data, buf) == {b \in data : max_off(b) # max_off(buf)} \cup {buf}

\* Mutant: data below off is stored again.
Trim_none(rb, buf) == buf

\* Data below off is not stored again.
Trim(rb, buf) == IF rb.off > buf.off THEN From(buf, rb.off) ELSE buf

\* One round of the loop over tmp_bufs.
Turn(st) ==
    LET rb == st.rb
        buf == Trim(rb, Head(st.tmp_bufs))
        over == IF buf.off < rb.len \/ buf.len = 0 THEN Overlapped(rb.data, buf)
                ELSE Alone(buf)
    IN  IF st.tmp_bufs = <<>> THEN st
        ELSE [rb |-> IF over.dup THEN rb
                     ELSE [rb EXCEPT
                             !.len = Max({@, max_off(over.buf)}),
                             !.data = IF rb.drain THEN @ ELSE InsertChunk(@, over.buf)],
              tmp_bufs |-> Tail(st.tmp_bufs) \o over.later]

\* What a round leaves for a later one is shorter: there are at most len + 1 rounds.
Store(rb, buf) ==
    LET after[k \in 0 .. buf.len + 1] ==
          IF k = 0 THEN [rb |-> rb, tmp_bufs |-> <<buf>>] ELSE Turn(after[k - 1])
    IN  after[buf.len + 1].rb

write(rb, buf, fin) ==
    LET sized == IF fin THEN [rb EXCEPT !.fin_off = max_off(buf)] ELSE rb
    IN  IF buf.len = 0 /\ (rb.fin_off # NoFin \/ ~fin) THEN rb
        ELSE IF buf.len > 0 /\ rb.off >= max_off(buf) THEN sized
        ELSE Store(sized, buf)

-----------------------------------------------------------------------------
(* emit: up to cap bytes from the front, as long as they are contiguous.     *)

Read(st, b) ==
    LET n == Min({b.len, st.cap})
    IN  IF st.done \/ st.cap = 0 \/ b.off # st.off
        THEN [st EXCEPT !.done = TRUE, !.data = @ \cup {b}]
        ELSE [off |-> st.off + n, cap |-> st.cap - n, done |-> n < b.len,
              data |-> IF n < b.len THEN st.data \cup {From(b, b.off + n)} ELSE st.data]

\* The loop, which takes the first chunk each time.
ReadAt(st, data, key) == IF key \in Keys(data) THEN Read(st, At(data, key)) ELSE st

ReadAll(rb, cap) ==
    LET after[k \in 0 .. LastKey(rb.data) + 1] ==
          IF k = 0 THEN [off |-> rb.off, cap |-> cap, done |-> FALSE, data |-> {}]
          ELSE ReadAt(after[k - 1], rb.data, k - 1)
    IN  after[LastKey(rb.data) + 1]

emit(rb, cap) ==
    LET st == ReadAll(rb, cap)
    IN  IF rb.error THEN [rb EXCEPT !.data = {}]
        ELSE [rb EXCEPT !.data = st.data, !.off = st.off]

-----------------------------------------------------------------------------
ResetError(rb, final_size) ==
    rb.fin_off \notin {NoFin, final_size} \/ final_size < rb.len

\* The data is dropped and an empty chunk queued to notify the application,
\* which write does only if the final size is not known yet.
reset(rb, final_size) ==
    IF rb.error THEN rb
    ELSE write([rb EXCEPT !.error = TRUE, !.off = final_size, !.data = {}],
               [off |-> final_size, len |-> 0], TRUE)

shutdown(rb) == [rb EXCEPT !.drain = TRUE, !.data = {}, !.off = rb.len]
=============================================================================
