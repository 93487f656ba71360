------------------------------ MODULE RecvStream ------------------------------
(***************************************************************************)
(* The life of one peer-initiated stream's receive side: STREAM frames     *)
(* come in any order, again, and cut differently than before; RESET_STREAM *)
(* may overtake them; the application reads or shuts the stream down; the  *)
(* stream is collected once it is complete, which returns a stream credit  *)
(* to the peer.  The peer keeps to one final size.                         *)
(***************************************************************************)
EXTENDS RecvBuf

CONSTANTS
    MaxLen,      \* largest final size
    Bidi,        \* the stream has a send side too
    MayReset,    \* the peer sends RESET_STREAM
    MayShutdown  \* the application may call stream_shutdown(Read)

ASSUME RecvAssumption ==
    MaxLen \in Nat /\ {Bidi, MayReset, MayShutdown} \subseteq BOOLEAN

VARIABLES
    recv,           \* the stream's RecvBuf
    readable,       \* the stream is in StreamMap::readable
    stopped,        \* STOP_SENDING was queued
    collected,      \* the stream's state was dropped
    send_complete,  \* SendBuf::is_complete of the send side
    error,          \* a frame of the peer was refused with FinalSize
    final,          \* the final size the peer will announce
    \* history: bytes of STREAM frames, what the application was told of the end, and
    \* whether the FIN came first with data that the application had read already
    arrived, told, late_fin

connVars == <<readable, stopped, collected>>
history == <<arrived, told, late_fin>>
vars == <<recv, connVars, send_complete, error, final, history>>

Bytes(buf) == buf.off .. max_off(buf) - 1

Init ==
    /\ recv = new
    /\ readable = FALSE /\ stopped = FALSE /\ collected = FALSE
    /\ send_complete = FALSE
    /\ error = FALSE
    /\ final \in 0..MaxLen
    /\ arrived = {} /\ told = "nothing" /\ late_fin = FALSE

\* Stream::is_complete
is_complete(rb) == is_fin(rb) /\ (Bidi => send_complete)

-----------------------------------------------------------------------------
\* A frame changes the buffer: a stream that becomes readable is queued.
Becomes(new_recv) ==
    \E rb \in {new_recv} :
        /\ recv' = rb
        /\ readable' = (readable \/ (ready(rb) /\ ~ready(recv)))

\* Frame::Stream; ignored once the stream was collected.
RecvStreamFrame(buf, fin) ==
    /\ ~collected
    /\ max_off(buf) <= final
    /\ fin => max_off(buf) = final
    /\ IF WriteError(recv, buf, fin)
       THEN /\ error' = TRUE
            /\ UNCHANGED <<recv, readable, arrived, late_fin>>
       ELSE /\ Becomes(write(recv, buf, fin))
            /\ arrived' = arrived \cup Bytes(buf)
            /\ late_fin' = (late_fin \/ ( /\ fin /\ recv.fin_off = NoFin
                                         /\ buf.len > 0 /\ recv.off = final))
            /\ UNCHANGED error
    /\ UNCHANGED <<stopped, collected, send_complete, final, told>>

\* Frame::ResetStream
RecvResetFrame ==
    /\ MayReset /\ ~collected
    /\ IF ResetError(recv, final)
       THEN error' = TRUE /\ UNCHANGED <<recv, readable>>
       ELSE /\ Becomes(reset(recv, final))
            /\ UNCHANGED error
    /\ UNCHANGED <<stopped, collected, send_complete, final, history>>

\* StreamMap::collect takes the stream out of the queues.
Collect(complete, still_readable) ==
    /\ collected' = complete
    /\ readable' = (still_readable /\ ~complete)

\* stream_recv with room for cap bytes; without something to read it returns
\* Done and changes nothing.
stream_recv(cap) ==
    /\ ~collected /\ ready(recv)
    /\ recv' = emit(recv, cap)
    /\ told' = CASE recv.error -> "reset"
                 [] ~recv.error /\ is_fin(recv') -> "fin"
                 [] OTHER -> told
    /\ Collect(is_complete(recv'), ready(recv') /\ ~recv.error)
    /\ UNCHANGED <<stopped, send_complete, error, final, arrived, late_fin>>

\* stream_shutdown(Shutdown::Read)
stream_shutdown ==
    /\ MayShutdown
    /\ ~collected /\ ~recv.drain
    /\ recv' = shutdown(recv)
    /\ stopped' = (stopped \/ ~is_fin(recv'))
    /\ readable' = FALSE
    /\ UNCHANGED <<collected, send_complete, error, final, history>>

\* Mutant: the ack does not collect the stream.
AckSendSide_kept ==
    /\ Bidi /\ ~send_complete /\ ~collected
    /\ send_complete' = TRUE
    /\ UNCHANGED <<recv, connVars, error, final, history>>

\* The ack that completes the send side collects the stream, unless it is
\* readable.
AckSendSide ==
    /\ Bidi /\ ~send_complete /\ ~collected
    /\ send_complete' = TRUE
    /\ LET complete == is_fin(recv) /\ ~ready(recv)
       IN  Collect(complete, readable)
    /\ UNCHANGED <<recv, stopped, error, final, history>>

-----------------------------------------------------------------------------
Frames == [off : 0..MaxLen, len : 0..MaxLen]

Next ==
    /\ ~error
    /\ \/ \E buf \in Frames, fin \in BOOLEAN : RecvStreamFrame(buf, fin)
       \/ RecvResetFrame
       \/ \E cap \in 1..MaxLen + 1 : stream_recv(cap)
       \/ stream_shutdown
       \/ AckSendSide

Spec == Init /\ [][Next]_vars

-----------------------------------------------------------------------------
TypeOK ==
    /\ recv \in [data : SUBSET Chunk, off : Nat, len : Nat,
                 fin_off : Nat \cup {NoFin}, error : BOOLEAN, drain : BOOLEAN]
    /\ {readable, stopped, collected, send_complete, error, late_fin} \subseteq BOOLEAN
    /\ final \in 0..MaxLen /\ arrived \subseteq 0..MaxLen
    /\ told \in {"nothing", "fin", "reset"}

\* The chunks never overlap and hold exactly what arrived and was not read, however
\* the frames were cut, repeated and ordered: the application reads each byte once.
StoredIsUnread ==
    ~recv.drain /\ ~recv.error =>
        /\ UNION {Bytes(b) : b \in recv.data} = arrived \ 0 .. recv.off - 1
        /\ \A a, b \in recv.data : a # b => Bytes(a) \cap Bytes(b) = {}
        /\ 0 .. recv.off - 1 \subseteq arrived

\* The next byte to read is at the front as soon as it arrived: no chunk below off
\* and no empty chunk hides it (ready does not get stuck), and a stream with
\* something to read is in the queue the application polls.
NotStuck ==
    /\ ~recv.drain /\ ~recv.error /\ recv.off \in arrived => ready(recv)
    /\ ready(recv) /\ ~collected => readable

\* The application is told that the stream ended only after it read all of it,
\* although RESET_STREAM and FIN may both come.  The final size, once known, is what
\* was charged for the stream, and no frame of a peer that keeps to it is refused.
FinMeansAll ==
    /\ told = "fin" => 0 .. final - 1 \subseteq arrived /\ recv.off = final
    /\ recv.fin_off # NoFin => recv.fin_off = final /\ recv.len = final
    /\ ~error

\* A stream that was read to its end has told so: when nothing is left to read, the
\* application saw the FIN, and the stream is collected once its send side is
\* complete too, whichever of the two comes last.  There is exactly one exception,
\* which the code does have: a FIN that first comes with data the application had
\* read already (late_fin).  RecvBuf::write returns before it stores the chunk that
\* would mark the end, so that nobody is told.
EndReported ==
    is_fin(recv) /\ ~ready(recv) /\ ~recv.drain /\ ~recv.error =>
        \/ told = "fin" /\ (is_complete(recv) => collected)
        \/ late_fin

-----------------------------------------------------------------------------
(* Promises of the documentation that the code does not always keep.         *)

\* `will increase the limit automatically as streams are completed'
\* (set_initial_max_streams_uni): a complete stream with nothing left to read is
\* collected.
CompleteCollected == is_complete(recv) /\ ~ready(recv) => collected

\* `In order to ensure the application is notified when the stream is reset'
\* (RecvBuf::reset).
ResetNotified == recv.error /\ ~recv.drain /\ ~ready(recv) => told # "nothing"
=============================================================================
