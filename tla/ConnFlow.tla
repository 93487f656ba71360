------------------------------- MODULE ConnFlow -------------------------------
(***************************************************************************)
(* Flow-control credit between two endpoints of one connection: the        *)
(* sender's limits (max_tx_data, SendBuf::max_data), the receiver's        *)
(* controllers (one per connection, one per stream), the queues that make  *)
(* send_single write MAX_DATA, MAX_STREAM_DATA, RESET_STREAM and           *)
(* STOP_SENDING, and a network that loses and reorders those frames.       *)
(*                                                                         *)
(* Stream payloads are counted, not stored: `received' is RecvBuf::len,    *)
(* `ready' how far the received data is contiguous and `off' how far it    *)
(* was read.  RecvBuf and SendBuf model the buffers themselves.            *)
(***************************************************************************)
EXTENDS Integers, FiniteSets, FiniteSetsExt

CONSTANTS
    Streams,             \* streams the sender writes and the receiver reads
    ResetStreams,        \* those of them an application may shut down
    AppLen,              \* bytes the application writes on each stream
    InitMaxData,         \* initial_max_data
    InitMaxStreamData,   \* initial_max_stream_data_*
    DefaultStreamWindow, \* DEFAULT_STREAM_WINDOW
    DefaultConnWindow,   \* DEFAULT_CONNECTION_WINDOW
    MaxStreamWindow,     \* Config::max_stream_window
    MaxConnWindow,       \* Config::max_connection_window
    EmptyFrames,         \* bound on empty_charged up to which STREAM frames without
                         \* data and FIN are sent (0: never)
    MaxLosses            \* bound on the frames the network loses

FC == INSTANCE FlowControl

\* Stream::new: RecvBuf::new(max_data, max_window).
InitStreamFlow ==
    FC!new(InitMaxStreamData,
           FC!Smaller(InitMaxStreamData, DefaultStreamWindow),
           MaxStreamWindow)

\* Connection::with_tls; both windows use integer arithmetic.
InitConnFlow ==
    FC!new(InitMaxData,
           FC!Smaller((InitMaxData \div 2) * 3, DefaultConnWindow),
           MaxConnWindow)

\* (recv_win as f64 * CONNECTION_WINDOW_FACTOR) as u64
ConnWindowFor(recv_win) == (recv_win * 3) \div 2

(***************************************************************************)
(* What the code expects of a configuration without checking it: no window *)
(* starts above its cap, and the cap of the connection's window leaves     *)
(* room for the lower bound that the streams' windows put on it.           *)
(***************************************************************************)
ASSUME ConstantsAssumption ==
    /\ IsFiniteSet(Streams) /\ ResetStreams \subseteq Streams
    /\ AppLen \in [Streams -> Nat] /\ MaxLosses \in Nat /\ EmptyFrames \in Nat
    /\ InitMaxData \in Nat /\ InitMaxStreamData \in Nat
    /\ DefaultStreamWindow \in Nat /\ DefaultConnWindow \in Nat
    /\ MaxStreamWindow \in Nat /\ MaxConnWindow \in Nat

ASSUME WindowAssumption ==
    /\ InitStreamFlow.window <= MaxStreamWindow
    /\ InitConnFlow.window <= MaxConnWindow
    /\ ConnWindowFor(MaxStreamWindow) <= MaxConnWindow

VARIABLES
    \* receiving endpoint: the connection
    flow_control, rx_data, almost_full,
    \* history: how much of rx_data frames without data were charged
    empty_charged,
    \* receiving endpoint: per stream (RecvBuf), and StreamMap's queues
    sflow, received, ready, off, drain, reset, almost_full_streams, stopped,
    \* sending endpoint
    max_tx_data, tx_data, smax, soff, emit_off, closed, stop_error, reset_queue,
    \* frames in transit, the losses so far, the error that closed the connection
    max_data_frames, max_stream_data_frames, reset_frames, stop_frames,
    losses, conn_error

connVars == <<flow_control, rx_data, almost_full, empty_charged>>
recvVars == <<sflow, received, ready, off, drain, reset, almost_full_streams, stopped>>
sendVars == <<max_tx_data, tx_data, smax, soff, emit_off, closed, stop_error, reset_queue>>
netVars == <<max_data_frames, max_stream_data_frames, reset_frames, stop_frames, losses>>
vars == <<connVars, recvVars, sendVars, netVars, conn_error>>

Init ==
    /\ flow_control = InitConnFlow
    /\ rx_data = 0
    /\ almost_full = FALSE
    /\ empty_charged = 0
    /\ sflow = [s \in Streams |-> InitStreamFlow]
    /\ received = [s \in Streams |-> 0]
    /\ ready = [s \in Streams |-> 0]
    /\ off = [s \in Streams |-> 0]
    /\ drain = [s \in Streams |-> FALSE]
    /\ reset = [s \in Streams |-> FALSE]
    /\ almost_full_streams = {}
    /\ stopped = {}
    /\ max_tx_data = InitMaxData
    /\ tx_data = 0
    /\ smax = [s \in Streams |-> InitMaxStreamData]
    /\ soff = [s \in Streams |-> 0]
    /\ emit_off = [s \in Streams |-> 0]
    /\ closed = [s \in Streams |-> FALSE]
    /\ stop_error = [s \in Streams |-> FALSE]
    /\ reset_queue = {}
    /\ max_data_frames = {}
    /\ max_stream_data_frames = [s \in Streams |-> {}]
    /\ reset_frames = {}
    /\ stop_frames = {}
    /\ losses = 0
    /\ conn_error = "None"

-----------------------------------------------------------------------------
(* The sending endpoint. *)

\* Mutant: the stream's limit is not respected.
stream_send_unlimited(s, n) ==
    /\ ~closed[s] /\ ~stop_error[s]
    /\ soff[s] + n <= AppLen[s]
    /\ tx_data + n <= max_tx_data
    /\ soff' = [soff EXCEPT ![s] = @ + n]
    /\ tx_data' = tx_data + n
    /\ UNCHANGED <<connVars, recvVars, max_tx_data, smax, emit_off, closed,
                   stop_error, reset_queue, netVars, conn_error>>

\* stream_send: what is buffered is cut to the connection's capacity and, in
\* SendBuf::write, to the stream's; the congestion window may cut it further.
stream_send(s, n) ==
    /\ ~closed[s] /\ ~stop_error[s]
    /\ soff[s] + n <= AppLen[s]
    /\ tx_data + n <= max_tx_data
    /\ soff[s] + n <= smax[s]
    /\ soff' = [soff EXCEPT ![s] = @ + n]
    /\ tx_data' = tx_data + n
    /\ UNCHANGED <<connVars, recvVars, max_tx_data, smax, emit_off, closed,
                   stop_error, reset_queue, netVars, conn_error>>

\* SendBuf::emit, for data sent for the first time.
emit(s, n) ==
    /\ emit_off[s] + n <= soff[s]
    /\ emit_off' = [emit_off EXCEPT ![s] = @ + n]
    /\ UNCHANGED <<connVars, recvVars, max_tx_data, tx_data, smax, soff, closed,
                   stop_error, reset_queue, netVars, conn_error>>

\* Mutants: the buffer keeps its data and loses its allowance each time; nothing is
\* clawed back.
ResetSend_twice(s) ==
    /\ tx_data' = tx_data - (soff[s] - emit_off[s])
    /\ reset_queue' = reset_queue \cup {s}
    /\ UNCHANGED soff

ResetSend_none(s) ==
    /\ soff' = [soff EXCEPT ![s] = emit_off[s]]
    /\ reset_queue' = reset_queue \cup {s}
    /\ UNCHANGED tx_data

\* SendBuf::reset as stop and shutdown call it: data that was buffered and not
\* sent is dropped, its allowance clawed back (saturating_sub), and RESET_STREAM
\* is queued.
ResetSend(s) ==
    /\ tx_data' = FC!Larger(tx_data - (soff[s] - emit_off[s]), 0)
    /\ soff' = [soff EXCEPT ![s] = emit_off[s]]
    /\ reset_queue' = reset_queue \cup {s}

\* stream_shutdown(Shutdown::Write)
stream_shutdown_write(s) ==
    /\ s \in ResetStreams
    /\ ~closed[s]
    /\ closed' = [closed EXCEPT ![s] = TRUE]
    /\ ResetSend(s)
    /\ UNCHANGED <<connVars, recvVars, max_tx_data, smax, emit_off, stop_error,
                   netVars, conn_error>>

\* Frame::StopSending; a second one for the stream has no effect.
RecvStopSending(s) ==
    /\ s \in stop_frames
    /\ stop_frames' = stop_frames \ {s}
    /\ \/ /\ ~stop_error[s]
          /\ stop_error' = [stop_error EXCEPT ![s] = TRUE]
          /\ ResetSend(s)
       \/ /\ stop_error[s]
          /\ UNCHANGED <<stop_error, tx_data, soff, reset_queue>>
    /\ UNCHANGED <<connVars, recvVars, max_tx_data, smax, emit_off, closed,
                   max_data_frames, max_stream_data_frames, reset_frames,
                   losses, conn_error>>

\* Mutant: the last frame to arrive wins.
RecvMaxData_last(max) ==
    /\ max \in max_data_frames
    /\ max_data_frames' = max_data_frames \ {max}
    /\ max_tx_data' = max
    /\ UNCHANGED <<connVars, recvVars, tx_data, smax, soff, emit_off, closed,
                   stop_error, reset_queue, max_stream_data_frames,
                   reset_frames, stop_frames, losses, conn_error>>

\* Frame::MaxData
RecvMaxData(max) ==
    /\ max \in max_data_frames
    /\ max_data_frames' = max_data_frames \ {max}
    /\ max_tx_data' = FC!Larger(max_tx_data, max)
    /\ UNCHANGED <<connVars, recvVars, tx_data, smax, soff, emit_off, closed,
                   stop_error, reset_queue, max_stream_data_frames,
                   reset_frames, stop_frames, losses, conn_error>>

\* Frame::MaxStreamData
RecvMaxStreamData(s, max) ==
    /\ max \in max_stream_data_frames[s]
    /\ max_stream_data_frames' =
           [max_stream_data_frames EXCEPT ![s] = @ \ {max}]
    /\ smax' = [smax EXCEPT ![s] = FC!Larger(@, max)]
    /\ UNCHANGED <<connVars, recvVars, max_tx_data, tx_data, soff, emit_off,
                   closed, stop_error, reset_queue, max_data_frames,
                   reset_frames, stop_frames, losses, conn_error>>

\* send_single, RESET_STREAM frames; the final size is SendBuf::emit_off.
SendReset(s) ==
    /\ s \in reset_queue
    /\ reset_queue' = reset_queue \ {s}
    /\ reset_frames' = reset_frames \cup {s}
    /\ UNCHANGED <<connVars, recvVars, max_tx_data, tx_data, smax, soff,
                   emit_off, closed, stop_error, max_data_frames,
                   max_stream_data_frames, stop_frames, losses, conn_error>>

-----------------------------------------------------------------------------
(* The receiving endpoint. *)

\* Frame::Stream ending at max_off.  `contiguous' is how far the buffered data
\* is readable afterwards.  A stream that was shut down (drain) keeps nothing
\* and a stream that was reset ignores what it receives.
RecvStream(s, max_off, contiguous) ==
    LET delta == FC!Larger(max_off - received[s], 0)
        fc == FC!add_consumed(flow_control, delta)
    IN  /\ max_off \in 1..emit_off[s]
        /\ IF rx_data + delta > flow_control.max_data \/ max_off > sflow[s].max_data
           THEN /\ conn_error' = "FlowControl"
                /\ UNCHANGED <<connVars, received, ready, off>>
           ELSE /\ contiguous \in ready[s]..FC!Larger(received[s], max_off)
                /\ drain[s] \/ reset[s] => contiguous = ready[s]
                /\ received' = [received EXCEPT ![s] = FC!Larger(@, max_off)]
                /\ ready' = [ready EXCEPT ![s] = contiguous]
                /\ rx_data' = rx_data + delta
                /\ IF drain[s]
                   THEN /\ flow_control' = fc
                        /\ almost_full' = (almost_full \/ FC!should_update_max_data(fc))
                   ELSE UNCHANGED <<flow_control, almost_full>>
                /\ UNCHANGED <<off, conn_error>>
        /\ UNCHANGED <<empty_charged, sflow, drain, reset, almost_full_streams, stopped,
                       sendVars, netVars>>

\* Frame::Stream without data and FIN, which send_single writes when a stream is
\* still queued but has nothing left to send (SendStream).  It is charged to the
\* connection like data, but RecvBuf::write returns before it advances len.
RecvEmptyStream(s, max_off) ==
    LET delta == FC!Larger(max_off - received[s], 0)
        fc == FC!add_consumed(flow_control, delta)
    IN  /\ empty_charged < EmptyFrames
        /\ max_off \in 1..emit_off[s]
        /\ IF rx_data + delta > flow_control.max_data \/ max_off > sflow[s].max_data
           THEN conn_error' = "FlowControl" /\ UNCHANGED connVars
           ELSE /\ rx_data' = rx_data + delta
                /\ empty_charged' = empty_charged + delta
                /\ IF drain[s]
                   THEN /\ flow_control' = fc
                        /\ almost_full' = (almost_full \/ FC!should_update_max_data(fc))
                   ELSE UNCHANGED <<flow_control, almost_full>>
                /\ UNCHANGED conn_error
        /\ UNCHANGED <<recvVars, sendVars, netVars>>

\* Frame::ResetStream with RecvBuf::reset: what was buffered is dropped and the
\* bytes up to the final size are charged to the connection.
RecvReset(s) ==
    LET final_size == emit_off[s]
        delta == final_size - received[s]
    IN  /\ s \in reset_frames
        /\ reset_frames' = reset_frames \ {s}
        /\ IF rx_data + delta > flow_control.max_data
           THEN /\ conn_error' = "FlowControl"
                /\ UNCHANGED <<rx_data, received, ready, off, reset>>
           ELSE /\ reset' = [reset EXCEPT ![s] = TRUE]
                /\ received' = [received EXCEPT ![s] = final_size]
                /\ ready' = [ready EXCEPT ![s] = final_size]
                /\ off' = [off EXCEPT ![s] = final_size]
                /\ rx_data' = rx_data + delta
                /\ UNCHANGED conn_error
        /\ UNCHANGED <<flow_control, almost_full, empty_charged, sflow, drain,
                       almost_full_streams, stopped, sendVars, max_data_frames, max_stream_data_frames,
                       stop_frames, losses>>

\* stream_recv returning n bytes: both controllers count them and either may
\* ask for an update of its limit.
stream_recv(s, n) ==
    LET fc == FC!add_consumed(flow_control, n)
        sf == FC!add_consumed(sflow[s], n)
    IN  /\ ~drain[s] /\ ~reset[s]
        /\ off[s] + n <= ready[s]
        /\ off' = [off EXCEPT ![s] = @ + n]
        /\ flow_control' = fc
        /\ sflow' = [sflow EXCEPT ![s] = sf]
        /\ almost_full_streams' =
               IF FC!should_update_max_data(sf)
               THEN almost_full_streams \cup {s} ELSE almost_full_streams
        /\ almost_full' = (almost_full \/ FC!should_update_max_data(fc))
        /\ UNCHANGED <<rx_data, empty_charged, received, ready, drain, reset, stopped,
                       sendVars, netVars, conn_error>>

\* stream_shutdown(Shutdown::Read): buffered data is dropped and, unless the
\* stream already ended (RecvBuf::is_fin), STOP_SENDING is queued.
stream_shutdown_read(s) ==
    /\ s \in ResetStreams
    /\ ~drain[s]
    /\ drain' = [drain EXCEPT ![s] = TRUE]
    /\ off' = [off EXCEPT ![s] = received[s]]
    /\ ready' = [ready EXCEPT ![s] = received[s]]
    /\ stopped' = IF reset[s] THEN stopped ELSE stopped \cup {s}
    /\ UNCHANGED <<connVars, sflow, received, reset, almost_full_streams,
                   sendVars, netVars, conn_error>>

\* send_single, MAX_STREAM_DATA for one stream of the almost-full set.  The
\* window is tuned even when the frame does not fit in the packet.
SendMaxStreamData(s, recent, fits) ==
    LET sf == FC!autotune_window(sflow[s], recent)
        max == FC!max_data_next(sf)
    IN  /\ s \in almost_full_streams
        /\ IF fits
           THEN /\ max_stream_data_frames' =
                       [max_stream_data_frames EXCEPT ![s] = @ \cup {max}]
                /\ sflow' = [sflow EXCEPT ![s] = FC!update_max_data(sf)]
                /\ almost_full_streams' = almost_full_streams \ {s}
                /\ flow_control' = FC!ensure_window_lower_bound(
                                       flow_control, ConnWindowFor(sf.window))
                /\ almost_full' = TRUE
           ELSE /\ sflow' = [sflow EXCEPT ![s] = sf]
                /\ UNCHANGED <<max_stream_data_frames, almost_full_streams,
                               flow_control, almost_full>>
        /\ UNCHANGED <<rx_data, empty_charged, received, ready, off, drain, reset,
                       stopped, sendVars, max_data_frames, reset_frames, stop_frames,
                       losses, conn_error>>

\* send_single, MAX_DATA.
SendMaxData(recent, fits) ==
    LET fc == FC!autotune_window(flow_control, recent)
    IN  /\ almost_full
        /\ flow_control.max_data < FC!max_data_next(flow_control)
        /\ IF fits
           THEN /\ max_data_frames' = max_data_frames \cup {FC!max_data_next(fc)}
                /\ flow_control' = FC!update_max_data(fc)
                /\ almost_full' = FALSE
           ELSE /\ flow_control' = fc
                /\ UNCHANGED <<max_data_frames, almost_full>>
        /\ UNCHANGED <<rx_data, empty_charged, recvVars, sendVars, max_stream_data_frames,
                       reset_frames, stop_frames, losses, conn_error>>

\* send_single, STOP_SENDING frames.
SendStopSending(s) ==
    /\ s \in stopped
    /\ stopped' = stopped \ {s}
    /\ stop_frames' = stop_frames \cup {s}
    /\ UNCHANGED <<connVars, sflow, received, ready, off, drain, reset,
                   almost_full_streams, sendVars, max_data_frames,
                   max_stream_data_frames, reset_frames, losses, conn_error>>

-----------------------------------------------------------------------------
(* send_single, the frames of packets declared lost.  `spurious' says that   *)
(* the packet was only late: its frames still arrive.  A lost STOP_SENDING   *)
(* is not sent again.                                                        *)

Lose == losses < MaxLosses /\ losses' = losses + 1

LoseMaxData(max, spurious) ==
    /\ max \in max_data_frames /\ Lose
    /\ max_data_frames' = IF spurious THEN max_data_frames ELSE max_data_frames \ {max}
    /\ almost_full' = TRUE
    /\ UNCHANGED <<flow_control, rx_data, empty_charged, recvVars, sendVars,
                   max_stream_data_frames, reset_frames, stop_frames, conn_error>>

\* Mutant: the stream is not queued again.
LoseMaxStreamData_forgotten(s, max, spurious) ==
    /\ max \in max_stream_data_frames[s] /\ Lose
    /\ max_stream_data_frames' =
           IF spurious THEN max_stream_data_frames
           ELSE [max_stream_data_frames EXCEPT ![s] = @ \ {max}]
    /\ UNCHANGED <<connVars, recvVars, sendVars, max_data_frames, reset_frames,
                   stop_frames, conn_error>>

LoseMaxStreamData(s, max, spurious) ==
    /\ max \in max_stream_data_frames[s] /\ Lose
    /\ max_stream_data_frames' =
           IF spurious THEN max_stream_data_frames
           ELSE [max_stream_data_frames EXCEPT ![s] = @ \ {max}]
    /\ almost_full_streams' = almost_full_streams \cup {s}
    /\ UNCHANGED <<connVars, sflow, received, ready, off, drain, reset, stopped,
                   sendVars, max_data_frames, reset_frames, stop_frames, conn_error>>

LoseReset(s, spurious) ==
    /\ s \in reset_frames /\ Lose
    /\ reset_frames' = IF spurious THEN reset_frames ELSE reset_frames \ {s}
    /\ reset_queue' = reset_queue \cup {s}
    /\ UNCHANGED <<connVars, recvVars, max_tx_data, tx_data, smax, soff, emit_off,
                   closed, stop_error, max_data_frames, max_stream_data_frames,
                   stop_frames, conn_error>>

LoseStopSending(s) ==
    /\ s \in stop_frames /\ Lose
    /\ stop_frames' = stop_frames \ {s}
    /\ UNCHANGED <<connVars, recvVars, sendVars, max_data_frames,
                   max_stream_data_frames, reset_frames, conn_error>>

-----------------------------------------------------------------------------
SenderNext(s) ==
    \/ \E n \in 1..AppLen[s] : stream_send(s, n)
    \/ \E n \in 1..AppLen[s] : emit(s, n)
    \/ stream_shutdown_write(s)
    \/ RecvStopSending(s)
    \/ \E max \in max_stream_data_frames[s] : RecvMaxStreamData(s, max)
    \/ SendReset(s)

ReceiverNext(s) ==
    \/ \E max_off \in 1..AppLen[s], c \in 0..AppLen[s] : RecvStream(s, max_off, c)
    \/ \E max_off \in 1..AppLen[s] : RecvEmptyStream(s, max_off)
    \/ RecvReset(s)
    \/ \E n \in 1..AppLen[s] : stream_recv(s, n)
    \/ stream_shutdown_read(s)
    \/ \E recent, fits \in BOOLEAN : SendMaxStreamData(s, recent, fits)
    \/ SendStopSending(s)

LossNext ==
    \/ \E max \in max_data_frames, spurious \in BOOLEAN : LoseMaxData(max, spurious)
    \/ \E s \in Streams, spurious \in BOOLEAN :
          \/ \E max \in max_stream_data_frames[s] : LoseMaxStreamData(s, max, spurious)
          \/ LoseReset(s, spurious)
    \/ \E s \in Streams : LoseStopSending(s)

Next ==
    /\ conn_error = "None"
    /\ \/ \E s \in Streams : SenderNext(s) \/ ReceiverNext(s)
       \/ \E max \in max_data_frames : RecvMaxData(max)
       \/ \E recent, fits \in BOOLEAN : SendMaxData(recent, fits)
       \/ LossNext

Spec == Init /\ [][Next]_vars

(***************************************************************************)
(* Fairness: the event loop keeps calling send and recv, so a queued frame *)
(* is eventually sent and a frame that is not lost arrives; both           *)
(* applications keep writing and reading.  Losses and shutdowns are never  *)
(* forced.                                                                 *)
(***************************************************************************)
Fairness ==
    /\ \A s \in Streams :
          /\ WF_vars(conn_error = "None" /\ stream_send(s, 1))
          /\ WF_vars(conn_error = "None" /\ emit(s, 1))
          /\ WF_vars(conn_error = "None" /\
                        RecvStream(s, emit_off[s], emit_off[s]))
          /\ WF_vars(conn_error = "None" /\ \E n \in 1..AppLen[s] : stream_recv(s, n))
          /\ WF_vars(conn_error = "None" /\ SendMaxStreamData(s, FALSE, TRUE))
          /\ WF_vars(conn_error = "None" /\
                        \E max \in max_stream_data_frames[s] : RecvMaxStreamData(s, max))
          /\ WF_vars(conn_error = "None" /\ SendReset(s))
          /\ WF_vars(conn_error = "None" /\ RecvReset(s))
    /\ WF_vars(conn_error = "None" /\ SendMaxData(FALSE, TRUE))
    /\ WF_vars(conn_error = "None" /\ \E max \in max_data_frames : RecvMaxData(max))

FairSpec == Spec /\ Fairness

-----------------------------------------------------------------------------
TypeOK ==
    /\ flow_control \in FC!FlowControlType
    /\ rx_data \in Nat /\ empty_charged \in Nat /\ tx_data \in Nat /\ max_tx_data \in Nat
    /\ almost_full \in BOOLEAN
    /\ sflow \in [Streams -> FC!FlowControlType]
    /\ received \in [Streams -> Nat]
    /\ ready \in [Streams -> Nat]
    /\ off \in [Streams -> Nat]
    /\ drain \in [Streams -> BOOLEAN]
    /\ reset \in [Streams -> BOOLEAN]
    /\ almost_full_streams \in SUBSET Streams
    /\ stopped \in SUBSET Streams
    /\ smax \in [Streams -> Nat]
    /\ soff \in [Streams -> Nat]
    /\ emit_off \in [Streams -> Nat]
    /\ closed \in [Streams -> BOOLEAN]
    /\ stop_error \in [Streams -> BOOLEAN]
    /\ reset_queue \in SUBSET Streams
    /\ max_data_frames \in SUBSET Nat
    /\ max_stream_data_frames \in [Streams -> SUBSET Nat]
    /\ reset_frames \in SUBSET Streams
    /\ stop_frames \in SUBSET Streams
    /\ losses \in Nat
    /\ conn_error \in {"None", "FlowControl"}

\* A sender that keeps to the limits it was sent is accused of exceeding them (`The peer
\* violated the local flow control limits', by RecvBuf::write and by the STREAM and
\* RESET_STREAM handlers) only if what empty STREAM frames were charged uses up the rest
\* of its limit; the code has this one exception, since process_frame charges a frame that
\* RecvBuf::write does not count.  Without such frames the error is unreachable, whatever is
\* lost, late or reset, and with them as long as tx_data leaves room for them.
NoFlowControlError ==
    conn_error # "None" =>
        empty_charged > 0 /\ tx_data + empty_charged > flow_control.max_data

\* On every stream the chain consumed <= read <= received <= sent <= the sender's
\* limit <= the receiver's limit holds, so RecvBuf::write accepts what the sender
\* sends although the limits are updated by frames that are lost and reordered,
\* and max_data - consumed in should_update_max_data cannot wrap.
StreamCredit ==
    \A s \in Streams :
        /\ sflow[s].consumed <= off[s] /\ off[s] <= ready[s] /\ ready[s] <= received[s]
        /\ received[s] <= emit_off[s] /\ emit_off[s] <= soff[s]
        /\ soff[s] <= smax[s] /\ smax[s] <= sflow[s].max_data

\* At the connection's level each endpoint stays within the limit it knows, and
\* the sender never knows a larger limit than the receiver enforces: the unsigned
\* subtractions max_tx_data - tx_data (stream_send, update_tx_cap) and max_data -
\* rx_data (process_frame) cannot wrap.
ConnCredit ==
    /\ tx_data <= max_tx_data /\ max_tx_data <= flow_control.max_data
    /\ rx_data <= flow_control.max_data

Total(f) == MapThenSumSet(LAMBDA s : f[s], Streams)

\* The connection's counters are the sums of the streams' offsets after any
\* sequence of writes, duplicates, resets and shutdowns (rx_data against
\* RecvBuf::len, tx_data against SendBuf::off, clawed back on reset), except that
\* rx_data counts what empty STREAM frames were charged too, and no more was consumed
\* than received: max_data - consumed in should_update_max_data cannot wrap for the
\* connection's controller.
CountersAreSums ==
    /\ flow_control.consumed <= rx_data /\ rx_data <= tx_data + empty_charged
    /\ rx_data = Total(received) + empty_charged /\ tx_data = Total(soff)

\* A limit that was granted is never taken back, although MAX_STREAM_DATA is
\* sent again after a loss without comparing the new limit with the old one.
LimitsNeverShrink ==
    [][/\ flow_control'.max_data >= flow_control.max_data
       /\ \A s \in Streams : sflow'[s].max_data >= sflow[s].max_data]_vars

-----------------------------------------------------------------------------
(* The inductive invariant of ConnFlowProofs.                                *)

\* No window exceeds its cap, so tuning never narrows one.
WindowsWithinCaps ==
    /\ flow_control.max_window = MaxConnWindow
    /\ flow_control.window <= MaxConnWindow
    /\ \A s \in Streams : /\ sflow[s].max_window = MaxStreamWindow
                         /\ sflow[s].window <= MaxStreamWindow

\* No limit in transit is above the one its sender enforces.
FramesWithinLimits ==
    /\ \A max \in max_data_frames : max <= flow_control.max_data
    /\ \A s \in Streams : \A max \in max_stream_data_frames[s] : max <= sflow[s].max_data

\* A stream is queued for MAX_STREAM_DATA only when the update raises its limit
\* or repeats a limit that was committed before.
UpdateDue ==
    \A s \in Streams :
        /\ s \in almost_full_streams \/ sflow[s].last_update
             => sflow[s].max_data <= FC!max_data_next(sflow[s])
        /\ max_stream_data_frames[s] # {} => sflow[s].last_update

CreditInv ==
    /\ TypeOK
    /\ StreamCredit
    /\ ConnCredit
    /\ WindowsWithinCaps
    /\ FramesWithinLimits
    /\ UpdateDue

-----------------------------------------------------------------------------
(* Liveness and the documented promises. *)

\* Everything the application writes is read by its peer: a lost update of a stream's
\* limit (MAX_STREAM_DATA) is replaced, whatever the order of the frames.  It takes a
\* connection limit that is never used up: a lost MAX_DATA is not replaced.
AllRead == <>(\A s \in Streams \ ResetStreams : off[s] = AppLen[s])

\* `will allow more data to be received as the buffer is consumed by the
\* application' (set_initial_max_data): once nothing is buffered or in transit
\* and no update is due, the peer has connection credit again.
CreditReturned ==
    /\ \A s \in Streams : off[s] = soff[s]
    /\ max_data_frames = {}
    /\ ~(almost_full /\ flow_control.max_data < FC!max_data_next(flow_control))
    => max_tx_data > tx_data
=============================================================================
