------------------------------ MODULE SendStream ------------------------------
(***************************************************************************)
(* The life of one locally opened stream's send side: the application      *)
(* writes and may shut it down, send_single packs STREAM frames from the   *)
(* buffer, packets are lost, late, acked, declared lost (also when they    *)
(* are not) or probed on a timeout, and the stream is collected once it is *)
(* complete.  With FEC the peer may decode a packet it did not receive and *)
(* tell so in SOURCE_SYMBOL_ACK.  A packet here holds one STREAM frame.    *)
(* The peer is what the packets that arrived let it know.                  *)
(***************************************************************************)
EXTENDS SendBuf

INSTANCE BagsExt

CONSTANTS
    MaxLen,      \* bytes the application writes at most
    MaxData,     \* the limits the peer grants, the first one initially
    Rooms,       \* the room for data that packets leave in a STREAM frame
    MaxPkts,     \* bound on the packets in flight
    MaxLosses,   \* bound on the losses, real and spurious, and the probe timeouts
    UseFec,      \* packets are protected (emit_fec) and the peer decodes
    MayShutdown, \* the application may call stream_shutdown(Write)
    MayStop,     \* the peer may send STOP_SENDING
    TightPackets \* a packet may have room for MAX_STREAM_OVERHEAD but not for
                 \* the header of this stream's frame

ASSUME StreamAssumption ==
    /\ MaxLen \in Nat /\ MaxPkts \in Nat /\ MaxLosses \in Nat
    /\ Rooms \subseteq Nat
    /\ MaxData \in Seq(Nat) /\ MaxData # <<>>
    /\ {UseFec, MayShutdown, MayStop, TightPackets} \subseteq BOOLEAN

VARIABLES
    send,          \* the stream's SendBuf
    flushable,     \* the stream is in the flushable queue
    reset_queued,  \* RESET_STREAM waits in StreamMap::reset
    collected,     \* the stream was complete and its state dropped
    pkts,          \* bag of the packets neither acked nor forgotten
    losses,
    reset_pkt,     \* the packet with RESET_STREAM: none, sent, arrived
    final_sizes,   \* every final size announced to the peer
    \* what the peer has
    received, fin_received, reset_received,
    \* history: the application finished the stream, and a packet without room for its
    \* header took it out of the queue, where it was not put again
    wrote_fin, passed_over

streamVars == <<send, flushable, reset_queued, collected>>
netVars == <<pkts, losses, reset_pkt, final_sizes>>
peerVars == <<received, fin_received, reset_received>>
history == <<wrote_fin, passed_over>>
vars == <<streamVars, netVars, peerVars, history>>

Bytes(p) == p.off .. p.off + p.len - 1
Sent == BagToSet(pkts)

\* Packet p becomes q.
Becomes(p, q) == pkts' = BagAdd(BagRemove(pkts, p), q)

Init ==
    /\ send = new(MaxData[1])
    /\ flushable = FALSE /\ reset_queued = FALSE /\ collected = FALSE
    /\ pkts = EmptyBag /\ losses = 0 /\ reset_pkt = "none" /\ final_sizes = {}
    /\ received = {} /\ fin_received = FALSE /\ reset_received = FALSE
    /\ wrote_fin = FALSE /\ passed_over = FALSE

\* Until the stream is queued again.
StillPassedOver == passed_over' = (passed_over /\ ~flushable')

-----------------------------------------------------------------------------
(* The application and the frames of the peer. *)

\* stream_send; a call that fails changes nothing here.
stream_send(n, fin) ==
    /\ ~collected /\ ~send.error /\ ~WriteError(send, n, fin)
    /\ n > 0 \/ fin
    /\ send.off + n <= MaxLen
    /\ send' = write(send, n, fin)
    /\ flushable' = (flushable \/ ((is_flushable(send') \/ (n = 0 /\ fin))
                                     /\ ~is_flushable(send)))
    /\ wrote_fin' = (wrote_fin \/ (~send.shutdown /\ is_fin(send')))
    /\ StillPassedOver
    /\ UNCHANGED <<reset_queued, collected, netVars, peerVars>>

\* stream_shutdown(Shutdown::Write).  The flushable queue is left as it is.
stream_shutdown ==
    /\ MayShutdown
    /\ ~collected /\ ~send.shutdown
    /\ send' = shutdown(send)
    /\ reset_queued' = TRUE
    /\ UNCHANGED <<flushable, collected, netVars, peerVars, history>>

\* Frame::StopSending
RecvStopSending ==
    /\ MayStop
    /\ ~collected /\ ~send.error
    /\ send' = stop(send)
    /\ reset_queued' = TRUE
    /\ UNCHANGED <<flushable, collected, netVars, peerVars, history>>

\* Frame::MaxStreamData
RecvMaxStreamData(max) ==
    /\ ~collected
    /\ max > send.max_data
    /\ send' = update_max_data(send, max)
    /\ flushable' = (flushable \/ (is_flushable(send') /\ ~is_flushable(send)))
    /\ StillPassedOver
    /\ UNCHANGED <<reset_queued, collected, netVars, peerVars, wrote_fin>>

-----------------------------------------------------------------------------
(* send_single *)

\* A STREAM frame with room for n bytes, for the stream at the queue's front.
SendStreamFrame(n) ==
    /\ flushable /\ ~send.error
    /\ BagCardinality(pkts) < MaxPkts
    /\ LET front == off_front(send)
           end == EmitEnd(send, n)
           fin == send.fin_off = end
       IN  /\ send' = emit(send, n)
           /\ pkts' = BagAdd(pkts, [off |-> front, len |-> end - front, fin |-> fin,
                                    lost |-> FALSE, recovered |-> FALSE,
                                    at_peer |-> "no"])
           /\ final_sizes' = IF fin THEN final_sizes \cup {end} ELSE final_sizes
    /\ flushable' = is_flushable(send')
    /\ UNCHANGED <<reset_queued, collected, losses, reset_pkt, peerVars, history>>

\* The frame's header does not fit (left.checked_sub(hdr_len) is None), or the
\* stream was stopped: the stream leaves the queue and nothing is sent.
SkipStream ==
    /\ flushable
    /\ send.error \/ TightPackets
    /\ flushable' = FALSE
    /\ passed_over' = (passed_over \/ ~send.error)
    /\ UNCHANGED <<send, reset_queued, collected, netVars, peerVars, wrote_fin>>

SendResetFrame ==
    /\ reset_queued
    /\ reset_queued' = FALSE
    /\ reset_pkt' = IF reset_pkt = "arrived" THEN reset_pkt ELSE "sent"
    /\ final_sizes' = final_sizes \cup {send.emit_off}
    /\ UNCHANGED <<send, flushable, collected, pkts, losses, peerVars, history>>

-----------------------------------------------------------------------------
(* The network and the peer. *)

Arrive(p) ==
    /\ received' = received \cup Bytes(p)
    /\ fin_received' = (fin_received \/ p.fin)

\* The packet arrives, on time, late or after the sender gave it up.
Deliver(p) ==
    /\ p.at_peer # "received"
    /\ Arrive(p)
    /\ IF p.lost THEN pkts' = BagRemove(pkts, p)
       ELSE Becomes(p, [p EXCEPT !.at_peer = "received"])
    /\ UNCHANGED <<streamVars, losses, reset_pkt, final_sizes, reset_received,
                   history>>

\* The peer's decoder restores the source symbol, and process_frame takes the
\* frames in it; the packet itself stays unacked.
Decode(p) ==
    /\ UseFec
    /\ p.at_peer = "no"
    /\ Arrive(p)
    /\ Becomes(p, [p EXCEPT !.at_peer = "decoded"])
    /\ UNCHANGED <<streamVars, losses, reset_pkt, final_sizes, reset_received,
                   history>>

\* Mutant: the symbol need not have been decoded.
RecvSourceSymbolAck_any(p) ==
    /\ UseFec /\ ~p.lost /\ ~p.recovered
    /\ Becomes(p, [p EXCEPT !.recovered = TRUE])
    /\ UNCHANGED <<streamVars, losses, reset_pkt, final_sizes, peerVars, history>>

\* on_source_symbol_ack_received marks the packet, unless its frames were taken
\* out when it was declared lost.
RecvSourceSymbolAck(p) ==
    /\ p.at_peer = "decoded" /\ ~p.lost /\ ~p.recovered
    /\ Becomes(p, [p EXCEPT !.recovered = TRUE])
    /\ UNCHANGED <<streamVars, losses, reset_pkt, final_sizes, peerVars, history>>

DeliverReset ==
    /\ reset_pkt = "sent"
    /\ reset_pkt' = "arrived"
    /\ reset_received' = TRUE
    /\ UNCHANGED <<streamVars, pkts, losses, final_sizes, received, fin_received,
                   history>>

-----------------------------------------------------------------------------
(* Acknowledgement and loss. *)

\* StreamMap::collect, after an ack, when the send side is all there is to the
\* stream.
CollectIfComplete ==
    /\ collected' = (collected \/ is_complete(send'))
    /\ UNCHANGED reset_queued

\* The loop over acked frames, Frame::StreamHeader.
AckStream(p) ==
    /\ p.at_peer = "received" /\ ~p.lost
    /\ pkts' = BagRemove(pkts, p)
    /\ IF collected
       THEN UNCHANGED streamVars
       ELSE /\ send' = ack_and_drop(send, p.off, p.len)
            /\ CollectIfComplete
            /\ flushable' = (flushable /\ ~collected')
    /\ UNCHANGED <<losses, reset_pkt, final_sizes, peerVars, history>>

\* Mutant: the stream is not queued again.
LostStream_unqueued(p) ==
    IF collected \/ p.recovered
    THEN UNCHANGED streamVars
    ELSE /\ send' = retransmit(send, p.off, p.len)
         /\ UNCHANGED <<flushable, reset_queued, collected>>

\* The loop over lost frames, Frame::StreamHeader; of a packet whose symbol was
\* recovered nothing is retransmitted (LostAndRecovered).
LostStream(p) ==
    IF collected \/ p.recovered
    THEN UNCHANGED streamVars
    ELSE /\ send' = retransmit(send, p.off, p.len)
         /\ flushable' = (flushable \/ ((is_flushable(send') \/ (p.len = 0 /\ p.fin))
                                          /\ ~is_flushable(send)))
         /\ UNCHANGED <<reset_queued, collected>>

Lose == losses < MaxLosses /\ losses' = losses + 1

\* detect_lost_packets takes the frames out, so that an ack that comes later has
\* no effect.  `late' says that the packet may still arrive.
DeclareLost(p, late) ==
    /\ ~p.lost /\ Lose
    /\ LostStream(p)
    /\ IF late /\ p.at_peer = "no" THEN Becomes(p, [p EXCEPT !.lost = TRUE])
       ELSE pkts' = BagRemove(pkts, p)
    /\ StillPassedOver
    /\ UNCHANGED <<reset_pkt, final_sizes, peerVars, wrote_fin>>

\* on_loss_detection_timeout: a probe timeout reschedules the frames and the
\* packet may still be acked.
ProbeTimeout(p) ==
    /\ ~p.lost /\ Lose
    /\ LostStream(p)
    /\ StillPassedOver
    /\ UNCHANGED <<pkts, reset_pkt, final_sizes, peerVars, wrote_fin>>

\* RESET_STREAM acked, and declared lost.
AckReset ==
    /\ reset_pkt = "arrived" /\ ~collected
    /\ send' = send
    /\ CollectIfComplete
    /\ flushable' = (flushable /\ ~collected')
    /\ UNCHANGED <<netVars, peerVars, history>>

LoseReset(late) ==
    /\ reset_pkt = "sent" /\ Lose
    /\ reset_pkt' = IF late THEN reset_pkt ELSE "none"
    /\ reset_queued' = (reset_queued \/ ~collected)
    /\ UNCHANGED <<send, flushable, collected, pkts, final_sizes, peerVars,
                   history>>

-----------------------------------------------------------------------------
AppNext ==
    \/ \E n \in 0..MaxLen, fin \in BOOLEAN : stream_send(n, fin)
    \/ stream_shutdown

SendNext ==
    \/ \E n \in Rooms : SendStreamFrame(n)
    \/ SkipStream
    \/ SendResetFrame

RecvNext ==
    \/ RecvStopSending
    \/ \E i \in DOMAIN MaxData : RecvMaxStreamData(MaxData[i])
    \/ \E p \in Sent : RecvSourceSymbolAck(p) \/ AckStream(p)
    \/ AckReset

LossNext ==
    \/ \E p \in Sent, late \in BOOLEAN : DeclareLost(p, late)
    \/ \E p \in Sent : ProbeTimeout(p)
    \/ \E late \in BOOLEAN : LoseReset(late)

NetNext ==
    \/ \E p \in Sent : Deliver(p) \/ Decode(p)
    \/ DeliverReset

Next == AppNext \/ SendNext \/ RecvNext \/ LossNext \/ NetNext

Spec == Init /\ [][Next]_vars

(***************************************************************************)
(* Fairness: send is called while there is something to send and packets   *)
(* have room for a frame; a packet that is not declared lost arrives and   *)
(* is acked.  Nothing forces the application, the peer or a loss.  Sending *)
(* is strongly fair because MaxPkts, which disables it now and then, is a  *)
(* bound of the model.                                                     *)
(***************************************************************************)
Fairness ==
    /\ SF_vars(\E n \in Rooms : SendStreamFrame(n))
    /\ WF_vars(SendResetFrame)
    /\ WF_vars(DeliverReset)
    /\ WF_vars(AckReset)
    /\ \A off \in 0..MaxLen :
          /\ WF_vars(\E p \in Sent : p.off = off /\ Deliver(p))
          /\ WF_vars(\E p \in Sent : p.off = off /\ AckStream(p))

FairSpec == Spec /\ Fairness

-----------------------------------------------------------------------------
TypeOK ==
    /\ send \in [data : Seq(Chunk), pos : Nat \ {0}, off : Nat, emit_off : Nat, len : Nat,
                 max_data : Nat, fin_off : Nat \cup {NoFin}, shutdown : BOOLEAN,
                 acked : SUBSET Nat, acks : BOOLEAN, error : BOOLEAN]
    /\ {flushable, reset_queued, collected, fin_received, reset_received, wrote_fin,
      passed_over} \subseteq BOOLEAN
    /\ Sent \subseteq [off : Nat, len : Nat, fin : BOOLEAN, lost : BOOLEAN,
                       recovered : BOOLEAN, at_peer : {"no", "decoded", "received"}]
    /\ losses \in 0..MaxLosses
    /\ reset_pkt \in {"none", "sent", "arrived"}
    /\ final_sizes \subseteq Nat /\ received \subseteq Nat

\* The chunks are adjacent and end at off, the ones missing at the front are
\* acked, and those before pos are completely sent: emit, which starts at pos and
\* sends contiguous data only, passes over no pending byte.  What is not pending was
\* sent and nothing beyond emit_off was: the final size of RESET_STREAM is exactly the
\* data the peer may have seen.
ChunksInOrder ==
    LET d == send.data
    IN  /\ \A i \in 1 .. Len(d) - 1 : max_off(d[i]) = d[i + 1].off
        /\ d # <<>> => d[1].off <= ack_off(send) /\ max_off(Last(d)) = send.off
        /\ d = <<>> => ack_off(send) = send.off
        /\ \A i \in DOMAIN d : d[i].pos <= d[i].len /\ (i < send.pos => Unsent(d[i]) = {})
        /\ send.pos <= Len(d) + 1
        /\ off_front(send) <= send.emit_off /\ send.emit_off <= send.off
        /\ send.emit_off .. send.off - 1 \subseteq Pending(send)

\* Whatever is written, retransmitted, shut down and stopped, in any order, the
\* peer is told one final size, and no byte beyond it.
FinalSizeStable ==
    \A f \in final_sizes : f = send.fin_off /\ received \subseteq 0 .. f - 1

\* `streams that have buffered data ready to be sent' (StreamMap::flushable): a
\* stream with something to send is missing from the queue only if a packet without room
\* for its header took it out and nothing queued it since (passed_over): send_single pops
\* the stream and does not put it back.  Nothing else loses a stream, no write, ack, loss,
\* probe, recovered symbol or raised limit, in any order.
FlushableQueued == is_flushable(send) /\ ~collected => flushable \/ passed_over

\* Everything the application writes reaches the peer, whatever is lost or probed for
\* (of a sender whose packets have room for its headers, since a stream that was
\* passed over waits for the next write or loss).
AllReceived == \A b \in 0 .. MaxLen - 1 :
    (b < send.off) ~> (b \in received \/ send.shutdown \/ send.error)

\* A finished stream is completed and its state dropped (Stream::is_complete), again if
\* packets have room, and without FEC: nobody acks the frames of a packet that the peer
\* recovered.
Completes == wrote_fin ~> collected

-----------------------------------------------------------------------------
Queue == INSTANCE SendQueue WITH
             off <- send.off, emit_off <- send.emit_off,
             pending <- Pending(send), acked <- send.acked,
             is_reset <- send.shutdown \/ send.error

\* Chunks, positions, splits and drops implement the queue of SendQueue: every
\* step of the code is a step of it, so that what SendStreamProofs proves of it for
\* streams of any length holds for the buffer.
ImplementsQueue == Queue!Spec

-----------------------------------------------------------------------------
(* Promises of the documentation that the code does not keep. *)

\* `The amount of data currently buffered' (SendBuf::len).
LenIsPending == send.len = Cardinality(Pending(send))

\* `This will lead to a 0-length FIN STREAM frame being sent' (stream_send): until
\* the FIN arrives the stream is queued or a packet carries it.
FinPending ==
    wrote_fin /\ ~collected =>
        \/ flushable \/ fin_received \/ send.shutdown \/ send.error
        \/ \E p \in Sent : p.fin

\* The same sentence, for a stream that was collected too: the peer learns that the stream ended.
FinReceived == wrote_fin ~> (fin_received \/ send.shutdown \/ send.error)

\* `a RESET_STREAM frame will be sent to the peer to signal the reset' instead of
\* the data that was dropped (stream_shutdown): the peer sees a complete stream only
\* if the application finished it.
CleanEnd ==
    fin_received /\ ~reset_received /\ 0 .. send.fin_off - 1 \subseteq received => wrote_fin

\* The same sentence: the peer does learn of the reset.
ResetReceived == send.shutdown ~> (reset_received \/ fin_received)
=============================================================================
