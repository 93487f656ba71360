------------------------------ MODULE SendQueue ------------------------------
(***************************************************************************)
(* What SendBuf and the handlers of acked and lost STREAM frames promise,  *)
(* without chunks, positions or queues: the set of bytes that wait to be   *)
(* sent, the packets that carry bytes, and which bytes are acked.          *)
(* SendStream implements this specification (its property ImplementsQueue).*)
(***************************************************************************)
EXTENDS Integers, Bags

INSTANCE BagsExt

VARIABLES
    off,       \* bytes buffered so far
    emit_off,  \* bytes sent so far
    pending,   \* bytes waiting to be sent, for the first time or again
    acked,     \* bytes recorded as acked
    pkts,      \* bag of the packets the sender remembers
    received,  \* bytes the peer has
    is_reset   \* the stream was shut down or stopped

vars == <<off, emit_off, pending, acked, pkts, received, is_reset>>

Interval(i, j) == i .. j - 1

Bytes(p) == Interval(p.off, p.off + p.len)

Packet == [off : Nat, len : Nat, fin : BOOLEAN, lost : BOOLEAN, recovered : BOOLEAN,
           at_peer : {"no", "decoded", "received"}]

Init ==
    /\ off = 0 /\ emit_off = 0
    /\ pending = {} /\ acked = {} /\ received = {}
    /\ pkts = EmptyBag
    /\ is_reset = FALSE

Write ==
    /\ off' \in Nat /\ off' >= off
    /\ pending' = pending \cup Interval(off, off')
    /\ UNCHANGED <<emit_off, acked, pkts, received, is_reset>>

\* Everything before the front was sent, so what is sent next ends within
\* emit_off or extends it.
Emit(p) ==
    /\ p \in Packet
    /\ Bytes(p) \subseteq pending
    /\ p.off <= emit_off /\ p.off + p.len <= off
    /\ ~p.lost /\ ~p.recovered /\ p.at_peer = "no"
    /\ pending' = pending \ Bytes(p)
    /\ emit_off' = IF p.off + p.len > emit_off THEN p.off + p.len ELSE emit_off
    /\ pkts' = BagAdd(pkts, p)
    /\ UNCHANGED <<off, acked, received, is_reset>>

Becomes(p, q) == pkts' = BagAdd(BagRemove(pkts, p), q)

\* The packet arrives, or the peer decodes its source symbol.
Arrive(p) ==
    /\ received' = received \cup Bytes(p)
    /\ \/ p.lost /\ pkts' = BagRemove(pkts, p)
       \/ \E how \in {"decoded", "received"} : Becomes(p, [p EXCEPT !.at_peer = how])
    /\ UNCHANGED <<off, emit_off, pending, acked, is_reset>>

SymbolAck(p) ==
    /\ p.at_peer = "decoded"
    /\ Becomes(p, [p EXCEPT !.recovered = TRUE])
    /\ UNCHANGED <<off, emit_off, pending, acked, received, is_reset>>

\* Only acked bytes are dropped from the queue.
Ack(p) ==
    /\ p.at_peer = "received"
    /\ pkts' = BagRemove(pkts, p)
    /\ acked' = acked \cup Bytes(p)
    /\ pending' \subseteq pending /\ pending \ pending' \subseteq acked'
    /\ UNCHANGED <<off, emit_off, received, is_reset>>

\* A collected stream takes no notice of acks; it had nothing left to deliver.
IgnoreAck(p) ==
    /\ Interval(0, off) \subseteq acked
    /\ pkts' = BagRemove(pkts, p)
    /\ UNCHANGED <<off, emit_off, pending, acked, received, is_reset>>

\* What a lost packet carried waits to be sent again, except bytes that are
\* acked by now and packets the peer decoded.
Reschedule(p) ==
    /\ pending' \subseteq pending \cup (Bytes(p) \cap Interval(0, off))
    /\ pending \subseteq pending'
    /\ p.recovered \/ (Bytes(p) \cap Interval(0, off)) \ acked \subseteq pending'
    /\ UNCHANGED <<off, emit_off, acked, received, is_reset>>

Lost(p) ==
    /\ Reschedule(p)
    /\ \/ pkts' = BagRemove(pkts, p)
       \/ Becomes(p, [p EXCEPT !.lost = TRUE])

Probe(p) ==
    /\ Reschedule(p)
    /\ UNCHANGED pkts

\* SendBuf::reset: what was never sent is dropped, the rest counts as acked.
Reset ==
    /\ off' = emit_off
    /\ pending' = {}
    /\ acked' = acked \cup Interval(0, emit_off)
    /\ is_reset' = TRUE
    /\ UNCHANGED <<emit_off, pkts, received>>

Next ==
    \/ Write
    \/ \E p \in BagToSet(pkts') : Emit(p)
    \/ \E p \in BagToSet(pkts) :
          Arrive(p) \/ SymbolAck(p) \/ Ack(p) \/ IgnoreAck(p) \/ Lost(p) \/ Probe(p)
    \/ Reset

Spec == Init /\ [][Next]_vars

-----------------------------------------------------------------------------
TypeOK ==
    /\ off \in Nat /\ emit_off \in Nat
    /\ pending \subseteq Nat /\ acked \subseteq Nat /\ received \subseteq Nat
    /\ BagToSet(pkts) \subseteq Packet
    /\ is_reset \in BOOLEAN

\* No byte is lost between the buffer, the packets in flight and the peer.
NoByteForgotten ==
    \A b \in Interval(0, off) :
        \/ b \in acked \/ b \in pending \/ b \in received
        \/ \E p \in BagToSet(pkts) : ~p.lost /\ b \in Bytes(p)

\* Unless the stream was reset, an acked byte is at the peer.
AckedIsReceived == ~is_reset => acked \subseteq received

\* The peer has only bytes that were sent.
ReceivedIsSent == received \subseteq Interval(0, emit_off)

\* The packets carry sent bytes and their marks are truthful.
PacketsTruthful ==
    \A p \in BagToSet(pkts) :
        /\ p.off + p.len <= emit_off
        /\ p.at_peer # "no" => Bytes(p) \subseteq received
        /\ p.recovered => p.at_peer # "no"

SentWithinBuffered ==
    /\ emit_off <= off /\ pending \subseteq Interval(0, off)

QueueInv == /\ TypeOK /\ NoByteForgotten /\ AckedIsReceived /\ ReceivedIsSent
            /\ PacketsTruthful /\ SentWithinBuffered
=============================================================================
