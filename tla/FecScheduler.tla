---------------------------- MODULE FecScheduler ----------------------------
(***************************************************************************)
(* The sender's redundancy: the two schedulers that decide when a REPAIR    *)
(* frame is sent, the window of source symbols of the encoder, and the      *)
(* handlers that feed them: writes, resets, sending, acks, declared losses, *)
(* probe timeouts and the timer the application waits for.                  *)
(*                                                                         *)
(* Stream data comes in blocks that fill a packet and a source symbol.  A   *)
(* packet has one source symbol or one repair symbol: REPAIR leaves no room *)
(* for a STREAM frame (lib.rs:4639-4645).  A packet is named by its number, *)
(* which is also the number of its source symbol.  The congestion window is *)
(* counted in packets: there is room for a symbol, and the packet is         *)
(* protected, or for no data at all.  What a PING adds to the bytes in       *)
(* flight is less than a symbol and is left out.                             *)
(***************************************************************************)
EXTENDS Integers, FiniteSets, FiniteSetsExt

CONSTANTS
    Streams,       \* the streams the application writes to
    AppLen,        \* blocks it writes to each of them
    ResetStreams,  \* those that may be reset, by either endpoint
    DgramsNegotiated, \* the peer accepts datagrams: dgram_max_writable_len().is_some()
    Algorithms,    \* the schedulers the application may have configured
    SymbolSize,    \* symbol_size, in the unit of the three constants below
    BurstSize,     \* DEFAULT_BURST_SIZE
    SmallFlight,   \* below it 3/5 of the flight is protected (15000 bytes)
    Losses,        \* average plus deviations of the losses of a round trip, in
                   \*   symbols; NoInfo before the first estimate
    Cwnd,          \* congestion window, in packets
    MaxLosses,     \* bound on the packets declared lost
    MaxProbes      \* bound on the probe timeouts

NoInfo == -1
NoBlock == -1
NoStream == "NoStream"
NoRound == [last |-> 0, to_send |-> 0, sent |-> 0]

ASSUME FecAssumption ==
    /\ IsFiniteSet(Streams)
    /\ AppLen \in Nat /\ SymbolSize \in Nat \ {0}
    /\ BurstSize \in Nat /\ SmallFlight \in Nat /\ Cwnd \in Nat
    /\ DgramsNegotiated \in BOOLEAN
    /\ MaxLosses \in Nat /\ MaxProbes \in Nat
    /\ Losses \subseteq Nat \cup {NoInfo}
    /\ Algorithms \subseteq {"background", "bursts"}

VARIABLES
    alg,            \* the scheduler in use
    sch,            \* its state, the fields of both
    off, emit_off,  \* of each stream: end of the data written and of the data sent
    pending,        \* of each stream: the blocks that wait to be sent
    flushable,      \* the queue of flushable streams
    closed,         \* of each stream: "No", "Shutdown" or "Stopped", how it was reset
    tx_data,        \* Connection::tx_data, in blocks
    next_pn,        \* the next packet number, from 1
    pkts,           \* packets with a source symbol that are neither acked nor lost
    repairs,        \* the number of such packets with a repair symbol
    lost_frames,    \* packets whose frames wait for the lost-frames loop
    lost_repairs,   \* and the number of REPAIR frames among them
    window, landed, \* the encoder: its window, and what landed in it
    latest,         \* latest_metadata_of_symbol_with_fec_protected_frames, or 0
    loss_probes, pto_count,
    app,            \* "sending": calls send(); "waiting": until a timer or a packet
    losses, probes  \* used up of MaxLosses and MaxProbes

streamVars == <<off, emit_off, pending, flushable, closed, tx_data>>
encoderVars == <<window, landed, latest>>
netVars == <<next_pn, pkts, repairs, lost_frames, lost_repairs>>
timerVars == <<loss_probes, pto_count>>
vars == <<alg, sch, streamVars, encoderVars, netVars, timerVars, app, losses, probes>>

Init ==
    /\ alg \in Algorithms
    /\ sch = [n_repair_in_flight |-> 0, rs_triggering_time |-> "None",
              rs_sent_for_this_round |-> FALSE, idle_tx |-> 0,
              since_last_repair |-> 0, state_sending_repair |-> NoRound]
    /\ off = [s \in Streams |-> 0] /\ emit_off = [s \in Streams |-> 0]
    /\ pending = [s \in Streams |-> {}]
    /\ flushable = {} /\ closed = [s \in Streams |-> "No"] /\ tx_data = 0
    /\ next_pn = 1 /\ pkts = {} /\ repairs = 0 /\ lost_frames = {} /\ lost_repairs = 0
    /\ window = {} /\ landed = {} /\ latest = 0
    /\ loss_probes = 0 /\ pto_count = 0
    /\ app = "sending" /\ losses = 0 /\ probes = 0

Larger(a, b) == IF a >= b THEN a ELSE b
Smaller(a, b) == IF a <= b THEN a ELSE b

\* A packet without stream data is much smaller than a symbol.
bif == SymbolSize * (Cardinality({p \in pkts : p.blk # NoBlock}) + repairs)

-----------------------------------------------------------------------------
(* The encoder of the networkcoding crate, from the way it is called: a      *)
(* window of consecutive symbols that moves past the ones that landed.       *)

remove_landed_symbols(w, l) == {m \in w : \E n \in w : n <= m /\ n \notin l}

\* can_send_repair_symbols, and generate_and_serialize_repair_symbol_up_to the latest.
CanGenerate(w) == \E m \in w : m <= latest

-----------------------------------------------------------------------------
(* should_send_repair of both schedulers: `busy' when there is data to send,  *)
(* `lost' the loss estimate.  Consult is the scheduler after the call and     *)
(* ShouldSend what the call returned.                                         *)

SmallFlightRepair(bytes) == (bytes * 3) \div 5

BackgroundRepair(lost) ==
    CASE bif < SymbolSize -> 0
      [] bif >= SymbolSize /\ bif < SmallFlight -> SmallFlightRepair(bif)
      [] OTHER -> IF lost = NoInfo THEN Smaller(5 * SymbolSize, bif \div 4)
                                   ELSE Smaller(lost * SymbolSize, bif \div 3)

\* Mutant: a new delay starts with the mark of the last round.
ConsultBackground_marked(sc, busy, lost) ==
    IF busy \/ sc.n_repair_in_flight * SymbolSize >= BackgroundRepair(lost)
    THEN [sc EXCEPT !.rs_triggering_time = "None"]
    ELSE IF sc.rs_triggering_time = "None"
    THEN [sc EXCEPT !.rs_triggering_time = "Delaying"]
    ELSE sc

\* With nothing to send the timer starts, or goes on; else it is reset.
ConsultBackground(sc, busy, lost) ==
    IF busy \/ sc.n_repair_in_flight * SymbolSize >= BackgroundRepair(lost)
    THEN [sc EXCEPT !.rs_triggering_time = "None", !.rs_sent_for_this_round = FALSE]
    ELSE IF sc.rs_triggering_time = "None"
    THEN [sc EXCEPT !.rs_triggering_time = "Delaying", !.rs_sent_for_this_round = FALSE]
    ELSE sc

BurstRepair(sc, lost) ==
    LET bytes == Smaller(bif, sc.since_last_repair * SymbolSize)
    IN  IF bytes < SmallFlight THEN SmallFlightRepair(bytes)
        ELSE IF lost = NoInfo THEN bytes \div 2
        ELSE Smaller(lost * SymbolSize, bytes \div 2)

\* The round in progress, unless all its repair symbols were sent; a new one after
\* a burst, up to the last symbol of the window w; none once that left the window.
RoundOf(sc, busy, w) ==
    LET round == sc.state_sending_repair
        ended == round.sent * SymbolSize >= round.to_send
    IN  IF ended /\ w # {} /\ ~busy /\ (tx_data - sc.idle_tx) * SymbolSize > BurstSize
        THEN [last |-> next_pn - 1, to_send |-> 0, sent |-> 0]
        ELSE IF ended \/ round.last \notin w THEN NoRound
        ELSE round

ConsultBursts(sc, busy, w, lost) ==
    LET round == RoundOf(sc, busy, w)
    IN  [sc EXCEPT
           !.state_sending_repair =
               IF round = NoRound THEN NoRound
               ELSE [round EXCEPT !.to_send = Larger(@, BurstRepair(sc, lost))],
           !.idle_tx = IF busy THEN @ ELSE tx_data]

Consult(sc, busy, w, lost) == IF alg = "background" THEN ConsultBackground(sc, busy, lost)
                              ELSE ConsultBursts(sc, busy, w, lost)

ShouldSend(sc) ==
    IF alg = "background" THEN sc.rs_triggering_time = "Elapsed"
    ELSE sc.state_sending_repair.sent * SymbolSize < sc.state_sending_repair.to_send

-----------------------------------------------------------------------------
(* The other calls of the schedulers.                                        *)

sent_repair_symbol(sc) ==
    LET sent == [sc EXCEPT !.n_repair_in_flight = @ + 1]
    IN  IF alg = "background" THEN [sent EXCEPT !.rs_sent_for_this_round = TRUE]
        ELSE [sent EXCEPT !.since_last_repair = 0, !.state_sending_repair.sent = @ + 1]

\* acked_repair_symbol and lost_repair_symbol, called n times.
acked_repair_symbol(sc, n) == [sc EXCEPT !.n_repair_in_flight = @ - n]

sent_source_symbol(sc) ==
    IF alg = "background"
    THEN [sc EXCEPT !.rs_triggering_time = "None", !.rs_sent_for_this_round = FALSE]
    ELSE [sc EXCEPT !.since_last_repair = @ + 1]

\* timeout() has passed.  Without jitter, the default, bursts sets no timer.
TimerDue == /\ alg = "background"
            /\ sch.rs_triggering_time = "Elapsed" /\ ~sch.rs_sent_for_this_round

-----------------------------------------------------------------------------
(* The application.                                                          *)

\* stream_send of one block, and then send().
stream_send(s) ==
    /\ closed[s] = "No" /\ off[s] < AppLen
    /\ off' = [off EXCEPT ![s] = @ + 1]
    /\ pending' = [pending EXCEPT ![s] = @ \cup {off[s]}]
    /\ flushable' = flushable \cup {s}
    /\ tx_data' = tx_data + 1
    /\ app' = "sending"
    /\ UNCHANGED <<alg, sch, emit_off, closed, encoderVars, netVars, timerVars,
                   losses, probes>>

\* Mutant: what waits to be sent again counts as never sent.
UnsentOff_front(s) == IF pending[s] = {} THEN off[s] ELSE Min(pending[s])

UnsentOff(s) == Larger(IF pending[s] = {} THEN off[s] ELSE Min(pending[s]), emit_off[s])

\* stream_shutdown(Write), or a STOP_SENDING frame: unsent data is clawed back and
\* the stream stays in the queue.
ResetStream(s, how) ==
    /\ s \in ResetStreams /\ closed[s] = "No"
    /\ tx_data' = Larger(0, tx_data - (off[s] - UnsentOff(s)))
    /\ off' = [off EXCEPT ![s] = UnsentOff(s)]
    /\ pending' = [pending EXCEPT ![s] = {}]
    /\ closed' = [closed EXCEPT ![s] = how]
    /\ app' = "sending"
    /\ UNCHANGED <<alg, sch, emit_off, flushable, encoderVars, netVars, timerVars,
                   losses, probes>>

\* The delay of the background scheduler passes.
Tick ==
    /\ sch.rs_triggering_time = "Delaying"
    /\ sch' = [sch EXCEPT !.rs_triggering_time = "Elapsed"]
    /\ UNCHANGED <<alg, streamVars, encoderVars, netVars, timerVars, app, losses, probes>>

\* The application waited for timeout(), and calls send().
Wake ==
    /\ app = "waiting" /\ TimerDue
    /\ app' = "sending"
    /\ UNCHANGED <<alg, sch, streamVars, encoderVars, netVars, timerVars, losses, probes>>

-----------------------------------------------------------------------------
(* send_single for a Short packet.                                           *)

\* dgrams_to_emit || stream_to_emit
Busy(queue) == DgramsNegotiated \/ queue # {}

\* write_pkt_type asks the scheduler only if it finds no other reason to send.
Asked == lost_frames = {} /\ lost_repairs = 0 /\ loss_probes = 0 /\ flushable = {}
AfterPktType(lost) == IF Asked THEN Consult(sch, Busy(flushable), window, lost) ELSE sch

\* It returns Done.
SendDone(lost) ==
    /\ app = "sending"
    /\ Asked /\ ~ShouldSend(AfterPktType(lost))
    /\ sch' = AfterPktType(lost)
    /\ app' = "waiting"
    /\ UNCHANGED <<alg, streamVars, encoderVars, netVars, timerVars, losses, probes>>

\* The loop over lost frames.  Nothing is sent again of `kept': symbols the peer
\* recovered (LostAndRecovered) and data acked or reset meanwhile.
PendingAfter(kept) ==
    [s \in Streams |->
        IF closed[s] # "No" THEN pending[s]
        ELSE pending[s] \cup {p.blk : p \in {q \in lost_frames \ kept :
                                              q.stream = s /\ q.blk # NoBlock}}]
QueueAfter(kept) == flushable \cup {s \in Streams : PendingAfter(kept)[s] # pending[s]}

\* Mutant: a lost symbol stays in the window.
LandedAfter_kept == landed

LandedAfter == landed \cup {p.pn : p \in lost_frames}
WindowAfter == remove_landed_symbols(window, LandedAfter)

\* The second call of the scheduler, before the REPAIR frame.
AfterLoop(kept, lost) ==
    Consult(acked_repair_symbol(AfterPktType(lost), lost_repairs),
            Busy(QueueAfter(kept)), WindowAfter, lost)

\* Room for a whole symbol; probes ignore the congestion window.
Room == loss_probes > 0 \/ bif < Cwnd * SymbolSize

RepairNow(kept, lost) ==
    ShouldSend(AfterLoop(kept, lost)) /\ Room /\ CanGenerate(WindowAfter)

ping_sent == Larger(0, loss_probes - 1)

\* What every way on from there has in common.
SendSingle(lost) ==
    /\ app = "sending"
    /\ ~Asked \/ ShouldSend(AfterPktType(lost))
    /\ lost_frames' = {} /\ lost_repairs' = 0
    /\ loss_probes' = ping_sent
    /\ landed' = LandedAfter \cap WindowAfter
    /\ UNCHANGED <<alg, off, closed, tx_data, pto_count, losses, probes>>

SendRepair(kept, lost) ==
    /\ SendSingle(lost)
    /\ RepairNow(kept, lost)
    /\ sch' = sent_repair_symbol(AfterLoop(kept, lost))
    /\ repairs' = repairs + 1
    /\ window' = WindowAfter
    /\ pending' = PendingAfter(kept) /\ flushable' = QueueAfter(kept)
    /\ UNCHANGED <<emit_off, latest, next_pn, pkts, app>>

\* A source symbol with a frame of stream s; if all queued streams were stopped it is
\* empty, but for the PING of a probe.  Stopped streams leave the queue, except those behind s.
SendSource(kept, lost, s) ==
    LET pend == PendingAfter(kept)
        queue == {t \in QueueAfter(kept) : closed[t] # "Stopped"}
        blk == IF s = NoStream \/ pend[s] = {} THEN NoBlock ELSE Min(pend[s])
    IN  /\ SendSingle(lost)
        /\ ~RepairNow(kept, lost) /\ Room /\ QueueAfter(kept) # {}
        /\ s \in (IF queue # {} THEN queue ELSE {NoStream})
        /\ sch' = sent_source_symbol(AfterLoop(kept, lost))
        /\ pkts' = pkts \cup {[pn |-> next_pn, stream |-> s, blk |-> blk]}
        /\ next_pn' = next_pn + 1
        /\ window' = WindowAfter \cup {next_pn}
        /\ latest' = IF s # NoStream \/ loss_probes > 0 THEN next_pn ELSE latest
        /\ pending' = [t \in Streams |-> IF t = s THEN pend[t] \ {blk} ELSE pend[t]]
        /\ emit_off' = [t \in Streams |-> IF t = s THEN Larger(emit_off[t], blk + 1)
                                          ELSE emit_off[t]]
        /\ \E behind \in SUBSET (QueueAfter(kept) \ queue) :
              /\ s = NoStream => behind = {}
              /\ flushable' = {t \in queue : t = s => pending'[t] # {}} \cup behind
        /\ UNCHANGED <<repairs, app>>

\* No frame, or only a PING because of a probe: send() returns Done in the first case.
SendNone(kept, lost) ==
    /\ SendSingle(lost)
    /\ ~RepairNow(kept, lost)
    /\ Room => QueueAfter(kept) = {}
    /\ sch' = AfterLoop(kept, lost)
    /\ window' = WindowAfter
    /\ pending' = PendingAfter(kept) /\ flushable' = QueueAfter(kept)
    /\ app' = IF loss_probes > 0 THEN app ELSE "waiting"
    /\ UNCHANGED <<emit_off, latest, next_pn, pkts, repairs>>

Send ==
    \E lost \in Losses :
        \/ SendDone(lost)
        \/ \E kept \in SUBSET lost_frames :
              \/ SendRepair(kept, lost)
              \/ SendNone(kept, lost)
              \/ \E s \in Streams \cup {NoStream} : SendSource(kept, lost, s)

-----------------------------------------------------------------------------
(* Acks, losses and timeouts; the application then calls send().              *)

\* Frame::SourceSymbolHeader and Frame::StreamHeader in the loop over acked frames;
\* an acked block that waits to be sent again may be dropped.
AckSource(p) ==
    /\ pkts' = pkts \ {p}
    /\ window' = remove_landed_symbols(window, landed \cup {p.pn})
    /\ landed' = (landed \cup {p.pn}) \cap window'
    /\ pending' \in {pending, [s \in Streams |-> IF s = p.stream THEN pending[s] \ {p.blk}
                                                 ELSE pending[s]]}
    /\ pto_count' = 0
    /\ app' = "sending"
    /\ UNCHANGED <<alg, sch, off, emit_off, flushable, closed, tx_data, latest, next_pn,
                   repairs, lost_frames, lost_repairs, loss_probes, losses, probes>>

\* Frame::Repair there.
AckRepair ==
    /\ repairs > 0
    /\ repairs' = repairs - 1
    /\ sch' = acked_repair_symbol(sch, 1)
    /\ pto_count' = 0
    /\ app' = "sending"
    /\ UNCHANGED <<alg, streamVars, encoderVars, next_pn, pkts, lost_frames, lost_repairs,
                   loss_probes, losses, probes>>

\* detect_lost_packets; which packet, and when, is left open.
LoseSource(p) ==
    /\ losses < MaxLosses /\ losses' = losses + 1
    /\ pkts' = pkts \ {p}
    /\ lost_frames' = lost_frames \cup {p}
    /\ app' = "sending"
    /\ UNCHANGED <<alg, sch, streamVars, encoderVars, next_pn, repairs, lost_repairs,
                   timerVars, probes>>

LoseRepair ==
    /\ losses < MaxLosses /\ losses' = losses + 1
    /\ repairs > 0
    /\ repairs' = repairs - 1 /\ lost_repairs' = lost_repairs + 1
    /\ app' = "sending"
    /\ UNCHANGED <<alg, sch, streamVars, encoderVars, next_pn, pkts, lost_frames,
                   timerVars, probes>>

\* Mutant: packets without data are rescheduled, too.
ProbedRepairs_any == Smaller(repairs, 1)

\* on_loss_detection_timeout looks at the packets with data; a REPAIR frame is in none.
ProbedRepairs == 0

Oldest(n, packets) ==
    {p \in packets : Cardinality({q \in packets : q.pn < p.pn}) < n}

\* on_loss_detection_timeout without a loss time: the frames of the oldest packets
\* with data are rescheduled, the packets stay in flight.  The timer may run for a
\* packet with only a PING, which is not in pkts.
ProbeTimeout ==
    /\ probes < MaxProbes /\ probes' = probes + 1
    /\ next_pn > 1
    /\ pto_count' = pto_count + 1
    /\ loss_probes' = Smaller(pto_count', 2)
    /\ lost_frames' = lost_frames \cup
                      Oldest(loss_probes', {p \in pkts : p.stream # NoStream})
    /\ lost_repairs' = lost_repairs + ProbedRepairs
    /\ app' = "sending"
    /\ UNCHANGED <<alg, sch, streamVars, encoderVars, next_pn, pkts, repairs, losses>>

Next ==
    \/ \E s \in Streams : stream_send(s)
    \/ \E s \in Streams, how \in {"Shutdown", "Stopped"} : ResetStream(s, how)
    \/ Tick \/ Wake \/ Send
    \/ \E p \in pkts : AckSource(p) \/ LoseSource(p)
    \/ AckRepair \/ LoseRepair \/ ProbeTimeout

Spec == Init /\ [][Next]_vars

\* The application calls send() until it returns Done, and when its timer expires;
\* time passes.  Nothing else is forced: no ack, no loss, no data.
FairSpec == Spec /\ WF_vars(Send) /\ WF_vars(Tick) /\ WF_vars(Wake)

-----------------------------------------------------------------------------
Packet == [pn : Nat, stream : Streams \cup {NoStream}, blk : Nat \cup {NoBlock}]

\* Types.  The counters are unsigned, so that no subtraction may wrap.
TypeOK ==
    /\ alg \in Algorithms
    /\ sch \in [n_repair_in_flight : Nat,
                rs_triggering_time : {"None", "Delaying", "Elapsed"},
                rs_sent_for_this_round : BOOLEAN, idle_tx : Nat,
                since_last_repair : Nat,
                state_sending_repair : [last : Nat, to_send : Nat, sent : Nat]]
    /\ off \in [Streams -> Nat] /\ emit_off \in [Streams -> Nat]
    /\ pending \in [Streams -> SUBSET Nat]
    /\ flushable \subseteq Streams
    /\ closed \in [Streams -> {"No", "Shutdown", "Stopped"}]
    /\ tx_data \in Nat /\ next_pn \in Nat \ {0}
    /\ pkts \subseteq Packet /\ lost_frames \subseteq Packet
    /\ repairs \in Nat /\ lost_repairs \in Nat
    /\ window \subseteq Nat /\ landed \subseteq Nat /\ latest \in Nat
    /\ loss_probes \in Nat /\ pto_count \in Nat
    /\ app \in {"sending", "waiting"}
    /\ losses \in 0 .. MaxLosses /\ probes \in 0 .. MaxProbes

\* n_repair_in_flight counts the REPAIR frames that are in flight or whose loss the
\* next send() will see, each of them once: acks, losses and probe timeouts in any
\* order do not make the unsigned counter wrap (acked_repair_symbol).
RepairsCounted == sch.n_repair_in_flight = repairs + lost_repairs

\* The size of a burst, tx_data minus its value when there was last nothing to send,
\* does not wrap although resets give unsent bytes back (should_send_repair of the
\* bursts scheduler).
BurstSizeExact == sch.idle_tx <= tx_data

\* A repair symbol is sent only while a source symbol it protects is in flight: acks
\* and losses move the encoder's window on (remove_landed_symbols).
RepairProtects ==
    [][repairs' > repairs => \E p \in pkts : p.pn <= latest]_vars

\* The last packets of a transfer, with room in the window and no repair symbol yet.
UnprotectedTail ==
    /\ alg = "background" /\ flushable = {} /\ lost_frames = {} /\ lost_repairs = 0
    /\ repairs = 0 /\ CanGenerate(window) /\ Room
    /\ SymbolSize <= bif /\ bif < SmallFlight

\* The background scheduler protects them: its timer wakes the application up
\* although no ack, no loss and no other timer does.
TailProtected == []<>~UnprotectedTail

(* Promises that the code does not keep; see README. *)

\* Redundancy is sent "only when there is no user data to send" (fec_scheduler.rs:21,
\* 24): a round of the bursts scheduler goes on when new data was written.
OnlyWhenIdle == [][repairs' > repairs => flushable = {} /\ lost_frames = {}]_vars

\* timeout() is the time "at which the stack should wake up to sent new repair
\* symbols" (fec_scheduler.rs:113): with a full congestion window, or no symbol left
\* in the encoder, it stays in the past while send() returns Done.
DoneMeansNotDue == [][app' = "waiting" /\ app = "sending" => ~TimerDue']_vars
=============================================================================
