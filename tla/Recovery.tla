------------------------------ MODULE Recovery ------------------------------
(***************************************************************************)
(* Loss recovery of one path (recovery/mod.rs) and the handlers of lib.rs   *)
(* that drive it: packets sent, ACK frames, the loss detection timer, packet *)
(* number spaces discarded as the handshake goes on, and path changes.       *)
(*                                                                         *)
(* Instants are relative to now, which is 0: Tick moves every one of them     *)
(* into the past, up to the age from which no comparison of the code tells    *)
(* them apart.  An Option is a set: {} is None, {t} is Some(t).  The lengths  *)
(* of round trips are data: every update of the estimate may give any member  *)
(* of Rtts.  A packet that elicits an ack has size 1, any other has size 0 as *)
(* in lib.rs:5070.  Congestion control only reads what is modelled here, and   *)
(* what is done with the frames of a lost packet is in SendStream.             *)
(***************************************************************************)
EXTENDS Integers, FiniteSets, FiniteSetsExt, Functions

CONSTANTS
    Roles,        \* whether the endpoint may be a server: a subset of BOOLEAN
    MaxPkts,      \* of each space: bound on the packets sent
    Kinds,        \* of each space: what it may send
    Rtts,         \* estimates: [rtt, loss_delay, pto], loss_delay >= GRANULARITY
    Longest,      \* as long as any of them
    MaxAckDelay,  \* max_ack_delay of the peer
    InitThresh, MaxThresh, \* INITIAL_PACKET_THRESHOLD, MAX_PACKET_THRESHOLD
    MaxOutstanding, \* MAX_OUTSTANDING_NON_ACK_ELICITING
    MaxBackoff,   \* bound on pto_count, which the code lets grow
    MaxChanges    \* bound on the path changes

Epochs == {"Initial", "Handshake", "Application"}
AllKinds == {"eliciting", "padding", "ack", "mtu_probe"}
MAX_PTO_PROBES_COUNT == 2

ASSUME RecoveryAssumption ==
    /\ Roles \subseteq BOOLEAN /\ Roles # {}
    /\ MaxPkts \in [Epochs -> Nat] /\ Kinds \in [Epochs -> SUBSET AllKinds]
    /\ Rtts \subseteq [rtt : Nat, loss_delay : Nat \ {0}, pto : Nat \ {0}] /\ Rtts # {}
    /\ Longest \in [rtt : Nat, loss_delay : Nat, pto : Nat]
    /\ \A est \in Rtts : /\ est.rtt <= Longest.rtt /\ est.pto <= Longest.pto
                         /\ est.loss_delay <= Longest.loss_delay
    /\ MaxAckDelay \in Nat /\ InitThresh \in Nat \ {0} /\ MaxThresh \in Nat
    /\ InitThresh <= MaxThresh /\ MaxOutstanding \in Nat
    /\ MaxBackoff \in Nat /\ MaxChanges \in Nat

VARIABLES
    is_server,
    keys,         \* of each space: "None", "Ready" or "Dropped"
    completed,    \* is_established()
    confirmed,    \* handshake_confirmed
    peer_verified, \* peer_verified_initial_address
    next_pn,      \* of each space: next_pkt_num
    r,            \* the Recovery of the path
    changes,      \* used up of MaxChanges
    restarted     \* the attempt began anew, with a Retry or another version

handshakeVars == <<is_server, keys, completed, confirmed, peer_verified>>
vars == <<handshakeVars, next_pn, r, changes, restarted>>

ack_eliciting(p) == p.kind \in {"eliciting", "mtu_probe"}
in_flight(p) == p.kind # "ack"

Packets == [e : Epochs, pn : Nat, kind : AllKinds]

Init ==
    /\ is_server \in Roles
    /\ keys = [e \in Epochs |-> IF e = "Initial" THEN "Ready" ELSE "None"]
    /\ completed = FALSE /\ confirmed = FALSE /\ peer_verified = is_server
    /\ next_pn = [e \in Epochs |-> 0]
    /\ \E est \in Rtts :
         r = [time_sent |-> <<>>, time_lost |-> <<>>, acked |-> {},
              largest_acked |-> [e \in Epochs |-> {}],
              loss_time |-> [e \in Epochs |-> {}],
              last_ae |-> [e \in Epochs |-> {}],
              loss_probes |-> [e \in Epochs |-> 0],
              in_flight_count |-> [e \in Epochs |-> 0],
              loss_timer |-> {}, pto_count |-> 0,
              bytes_in_flight |-> 0, pkt_thresh |-> InitThresh,
              outstanding |-> 0, est |-> est]
    /\ changes = 0 /\ restarted = FALSE

-----------------------------------------------------------------------------
(* The list of sent packets of a space, in the order of their numbers.       *)

Sent(x, e) == {p \in DOMAIN x.time_sent : p.e = e}
Unresolved(x) == {p \in DOMAIN x.time_sent : p \notin x.acked /\ p \notin DOMAIN x.time_lost}
Eliciting(S) == {p \in S : ack_eliciting(p)}
InFlight(S) == {p \in S : in_flight(p)}
unwrap_or(opt, n) == IF opt = {} THEN n ELSE CHOOSE t \in opt : TRUE

\* Whether the packet stops the drain: it is unresolved, or was lost too lately.
Stays(x, p) ==
    \/ p \in DOMAIN x.time_lost /\ x.time_lost[p] > -x.est.rtt
    \/ p \notin DOMAIN x.time_lost /\ p \notin x.acked

\* Packets are only removed from the front.
drain_acked_and_lost_packets(x, e) ==
    LET gone == {p \in Sent(x, e) : \A q \in Sent(x, e) : q.pn <= p.pn => ~Stays(x, q)}
    IN [x EXCEPT !.time_sent = Restrict(@, DOMAIN @ \ gone),
                 !.time_lost = Restrict(@, DOMAIN @ \ gone), !.acked = @ \ gone]

-----------------------------------------------------------------------------
(* The loss detection timer.                                                 *)

\* `<' of Option<Instant>: None comes before every Some.
OptLess(a, b) == b # {} /\ (a = {} \/ \E t \in a, u \in b : t < u)
Add(opt, d) == {t + d : t \in opt}

\* One turn of the loops below: the candidate of space e replaces the best one.
Earlier(best, time, e) ==
    IF best.time = {} \/ OptLess(time, best.time) THEN [time |-> time, e |-> e] ELSE best

loss_time_and_space(x) ==
    Earlier(Earlier([time |-> x.loss_time["Initial"], e |-> "Initial"],
                    x.loss_time["Handshake"], "Handshake"),
            x.loss_time["Application"], "Application")

Backoff(x) == 2 ^ x.pto_count

\* HandshakeStatus, and the space it makes an anti-deadlock packet go to.
handshake_status(k, done, verified) ==
    [space |-> IF k["Handshake"] = "Ready" THEN "Handshake" ELSE "Initial",
     completed |-> done, verified |-> verified]

pto_time_and_space(x, hs) ==
    LET d == x.est.pto * Backoff(x)
        Turn(best, e, delay) ==
            IF x.in_flight_count[e] = 0 THEN best
            ELSE Earlier(best, Add(x.last_ae[e], delay), e)
        early == Turn(Turn([time |-> {}, e |-> "Initial"], "Initial", d), "Handshake", d)
    IN CASE x.bytes_in_flight = 0 -> [time |-> {d}, e |-> hs.space]
         [] x.bytes_in_flight # 0 /\ hs.completed ->
              Turn(early, "Application", d + MaxAckDelay * Backoff(x))
         [] OTHER -> early

\* The timer is only compared with now.
Due(opt) == {Max({t, 0}) : t \in opt}

set_loss_detection_timer(x, hs) ==
    LET earliest == loss_time_and_space(x).time
        pto == pto_time_and_space(x, hs).time
    IN CASE earliest # {} -> [x EXCEPT !.loss_timer = Due(earliest)]
         [] earliest = {} /\ x.bytes_in_flight = 0 /\ hs.verified ->
              [x EXCEPT !.loss_timer = {}]
         [] OTHER -> [x EXCEPT !.loss_timer = IF pto = {} THEN @ ELSE Due(pto)]

-----------------------------------------------------------------------------
(* Packets are declared lost.                                                *)

\* Mutant: an MTU probe that is lost stays in the count of its space.
MarkLost_probe(x, e, lost) ==
    [x EXCEPT !.time_lost = [p \in DOMAIN @ \cup lost |-> IF p \in lost THEN 0 ELSE @[p]],
              !.in_flight_count[e] =
                  @ - Cardinality({p \in InFlight(lost) : p.kind # "mtu_probe"}),
              !.bytes_in_flight = @ - Cardinality(Eliciting(lost))]

\* They no longer count as in flight.
MarkLost(x, e, lost) ==
    [x EXCEPT !.time_lost = [p \in DOMAIN @ \cup lost |-> IF p \in lost THEN 0 ELSE @[p]],
              !.in_flight_count[e] = @ - Cardinality(InFlight(lost)),
              !.bytes_in_flight = @ - Cardinality(Eliciting(lost))]

\* Sent too long ago, or too many packets before the largest acked one.
Overdue(x, p, largest) ==
    \/ x.time_sent[p] <= -x.est.loss_delay
    \/ largest >= p.pn + x.pkt_thresh

\* What the loop looks at: not acked, not lost, up to the largest acked packet.
Suspects(x, e) ==
    {p \in Sent(x, e) \cap Unresolved(x) : p.pn <= unwrap_or(x.largest_acked[e], 0)}

\* The suspects up to the first one that may still be acked in time.
LostPackets(x, e) ==
    LET largest == unwrap_or(x.largest_acked[e], 0)
    IN {p \in Suspects(x, e) :
          \A q \in Suspects(x, e) : q.pn <= p.pn => Overdue(x, q, largest)}

\* Mutant: the loss time of the space is only ever brought forward.
detect_lost_packets_keep(x, e) ==
    LET lost == LostPackets(x, e)
        rest == Suspects(x, e) \ lost
        first == {p \in rest : \A q \in rest : p.pn <= q.pn}
        y == [MarkLost(x, e, lost) EXCEPT
                !.loss_time[e] = IF first = {} THEN @
                                 ELSE {x.time_sent[p] + x.est.loss_delay : p \in first}]
    IN drain_acked_and_lost_packets(y, e)

\* Recovery::detect_lost_packets: the first suspect that is left sets loss_time.
detect_lost_packets(x, e) ==
    LET lost == LostPackets(x, e)
        rest == Suspects(x, e) \ lost
        first == {p \in rest : \A q \in rest : p.pn <= q.pn}
        y == [MarkLost(x, e, lost) EXCEPT
                !.loss_time[e] = {x.time_sent[p] + x.est.loss_delay : p \in first}]
    IN drain_acked_and_lost_packets(y, e)

-----------------------------------------------------------------------------
(* Sending.                                                                  *)

should_elicit_ack(e) == r.loss_probes[e] > 0 \/ r.outstanding >= MaxOutstanding

\* ping_sent: any packet that elicits an ack, MTU probes apart, is a probe.
ping_sent(x, p) ==
    IF ack_eliciting(p) /\ p.kind # "mtu_probe" /\ x.loss_probes[p.e] > 0
    THEN [x EXCEPT !.loss_probes[p.e] = @ - 1] ELSE x

\* Mutant: the timer is set before the packet counts as in flight.
on_packet_sent_timer(x, p, hs) ==
    LET y == [x EXCEPT !.outstanding = IF ack_eliciting(p) THEN 0 ELSE @ + 1,
                       !.last_ae[p.e] = IF ack_eliciting(p) THEN {0} ELSE @]
        z == IF in_flight(p) THEN set_loss_detection_timer(y, hs) ELSE y
        w == [z EXCEPT !.in_flight_count[p.e] = @ + Cardinality(InFlight({p})),
                       !.bytes_in_flight = @ + Cardinality(Eliciting({p}))]
    IN [w EXCEPT !.time_sent = [q \in DOMAIN @ \cup {p} |-> IF q = p THEN 0 ELSE @[q]]]

on_packet_sent(x, p, hs) ==
    LET y == [x EXCEPT !.outstanding = IF ack_eliciting(p) THEN 0 ELSE @ + 1,
                       !.last_ae[p.e] = IF ack_eliciting(p) THEN {0} ELSE @,
                       !.in_flight_count[p.e] = @ + Cardinality(InFlight({p})),
                       !.bytes_in_flight = @ + Cardinality(Eliciting({p}))]
        z == IF in_flight(p) THEN set_loss_detection_timer(y, hs) ELSE y
    IN [z EXCEPT !.time_sent = [q \in DOMAIN @ \cup {p} |-> IF q = p THEN 0 ELSE @[q]]]

on_pkt_num_space_discarded(x, e, hs) ==
    LET mine == Sent(x, e)
        y == [x EXCEPT !.bytes_in_flight =
                           @ - Cardinality(Eliciting(mine \cap Unresolved(x))),
                       !.time_sent = Restrict(@, DOMAIN @ \ mine),
                       !.time_lost = Restrict(@, DOMAIN @ \ mine), !.acked = @ \ mine,
                       !.last_ae[e] = {}, !.loss_time[e] = {},
                       !.loss_probes[e] = 0, !.in_flight_count[e] = 0]
    IN set_loss_detection_timer(y, hs)

\* drop_epoch_state, with the keys it leaves and the rest of the status.
drop_epoch_state(x, e, k, done, verified) ==
    IF k[e] # "Ready" THEN x
    ELSE on_pkt_num_space_discarded(x, e, handshake_status([k EXCEPT ![e] = "Dropped"],
                                                           done, verified))
Dropped(k, e) == IF k[e] = "Ready" THEN [k EXCEPT ![e] = "Dropped"] ELSE k

Current == handshake_status(keys, completed, peer_verified)

\* send_single: at the client the first Handshake packet ends the Initial space.
Send(e, kind) ==
    /\ keys[e] = "Ready" /\ kind \in Kinds[e] /\ next_pn[e] < MaxPkts[e]
    /\ kind = "mtu_probe" => confirmed /\ is_server
    /\ ~should_elicit_ack(e) \/ kind \in {"eliciting", "mtu_probe"}
    /\ LET p == [e |-> e, pn |-> next_pn[e], kind |-> kind]
           y == on_packet_sent(ping_sent(r, p), p, Current)
           ends == ~is_server /\ e = "Handshake"
       IN /\ next_pn' = [next_pn EXCEPT ![e] = @ + 1]
          /\ r' = IF ends THEN drop_epoch_state(y, "Initial", keys, completed, peer_verified)
                  ELSE y
          /\ keys' = IF ends THEN Dropped(keys, "Initial") ELSE keys
    /\ UNCHANGED <<is_server, completed, confirmed, peer_verified, changes, restarted>>

\* Another path is probed, or is the active one: the number is not in the list of this.
SendElsewhere ==
    /\ keys["Application"] = "Ready" /\ completed
    /\ next_pn["Application"] < MaxPkts["Application"]
    /\ next_pn' = [next_pn EXCEPT !["Application"] = @ + 1]
    /\ UNCHANGED <<handshakeVars, r, changes, restarted>>

-----------------------------------------------------------------------------
(* An ACK frame for the numbers `ranges' of space e, which every path is told *)
(* of: packets that were sent elsewhere, or have left the list, only count    *)
(* for the largest number.                                                    *)

AckedPackets(x, e, ranges) == {p \in Sent(x, e) : p.pn \in ranges}

\* detect_and_remove_acked_packets: S is marked, whether lost before or not.
detect_and_remove_acked_packets(x, e, S) ==
    LET newly == S \cap Unresolved(x)
        y == [x EXCEPT !.acked = @ \cup S,
                       !.in_flight_count[e] = @ - Cardinality(InFlight(newly))]
    IN drain_acked_and_lost_packets(y, e)

\* pkt_thresh after the ack of packets that were declared lost too early.
RaisedThresh(x, largest, spurious) ==
    IF spurious = {} THEN x.pkt_thresh
    ELSE LET thresh == largest - Min({p.pn : p \in spurious}) + 1
         IN Max({x.pkt_thresh, Min({thresh, MaxThresh})})

on_ack_received(x, e, ranges, est, hs) ==
    LET S == AckedPackets(x, e, ranges)
        largest == Max(ranges \cup x.largest_acked[e])
        newly == S \cap Unresolved(x)
        spurious == {p \in S \cap DOMAIN x.time_lost : p \notin x.acked}
        y == [detect_and_remove_acked_packets(
                 [x EXCEPT !.largest_acked[e] = {largest}], e, S)
              EXCEPT !.pkt_thresh = RaisedThresh(x, largest, spurious)]
        updates == Eliciting(newly) # {} /\ \E p \in newly : p.pn = largest
        z == detect_lost_packets([y EXCEPT !.est = IF updates THEN est ELSE @], e)
        w == set_loss_detection_timer(
                 [z EXCEPT !.bytes_in_flight = @ - Cardinality(Eliciting(newly)),
                           !.pto_count = 0], hs)
    IN IF newly = {} THEN y ELSE drain_acked_and_lost_packets(w, e)

\* 1-RTT packets are only read once the handshake has completed.
RecvAck(e, ranges, est) ==
    /\ keys[e] = "Ready"
    /\ e = "Application" => completed
    /\ LET verified == \/ peer_verified \/ e = "Handshake"
                       \/ e = "Application" /\ completed
           x == on_ack_received(r, e, ranges, est,
                                handshake_status(keys, completed, verified))
       IN /\ peer_verified' = verified
          /\ r' = IF confirmed THEN drop_epoch_state(x, "Handshake", keys, completed, verified)
                  ELSE x
          /\ keys' = IF confirmed THEN Dropped(keys, "Handshake") ELSE keys
    /\ UNCHANGED <<is_server, completed, confirmed, next_pn, changes, restarted>>

-----------------------------------------------------------------------------
(* The timer fires: on_timeout of lib.rs calls on_loss_detection_timeout.     *)

SendProbes(x, e) ==
    LET count == Min({x.pto_count + 1, MAX_PTO_PROBES_COUNT})
    IN [x EXCEPT !.pto_count = Min({@ + 1, MaxBackoff}), !.loss_probes[e] = count]

on_loss_detection_timeout(x, hs) ==
    LET loss == loss_time_and_space(x)
        e == IF x.bytes_in_flight > 0 THEN pto_time_and_space(x, hs).e ELSE hs.space
    IN set_loss_detection_timer(
         IF loss.time # {} THEN detect_lost_packets(x, loss.e) ELSE SendProbes(x, e), hs)

Timeout ==
    /\ \E t \in r.loss_timer : t <= 0
    /\ r' = on_loss_detection_timeout(r, Current)
    /\ UNCHANGED <<handshakeVars, next_pn, changes, restarted>>

-----------------------------------------------------------------------------
(* The handshake, external but for what its steps do to the recovery.         *)

InstallHandshakeKeys ==
    /\ keys["Handshake"] = "None"
    /\ is_server \/ next_pn["Initial"] > 0
    /\ keys' = [keys EXCEPT !["Handshake"] = "Ready"]
    /\ UNCHANGED <<is_server, completed, confirmed, peer_verified, next_pn, r, changes,
                   restarted>>

\* 0-RTT keys at a client, 0.5-RTT keys at a server, or 1-RTT keys.
InstallAppKeys ==
    /\ keys["Application"] = "None"
    /\ IF is_server THEN keys["Handshake"] = "Ready" ELSE next_pn["Initial"] > 0
    /\ keys' = [keys EXCEPT !["Application"] = "Ready"]
    /\ UNCHANGED <<is_server, completed, confirmed, peer_verified, next_pn, r, changes,
                   restarted>>

\* The peer's Finished, in a Handshake packet: at the server the handshake is
\* confirmed too, and both spaces end, Initial once the packet is processed.
Complete ==
    /\ keys["Handshake"] = "Ready" /\ keys["Application"] = "Ready" /\ ~completed
    /\ completed' = TRUE /\ confirmed' = is_server
    /\ LET k == Dropped(keys, "Handshake")
           x == drop_epoch_state(r, "Handshake", keys, TRUE, peer_verified)
       IN IF is_server
          THEN /\ keys' = Dropped(k, "Initial")
               /\ r' = drop_epoch_state(x, "Initial", k, TRUE, peer_verified)
          ELSE UNCHANGED <<keys, r>>
    /\ UNCHANGED <<is_server, peer_verified, next_pn, changes, restarted>>

\* A Handshake packet at the server proves that the peer has its Initial ones.
RecvHandshakePacket ==
    /\ is_server /\ keys["Handshake"] = "Ready"
    /\ keys' = Dropped(keys, "Initial")
    /\ r' = drop_epoch_state(r, "Initial", keys, completed, peer_verified)
    /\ UNCHANGED <<is_server, completed, confirmed, peer_verified, next_pn, changes,
                   restarted>>

\* HANDSHAKE_DONE, which the server sends after the client's Finished.
HandshakeDone ==
    /\ ~is_server /\ completed /\ next_pn["Handshake"] > 0
    /\ peer_verified' = TRUE /\ confirmed' = TRUE
    /\ keys' = Dropped(keys, "Handshake")
    /\ r' = drop_epoch_state(r, "Handshake", keys, completed, TRUE)
    /\ UNCHANGED <<is_server, completed, next_pn, changes, restarted>>

\* Retry or Version Negotiation: the Initial space is dropped and has new keys.
Restart ==
    /\ ~is_server /\ ~restarted /\ next_pn["Initial"] > 0
    /\ r.largest_acked["Initial"] = {} /\ keys["Handshake"] = "None"
    /\ restarted' = TRUE
    /\ r' = drop_epoch_state(r, "Initial", keys, completed, peer_verified)
    /\ UNCHANGED <<handshakeVars, next_pn, changes>>

-----------------------------------------------------------------------------
\* set_active_path, when this path was the active one: packets are declared
\* lost in every space, and the timer is left as it is.
PathChange ==
    /\ confirmed /\ changes < MaxChanges
    /\ r' = detect_lost_packets(
              detect_lost_packets(detect_lost_packets(r, "Initial"), "Handshake"),
              "Application")
    /\ changes' = changes + 1
    /\ UNCHANGED <<handshakeVars, next_pn, restarted>>

\* An instant one tick later, when ages beyond h are not told apart.
Older(t, h) == Max({t - 1, -h})

LossHorizon == Longest.loss_delay
RttHorizon == Longest.rtt
PtoHorizon == (Longest.pto + MaxAckDelay) * 2 ^ MaxBackoff

Tick ==
    /\ r' = [r EXCEPT !.time_sent = [p \in DOMAIN @ |-> Older(@[p], LossHorizon)],
                      !.time_lost = [p \in DOMAIN @ |-> Older(@[p], RttHorizon)],
                      !.loss_time = [e \in Epochs |-> {Older(t, LossHorizon) : t \in @[e]}],
                      !.last_ae = [e \in Epochs |-> {Older(t, PtoHorizon) : t \in @[e]}],
                      !.loss_timer = {Older(t, 0) : t \in @}]
    /\ UNCHANGED <<handshakeVars, next_pn, changes, restarted>>

Next ==
    \/ \E e \in Epochs, kind \in AllKinds : Send(e, kind)
    \/ SendElsewhere
    \/ \E e \in Epochs, est \in Rtts :
         \E ranges \in (SUBSET (0 .. next_pn[e] - 1)) \ {{}} : RecvAck(e, ranges, est)
    \/ Timeout
    \/ InstallHandshakeKeys \/ InstallAppKeys \/ Complete
    \/ RecvHandshakePacket \/ HandshakeDone \/ Restart
    \/ PathChange
    \/ Tick

Spec == Init /\ [][Next]_vars

-----------------------------------------------------------------------------
Options(S) == {{}} \cup {{t} : t \in S}

\* Type invariant of the recovery state.
TypeOK ==
    /\ is_server \in BOOLEAN /\ completed \in BOOLEAN /\ confirmed \in BOOLEAN
    /\ peer_verified \in BOOLEAN /\ restarted \in BOOLEAN
    /\ keys \in [Epochs -> {"None", "Ready", "Dropped"}]
    /\ next_pn \in [Epochs -> Nat] /\ changes \in 0 .. MaxChanges
    /\ r.acked \subseteq DOMAIN r.time_sent
    /\ DOMAIN r.time_sent \subseteq Packets /\ DOMAIN r.time_lost \subseteq DOMAIN r.time_sent
    /\ \A p \in DOMAIN r.time_sent : r.time_sent[p] \in -LossHorizon .. 0
    /\ \A p \in DOMAIN r.time_lost : r.time_lost[p] \in -RttHorizon .. 0
    /\ \A e \in Epochs :
         /\ r.largest_acked[e] \in Options(0 .. next_pn[e] - 1)
         /\ r.loss_time[e] \in Options(-LossHorizon .. LossHorizon)
         /\ r.last_ae[e] \in Options(-PtoHorizon .. 0)
         /\ r.loss_probes[e] \in 0 .. MAX_PTO_PROBES_COUNT
    /\ r.loss_timer \in Options(0 .. PtoHorizon) /\ r.pto_count \in 0 .. MaxBackoff
    /\ r.pkt_thresh \in InitThresh .. MaxThresh /\ r.est \in Rtts

\* bytes_in_flight and the in_flight_count of every space are exactly what is sent and
\* neither acked, lost nor discarded: no path of the acks, late acks of lost packets, MTU
\* probes, timeouts, path changes and discarded spaces counts a packet twice or leaves
\* one behind, so the subtractions never wrap.
Accounting ==
    /\ r.bytes_in_flight = Cardinality(Eliciting(Unresolved(r)))
    /\ \A e \in Epochs :
         r.in_flight_count[e] = Cardinality(InFlight(Unresolved(r) \cap Sent(r, e)))

\* Once the handshake is confirmed and as long as a 1-RTT packet that elicits an ack is
\* outstanding, the one timer is armed: it is due, or will be no later than the probe timeout
\* after the last such packet, or than a loss delay after each of them was sent, whatever
\* set the timer last.  A path change may leave it as an older estimate had it.
TimerInTime ==
    confirmed /\ Eliciting(Unresolved(r)) # {} =>
        \E t \in r.loss_timer :
          \/ t <= 0
          \/ \E u \in Add(r.last_ae["Application"], (r.est.pto + MaxAckDelay) * Backoff(r)) :
               t <= u
          \/ \A p \in Eliciting(Unresolved(r)) : t <= r.time_sent[p] + Longest.loss_delay

\* When the timer fires while 1-RTT packets are outstanding, something comes of it: a packet
\* is declared lost, a probe is asked for in the 1-RTT space, or the timer is armed again
\* for the moment a packet will be lost.  With TimerInTime: no packet is forgotten.
TimeoutActs ==
    [][Timeout /\ confirmed /\ Eliciting(Unresolved(r)) # {} =>
         \/ Unresolved(r') # Unresolved(r)
         \/ r'.loss_probes["Application"] > 0
         \/ \E t \in r'.loss_timer : t > 0 /\ t \in r'.loss_time["Application"]]_vars

\* The congestion window is only ignored for probe packets (the comment of cwnd_available):
\* when it is, some space that has keys is to send one.
CwndIgnoredForProbes ==
    (\E e \in Epochs : r.loss_probes[e] > 0) =>
        \E e \in Epochs : keys[e] = "Ready" /\ r.loss_probes[e] > 0
=============================================================================
