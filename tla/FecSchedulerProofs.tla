------------------------- MODULE FecSchedulerProofs -------------------------
(***************************************************************************)
(* Proofs about FecScheduler, for any streams, sizes and bounds: its types, *)
(* the count of the repair symbols in flight, and that a repair symbol is   *)
(* only sent while it can be of use.                                        *)
(***************************************************************************)
EXTENDS FecScheduler, FiniteSetTheorems, WellFoundedInduction, TLAPS

\* The bytes in flight need a finite number of packets.
FlightFinite == IsFiniteSet(pkts)

\* Every symbol of the encoder's window that did not land is in a packet in flight,
\* or in one whose loss the next send() will see.
WindowInFlight ==
    \A m \in window \ landed : \E p \in pkts \cup lost_frames : p.pn = m

IInv == TypeOK /\ RepairsCounted /\ FlightFinite /\ WindowInFlight

\* The scheduler's record, whatever the count of repair symbols.
SchType ==
    [n_repair_in_flight : Int,
     rs_triggering_time : {"None", "Delaying", "Elapsed"},
     rs_sent_for_this_round : BOOLEAN, idle_tx : Nat,
     since_last_repair : Nat,
     state_sending_repair : [last : Nat, to_send : Nat, sent : Nat]]

\* The smallest block that waits to be sent is a block that waits, and none is before it.
LEMMA MinInSet ==
    ASSUME NEW S, S \subseteq Nat, S # {}
    PROVE  Min(S) \in S /\ \A y \in S : Min(S) <= y
<1>1. PICK x \in S : \A y \in S : ~(<<y, x>> \in OpToRel(<, Nat))
  BY NatLessThanWellFounded, WFMin
<1>2. \A y \in S : ~(y < x)
  BY <1>1, Zenon DEF OpToRel
<1>3. \A y \in S : x <= y
  BY <1>2
<1> QED
  BY <1>3 DEF Min

\* Bytes in flight are a natural number.
LEMMA BifType ==
    ASSUME TypeOK, FlightFinite
    PROVE  bif \in Nat
<1>1. IsFiniteSet({p \in pkts : p.blk # NoBlock})
  BY FS_Subset DEF FlightFinite
<1>2. Cardinality({p \in pkts : p.blk # NoBlock}) \in Nat
  BY <1>1, FS_CardinalityType
<1> QED
  BY <1>2, FecAssumption DEF bif, TypeOK

\* What a round of the bursts scheduler sends is a natural number.
LEMMA BurstRepairType ==
    ASSUME NEW b \in Nat, b = bif, NEW sc \in SchType, NEW lost \in Losses
    PROVE  BurstRepair(sc, lost) \in Nat
<1> DEFINE bytes == Smaller(bif, sc.since_last_repair * SymbolSize)
<1>1. bytes \in Nat
  <2>1. sc.since_last_repair \in Nat
    BY DEF SchType
  <2> QED
    BY <2>1, FecAssumption DEF Smaller
<1> HIDE DEF bytes
<1>2. SmallFlightRepair(bytes) \in Nat /\ bytes \div 2 \in Nat
  BY <1>1 DEF SmallFlightRepair
<1>3. lost # NoInfo => lost * SymbolSize \in Nat
  BY FecAssumption
<1>4. BurstRepair(sc, lost) =
        IF bytes < SmallFlight THEN SmallFlightRepair(bytes)
        ELSE IF lost = NoInfo THEN bytes \div 2
        ELSE Smaller(lost * SymbolSize, bytes \div 2)
  BY DEF BurstRepair, bytes
<1> QED
  BY <1>2, <1>3, <1>4 DEF Smaller

\* A call of should_send_repair keeps the types and the count of repair symbols.
LEMMA ConsultType ==
    ASSUME TypeOK, FlightFinite,
           NEW sc \in SchType, NEW busy \in BOOLEAN, NEW w, NEW lost \in Losses
    PROVE  /\ Consult(sc, busy, w, lost) \in SchType
           /\ Consult(sc, busy, w, lost).n_repair_in_flight = sc.n_repair_in_flight
<1>1. ConsultBackground(sc, busy, lost) \in SchType
  BY DEF ConsultBackground, SchType
<1>2. ConsultBackground(sc, busy, lost).n_repair_in_flight = sc.n_repair_in_flight
  BY DEF ConsultBackground, SchType
<1>3. RoundOf(sc, busy, w) \in [last : Nat, to_send : Nat, sent : Nat]
  BY DEF RoundOf, SchType, NoRound, TypeOK
<1>4. BurstRepair(sc, lost) \in Nat
  BY BifType, BurstRepairType
<1>5. ConsultBursts(sc, busy, w, lost) \in SchType
  <2> DEFINE round == RoundOf(sc, busy, w)
  <2> HIDE DEF round
  <2>1. (IF round = NoRound THEN NoRound
         ELSE [round EXCEPT !.to_send = Larger(@, BurstRepair(sc, lost))])
           \in [last : Nat, to_send : Nat, sent : Nat]
    BY <1>3, <1>4 DEF NoRound, Larger, round
  <2>2. (IF busy THEN sc.idle_tx ELSE tx_data) \in Nat
    BY DEF SchType, TypeOK
  <2> QED
    BY <2>1, <2>2 DEF ConsultBursts, SchType, round
<1>6. ConsultBursts(sc, busy, w, lost).n_repair_in_flight = sc.n_repair_in_flight
  BY DEF ConsultBursts, SchType
<1> QED
  BY <1>1, <1>2, <1>5, <1>6 DEF Consult

\* The scheduler after write_pkt_type and after the second call.
LEMMA SendTypes ==
    ASSUME TypeOK, FlightFinite, RepairsCounted, NEW kept, NEW lost \in Losses
    PROVE  /\ AfterLoop(kept, lost) \in SchType
           /\ AfterLoop(kept, lost).n_repair_in_flight = repairs
           /\ AfterPktType(lost) \in SchType
           /\ AfterPktType(lost).n_repair_in_flight = sch.n_repair_in_flight
<1>1. sch \in SchType
  BY DEF TypeOK, SchType
<1>2. Busy(flushable) \in BOOLEAN /\ Busy(QueueAfter(kept)) \in BOOLEAN
  BY DEF Busy
<1>3. /\ AfterPktType(lost) \in SchType
      /\ AfterPktType(lost).n_repair_in_flight = sch.n_repair_in_flight
  BY <1>1, <1>2, ConsultType DEF AfterPktType
<1> DEFINE sc == acked_repair_symbol(AfterPktType(lost), lost_repairs)
<1>4. sc \in SchType /\ sc.n_repair_in_flight = repairs
  BY <1>3 DEF acked_repair_symbol, SchType, TypeOK, RepairsCounted
<1> HIDE DEF sc
<1>5. /\ Consult(sc, Busy(QueueAfter(kept)), WindowAfter, lost) \in SchType
      /\ Consult(sc, Busy(QueueAfter(kept)), WindowAfter, lost).n_repair_in_flight = repairs
  BY <1>2, <1>4, ConsultType
<1> QED
  BY <1>3, <1>5 DEF AfterLoop, sc

\* The calls for a symbol that was sent.
LEMMA SentTypes ==
    ASSUME NEW sc \in SchType
    PROVE  /\ sent_repair_symbol(sc) \in SchType
           /\ sent_repair_symbol(sc).n_repair_in_flight = sc.n_repair_in_flight + 1
           /\ sent_source_symbol(sc) \in SchType
           /\ sent_source_symbol(sc).n_repair_in_flight = sc.n_repair_in_flight
<1>1. /\ sc.n_repair_in_flight + 1 \in Int /\ sc.since_last_repair + 1 \in Nat
      /\ sc.state_sending_repair \in [last : Nat, to_send : Nat, sent : Nat]
  BY DEF SchType
<1>2. [sc.state_sending_repair EXCEPT !.sent = @ + 1]
        \in [last : Nat, to_send : Nat, sent : Nat]
  BY <1>1
<1> DEFINE one == [sc EXCEPT !.n_repair_in_flight = @ + 1]
<1>3. one \in SchType /\ one.n_repair_in_flight = sc.n_repair_in_flight + 1
      /\ one.state_sending_repair = sc.state_sending_repair
  BY <1>1 DEF SchType
<1> HIDE DEF one
<1>4. CASE alg = "background"
  BY <1>1, <1>3, <1>4 DEF sent_repair_symbol, sent_source_symbol, SchType, one
<1>5. CASE alg # "background"
  <2> DEFINE round == [sc.state_sending_repair EXCEPT !.sent = @ + 1]
             none == [one EXCEPT !.since_last_repair = 0]
  <2>1. sent_repair_symbol(sc) = [none EXCEPT !.state_sending_repair = round]
    BY <1>3, <1>5 DEF sent_repair_symbol, one, SchType
  <2>2. none \in SchType /\ none.n_repair_in_flight = sc.n_repair_in_flight + 1
    BY <1>3 DEF SchType
  <2>3. round \in [last : Nat, to_send : Nat, sent : Nat]
    BY <1>2
  <2> HIDE DEF round, none
  <2>4. /\ sent_repair_symbol(sc) \in SchType
        /\ sent_repair_symbol(sc).n_repair_in_flight = sc.n_repair_in_flight + 1
    BY <2>1, <2>3, <2>2 DEF SchType
  <2>5. /\ sent_source_symbol(sc) \in SchType
        /\ sent_source_symbol(sc).n_repair_in_flight = sc.n_repair_in_flight
    BY <1>1, <1>5 DEF sent_source_symbol, SchType
  <2> QED
    BY <2>4, <2>5
<1> QED
  BY <1>4, <1>5

\* What the loop over lost frames leaves to be sent.
LEMMA LoopTypes ==
    ASSUME TypeOK, NEW kept
    PROVE  /\ PendingAfter(kept) \in [Streams -> SUBSET Nat]
           /\ QueueAfter(kept) \subseteq Streams
           /\ LandedAfter \subseteq Nat /\ WindowAfter \subseteq window
<1>1. PendingAfter(kept) \in [Streams -> SUBSET Nat]
  <2> SUFFICES ASSUME NEW s \in Streams
               PROVE  {p.blk : p \in {q \in lost_frames \ kept :
                                       q.stream = s /\ q.blk # NoBlock}} \subseteq Nat
    BY DEF PendingAfter, TypeOK
  <2> QED
    BY DEF TypeOK, Packet
<1>2. LandedAfter \subseteq Nat
  <2>1. landed \subseteq Nat /\ lost_frames \subseteq Packet
    BY DEF TypeOK
  <2>2. \A p \in Packet : p.pn \in Nat
    BY DEF Packet
  <2> QED
    BY <2>1, <2>2 DEF LandedAfter
<1> QED
  BY <1>1, <1>2 DEF QueueAfter, WindowAfter, remove_landed_symbols, TypeOK

\* The symbols that are left after the loop are in packets in flight.
LEMMA LoopWindow ==
    ASSUME TypeOK, WindowInFlight
    PROVE  \A m \in WindowAfter \ LandedAfter : \E p \in pkts : p.pn = m
BY DEF WindowAfter, LandedAfter, WindowInFlight, remove_landed_symbols

\* The invariant holds at the start.
LEMMA InitInv == Init => IInv
<1> SUFFICES ASSUME Init PROVE IInv
  OBVIOUS
<1>1. TypeOK
  BY FecAssumption DEF Init, TypeOK, NoRound
<1>2. RepairsCounted /\ WindowInFlight
  BY DEF Init, RepairsCounted, WindowInFlight
<1>3. FlightFinite
  BY FS_EmptySet DEF Init, FlightFinite
<1> QED
  BY <1>1, <1>2, <1>3 DEF IInv

\* Each way through send() keeps the invariant.
LEMMA SendInv ==
    ASSUME IInv, NEW lost \in Losses, NEW kept \in SUBSET lost_frames
    PROVE  /\ SendDone(lost) => IInv'
           /\ SendRepair(kept, lost) => IInv'
           /\ SendNone(kept, lost) => IInv'
           /\ \A s \in Streams \cup {NoStream} : SendSource(kept, lost, s) => IInv'
<1> USE DEF IInv
<1>1. /\ AfterLoop(kept, lost) \in SchType
      /\ AfterLoop(kept, lost).n_repair_in_flight = repairs
      /\ AfterPktType(lost) \in SchType
      /\ AfterPktType(lost).n_repair_in_flight = sch.n_repair_in_flight
  BY SendTypes
<1>2. /\ PendingAfter(kept) \in [Streams -> SUBSET Nat]
      /\ QueueAfter(kept) \subseteq Streams
      /\ LandedAfter \subseteq Nat /\ WindowAfter \subseteq window
  BY LoopTypes
<1>3. \A m \in WindowAfter \ LandedAfter : \E p \in pkts : p.pn = m
  BY LoopWindow
<1>4. ASSUME SendDone(lost) PROVE IInv'
  <2>1. TypeOK'
    BY <1>1, <1>4 DEF SendDone, TypeOK, SchType, streamVars, encoderVars, netVars,
                      timerVars, RepairsCounted
  <2> QED
    BY <2>1, <1>1, <1>4 DEF SendDone, RepairsCounted, FlightFinite, WindowInFlight,
                            streamVars, encoderVars, netVars, timerVars
<1>5. ping_sent \in Nat
  BY DEF ping_sent, Larger, TypeOK
<1>6. ASSUME SendRepair(kept, lost) PROVE IInv'
  <2>1. sent_repair_symbol(AfterLoop(kept, lost)) \in SchType
    BY <1>1, SentTypes
  <2>2. sent_repair_symbol(AfterLoop(kept, lost)).n_repair_in_flight = repairs + 1
    BY <1>1, SentTypes
  <2>3. repairs + 1 \in Nat
    BY DEF TypeOK
  <2>4. sch' \in SchType /\ sch'.n_repair_in_flight = repairs' + lost_repairs'
    BY <1>6, <2>1, <2>2, <2>3 DEF SendRepair, SendSingle
  <2>5. TypeOK'
    BY <1>2, <1>5, <1>6, <2>3, <2>4 DEF SendRepair, SendSingle, TypeOK, SchType
  <2>6. WindowInFlight'
    BY <1>3, <1>6 DEF SendRepair, SendSingle, WindowInFlight
  <2> QED
    BY <1>6, <2>4, <2>5, <2>6 DEF SendRepair, FlightFinite, RepairsCounted
<1>7. ASSUME SendNone(kept, lost) PROVE IInv'
  <2>1. sch' \in SchType /\ sch'.n_repair_in_flight = repairs' + lost_repairs'
    BY <1>1, <1>7 DEF SendNone, SendSingle, TypeOK
  <2>2. TypeOK'
    BY <1>2, <1>5, <1>7, <2>1 DEF SendNone, SendSingle, TypeOK, SchType
  <2>3. WindowInFlight'
    BY <1>3, <1>7 DEF SendNone, SendSingle, WindowInFlight
  <2> QED
    BY <1>7, <2>1, <2>2, <2>3 DEF SendNone, FlightFinite, RepairsCounted
<1>8. ASSUME NEW s \in Streams \cup {NoStream}, SendSource(kept, lost, s) PROVE IInv'
  <2> DEFINE pend == PendingAfter(kept)
             blk == IF s = NoStream \/ pend[s] = {} THEN NoBlock ELSE Min(pend[s])
             pkt == [pn |-> next_pn, stream |-> s, blk |-> blk]
  <2>1. blk \in Nat \cup {NoBlock}
    BY <1>2, MinInSet
  <2>2. /\ lost_frames' = {} /\ lost_repairs' = 0 /\ loss_probes' = ping_sent
        /\ landed' = LandedAfter \cap WindowAfter
        /\ UNCHANGED <<alg, off, closed, tx_data, pto_count, losses, probes>>
        /\ sch' = sent_source_symbol(AfterLoop(kept, lost))
        /\ pkts' = pkts \cup {pkt} /\ next_pn' = next_pn + 1
        /\ window' = WindowAfter \cup {next_pn}
        /\ latest' \in {next_pn, latest}
        /\ pending' = [t \in Streams |-> IF t = s THEN pend[t] \ {blk} ELSE pend[t]]
        /\ emit_off' = [t \in Streams |-> IF t = s THEN Larger(emit_off[t], blk + 1)
                                          ELSE emit_off[t]]
        /\ flushable' \subseteq QueueAfter(kept)
        /\ UNCHANGED <<repairs, app>>
    BY <1>8 DEF SendSource, SendSingle
  <2> HIDE DEF blk
  <2>3. pkt \in Packet
    BY <2>1 DEF Packet, TypeOK
  <2>4. sch' \in SchType /\ sch'.n_repair_in_flight = repairs' + lost_repairs'
    BY <1>1, <2>2, SentTypes DEF TypeOK
  <2>5. emit_off' \in [Streams -> Nat] /\ pending' \in [Streams -> SUBSET Nat]
    BY <1>2, <2>1, <2>2 DEF TypeOK, Larger, NoBlock
  <2> HIDE DEF pkt
  <2>6. TypeOK'
    <3>1. /\ pkts' \subseteq Packet /\ lost_frames' \subseteq Packet
          /\ next_pn' \in Nat \ {0} /\ window' \subseteq Nat /\ landed' \subseteq Nat
          /\ latest' \in Nat /\ loss_probes' \in Nat
          /\ flushable' \subseteq Streams
      BY <1>2, <1>5, <2>2, <2>3 DEF TypeOK
    <3>2. sch'.n_repair_in_flight \in Nat
      BY <2>2, <2>4 DEF TypeOK
    <3>3. sch' \in [n_repair_in_flight : Nat,
                    rs_triggering_time : {"None", "Delaying", "Elapsed"},
                    rs_sent_for_this_round : BOOLEAN, idle_tx : Nat,
                    since_last_repair : Nat,
                    state_sending_repair : [last : Nat, to_send : Nat, sent : Nat]]
      BY <2>4, <3>2 DEF SchType
    <3> QED
      BY <2>2, <2>5, <3>1, <3>3 DEF TypeOK
  <2>7. WindowInFlight'
    <3>1. pkt.pn = next_pn
      BY DEF pkt
    <3> QED
      BY <1>3, <2>2, <3>1 DEF WindowInFlight
  <2>8. FlightFinite'
    BY <2>2, FS_AddElement DEF FlightFinite
  <2> QED
    BY <2>4, <2>6, <2>7, <2>8 DEF RepairsCounted
<1> QED
  BY <1>4, <1>6, <1>7, <1>8

\* The invariant is inductive.
LEMMA NextInv == IInv /\ [Next]_vars => IInv'
<1> SUFFICES ASSUME IInv, [Next]_vars PROVE IInv'
  OBVIOUS
<1> USE DEF IInv, streamVars, encoderVars, netVars, timerVars
<1>1. ASSUME NEW s \in Streams, stream_send(s) PROVE IInv'
  <2>1. TypeOK'
    BY <1>1 DEF stream_send, TypeOK
  <2> QED
    BY <1>1, <2>1 DEF stream_send, RepairsCounted, FlightFinite, WindowInFlight
<1>2. ASSUME NEW s \in Streams, NEW how \in {"Shutdown", "Stopped"}, ResetStream(s, how)
      PROVE  IInv'
  <2>1. pending[s] # {} => Min(pending[s]) \in Nat
    BY MinInSet DEF TypeOK
  <2>2. UnsentOff(s) \in Nat
    BY <2>1 DEF UnsentOff, Larger, TypeOK
  <2>3. Larger(0, tx_data - (off[s] - UnsentOff(s))) \in Nat
    BY <2>2 DEF Larger, TypeOK
  <2>4. TypeOK'
    BY <1>2, <2>2, <2>3 DEF ResetStream, TypeOK
  <2> QED
    BY <1>2, <2>4 DEF ResetStream, RepairsCounted, FlightFinite, WindowInFlight
<1>3. ASSUME Tick PROVE IInv'
  <2>1. TypeOK' /\ sch'.n_repair_in_flight = sch.n_repair_in_flight
    BY <1>3 DEF Tick, TypeOK
  <2> QED
    BY <1>3, <2>1 DEF Tick, RepairsCounted, FlightFinite, WindowInFlight
<1>4. ASSUME Wake PROVE IInv'
  BY <1>4 DEF Wake, TypeOK, RepairsCounted, FlightFinite, WindowInFlight
<1>5. ASSUME Send PROVE IInv'
  <2>1. PICK lost \in Losses :
          \/ SendDone(lost)
          \/ \E kept \in SUBSET lost_frames :
                \/ SendRepair(kept, lost)
                \/ SendNone(kept, lost)
                \/ \E s \in Streams \cup {NoStream} : SendSource(kept, lost, s)
    BY <1>5 DEF Send
  <2> HIDE DEF IInv
  <2> QED
    BY <2>1, SendInv
<1>6. ASSUME NEW p \in pkts, AckSource(p) PROVE IInv'
  <2>1. p \in Packet /\ window' \subseteq window
    BY <1>6 DEF TypeOK, AckSource, remove_landed_symbols
  <2>2. pending' \in [Streams -> SUBSET Nat]
    BY <1>6 DEF AckSource, TypeOK
  <2>3. TypeOK'
    BY <1>6, <2>1, <2>2 DEF AckSource, TypeOK, Packet
  <2>4. WindowInFlight'
    BY <1>6, <2>1 DEF AckSource, WindowInFlight
  <2>5. FlightFinite'
    BY <1>6, FS_RemoveElement DEF AckSource, FlightFinite
  <2> QED
    BY <1>6, <2>3, <2>4, <2>5 DEF AckSource, RepairsCounted
<1>7. ASSUME NEW p \in pkts, LoseSource(p) PROVE IInv'
  <2>1. TypeOK'
    BY <1>7, FecAssumption DEF LoseSource, TypeOK
  <2>2. WindowInFlight'
    BY <1>7 DEF LoseSource, WindowInFlight
  <2>3. FlightFinite'
    BY <1>7, FS_RemoveElement DEF LoseSource, FlightFinite
  <2> QED
    BY <1>7, <2>1, <2>2, <2>3 DEF LoseSource, RepairsCounted
<1>8. ASSUME AckRepair PROVE IInv'
  <2>1. /\ repairs - 1 \in Nat /\ sch.n_repair_in_flight - 1 \in Nat
        /\ sch'.n_repair_in_flight = sch.n_repair_in_flight - 1
    BY <1>8 DEF AckRepair, acked_repair_symbol, TypeOK, RepairsCounted
  <2>2. TypeOK'
    BY <1>8, <2>1 DEF AckRepair, acked_repair_symbol, TypeOK
  <2> QED
    BY <1>8, <2>1, <2>2 DEF AckRepair, RepairsCounted, FlightFinite, WindowInFlight, TypeOK
<1>9. ASSUME LoseRepair PROVE IInv'
  <2>1. TypeOK'
    BY <1>9, FecAssumption DEF LoseRepair, TypeOK
  <2> QED
    BY <1>9, <2>1 DEF LoseRepair, RepairsCounted, FlightFinite, WindowInFlight, TypeOK
<1>10. ASSUME ProbeTimeout PROVE IInv'
  <2>1. lost_frames' \subseteq lost_frames \cup pkts /\ lost_frames \subseteq lost_frames'
    BY <1>10 DEF ProbeTimeout, Oldest
  <2>2. lost_repairs' = lost_repairs
    BY <1>10 DEF ProbeTimeout, ProbedRepairs, TypeOK
  <2>3. TypeOK'
    BY <1>10, <2>1, <2>2, FecAssumption DEF ProbeTimeout, TypeOK, Smaller
  <2>4. WindowInFlight'
    BY <1>10, <2>1 DEF ProbeTimeout, WindowInFlight
  <2> QED
    BY <1>10, <2>2, <2>3, <2>4 DEF ProbeTimeout, RepairsCounted, FlightFinite
<1>11. CASE UNCHANGED vars
  BY <1>11 DEF vars, TypeOK, RepairsCounted, FlightFinite, WindowInFlight
<1> HIDE DEF IInv, streamVars, encoderVars, netVars, timerVars
<1> QED
  BY <1>1, <1>2, <1>3, <1>4, <1>5, <1>6, <1>7, <1>8, <1>9, <1>10, <1>11 DEF Next

\* The invariant holds of every behaviour.
LEMMA Invariance == Spec => []IInv
<1> QED
  BY InitInv, NextInv, PTL DEF Spec

\* Type correctness: no unsigned counter of the schedulers or of the connection goes
\* below zero.
THEOREM TypeCorrect == Spec => []TypeOK
<1>1. IInv => TypeOK
  BY DEF IInv
<1> QED
  BY <1>1, Invariance, PTL

\* n_repair_in_flight is the number of REPAIR frames in flight or about to be
\* declared lost, whatever is acked, lost or probed in whatever order.
THEOREM RepairCount == Spec => []RepairsCounted
<1>1. IInv => RepairsCounted
  BY DEF IInv
<1> QED
  BY <1>1, Invariance, PTL

\* A repair symbol is only sent while a source symbol it protects is in flight.
THEOREM RepairUseful == Spec => RepairProtects
<1>1. ASSUME IInv, [Next]_vars
      PROVE  [repairs' > repairs => \E p \in pkts : p.pn <= latest]_vars
  <2> SUFFICES ASSUME Next, repairs' > repairs
               PROVE  \E p \in pkts : p.pn <= latest
    BY <1>1 DEF vars, netVars
  <2> USE DEF streamVars, encoderVars, netVars, timerVars
  <2>1. repairs \in Nat /\ window \subseteq Nat /\ latest \in Nat
    BY <1>1 DEF IInv, TypeOK
  <2>2. \E lost \in Losses, kept \in SUBSET lost_frames : SendRepair(kept, lost)
    <3>1. ASSUME NEW s \in Streams PROVE ~stream_send(s)
      BY <2>1 DEF stream_send
    <3>2. ASSUME NEW s \in Streams, NEW how PROVE ~ResetStream(s, how)
      BY <2>1 DEF ResetStream
    <3>3. ~Tick /\ ~Wake /\ ~AckRepair /\ ~LoseRepair /\ ~ProbeTimeout
      BY <2>1 DEF Tick, Wake, AckRepair, LoseRepair, ProbeTimeout
    <3>4. ASSUME NEW p \in pkts PROVE ~AckSource(p) /\ ~LoseSource(p)
      BY <2>1 DEF AckSource, LoseSource
    <3>5. Send
      BY <3>1, <3>2, <3>3, <3>4 DEF Next
    <3>6. ASSUME NEW lost, NEW kept
          PROVE  /\ ~SendDone(lost) /\ ~SendNone(kept, lost)
                 /\ \A s : ~SendSource(kept, lost, s)
      BY <2>1 DEF SendDone, SendNone, SendSource
    <3> QED
      BY <3>5, <3>6 DEF Send
  <2>3. PICK m \in WindowAfter : m <= latest
    BY <2>2 DEF SendRepair, RepairNow, CanGenerate
  <2>4. PICK n \in window : n <= m /\ n \notin LandedAfter
    BY <2>3 DEF WindowAfter, remove_landed_symbols
  <2>5. n \in WindowAfter
    BY <2>1, <2>4 DEF WindowAfter, remove_landed_symbols
  <2>6. PICK p \in pkts : p.pn = n
    BY <1>1, <2>4, <2>5, LoopWindow DEF IInv
  <2>7. m \in Nat
    BY <2>1, <2>3 DEF WindowAfter, remove_landed_symbols
  <2> QED
    BY <2>1, <2>3, <2>4, <2>6, <2>7
<1> QED
  BY <1>1, Invariance, PTL DEF Spec, RepairProtects

-----------------------------------------------------------------------------
(* Sums over the streams.                                                    *)

\* Induction, on the members of a set.
LEMMA Induction ==
    ASSUME NEW n \in Nat, NEW P, 0 \in P, \A k \in 1 .. n : k - 1 \in P => k \in P
    PROVE  n \in P
<1> SUFFICES ASSUME n \notin P PROVE FALSE
  OBVIOUS
<1> DEFINE bad == {k \in 0 .. n : k \notin P}
<1>1. bad # {} /\ bad \subseteq Nat
  OBVIOUS
<1>2. PICK k \in bad : \A y \in bad : ~(<<y, k>> \in OpToRel(<, Nat))
  BY <1>1, NatLessThanWellFounded, WFMin
<1>3. \A y \in bad : ~(y < k)
  BY <1>1, <1>2, Zenon DEF OpToRel
<1>4. k # 0 /\ k \in 0 .. n
  OBVIOUS
<1>5. k - 1 \in 0 .. n /\ k - 1 \notin bad
  BY <1>3, <1>4
<1> QED
  BY <1>4, <1>5

\* The sum of f over the streams.
Total(f) == MapThenSumSet(LAMBDA s : f[s], Streams)

\* The stream that the sum over S takes first.
One(S) == CHOOSE x \in S : TRUE

\* h is the sum of f over every set of streams.
IsSum(h, f) ==
    h = [S \in SUBSET Streams |-> IF S = {} THEN 0 ELSE f[One(S)] + h[S \ {One(S)}]]

Sums(f) == CHOOSE h : IsSum(h, f)

\* What holds of no streams, and of a set of streams when it does of the set without the
\* one that is taken first, holds of every set of streams.
LEMMA SetInduction ==
    ASSUME NEW P, {} \in P,
           \A S \in SUBSET Streams : S # {} /\ S \ {One(S)} \in P => S \in P
    PROVE  \A S \in SUBSET Streams : S \in P
<1>0. \A S \in SUBSET Streams : IsFiniteSet(S) /\ Cardinality(S) \in Nat
  BY FecAssumption, FS_Subset, FS_CardinalityType
<1> DEFINE Q == {n \in Nat : \A S \in SUBSET Streams : Cardinality(S) = n => S \in P}
<1>1. 0 \in Q
  BY <1>0, FS_EmptySet
<1>2. ASSUME NEW n \in Nat, n # 0, n - 1 \in Q PROVE n \in Q
  <2> SUFFICES ASSUME NEW S \in SUBSET Streams, Cardinality(S) = n PROVE S \in P
    OBVIOUS
  <2>1. S # {}
    BY <1>2, FS_EmptySet
  <2>2. One(S) \in S
    BY <2>1 DEF One
  <2>3. Cardinality(S \ {One(S)}) = n - 1
    BY <1>0, <2>2, FS_RemoveElement
  <2> QED
    BY <1>2, <2>1, <2>3
<1> SUFFICES ASSUME NEW S \in SUBSET Streams PROVE S \in P
  OBVIOUS
<1> HIDE DEF Q
<1>3. Cardinality(S) \in Q
  <2>1. \A k \in 1 .. Cardinality(S) : k - 1 \in Q => k \in Q
    BY <1>0, <1>2
  <2> QED
    BY <1>0, <1>1, <2>1, Induction
<1> QED
  BY <1>3 DEF Q

\* The sums exist.
LEMMA SumExists ==
    ASSUME NEW f \in [Streams -> Nat]
    PROVE  \E h \in [SUBSET Streams -> Nat] : IsSum(h, f)
<1>0. \A S \in SUBSET Streams : IsFiniteSet(S) /\ Cardinality(S) \in Nat
  BY FecAssumption, FS_Subset, FS_CardinalityType
<1> DEFINE Upto(m) == {S \in SUBSET Streams : Cardinality(S) <= m}
           Turn(h, S) == IF S = {} THEN 0 ELSE f[One(S)] + h[S \ {One(S)}]
           Good(m, h) == \A S \in Upto(m) : h[S] = Turn(h, S)
           P == {m \in Nat : \E h \in [Upto(m) -> Nat] : Good(m, h)}
<1>1. 0 \in P
  <2> DEFINE h == [S \in Upto(0) |-> 0]
  <2>1. ASSUME NEW S \in Upto(0) PROVE S = {}
    BY <1>0, FS_EmptySet
  <2>2. h \in [Upto(0) -> Nat] /\ Good(0, h)
    BY <2>1
  <2> HIDE DEF h, Good
  <2> QED
    BY <2>2
<1>2. ASSUME NEW m \in Nat, m # 0, m - 1 \in P PROVE m \in P
  <2>1. PICK h \in [Upto(m - 1) -> Nat] : Good(m - 1, h)
    BY <1>2
  <2> DEFINE g == [S \in Upto(m) |-> Turn(h, S)]
  <2>2. ASSUME NEW S \in Upto(m), S # {}
        PROVE  S \ {One(S)} \in Upto(m - 1) /\ One(S) \in Streams
    <3>1. One(S) \in S
      BY <2>2 DEF One
    <3>2. Cardinality(S \ {One(S)}) = Cardinality(S) - 1
      BY <1>0, <3>1, FS_RemoveElement
    <3>3. Cardinality(S \ {One(S)}) <= m - 1
      BY <1>0, <1>2, <3>2
    <3> QED
      BY <3>1, <3>3
  <2>3. ASSUME NEW S \in Upto(m - 1) PROVE S \in Upto(m) /\ g[S] = h[S]
    <3>1. S \in Upto(m)
      BY <1>0, <1>2
    <3> QED
      BY <2>1, <3>1
  <2>4. g \in [Upto(m) -> Nat]
    <3> SUFFICES ASSUME NEW S \in Upto(m) PROVE Turn(h, S) \in Nat
      OBVIOUS
    <3>1. CASE S = {}
      BY <3>1
    <3>2. CASE S # {}
      <4>1. S \ {One(S)} \in Upto(m - 1) /\ One(S) \in Streams
        BY <2>2, <3>2
      <4> HIDE DEF Upto
      <4>2. h[S \ {One(S)}] \in Nat /\ f[One(S)] \in Nat
        BY <4>1
      <4> QED
        BY <3>2, <4>2
    <3> QED
      BY <3>1, <3>2
  <2>5. Good(m, g)
    <3> SUFFICES ASSUME NEW S \in Upto(m) PROVE g[S] = Turn(g, S)
      OBVIOUS
    <3>1. CASE S = {}
      BY <3>1
    <3>2. CASE S # {}
      <4>1. g[S \ {One(S)}] = h[S \ {One(S)}]
        BY <2>2, <2>3, <3>2
      <4>2. g[S] = f[One(S)] + h[S \ {One(S)}]
        BY <3>2
      <4> HIDE DEF g
      <4> QED
        BY <3>2, <4>1, <4>2
    <3> QED
      BY <3>1, <3>2
  <2> HIDE DEF g, Good
  <2> QED
    BY <2>4, <2>5
<1> DEFINE n == Cardinality(Streams)
<1>3. n \in P
  <2> HIDE DEF P
  <2>1. n \in Nat /\ \A k \in 1 .. n : k - 1 \in P => k \in P
    BY <1>0, <1>2
  <2> QED
    BY <1>1, <2>1, Induction
<1>4. Upto(n) = SUBSET Streams
  <2> SUFFICES ASSUME NEW S \in SUBSET Streams PROVE Cardinality(S) <= n
    OBVIOUS
  <2> QED
    BY FecAssumption, FS_Subset
<1>5. PICK h \in [SUBSET Streams -> Nat] : Good(n, h)
  BY <1>3, <1>4
<1> HIDE DEF Upto
<1>6. IsSum(h, f)
  BY <1>4, <1>5 DEF IsSum
<1> QED
  BY <1>6

\* The sum of f, stream by stream.
LEMMA SumTurn ==
    ASSUME NEW f \in [Streams -> Nat]
    PROVE  /\ Total(f) = Sums(f)[Streams]
           /\ Sums(f)[{}] = 0
           /\ \A S \in SUBSET Streams : S # {} =>
                /\ One(S) \in S
                /\ S \ {One(S)} \in SUBSET Streams
                /\ Sums(f)[S] = f[One(S)] + Sums(f)[S \ {One(S)}]
           /\ \A S \in SUBSET Streams : Sums(f)[S] \in Nat
<1>1. Total(f) = Sums(f)[Streams]
  BY DEF Total, MapThenSumSet, MapThenFoldSet, Sums, IsSum, One
<1> DEFINE h == Sums(f)
<1>2. IsSum(h, f)
  BY SumExists DEF Sums
<1> HIDE DEF h
<1>3. h[{}] = 0
  BY <1>2 DEF IsSum
<1>4. ASSUME NEW S \in SUBSET Streams, S # {}
      PROVE  One(S) \in S /\ S \ {One(S)} \in SUBSET Streams /\ h[S] = f[One(S)] + h[S \ {One(S)}]
  <2>1. One(S) \in S
    BY <1>4 DEF One
  <2> QED
    BY <1>2, <1>4, <2>1 DEF IsSum
<1> DEFINE P == {S \in SUBSET Streams : h[S] \in Nat}
<1>5. {} \in P
  BY <1>3
<1>6. ASSUME NEW S \in SUBSET Streams, S # {}, S \ {One(S)} \in P PROVE S \in P
  <2>1. h[S \ {One(S)}] \in Nat /\ f[One(S)] \in Nat
    BY <1>4, <1>6
  <2>2. h[S] = f[One(S)] + h[S \ {One(S)}]
    BY <1>4, <1>6
  <2>3. h[S] \in Nat
    BY <2>1, <2>2
  <2> QED
    BY <2>3
<1>7. \A S \in SUBSET Streams : S \in P
  <2> HIDE DEF P
  <2> QED
    BY <1>5, <1>6, SetInduction
<1> QED
  BY <1>1, <1>3, <1>4, <1>7 DEF h

\* Sums of larger numbers are larger.
LEMMA TotalMono ==
    ASSUME NEW f \in [Streams -> Nat], NEW g \in [Streams -> Nat], \A s \in Streams : f[s] <= g[s]
    PROVE  Total(f) \in Nat /\ Total(g) \in Nat /\ Total(f) <= Total(g)
<1> DEFINE P == {S \in SUBSET Streams : Sums(f)[S] <= Sums(g)[S]}
<1>1. {} \in P
  BY SumTurn
<1>2. ASSUME NEW S \in SUBSET Streams, S # {}, S \ {One(S)} \in P PROVE S \in P
  <2>1. /\ One(S) \in S /\ S \ {One(S)} \in SUBSET Streams
        /\ Sums(f)[S] = f[One(S)] + Sums(f)[S \ {One(S)}]
        /\ Sums(g)[S] = g[One(S)] + Sums(g)[S \ {One(S)}]
    BY <1>2, SumTurn
  <2>2. Sums(f)[S \ {One(S)}] \in Nat /\ Sums(g)[S \ {One(S)}] \in Nat
    BY <2>1, SumTurn
  <2>3. f[One(S)] \in Nat /\ g[One(S)] \in Nat /\ f[One(S)] <= g[One(S)]
    BY <2>1
  <2>4. Sums(f)[S \ {One(S)}] <= Sums(g)[S \ {One(S)}]
    BY <1>2
  <2>5. Sums(f)[S] <= Sums(g)[S]
    BY <2>1, <2>2, <2>3, <2>4
  <2> QED
    BY <2>5
<1>3. \A S \in SUBSET Streams : S \in P
  <2> HIDE DEF P
  <2> QED
    BY <1>1, <1>2, SetInduction
<1> QED
  BY <1>3, SumTurn

\* The sum changes by as much as the number of one stream does.
LEMMA TotalChange ==
    ASSUME NEW f \in [Streams -> Nat], NEW g \in [Streams -> Nat], NEW s \in Streams,
           \A t \in Streams \ {s} : g[t] = f[t]
    PROVE  Total(f) \in Nat /\ Total(g) \in Nat /\ Total(g) = Total(f) + (g[s] - f[s])
<1> DEFINE d == g[s] - f[s]
           P == {S \in SUBSET Streams : Sums(g)[S] = Sums(f)[S] + (IF s \in S THEN d ELSE 0)}
<1>0. f[s] \in Nat /\ g[s] \in Nat /\ d \in Int /\ f[s] + d = g[s]
  OBVIOUS
<1> HIDE DEF d
<1>1. {} \in P
  BY SumTurn
<1>2. ASSUME NEW S \in SUBSET Streams, S # {}, S \ {One(S)} \in P PROVE S \in P
  <2> DEFINE x == One(S)
             R == S \ {x}
  <2>1. /\ x \in S /\ R \in SUBSET Streams
        /\ Sums(f)[S] = f[x] + Sums(f)[R]
        /\ Sums(g)[S] = g[x] + Sums(g)[R]
    BY <1>2, SumTurn
  <2>2. Sums(f)[R] \in Nat /\ Sums(g)[R] \in Nat /\ f[x] \in Nat /\ g[x] \in Nat
    BY <2>1, SumTurn
  <2>3. Sums(g)[R] = Sums(f)[R] + (IF s \in R THEN d ELSE 0)
    BY <1>2
  <2>4. s \in R <=> s \in S /\ s # x
    OBVIOUS
  <2> HIDE DEF x, R
  <2>5. CASE x = s
    BY <1>0, <2>1, <2>2, <2>3, <2>4, <2>5
  <2>6. CASE x # s
    <3>1. g[x] = f[x]
      BY <2>1, <2>6
    <3>2. s \in R <=> s \in S
      BY <2>4, <2>6
    <3> QED
      BY <1>0, <2>1, <2>2, <2>3, <3>1, <3>2
  <2> QED
    BY <2>5, <2>6
<1>3. \A S \in SUBSET Streams : S \in P
  <2> HIDE DEF P
  <2> QED
    BY <1>1, <1>2, SetInduction
<1> QED
  BY <1>3, SumTurn DEF d

-----------------------------------------------------------------------------
(* The size of a burst.                                                      *)

\* Of each stream, what was never sent waits to be sent, and a stream with something
\* to send is in the queue and was not reset.
UnsentQueued ==
    \A s \in Streams :
        /\ emit_off[s] <= off[s]
        /\ \A b \in Nat : emit_off[s] <= b /\ b < off[s] => b \in pending[s]
        /\ \A b \in pending[s] : b < off[s]
        /\ pending[s] # {} => s \in flushable /\ closed[s] = "No"

\* A packet has data below the end of what was sent.
SentBelow == \A p \in pkts \cup lost_frames : p.stream \in Streams => p.blk < emit_off[p.stream]

\* tx_data is what was written, without what was given back; when there was last nothing
\* to send all of it had been sent, and what was sent is never given back.
BurstInv ==
    /\ tx_data = Total(off) /\ sch.idle_tx <= Total(emit_off)
    /\ UnsentQueued /\ SentBelow

\* With an empty queue everything written was sent.
LEMMA IdleMeansSent ==
    ASSUME TypeOK, BurstInv, flushable = {}
    PROVE  tx_data <= Total(emit_off)
<1>1. \A s \in Streams : off[s] <= emit_off[s]
  <2> SUFFICES ASSUME NEW s \in Streams, ~(off[s] <= emit_off[s]) PROVE FALSE
    OBVIOUS
  <2>1. emit_off[s] \in Nat /\ off[s] \in Nat /\ emit_off[s] < off[s]
    BY DEF TypeOK
  <2> QED
    BY <2>1 DEF BurstInv, UnsentQueued
<1> QED
  BY <1>1, TotalMono DEF BurstInv, TypeOK

\* The mark of the last idle moment is only moved when the queue is empty.
LEMMA ConsultIdle ==
    ASSUME TypeOK, FlightFinite, BurstInv, NEW sc \in SchType, sc.idle_tx <= Total(emit_off),
           NEW queue, queue = {} => flushable = {}, NEW w, NEW lost \in Losses
    PROVE  Consult(sc, Busy(queue), w, lost).idle_tx <= Total(emit_off)
<1>1. CASE alg = "background"
  BY <1>1 DEF Consult, ConsultBackground, SchType
<1>2. CASE alg # "background" /\ Busy(queue)
  BY <1>2 DEF Consult, ConsultBursts, SchType
<1>3. CASE alg # "background" /\ ~Busy(queue)
  <2>1. flushable = {}
    BY <1>3 DEF Busy
  <2>2. Consult(sc, Busy(queue), w, lost).idle_tx = tx_data
    BY <1>3 DEF Consult, ConsultBursts, SchType
  <2> QED
    BY <2>1, <2>2, IdleMeansSent
<1> QED
  BY <1>1, <1>2, <1>3

\* The mark after both calls of a send().
LEMMA SendIdle ==
    ASSUME IInv, BurstInv, NEW kept, NEW lost \in Losses
    PROVE  /\ AfterPktType(lost).idle_tx <= Total(emit_off)
           /\ AfterLoop(kept, lost).idle_tx <= Total(emit_off)
           /\ sent_repair_symbol(AfterLoop(kept, lost)).idle_tx = AfterLoop(kept, lost).idle_tx
           /\ sent_source_symbol(AfterLoop(kept, lost)).idle_tx = AfterLoop(kept, lost).idle_tx
<1> USE DEF IInv
<1>1. sch \in SchType /\ sch.idle_tx <= Total(emit_off)
  BY DEF TypeOK, SchType, BurstInv
<1>2. AfterPktType(lost).idle_tx <= Total(emit_off)
  BY <1>1, ConsultIdle DEF AfterPktType
<1> DEFINE sc == acked_repair_symbol(AfterPktType(lost), lost_repairs)
<1>3. sc \in SchType /\ sc.idle_tx <= Total(emit_off)
  <2>1. AfterPktType(lost) \in SchType
    BY SendTypes
  <2> QED
    BY <1>2, <2>1 DEF acked_repair_symbol, SchType, TypeOK
<1>4. QueueAfter(kept) = {} => flushable = {}
  BY DEF QueueAfter
<1> HIDE DEF sc
<1>5. Consult(sc, Busy(QueueAfter(kept)), WindowAfter, lost).idle_tx <= Total(emit_off)
  BY <1>3, <1>4, ConsultIdle
<1>6. AfterLoop(kept, lost).idle_tx <= Total(emit_off)
  BY <1>5 DEF AfterLoop, sc
<1>7. AfterLoop(kept, lost) \in SchType
  BY SendTypes
<1> QED
  BY <1>2, <1>6, <1>7 DEF sent_repair_symbol, sent_source_symbol, SchType

\* What the loop over lost frames leaves to be sent was written, and is queued.
LEMMA LoopQueued ==
    ASSUME TypeOK, UnsentQueued, SentBelow, NEW kept, NEW s \in Streams
    PROVE  /\ pending[s] \subseteq PendingAfter(kept)[s]
           /\ \A b \in PendingAfter(kept)[s] : b \in pending[s] \/ (b \in Nat /\ b < emit_off[s])
           /\ PendingAfter(kept)[s] # {} => s \in QueueAfter(kept) /\ closed[s] = "No"
<1> DEFINE again == {p.blk : p \in {q \in lost_frames \ kept : q.stream = s /\ q.blk # NoBlock}}
<1>1. PendingAfter(kept)[s] \in {pending[s], pending[s] \cup again}
  BY DEF PendingAfter
<1>2. \A b \in again : b \in Nat /\ b < emit_off[s]
  BY DEF TypeOK, Packet, SentBelow
<1> HIDE DEF again
<1>3. PendingAfter(kept)[s] # {} => s \in QueueAfter(kept) /\ closed[s] = "No"
  BY DEF QueueAfter, UnsentQueued, PendingAfter
<1> QED
  BY <1>1, <1>2, <1>3

\* The first block to send is not behind what was sent.
LEMMA Front ==
    ASSUME TypeOK, UnsentQueued, NEW s \in Streams
    PROVE  UnsentOff(s) = emit_off[s]
<1>1. emit_off[s] \in Nat /\ off[s] \in Nat /\ emit_off[s] <= off[s] /\ pending[s] \subseteq Nat
  BY DEF TypeOK, UnsentQueued
<1>2. CASE emit_off[s] = off[s]
  <2>1. pending[s] # {} => Min(pending[s]) \in Nat /\ Min(pending[s]) < off[s]
    BY <1>1, MinInSet DEF UnsentQueued
  <2> QED
    BY <1>1, <1>2, <2>1 DEF UnsentOff, Larger
<1>3. CASE emit_off[s] < off[s]
  <2>1. emit_off[s] \in pending[s]
    BY <1>1, <1>3 DEF UnsentQueued
  <2>2. Min(pending[s]) \in Nat /\ Min(pending[s]) <= emit_off[s]
    BY <1>1, <2>1, MinInSet
  <2> QED
    BY <1>1, <2>1, <2>2 DEF UnsentOff, Larger
<1> QED
  BY <1>1, <1>2, <1>3

\* A source symbol takes the first block of its stream, which is not after the end of
\* what was sent.
LEMMA SourceBurst ==
    ASSUME IInv, BurstInv, NEW lost \in Losses, NEW kept \in SUBSET lost_frames,
           NEW s \in Streams \cup {NoStream}, SendSource(kept, lost, s)
    PROVE  BurstInv'
<1> DEFINE pend == PendingAfter(kept)
           blk == IF s = NoStream \/ pend[s] = {} THEN NoBlock ELSE Min(pend[s])
           pkt == [pn |-> next_pn, stream |-> s, blk |-> blk]
           queue == {t \in QueueAfter(kept) : closed[t] # "Stopped"}
<1>1. /\ lost_frames' = {} /\ UNCHANGED <<off, tx_data>>
      /\ sch' = sent_source_symbol(AfterLoop(kept, lost))
      /\ pkts' = pkts \cup {pkt}
      /\ pending' = [t \in Streams |-> IF t = s THEN pend[t] \ {blk} ELSE pend[t]]
      /\ emit_off' = [t \in Streams |-> IF t = s THEN Larger(emit_off[t], blk + 1)
                                        ELSE emit_off[t]]
      /\ \A t \in queue : (t = s => pending'[t] # {}) => t \in flushable'
  BY DEF SendSource, SendSingle
<1>2. pend \in [Streams -> SUBSET Nat] /\ emit_off \in [Streams -> Nat] /\ off \in [Streams -> Nat]
  BY LoopTypes DEF IInv, TypeOK
<1>3. ASSUME NEW t \in Streams
      PROVE  /\ pending[t] \subseteq pend[t]
             /\ \A b \in pend[t] : b \in pending[t] \/ (b \in Nat /\ b < emit_off[t])
             /\ pend[t] # {} => t \in QueueAfter(kept) /\ closed[t] = "No"
  BY LoopQueued DEF IInv, BurstInv
<1>4. ASSUME NEW t \in Streams
      PROVE  /\ emit_off[t] <= off[t]
             /\ \A b \in Nat : emit_off[t] <= b /\ b < off[t] => b \in pend[t]
             /\ \A b \in pend[t] : b < off[t]
  BY <1>2, <1>3 DEF BurstInv, UnsentQueued
<1>5. blk \in Nat \cup {NoBlock}
  BY <1>2, MinInSet
<1>6. ASSUME s \in Streams, pend[s] # {} PROVE blk = NoBlock \/ (blk \in pend[s] /\ blk \in Nat)
  BY <1>2, <1>6, MinInSet
<1> HIDE DEF blk
<1>7. ASSUME NEW t \in Streams
      PROVE  /\ emit_off[t] <= emit_off'[t] /\ emit_off'[t] \in Nat
             /\ t = s => blk < emit_off'[t]
             /\ emit_off'[t] <= off[t]
  <2>1. t # s => emit_off'[t] = emit_off[t]
    BY <1>1
  <2>2. t = s => emit_off'[t] = Larger(emit_off[t], blk + 1)
    BY <1>1
  <2>3. emit_off[t] \in Nat /\ off[t] \in Nat /\ emit_off[t] <= off[t]
    BY <1>2, <1>4
  <2>4. t = s => blk = NoBlock \/ (blk \in Nat /\ blk < off[t])
    BY <1>4, <1>5, <1>6 DEF blk
  <2> QED
    BY <2>1, <2>2, <2>3, <2>4 DEF Larger, NoBlock
<1>8. ASSUME NEW t \in Streams
      PROVE  /\ \A b \in Nat : emit_off'[t] <= b /\ b < off[t] => b \in pending'[t]
             /\ \A b \in pending'[t] : b < off[t]
             /\ pending'[t] # {} => t \in flushable' /\ closed[t] = "No"
  <2>1. pending'[t] \subseteq pend[t]
    BY <1>1
  <2>2. ASSUME NEW b \in Nat, emit_off'[t] <= b, b < off[t] PROVE b \in pending'[t]
    <3>1. emit_off[t] \in Nat /\ b \in pend[t]
      BY <1>2, <1>4, <1>7, <2>2
    <3>2. t = s => b # blk
      BY <1>5, <1>7, <2>2 DEF NoBlock
    <3> QED
      BY <1>1, <3>1, <3>2
  <2>3. ASSUME pending'[t] # {} PROVE t \in flushable' /\ closed[t] = "No"
    <3>1. t \in QueueAfter(kept) /\ closed[t] = "No"
      BY <1>3, <2>1, <2>3
    <3> QED
      BY <1>1, <2>3, <3>1
  <2> QED
    BY <1>4, <2>1, <2>2, <2>3
<1>9. UnsentQueued'
  BY <1>1, <1>7, <1>8 DEF UnsentQueued, SendSource, SendSingle
<1>10. SentBelow'
  <2> SUFFICES ASSUME NEW p \in pkts', p.stream \in Streams PROVE p.blk < emit_off'[p.stream]
    BY <1>1 DEF SentBelow
  <2>1. CASE p \in pkts
    <3>1. p.blk \in Int /\ p.blk < emit_off[p.stream]
      BY <2>1 DEF IInv, TypeOK, Packet, NoBlock, BurstInv, SentBelow
    <3> QED
      BY <1>2, <1>7, <3>1
  <2>2. CASE p = pkt
    BY <1>7, <2>2
  <2> QED
    BY <1>1, <2>1, <2>2
<1>11. emit_off' \in [Streams -> Nat]
  BY <1>1, <1>7
<1>12. Total(emit_off) \in Nat /\ Total(emit_off') \in Nat /\ Total(emit_off) <= Total(emit_off')
  BY <1>2, <1>7, <1>11, TotalMono
<1>13. AfterLoop(kept, lost).idle_tx \in Nat
  BY SendTypes DEF IInv, SchType
<1>14. sch'.idle_tx <= Total(emit_off')
  BY <1>1, <1>12, <1>13, SendIdle
<1> QED
  BY <1>1, <1>9, <1>10, <1>14 DEF BurstInv

\* The ways through send() without a source symbol.
LEMMA OtherBurst ==
    ASSUME IInv, BurstInv, NEW lost \in Losses, NEW kept \in SUBSET lost_frames,
           SendRepair(kept, lost) \/ SendNone(kept, lost)
    PROVE  BurstInv'
<1>1. /\ lost_frames' = {} /\ UNCHANGED <<off, tx_data, emit_off, pkts, closed>>
      /\ pending' = PendingAfter(kept) /\ flushable' = QueueAfter(kept)
      /\ sch' = sent_repair_symbol(AfterLoop(kept, lost)) \/ sch' = AfterLoop(kept, lost)
  BY DEF SendRepair, SendNone, SendSingle
<1>2. sch'.idle_tx <= Total(emit_off)
  BY <1>1, SendIdle
<1>3. SentBelow'
  BY <1>1 DEF BurstInv, SentBelow
<1>4. UnsentQueued'
  <2> SUFFICES ASSUME NEW s \in Streams
               PROVE  /\ emit_off[s] <= off[s]
                      /\ \A b \in Nat : emit_off[s] <= b /\ b < off[s] => b \in PendingAfter(kept)[s]
                      /\ \A b \in PendingAfter(kept)[s] : b < off[s]
                      /\ PendingAfter(kept)[s] # {} => s \in QueueAfter(kept) /\ closed[s] = "No"
    BY <1>1 DEF UnsentQueued
  <2>1. /\ pending[s] \subseteq PendingAfter(kept)[s]
        /\ \A b \in PendingAfter(kept)[s] : b \in pending[s] \/ (b \in Nat /\ b < emit_off[s])
        /\ PendingAfter(kept)[s] # {} => s \in QueueAfter(kept) /\ closed[s] = "No"
    BY LoopQueued DEF IInv, BurstInv
  <2>2. emit_off[s] \in Nat /\ off[s] \in Nat
    BY DEF IInv, TypeOK
  <2> QED
    BY <2>1, <2>2 DEF BurstInv, UnsentQueued
<1> QED
  BY <1>1, <1>2, <1>3, <1>4 DEF BurstInv

\* One stream was written to or reset.
LEMMA AppBurst ==
    ASSUME IInv, BurstInv, NEW s \in Streams,
           stream_send(s) \/ \E how \in {"Shutdown", "Stopped"} : ResetStream(s, how)
    PROVE  BurstInv'
<1>1. off \in [Streams -> Nat] /\ emit_off \in [Streams -> Nat] /\ tx_data = Total(off)
      /\ pending \in [Streams -> SUBSET Nat] /\ closed \in [Streams -> {"No", "Shutdown", "Stopped"}]
  BY DEF IInv, TypeOK, BurstInv
<1>2. emit_off[s] \in Nat /\ off[s] \in Nat /\ emit_off[s] <= off[s]
  BY <1>1 DEF BurstInv, UnsentQueued
<1>3. UNCHANGED <<sch, emit_off, pkts, lost_frames>>
  BY DEF stream_send, ResetStream, netVars
<1>4. CASE stream_send(s)
  <2>1. off' \in [Streams -> Nat] /\ off'[s] = off[s] + 1 /\ \A t \in Streams \ {s} : off'[t] = off[t]
    BY <1>1, <1>4 DEF stream_send
  <2>2. Total(off') = Total(off) + (off'[s] - off[s])
    BY <1>1, <2>1, TotalChange
  <2>3. Total(off) \in Nat
    BY <1>1, TotalMono
  <2>4. tx_data' = Total(off')
    BY <1>1, <1>2, <1>4, <2>1, <2>2, <2>3 DEF stream_send
  <2>5. UnsentQueued'
    <3> SUFFICES ASSUME NEW t \in Streams
                 PROVE  /\ emit_off[t] <= off'[t]
                        /\ \A b \in Nat : emit_off[t] <= b /\ b < off'[t] => b \in pending'[t]
                        /\ \A b \in pending'[t] : b < off'[t]
                        /\ pending'[t] # {} => t \in flushable' /\ closed'[t] = "No"
      BY <1>3 DEF UnsentQueued
    <3>1. CASE t = s
      <4>1. /\ pending'[t] = pending[s] \cup {off[s]} /\ t \in flushable' /\ closed'[t] = "No"
        BY <1>1, <1>4, <3>1 DEF stream_send
      <4>2. \A b \in Nat : b < off[s] + 1 <=> b < off[s] \/ b = off[s]
        BY <1>2
      <4>3. \A b \in pending[s] : b \in Nat /\ b < off[s]
        BY <1>1 DEF BurstInv, UnsentQueued
      <4>4. \A b \in Nat : emit_off[s] <= b /\ b < off[s] => b \in pending[s]
        BY DEF BurstInv, UnsentQueued
      <4> QED
        BY <1>2, <2>1, <3>1, <4>1, <4>2, <4>3, <4>4
    <3>2. CASE t # s
      <4>1. pending'[t] = pending[t] /\ off'[t] = off[t] /\ flushable \subseteq flushable'
            /\ closed'[t] = closed[t]
        BY <1>1, <1>4, <3>2 DEF stream_send
      <4> QED
        BY <4>1 DEF BurstInv, UnsentQueued
    <3> QED
      BY <3>1, <3>2
  <2> QED
    BY <1>3, <2>4, <2>5 DEF BurstInv, SentBelow
<1>5. CASE \E how \in {"Shutdown", "Stopped"} : ResetStream(s, how)
  <2>1. UnsentOff(s) = emit_off[s]
    BY Front DEF IInv, BurstInv
  <2>2. off' \in [Streams -> Nat] /\ off'[s] = emit_off[s] /\ \A t \in Streams \ {s} : off'[t] = off[t]
    BY <1>1, <1>5, <2>1 DEF ResetStream
  <2>3. Total(off') \in Nat /\ Total(off) \in Nat /\ Total(off') = Total(off) + (off'[s] - off[s])
    BY <1>1, <2>2, TotalChange
  <2>4. tx_data' = Total(off')
    <3>1. tx_data' = Larger(0, tx_data - (off[s] - emit_off[s]))
      BY <1>5, <2>1 DEF ResetStream
    <3> QED
      BY <1>1, <1>2, <2>2, <2>3, <3>1 DEF Larger
  <2>5. UnsentQueued'
    <3> SUFFICES ASSUME NEW t \in Streams
                 PROVE  /\ emit_off[t] <= off'[t]
                        /\ \A b \in Nat : emit_off[t] <= b /\ b < off'[t] => b \in pending'[t]
                        /\ \A b \in pending'[t] : b < off'[t]
                        /\ pending'[t] # {} => t \in flushable' /\ closed'[t] = "No"
      BY <1>3 DEF UnsentQueued
    <3>1. CASE t = s
      <4>1. pending'[t] = {}
        BY <1>1, <1>5, <3>1 DEF ResetStream
      <4> QED
        BY <1>2, <2>2, <3>1, <4>1
    <3>2. CASE t # s
      <4>1. pending'[t] = pending[t] /\ off'[t] = off[t] /\ flushable = flushable'
            /\ closed'[t] = closed[t]
        BY <1>1, <1>5, <3>2 DEF ResetStream
      <4> QED
        BY <4>1 DEF BurstInv, UnsentQueued
    <3> QED
      BY <3>1, <3>2
  <2> QED
    BY <1>3, <2>4, <2>5 DEF BurstInv, SentBelow
<1> QED
  BY <1>4, <1>5

\* The data of an acked packet was sent, so that it is never the unsent part that leaves the
\* queue.
LEMMA AckBurst ==
    ASSUME IInv, BurstInv, NEW p \in pkts, AckSource(p)
    PROVE  BurstInv'
<1>1. /\ pkts' \subseteq pkts
      /\ UNCHANGED <<off, emit_off, tx_data, sch, lost_frames, flushable, closed>>
  BY DEF AckSource
<1>2. ASSUME NEW t \in Streams
      PROVE  /\ pending'[t] \subseteq pending[t]
             /\ pending[t] \ pending'[t] \subseteq (IF t = p.stream THEN {p.blk} ELSE {})
  BY DEF AckSource, IInv, TypeOK
<1>3. p.stream \in Streams => p.blk < emit_off[p.stream]
  BY DEF BurstInv, SentBelow
<1>4. p.blk \in Int
  BY DEF IInv, TypeOK, Packet, NoBlock
<1>5. UnsentQueued'
  <2> SUFFICES ASSUME NEW t \in Streams
               PROVE  /\ emit_off[t] <= off[t]
                      /\ \A b \in Nat : emit_off[t] <= b /\ b < off[t] => b \in pending'[t]
                      /\ \A b \in pending'[t] : b < off[t]
                      /\ pending'[t] # {} => t \in flushable /\ closed[t] = "No"
    BY <1>1 DEF UnsentQueued
  <2>1. emit_off[t] \in Nat /\ off[t] \in Nat
    BY DEF IInv, TypeOK
  <2>2. ASSUME NEW b \in Nat, emit_off[t] <= b, b < off[t] PROVE b \in pending'[t]
    <3>1. b \in pending[t]
      BY <2>2 DEF BurstInv, UnsentQueued
    <3>2. t = p.stream => b # p.blk
      BY <1>3, <1>4, <2>1, <2>2
    <3> QED
      BY <1>2, <3>1, <3>2
  <2> QED
    BY <1>2, <2>2 DEF BurstInv, UnsentQueued
<1> QED
  BY <1>1, <1>5 DEF BurstInv, SentBelow

\* The sums and the queue are right after every step.
LEMMA BurstStep == IInv /\ BurstInv /\ [Next]_vars => BurstInv'
<1> SUFFICES ASSUME IInv, BurstInv, [Next]_vars PROVE BurstInv'
  OBVIOUS
<1> USE DEF streamVars, encoderVars, netVars, timerVars
<1>1. ASSUME NEW s \in Streams, stream_send(s) \/ \E how \in {"Shutdown", "Stopped"} : ResetStream(s, how)
      PROVE  BurstInv'
  BY <1>1, AppBurst
<1>2. ASSUME Tick \/ Wake PROVE BurstInv'
  <2>1. sch'.idle_tx = sch.idle_tx
    BY <1>2 DEF Tick, Wake, IInv, TypeOK
  <2> QED
    BY <1>2, <2>1 DEF Tick, Wake, BurstInv, UnsentQueued, SentBelow
<1>3. ASSUME Send PROVE BurstInv'
  <2>1. PICK lost \in Losses :
          \/ SendDone(lost)
          \/ \E kept \in SUBSET lost_frames :
                \/ SendRepair(kept, lost)
                \/ SendNone(kept, lost)
                \/ \E s \in Streams \cup {NoStream} : SendSource(kept, lost, s)
    BY <1>3 DEF Send
  <2>2. CASE SendDone(lost)
    <3>1. sch'.idle_tx <= Total(emit_off)
      BY <2>2, SendIdle DEF SendDone
    <3> QED
      BY <2>2, <3>1 DEF SendDone, BurstInv, UnsentQueued, SentBelow
  <2> QED
    BY <2>1, <2>2, OtherBurst, SourceBurst
<1>4. ASSUME NEW p \in pkts, AckSource(p) PROVE BurstInv'
  BY <1>4, AckBurst
<1>5. ASSUME NEW p \in pkts, LoseSource(p) PROVE BurstInv'
  BY <1>5 DEF LoseSource, BurstInv, UnsentQueued, SentBelow
<1>6. ASSUME AckRepair PROVE BurstInv'
  <2>1. sch'.idle_tx = sch.idle_tx
    BY <1>6 DEF AckRepair, acked_repair_symbol, IInv, TypeOK
  <2> QED
    BY <1>6, <2>1 DEF AckRepair, BurstInv, UnsentQueued, SentBelow
<1>7. ASSUME LoseRepair PROVE BurstInv'
  BY <1>7 DEF LoseRepair, BurstInv, UnsentQueued, SentBelow
<1>8. ASSUME ProbeTimeout PROVE BurstInv'
  <2>1. lost_frames' \subseteq lost_frames \cup pkts
    BY <1>8 DEF ProbeTimeout, Oldest
  <2> QED
    BY <1>8, <2>1 DEF ProbeTimeout, BurstInv, UnsentQueued, SentBelow
<1>9. CASE UNCHANGED vars
  BY <1>9 DEF vars, BurstInv, UnsentQueued, SentBelow
<1> HIDE DEF streamVars, encoderVars, netVars, timerVars
<1> QED
  BY <1>1, <1>2, <1>3, <1>4, <1>5, <1>6, <1>7, <1>8, <1>9 DEF Next

\* Nothing was written or sent at the start.
LEMMA BurstInit == Init => BurstInv
<1> SUFFICES ASSUME Init PROVE BurstInv
  OBVIOUS
<1>1. off \in [Streams -> Nat] /\ off = emit_off /\ \A s \in Streams : off[s] = 0
  BY DEF Init
<1> DEFINE P == {S \in SUBSET Streams : Sums(off)[S] = 0}
<1>2. {} \in P
  BY <1>1, SumTurn
<1>3. ASSUME NEW S \in SUBSET Streams, S # {}, S \ {One(S)} \in P PROVE S \in P
  BY <1>1, <1>3, SumTurn
<1>4. \A S \in SUBSET Streams : S \in P
  <2> HIDE DEF P
  <2> QED
    BY <1>2, <1>3, SetInduction
<1>5. Total(off) = 0
  BY <1>1, <1>4, SumTurn
<1> QED
  BY <1>1, <1>5 DEF Init, BurstInv, UnsentQueued, SentBelow

\* What was there to send, when there was last nothing to send, is never given back by a
\* reset: the size of a burst does not wrap, for any streams and resets.
THEOREM BurstSizeHolds == Spec => []BurstSizeExact
<1>1. IInv /\ BurstInv => BurstSizeExact
  <2> SUFFICES ASSUME IInv, BurstInv PROVE BurstSizeExact
    OBVIOUS
  <2>1. Total(emit_off) \in Nat /\ Total(off) \in Nat /\ Total(emit_off) <= Total(off)
    BY TotalMono DEF IInv, TypeOK, BurstInv, UnsentQueued
  <2>2. sch.idle_tx \in Nat
    BY DEF IInv, TypeOK
  <2> QED
    BY <2>1, <2>2 DEF BurstInv, BurstSizeExact
<1>2. Spec => []BurstInv
  BY BurstInit, BurstStep, Invariance, PTL DEF Spec
<1> QED
  BY <1>1, <1>2, Invariance, PTL
=============================================================================
