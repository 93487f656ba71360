--------------------------- MODULE RecoveryProofs ---------------------------
(***************************************************************************)
(* Proofs about Recovery, for any packets, estimates and bounds: what is in *)
(* flight is counted exactly, the timer is armed in time while 1-RTT packets *)
(* are outstanding, and something comes of it when it fires.                  *)
(***************************************************************************)
EXTENDS Recovery, FiniteSetTheorems, WellFoundedInduction, TLAPS

-----------------------------------------------------------------------------
(* The inductive invariant.  Its parts are about a Recovery x, so that they    *)
(* can be stated between the steps of one handler too.                         *)

App == "Application"
Early == {"Initial", "Handshake"}

Times == UNION {[P -> Int] : P \in SUBSET Packets}

Recoveries ==
    [time_sent : Times, time_lost : Times, acked : SUBSET Packets,
     largest_acked : [Epochs -> Options(Nat)], loss_time : [Epochs -> SUBSET Int],
     last_ae : [Epochs -> SUBSET Int], loss_probes : [Epochs -> Nat],
     in_flight_count : [Epochs -> Int], loss_timer : SUBSET Int, pto_count : Nat,
     bytes_in_flight : Int, pkt_thresh : Int, outstanding : Nat, est : Rtts]

\* What is acked or lost is still in the list of sent packets, which is finite.
Listed(x) ==
    /\ x \in Recoveries
    /\ IsFiniteSet(DOMAIN x.time_sent)
    /\ DOMAIN x.time_lost \subseteq DOMAIN x.time_sent
    /\ x.acked \subseteq DOMAIN x.time_sent

\* The number of the next packet of a space is above those of the list.
Numbered(x, next) == \A p \in DOMAIN x.time_sent : p.pn < next[p.e]

\* Packets of a space were sent in the order of their numbers.
Ordered(x) ==
    /\ \A p \in DOMAIN x.time_sent : x.time_sent[p] <= 0
    /\ \A p, q \in DOMAIN x.time_sent :
         p.e = q.e /\ p.pn <= q.pn => x.time_sent[p] <= x.time_sent[q]

\* The packets U are what the counters count, but for n bytes.
Counted(U, bytes, count, n) ==
    /\ bytes = Cardinality(Eliciting(U)) + n
    /\ \A e \in Epochs : count[e] = Cardinality(InFlight({p \in U : p.e = e}))

\* 1-RTT packets of U that elicit an ack.
Outstanding(U) == {p \in Eliciting(U) : p.e = App}

\* t is past, or at most a loss delay after each of the packets was sent.
InTime(t, U, sent) ==
    \/ t <= 0
    \/ /\ t <= Longest.loss_delay
       /\ \A p \in Outstanding(U) : t <= sent[p] + Longest.loss_delay

\* The 1-RTT loss time is that of a packet which may still be lost.
LossTimed(x) ==
    \A t \in x.loss_time[App] :
      Suspects(x, App) # {} /\ InTime(t, Unresolved(x), x.time_sent)

\* A probe timeout starts from the last packet that elicits an ack.
ProbeTimed(x) == Outstanding(Unresolved(x)) # {} => x.last_ae[App] # {}

\* A space without keys has nothing sent.
Cleared(x, e) == Sent(x, e) = {} /\ x.loss_time[e] = {}
-----------------------------------------------------------------------------
(* Facts about sets and times.                                                *)

\* A non-empty set of natural numbers has a smallest member.
LEMMA SmallestOf ==
    ASSUME NEW S, S \subseteq Nat, S # {}
    PROVE  \E x \in S : \A y \in S : x <= y
<1>1. PICK x \in S : \A y \in S : ~(<<y, x>> \in OpToRel(<, Nat))
  BY NatLessThanWellFounded, WFMin
<1>2. \A y \in S : ~(y < x)
  BY <1>1, Zenon DEF OpToRel
<1> QED
  BY <1>2

\* A bounded one has a largest, which is Max of it.
LEMMA LargestOf ==
    ASSUME NEW S, S \subseteq Nat, S # {}, NEW n \in Nat, \A k \in S : k <= n
    PROVE  Max(S) \in S /\ \A k \in S : k <= Max(S)
<1> DEFINE T == {n - k : k \in S}
<1>1. T \subseteq Nat
  OBVIOUS
<1>0. T # {}
  OBVIOUS
<1>2. PICK x \in T : \A y \in T : x <= y
  BY <1>0, <1>1, SmallestOf
<1>3. PICK k \in S : x = n - k
  BY <1>2
<1>4. ASSUME NEW j \in S PROVE j <= k
  <2>1. n - j \in T
    OBVIOUS
  <2>2. n - k <= n - j
    BY <1>2, <1>3, <2>1
  <2> QED
    BY <2>2
<1> QED
  BY <1>4 DEF Max

\* Max and Min of two numbers.
LEMMA OfTwo ==
    ASSUME NEW a \in Int, NEW b \in Int
    PROVE  /\ Max({a, b}) = IF a <= b THEN b ELSE a
           /\ Min({a, b}) = IF a <= b THEN a ELSE b
BY DEF Max, Min

\* A function from packets to instants is one of Times.
LEMMA InTimes ==
    ASSUME NEW P \in SUBSET Packets, NEW f \in [P -> Int]
    PROVE  f \in Times
BY DEF Times

\* The members of Times are such functions.
LEMMA OfTimes ==
    ASSUME NEW f \in Times
    PROVE  DOMAIN f \subseteq Packets /\ f \in [DOMAIN f -> Int]
BY DEF Times

\* A part of a time table is one.
LEMMA RestrictTimes ==
    ASSUME NEW f \in Times, NEW P \in SUBSET DOMAIN f
    PROVE  /\ Restrict(f, P) \in Times
           /\ DOMAIN Restrict(f, P) = P
           /\ \A p \in P : Restrict(f, P)[p] = f[p]
<1>1. DOMAIN f \subseteq Packets /\ f \in [DOMAIN f -> Int]
  BY DEF Times
<1>2. Restrict(f, P) \in [P -> Int]
  BY <1>1 DEF Restrict
<1>3. Restrict(f, P) \in Times
  BY <1>1, <1>2, InTimes
<1> QED
  BY <1>3 DEF Restrict

\* The size of a finite set without some of its members.
LEMMA Without ==
    ASSUME NEW S, IsFiniteSet(S), NEW T, T \subseteq S
    PROVE  /\ Cardinality(S) \in Nat /\ Cardinality(T) \in Nat
           /\ Cardinality(S \ T) = Cardinality(S) - Cardinality(T)
<1>1. IsFiniteSet(T)
  BY FS_Subset
<1>2. Cardinality(S \ T) = Cardinality(S) - Cardinality(S \cap T)
  BY FS_Difference
<1>3. S \cap T = T
  OBVIOUS
<1> QED
  BY <1>1, <1>2, <1>3, FS_CardinalityType

\* Packets that are no longer outstanding are taken off the counts.
LEMMA Uncount ==
    ASSUME NEW U, IsFiniteSet(U), NEW e \in Epochs, NEW B, B \subseteq {p \in U : p.e = e},
           NEW bytes \in Int, NEW count \in [Epochs -> Int], NEW n \in Int,
           Counted(U, bytes, count, n)
    PROVE  /\ Cardinality(Eliciting(B)) \in Nat /\ Cardinality(InFlight(B)) \in Nat
           /\ Counted(U \ B, bytes, [count EXCEPT ![e] = @ - Cardinality(InFlight(B))],
                      n + Cardinality(Eliciting(B)))
<1> DEFINE Of(f) == InFlight({p \in U : p.e = f})
<1>1. IsFiniteSet(Eliciting(U)) /\ \A f \in Epochs : IsFiniteSet(Of(f))
  BY FS_Subset DEF Eliciting, InFlight
<1>2. IsFiniteSet(B)
  BY FS_Subset
<1>3. IsFiniteSet(Eliciting(B)) /\ IsFiniteSet(InFlight(B))
  BY <1>2, FS_Subset DEF Eliciting, InFlight
<1>4. /\ Cardinality(Eliciting(B)) \in Nat /\ Cardinality(InFlight(B)) \in Nat
      /\ Cardinality(Eliciting(U)) \in Nat
      /\ \A f \in Epochs : Cardinality(Of(f)) \in Nat
  BY <1>1, <1>3, FS_CardinalityType
<1>5. Cardinality(Eliciting(U \ B)) = Cardinality(Eliciting(U)) - Cardinality(Eliciting(B))
  <2>1. Eliciting(U \ B) = Eliciting(U) \ Eliciting(B) /\ Eliciting(B) \subseteq Eliciting(U)
    BY DEF Eliciting
  <2> QED
    BY <1>1, <2>1, Without
<1>6. \A f \in Epochs : f # e => InFlight({p \in U \ B : p.e = f}) = Of(f)
  BY DEF InFlight
<1>7. Cardinality(InFlight({p \in U \ B : p.e = e})) = Cardinality(Of(e)) - Cardinality(InFlight(B))
  <2>1. /\ InFlight({p \in U \ B : p.e = e}) = Of(e) \ InFlight(B)
        /\ InFlight(B) \subseteq Of(e)
    BY DEF InFlight
  <2> QED
    BY <1>1, <2>1, Without
<1>8. /\ bytes = Cardinality(Eliciting(U)) + n
      /\ \A f \in Epochs : count[f] = Cardinality(Of(f))
  BY DEF Counted
<1>9. bytes = Cardinality(Eliciting(U \ B)) + (n + Cardinality(Eliciting(B)))
  BY <1>4, <1>5, <1>8
<1> DEFINE count2 == [count EXCEPT ![e] = @ - Cardinality(InFlight(B))]
<1>10. ASSUME NEW f \in Epochs
       PROVE  count2[f] = Cardinality(InFlight({p \in U \ B : p.e = f}))
  <2>1. CASE f = e
    BY <2>1, <1>4, <1>7, <1>8
  <2>2. CASE f # e
    <3>1. count2[f] = count[f]
      BY <2>2
    <3> QED
      BY <2>2, <3>1, <1>6, <1>8
  <2> QED
    BY <2>1, <2>2
<1> QED
  BY <1>4, <1>9, <1>10 DEF Counted

-----------------------------------------------------------------------------
(* What the operations on a Recovery do.                                      *)

\* y has no packet that x has not, and the same instants.
Thins(x, y) ==
    /\ DOMAIN y.time_sent \subseteq DOMAIN x.time_sent
    /\ \A p \in DOMAIN y.time_sent : y.time_sent[p] = x.time_sent[p]

SameTimer(x, y) ==
    /\ y.loss_timer = x.loss_timer /\ y.last_ae = x.last_ae
    /\ y.est = x.est /\ y.pto_count = x.pto_count

SameCounts(x, y) ==
    y.bytes_in_flight = x.bytes_in_flight /\ y.in_flight_count = x.in_flight_count

\* The unresolved packets are finitely many of the list.
LEMMA UnresolvedFinite ==
    ASSUME NEW x, Listed(x)
    PROVE  /\ Unresolved(x) \subseteq DOMAIN x.time_sent /\ IsFiniteSet(Unresolved(x))
           /\ DOMAIN x.time_sent \subseteq Packets
<1>1. Unresolved(x) \subseteq DOMAIN x.time_sent
  BY DEF Unresolved
<1>2. x.time_sent \in Times
  BY DEF Listed, Recoveries
<1> QED
  BY <1>1, <1>2, FS_Subset, OfTimes DEF Listed

\* Draining takes only packets that are acked or lost.
LEMMA DrainSpec ==
    ASSUME NEW x, Listed(x), NEW e \in Epochs
    PROVE  LET y == drain_acked_and_lost_packets(x, e)
           IN /\ Listed(y) /\ Thins(x, y) /\ SameTimer(x, y) /\ SameCounts(x, y)
              /\ Unresolved(y) = Unresolved(x)
              /\ y.loss_time = x.loss_time /\ y.largest_acked = x.largest_acked
              /\ y.loss_probes = x.loss_probes
<1> DEFINE gone == {p \in Sent(x, e) : \A q \in Sent(x, e) : q.pn <= p.pn => ~Stays(x, q)}
           sent == Restrict(x.time_sent, DOMAIN x.time_sent \ gone)
           lost == Restrict(x.time_lost, DOMAIN x.time_lost \ gone)
           y == drain_acked_and_lost_packets(x, e)
<1>1. x \in Recoveries /\ x.time_sent \in Times /\ x.time_lost \in Times /\ x.acked \subseteq Packets
  BY DEF Listed, Recoveries
<1>2. /\ sent \in Times /\ DOMAIN sent = DOMAIN x.time_sent \ gone
      /\ \A p \in DOMAIN sent : sent[p] = x.time_sent[p]
  BY <1>1, RestrictTimes
<1>3. lost \in Times /\ DOMAIN lost = DOMAIN x.time_lost \ gone
  BY <1>1, RestrictTimes
<1>4. DOMAIN sent \subseteq Packets
  BY <1>2, OfTimes
<1>5. \A p \in gone : p \notin Unresolved(x)
  <2> SUFFICES ASSUME NEW p \in gone PROVE p \notin Unresolved(x)
    OBVIOUS
  <2>1. ~Stays(x, p)
    <3>1. p \in Sent(x, e) /\ p.pn <= p.pn
      <4>1. p \in Packets
        BY <1>1, OfTimes DEF Sent
      <4> QED
        BY <4>1 DEF Packets
    <3> QED
      BY <3>1
  <2> QED
    BY <2>1 DEF Stays, Unresolved
<1> HIDE DEF gone, sent, lost
<1>6. y = [x EXCEPT !.time_sent = sent, !.time_lost = lost, !.acked = @ \ gone]
  BY DEF drain_acked_and_lost_packets, gone, sent, lost
<1>7. /\ y.time_sent = sent /\ y.time_lost = lost /\ y.acked = x.acked \ gone
      /\ y.loss_timer = x.loss_timer /\ y.last_ae = x.last_ae
      /\ y.est = x.est /\ y.pto_count = x.pto_count
      /\ y.bytes_in_flight = x.bytes_in_flight /\ y.in_flight_count = x.in_flight_count
      /\ y.loss_time = x.loss_time /\ y.largest_acked = x.largest_acked
      /\ y.loss_probes = x.loss_probes
  BY <1>1, <1>6 DEF Recoveries
<1>8. y \in Recoveries
  <2> DEFINE acked == x.acked \ gone
  <2>1. acked \subseteq Packets
    BY <1>1
  <2>2. y = [[[x EXCEPT !.time_sent = sent] EXCEPT !.time_lost = lost] EXCEPT !.acked = acked]
    BY <1>1, <1>6 DEF Recoveries
  <2> HIDE DEF acked, y
  <2>3. [x EXCEPT !.time_sent = sent] \in Recoveries
    BY <1>1, <1>2 DEF Recoveries
  <2>4. [[x EXCEPT !.time_sent = sent] EXCEPT !.time_lost = lost] \in Recoveries
    BY <1>3, <2>3 DEF Recoveries
  <2> QED
    BY <2>1, <2>2, <2>4 DEF Recoveries
<1> HIDE DEF y
<1>9. Listed(y)
  <2>1. IsFiniteSet(DOMAIN sent)
    BY <1>2, FS_Subset DEF Listed
  <2> QED
    BY <2>1, <1>2, <1>3, <1>7, <1>8 DEF Listed
<1>10. Unresolved(y) = Unresolved(x)
  BY <1>2, <1>3, <1>5, <1>7 DEF Unresolved
<1>11. Thins(x, y) /\ SameTimer(x, y) /\ SameCounts(x, y)
  BY <1>2, <1>7 DEF Thins, SameTimer, SameCounts
<1> QED
  BY <1>7, <1>9, <1>10, <1>11 DEF y

\* The suspects in terms of the unresolved packets.
LEMMA SuspectsAre ==
    ASSUME NEW x, NEW e
    PROVE  Suspects(x, e) =
             {p \in Unresolved(x) : p.e = e /\ p.pn <= unwrap_or(x.largest_acked[e], 0)}
BY DEF Suspects, Sent, Unresolved

\* A packet that is declared lost is no longer unresolved, nor counted.
LEMMA MarkLostSpec ==
    ASSUME NEW x, Listed(x), NEW e \in Epochs,
           NEW lost, lost \subseteq {p \in Unresolved(x) : p.e = e}
    PROVE  LET y == MarkLost(x, e, lost)
           IN /\ Listed(y) /\ SameTimer(x, y)
              /\ y.time_sent = x.time_sent
              /\ Unresolved(y) = Unresolved(x) \ lost
              /\ \A n \in Int :
                   Counted(Unresolved(x), x.bytes_in_flight, x.in_flight_count, n) =>
                   Counted(Unresolved(y), y.bytes_in_flight, y.in_flight_count, n)
              /\ y.loss_time = x.loss_time /\ y.largest_acked = x.largest_acked
              /\ y.loss_probes = x.loss_probes
<1> DEFINE y == MarkLost(x, e, lost)
           times == [p \in DOMAIN x.time_lost \cup lost |-> IF p \in lost THEN 0 ELSE x.time_lost[p]]
           a == Cardinality(Eliciting(lost))
           c == Cardinality(InFlight(lost))
<1>1. /\ x \in Recoveries /\ x.time_lost \in Times
      /\ x.bytes_in_flight \in Int /\ x.in_flight_count \in [Epochs -> Int]
  BY DEF Listed, Recoveries
<1>2. DOMAIN x.time_lost \subseteq Packets /\ x.time_lost \in [DOMAIN x.time_lost -> Int]
  BY <1>1 DEF Times
<1>3. lost \subseteq DOMAIN x.time_sent /\ lost \subseteq Packets /\ IsFiniteSet(Unresolved(x))
  BY UnresolvedFinite
<1>4. times \in [DOMAIN x.time_lost \cup lost -> Int]
  BY <1>2
<1>5. times \in Times /\ DOMAIN times = DOMAIN x.time_lost \cup lost
  BY <1>2, <1>3, <1>4, InTimes
<1>6. a \in Nat /\ c \in Nat
  <2>1. IsFiniteSet(lost)
    BY <1>3, FS_Subset
  <2>2. IsFiniteSet(Eliciting(lost)) /\ IsFiniteSet(InFlight(lost))
    BY <2>1, FS_Subset DEF Eliciting, InFlight
  <2> QED
    BY <2>2, FS_CardinalityType
<1> HIDE DEF times
<1> DEFINE count == [x.in_flight_count EXCEPT ![e] = @ - c]
<1>7. y = [x EXCEPT !.time_lost = times, !.in_flight_count = count, !.bytes_in_flight = @ - a]
  BY DEF MarkLost, times
<1>9. count \in [Epochs -> Int] /\ x.bytes_in_flight - a \in Int
  BY <1>1, <1>6
<1> HIDE DEF a, c, count
<1>8. /\ y.time_sent = x.time_sent /\ y.time_lost = times /\ y.acked = x.acked
      /\ y.loss_timer = x.loss_timer /\ y.last_ae = x.last_ae
      /\ y.est = x.est /\ y.pto_count = x.pto_count
      /\ y.bytes_in_flight = x.bytes_in_flight - a
      /\ y.in_flight_count = count
      /\ y.loss_time = x.loss_time /\ y.largest_acked = x.largest_acked
      /\ y.loss_probes = x.loss_probes
  BY <1>1, <1>7 DEF Recoveries
<1>10. y \in Recoveries
  BY <1>1, <1>5, <1>6, <1>7, <1>9 DEF Recoveries
<1> HIDE DEF y
<1>11. Listed(y)
  BY <1>3, <1>5, <1>8, <1>10 DEF Listed
<1>12. Unresolved(y) = Unresolved(x) \ lost
  BY <1>5, <1>8 DEF Unresolved
<1>13. ASSUME NEW n \in Int,
              Counted(Unresolved(x), x.bytes_in_flight, x.in_flight_count, n)
       PROVE  Counted(Unresolved(y), y.bytes_in_flight, y.in_flight_count, n)
  <2>1. Counted(Unresolved(x) \ lost, x.bytes_in_flight, y.in_flight_count, n + a)
    BY <1>1, <1>3, <1>8, <1>13, Uncount DEF a, c, count
  <2>2. x.bytes_in_flight = Cardinality(Eliciting(Unresolved(x) \ lost)) + (n + a)
    BY <2>1 DEF Counted
  <2>3. Cardinality(Eliciting(Unresolved(x) \ lost)) \in Nat
    <3>1. IsFiniteSet(Eliciting(Unresolved(x) \ lost))
      BY <1>3, FS_Subset DEF Eliciting
    <3> QED
      BY <3>1, FS_CardinalityType
  <2>4. y.bytes_in_flight = Cardinality(Eliciting(Unresolved(x) \ lost)) + n
    BY <2>2, <2>3, <1>6, <1>8
  <2> QED
    BY <2>1, <2>4, <1>12 DEF Counted
<1> QED
  BY <1>8, <1>11, <1>12, <1>13 DEF y, SameTimer

\* The largest acked packet, or 0.
LEMMA LargestType ==
    ASSUME NEW x, Listed(x), NEW e \in Epochs
    PROVE  unwrap_or(x.largest_acked[e], 0) \in Nat
<1>1. x.largest_acked[e] \subseteq Nat
  BY DEF Listed, Recoveries, Options
<1> QED
  BY <1>1 DEF unwrap_or

\* Packets of the list keep their types.
LEMMA SentType ==
    ASSUME NEW x, Listed(x)
    PROVE  /\ \A p \in DOMAIN x.time_sent : x.time_sent[p] \in Int /\ p.pn \in Nat /\ p.e \in Epochs
           /\ x.est \in Rtts /\ x.est.loss_delay \in Nat /\ x.est.pto \in Nat
           /\ x.est.loss_delay <= Longest.loss_delay
           /\ Longest.loss_delay \in Nat
<1>1. x.time_sent \in Times /\ x.est \in Rtts
  BY DEF Listed, Recoveries
<1>2. DOMAIN x.time_sent \subseteq Packets /\ x.time_sent \in [DOMAIN x.time_sent -> Int]
  BY <1>1 DEF Times
<1> QED
  BY <1>1, <1>2, RecoveryAssumption DEF Packets

\* The loss of packets leaves a loss time of the first one that may still be lost.
LEMMA DetectSpec ==
    ASSUME NEW x, Listed(x), Ordered(x), NEW e \in Epochs
    PROVE  LET y == detect_lost_packets(x, e)
               lost == LostPackets(x, e)
           IN /\ Listed(y) /\ Thins(x, y) /\ SameTimer(x, y)
              /\ lost \subseteq {p \in Unresolved(x) : p.e = e}
              /\ Unresolved(y) = Unresolved(x) \ lost
              /\ \A n \in Int :
                   Counted(Unresolved(x), x.bytes_in_flight, x.in_flight_count, n) =>
                   Counted(Unresolved(y), y.bytes_in_flight, y.in_flight_count, n)
              /\ y.largest_acked = x.largest_acked /\ y.loss_probes = x.loss_probes
              /\ \A f \in Epochs : f # e => y.loss_time[f] = x.loss_time[f]
              /\ Sent(x, e) = {} => y.loss_time[e] = {}
              /\ e = App => LossTimed(y)
              /\ lost = {} /\ Suspects(x, e) # {} =>
                   y.loss_time[e] # {} /\ \A t \in y.loss_time[e] : t > 0
<1> DEFINE y == detect_lost_packets(x, e)
           lost == LostPackets(x, e)
           largest == unwrap_or(x.largest_acked[e], 0)
           rest == Suspects(x, e) \ lost
           first == {p \in rest : \A q \in rest : p.pn <= q.pn}
           times == {x.time_sent[p] + x.est.loss_delay : p \in first}
           m == MarkLost(x, e, lost)
           w == [m EXCEPT !.loss_time[e] = times]
<1>1. Suspects(x, e) = {p \in Unresolved(x) : p.e = e /\ p.pn <= largest}
  BY SuspectsAre
<1>2. lost \subseteq Suspects(x, e) /\ lost \subseteq {p \in Unresolved(x) : p.e = e}
  BY <1>1 DEF LostPackets
<1>3. /\ Unresolved(x) \subseteq DOMAIN x.time_sent
      /\ \A p \in DOMAIN x.time_sent : x.time_sent[p] \in Int /\ p.pn \in Nat /\ p.e \in Epochs
      /\ largest \in Nat /\ x.est.loss_delay \in Nat /\ Longest.loss_delay \in Nat
      /\ x.est.loss_delay <= Longest.loss_delay
  BY UnresolvedFinite, SentType, LargestType
<1>4. first \subseteq rest /\ rest \subseteq DOMAIN x.time_sent
  BY <1>1, <1>3
<1>5. times \subseteq Int
  BY <1>3, <1>4
<1> HIDE DEF times, m
<1>6. /\ Listed(m) /\ SameTimer(x, m)
      /\ m.time_sent = x.time_sent
      /\ Unresolved(m) = Unresolved(x) \ lost
      /\ \A n \in Int :
           Counted(Unresolved(x), x.bytes_in_flight, x.in_flight_count, n) =>
           Counted(Unresolved(m), m.bytes_in_flight, m.in_flight_count, n)
      /\ m.loss_time = x.loss_time /\ m.largest_acked = x.largest_acked
      /\ m.loss_probes = x.loss_probes
  BY <1>2, MarkLostSpec DEF m
<1>7. m \in Recoveries /\ m.loss_time \in [Epochs -> SUBSET Int]
  BY <1>6 DEF Listed, Recoveries
<1> DEFINE table == [m.loss_time EXCEPT ![e] = times]
<1>8. table \in [Epochs -> SUBSET Int] /\ w = [m EXCEPT !.loss_time = table]
  BY <1>5, <1>7
<1>9. /\ table[e] = times
      /\ \A f \in Epochs : f # e => table[f] = x.loss_time[f]
  BY <1>6, <1>7
<1> HIDE DEF table, w
<1>10. /\ w \in Recoveries /\ w.loss_time = table
       /\ w.time_sent = m.time_sent /\ w.time_lost = m.time_lost /\ w.acked = m.acked
       /\ w.loss_timer = m.loss_timer /\ w.last_ae = m.last_ae
       /\ w.est = m.est /\ w.pto_count = m.pto_count
       /\ w.bytes_in_flight = m.bytes_in_flight /\ w.in_flight_count = m.in_flight_count
       /\ w.largest_acked = m.largest_acked /\ w.loss_probes = m.loss_probes
  BY <1>7, <1>8 DEF Recoveries
<1>11. Listed(w) /\ Unresolved(w) = Unresolved(m)
  BY <1>6, <1>10 DEF Listed, Unresolved
<1>12. y = drain_acked_and_lost_packets(w, e)
  BY DEF detect_lost_packets, w, times, m
<1> HIDE DEF y
<1>13. /\ Listed(y) /\ Thins(w, y) /\ SameTimer(w, y) /\ SameCounts(w, y)
       /\ Unresolved(y) = Unresolved(w)
       /\ y.loss_time = w.loss_time /\ y.largest_acked = w.largest_acked
       /\ y.loss_probes = w.loss_probes
  BY <1>11, <1>12, DrainSpec
<1>14. Thins(x, y) /\ SameTimer(x, y)
  BY <1>6, <1>10, <1>13 DEF Thins, SameTimer
<1>15. Unresolved(y) = Unresolved(x) \ lost
  BY <1>6, <1>11, <1>13
<1>16. ASSUME NEW n \in Int,
              Counted(Unresolved(x), x.bytes_in_flight, x.in_flight_count, n)
       PROVE  Counted(Unresolved(y), y.bytes_in_flight, y.in_flight_count, n)
  BY <1>6, <1>10, <1>11, <1>13, <1>16 DEF SameCounts
<1>17. y.largest_acked = x.largest_acked /\ y.loss_probes = x.loss_probes
  BY <1>6, <1>10, <1>13
<1>18. y.loss_time[e] = times /\ \A f \in Epochs : f # e => y.loss_time[f] = x.loss_time[f]
  BY <1>9, <1>10, <1>13
<1>19. ASSUME Sent(x, e) = {} PROVE y.loss_time[e] = {}
  <2>1. Suspects(x, e) = {}
    BY <1>19 DEF Suspects
  <2> QED
    BY <2>1, <1>18 DEF times
<1>20. ASSUME e = App PROVE LossTimed(y)
  <2> SUFFICES ASSUME NEW t \in times
               PROVE  Suspects(y, App) # {} /\ InTime(t, Unresolved(y), y.time_sent)
    BY <1>18, <1>20 DEF LossTimed
  <2>1. PICK p \in first : t = x.time_sent[p] + x.est.loss_delay
    BY DEF times
  <2>2. p \in Unresolved(x) \ lost /\ p.e = App /\ p.pn <= largest
    BY <1>1, <1>20
  <2>3. p \in Suspects(y, App)
    BY <2>2, <1>15, <1>17, <1>20, SuspectsAre
  <2>4. x.time_sent[p] <= 0
    BY <2>2, <1>3 DEF Ordered
  <2>5. t \in Int /\ t <= Longest.loss_delay
    BY <2>1, <2>2, <2>4, <1>3
  <2>6. ASSUME NEW q \in Outstanding(Unresolved(y))
        PROVE  t <= y.time_sent[q] + Longest.loss_delay
    <3>1. q \in Unresolved(x) \ lost /\ q.e = App
      BY <1>15 DEF Outstanding, Eliciting
    <3>2. q \in DOMAIN x.time_sent /\ y.time_sent[q] = x.time_sent[q]
      BY <1>3, <1>13, <1>14, <3>1, UnresolvedFinite DEF Thins, Outstanding, Eliciting
    <3>3. p.pn <= q.pn
      <4>1. CASE q.pn <= largest
        <5>1. q \in rest
          BY <4>1, <3>1, <1>1, <1>20
        <5> QED
          BY <5>1
      <4>2. CASE ~(q.pn <= largest)
        BY <4>2, <2>2, <3>2, <1>3
      <4> QED
        BY <4>1, <4>2
    <3>4. x.time_sent[p] <= x.time_sent[q]
      BY <2>2, <3>1, <3>2, <3>3, <1>3 DEF Ordered
    <3> QED
      BY <2>1, <2>2, <3>2, <3>4, <1>3
  <2> QED
    BY <2>3, <2>5, <2>6 DEF InTime
<1>21. ASSUME lost = {}, Suspects(x, e) # {}
       PROVE  y.loss_time[e] # {} /\ \A t \in y.loss_time[e] : t > 0
  <2>1. first # {}
    <3> DEFINE numbers == {p.pn : p \in rest}
    <3>1. numbers \subseteq Nat /\ numbers # {}
      BY <1>3, <1>4, <1>21
    <3>2. PICK n \in numbers : \A k \in numbers : n <= k
      BY <3>1, SmallestOf
    <3> QED
      BY <3>2
  <2>2. ASSUME NEW p \in first PROVE x.time_sent[p] + x.est.loss_delay > 0
    <3>1. p \in Suspects(x, e) /\ p \notin lost
      OBVIOUS
    <3>2. PICK q \in Suspects(x, e) : q.pn <= p.pn /\ ~Overdue(x, q, largest)
      BY <3>1 DEF LostPackets
    <3>3. q \in rest /\ p.pn <= q.pn
      BY <1>21, <3>2
    <3>4. p \in DOMAIN x.time_sent /\ q \in DOMAIN x.time_sent /\ p.e = q.e
      BY <3>1, <3>2, <1>1, <1>3
    <3>5. x.time_sent[q] <= x.time_sent[p]
      BY <3>2, <3>4 DEF Ordered
    <3>6. ~(x.time_sent[q] <= -x.est.loss_delay)
      BY <3>2 DEF Overdue
    <3> QED
      BY <3>4, <3>5, <3>6, <1>3
  <2> QED
    BY <2>1, <2>2, <1>18 DEF times
<1> HIDE DEF lost
<1> QED
  BY <1>2, <1>13, <1>14, <1>15, <1>16, <1>17, <1>18, <1>19, <1>20, <1>21 DEF y, lost

-----------------------------------------------------------------------------
(* The timer.                                                                 *)

Deadlines == [time : SUBSET Int, e : Epochs]
Statuses == [space : Epochs, completed : BOOLEAN, verified : BOOLEAN]

\* The status of the handshake that the timer is set with.
LEMMA StatusType ==
    ASSUME NEW k, NEW done \in BOOLEAN, NEW verified \in BOOLEAN
    PROVE  /\ handshake_status(k, done, verified) \in Statuses
           /\ handshake_status(k, done, verified).completed = done
BY DEF handshake_status, Statuses, Epochs

\* The best candidate so far, or the new one.
LEMMA EarlierType ==
    ASSUME NEW best \in Deadlines, NEW time \in SUBSET Int, NEW e \in Epochs
    PROVE  /\ Earlier(best, time, e) \in Deadlines
           /\ best.time = {} => Earlier(best, time, e) = [time |-> time, e |-> e]
<1>1. [time |-> time, e |-> e] \in Deadlines
  BY DEF Deadlines
<1> QED
  BY <1>1 DEF Earlier

\* The earliest loss time, which is the 1-RTT one when the others are None.
LEMMA LossTimeSpec ==
    ASSUME NEW x \in Recoveries
    PROVE  /\ loss_time_and_space(x) \in Deadlines
           /\ (\A e \in Early : x.loss_time[e] = {}) =>
                loss_time_and_space(x) = [time |-> x.loss_time[App], e |-> App]
<1> DEFINE a == [time |-> x.loss_time["Initial"], e |-> "Initial"]
           b == Earlier(a, x.loss_time["Handshake"], "Handshake")
           c == Earlier(b, x.loss_time[App], App)
<1>1. /\ "Initial" \in Epochs /\ "Handshake" \in Epochs /\ App \in Epochs
      /\ \A e \in Epochs : x.loss_time[e] \in SUBSET Int
  BY DEF Epochs, App, Recoveries
<1>2. a \in Deadlines
  BY <1>1 DEF Deadlines
<1> HIDE DEF a
<1>3. b \in Deadlines /\ (a.time = {} => b = [time |-> x.loss_time["Handshake"], e |-> "Handshake"])
  BY <1>1, <1>2, EarlierType
<1> HIDE DEF b
<1>4. c \in Deadlines /\ (b.time = {} => c = [time |-> x.loss_time[App], e |-> App])
  BY <1>1, <1>3, EarlierType
<1> HIDE DEF c
<1>5. loss_time_and_space(x) = c
  BY DEF loss_time_and_space, a, b, c, App
<1>6. ASSUME \A e \in Early : x.loss_time[e] = {} PROVE c = [time |-> x.loss_time[App], e |-> App]
  <2>1. a.time = {} /\ x.loss_time["Handshake"] = {}
    BY <1>6 DEF Early, a
  <2>2. b.time = {}
    BY <2>1, <1>3
  <2> QED
    BY <2>2, <1>4
<1> QED
  BY <1>4, <1>5, <1>6

\* The probe timeout after the last 1-RTT packet that elicits an ack.
ProbeTime(x) == Add(x.last_ae[App], (x.est.pto + MaxAckDelay) * Backoff(x))

\* The estimate and the backoff are integers.
LEMMA EstType ==
    ASSUME NEW x \in Recoveries
    PROVE  /\ x.est.pto \in Nat /\ Backoff(x) \in Int /\ MaxAckDelay \in Nat
           /\ \A e \in Epochs : x.last_ae[e] \in SUBSET Int /\ x.in_flight_count[e] \in Int
<1>1. x.est \in Rtts /\ x.pto_count \in Nat
  BY DEF Recoveries
<1> QED
  BY <1>1, RecoveryAssumption DEF Backoff, Recoveries

\* The probe timeout of a completed handshake with only 1-RTT packets in flight.
LEMMA ProbeTimeSpec ==
    ASSUME NEW x \in Recoveries, NEW hs \in Statuses
    PROVE  /\ pto_time_and_space(x, hs) \in Deadlines
           /\ /\ hs.completed /\ x.bytes_in_flight # 0 /\ x.in_flight_count[App] # 0
              /\ \A e \in Early : x.in_flight_count[e] = 0
              => pto_time_and_space(x, hs) = [time |-> ProbeTime(x), e |-> App]
<1> DEFINE d == x.est.pto * Backoff(x)
           Turn(best, e, delay) ==
               IF x.in_flight_count[e] = 0 THEN best
               ELSE Earlier(best, Add(x.last_ae[e], delay), e)
           none == [time |-> {}, e |-> "Initial"]
           one == Turn(none, "Initial", d)
           early == Turn(one, "Handshake", d)
           all == Turn(early, App, d + MaxAckDelay * Backoff(x))
           p == pto_time_and_space(x, hs)
<1>1. /\ "Initial" \in Epochs /\ "Handshake" \in Epochs /\ App \in Epochs
      /\ d \in Int /\ d + MaxAckDelay * Backoff(x) \in Int
      /\ d + MaxAckDelay * Backoff(x) = (x.est.pto + MaxAckDelay) * Backoff(x)
  BY EstType DEF Epochs, App
<1>2. ASSUME NEW best \in Deadlines, NEW e \in Epochs, NEW delay \in Int
      PROVE  Turn(best, e, delay) \in Deadlines
  <2>1. Add(x.last_ae[e], delay) \in SUBSET Int
    BY EstType DEF Add
  <2> QED
    BY <2>1, EarlierType
<1>3. none \in Deadlines
  BY <1>1 DEF Deadlines
<1>4. one \in Deadlines /\ early \in Deadlines /\ all \in Deadlines
  <2> HIDE DEF Turn, d
  <2>1. one \in Deadlines
    BY <1>1, <1>2, <1>3
  <2>2. early \in Deadlines
    BY <2>1, <1>1, <1>2
  <2> QED
    BY <2>1, <2>2, <1>1, <1>2
<1>5. p = CASE x.bytes_in_flight = 0 -> [time |-> {d}, e |-> hs.space]
            [] x.bytes_in_flight # 0 /\ hs.completed -> all
            [] OTHER -> early
  BY DEF pto_time_and_space, App
<1>6. [time |-> {d}, e |-> hs.space] \in Deadlines
  BY <1>1 DEF Deadlines, Statuses
<1>7. p \in Deadlines
  <2> HIDE DEF p, all, early, d
  <2>1. p = [time |-> {d}, e |-> hs.space] \/ p = all \/ p = early
    BY <1>5
  <2> QED
    BY <2>1, <1>4, <1>6
<1>8. ASSUME hs.completed, x.bytes_in_flight # 0, x.in_flight_count[App] # 0,
             \A e \in Early : x.in_flight_count[e] = 0
      PROVE  p = [time |-> ProbeTime(x), e |-> App]
  <2>1. p = all
    <3> HIDE DEF p, all, early, d
    <3> QED BY <1>5, <1>8
  <2>2. early = none
    BY <1>8 DEF Early
  <2>3. all = Earlier(none, Add(x.last_ae[App], d + MaxAckDelay * Backoff(x)), App)
    BY <1>8, <2>2
  <2>4. all = [time |-> Add(x.last_ae[App], d + MaxAckDelay * Backoff(x)), e |-> App]
    BY <2>3 DEF Earlier
  <2> QED
    BY <2>1, <2>4, <1>1 DEF ProbeTime
<1> QED
  BY <1>7, <1>8

\* An instant that is past becomes now.
LEMMA DueSpec ==
    ASSUME NEW opt \in SUBSET Int
    PROVE  /\ Due(opt) \in SUBSET Int
           /\ opt # {} => Due(opt) # {}
           /\ \A t \in Due(opt) : t = 0 \/ (t > 0 /\ t \in opt)
<1>1. \A t \in opt : Max({t, 0}) = IF t <= 0 THEN 0 ELSE t
  BY OfTwo
<1>2. ASSUME NEW d \in Due(opt) PROVE d \in Int /\ (d = 0 \/ (d > 0 /\ d \in opt))
  <2>1. PICK t \in opt : d = Max({t, 0})
    BY DEF Due
  <2> QED
    BY <2>1, <1>1
<1>3. opt # {} => Due(opt) # {}
  BY DEF Due
<1> QED
  BY <1>2, <1>3

\* Setting the timer only sets the timer; with 1-RTT packets outstanding after a
\* completed handshake, to the loss time of the space or to its probe timeout.
LEMMA SetTimerSpec ==
    ASSUME NEW x \in Recoveries, NEW hs \in Statuses
    PROVE  LET y == set_loss_detection_timer(x, hs)
           IN /\ y \in Recoveries /\ y = [x EXCEPT !.loss_timer = y.loss_timer]
              /\ /\ hs.completed /\ x.bytes_in_flight # 0 /\ x.in_flight_count[App] # 0
                 /\ \A e \in Early : x.in_flight_count[e] = 0 /\ x.loss_time[e] = {}
                 /\ x.last_ae[App] # {}
                 => y.loss_timer = Due(IF x.loss_time[App] # {} THEN x.loss_time[App]
                                       ELSE ProbeTime(x))
<1> DEFINE y == set_loss_detection_timer(x, hs)
           earliest == loss_time_and_space(x).time
           pto == pto_time_and_space(x, hs).time
<1>1. earliest \in SUBSET Int /\ pto \in SUBSET Int
  BY LossTimeSpec, ProbeTimeSpec DEF Deadlines
<1>2. Due(earliest) \in SUBSET Int /\ Due(pto) \in SUBSET Int
  BY <1>1, DueSpec
<1> HIDE DEF earliest, pto
<1>3. y = CASE earliest # {} -> [x EXCEPT !.loss_timer = Due(earliest)]
            [] earliest = {} /\ x.bytes_in_flight = 0 /\ hs.verified ->
                 [x EXCEPT !.loss_timer = {}]
            [] OTHER -> [x EXCEPT !.loss_timer = IF pto = {} THEN @ ELSE Due(pto)]
  BY DEF set_loss_detection_timer, earliest, pto
<1>4. \E s \in SUBSET Int : y = [x EXCEPT !.loss_timer = s]
  <2>1. x.loss_timer \in SUBSET Int
    BY DEF Recoveries
  <2>2. CASE earliest # {}
    BY <1>2, <1>3, <2>2
  <2>3. CASE earliest = {} /\ x.bytes_in_flight = 0 /\ hs.verified
    BY <1>3, <2>3
  <2>4. CASE earliest = {} /\ ~(x.bytes_in_flight = 0 /\ hs.verified)
    <3>1. y = [x EXCEPT !.loss_timer = IF pto = {} THEN x.loss_timer ELSE Due(pto)]
      BY <1>3, <2>4
    <3> QED
      BY <3>1, <2>1, <1>2
  <2> QED
    BY <2>2, <2>3, <2>4
<1>5. y \in Recoveries /\ y = [x EXCEPT !.loss_timer = y.loss_timer]
  BY <1>4 DEF Recoveries
<1>6. ASSUME hs.completed, x.bytes_in_flight # 0, x.in_flight_count[App] # 0,
             \A e \in Early : x.in_flight_count[e] = 0 /\ x.loss_time[e] = {},
             x.last_ae[App] # {}
      PROVE  y.loss_timer = Due(IF x.loss_time[App] # {} THEN x.loss_time[App] ELSE ProbeTime(x))
  <2>1. earliest = x.loss_time[App] /\ pto = ProbeTime(x)
    BY <1>6, LossTimeSpec, ProbeTimeSpec DEF earliest, pto
  <2>2. ProbeTime(x) # {}
    BY <1>6 DEF ProbeTime, Add
  <2>3. CASE x.loss_time[App] # {}
    <3>1. y = [x EXCEPT !.loss_timer = Due(earliest)]
      BY <1>3, <2>1, <2>3
    <3> QED
      BY <3>1, <2>1, <2>3 DEF Recoveries
  <2>4. CASE x.loss_time[App] = {}
    <3>1. y = [x EXCEPT !.loss_timer = Due(pto)]
      BY <1>3, <1>6, <2>1, <2>2, <2>4
    <3> QED
      BY <3>1, <2>1, <2>4 DEF Recoveries
  <2> QED
    BY <2>3, <2>4
<1> QED
  BY <1>5, <1>6

\* The timer of x is armed in time for the 1-RTT packets among U.
Armed(x, U, sent) ==
    \E t \in x.loss_timer :
      \/ t <= 0
      \/ \E u \in ProbeTime(x) : t <= u
      \/ \A p \in Outstanding(U) : t <= sent[p] + Longest.loss_delay

\* Setting it with only 1-RTT packets counted, some of them eliciting, arms it in time.
LEMMA SetTimerArms ==
    ASSUME NEW x \in Recoveries, NEW hs \in Statuses, hs.completed,
           NEW U, IsFiniteSet(U), NEW sent,
           Counted(U, x.bytes_in_flight, x.in_flight_count, 0),
           \A p \in U : p.e = App, Outstanding(U) # {},
           \A e \in Early : x.loss_time[e] = {},
           x.last_ae[App] # {},
           \A t \in x.loss_time[App] : InTime(t, U, sent)
    PROVE  Armed(set_loss_detection_timer(x, hs), U, sent)
<1> DEFINE y == set_loss_detection_timer(x, hs)
<1>1. x.bytes_in_flight # 0
  <2>1. IsFiniteSet(Eliciting(U)) /\ Eliciting(U) # {}
    BY FS_Subset DEF Outstanding, Eliciting
  <2>2. Cardinality(Eliciting(U)) \in Nat \ {0}
    BY <2>1, FS_EmptySet, FS_CardinalityType
  <2> QED
    BY <2>2 DEF Counted
<1>2. x.in_flight_count[App] # 0
  <2> DEFINE mine == InFlight({p \in U : p.e = App})
  <2>1. IsFiniteSet(mine) /\ mine # {}
    BY FS_Subset DEF Outstanding, Eliciting, InFlight, ack_eliciting, in_flight
  <2>2. Cardinality(mine) \in Nat \ {0}
    BY <2>1, FS_EmptySet, FS_CardinalityType
  <2> QED
    BY <2>2 DEF Counted, Epochs, App
<1>3. ASSUME NEW e \in Early PROVE x.in_flight_count[e] = 0
  <2>1. e \in Epochs /\ InFlight({p \in U : p.e = e}) = {}
    BY DEF Early, Epochs, App, InFlight
  <2> QED
    BY <2>1, FS_EmptySet DEF Counted
<1>4. /\ y \in Recoveries /\ y = [x EXCEPT !.loss_timer = y.loss_timer]
      /\ y.loss_timer = Due(IF x.loss_time[App] # {} THEN x.loss_time[App] ELSE ProbeTime(x))
  BY <1>1, <1>2, <1>3, SetTimerSpec
<1>5. y.last_ae = x.last_ae /\ y.est = x.est /\ y.pto_count = x.pto_count
  BY <1>4 DEF Recoveries
<1>6. ProbeTime(y) = ProbeTime(x)
  BY <1>5 DEF ProbeTime, Backoff
<1>7. x.loss_time[App] \in SUBSET Int /\ ProbeTime(x) \in SUBSET Int /\ ProbeTime(x) # {}
  <2>1. App \in Epochs /\ (x.est.pto + MaxAckDelay) * Backoff(x) \in Int
    BY EstType DEF App, Epochs
  <2>2. x.loss_time[App] \in SUBSET Int /\ x.last_ae[App] \in SUBSET Int
    BY <2>1 DEF Recoveries
  <2> QED
    BY <2>1, <2>2 DEF ProbeTime, Add
<1> HIDE DEF y
<1>8. CASE x.loss_time[App] # {}
  <2>1. PICK t \in Due(x.loss_time[App]) : t = 0 \/ t \in x.loss_time[App]
    BY <1>7, <1>8, DueSpec
  <2>2. t \in y.loss_timer /\ t \in Int
    BY <1>4, <1>7, <1>8, <2>1
  <2>3. t <= 0 \/ \A p \in Outstanding(U) : t <= sent[p] + Longest.loss_delay
    BY <2>1, <2>2 DEF InTime
  <2> QED
    BY <2>2, <2>3 DEF Armed, y
<1>9. CASE x.loss_time[App] = {}
  <2>1. PICK t \in Due(ProbeTime(x)) : t = 0 \/ t \in ProbeTime(x)
    BY <1>7, DueSpec
  <2>2. t \in y.loss_timer /\ t \in Int
    BY <1>4, <1>7, <1>9, <2>1
  <2>3. t <= 0 \/ \E u \in ProbeTime(y) : t <= u
    BY <2>1, <2>2, <1>6
  <2> QED
    BY <2>2, <2>3 DEF Armed, y
<1> QED
  BY <1>8, <1>9

-----------------------------------------------------------------------------
(* What every operation keeps.                                                *)

\* What holds of the Recovery between any two steps of a handler.
Sound(x, next) ==
    /\ Listed(x) /\ Numbered(x, next) /\ Ordered(x)
    /\ LossTimed(x) /\ ProbeTimed(x)
    /\ Counted(Unresolved(x), x.bytes_in_flight, x.in_flight_count, 0)

\* The timer is armed if 1-RTT packets are outstanding.
ArmedFor(x) ==
    Outstanding(Unresolved(x)) # {} => Armed(x, Unresolved(x), x.time_sent)

\* Only 1-RTT packets are left.
OnlyApp(x) == \A e \in Early : Cleared(x, e)

\* y has the packets, times and counts of x.
SameList(x, y) ==
    /\ y.time_sent = x.time_sent /\ y.time_lost = x.time_lost /\ y.acked = x.acked
    /\ y.largest_acked = x.largest_acked /\ y.loss_time = x.loss_time
    /\ y.last_ae = x.last_ae /\ SameCounts(x, y)

\* What does not touch the list keeps the Recovery sound.
LEMMA SameSound ==
    ASSUME NEW x, NEW next, Sound(x, next), NEW y \in Recoveries, SameList(x, y)
    PROVE  /\ Sound(y, next) /\ Unresolved(y) = Unresolved(x)
           /\ \A e \in Epochs : Cleared(y, e) <=> Cleared(x, e)
           /\ SameTimer(x, y) /\ ArmedFor(x) => ArmedFor(y)
<1>1. Unresolved(y) = Unresolved(x)
  BY DEF Unresolved, SameList
<1>2. Listed(y) /\ Numbered(y, next) /\ Ordered(y)
  BY DEF Sound, SameList, Listed, Numbered, Ordered
<1>3. Suspects(y, App) = Suspects(x, App)
  BY <1>1, SuspectsAre DEF SameList
<1>4. LossTimed(y) /\ ProbeTimed(y)
  BY <1>1, <1>3 DEF Sound, SameList, LossTimed, ProbeTimed
<1>5. Counted(Unresolved(y), y.bytes_in_flight, y.in_flight_count, 0)
  BY <1>1 DEF Sound, SameList, SameCounts
<1>6. \A e \in Epochs : Cleared(y, e) <=> Cleared(x, e)
  BY DEF Cleared, Sent, SameList
<1>7. SameTimer(x, y) /\ ArmedFor(x) => ArmedFor(y)
  BY <1>1 DEF SameTimer, SameList, ArmedFor, Armed, ProbeTime, Backoff
<1> QED
  BY <1>1, <1>2, <1>4, <1>5, <1>6, <1>7 DEF Sound

\* A list with fewer packets is as well numbered, ordered and timed.
LEMMA Thinner ==
    ASSUME NEW x, Listed(x), NEW y, Listed(y), Thins(x, y), Unresolved(y) \subseteq Unresolved(x)
    PROVE  /\ \A next : Numbered(x, next) => Numbered(y, next)
           /\ Ordered(x) => Ordered(y)
           /\ Outstanding(Unresolved(y)) \subseteq Outstanding(Unresolved(x))
           /\ \A t : InTime(t, Unresolved(x), x.time_sent) => InTime(t, Unresolved(y), y.time_sent)
           /\ y.last_ae[App] = x.last_ae[App] /\ ProbeTimed(x) => ProbeTimed(y)
           /\ SameTimer(x, y) /\ ArmedFor(x) => ArmedFor(y)
           /\ \A e : Sent(y, e) \subseteq Sent(x, e)
<1>1. /\ Outstanding(Unresolved(y)) \subseteq Outstanding(Unresolved(x))
      /\ Outstanding(Unresolved(y)) \subseteq DOMAIN y.time_sent
  BY UnresolvedFinite DEF Outstanding, Eliciting
<1>2. \A next : Numbered(x, next) => Numbered(y, next)
  BY DEF Thins, Numbered
<1>3. Ordered(x) => Ordered(y)
  BY DEF Thins, Ordered
<1>4. \A p \in Outstanding(Unresolved(y)) : y.time_sent[p] = x.time_sent[p]
  BY <1>1 DEF Thins
<1>5. \A t : InTime(t, Unresolved(x), x.time_sent) => InTime(t, Unresolved(y), y.time_sent)
  BY <1>1, <1>4 DEF InTime
<1>6. y.last_ae[App] = x.last_ae[App] /\ ProbeTimed(x) => ProbeTimed(y)
  BY <1>1 DEF ProbeTimed
<1>7. SameTimer(x, y) /\ ArmedFor(x) => ArmedFor(y)
  BY <1>1, <1>4 DEF SameTimer, ArmedFor, Armed, ProbeTime, Backoff
<1>8. \A e : Sent(y, e) \subseteq Sent(x, e)
  BY DEF Sent, Thins
<1> QED
  BY <1>1, <1>2, <1>3, <1>5, <1>6, <1>7, <1>8

\* With only 1-RTT packets left, those unresolved are in that space.
LEMMA OnlyAppUnresolved ==
    ASSUME NEW x, Listed(x), OnlyApp(x)
    PROVE  \A p \in Unresolved(x) : p.e = App
<1>1. \A p \in Unresolved(x) : p \in DOMAIN x.time_sent /\ p.e \in Epochs
  BY UnresolvedFinite, SentType
<1> QED
  BY <1>1 DEF OnlyApp, Cleared, Sent, Early, Epochs, App

\* Setting the timer keeps the Recovery sound, and arms the timer once the handshake
\* has completed and only 1-RTT packets are left.
LEMMA SetTimerSound ==
    ASSUME NEW x, NEW next, Sound(x, next), NEW hs \in Statuses
    PROVE  LET y == set_loss_detection_timer(x, hs)
           IN /\ Sound(y, next) /\ Unresolved(y) = Unresolved(x)
              /\ \A e \in Epochs : Cleared(y, e) <=> Cleared(x, e)
              /\ hs.completed /\ OnlyApp(x) => ArmedFor(y)
              /\ y = [x EXCEPT !.loss_timer = y.loss_timer]
<1> DEFINE y == set_loss_detection_timer(x, hs)
<1>1. x \in Recoveries /\ Listed(x)
  BY DEF Sound, Listed
<1>2. y \in Recoveries /\ y = [x EXCEPT !.loss_timer = y.loss_timer]
  BY <1>1, SetTimerSpec
<1> HIDE DEF y
<1>3. SameList(x, y)
  BY <1>1, <1>2 DEF SameList, SameCounts, Recoveries
<1>4. /\ Sound(y, next) /\ Unresolved(y) = Unresolved(x)
      /\ \A e \in Epochs : Cleared(y, e) <=> Cleared(x, e)
  BY <1>2, <1>3, SameSound
<1>5. ASSUME hs.completed, OnlyApp(x), Outstanding(Unresolved(x)) # {}
      PROVE  Armed(y, Unresolved(x), x.time_sent)
  <2>1. \A p \in Unresolved(x) : p.e = App
    BY <1>1, <1>5, OnlyAppUnresolved
  <2>2. /\ Counted(Unresolved(x), x.bytes_in_flight, x.in_flight_count, 0)
        /\ IsFiniteSet(Unresolved(x)) /\ x.last_ae[App] # {}
        /\ \A t \in x.loss_time[App] : InTime(t, Unresolved(x), x.time_sent)
        /\ \A e \in Early : x.loss_time[e] = {}
    BY <1>1, <1>5, UnresolvedFinite DEF Sound, ProbeTimed, LossTimed, OnlyApp, Cleared
  <2> QED
    BY <1>1, <1>5, <2>1, <2>2, SetTimerArms DEF y
<1>6. hs.completed /\ OnlyApp(x) => ArmedFor(y)
  <2>1. y.time_sent = x.time_sent
    BY <1>3 DEF SameList
  <2> QED
    BY <1>4, <1>5, <2>1 DEF ArmedFor
<1> QED
  BY <1>2, <1>4, <1>6 DEF y

\* Draining keeps the Recovery sound.
LEMMA DrainSound ==
    ASSUME NEW x, NEW next, Sound(x, next), NEW e \in Epochs
    PROVE  LET y == drain_acked_and_lost_packets(x, e)
           IN /\ Sound(y, next) /\ Unresolved(y) = Unresolved(x)
              /\ \A f \in Epochs : Cleared(x, f) => Cleared(y, f)
              /\ ArmedFor(x) => ArmedFor(y)
<1> DEFINE y == drain_acked_and_lost_packets(x, e)
<1>1. Listed(x)
  BY DEF Sound
<1>2. /\ Listed(y) /\ Thins(x, y) /\ SameTimer(x, y) /\ SameCounts(x, y)
      /\ Unresolved(y) = Unresolved(x)
      /\ y.loss_time = x.loss_time /\ y.largest_acked = x.largest_acked
  BY <1>1, DrainSpec
<1> HIDE DEF y
<1>3. /\ Numbered(y, next) /\ Ordered(y) /\ ProbeTimed(y)
      /\ \A t : InTime(t, Unresolved(x), x.time_sent) => InTime(t, Unresolved(y), y.time_sent)
      /\ ArmedFor(x) => ArmedFor(y)
      /\ \A f : Sent(y, f) \subseteq Sent(x, f)
  BY <1>1, <1>2, Thinner DEF Sound, SameTimer
<1>4. Suspects(y, App) = Suspects(x, App)
  BY <1>2, SuspectsAre
<1>5. LossTimed(y)
  BY <1>2, <1>3, <1>4 DEF LossTimed, Sound
<1>6. Counted(Unresolved(y), y.bytes_in_flight, y.in_flight_count, 0)
  BY <1>2 DEF Sound, SameCounts
<1>7. \A f \in Epochs : Cleared(x, f) => Cleared(y, f)
  BY <1>2, <1>3 DEF Cleared
<1> QED
  BY <1>2, <1>3, <1>5, <1>6, <1>7 DEF Sound, y

\* So does the loss of packets, which does not undo what the timer was set for.  What
\* is counted may for a while be off by n bytes.
LEMMA DetectSound ==
    ASSUME NEW x, NEW next, NEW n \in Int, NEW e \in Epochs,
           Listed(x), Numbered(x, next), Ordered(x), LossTimed(x) \/ e = App, ProbeTimed(x),
           Counted(Unresolved(x), x.bytes_in_flight, x.in_flight_count, n)
    PROVE  LET y == detect_lost_packets(x, e)
           IN /\ Listed(y) /\ Numbered(y, next) /\ Ordered(y) /\ LossTimed(y) /\ ProbeTimed(y)
              /\ Counted(Unresolved(y), y.bytes_in_flight, y.in_flight_count, n)
              /\ \A f \in Epochs : Cleared(x, f) => Cleared(y, f)
              /\ ArmedFor(x) => ArmedFor(y)
              /\ Unresolved(y) \subseteq Unresolved(x)
<1> DEFINE y == detect_lost_packets(x, e)
           lost == LostPackets(x, e)
<1>1. /\ Listed(y) /\ Thins(x, y) /\ SameTimer(x, y)
      /\ lost \subseteq {p \in Unresolved(x) : p.e = e}
      /\ Unresolved(y) = Unresolved(x) \ lost
      /\ Counted(Unresolved(y), y.bytes_in_flight, y.in_flight_count, n)
      /\ y.largest_acked = x.largest_acked
      /\ \A f \in Epochs : f # e => y.loss_time[f] = x.loss_time[f]
      /\ Sent(x, e) = {} => y.loss_time[e] = {}
      /\ e = App => LossTimed(y)
  BY DetectSpec
<1> HIDE DEF y, lost
<1>2. /\ Numbered(y, next) /\ Ordered(y) /\ ProbeTimed(y)
      /\ \A t : InTime(t, Unresolved(x), x.time_sent) => InTime(t, Unresolved(y), y.time_sent)
      /\ ArmedFor(x) => ArmedFor(y)
      /\ \A f : Sent(y, f) \subseteq Sent(x, f)
  BY <1>1, Thinner DEF SameTimer
<1>3. ASSUME e # App PROVE LossTimed(y)
  <2>1. Suspects(y, App) = Suspects(x, App)
    BY <1>1, <1>3, SuspectsAre
  <2>2. y.loss_time[App] = x.loss_time[App]
    BY <1>1, <1>3 DEF App, Epochs
  <2> QED
    BY <1>2, <1>3, <2>1, <2>2 DEF LossTimed
<1>4. \A f \in Epochs : Cleared(x, f) => Cleared(y, f)
  BY <1>1, <1>2 DEF Cleared
<1> QED
  BY <1>1, <1>2, <1>3, <1>4 DEF y

\* A space that ends takes its packets, its loss time and its counts with it.
LEMMA DiscardSound ==
    ASSUME NEW x, NEW next, Sound(x, next), NEW e \in Early, NEW hs \in Statuses
    PROVE  LET y == on_pkt_num_space_discarded(x, e, hs)
           IN /\ Sound(y, next) /\ Cleared(y, e)
              /\ \A f \in Epochs : Cleared(x, f) => Cleared(y, f)
              /\ hs.completed /\ (\A f \in Early : f = e \/ Cleared(x, f)) => ArmedFor(y)
<1> DEFINE mine == Sent(x, e)
           bytes == x.bytes_in_flight - Cardinality(Eliciting(mine \cap Unresolved(x)))
           sent == Restrict(x.time_sent, DOMAIN x.time_sent \ mine)
           lost == Restrict(x.time_lost, DOMAIN x.time_lost \ mine)
           ae == [x.last_ae EXCEPT ![e] = {}]
           times == [x.loss_time EXCEPT ![e] = {}]
           probes == [x.loss_probes EXCEPT ![e] = 0]
           count == [x.in_flight_count EXCEPT ![e] = 0]
           w == [x EXCEPT !.bytes_in_flight = bytes, !.time_sent = sent, !.time_lost = lost,
                          !.acked = @ \ mine, !.last_ae = ae, !.loss_time = times,
                          !.loss_probes = probes, !.in_flight_count = count]
           B == mine \cap Unresolved(x)
<1>1. on_pkt_num_space_discarded(x, e, hs) = set_loss_detection_timer(w, hs)
  BY DEF on_pkt_num_space_discarded
<1>2. /\ Listed(x) /\ x \in Recoveries /\ e \in Epochs /\ e # App /\ App \in Epochs
      /\ x.time_sent \in Times /\ x.time_lost \in Times
      /\ x.bytes_in_flight \in Int /\ x.in_flight_count \in [Epochs -> Int]
      /\ x.last_ae \in [Epochs -> SUBSET Int] /\ x.loss_time \in [Epochs -> SUBSET Int]
      /\ x.loss_probes \in [Epochs -> Nat]
  BY DEF Sound, Listed, Recoveries, Early, Epochs, App
<1>3. /\ sent \in Times /\ DOMAIN sent = DOMAIN x.time_sent \ mine
      /\ \A p \in DOMAIN sent : sent[p] = x.time_sent[p]
      /\ lost \in Times /\ DOMAIN lost = DOMAIN x.time_lost \ mine
  BY <1>2, RestrictTimes
<1>4. B = {p \in Unresolved(x) : p.e = e} /\ IsFiniteSet(Unresolved(x))
  BY <1>2, UnresolvedFinite DEF Sent
<1>5. Cardinality(Eliciting(B)) \in Nat
  <2>1. IsFiniteSet(Eliciting(B))
    BY <1>4, FS_Subset DEF Eliciting
  <2> QED
    BY <2>1, FS_CardinalityType
<1>6. /\ bytes \in Int /\ count \in [Epochs -> Int] /\ ae \in [Epochs -> SUBSET Int]
      /\ times \in [Epochs -> SUBSET Int] /\ probes \in [Epochs -> Nat]
  BY <1>2, <1>5
<1>7. /\ count[e] = 0 /\ \A f \in Epochs : f # e => count[f] = x.in_flight_count[f]
      /\ times[e] = {} /\ \A f \in Epochs : f # e => times[f] = x.loss_time[f]
      /\ ae[App] = x.last_ae[App]
  BY <1>2
<1> HIDE DEF bytes, sent, lost, ae, times, probes, count, w
<1>8. /\ w \in Recoveries
      /\ w.time_sent = sent /\ w.time_lost = lost /\ w.acked = x.acked \ mine
      /\ w.largest_acked = x.largest_acked /\ w.loss_time = times /\ w.last_ae = ae
      /\ w.bytes_in_flight = bytes /\ w.in_flight_count = count
  BY <1>2, <1>3, <1>6 DEF Recoveries, w
<1>9. Unresolved(w) = Unresolved(x) \ B
  BY <1>3, <1>8 DEF Unresolved
<1>10. Listed(w) /\ Thins(x, w)
  <2>1. IsFiniteSet(DOMAIN sent)
    BY <1>2, <1>3, FS_Subset DEF Listed
  <2> QED
    BY <2>1, <1>2, <1>3, <1>8 DEF Listed, Thins
<1>11. /\ Numbered(w, next) /\ Ordered(w) /\ ProbeTimed(w)
       /\ \A t : InTime(t, Unresolved(x), x.time_sent) => InTime(t, Unresolved(w), w.time_sent)
  BY <1>2, <1>7, <1>8, <1>9, <1>10, Thinner DEF Sound
<1>12. Suspects(w, App) = Suspects(x, App)
  BY <1>2, <1>4, <1>8, <1>9, SuspectsAre
<1>13. LossTimed(w)
  BY <1>2, <1>7, <1>8, <1>11, <1>12 DEF LossTimed, Sound
<1>14. Counted(Unresolved(w), w.bytes_in_flight, w.in_flight_count, 0)
  <2>1. Counted(Unresolved(x), x.bytes_in_flight, x.in_flight_count, 0)
    BY DEF Sound
  <2> DEFINE count2 == [x.in_flight_count EXCEPT ![e] = @ - Cardinality(InFlight(B))]
  <2>2. Counted(Unresolved(x) \ B, x.bytes_in_flight, count2, 0 + Cardinality(Eliciting(B)))
    BY <1>2, <1>4, <2>1, Uncount
  <2>3. Cardinality(Eliciting(Unresolved(x) \ B)) \in Nat
    <3>1. IsFiniteSet(Eliciting(Unresolved(x) \ B))
      BY <1>4, FS_Subset DEF Eliciting
    <3> QED
      BY <3>1, FS_CardinalityType
  <2>4. bytes = Cardinality(Eliciting(Unresolved(x) \ B)) + 0
    BY <2>2, <2>3, <1>2, <1>5 DEF Counted, bytes
  <2>5. InFlight({p \in Unresolved(x) \ B : p.e = e}) = {}
    BY <1>4 DEF InFlight
  <2>6. \A f \in Epochs : count[f] = Cardinality(InFlight({p \in Unresolved(x) \ B : p.e = f}))
    <3>1. \A f \in Epochs : f # e => count2[f] = x.in_flight_count[f]
      BY <1>2
    <3>2. \A f \in Epochs : f # e => count[f] = Cardinality(InFlight({p \in Unresolved(x) \ B : p.e = f}))
      BY <2>2, <3>1, <1>7 DEF Counted
    <3>3. count[e] = Cardinality(InFlight({p \in Unresolved(x) \ B : p.e = e}))
      BY <2>5, <1>7, FS_EmptySet
    <3> QED
      BY <3>2, <3>3
  <2> QED
    BY <2>4, <2>6, <1>8, <1>9 DEF Counted
<1>15. Sound(w, next)
  BY <1>10, <1>11, <1>13, <1>14 DEF Sound
<1>16. Cleared(w, e) /\ \A f \in Epochs : Cleared(x, f) => Cleared(w, f)
  BY <1>3, <1>7, <1>8 DEF Cleared, Sent
<1>17. /\ Sound(set_loss_detection_timer(w, hs), next)
       /\ \A f \in Epochs : Cleared(set_loss_detection_timer(w, hs), f) <=> Cleared(w, f)
       /\ hs.completed /\ OnlyApp(w) => ArmedFor(set_loss_detection_timer(w, hs))
  BY <1>15, SetTimerSound
<1>18. (\A f \in Early : f = e \/ Cleared(x, f)) => OnlyApp(w)
  BY <1>16 DEF OnlyApp, Early, Epochs
<1> HIDE DEF mine, B
<1> QED
  BY <1>1, <1>2, <1>16, <1>17, <1>18

\* A new packet is added to the counts.
LEMMA Count ==
    ASSUME NEW U, IsFiniteSet(U), NEW p, p \notin U, p.e \in Epochs,
           NEW bytes \in Int, NEW count \in [Epochs -> Int], Counted(U, bytes, count, 0)
    PROVE  /\ Cardinality(Eliciting({p})) \in Nat /\ Cardinality(InFlight({p})) \in Nat
           /\ Counted(U \cup {p}, bytes + Cardinality(Eliciting({p})),
                      [count EXCEPT ![p.e] = @ + Cardinality(InFlight({p}))], 0)
<1> DEFINE Of(f) == InFlight({q \in U : q.e = f})
           count2 == [count EXCEPT ![p.e] = @ + Cardinality(InFlight({p}))]
<1>1. IsFiniteSet(Eliciting(U)) /\ \A f \in Epochs : IsFiniteSet(Of(f))
  BY FS_Subset DEF Eliciting, InFlight
<1>2. /\ Cardinality(Eliciting(U)) \in Nat
      /\ \A f \in Epochs : Cardinality(Of(f)) \in Nat
  BY <1>1, FS_CardinalityType
<1>3. Cardinality(Eliciting({p})) = (IF ack_eliciting(p) THEN 1 ELSE 0)
  <2>1. Eliciting({p}) = (IF ack_eliciting(p) THEN {p} ELSE {})
    BY DEF Eliciting
  <2> QED
    BY <2>1, FS_EmptySet, FS_Singleton
<1>4. Cardinality(InFlight({p})) = (IF in_flight(p) THEN 1 ELSE 0)
  <2>1. InFlight({p}) = (IF in_flight(p) THEN {p} ELSE {})
    BY DEF InFlight
  <2> QED
    BY <2>1, FS_EmptySet, FS_Singleton
<1>5. Cardinality(Eliciting(U \cup {p})) = Cardinality(Eliciting(U)) + Cardinality(Eliciting({p}))
  <2>1. Eliciting(U \cup {p}) = (IF ack_eliciting(p) THEN Eliciting(U) \cup {p} ELSE Eliciting(U))
    BY DEF Eliciting
  <2>2. p \notin Eliciting(U)
    BY DEF Eliciting
  <2>3. Cardinality(Eliciting(U) \cup {p}) = Cardinality(Eliciting(U)) + 1
    BY <1>1, <2>2, FS_AddElement
  <2> QED
    BY <2>1, <2>3, <1>2, <1>3
<1>6. Cardinality(InFlight({q \in U \cup {p} : q.e = p.e})) =
        Cardinality(Of(p.e)) + Cardinality(InFlight({p}))
  <2>1. InFlight({q \in U \cup {p} : q.e = p.e}) =
          (IF in_flight(p) THEN Of(p.e) \cup {p} ELSE Of(p.e))
    BY DEF InFlight
  <2>2. p \notin Of(p.e)
    BY DEF InFlight
  <2> HIDE DEF Of
  <2>3. Cardinality(Of(p.e) \cup {p}) = Cardinality(Of(p.e)) + 1
    BY <1>1, <2>2, FS_AddElement
  <2> QED
    BY <2>1, <2>3, <1>2, <1>4
<1>7. \A f \in Epochs : f # p.e => InFlight({q \in U \cup {p} : q.e = f}) = Of(f)
  BY DEF InFlight
<1>8. /\ bytes = Cardinality(Eliciting(U)) + 0
      /\ \A f \in Epochs : count[f] = Cardinality(Of(f))
  BY DEF Counted
<1>9. ASSUME NEW f \in Epochs
      PROVE  count2[f] = Cardinality(InFlight({q \in U \cup {p} : q.e = f}))
  <2>1. CASE f = p.e
    BY <2>1, <1>6, <1>8
  <2>2. CASE f # p.e
    BY <2>2, <1>7, <1>8
  <2> QED
    BY <2>1, <2>2
<1>10. bytes + Cardinality(Eliciting({p})) = Cardinality(Eliciting(U \cup {p})) + 0
  BY <1>2, <1>3, <1>5, <1>8
<1> QED
  BY <1>3, <1>4, <1>9, <1>10 DEF Counted

\* The probe that a packet serves as is taken off the probes to send.
LEMMA PingSound ==
    ASSUME NEW x, NEW next, Sound(x, next), NEW p \in Packets
    PROVE  LET y == ping_sent(x, p)
           IN /\ Sound(y, next)
              /\ \A e \in Epochs : Cleared(y, e) <=> Cleared(x, e)
              /\ ArmedFor(x) => ArmedFor(y)
<1> DEFINE probes == [x.loss_probes EXCEPT ![p.e] = @ - 1]
           w == [x EXCEPT !.loss_probes = probes]
<1>1. x \in Recoveries /\ x.loss_probes \in [Epochs -> Nat] /\ p.e \in Epochs
  BY DEF Sound, Listed, Recoveries, Packets
<1>2. (ping_sent(x, p) = w /\ x.loss_probes[p.e] > 0) \/ ping_sent(x, p) = x
  BY DEF ping_sent
<1>3. CASE ping_sent(x, p) = x
  BY <1>3
<1>4. CASE ping_sent(x, p) = w /\ x.loss_probes[p.e] > 0
  <2>1. probes \in [Epochs -> Nat]
    BY <1>1, <1>4
  <2> HIDE DEF probes
  <2>2. w \in Recoveries /\ SameList(x, w) /\ SameTimer(x, w)
    BY <1>1, <2>1 DEF Recoveries, SameList, SameTimer, SameCounts
  <2> HIDE DEF w
  <2> QED
    BY <1>4, <2>2, SameSound
<1> QED
  BY <1>2, <1>3, <1>4

\* A packet sent is listed, counted, and the timer is set for it if it is in flight.
LEMMA SentSound ==
    ASSUME NEW x, NEW next \in [Epochs -> Nat], Sound(x, next), NEW hs \in Statuses,
           NEW p \in Packets, p.pn = next[p.e]
    PROVE  LET y == on_packet_sent(x, p, hs)
           IN /\ Sound(y, [next EXCEPT ![p.e] = @ + 1])
              /\ \A e \in Epochs : e # p.e /\ Cleared(x, e) => Cleared(y, e)
              /\ hs.completed /\ p.e = App /\ OnlyApp(x) /\ ArmedFor(x) => ArmedFor(y)
<1> DEFINE U == Unresolved(x)
           U2 == U \cup {p}
           out == IF ack_eliciting(p) THEN 0 ELSE x.outstanding + 1
           ae == [x.last_ae EXCEPT ![p.e] = IF ack_eliciting(p) THEN {0} ELSE @]
           count == [x.in_flight_count EXCEPT ![p.e] = @ + Cardinality(InFlight({p}))]
           bytes == x.bytes_in_flight + Cardinality(Eliciting({p}))
           w == [x EXCEPT !.outstanding = out, !.last_ae = ae, !.in_flight_count = count,
                          !.bytes_in_flight = bytes]
           z == IF in_flight(p) THEN set_loss_detection_timer(w, hs) ELSE w
           sent == [q \in DOMAIN x.time_sent \cup {p} |-> IF q = p THEN 0 ELSE x.time_sent[q]]
           y == [z EXCEPT !.time_sent = sent]
           next2 == [next EXCEPT ![p.e] = @ + 1]
<1>1. /\ Listed(x) /\ x \in Recoveries /\ p.e \in Epochs /\ p.pn \in Nat /\ App \in Epochs
      /\ x.time_sent \in Times
      /\ x.bytes_in_flight \in Int /\ x.in_flight_count \in [Epochs -> Int]
      /\ x.last_ae \in [Epochs -> SUBSET Int] /\ x.outstanding \in Nat
  BY DEF Sound, Listed, Recoveries, Packets, App, Epochs
<1>2. /\ U \subseteq DOMAIN x.time_sent /\ IsFiniteSet(U)
      /\ DOMAIN x.time_sent \subseteq Packets
      /\ \A q \in DOMAIN x.time_sent : x.time_sent[q] \in Int /\ q.pn \in Nat /\ q.e \in Epochs
      /\ Longest.loss_delay \in Nat
  BY <1>1, UnresolvedFinite, SentType
<1>3. p \notin DOMAIN x.time_sent
  BY <1>1 DEF Sound, Numbered
<1>4. /\ Cardinality(Eliciting({p})) \in Nat /\ Cardinality(InFlight({p})) \in Nat
      /\ Counted(U2, bytes, count, 0)
  BY <1>1, <1>2, <1>3, Count DEF Sound
<1>5. /\ out \in Nat /\ ae \in [Epochs -> SUBSET Int] /\ bytes \in Int
      /\ count \in [Epochs -> Int]
  BY <1>1, <1>4
<1>6. sent \in [DOMAIN x.time_sent \cup {p} -> Int]
  BY <1>2
<1>7. /\ sent \in Times /\ DOMAIN sent = DOMAIN x.time_sent \cup {p} /\ sent[p] = 0
      /\ \A q \in DOMAIN x.time_sent : sent[q] = x.time_sent[q]
  BY <1>2, <1>3, <1>6, InTimes
<1>8. /\ ack_eliciting(p) => ae[p.e] = {0}
      /\ ~ack_eliciting(p) => ae = x.last_ae
      /\ \A e \in Epochs : e # p.e => ae[e] = x.last_ae[e]
  BY <1>1
<1> HIDE DEF out, ae, count, bytes, sent
<1>9. /\ w \in Recoveries /\ w.bytes_in_flight = bytes /\ w.in_flight_count = count
      /\ w.last_ae = ae /\ w.loss_time = x.loss_time /\ w.largest_acked = x.largest_acked
      /\ w.time_lost = x.time_lost /\ w.acked = x.acked
      /\ w.loss_timer = x.loss_timer /\ w.est = x.est /\ w.pto_count = x.pto_count
  BY <1>1, <1>5 DEF Recoveries
<1> HIDE DEF w
<1>10. /\ z \in Recoveries /\ z = [w EXCEPT !.loss_timer = z.loss_timer]
       /\ z.bytes_in_flight = bytes /\ z.in_flight_count = count
       /\ z.last_ae = ae /\ z.loss_time = x.loss_time /\ z.largest_acked = x.largest_acked
       /\ z.time_lost = x.time_lost /\ z.acked = x.acked
       /\ z.est = x.est /\ z.pto_count = x.pto_count
  <2>1. z \in Recoveries /\ z = [w EXCEPT !.loss_timer = z.loss_timer]
    <3>1. CASE in_flight(p)
      BY <3>1, <1>9, SetTimerSpec
    <3>2. CASE ~in_flight(p)
      BY <3>2, <1>9 DEF Recoveries
    <3> QED
      BY <3>1, <3>2
  <2> HIDE DEF z
  <2> QED
    BY <2>1, <1>9 DEF Recoveries
<1>11. on_packet_sent(x, p, hs) = y
  <2>1. w.time_sent = x.time_sent
    BY <1>1, <1>5 DEF Recoveries, w
  <2>2. z.time_sent = x.time_sent
    <3> HIDE DEF z
    <3> QED BY <1>9, <1>10, <2>1 DEF Recoveries
  <2>3. on_packet_sent(x, p, hs) =
          [z EXCEPT !.time_sent = [q \in DOMAIN z.time_sent \cup {p} |->
                                     IF q = p THEN 0 ELSE z.time_sent[q]]]
    BY DEF on_packet_sent, w, out, ae, count, bytes
  <2> QED
    BY <2>2, <2>3 DEF sent
<1>12. /\ y \in Recoveries /\ y.time_sent = sent
       /\ y.bytes_in_flight = bytes /\ y.in_flight_count = count
       /\ y.last_ae = ae /\ y.loss_time = x.loss_time /\ y.largest_acked = x.largest_acked
       /\ y.time_lost = x.time_lost /\ y.acked = x.acked
       /\ y.loss_timer = z.loss_timer /\ y.est = x.est /\ y.pto_count = x.pto_count
  <2> HIDE DEF z
  <2> QED BY <1>7, <1>10 DEF Recoveries
<1> HIDE DEF y
<1>13. Unresolved(y) = U2
  BY <1>1, <1>3, <1>7, <1>12 DEF Unresolved, Listed
<1>14. Listed(y)
  <2>1. IsFiniteSet(DOMAIN sent)
    BY <1>1, <1>7, FS_AddElement DEF Listed
  <2> QED
    BY <2>1, <1>1, <1>7, <1>12 DEF Listed
<1>15. Numbered(y, next2)
  BY <1>1, <1>2, <1>7, <1>12 DEF Sound, Numbered
<1>16. Ordered(y)
  <2>1. \A q \in DOMAIN sent : sent[q] \in Int /\ sent[q] <= 0
    BY <1>2, <1>7 DEF Sound, Ordered
  <2>2. \A q \in DOMAIN x.time_sent : q.e = p.e => ~(p.pn <= q.pn)
    BY <1>1, <1>2 DEF Sound, Numbered
  <2>3. ASSUME NEW q \in DOMAIN sent, NEW s \in DOMAIN sent, q.e = s.e, q.pn <= s.pn
        PROVE  sent[q] <= sent[s]
    BY <1>7, <2>1, <2>2, <2>3 DEF Sound, Ordered
  <2> QED
    BY <2>1, <2>3, <1>12 DEF Ordered
<1>17. \A t \in x.loss_time[App] : InTime(t, U2, sent)
  <2>1. x.loss_time[App] \in SUBSET Int
    BY <1>1 DEF Recoveries
  <2>2. Outstanding(U2) \subseteq Outstanding(U) \cup {p} /\ Outstanding(U) \subseteq DOMAIN x.time_sent
    BY <1>2 DEF Outstanding, Eliciting
  <2>3. \A t \in x.loss_time[App] : InTime(t, U, x.time_sent)
    BY DEF Sound, LossTimed
  <2> SUFFICES ASSUME NEW t \in x.loss_time[App], ~(t <= 0)
               PROVE  /\ t <= Longest.loss_delay
                      /\ \A q \in Outstanding(U2) : t <= sent[q] + Longest.loss_delay
    BY DEF InTime
  <2>4. /\ t \in Int /\ t <= Longest.loss_delay
        /\ \A q \in Outstanding(U) : t <= x.time_sent[q] + Longest.loss_delay
    BY <2>1, <2>3 DEF InTime
  <2>5. ASSUME NEW q \in Outstanding(U2) PROVE t <= sent[q] + Longest.loss_delay
    <3>1. CASE q = p
      BY <3>1, <2>4, <1>2, <1>7
    <3>2. CASE q \in Outstanding(U)
      <4>1. q \in DOMAIN x.time_sent /\ sent[q] = x.time_sent[q]
        BY <2>2, <3>2, <1>7
      <4> QED
        BY <4>1, <2>4, <3>2
    <3> QED
      BY <2>2, <3>1, <3>2
  <2> QED
    BY <2>4, <2>5
<1>18. LossTimed(y)
  <2>1. Suspects(x, App) \subseteq Suspects(y, App)
    BY <1>12, <1>13, SuspectsAre
  <2> QED
    BY <2>1, <1>12, <1>13, <1>17 DEF Sound, LossTimed
<1>19. Outstanding(U2) # {} => ae[App] # {}
  <2>1. CASE p.e = App /\ ack_eliciting(p)
    BY <2>1, <1>8
  <2>2. CASE ~(p.e = App /\ ack_eliciting(p))
    <3>1. ae[App] = x.last_ae[App]
      BY <2>2, <1>1, <1>8
    <3>2. Outstanding(U2) = Outstanding(U)
      BY <2>2 DEF Outstanding, Eliciting
    <3> QED
      BY <3>1, <3>2 DEF Sound, ProbeTimed
  <2> QED
    BY <2>1, <2>2
<1>20. ProbeTimed(y)
  BY <1>12, <1>13, <1>19 DEF ProbeTimed
<1>21. Sound(y, next2)
  BY <1>4, <1>12, <1>13, <1>14, <1>15, <1>16, <1>18, <1>20 DEF Sound
<1>22. \A e \in Epochs : e # p.e /\ Cleared(x, e) => Cleared(y, e)
  BY <1>7, <1>12 DEF Cleared, Sent
<1>23. ASSUME hs.completed, p.e = App, OnlyApp(x), ArmedFor(x), Outstanding(U2) # {}
       PROVE  Armed(y, U2, sent)
  <2>1. \A q \in U2 : q.e = App
    BY <1>1, <1>23, OnlyAppUnresolved
  <2>2. ProbeTime(y) = ProbeTime(z)
    <3> HIDE DEF z
    <3> QED BY <1>10, <1>12 DEF ProbeTime, Backoff
  <2>3. CASE in_flight(p)
    <3>1. IsFiniteSet(U2)
      BY <1>2, FS_AddElement
    <3>2. \A e \in Early : w.loss_time[e] = {}
      BY <1>9, <1>23 DEF OnlyApp, Cleared
    <3>3. /\ w.last_ae[App] # {} /\ \A t \in w.loss_time[App] : InTime(t, U2, sent)
          /\ Counted(U2, w.bytes_in_flight, w.in_flight_count, 0)
      BY <1>4, <1>9, <1>17, <1>19, <1>23
    <3> HIDE DEF U2
    <3>4. Armed(set_loss_detection_timer(w, hs), U2, sent)
      BY <1>9, <1>23, <2>1, <3>1, <3>2, <3>3, SetTimerArms
    <3>5. Armed(z, U2, sent)
      BY <2>3, <3>4
    <3> QED
      BY <2>2, <3>5, <1>12 DEF Armed
  <2>4. CASE ~in_flight(p)
    <3>1. ~ack_eliciting(p)
      BY <2>4 DEF in_flight, ack_eliciting
    <3>2. Outstanding(U2) = Outstanding(U) /\ Outstanding(U) \subseteq DOMAIN x.time_sent
      BY <3>1, <1>2 DEF Outstanding, Eliciting
    <3>3. ProbeTime(y) = ProbeTime(x) /\ y.loss_timer = x.loss_timer
      BY <2>4, <3>1, <1>8, <1>9, <1>12 DEF ProbeTime, Backoff
    <3>4. Armed(x, U, x.time_sent)
      BY <3>2, <1>23 DEF ArmedFor
    <3> QED
      BY <3>2, <3>3, <3>4, <1>7 DEF Armed
  <2> QED
    BY <2>3, <2>4
<1>24. hs.completed /\ p.e = App /\ OnlyApp(x) /\ ArmedFor(x) => ArmedFor(y)
  <2> HIDE DEF U2
  <2> QED BY <1>12, <1>13, <1>23 DEF ArmedFor
<1> HIDE DEF next2
<1> QED
  BY <1>11, <1>21, <1>22, <1>24 DEF next2

\* The largest acked packet is a number, and never falls.
LEMMA AckedLargest ==
    ASSUME NEW x, Listed(x), NEW e \in Epochs, NEW n \in Nat,
           NEW ranges, ranges \subseteq 0 .. n - 1, ranges # {}
    PROVE  /\ Max(ranges \cup x.largest_acked[e]) \in Nat
           /\ unwrap_or(x.largest_acked[e], 0) <= Max(ranges \cup x.largest_acked[e])
<1> DEFINE N == ranges \cup x.largest_acked[e]
<1>1. x.largest_acked[e] \in Options(Nat)
  BY DEF Listed, Recoveries
<1>2. \A k \in ranges : k \in Nat /\ k <= n
  OBVIOUS
<1>3. CASE x.largest_acked[e] = {}
  <2>1. N \subseteq Nat /\ N # {} /\ \A k \in N : k <= n
    BY <1>2, <1>3
  <2> HIDE DEF N
  <2>2. Max(N) \in Nat
    BY <2>1, LargestOf
  <2> QED
    BY <1>3, <2>2 DEF N, unwrap_or
<1>4. ASSUME NEW l \in Nat, x.largest_acked[e] = {l}
      PROVE  Max(N) \in Nat /\ unwrap_or(x.largest_acked[e], 0) <= Max(N)
  <2>1. N \subseteq Nat /\ l \in N /\ \A k \in N : k <= n + l
    BY <1>2, <1>4
  <2> HIDE DEF N
  <2>2. n + l \in Nat
    OBVIOUS
  <2>3. Max(N) \in N /\ l <= Max(N)
    BY <2>1, <2>2, LargestOf
  <2>4. unwrap_or(x.largest_acked[e], 0) = l
    BY <1>4 DEF unwrap_or
  <2> QED
    BY <2>1, <2>3, <2>4
<1>5. x.largest_acked[e] = {} \/ \E l \in Nat : x.largest_acked[e] = {l}
  BY <1>1 DEF Options
<1> QED
  BY <1>3, <1>4, <1>5

\* The packet threshold is a number.
LEMMA ThreshType ==
    ASSUME NEW x, Listed(x), NEW e \in Epochs, NEW S, S \subseteq Sent(x, e),
           NEW largest \in Nat, NEW spurious, spurious \subseteq S
    PROVE  RaisedThresh(x, largest, spurious) \in Int
<1> DEFINE N == {p.pn : p \in spurious}
           thresh == largest - Min(N) + 1
<1>1. x.pkt_thresh \in Int /\ MaxThresh \in Int
  BY RecoveryAssumption DEF Listed, Recoveries
<1>2. CASE spurious = {}
  BY <1>1, <1>2 DEF RaisedThresh
<1>3. CASE spurious # {}
  <2>1. N \subseteq Nat
    BY SentType DEF Sent
  <2>2. N # {}
    BY <1>3
  <2> HIDE DEF N
  <2>3. PICK m \in N : \A k \in N : m <= k
    BY <2>1, <2>2, SmallestOf
  <2>4. Min(N) \in N
    BY <2>3 DEF Min
  <2>5. Min(N) \in Nat
    BY <2>1, <2>4
  <2>6. thresh \in Int
    BY <2>5
  <2> HIDE DEF thresh
  <2>7. Min({thresh, MaxThresh}) \in Int
    BY <2>6, <1>1, OfTwo
  <2>8. Max({x.pkt_thresh, Min({thresh, MaxThresh})}) \in Int
    BY <2>7, <1>1, OfTwo
  <2>9. RaisedThresh(x, largest, spurious) = Max({x.pkt_thresh, Min({thresh, MaxThresh})})
    BY <1>3 DEF RaisedThresh, thresh, N
  <2> QED
    BY <2>8, <2>9
<1> QED
  BY <1>2, <1>3

\* The first half of an ACK frame: the packets are marked, the threshold is raised.
AckMarked(x, e, ranges) ==
    LET S == AckedPackets(x, e, ranges)
        largest == Max(ranges \cup x.largest_acked[e])
        spurious == {p \in S \cap DOMAIN x.time_lost : p \notin x.acked}
    IN [detect_and_remove_acked_packets([x EXCEPT !.largest_acked[e] = {largest}], e, S)
        EXCEPT !.pkt_thresh = RaisedThresh(x, largest, spurious)]

\* It leaves the bytes of the packets newly acked to be taken off.
LEMMA AckMarkedSpec ==
    ASSUME NEW x, NEW next \in [Epochs -> Nat], Sound(x, next), NEW e \in Epochs,
           NEW ranges, ranges \subseteq 0 .. next[e] - 1, ranges # {}
    PROVE  LET newly == AckedPackets(x, e, ranges) \cap Unresolved(x)
               y == AckMarked(x, e, ranges)
               n == Cardinality(Eliciting(newly))
           IN /\ n \in Nat /\ Listed(y) /\ Thins(x, y) /\ SameTimer(x, y)
              /\ Unresolved(y) = Unresolved(x) \ newly
              /\ Counted(Unresolved(y), y.bytes_in_flight, y.in_flight_count, n)
              /\ y.loss_time = x.loss_time
              /\ Suspects(x, App) \ newly \subseteq Suspects(y, App)
<1> DEFINE S == AckedPackets(x, e, ranges)
           U == Unresolved(x)
           newly == S \cap U
           y == AckMarked(x, e, ranges)
           n == Cardinality(Eliciting(newly))
           c == Cardinality(InFlight(newly))
           largest == Max(ranges \cup x.largest_acked[e])
           spurious == {p \in S \cap DOMAIN x.time_lost : p \notin x.acked}
           acks == [x.largest_acked EXCEPT ![e] = {largest}]
           a == [x EXCEPT !.largest_acked = acks]
           count == [x.in_flight_count EXCEPT ![e] = @ - c]
           m == [a EXCEPT !.acked = @ \cup S, !.in_flight_count = count]
           d == drain_acked_and_lost_packets(m, e)
<1>1. /\ Listed(x) /\ x \in Recoveries /\ Numbered(x, next) /\ App \in Epochs
      /\ x.acked \subseteq Packets /\ x.largest_acked \in [Epochs -> Options(Nat)]
      /\ x.bytes_in_flight \in Int /\ x.in_flight_count \in [Epochs -> Int]
  BY DEF Sound, Listed, Recoveries, App, Epochs
<1>2. U \subseteq DOMAIN x.time_sent /\ IsFiniteSet(U) /\ DOMAIN x.time_sent \subseteq Packets
  BY <1>1, UnresolvedFinite
<1>3. /\ S \subseteq DOMAIN x.time_sent /\ S \subseteq Sent(x, e)
      /\ newly \subseteq {p \in U : p.e = e}
  BY DEF AckedPackets, Sent
<1> HIDE DEF S
<1>4. largest \in Nat /\ unwrap_or(x.largest_acked[e], 0) <= largest
  <2>1. next[e] \in Nat
    OBVIOUS
  <2> QED BY <1>1, <2>1, AckedLargest
<1>5. RaisedThresh(x, largest, spurious) \in Int
  <2> HIDE DEF largest
  <2> QED BY <1>1, <1>3, <1>4, ThreshType
<1>6. n \in Nat /\ c \in Nat /\ Counted(U \ newly, x.bytes_in_flight, count, n)
  <2>1. Counted(U, x.bytes_in_flight, x.in_flight_count, 0)
    BY DEF Sound
  <2>2. /\ newly \subseteq {p \in U : p.e = e} /\ IsFiniteSet(U)
        /\ x.bytes_in_flight \in Int /\ x.in_flight_count \in [Epochs -> Int]
    BY <1>1, <1>2, <1>3
  <2> HIDE DEF U, newly
  <2>3. Counted(U \ newly, x.bytes_in_flight, count, 0 + n)
    BY <2>1, <2>2, Uncount
  <2>4. IsFiniteSet(Eliciting(newly)) /\ IsFiniteSet(InFlight(newly))
    <3>1. IsFiniteSet(newly)
      BY <2>2, FS_Subset
    <3> QED
      BY <3>1, FS_Subset DEF Eliciting, InFlight
  <2>5. n \in Nat /\ c \in Nat
    BY <2>4, FS_CardinalityType
  <2> HIDE DEF n, count
  <2> QED
    BY <2>3, <2>5
<1>7. acks \in [Epochs -> Options(Nat)] /\ count \in [Epochs -> Int]
  <2>1. {largest} \in Options(Nat)
    BY <1>4 DEF Options
  <2> HIDE DEF largest, n, c
  <2> QED BY <2>1, <1>1, <1>6
<1>8. acks[e] = {largest} /\ \A f \in Epochs : f # e => acks[f] = x.largest_acked[f]
  BY <1>1
<1> HIDE DEF n, c, acks, count
<1>9. a \in Recoveries /\ a.time_sent = x.time_sent /\ a.time_lost = x.time_lost
      /\ a.acked = x.acked /\ a.in_flight_count = x.in_flight_count
  BY <1>1, <1>7 DEF Recoveries
<1>10. S \subseteq Packets
  BY <1>2, <1>3
<1>11. /\ m \in Recoveries /\ m.time_sent = x.time_sent /\ m.time_lost = x.time_lost
       /\ m.acked = x.acked \cup S /\ m.largest_acked = acks /\ m.in_flight_count = count
       /\ m.bytes_in_flight = x.bytes_in_flight /\ m.loss_time = x.loss_time
       /\ SameTimer(x, m)
  BY <1>1, <1>7, <1>10 DEF Recoveries, SameTimer
<1>12. Unresolved(m) = U \ newly
  BY <1>3, <1>11 DEF Unresolved
<1>13. Listed(m)
  BY <1>1, <1>3, <1>11 DEF Listed
<1>14. detect_and_remove_acked_packets([x EXCEPT !.largest_acked[e] = {largest}], e, S) = d
  <2>1. [x EXCEPT !.largest_acked[e] = {largest}] = a
    BY DEF acks
  <2>2. Unresolved(a) = U
    BY <1>9 DEF Unresolved
  <2> HIDE DEF a, largest
  <2>3. detect_and_remove_acked_packets(a, e, S) =
          drain_acked_and_lost_packets([a EXCEPT !.acked = @ \cup S,
                                                 !.in_flight_count[e] = @ - c], e)
    BY <2>2, <1>3 DEF detect_and_remove_acked_packets, c
  <2>4. [a EXCEPT !.acked = @ \cup S, !.in_flight_count[e] = @ - c] = m
    BY <1>9 DEF count
  <2> QED
    BY <2>1, <2>3, <2>4
<1> HIDE DEF m
<1>15. /\ Listed(d) /\ Thins(m, d) /\ SameTimer(m, d) /\ SameCounts(m, d)
       /\ Unresolved(d) = Unresolved(m)
       /\ d.loss_time = m.loss_time /\ d.largest_acked = m.largest_acked
  BY <1>13, DrainSpec
<1> HIDE DEF d
<1>16. y = [d EXCEPT !.pkt_thresh = RaisedThresh(x, largest, spurious)]
  BY <1>14 DEF AckMarked, S
<1> HIDE DEF y, largest, spurious
<1>17. /\ y \in Recoveries /\ y.time_sent = d.time_sent /\ y.time_lost = d.time_lost
       /\ y.acked = d.acked /\ y.largest_acked = acks /\ y.in_flight_count = count
       /\ y.bytes_in_flight = x.bytes_in_flight /\ y.loss_time = x.loss_time
       /\ SameTimer(x, y)
  <2>1. d \in Recoveries
    BY <1>15 DEF Listed
  <2> QED
    BY <2>1, <1>5, <1>11, <1>15, <1>16 DEF Recoveries, SameTimer, SameCounts
<1>18. Listed(y) /\ Thins(x, y) /\ Unresolved(y) = U \ newly
  <2>1. Listed(y)
    BY <1>15, <1>17 DEF Listed
  <2>2. Thins(x, y)
    BY <1>11, <1>15, <1>17 DEF Thins
  <2>3. Unresolved(y) = Unresolved(d)
    BY <1>17 DEF Unresolved
  <2> QED
    BY <2>1, <2>2, <2>3, <1>12, <1>15
<1>19. Counted(Unresolved(y), y.bytes_in_flight, y.in_flight_count, n)
  BY <1>6, <1>17, <1>18
<1>20. Suspects(x, App) \ newly \subseteq Suspects(y, App)
  <2>1. unwrap_or(x.largest_acked[App], 0) \in Nat /\ unwrap_or(y.largest_acked[App], 0) \in Nat
    BY <1>1, <1>18, LargestType
  <2>2. unwrap_or(x.largest_acked[App], 0) <= unwrap_or(y.largest_acked[App], 0)
    <3>1. CASE e = App
      <4>1. y.largest_acked[App] = {largest}
        BY <3>1, <1>8, <1>17
      <4>2. unwrap_or(y.largest_acked[App], 0) = largest
        BY <4>1 DEF unwrap_or
      <4> QED
        BY <4>2, <3>1, <1>4
    <3>2. CASE e # App
      BY <3>2, <2>1, <1>1, <1>8, <1>17
    <3> QED
      BY <3>1, <3>2
  <2>3. \A p \in U : p.pn \in Nat
    BY <1>1, <1>2, SentType
  <2>4. /\ Suspects(x, App) = {p \in Unresolved(x) : p.e = App /\ p.pn <= unwrap_or(x.largest_acked[App], 0)}
        /\ Suspects(y, App) = {p \in Unresolved(y) : p.e = App /\ p.pn <= unwrap_or(y.largest_acked[App], 0)}
    BY SuspectsAre
  <2>5. ASSUME NEW p \in Suspects(x, App) \ newly PROVE p \in Suspects(y, App)
    <3>1. p \in U /\ p.e = App /\ p.pn <= unwrap_or(x.largest_acked[App], 0) /\ p \notin newly
      BY <2>4
    <3>2. p.pn <= unwrap_or(y.largest_acked[App], 0)
      BY <3>1, <2>1, <2>2, <2>3
    <3> QED
      BY <3>1, <3>2, <2>4, <1>18
  <2> QED
    BY <2>5
<1> HIDE DEF newly
<1> QED
  BY <1>6, <1>17, <1>18, <1>19, <1>20 DEF y, n, newly, S

\* An ACK frame keeps the Recovery sound, and the timer armed.
LEMMA AckSound ==
    ASSUME NEW x, NEW next \in [Epochs -> Nat], Sound(x, next), NEW e \in Epochs,
           NEW ranges, ranges \subseteq 0 .. next[e] - 1, ranges # {},
           NEW est \in Rtts, NEW hs \in Statuses
    PROVE  LET y == on_ack_received(x, e, ranges, est, hs)
           IN /\ Sound(y, next)
              /\ \A f \in Epochs : Cleared(x, f) => Cleared(y, f)
              /\ hs.completed /\ OnlyApp(x) /\ ArmedFor(x) => ArmedFor(y)
<1> DEFINE newly == AckedPackets(x, e, ranges) \cap Unresolved(x)
           n == Cardinality(Eliciting(newly))
           largest == Max(ranges \cup x.largest_acked[e])
           updates == Eliciting(newly) # {} /\ \E p \in newly : p.pn = largest
           y == AckMarked(x, e, ranges)
           y2 == [y EXCEPT !.est = IF updates THEN est ELSE @]
           z == detect_lost_packets(y2, e)
           v == [z EXCEPT !.bytes_in_flight = @ - n, !.pto_count = 0]
           w == set_loss_detection_timer(v, hs)
<1>1. on_ack_received(x, e, ranges, est, hs) =
        IF newly = {} THEN y ELSE drain_acked_and_lost_packets(w, e)
  BY DEF on_ack_received, AckMarked
<1>2. /\ n \in Nat /\ Listed(y) /\ Thins(x, y) /\ SameTimer(x, y)
      /\ Unresolved(y) = Unresolved(x) \ newly
      /\ Counted(Unresolved(y), y.bytes_in_flight, y.in_flight_count, n)
      /\ y.loss_time = x.loss_time
      /\ Suspects(x, App) \ newly \subseteq Suspects(y, App)
  BY AckMarkedSpec
<1> HIDE DEF y, n, updates
<1>3. Listed(x) /\ App \in Epochs /\ newly \subseteq {p \in Unresolved(x) : p.e = e}
  BY DEF Sound, App, Epochs, AckedPackets, Sent
<1> HIDE DEF newly
<1>4. /\ Numbered(y, next) /\ Ordered(y) /\ ProbeTimed(y)
      /\ \A t : InTime(t, Unresolved(x), x.time_sent) => InTime(t, Unresolved(y), y.time_sent)
      /\ ArmedFor(x) => ArmedFor(y)
      /\ \A f : Sent(y, f) \subseteq Sent(x, f)
  BY <1>2, <1>3, Thinner DEF Sound, SameTimer
<1>5. \A f \in Epochs : Cleared(x, f) => Cleared(y, f)
  BY <1>2, <1>4 DEF Cleared
<1>6. LossTimed(y) \/ (newly # {} /\ e = App)
  <2>1. ASSUME newly = {} \/ e # App PROVE Suspects(x, App) \subseteq Suspects(y, App)
    <3>1. \A p \in Suspects(x, App) : p \notin newly
      BY <2>1, <1>3, SuspectsAre
    <3> QED
      BY <3>1, <1>2
  <2> QED
    BY <2>1, <1>2, <1>4 DEF Sound, LossTimed
<1>7. CASE newly = {}
  <2>1. n = 0
    <3>1. Eliciting(newly) = {}
      BY <1>7 DEF Eliciting
    <3> QED
      BY <3>1, FS_EmptySet DEF n
  <2>2. Sound(y, next)
    BY <2>1, <1>2, <1>4, <1>6, <1>7 DEF Sound
  <2> QED
    BY <2>2, <1>1, <1>4, <1>5, <1>7
<1>8. CASE newly # {}
  <2>1. /\ y2 \in Recoveries /\ SameList(y, y2)
        /\ y2.loss_timer = y.loss_timer /\ y2.last_ae = y.last_ae
    <3>1. y \in Recoveries /\ y.est \in Rtts
      BY <1>2 DEF Listed, Recoveries
    <3> QED
      BY <3>1 DEF Recoveries, SameList, SameCounts
  <2> HIDE DEF y2
  <2>2. Unresolved(y2) = Unresolved(y)
    BY <2>1 DEF SameList, Unresolved
  <2>3. /\ Listed(y2) /\ Numbered(y2, next) /\ Ordered(y2) /\ ProbeTimed(y2)
        /\ Counted(Unresolved(y2), y2.bytes_in_flight, y2.in_flight_count, n)
    BY <2>1, <2>2, <1>2, <1>4
       DEF SameList, SameCounts, Listed, Numbered, Ordered, ProbeTimed
  <2>4. LossTimed(y2) \/ e = App
    <3>1. Suspects(y2, App) = Suspects(y, App)
      BY <2>1, <2>2, SuspectsAre DEF SameList
    <3> QED
      BY <3>1, <2>1, <2>2, <1>6 DEF LossTimed, SameList
  <2>5. \A f \in Epochs : Cleared(y, f) => Cleared(y2, f)
    BY <2>1 DEF SameList, Cleared, Sent
  <2>6. /\ Listed(z) /\ Numbered(z, next) /\ Ordered(z) /\ LossTimed(z) /\ ProbeTimed(z)
        /\ Counted(Unresolved(z), z.bytes_in_flight, z.in_flight_count, n)
        /\ \A f \in Epochs : Cleared(y2, f) => Cleared(z, f)
    <3>1. n \in Int
      BY <1>2
    <3> QED
      BY <3>1, <2>3, <2>4, DetectSound
  <2> HIDE DEF z
  <2>7. z \in Recoveries /\ z.bytes_in_flight \in Int
    BY <2>6 DEF Listed, Recoveries
  <2>8. /\ v \in Recoveries /\ v.time_sent = z.time_sent /\ v.time_lost = z.time_lost
        /\ v.acked = z.acked /\ v.largest_acked = z.largest_acked
        /\ v.loss_time = z.loss_time /\ v.last_ae = z.last_ae
        /\ v.in_flight_count = z.in_flight_count /\ v.bytes_in_flight = z.bytes_in_flight - n
    <3>1. z.bytes_in_flight - n \in Int
      BY <2>7, <1>2
    <3>2. v = [z EXCEPT !.bytes_in_flight = z.bytes_in_flight - n, !.pto_count = 0]
      OBVIOUS
    <3> HIDE DEF v
    <3> QED
      BY <2>7, <3>1, <3>2 DEF Recoveries
  <2> HIDE DEF v
  <2>9. Unresolved(v) = Unresolved(z)
    BY <2>8 DEF Unresolved
  <2>10. Listed(v) /\ Numbered(v, next) /\ Ordered(v) /\ ProbeTimed(v)
    BY <2>6, <2>8, <2>9 DEF Listed, Numbered, Ordered, ProbeTimed
  <2>11. LossTimed(v)
    <3>1. Suspects(v, App) = Suspects(z, App)
      BY <2>8, <2>9, SuspectsAre
    <3> QED
      BY <3>1, <2>6, <2>8, <2>9 DEF LossTimed
  <2>12. Counted(Unresolved(v), v.bytes_in_flight, v.in_flight_count, 0)
    <3>1. IsFiniteSet(Eliciting(Unresolved(z)))
      BY <2>6, UnresolvedFinite, FS_Subset DEF Eliciting
    <3>2. Cardinality(Eliciting(Unresolved(z))) \in Nat
      BY <3>1, FS_CardinalityType
    <3>3. v.bytes_in_flight = Cardinality(Eliciting(Unresolved(z))) + 0
      BY <3>2, <2>6, <2>7, <2>8, <1>2 DEF Counted
    <3> QED
      BY <3>3, <2>6, <2>8, <2>9 DEF Counted
  <2>13. Sound(v, next)
    BY <2>10, <2>11, <2>12 DEF Sound
  <2>14. \A f \in Epochs : Cleared(x, f) => Cleared(v, f)
    BY <1>5, <2>5, <2>6, <2>8 DEF Cleared, Sent
  <2>15. /\ Sound(w, next) /\ \A f \in Epochs : Cleared(w, f) <=> Cleared(v, f)
         /\ hs.completed /\ OnlyApp(v) => ArmedFor(w)
    BY <2>13, SetTimerSound
  <2> HIDE DEF w
  <2>16. OnlyApp(x) => OnlyApp(v)
    BY <2>14 DEF OnlyApp, Early, Epochs
  <2>17. /\ Sound(drain_acked_and_lost_packets(w, e), next)
         /\ \A f \in Epochs : Cleared(w, f) => Cleared(drain_acked_and_lost_packets(w, e), f)
         /\ ArmedFor(w) => ArmedFor(drain_acked_and_lost_packets(w, e))
    BY <2>15, DrainSound
  <2> QED
    BY <1>1, <1>8, <2>14, <2>15, <2>16, <2>17
<1> QED
  BY <1>7, <1>8

\* When the timer fires the Recovery stays sound and the timer is armed again.
LEMMA TimeoutSound ==
    ASSUME NEW x, NEW next, Sound(x, next), NEW hs \in Statuses
    PROVE  LET y == on_loss_detection_timeout(x, hs)
           IN /\ Sound(y, next)
              /\ \A f \in Epochs : Cleared(x, f) => Cleared(y, f)
              /\ hs.completed /\ OnlyApp(x) => ArmedFor(y)
<1> DEFINE loss == loss_time_and_space(x)
           e == IF x.bytes_in_flight > 0 THEN pto_time_and_space(x, hs).e ELSE hs.space
           w == IF loss.time # {} THEN detect_lost_packets(x, loss.e) ELSE SendProbes(x, e)
<1>1. /\ Listed(x) /\ x \in Recoveries /\ x.pto_count \in Nat
      /\ x.loss_probes \in [Epochs -> Nat]
  BY DEF Sound, Listed, Recoveries
<1>2. loss.e \in Epochs /\ e \in Epochs
  BY <1>1, LossTimeSpec, ProbeTimeSpec DEF Deadlines, Statuses
<1> HIDE DEF loss, e
<1>3. Sound(w, next) /\ \A f \in Epochs : Cleared(x, f) => Cleared(w, f)
  <2>1. CASE loss.time # {}
    <3>1. w = detect_lost_packets(x, loss.e) /\ 0 \in Int
      BY <2>1
    <3> HIDE DEF w
    <3>2. Listed(x) /\ Numbered(x, next) /\ Ordered(x) /\ LossTimed(x) /\ ProbeTimed(x)
      BY DEF Sound
    <3>3. Counted(Unresolved(x), x.bytes_in_flight, x.in_flight_count, 0)
      BY DEF Sound
    <3>4. /\ Listed(w) /\ Numbered(w, next) /\ Ordered(w) /\ LossTimed(w) /\ ProbeTimed(w)
          /\ Counted(Unresolved(w), w.bytes_in_flight, w.in_flight_count, 0)
          /\ \A f \in Epochs : Cleared(x, f) => Cleared(w, f)
      BY <1>2, <3>1, <3>2, <3>3, DetectSound
    <3> QED
      BY <3>4 DEF Sound
  <2>2. CASE loss.time = {}
    <3> DEFINE probes == [x.loss_probes EXCEPT ![e] = Min({x.pto_count + 1, MAX_PTO_PROBES_COUNT})]
               c == Min({x.pto_count + 1, MaxBackoff})
    <3>1. Min({x.pto_count + 1, MAX_PTO_PROBES_COUNT}) \in Nat /\ c \in Nat
      <4>1. x.pto_count + 1 \in Nat /\ MaxBackoff \in Nat /\ MAX_PTO_PROBES_COUNT \in Nat
        BY <1>1, RecoveryAssumption DEF MAX_PTO_PROBES_COUNT
      <4>2. ASSUME NEW a \in Nat, NEW b \in Nat PROVE Min({a, b}) \in Nat
        BY DEF Min
      <4> QED
        BY <4>1, <4>2
    <3>2. probes \in [Epochs -> Nat]
      BY <1>1, <3>1
    <3>3. SendProbes(x, e) = [x EXCEPT !.pto_count = c, !.loss_probes = probes]
      BY DEF SendProbes
    <3> HIDE DEF probes, c
    <3>4. SendProbes(x, e) \in Recoveries /\ SameList(x, SendProbes(x, e))
      BY <1>1, <3>1, <3>2, <3>3 DEF Recoveries, SameList, SameCounts
    <3> QED
      BY <2>2, <3>4, SameSound
  <2> QED
    BY <2>1, <2>2
<1>4. on_loss_detection_timeout(x, hs) = set_loss_detection_timer(w, hs)
  BY DEF on_loss_detection_timeout, loss, e
<1> HIDE DEF w
<1>5. OnlyApp(x) => OnlyApp(w)
  BY <1>3 DEF OnlyApp, Early, Epochs
<1> QED
  BY <1>3, <1>4, <1>5, SetTimerSound

-----------------------------------------------------------------------------
(* The invariant of the specification.                                        *)

HandshakeType ==
    /\ is_server \in BOOLEAN /\ completed \in BOOLEAN /\ confirmed \in BOOLEAN
    /\ peer_verified \in BOOLEAN
    /\ keys \in [Epochs -> {"None", "Ready", "Dropped"}]
    /\ next_pn \in [Epochs -> Nat]

\* Which keys are left at the stages of the handshake.
Stages ==
    /\ confirmed => completed /\ \A e \in Early : keys[e] # "Ready"
    /\ completed => keys["Handshake"] # "None"
    /\ keys["Handshake"] = "Dropped" => confirmed
    /\ ~is_server /\ next_pn["Handshake"] > 0 => keys["Initial"] # "Ready"

\* A space without keys has nothing sent and no loss time.
KeylessCleared(k, x) == \A e \in Epochs : k[e] # "Ready" => Cleared(x, e)

IInv ==
    /\ HandshakeType /\ Stages
    /\ Sound(r, next_pn) /\ KeylessCleared(keys, r)
    /\ confirmed => ArmedFor(r)

\* Dropping the state of a space that has keys.
LEMMA DropSound ==
    ASSUME NEW x, NEW next, Sound(x, next), NEW e \in Early,
           NEW k \in [Epochs -> {"None", "Ready", "Dropped"}], KeylessCleared(k, x),
           NEW done \in BOOLEAN, NEW verified \in BOOLEAN
    PROVE  LET y == drop_epoch_state(x, e, k, done, verified)
               k2 == Dropped(k, e)
           IN /\ Sound(y, next) /\ KeylessCleared(k2, y)
              /\ k2 \in [Epochs -> {"None", "Ready", "Dropped"}]
              /\ k2[e] # "Ready" /\ \A f \in Epochs : f # e => k2[f] = k[f]
              /\ k[e] = "Ready" => k2[e] = "Dropped"
              /\ k[e] # "Ready" => y = x /\ k2 = k
              /\ done /\ k[e] = "Ready" /\ (\A f \in Early : f = e \/ k[f] # "Ready") => ArmedFor(y)
              /\ \A f \in Epochs : Cleared(x, f) => Cleared(y, f)
<1>1. e \in Epochs
  BY DEF Early, Epochs
<1>2. CASE k[e] # "Ready"
  BY <1>2 DEF drop_epoch_state, Dropped
<1>3. CASE k[e] = "Ready"
  <2> DEFINE k2 == [k EXCEPT ![e] = "Dropped"]
             hs == handshake_status(k2, done, verified)
             y == on_pkt_num_space_discarded(x, e, hs)
  <2>1. drop_epoch_state(x, e, k, done, verified) = y /\ Dropped(k, e) = k2
    BY <1>3 DEF drop_epoch_state, Dropped
  <2>2. hs \in Statuses /\ hs.completed = done
    BY StatusType
  <2>3. /\ k2 \in [Epochs -> {"None", "Ready", "Dropped"}] /\ k2[e] = "Dropped"
        /\ \A f \in Epochs : f # e => k2[f] = k[f]
    BY <1>1
  <2> HIDE DEF hs, k2
  <2>4. /\ Sound(y, next) /\ Cleared(y, e)
        /\ \A f \in Epochs : Cleared(x, f) => Cleared(y, f)
        /\ hs.completed /\ (\A f \in Early : f = e \/ Cleared(x, f)) => ArmedFor(y)
    BY <2>2, DiscardSound
  <2> HIDE DEF y
  <2>5. KeylessCleared(k2, y)
    BY <2>3, <2>4 DEF KeylessCleared
  <2>6. ASSUME done, \A f \in Early : f = e \/ k[f] # "Ready" PROVE ArmedFor(y)
    <3>1. \A f \in Early : f = e \/ Cleared(x, f)
      BY <2>6 DEF KeylessCleared, Early, Epochs
    <3> QED
      BY <3>1, <2>2, <2>4, <2>6
  <2> QED
    BY <1>3, <2>1, <2>3, <2>4, <2>5, <2>6
<1> QED
  BY <1>2, <1>3

\* The Recovery one tick later.
Aged(x) ==
    [x EXCEPT !.time_sent = [p \in DOMAIN @ |-> Older(@[p], LossHorizon)],
              !.time_lost = [p \in DOMAIN @ |-> Older(@[p], RttHorizon)],
              !.loss_time = [e \in Epochs |-> {Older(t, LossHorizon) : t \in @[e]}],
              !.last_ae = [e \in Epochs |-> {Older(t, PtoHorizon) : t \in @[e]}],
              !.loss_timer = {Older(t, 0) : t \in @}]

\* An instant moves by one, unless it is old enough.
LEMMA OlderSpec ==
    ASSUME NEW t \in Int, NEW h \in Int
    PROVE  Older(t, h) = (IF t - 1 <= -h THEN -h ELSE t - 1)
BY OfTwo DEF Older

\* Time goes by for all instants alike, and nothing is counted anew.
LEMMA AgedSound ==
    ASSUME NEW x, NEW next, Sound(x, next)
    PROVE  /\ Sound(Aged(x), next)
           /\ \A f \in Epochs : Cleared(x, f) => Cleared(Aged(x), f)
           /\ ArmedFor(x) => ArmedFor(Aged(x))
<1> DEFINE sent == [p \in DOMAIN x.time_sent |-> Older(x.time_sent[p], LossHorizon)]
           lost == [p \in DOMAIN x.time_lost |-> Older(x.time_lost[p], RttHorizon)]
           times == [e \in Epochs |-> {Older(t, LossHorizon) : t \in x.loss_time[e]}]
           ae == [e \in Epochs |-> {Older(t, PtoHorizon) : t \in x.last_ae[e]}]
           timer == {Older(t, 0) : t \in x.loss_timer}
           y == Aged(x)
<1>1. /\ Listed(x) /\ x \in Recoveries /\ App \in Epochs
      /\ x.time_sent \in Times /\ x.time_lost \in Times
      /\ x.loss_time \in [Epochs -> SUBSET Int] /\ x.last_ae \in [Epochs -> SUBSET Int]
      /\ x.loss_timer \in SUBSET Int
  BY DEF Sound, Listed, Recoveries, App, Epochs
<1>2. /\ DOMAIN x.time_sent \subseteq Packets /\ DOMAIN x.time_lost \subseteq Packets
      /\ \A p \in DOMAIN x.time_sent : x.time_sent[p] \in Int
      /\ \A p \in DOMAIN x.time_lost : x.time_lost[p] \in Int
  BY <1>1 DEF Times
<1>3. LossHorizon \in Nat /\ LossHorizon = Longest.loss_delay /\ RttHorizon \in Int /\ PtoHorizon \in Int
  BY RecoveryAssumption DEF LossHorizon, RttHorizon, PtoHorizon
<1>4. /\ \A t \in Int : Older(t, LossHorizon) = (IF t - 1 <= -LossHorizon THEN -LossHorizon ELSE t - 1)
      /\ \A t \in Int : Older(t, RttHorizon) \in Int
      /\ \A t \in Int : Older(t, PtoHorizon) \in Int /\ t - 1 <= Older(t, PtoHorizon)
      /\ \A t \in Int : Older(t, 0) = (IF t - 1 <= 0 THEN 0 ELSE t - 1)
  BY <1>3, OlderSpec, SMTT(30)
<1>5. /\ sent \in [DOMAIN x.time_sent -> Int] /\ lost \in [DOMAIN x.time_lost -> Int]
  BY <1>2, <1>3, <1>4
<1>6. sent \in Times /\ lost \in Times
  BY <1>2, <1>5, InTimes
<1>7. /\ times \in [Epochs -> SUBSET Int] /\ ae \in [Epochs -> SUBSET Int]
      /\ timer \in SUBSET Int
  BY <1>1, <1>3, <1>4, SMTT(30)
<1>8. y = [x EXCEPT !.time_sent = sent, !.time_lost = lost, !.loss_time = times,
                    !.last_ae = ae, !.loss_timer = timer]
  BY DEF Aged
<1>9. /\ DOMAIN sent = DOMAIN x.time_sent /\ DOMAIN lost = DOMAIN x.time_lost
      /\ \A p \in DOMAIN sent : sent[p] = Older(x.time_sent[p], LossHorizon)
      /\ \A e \in Epochs : /\ times[e] = {Older(t, LossHorizon) : t \in x.loss_time[e]}
                           /\ ae[e] = {Older(t, PtoHorizon) : t \in x.last_ae[e]}
  OBVIOUS
<1> HIDE DEF sent, lost, times, ae, y
<1>10. /\ y \in Recoveries /\ y.time_sent = sent /\ y.time_lost = lost /\ y.acked = x.acked
       /\ y.largest_acked = x.largest_acked /\ y.loss_time = times /\ y.last_ae = ae
       /\ y.loss_timer = timer /\ y.est = x.est /\ y.pto_count = x.pto_count
       /\ y.bytes_in_flight = x.bytes_in_flight /\ y.in_flight_count = x.in_flight_count
  BY <1>1, <1>6, <1>7, <1>8 DEF Recoveries
<1>11. Unresolved(y) = Unresolved(x)
  BY <1>9, <1>10 DEF Unresolved
<1>12. Listed(y) /\ Numbered(y, next)
  BY <1>1, <1>9, <1>10 DEF Sound, Listed, Numbered
<1>13. Ordered(y)
  <2>1. \A p \in DOMAIN x.time_sent : sent[p] <= 0
    BY <1>2, <1>3, <1>4, <1>9 DEF Sound, Ordered
  <2>2. \A p, q \in DOMAIN x.time_sent : p.e = q.e /\ p.pn <= q.pn => x.time_sent[p] <= x.time_sent[q]
    BY DEF Sound, Ordered
  <2>3. \A p, q \in DOMAIN x.time_sent : p.e = q.e /\ p.pn <= q.pn => sent[p] <= sent[q]
    BY <2>2, <1>2, <1>3, <1>4, <1>9
  <2> QED
    BY <2>1, <2>3, <1>9, <1>10 DEF Ordered
<1>14. Suspects(y, App) = Suspects(x, App)
  BY <1>10, <1>11, SuspectsAre
<1>15. Outstanding(Unresolved(x)) \subseteq DOMAIN x.time_sent
  BY <1>1, UnresolvedFinite DEF Outstanding, Eliciting
<1>16. ASSUME NEW t \in Int, InTime(t, Unresolved(x), x.time_sent)
       PROVE  InTime(Older(t, LossHorizon), Unresolved(x), sent)
  <2>1. CASE Older(t, LossHorizon) = -LossHorizon
    BY <2>1, <1>3 DEF InTime
  <2>2. CASE Older(t, LossHorizon) # -LossHorizon
    <3>1. Older(t, LossHorizon) = t - 1
      BY <2>2, <1>4
    <3>2. CASE t <= 0
      BY <3>1, <3>2 DEF InTime
    <3>3. CASE ~(t <= 0)
      <4>1. /\ t <= Longest.loss_delay
            /\ \A p \in Outstanding(Unresolved(x)) : t <= x.time_sent[p] + Longest.loss_delay
        BY <3>3, <1>16 DEF InTime
      <4>2. \A p \in DOMAIN x.time_sent : sent[p] \in Int /\ x.time_sent[p] - 1 <= sent[p]
        BY <1>2, <1>3, <1>4, <1>9
      <4>3. \A p \in Outstanding(Unresolved(x)) : t - 1 <= sent[p] + Longest.loss_delay
        BY <4>1, <4>2, <1>2, <1>3, <1>15
      <4>4. t - 1 <= Longest.loss_delay
        BY <4>1, <1>3
      <4> QED
        BY <3>1, <4>3, <4>4 DEF InTime
    <3> QED
      BY <3>2, <3>3
  <2> QED
    BY <2>1, <2>2
<1>17. LossTimed(y)
  <2> SUFFICES ASSUME NEW s \in times[App]
               PROVE  Suspects(y, App) # {} /\ InTime(s, Unresolved(y), y.time_sent)
    BY <1>10 DEF LossTimed
  <2>1. PICK t \in x.loss_time[App] : s = Older(t, LossHorizon)
    BY <1>1, <1>9
  <2>2. t \in Int /\ Suspects(x, App) # {} /\ InTime(t, Unresolved(x), x.time_sent)
    BY <1>1 DEF Sound, LossTimed
  <2> QED
    BY <2>1, <2>2, <1>10, <1>11, <1>14, <1>16
<1>18. ProbeTimed(y)
  BY <1>1, <1>9, <1>10, <1>11 DEF Sound, ProbeTimed
<1>19. Counted(Unresolved(y), y.bytes_in_flight, y.in_flight_count, 0)
  BY <1>10, <1>11 DEF Sound
<1>20. \A f \in Epochs : Cleared(x, f) => Cleared(y, f)
  BY <1>9, <1>10 DEF Cleared, Sent
<1>21. ASSUME Armed(x, Unresolved(x), x.time_sent) PROVE Armed(y, Unresolved(y), y.time_sent)
  <2> DEFINE d == (x.est.pto + MaxAckDelay) * Backoff(x)
  <2>1. PICK t \in x.loss_timer :
          \/ t <= 0
          \/ \E u \in ProbeTime(x) : t <= u
          \/ \A p \in Outstanding(Unresolved(x)) : t <= x.time_sent[p] + Longest.loss_delay
    BY <1>21 DEF Armed
  <2>2. t \in Int /\ Older(t, 0) \in y.loss_timer
    BY <1>1, <1>10
  <2>3. CASE Older(t, 0) <= 0
    BY <2>2, <2>3 DEF Armed
  <2>4. CASE ~(Older(t, 0) <= 0)
    <3>1. Older(t, 0) = t - 1 /\ ~(t <= 0)
      BY <2>2, <2>4, <1>4
    <3>2. CASE \E u \in ProbeTime(x) : t <= u
      <4>1. d \in Int
        BY <1>1, EstType
      <4> HIDE DEF d
      <4>2. PICK a \in x.last_ae[App] : t <= a + d
        BY <3>2 DEF ProbeTime, Add, d
      <4>3. Older(a, PtoHorizon) \in ae[App] /\ a \in Int
        BY <1>1, <1>9
      <4>4. t - 1 <= Older(a, PtoHorizon) + d
        BY <2>2, <4>1, <4>2, <4>3, <1>4
      <4>5. Older(a, PtoHorizon) + d \in ProbeTime(y)
        BY <4>3, <1>10 DEF ProbeTime, Add, Backoff, d
      <4> QED
        BY <2>2, <3>1, <4>4, <4>5 DEF Armed
    <3>3. CASE \A p \in Outstanding(Unresolved(x)) : t <= x.time_sent[p] + Longest.loss_delay
      <4>1. \A p \in DOMAIN x.time_sent : sent[p] \in Int /\ x.time_sent[p] - 1 <= sent[p]
        BY <1>2, <1>3, <1>4, <1>9
      <4>2. \A p \in Outstanding(Unresolved(x)) : t - 1 <= sent[p] + Longest.loss_delay
        BY <2>2, <3>3, <4>1, <1>2, <1>3, <1>15
      <4> QED
        BY <2>2, <3>1, <4>2, <1>10, <1>11 DEF Armed
    <3> QED
      BY <2>1, <3>1, <3>2, <3>3
  <2> QED
    BY <2>3, <2>4
<1>22. ArmedFor(x) => ArmedFor(y)
  BY <1>11, <1>21 DEF ArmedFor
<1>23. Sound(y, next)
  BY <1>12, <1>13, <1>17, <1>18, <1>19 DEF Sound
<1> QED
  BY <1>20, <1>22, <1>23 DEF y

\* The invariant holds at first: nothing has been sent.
LEMMA InitInv == Init => IInv
<1> SUFFICES ASSUME Init PROVE IInv
  OBVIOUS
<1>1. HandshakeType /\ Stages
  <2>1. /\ is_server \in BOOLEAN /\ completed = FALSE /\ confirmed = FALSE
        /\ peer_verified = is_server /\ next_pn = [e \in Epochs |-> 0]
        /\ keys = [e \in Epochs |-> IF e = "Initial" THEN "Ready" ELSE "None"]
    BY RecoveryAssumption DEF Init
  <2>2. HandshakeType
    BY <2>1 DEF HandshakeType
  <2>3. keys["Handshake"] = "None" /\ next_pn["Handshake"] = 0
    BY <2>1 DEF Epochs
  <2> QED
    BY <2>1, <2>2, <2>3 DEF Stages
<1>2. <<>> \in Times /\ DOMAIN <<>> = {}
  <2>1. <<>> \in [{} -> Int]
    OBVIOUS
  <2> QED
    BY <2>1, InTimes
<1>3. PICK est \in Rtts :
        r = [time_sent |-> <<>>, time_lost |-> <<>>, acked |-> {},
             largest_acked |-> [e \in Epochs |-> {}],
             loss_time |-> [e \in Epochs |-> {}],
             last_ae |-> [e \in Epochs |-> {}],
             loss_probes |-> [e \in Epochs |-> 0],
             in_flight_count |-> [e \in Epochs |-> 0],
             loss_timer |-> {}, pto_count |-> 0,
             bytes_in_flight |-> 0, pkt_thresh |-> InitThresh,
             outstanding |-> 0, est |-> est]
  BY DEF Init
<1>4. /\ r.time_sent = <<>> /\ r.time_lost = <<>> /\ r.acked = {}
      /\ r.loss_time = [e \in Epochs |-> {}]
      /\ r.in_flight_count = [e \in Epochs |-> 0] /\ r.bytes_in_flight = 0
  BY <1>3
<1>5. r \in Recoveries
  <2>1. {} \in Options(Nat) /\ InitThresh \in Int
    BY RecoveryAssumption DEF Options
  <2> QED
    BY <1>2, <1>3, <2>1 DEF Recoveries
<1>6. Unresolved(r) = {} /\ \A e : Sent(r, e) = {}
  BY <1>2, <1>4 DEF Unresolved, Sent
<1>7. Listed(r) /\ Numbered(r, next_pn) /\ Ordered(r)
  BY <1>2, <1>4, <1>5, FS_EmptySet DEF Listed, Numbered, Ordered
<1>8. Outstanding(Unresolved(r)) = {} /\ r.loss_time[App] = {}
  BY <1>4, <1>6 DEF Outstanding, Eliciting, App, Epochs
<1>9. LossTimed(r) /\ ProbeTimed(r) /\ ArmedFor(r)
  BY <1>8 DEF LossTimed, ProbeTimed, ArmedFor
<1>10. Counted(Unresolved(r), r.bytes_in_flight, r.in_flight_count, 0)
  <2>1. /\ Eliciting(Unresolved(r)) = {}
        /\ \A e \in Epochs : InFlight({p \in Unresolved(r) : p.e = e}) = {}
    BY <1>6 DEF Eliciting, InFlight
  <2>2. Cardinality(Eliciting(Unresolved(r))) = 0
    BY <2>1, FS_EmptySet
  <2>3. \A e \in Epochs : Cardinality(InFlight({p \in Unresolved(r) : p.e = e})) = 0
    BY <2>1, FS_EmptySet
  <2> QED
    BY <2>2, <2>3, <1>4 DEF Counted
<1>11. KeylessCleared(keys, r)
  BY <1>4, <1>6 DEF KeylessCleared, Cleared
<1> QED
  BY <1>1, <1>7, <1>9, <1>10, <1>11 DEF IInv, Sound

\* Every step keeps it.
LEMMA StepInv == IInv /\ [Next]_vars => IInv'
<1> SUFFICES ASSUME IInv, [Next]_vars PROVE IInv'
  OBVIOUS
<1> DEFINE Keys == [Epochs -> {"None", "Ready", "Dropped"}]
<1>1. /\ HandshakeType /\ Stages /\ Sound(r, next_pn) /\ KeylessCleared(keys, r)
      /\ confirmed => ArmedFor(r)
      /\ is_server \in BOOLEAN /\ completed \in BOOLEAN /\ confirmed \in BOOLEAN
      /\ peer_verified \in BOOLEAN /\ keys \in Keys /\ next_pn \in [Epochs -> Nat]
  BY DEF IInv, HandshakeType
<1>2. /\ "Initial" \in Early /\ "Handshake" \in Early /\ App \notin Early
      /\ Early \subseteq Epochs /\ App \in Epochs
  BY DEF Early, Epochs, App
<1>3. /\ Current \in Statuses /\ Current.completed = completed
  BY <1>1, StatusType DEF Current
<1>4. confirmed => completed /\ OnlyApp(r)
  BY <1>1, <1>2 DEF Stages, KeylessCleared, OnlyApp
<1>5. ASSUME NEW e \in Epochs, NEW kind \in AllKinds, Send(e, kind) PROVE IInv'
  <2> DEFINE p == [e |-> e, pn |-> next_pn[e], kind |-> kind]
             x == ping_sent(r, p)
             y == on_packet_sent(x, p, Current)
             ends == ~is_server /\ e = "Handshake"
             next2 == [next_pn EXCEPT ![e] = @ + 1]
  <2>1. /\ keys[e] = "Ready" /\ next_pn' = next2
        /\ r' = IF ends THEN drop_epoch_state(y, "Initial", keys, completed, peer_verified) ELSE y
        /\ keys' = IF ends THEN Dropped(keys, "Initial") ELSE keys
        /\ UNCHANGED <<is_server, completed, confirmed, peer_verified>>
    BY <1>5 DEF Send
  <2>2. p \in Packets /\ p.e = e /\ p.pn = next_pn[e]
    BY <1>1 DEF Packets
  <2> HIDE DEF p
  <2>3. /\ Sound(x, next_pn) /\ \A f \in Epochs : Cleared(x, f) <=> Cleared(r, f)
        /\ ArmedFor(r) => ArmedFor(x)
    BY <2>2, <1>1, PingSound
  <2> HIDE DEF x
  <2>4. /\ Sound(y, next2) /\ \A f \in Epochs : f # e /\ Cleared(x, f) => Cleared(y, f)
        /\ Current.completed /\ e = App /\ OnlyApp(x) /\ ArmedFor(x) => ArmedFor(y)
    BY <2>2, <2>3, <1>1, <1>3, SentSound
  <2> HIDE DEF y
  <2>5. KeylessCleared(keys, y)
    BY <2>1, <2>3, <2>4, <1>1 DEF KeylessCleared
  <2>6. next2 \in [Epochs -> Nat] /\ (e # "Handshake" => next2["Handshake"] = next_pn["Handshake"])
    BY <1>1, <1>2
  <2>7. confirmed => ArmedFor(y) /\ ~ends
    <3>1. confirmed => e = App
      BY <2>1, <1>1 DEF Stages, Early, Epochs, App
    <3>2. OnlyApp(r) => OnlyApp(x)
      BY <2>3, <1>2 DEF OnlyApp
    <3> QED
      BY <3>1, <3>2, <2>3, <2>4, <1>1, <1>2, <1>3, <1>4
  <2> HIDE DEF next2
  <2>8. CASE ~ends
    <3>1. r' = y /\ keys' = keys
      BY <2>1, <2>8
    <3>2. HandshakeType'
      BY <2>1, <2>6, <3>1, <1>1 DEF HandshakeType
    <3>3. Stages'
      BY <2>1, <2>6, <2>8, <3>1, <1>1 DEF Stages
    <3> QED
      BY <2>1, <2>4, <2>5, <2>7, <3>1, <3>2, <3>3 DEF IInv
  <2>9. CASE ends
    <3> DEFINE z == drop_epoch_state(y, "Initial", keys, completed, peer_verified)
               k2 == Dropped(keys, "Initial")
    <3>1. /\ Sound(z, next2) /\ KeylessCleared(k2, z) /\ k2 \in Keys
          /\ k2["Initial"] # "Ready" /\ \A f \in Epochs : f # "Initial" => k2[f] = keys[f]
      BY <2>4, <2>5, <1>1, <1>2, DropSound
    <3>2. r' = z /\ keys' = k2
      BY <2>1, <2>9
    <3> HIDE DEF z, k2
    <3>3. HandshakeType'
      BY <2>1, <2>6, <3>1, <3>2, <1>1 DEF HandshakeType
    <3>4. k2["Handshake"] = keys["Handshake"]
      BY <3>1, <1>2
    <3>5. Stages'
      BY <2>1, <2>7, <2>9, <3>1, <3>2, <3>4, <1>1 DEF Stages
    <3> QED
      BY <2>1, <2>7, <2>9, <3>1, <3>2, <3>3, <3>5 DEF IInv
  <2> QED
    BY <2>8, <2>9
<1>6. ASSUME NEW e \in Epochs, NEW est \in Rtts,
             NEW ranges \in (SUBSET (0 .. next_pn[e] - 1)) \ {{}}, RecvAck(e, ranges, est)
      PROVE  IInv'
  <2> DEFINE verified == peer_verified \/ e = "Handshake" \/ (e = App /\ completed)
             hs == handshake_status(keys, completed, verified)
             x == on_ack_received(r, e, ranges, est, hs)
  <2>1. /\ peer_verified' = verified
        /\ r' = IF confirmed THEN drop_epoch_state(x, "Handshake", keys, completed, verified) ELSE x
        /\ keys' = IF confirmed THEN Dropped(keys, "Handshake") ELSE keys
        /\ UNCHANGED <<is_server, completed, confirmed, next_pn>>
    BY <1>6 DEF RecvAck, App
  <2>2. verified \in BOOLEAN
    BY <1>1
  <2> HIDE DEF verified
  <2>3. hs \in Statuses /\ hs.completed = completed
    BY <2>2, <1>1, StatusType
  <2> HIDE DEF hs
  <2>4. /\ Sound(x, next_pn) /\ \A f \in Epochs : Cleared(r, f) => Cleared(x, f)
        /\ hs.completed /\ OnlyApp(r) /\ ArmedFor(r) => ArmedFor(x)
    <3>1. ranges \subseteq 0 .. next_pn[e] - 1 /\ ranges # {}
      OBVIOUS
    <3> QED
      BY <3>1, <2>3, <1>1, AckSound
  <2> HIDE DEF x
  <2>5. r' = x /\ keys' = keys
    <3>1. confirmed => keys["Handshake"] # "Ready"
      BY <1>1, <1>2 DEF Stages
    <3> QED
      BY <3>1, <2>1 DEF drop_epoch_state, Dropped
  <2>6. KeylessCleared(keys, x)
    BY <2>4, <1>1 DEF KeylessCleared
  <2>7. HandshakeType' /\ Stages'
    BY <2>1, <2>2, <2>5, <1>1 DEF HandshakeType, Stages
  <2> QED
    BY <2>1, <2>3, <2>4, <2>5, <2>6, <2>7, <1>1, <1>4 DEF IInv
<1>7. CASE Timeout
  <2>1. r' = on_loss_detection_timeout(r, Current) /\ UNCHANGED <<handshakeVars, next_pn>>
    BY <1>7 DEF Timeout
  <2>2. /\ Sound(r', next_pn) /\ \A f \in Epochs : Cleared(r, f) => Cleared(r', f)
        /\ Current.completed /\ OnlyApp(r) => ArmedFor(r')
    BY <2>1, <1>1, <1>3, TimeoutSound
  <2>3. KeylessCleared(keys, r')
    BY <2>2, <1>1 DEF KeylessCleared
  <2>4. HandshakeType' /\ Stages'
    BY <2>1, <1>1 DEF HandshakeType, Stages, handshakeVars
  <2> QED
    BY <2>1, <2>2, <2>3, <2>4, <1>3, <1>4 DEF IInv, handshakeVars
<1>8. ASSUME NEW e \in {"Handshake", App}, keys[e] = "None",
             keys' = [keys EXCEPT ![e] = "Ready"],
             UNCHANGED <<is_server, completed, confirmed, peer_verified, next_pn, r>>
      PROVE  IInv'
  <2>1. keys' \in Keys /\ keys'[e] = "Ready" /\ \A f \in Epochs : f # e => keys'[f] = keys[f]
    BY <1>1, <1>2, <1>8
  <2>2. HandshakeType'
    BY <2>1, <1>1, <1>8 DEF HandshakeType
  <2>3. Stages'
    <3>1. keys'["Initial"] = keys["Initial"]
      BY <2>1, <1>2 DEF App
    <3>2. CASE e = "Handshake"
      BY <2>1, <3>1, <3>2, <1>1, <1>8 DEF Stages
    <3>3. CASE e = App
      <4>1. keys'["Handshake"] = keys["Handshake"]
        BY <2>1, <3>3, <1>2 DEF App
      <4> QED
        BY <3>1, <4>1, <1>1, <1>8 DEF Stages, Early
    <3> QED
      BY <3>2, <3>3
  <2>4. KeylessCleared(keys', r)
    BY <2>1, <1>1 DEF KeylessCleared
  <2> QED
    BY <2>2, <2>3, <2>4, <1>1, <1>8 DEF IInv
<1>9. CASE InstallHandshakeKeys
  BY <1>8, <1>9 DEF InstallHandshakeKeys
<1>10. CASE InstallAppKeys
  BY <1>8, <1>10 DEF InstallAppKeys, App
<1>11. CASE Complete
  <2>0. PICK done \in BOOLEAN : done = TRUE
    OBVIOUS
  <2> DEFINE k == Dropped(keys, "Handshake")
             x == drop_epoch_state(r, "Handshake", keys, done, peer_verified)
             k2 == Dropped(k, "Initial")
             y == drop_epoch_state(x, "Initial", k, done, peer_verified)
  <2>1. /\ keys["Handshake"] = "Ready" /\ ~completed /\ completed' = TRUE
        /\ confirmed' = is_server
        /\ UNCHANGED <<is_server, peer_verified, next_pn>>
        /\ is_server => keys' = k2 /\ r' = y
        /\ ~is_server => UNCHANGED <<keys, r>>
    BY <2>0, <1>11 DEF Complete
  <2>2. CASE ~is_server
    <3>1. HandshakeType' /\ Stages'
      BY <2>1, <2>2, <1>1 DEF HandshakeType, Stages
    <3> QED
      BY <2>1, <2>2, <3>1, <1>1 DEF IInv
  <2>3. CASE is_server
    <3>1. /\ Sound(x, next_pn) /\ KeylessCleared(k, x) /\ k \in Keys
          /\ k["Handshake"] = "Dropped" /\ \A f \in Epochs : f # "Handshake" => k[f] = keys[f]
          /\ (\A f \in Early : f = "Handshake" \/ keys[f] # "Ready") => ArmedFor(x)
      <4>1. /\ done \in BOOLEAN /\ peer_verified \in BOOLEAN /\ keys \in Keys
            /\ Sound(r, next_pn) /\ KeylessCleared(keys, r) /\ "Handshake" \in Early
        BY <1>1, <1>2
      <4>2. /\ Sound(x, next_pn) /\ KeylessCleared(k, x) /\ k \in Keys
            /\ \A f \in Epochs : f # "Handshake" => k[f] = keys[f]
        BY <4>1, DropSound
      <4>3. k["Handshake"] = "Dropped"
        BY <4>1, <2>1, DropSound
      <4>4. (\A f \in Early : f = "Handshake" \/ keys[f] # "Ready") => ArmedFor(x)
        BY <4>1, <2>0, <2>1, DropSound
      <4> HIDE DEF k, x
      <4> QED
        BY <4>2, <4>3, <4>4
    <3> HIDE DEF k, x
    <3>2. /\ Sound(y, next_pn) /\ KeylessCleared(k2, y) /\ k2 \in Keys
          /\ k2["Initial"] # "Ready" /\ \A f \in Epochs : f # "Initial" => k2[f] = k[f]
          /\ k["Initial"] # "Ready" => y = x
          /\ k["Initial"] = "Ready" /\ (\A f \in Early : f = "Initial" \/ k[f] # "Ready") => ArmedFor(y)
      <4>1. /\ done \in BOOLEAN /\ peer_verified \in BOOLEAN /\ k \in Keys
            /\ Sound(x, next_pn) /\ KeylessCleared(k, x) /\ "Initial" \in Early
        BY <3>1, <1>1, <1>2
      <4>2. /\ Sound(y, next_pn) /\ KeylessCleared(k2, y) /\ k2 \in Keys
            /\ k2["Initial"] # "Ready" /\ \A f \in Epochs : f # "Initial" => k2[f] = k[f]
        BY <4>1, DropSound
      <4>3. k["Initial"] # "Ready" => y = x
        BY <4>1, DropSound
      <4>4. k["Initial"] = "Ready" /\ (\A f \in Early : f = "Initial" \/ k[f] # "Ready") => ArmedFor(y)
        BY <4>1, <2>0, DropSound
      <4> HIDE DEF k2, y
      <4> QED
        BY <4>2, <4>3, <4>4
    <3> HIDE DEF k2, y
    <3>3. ArmedFor(y)
      <4>1. CASE k["Initial"] = "Ready"
        BY <4>1, <3>1, <3>2 DEF Early
      <4>2. CASE k["Initial"] # "Ready"
        <5>1. keys["Initial"] # "Ready"
          BY <4>2, <3>1, <1>2
        <5> QED
          BY <5>1, <4>2, <3>1, <3>2 DEF Early
      <4> QED
        BY <4>1, <4>2
    <3>4. k2["Handshake"] = "Dropped"
      BY <3>1, <3>2, <1>2
    <3>5. HandshakeType' /\ Stages'
      BY <2>1, <2>3, <3>2, <3>4, <1>1 DEF HandshakeType, Stages, Early
    <3> QED
      BY <2>1, <2>3, <3>2, <3>3, <3>5 DEF IInv
  <2> QED
    BY <2>2, <2>3
<1>12. CASE RecvHandshakePacket
  <2> DEFINE k2 == Dropped(keys, "Initial")
             y == drop_epoch_state(r, "Initial", keys, completed, peer_verified)
  <2>1. /\ keys["Handshake"] = "Ready" /\ keys' = k2 /\ r' = y
        /\ UNCHANGED <<is_server, completed, confirmed, peer_verified, next_pn>>
    BY <1>12 DEF RecvHandshakePacket
  <2>2. /\ Sound(y, next_pn) /\ KeylessCleared(k2, y) /\ k2 \in Keys
        /\ k2["Initial"] # "Ready" /\ \A f \in Epochs : f # "Initial" => k2[f] = keys[f]
    BY <1>1, <1>2, DropSound
  <2> HIDE DEF k2, y
  <2>3. ~confirmed /\ k2["Handshake"] = "Ready"
    BY <2>1, <2>2, <1>1, <1>2 DEF Stages
  <2>4. HandshakeType' /\ Stages'
    BY <2>1, <2>2, <2>3, <1>1 DEF HandshakeType, Stages
  <2> QED
    BY <2>1, <2>2, <2>3, <2>4 DEF IInv
<1>13. CASE HandshakeDone
  <2>0. PICK verified \in BOOLEAN : verified = TRUE
    OBVIOUS
  <2> DEFINE k2 == Dropped(keys, "Handshake")
             y == drop_epoch_state(r, "Handshake", keys, completed, verified)
  <2>1. /\ ~is_server /\ completed /\ next_pn["Handshake"] > 0
        /\ peer_verified' = TRUE /\ confirmed' = TRUE /\ keys' = k2 /\ r' = y
        /\ UNCHANGED <<is_server, completed, next_pn>>
    BY <2>0, <1>13 DEF HandshakeDone
  <2>2. /\ Sound(y, next_pn) /\ KeylessCleared(k2, y) /\ k2 \in Keys
        /\ k2["Handshake"] # "Ready" /\ \A f \in Epochs : f # "Handshake" => k2[f] = keys[f]
        /\ keys["Handshake"] # "Ready" => y = r /\ k2 = keys
        /\ keys["Handshake"] = "Ready" => k2["Handshake"] = "Dropped"
        /\ completed /\ keys["Handshake"] = "Ready"
           /\ (\A f \in Early : f = "Handshake" \/ keys[f] # "Ready") => ArmedFor(y)
    BY <1>1, <1>2, DropSound
  <2> HIDE DEF k2, y
  <2>3. keys["Initial"] # "Ready" /\ k2["Initial"] = keys["Initial"] /\ keys["Handshake"] # "None"
    BY <2>1, <2>2, <1>1, <1>2 DEF Stages
  <2>4. ArmedFor(y)
    <3>1. CASE keys["Handshake"] = "Ready"
      BY <3>1, <2>1, <2>2, <2>3 DEF Early
    <3>2. CASE keys["Handshake"] # "Ready"
      <4>1. keys["Handshake"] = "Dropped"
        BY <3>2, <2>3, <1>1, <1>2
      <4> QED
        BY <4>1, <3>2, <2>2, <1>1 DEF Stages
    <3> QED
      BY <3>1, <3>2
  <2>5. k2["Handshake"] # "None"
    BY <2>2, <2>3
  <2>6. HandshakeType' /\ Stages'
    BY <2>1, <2>2, <2>3, <2>5, <1>1 DEF HandshakeType, Stages, Early
  <2> QED
    BY <2>1, <2>2, <2>4, <2>6 DEF IInv
<1>14. CASE Restart
  <2> DEFINE y == drop_epoch_state(r, "Initial", keys, completed, peer_verified)
  <2>1. /\ keys["Handshake"] = "None" /\ r' = y /\ UNCHANGED <<handshakeVars, next_pn>>
    BY <1>14 DEF Restart
  <2>2. Sound(y, next_pn) /\ \A f \in Epochs : Cleared(r, f) => Cleared(y, f)
    BY <1>1, <1>2, DropSound
  <2> HIDE DEF y
  <2>3. KeylessCleared(keys, y) /\ ~confirmed
    BY <2>1, <2>2, <1>1 DEF KeylessCleared, Stages
  <2>4. HandshakeType' /\ Stages'
    BY <2>1, <1>1 DEF HandshakeType, Stages, handshakeVars
  <2> QED
    BY <2>1, <2>2, <2>3, <2>4 DEF IInv, handshakeVars
<1>15. CASE PathChange
  <2> DEFINE a == detect_lost_packets(r, "Initial")
             b == detect_lost_packets(a, "Handshake")
             c == detect_lost_packets(b, App)
  <2>1. r' = c /\ UNCHANGED <<handshakeVars, next_pn>>
    BY <1>15 DEF PathChange, App
  <2>2. ASSUME NEW x, Sound(x, next_pn), NEW e \in Epochs
        PROVE  LET y == detect_lost_packets(x, e)
               IN /\ Sound(y, next_pn)
                  /\ ArmedFor(x) => ArmedFor(y)
                  /\ \A f \in Epochs : Cleared(x, f) => Cleared(y, f)
    <3>1. Listed(x) /\ Numbered(x, next_pn) /\ Ordered(x) /\ LossTimed(x) /\ ProbeTimed(x) /\ 0 \in Int
      BY <2>2 DEF Sound
    <3>2. Counted(Unresolved(x), x.bytes_in_flight, x.in_flight_count, 0)
      BY <2>2 DEF Sound
    <3> QED
      BY <3>1, <3>2, DetectSound DEF Sound
  <2>3. /\ Sound(a, next_pn)
        /\ ArmedFor(r) => ArmedFor(a)
        /\ \A f \in Epochs : Cleared(r, f) => Cleared(a, f)
    BY <2>2, <1>1, <1>2
  <2> HIDE DEF a
  <2>4. /\ Sound(b, next_pn)
        /\ ArmedFor(a) => ArmedFor(b)
        /\ \A f \in Epochs : Cleared(a, f) => Cleared(b, f)
    BY <2>2, <2>3, <1>2
  <2> HIDE DEF b
  <2>5. /\ Sound(c, next_pn)
        /\ ArmedFor(b) => ArmedFor(c)
        /\ \A f \in Epochs : Cleared(b, f) => Cleared(c, f)
    BY <2>2, <2>4, <1>2
  <2> HIDE DEF c
  <2>6. KeylessCleared(keys, c)
    BY <2>3, <2>4, <2>5, <1>1 DEF KeylessCleared
  <2>7. HandshakeType' /\ Stages'
    BY <2>1, <1>1 DEF HandshakeType, Stages, handshakeVars
  <2> QED
    BY <2>1, <2>3, <2>4, <2>5, <2>6, <2>7, <1>1 DEF IInv, handshakeVars
<1>18. CASE SendElsewhere
  <2> DEFINE next2 == [next_pn EXCEPT ![App] = @ + 1]
  <2>1. next_pn' = next2 /\ UNCHANGED <<handshakeVars, r>>
    BY <1>18 DEF SendElsewhere, App
  <2>2. /\ next2 \in [Epochs -> Nat] /\ next2["Handshake"] = next_pn["Handshake"]
        /\ \A f \in Epochs : next_pn[f] <= next2[f]
    BY <1>1, <1>2 DEF App
  <2> HIDE DEF next2
  <2>3. Sound(r, next2)
    <3>1. \A p \in DOMAIN r.time_sent : p.pn \in Nat /\ p.e \in Epochs
      BY <1>1, UnresolvedFinite DEF Sound, Packets
    <3>2. Numbered(r, next2)
      BY <2>2, <3>1, <1>1 DEF Sound, Numbered
    <3> QED
      BY <3>2, <1>1 DEF Sound
  <2>4. HandshakeType' /\ Stages'
    BY <2>1, <2>2, <1>1 DEF HandshakeType, Stages, handshakeVars
  <2> QED
    BY <2>1, <2>3, <2>4, <1>1 DEF IInv, handshakeVars
<1>16. CASE Tick
  <2>1. r' = Aged(r) /\ UNCHANGED <<handshakeVars, next_pn>>
    BY <1>16 DEF Tick, Aged
  <2>2. /\ Sound(Aged(r), next_pn)
        /\ ArmedFor(r) => ArmedFor(Aged(r))
        /\ \A f \in Epochs : Cleared(r, f) => Cleared(Aged(r), f)
    BY <1>1, AgedSound
  <2>3. KeylessCleared(keys, Aged(r))
    BY <2>2, <1>1 DEF KeylessCleared
  <2>4. HandshakeType' /\ Stages'
    BY <2>1, <1>1 DEF HandshakeType, Stages, handshakeVars
  <2> QED
    BY <2>1, <2>2, <2>3, <2>4, <1>1 DEF IInv, handshakeVars
<1>17. CASE UNCHANGED vars
  <2>1. UNCHANGED <<is_server, keys, completed, confirmed, peer_verified, next_pn, r>>
    BY <1>17 DEF vars, handshakeVars
  <2>2. HandshakeType' /\ Stages'
    BY <2>1, <1>1 DEF HandshakeType, Stages
  <2> QED
    BY <2>1, <2>2, <1>1 DEF IInv
<1> QED
  BY <1>5, <1>6, <1>7, <1>9, <1>10, <1>11, <1>12, <1>13, <1>14, <1>15, <1>16, <1>17, <1>18
  DEF Next

\* The invariant holds of every behaviour.
THEOREM Invariance == Spec => []IInv
<1>1. Init => IInv
  BY InitInv
<1>2. IInv /\ [Next]_vars => IInv'
  BY StepInv
<1> QED
  BY <1>1, <1>2, PTL DEF Spec

-----------------------------------------------------------------------------
(* What it shows.                                                             *)

\* bytes_in_flight and the in_flight_count of every space are what is sent and neither
\* acked, lost nor discarded, after any acks, losses, timeouts and path changes.
THEOREM AccountingHolds == Spec => []Accounting
<1>1. IInv => Accounting
  <2> SUFFICES ASSUME IInv PROVE Accounting
    OBVIOUS
  <2>1. Listed(r) /\ Counted(Unresolved(r), r.bytes_in_flight, r.in_flight_count, 0)
    BY DEF IInv, Sound
  <2>2. IsFiniteSet(Eliciting(Unresolved(r)))
    BY <2>1, UnresolvedFinite, FS_Subset DEF Eliciting
  <2>3. Cardinality(Eliciting(Unresolved(r))) \in Nat
    BY <2>2, FS_CardinalityType
  <2>4. r.bytes_in_flight = Cardinality(Eliciting(Unresolved(r)))
    BY <2>1, <2>3 DEF Counted
  <2>5. ASSUME NEW e \in Epochs
        PROVE  r.in_flight_count[e] = Cardinality(InFlight(Unresolved(r) \cap Sent(r, e)))
    <3>1. {p \in Unresolved(r) : p.e = e} = Unresolved(r) \cap Sent(r, e)
      BY DEF Unresolved, Sent
    <3> QED
      BY <3>1, <2>1 DEF Counted
  <2> QED
    BY <2>4, <2>5 DEF Accounting
<1> QED
  BY <1>1, Invariance, PTL

\* With the handshake confirmed every packet that elicits an ack is a 1-RTT one.
LEMMA ConfirmedOutstanding ==
    ASSUME IInv, confirmed
    PROVE  /\ OnlyApp(r) /\ Outstanding(Unresolved(r)) = Eliciting(Unresolved(r))
<1>1. Listed(r) /\ OnlyApp(r)
  BY DEF IInv, Sound, Stages, KeylessCleared, OnlyApp, Early, Epochs
<1>2. \A p \in Unresolved(r) : p.e = App
  BY <1>1, OnlyAppUnresolved
<1> QED
  BY <1>1, <1>2 DEF Outstanding, Eliciting

\* The timer is armed in time as long as a 1-RTT packet that elicits an ack is outstanding
\* after the handshake, whatever set it last.
THEOREM TimerInTimeHolds == Spec => []TimerInTime
<1>1. IInv => TimerInTime
  <2> SUFFICES ASSUME IInv, confirmed, Eliciting(Unresolved(r)) # {}
               PROVE  Armed(r, Unresolved(r), r.time_sent)
    BY ConfirmedOutstanding DEF TimerInTime, Armed, ProbeTime, App
  <2> QED
    BY ConfirmedOutstanding DEF IInv, ArmedFor
<1> QED
  BY <1>1, Invariance, PTL

\* With 1-RTT packets outstanding, a timeout declares one lost, asks for probes in
\* that space or arms the timer for the moment one is lost.
LEMMA TimeoutStep ==
    ASSUME IInv, Timeout, confirmed, Eliciting(Unresolved(r)) # {}
    PROVE  \/ Unresolved(r') # Unresolved(r)
           \/ r'.loss_probes[App] > 0
           \/ \E t \in r'.loss_timer : t > 0 /\ t \in r'.loss_time[App]
<1> DEFINE loss == loss_time_and_space(r)
           hs == Current
<1>1. /\ Sound(r, next_pn) /\ Listed(r) /\ Ordered(r) /\ r \in Recoveries /\ App \in Epochs
      /\ OnlyApp(r) /\ Outstanding(Unresolved(r)) # {}
      /\ completed \in BOOLEAN /\ peer_verified \in BOOLEAN /\ completed = TRUE
  BY ConfirmedOutstanding DEF IInv, HandshakeType, Stages, Sound, Listed, App, Epochs
<1>2. hs \in Statuses /\ hs.completed
  BY <1>1, StatusType DEF Current
<1>3. r' = on_loss_detection_timeout(r, hs)
  BY DEF Timeout
<1>4. loss = [time |-> r.loss_time[App], e |-> App]
  BY <1>1, LossTimeSpec DEF OnlyApp, Cleared
<1>5. \A p \in Unresolved(r) : p.e = App
  BY <1>1, OnlyAppUnresolved
<1>6. /\ IsFiniteSet(Unresolved(r))
      /\ Counted(Unresolved(r), r.bytes_in_flight, r.in_flight_count, 0)
  BY <1>1, UnresolvedFinite DEF Sound
<1> HIDE DEF hs
<1>7. CASE r.loss_time[App] # {}
  <2> DEFINE y == detect_lost_packets(r, App)
  <2>1. r' = set_loss_detection_timer(y, hs)
    BY <1>3, <1>4, <1>7 DEF on_loss_detection_timeout
  <2>2. /\ Listed(y) /\ SameTimer(r, y)
        /\ LostPackets(r, App) \subseteq {p \in Unresolved(r) : p.e = App}
        /\ Unresolved(y) = Unresolved(r) \ LostPackets(r, App)
        /\ LostPackets(r, App) = {} /\ Suspects(r, App) # {} =>
             y.loss_time[App] # {} /\ \A t \in y.loss_time[App] : t > 0
    BY <1>1, DetectSpec
  <2>3. /\ Listed(y) /\ Numbered(y, next_pn) /\ LossTimed(y) /\ ProbeTimed(y) /\ Ordered(y)
        /\ Counted(Unresolved(y), y.bytes_in_flight, y.in_flight_count, 0)
        /\ \A f \in Epochs : Cleared(r, f) => Cleared(y, f)
    <3>1. Numbered(r, next_pn) /\ LossTimed(r) /\ ProbeTimed(r) /\ 0 \in Int
      BY <1>1 DEF Sound
    <3> QED
      BY <3>1, <1>1, <1>6, DetectSound
  <2> HIDE DEF y
  <2>4. Sound(y, next_pn)
    BY <2>3 DEF Sound
  <2>5. y \in Recoveries
    BY <2>2 DEF Listed
  <2>6. Unresolved(r') = Unresolved(y) /\ r' = [y EXCEPT !.loss_timer = r'.loss_timer]
    BY <2>1, <2>4, <1>2, SetTimerSound
  <2>7. CASE LostPackets(r, App) # {}
    BY <2>2, <2>6, <2>7
  <2>8. CASE LostPackets(r, App) = {}
    <3>1. Suspects(r, App) # {}
      BY <1>1, <1>7 DEF Sound, LossTimed
    <3>2. y.loss_time[App] # {} /\ \A t \in y.loss_time[App] : t > 0
      BY <2>2, <2>8, <3>1
    <3>3. \A e \in Early : y.loss_time[e] = {}
      BY <2>3, <1>1 DEF OnlyApp, Cleared, Early, Epochs
    <3>4. loss_time_and_space(y).time = y.loss_time[App]
      BY <2>5, <3>3, LossTimeSpec
    <3>5. r' = [y EXCEPT !.loss_timer = Due(y.loss_time[App])]
      BY <2>1, <3>2, <3>4 DEF set_loss_detection_timer
    <3>6. r'.loss_timer = Due(y.loss_time[App]) /\ r'.loss_time = y.loss_time
      BY <2>5, <3>5 DEF Recoveries
    <3>7. y.loss_time[App] \in SUBSET Int
      BY <2>5, <1>1 DEF Recoveries
    <3>8. PICK t \in Due(y.loss_time[App]) : t = 0 \/ (t > 0 /\ t \in y.loss_time[App])
      BY <3>2, <3>7, DueSpec
    <3>9. PICK u \in y.loss_time[App] : t = Max({u, 0})
      BY DEF Due
    <3>10. u > 0 /\ u \in Int
      BY <3>2, <3>7
    <3>11. Max({u, 0}) = u
      BY <3>10, OfTwo
    <3> QED
      BY <3>6, <3>8, <3>9, <3>10, <3>11
  <2> QED
    BY <2>7, <2>8
<1>8. CASE r.loss_time[App] = {}
  <2> DEFINE y == SendProbes(r, App)
             count == Min({r.pto_count + 1, MAX_PTO_PROBES_COUNT})
             probes == [r.loss_probes EXCEPT ![App] = count]
             backoff == Min({r.pto_count + 1, MaxBackoff})
  <2>1. r.bytes_in_flight > 0
    <3>1. IsFiniteSet(Eliciting(Unresolved(r))) /\ Eliciting(Unresolved(r)) # {}
      BY <1>6, FS_Subset DEF Eliciting
    <3>2. Cardinality(Eliciting(Unresolved(r))) \in Nat \ {0}
      BY <3>1, FS_EmptySet, FS_CardinalityType
    <3> QED
      BY <3>2, <1>6 DEF Counted
  <2>2. r.in_flight_count[App] # 0
    <3> DEFINE mine == InFlight({p \in Unresolved(r) : p.e = App})
    <3>1. IsFiniteSet(mine) /\ mine # {}
      BY <1>1, <1>6, FS_Subset DEF Outstanding, Eliciting, InFlight, ack_eliciting, in_flight
    <3>2. Cardinality(mine) \in Nat \ {0}
      BY <3>1, FS_EmptySet, FS_CardinalityType
    <3> QED
      BY <3>2, <1>1, <1>6 DEF Counted
  <2>3. ASSUME NEW e \in Early PROVE r.in_flight_count[e] = 0
    <3>1. e \in Epochs /\ InFlight({p \in Unresolved(r) : p.e = e}) = {}
      BY <1>5 DEF Early, Epochs, App, InFlight
    <3> QED
      BY <3>1, <1>6, FS_EmptySet DEF Counted
  <2>4. pto_time_and_space(r, hs).e = App
    <3>1. r.bytes_in_flight # 0
      BY <2>1
    <3> QED
      BY <3>1, <2>2, <2>3, <1>1, <1>2, ProbeTimeSpec
  <2>5. r' = set_loss_detection_timer(y, hs)
    BY <1>3, <1>4, <1>8, <2>1, <2>4 DEF on_loss_detection_timeout
  <2>6. r.pto_count \in Nat /\ r.loss_probes \in [Epochs -> Nat] /\ MaxBackoff \in Nat
    BY <1>1, RecoveryAssumption DEF Recoveries
  <2>7. count \in Nat /\ count > 0 /\ backoff \in Nat
    BY <2>6 DEF Min, MAX_PTO_PROBES_COUNT
  <2> HIDE DEF count, backoff
  <2>8. probes \in [Epochs -> Nat] /\ probes[App] = count
    BY <2>6, <2>7, <1>1
  <2>9. y = [r EXCEPT !.pto_count = backoff, !.loss_probes = probes]
    BY DEF SendProbes, count, backoff
  <2> HIDE DEF probes, y
  <2>10. y \in Recoveries /\ y.loss_probes = probes
    BY <2>7, <2>8, <2>9, <1>1 DEF Recoveries
  <2>11. r' = [y EXCEPT !.loss_timer = r'.loss_timer]
    BY <2>5, <2>10, <1>2, SetTimerSpec
  <2>12. r'.loss_probes = probes
    BY <2>10, <2>11 DEF Recoveries
  <2> QED
    BY <2>7, <2>8, <2>12
<1> QED
  BY <1>7, <1>8

\* No timeout with 1-RTT packets outstanding is without effect.
THEOREM TimeoutActsHolds == Spec => TimeoutActs
<1>1. IInv /\ [Next]_vars =>
        [Timeout /\ confirmed /\ Eliciting(Unresolved(r)) # {} =>
           \/ Unresolved(r') # Unresolved(r)
           \/ r'.loss_probes["Application"] > 0
           \/ \E t \in r'.loss_timer : t > 0 /\ t \in r'.loss_time["Application"]]_vars
  BY TimeoutStep DEF App
<1> QED
  BY <1>1, Invariance, PTL DEF Spec, TimeoutActs
=============================================================================
