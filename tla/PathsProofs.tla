---------------------------- MODULE PathsProofs ----------------------------
(***************************************************************************)
(* Proofs about Paths, for any number of paths, sizes and limits: a server *)
(* does not send more than its share to an address it has not verified, it *)
(* pursues every validation, and its application learns of a migration.    *)
(* And about ConnIds, the ids the paths use: the tables keep their bounds, *)
(* a path and its id name each other, and dropped ids are released.        *)
(***************************************************************************)
EXTENDS Paths, ConnIds, FiniteSetTheorems, SequenceTheorems, WellFoundedInduction, TLAPS

-----------------------------------------------------------------------------
(* The inductive invariant.  Its parts take the role and the table of paths   *)
(* as arguments, so that they can be stated between the steps of one handler. *)

\* A challenge leaves on a path that has an id to send with, and makes it one
\* under validation: so no path is validated that has none.
Probed(x) ==
    /\ x.flight # <<>> => x.dcid /\ x.state >= Validating
    /\ x.state >= Validating => x.dcid

\* What ValidationPursued says, of every path whose flag is set: the flag may be
\* set on a path that lacks an id and becomes active when it gets one.
Pursued(server, x) ==
    under_validation(x) \/ (server /\ x.active) =>
        x.state = Validated \/ x.requested \/ x.flight # <<>>

\* The notification of a migration to a path that is not validated is due.
Deferred(server, x) == server /\ x.active /\ x.state # Validated => x.migrating

\* What was sent to an unverified address, and what may still be.
Within(server, x) ==
    server /\ ~x.verified => x.sent + x.max_send <= MaxAmplification * x.received

Good(server, x) ==
    x \in PathType /\ Probed(x) /\ Pursued(server, x) /\ Deferred(server, x)

Sound(server, ps) ==
    /\ DOMAIN ps \subseteq Pids /\ 0 \in DOMAIN ps
    /\ ps \in [DOMAIN ps -> PathType]
    /\ \A p \in DOMAIN ps : Good(server, ps[p])
    /\ \A p \in DOMAIN ps \ {0} : Within(server, ps[p])

\* At most one path is active, unless that was seen to fail.
Single(sp, ps) == ~sp => \A p, q \in DOMAIN ps : IsActive(ps[p]) /\ IsActive(ps[q]) => p = q

\* A validated path whose flag is set is the one the application knows of.
Told(server, sp, ps, known) ==
    server /\ ~sp =>
        \A p \in DOMAIN ps : ps[p].active /\ ps[p].state = Validated => known = p

IInv ==
    /\ is_server \in BOOLEAN /\ is_server \in Roles
    /\ phase \in {"new", "handshake", "established"}
    /\ local_error \in BOOLEAN /\ draining \in BOOLEAN /\ closed \in BOOLEAN
    /\ split \in BOOLEAN
    /\ reported \in Pids \cup {None}
    /\ Sound(is_server, paths)
    /\ Single(split, paths)
    /\ Told(is_server, split, paths, reported)

-----------------------------------------------------------------------------
(* Facts about sets and tables.                                               *)

\* A non-empty set of slots has a smallest one, which is Min of it.
LEMMA LeastOf ==
    ASSUME NEW S, S \subseteq Nat, S # {}
    PROVE  Min(S) \in S /\ \A y \in S : Min(S) <= y
<1>1. PICK x \in S : \A y \in S : ~(<<y, x>> \in OpToRel(<, Nat))
  BY NatLessThanWellFounded, WFMin
<1>2. \A y \in S : ~(y < x)
  BY <1>1, Zenon DEF OpToRel
<1>3. \A y \in S : x <= y
  BY <1>2
<1> QED
  BY <1>3 DEF Min

\* Min of two numbers.
LEMMA MinOfTwo ==
    ASSUME NEW a \in Int, NEW b \in Int
    PROVE  Min({a, b}) = IF a <= b THEN a ELSE b
BY DEF Min

\* get_active_path_id: the path it finds is active, and it finds the only one.
LEMMA ActiveFound ==
    ASSUME NEW ps, DOMAIN ps \subseteq Nat, ~NoActive(ps)
    PROVE  /\ get_active_path_id(ps) \in DOMAIN ps
           /\ IsActive(ps[get_active_path_id(ps)])
<1>1. ActivePaths(ps) \subseteq Nat /\ ActivePaths(ps) # {}
  BY DEF ActivePaths, NoActive
<1>2. Min(ActivePaths(ps)) \in ActivePaths(ps)
  BY <1>1, LeastOf
<1> QED
  BY <1>2 DEF ActivePaths, get_active_path_id

\* insert_path: a new or replaced path in a slot.
LEMMA Slotted ==
    ASSUME NEW p, NEW x
    PROVE  /\ DOMAIN insert_path(p, x) = DOMAIN paths \cup {p}
           /\ insert_path(p, x)[p] = x
           /\ \A q \in DOMAIN paths \ {p} : insert_path(p, x)[q] = paths[q]
           /\ insert_path(p, x) = [q \in DOMAIN paths \cup {p} |-> insert_path(p, x)[q]]
BY DEF insert_path

-----------------------------------------------------------------------------
(* The operations of a path.                                                  *)

\* Path::new.
LEMMA NewPathGood ==
    ASSUME NEW server \in BOOLEAN
    PROVE  NewPath(FALSE) \in PathType /\ Good(server, NewPath(FALSE))
BY PathsAssumption DEF NewPath, Good, PathType, Probed, Pursued, Deferred,
   under_validation, Failed, Unknown, Validating, ValidatingMTU, Validated

\* The credit of an unverified address grows with what comes from there.
LEMMA CreditGood ==
    ASSUME NEW x \in PathType, NEW len \in Nat, is_server \in BOOLEAN, Good(is_server, x)
    PROVE  /\ Good(is_server, Credit(x, len))
           /\ Within(is_server, x) => Within(is_server, Credit(x, len))
           /\ Credit(x, len).active = x.active
           /\ Credit(x, len).state = x.state
           /\ Credit(x, len).dcid = x.dcid
           /\ Credit(x, len).flight = x.flight
           /\ Credit(x, len).migrating = x.migrating
<1> DEFINE gain == len * MaxAmplification
           m == x.max_send + gain
           n == x.received + len
           y == [x EXCEPT !.max_send = m, !.received = n]
<1>0. MaxAmplification \in Nat /\ gain \in Nat
  BY PathsAssumption
<1>2. Credit(x, len) = IF Limited(x) THEN y ELSE x
  BY DEF Credit
<1>5. m \in Nat /\ n \in Nat
  BY <1>0 DEF PathType
<1> HIDE DEF gain, m, n
<1>1. /\ y \in PathType
      /\ y.max_send = m /\ y.received = n
      /\ y.active = x.active /\ y.state = x.state /\ y.dcid = x.dcid
      /\ y.flight = x.flight /\ y.migrating = x.migrating /\ y.requested = x.requested
      /\ y.sent = x.sent /\ y.verified = x.verified
  BY <1>5 DEF PathType
<1> HIDE DEF y
<1>3. Good(is_server, y)
  BY <1>1 DEF Good, Probed, Pursued, Deferred, under_validation
<1>4. ASSUME Within(is_server, x) PROVE Within(is_server, y)
  <2>1. MaxAmplification * (x.received + len) = MaxAmplification * x.received + gain
    BY <1>0 DEF PathType, gain
  <2>2. x.sent \in Nat /\ x.max_send \in Nat /\ x.received \in Nat
    BY DEF PathType
  <2>3. MaxAmplification * x.received \in Nat
    BY <2>2, <1>0
  <2> QED
    BY <1>0, <1>1, <1>4, <2>1, <2>2, <2>3 DEF Within, m, n
<1> QED
  BY <1>1, <1>2, <1>3, <1>4

\* A packet that fits is paid for by the credit of the address.
LEMMA ChargeGood ==
    ASSUME NEW x \in PathType, NEW written \in Nat, NEW total \in Nat,
           is_server \in BOOLEAN, Good(is_server, x)
    PROVE  /\ Good(is_server, Charge(x, written, total))
           /\ Within(is_server, x) /\ total = written /\ (Limited(x) => written <= x.max_send)
                 => Within(is_server, Charge(x, written, total))
           /\ Charge(x, written, total).active = x.active
           /\ Charge(x, written, total).state = x.state
           /\ Charge(x, written, total).dcid = x.dcid
<1> DEFINE m == IF x.max_send > written THEN x.max_send - written ELSE 0
           s == IF Limited(x) THEN x.sent + total ELSE x.sent
           y == Charge(x, written, total)
<1>0. x.max_send \in Nat /\ x.sent \in Nat /\ x.received \in Nat
  BY DEF PathType
<1>1. m \in Nat /\ s \in Nat
  BY <1>0
<1>2. y = [x EXCEPT !.max_send = m, !.sent = s, !.armed = TRUE]
  BY DEF Charge
<1> HIDE DEF m, s, y
<1>3. /\ y \in PathType
      /\ y.max_send = m /\ y.sent = s /\ y.received = x.received
      /\ y.active = x.active /\ y.state = x.state /\ y.dcid = x.dcid
      /\ y.flight = x.flight /\ y.migrating = x.migrating /\ y.requested = x.requested
      /\ y.verified = x.verified
  BY <1>1, <1>2 DEF PathType
<1>4. Good(is_server, y)
  BY <1>3 DEF Good, Probed, Pursued, Deferred, under_validation
<1>5. ASSUME Within(is_server, x), total = written, Limited(x) => written <= x.max_send
      PROVE  Within(is_server, y)
  <2>1. CASE Limited(x)
    <3>1. m = x.max_send - written /\ s = x.sent + written
      BY <2>1, <1>0, <1>5 DEF m, s
    <3>2. m + s = x.sent + x.max_send
      BY <3>1, <1>0
    <3> QED
      BY <3>2, <1>1, <1>3, <1>5 DEF Within
  <2>2. CASE ~Limited(x)
    BY <2>2, <1>3 DEF Within, Limited
  <2> QED
    BY <2>1, <2>2
<1> QED
  BY <1>3, <1>4, <1>5 DEF y

\* Path::on_challenge_received keeps its queue within the limit.
LEMMA ChallengeGood ==
    ASSUME NEW server \in BOOLEAN, NEW x \in PathType, Good(server, x)
    PROVE  /\ Good(server, on_challenge_received(x))
           /\ Within(server, x) => Within(server, on_challenge_received(x))
           /\ on_challenge_received(x).active = x.active
           /\ on_challenge_received(x).state = x.state
           /\ on_challenge_received(x).dcid = x.dcid
<1> DEFINE c == IF x.challenges = MaxQueue THEN x.challenges ELSE x.challenges + 1
           y == on_challenge_received(x)
<1>1. c \in 0..MaxQueue
  <2>1. x.challenges \in 0..MaxQueue
    BY DEF PathType
  <2>2. MaxQueue \in Nat
    BY PathsAssumption
  <2> QED
    BY <2>1, <2>2
<1>2. y = [x EXCEPT !.challenges = c]
  BY DEF on_challenge_received
<1> HIDE DEF c, y
<1>3. /\ y \in PathType
      /\ y.max_send = x.max_send /\ y.sent = x.sent /\ y.received = x.received
      /\ y.active = x.active /\ y.state = x.state /\ y.dcid = x.dcid
      /\ y.flight = x.flight /\ y.migrating = x.migrating /\ y.requested = x.requested
      /\ y.verified = x.verified
  BY <1>1, <1>2 DEF PathType
<1> QED
  BY <1>3 DEF y, Good, Probed, Pursued, Deferred, Within, under_validation

\* A path that gets an id to send with.
Given(x, spare) == [x EXCEPT !.dcid = @ \/ spare]

\* It loses nothing by it.
LEMMA DcidGood ==
    ASSUME NEW server \in BOOLEAN, NEW x \in PathType, Good(server, x), NEW spare \in BOOLEAN
    PROVE  /\ Good(server, Given(x, spare))
           /\ Within(server, x) => Within(server, Given(x, spare))
           /\ Given(x, spare).active = x.active
           /\ Given(x, spare).state = x.state
           /\ Given(x, spare).dcid = (x.dcid \/ spare)
<1> DEFINE d == x.dcid \/ spare
           y == [x EXCEPT !.dcid = d]
<1>1. d \in BOOLEAN /\ (x.dcid => d)
  OBVIOUS
<1> HIDE DEF d
<1>2. /\ y \in PathType
      /\ y.max_send = x.max_send /\ y.sent = x.sent /\ y.received = x.received
      /\ y.active = x.active /\ y.state = x.state /\ y.dcid = d
      /\ y.flight = x.flight /\ y.migrating = x.migrating /\ y.requested = x.requested
      /\ y.verified = x.verified
  BY <1>1 DEF PathType
<1>3. Good(server, y) /\ (Within(server, x) => Within(server, y))
  <2> HIDE DEF y
  <2> QED
    BY <1>1, <1>2 DEF Good, Probed, Pursued, Deferred, Within, under_validation
<1>4. y.active = x.active /\ y.state = x.state /\ y.dcid = (x.dcid \/ spare)
  BY <1>2 DEF d
<1>5. Given(x, spare) = y
  BY DEF Given, d
<1> HIDE DEF y
<1> QED
  BY <1>3, <1>4, <1>5

\* A packet with the challenge that was asked for; challenges of the peer are answered.
LEMMA ProbeGood ==
    ASSUME NEW server \in BOOLEAN, NEW x \in PathType, Good(server, x), x.dcid,
           NEW size \in 0..MIN_CLIENT_INITIAL_LEN
    PROVE  LET y == [add_challenge_sent(x, size) EXCEPT !.challenges = 0]
           IN  /\ Good(server, y)
               /\ Within(server, x) => Within(server, y)
               /\ y.active = x.active
               /\ y.dcid = x.dcid
               /\ y.state = Validated <=> x.state = Validated
               /\ x.state > Failed => y.state > Failed
               /\ y.max_send = x.max_send /\ y.verified = x.verified
<1> DEFINE st == IF x.state < Validating THEN Validating ELSE x.state
           fl == Append(x.flight, size)
           y == [x EXCEPT !.state = st, !.requested = FALSE, !.flight = fl, !.challenges = 0]
<1>1. /\ st \in Failed..Validated /\ st >= Validating
      /\ st = Validated <=> x.state = Validated
      /\ x.state > Failed => st > Failed
  BY DEF PathType, Failed, Validating, Validated
<1>2. fl \in Seq(0..MIN_CLIENT_INITIAL_LEN) /\ fl # <<>>
  BY DEF PathType
<1>3. [add_challenge_sent(x, size) EXCEPT !.challenges = 0] = y
  BY DEF add_challenge_sent, promote_to, PathType
<1>6. 0 \in 0..MaxQueue
  BY PathsAssumption
<1> HIDE DEF st, fl
<1>4. /\ y \in PathType
      /\ y.max_send = x.max_send /\ y.sent = x.sent /\ y.received = x.received
      /\ y.active = x.active /\ y.state = st /\ y.dcid = x.dcid
      /\ y.flight = fl /\ y.migrating = x.migrating /\ y.requested = FALSE
      /\ y.verified = x.verified
  BY <1>1, <1>2, <1>6 DEF PathType
<1> HIDE DEF y
<1>5. Good(server, y) /\ (Within(server, x) => Within(server, y))
  BY <1>1, <1>2, <1>4 DEF Good, Probed, Pursued, Deferred, Within, under_validation
<1> QED
  BY <1>1, <1>3, <1>4, <1>5

\* Path::on_response_received: the answer to a challenge leaves the path validated or
\* with another challenge to be sent, and its address verified.  The notification of
\* a migration is no longer due once the path is validated.
LEMMA ResponseGood ==
    ASSUME NEW server \in BOOLEAN, NEW x \in PathType, Good(server, x),
           NEW i \in DOMAIN x.flight
    PROVE  LET y == on_response_received(x, i)
               done == y.state = Validated /\ x.state # Validated
               z == [y EXCEPT !.migrating = @ /\ ~done]
           IN  /\ Good(server, z)
               /\ Within(server, z)
               /\ z.active = x.active
               /\ z.dcid = x.dcid
               /\ z.state = y.state
               /\ z.state > Failed /\ x.state > Failed /\ x.dcid
               /\ x.state = Validated => z.state = Validated
<1> DEFINE size == IF x.max_size > x.flight[i] THEN x.max_size ELSE x.flight[i]
           up == IF x.state < ValidatingMTU THEN ValidatingMTU ELSE x.state
           st == IF up = ValidatingMTU /\ size >= MIN_CLIENT_INITIAL_LEN THEN Validated ELSE up
           rq == IF up = ValidatingMTU /\ ~(size >= MIN_CLIENT_INITIAL_LEN)
                 THEN TRUE ELSE x.requested
           fl == RemoveAt(x.flight, i)
           v == [x EXCEPT !.state = up, !.verified = TRUE, !.sent = 0, !.received = 0,
                          !.probing_lost = 0, !.flight = fl, !.max_size = size]
           y == [x EXCEPT !.state = st, !.verified = TRUE, !.sent = 0, !.received = 0,
                          !.probing_lost = 0, !.flight = fl, !.max_size = size,
                          !.requested = rq]
           done == st = Validated /\ x.state # Validated
           mg == x.migrating /\ ~done
           z == [y EXCEPT !.migrating = mg]
<1>1. /\ x.flight \in Seq(0..MIN_CLIENT_INITIAL_LEN) /\ x.flight # <<>>
      /\ x.flight[i] \in 0..MIN_CLIENT_INITIAL_LEN
      /\ i \in 1..Len(x.flight)
  <2>1. x.flight \in Seq(0..MIN_CLIENT_INITIAL_LEN)
    BY DEF PathType
  <2>2. i \in 1..Len(x.flight)
    BY <2>1
  <2>3. x.flight[i] \in 0..MIN_CLIENT_INITIAL_LEN
    BY <2>1, <2>2, ElementOfSeq
  <2>4. x.flight # <<>>
    BY <2>1, <2>2
  <2> QED
    BY <2>1, <2>2, <2>3, <2>4
<1>2. size \in 0..MIN_CLIENT_INITIAL_LEN
  BY <1>1 DEF PathType
<1>3. fl \in Seq(0..MIN_CLIENT_INITIAL_LEN)
  <2>1. /\ SubSeq(x.flight, 1, i - 1) \in Seq(0..MIN_CLIENT_INITIAL_LEN)
        /\ SubSeq(x.flight, i + 1, Len(x.flight)) \in Seq(0..MIN_CLIENT_INITIAL_LEN)
    <3>1. x.flight \in [1..Len(x.flight) -> 0..MIN_CLIENT_INITIAL_LEN]
      BY <1>1, LenProperties
    <3>2. Len(x.flight) \in Nat
      BY <1>1
    <3>3. /\ \A j \in 1..i - 1 : x.flight[j] \in 0..MIN_CLIENT_INITIAL_LEN
          /\ \A j \in i + 1..Len(x.flight) : x.flight[j] \in 0..MIN_CLIENT_INITIAL_LEN
      BY <1>1, <3>1, <3>2
    <3> QED
      BY <1>1, <3>2, <3>3, SubSeqProperties
  <2> QED
    BY <2>1 DEF RemoveAt
<1>4. x.state >= Validating /\ x.dcid
  BY <1>1 DEF Good, Probed
<1>5. /\ up \in {ValidatingMTU, Validated}
      /\ st \in {ValidatingMTU, Validated}
      /\ st \in Failed..Validated
      /\ st > Failed /\ st >= Validating
      /\ x.state > Failed
      /\ x.state = Validated => st = Validated
      /\ st = ValidatingMTU => up = ValidatingMTU /\ ~(size >= MIN_CLIENT_INITIAL_LEN)
  BY <1>4 DEF PathType, Failed, Validating, ValidatingMTU, Validated
<1>6. rq \in BOOLEAN /\ (st = ValidatingMTU => rq)
  <2>1. x.requested \in BOOLEAN
    BY DEF PathType
  <2> QED
    BY <2>1, <1>5
<1>7. on_response_received(x, i) = y
  <2>1. [Verify(promote_to(x, ValidatingMTU)) EXCEPT
                       !.probing_lost = 0,
                       !.flight = RemoveAt(@, i), !.max_size = size] = v
    BY DEF Verify, promote_to, PathType
  <2>2. on_response_received(x, i) =
          IF v.state # ValidatingMTU THEN v
          ELSE IF size >= MIN_CLIENT_INITIAL_LEN THEN [v EXCEPT !.state = Validated]
          ELSE [v EXCEPT !.requested = TRUE]
    BY <2>1 DEF on_response_received
  <2>3. v.state = up
    BY DEF PathType
  <2> HIDE DEF size, fl, up
  <2>4. CASE up # ValidatingMTU
    <3>1. on_response_received(x, i) = v
      <4> HIDE DEF v
      <4> QED
        BY <2>2, <2>3, <2>4
    <3>2. st = up /\ rq = x.requested
      BY <2>4
    <3> HIDE DEF st, rq
    <3> QED
      BY <3>1, <3>2 DEF PathType
  <2>5. CASE up = ValidatingMTU /\ size >= MIN_CLIENT_INITIAL_LEN
    BY <2>2, <2>3, <2>5 DEF PathType
  <2>6. CASE up = ValidatingMTU /\ ~(size >= MIN_CLIENT_INITIAL_LEN)
    BY <2>2, <2>3, <2>6 DEF PathType
  <2> QED
    BY <2>4, <2>5, <2>6
<1>8. mg \in BOOLEAN /\ (st # Validated => mg = x.migrating)
  <2>1. x.migrating \in BOOLEAN
    BY DEF PathType
  <2> QED
    BY <2>1
<1>10. 0 \in 0..MAX_PROBING_TIMEOUTS
  BY PathsAssumption
<1>9. y.state = st /\ y.migrating = x.migrating
  BY DEF PathType
<1>11. z = [on_response_received(x, i) EXCEPT
              !.migrating = @ /\ ~(on_response_received(x, i).state = Validated
                                    /\ x.state # Validated)]
  <2> HIDE DEF y
  <2> QED
    BY <1>7, <1>9
<1> HIDE DEF size, up, st, rq, fl, mg, done
<1>12. /\ z \in PathType
       /\ z.active = x.active /\ z.state = st /\ z.dcid = x.dcid
       /\ z.flight = fl /\ z.migrating = mg /\ z.requested = rq
       /\ z.verified = TRUE
  BY <1>2, <1>3, <1>5, <1>6, <1>8, <1>10 DEF PathType
<1> HIDE DEF z
<1>13. Good(server, z) /\ Within(server, z)
  <2>1. Probed(z)
    BY <1>4, <1>5, <1>12 DEF Probed
  <2>2. Pursued(server, z)
    BY <1>5, <1>6, <1>12 DEF Pursued
  <2>3. Deferred(server, z)
    BY <1>5, <1>8, <1>12 DEF Deferred, Good, ValidatingMTU, Validated
  <2>4. Within(server, z)
    BY <1>12 DEF Within
  <2> QED
    BY <1>12, <2>1, <2>2, <2>3, <2>4 DEF Good
<1> QED
  BY <1>4, <1>5, <1>7, <1>9, <1>11, <1>12, <1>13

\* Path::on_loss_detection_timeout: the path fails and is active no longer, or another
\* challenge is sent.
LEMMA LossGood ==
    ASSUME NEW x \in PathType, is_server \in BOOLEAN, Good(is_server, x), NEW spaced \in BOOLEAN
    PROVE  LET y == on_loss_detection_timeout(x, spaced)
           IN  /\ Good(is_server, y)
               /\ Within(is_server, x) => Within(is_server, y)
               /\ y.active => x.active
               /\ y.dcid = x.dcid
               /\ y.state = x.state \/ (y.state = Failed /\ ~y.active)
<1> DEFINE n == x.probing_lost + (IF spaced \/ ~x.lost_before THEN 1 ELSE 0)
           lost == Min({MAX_PROBING_TIMEOUTS, n})
           hopeless == \/ lost >= MAX_PROBING_TIMEOUTS
                       \/ is_server /\ x.max_send < MIN_PROBING_SIZE
           failed == [x EXCEPT !.flight = <<>>, !.probing_lost = lost, !.lost_before = TRUE,
                               !.state = Failed, !.active = FALSE]
           again == [x EXCEPT !.flight = <<>>, !.probing_lost = lost, !.lost_before = TRUE,
                              !.requested = TRUE]
           y == on_loss_detection_timeout(x, spaced)
<1>1. lost \in 0..MAX_PROBING_TIMEOUTS
  <2>1. n \in Nat /\ MAX_PROBING_TIMEOUTS \in Nat
    BY PathsAssumption, SMTT(30) DEF PathType
  <2> HIDE DEF n
  <2> QED
    BY <2>1, MinOfTwo
<1>2. y = IF x.flight = <<>> THEN x ELSE IF hopeless THEN failed ELSE again
  BY DEF on_loss_detection_timeout
<1>3. <<>> \in Seq(0..MIN_CLIENT_INITIAL_LEN) /\ Failed \in Failed..Validated
  BY DEF Failed, Validated
<1> HIDE DEF n, lost, y
<1>4. /\ failed \in PathType
      /\ failed.max_send = x.max_send /\ failed.sent = x.sent /\ failed.received = x.received
      /\ failed.active = FALSE /\ failed.state = Failed /\ failed.dcid = x.dcid
      /\ failed.flight = <<>> /\ failed.verified = x.verified
  BY <1>1, <1>3 DEF PathType
<1>5. /\ again \in PathType
      /\ again.max_send = x.max_send /\ again.sent = x.sent /\ again.received = x.received
      /\ again.active = x.active /\ again.state = x.state /\ again.dcid = x.dcid
      /\ again.flight = <<>> /\ again.verified = x.verified /\ again.requested = TRUE
      /\ again.migrating = x.migrating
  BY <1>1, <1>3 DEF PathType
<1> HIDE DEF failed, again
<1>6. Good(is_server, failed) /\ (Within(is_server, x) => Within(is_server, failed))
  BY <1>4 DEF Good, Probed, Pursued, Deferred, Within, under_validation,
              Failed, Validating, ValidatingMTU
<1>7. Good(is_server, again) /\ (Within(is_server, x) => Within(is_server, again))
  BY <1>5 DEF Good, Probed, Pursued, Deferred, Within, under_validation
<1>8. CASE x.flight = <<>>
  <2>1. y = x
    BY <1>2, <1>8
  <2> QED
    BY <2>1 DEF y
<1>9. CASE x.flight # <<>> /\ hopeless
  <2>1. y = failed
    BY <1>2, <1>9
  <2> QED
    BY <2>1, <1>4, <1>6 DEF y
<1>10. CASE x.flight # <<>> /\ ~hopeless
  <2>1. y = again
    BY <1>2, <1>10
  <2> QED
    BY <2>1, <1>5, <1>7 DEF y
<1> QED
  BY <1>8, <1>9, <1>10

-----------------------------------------------------------------------------
(* The operations on the table of paths.                                      *)

\* A table whose paths are each Good after a change that keeps what is in it.
LEMMA Tabled ==
    ASSUME NEW server \in BOOLEAN, NEW ps, NEW D, D \subseteq Pids, 0 \in D,
           DOMAIN ps = D, ps = [q \in D |-> ps[q]],
           \A q \in D : Good(server, ps[q]),
           \A q \in D \ {0} : Within(server, ps[q])
    PROVE  Sound(server, ps)
<1>1. \A q \in D : ps[q] \in PathType
  BY DEF Good
<1> QED
  BY <1>1 DEF Sound

\* Connection::recv credits the path a datagram came on.
LEMMA CreditedSound ==
    ASSUME is_server \in BOOLEAN, Sound(is_server, paths), NEW p \in DOMAIN paths,
           NEW len \in Nat
    PROVE  /\ Sound(is_server, Credited(p, len))
           /\ DOMAIN Credited(p, len) = DOMAIN paths
           /\ \A q \in DOMAIN paths :
                /\ Credited(p, len)[q].active = paths[q].active
                /\ Credited(p, len)[q].state = paths[q].state
                /\ Credited(p, len)[q].dcid = paths[q].dcid
                /\ Credited(p, len)[q].flight = paths[q].flight
<1> DEFINE ps == Credited(p, len)
<1>1. /\ DOMAIN ps = DOMAIN paths
      /\ ps = [q \in DOMAIN paths |-> ps[q]]
      /\ \A q \in DOMAIN paths : ps[q] = IF q = p THEN Credit(paths[q], len) ELSE paths[q]
  BY DEF Credited, Sound
<1> HIDE DEF ps
<1>2. ASSUME NEW q \in DOMAIN paths
      PROVE  /\ Good(is_server, ps[q])
             /\ Within(is_server, paths[q]) => Within(is_server, ps[q])
             /\ ps[q].active = paths[q].active /\ ps[q].state = paths[q].state
             /\ ps[q].dcid = paths[q].dcid /\ ps[q].flight = paths[q].flight
  <2>1. Good(is_server, paths[q]) /\ paths[q] \in PathType
    BY DEF Sound
  <2> QED
    BY <1>1, <2>1, CreditGood
<1>3. Sound(is_server, ps)
  BY <1>1, <1>2, Tabled DEF Sound
<1> QED
  BY <1>1, <1>2, <1>3 DEF ps

\* The slot for a new path is free or holds one that is not active and has no id.
LEMMA RoomFree ==
    ASSUME NEW server \in BOOLEAN, Sound(server, paths), NEW p \in Room
    PROVE  p \in Pids /\ (p \in DOMAIN paths => ~paths[p].dcid)
<1>0. Pids \subseteq Nat
  BY PathsAssumption
<1>1. CASE DOMAIN paths # Pids
  <2>1. Pids \ DOMAIN paths # {} /\ Pids \ DOMAIN paths \subseteq Nat
    BY <1>0, <1>1 DEF Sound
  <2>2. Min(Pids \ DOMAIN paths) \in Pids \ DOMAIN paths
    BY <2>1, LeastOf
  <2>3. p = Min(Pids \ DOMAIN paths)
    BY <1>1 DEF Room
  <2> QED
    BY <2>2, <2>3
<1>2. CASE DOMAIN paths = Pids
  <2> DEFINE idle == {q \in Pids : unused(paths[q])}
  <2>1. idle # {} /\ p = Min(idle)
    BY <1>2 DEF Room
  <2>2. idle \subseteq Nat
    BY <1>0
  <2>3. Min(idle) \in idle
    BY <2>1, <2>2, LeastOf
  <2> QED
    BY <2>1, <2>3 DEF unused
<1> QED
  BY <1>1, <1>2

\* A path with its flag and credit down is put in a slot.
LEMMA InsertSound ==
    ASSUME NEW server \in BOOLEAN, Sound(server, paths), NEW p \in Pids, NEW x,
           Good(server, x), Within(server, x)
    PROVE  /\ Sound(server, insert_path(p, x))
           /\ DOMAIN insert_path(p, x) = DOMAIN paths \cup {p}
           /\ insert_path(p, x)[p] = x
           /\ \A q \in DOMAIN paths \ {p} : insert_path(p, x)[q] = paths[q]
<1> DEFINE ps == insert_path(p, x)
<1>1. /\ DOMAIN ps = DOMAIN paths \cup {p}
      /\ ps[p] = x
      /\ \A q \in DOMAIN paths \ {p} : ps[q] = paths[q]
      /\ ps = [q \in DOMAIN paths \cup {p} |-> ps[q]]
  BY Slotted
<1> HIDE DEF ps
<1>2. ASSUME NEW q \in DOMAIN paths \cup {p}
      PROVE  Good(server, ps[q]) /\ (q # 0 => Within(server, ps[q]))
  BY <1>1 DEF Sound
<1>3. DOMAIN paths \cup {p} \subseteq Pids /\ 0 \in DOMAIN paths \cup {p}
  BY DEF Sound
<1>4. Sound(server, ps)
  BY <1>1, <1>2, <1>3, Tabled
<1> QED
  BY <1>1, <1>4 DEF ps

\* get_or_create_recv_path_id: a new path to validate, with the credit of one datagram.
LEMMA CreatedGood ==
    ASSUME NEW server \in BOOLEAN, NEW len \in Nat
    PROVE  LET x == [NewPath(FALSE) EXCEPT !.max_send = len * MaxAmplification,
                                           !.received = len, !.requested = TRUE]
           IN  Good(server, x) /\ Within(server, x) /\ x.active = FALSE
<1> DEFINE gain == len * MaxAmplification
           x == [NewPath(FALSE) EXCEPT !.max_send = gain, !.received = len, !.requested = TRUE]
<1>1. gain \in Nat /\ gain = MaxAmplification * len
  BY PathsAssumption
<1> HIDE DEF gain
<1>2. NewPath(FALSE) \in PathType
  BY NewPathGood
<1>3. /\ NewPath(FALSE).state = Unknown /\ NewPath(FALSE).active = FALSE
      /\ NewPath(FALSE).flight = <<>> /\ NewPath(FALSE).sent = 0
  BY DEF NewPath
<1>4. /\ x \in PathType
      /\ x.state = Unknown /\ x.active = FALSE /\ x.flight = <<>> /\ x.sent = 0
      /\ x.max_send = gain /\ x.received = len
  BY <1>1, <1>2, <1>3 DEF PathType
<1> HIDE DEF x
<1>5. Good(server, x) /\ Within(server, x)
  BY <1>1, <1>4 DEF Good, Probed, Pursued, Deferred, Within, under_validation,
                    Unknown, Validating, ValidatingMTU
<1> QED
  BY <1>4, <1>5 DEF x, gain

\* create_path_on_client: a new path with an id.
LEMMA ClientGood ==
    ASSUME NEW server \in BOOLEAN, ~server, NEW req \in BOOLEAN
    PROVE  LET x == [NewPath(FALSE) EXCEPT !.dcid = TRUE, !.requested = req]
           IN  Good(server, x) /\ Within(server, x) /\ x.active = FALSE
<1> DEFINE x == [NewPath(FALSE) EXCEPT !.dcid = TRUE, !.requested = req]
<1>2. NewPath(FALSE) \in PathType
  BY NewPathGood
<1>3. /\ NewPath(FALSE).state = Unknown /\ NewPath(FALSE).active = FALSE
      /\ NewPath(FALSE).flight = <<>> /\ NewPath(FALSE).sent = 0
  BY DEF NewPath
<1>4. /\ x \in PathType
      /\ x.state = Unknown /\ x.active = FALSE /\ x.flight = <<>> /\ x.dcid = TRUE
  BY <1>2, <1>3 DEF PathType
<1> HIDE DEF x
<1>5. Good(server, x) /\ Within(server, x)
  BY <1>4 DEF Good, Probed, Pursued, Deferred, Within, under_validation,
              Unknown, Validating, ValidatingMTU
<1> QED
  BY <1>4, <1>5 DEF x

\* The ids that the paths without one get, and no other field of them.
LEMMA AllocateSound ==
    ASSUME NEW server \in BOOLEAN, NEW ps, Sound(server, ps), NEW spare \in BOOLEAN
    PROVE  /\ Sound(server, AllocateDcids(ps, spare))
           /\ DOMAIN AllocateDcids(ps, spare) = DOMAIN ps
           /\ \A q \in DOMAIN ps :
                /\ AllocateDcids(ps, spare)[q].active = ps[q].active
                /\ AllocateDcids(ps, spare)[q].state = ps[q].state
                /\ AllocateDcids(ps, spare)[q].dcid = (ps[q].dcid \/ spare)
<1> DEFINE gs == AllocateDcids(ps, spare)
<1>1. /\ DOMAIN gs = DOMAIN ps
      /\ gs = [q \in DOMAIN ps |-> gs[q]]
      /\ \A q \in DOMAIN ps : gs[q] = Given(ps[q], spare)
  BY DEF AllocateDcids, Given
<1> HIDE DEF gs
<1>2. ASSUME NEW q \in DOMAIN ps
      PROVE  /\ Good(server, gs[q])
             /\ Within(server, ps[q]) => Within(server, gs[q])
             /\ gs[q].active = ps[q].active /\ gs[q].state = ps[q].state
             /\ gs[q].dcid = (ps[q].dcid \/ spare)
  <2>1. Good(server, ps[q]) /\ ps[q] \in PathType
    BY DEF Sound
  <2> QED
    BY <1>1, <2>1, DcidGood
<1>3. Sound(server, gs)
  BY <1>1, <1>2, Tabled DEF Sound
<1> QED
  BY <1>1, <1>2, <1>3 DEF gs

\* PathMap::set_active_path, of one path: the flag, the challenge and the notice.
Flagged(x, a, m, r) == [x EXCEPT !.active = a, !.migrating = m, !.requested = r]

\* The flag is set on a path of a server only with a challenge, and a notice that is due.
LEMMA ActivateGood ==
    ASSUME NEW server \in BOOLEAN, NEW x \in PathType, Good(server, x), NEW a \in BOOLEAN,
           NEW m \in BOOLEAN, NEW r \in BOOLEAN, x.migrating => m, x.requested => r,
           a => x.active \/ ~server \/ x.state = Validated \/ (m /\ (r \/ under_validation(x)))
    PROVE  /\ Good(server, Flagged(x, a, m, r))
           /\ Within(server, x) => Within(server, Flagged(x, a, m, r))
           /\ Flagged(x, a, m, r).active = a
           /\ Flagged(x, a, m, r).state = x.state
           /\ Flagged(x, a, m, r).dcid = x.dcid
<1> DEFINE y == Flagged(x, a, m, r)
<1>1. /\ y \in PathType
      /\ y.max_send = x.max_send /\ y.sent = x.sent /\ y.received = x.received
      /\ y.active = a /\ y.state = x.state /\ y.dcid = x.dcid
      /\ y.flight = x.flight /\ y.migrating = m /\ y.requested = r
      /\ y.verified = x.verified
  BY DEF PathType, Flagged
<1> HIDE DEF y
<1>2. Good(server, y)
  BY <1>1 DEF Good, Probed, Pursued, Deferred, under_validation
<1>3. Within(server, x) => Within(server, y)
  BY <1>1 DEF Within
<1> QED
  BY <1>1, <1>2, <1>3 DEF y

\* PathMap::set_active_path: the flag of the active path goes to the given one.
LEMMA SetActiveSound ==
    ASSUME is_server \in BOOLEAN, NEW ps, Sound(is_server, ps), NEW p \in DOMAIN ps
    PROVE  /\ Sound(is_server, set_active_path(ps, p))
           /\ DOMAIN set_active_path(ps, p) = DOMAIN ps
           /\ \A q \in DOMAIN ps :
                /\ set_active_path(ps, p)[q].active =
                     (q = p \/ (ps[q].active /\ ~(~NoActive(ps) /\ q = get_active_path_id(ps))))
                /\ set_active_path(ps, p)[q].state = ps[q].state
                /\ set_active_path(ps, p)[q].dcid = ps[q].dcid
<1> DEFINE f(q) == q = p \/ (ps[q].active /\ ~(~NoActive(ps) /\ q = get_active_path_id(ps)))
           notify == is_server /\ ps[p].state # Validated
           m(q) == ps[q].migrating \/ (q = p /\ notify)
           r(q) == ps[q].requested \/ (q = p /\ notify /\ ~under_validation(ps[p]))
           y(q) == Flagged(ps[q], f(q), m(q), r(q))
           ns == set_active_path(ps, p)
<1>1. ASSUME NEW q \in DOMAIN ps PROVE ps[q] \in PathType /\ Good(is_server, ps[q])
  BY DEF Sound
<1>2. ASSUME NEW q \in DOMAIN ps
      PROVE  f(q) \in BOOLEAN /\ m(q) \in BOOLEAN /\ r(q) \in BOOLEAN
  <2>1. ps[q].active \in BOOLEAN /\ ps[q].migrating \in BOOLEAN /\ ps[q].requested \in BOOLEAN
    BY <1>1 DEF PathType
  <2> QED
    BY <2>1
<1>3. ns = [q \in DOMAIN ps |-> y(q)]
  <2> DEFINE off == [q \in DOMAIN ps |->
                  [ps[q] EXCEPT !.active = @ /\ ~(~NoActive(ps) /\ q = get_active_path_id(ps))]]
             on == [off EXCEPT ![p].active = TRUE]
  <2>1. \A q \in DOMAIN ps : on[q] = [ps[q] EXCEPT !.active = f(q)]
    BY <1>1 DEF PathType
  <2>2. DOMAIN on = DOMAIN ps /\ on = [q \in DOMAIN ps |-> on[q]]
    OBVIOUS
  <2>3. ns = IF notify
             THEN [on EXCEPT ![p].migrating = TRUE,
                             ![p].requested = @ \/ ~under_validation(ps[p])]
             ELSE on
    BY DEF set_active_path
  <2> HIDE DEF on
  <2>4. ASSUME NEW q \in DOMAIN ps PROVE ns[q] = y(q)
    <3>0. ps[q] \in PathType /\ on[q] = [ps[q] EXCEPT !.active = f(q)]
      BY <1>1, <2>1
    <3>1. CASE q = p /\ notify
      <4>1. m(q) = TRUE /\ r(q) = (ps[q].requested \/ ~under_validation(ps[p]))
        BY <1>2, <3>1
      <4>2. ns[q] = [on[q] EXCEPT !.migrating = TRUE, !.requested = @ \/ ~under_validation(ps[p])]
        BY <2>2, <2>3, <3>1
      <4> HIDE DEF f, m, r
      <4> QED
        BY <3>0, <4>1, <4>2 DEF PathType, Flagged
    <3>2. CASE ~(q = p /\ notify)
      <4>1. m(q) = ps[q].migrating /\ r(q) = ps[q].requested
        BY <1>1, <3>2 DEF PathType
      <4>2. ns[q] = on[q]
        BY <2>2, <2>3, <3>2
      <4> HIDE DEF f, m, r
      <4> QED
        BY <3>0, <4>1, <4>2 DEF PathType, Flagged
    <3> QED
      BY <3>1, <3>2
  <2> QED
    BY <2>2, <2>3, <2>4
<1>4. ASSUME NEW q \in DOMAIN ps
      PROVE  /\ Good(is_server, y(q))
             /\ Within(is_server, ps[q]) => Within(is_server, y(q))
             /\ y(q).active = f(q) /\ y(q).state = ps[q].state /\ y(q).dcid = ps[q].dcid
  <2>1. /\ ps[q].migrating => m(q)
        /\ ps[q].requested => r(q)
    OBVIOUS
  <2>2. f(q) => \/ ps[q].active \/ ~is_server \/ ps[q].state = Validated
                \/ m(q) /\ (r(q) \/ under_validation(ps[q]))
    OBVIOUS
  <2> HIDE DEF f, m, r
  <2> QED
    BY <1>1, <1>2, <2>1, <2>2, ActivateGood
<1> HIDE DEF y, ns
<1>5. /\ DOMAIN ns = DOMAIN ps
      /\ \A q \in DOMAIN ps : ns[q] = y(q)
      /\ ns = [q \in DOMAIN ps |-> ns[q]]
  BY <1>3
<1>6. Sound(is_server, ns)
  BY <1>4, <1>5, Tabled DEF Sound
<1> QED
  BY <1>4, <1>5, <1>6 DEF ns

\* An acknowledgement disarms the timers of some paths.
Disarmed(ps, acked) == [q \in DOMAIN ps |-> [ps[q] EXCEPT !.armed = @ /\ q \notin acked]]

\* Nothing else of them changes.
LEMMA DisarmedSound ==
    ASSUME NEW server \in BOOLEAN, NEW ps, Sound(server, ps), NEW acked
    PROVE  /\ Sound(server, Disarmed(ps, acked))
           /\ DOMAIN Disarmed(ps, acked) = DOMAIN ps
           /\ \A q \in DOMAIN ps :
                /\ Disarmed(ps, acked)[q].active = ps[q].active
                /\ Disarmed(ps, acked)[q].state = ps[q].state
                /\ Disarmed(ps, acked)[q].dcid = ps[q].dcid
<1> DEFINE ds == Disarmed(ps, acked)
           a(q) == ps[q].armed /\ q \notin acked
<1>1. /\ DOMAIN ds = DOMAIN ps
      /\ ds = [q \in DOMAIN ps |-> ds[q]]
      /\ \A q \in DOMAIN ps : ds[q] = [ps[q] EXCEPT !.armed = a(q)]
  BY DEF Disarmed
<1> HIDE DEF ds
<1>2. ASSUME NEW q \in DOMAIN ps
      PROVE  /\ Good(server, ds[q])
             /\ Within(server, ps[q]) => Within(server, ds[q])
             /\ ds[q].active = ps[q].active /\ ds[q].state = ps[q].state
             /\ ds[q].dcid = ps[q].dcid
  <2>1. Good(server, ps[q]) /\ ps[q] \in PathType
    BY DEF Sound
  <2>2. a(q) \in BOOLEAN
    OBVIOUS
  <2>3. ds[q] = [ps[q] EXCEPT !.armed = a(q)]
    BY <1>1
  <2> DEFINE x == ps[q]
             y == ds[q]
  <2> HIDE DEF a
  <2>4. /\ y \in PathType
        /\ y.max_send = x.max_send /\ y.sent = x.sent /\ y.received = x.received
        /\ y.active = x.active /\ y.state = x.state /\ y.dcid = x.dcid
        /\ y.flight = x.flight /\ y.migrating = x.migrating /\ y.requested = x.requested
        /\ y.verified = x.verified
    BY <2>1, <2>2, <2>3 DEF PathType
  <2> HIDE DEF x, y
  <2>5. Good(server, x)
    BY <2>1 DEF x
  <2>6. Good(server, y) /\ (Within(server, x) => Within(server, y))
    BY <2>4, <2>5 DEF Good, Probed, Pursued, Deferred, Within, under_validation
  <2> QED
    BY <2>4, <2>6 DEF x, y
<1>3. Sound(server, ds)
  BY <1>1, <1>2, Tabled DEF Sound
<1> QED
  BY <1>1, <1>2, <1>3 DEF ds

\* One path replaced by another one that is Good.
LEMMA ReplacedSound ==
    ASSUME NEW server \in BOOLEAN, NEW ps, Sound(server, ps), NEW p \in DOMAIN ps, NEW x,
           Good(server, x), p # 0 => Within(server, x)
    PROVE  /\ Sound(server, [ps EXCEPT ![p] = x])
           /\ DOMAIN [ps EXCEPT ![p] = x] = DOMAIN ps
           /\ \A q \in DOMAIN ps : [ps EXCEPT ![p] = x][q] = IF q = p THEN x ELSE ps[q]
<1> DEFINE rs == [ps EXCEPT ![p] = x]
<1>1. /\ DOMAIN rs = DOMAIN ps
      /\ rs = [q \in DOMAIN ps |-> rs[q]]
      /\ \A q \in DOMAIN ps : rs[q] = IF q = p THEN x ELSE ps[q]
  OBVIOUS
<1> HIDE DEF rs
<1>2. ASSUME NEW q \in DOMAIN ps
      PROVE  Good(server, rs[q]) /\ (q # 0 => Within(server, rs[q]))
  BY <1>1 DEF Sound
<1>3. Sound(server, rs)
  BY <1>1, <1>2, Tabled DEF Sound
<1> QED
  BY <1>1, <1>3 DEF rs

\* Two active paths are noticed.
LEMMA AtMostOne ==
    ASSUME NEW ps, DOMAIN ps \subseteq Pids, ~(Cardinality(ActivePaths(ps)) > 1),
           NEW p \in DOMAIN ps, NEW q \in DOMAIN ps, IsActive(ps[p]), IsActive(ps[q])
    PROVE  p = q
<1> SUFFICES ASSUME p # q PROVE FALSE
  OBVIOUS
<1>1. IsFiniteSet(ActivePaths(ps))
  <2>1. ActivePaths(ps) \subseteq Pids /\ IsFiniteSet(Pids)
    BY PathsAssumption DEF ActivePaths
  <2> QED
    BY <2>1, FS_Subset
<1>2. {p, q} \subseteq ActivePaths(ps)
  BY DEF ActivePaths
<1>3. IsFiniteSet({p}) /\ Cardinality({p}) = 1
  BY FS_Singleton
<1>4. Cardinality({p} \cup {q}) = Cardinality({p}) + 1
  BY <1>3, FS_AddElement
<1>5. {p} \cup {q} = {p, q}
  OBVIOUS
<1>6. Cardinality({p, q}) <= Cardinality(ActivePaths(ps))
  BY <1>1, <1>2, FS_Subset
<1>7. Cardinality(ActivePaths(ps)) \in Nat
  BY <1>1, FS_CardinalityType
<1> QED
  BY <1>3, <1>4, <1>5, <1>6, <1>7

\* A step that looks for two active paths.
LEMMA SplitKeeps ==
    ASSUME Split, split \in BOOLEAN, NEW server \in BOOLEAN, Sound(server, paths')
    PROVE  split' \in BOOLEAN /\ (split => split') /\ Single(split', paths')
<1>1. split' = (split \/ Cardinality(ActivePaths(paths')) > 1)
  BY DEF Split
<1>2. DOMAIN paths' \subseteq Pids
  BY DEF Sound
<1>3. split' \in BOOLEAN /\ (split => split')
  BY <1>1
<1>4. ASSUME ~split' PROVE ~(Cardinality(ActivePaths(paths')) > 1)
  BY <1>1, <1>4
<1>5. Single(split', paths')
  BY <1>2, <1>4, AtMostOne DEF Single
<1> QED
  BY <1>3, <1>5

-----------------------------------------------------------------------------
(* What a datagram does once its path is found.                               *)

\* The variables other than the table of paths.
Scalars ==
    /\ is_server \in BOOLEAN /\ is_server \in Roles
    /\ phase \in {"new", "handshake", "established"}
    /\ local_error \in BOOLEAN /\ draining \in BOOLEAN /\ closed \in BOOLEAN
    /\ split \in BOOLEAN
    /\ reported \in Pids \cup {None}

\* A validated path with its flag set is an active one.
LEMMA ValidatedActive ==
    ASSUME NEW server \in BOOLEAN, NEW ps, Sound(server, ps), NEW p \in DOMAIN ps,
           ps[p].active, ps[p].state = Validated
    PROVE  IsActive(ps[p])
<1>1. Good(server, ps[p])
  BY DEF Sound
<1>2. Probed(ps[p])
  BY <1>1 DEF Good
<1> QED
  BY <1>2 DEF IsActive, Probed, Failed, Validating, Validated

\* The end of recv_single, for a packet with a non-probing frame.
LEMMA OnDataKeeps ==
    ASSUME Scalars, NEW ps, NEW known \in Pids \cup {None}, Sound(is_server, ps),
           Told(is_server, split, ps, known),
           NEW p \in DOMAIN ps, NEW newest \in BOOLEAN, NEW acked, NEW spare \in BOOLEAN,
           OnData(ps, known, p, newest, acked, spare)
    PROVE  IInv'
<1> DEFINE ds == Disarmed(ps, acked)
           given == AllocateDcids(ds, spare)
           old == get_active_path_id(given)
           moved == set_active_path(given, p)
<1>0. is_server \in BOOLEAN /\ split \in BOOLEAN
  BY DEF Scalars
<1>1. /\ NonProbing(ds, known, p, newest, spare)
      /\ Split
      /\ is_server' = is_server /\ phase' = phase /\ draining' = draining /\ closed' = closed
  BY DEF OnData, Disarmed
<1>2. /\ Sound(is_server, ds) /\ DOMAIN ds = DOMAIN ps
      /\ \A q \in DOMAIN ps : /\ ds[q].active = ps[q].active
                              /\ ds[q].state = ps[q].state
  BY <1>0, DisarmedSound
<1> HIDE DEF ds
<1>3. /\ Sound(is_server, given) /\ DOMAIN given = DOMAIN ps
      /\ \A q \in DOMAIN ps : /\ given[q].active = ps[q].active
                              /\ given[q].state = ps[q].state
  BY <1>0, <1>2, AllocateSound
<1>4. \/ /\ paths' = given /\ reported' = known
         /\ local_error' \in BOOLEAN
      \/ /\ local_error' = local_error
         /\ \E reuse \in BOOLEAN : paths' = [moved EXCEPT ![p].dcid = @ \/ reuse]
         /\ reported' = ReportedAfter(given, p, known)
         /\ is_server
  BY <1>1 DEF NonProbing, Scalars
<1> HIDE DEF given
<1>5. CASE paths' = given /\ reported' = known /\ local_error' \in BOOLEAN
  <2>1. Sound(is_server, paths')
    BY <1>3, <1>5
  <2>2. split' \in BOOLEAN /\ (split => split') /\ Single(split', paths')
    BY <1>0, <1>1, <2>1, SplitKeeps
  <2>3. Told(is_server, split', paths', reported')
    BY <1>3, <1>5, <2>2 DEF Told
  <2> QED
    BY <1>1, <1>5, <2>1, <2>2, <2>3 DEF IInv, Scalars
<1>6. CASE /\ local_error' = local_error
           /\ \E reuse \in BOOLEAN : paths' = [moved EXCEPT ![p].dcid = @ \/ reuse]
           /\ reported' = ReportedAfter(given, p, known)
           /\ is_server
  <2>0. PICK reuse \in BOOLEAN : paths' = [moved EXCEPT ![p].dcid = @ \/ reuse]
    BY <1>6
  <2>1. /\ Sound(is_server, moved)
        /\ DOMAIN moved = DOMAIN ps
        /\ \A q \in DOMAIN ps : /\ moved[q].state = ps[q].state
                                /\ moved[q].active => q = p \/ ps[q].active
        /\ moved[p].active
    <3>1. /\ Sound(is_server, moved)
          /\ DOMAIN moved = DOMAIN given
          /\ \A q \in DOMAIN given :
               /\ moved[q].state = given[q].state
               /\ moved[q].active =
                    (q = p \/ (given[q].active /\ ~(~NoActive(given) /\ q = old)))
      BY <1>0, <1>3, SetActiveSound
    <3> HIDE DEF moved, old
    <3>2. \A q \in DOMAIN ps : moved[q].active => q = p \/ ps[q].active
      BY <1>3, <3>1, Zenon
    <3>3. moved[p].active
      BY <1>3, <3>1, Zenon
    <3> QED
      BY <1>3, <3>1, <3>2, <3>3
  <2> HIDE DEF moved
  <2>2. Good(is_server, moved[p]) /\ moved[p] \in PathType
        /\ (p # 0 => Within(is_server, moved[p]))
    BY <2>1 DEF Sound
  <2> DEFINE x == Given(moved[p], reuse)
  <2>3. /\ Good(is_server, x) /\ (p # 0 => Within(is_server, x))
        /\ x.active = moved[p].active /\ x.state = moved[p].state
    BY <1>0, <2>2, DcidGood
  <2>4. paths' = [moved EXCEPT ![p] = x]
    BY <2>0 DEF Given
  <2> HIDE DEF x
  <2>5. /\ Sound(is_server, paths') /\ DOMAIN paths' = DOMAIN ps
        /\ \A q \in DOMAIN ps : paths'[q] = IF q = p THEN x ELSE moved[q]
    BY <1>0, <2>1, <2>3, <2>4, ReplacedSound
  <2>6. split' \in BOOLEAN /\ (split => split') /\ Single(split', paths')
    BY <1>0, <1>1, <2>5, SplitKeeps
  <2>7. /\ \A q \in DOMAIN ps : paths'[q].state = ps[q].state
        /\ \A q \in DOMAIN ps : paths'[q].active => q = p \/ ps[q].active
        /\ paths'[p].active
    BY <2>1, <2>3, <2>5
  <2>8. reported' = IF ps[p].state = Validated THEN p ELSE known
    BY <1>3, <1>6 DEF ReportedAfter
  <2>9. ASSUME ~split', NEW r \in DOMAIN ps, paths'[r].active, paths'[r].state = Validated
        PROVE  reported' = r
    <3>1. CASE r = p
      BY <2>7, <2>8, <2>9, <3>1
    <3>2. CASE r # p
      <4>1. ps[r].active /\ ps[r].state = Validated /\ ~split
        BY <2>6, <2>7, <2>9, <3>2
      <4>2. known = r
        BY <4>1, <1>6 DEF Told
      <4>3. ps[p].state # Validated
        <5> SUFFICES ASSUME ps[p].state = Validated PROVE FALSE
          OBVIOUS
        <5>1. IsActive(paths'[r])
          BY <1>0, <2>5, <2>9, ValidatedActive
        <5>2. paths'[p].state = Validated
          BY <2>7
        <5>3. IsActive(paths'[p])
          BY <1>0, <2>5, <2>7, <5>2, ValidatedActive
        <5> QED
          BY <2>5, <2>6, <2>9, <3>2, <5>1, <5>3 DEF Single
      <4> QED
        BY <2>8, <4>2, <4>3
    <3> QED
      BY <3>1, <3>2
  <2>10. Told(is_server, split', paths', reported')
    BY <2>5, <2>9 DEF Told
  <2>11. reported' \in Pids \cup {None}
    BY <1>3, <2>8 DEF Sound
  <2> QED
    BY <1>1, <1>6, <2>5, <2>6, <2>10, <2>11 DEF IInv, Scalars
<1> QED
  BY <1>4, <1>5, <1>6

\* A PATH_CHALLENGE in a probing packet.
LEMMA OnChallengeKeeps ==
    ASSUME Scalars, NEW ps, NEW known \in Pids \cup {None}, Sound(is_server, ps),
           Told(is_server, split, ps, known), NEW p \in DOMAIN ps, NEW spare \in BOOLEAN,
           OnChallenge(ps, known, p, spare)
    PROVE  IInv'
<1> DEFINE x == on_challenge_received(ps[p])
           cs == [ps EXCEPT ![p] = x]
<1>0. is_server \in BOOLEAN /\ split \in BOOLEAN
  BY DEF Scalars
<1>1. /\ paths' = AllocateDcids(cs, spare) /\ reported' = known /\ Split
      /\ is_server' = is_server /\ phase' = phase /\ local_error' = local_error
      /\ draining' = draining /\ closed' = closed
  BY DEF OnChallenge
<1>2. ps[p] \in PathType /\ Good(is_server, ps[p]) /\ (p # 0 => Within(is_server, ps[p]))
  BY DEF Sound
<1>3. /\ Good(is_server, x) /\ (p # 0 => Within(is_server, x))
      /\ x.active = ps[p].active /\ x.state = ps[p].state
  BY <1>0, <1>2, ChallengeGood
<1> HIDE DEF x
<1>4. /\ Sound(is_server, cs) /\ DOMAIN cs = DOMAIN ps
      /\ \A q \in DOMAIN ps : cs[q] = IF q = p THEN x ELSE ps[q]
  BY <1>0, <1>3, ReplacedSound
<1> HIDE DEF cs
<1>5. /\ Sound(is_server, paths') /\ DOMAIN paths' = DOMAIN ps
      /\ \A q \in DOMAIN ps : /\ paths'[q].active = cs[q].active
                              /\ paths'[q].state = cs[q].state
  <2> DEFINE gs == AllocateDcids(cs, spare)
  <2>1. /\ Sound(is_server, gs) /\ DOMAIN gs = DOMAIN cs
        /\ \A q \in DOMAIN cs : gs[q].active = cs[q].active /\ gs[q].state = cs[q].state
    BY <1>0, <1>4, AllocateSound
  <2> QED
    BY <1>1, <1>4, <2>1
<1>6. \A q \in DOMAIN ps : paths'[q].active = ps[q].active /\ paths'[q].state = ps[q].state
  BY <1>3, <1>4, <1>5
<1>7. split' \in BOOLEAN /\ (split => split') /\ Single(split', paths')
  BY <1>0, <1>1, <1>5, SplitKeeps
<1>8. Told(is_server, split', paths', reported')
  BY <1>1, <1>5, <1>6, <1>7 DEF Told
<1> QED
  BY <1>1, <1>5, <1>7, <1>8 DEF IInv, Scalars

\* The only active path is the one that get_active_path_id finds.
LEMMA OnlyActive ==
    ASSUME NEW ps, DOMAIN ps \subseteq Nat, Single(FALSE, ps), NEW q \in DOMAIN ps, IsActive(ps[q])
    PROVE  ~NoActive(ps) /\ get_active_path_id(ps) = q
<1>1. ~NoActive(ps)
  BY DEF NoActive, ActivePaths
<1>2. /\ get_active_path_id(ps) \in DOMAIN ps
      /\ IsActive(ps[get_active_path_id(ps)])
  BY <1>1, ActiveFound
<1> QED
  BY <1>1, <1>2 DEF Single

\* PATH_RESPONSE: the notification that was due is given when the path it is about,
\* the active one, is validated.
LEMMA OnResponseKeeps ==
    ASSUME Scalars, NEW ps, Sound(is_server, ps), Single(split, ps),
           Told(is_server, split, ps, reported), NEW q \in DOMAIN ps,
           NEW i \in DOMAIN ps[q].flight, NEW spare \in BOOLEAN, OnResponse(ps, q, i, spare)
    PROVE  IInv'
<1> DEFINE y == on_response_received(ps[q], i)
           done == y.state = Validated /\ ps[q].state # Validated
           z == [y EXCEPT !.migrating = @ /\ ~done]
           rs == [ps EXCEPT ![q] = z]
<1>0. is_server \in BOOLEAN /\ split \in BOOLEAN
  BY DEF Scalars
<1>1. /\ Split
      /\ is_server' = is_server /\ phase' = phase
      /\ draining' = draining /\ closed' = closed
  BY DEF OnResponse
<1>2. CASE NoActive(ps)
  <2>1. paths' = ps /\ local_error' = TRUE /\ reported' = reported
    BY <1>2 DEF OnResponse
  <2>2. split' \in BOOLEAN /\ (split => split') /\ Single(split', paths')
    BY <1>0, <1>1, <2>1, SplitKeeps
  <2>3. Told(is_server, split', paths', reported')
    BY <2>1, <2>2 DEF Told
  <2> QED
    BY <1>1, <2>1, <2>2, <2>3 DEF IInv, Scalars
<1>3. CASE ~NoActive(ps)
  <2>1. /\ paths' = AllocateDcids(rs, spare)
        /\ reported' = IF done /\ q = get_active_path_id(ps) /\ ps[q].migrating
                       THEN q ELSE reported
        /\ local_error' = local_error
    BY <1>3 DEF OnResponse
  <2>2. ps[q] \in PathType /\ Good(is_server, ps[q])
    BY DEF Sound
  <2>3. /\ Good(is_server, z) /\ Within(is_server, z)
        /\ z.active = ps[q].active /\ z.state = y.state
        /\ ps[q].state > Failed /\ ps[q].dcid
        /\ ps[q].state = Validated => z.state = Validated
    BY <1>0, <2>2, ResponseGood
  <2> HIDE DEF y, z
  <2>4. /\ Sound(is_server, rs) /\ DOMAIN rs = DOMAIN ps
        /\ \A p \in DOMAIN ps : rs[p] = IF p = q THEN z ELSE ps[p]
    BY <1>0, <2>3, ReplacedSound
  <2> HIDE DEF rs
  <2>5. /\ Sound(is_server, paths') /\ DOMAIN paths' = DOMAIN ps
        /\ \A p \in DOMAIN ps : /\ paths'[p].active = rs[p].active
                                /\ paths'[p].state = rs[p].state
    <3> DEFINE gs == AllocateDcids(rs, spare)
    <3>1. /\ Sound(is_server, gs) /\ DOMAIN gs = DOMAIN rs
          /\ \A p \in DOMAIN rs : gs[p].active = rs[p].active /\ gs[p].state = rs[p].state
      BY <1>0, <2>4, AllocateSound
    <3> QED
      BY <2>1, <2>4, <3>1
  <2>6. split' \in BOOLEAN /\ (split => split') /\ Single(split', paths')
    BY <1>0, <1>1, <2>5, SplitKeeps
  <2>7. ASSUME is_server, ~split', NEW r \in DOMAIN ps, paths'[r].active,
               paths'[r].state = Validated
        PROVE  reported' = r
    <3>0. ~split
      BY <2>6, <2>7
    <3>1. CASE ps[r].state = Validated
      <4>1. ps[r].active
        BY <2>3, <2>4, <2>5, <2>7
      <4>2. reported = r
        BY <2>7, <3>0, <3>1, <4>1 DEF Told
      <4>3. IsActive(ps[r])
        BY <1>0, <3>1, <4>1, ValidatedActive
      <4>4. get_active_path_id(ps) = r
        BY <3>0, <4>3, OnlyActive, PathsAssumption DEF Sound, Single
      <4> QED
        BY <2>1, <4>2, <4>4
    <3>2. CASE ps[r].state # Validated
      <4>1. r = q
        BY <2>4, <2>5, <2>7, <3>2
      <4>2. done
        BY <2>3, <2>4, <2>5, <2>7, <3>2, <4>1
      <4>3. ps[q].active
        BY <2>3, <2>4, <2>5, <2>7, <4>1
      <4>4. IsActive(ps[q])
        BY <2>3, <4>3 DEF IsActive
      <4>5. get_active_path_id(ps) = q
        BY <3>0, <4>4, OnlyActive, PathsAssumption DEF Sound, Single
      <4>6. ps[q].migrating
        BY <2>2, <2>7, <3>2, <4>1, <4>3 DEF Good, Deferred
      <4> QED
        BY <2>1, <4>1, <4>2, <4>5, <4>6
    <3> QED
      BY <3>1, <3>2
  <2>8. Told(is_server, split', paths', reported')
    BY <2>5, <2>7 DEF Told
  <2>9. reported' \in Pids \cup {None}
    BY <2>1 DEF Scalars, Sound
  <2> QED
    BY <1>1, <2>1, <2>5, <2>6, <2>8, <2>9 DEF IInv, Scalars
<1> QED
  BY <1>2, <1>3

-----------------------------------------------------------------------------
(* The actions.                                                               *)

\* A table with the same flags, states and ids has the same active paths.
LEMMA SameActive ==
    ASSUME NEW server \in BOOLEAN, NEW sp \in BOOLEAN, NEW ps, NEW qs, NEW known,
           DOMAIN qs = DOMAIN ps,
           \A q \in DOMAIN ps : /\ qs[q].active = ps[q].active
                                /\ qs[q].state = ps[q].state
                                /\ qs[q].dcid = ps[q].dcid,
           Single(sp, ps), Told(server, sp, ps, known)
    PROVE  Single(sp, qs) /\ Told(server, sp, qs, known)
BY DEF Single, Told, IsActive

\* What holds of the table that Connection::recv works on.
LEMMA CreditedKeeps ==
    ASSUME IInv, NEW p \in DOMAIN paths, NEW len \in Lens
    PROVE  /\ Scalars
           /\ Sound(is_server, Credited(p, len))
           /\ DOMAIN Credited(p, len) = DOMAIN paths
           /\ Single(split, Credited(p, len))
           /\ Told(is_server, split, Credited(p, len), reported)
           /\ \A q \in DOMAIN paths : Credited(p, len)[q].flight = paths[q].flight
<1>1. Scalars /\ Sound(is_server, paths) /\ Single(split, paths)
      /\ Told(is_server, split, paths, reported)
  BY DEF IInv, Scalars
<1>2. len \in Nat /\ is_server \in BOOLEAN /\ split \in BOOLEAN
  BY <1>1, PathsAssumption DEF Scalars
<1> DEFINE cs == Credited(p, len)
<1>3. /\ Sound(is_server, cs) /\ DOMAIN cs = DOMAIN paths
      /\ \A q \in DOMAIN paths :
           /\ cs[q].active = paths[q].active /\ cs[q].state = paths[q].state
           /\ cs[q].dcid = paths[q].dcid /\ cs[q].flight = paths[q].flight
  BY <1>1, <1>2, CreditedSound
<1> HIDE DEF cs
<1>4. Single(split, cs) /\ Told(is_server, split, cs, reported)
  BY <1>1, <1>2, <1>3, SameActive
<1> QED
  BY <1>1, <1>3, <1>4 DEF cs

\* The receive actions on a known path.
LEMMA ReceiveKeeps ==
    ASSUME IInv, NEW p \in DOMAIN paths, NEW len \in Lens,
           \/ \E newest \in BOOLEAN, spare \in MaySpare(paths), acked \in Acks :
                RecvData(p, len, newest, acked, spare)
           \/ \E spare \in MaySpare(paths) :
                \/ RecvChallenge(p, len, spare)
                \/ \E q \in DOMAIN paths : \E i \in DOMAIN paths[q].flight :
                      RecvResponse(p, len, q, i, spare)
           \/ RecvClose(p, len)
           \/ RecvIgnored(p, len)
    PROVE  IInv'
<1> DEFINE cs == Credited(p, len)
<1>1. /\ Scalars /\ Sound(is_server, cs) /\ DOMAIN cs = DOMAIN paths
      /\ Single(split, cs) /\ Told(is_server, split, cs, reported)
      /\ \A q \in DOMAIN paths : cs[q].flight = paths[q].flight
  BY CreditedKeeps
<1>2. MaySpare(paths) \subseteq BOOLEAN
  BY DEF MaySpare
<1>3. reported \in Pids \cup {None}
  BY <1>1 DEF Scalars
<1> HIDE DEF cs
<1>4. ASSUME NEW newest \in BOOLEAN, NEW spare \in MaySpare(paths), NEW acked \in Acks,
             RecvData(p, len, newest, acked, spare)
      PROVE  IInv'
  <2>1. OnData(cs, reported, p, newest, acked, spare)
    BY <1>4 DEF RecvData, cs
  <2> QED
    BY <1>1, <1>2, <1>3, <2>1, OnDataKeeps
<1>5. ASSUME NEW spare \in MaySpare(paths), RecvChallenge(p, len, spare)
      PROVE  IInv'
  <2>1. OnChallenge(cs, reported, p, spare)
    BY <1>5 DEF RecvChallenge, cs
  <2> QED
    BY <1>1, <1>2, <1>3, <2>1, OnChallengeKeeps
<1>6. ASSUME NEW spare \in MaySpare(paths), NEW q \in DOMAIN paths,
             NEW i \in DOMAIN paths[q].flight, RecvResponse(p, len, q, i, spare)
      PROVE  IInv'
  <2>1. OnResponse(cs, q, i, spare)
    BY <1>6 DEF RecvResponse, cs
  <2>2. i \in DOMAIN cs[q].flight /\ q \in DOMAIN cs
    BY <1>1
  <2> QED
    BY <1>1, <1>2, <2>1, <2>2, OnResponseKeeps
<1>7. ASSUME RecvClose(p, len)
      PROVE  IInv'
  <2>1. /\ paths' = cs /\ local_error' \in BOOLEAN /\ draining' \in BOOLEAN
        /\ is_server' = is_server /\ phase' = phase /\ closed' = closed
        /\ reported' = reported /\ split' = split
    BY <1>1, <1>7 DEF RecvClose, cs, Scalars
  <2> QED
    BY <1>1, <2>1 DEF IInv, Scalars
<1>8. ASSUME RecvIgnored(p, len)
      PROVE  IInv'
  <2>1. /\ paths' = cs /\ local_error' = local_error /\ draining' = draining
        /\ is_server' = is_server /\ phase' = phase /\ closed' = closed
        /\ reported' = reported /\ split' = split
    BY <1>8 DEF RecvIgnored, cs
  <2> QED
    BY <1>1, <2>1 DEF IInv, Scalars
<1> QED
  BY <1>4, <1>5, <1>6, <1>7, <1>8

\* A datagram from a new address: its path takes a slot that no active path has.
LEMMA CreatedKeeps ==
    ASSUME IInv, NEW p \in Room, NEW len \in Lens
    PROVE  /\ Scalars
           /\ Sound(is_server, CreatePath(p, len))
           /\ p \in DOMAIN CreatePath(p, len)
           /\ Told(is_server, split, CreatePath(p, len), Forget(p))
           /\ Forget(p) \in Pids \cup {None}
<1> DEFINE x == [NewPath(FALSE) EXCEPT !.max_send = len * MaxAmplification,
                                       !.received = len, !.requested = TRUE]
           cs == CreatePath(p, len)
<1>1. Scalars /\ Sound(is_server, paths) /\ Told(is_server, split, paths, reported)
  BY DEF IInv, Scalars
<1>2. len \in Nat /\ is_server \in BOOLEAN /\ split \in BOOLEAN
  BY <1>1, PathsAssumption DEF Scalars
<1>3. p \in Pids
  BY <1>1, <1>2, RoomFree
<1>4. Good(is_server, x) /\ Within(is_server, x) /\ x.active = FALSE
  BY <1>2, CreatedGood
<1>5. cs = insert_path(p, x)
  BY DEF CreatePath
<1> HIDE DEF x
<1>6. /\ Sound(is_server, cs) /\ DOMAIN cs = DOMAIN paths \cup {p}
      /\ cs[p] = x
      /\ \A q \in DOMAIN paths \ {p} : cs[q] = paths[q]
  <2> DEFINE is == insert_path(p, x)
  <2>1. /\ Sound(is_server, is) /\ DOMAIN is = DOMAIN paths \cup {p}
        /\ is[p] = x
        /\ \A q \in DOMAIN paths \ {p} : is[q] = paths[q]
    BY <1>1, <1>2, <1>3, <1>4, InsertSound
  <2> HIDE DEF cs, is
  <2>2. cs = is
    BY <1>5 DEF is
  <2> QED
    BY <2>1, <2>2
<1> HIDE DEF cs
<1>7. Told(is_server, split, cs, Forget(p))
  <2> SUFFICES ASSUME is_server, ~split, NEW r \in DOMAIN cs, cs[r].active,
                      cs[r].state = Validated
               PROVE  Forget(p) = r
    BY DEF Told
  <2>1. r # p /\ r \in DOMAIN paths /\ cs[r] = paths[r]
    BY <1>4, <1>6
  <2>2. reported = r
    BY <1>1, <2>1 DEF Told
  <2> QED
    BY <2>1, <2>2 DEF Forget
<1>8. Forget(p) \in Pids \cup {None}
  BY <1>1 DEF Forget, Scalars
<1> QED
  BY <1>1, <1>6, <1>7, <1>8 DEF cs

\* The receive actions on a new path.
LEMMA ReceiveNewKeeps ==
    ASSUME IInv, NEW len \in Lens, NEW spare \in BOOLEAN,
           \/ \E newest \in BOOLEAN, acked \in Acks : RecvDataNew(len, newest, acked, spare)
           \/ RecvChallengeNew(len, spare)
    PROVE  IInv'
<1>1. ASSUME NEW newest \in BOOLEAN, NEW acked \in Acks, RecvDataNew(len, newest, acked, spare)
      PROVE  IInv'
  <2>1. PICK p \in Room : OnData(CreatePath(p, len), Forget(p), p, newest, acked, spare)
    BY <1>1 DEF RecvDataNew
  <2> QED
    BY <2>1, CreatedKeeps, OnDataKeeps
<1>2. ASSUME RecvChallengeNew(len, spare)
      PROVE  IInv'
  <2>1. PICK p \in Room : OnChallenge(CreatePath(p, len), Forget(p), p, spare)
    BY <1>2 DEF RecvChallengeNew
  <2> QED
    BY <2>1, CreatedKeeps, OnChallengeKeeps
<1> QED
  BY <1>1, <1>2

\* A path whose address is verified.
LEMMA VerifyGood ==
    ASSUME NEW server \in BOOLEAN, NEW x \in PathType, Good(server, x)
    PROVE  /\ Good(server, Verify(x))
           /\ Verify(x).active = x.active
           /\ Verify(x).state = x.state
           /\ Verify(x).dcid = x.dcid
<1> DEFINE y == Verify(x)
<1>1. /\ y \in PathType
      /\ y.active = x.active /\ y.state = x.state /\ y.dcid = x.dcid
      /\ y.flight = x.flight /\ y.migrating = x.migrating /\ y.requested = x.requested
  BY DEF PathType, Verify
<1> HIDE DEF y
<1>2. Good(server, y)
  BY <1>1 DEF Good, Probed, Pursued, Deferred, under_validation
<1> QED
  BY <1>1, <1>2 DEF y

\* A packet of the handshake.
LEMMA RecvLongKeeps ==
    ASSUME IInv, NEW len \in Lens, NEW ty \in {"junk", "initial", "handshake"}, RecvLong(len, ty)
    PROVE  IInv'
<1> DEFINE cs == Credited(0, len)
           x == IF is_server /\ ty = "handshake" THEN Verify(cs[0]) ELSE cs[0]
<1>0. 0 \in DOMAIN paths
  BY DEF IInv, Sound
<1>1. /\ Scalars /\ Sound(is_server, cs) /\ DOMAIN cs = DOMAIN paths
      /\ Single(split, cs) /\ Told(is_server, split, cs, reported)
  BY <1>0, CreditedKeeps
<1>2. is_server \in BOOLEAN /\ split \in BOOLEAN
  BY <1>1 DEF Scalars
<1>3. /\ paths' = [cs EXCEPT ![0] = x]
      /\ phase' \in {"new", "handshake", "established"}
      /\ local_error' \in BOOLEAN /\ closed' \in BOOLEAN
      /\ is_server' = is_server /\ draining' = draining
      /\ reported' = reported /\ split' = split
  BY <1>1 DEF RecvLong, Scalars
<1> HIDE DEF cs
<1>4. cs[0] \in PathType /\ Good(is_server, cs[0])
  BY <1>0, <1>1 DEF Sound
<1>5. /\ Good(is_server, x)
      /\ x.active = cs[0].active /\ x.state = cs[0].state /\ x.dcid = cs[0].dcid
  BY <1>2, <1>4, VerifyGood
<1> HIDE DEF x
<1> DEFINE rs == [cs EXCEPT ![0] = x]
<1>6. /\ Sound(is_server, rs) /\ DOMAIN rs = DOMAIN cs
      /\ \A q \in DOMAIN cs : rs[q] = IF q = 0 THEN x ELSE cs[q]
  BY <1>0, <1>1, <1>2, <1>5, ReplacedSound
<1>7. paths' = rs
  BY <1>3
<1> HIDE DEF rs
<1>8. Single(split, rs) /\ Told(is_server, split, rs, reported)
  <2>1. \A q \in DOMAIN cs : rs[q].active = cs[q].active /\ rs[q].state = cs[q].state
                             /\ rs[q].dcid = cs[q].dcid
    BY <1>5, <1>6
  <2> QED
    BY <1>1, <1>2, <1>6, <2>1, SameActive
<1> QED
  BY <1>1, <1>3, <1>6, <1>7, <1>8 DEF IInv, Scalars

\* The room in the next datagram is no more than the credit.
LEMMA LeftBounded ==
    ASSUME NEW x \in PathType
    PROVE  /\ Left(x) \in 0..MIN_CLIENT_INITIAL_LEN
           /\ Limited(x) => Left(x) <= x.max_send
<1>1. MIN_CLIENT_INITIAL_LEN \in Nat /\ x.max_send \in Nat
  BY PathsAssumption DEF PathType
<1>2. Min({MIN_CLIENT_INITIAL_LEN, x.max_send}) =
        IF MIN_CLIENT_INITIAL_LEN <= x.max_send THEN MIN_CLIENT_INITIAL_LEN ELSE x.max_send
  BY <1>1, MinOfTwo
<1> QED
  BY <1>1, <1>2 DEF Left

\* A datagram of the handshake, on the first path.
LEMMA SendLongKeeps ==
    ASSUME IInv, NEW written \in ProbeLen..MIN_CLIENT_INITIAL_LEN, SendLong(written)
    PROVE  IInv'
<1> DEFINE x == Charge(paths[0], written, Left(paths[0]))
           rs == [paths EXCEPT ![0] = x]
<1>1. Scalars /\ Sound(is_server, paths) /\ Single(split, paths)
      /\ Told(is_server, split, paths, reported)
  BY DEF IInv, Scalars
<1>2. 0 \in DOMAIN paths /\ paths[0] \in PathType /\ Good(is_server, paths[0])
  BY <1>1 DEF Sound
<1>3. is_server \in BOOLEAN /\ split \in BOOLEAN /\ local_error \in BOOLEAN
  BY <1>1 DEF Scalars
<1>4. written \in Nat /\ Left(paths[0]) \in Nat
  BY <1>2, LeftBounded, PathsAssumption
<1>5. /\ Good(is_server, x)
      /\ x.active = paths[0].active /\ x.state = paths[0].state /\ x.dcid = paths[0].dcid
  BY <1>2, <1>3, <1>4, ChargeGood
<1>6. /\ paths' = rs /\ draining' = local_error
      /\ is_server' = is_server /\ phase' = phase /\ local_error' = local_error
      /\ closed' = closed /\ reported' = reported /\ split' = split
  BY DEF SendLong
<1> HIDE DEF x
<1>7. /\ Sound(is_server, rs) /\ DOMAIN rs = DOMAIN paths
      /\ \A q \in DOMAIN paths : rs[q] = IF q = 0 THEN x ELSE paths[q]
  BY <1>1, <1>2, <1>3, <1>5, ReplacedSound
<1> HIDE DEF rs
<1>8. \A q \in DOMAIN paths : rs[q].active = paths[q].active /\ rs[q].state = paths[q].state
                              /\ rs[q].dcid = paths[q].dcid
  BY <1>5, <1>7
<1>9. Single(split, rs) /\ Told(is_server, split, rs, reported)
  BY <1>1, <1>3, <1>7, <1>8, SameActive
<1> QED
  BY <1>1, <1>3, <1>6, <1>7, <1>9 DEF IInv, Scalars

\* A packet that carries no challenge: those of the peer are answered.
LEMMA AnswerGood ==
    ASSUME NEW server \in BOOLEAN, NEW x \in PathType, Good(server, x)
    PROVE  LET y == [x EXCEPT !.challenges = 0]
           IN  /\ Good(server, y)
               /\ Within(server, x) => Within(server, y)
               /\ y.active = x.active
               /\ y.dcid = x.dcid
               /\ y.state = x.state
               /\ y.max_send = x.max_send /\ y.verified = x.verified
<1> DEFINE y == [x EXCEPT !.challenges = 0]
<1>1. 0 \in 0..MaxQueue
  BY PathsAssumption
<1>2. /\ y \in PathType
      /\ y.max_send = x.max_send /\ y.sent = x.sent /\ y.received = x.received
      /\ y.active = x.active /\ y.state = x.state /\ y.dcid = x.dcid
      /\ y.flight = x.flight /\ y.migrating = x.migrating /\ y.requested = x.requested
      /\ y.verified = x.verified
  BY <1>1 DEF PathType
<1> HIDE DEF y
<1>3. Good(server, y) /\ (Within(server, x) => Within(server, y))
  BY <1>2 DEF Good, Probed, Pursued, Deferred, Within, under_validation
<1> QED
  BY <1>2, <1>3 DEF y

\* send_single of a 1-RTT packet: a challenge goes out on a path that has an id, and
\* what the packet costs fits the credit.
LEMMA SendKeeps ==
    ASSUME IInv, NEW p \in DOMAIN paths, Send(p)
    PROVE  IInv'
<1> DEFINE x == paths[p]
           left == Left(x)
           written == IF x.state = Validated THEN ProbeLen ELSE left
           probed == IF x.requested THEN add_challenge_sent(x, written) ELSE x
           y == [probed EXCEPT !.challenges = 0]
           z == Charge(y, written, written)
           rs == [paths EXCEPT ![p] = z]
<1>1. Scalars /\ Sound(is_server, paths) /\ Single(split, paths)
      /\ Told(is_server, split, paths, reported)
  BY DEF IInv, Scalars
<1>2. x \in PathType /\ Good(is_server, x) /\ (p # 0 => Within(is_server, x))
  BY <1>1 DEF Sound
<1>3. is_server \in BOOLEAN /\ split \in BOOLEAN /\ local_error \in BOOLEAN
  BY <1>1 DEF Scalars
<1>4. /\ x.dcid /\ left >= ProbeLen
      /\ paths' = rs /\ draining' = Announces(p) /\ Split
      /\ is_server' = is_server /\ phase' = phase /\ local_error' = local_error
      /\ closed' = closed /\ reported' = reported
  BY DEF Send
<1> HIDE DEF x
<1>5. left \in 0..MIN_CLIENT_INITIAL_LEN /\ (Limited(x) => left <= x.max_send)
  BY <1>2, LeftBounded
<1> HIDE DEF left
<1>6. written \in 0..MIN_CLIENT_INITIAL_LEN /\ (Limited(x) => written <= x.max_send)
  <2>1. ProbeLen \in Nat /\ MIN_CLIENT_INITIAL_LEN \in Nat /\ ProbeLen <= MIN_CLIENT_INITIAL_LEN
    BY PathsAssumption
  <2>2. x.max_send \in Nat
    BY <1>2 DEF PathType
  <2> QED
    BY <1>4, <1>5, <2>1, <2>2
<1> HIDE DEF written
<1>7. /\ Good(is_server, y)
      /\ p # 0 => Within(is_server, y)
      /\ y.active = x.active /\ y.dcid = x.dcid
      /\ y.state = Validated <=> x.state = Validated
      /\ y.max_send = x.max_send /\ y.verified = x.verified
  <2>1. CASE x.requested
    <3> DEFINE w == [add_challenge_sent(x, written) EXCEPT !.challenges = 0]
    <3>1. y = w
      BY <2>1
    <3>2. /\ Good(is_server, w)
          /\ Within(is_server, x) => Within(is_server, w)
          /\ w.active = x.active /\ w.dcid = x.dcid
          /\ w.state = Validated <=> x.state = Validated
          /\ w.max_send = x.max_send /\ w.verified = x.verified
      BY <1>2, <1>3, <1>4, <1>6, ProbeGood
    <3> HIDE DEF y, w
    <3> QED
      BY <1>2, <3>1, <3>2
  <2>2. CASE ~x.requested
    BY <1>2, <1>3, <2>2, AnswerGood
  <2> QED
    BY <2>1, <2>2
<1> HIDE DEF y
<1>8. y \in PathType /\ (Limited(y) => written <= y.max_send) /\ written \in Nat
  BY <1>6, <1>7 DEF Good, Limited
<1>9. /\ Good(is_server, z)
      /\ p # 0 => Within(is_server, z)
      /\ z.active = y.active /\ z.state = y.state
  BY <1>3, <1>7, <1>8, ChargeGood
<1> HIDE DEF z
<1>10. /\ Sound(is_server, rs) /\ DOMAIN rs = DOMAIN paths
       /\ \A q \in DOMAIN paths : rs[q] = IF q = p THEN z ELSE paths[q]
  BY <1>1, <1>3, <1>9, ReplacedSound
<1> HIDE DEF rs
<1>11. split' \in BOOLEAN /\ (split => split') /\ Single(split', paths')
  BY <1>3, <1>4, <1>10, SplitKeeps
<1>12. \A q \in DOMAIN paths : /\ rs[q].active = paths[q].active
                               /\ rs[q].state = Validated <=> paths[q].state = Validated
  BY <1>7, <1>9, <1>10 DEF x
<1>13. Told(is_server, split', rs, reported)
  BY <1>1, <1>10, <1>11, <1>12 DEF Told
<1>14. draining' \in BOOLEAN
  BY <1>3, <1>4 DEF Announces
<1> QED
  BY <1>1, <1>4, <1>10, <1>11, <1>13, <1>14 DEF IInv, Scalars

\* Connection::on_timeout: paths fail, and the connection moves to one that is validated,
\* which the application hears of.
LEMMA OnTimeoutKeeps ==
    ASSUME IInv, NEW expired \in SUBSET DOMAIN paths, NEW spaced \in BOOLEAN,
           OnTimeout(expired, spaced)
    PROVE  IInv'
<1> DEFINE ls == [p \in DOMAIN paths |->
                    IF p \in expired THEN on_loss_detection_timeout(paths[p], spaced)
                    ELSE paths[p]]
           candidates == {p \in DOMAIN ls : usable(ls[p])}
           c == Min(candidates)
<1>1. Scalars /\ Sound(is_server, paths) /\ Single(split, paths)
      /\ Told(is_server, split, paths, reported)
  BY DEF IInv, Scalars
<1>2. is_server \in BOOLEAN /\ split \in BOOLEAN /\ closed \in BOOLEAN
  BY <1>1 DEF Scalars
<1>3. /\ is_server' = is_server /\ phase' = phase /\ local_error' = local_error
      /\ draining' = draining /\ split' = split
      /\ \/ paths' = ls /\ closed' \in BOOLEAN /\ reported' = reported
         \/ /\ NoActive(ls) /\ candidates # {}
            /\ paths' = set_active_path(ls, c)
            /\ reported' = ReportedAfter(ls, c, reported)
            /\ closed' = closed
  BY <1>2 DEF OnTimeout
<1>4. /\ DOMAIN ls = DOMAIN paths
      /\ ls = [q \in DOMAIN paths |-> ls[q]]
      /\ \A q \in DOMAIN paths : ls[q] = IF q \in expired
                                         THEN on_loss_detection_timeout(paths[q], spaced)
                                         ELSE paths[q]
  OBVIOUS
<1> HIDE DEF ls
<1>5. ASSUME NEW q \in DOMAIN paths
      PROVE  /\ Good(is_server, ls[q])
             /\ q # 0 => Within(is_server, ls[q])
             /\ ls[q].active => paths[q].active
             /\ ls[q].dcid = paths[q].dcid
             /\ ls[q].state = paths[q].state \/ (ls[q].state = Failed /\ ~ls[q].active)
  <2>1. paths[q] \in PathType /\ Good(is_server, paths[q])
        /\ (q # 0 => Within(is_server, paths[q]))
    BY <1>1 DEF Sound
  <2> QED
    BY <1>2, <1>4, <2>1, LossGood
<1>6. Sound(is_server, ls)
  BY <1>1, <1>2, <1>4, <1>5, Tabled DEF Sound
<1>7. \A q \in DOMAIN paths : IsActive(ls[q]) => IsActive(paths[q])
  BY <1>5 DEF IsActive
<1>8. Single(split, ls)
  BY <1>1, <1>4, <1>7 DEF Single
<1>9. \A q \in DOMAIN paths : ls[q].active /\ ls[q].state = Validated =>
                                 paths[q].active /\ paths[q].state = Validated
  BY <1>5
<1>10. Told(is_server, split, ls, reported)
  BY <1>1, <1>4, <1>9 DEF Told
<1>11. CASE paths' = ls /\ closed' \in BOOLEAN /\ reported' = reported
  BY <1>1, <1>3, <1>6, <1>8, <1>10, <1>11 DEF IInv, Scalars
<1>12. CASE /\ NoActive(ls) /\ candidates # {}
            /\ paths' = set_active_path(ls, c)
            /\ reported' = ReportedAfter(ls, c, reported)
            /\ closed' = closed
  <2> DEFINE ns == set_active_path(ls, c)
  <2>1. c \in DOMAIN ls /\ usable(ls[c])
    <3>1. candidates \subseteq Nat
      BY <1>6, PathsAssumption DEF Sound
    <3>2. c \in candidates
      BY <1>12, <3>1, LeastOf
    <3> QED
      BY <3>2
  <2> HIDE DEF c
  <2>2. /\ Sound(is_server, ns) /\ DOMAIN ns = DOMAIN ls
        /\ \A q \in DOMAIN ls :
             /\ ns[q].active =
                  (q = c \/ (ls[q].active /\ ~(~NoActive(ls) /\ q = get_active_path_id(ls))))
             /\ ns[q].state = ls[q].state
             /\ ns[q].dcid = ls[q].dcid
    BY <1>2, <1>6, <2>1, SetActiveSound
  <2> HIDE DEF ns
  <2>3. \A q \in DOMAIN ls : ns[q].active => q = c \/ ls[q].active
    BY <2>2, Zenon
  <2>4. \A q \in DOMAIN ls : ~IsActive(ls[q])
    BY <1>12 DEF NoActive, ActivePaths
  <2>5. \A q \in DOMAIN ls : IsActive(ns[q]) => q = c
    BY <2>2, <2>3, <2>4 DEF IsActive
  <2>6. Single(split, ns)
    BY <2>2, <2>5 DEF Single
  <2>7. ls[c].state = Validated
    BY <2>1, <2>4 DEF usable
  <2>8. reported' = IF is_server THEN c ELSE reported
    BY <1>12, <2>7 DEF ReportedAfter
  <2>9. ASSUME NEW r \in DOMAIN ns, ns[r].active, ns[r].state = Validated PROVE r = c
    <3>1. IsActive(ns[r])
      BY <1>2, <2>2, <2>9, ValidatedActive
    <3> QED
      BY <2>2, <2>5, <3>1
  <2>10. Told(is_server, split, ns, reported')
    BY <2>8, <2>9 DEF Told
  <2>11. reported' \in Pids \cup {None}
    BY <1>1, <1>6, <2>1, <2>8 DEF Sound, Scalars
  <2>12. paths' = ns
    BY <1>12 DEF ns
  <2> QED
    BY <1>1, <1>3, <1>12, <2>2, <2>6, <2>10, <2>11, <2>12 DEF IInv, Scalars
<1> QED
  BY <1>3, <1>11, <1>12

\* Connection::probe_path, of a path that exists.
LEMMA ProbePathKeeps ==
    ASSUME IInv, NEW p \in DOMAIN paths, ProbePath(p)
    PROVE  IInv'
<1>0. PICK yes \in BOOLEAN : yes = TRUE
  OBVIOUS
<1> DEFINE x == paths[p]
           y == Flagged(x, x.active, x.migrating, yes)
           rs == [paths EXCEPT ![p] = y]
<1>1. Scalars /\ Sound(is_server, paths) /\ Single(split, paths)
      /\ Told(is_server, split, paths, reported)
  BY DEF IInv, Scalars
<1>2. x \in PathType /\ Good(is_server, x) /\ (p # 0 => Within(is_server, x))
  BY <1>1 DEF Sound
<1>3. is_server \in BOOLEAN /\ split \in BOOLEAN
  BY <1>1 DEF Scalars
<1>4. [x EXCEPT !.requested = TRUE] = y
  BY <1>0, <1>2 DEF Flagged, PathType
<1>5. /\ paths' = rs
      /\ is_server' = is_server /\ phase' = phase /\ local_error' = local_error
      /\ draining' = draining /\ closed' = closed /\ reported' = reported /\ split' = split
  BY <1>4 DEF ProbePath
<1>6. /\ Good(is_server, y) /\ (p # 0 => Within(is_server, y))
      /\ y.active = x.active /\ y.state = x.state /\ y.dcid = x.dcid
  <2>1. x.active \in BOOLEAN /\ x.migrating \in BOOLEAN
    BY <1>2 DEF PathType
  <2> QED
    <3> HIDE DEF x
    <3>1. PICK a \in BOOLEAN, m \in BOOLEAN : a = x.active /\ m = x.migrating
      BY <2>1
    <3>2. yes
      BY <1>0
    <3>3. y = Flagged(x, a, m, yes)
      BY <3>1
    <3> HIDE DEF y
    <3>4. /\ Good(is_server, Flagged(x, a, m, yes))
          /\ Within(is_server, x) => Within(is_server, Flagged(x, a, m, yes))
          /\ Flagged(x, a, m, yes).active = a
          /\ Flagged(x, a, m, yes).state = x.state
          /\ Flagged(x, a, m, yes).dcid = x.dcid
      <4>1. (x.migrating => m) /\ (x.requested => yes) /\ (a => x.active)
        BY <3>1, <3>2
      <4>2. a => \/ x.active \/ ~is_server \/ x.state = Validated
                 \/ m /\ (yes \/ under_validation(x))
        BY <4>1
      <4>3. x \in PathType /\ Good(is_server, x) /\ is_server \in BOOLEAN
        BY <1>2, <1>3
      <4> QED
        BY <4>1, <4>2, <4>3, ActivateGood
    <3> QED
      BY <1>2, <3>1, <3>3, <3>4
<1> HIDE DEF y
<1>7. /\ Sound(is_server, rs) /\ DOMAIN rs = DOMAIN paths
      /\ \A q \in DOMAIN paths : rs[q] = IF q = p THEN y ELSE paths[q]
  BY <1>1, <1>3, <1>6, ReplacedSound
<1> HIDE DEF rs
<1>8. \A q \in DOMAIN paths : rs[q].active = paths[q].active /\ rs[q].state = paths[q].state
                              /\ rs[q].dcid = paths[q].dcid
  BY <1>6, <1>7
<1>9. Single(split, rs) /\ Told(is_server, split, rs, reported)
  BY <1>1, <1>3, <1>7, <1>8, SameActive
<1> QED
  BY <1>1, <1>5, <1>7, <1>9 DEF IInv, Scalars

\* create_path_on_client, for probe_path: the path is not active.
LEMMA ProbeNewPathKeeps ==
    ASSUME IInv, ProbeNewPath
    PROVE  IInv'
<1>1. Scalars /\ Sound(is_server, paths) /\ Single(split, paths)
  BY DEF IInv, Scalars
<1>2. ~is_server /\ is_server \in BOOLEAN /\ split \in BOOLEAN
  BY <1>1 DEF Scalars, ProbeNewPath
<1>3. PICK p \in Room : paths' = [ClientPath(p) EXCEPT ![p].requested = TRUE]
  BY DEF ProbeNewPath
<1>4. /\ is_server' = is_server /\ phase' = phase /\ local_error' = local_error
      /\ draining' = draining /\ closed' = closed /\ reported' = reported /\ split' = split
  BY DEF ProbeNewPath
<1>5. p \in Pids
  BY <1>1, <1>2, RoomFree
<1> DEFINE x == [NewPath(FALSE) EXCEPT !.dcid = TRUE, !.requested = TRUE]
           is == insert_path(p, x)
<1>6. Good(is_server, x) /\ Within(is_server, x) /\ x.active = FALSE
  BY <1>2, ClientGood
<1>7. paths' = is
  BY <1>3 DEF ClientPath, insert_path, NewPath
<1> HIDE DEF x
<1>8. /\ Sound(is_server, is) /\ DOMAIN is = DOMAIN paths \cup {p}
      /\ is[p] = x
      /\ \A q \in DOMAIN paths \ {p} : is[q] = paths[q]
  BY <1>1, <1>2, <1>5, <1>6, InsertSound
<1> HIDE DEF is
<1>9. Single(split, is)
  BY <1>1, <1>6, <1>8 DEF Single, IsActive
<1>10. Told(is_server, split, is, reported)
  BY <1>2 DEF Told
<1> QED
  BY <1>1, <1>2, <1>4, <1>7, <1>8, <1>9, <1>10 DEF IInv, Scalars

\* Connection::migrate.
LEMMA MigrateKeeps ==
    ASSUME IInv, NEW p \in Pids, Migrate(p)
    PROVE  IInv'
<1>1. Scalars /\ Sound(is_server, paths) /\ Single(split, paths)
  BY DEF IInv, Scalars
<1>2. ~is_server /\ split \in BOOLEAN /\ is_server \in BOOLEAN
  BY <1>1 DEF Scalars, Migrate
<1>3. /\ is_server' = is_server /\ phase' = phase /\ local_error' = local_error
      /\ draining' = draining /\ closed' = closed /\ reported' = reported /\ Split
  BY DEF Migrate
<1>4. Sound(is_server, paths')
  <2>1. CASE p \in DOMAIN paths
    <3> DEFINE y == Given(paths[p], TRUE)
               rs == [paths EXCEPT ![p] = y]
    <3>1. paths[p] \in PathType /\ Good(is_server, paths[p])
          /\ (p # 0 => Within(is_server, paths[p]))
      BY <1>1, <2>1 DEF Sound
    <3>2. Good(is_server, y) /\ (p # 0 => Within(is_server, y))
      BY <1>2, <3>1, DcidGood
    <3>3. [paths EXCEPT ![p].dcid = TRUE] = rs
      BY <3>1 DEF Given, PathType
    <3>4. paths' = set_active_path(rs, p)
      BY <2>1, <3>3 DEF Migrate
    <3> HIDE DEF y
    <3>5. Sound(is_server, rs) /\ DOMAIN rs = DOMAIN paths
      BY <1>1, <1>2, <2>1, <3>2, ReplacedSound
    <3> HIDE DEF rs
    <3> QED
      BY <1>2, <2>1, <3>4, <3>5, SetActiveSound
  <2>2. CASE p \notin DOMAIN paths
    <3> DEFINE x == [NewPath(FALSE) EXCEPT !.dcid = TRUE, !.requested = FALSE]
               is == insert_path(p, x)
    <3>1. Good(is_server, x) /\ Within(is_server, x)
      BY <1>2, ClientGood
    <3>2. x = [NewPath(FALSE) EXCEPT !.dcid = TRUE]
      <4>1. NewPath(FALSE) \in PathType
        BY NewPathGood
      <4>2. NewPath(FALSE).requested = FALSE
        BY DEF NewPath
      <4> QED
        BY <4>1, <4>2 DEF PathType
    <3>3. paths' = set_active_path(is, p)
      BY <2>2, <3>2 DEF Migrate, ClientPath
    <3> HIDE DEF x
    <3>4. Sound(is_server, is) /\ p \in DOMAIN is
      <4>1. Sound(is_server, is) /\ DOMAIN is = DOMAIN paths \cup {p}
        BY <1>1, <1>2, <3>1, InsertSound
      <4> HIDE DEF is
      <4> QED
        BY <4>1
    <3> HIDE DEF is
    <3> QED
      BY <1>2, <3>3, <3>4, SetActiveSound
  <2> QED
    BY <2>1, <2>2
<1>5. split' \in BOOLEAN /\ (split => split') /\ Single(split', paths')
  BY <1>2, <1>3, <1>4, SplitKeeps
<1>6. Told(is_server, split', paths', reported)
  BY <1>2 DEF Told
<1> QED
  BY <1>1, <1>3, <1>4, <1>5, <1>6 DEF IInv, Scalars

-----------------------------------------------------------------------------
(* The theorems.                                                              *)

\* The first path is validated, and active.
LEMMA InitInv == Init => IInv
<1> SUFFICES ASSUME Init PROVE IInv
  OBVIOUS
<1>0. is_server \in BOOLEAN /\ is_server \in Roles
  BY PathsAssumption DEF Init
<1>1. PICK retried \in BOOLEAN :
        paths = [p \in {0} |-> [NewPath(TRUE) EXCEPT !.active = TRUE,
                                                     !.verified = is_server /\ retried]]
  BY DEF Init
<1> DEFINE v == is_server /\ retried
           x == [NewPath(TRUE) EXCEPT !.active = TRUE, !.verified = v]
<1>2. v \in BOOLEAN
  OBVIOUS
<1>3. paths = [p \in {0} |-> x]
  BY <1>1
<1> HIDE DEF v
<1>4. x \in PathType /\ x.state = Validated /\ x.dcid = TRUE
  <2>1. NewPath(TRUE) \in PathType
    BY PathsAssumption DEF NewPath, PathType, Failed, Validated
  <2>2. NewPath(TRUE).state = Validated /\ NewPath(TRUE).dcid = TRUE
    BY DEF NewPath
  <2> QED
    BY <1>2, <2>1, <2>2 DEF PathType
<1> HIDE DEF x
<1>5. Good(is_server, x)
  BY <1>4 DEF Good, Probed, Pursued, Deferred, under_validation, Validating, Validated
<1>6. DOMAIN paths = {0} /\ paths[0] = x /\ paths = [q \in {0} |-> paths[q]]
  BY <1>3
<1>7. Sound(is_server, paths)
  BY <1>0, <1>5, <1>6, Tabled, PathsAssumption
<1>8. Single(split, paths)
  BY <1>6 DEF Single
<1>9. Told(is_server, split, paths, reported)
  BY <1>6 DEF Told, Init
<1> QED
  BY <1>0, <1>7, <1>8, <1>9, PathsAssumption DEF Init, IInv

\* Every step of the connection keeps the invariant.
LEMMA NextInv == IInv /\ [Next]_vars => IInv'
<1> SUFFICES ASSUME IInv, [Next]_vars PROVE IInv'
  OBVIOUS
<1>1. CASE Receive
  <2>1. ASSUME NEW len \in Lens, NEW ty \in {"junk", "initial", "handshake"}, RecvLong(len, ty)
        PROVE  IInv'
    BY <2>1, RecvLongKeeps
  <2> QED
    BY <1>1, <2>1, ReceiveKeeps, ReceiveNewKeeps DEF Receive
<1>2. ASSUME NEW p \in DOMAIN paths, Send(p) \/ ProbePath(p) PROVE IInv'
  BY <1>2, SendKeeps, ProbePathKeeps
<1>3. ASSUME NEW written \in ProbeLen..MIN_CLIENT_INITIAL_LEN, SendLong(written) PROVE IInv'
  BY <1>3, SendLongKeeps
<1>4. ASSUME NEW expired \in SUBSET DOMAIN paths, NEW spaced \in BOOLEAN,
             OnTimeout(expired, spaced)
      PROVE  IInv'
  BY <1>4, OnTimeoutKeeps
<1>5. CASE DrainingTimeout
  BY <1>5 DEF IInv, DrainingTimeout
<1>6. CASE IdleTimeout
  BY <1>6 DEF IInv, IdleTimeout
<1>7. CASE ProbeNewPath
  BY <1>7, ProbeNewPathKeeps
<1>8. ASSUME NEW p \in Pids, Migrate(p) PROVE IInv'
  BY <1>8, MigrateKeeps
<1>9. CASE Close
  BY <1>9 DEF IInv, Close
<1>10. CASE UNCHANGED vars
  BY <1>10 DEF IInv, vars
<1> QED
  BY <1>1, <1>2, <1>3, <1>4, <1>5, <1>6, <1>7, <1>8, <1>9, <1>10 DEF Next

\* The invariant holds in every state.
THEOREM Invariance == Spec => []IInv
BY InitInv, NextInv, PTL DEF Spec

\* Every variable has its type; the queue of challenges and the count of lost probes
\* stay within their limits.
THEOREM TypeCorrect == Spec => []TypeOK
<1>1. IInv => TypeOK
  BY DEF IInv, TypeOK, Sound
<1> QED
  BY <1>1, Invariance, PTL

\* send_on_path never gives an address that is not verified more than
\* max_amplification_factor times what came from there, whatever is received, lost,
\* padded or probed, on every path but the one that the handshake opened.
THEOREM AmplificationBoundHolds == Spec => []AmplificationBound
<1>1. IInv => AmplificationBound
  <2> SUFFICES ASSUME IInv, NEW p \in DOMAIN paths \ {0}, Limited(paths[p])
               PROVE  paths[p].sent <= MaxAmplification * paths[p].received
    BY DEF AmplificationBound
  <2>1. paths[p] \in PathType /\ Within(is_server, paths[p])
    BY DEF IInv, Sound
  <2>2. paths[p].sent + paths[p].max_send <= MaxAmplification * paths[p].received
    BY <2>1 DEF Within, Limited
  <2>3. paths[p].sent \in Nat /\ paths[p].max_send \in Nat
        /\ MaxAmplification * paths[p].received \in Int
    BY <2>1, PathsAssumption, SMTT(30) DEF PathType
  <2> QED
    BY <2>2, <2>3
<1> QED
  BY <1>1, Invariance, PTL

\* A path that is under validation, or that a server uses before it is validated, has
\* a challenge in flight or one to send: no validation is left lying.
THEOREM ValidationPursuedHolds == Spec => []ValidationPursued
<1>1. IInv => ValidationPursued
  <2> SUFFICES ASSUME IInv, NEW p \in DOMAIN paths,
                      under_validation(paths[p]) \/ (is_server /\ IsActive(paths[p]))
               PROVE  \/ paths[p].state = Validated \/ paths[p].requested
                      \/ paths[p].flight # <<>>
    BY DEF ValidationPursued
  <2>1. Pursued(is_server, paths[p])
    BY DEF IInv, Sound, Good
  <2> QED
    BY <2>1 DEF Pursued, IsActive
<1> QED
  BY <1>1, Invariance, PTL

\* The application of a server has been told of the path that carries the connection
\* by the time that path is validated.
THEOREM MigrationReportedHolds == Spec => []MigrationReported
<1>1. IInv => MigrationReported
  <2> SUFFICES ASSUME IInv, is_server, ~split, ~NoActive(paths),
                      paths[get_active_path_id(paths)].state = Validated
               PROVE  reported = get_active_path_id(paths)
    BY DEF MigrationReported
  <2>1. DOMAIN paths \subseteq Nat
    BY PathsAssumption DEF IInv, Sound
  <2>2. /\ get_active_path_id(paths) \in DOMAIN paths
        /\ IsActive(paths[get_active_path_id(paths)])
    BY <2>1, ActiveFound
  <2> QED
    BY <2>2 DEF IInv, Told, IsActive
<1> QED
  BY <1>1, Invariance, PTL

-----------------------------------------------------------------------------
(* Connection ids, which the paths use: the inductive invariant.             *)

Entries == [seq : 0 .. MaxSeq, pid : {Unset} \cup (0 .. MaxPaths - 1)]
Users == [dcid : {Unset} \cup (0 .. MaxSeq), active : BOOLEAN]

\* Only ids that were handed out are anywhere.
HandedOut ==
    /\ scids \subseteq 0 .. next_scid_seq - 1
    /\ \A f \in ncids : f.seq < next_scid_seq
    /\ Seqs(dcids) \subseteq 0 .. next_scid_seq - 1
    /\ given_up \subseteq 0 .. next_scid_seq - 1

IdsInv ==
    /\ IdsTypeOK
    /\ routes \in [DOMAIN routes -> Users]
    /\ HandedOut
    /\ TablesBounded
    /\ PathsLinked
    /\ DroppedIsReleased

-----------------------------------------------------------------------------
(* Numbers and iteration.                                                    *)

\* Induction, on the members of a set.
LEMMA Induction ==
    ASSUME NEW n \in Nat, NEW P, 0 \in P, \A k \in 1 .. n : k - 1 \in P => k \in P
    PROVE  n \in P
<1> SUFFICES ASSUME n \notin P PROVE FALSE
  OBVIOUS
<1> DEFINE bad == {k \in 0 .. n : k \notin P}
<1>1. bad # {} /\ bad \subseteq Nat
  OBVIOUS
<1>2. Min(bad) \in bad /\ \A y \in bad : Min(bad) <= y
  BY <1>1, LeastOf
<1>3. PICK k \in 0 .. n : k \notin P /\ \A y \in bad : k <= y
  BY <1>2
<1>4. k # 0
  BY <1>3
<1>5. k - 1 \in 0 .. n /\ k - 1 \notin bad
  BY <1>3, <1>4
<1> QED
  BY <1>3, <1>4, <1>5

\* f are the values that a loop of n turns goes through, which starts with b.
Loop(f, n, b, T) == f[0] = b /\ \A k \in 1 .. n : f[k] = T[k][f[k - 1]]

\* There are such values.
LEMMA Iterates ==
    ASSUME NEW n \in Nat, NEW S, NEW b \in S, NEW T \in [1 .. n -> [S -> S]]
    PROVE  \E f \in [0 .. n -> S] : Loop(f, n, b, T)
<1> DEFINE GoodIds(m, f) == f[0] = b /\ \A k \in 1 .. m : f[k] = T[k][f[k - 1]]
           P == {m \in 0 .. n : \E f \in [0 .. m -> S] : GoodIds(m, f)}
<1>1. 0 \in P
  <2> DEFINE f == [k \in 0 .. 0 |-> b]
  <2>1. f \in [0 .. 0 -> S] /\ GoodIds(0, f)
    OBVIOUS
  <2> HIDE DEF f, GoodIds
  <2>2. \E h \in [0 .. 0 -> S] : GoodIds(0, h)
    BY <2>1
  <2> QED
    BY <2>2
<1>2. ASSUME NEW m \in 1 .. n, m - 1 \in P PROVE m \in P
  <2>1. PICK f \in [0 .. m - 1 -> S] : GoodIds(m - 1, f)
    BY <1>2
  <2> DEFINE g == [k \in 0 .. m |-> IF k = m THEN T[m][f[m - 1]] ELSE f[k]]
  <2>2. f[m - 1] \in S /\ T[m] \in [S -> S]
    OBVIOUS
  <2>3. T[m][f[m - 1]] \in S
    BY <2>2
  <2>4. g \in [0 .. m -> S]
    BY <2>3
  <2>5. GoodIds(m, g)
    <3>1. g[0] = b
      BY <2>1
    <3>2. ASSUME NEW k \in 1 .. m PROVE g[k] = T[k][g[k - 1]]
      <4>1. CASE k = m
        BY <4>1
      <4>2. CASE k # m
        BY <2>1, <4>2
      <4> QED
        BY <4>1, <4>2
    <3> QED
      BY <3>1, <3>2
  <2> HIDE DEF g, GoodIds
  <2>6. \E h \in [0 .. m -> S] : GoodIds(m, h)
    BY <2>4, <2>5
  <2> QED
    BY <2>6
<1> HIDE DEF P
<1>3. n \in P
  BY <1>1, <1>2, Induction
<1> QED
  BY <1>3 DEF P, Loop

-----------------------------------------------------------------------------
(* Giving an id to a path.                                                    *)

States(D) == [dcids : Seq(Entries), routes : [D -> Users]]

Unique(q) == \A i, j \in DOMAIN q : q[i].seq = q[j].seq => i = j

\* An entry that is taken is the id of the path it names.
Back(q, ps) ==
    \A i \in DOMAIN q : q[i].pid # Unset => q[i].pid \in DOMAIN ps /\ ps[q[i].pid].dcid = q[i].seq

\* The id of the path has an entry, which names the path.
Forth(q, ps, p) ==
    ps[p].dcid # Unset => \E i \in DOMAIN q : q[i].seq = ps[p].dcid /\ q[i].pid = p

Untaken(q, p) == \A i \in DOMAIN q : q[i].pid # p

\* The entries are those of r, but for the paths they name.
SameIds(q, r) == Len(q) = Len(r) /\ \A i \in DOMAIN r : q[i].seq = r[i].seq

\* link_dcid_to_path_id of a free id.
LEMMA LinkDcid ==
    ASSUME NEW q \in Seq(Entries), NEW s, NEW p \in 0 .. MaxPaths - 1
    PROVE  /\ link_dcid_to_path_id(q, s, p) \in Seq(Entries)
           /\ SameIds(link_dcid_to_path_id(q, s, p), q)
           /\ DOMAIN link_dcid_to_path_id(q, s, p) = DOMAIN q
           /\ \A i \in DOMAIN q : link_dcid_to_path_id(q, s, p)[i].pid =
                                     IF q[i].seq = s THEN p ELSE q[i].pid
<1> DEFINE n == link_dcid_to_path_id(q, s, p)
<1>1. Len(q) \in Nat /\ DOMAIN q = 1 .. Len(q) /\ \A i \in DOMAIN q : q[i] \in Entries
  BY LenProperties, ElementOfSeq
<1>2. n = [i \in 1 .. Len(q) |-> IF q[i].seq = s THEN [q[i] EXCEPT !.pid = p] ELSE q[i]]
  BY <1>1 DEF link_dcid_to_path_id
<1> HIDE DEF n
<1>3. ASSUME NEW i \in 1 .. Len(q)
      PROVE  /\ n[i] \in Entries /\ n[i].seq = q[i].seq
             /\ n[i].pid = IF q[i].seq = s THEN p ELSE q[i].pid
  BY <1>1, <1>2 DEF Entries
<1>4. n \in [1 .. Len(q) -> Entries]
  BY <1>2, <1>3
<1>5. n \in Seq(Entries) /\ Len(n) = Len(q) /\ DOMAIN n = 1 .. Len(q)
  BY <1>1, <1>4
<1> QED
  BY <1>1, <1>3, <1>5 DEF n, SameIds

\* A free id is that of an entry which names no path.
LEMMA FreeId ==
    ASSUME NEW q \in Seq(Entries), Available(q) # {}
    PROVE  /\ Min(Available(q)) \in 0 .. MaxSeq
           /\ \E i \in DOMAIN q : q[i].seq = Min(Available(q)) /\ q[i].pid = Unset
<1>1. \A i \in DOMAIN q : q[i] \in Entries
  BY ElementOfSeq
<1>2. Available(q) \subseteq 0 .. MaxSeq
  BY <1>1 DEF Available, Entries
<1>3. Available(q) \subseteq Nat
  BY <1>2
<1>4. Min(Available(q)) \in Available(q)
  BY <1>3, LeastOf
<1>5. \E i \in DOMAIN q : q[i].seq = Min(Available(q)) /\ q[i].pid = Unset
  BY <1>4 DEF Available
<1> QED
  BY <1>2, <1>4, <1>5

\* GiveDcid: whatever the state, only the path p and an entry that is free change.
LEMMA GiveShape ==
    ASSUME NEW D, D \subseteq 0 .. MaxPaths - 1, NEW st \in States(D), NEW p \in D
    PROVE  /\ GiveDcid(st, p) \in States(D)
           /\ SameIds(GiveDcid(st, p).dcids, st.dcids)
           /\ \A r \in D \ {p} : GiveDcid(st, p).routes[r] = st.routes[r]
<1> DEFINE free == Available(st.dcids)
           s == Min(free)
           y == GiveDcid(st, p)
<1>0. st.dcids \in Seq(Entries) /\ st.routes \in [D -> Users]
  BY DEF States
<1>1. ASSUME free = {}
      PROVE  /\ y \in States(D) /\ SameIds(y.dcids, st.dcids)
             /\ \A r \in D \ {p} : y.routes[r] = st.routes[r]
  <2> DEFINE ps == [st.routes EXCEPT ![p].dcid = Unset]
  <2>1. ps \in [D -> Users] /\ \A r \in D \ {p} : ps[r] = st.routes[r]
    BY <1>0 DEF Users
  <2>2. y = [st EXCEPT !.routes = ps]
    BY <1>1 DEF GiveDcid
  <2> HIDE DEF ps, y
  <2>3. y \in States(D) /\ y.dcids = st.dcids /\ y.routes = ps
    BY <2>1, <2>2 DEF States
  <2> QED
    BY <2>1, <2>3 DEF SameIds
<1>2. ASSUME free # {}
      PROVE  /\ y \in States(D) /\ SameIds(y.dcids, st.dcids)
             /\ \A r \in D \ {p} : y.routes[r] = st.routes[r]
  <2> DEFINE ps == [st.routes EXCEPT ![p].dcid = s]
             q == link_dcid_to_path_id(st.dcids, s, p)
  <2>0. s \in 0 .. MaxSeq
    BY <1>0, <1>2, FreeId
  <2>1. ps \in [D -> Users] /\ \A r \in D \ {p} : ps[r] = st.routes[r]
    BY <1>0, <2>0 DEF Users
  <2>2. y = [dcids |-> q, routes |-> ps]
    BY <1>2 DEF GiveDcid
  <2>3. q \in Seq(Entries) /\ SameIds(q, st.dcids)
    BY <1>0, LinkDcid
  <2> HIDE DEF ps, y, q
  <2>4. y \in States(D) /\ y.dcids = q /\ y.routes = ps
    BY <2>1, <2>2, <2>3 DEF States
  <2> QED
    BY <2>1, <2>3, <2>4
<1> QED
  BY <1>1, <1>2

\* If no entry is taken by p, the two tables agree afterwards as far as they did, and
\* about p.
LEMMA GiveLinks ==
    ASSUME NEW D, D \subseteq 0 .. MaxPaths - 1, NEW st \in States(D), NEW p \in D,
           Unique(st.dcids), Back(st.dcids, st.routes), Untaken(st.dcids, p)
    PROVE  LET y == GiveDcid(st, p)
           IN  /\ Back(y.dcids, y.routes)
               /\ Forth(y.dcids, y.routes, p)
               /\ \A r \in D \ {p} : Forth(st.dcids, st.routes, r) => Forth(y.dcids, y.routes, r)
<1> DEFINE free == Available(st.dcids)
           s == Min(free)
           y == GiveDcid(st, p)
<1>0. st.dcids \in Seq(Entries) /\ st.routes \in [D -> Users] /\ DOMAIN st.routes = D
  BY DEF States
<1>1. ASSUME free = {}
      PROVE  /\ Back(y.dcids, y.routes)
             /\ Forth(y.dcids, y.routes, p)
             /\ \A r \in D \ {p} : Forth(st.dcids, st.routes, r) => Forth(y.dcids, y.routes, r)
  <2> DEFINE ps == [st.routes EXCEPT ![p].dcid = Unset]
  <2>1. /\ DOMAIN ps = D
        /\ ps[p].dcid = Unset
        /\ \A r \in D \ {p} : ps[r] = st.routes[r]
    BY <1>0 DEF Users
  <2>2. y = [st EXCEPT !.routes = ps]
    BY <1>1 DEF GiveDcid
  <2> HIDE DEF ps, y
  <2>3. y.dcids = st.dcids /\ y.routes = ps
    BY <2>2 DEF States
  <2>4. Back(st.dcids, ps)
    BY <1>0, <2>1 DEF Back, Untaken
  <2>5. Forth(st.dcids, ps, p)
    BY <2>1 DEF Forth
  <2>6. \A r \in D \ {p} : Forth(st.dcids, st.routes, r) => Forth(st.dcids, ps, r)
    BY <2>1 DEF Forth
  <2> QED
    BY <2>3, <2>4, <2>5, <2>6
<1>2. ASSUME free # {}
      PROVE  /\ Back(y.dcids, y.routes)
             /\ Forth(y.dcids, y.routes, p)
             /\ \A r \in D \ {p} : Forth(st.dcids, st.routes, r) => Forth(y.dcids, y.routes, r)
  <2> DEFINE ps == [st.routes EXCEPT ![p].dcid = s]
             q == link_dcid_to_path_id(st.dcids, s, p)
  <2>1. /\ DOMAIN ps = D
        /\ ps[p].dcid = s
        /\ \A r \in D \ {p} : ps[r] = st.routes[r]
    BY <1>0 DEF Users
  <2>2. y = [dcids |-> q, routes |-> ps]
    BY <1>2 DEF GiveDcid
  <2>3. /\ DOMAIN q = DOMAIN st.dcids
        /\ \A i \in DOMAIN st.dcids :
             /\ q[i].seq = st.dcids[i].seq
             /\ q[i].pid = IF st.dcids[i].seq = s THEN p ELSE st.dcids[i].pid
    BY <1>0, LinkDcid DEF SameIds
  <2>4. PICK e \in DOMAIN st.dcids : st.dcids[e].seq = s /\ st.dcids[e].pid = Unset
    BY <1>0, <1>2, FreeId
  <2> HIDE DEF ps, y, q, s, free
  <2>5. y.dcids = q /\ y.routes = ps
    BY <2>2
  <2>6. \A i \in DOMAIN st.dcids : st.dcids[i].seq = s => i = e
    BY <2>4 DEF Unique
  <2>7. Back(q, ps)
    <3> SUFFICES ASSUME NEW i \in DOMAIN q, q[i].pid # Unset
                 PROVE  q[i].pid \in D /\ ps[q[i].pid].dcid = q[i].seq
      BY <2>1 DEF Back
    <3>1. CASE i = e
      BY <2>1, <2>3, <2>4, <3>1
    <3>2. CASE i # e
      <4>1. st.dcids[i].pid = q[i].pid /\ st.dcids[i].seq = q[i].seq
        BY <2>3, <2>6, <3>2
      <4>2. q[i].pid # p
        BY <2>3, <4>1 DEF Untaken
      <4>3. q[i].pid \in D /\ st.routes[q[i].pid].dcid = q[i].seq
        BY <1>0, <2>3, <4>1 DEF Back
      <4> QED
        BY <2>1, <4>2, <4>3
    <3> QED
      BY <3>1, <3>2
  <2>8. Forth(q, ps, p)
    BY <2>1, <2>3, <2>4 DEF Forth
  <2>9. ASSUME NEW r \in D \ {p}, Forth(st.dcids, st.routes, r)
        PROVE  Forth(q, ps, r)
    <3> SUFFICES ASSUME ps[r].dcid # Unset
                 PROVE  \E i \in DOMAIN q : q[i].seq = ps[r].dcid /\ q[i].pid = r
      BY DEF Forth
    <3>1. PICK i \in DOMAIN st.dcids : st.dcids[i].seq = st.routes[r].dcid /\ st.dcids[i].pid = r
      BY <2>1, <2>9 DEF Forth
    <3>2. r # Unset
      BY DEF Unset
    <3>3. i # e
      BY <2>4, <3>1, <3>2
    <3>4. q[i].seq = st.routes[r].dcid /\ q[i].pid = r
      BY <2>3, <2>6, <3>1, <3>3
    <3> QED
      BY <2>1, <2>3, <3>4
  <2> QED
    BY <2>5, <2>7, <2>8, <2>9
<1> QED
  BY <1>1, <1>2

-----------------------------------------------------------------------------
(* The loops over the retired entries and over the paths.                     *)

\* Two tables with the same ids.
LEMMA SameIdsFacts ==
    ASSUME NEW q \in Seq(Entries), NEW r \in Seq(Entries), SameIds(q, r)
    PROVE  /\ DOMAIN q = DOMAIN r
           /\ Unique(r) => Unique(q)
           /\ Seqs(q) = Seqs(r)
           /\ \A t \in Seq(Entries) : SameIds(t, q) => SameIds(t, r)
<1>1. DOMAIN q = 1 .. Len(q) /\ DOMAIN r = 1 .. Len(r)
  BY LenProperties
<1>2. DOMAIN q = DOMAIN r /\ \A i \in DOMAIN r : q[i].seq = r[i].seq
  BY <1>1 DEF SameIds
<1>3. Unique(r) => Unique(q)
  BY <1>2 DEF Unique
<1>4. Seqs(q) = Seqs(r)
  BY <1>2 DEF Seqs
<1>5. \A t \in Seq(Entries) : SameIds(t, q) => SameIds(t, r)
  BY <1>2 DEF SameIds
<1> QED
  BY <1>2, <1>3, <1>4, <1>5

\* A table has the same ids as itself.
LEMMA SameIdsReflexive ==
    ASSUME NEW q
    PROVE  SameIds(q, q)
BY DEF SameIds

\* One turn of the loop over the retired entries.
LEMMA SwitchShape ==
    ASSUME NEW D, D \subseteq 0 .. MaxPaths - 1, NEW st \in States(D), NEW e \in Entries
    PROVE  Switch(st, e) \in States(D) /\ SameIds(Switch(st, e).dcids, st.dcids)
<1>1. DOMAIN st.routes = D
  BY DEF States
<1> QED
  BY <1>1, GiveShape, SameIdsReflexive DEF Switch

\* One turn of the loop over the paths.
LEMMA WantShape ==
    ASSUME NEW D, D \subseteq 0 .. MaxPaths - 1, NEW st \in States(D), NEW p
    PROVE  Want(st, p) \in States(D) /\ SameIds(Want(st, p).dcids, st.dcids)
<1>1. DOMAIN st.routes = D
  BY DEF States
<1> QED
  BY <1>1, GiveShape, SameIdsReflexive DEF Want

\* The states that the loop over the retired entries goes through.
SwitchRun(f, st, out) ==
    /\ f[0] = st
    /\ \A k \in 1 .. Len(out) : f[k] = Switch(f[k - 1], out[k])
    /\ SwitchAll(st, out) = f[Len(out)]

\* There are such states.
LEMMA SwitchTurns ==
    ASSUME NEW D, D \subseteq 0 .. MaxPaths - 1, NEW st \in States(D), NEW out \in Seq(Entries)
    PROVE  \E f \in [0 .. Len(out) -> States(D)] : SwitchRun(f, st, out)
<1> DEFINE n == Len(out)
           T == [k \in 1 .. n |-> [s \in States(D) |-> Switch(s, out[k])]]
           IsRun(f) == f = [k \in 0 .. n |-> IF k = 0 THEN st ELSE Switch(f[k - 1], out[k])]
<1>0. n \in Nat /\ \A k \in 1 .. n : out[k] \in Entries
  BY LenProperties, ElementOfSeq
<1> HIDE DEF n
<1>1. T \in [1 .. n -> [States(D) -> States(D)]]
  BY <1>0, SwitchShape
<1>2. \E f \in [0 .. n -> States(D)] : Loop(f, n, st, T)
  <2> HIDE DEF T
  <2> QED
    BY <1>0, <1>1, Iterates
<1>3. PICK g \in [0 .. n -> States(D)] : g[0] = st /\ \A k \in 1 .. n : g[k] = T[k][g[k - 1]]
  BY <1>2 DEF Loop
<1>4. ASSUME NEW k \in 1 .. n PROVE g[k] = Switch(g[k - 1], out[k])
  <2>1. k - 1 \in 0 .. n
    BY <1>0
  <2>2. g[k - 1] \in States(D)
    BY <2>1
  <2> QED
    BY <1>3, <2>2
<1>5. IsRun(g)
  BY <1>0, <1>3, <1>4
<1> DEFINE h == CHOOSE f : IsRun(f)
<1>6. IsRun(h)
  BY <1>5
<1>7. SwitchAll(st, out) = h[n]
  BY DEF SwitchAll, n
<1> HIDE DEF h
<1>8. /\ h[0] = st
      /\ \A k \in 1 .. n : h[k] = Switch(h[k - 1], out[k])
      /\ h = [k \in 0 .. n |-> h[k]]
  <2>1. h = [k \in 0 .. n |-> IF k = 0 THEN st ELSE Switch(h[k - 1], out[k])]
    BY <1>6
  <2>2. h[0] = st
    BY <1>0, <2>1
  <2>3. ASSUME NEW k \in 1 .. n PROVE h[k] = Switch(h[k - 1], out[k])
    <3>1. k \in 0 .. n /\ k # 0
      BY <1>0
    <3> QED
      BY <2>1, <3>1
  <2>4. DOMAIN h = 0 .. n
    BY <2>1
  <2>5. h = [k \in 0 .. n |-> h[k]]
    BY <2>1, <2>4
  <2> QED
    BY <2>2, <2>3, <2>5
<1> DEFINE P == {k \in 0 .. n : h[k] \in States(D)}
<1>9. 0 \in P
  BY <1>0, <1>8
<1>10. ASSUME NEW k \in 1 .. n, k - 1 \in P PROVE k \in P
  <2>1. h[k - 1] \in States(D) /\ out[k] \in Entries
    BY <1>0, <1>10
  <2>2. h[k] \in States(D)
    BY <1>8, <2>1, SwitchShape
  <2> QED
    BY <1>0, <2>2
<1> HIDE DEF P
<1>11. ASSUME NEW m \in 0 .. n PROVE m \in P
  <2>1. m \in Nat /\ \A k \in 1 .. m : k - 1 \in P => k \in P
    BY <1>0, <1>10
  <2> QED
    BY <1>9, <2>1, Induction
<1>12. h \in [0 .. n -> States(D)]
  BY <1>8, <1>11 DEF P
<1> QED
  BY <1>7, <1>8, <1>12 DEF n, SwitchRun

\* The states that the loop over the paths goes through.
AllocateRun(f, st) ==
    /\ f[0] = st
    /\ \A k \in 1 .. MaxPaths : f[k] = Want(f[k - 1], k - 1)
    /\ Allocate(st) = f[MaxPaths]

\* There are such states.
LEMMA AllocateTurns ==
    ASSUME NEW D, D \subseteq 0 .. MaxPaths - 1, NEW st \in States(D)
    PROVE  \E f \in [0 .. MaxPaths -> States(D)] : AllocateRun(f, st)
<1> DEFINE n == MaxPaths
           T == [k \in 1 .. n |-> [s \in States(D) |-> Want(s, k - 1)]]
           IsRun(f) == f = [k \in 0 .. n |-> IF k = 0 THEN st ELSE Want(f[k - 1], k - 1)]
<1>0. n \in Nat
  BY ConnIdsAssumption
<1> HIDE DEF n
<1>1. T \in [1 .. n -> [States(D) -> States(D)]]
  BY <1>0, WantShape
<1>2. \E f \in [0 .. n -> States(D)] : Loop(f, n, st, T)
  <2> HIDE DEF T
  <2> QED
    BY <1>0, <1>1, Iterates
<1>3. PICK g \in [0 .. n -> States(D)] : g[0] = st /\ \A k \in 1 .. n : g[k] = T[k][g[k - 1]]
  BY <1>2 DEF Loop
<1>4. ASSUME NEW k \in 1 .. n PROVE g[k] = Want(g[k - 1], k - 1)
  <2>1. k - 1 \in 0 .. n
    BY <1>0
  <2>2. g[k - 1] \in States(D)
    BY <2>1
  <2> QED
    BY <1>3, <2>2
<1>5. IsRun(g)
  BY <1>0, <1>3, <1>4
<1> DEFINE h == CHOOSE f : IsRun(f)
<1>6. IsRun(h)
  BY <1>5
<1>7. Allocate(st) = h[n]
  BY DEF Allocate, n
<1> HIDE DEF h
<1>8. /\ h[0] = st
      /\ \A k \in 1 .. n : h[k] = Want(h[k - 1], k - 1)
      /\ h = [k \in 0 .. n |-> h[k]]
  <2>1. h = [k \in 0 .. n |-> IF k = 0 THEN st ELSE Want(h[k - 1], k - 1)]
    BY <1>6
  <2>2. h[0] = st
    BY <1>0, <2>1
  <2>3. ASSUME NEW k \in 1 .. n PROVE h[k] = Want(h[k - 1], k - 1)
    <3>1. k \in 0 .. n /\ k # 0
      BY <1>0
    <3> QED
      BY <2>1, <3>1
  <2>4. DOMAIN h = 0 .. n
    BY <2>1
  <2>5. h = [k \in 0 .. n |-> h[k]]
    BY <2>1, <2>4
  <2> QED
    BY <2>2, <2>3, <2>5
<1> DEFINE P == {k \in 0 .. n : h[k] \in States(D)}
<1>9. 0 \in P
  BY <1>0, <1>8
<1>10. ASSUME NEW k \in 1 .. n, k - 1 \in P PROVE k \in P
  <2>1. h[k - 1] \in States(D)
    BY <1>0, <1>10
  <2>2. h[k] \in States(D)
    BY <1>8, <2>1, WantShape
  <2> QED
    BY <1>0, <2>2
<1> HIDE DEF P
<1>11. ASSUME NEW m \in 0 .. n PROVE m \in P
  <2>1. m \in Nat /\ \A k \in 1 .. m : k - 1 \in P => k \in P
    BY <1>0, <1>10
  <2> QED
    BY <1>9, <2>1, Induction
<1>12. h \in [0 .. n -> States(D)]
  BY <1>8, <1>11 DEF P
<1> QED
  BY <1>7, <1>8, <1>12 DEF n, AllocateRun

\* The paths of the retired entries get other ids, or none: the tables agree again.
LEMMA SwitchAllLinks ==
    ASSUME NEW D, D \subseteq 0 .. MaxPaths - 1, NEW st \in States(D), NEW out \in Seq(Entries),
           Unique(st.dcids), Back(st.dcids, st.routes),
           \A i \in DOMAIN st.dcids, j \in DOMAIN out : st.dcids[i].seq # out[j].seq,
           \A p \in D : \/ Forth(st.dcids, st.routes, p)
                        \/ \E j \in DOMAIN out : out[j].pid = p /\ out[j].seq = st.routes[p].dcid
    PROVE  /\ SwitchAll(st, out) \in States(D)
           /\ SameIds(SwitchAll(st, out).dcids, st.dcids)
           /\ Back(SwitchAll(st, out).dcids, SwitchAll(st, out).routes)
           /\ \A p \in D : Forth(SwitchAll(st, out).dcids, SwitchAll(st, out).routes, p)
<1> DEFINE n == Len(out)
<1>0. n \in Nat /\ DOMAIN out = 1 .. n /\ \A k \in 1 .. n : out[k] \in Entries
  BY LenProperties, ElementOfSeq
<1>1. PICK f \in [0 .. n -> States(D)] :
              /\ f[0] = st
              /\ \A k \in 1 .. n : f[k] = Switch(f[k - 1], out[k])
              /\ SwitchAll(st, out) = f[n]
  <2>1. PICK f \in [0 .. Len(out) -> States(D)] : SwitchRun(f, st, out)
    BY SwitchTurns
  <2> QED
    BY <2>1 DEF SwitchRun, n
<1> HIDE DEF n
<1> DEFINE Pending(k, p) == \E j \in k + 1 .. n : out[j].pid = p /\ out[j].seq = f[k].routes[p].dcid
           Agree(k) == /\ SameIds(f[k].dcids, st.dcids)
                       /\ Back(f[k].dcids, f[k].routes)
                       /\ \A p \in D : Forth(f[k].dcids, f[k].routes, p) \/ Pending(k, p)
           P == {k \in 0 .. n : Agree(k)}
<1>2. 0 \in P
  <2>1. SameIds(st.dcids, st.dcids)
    BY SameIdsReflexive
  <2> QED
    BY <1>0, <1>1, <2>1
<1>3. ASSUME NEW k \in 1 .. n, k - 1 \in P PROVE k \in P
  <2> DEFINE x == f[k - 1]
             e == out[k]
             y == f[k]
  <2>0. Agree(k - 1) /\ k - 1 \in 0 .. n
    BY <1>3
  <2>1. x \in States(D) /\ e \in Entries /\ y = Switch(x, e)
    BY <1>0, <1>1, <2>0
  <2>2. /\ SameIds(x.dcids, st.dcids) /\ Back(x.dcids, x.routes)
        /\ \A p \in D : Forth(x.dcids, x.routes, p)
                        \/ \E j \in k .. n : out[j].pid = p /\ out[j].seq = x.routes[p].dcid
    BY <1>0, <2>0
  <2>3. x.dcids \in Seq(Entries) /\ st.dcids \in Seq(Entries) /\ DOMAIN x.routes = D
    BY <2>1 DEF States
  <2>4. /\ DOMAIN x.dcids = DOMAIN st.dcids /\ Unique(x.dcids)
        /\ \A i \in DOMAIN x.dcids : x.dcids[i].seq # e.seq
    <3>1. DOMAIN x.dcids = DOMAIN st.dcids /\ Unique(x.dcids)
      BY <2>2, <2>3, SameIdsFacts
    <3> QED
      BY <1>0, <2>2, <3>1 DEF SameIds
  <2>5. ASSUME Agree(k) PROVE k \in P
    BY <1>0, <2>5
  <2> HIDE DEF x, P
  <2>6. CASE e.pid \in D /\ x.routes[e.pid].dcid = e.seq
    <3> DEFINE p == e.pid
    <3>1. y = GiveDcid(x, p)
      BY <2>1, <2>3, <2>6 DEF Switch
    <3> HIDE DEF y, p
    <3>7. p \in D /\ x.routes[p].dcid = e.seq
      BY <2>6 DEF p
    <3> HIDE DEF e
    <3>2. Untaken(x.dcids, p)
      <4> SUFFICES ASSUME NEW i \in DOMAIN x.dcids, x.dcids[i].pid = p PROVE FALSE
        BY DEF Untaken
      <4>1. p # Unset
        BY <3>7 DEF Unset
      <4>2. x.routes[p].dcid = x.dcids[i].seq
        BY <2>2, <4>1 DEF Back
      <4> QED
        BY <2>4, <3>7, <4>2
    <3>3. /\ y \in States(D) /\ SameIds(y.dcids, x.dcids)
          /\ \A r \in D \ {p} : y.routes[r] = x.routes[r]
      <4> DEFINE g == GiveDcid(x, p)
      <4>1. /\ g \in States(D) /\ SameIds(g.dcids, x.dcids)
            /\ \A r \in D \ {p} : g.routes[r] = x.routes[r]
        BY <2>1, <3>7, GiveShape
      <4> HIDE DEF g
      <4>2. y = g
        BY <3>1 DEF g
      <4> QED
        BY <4>1, <4>2
    <3>4. /\ Back(y.dcids, y.routes)
          /\ Forth(y.dcids, y.routes, p)
          /\ \A r \in D \ {p} : Forth(x.dcids, x.routes, r) => Forth(y.dcids, y.routes, r)
      <4> DEFINE g == GiveDcid(x, p)
      <4>1. /\ Back(g.dcids, g.routes)
            /\ Forth(g.dcids, g.routes, p)
            /\ \A r \in D \ {p} : Forth(x.dcids, x.routes, r) => Forth(g.dcids, g.routes, r)
        BY <2>1, <2>2, <2>4, <3>2, <3>7, GiveLinks
      <4> HIDE DEF g
      <4>2. y = g
        BY <3>1 DEF g
      <4> QED
        BY <4>1, <4>2
    <3>5. SameIds(y.dcids, st.dcids)
      <4>1. y.dcids \in Seq(Entries)
        BY <3>3 DEF States
      <4> QED
        BY <2>2, <2>3, <3>3, <4>1, SameIdsFacts
    <3> HIDE DEF y
    <3>6. ASSUME NEW r \in D
          PROVE  Forth(y.dcids, y.routes, r)
                 \/ \E j \in k + 1 .. n : out[j].pid = r /\ out[j].seq = y.routes[r].dcid
      <4>1. CASE r = p
        BY <3>4, <4>1
      <4>2. CASE r # p /\ Forth(x.dcids, x.routes, r)
        BY <3>4, <4>2
      <4>3. CASE r # p /\ ~Forth(x.dcids, x.routes, r)
        <5>1. PICK j \in k .. n : out[j].pid = r /\ out[j].seq = x.routes[r].dcid
          BY <2>2, <4>3
        <5>2. j # k
          BY <4>3, <5>1 DEF p, e
        <5>3. j \in k + 1 .. n /\ y.routes[r] = x.routes[r]
          BY <1>0, <3>3, <4>3, <5>1, <5>2
        <5> QED
          BY <5>1, <5>3
      <4> QED
        BY <4>1, <4>2, <4>3
    <3> QED
      BY <2>5, <3>4, <3>5, <3>6 DEF y
  <2>7. CASE ~(e.pid \in D /\ x.routes[e.pid].dcid = e.seq)
    <3>1. y = x
      BY <2>1, <2>3, <2>7 DEF Switch
    <3>2. ASSUME NEW r \in D
          PROVE  Forth(x.dcids, x.routes, r)
                 \/ \E j \in k + 1 .. n : out[j].pid = r /\ out[j].seq = x.routes[r].dcid
      <4>1. CASE Forth(x.dcids, x.routes, r)
        BY <4>1
      <4>2. CASE ~Forth(x.dcids, x.routes, r)
        <5>1. PICK j \in k .. n : out[j].pid = r /\ out[j].seq = x.routes[r].dcid
          BY <2>2, <4>2
        <5>2. j # k
          BY <2>7, <5>1
        <5>3. j \in k + 1 .. n
          BY <1>0, <5>1, <5>2
        <5> QED
          BY <5>1, <5>3
      <4> QED
        BY <4>1, <4>2
    <3> QED
      BY <2>2, <2>5, <3>1, <3>2 DEF y
  <2> QED
    BY <2>6, <2>7
<1>4. n \in P
  <2> HIDE DEF P
  <2> QED
    BY <1>0, <1>2, <1>3, Induction
<1>5. Agree(n)
  BY <1>4
<1>6. \A p \in D : Forth(f[n].dcids, f[n].routes, p)
  BY <1>0, <1>5
<1>7. f[n] \in States(D)
  BY <1>0
<1> QED
  BY <1>1, <1>5, <1>6, <1>7

\* A path without an id gets one, and the tables still agree.
LEMMA WantLinks ==
    ASSUME NEW D, D \subseteq 0 .. MaxPaths - 1, NEW st \in States(D), NEW p,
           Unique(st.dcids), Back(st.dcids, st.routes),
           \A r \in D : Forth(st.dcids, st.routes, r)
    PROVE  /\ Back(Want(st, p).dcids, Want(st, p).routes)
           /\ \A r \in D : Forth(Want(st, p).dcids, Want(st, p).routes, r)
<1>0. st.dcids \in Seq(Entries) /\ DOMAIN st.routes = D
  BY DEF States
<1>1. CASE p \in D /\ st.routes[p].dcid = Unset
  <2> DEFINE g == GiveDcid(st, p)
  <2>1. Want(st, p) = g
    BY <1>0, <1>1 DEF Want
  <2>2. Untaken(st.dcids, p)
    <3> SUFFICES ASSUME NEW i \in DOMAIN st.dcids, st.dcids[i].pid = p PROVE FALSE
      BY DEF Untaken
    <3>1. p # Unset /\ st.dcids[i] \in Entries
      BY <1>0, <1>1, ElementOfSeq DEF Unset
    <3>2. st.routes[p].dcid = st.dcids[i].seq
      BY <3>1 DEF Back
    <3> QED
      BY <1>1, <3>1, <3>2 DEF Entries, Unset
  <2>3. /\ Back(g.dcids, g.routes)
        /\ Forth(g.dcids, g.routes, p)
        /\ \A r \in D \ {p} : Forth(st.dcids, st.routes, r) => Forth(g.dcids, g.routes, r)
    BY <1>1, <2>2, GiveLinks
  <2> HIDE DEF g
  <2> QED
    BY <2>1, <2>3
<1>2. CASE ~(p \in D /\ st.routes[p].dcid = Unset)
  <2>1. Want(st, p) = st
    BY <1>0, <1>2 DEF Want
  <2> QED
    BY <2>1
<1> QED
  BY <1>1, <1>2

\* The end of recv_single keeps the agreement of the tables.
LEMMA AllocateLinks ==
    ASSUME NEW D, D \subseteq 0 .. MaxPaths - 1, NEW st \in States(D),
           Unique(st.dcids), Back(st.dcids, st.routes),
           \A p \in D : Forth(st.dcids, st.routes, p)
    PROVE  /\ Allocate(st) \in States(D)
           /\ SameIds(Allocate(st).dcids, st.dcids)
           /\ Back(Allocate(st).dcids, Allocate(st).routes)
           /\ \A p \in D : Forth(Allocate(st).dcids, Allocate(st).routes, p)
<1> DEFINE n == MaxPaths
<1>0. n \in Nat
  BY ConnIdsAssumption
<1>1. PICK f \in [0 .. n -> States(D)] :
              /\ f[0] = st
              /\ \A k \in 1 .. n : f[k] = Want(f[k - 1], k - 1)
              /\ Allocate(st) = f[n]
  <2>1. PICK f \in [0 .. MaxPaths -> States(D)] : AllocateRun(f, st)
    BY AllocateTurns
  <2> QED
    BY <2>1 DEF AllocateRun
<1> HIDE DEF n
<1> DEFINE Agree(x) == /\ SameIds(x.dcids, st.dcids)
                       /\ Back(x.dcids, x.routes)
                       /\ \A p \in D : Forth(x.dcids, x.routes, p)
           P == {k \in 0 .. n : Agree(f[k])}
<1>2. 0 \in P
  <2>1. SameIds(st.dcids, st.dcids)
    BY SameIdsReflexive
  <2> QED
    BY <1>0, <1>1, <2>1
<1>3. ASSUME NEW k \in 1 .. n, k - 1 \in P PROVE k \in P
  <2> DEFINE x == f[k - 1]
             y == f[k]
  <2>0. Agree(x) /\ k - 1 \in 0 .. n
    BY <1>3
  <2>1. x \in States(D) /\ y = Want(x, k - 1)
    BY <1>0, <1>1, <2>0
  <2>2. ASSUME Agree(y) PROVE k \in P
    BY <1>0, <2>2
  <2> HIDE DEF x, y, P
  <2>3. x.dcids \in Seq(Entries) /\ st.dcids \in Seq(Entries) /\ Unique(x.dcids)
    <3>1. x.dcids \in Seq(Entries) /\ st.dcids \in Seq(Entries)
      BY <2>1 DEF States
    <3> QED
      BY <2>0, <3>1, SameIdsFacts
  <2>4. y \in States(D) /\ SameIds(y.dcids, x.dcids)
    BY <2>1, WantShape
  <2>5. Back(y.dcids, y.routes) /\ \A r \in D : Forth(y.dcids, y.routes, r)
    BY <2>0, <2>1, <2>3, WantLinks
  <2>6. SameIds(y.dcids, st.dcids)
    <3>1. y.dcids \in Seq(Entries)
      BY <2>4 DEF States
    <3> QED
      BY <2>0, <2>3, <2>4, <3>1, SameIdsFacts
  <2> QED
    BY <2>2, <2>5, <2>6
<1>4. n \in P
  <2> HIDE DEF P
  <2> QED
    BY <1>0, <1>2, <1>3, Induction
<1>5. Agree(f[n])
  BY <1>4
<1>6. f[n] \in States(D)
  BY <1>0
<1> QED
  BY <1>1, <1>5, <1>6

-----------------------------------------------------------------------------
(* The user.                                                                  *)

\* What the invariant says of the table of destination ids and of the paths.
Tables(q, ps) ==
    /\ q \in Seq(Entries) /\ q # <<>> /\ Len(q) <= Limit /\ Unique(q)
    /\ DOMAIN ps \subseteq 0 .. MaxPaths - 1 /\ ps \in [DOMAIN ps -> Users]
    /\ Back(q, ps) /\ \A p \in DOMAIN ps : Forth(q, ps, p)

\* The table that new_dcid leaves: the entries from cut on, and the new one if it fits.
Kept(t, cut, s, fits) ==
    IF fits THEN Append(SubSeq(t, cut + 1, Len(t)), [seq |-> s, pid |-> Unset])
    ELSE SubSeq(t, cut + 1, Len(t))

\* Its entries, by their places.
LEMMA NewTable ==
    ASSUME NEW t \in Seq(Entries), NEW cut \in 0 .. Len(t), NEW s \in 0 .. MaxSeq, NEW fits \in BOOLEAN
    PROVE  /\ Kept(t, cut, s, fits) \in Seq(Entries)
           /\ Len(Kept(t, cut, s, fits)) = Len(t) - cut + (IF fits THEN 1 ELSE 0)
           /\ \A j \in cut + 1 .. Len(t) :
                /\ j - cut \in DOMAIN Kept(t, cut, s, fits)
                /\ Kept(t, cut, s, fits)[j - cut] = t[j]
           /\ \A i \in DOMAIN Kept(t, cut, s, fits) :
                \/ i + cut \in cut + 1 .. Len(t) /\ Kept(t, cut, s, fits)[i] = t[i + cut]
                \/ /\ fits /\ i = Len(t) - cut + 1
                   /\ Kept(t, cut, s, fits)[i].seq = s /\ Kept(t, cut, s, fits)[i].pid = Unset
<1> DEFINE rest == SubSeq(t, cut + 1, Len(t))
           e == [seq |-> s, pid |-> Unset]
           q == IF fits THEN Append(rest, e) ELSE rest
<1>0. Len(t) \in Nat /\ \A i \in 1 .. Len(t) : t[i] \in Entries
  BY LenProperties, ElementOfSeq
<1>1. /\ rest \in Seq(Entries) /\ Len(rest) = Len(t) - cut
      /\ \A i \in 1 .. Len(t) - cut : rest[i] = t[i + cut]
  <2>1. \A i \in cut + 1 .. Len(t) : t[i] \in Entries
    BY <1>0
  <2>2. /\ SubSeq(t, cut + 1, Len(t)) \in Seq(Entries)
        /\ Len(SubSeq(t, cut + 1, Len(t))) =
             IF cut + 1 <= Len(t) THEN Len(t) - (cut + 1) + 1 ELSE 0
        /\ \A i \in 1 .. Len(t) - (cut + 1) + 1 : SubSeq(t, cut + 1, Len(t))[i] = t[cut + 1 + i - 1]
    BY <1>0, <2>1, SubSeqProperties
  <2>3. \A i \in 1 .. Len(t) - cut : rest[i] = t[i + cut]
    <3> SUFFICES ASSUME NEW i \in 1 .. Len(t) - cut PROVE rest[i] = t[i + cut]
      OBVIOUS
    <3>1. i \in 1 .. Len(t) - (cut + 1) + 1 /\ cut + 1 + i - 1 = i + cut
      BY <1>0
    <3> QED
      BY <2>2, <3>1
  <2>4. Len(rest) = Len(t) - cut
    BY <1>0, <2>2
  <2> QED
    BY <2>2, <2>3, <2>4
<1> HIDE DEF rest
<1>2. e \in Entries /\ e.seq = s /\ e.pid = Unset
  BY DEF Entries
<1> HIDE DEF e
<1>3. /\ q \in Seq(Entries)
      /\ Len(q) = Len(rest) + (IF fits THEN 1 ELSE 0)
      /\ DOMAIN q = 1 .. Len(q)
      /\ \A i \in 1 .. Len(rest) : q[i] = rest[i]
      /\ fits => q[Len(rest) + 1] = e
  BY <1>1, <1>2
<1> HIDE DEF q
<1>4. \A j \in cut + 1 .. Len(t) : j - cut \in DOMAIN q /\ q[j - cut] = t[j]
  <2> SUFFICES ASSUME NEW j \in cut + 1 .. Len(t) PROVE j - cut \in DOMAIN q /\ q[j - cut] = t[j]
    OBVIOUS
  <2>1. j - cut \in 1 .. Len(rest) /\ j - cut + cut = j
    BY <1>0, <1>1
  <2>2. j - cut \in DOMAIN q
    BY <1>0, <1>1, <1>3, <2>1
  <2> QED
    BY <1>1, <1>3, <2>1, <2>2
<1>5. \A i \in DOMAIN q : \/ i + cut \in cut + 1 .. Len(t) /\ q[i] = t[i + cut]
                          \/ fits /\ i = Len(rest) + 1 /\ q[i].seq = s /\ q[i].pid = Unset
  <2> SUFFICES ASSUME NEW i \in DOMAIN q
               PROVE  \/ i + cut \in cut + 1 .. Len(t) /\ q[i] = t[i + cut]
                      \/ fits /\ i = Len(rest) + 1 /\ q[i].seq = s /\ q[i].pid = Unset
    OBVIOUS
  <2>1. CASE i \in 1 .. Len(rest)
    BY <1>0, <1>1, <1>3, <2>1, SMTT(30)
  <2>2. CASE i \notin 1 .. Len(rest)
    <3>1. fits /\ i = Len(rest) + 1
      BY <1>0, <1>1, <1>3, <2>2
    <3> QED
      BY <1>2, <1>3, <3>1
  <2> QED
    BY <2>1, <2>2
<1> QED
  <2>1. Kept(t, cut, s, fits) = q
    BY DEF Kept, q, rest, e
  <2> QED
    BY <1>1, <1>3, <1>4, <1>5, <2>1

\* Tables that agree and have the ids of a table within its bounds are within them too.
LEMMA TablesKept ==
    ASSUME NEW D, D \subseteq 0 .. MaxPaths - 1, NEW st \in States(D), NEW q \in Seq(Entries),
           SameIds(st.dcids, q), q # <<>>, Len(q) <= Limit, Unique(q),
           Back(st.dcids, st.routes), \A p \in D : Forth(st.dcids, st.routes, p)
    PROVE  Tables(st.dcids, st.routes) /\ Seqs(st.dcids) = Seqs(q) /\ DOMAIN st.routes = D
<1>1. st.dcids \in Seq(Entries) /\ DOMAIN st.routes = D /\ st.routes \in [D -> Users]
  BY DEF States
<1>2. Unique(st.dcids) /\ Seqs(st.dcids) = Seqs(q)
  BY <1>1, SameIdsFacts
<1>3. Len(st.dcids) <= Limit /\ st.dcids # <<>>
  <2>1. Len(st.dcids) = Len(q)
    BY DEF SameIds
  <2>2. Len(q) # 0
    BY EmptySeq
  <2> QED
    BY <2>1, <2>2
<1> QED
  BY <1>1, <1>2, <1>3 DEF Tables

\* new_dcid and the switching of the paths whose ids it retired.
LEMMA SwitchedTables ==
    ASSUME NEW t, NEW ps, Tables(t, ps), NEW cut \in 0 .. Len(t), NEW s \in 0 .. MaxSeq,
           s \notin Seqs(t), NEW fits \in BOOLEAN, fits <=> Len(t) - cut < Limit
    PROVE  LET sw == SwitchAll([dcids |-> Kept(t, cut, s, fits), routes |-> ps], SubSeq(t, 1, cut))
           IN  /\ sw \in States(DOMAIN ps)
               /\ Tables(sw.dcids, sw.routes)
               /\ Seqs(sw.dcids) \subseteq Seqs(t) \cup {s}
               /\ Seqs(SubSeq(t, 1, cut)) \subseteq Seqs(t)
<1> DEFINE q == Kept(t, cut, s, fits)
           D == DOMAIN ps
           out == SubSeq(t, 1, cut)
           st == [dcids |-> q, routes |-> ps]
           sw == SwitchAll(st, out)
<1>0. /\ t \in Seq(Entries) /\ Len(t) <= Limit /\ Unique(t) /\ Len(t) \in Nat /\ DOMAIN t = 1 .. Len(t)
      /\ D \subseteq 0 .. MaxPaths - 1 /\ ps \in [D -> Users]
      /\ Back(t, ps) /\ \A p \in D : Forth(t, ps, p)
  BY LenProperties DEF Tables
<1>1. /\ q \in Seq(Entries)
      /\ Len(q) = Len(t) - cut + (IF fits THEN 1 ELSE 0)
      /\ \A j \in cut + 1 .. Len(t) : j - cut \in DOMAIN q /\ q[j - cut] = t[j]
      /\ \A i \in DOMAIN q : \/ i + cut \in cut + 1 .. Len(t) /\ q[i] = t[i + cut]
                             \/ fits /\ i = Len(t) - cut + 1 /\ q[i].seq = s /\ q[i].pid = Unset
  BY <1>0, NewTable, SMTT(30)
<1>2. /\ out \in Seq(Entries) /\ DOMAIN out = 1 .. cut
      /\ \A j \in 1 .. cut : out[j] = t[j]
  <2>1. \A i \in 1 .. cut : t[i] \in Entries
    BY <1>0, ElementOfSeq
  <2>2. /\ SubSeq(t, 1, cut) \in Seq(Entries)
        /\ Len(SubSeq(t, 1, cut)) = IF 1 <= cut THEN cut - 1 + 1 ELSE 0
        /\ \A i \in 1 .. cut - 1 + 1 : SubSeq(t, 1, cut)[i] = t[1 + i - 1]
    BY <1>0, <2>1, SubSeqProperties
  <2>3. Len(out) = cut
    BY <1>0, <2>2
  <2>4. \A j \in 1 .. cut : out[j] = t[j]
    <3> SUFFICES ASSUME NEW j \in 1 .. cut PROVE out[j] = t[j]
      OBVIOUS
    <3>1. j \in 1 .. cut - 1 + 1 /\ 1 + j - 1 = j
      BY <1>0
    <3> QED
      BY <2>2, <3>1
  <2> HIDE DEF out
  <2>5. DOMAIN out = 1 .. cut
    BY <2>2, <2>3, LenProperties DEF out
  <2> QED
    BY <2>2, <2>4, <2>5 DEF out
<1> HIDE DEF q, out
<1>3. Limit \in Nat /\ Limit >= 2
  BY ConnIdsAssumption
<1>4. Len(q) <= Limit /\ q # <<>>
  <2>1. Len(q) # 0 /\ Len(q) <= Limit
    BY <1>0, <1>1, <1>3
  <2>2. Len(<< >>) = 0
    OBVIOUS
  <2> QED
    BY <2>1, <2>2
<1>5. \A i \in DOMAIN t : t[i].seq # s
  BY DEF Seqs
<1>6. DOMAIN q = 1 .. Len(q)
  BY <1>1, LenProperties
<1>7. Unique(q)
  <2> SUFFICES ASSUME NEW i \in DOMAIN q, NEW j \in DOMAIN q, q[i].seq = q[j].seq
               PROVE  i = j
    BY DEF Unique
  <2>1. i \in Int /\ j \in Int
    BY <1>6
  <2>2. CASE q[i].seq = s
    <3>1. ~(i + cut \in cut + 1 .. Len(t) /\ q[i] = t[i + cut])
      BY <1>0, <1>5, <2>2
    <3>2. ~(j + cut \in cut + 1 .. Len(t) /\ q[j] = t[j + cut])
      <4>1. q[j].seq = s
        BY <2>2
      <4> QED
        BY <1>0, <1>5, <4>1
    <3> QED
      BY <1>1, <3>1, <3>2
  <2>3. CASE q[i].seq # s
    <3>1. i + cut \in DOMAIN t /\ q[i] = t[i + cut]
      BY <1>0, <1>1, <2>3
    <3>2. j + cut \in DOMAIN t /\ q[j] = t[j + cut]
      BY <1>0, <1>1, <2>3
    <3>3. i + cut = j + cut
      BY <1>0, <3>1, <3>2 DEF Unique
    <3> QED
      BY <1>0, <2>1, <3>3
  <2> QED
    BY <2>2, <2>3
<1>8. Back(q, ps)
  <2> SUFFICES ASSUME NEW i \in DOMAIN q, q[i].pid # Unset
               PROVE  q[i].pid \in DOMAIN ps /\ ps[q[i].pid].dcid = q[i].seq
    BY DEF Back
  <2>1. i + cut \in DOMAIN t /\ q[i] = t[i + cut]
    BY <1>0, <1>1
  <2> QED
    BY <1>0, <2>1 DEF Back
<1>9. ASSUME NEW i \in DOMAIN q, NEW j \in DOMAIN out PROVE q[i].seq # out[j].seq
  <2>1. j \in DOMAIN t /\ out[j] = t[j] /\ j <= cut
    BY <1>0, <1>2
  <2>2. CASE q[i].seq = s
    BY <1>5, <2>1, <2>2
  <2>3. CASE q[i].seq # s
    <3>1. i + cut \in DOMAIN t /\ q[i] = t[i + cut] /\ i + cut > cut
      BY <1>0, <1>1, <2>3
    <3>2. i + cut # j
      BY <1>0, <1>6, <2>1, <3>1
    <3> QED
      BY <1>0, <2>1, <3>1, <3>2 DEF Unique
  <2> QED
    BY <2>2, <2>3
<1>10. ASSUME NEW p \in D
       PROVE  \/ Forth(q, ps, p)
              \/ \E j \in DOMAIN out : out[j].pid = p /\ out[j].seq = ps[p].dcid
  <2> SUFFICES ASSUME ps[p].dcid # Unset
               PROVE  \/ \E i \in DOMAIN q : q[i].seq = ps[p].dcid /\ q[i].pid = p
                      \/ \E j \in DOMAIN out : out[j].pid = p /\ out[j].seq = ps[p].dcid
    BY DEF Forth
  <2>1. PICK k \in DOMAIN t : t[k].seq = ps[p].dcid /\ t[k].pid = p
    BY <1>0 DEF Forth
  <2>2. CASE k <= cut
    BY <1>0, <1>2, <2>1, <2>2
  <2>3. CASE k > cut
    <3>1. k \in cut + 1 .. Len(t)
      BY <1>0, <2>3
    <3> QED
      BY <1>1, <2>1, <3>1
  <2> QED
    BY <1>0, <2>2, <2>3
<1>11. st \in States(D) /\ st.dcids = q /\ st.routes = ps
  BY <1>0, <1>1 DEF States
<1> HIDE DEF st
<1>12. /\ sw \in States(D)
       /\ SameIds(sw.dcids, q)
       /\ Back(sw.dcids, sw.routes)
       /\ \A p \in D : Forth(sw.dcids, sw.routes, p)
  <2>1. /\ Unique(st.dcids) /\ Back(st.dcids, st.routes)
        /\ \A i \in DOMAIN st.dcids, j \in DOMAIN out : st.dcids[i].seq # out[j].seq
        /\ \A p \in D : \/ Forth(st.dcids, st.routes, p)
                        \/ \E j \in DOMAIN out : out[j].pid = p /\ out[j].seq = st.routes[p].dcid
    BY <1>7, <1>8, <1>9, <1>10, <1>11
  <2> HIDE DEF D
  <2>2. /\ sw \in States(D)
        /\ SameIds(sw.dcids, st.dcids)
        /\ Back(sw.dcids, sw.routes)
        /\ \A p \in D : Forth(sw.dcids, sw.routes, p)
    BY <1>0, <1>2, <1>11, <2>1, SwitchAllLinks
  <2> QED
    BY <1>11, <2>2
<1> HIDE DEF sw
<1>13. Tables(sw.dcids, sw.routes) /\ Seqs(sw.dcids) = Seqs(q)
  <2> HIDE DEF D
  <2> QED
    BY <1>0, <1>1, <1>4, <1>7, <1>12, TablesKept
<1>14. Seqs(q) \subseteq Seqs(t) \cup {s}
  BY <1>0, <1>1 DEF Seqs
<1>15. Seqs(out) \subseteq Seqs(t)
  BY <1>0, <1>2 DEF Seqs
<1> QED
  BY <1>12, <1>13, <1>14, <1>15 DEF sw, st, q, out

\* The tables of the invariant.
LEMMA TablesNow ==
    ASSUME IdsInv
    PROVE  Tables(dcids, routes)
BY DEF IdsInv, IdsTypeOK, TablesBounded, PathsLinked, Tables, Unique, Back, Forth, Entries

\* A step of the user keeps the invariant if it keeps its tables, takes no id that was not
\* handed out, and puts what it drops down to be retired.
LEMMA UserStep ==
    ASSUME IdsInv, Tables(dcids', routes'), UNCHANGED issuerVars,
           Seqs(dcids') \subseteq 0 .. next_scid_seq - 1,
           retire_dcid_seqs' \subseteq 0 .. MaxSeq, largest_rpt' \in 0 .. MaxSeq + 1,
           ncids' \subseteq ncids, retires' \subseteq [seq : 0 .. MaxSeq, dcid : 0 .. MaxSeq],
           given_up' \subseteq 0 .. next_scid_seq - 1, told' \subseteq 0 .. MaxSeq,
           resends' \in 0 .. MaxResends, DroppedIsReleased'
    PROVE  IdsInv'
<1>0. MaxSeq \in Nat /\ next_scid_seq \in 1 .. MaxSeq + 1
  BY ConnIdsAssumption DEF IdsInv, IdsTypeOK
<1>1. UNCHANGED <<scids, next_scid_seq, retire_prior_to, advertise, retired_scids>>
  BY DEF issuerVars
<1>2. /\ dcids' \in Seq(Entries) /\ dcids' # <<>> /\ Len(dcids') <= Limit
      /\ \A i, j \in DOMAIN dcids' : dcids'[i].seq = dcids'[j].seq => i = j
      /\ DOMAIN routes' \subseteq 0 .. MaxPaths - 1 /\ routes' \in [DOMAIN routes' -> Users]
  BY DEF Tables, Unique
<1>3. PathsLinked'
  BY DEF Tables, Back, Forth, PathsLinked
<1>4. IdsTypeOK'
  <2>1. given_up' \subseteq 0 .. MaxSeq
    BY <1>0
  <2>2. \A p \in DOMAIN routes' : routes'[p] \in Users
    BY <1>2
  <2> QED
    BY <1>1, <1>2, <2>1, <2>2 DEF IdsInv, IdsTypeOK, Entries, Users
<1>5. HandedOut'
  BY <1>1 DEF IdsInv, HandedOut
<1>6. TablesBounded'
  BY <1>1, <1>2 DEF IdsInv, TablesBounded, usable_scids
<1> QED
  BY <1>2, <1>3, <1>4, <1>5, <1>6 DEF IdsInv

\* new_dcid of a new id and what its caller does then.
LEMMA AdoptStep ==
    ASSUME IdsInv, NEW f \in ncids, NEW cut \in 0 .. Len(dcids), f.seq \notin Seqs(dcids), Adopt(f, cut)
    PROVE  /\ Tables(dcids', routes')
           /\ Seqs(dcids') \subseteq Seqs(dcids) \cup {f.seq}
           /\ Seqs(SubSeq(dcids, 1, cut)) \subseteq Seqs(dcids)
<1> DEFINE rest == SubSeq(dcids, cut + 1, Len(dcids))
           out == SubSeq(dcids, 1, cut)
           ok == /\ Len(rest) < Limit
                 /\ \A k \in 1 .. cut :
                      MayRetire(retire_dcid_seqs \cup Seqs(SubSeq(dcids, 1, k - 1)))
           fits == Len(rest) < Limit
           sw == SwitchAll([dcids |-> Kept(dcids, cut, f.seq, fits), routes |-> routes], out)
           st == IF ok THEN Allocate(sw) ELSE sw
<1>0. Tables(dcids, routes) /\ f.seq \in 0 .. MaxSeq
  BY TablesNow DEF IdsInv, IdsTypeOK
<1>1. dcids \in Seq(Entries) /\ Len(dcids) \in Nat
  BY <1>0, LenProperties DEF Tables
<1>2. Len(rest) = Len(dcids) - cut
  <2>1. \A i \in cut + 1 .. Len(dcids) : dcids[i] \in Entries
    BY <1>1, ElementOfSeq
  <2>2. Len(rest) = IF cut + 1 <= Len(dcids) THEN Len(dcids) - (cut + 1) + 1 ELSE 0
    BY <1>1, <2>1, SubSeqProperties
  <2> QED
    BY <1>1, <2>2
<1>3. dcids' = st.dcids /\ routes' = st.routes
  BY DEF Adopt, Kept
<1> HIDE DEF rest
<1>4. fits \in BOOLEAN /\ (fits <=> Len(dcids) - cut < Limit)
  BY <1>2
<1> HIDE DEF fits, out, ok
<1>5. /\ sw \in States(DOMAIN routes)
      /\ Tables(sw.dcids, sw.routes)
      /\ Seqs(sw.dcids) \subseteq Seqs(dcids) \cup {f.seq}
      /\ Seqs(out) \subseteq Seqs(dcids)
  BY <1>0, <1>4, SwitchedTables DEF out
<1> HIDE DEF sw
<1>6. /\ Tables(st.dcids, st.routes)
      /\ Seqs(st.dcids) = Seqs(sw.dcids)
  <2>1. CASE ~ok
    BY <1>5, <2>1
  <2>2. CASE ok
    <3> DEFINE D == DOMAIN routes
               g == Allocate(sw)
    <3>1. D \subseteq 0 .. MaxPaths - 1 /\ sw \in States(D) /\ DOMAIN sw.routes = D
      BY <1>0, <1>5 DEF Tables, States
    <3>2. /\ sw.dcids \in Seq(Entries) /\ sw.dcids # <<>> /\ Len(sw.dcids) <= Limit
          /\ Unique(sw.dcids) /\ Back(sw.dcids, sw.routes)
          /\ \A p \in D : Forth(sw.dcids, sw.routes, p)
      BY <1>5, <3>1 DEF Tables
    <3> HIDE DEF D
    <3>3. /\ g \in States(D)
          /\ SameIds(g.dcids, sw.dcids)
          /\ Back(g.dcids, g.routes)
          /\ \A p \in D : Forth(g.dcids, g.routes, p)
      BY <3>1, <3>2, AllocateLinks
    <3> HIDE DEF g
    <3>4. Tables(g.dcids, g.routes) /\ Seqs(g.dcids) = Seqs(sw.dcids)
      BY <3>1, <3>2, <3>3, TablesKept
    <3>5. st = g
      BY <2>2 DEF g
    <3> QED
      BY <3>4, <3>5
  <2> QED
    BY <2>1, <2>2
<1> QED
  BY <1>3, <1>5, <1>6 DEF out

\* NEW_CONNECTION_ID arrives.
LEMMA RecvNewStep ==
    ASSUME IdsInv, err = "None", NEW f \in ncids, RecvNewConnectionId(f)
    PROVE  IdsInv'
<1>0. /\ UNCHANGED <<issuerVars, retires, resends>> /\ ncids' \subseteq ncids
      /\ scids' = scids /\ next_scid_seq' = next_scid_seq
  BY DEF RecvNewConnectionId, issuerVars
<1>1. /\ f.seq \in 0 .. MaxSeq /\ f.rpt \in 0 .. MaxSeq + 1 /\ f.seq < next_scid_seq
      /\ next_scid_seq \in 1 .. MaxSeq + 1 /\ MaxSeq \in Nat
      /\ largest_rpt \in 0 .. MaxSeq + 1
      /\ retire_dcid_seqs \subseteq 0 .. MaxSeq /\ given_up \subseteq 0 .. next_scid_seq - 1
      /\ Seqs(dcids) \subseteq 0 .. next_scid_seq - 1
      /\ retires \subseteq [seq : 0 .. MaxSeq, dcid : 0 .. MaxSeq] /\ resends \in 0 .. MaxResends
      /\ told \subseteq 0 .. MaxSeq
  BY ConnIdsAssumption DEF IdsInv, IdsTypeOK, HandedOut
<1>2. Tables(dcids, routes) /\ Len(dcids) \in Nat
  BY TablesNow, LenProperties DEF Tables
<1>3. DroppedIsReleased
  BY DEF IdsInv
<1>4. CASE UNCHANGED userVars
  <2>1. /\ dcids' = dcids /\ routes' = routes /\ retire_dcid_seqs' = retire_dcid_seqs
        /\ largest_rpt' = largest_rpt /\ given_up' = given_up /\ told' = told
    BY <1>4 DEF userVars
  <2>2. DroppedIsReleased'
    BY <1>0, <1>3, <2>1 DEF DroppedIsReleased
  <2> QED
    BY <1>0, <1>1, <1>2, <2>1, <2>2, UserStep
<1>5. ASSUME f.seq \notin Seqs(dcids), f.rpt <= f.seq, f.seq < largest_rpt,
             \/ /\ retire_dcid_seqs' = retire_dcid_seqs \cup {f.seq}
                /\ given_up' = given_up \cup {f.seq} /\ err' = err
             \/ UNCHANGED <<retire_dcid_seqs, given_up>>,
             UNCHANGED <<dcids, largest_rpt, routes, told>>
      PROVE  IdsInv'
  <2>1. DroppedIsReleased'
    BY <1>0, <1>3, <1>5 DEF DroppedIsReleased
  <2>2. /\ retire_dcid_seqs' \subseteq 0 .. MaxSeq
        /\ given_up' \subseteq 0 .. next_scid_seq - 1
    <3>1. f.seq \in 0 .. next_scid_seq - 1
      BY <1>1
    <3>2. retire_dcid_seqs' \subseteq retire_dcid_seqs \cup {f.seq} /\ given_up' \subseteq given_up \cup {f.seq}
      BY <1>5
    <3> QED
      BY <1>1, <3>1, <3>2
  <2> QED
    BY <1>0, <1>1, <1>2, <1>5, <2>1, <2>2, UserStep
<1>6. ASSUME f.seq \notin Seqs(dcids),
             largest_rpt' = Max({largest_rpt, f.rpt}),
             \E cut \in IF f.rpt > largest_rpt THEN partition_points(dcids, f.rpt) ELSE {0} : Adopt(f, cut)
      PROVE  IdsInv'
  <2>1. PICK cut \in 0 .. Len(dcids) : Adopt(f, cut)
    BY <1>2, <1>6 DEF partition_points
  <2>2. /\ Tables(dcids', routes')
        /\ Seqs(dcids') \subseteq Seqs(dcids) \cup {f.seq}
        /\ Seqs(SubSeq(dcids, 1, cut)) \subseteq Seqs(dcids)
    BY <1>6, <2>1, AdoptStep
  <2> DEFINE gone == Seqs(SubSeq(dcids, 1, cut))
  <2>3. retire_dcid_seqs' = retire_dcid_seqs \cup gone /\ given_up' = given_up \cup gone /\ told' = told
    BY <2>1 DEF Adopt
  <2> HIDE DEF gone
  <2>4. gone \subseteq 0 .. next_scid_seq - 1
    BY <1>1, <2>2 DEF gone
  <2>5. largest_rpt' \in 0 .. MaxSeq + 1
    <3>1. largest_rpt' = IF f.rpt >= largest_rpt THEN f.rpt ELSE largest_rpt
      BY <1>1, <1>6 DEF Max
    <3> QED
      BY <1>1, <3>1
  <2>6. DroppedIsReleased'
    BY <1>0, <1>3, <2>3 DEF DroppedIsReleased
  <2>7. /\ retire_dcid_seqs' \subseteq 0 .. MaxSeq
        /\ given_up' \subseteq 0 .. next_scid_seq - 1
        /\ Seqs(dcids') \subseteq 0 .. next_scid_seq - 1
    BY <1>1, <2>2, <2>3, <2>4
  <2> QED
    BY <1>0, <1>1, <2>2, <2>3, <2>5, <2>6, <2>7, UserStep
<1> QED
  BY <1>1, <1>4, <1>5, <1>6 DEF RecvNewConnectionId

\* RETIRE_CONNECTION_ID is put on the wire.
LEMMA SendRetireStep ==
    ASSUME IdsInv, err = "None", NEW p \in DOMAIN routes, NEW s \in retire_dcid_seqs,
           SendRetireConnectionId(p, s)
    PROVE  IdsInv'
<1> DEFINE d == routes[p].dcid
<1>0. Tables(dcids, routes)
  BY TablesNow
<1>1. d \in 0 .. MaxSeq
  <2>1. \A i \in DOMAIN dcids : dcids[i] \in Entries
    BY <1>0, ElementOfSeq DEF Tables
  <2>2. d \in Seqs(dcids)
    BY DEF SendRetireConnectionId
  <2> QED
    BY <2>1, <2>2 DEF Seqs, Entries
<1> HIDE DEF d
<1>2. /\ UNCHANGED <<issuerVars, dcids, largest_rpt, routes, given_up, ncids, err, resends>>
      /\ retires' = retires \cup {[seq |-> s, dcid |-> d]}
      /\ retire_dcid_seqs' = retire_dcid_seqs \ {s} /\ told' = told \cup {s}
      /\ scids' = scids
  BY DEF SendRetireConnectionId, d, issuerVars
<1>3. DroppedIsReleased'
  <2>1. DroppedIsReleased
    BY DEF IdsInv
  <2>2. [seq |-> s, dcid |-> d].seq = s
    OBVIOUS
  <2> QED
    BY <1>2, <2>1, <2>2 DEF DroppedIsReleased
<1>4. s \in 0 .. MaxSeq /\ retire_dcid_seqs' \subseteq 0 .. MaxSeq /\ told' \subseteq 0 .. MaxSeq
  BY <1>2 DEF IdsInv, IdsTypeOK
<1>5. retires' \subseteq [seq : 0 .. MaxSeq, dcid : 0 .. MaxSeq]
  BY <1>1, <1>2, <1>4 DEF IdsInv, IdsTypeOK
<1>6. /\ Seqs(dcids) \subseteq 0 .. next_scid_seq - 1 /\ given_up \subseteq 0 .. next_scid_seq - 1
      /\ largest_rpt \in 0 .. MaxSeq + 1 /\ resends \in 0 .. MaxResends
      /\ told \subseteq 0 .. MaxSeq
  BY DEF IdsInv, IdsTypeOK, HandedOut
<1> QED
  BY <1>0, <1>2, <1>3, <1>4, <1>5, <1>6, UserStep

\* A packet with RETIRE_CONNECTION_ID is declared lost.
LEMMA LoseRetireStep ==
    ASSUME IdsInv, NEW s \in told, LoseRetireConnectionId(s)
    PROVE  IdsInv'
<1>0. Tables(dcids, routes)
  BY TablesNow
<1>1. /\ UNCHANGED <<issuerVars, dcids, largest_rpt, routes, given_up, told, ncids, retires, err>>
      /\ retire_dcid_seqs' = retire_dcid_seqs \cup {s} /\ scids' = scids
      /\ resends < MaxResends /\ resends' = resends + 1
  BY DEF LoseRetireConnectionId, issuerVars
<1>2. DroppedIsReleased'
  BY <1>1 DEF IdsInv, DroppedIsReleased
<1>3. /\ Seqs(dcids) \subseteq 0 .. next_scid_seq - 1 /\ given_up \subseteq 0 .. next_scid_seq - 1
      /\ largest_rpt \in 0 .. MaxSeq + 1 /\ resends \in 0 .. MaxResends /\ MaxResends \in Nat
      /\ told \subseteq 0 .. MaxSeq
      /\ retire_dcid_seqs \subseteq 0 .. MaxSeq
      /\ retires \subseteq [seq : 0 .. MaxSeq, dcid : 0 .. MaxSeq]
  BY ConnIdsAssumption DEF IdsInv, IdsTypeOK, HandedOut
<1>4. resends' \in 0 .. MaxResends /\ retire_dcid_seqs' \subseteq 0 .. MaxSeq
  BY <1>1, <1>3
<1> QED
  BY <1>0, <1>1, <1>2, <1>3, <1>4, UserStep

\* The place, in a table, of the j-th entry that is not at i.
Past(i, j) == IF j < i THEN j ELSE j + 1

\* The table without its entry at i.
LEMMA Removed ==
    ASSUME NEW t \in Seq(Entries), NEW i \in DOMAIN t
    PROVE  /\ RemoveAt(t, i) \in Seq(Entries)
           /\ Len(RemoveAt(t, i)) = Len(t) - 1
           /\ \A j \in DOMAIN RemoveAt(t, i) :
                /\ Past(i, j) \in DOMAIN t \ {i}
                /\ RemoveAt(t, i)[j] = t[Past(i, j)]
           /\ \A k \in DOMAIN t \ {i} : \E j \in DOMAIN RemoveAt(t, i) : RemoveAt(t, i)[j] = t[k]
<1> DEFINE a == SubSeq(t, 1, i - 1)
           b == SubSeq(t, i + 1, Len(t))
           q == RemoveAt(t, i)
<1>0. Len(t) \in Nat /\ DOMAIN t = 1 .. Len(t) /\ i \in 1 .. Len(t)
  BY LenProperties
<1>1. \A j \in 1 .. Len(t) : t[j] \in Entries
  BY <1>0, ElementOfSeq
<1>2. a \in Seq(Entries) /\ Len(a) = i - 1 /\ \A j \in 1 .. i - 1 : a[j] = t[j]
  <2>1. /\ a \in Seq(Entries)
        /\ Len(a) = IF 1 <= i - 1 THEN i - 1 - 1 + 1 ELSE 0
        /\ \A j \in 1 .. i - 1 - 1 + 1 : a[j] = t[1 + j - 1]
    <3>1. \A j \in 1 .. i - 1 : t[j] \in Entries
      BY <1>0, <1>1
    <3> QED
      BY <1>0, <3>1, SubSeqProperties
  <2> HIDE DEF a
  <2>2. ASSUME NEW j \in 1 .. i - 1 PROVE a[j] = t[j]
    <3>1. j \in 1 .. i - 1 - 1 + 1 /\ 1 + j - 1 = j
      BY <1>0
    <3> QED
      BY <2>1, <3>1
  <2> QED
    BY <1>0, <2>1, <2>2
<1>3. b \in Seq(Entries) /\ Len(b) = Len(t) - i /\ \A j \in 1 .. Len(t) - i : b[j] = t[j + i]
  <2>1. /\ b \in Seq(Entries)
        /\ Len(b) = IF i + 1 <= Len(t) THEN Len(t) - (i + 1) + 1 ELSE 0
        /\ \A j \in 1 .. Len(t) - (i + 1) + 1 : b[j] = t[i + 1 + j - 1]
    <3>1. \A j \in i + 1 .. Len(t) : t[j] \in Entries
      BY <1>0, <1>1
    <3> QED
      BY <1>0, <3>1, SubSeqProperties
  <2> HIDE DEF b
  <2>2. ASSUME NEW j \in 1 .. Len(t) - i PROVE b[j] = t[j + i]
    <3>1. j \in 1 .. Len(t) - (i + 1) + 1 /\ i + 1 + j - 1 = j + i
      BY <1>0
    <3> QED
      BY <2>1, <3>1
  <2> QED
    BY <1>0, <2>1, <2>2
<1>4. q = a \o b
  BY DEF RemoveAt
<1> HIDE DEF a, b, q
<1>5. /\ q \in Seq(Entries) /\ Len(q) = Len(t) - 1 /\ DOMAIN q = 1 .. Len(t) - 1
      /\ \A j \in 1 .. Len(t) - 1 : q[j] = IF j <= i - 1 THEN a[j] ELSE b[j - (i - 1)]
  <2>1. /\ q \in Seq(Entries) /\ Len(q) = Len(a) + Len(b)
        /\ \A j \in 1 .. Len(a) + Len(b) : q[j] = IF j <= Len(a) THEN a[j] ELSE b[j - Len(a)]
    BY <1>2, <1>3, <1>4, ConcatProperties
  <2>2. Len(a) + Len(b) = Len(t) - 1
    BY <1>0, <1>2, <1>3
  <2>3. DOMAIN q = 1 .. Len(q)
    BY <2>1, LenProperties
  <2>4. \A j \in 1 .. Len(t) - 1 : q[j] = IF j <= i - 1 THEN a[j] ELSE b[j - (i - 1)]
    BY <1>2, <2>1, <2>2
  <2> QED
    BY <2>1, <2>2, <2>3, <2>4
<1>6. ASSUME NEW j \in DOMAIN q
      PROVE  /\ Past(i, j) \in DOMAIN t \ {i}
             /\ q[j] = t[Past(i, j)]
  <2>1. CASE j < i
    BY <1>0, <1>2, <1>5, <2>1 DEF Past
  <2>2. CASE ~(j < i)
    <3>1. j - (i - 1) \in 1 .. Len(t) - i /\ j - (i - 1) + i = j + 1
      BY <1>0, <1>5, <2>2
    <3>2. q[j] = b[j - (i - 1)]
      BY <1>0, <1>5, <2>2
    <3>3. q[j] = t[j + 1]
      BY <1>3, <3>1, <3>2
    <3> QED
      BY <1>0, <1>5, <2>2, <3>3 DEF Past
  <2> QED
    BY <2>1, <2>2
<1>7. ASSUME NEW k \in DOMAIN t \ {i} PROVE \E j \in DOMAIN q : q[j] = t[k]
  <2>1. CASE k < i
    <3>1. k \in DOMAIN q
      BY <1>0, <1>5, <2>1
    <3> QED
      BY <1>6, <2>1, <3>1 DEF Past
  <2>2. CASE k > i
    <3>1. k - 1 \in DOMAIN q /\ ~(k - 1 < i) /\ k - 1 + 1 = k
      BY <1>0, <1>5, <2>2
    <3>2. q[k - 1] = t[k]
      BY <1>6, <3>1 DEF Past
    <3> QED
      BY <3>1, <3>2
  <2> QED
    BY <1>0, <2>1, <2>2
<1> QED
  BY <1>5, <1>6, <1>7 DEF q

\* The application retires an id.
LEMMA RetireDcidStep ==
    ASSUME IdsInv, NEW s \in Seqs(dcids), retire_dcid(s)
    PROVE  IdsInv'
<1> DEFINE D == DOMAIN routes
           i == CHOOSE j \in DOMAIN dcids : dcids[j].seq = s
           q == RemoveAt(dcids, i)
           p == dcids[i].pid
           x == [dcids |-> q, routes |-> routes]
           st == IF p = Unset THEN x ELSE GiveDcid(x, p)
<1>0. /\ Tables(dcids, routes) /\ dcids \in Seq(Entries) /\ Len(dcids) <= Limit /\ Unique(dcids)
      /\ D \subseteq 0 .. MaxPaths - 1 /\ routes \in [D -> Users]
      /\ Back(dcids, routes) /\ \A r \in D : Forth(dcids, routes, r)
      /\ Len(dcids) \in Nat /\ DOMAIN dcids = 1 .. Len(dcids) /\ Limit \in Nat
  BY TablesNow, LenProperties, ConnIdsAssumption DEF Tables
<1>1. i \in DOMAIN dcids /\ dcids[i].seq = s
  BY DEF Seqs
<1>2. /\ dcids' = st.dcids /\ routes' = st.routes /\ Len(dcids) > 1
      /\ retire_dcid_seqs' = retire_dcid_seqs \cup {s} /\ given_up' = given_up \cup {s}
      /\ UNCHANGED <<issuerVars, largest_rpt, told, ncids, retires, err, resends>>
      /\ scids' = scids
  BY DEF retire_dcid, issuerVars
<1> HIDE DEF i
<1>3. /\ q \in Seq(Entries) /\ Len(q) = Len(dcids) - 1
      /\ \A j \in DOMAIN q : /\ Past(i, j) \in DOMAIN dcids \ {i}
                             /\ q[j] = dcids[Past(i, j)]
      /\ \A k \in DOMAIN dcids \ {i} : \E j \in DOMAIN q : q[j] = dcids[k]
  BY <1>0, <1>1, Removed
<1> HIDE DEF q
<1>4. DOMAIN q = 1 .. Len(q) /\ \A j \in DOMAIN q : j \in Int
  BY <1>3, LenProperties
<1>5. Unique(q)
  <2> SUFFICES ASSUME NEW j \in DOMAIN q, NEW k \in DOMAIN q, q[j].seq = q[k].seq
               PROVE  j = k
    BY DEF Unique
  <2>1. Past(i, j) = Past(i, k)
    <3>1. /\ Past(i, j) \in DOMAIN dcids /\ q[j] = dcids[Past(i, j)]
          /\ Past(i, k) \in DOMAIN dcids /\ q[k] = dcids[Past(i, k)]
      BY <1>3
    <3> QED
      BY <1>0, <3>1 DEF Unique
  <2> QED
    BY <1>0, <1>1, <1>4, <2>1 DEF Past
<1>6. Len(q) <= Limit /\ q # <<>>
  <2>1. Len(q) # 0 /\ Len(q) <= Limit /\ Len(<< >>) = 0
    BY <1>0, <1>2, <1>3
  <2> QED
    BY <2>1
<1>7. Back(q, routes)
  BY <1>3, <1>0 DEF Back
<1>8. \A j \in DOMAIN q : q[j].seq # s
  <2> SUFFICES ASSUME NEW j \in DOMAIN q PROVE q[j].seq # s
    OBVIOUS
  <2> DEFINE k == Past(i, j)
  <2>1. k \in DOMAIN dcids /\ k # i /\ q[j] = dcids[k]
    BY <1>3
  <2> HIDE DEF k
  <2> QED
    BY <1>0, <1>1, <2>1 DEF Unique
<1>9. ASSUME NEW r \in D, r # p PROVE Forth(q, routes, r)
  <2> SUFFICES ASSUME routes[r].dcid # Unset
               PROVE  \E j \in DOMAIN q : q[j].seq = routes[r].dcid /\ q[j].pid = r
    BY DEF Forth
  <2>1. PICK k \in DOMAIN dcids : dcids[k].seq = routes[r].dcid /\ dcids[k].pid = r
    BY <1>0 DEF Forth
  <2>2. k # i
    BY <1>9, <2>1
  <2> QED
    BY <1>3, <2>1, <2>2
<1>10. x \in States(D) /\ x.dcids = q /\ x.routes = routes
  BY <1>0, <1>3 DEF States
<1> HIDE DEF x
<1>11. /\ st \in States(D) /\ SameIds(st.dcids, q)
       /\ Back(st.dcids, st.routes)
       /\ \A r \in D : Forth(st.dcids, st.routes, r)
  <2>1. CASE p = Unset
    <3>1. st = x /\ SameIds(q, q)
      BY <2>1, SameIdsReflexive
    <3>2. Unset \notin D
      BY <1>0 DEF Unset
    <3>3. \A r \in D : Forth(q, routes, r)
      BY <1>9, <2>1, <3>2
    <3> QED
      BY <1>7, <1>10, <3>1, <3>3
  <2>2. CASE p # Unset
    <3>1. p \in D /\ routes[p].dcid = s
      BY <1>0, <1>1, <2>2 DEF Back
    <3> DEFINE g == GiveDcid(x, p)
    <3>2. st = g
      BY <2>2
    <3> HIDE DEF p, D, st
    <3>3. Untaken(x.dcids, p)
      <4> SUFFICES ASSUME NEW j \in DOMAIN q, q[j].pid = p PROVE FALSE
        BY <1>10 DEF Untaken
      <4>1. routes[p].dcid = q[j].seq
        BY <1>7, <2>2 DEF Back
      <4> QED
        BY <1>8, <3>1, <4>1
    <3>4. Unique(x.dcids) /\ Back(x.dcids, x.routes)
      BY <1>5, <1>7, <1>10
    <3>5. /\ Back(g.dcids, g.routes)
          /\ Forth(g.dcids, g.routes, p)
          /\ \A r \in D \ {p} : Forth(x.dcids, x.routes, r) => Forth(g.dcids, g.routes, r)
      BY <1>0, <1>10, <3>1, <3>3, <3>4, GiveLinks
    <3>6. g \in States(D) /\ SameIds(g.dcids, x.dcids)
      BY <1>0, <1>10, <3>1, GiveShape
    <3> HIDE DEF g
    <3>7. \A r \in D : Forth(g.dcids, g.routes, r)
      BY <1>9, <1>10, <3>5
    <3> QED
      BY <1>10, <3>2, <3>5, <3>6, <3>7
  <2> QED
    BY <2>1, <2>2
<1> HIDE DEF st, D
<1>12. Tables(dcids', routes') /\ Seqs(dcids') = Seqs(q)
  <2>1. Tables(st.dcids, st.routes) /\ Seqs(st.dcids) = Seqs(q)
    BY <1>0, <1>3, <1>5, <1>6, <1>11, TablesKept
  <2> QED
    BY <1>2, <2>1
<1>13. Seqs(q) \subseteq Seqs(dcids)
  BY <1>3 DEF Seqs
<1>14. DroppedIsReleased'
  BY <1>2 DEF IdsInv, DroppedIsReleased
<1>15. /\ Seqs(dcids) \subseteq 0 .. next_scid_seq - 1 /\ given_up \subseteq 0 .. next_scid_seq - 1
       /\ next_scid_seq \in 1 .. MaxSeq + 1 /\ MaxSeq \in Nat
       /\ largest_rpt \in 0 .. MaxSeq + 1 /\ resends \in 0 .. MaxResends
       /\ told \subseteq 0 .. MaxSeq
       /\ retire_dcid_seqs \subseteq 0 .. MaxSeq
       /\ retires \subseteq [seq : 0 .. MaxSeq, dcid : 0 .. MaxSeq]
  BY ConnIdsAssumption DEF IdsInv, IdsTypeOK, HandedOut
<1>16. /\ Seqs(dcids') \subseteq 0 .. next_scid_seq - 1 /\ given_up' \subseteq 0 .. next_scid_seq - 1
       /\ retire_dcid_seqs' \subseteq 0 .. MaxSeq
  <2>1. s \in 0 .. next_scid_seq - 1 /\ s \in 0 .. MaxSeq
    BY <1>15
  <2> QED
    BY <1>2, <1>12, <1>13, <1>15, <2>1
<1> QED
  BY <1>2, <1>12, <1>14, <1>15, <1>16, UserStep

\* Steps of the user that touch the tables only and leave the ids in their places.
LEMMA PathStep ==
    ASSUME IdsInv, Tables(dcids', routes'), Seqs(dcids') = Seqs(dcids),
           err' = err \/ err' = "no_path",
           UNCHANGED <<issuerVars, retire_dcid_seqs, largest_rpt, given_up, told, ncids, retires, resends>>
    PROVE  IdsInv'
<1>1. DroppedIsReleased'
  BY DEF IdsInv, DroppedIsReleased, issuerVars
<1>2. /\ Seqs(dcids) \subseteq 0 .. next_scid_seq - 1 /\ given_up \subseteq 0 .. next_scid_seq - 1
      /\ largest_rpt \in 0 .. MaxSeq + 1 /\ resends \in 0 .. MaxResends
      /\ told \subseteq 0 .. MaxSeq
      /\ retire_dcid_seqs \subseteq 0 .. MaxSeq
      /\ retires \subseteq [seq : 0 .. MaxSeq, dcid : 0 .. MaxSeq]
  BY DEF IdsInv, IdsTypeOK, HandedOut
<1> QED
  BY <1>1, <1>2, UserStep

\* set_active_path changes no id.
LEMMA SetActiveShape ==
    ASSUME NEW D, NEW ps \in [D -> Users], NEW p \in D
    PROVE  /\ SetActive(ps, p) \in [D -> Users] /\ DOMAIN SetActive(ps, p) = D
           /\ \A o \in D : SetActive(ps, p)[o].dcid = ps[o].dcid
<1> DEFINE old == {o \in DOMAIN ps : IsActiveRoute(ps, o)}
           now(o) == IF o = p THEN TRUE ELSE IF old # {} /\ o = Min(old) THEN FALSE ELSE ps[o].active
           r == [o \in D |-> [ps[o] EXCEPT !.active = now(o)]]
<1>1. SetActive(ps, p) = r
  BY DEF SetActive
<1> HIDE DEF old
<1>2. \A o \in D : now(o) \in BOOLEAN
  BY DEF Users
<1> HIDE DEF now
<1>3. \A o \in D : [ps[o] EXCEPT !.active = now(o)] \in Users
                   /\ [ps[o] EXCEPT !.active = now(o)].dcid = ps[o].dcid
  BY <1>2 DEF Users
<1>4. r \in [D -> Users] /\ DOMAIN r = D /\ \A o \in D : r[o].dcid = ps[o].dcid
  BY <1>3
<1> HIDE DEF r
<1> QED
  BY <1>1, <1>4

\* The tables agree whatever path is the active one.
LEMMA SetActiveTables ==
    ASSUME NEW q, NEW ps, Tables(q, ps), NEW p \in DOMAIN ps
    PROVE  Tables(q, SetActive(ps, p))
<1> DEFINE r == SetActive(ps, p)
           D == DOMAIN ps
<1>0. D \subseteq 0 .. MaxPaths - 1 /\ ps \in [D -> Users] /\ p \in D
  BY DEF Tables
<1>1. r \in [D -> Users] /\ DOMAIN r = D /\ \A o \in D : r[o].dcid = ps[o].dcid
  <2> HIDE DEF D
  <2> QED
    BY <1>0, SetActiveShape
<1> HIDE DEF r
<1>2. Back(q, r)
  BY <1>1 DEF Tables, Back
<1>3. \A o \in D : Forth(q, r, o)
  BY <1>1 DEF Tables, Forth
<1> QED
  BY <1>0, <1>1, <1>2, <1>3 DEF Tables, r

\* The application migrates to another path.
LEMMA MigrateStep ==
    ASSUME IdsInv, NEW p \in DOMAIN routes, migrate(p)
    PROVE  IdsInv'
<1> DEFINE D == DOMAIN routes
           x == [dcids |-> dcids, routes |-> routes]
           st == IF routes[p].dcid # Unset THEN x ELSE GiveDcid(x, p)
<1>0. /\ Tables(dcids, routes) /\ dcids \in Seq(Entries) /\ dcids # <<>> /\ Len(dcids) <= Limit
      /\ Unique(dcids) /\ D \subseteq 0 .. MaxPaths - 1 /\ routes \in [D -> Users]
      /\ Back(dcids, routes) /\ \A r \in D : Forth(dcids, routes, r)
  BY TablesNow DEF Tables
<1>1. /\ dcids' = st.dcids /\ routes' = SetActive(st.routes, p)
      /\ UNCHANGED <<issuerVars, retire_dcid_seqs, largest_rpt, given_up, told, ncids, retires, err, resends>>
  BY DEF migrate
<1>2. x \in States(D) /\ x.dcids = dcids /\ x.routes = routes
  BY <1>0 DEF States
<1> HIDE DEF x
<1>3. Tables(st.dcids, st.routes) /\ Seqs(st.dcids) = Seqs(dcids) /\ DOMAIN st.routes = D
  <2>1. CASE routes[p].dcid # Unset
    BY <1>0, <1>2, <2>1
  <2>2. CASE routes[p].dcid = Unset
    <3> DEFINE g == GiveDcid(x, p)
    <3>1. Untaken(x.dcids, p)
      <4> SUFFICES ASSUME NEW j \in DOMAIN dcids, dcids[j].pid = p PROVE FALSE
        BY <1>2 DEF Untaken
      <4>1. p # Unset /\ dcids[j] \in Entries
        BY <1>0, ElementOfSeq DEF Unset
      <4>2. routes[p].dcid = dcids[j].seq
        BY <1>0, <4>1 DEF Back
      <4> QED
        BY <2>2, <4>1, <4>2 DEF Entries, Unset
    <3> HIDE DEF D
    <3>2. Unique(x.dcids) /\ Back(x.dcids, x.routes) /\ p \in D
      BY <1>0, <1>2 DEF D
    <3>3. /\ Back(g.dcids, g.routes)
          /\ Forth(g.dcids, g.routes, p)
          /\ \A r \in D \ {p} : Forth(x.dcids, x.routes, r) => Forth(g.dcids, g.routes, r)
      BY <1>0, <1>2, <3>1, <3>2, GiveLinks
    <3>4. g \in States(D) /\ SameIds(g.dcids, x.dcids)
      BY <1>0, <1>2, <3>2, GiveShape
    <3> HIDE DEF g
    <3>5. \A r \in D : Forth(g.dcids, g.routes, r)
      BY <1>0, <1>2, <3>3
    <3>6. Tables(g.dcids, g.routes) /\ Seqs(g.dcids) = Seqs(dcids) /\ DOMAIN g.routes = D
      BY <1>0, <1>2, <3>3, <3>4, <3>5, TablesKept
    <3>7. st = g
      BY <2>2 DEF g
    <3> QED
      BY <3>6, <3>7
  <2> QED
    BY <2>1, <2>2
<1> HIDE DEF st
<1>4. Tables(st.dcids, SetActive(st.routes, p))
  BY <1>3, SetActiveTables
<1> QED
  BY <1>1, <1>3, <1>4, PathStep

\* Another path takes over from one that lost its id, or none can.
LEMMA FindCandidateStep ==
    ASSUME IdsInv, FindCandidate
    PROVE  IdsInv'
<1> DEFINE usable_ids == {p \in DOMAIN routes : routes[p].dcid # Unset}
<1>0. Tables(dcids, routes) /\ DOMAIN routes \subseteq 0 .. MaxPaths - 1
  BY TablesNow DEF Tables
<1>1. /\ UNCHANGED <<issuerVars, dcids, retire_dcid_seqs, largest_rpt, given_up, told, ncids, retires,
                     resends>>
      /\ \/ err' = "no_path" /\ routes' = routes
         \/ usable_ids # {} /\ routes' = SetActive(routes, Min(usable_ids)) /\ err' = err
  BY DEF FindCandidate
<1>2. Tables(dcids', routes')
  <2>1. CASE routes' = routes
    BY <1>0, <1>1, <2>1
  <2>2. CASE usable_ids # {} /\ routes' = SetActive(routes, Min(usable_ids))
    <3>1. usable_ids \subseteq Nat /\ usable_ids \subseteq DOMAIN routes
      BY <1>0
    <3> HIDE DEF usable_ids
    <3>2. Min(usable_ids) \in DOMAIN routes
      BY <2>2, <3>1, LeastOf
    <3> QED
      BY <1>0, <1>1, <2>2, <3>2, SetActiveTables
  <2> QED
    BY <1>1, <2>1, <2>2
<1> QED
  BY <1>1, <1>2, PathStep

\* The application probes a new path: there is room for it, or it is made.
LEMMA CreatePathStep ==
    ASSUME IdsInv, create_path_on_client
    PROVE  IdsInv'
<1> DEFINE D == DOMAIN routes
           idle == {p \in D : unused_route(routes, p)}
           room == IF Cardinality(D) < MaxPaths THEN D ELSE D \ {Min(idle)}
           free == (0 .. MaxPaths - 1) \ room
           pid == Min(free)
           s == Min(Available(dcids))
           q == link_dcid_to_path_id(dcids, s, pid)
           ps == [p \in room \cup {pid} |->
                    IF p = pid THEN [dcid |-> s, active |-> FALSE] ELSE routes[p]]
<1>0. /\ Tables(dcids, routes) /\ dcids \in Seq(Entries) /\ dcids # <<>> /\ Len(dcids) <= Limit
      /\ Unique(dcids) /\ D \subseteq 0 .. MaxPaths - 1 /\ routes \in [D -> Users]
      /\ Back(dcids, routes) /\ \A r \in D : Forth(dcids, routes, r)
      /\ MaxPaths \in Nat \ {0}
  BY TablesNow, ConnIdsAssumption DEF Tables
<1>1. /\ dcids' = q /\ routes' = ps
      /\ Available(dcids) # {}
      /\ Cardinality(D) < MaxPaths \/ idle # {}
      /\ UNCHANGED <<issuerVars, retire_dcid_seqs, largest_rpt, given_up, told, ncids, retires, err,
                     resends>>
  BY DEF create_path_on_client
<1>2. /\ room \subseteq D
      /\ free # {}
      /\ \A p \in D \ room : routes[p].dcid = Unset
  <2>1. CASE Cardinality(D) < MaxPaths
    <3>1. room = D
      BY <2>1
    <3>2. D # 0 .. MaxPaths - 1
      <4>0. MaxPaths - 1 \in Int /\ 0 \in Int
        BY <1>0
      <4>1. Cardinality(0 .. MaxPaths - 1) = MaxPaths
        <5>1. Cardinality(0 .. MaxPaths - 1) = IF 0 > MaxPaths - 1 THEN 0 ELSE MaxPaths - 1 - 0 + 1
          BY <4>0, FS_Interval, Zenon
        <5> QED
          BY <1>0, <5>1
      <4> QED
        BY <1>0, <2>1, <4>1
    <3> QED
      BY <1>0, <3>1, <3>2
  <2>2. CASE ~(Cardinality(D) < MaxPaths)
    <3>1. idle # {} /\ idle \subseteq Nat
      BY <1>0, <1>1, <2>2
    <3>2. Min(idle) \in idle
      <4> HIDE DEF idle
      <4> QED
        BY <3>1, LeastOf
    <3>3. Min(idle) \in D /\ routes[Min(idle)].dcid = Unset
      BY <3>2 DEF unused_route
    <3>4. room = D \ {Min(idle)}
      BY <2>2
    <3> HIDE DEF idle, room
    <3>5. Min(idle) \in free
      BY <1>0, <3>3, <3>4
    <3> QED
      BY <3>3, <3>4, <3>5
  <2> QED
    BY <2>1, <2>2
<1> HIDE DEF room, idle
<1>3. pid \in 0 .. MaxPaths - 1 /\ pid \notin room
  <2>1. free \subseteq Nat
    BY <1>0
  <2>2. pid \in free
    <3> HIDE DEF free
    <3> QED
      BY <1>2, <2>1, LeastOf
  <2> QED
    BY <2>2
<1> HIDE DEF pid, free
<1>4. /\ s \in 0 .. MaxSeq
      /\ \E i \in DOMAIN dcids : dcids[i].seq = s /\ dcids[i].pid = Unset
  BY <1>0, <1>1, FreeId
<1>5. PICK e \in DOMAIN dcids : dcids[e].seq = s /\ dcids[e].pid = Unset
  BY <1>4
<1> HIDE DEF s
<1>6. /\ q \in Seq(Entries) /\ SameIds(q, dcids) /\ DOMAIN q = DOMAIN dcids
      /\ \A i \in DOMAIN dcids : /\ q[i].seq = dcids[i].seq
                                 /\ q[i].pid = IF dcids[i].seq = s THEN pid ELSE dcids[i].pid
  BY <1>0, <1>3, LinkDcid DEF SameIds
<1> HIDE DEF q
<1>7. /\ q # <<>> /\ Len(q) <= Limit /\ Unique(q) /\ Seqs(q) = Seqs(dcids)
  <2>1. Unique(q) /\ Seqs(q) = Seqs(dcids)
    BY <1>0, <1>6, SameIdsFacts
  <2>2. Len(q) = Len(dcids) /\ Len(dcids) # 0 /\ Len(<< >>) = 0
    BY <1>0, <1>6, EmptySeq DEF SameIds
  <2> QED
    BY <1>0, <2>1, <2>2
<1>8. \A i \in DOMAIN dcids : dcids[i].seq = s => i = e
  BY <1>0, <1>5 DEF Unique
<1>9. /\ DOMAIN ps = room \cup {pid} /\ ps[pid].dcid = s
      /\ \A r \in room : ps[r] = routes[r]
      /\ ps \in [room \cup {pid} -> Users]
  <2>1. [dcid |-> s, active |-> FALSE] \in Users
    BY <1>4 DEF Users
  <2>2. \A r \in room : r # pid /\ routes[r] \in Users
    BY <1>0, <1>2, <1>3
  <2> QED
    BY <1>3, <2>1, <2>2
<1> HIDE DEF ps
<1>10. DOMAIN ps \subseteq 0 .. MaxPaths - 1
  BY <1>0, <1>2, <1>3, <1>9
<1>11. Back(q, ps)
  <2> SUFFICES ASSUME NEW i \in DOMAIN q, q[i].pid # Unset
               PROVE  q[i].pid \in DOMAIN ps /\ ps[q[i].pid].dcid = q[i].seq
    BY DEF Back
  <2>1. CASE i = e
    BY <1>5, <1>6, <1>9, <2>1
  <2>2. CASE i # e
    <3>1. i \in DOMAIN dcids /\ dcids[i].pid = q[i].pid /\ dcids[i].seq = q[i].seq /\ dcids[i] \in Entries
      BY <1>0, <1>6, <1>8, <2>2, ElementOfSeq
    <3>2. dcids[i].pid \in D /\ routes[dcids[i].pid].dcid = dcids[i].seq
      BY <1>0, <3>1 DEF Back
    <3>3. dcids[i].seq # Unset
      BY <3>1 DEF Entries, Unset
    <3>4. dcids[i].pid \in room
      BY <1>2, <3>2, <3>3
    <3> QED
      BY <1>9, <3>1, <3>2, <3>4
  <2> QED
    BY <2>1, <2>2
<1>12. ASSUME NEW r \in DOMAIN ps PROVE Forth(q, ps, r)
  <2>1. CASE r = pid
    BY <1>5, <1>6, <1>9, <2>1 DEF Forth
  <2>2. CASE r # pid
    <3>1. r \in room /\ r \in D /\ ps[r] = routes[r] /\ r # Unset
      BY <1>0, <1>2, <1>9, <2>2 DEF Unset
    <3> SUFFICES ASSUME routes[r].dcid # Unset
                 PROVE  \E i \in DOMAIN q : q[i].seq = routes[r].dcid /\ q[i].pid = r
      BY <3>1 DEF Forth
    <3>2. PICK i \in DOMAIN dcids : dcids[i].seq = routes[r].dcid /\ dcids[i].pid = r
      BY <1>0, <3>1 DEF Forth
    <3>3. i # e
      BY <1>5, <3>1, <3>2
    <3> QED
      BY <1>6, <1>8, <3>2, <3>3
  <2> QED
    BY <2>1, <2>2
<1>13. Tables(q, ps)
  BY <1>6, <1>7, <1>9, <1>10, <1>11, <1>12 DEF Tables
<1> QED
  BY <1>1, <1>7, <1>13, PathStep

-----------------------------------------------------------------------------
(* The issuer.                                                                *)

\* Numbers below a bound are below a larger one.
LEMMA Below ==
    ASSUME NEW a \in Int, NEW b \in Int, a <= b, NEW S, S \subseteq 0 .. a - 1
    PROVE  S \subseteq 0 .. b - 1
OBVIOUS

\* A step of the issuer that touches its tables only.
LEMMA IssuerStep ==
    ASSUME IdsInv, UNCHANGED userVars, retires' \subseteq retires,
           scids' \subseteq 0 .. next_scid_seq' - 1, scids' # {},
           next_scid_seq' \in 1 .. MaxSeq + 1, next_scid_seq <= next_scid_seq',
           retire_prior_to' \in 0 .. MaxSeq + 1, advertise' \in Seq(0 .. MaxSeq),
           retired_scids' \subseteq 0 .. MaxSeq,
           Cardinality(scids') <= 2 * Limit - 1, Cardinality(usable_scids') <= Limit,
           ncids' \subseteq [seq : 0 .. MaxSeq, rpt : 0 .. MaxSeq + 1],
           \A f \in ncids' : f.seq < next_scid_seq',
           resends' \in 0 .. MaxResends, DroppedIsReleased'
    PROVE  IdsInv'
<1>0. MaxSeq \in Nat /\ next_scid_seq \in 1 .. MaxSeq + 1
  BY ConnIdsAssumption DEF IdsInv, IdsTypeOK
<1>1. UNCHANGED <<dcids, retire_dcid_seqs, largest_rpt, routes, given_up, told>>
  BY DEF userVars
<1>2. IdsTypeOK'
  <2>1. scids' \subseteq 0 .. MaxSeq
    <3>1. PICK m \in Int : m = MaxSeq + 1
      BY <1>0
    <3>2. next_scid_seq' \in Int /\ next_scid_seq' <= m /\ m - 1 = MaxSeq
      BY <1>0, <3>1
    <3>3. scids' \subseteq 0 .. m - 1
      BY <3>2, Below
    <3> QED
      BY <3>2, <3>3
  <2> QED
    BY <1>1, <2>1 DEF IdsInv, IdsTypeOK
<1>3. HandedOut'
  <2>1. next_scid_seq \in Int /\ next_scid_seq' \in Int
    BY <1>0
  <2>2. /\ Seqs(dcids') \subseteq 0 .. next_scid_seq - 1
        /\ given_up' \subseteq 0 .. next_scid_seq - 1
    BY <1>1 DEF IdsInv, HandedOut
  <2>3. /\ Seqs(dcids') \subseteq 0 .. next_scid_seq' - 1
        /\ given_up' \subseteq 0 .. next_scid_seq' - 1
    BY <2>1, <2>2, Below
  <2> QED
    BY <2>3 DEF HandedOut
<1>4. TablesBounded'
  BY <1>1 DEF IdsInv, TablesBounded
<1>5. PathsLinked'
  BY <1>1 DEF IdsInv, PathsLinked
<1> QED
  BY <1>1, <1>2, <1>3, <1>4, <1>5 DEF IdsInv

\* The tables of the issuer are finite.
LEMMA ScidsFinite ==
    ASSUME IdsInv
    PROVE  /\ IsFiniteSet(scids) /\ Cardinality(scids) \in Nat
           /\ IsFiniteSet(usable_scids) /\ Cardinality(usable_scids) \in Nat
           /\ scids \subseteq Nat /\ usable_scids \subseteq scids
<1>1. IsFiniteSet(0 .. MaxSeq)
  BY ConnIdsAssumption, FS_Interval
<1>2. scids \subseteq 0 .. MaxSeq /\ usable_scids \subseteq scids
  BY DEF IdsInv, IdsTypeOK, usable_scids
<1>3. IsFiniteSet(scids)
  BY <1>1, <1>2, FS_Subset
<1>4. IsFiniteSet(usable_scids)
  BY <1>2, <1>3, FS_Subset
<1> QED
  BY <1>2, <1>3, <1>4, FS_CardinalityType

\* The application makes a new id; at the limit of the peer the lowest one is asked back.
LEMMA NewScidStep ==
    ASSUME IdsInv, err = "None", NEW b \in BOOLEAN, new_scid(b)
    PROVE  IdsInv'
<1> DEFINE full == Cardinality(scids) >= Limit
           least == Min(usable_scids)
<1>0. /\ next_scid_seq <= MaxSeq
      /\ full => usable_scids # {}
      /\ retire_prior_to' = IF full THEN least + 1 ELSE retire_prior_to
      /\ \/ UNCHANGED <<scids, next_scid_seq, advertise>>
         \/ /\ Cardinality(scids) < 2 * Limit - 1
            /\ scids' = scids \cup {next_scid_seq}
            /\ next_scid_seq' = next_scid_seq + 1
            /\ advertise' = Append(advertise, next_scid_seq)
      /\ UNCHANGED <<retired_scids, userVars, ncids, retires, err, resends>>
      /\ given_up' = given_up /\ retire_dcid_seqs' = retire_dcid_seqs
  <2>1. IdsInv => Cardinality(scids) \in Nat
    BY ScidsFinite
  <2>2. Limit \in Nat
    BY ConnIdsAssumption
  <2> QED
    BY <2>1, <2>2 DEF new_scid, userVars
<1>1. /\ IsFiniteSet(scids) /\ Cardinality(scids) \in Nat
      /\ IsFiniteSet(usable_scids) /\ Cardinality(usable_scids) \in Nat
      /\ scids \subseteq Nat /\ usable_scids \subseteq scids
  BY ScidsFinite
<1>2. /\ MaxSeq \in Nat /\ next_scid_seq \in 1 .. MaxSeq + 1 /\ Limit \in Nat /\ Limit >= 2
      /\ scids \subseteq 0 .. next_scid_seq - 1 /\ scids # {}
      /\ retire_prior_to \in 0 .. MaxSeq + 1 /\ advertise \in Seq(0 .. MaxSeq)
      /\ retired_scids \subseteq 0 .. MaxSeq
      /\ Cardinality(scids) <= 2 * Limit - 1 /\ Cardinality(usable_scids) <= Limit
      /\ ncids \subseteq [seq : 0 .. MaxSeq, rpt : 0 .. MaxSeq + 1]
      /\ \A f \in ncids : f.seq < next_scid_seq
      /\ resends \in 0 .. MaxResends
      /\ given_up \subseteq 0 .. next_scid_seq - 1
  BY ConnIdsAssumption DEF IdsInv, IdsTypeOK, HandedOut, TablesBounded
<1>3. ASSUME full
      PROVE  /\ least \in usable_scids /\ \A y \in usable_scids : least <= y
             /\ least \in scids /\ least + 1 \in 0 .. MaxSeq + 1
  <2>1. usable_scids # {} /\ usable_scids \subseteq Nat
    BY <1>0, <1>1, <1>3
  <2>2. least \in usable_scids /\ \A y \in usable_scids : least <= y
    BY <2>1, LeastOf
  <2>3. least \in scids
    BY <1>1, <2>2
  <2> HIDE DEF least
  <2>4. least \in 0 .. next_scid_seq - 1
    BY <1>2, <2>3
  <2> QED
    BY <1>2, <2>2, <2>3, <2>4
<1> HIDE DEF least
<1>4. retire_prior_to' \in 0 .. MaxSeq + 1
  BY <1>0, <1>2, <1>3
<1>5. next_scid_seq \notin scids
  BY <1>2
<1>6. /\ Cardinality(scids \cup {next_scid_seq}) = Cardinality(scids) + 1
      /\ IsFiniteSet(scids \cup {next_scid_seq})
  BY <1>1, <1>5, FS_AddElement
<1>7. Cardinality(usable_scids') <= Limit
  <2>1. CASE ~full
    <3>1. usable_scids' \subseteq scids \cup {next_scid_seq}
      BY <1>0 DEF usable_scids
    <3>2. Cardinality(usable_scids') <= Cardinality(scids) + 1
      BY <1>6, <3>1, FS_Subset
    <3>3. Cardinality(usable_scids') \in Nat
      BY <1>6, <3>1, FS_Subset, FS_CardinalityType
    <3> QED
      BY <1>1, <1>2, <2>1, <3>2, <3>3
  <2>2. CASE full
    <3> DEFINE left == usable_scids \ {least}
    <3>1. usable_scids' \subseteq left \cup {next_scid_seq}
      <4> SUFFICES ASSUME NEW y \in usable_scids', y # next_scid_seq
                   PROVE  y \in usable_scids /\ y # least
        OBVIOUS
      <4>1. y \in scids /\ y >= least + 1
        BY <1>0, <2>2 DEF usable_scids
      <4>2. least \in Nat /\ least >= retire_prior_to /\ y \in Nat
        BY <1>1, <1>3, <2>2, <4>1 DEF usable_scids
      <4>3. y # least /\ y >= retire_prior_to
        BY <1>2, <4>1, <4>2
      <4> QED
        BY <4>1, <4>3 DEF usable_scids
    <3>2. IsFiniteSet(left) /\ Cardinality(left) = Cardinality(usable_scids) - 1
      BY <1>1, <1>3, <2>2, FS_RemoveElement
    <3>3. next_scid_seq \notin left
      BY <1>1, <1>5
    <3> HIDE DEF left
    <3>4. /\ IsFiniteSet(left \cup {next_scid_seq})
          /\ Cardinality(left \cup {next_scid_seq}) = Cardinality(left) + 1
      BY <3>2, <3>3, FS_AddElement
    <3>5. Cardinality(usable_scids') <= Cardinality(left \cup {next_scid_seq})
      BY <3>1, <3>4, FS_Subset
    <3>6. Cardinality(left) + 1 = Cardinality(usable_scids)
      BY <1>1, <3>2
    <3>7. Cardinality(usable_scids') \in Nat
      BY <3>1, <3>4, FS_Subset, FS_CardinalityType
    <3>8. Cardinality(usable_scids') <= Cardinality(usable_scids)
      BY <3>4, <3>5, <3>6
    <3> QED
      BY <1>1, <1>2, <3>7, <3>8
  <2> QED
    BY <2>1, <2>2
<1>8. CASE UNCHANGED <<scids, next_scid_seq, advertise>>
  <2>1. DroppedIsReleased'
    BY <1>0, <1>8 DEF IdsInv, DroppedIsReleased
  <2> QED
    BY <1>0, <1>2, <1>4, <1>7, <1>8, <2>1, IssuerStep
<1>9. ASSUME Cardinality(scids) < 2 * Limit - 1,
             scids' = scids \cup {next_scid_seq},
             next_scid_seq' = next_scid_seq + 1,
             advertise' = Append(advertise, next_scid_seq)
      PROVE  IdsInv'
  <2>1. DroppedIsReleased'
    <3>1. next_scid_seq \notin given_up
      BY <1>2
    <3> QED
      BY <1>0, <1>9, <3>1 DEF IdsInv, DroppedIsReleased
  <2>2. /\ scids' \subseteq 0 .. next_scid_seq' - 1 /\ scids' # {}
        /\ next_scid_seq' \in 1 .. MaxSeq + 1 /\ next_scid_seq <= next_scid_seq'
    BY <1>0, <1>2, <1>9
  <2>3. Cardinality(scids') <= 2 * Limit - 1
    BY <1>1, <1>2, <1>6, <1>9
  <2>4. advertise' \in Seq(0 .. MaxSeq)
    BY <1>0, <1>2, <1>9
  <2>5. \A f \in ncids' : f.seq < next_scid_seq'
    BY <1>0, <1>2, <1>9
  <2> QED
    BY <1>0, <1>2, <1>4, <1>7, <2>1, <2>2, <2>3, <2>4, <2>5, IssuerStep
<1> QED
  BY <1>0, <1>8, <1>9

\* NEW_CONNECTION_ID is put on the wire, or declared lost.
LEMMA AdvertiseStep ==
    ASSUME IdsInv, \/ SendNewConnectionId
                 \/ \E s \in 1 .. next_scid_seq - 1 : LoseNewConnectionId(s)
    PROVE  IdsInv'
<1>0. /\ MaxSeq \in Nat /\ MaxResends \in Nat /\ next_scid_seq \in 1 .. MaxSeq + 1
      /\ scids \subseteq 0 .. next_scid_seq - 1 /\ scids # {} /\ scids \subseteq 0 .. MaxSeq
      /\ retire_prior_to \in 0 .. MaxSeq + 1 /\ advertise \in Seq(0 .. MaxSeq)
      /\ retired_scids \subseteq 0 .. MaxSeq
      /\ Cardinality(scids) <= 2 * Limit - 1 /\ Cardinality(usable_scids) <= Limit
      /\ ncids \subseteq [seq : 0 .. MaxSeq, rpt : 0 .. MaxSeq + 1]
      /\ \A f \in ncids : f.seq < next_scid_seq
      /\ resends \in 0 .. MaxResends
  BY ConnIdsAssumption DEF IdsInv, IdsTypeOK, HandedOut, TablesBounded
<1>1. /\ UNCHANGED <<scids, next_scid_seq, retire_prior_to, retired_scids, userVars, retires>>
      /\ given_up' = given_up /\ retire_dcid_seqs' = retire_dcid_seqs
      /\ err' = err \/ err' = "send"
  BY DEF SendNewConnectionId, LoseNewConnectionId, userVars
<1>2. /\ DroppedIsReleased' /\ usable_scids' = usable_scids
  BY <1>1 DEF IdsInv, DroppedIsReleased, usable_scids
<1>3. ASSUME SendNewConnectionId PROVE IdsInv'
  <2> DEFINE h == Head(advertise)
             f == [seq |-> h, rpt |-> retire_prior_to]
  <2>1. /\ resends' = resends /\ advertise # <<>>
        /\ \/ h \in scids /\ ncids' = ncids \cup {f} /\ advertise' = Tail(advertise)
           \/ ncids' = ncids /\ advertise' = advertise
    BY <1>3 DEF SendNewConnectionId
  <2>2. advertise' \in Seq(0 .. MaxSeq)
    <3>1. Tail(advertise) \in Seq(0 .. MaxSeq)
      BY <1>0, <2>1, HeadTailProperties
    <3> QED
      BY <1>0, <2>1, <3>1
  <2>3. h \in scids => f \in [seq : 0 .. MaxSeq, rpt : 0 .. MaxSeq + 1] /\ f.seq < next_scid_seq
    <3> HIDE DEF h
    <3> SUFFICES ASSUME h \in scids
                 PROVE  f \in [seq : 0 .. MaxSeq, rpt : 0 .. MaxSeq + 1] /\ f.seq < next_scid_seq
      OBVIOUS
    <3>1. h \in 0 .. next_scid_seq - 1 /\ h \in 0 .. MaxSeq
      BY <1>0
    <3> QED
      BY <1>0, <3>1
  <2> HIDE DEF f, h
  <2>4. /\ ncids' \subseteq [seq : 0 .. MaxSeq, rpt : 0 .. MaxSeq + 1]
        /\ \A g \in ncids' : g.seq < next_scid_seq
    BY <1>0, <2>1, <2>3
  <2> QED
    BY <1>0, <1>1, <1>2, <2>1, <2>2, <2>4, IssuerStep
<1>4. ASSUME NEW s \in 1 .. next_scid_seq - 1, LoseNewConnectionId(s) PROVE IdsInv'
  <2>1. /\ resends < MaxResends /\ resends' = resends + 1 /\ ncids' = ncids
        /\ advertise' = Append(advertise, s)
    BY <1>4 DEF LoseNewConnectionId
  <2>2. s \in 0 .. MaxSeq
    BY <1>0
  <2>3. resends' \in 0 .. MaxResends
    BY <1>0, <2>1
  <2>4. advertise' \in Seq(0 .. MaxSeq)
    BY <1>0, <2>1, <2>2
  <2> QED
    BY <1>0, <1>1, <1>2, <2>1, <2>3, <2>4, IssuerStep
<1> QED
  BY <1>3, <1>4

\* RETIRE_CONNECTION_ID arrives.
LEMMA RetireScidStep ==
    ASSUME IdsInv, err = "None", NEW f \in retires, retire_scid(f)
    PROVE  IdsInv'
<1> DEFINE left == scids \ {f.seq}
           usable_ids == {s \in left : s >= retire_prior_to}
           fails == \/ f.dcid \notin scids
                    \/ f.seq >= next_scid_seq
                    \/ Cardinality(scids) <= 1
                    \/ f.seq \in scids /\ (f.seq = f.dcid \/ usable_ids = {})
<1>0. /\ MaxSeq \in Nat /\ Limit \in Nat /\ next_scid_seq \in 1 .. MaxSeq + 1
      /\ scids \subseteq 0 .. next_scid_seq - 1 /\ scids # {} /\ scids \subseteq 0 .. MaxSeq
      /\ retire_prior_to \in 0 .. MaxSeq + 1 /\ advertise \in Seq(0 .. MaxSeq)
      /\ retired_scids \subseteq 0 .. MaxSeq /\ f.seq \in 0 .. MaxSeq
      /\ Cardinality(scids) <= 2 * Limit - 1 /\ Cardinality(usable_scids) <= Limit
      /\ ncids \subseteq [seq : 0 .. MaxSeq, rpt : 0 .. MaxSeq + 1]
      /\ \A g \in ncids : g.seq < next_scid_seq
      /\ resends \in 0 .. MaxResends
      /\ DroppedIsReleased
  BY ConnIdsAssumption DEF IdsInv, IdsTypeOK, HandedOut, TablesBounded
<1>1. /\ scids' = IF f.dcid \notin scids \/ Cardinality(scids) <= 1 THEN scids ELSE left
      /\ err' = IF fails THEN "retire_scid" ELSE err
      /\ \/ /\ ~fails /\ f.seq \in scids
            /\ retired_scids' = retired_scids \cup {f.seq} /\ retire_prior_to' = Min(usable_ids)
         \/ retired_scids' = retired_scids /\ retire_prior_to' = retire_prior_to
      /\ retires' = retires \ {f}
      /\ UNCHANGED <<next_scid_seq, advertise, userVars, ncids, resends>>
      /\ given_up' = given_up /\ retire_dcid_seqs' = retire_dcid_seqs
  BY DEF retire_scid, userVars
<1>2. /\ IsFiniteSet(scids) /\ Cardinality(scids) \in Nat
      /\ IsFiniteSet(usable_scids) /\ Cardinality(usable_scids) \in Nat
      /\ scids \subseteq Nat /\ usable_scids \subseteq scids
  BY ScidsFinite
<1>3. scids' \subseteq scids /\ (err' = "None" => f.seq \notin scids')
  BY <1>1
<1>4. scids' # {}
  <2>1. CASE f.dcid \notin scids \/ Cardinality(scids) <= 1
    BY <1>0, <1>1, <2>1
  <2>2. CASE ~(f.dcid \notin scids \/ Cardinality(scids) <= 1)
    <3> SUFFICES ASSUME left = {} PROVE FALSE
      BY <1>1, <2>2
    <3>1. scids = {f.seq}
      BY <1>0
    <3>2. Cardinality(scids) = 1
      BY <3>1, FS_Singleton
    <3> QED
      BY <2>2, <3>2
  <2> QED
    BY <2>1, <2>2
<1>5. Cardinality(scids') <= 2 * Limit - 1
  <2>1. Cardinality(scids') <= Cardinality(scids) /\ Cardinality(scids') \in Nat
    BY <1>2, <1>3, FS_Subset, FS_CardinalityType
  <2> QED
    BY <1>0, <1>2, <2>1
<1>6. /\ retire_prior_to' \in 0 .. MaxSeq + 1 /\ retired_scids' \subseteq 0 .. MaxSeq
      /\ usable_scids' \subseteq usable_scids
  <2>1. CASE retired_scids' = retired_scids /\ retire_prior_to' = retire_prior_to
    BY <1>0, <1>3, <2>1 DEF usable_scids
  <2>2. ASSUME ~fails, f.seq \in scids,
               retired_scids' = retired_scids \cup {f.seq}, retire_prior_to' = Min(usable_ids)
        PROVE  /\ retire_prior_to' \in 0 .. MaxSeq + 1 /\ retired_scids' \subseteq 0 .. MaxSeq
               /\ usable_scids' \subseteq usable_scids
    <3>1. usable_ids # {} /\ usable_ids \subseteq Nat /\ usable_ids \subseteq 0 .. MaxSeq
      BY <1>0, <1>2, <2>2
    <3>2. Min(usable_ids) \in usable_ids
      <4> HIDE DEF usable_ids
      <4> QED
        BY <3>1, LeastOf
    <3>3. Min(usable_ids) >= retire_prior_to /\ Min(usable_ids) \in 0 .. MaxSeq
      BY <3>1, <3>2
    <3> HIDE DEF usable_ids
    <3>4. usable_scids' \subseteq usable_scids
      <4> SUFFICES ASSUME NEW y \in scids', y >= retire_prior_to' PROVE y \in usable_scids
        BY DEF usable_scids
      <4>1. y \in scids /\ y \in Nat
        BY <1>2, <1>3
      <4>2. y >= retire_prior_to
        BY <1>0, <2>2, <3>3, <4>1
      <4> QED
        BY <4>1, <4>2 DEF usable_scids
    <3> QED
      <4>1. retire_prior_to' \in 0 .. MaxSeq + 1
        BY <1>0, <2>2, <3>3
      <4>2. retired_scids' \subseteq 0 .. MaxSeq
        BY <1>0, <2>2
      <4> QED
        BY <3>4, <4>1, <4>2
  <2> QED
    BY <1>1, <2>1, <2>2
<1>7. Cardinality(usable_scids') <= Limit
  <2>1. Cardinality(usable_scids') <= Cardinality(usable_scids) /\ Cardinality(usable_scids') \in Nat
    BY <1>2, <1>6, FS_Subset, FS_CardinalityType
  <2> QED
    BY <1>0, <1>2, <2>1
<1>8. DroppedIsReleased'
  <2> SUFFICES ASSUME err' = "None", NEW s \in given_up' \cap scids'
               PROVE  s \in retire_dcid_seqs' \/ \E g \in retires' : g.seq = s
    BY DEF DroppedIsReleased
  <2>1. s # f.seq /\ s \in given_up \cap scids
    BY <1>1, <1>3
  <2>2. s \in retire_dcid_seqs \/ \E g \in retires : g.seq = s
    BY <1>0, <2>1 DEF DroppedIsReleased
  <2> QED
    BY <1>1, <2>1, <2>2
<1>9. scids' \subseteq 0 .. next_scid_seq' - 1
  BY <1>0, <1>1, <1>3
<1> HIDE DEF left, fails, usable_ids
<1> QED
  BY <1>0, <1>1, <1>4, <1>5, <1>6, <1>7, <1>8, <1>9, IssuerStep

-----------------------------------------------------------------------------
(* The theorems.                                                              *)

\* The first path uses the first id.
LEMMA IdsInitInv == IdsInit => IdsInv
<1> SUFFICES ASSUME IdsInit PROVE IdsInv
  OBVIOUS
<1>0. /\ Limit \in Nat /\ Limit >= 2 /\ MaxSeq \in Nat /\ MaxResends \in Nat /\ MaxPaths \in Nat \ {0}
  BY ConnIdsAssumption
<1> DEFINE e == [seq |-> 0, pid |-> 0]
           u == [dcid |-> 0, active |-> TRUE]
<1>1. e \in Entries /\ e.seq = 0 /\ e.pid = 0 /\ u \in Users /\ u.dcid = 0
  BY <1>0 DEF Entries, Users
<1> HIDE DEF e, u
<1>2. dcids = <<e>> /\ routes = [p \in {0} |-> u]
  BY DEF IdsInit, e, u
<1>3. /\ dcids \in Seq(Entries) /\ Len(dcids) = 1 /\ DOMAIN dcids = {1} /\ dcids[1] = e
      /\ DOMAIN routes = {0} /\ routes[0] = u /\ routes \in [{0} -> Users]
  BY <1>1, <1>2
<1>4. IdsTypeOK
  <2>1. advertise \in Seq(0 .. MaxSeq)
    BY DEF IdsInit
  <2> QED
    BY <1>0, <1>1, <1>3, <2>1 DEF IdsInit, IdsTypeOK, Entries, Users
<1>5. HandedOut
  <2>1. Seqs(dcids) = {0}
    BY <1>1, <1>3 DEF Seqs
  <2> QED
    BY <2>1 DEF IdsInit, HandedOut
<1>6. TablesBounded
  <2>1. scids = {0} /\ usable_scids = {0}
    BY DEF IdsInit, usable_scids
  <2>2. Cardinality({0}) = 1
    BY FS_Singleton
  <2>3. dcids # <<>>
    BY <1>3
  <2> QED
    BY <1>0, <1>3, <2>1, <2>2, <2>3 DEF TablesBounded
<1>7. PathsLinked
  BY <1>1, <1>3 DEF PathsLinked
<1>8. DroppedIsReleased
  BY DEF IdsInit, DroppedIsReleased
<1> QED
  BY <1>3, <1>4, <1>5, <1>6, <1>7, <1>8 DEF IdsInv

\* Every step keeps the invariant.
LEMMA IdsNextInv == IdsInv /\ [IdsNext]_idsVars => IdsInv'
<1> SUFFICES ASSUME IdsInv, [IdsNext]_idsVars PROVE IdsInv'
  OBVIOUS
<1>1. CASE UNCHANGED idsVars
  <2>1. /\ UNCHANGED <<scids, next_scid_seq, retire_prior_to, advertise, retired_scids>>
        /\ UNCHANGED <<dcids, retire_dcid_seqs, largest_rpt, routes, given_up, told>>
        /\ UNCHANGED <<ncids, retires, err, resends>>
    BY <1>1 DEF idsVars, issuerVars, userVars
  <2> QED
    BY <2>1 DEF IdsInv, IdsTypeOK, HandedOut, TablesBounded, usable_scids, PathsLinked, DroppedIsReleased
<1>2. ASSUME IdsNext PROVE IdsInv'
  <2>0. err = "None"
    BY <1>2 DEF IdsNext
  <2>1. ASSUME NEW b \in BOOLEAN, new_scid(b) PROVE IdsInv'
    BY <2>0, <2>1, NewScidStep
  <2>2. CASE SendNewConnectionId
    BY <2>2, AdvertiseStep
  <2>3. ASSUME NEW s \in 1 .. next_scid_seq - 1, LoseNewConnectionId(s) PROVE IdsInv'
    BY <2>3, AdvertiseStep
  <2>4. ASSUME NEW f \in retires, retire_scid(f) PROVE IdsInv'
    BY <2>0, <2>4, RetireScidStep
  <2>5. ASSUME NEW f \in ncids, RecvNewConnectionId(f) PROVE IdsInv'
    BY <2>0, <2>5, RecvNewStep
  <2>6. ASSUME NEW p \in DOMAIN routes, NEW s \in retire_dcid_seqs, SendRetireConnectionId(p, s)
        PROVE  IdsInv'
    BY <2>0, <2>6, SendRetireStep
  <2>7. ASSUME NEW s \in told, LoseRetireConnectionId(s) PROVE IdsInv'
    BY <2>7, LoseRetireStep
  <2>8. ASSUME NEW s \in Seqs(dcids), retire_dcid(s) PROVE IdsInv'
    BY <2>8, RetireDcidStep
  <2>9. CASE create_path_on_client
    BY <2>9, CreatePathStep
  <2>10. ASSUME NEW p \in DOMAIN routes, migrate(p) PROVE IdsInv'
    BY <2>10, MigrateStep
  <2>11. CASE FindCandidate
    BY <2>11, FindCandidateStep
  <2> QED
    BY <1>2, <2>1, <2>2, <2>3, <2>4, <2>5, <2>6, <2>7, <2>8, <2>9, <2>10, <2>11 DEF IdsNext
<1> QED
  BY <1>1, <1>2

\* The invariant holds in every state.
THEOREM IdsInvariance == IdsSpec => []IdsInv
BY IdsInitInv, IdsNextInv, PTL DEF IdsSpec

\* The types of both ends: in particular no path number and no sequence number leaves
\* its range.
THEOREM IdsTypeCorrect == IdsSpec => []IdsTypeOK
<1>1. IdsInv => IdsTypeOK
  BY DEF IdsInv
<1> QED
  BY <1>1, IdsInvariance, PTL

\* new_scid, retire_scid, new_dcid and retire_dcid keep the tables within their bounds and
\* non-empty, and never hand out more ids than the peer allows.
THEOREM TablesBoundedHolds == IdsSpec => []TablesBounded
<1>1. IdsInv => TablesBounded
  BY DEF IdsInv
<1> QED
  BY <1>1, IdsInvariance, PTL

\* Whatever is switched, retired, migrated or dropped, a path and the entry of its id name
\* each other.
THEOREM PathsLinkedHolds == IdsSpec => []PathsLinked
<1>1. IdsInv => PathsLinked
  BY DEF IdsInv
<1> QED
  BY <1>1, IdsInvariance, PTL

\* An id the user has dropped is released by the issuer, or a frame that does so is to be
\* sent or on its way, with any amount of loss.
THEOREM DroppedIsReleasedHolds == IdsSpec => []DroppedIsReleased
<1>1. IdsInv => DroppedIsReleased
  BY DEF IdsInv
<1> QED
  BY <1>1, IdsInvariance, PTL
=============================================================================
