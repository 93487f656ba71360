------------------------------- MODULE Paths -------------------------------
(***************************************************************************)
(* The network paths of one connection (path.rs, and the parts of lib.rs   *)
(* that drive them): validation with PATH_CHALLENGE and PATH_RESPONSE, the *)
(* limit on what a server sends to an address it has not verified, the     *)
(* migration of the peer, the choice of the path a packet leaves on, and   *)
(* the end of the connection (close, draining, idle timer, no path left).  *)
(*                                                                         *)
(* One endpoint is modelled, as a server or as a client; its peer and the  *)
(* network are the receive actions: any answer may come late or never.     *)
(* Challenge data is random in the code, so a challenge is known by its    *)
(* place in in_flight_challenges.  Of loss recovery a path keeps one bit,  *)
(* whether its timer is armed; Recovery.tla has the rest.  Connection ids  *)
(* are one bit too, whether the path has one to send with (ConnIds.tla).   *)
(***************************************************************************)
EXTENDS Integers, Sequences, FiniteSets, SequencesExt, FiniteSetsExt

CONSTANTS
    Roles,                    \* the values of is_server to explore
    Pids,                     \* slots of the path slab, max_concurrent_paths of them
    MIN_CLIENT_INITIAL_LEN,   \* the size a path must carry
    MIN_PROBING_SIZE,         \* a PATH_CHALLENGE and the AEAD tag
    ProbeLen,                 \* the least packet that carries a PATH_CHALLENGE, header included
    MAX_PROBING_TIMEOUTS,     \* lost probes before a validation fails
    MaxAmplification,         \* max_amplification_factor
    MaxQueue,                 \* path_challenge_recv_max_queue_len
    Lens,                     \* sizes of received datagrams
    MaxReceived,              \* bound: bytes received from an unverified address
    MaxFlight                 \* bound: challenges the application puts in flight

ASSUME PathsAssumption ==
    /\ Roles \subseteq BOOLEAN
    /\ Pids \subseteq Nat /\ 0 \in Pids /\ IsFiniteSet(Pids)
    /\ {MIN_CLIENT_INITIAL_LEN, MIN_PROBING_SIZE, ProbeLen, MAX_PROBING_TIMEOUTS,
        MaxAmplification, MaxQueue, MaxReceived, MaxFlight} \subseteq Nat
    /\ Lens \subseteq Nat
    /\ MIN_PROBING_SIZE < ProbeLen /\ ProbeLen <= MIN_CLIENT_INITIAL_LEN

VARIABLES
    is_server,
    phase,         \* "new": nothing received yet; "handshake"; "established"
    paths,         \* the slab of paths, a function on the slots in use
    local_error,   \* close() was called
    draining,      \* draining_timer is set
    closed,
    reported,      \* the path the application believes the connection uses
    split          \* history: two paths were active at the same time

vars == <<is_server, phase, paths, local_error, draining, closed, reported, split>>

-----------------------------------------------------------------------------
(* PathState, in the order of the enumeration. *)

Failed == 0
Unknown == 1
Validating == 2
ValidatingMTU == 3
Validated == 4

None == -1

(* Path::new.  armed: the loss detection timer of the path; sent and received:
   the bytes exchanged with an address that is not verified. *)
NewPath(is_initial) ==
    [state |-> IF is_initial THEN Validated ELSE Unknown,
     active |-> FALSE, dcid |-> is_initial,
     flight |-> <<>>, max_size |-> 0, probing_lost |-> 0, lost_before |-> FALSE,
     challenges |-> 0, max_send |-> 0, verified |-> FALSE,
     requested |-> FALSE, migrating |-> FALSE,
     armed |-> FALSE, sent |-> 0, received |-> 0]

(* Path::active: the flag alone does not make a path the active one. *)
IsActive(path) == path.active /\ path.state > Failed /\ path.dcid

usable(path) == IsActive(path) \/ (path.state = Validated /\ path.dcid)

under_validation(path) == path.state \in {Validating, ValidatingMTU}

probing_required(path) == path.challenges > 0 \/ path.requested

promote_to(path, state) ==
    IF path.state < state THEN [path EXCEPT !.state = state] ELSE path

(* PathMap::get_active_path_id: the first active path of the slab. *)
ActivePaths(ps) == {p \in DOMAIN ps : IsActive(ps[p])}

NoActive(ps) == ActivePaths(ps) = {}

get_active_path_id(ps) == Min(ActivePaths(ps))

-----------------------------------------------------------------------------
(* Path validation. *)

(* Path::add_challenge_sent. *)
add_challenge_sent(path, size) ==
    [promote_to(path, Validating) EXCEPT !.requested = FALSE,
                                         !.flight = Append(@, size)]

(* Path::on_challenge_received: a full queue drops the challenge. *)
on_challenge_received(path) ==
    [path EXCEPT !.challenges = IF @ = MaxQueue THEN @ ELSE @ + 1]

(* The address is verified: what was exchanged before no longer matters. *)
Verify(path) == [path EXCEPT !.verified = TRUE, !.sent = 0, !.received = 0]

\* Mutant: a probe that was too small is not followed by another one.
on_response_received_once(path, i) ==
    LET size == IF path.max_size > path.flight[i] THEN path.max_size ELSE path.flight[i]
        answered == [Verify(promote_to(path, ValidatingMTU)) EXCEPT
                       !.probing_lost = 0,
                       !.flight = RemoveAt(@, i), !.max_size = size]
    IN  IF answered.state = ValidatingMTU /\ size >= MIN_CLIENT_INITIAL_LEN
        THEN [answered EXCEPT !.state = Validated] ELSE answered

(* Path::on_response_received, for the i-th challenge in flight. *)
on_response_received(path, i) ==
    LET size == IF path.max_size > path.flight[i] THEN path.max_size ELSE path.flight[i]
        answered == [Verify(promote_to(path, ValidatingMTU)) EXCEPT
                       !.probing_lost = 0,
                       !.flight = RemoveAt(@, i), !.max_size = size]
    IN  IF answered.state # ValidatingMTU THEN answered
        ELSE IF size >= MIN_CLIENT_INITIAL_LEN THEN [answered EXCEPT !.state = Validated]
        ELSE [answered EXCEPT !.requested = TRUE]

(* Path::on_loss_detection_timeout: every challenge in flight was sent before
   now and is given up; spaced: one RTT passed since the last one that counted. *)
on_loss_detection_timeout(path, spaced) ==
    LET counts == spaced \/ ~path.lost_before
        lost == Min({MAX_PROBING_TIMEOUTS, path.probing_lost + (IF counts THEN 1 ELSE 0)})
        given_up == [path EXCEPT !.flight = <<>>, !.probing_lost = lost,
                                 !.lost_before = TRUE]
        hopeless == \/ lost >= MAX_PROBING_TIMEOUTS
                    \/ is_server /\ path.max_send < MIN_PROBING_SIZE
    IN  IF path.flight = <<>> THEN path
        ELSE IF hopeless THEN [given_up EXCEPT !.state = Failed, !.active = FALSE]
        ELSE [given_up EXCEPT !.requested = TRUE]

\* Mutant: the deferred notification is forgotten.
set_active_path_quiet(ps, p) ==
    LET off == [q \in DOMAIN ps |->
                  [ps[q] EXCEPT !.active = @ /\ ~(~NoActive(ps) /\ q = get_active_path_id(ps))]]
        on == [off EXCEPT ![p].active = TRUE]
    IN  IF is_server /\ ps[p].state # Validated
        THEN [on EXCEPT ![p].requested = @ \/ ~under_validation(ps[p])]
        ELSE on

(* PathMap::set_active_path, and what it tells the application. *)
set_active_path(ps, p) ==
    LET off == [q \in DOMAIN ps |->
                  [ps[q] EXCEPT !.active = @ /\ ~(~NoActive(ps) /\ q = get_active_path_id(ps))]]
        on == [off EXCEPT ![p].active = TRUE]
    IN  IF is_server /\ ps[p].state # Validated
        THEN [on EXCEPT ![p].migrating = TRUE,
                        ![p].requested = @ \/ ~under_validation(ps[p])]
        ELSE on

(* Two active paths, which a path that fails or lacks an id while its flag is set
   may lead to, are remembered. *)
Split == split' = (split \/ Cardinality(ActivePaths(paths')) > 1)

ReportedAfter(ps, p, before) ==
    IF is_server /\ ps[p].state = Validated THEN p ELSE before

(* PathMap::make_room_for_new_path and insert_path: the slots a path may take. *)
unused(path) == ~IsActive(path) /\ ~path.dcid

Room == IF DOMAIN paths # Pids THEN {Min(Pids \ DOMAIN paths)}
        ELSE LET idle == {p \in Pids : unused(paths[p])}
             IN  IF idle = {} THEN {} ELSE {Min(idle)}

(* The slot is filled, or its path replaced. *)
insert_path(p, path) == [q \in DOMAIN paths \cup {p} |-> IF q = p THEN path ELSE paths[q]]

Forget(p) == IF p \in DOMAIN paths /\ reported = p THEN None ELSE reported

-----------------------------------------------------------------------------
(* Receiving. *)

Open == ~local_error /\ ~draining /\ ~closed

Limited(path) == is_server /\ ~path.verified

(* Connection::recv: the credit of an unverified address grows first, whatever
   the datagram holds. *)
Credit(path, len) ==
    IF Limited(path)
    THEN [path EXCEPT !.max_send = @ + len * MaxAmplification, !.received = @ + len]
    ELSE path

Credited(p, len) == [paths EXCEPT ![p] = Credit(@, len)]

(* The size of a datagram matters only to an unverified address. *)
InBound(p, len) == IF Limited(paths[p]) THEN paths[p].received + len <= MaxReceived
                   ELSE len = Min(Lens)

(* Destination ids for the paths that lack one, if there are spare ones. *)
MaySpare(ps) == IF \A p \in DOMAIN ps : ps[p].dcid THEN {FALSE} ELSE BOOLEAN

AllocateDcids(ps, spare) ==
    [p \in DOMAIN ps |-> [ps[p] EXCEPT !.dcid = @ \/ spare]]

(* The end of recv_single for a packet with a non-probing frame: did the peer
   migrate?  newest: no non-probing packet had a larger number. *)
NonProbing(ps, known, p, newest, spare) ==
    LET given == AllocateDcids(ps, spare)
    IN  IF NoActive(given)
        THEN /\ paths' = given /\ local_error' = TRUE /\ reported' = known
        ELSE /\ LET old == get_active_path_id(given)
                    moved == set_active_path(given, p)
                IN  IF is_server /\ p # old /\ newest
                    THEN /\ \E reuse \in BOOLEAN :
                               paths' = [moved EXCEPT ![p].dcid = @ \/ reuse]
                         /\ reported' = ReportedAfter(given, p, known)
                    ELSE paths' = given /\ reported' = known
             /\ UNCHANGED local_error

(* A packet whose frames are not probing ones; it may acknowledge all that the
   paths of acked have in flight. *)
OnData(ps, known, p, newest, acked, spare) ==
    /\ NonProbing([q \in DOMAIN ps |-> [ps[q] EXCEPT !.armed = @ /\ q \notin acked]],
                  known, p, newest, spare)
    /\ Split
    /\ UNCHANGED <<is_server, phase, draining, closed>>

(* PATH_CHALLENGE, in a probing packet. *)
OnChallenge(ps, known, p, spare) ==
    /\ paths' = AllocateDcids([ps EXCEPT ![p] = on_challenge_received(@)], spare)
    /\ reported' = known
    /\ Split
    /\ UNCHANGED <<is_server, phase, local_error, draining, closed>>

(* PathMap::on_response_received, on whatever path the frame arrives. *)
OnResponse(ps, q, i, spare) ==
    /\ IF NoActive(ps)
       THEN paths' = ps /\ local_error' = TRUE /\ UNCHANGED reported
       ELSE LET after == on_response_received(ps[q], i)
                done == after.state = Validated /\ ps[q].state # Validated
            IN  /\ paths' = AllocateDcids(
                       [ps EXCEPT ![q] = [after EXCEPT !.migrating = @ /\ ~done]], spare)
                /\ reported' = IF done /\ q = get_active_path_id(ps) /\ ps[q].migrating
                               THEN q ELSE reported
                /\ UNCHANGED local_error
    /\ Split
    /\ UNCHANGED <<is_server, phase, draining, closed>>

(* get_or_create_recv_path_id, for a packet from a new address. *)
CreatePath(p, len) ==
    insert_path(p, [NewPath(FALSE) EXCEPT !.max_send = len * MaxAmplification,
                                          !.received = len, !.requested = TRUE])

RecvData(p, len, newest, acked, spare) ==
    /\ phase = "established" /\ Open /\ InBound(p, len)
    /\ OnData(Credited(p, len), reported, p, newest, acked, spare)

RecvChallenge(p, len, spare) ==
    /\ phase = "established" /\ Open /\ InBound(p, len)
    /\ OnChallenge(Credited(p, len), reported, p, spare)

RecvResponse(p, len, q, i, spare) ==
    /\ phase = "established" /\ Open /\ InBound(p, len)
    /\ i \in DOMAIN paths[q].flight
    /\ OnResponse(Credited(p, len), q, i, spare)

RecvDataNew(len, newest, acked, spare) ==
    /\ phase = "established" /\ Open /\ is_server /\ len <= MaxReceived
    /\ \E p \in Room : OnData(CreatePath(p, len), Forget(p), p, newest, acked, spare)

RecvChallengeNew(len, spare) ==
    /\ phase = "established" /\ Open /\ is_server /\ len <= MaxReceived
    /\ \E p \in Room : OnChallenge(CreatePath(p, len), Forget(p), p, spare)

(* CONNECTION_CLOSE: the peer is gone. *)
RecvClose(p, len) ==
    /\ phase # "new" /\ Open /\ InBound(p, len)
    /\ paths' = Credited(p, len)
    /\ IF NoActive(paths) THEN local_error' = TRUE /\ UNCHANGED draining
       ELSE draining' = TRUE /\ UNCHANGED local_error
    /\ UNCHANGED <<is_server, phase, closed, reported, split>>

(* A closing connection only counts what arrives; a draining one may as well, but
   sends nothing any more. *)
RecvIgnored(p, len) ==
    /\ local_error /\ ~draining /\ ~closed /\ InBound(p, len)
    /\ paths' = Credited(p, len)
    /\ UNCHANGED <<is_server, phase, local_error, draining, closed, reported, split>>

(* During the handshake there is one path.  A Handshake packet verifies the
   address of a client; junk ends a server that has received nothing else. *)
RecvLong(len, ty) ==
    /\ phase # "established" /\ Open /\ InBound(0, len)
    /\ ty = "handshake" => phase = "handshake"
    /\ paths' = [Credited(0, len) EXCEPT
                   ![0] = IF is_server /\ ty = "handshake" THEN Verify(@) ELSE @]
    /\ phase' = CASE ty = "initial" -> "handshake"
                  [] ty = "handshake" -> "established"
                  [] OTHER -> phase
    /\ LET abort == ty = "junk" /\ is_server /\ phase = "new"
       IN local_error' = abort /\ closed' = abort
    /\ UNCHANGED <<is_server, draining, reported, split>>

-----------------------------------------------------------------------------
(* Sending. *)

(* send_on_path: the room in the next datagram. *)
Left(path) ==
    IF Limited(path) THEN Min({MIN_CLIENT_INITIAL_LEN, path.max_send})
    ELSE MIN_CLIENT_INITIAL_LEN

\* Mutant: the credit that is left is not reduced by a packet that uses all of it.
Charge_rest(path, written, total) ==
    [path EXCEPT !.max_send = IF @ > written THEN @ - written ELSE @,
                 !.sent = IF Limited(path) THEN @ + total ELSE @,
                 !.armed = TRUE]

(* What a packet costs. *)
Charge(path, written, total) ==
    [path EXCEPT !.max_send = IF @ > written THEN @ - written ELSE 0,
                 !.sent = IF Limited(path) THEN @ + total ELSE @,
                 !.armed = TRUE]

(* The frame that announces the local error goes on the active path, or on the
   only one there is. *)
Announces(p) == local_error /\ (IsActive(paths[p]) \/ Cardinality(DOMAIN paths) = 1)

(* send_single of a 1-RTT packet: probing frames on any path, the rest on the
   active one; a packet to a path that is not validated is padded. *)
Send(p) ==
    LET path == paths[p]
        left == Left(path)
        written == IF path.state = Validated THEN ProbeLen ELSE left
        probed == IF path.requested THEN add_challenge_sent(path, written) ELSE path
    IN  /\ phase = "established" /\ ~draining /\ ~closed
        /\ path.dcid /\ ~NoActive(paths) /\ left >= ProbeLen
        /\ probing_required(path) \/ Announces(p) \/ (IsActive(path) /\ ~local_error)
        /\ paths' = [paths EXCEPT ![p] = Charge([probed EXCEPT !.challenges = 0],
                                                written, written)]
        /\ draining' = Announces(p)
        /\ Split
        /\ UNCHANGED <<is_server, phase, local_error, closed, reported>>

(* A datagram with an Initial packet is padded after send_single, which has
   charged only what it wrote. *)
SendLong(written) ==
    LET left == Left(paths[0])
    IN  /\ phase = "handshake" \/ (phase = "new" /\ ~is_server)
        /\ ~draining /\ ~closed /\ left >= ProbeLen /\ written \in {ProbeLen, left}
        /\ paths' = [paths EXCEPT ![0] = Charge(@, written, left)]
        /\ draining' = local_error
        /\ UNCHANGED <<is_server, phase, local_error, closed, reported, split>>

-----------------------------------------------------------------------------
(* Timers. *)

(* Connection::on_timeout, when the timers of the paths of expired fire. *)
OnTimeout(expired, spaced) ==
    LET lost == [p \in DOMAIN paths |->
                   IF p \in expired THEN on_loss_detection_timeout(paths[p], spaced)
                   ELSE paths[p]]
        candidates == {p \in DOMAIN lost : usable(lost[p])}
    IN  /\ ~draining /\ ~closed
        /\ expired # {} /\ \A p \in expired : paths[p].armed
        /\ IF ~NoActive(lost)
           THEN paths' = lost /\ UNCHANGED <<closed, reported>>
           ELSE IF candidates = {}
                THEN paths' = lost /\ closed' = TRUE /\ UNCHANGED reported
                ELSE /\ paths' = set_active_path(lost, Min(candidates))
                     /\ reported' = ReportedAfter(lost, Min(candidates), reported)
                     /\ UNCHANGED closed
        /\ UNCHANGED <<is_server, phase, local_error, draining, split>>

DrainingTimeout ==
    /\ draining /\ ~closed /\ closed' = TRUE
    /\ UNCHANGED <<is_server, phase, paths, local_error, draining, reported, split>>

IdleTimeout ==
    /\ ~draining /\ ~closed /\ closed' = TRUE
    /\ UNCHANGED <<is_server, phase, paths, local_error, draining, reported, split>>

-----------------------------------------------------------------------------
(* The application. *)

(* Connection::probe_path, of a path that exists. *)
ProbePath(p) ==
    /\ ~closed /\ Len(paths[p].flight) < MaxFlight
    /\ paths' = [paths EXCEPT ![p].requested = TRUE]
    /\ UNCHANGED <<is_server, phase, local_error, draining, closed, reported, split>>

(* create_path_on_client, for probe_path or migrate; there are ids to spare. *)
ClientPath(p) == insert_path(p, [NewPath(FALSE) EXCEPT !.dcid = TRUE])

ProbeNewPath ==
    /\ ~is_server /\ phase = "established" /\ ~closed
    /\ \E p \in Room : paths' = [ClientPath(p) EXCEPT ![p].requested = TRUE]
    /\ UNCHANGED <<is_server, phase, local_error, draining, closed, reported, split>>

(* Connection::migrate, to a path that exists or to a new one. *)
Migrate(p) ==
    /\ ~is_server /\ phase = "established" /\ ~closed
    /\ IF p \in DOMAIN paths
       THEN ~IsActive(paths[p]) /\ paths' = set_active_path([paths EXCEPT ![p].dcid = TRUE], p)
       ELSE p \in Room /\ paths' = set_active_path(ClientPath(p), p)
    /\ Split
    /\ UNCHANGED <<is_server, phase, local_error, draining, closed, reported>>

(* Connection::close, of a connection that has received a packet or has not. *)
Close ==
    /\ Open /\ local_error' = TRUE /\ closed' = (phase = "new")
    /\ UNCHANGED <<is_server, phase, paths, draining, reported, split>>

-----------------------------------------------------------------------------
(* Connection::with_tls: verified if the client came back from a Retry. *)
Init ==
    /\ is_server \in Roles
    /\ phase = "new"
    /\ \E retried \in BOOLEAN :
          paths = [p \in {0} |-> [NewPath(TRUE) EXCEPT !.active = TRUE,
                                                        !.verified = is_server /\ retried]]
    /\ local_error = FALSE /\ draining = FALSE /\ closed = FALSE
    /\ reported = 0 /\ split = FALSE

Acks == SUBSET {p \in DOMAIN paths : paths[p].armed}

Receive ==
    \/ \E p \in DOMAIN paths, len \in Lens :
          \/ \E newest \in BOOLEAN, spare \in MaySpare(paths), acked \in Acks :
                RecvData(p, len, newest, acked, spare)
          \/ \E spare \in MaySpare(paths) :
                \/ RecvChallenge(p, len, spare)
                \/ \E q \in DOMAIN paths : \E i \in DOMAIN paths[q].flight :
                      RecvResponse(p, len, q, i, spare)
          \/ RecvClose(p, len)
          \/ RecvIgnored(p, len)
    \/ \E len \in Lens, spare \in BOOLEAN :
          \/ \E newest \in BOOLEAN, acked \in Acks :
                RecvDataNew(len, newest, acked, spare)
          \/ RecvChallengeNew(len, spare)
    \/ \E len \in Lens, ty \in {"junk", "initial", "handshake"} : RecvLong(len, ty)

Next ==
    \/ Receive
    \/ \E p \in DOMAIN paths : Send(p) \/ ProbePath(p)
    \/ \E written \in ProbeLen..MIN_CLIENT_INITIAL_LEN : SendLong(written)
    \/ \E expired \in SUBSET DOMAIN paths, spaced \in BOOLEAN : OnTimeout(expired, spaced)
    \/ DrainingTimeout
    \/ IdleTimeout
    \/ ProbeNewPath
    \/ \E p \in Pids : Migrate(p)
    \/ Close

Spec == Init /\ [][Next]_vars

-----------------------------------------------------------------------------
PathType ==
    [state : Failed..Validated, active : BOOLEAN, dcid : BOOLEAN,
     flight : Seq(0..MIN_CLIENT_INITIAL_LEN), max_size : 0..MIN_CLIENT_INITIAL_LEN,
     probing_lost : 0..MAX_PROBING_TIMEOUTS, lost_before : BOOLEAN,
     challenges : 0..MaxQueue, max_send : Nat, verified : BOOLEAN,
     requested : BOOLEAN, migrating : BOOLEAN,
     armed : BOOLEAN, sent : Nat, received : Nat]

(* Every variable has its type: the queue of received challenges and the count
   of lost probes stay within their limits, and no path is without its slot. *)
TypeOK ==
    /\ is_server \in Roles
    /\ phase \in {"new", "handshake", "established"}
    /\ DOMAIN paths \subseteq Pids /\ \A p \in DOMAIN paths : paths[p] \in PathType
    /\ {local_error, draining, closed, split} \subseteq BOOLEAN
    /\ reported \in Pids \cup {None}

(* A validation never lies idle, and a server does not use a path that it neither has
   validated nor is validating: there is a challenge in flight, or one to be sent. *)
ValidationPursued ==
    \A p \in DOMAIN paths :
        LET path == paths[p]
        IN  under_validation(path) \/ (is_server /\ IsActive(path)) =>
                path.state = Validated \/ path.requested \/ path.flight # <<>>

(* A server sends to an address that it has not verified at most
   max_amplification_factor times what came from there (the path opened by
   the handshake apart, where padding is not charged). *)
AmplificationBound ==
    \A p \in DOMAIN paths \ {0} :
        Limited(paths[p]) => paths[p].sent <= MaxAmplification * paths[p].received

(* The application of a server knows which path carries the connection as soon as
   that path is validated: the last PeerMigrated event named it.  Excepted are
   connections on which two paths were active at once (split), where the active path
   is whichever comes first. *)
MigrationReported ==
    is_server /\ ~split /\ ~NoActive(paths) =>
        LET p == get_active_path_id(paths) IN paths[p].state = Validated => reported = p

=============================================================================
