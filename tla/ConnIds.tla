------------------------------- MODULE ConnIds -------------------------------
(***************************************************************************)
(* Connection ids in one direction (cid.rs and its callers in lib.rs): the   *)
(* issuer, which hands out source ids with NEW_CONNECTION_ID, and the user,   *)
(* which takes them as destination ids of its paths, switches and retires      *)
(* them and says so with RETIRE_CONNECTION_ID.  The other direction is the     *)
(* same.  Both endpoints are honest; the network may delay, reorder and lose;   *)
(* and a frame is sent again when its packet is, rightly or not, thought lost.  *)
(*                                                                         *)
(* An id is its sequence number.  Zero-length ids, with which none of this      *)
(* happens, are left out.  The user is a client: its application probes and     *)
(* migrates paths.  Validation of a path is not looked at: any path with a      *)
(* destination id may be used.  Nor does the issuer keep which of its ids each   *)
(* path was last reached at (active_scid_seq): nothing that is modelled reads it.  *)
(***************************************************************************)
EXTENDS Integers, Sequences, FiniteSets, FiniteSetsExt, SequencesExt

CONSTANTS
    Limit,       \* active_connection_id_limit of the user
    MaxSeq,      \* bound on the sequence numbers handed out
    MaxPaths,    \* max_concurrent_paths of the user
    MaxResends   \* bound on the frames sent again

RETIRED_CONN_ID_LIMIT_MULTIPLIER == 3
Unset == -1

ASSUME ConnIdsAssumption ==
    /\ Limit \in Nat /\ Limit >= 2 /\ MaxSeq \in Nat /\ MaxResends \in Nat
    /\ MaxPaths \in Nat \ {0}

VARIABLES
    \* the issuer
    scids,            \* set of sequence numbers
    next_scid_seq,
    retire_prior_to,
    advertise,        \* advertise_new_scid_seqs, a queue
    retired_scids,    \* those reported to the application
    \* the user
    dcids,            \* queue of [seq, pid], in the order of arrival
    retire_dcid_seqs, \* to be retired, not yet told
    largest_rpt,      \* largest_peer_retire_prior_to
    routes,           \* the existing paths: pid -> [dcid, active]
    \* the network
    ncids,            \* NEW_CONNECTION_ID frames in transit: [seq, rpt]
    retires,          \* RETIRE_CONNECTION_ID frames in transit: [seq, dcid]
    given_up, told,   \* history: ids the user has dropped, and told the issuer of
    err,              \* the error that closed the connection, or "None"
    resends

issuerVars == <<scids, next_scid_seq, retire_prior_to, advertise, retired_scids>>
userVars == <<dcids, retire_dcid_seqs, largest_rpt, routes, given_up, told>>
idsVars == <<issuerVars, userVars, ncids, retires, err, resends>>

IdsInit ==
    /\ scids = {0} /\ next_scid_seq = 1 /\ retire_prior_to = 0
    /\ advertise = <<>> /\ retired_scids = {}
    /\ dcids = <<[seq |-> 0, pid |-> 0]>> /\ retire_dcid_seqs = {} /\ largest_rpt = 0
    /\ routes = [p \in {0} |-> [dcid |-> 0, active |-> TRUE]]
    /\ ncids = {} /\ retires = {} /\ given_up = {} /\ told = {} /\ err = "None" /\ resends = 0

-----------------------------------------------------------------------------
(* The issuer.                                                               *)

usable_scids == {s \in scids : s >= retire_prior_to}

\* Mutant: the limit of the peer is not looked at.
new_scid_unlimited(retire_if_needed) ==
    /\ next_scid_seq <= MaxSeq /\ Cardinality(scids) < 2 * Limit - 1
    /\ scids' = scids \cup {next_scid_seq}
    /\ next_scid_seq' = next_scid_seq + 1
    /\ advertise' = Append(advertise, next_scid_seq)
    /\ UNCHANGED <<retire_prior_to, retired_scids, userVars, ncids, retires, err, resends>>

\* new_scid of a fresh id: at the limit of the peer the lowest id is to be retired, or
\* the call fails.  It also fails when the table is full, with retire_prior_to moved.
new_scid(retire_if_needed) ==
    /\ next_scid_seq <= MaxSeq
    /\ LET full == Cardinality(scids) >= Limit
       IN /\ full => retire_if_needed /\ usable_scids # {}
          /\ retire_prior_to' = IF full THEN Min(usable_scids) + 1 ELSE retire_prior_to
    /\ IF Cardinality(scids) >= 2 * Limit - 1
       THEN UNCHANGED <<scids, next_scid_seq, advertise>>
       ELSE /\ scids' = scids \cup {next_scid_seq}
            /\ next_scid_seq' = next_scid_seq + 1
            /\ advertise' = Append(advertise, next_scid_seq)
    /\ UNCHANGED <<retired_scids, userVars, ncids, retires, err, resends>>

\* send_single: the front of the queue is put on the wire with the present
\* retire_prior_to, or the call fails because the id is gone.
SendNewConnectionId ==
    /\ advertise # <<>>
    /\ IF Head(advertise) \in scids
       THEN /\ ncids' = ncids \cup {[seq |-> Head(advertise), rpt |-> retire_prior_to]}
            /\ advertise' = Tail(advertise) /\ UNCHANGED err
       ELSE err' = "send" /\ UNCHANGED <<ncids, advertise>>
    /\ UNCHANGED <<scids, next_scid_seq, retire_prior_to, retired_scids, userVars, retires, resends>>

\* A packet with NEW_CONNECTION_ID is declared lost, or probed for.
LoseNewConnectionId(s) ==
    /\ resends < MaxResends /\ resends' = resends + 1
    /\ advertise' = Append(advertise, s)
    /\ UNCHANGED <<scids, next_scid_seq, retire_prior_to, retired_scids, userVars, ncids, retires,
                   err>>

\* RETIRE_CONNECTION_ID, in a packet sent to the id f.dcid: to one that is gone, the packet
\* has no path and ends the connection.
retire_scid(f) ==
    LET left == scids \ {f.seq}
        usable == {s \in left : s >= retire_prior_to}
        fails == \/ f.dcid \notin scids
                 \/ f.seq >= next_scid_seq
                 \/ Cardinality(scids) <= 1
                 \/ f.seq \in scids /\ (f.seq = f.dcid \/ usable = {})
    IN /\ scids' = IF f.dcid \notin scids \/ Cardinality(scids) <= 1 THEN scids ELSE left
       /\ err' = IF fails THEN "retire_scid" ELSE err
       /\ IF f.seq \in scids /\ ~fails
          THEN /\ retired_scids' = retired_scids \cup {f.seq}
               /\ retire_prior_to' = Min(usable)
          ELSE UNCHANGED <<retired_scids, retire_prior_to>>
       /\ retires' = retires \ {f}
       /\ UNCHANGED <<next_scid_seq, advertise, userVars, ncids, resends>>

-----------------------------------------------------------------------------
(* The user: its table of destination ids and the paths that use them.       *)

Seqs(q) == {q[i].seq : i \in DOMAIN q}

\* Whether the set of the ids to be retired takes one more, a known one too.
MayRetire(seqs) == Cardinality(seqs) < RETIRED_CONN_ID_LIMIT_MULTIPLIER * Limit
Available(q) == {q[i].seq : i \in {j \in DOMAIN q : q[j].pid = Unset}}
link_dcid_to_path_id(q, s, p) ==
    [i \in DOMAIN q |-> IF q[i].seq = s THEN [q[i] EXCEPT !.pid = p] ELSE q[i]]

\* Whether Path::active() and Path::unused() hold; a path that failed is not looked at.
IsActiveRoute(ps, p) == ps[p].active /\ ps[p].dcid # Unset
unused_route(ps, p) == ~IsActiveRoute(ps, p) /\ ps[p].dcid = Unset

\* Mutant: the id that is given to the path stays free in the table.
GiveDcid_free(st, p) ==
    LET free == Available(st.dcids)
    IN [st EXCEPT !.routes[p].dcid = IF free = {} THEN Unset ELSE Min(free)]

\* What the path p has after it lost its id: the lowest one that is free, or none.
GiveDcid(st, p) ==
    LET free == Available(st.dcids)
    IN IF free = {} THEN [st EXCEPT !.routes[p].dcid = Unset]
       ELSE [dcids |-> link_dcid_to_path_id(st.dcids, Min(free), p),
             routes |-> [st.routes EXCEPT ![p].dcid = Min(free)]]

\* The caller of new_dcid: the path of a retired entry switches, if it still uses it.
Switch(st, e) ==
    IF e.pid \in DOMAIN st.routes /\ st.routes[e.pid].dcid = e.seq THEN GiveDcid(st, e.pid) ELSE st

\* It does so for the retired entries in their order.
SwitchAll(st, out) ==
    LET after[k \in 0 .. Len(out)] ==
          IF k = 0 THEN st ELSE Switch(after[k - 1], out[k])
    IN after[Len(out)]

\* The end of recv_single: every path without an id may get one, in the order of the paths.
Want(st, p) ==
    IF p \in DOMAIN st.routes /\ st.routes[p].dcid = Unset THEN GiveDcid(st, p) ELSE st

Allocate(st) ==
    LET after[k \in 0 .. MaxPaths] ==
          IF k = 0 THEN st ELSE Want(after[k - 1], k - 1)
    IN after[MaxPaths]

\* partition_point of a queue that need not be partitioned: any index where the
\* predicate `below rpt' turns from true to false may be the answer.
partition_points(q, rpt) ==
    {i \in 0 .. Len(q) : /\ i > 0 => q[i].seq < rpt
                         /\ i < Len(q) => q[i + 1].seq >= rpt}

\* Mutant: only the entries that a path uses are put down to be retired.
Adopt_linked(f, cut) ==
    LET out == SubSeq(dcids, 1, cut)
        rest == SubSeq(dcids, cut + 1, Len(dcids))
        ok == Len(rest) < Limit
        q == IF ok THEN Append(rest, [seq |-> f.seq, pid |-> Unset]) ELSE rest
        switched == SwitchAll([dcids |-> q, routes |-> routes], out)
        st == IF ok THEN Allocate(switched) ELSE switched
    IN /\ dcids' = st.dcids /\ routes' = st.routes
       /\ retire_dcid_seqs' = retire_dcid_seqs \cup {e.seq : e \in {x \in Range(out) : x.pid # Unset}}
       /\ given_up' = given_up \cup Seqs(out)
       /\ err' = IF ok THEN err ELSE "new_dcid"
       /\ UNCHANGED told

\* new_dcid of a new id, and its caller: the entries before `cut' are retired.
Adopt(f, cut) ==
    LET out == SubSeq(dcids, 1, cut)
        rest == SubSeq(dcids, cut + 1, Len(dcids))
        ok == /\ Len(rest) < Limit
              /\ \A k \in 1 .. cut : MayRetire(retire_dcid_seqs \cup Seqs(SubSeq(dcids, 1, k - 1)))
        q == IF Len(rest) < Limit THEN Append(rest, [seq |-> f.seq, pid |-> Unset]) ELSE rest
        switched == SwitchAll([dcids |-> q, routes |-> routes], out)
        st == IF ok THEN Allocate(switched) ELSE switched
    IN /\ dcids' = st.dcids /\ routes' = st.routes
       /\ retire_dcid_seqs' = retire_dcid_seqs \cup Seqs(out)
       /\ given_up' = given_up \cup Seqs(out)
       /\ err' = IF ok THEN err ELSE "new_dcid"
       /\ UNCHANGED told

RecvNewConnectionId(f) ==
    /\ CASE f.seq \in Seqs(dcids) -> UNCHANGED <<userVars, err>>
         [] f.seq \notin Seqs(dcids) /\ f.rpt > f.seq ->
              err' = "new_dcid" /\ UNCHANGED userVars
         [] f.seq \notin Seqs(dcids) /\ f.rpt <= f.seq /\ f.seq < largest_rpt ->
              /\ IF MayRetire(retire_dcid_seqs)
                 THEN /\ retire_dcid_seqs' = retire_dcid_seqs \cup {f.seq}
                      /\ given_up' = given_up \cup {f.seq} /\ UNCHANGED err
                 ELSE err' = "new_dcid" /\ UNCHANGED <<retire_dcid_seqs, given_up>>
              /\ UNCHANGED <<dcids, largest_rpt, routes, told>>
         [] OTHER ->
              /\ largest_rpt' = Max({largest_rpt, f.rpt})
              /\ \E cut \in IF f.rpt > largest_rpt THEN partition_points(dcids, f.rpt) ELSE {0} :
                   Adopt(f, cut)
    /\ ncids' = ncids \ {f}
    /\ UNCHANGED <<issuerVars, retires, resends>>

\* send_single, on a path with an id: any retired one is told, but not in a packet that
\* is sent to it.  (With none other to tell, the loop of the code does not end.)
SendRetireConnectionId(p, s) ==
    /\ routes[p].dcid \in Seqs(dcids) /\ s # routes[p].dcid
    /\ retires' = retires \cup {[seq |-> s, dcid |-> routes[p].dcid]}
    /\ retire_dcid_seqs' = retire_dcid_seqs \ {s} /\ told' = told \cup {s}
    /\ UNCHANGED <<issuerVars, dcids, largest_rpt, routes, given_up, ncids, err, resends>>

\* A packet with RETIRE_CONNECTION_ID is declared lost, or probed for.
LoseRetireConnectionId(s) ==
    /\ resends < MaxResends /\ resends' = resends + 1
    /\ MayRetire(retire_dcid_seqs)
    /\ retire_dcid_seqs' = retire_dcid_seqs \cup {s}
    /\ UNCHANGED <<issuerVars, dcids, largest_rpt, routes, given_up, told, ncids, retires, err>>

\* Connection::retire_dcid, called by the application.
retire_dcid(s) ==
    LET i == CHOOSE j \in DOMAIN dcids : dcids[j].seq = s
        q == RemoveAt(dcids, i)
        pid == dcids[i].pid
        st == IF pid = Unset THEN [dcids |-> q, routes |-> routes]
              ELSE GiveDcid([dcids |-> q, routes |-> routes], pid)
        others == {p \in DOMAIN routes : ~IsActiveRoute(routes, p) /\ routes[p].dcid # Unset}
    IN /\ \E p \in DOMAIN routes : IsActiveRoute(routes, p) /\
            (routes[p].dcid = s => Available(dcids) # {} \/ others # {})
       /\ Len(dcids) > 1
       /\ MayRetire(retire_dcid_seqs)
       /\ dcids' = st.dcids /\ routes' = st.routes
       /\ retire_dcid_seqs' = retire_dcid_seqs \cup {s} /\ given_up' = given_up \cup {s}
       /\ UNCHANGED <<issuerVars, largest_rpt, told, ncids, retires, err, resends>>

\* probe_path of a new 4-tuple: create_path_on_client, which makes room if it must.
create_path_on_client ==
    LET room == IF Cardinality(DOMAIN routes) < MaxPaths THEN DOMAIN routes
                ELSE DOMAIN routes \ {Min({p \in DOMAIN routes : unused_route(routes, p)})}
        pid == Min((0 .. MaxPaths - 1) \ room)
    IN /\ Available(dcids) # {}
       /\ Cardinality(DOMAIN routes) < MaxPaths \/ \E p \in DOMAIN routes : unused_route(routes, p)
       /\ LET s == Min(Available(dcids))
          IN /\ routes' = [p \in room \cup {pid} |->
                            IF p = pid THEN [dcid |-> s, active |-> FALSE] ELSE routes[p]]
             /\ dcids' = link_dcid_to_path_id(dcids, s, pid)
       /\ UNCHANGED <<issuerVars, retire_dcid_seqs, largest_rpt, given_up, told, ncids, retires, err,
                      resends>>

\* set_active_path: the first path that is active now is not any more.
SetActive(ps, p) ==
    LET old == {o \in DOMAIN ps : IsActiveRoute(ps, o)}
    IN [o \in DOMAIN ps |->
          [ps[o] EXCEPT !.active = IF o = p THEN TRUE
                                   ELSE IF old # {} /\ o = Min(old) THEN FALSE ELSE @]]

\* migrate to a path that exists and has an id, or is given one.
migrate(p) ==
    /\ ~IsActiveRoute(routes, p)
    /\ routes[p].dcid # Unset \/ Available(dcids) # {}
    /\ LET st == IF routes[p].dcid # Unset THEN [dcids |-> dcids, routes |-> routes]
                 ELSE GiveDcid([dcids |-> dcids, routes |-> routes], p)
       IN dcids' = st.dcids /\ routes' = SetActive(st.routes, p)
    /\ UNCHANGED <<issuerVars, retire_dcid_seqs, largest_rpt, given_up, told, ncids, retires, err, resends>>

\* on_timeout when the active path has lost its id: another one takes over, if any can.
FindCandidate ==
    /\ \A p \in DOMAIN routes : ~IsActiveRoute(routes, p)
    /\ LET usable == {p \in DOMAIN routes : routes[p].dcid # Unset}
       IN IF usable = {} THEN err' = "no_path" /\ UNCHANGED routes
          ELSE routes' = SetActive(routes, Min(usable)) /\ UNCHANGED err
    /\ UNCHANGED <<issuerVars, dcids, retire_dcid_seqs, largest_rpt, given_up, told, ncids, retires,
                   resends>>

-----------------------------------------------------------------------------
IdsNext ==
    /\ err = "None"
    /\ \/ \E b \in BOOLEAN : new_scid(b)
       \/ SendNewConnectionId
       \/ \E s \in 1 .. next_scid_seq - 1 : s \notin Range(advertise) /\ LoseNewConnectionId(s)
       \/ \E f \in retires : retire_scid(f)
       \/ \E f \in ncids : RecvNewConnectionId(f)
       \/ \E p \in DOMAIN routes, s \in retire_dcid_seqs : SendRetireConnectionId(p, s)
       \/ \E s \in told : LoseRetireConnectionId(s)
       \/ \E s \in Seqs(dcids) : retire_dcid(s)
       \/ create_path_on_client
       \/ \E p \in DOMAIN routes : migrate(p)
       \/ FindCandidate

IdsSpec == IdsInit /\ [][IdsNext]_idsVars

-----------------------------------------------------------------------------
\* Type invariant of the issuer and of the user.
IdsTypeOK ==
    /\ scids \subseteq 0 .. MaxSeq /\ next_scid_seq \in 1 .. MaxSeq + 1
    /\ retire_prior_to \in 0 .. MaxSeq + 1 /\ advertise \in Seq(0 .. MaxSeq)
    /\ retired_scids \subseteq 0 .. MaxSeq
    /\ dcids \in Seq([seq : 0 .. MaxSeq, pid : {Unset} \cup (0 .. MaxPaths - 1)])
    /\ retire_dcid_seqs \subseteq 0 .. MaxSeq /\ largest_rpt \in 0 .. MaxSeq + 1
    /\ DOMAIN routes \subseteq 0 .. MaxPaths - 1
    /\ \A p \in DOMAIN routes : routes[p] \in [dcid : {Unset} \cup (0 .. MaxSeq), active : BOOLEAN]
    /\ ncids \subseteq [seq : 0 .. MaxSeq, rpt : 0 .. MaxSeq + 1]
    /\ retires \subseteq [seq : 0 .. MaxSeq, dcid : 0 .. MaxSeq]
    /\ given_up \subseteq 0 .. MaxSeq /\ told \subseteq 0 .. MaxSeq /\ resends \in 0 .. MaxResends

\* The tables stay within their bounds and are never empty, so that oldest_scid and
\* oldest_dcid find an entry; and of the ids the issuer has handed out and not asked back
\* there are never more than the peer allows.
TablesBounded ==
    /\ scids # {} /\ Cardinality(scids) <= 2 * Limit - 1
    /\ Cardinality(usable_scids) <= Limit
    /\ dcids # <<>> /\ Len(dcids) <= Limit
    /\ \A i, j \in DOMAIN dcids : dcids[i].seq = dcids[j].seq => i = j

\* A path and the entry of its id name each other: no two paths share an id, none sends to
\* an id that is gone, and no entry stays taken by a path that has left it.
PathsLinked ==
    /\ \A p \in DOMAIN routes : routes[p].dcid # Unset =>
         \E i \in DOMAIN dcids : dcids[i].seq = routes[p].dcid /\ dcids[i].pid = p
    /\ \A i \in DOMAIN dcids : dcids[i].pid # Unset =>
         dcids[i].pid \in DOMAIN routes /\ routes[dcids[i].pid].dcid = dcids[i].seq

\* An id the user has dropped is kept by the issuer only as long as a frame that retires it
\* waits to be sent or is in transit: none is left behind, whatever was sent again.
DroppedIsReleased ==
    err = "None" =>
        \A s \in given_up \cap scids : s \in retire_dcid_seqs \/ \E f \in retires : f.seq = s

\* Retired connection ids are not in use any more (the comment of the NEW_CONNECTION_ID
\* handler): no path sends to an id that it is about to retire.
RetiredNotInUse == \A p \in DOMAIN routes : routes[p].dcid \notin retire_dcid_seqs
=============================================================================
