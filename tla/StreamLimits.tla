----------------------------- MODULE StreamLimits -----------------------------
(***************************************************************************)
(* Stream-count credit between the endpoint that opens streams and the one *)
(* that accepts them: StreamMap's limits and counts, MAX_STREAMS frames    *)
(* that are lost and reordered, and frames of streams that arrive in any   *)
(* order, also after the stream was collected.  The two directions and the *)
(* two kinds of streams (bidi, uni) work alike and do not interact: one of *)
(* each is modelled.  A stream is named by its sequence number (id >> 2).  *)
(***************************************************************************)
EXTENDS Integers, FiniteSets

CONSTANTS
    InitMaxStreams,  \* initial_max_streams_*
    StreamCount,     \* bound on the streams that are ever opened
    MaxLimitLosses   \* bound on the MAX_STREAMS frames that are lost

ASSUME LimitsAssumption ==
    InitMaxStreams \in Nat /\ StreamCount \in Nat /\ MaxLimitLosses \in Nat

VARIABLES
    \* accepting endpoint
    local_max_streams, local_max_streams_next, peer_opened_streams, streams, collected,
    \* opening endpoint
    peer_max_streams, local_opened_streams, opened,
    \* MAX_STREAMS frames in transit, the losses so far, the error of the connection
    frames, limit_losses, limit_error

acceptVars == <<local_max_streams, local_max_streams_next, peer_opened_streams, streams,
                collected>>
openVars == <<peer_max_streams, local_opened_streams, opened>>
limitVars == <<acceptVars, openVars, frames, limit_losses, limit_error>>

Larger(a, b) == IF a >= b THEN a ELSE b

LimitInit ==
    /\ local_max_streams = InitMaxStreams
    /\ local_max_streams_next = InitMaxStreams
    /\ peer_opened_streams = 0
    /\ streams = {} /\ collected = {}
    /\ peer_max_streams = InitMaxStreams
    /\ local_opened_streams = 0
    /\ opened = {}
    /\ frames = {} /\ limit_losses = 0 /\ limit_error = "None"

\* Mutant: no update unless half of the streams are left.
should_update_max_streams_late ==
    /\ local_max_streams_next # local_max_streams
    /\ local_max_streams_next \div 2 < local_max_streams - peer_opened_streams

\* should_update_max_streams_*.  The unsigned subtraction cannot wrap: OpenedWithinLimits.
should_update_max_streams ==
    /\ local_max_streams_next # local_max_streams
    /\ local_max_streams_next \div 2 > local_max_streams - peer_opened_streams

-----------------------------------------------------------------------------
\* get_or_create for a stream the local application opens; the application is
\* free to leave sequence numbers out.  A refused one changes nothing.
Open(id) ==
    LET n == Larger(local_opened_streams, id + 1)
    IN  /\ id \notin opened
        /\ n <= peer_max_streams
        /\ local_opened_streams' = n
        /\ opened' = opened \cup {id}
        /\ UNCHANGED <<acceptVars, peer_max_streams, frames, limit_losses, limit_error>>

\* get_or_create for a frame of a stream the peer opened; frames of a collected
\* stream are ignored.
Accept(id) ==
    LET n == Larger(peer_opened_streams, id + 1)
    IN  /\ id \in opened
        /\ id \notin streams \cup collected
        /\ IF n > local_max_streams
           THEN limit_error' = "StreamLimit" /\ UNCHANGED <<peer_opened_streams, streams>>
           ELSE /\ peer_opened_streams' = n
                /\ streams' = streams \cup {id}
                /\ UNCHANGED limit_error
        /\ UNCHANGED <<local_max_streams, local_max_streams_next, collected, openVars,
                       frames, limit_losses>>

\* Mutant: two credits for one stream.
collect_twice(id) ==
    /\ id \in streams
    /\ local_max_streams_next' = local_max_streams_next + 2
    /\ streams' = streams \ {id}
    /\ collected' = collected \cup {id}
    /\ UNCHANGED <<local_max_streams, peer_opened_streams, openVars, frames, limit_losses,
                   limit_error>>

\* StreamMap::collect of a complete stream returns a credit.
collect(id) ==
    /\ id \in streams
    /\ local_max_streams_next' = local_max_streams_next + 1
    /\ streams' = streams \ {id}
    /\ collected' = collected \cup {id}
    /\ UNCHANGED <<local_max_streams, peer_opened_streams, openVars, frames, limit_losses,
                   limit_error>>

\* Mutant: the limit is sent and not committed.
SendMaxStreams_uncommitted ==
    /\ should_update_max_streams
    /\ frames' = frames \cup {local_max_streams_next}
    /\ UNCHANGED <<acceptVars, openVars, limit_losses, limit_error>>

\* send_single, MAX_STREAMS: sent and committed, and never sent again.
SendMaxStreams ==
    /\ should_update_max_streams
    /\ frames' = frames \cup {local_max_streams_next}
    /\ local_max_streams' = local_max_streams_next
    /\ UNCHANGED <<local_max_streams_next, peer_opened_streams, streams, collected,
                   openVars, limit_losses, limit_error>>

\* Frame::MaxStreams
RecvMaxStreams(max) ==
    /\ max \in frames
    /\ frames' = frames \ {max}
    /\ peer_max_streams' = Larger(peer_max_streams, max)
    /\ UNCHANGED <<acceptVars, local_opened_streams, opened, limit_losses, limit_error>>

\* The loop over lost frames has no case for MAX_STREAMS.
LoseMaxStreams(max) ==
    /\ max \in frames
    /\ limit_losses < MaxLimitLosses
    /\ limit_losses' = limit_losses + 1
    /\ frames' = frames \ {max}
    /\ UNCHANGED <<acceptVars, openVars, limit_error>>

Ids == 0 .. StreamCount - 1

LimitNext ==
    /\ limit_error = "None"
    /\ \/ \E id \in Ids : Open(id) \/ Accept(id) \/ collect(id)
       \/ SendMaxStreams
       \/ \E max \in frames : RecvMaxStreams(max) \/ LoseMaxStreams(max)

LimitSpec == LimitInit /\ [][LimitNext]_limitVars

(***************************************************************************)
(* Fairness: the event loop keeps sending and receiving, so a frame that   *)
(* is not lost arrives; the opening application opens every stream it can, *)
(* and the accepting one reads every stream to its end.                    *)
(***************************************************************************)
LimitFairness ==
    /\ \A id \in Ids : /\ WF_limitVars(limit_error = "None" /\ Open(id))
                       /\ WF_limitVars(limit_error = "None" /\ Accept(id))
                       /\ WF_limitVars(limit_error = "None" /\ collect(id))
    /\ WF_limitVars(limit_error = "None" /\ SendMaxStreams)
    /\ WF_limitVars(limit_error = "None" /\ \E max \in frames : RecvMaxStreams(max))

LimitFairSpec == LimitSpec /\ LimitFairness

-----------------------------------------------------------------------------
LimitTypeOK ==
    /\ {local_max_streams, local_max_streams_next, peer_opened_streams,
        peer_max_streams, local_opened_streams, limit_losses} \subseteq Nat
    /\ streams \subseteq Ids /\ collected \subseteq Ids /\ opened \subseteq Ids
    /\ frames \subseteq Nat
    /\ limit_error \in {"None", "StreamLimit"}

\* A peer that keeps to the limits it was sent is never accused of exceeding them,
\* although its streams arrive in any order and MAX_STREAMS frames overtake each
\* other (the StreamLimit error of get_or_create).
NoStreamLimitError == limit_error = "None"

\* The counts stay within the limits on both sides, so the unsigned subtractions of
\* peer_streams_left_* and should_update_max_streams_* cannot wrap.
OpenedWithinLimits ==
    /\ local_opened_streams <= peer_max_streams
    /\ peer_opened_streams <= local_max_streams

\* `only allow v number of concurrent remotely-initiated streams to be open at any
\* given time' (set_initial_max_streams_*): the credits that collected streams
\* return never let more be open, late frames and skipped numbers included.
ConcurrentBound == Cardinality(streams) <= InitMaxStreams

\* Whoever completes streams gets to open all it wants, as long as no MAX_STREAMS
\* is lost: an update is always due before the peer is blocked for good.
OpenedUnlessLost == <>(opened = Ids \/ limit_losses > 0)

\* `will increase the limit automatically as streams are completed'
\* (set_initial_max_streams_*): also when a frame is lost.
AllOpened == <>(opened = Ids)

-----------------------------------------------------------------------------
(* The inductive invariant of the proofs (ConnFlowProofs).                   *)

\* Limits in the order in which they become known, and one credit per collected
\* stream.
LimitsInOrder ==
    /\ peer_max_streams <= local_max_streams
    /\ local_max_streams <= local_max_streams_next
    /\ \A max \in frames : max <= local_max_streams
    /\ local_max_streams_next = InitMaxStreams + Cardinality(collected)

\* A stream is open, collected or neither, and counted with all before it.
StreamsCounted ==
    /\ streams \cap collected = {}
    /\ streams \cup collected \subseteq 0 .. peer_opened_streams - 1
    /\ opened \subseteq 0 .. local_opened_streams - 1

LimitsInv ==
    /\ LimitTypeOK /\ NoStreamLimitError /\ OpenedWithinLimits
    /\ LimitsInOrder /\ StreamsCounted
=============================================================================
