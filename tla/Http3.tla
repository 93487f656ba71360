-------------------------------- MODULE Http3 --------------------------------
(***************************************************************************)
(* The receive side of an HTTP/3 connection, quiche/src/h3/mod.rs and      *)
(* h3/stream.rs: the parser every stream goes through, poll(), recv_body() *)
(* and the table of HTTP/3 streams that the sending calls share with it.   *)
(* The peer's streams are sequences of tokens that arrive in any portions: *)
(* a varint is one token, a byte of a payload is one token.  Poll and      *)
(* RecvBody are the application's calls; it follows the documentation of   *)
(* Event::Data and reads until Done, or until it is told of the end.       *)
(*                                                                         *)
(* What the QUIC connection does for a stream is the record q[s]; its own  *)
(* model is RecvStream.  The bit of a stream id that says who opened the   *)
(* stream is left out: 0, 4, ... are requests, the others unidirectional.  *)
(***************************************************************************)
EXTENDS Integers, Sequences, FiniteSets, SequencesExt

CONSTANTS Ids,             \* the streams of the peer
          Scenarios,       \* what it sends: [is_server, legal, datagrams, tokens]
          MaxStreamsBidi,  \* max_streams_bidi() of the connection
          MaxStateBuf,     \* MAX_STATE_BUF_SIZE
          BufSizes         \* the lengths of recv_body's out

ASSUME ScenariosAssumption ==
    \A sc \in Scenarios : /\ {sc.is_server, sc.legal, sc.datagrams} \subseteq BOOLEAN
                          /\ sc.tokens \in [Ids -> Seq(Nat)]
ASSUME BoundsAssumption ==
    /\ Ids \subseteq Nat /\ IsFiniteSet(Ids)
    /\ MaxStreamsBidi \in Nat /\ MaxStateBuf \in Nat /\ BufSizes \subseteq Nat \ {0}

VARIABLES scenario,  \* chosen once
          q,         \* what QUIC keeps of every stream
          h,         \* h3::Connection
          reading,   \* streams with a Data event whose body is not read to Done
          got,       \* what the application was told of every stream
          idle       \* the last call was a poll that returned Done

vars == <<scenario, q, h, reading, got, idle>>

None == -1
HeadersItem == -1   \* a Headers event among the bytes of the body
is_bidi(s) == s % 4 = 0

(* Frame and stream types.  33 stands for every unknown type. *)
DATA == 0
HEADERS == 1
CANCEL_PUSH == 3
SETTINGS == 4
PUSH_PROMISE == 5
GOAWAY == 7
MAX_PUSH == 13
PRIORITY_UPDATE_REQUEST == 700
PRIORITY_UPDATE_PUSH == 701

(* A payload is told apart by its first token: SETTINGS that enable datagrams, and  *)
(* a header block or SETTINGS that cannot be decoded.                               *)
H3_DATAGRAM == 51
Malformed == 255

deserialize(v) ==
    CASE v = 0 -> "Control" [] v = 1 -> "Push" [] v = 2 -> "QpackEncoder"
      [] v = 3 -> "QpackDecoder" [] OTHER -> "Unknown"

-----------------------------------------------------------------------------
(* The QUIC stream.  `note' is the empty chunk that a FIN or RESET_STREAM   *)
(* queues, `queued' membership in the readable set, `tx' the sending side.  *)

Quiet == [arrived |-> 0, off |-> 0, end |-> "none", note |-> FALSE, queued |-> FALSE,
          drain |-> FALSE, gone |-> FALSE, tx |-> "open"]

Readable(x) == ~x.gone /\ (x.note \/ (~x.drain /\ x.off < x.arrived))

\* stream_finished(): also true of a stream that was collected.
stream_finished(x) == \/ x.gone
                      \/ x.end \in {"reset", "cleared"}
                      \/ x.end = "fin" /\ x.off = x.arrived

Complete(x, s) == stream_finished(x) /\ (is_bidi(s) => x.tx = "acked")

\* c is the whole connection while a call is running: [q, h].
Transport(c, s, x) == [c EXCEPT !.q[s] = [x EXCEPT !.gone = x.gone \/ Complete(x, s)]]

\* stream_recv() with room for n tokens.
stream_recv(c, s, n) ==
    LET x == c.q[s]
        k == IF n < x.arrived - x.off THEN n ELSE x.arrived - x.off
        y == [x EXCEPT !.off = @ + k, !.note = @ /\ n = 0]
    IN  CASE x.gone -> [c |-> c, res |-> "Error", read |-> 0, fin |-> FALSE]
          [] ~x.gone /\ ~Readable(x) -> [c |-> c, res |-> "Done", read |-> 0, fin |-> FALSE]
          [] Readable(x) /\ x.end = "reset" ->
                 [c |-> Transport(c, s, [x EXCEPT !.note = FALSE, !.queued = FALSE]),
                  res |-> "Reset", read |-> 0, fin |-> FALSE]
          [] OTHER ->
                 [c |-> Transport(c, s, [y EXCEPT !.queued = Readable(y)]),
                  res |-> "Ok", read |-> k, fin |-> stream_finished(y)]

\* stream_shutdown(Read): a second one fails with Done and changes nothing.
stream_shutdown(c, s) ==
    LET x == c.q[s]
    IN  IF x.gone \/ x.drain THEN c
        ELSE [c EXCEPT !.q[s] = [x EXCEPT !.drain = TRUE, !.note = FALSE, !.queued = FALSE,
                                          !.off = x.arrived]]

-----------------------------------------------------------------------------
(* h3::stream::Stream *)

new(s, is_local) ==
    [ty |-> IF is_bidi(s) THEN "Request" ELSE "None",
     state |-> IF is_bidi(s) THEN "FrameType" ELSE "StreamType",
     len |-> 1, off |-> 0, frame_type |-> None, is_local |-> is_local,
     remote_initialized |-> FALSE, local_initialized |-> FALSE,
     data_event |-> FALSE, priority_update |-> FALSE]

state_transition(st, state, len) == [st EXCEPT !.state = state, !.off = 0, !.len = len]

set_ty(st, ty) ==
    LET next == CASE ty = "Control" -> "FrameType" [] ty = "Push" -> "PushId"
                  [] ty \in {"QpackEncoder", "QpackDecoder"} -> "QpackInstruction"
                  [] OTHER -> "Drain"
    IN  [state_transition(st, next, 1) EXCEPT
           !.ty = ty, !.remote_initialized = @ \/ next = "QpackInstruction"]

\* Mutant: SETTINGS is not required to come first.
FrameAllowed_settings(st, ty) ==
    CASE st.ty = "Control" -> /\ st.remote_initialized => ty # SETTINGS
                              /\ ty \notin {DATA, HEADERS, PUSH_PROMISE}
      [] st.ty = "Request" ->
             st.is_local \/ /\ ty = DATA => st.remote_initialized
                            /\ ty \notin {CANCEL_PUSH, SETTINGS, GOAWAY, MAX_PUSH}
      [] OTHER -> ty \notin {CANCEL_PUSH, SETTINGS, PUSH_PROMISE, GOAWAY, MAX_PUSH}

\* The frames that set_frame_type() lets through.
FrameAllowed(st, ty) ==
    CASE st.ty = "Control" -> /\ st.remote_initialized <=> ty # SETTINGS
                              /\ ty \notin {DATA, HEADERS, PUSH_PROMISE}
      [] st.ty = "Request" ->
             st.is_local \/ /\ ty = DATA => st.remote_initialized
                            /\ ty \notin {CANCEL_PUSH, SETTINGS, GOAWAY, MAX_PUSH}
      [] OTHER -> ty \notin {CANCEL_PUSH, SETTINGS, PUSH_PROMISE, GOAWAY, MAX_PUSH}

set_frame_type(st, ty) ==
    [state_transition(st, "FramePayloadLen", 1) EXCEPT
       !.frame_type = ty,
       !.remote_initialized = \/ @
                              \/ st.ty = "Control" /\ ty = SETTINGS
                              \/ st.ty = "Request" /\ ~st.is_local /\ ty = HEADERS]

\* A frame that always has fields is not empty, and a payload that is kept until it is
\* complete is not too long.
LenAllowed(st, len) ==
    /\ st.frame_type \in {GOAWAY, PUSH_PROMISE, CANCEL_PUSH, MAX_PUSH} => len > 0
    /\ st.frame_type # DATA => len <= MaxStateBuf

set_frame_payload_len(st, len) ==
    state_transition(st, IF st.frame_type = DATA THEN "Data" ELSE "FramePayload", len)

\* Mutant: the Data event is not re-armed when the stream has nothing more.
try_fill_buffer_armed(c, s) ==
    LET st == c.h.streams[s]
        r == stream_recv(c, s, st.len - st.off)
        off == st.off + r.read
    IN  IF st.off = st.len THEN [c |-> c, res |-> "Ok"]
        ELSE [c |-> [r.c EXCEPT !.h.streams[s] = [st EXCEPT !.off = off]],
              res |-> IF r.res = "Ok" /\ off < st.len THEN "Done" ELSE r.res]

\* Reads what the state still needs; Done, with the Data event re-armed, if the
\* stream does not have it.
try_fill_buffer(c, s) ==
    LET st == c.h.streams[s]
        r == stream_recv(c, s, st.len - st.off)
        off == st.off + r.read
        res == IF r.res = "Ok" /\ off < st.len THEN "Done" ELSE r.res
    IN  IF st.off = st.len THEN [c |-> c, res |-> "Ok"]
        ELSE [c |-> [r.c EXCEPT !.h.streams[s] =
                        [st EXCEPT !.off = off,
                                   !.data_event = @ /\ res # "Done"]],
              res |-> res]

\* Mutant: reads past the end of the DATA frame.
try_consume_data_past(c, s, n) ==
    LET st == c.h.streams[s]
        r == stream_recv(c, s, n)
        read == [st EXCEPT !.off = @ + r.read,
                           !.data_event = @ /\ Readable(r.c.q[s])]
    IN  [r EXCEPT !.c.h.streams[s] =
           IF r.res # "Ok" THEN [st EXCEPT !.data_event = @ /\ r.res # "Done"]
           ELSE IF read.off >= read.len THEN state_transition(read, "FrameType", 1) ELSE read]

\* Up to n bytes of the DATA frame.
try_consume_data(c, s, n) ==
    LET st == c.h.streams[s]
        left == IF n < st.len - st.off THEN n ELSE st.len - st.off
        r == stream_recv(c, s, left)
        read == [st EXCEPT !.off = @ + r.read,
                           !.data_event = @ /\ Readable(r.c.q[s])]
    IN  [r EXCEPT !.c.h.streams[s] =
           IF r.res # "Ok" THEN [st EXCEPT !.data_event = @ /\ r.res # "Done"]
           ELSE IF read.off = read.len THEN state_transition(read, "FrameType", 1) ELSE read]

-----------------------------------------------------------------------------
(* h3::Connection.  A call that is under way returns [c, ev]: the            *)
(* connection and an event <<what, stream>>; Error is every Err but Done.    *)

Result(c, what, s) == [c |-> c, ev |-> <<what, s>>]

\* conn.close() and the error; a connection that is closed already says Done.
Close(c, s) == IF c.h.closed THEN Result(c, "Done", s)
               ELSE Result([c EXCEPT !.h.closed = TRUE], "Error", s)

\* The token that was read last, and the first one of the payload read last.
Token(c, s) == scenario.tokens[s][c.q[s].off]
Field(c, s, len) == scenario.tokens[s][c.q[s].off - len + 1]

\* The type of a unidirectional stream: one control and one stream of each QPACK
\* kind, and push streams only for clients.
TypeAllowed(c, ty) == /\ ty = "Control" => c.h.control = None
                      /\ ty = "QpackEncoder" => c.h.encoder = None
                      /\ ty = "QpackDecoder" => c.h.decoder = None
                      /\ ty = "Push" => ~scenario.is_server

SetType(c, s, ty) ==
    [c EXCEPT !.h.streams[s] = set_ty(@, ty),
              !.h.control = IF ty = "Control" THEN s ELSE @,
              !.h.encoder = IF ty = "QpackEncoder" THEN s ELSE @,
              !.h.decoder = IF ty = "QpackDecoder" THEN s ELSE @]

\* process_frame() for PRIORITY_UPDATE of a request stream.
PriorityUpdate(c, s, id) ==
    LET known == id \in DOMAIN c.h.streams
        st == [(IF known THEN c.h.streams[id] ELSE new(id, FALSE)) EXCEPT
                 !.priority_update = TRUE]
    IN  IF id \in Ids /\ c.q[id].gone THEN Result(c, "Done", s)
        ELSE Result([c EXCEPT !.h.streams =
                        [i \in DOMAIN @ \cup {id} |-> IF i = id THEN st ELSE @[i]]],
                    IF known /\ c.h.streams[id].priority_update THEN "Done"
                    ELSE "PriorityUpdate", id)

\* Which frames the connection takes from this stream, with this id in them (None if the
\* payload is empty).  Datagrams need the peer's transport parameter too.
FrameValid(c, s, ty, id) ==
    LET on_control == c.h.control = s
        is_server == scenario.is_server
    IN  /\ ty \in {HEADERS, DATA} => ~on_control
        /\ ty \in {GOAWAY, MAX_PUSH, CANCEL_PUSH, PRIORITY_UPDATE_REQUEST,
                   PRIORITY_UPDATE_PUSH} => on_control
        /\ ty = GOAWAY => /\ ~is_server => id % 4 = 0
                          /\ c.h.peer_goaway # None => id <= c.h.peer_goaway
        /\ ty = MAX_PUSH => is_server /\ id >= c.h.max_push
        /\ ty = PUSH_PROMISE => ~is_server /\ s % 4 = 0
        /\ ty = PRIORITY_UPDATE_REQUEST => /\ is_server /\ id % 4 = 0
                                           /\ id <= MaxStreamsBidi * 4
        /\ ty = PRIORITY_UPDATE_PUSH => is_server /\ id % 3 = 0
        /\ ty = HEADERS => id # None
        /\ ty \in {HEADERS, SETTINGS} => id # Malformed
        /\ ty = SETTINGS /\ id = H3_DATAGRAM => scenario.datagrams

process_frame(c, s, ty, id) ==
    CASE ~FrameValid(c, s, ty, id) -> Close(c, s)
      [] FrameValid(c, s, ty, id) /\ ty = HEADERS -> Result(c, "Headers", s)
      [] FrameValid(c, s, ty, id) /\ ty = GOAWAY ->
             Result([c EXCEPT !.h.peer_goaway = id], "GoAway", id)
      [] FrameValid(c, s, ty, id) /\ ty = MAX_PUSH ->
             Result([c EXCEPT !.h.max_push = id], "Done", s)
      [] FrameValid(c, s, ty, id) /\ ty = PRIORITY_UPDATE_REQUEST ->
             PriorityUpdate(c, s, id)
      [] OTHER -> Result(c, "Done", s)

\* try_consume_frame(): a frame other than DATA re-arms the Data event.
ConsumeFrame(c, s) ==
    [c EXCEPT !.h.streams[s] = [state_transition(@, "FrameType", 1) EXCEPT !.data_event = FALSE]]

\* The discarding loop of a QPACK stream ends with an error of stream_recv():
\* Done, or that the stream was reset or is gone.
Discard(c, s) ==
    LET all == stream_recv(c, s, Len(scenario.tokens[s]) + 1)
        r == IF all.res = "Ok" THEN stream_recv(all.c, s, 1) ELSE all
    IN  Result(r.c, r.res, s)

\* What a varint does to the stream that was waiting for it, and whether the peer may
\* send it there.
VarintAllowed(c, s, v) ==
    LET st == c.h.streams[s]
    IN  CASE st.state = "StreamType" -> TypeAllowed(c, deserialize(v))
          [] st.state = "FrameType" -> FrameAllowed(st, v)
          [] st.state = "FramePayloadLen" -> LenAllowed(st, v)
          [] OTHER -> TRUE

ConsumeVarint(c, s, v) ==
    LET st == c.h.streams[s]
    IN  CASE st.state = "StreamType" -> SetType(c, s, deserialize(v))
          [] st.state = "PushId" ->
               [c EXCEPT !.h.streams[s] = state_transition(st, "FrameType", 1)]
          [] st.state = "FrameType" -> [c EXCEPT !.h.streams[s] = set_frame_type(st, v)]
          [] OTHER -> [c EXCEPT !.h.streams[s] = set_frame_payload_len(st, v)]

\* One turn of the loop of process_readable_stream(), Continue if there is another.
VarintTurn(f, s) ==
    LET v == Token(f.c, s)
    IN  CASE f.res # "Ok" -> Result(f.c, f.res, s)
          [] f.res = "Ok" /\ VarintAllowed(f.c, s, v) ->
               Result(ConsumeVarint(f.c, s, v), "Continue", s)
          [] OTHER -> Close(f.c, s)

ContinueIfMore(r, s) ==
    IF r.ev[1] = "Done" /\ ~stream_finished(r.c.q[s]) THEN [r EXCEPT !.ev[1] = "Continue"]
    ELSE r

FrameTurn(f, s, st) ==
    IF f.res # "Ok" THEN Result(f.c, f.res, s)
    ELSE ContinueIfMore(process_frame(ConsumeFrame(f.c, s), s, st.frame_type,
                                      IF st.len > 0 THEN Field(f.c, s, st.len) ELSE None), s)

\* Without polling the loop stops where an event would be due.
Turn(c, s, polling) ==
    LET st == c.h.streams[s]
    IN  CASE st.state \in {"StreamType", "PushId", "FrameType", "FramePayloadLen"} ->
               VarintTurn(try_fill_buffer(c, s), s)
          [] st.state = "FramePayload" /\ polling -> FrameTurn(try_fill_buffer(c, s), s, st)
          [] st.state = "Data" /\ polling /\ ~st.data_event ->
               Result([c EXCEPT !.h.streams[s].data_event = TRUE], "Data", s)
          [] st.state = "QpackInstruction" -> Discard(c, s)
          [] st.state = "Drain" -> Result(stream_shutdown(c, s), "Done", s)
          [] OTHER -> Result(c, "Done", s)

NextTurn(r, s, polling) == IF r.ev[1] = "Continue" THEN Turn(r.c, s, polling) ELSE r

\* A turn takes a token, but for the one that handles the payload of a frame.
MaxTurns(s) == 2 * Len(scenario.tokens[s]) + 2

Process(r, s, polling) ==
    LET after[n \in 0 .. MaxTurns(s)] ==
          IF n = 0 THEN r ELSE NextTurn(after[n - 1], s, polling)
    IN  after[MaxTurns(s)]

process_readable_stream(c, s, polling) ==
    Process(Result([c EXCEPT !.h.streams =
                      [i \in DOMAIN @ \cup {s} |->
                         IF i \in DOMAIN @ THEN @[i] ELSE new(i, FALSE)]],
                   "Continue", s),
            s, polling)

\* Mutant: a stream that is finished already is finished again.
process_finished_stream_again(c, s) ==
    IF s \in DOMAIN c.h.streams /\ c.h.streams[s].ty \in {"Request", "Push"}
    THEN [c EXCEPT !.h.streams[s] = state_transition(@, "Finished", 0),
                   !.h.finished = Append(@, s)]
    ELSE c

process_finished_stream(c, s) ==
    IF /\ s \in DOMAIN c.h.streams
       /\ c.h.streams[s].state # "Finished" /\ c.h.streams[s].ty \in {"Request", "Push"}
    THEN [c EXCEPT !.h.streams[s] = state_transition(@, "Finished", 0),
                   !.h.finished = Append(@, s)]
    ELSE c

IfFinished(c, s) == IF stream_finished(c.q[s]) THEN process_finished_stream(c, s) ELSE c

-----------------------------------------------------------------------------
(* poll() *)

\* process_control_stream(): a critical stream that ends closes the connection.
CloseIfEnded(r, s) ==
    IF r.ev[1] = "Done" /\ stream_finished(r.c.q[s]) THEN Close(r.c, s) ELSE r

process_control_stream(c, s) ==
    IF stream_finished(c.q[s]) THEN Close(c, s)
    ELSE CloseIfEnded(process_readable_stream(c, s, TRUE), s)

\* The control stream, then the two QPACK streams, until one has something to say.
ThenCritical(r, s) ==
    IF s = None \/ r.ev[1] # "Done" THEN r ELSE process_control_stream(r.c, s)

PollCritical(c) ==
    ThenCritical(ThenCritical(ThenCritical(Result(c, "Done", None), c.h.control),
                              c.h.encoder), c.h.decoder)

\* The readable streams in the order of their priorities, until one has an event.
FinishUnlessFailed(r, s) ==
    IF r.ev[1] \in {"Reset", "Error"} THEN r ELSE [r EXCEPT !.c = IfFinished(@, s)]

ThenReadable(r, s) ==
    IF r.ev[1] # "Done" THEN r
    ELSE FinishUnlessFailed(process_readable_stream(r.c, s, TRUE), s)

PollReadable(c, order) ==
    LET after[n \in 0 .. Len(order)] ==
          IF n = 0 THEN Result(c, "Done", None) ELSE ThenReadable(after[n - 1], order[n])
    IN  after[Len(order)]

\* The first stream that finished; the second look also tells whether it was reset.
PopFinished(c, look) ==
    LET s == Head(c.h.finished)
        r == stream_recv(c, s, 0)
        popped == [(IF look /\ Readable(c.q[s]) THEN r.c ELSE c) EXCEPT !.h.finished = Tail(@)]
    IN  IF c.h.finished = <<>> THEN Result(c, "Done", None)
        ELSE Result(popped, IF look /\ Readable(c.q[s]) /\ r.res = "Reset" THEN "Reset"
                            ELSE "Finished", s)

\* Each part of poll() runs only if the part before it had nothing to say.
AfterReadable(r) == IF r.ev[1] = "Done" THEN PopFinished(r.c, TRUE) ELSE r

AfterFinished(r, order) ==
    IF r.ev[1] = "Done" THEN AfterReadable(PollReadable(r.c, order)) ELSE r

AfterCritical(r, order) ==
    IF r.ev[1] = "Done" THEN AfterFinished(PopFinished(r.c, FALSE), order) ELSE r

poll(c, order) == IF c.h.closed THEN Result(c, "Done", None)
                  ELSE AfterCritical(PollCritical(c), order)

-----------------------------------------------------------------------------
(* recv_body(): reads over the borders of DATA frames.                       *)

\* b is the call under way: [c, res, body, room], r what try_consume_data() returned, n
\* what the frames up to the next DATA frame did.
NextFrame(b, n, s) ==
    [b EXCEPT !.c = n.c,
              !.res = CASE n.ev[1] # "Done" -> n.ev[1]
                        [] n.ev[1] = "Done" /\ stream_finished(n.c.q[s]) -> "Ok"
                        [] OTHER -> "Continue"]

AfterData(b, r, s) ==
    LET off == b.c.q[s].off
        read == [c |-> r.c, res |-> IF r.res = "Done" THEN "Ok" ELSE r.res,
                 body |-> b.body \o SubSeq(scenario.tokens[s], off + 1, off + r.read),
                 room |-> b.room - r.read]
    IN  IF r.res # "Ok" \/ r.read = 0 \/ r.fin THEN read
        ELSE NextFrame(read, process_readable_stream(r.c, s, FALSE), s)

BodyTurn(b, s) ==
    CASE b.res # "Continue" -> b
      [] /\ b.res = "Continue" /\ b.room > 0 /\ s \in DOMAIN b.c.h.streams
         /\ b.c.h.streams[s].state = "Data" ->
           AfterData(b, try_consume_data(b.c, s, b.room), s)
      [] OTHER -> [b EXCEPT !.res = "Ok"]

\* All turns but the last read at least one byte.
ReadBody(b, s) ==
    LET after[n \in 0 .. b.room + 1] == IF n = 0 THEN b ELSE BodyTurn(after[n - 1], s)
    IN  after[b.room + 1]

FinishIfRead(b, s) == IF b.res = "Ok" THEN [b EXCEPT !.c = IfFinished(@, s)] ELSE b

recv_body(c, s, n) ==
    FinishIfRead(ReadBody([c |-> c, res |-> "Continue", body |-> <<>>, room |-> n], s), s)

-----------------------------------------------------------------------------
(* The network: STREAM frames, RESET_STREAM, STOP_SENDING and acks.           *)

\* The peer answers only requests that were sent.
Opened(s) == ~q[s].gone /\ (scenario.is_server \/ ~is_bidi(s) \/ s < h.next)

Changed(s, x) == /\ q' = [q EXCEPT ![s] = [x EXCEPT !.queued = @ \/ Readable(x)]]
                 /\ idle' = FALSE
                 /\ UNCHANGED <<scenario, h, reading, got>>

\* An empty FIN is queued only where no data waits to be read.
Arrive(s, n, fin) ==
    LET x == q[s]
        tokens == scenario.tokens[s]
    IN  /\ Opened(s) /\ x.end = "none"
        /\ tokens # <<>> /\ x.arrived + n <= Len(tokens)
        /\ fin \/ n > 0
        /\ fin => x.arrived + n = Len(tokens)
        /\ Changed(s, [x EXCEPT !.arrived = @ + n, !.end = IF fin THEN "fin" ELSE "none",
                                !.note = fin /\ n = 0 /\ x.off = x.arrived /\ ~x.drain])

\* RecvBuf::reset() drops what was not read.  The chunk that would tell the
\* application is not stored when the final size was known before ("cleared").
Reset(s) ==
    LET x == q[s]
    IN  /\ Opened(s) /\ x.end \in {"none", "fin"} /\ x.arrived > 0
        /\ Changed(s, [x EXCEPT !.end = IF x.end = "none" THEN "reset" ELSE "cleared",
                                !.off = x.arrived,
                                !.note = x.end = "none" /\ ~x.drain])

PeerStops(s) ==
    /\ is_bidi(s) /\ Opened(s) /\ q[s].arrived > 0 /\ q[s].tx \in {"open", "fin"}
    /\ Changed(s, [q[s] EXCEPT !.tx = "stopped"])

\* The stream is collected with the last ack, if it is complete and not readable.
Acked(s) ==
    /\ is_bidi(s) /\ Opened(s) /\ q[s].tx \in {"fin", "stopped"}
    /\ q' = [q EXCEPT ![s].tx = "acked",
                      ![s].gone = stream_finished(q[s]) /\ ~Readable(q[s])]
    /\ UNCHANGED <<scenario, h, reading, got, idle>>

-----------------------------------------------------------------------------
(* The calls of the application.                                             *)

\* `got' records two ends of a stream at most: the second is one too many.
MaxEnds == 2
Told(s, items, ends) ==
    got' = [got EXCEPT ![s] = [items |-> @.items \o items,
                               ends |-> IF Len(@.ends) < MaxEnds THEN @.ends \o ends ELSE @.ends]]

Poll ==
    \E order \in SetToSeqs({s \in Ids : q[s].queued /\ ~q[s].gone}) :
        \E r \in {poll([q |-> q, h |-> h], order)} :
            LET what == r.ev[1]
                s == r.ev[2]
            IN  /\ q' = r.c.q /\ h' = r.c.h
                /\ idle' = (what = "Done")
                /\ reading' = CASE what = "Data" -> reading \cup {s}
                                [] what \in {"Finished", "Reset"} -> reading \ {s}
                                [] OTHER -> reading
                /\ CASE what = "Headers" -> Told(s, <<HeadersItem>>, <<>>)
                     [] what \in {"Finished", "Reset"} -> Told(s, <<>>, <<what>>)
                     [] OTHER -> UNCHANGED got
                /\ UNCHANGED scenario

\* An error takes the bytes that were read before it with it.
RecvBody(s, n) ==
    /\ s \in reading
    /\ \E r \in {recv_body([q |-> q, h |-> h], s, n)} :
          LET ok == r.res = "Ok"
          IN  /\ q' = r.c.q /\ h' = r.c.h /\ idle' = FALSE
              /\ reading' = IF ok /\ r.body # <<>> THEN reading ELSE reading \ {s}
              /\ Told(s, IF ok THEN r.body ELSE <<>>,
                      IF r.res = "Reset" THEN <<"Reset">> ELSE <<>>)
              /\ UNCHANGED scenario

\* send_request(): when the headers are blocked the stream is kept and the id is
\* used again by the next call.
SendRequest(fin, blocked) ==
    LET s == h.next
    IN  /\ ~scenario.is_server /\ s \in Ids /\ is_bidi(s) /\ h.peer_goaway = None /\ ~h.closed
        /\ h' = [h EXCEPT !.streams = [i \in DOMAIN @ \cup {s} |->
                             IF i = s THEN [new(s, TRUE) EXCEPT !.local_initialized = ~blocked]
                             ELSE @[i]],
                          !.next = IF blocked THEN @ ELSE @ + 4]
        /\ q' = [q EXCEPT ![s].tx = IF fin /\ ~blocked THEN "fin" ELSE @]
        /\ idle' = FALSE
        /\ UNCHANGED <<scenario, reading, got>>

\* What send_headers() and send_body() leave of the HTTP/3 stream: it is removed
\* when both directions are done, or when it cannot be written any more.
Send(s, fin) ==
    LET failed == q[s].gone \/ q[s].tx # "open"
        st == [h.streams[s] EXCEPT !.local_initialized = TRUE]
        streams == IF (failed \/ fin) /\ stream_finished(q[s])
                   THEN [i \in DOMAIN h.streams \ {s} |-> h.streams[i]]
                   ELSE IF failed THEN h.streams ELSE [h.streams EXCEPT ![s] = st]
    IN  /\ h' = [h EXCEPT !.streams = streams]
        /\ q' = [q EXCEPT ![s].tx = IF fin /\ ~failed THEN "fin" ELSE @]
        /\ idle' = FALSE
        /\ UNCHANGED <<scenario, reading, got>>

SendResponse(s, fin) ==
    /\ scenario.is_server /\ got[s].items # <<>>
    /\ s \in DOMAIN h.streams /\ is_bidi(s) /\ ~h.streams[s].local_initialized
    /\ Send(s, fin)

\* The last chunk of the body.
SendBody(s) ==
    /\ s \in DOMAIN h.streams /\ is_bidi(s) /\ h.streams[s].local_initialized
    /\ q[s].tx \in {"open", "stopped"}
    /\ Send(s, TRUE)

take_last_priority_update(s) ==
    /\ s \in DOMAIN h.streams /\ h.streams[s].priority_update
    /\ h' = [h EXCEPT !.streams[s].priority_update = FALSE]
    /\ idle' = FALSE
    /\ UNCHANGED <<scenario, q, reading, got>>

-----------------------------------------------------------------------------
Init ==
    /\ scenario \in Scenarios
    /\ q = [s \in Ids |-> Quiet]
    /\ h = [streams |-> <<>>, control |-> None, encoder |-> None, decoder |-> None,
            peer_goaway |-> None, max_push |-> 0, finished |-> <<>>, closed |-> FALSE,
            next |-> 0]
    /\ reading = {}
    /\ got = [s \in Ids |-> [items |-> <<>>, ends |-> <<>>]]
    /\ idle = FALSE

Next ==
    \/ Poll
    \/ \E s \in Ids :
          \/ \E n \in 0..Len(scenario.tokens[s]), fin \in BOOLEAN : Arrive(s, n, fin)
          \/ Reset(s)
          \/ PeerStops(s)
          \/ Acked(s)
          \/ \E n \in BufSizes : RecvBody(s, n)
          \/ \E fin \in BOOLEAN : SendResponse(s, fin)
          \/ SendBody(s)
          \/ take_last_priority_update(s)
    \/ \E fin, blocked \in BOOLEAN : SendRequest(fin, blocked)

Spec == Init /\ [][Next]_vars

-----------------------------------------------------------------------------
(* Reference: what a peer's tokens say.                                      *)

\* How far a stream is understood: `at' says what the next token is, `left' how many
\* tokens the payload of the frame still has, and `items' what a message said.
Start(s) ==
    [at |-> IF is_bidi(s) THEN "type" ELSE "stream", type |-> None, left |-> 0, items |-> <<>>]

\* What the next token adds to the items.
Said(d, v) ==
    CASE d.at = "length" /\ d.type = HEADERS /\ v = 0 -> <<HeadersItem>>
      [] d.at = "payload" /\ d.type = HEADERS /\ d.left = 1 -> <<HeadersItem>>
      [] d.at = "payload" /\ d.type = DATA -> <<v>>
      [] OTHER -> <<>>

Hear(d, v) ==
    CASE d.at = "stream" -> [d EXCEPT !.at = IF deserialize(v) = "Push" THEN "push" ELSE "none"]
      [] d.at = "push" -> [d EXCEPT !.at = "type"]
      [] d.at = "type" -> [d EXCEPT !.at = "length", !.type = v]
      [] d.at = "length" -> [d EXCEPT !.at = IF v = 0 THEN "type" ELSE "payload",
                                      !.left = v, !.items = @ \o Said(d, v)]
      [] d.at = "payload" -> [d EXCEPT !.at = IF d.left = 1 THEN "type" ELSE "payload",
                                       !.left = @ - 1, !.items = @ \o Said(d, v)]
      [] OTHER -> d

\* After the first tokens of a stream.
Heard(s) ==
    LET after[n \in 0 .. Len(scenario.tokens[s])] ==
          IF n = 0 THEN Start(s) ELSE Hear(after[n - 1], scenario.tokens[s][n])
    IN  after

\* A request, a response or a push.
IsMessage(s, n) == n > 0 /\ (is_bidi(s) \/ deserialize(scenario.tokens[s][1]) = "Push")

Message(s, n) == Heard(s)[n].items

Quiescent == idle /\ reading = {} /\ ~h.closed

\* Once the application has read every body until Done and poll() says Done, it has
\* been told of everything that arrived: every HEADERS frame, every byte of every DATA
\* frame, and the end of every message.  Nothing is said of a stream whose FIN was followed
\* by a reset ("cleared"), whose data QUIC has dropped, and the scenarios leave out an
\* empty frame in front of another one, behind which poll is not told of what follows.
NothingForgotten ==
    Quiescent =>
        \A s \in Ids :
            /\ q[s].end \in {"none", "fin"} => got[s].items = Message(s, q[s].arrived)
            /\ q[s].end = "fin" /\ IsMessage(s, q[s].arrived) => got[s].ends # <<>>
            /\ q[s].end = "reset" /\ is_bidi(s) => got[s].ends # <<>>

\* What the application is given of a stream, however the tokens are split, is what the
\* peer sent, in its order: the bytes of DATA frames and nothing of the framing.
DeliveredInOrder == \A s \in Ids : IsPrefix(got[s].items, Message(s, q[s].arrived))

\* The end of a stream is the last thing the application hears of it, and it hears
\* it once, unless sending the last of the answer removed the HTTP/3 stream meanwhile.
EndIsLast ==
    [][\A s \in DOMAIN h.streams \cap Ids :
          got[s].ends # <<>> /\ (q[s].tx = "open" \/ h.streams[s].local_initialized)
              => got'[s] = got[s]]_vars

\* A peer that keeps to the rules is never disconnected, unless it closes a critical
\* stream; one that makes one of the scenarios' mistakes is, once all it sent was processed.
Verdict ==
    /\ h.closed => \/ ~scenario.legal
                   \/ \E s \in {h.control, h.encoder, h.decoder} \ {None} : q[s].end # "none"
    /\ (/\ Quiescent
        /\ \A s \in Ids : /\ q[s].arrived = Len(scenario.tokens[s])
                          /\ q[s].end \in {"none", "fin"})
          => scenario.legal

(* Three properties that the code does not have; see the README.             *)

\* "In order to ensure the application is notified when the stream is reset"
\* (recv_buf.rs, reset).  Not after a FIN whose data is still unread, if the stream is
\* then collected by an ack.
ResetTold ==
    Quiescent => \A s \in Ids : q[s].end = "cleared" /\ is_bidi(s) => got[s].ends # <<>>

\* The end of a stream is told once, whatever the application sends meanwhile.
EndedOnce == \A s \in Ids : Len(got[s].ends) <= 1

\* A stream that was reset is not reported as finished.
ResetNotFinished ==
    [][\A s \in Ids : q[s].end = "reset" /\ got[s].ends = <<>> => got'[s].ends # <<"Finished">>]_vars
=============================================================================
