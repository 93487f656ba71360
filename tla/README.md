# A TLA+ model of QUIRL

QUIRL is a QUIC library (a fork of Cloudflare's quiche) that adds forward erasure
correction (FEC) to loss recovery.  It is a state machine without threads and I/O: the
application's event loop hands it received packets (`Connection::recv`), takes packets
to send from it (`Connection::send`), tells it that a timer expired (`on_timeout`) and
calls the stream functions.  What makes it hard is therefore not shared memory but two
endpoints that see each other's frames late, in another order, twice or not at all,
and state that has to be right after any sequence of handlers: limits, offsets, chunk
lists, and the queues from which `send_single` decides what to put in a packet.

This directory holds the modules that model this state, the TLC configurations that
check them on small instances, and the proofs that hold for every size.  Paths below
are relative to `quiche/src/` unless they say otherwise.  `PROJECT.json` maps every
definition to the lines it models.

## 1. Inventory

| Component | State | Operations | Interaction | What makes it correct |
|---|---|---|---|---|
| Flow controller (`flowcontrol.rs`) | consumed, max_data, window, cap, time of the last update | consume, should-update, next limit, commit, tune the window | one in `Connection`, one in every `RecvBuf` | limits never shrink, no unsigned subtraction wraps |
| Connection flow control (`lib.rs`) | rx_data, tx_data, max_tx_data, almost_full | `stream_send`, `stream_recv`, STREAM, RESET_STREAM, STOP_SENDING, MAX_DATA, MAX_STREAM_DATA handlers, their emission and their loss | both endpoints, over a network that loses and reorders | a sender within its limits is never refused; counters are the sums of the streams' |
| Send buffer (`stream/send_buf.rs`) | chunks with positions, off, emit_off, fin_off, acked ranges | write, emit, ack, drop, retransmit, reset, stop, shutdown | filled by the application, emptied by `send_single`, corrected by acks and losses | no byte is forgotten or skipped, one final size |
| Receive buffer (`stream/recv_buf.rs`) | chunks by their end, off, len, fin_off, drain, error | write, emit, reset, shutdown | STREAM frames cut and ordered anyhow | every byte delivered once, in order; the end told once all is read |
| Stream map (`stream/mod.rs`) | streams, collected ids, counts and limits, queues (flushable, readable, writable, almost_full, blocked, reset, stopped) | get_or_create, collect, insert and remove on the queues | every handler of `lib.rs` | limits respected on both ends; a stream with work is queued; complete streams are collected |
| Loss recovery (`recovery/`) | sent packets, loss time, probe count, RTT, congestion window | packet sent, ack received, timeout, loss detection | fills the lists of acked and lost frames that `lib.rs` works off | every packet is acked or declared lost; a timer is armed while something is in flight |
| FEC (`fec/`, `lib.rs`) | encoder and decoder windows (external library), repair symbols in flight, burst state, symbols that need an ack | protect a packet, send REPAIR, decode, SOURCE_SYMBOL_ACK | hooks in packet assembly, acks and losses | a recovered packet is treated like a received one; counters do not wrap |
| Connection ids (`cid.rs`) | active and retired ids on both sides, ids to advertise and to retire | new, retire, link to path, frames and their loss | paths, `send_single` | never out of ids, never an id in use retired |
| Paths (`path.rs`, `pmtud.rs`) | validation state, challenges, active path, MTU probes | challenge, response, timeout, migration | recovery per path, connection ids | validation ends, one active path |
| Range sets (`ranges.rs`) | sorted disjoint ranges, two representations | insert, remove_until, iterate | acks, acked offsets | both representations denote the same set |
| Packets (`packet.rs`), frames (`frame.rs`) | packet number windows | encode and decode | all | round trips; packet numbers decode uniquely |
| Datagrams (`dgram.rs`) | bounded queue | push, pop, purge | application, `send_single` | bound kept |
| Handshake and keys (`tls/`, `crypto/`) | TLS state, keys, key phase | drive the handshake, key update | external libraries | — |
| Connection life (`lib.rs`) | closing, draining, idle timer, packet number spaces | close, timeout, discard | all | every connection ends |
| HTTP/3, QPACK (`h3/`) | stream parsers, settings, GOAWAY, events | poll, send_*, recv_* | on top of streams | event order |
| C interface, `octets`, `qlog`, `apps`, `fuzz`, `nginx` | — | wrappers, buffers, logging, users | — | — |

Behaviours that tests hardly reach, with the lines at which they bite, are the list
`hazards` of `PROJECT.json`.  The ones in the modelled part fall into eleven groups:
limits and their frames lost or reordered; bytes that are pending, in flight and acked
at the same time after a probe timeout; ends of streams (FIN, RESET_STREAM, shutdown on
either side) overtaking data and each other; streams that have to be put on a queue at
exactly the handler that gives them work; packets recovered by FEC, which leave loss
recovery without being acked; the repair schedulers, whose counters, timer and
window of symbols several handlers change between two calls of `send`; the one loss
detection timer, and the packets in flight that many handlers count down; connection
ids given out, taken up, retired from both sides and announced again after losses;
paths whose validation, migration and credit overlap in time; HTTP/3 messages that
are parsed piecemeal by two calls that share one parser; and packets that arrive late,
which have to be numbered, told from duplicates, opened with the right key and
acknowledged from a list of limited size.

## 2. Modules

    FlowControl        operators: one flow controller
      ConnFlow         both endpoints: credit on streams and connection
        MCConnFlow, ConnFlowProofs
    SendBuf            operators: the send buffer
      SendStream       one stream's send side, network and peer
        MCSendStream, SendStreamProofs
    SendQueue          abstract specification of the send side; SendStream implements it
    RecvBuf            operators: the receive buffer
      RecvStream       one stream's receive side (also the module of its run)
        RecvStreamProofs
    StreamLimits       both endpoints: stream counts (also the module of its run)
      ConnFlowProofs   (extends StreamLimits as well)
    FecScheduler       the sender's repair schedulers, encoder window and timer
      MCFecScheduler, FecSchedulerProofs
    Recovery           loss recovery of one path through the handshake and after it
      MCRecovery, RecoveryProofs
    ConnIds            connection ids, issuer and user (also the module of its run)
      PathsProofs      (extends ConnIds as well)
    Paths              paths of one endpoint and its end (also the module of its run)
      PathsProofs
    Http3              the receive side of HTTP/3
      MCHttp3, Http3Proofs
    Ranges             operators: sets of packet numbers
      PktSpace         the application packet number space and the peer's key updates
        MCPktSpace, PktSpaceProofs

**FlowControl** turns each method into an operator on a record.  `autotune_window`
compares the time since the last update with twice the RTT; the outcome is the argument
`recent`, chosen by the caller's `\E`.

**ConnFlow** has one variable per field: `flow_control`, `rx_data`, `almost_full` of
the receiving connection; per stream `sflow` (the controller in `RecvBuf`), `received`
(`len`), `off`, `drain`, `reset`, and `ready`, how far the data is contiguous; the sets
`almost_full_streams`, `stopped`; on the sending side `max_tx_data`, `tx_data`, `smax`
(`SendBuf::max_data`), `soff` (`off`), `emit_off`, `closed`, `stop_error` and
`reset_queue`.  Frames in transit are sets, so they are reordered freely.  Data is
counted, not stored: a STREAM frame may end anywhere within what was emitted, and the
part that becomes readable is anything the buffer could yield.  That over-approximates
`RecvBuf`, which RecvStream models exactly.  Every action that emits a frame has both
outcomes of `push_frame_to_pkt!` (`fits`) where the code changes state before it.  A
loss may be spurious: the frames are scheduled again and arrive nevertheless.

**SendBuf** and **SendStream** keep the chunk list, positions and splits of the code.
Bytes are their offsets.  `acked` is the set a `RangeSet` stands for, together with a
flag for "some range was inserted", on which `is_complete` depends for empty streams.
A packet is a record in a bag: its range, FIN, whether it was declared lost while it
may still arrive, whether its source symbol was recovered, and what the peer has of it.
`DeclareLost` and `ProbeTimeout` are the two ways frames get on the list of lost frames
(`detect_lost_packets`, `on_loss_detection_timeout`); `LostStream` is the loop in
`send_single` that works the list off.  In the code that loop runs at the next `send`;
here it is part of the step that fills the list, because no handler reads the buffer in
between except acks, and an ack of a packet that is on the list for a probe timeout
commutes with the loop up to bytes that are sent once more.

**SendQueue** is what the send side promises, without chunks: pending bytes, packets,
acked bytes.  `ImplementsQueue` maps `Pending(send)` to its `pending`.

**RecvBuf** and **RecvStream** keep the chunk map.  Its loops are recursive functions: those
over the map count through its keys (`Overlapped` in `write`, `ReadAll` in `emit`), and the one
over `tmp_bufs` (`Store`) through its rounds, of which there are at most one more than the
frame has bytes, since what a round leaves for later is shorter (`StoreTurns` and `Left` in the
proofs show that nothing is then left).  The peer decides its final size once, and may send the
last data first without and then with FIN; `late_fin` is history: a FIN without anything new
reached a stream that was read to its end.  No action reads it, as none reads `passed_over` of
SendStream (`send_single` took a stream with data out of the queue because its header did not fit)
or `empty_charged` of ConnFlow (what empty STREAM frames added to `rx_data`).  The three mark the
cases in which the code does not keep `EndReported`, `FlushableQueued` and
`NoFlowControlError`, so that these can be stated exactly: see "Exceptions" in section 3.

**StreamLimits** names streams by their sequence numbers, opens them with gaps, accepts
them in any order, collects them, and sends, loses and reorders MAX_STREAMS.

**FecScheduler** has the state of both schedulers in one record `sch` (`alg` says which
is in use) and the parts of the connection they look at: streams with written, sent and
pending blocks, the flushable queue, `tx_data`, packets in flight, lists of lost frames,
probe count, and the window of the encoder.  `should_send_repair` changes state and
returns an answer, and `send` calls it twice, in `write_pkt_type` and again before the
REPAIR frame: `Consult` is the state after a call, `ShouldSend` its answer, and
`SendSingle` and the four actions on top of it make both calls in the order of the
code, with the lost-frames loop between them.  Data comes in blocks that fill a packet,
time is the one comparison the background scheduler makes (`Tick`), and the loss
estimate, a floating-point average, is any member of `Losses` at every call.  `app` is
the event loop: it calls `send` until `Done`, then sleeps until a packet, a call of the
application or `timeout()` wakes it up.

**Recovery** is the `Recovery` of one path in a record `r`: for every packet number
space the packets in the list with the instants they were sent and lost, the set that is
acked, `largest_acked`, `loss_time`, the time of the last packet that elicits an ack,
`loss_probes` and `in_flight_count`; and the timer, `pto_count`, `bytes_in_flight` and
`pkt_thresh`.  Time is relative: now is always 0 and `Tick` moves every instant one into
the past, saturating where no comparison of the code can tell ages apart, so the state
space is finite without a bound on time.  An `Option<Instant>` is a set with at most one
member.  The estimate of the round trip is one of `Rtts` and may change with every ack;
`Longest` is as long as any of them.  Packet numbers are shared by the paths of a
connection: `SendElsewhere` takes one for a packet of another path, and as every ACK frame is
handed to every path, `RecvAck` takes any set of numbers of a space that were sent, ones of other
paths included, which raise `largest_acked` too.  `Timeout` is the branch of
`on_timeout` for this timer.  The steps of the handshake (keys, completion, confirmation,
Retry) are external, and what they do to recovery, `drop_epoch_state`, is not.  It is
kept apart from SendStream, which takes the outcomes `DeclareLost` and `ProbeTimeout` in
any order and is therefore more liberal than their detection.

**ConnIds** has both ends of one direction.  An id is its sequence number; the queue of
destination ids keeps the order of arrival, since `partition_point` is applied to it:
the model takes every index a binary search over an unsorted queue may return.
The loops over retired entries and over paths without an id are recursive functions
(`SwitchAll`, `Allocate`), one turn of the loop per step.
A NEW_CONNECTION_ID below `retire_prior_to` is retired at once, for which the set of ids
to retire must have room (`MayRetire`).  A packet that arrives with an id that is gone ends the connection, as its
application hands it in.  The field `active_scid_seq` of the issuer's paths, which
`retire_scid` resets, is left out: the choice of the id for long headers, statistics and the guards
of migration read it, and nothing in this direction.
`given_up` and `told` are history.  The paths (`routes`, to tell them from the `paths` of Paths)
have what the ids need to know of them: the id in use and the active flag.  The specification is
`IdsSpec`.

**Paths** is one endpoint, server or client, from the first packet to its end.  A path is
a record with the fields of `Path`; a challenge in flight is its size; loss recovery is
one bit (`armed`) and so is the id of the path (`dcid`).  `sent` and `received` count the
bytes exchanged with an unverified address and `reported` is the path the application
was told of last; neither is read by an action.  Every receive action is a whole
datagram: credit first, then the frame, then ids for paths that lack one, then the
question whether the peer migrated.

**Http3** reads tokens: a varint is one token, and so is a byte of a payload.  A payload other
than that of DATA is told apart by its first token: SETTINGS that enable datagrams
(`H3_DATAGRAM`), or one that cannot be decoded (`Malformed`).  A
`scenario` is what the peer sends on every stream, and whether datagrams were negotiated; tokens arrive in any portions, with
FIN, RESET_STREAM, STOP_SENDING and acks in between.  `q` is what QUIC keeps of a stream
(an abstraction of RecvStream), `h` is `h3::Connection` with the parser state of every
stream.  `Process` and `ReadBody` are the loops of `process_readable_stream` and `recv_body`,
one turn of the loop per step of a recursive function, and `PollCritical` and `PollReadable` those of
`poll`.  A turn takes a token unless it handles a payload that is complete, which bounds the first
loop by `MaxTurns`; one of `recv_body` takes a byte of the buffer.  `Heard` is a reference that
knows nothing of the code: it reads the tokens of a stream one by one and keeps what a message
says.  `reading` makes the application follow the
documentation of `Event::Data`: after the event it calls `recv_body` until `Done`.

**Ranges** has the two representations of `RangeSet` with an insertion each, as in the
code, the conversions between them and the capacity.  Either insertion ends in a `Splice`: the
ranges from p to q become one.  **PktSpace** is what `recv_single`
and `send_single` do to a `PktNumSpace`: packet numbers are cut to their length and
completed again, packets are checked against `PktNumWindow`, opened with the key that the
key phase and `pn_on_update` select, and put on the list of packets to acknowledge, from
which ACK frames that arrive take them off again.  A key is its generation; a
packet opens only with the key and the number it was sealed with, which is what the AEAD
guarantees.  `pkts` and `own` keep everything both sides ever sent, and any of it may arrive
at any time, once, twice or never; `received` and `removed` are for the properties.
Numbers have bytes of `BYTE` bits and the window has `WINDOW`; the assumption that
`WINDOW <= 2 * MAX_ACK_RANGES` (128 and 68 in the code) is what `AcksNewest` needs.

Constants that bound the model and nothing else: `AppLen`, `MaxLen`, `MaxPkts`,
`MaxLosses`, `MaxProbes`, `StreamCount`, `EmptyFrames` (on `empty_charged`), `MaxBackoff`, `MaxChanges`,
`MaxSeq`, `MaxResends`, `MaxReceived`, `MaxFlight`, `Scenarios`,
`Bounds`.  The others are configuration
(`InitMaxData`, `Max…Window`, `SEND_BUFFER_SIZE`, `MaxStateBuf`, …) or switch behaviour on that some
deployments do not have (`UseFec`, `MayShutdown`, `MayStop`, `MayReset`,
`TightPackets`, `DgramsNegotiated`, `Algorithms`).

## 3. Runs

| Run | Checks | Bounds and why they are enough |
|---|---|---|
| `conn_flow_safety` | `TypeOK`, `NoFlowControlError`, `StreamCredit`, `ConnCredit`, `CountersAreSums` | two streams, one of which both ends may shut down; four bytes on that one and one on the other, against limits of two on both levels, so that both block; two MAX_DATA may be in flight and overtake each other; a connection window that tunes from 2 to 3; one loss, real or spurious; empty STREAM frames that overtake the data they follow, so that `conn_error` is reached by data and by an empty frame |
| `conn_flow_liveness` | `LimitsNeverShrink`, `AllRead` | one stream, four bytes through a window of two that tunes to three: two updates, two losses, real or spurious; the connection limit is raised once, and large enough never to be used up |
| `send_stream_safety` | `ChunksInOrder`, `FinalSizeStable`, `FlushableQueued`, `ImplementsQueue` | three bytes in chunks of two and frames of one or three: frames end inside chunks and span them, so splits, rewinds and drops all occur; two packets in flight and a loss or probe give the same byte pending, in flight and acked; FEC, shutdown, STOP_SENDING, a raised limit and packets without room for the header are on |
| `send_stream_liveness` | `AllReceived`, `Completes` | two bytes, two losses, no resets, no FEC, and room for every header |
| `recv_stream_safety` | `StoredIsUnread`, `NotStuck`, `FinMeansAll`, `EndReported` | six bytes: enough for a frame that overlaps two separated chunks and reaches beyond both; resets, shutdowns, and FINs without data, early and late |
| `stream_limits_safety` | `NoStreamLimitError`, `ConcurrentBound`, `OpenedUnlessLost` | limit three, seven streams: two rounds of updates, one loss |
| `fec_scheduler` | `RepairsCounted`, `BurstSizeExact`, `RepairProtects`, `TailProtected` | two streams of one block each, one of which may be reset; both schedulers; thresholds scaled so that a flight of one and two packets is below, and of three above, the one at which the formula changes; a burst is two blocks; one loss and one probe timeout, so that a packet is rescheduled, acked and declared lost in any order |
| `recovery` | `Accounting`, `TimerInTime`, `TimeoutActs` | both roles; one Initial, one Handshake and three 1-RTT packets, so that a packet can be lost by the packet threshold, by time, and acked late; numbers that another path took, acked in between; a packet threshold that grows from 1 to 2; one doubling of the probe timeout; one restart, one path change |
| `conn_ids` | `TablesBounded`, `PathsLinked`, `DroppedIsReleased` | two active ids at a time of four in all: the table of the issuer gets to its limit of three and is recycled; two paths, two repeated frames |
| `paths` | `AmplificationBound`, `MigrationReported`, `ValidationPursued` | both roles; two slots, so that making room and migrating back and forth happen; datagrams of 1 or 2 units against probes of 3 and a full size of 4: credit runs out, probes are too small for the MTU; validations fail after the second timeout |
| `http3` | `NothingForgotten`, `DeliveredInOrder`, `Verdict`, `EndIsLast` | 16 messages with one or two frames of body, split at every token; two requests at once; six sets of control, QPACK, push and unknown streams; 22 mistakes, one each; buffers of one byte and of everything |
| `pkt_space` | `AcceptsExactly`, `AcksNewest`, `KeysFollow` | eight packets against three ranges, a window of four and bytes of two bits: sets are full, duplicates fall out of the window, and numbers wrap; or five packets, two ACK frames and two key updates, the second of which waits for the first |

The runs say `CHECK_DEADLOCK FALSE` where the system may stop: a transfer that is over, or
a connection that is closed, has no next step.  `http3` and `pkt_space` check
deadlock, since an application can always poll, and always call `send`.

### Exceptions

Three properties hold with one exception each, which the code does make; a history variable
that no action reads marks it, and the run reaches it.

- `NoFlowControlError` and `CountersAreSums` (ConnFlow, `empty_charged`): an empty STREAM frame
  that overtakes data is charged to `rx_data`
  (`lib.rs:7690`), while `RecvBuf::write` returns before it advances `len`
  (`stream/recv_buf.rs:120`).  The data is charged a second time, and a peer within its
  limits is closed with `FlowControl`, "The peer violated the local flow control limits."
  (`lib.rs:558`).  The error needs `empty_charged > 0` and `tx_data + empty_charged` beyond
  the limit: without such frames it is unreachable.
- `FlushableQueued` (SendStream, `passed_over`): `send_single` assumes a header of at
  most 12 bytes (`lib.rs:4787`), and a stream whose header is longer and does not fit leaves the queue
  with its data, until something else queues it.  `TightPackets` switches this on: it
  is on in `send_stream_safety`, and off in `send_stream_liveness`, whose
  promises it breaks.
- `EndReported` (RecvStream, `late_fin`): a FIN on data that was already read
  completes the stream without making it readable (`stream/recv_buf.rs:127`); nobody is told,
  and nobody collects the stream.

### Other deviations

The modules state promises that the modelled code does not keep.  Each can be seen
by giving the named formula to TLC, with the configuration of the module's run and the
constants in parentheses.

Streams and flow control:

- `AllRead` (ConnFlow, one stream, `FairSpec`, `AppLen` 3, `InitMaxData` 2, windows of 2,
  one loss): a lost MAX_DATA is not sent again.  Its limit is committed, and the guard of
  the frame (`lib.rs:4345`) waits for consumption that a blocked peer cannot cause,
  although quiche "will allow more data to be received as the buffer is consumed by the
  application" (`lib.rs:1210`).
- `Completes` (SendStream, `FairSpec`, `UseFec`): the frames of a recovered packet are
  neither acked nor resent (`lib.rs:3892`), so a stream that is fully received is never
  complete and never gives its credit for a new stream back (`lib.rs:1278`).
- `FinReceived` (SendStream, `FairSpec`, two losses): `is_complete` looks at acked bytes
  only (`stream/send_buf.rs:437`): a lost FIN of a stream that was collected is never
  repeated, against `lib.rs:5327`.
- `CompleteCollected` (RecvStream): the FIN of `late_fin` above.
- `CreditReturned` (ConnFlow, two streams, one in `ResetStreams`, windows of 2): bytes
  dropped by a reset or by `stream_shutdown(Read)` are never counted as consumed, so
  the connection's credit leaks.
- `FinPending` (SendStream, any): an empty FIN waits in the queue, an earlier frame is
  lost, and the frame that repeats the data takes the stream out of the queue.
- `LenIsPending` (SendStream, `MaxLosses` 1): `ack_and_drop` drops chunks that were
  rescheduled and leaves their bytes in `len`.
- `CleanEnd` and `ResetReceived` (SendStream, `MayShutdown`): a stream that is shut down
  while queued emits an empty FIN at the truncated size; the ack of an older packet
  collects the stream, and a lost RESET_STREAM is then not repeated.
- `ResetNotified` (RecvStream, `MayReset`), and `CompleteCollected` with `MayShutdown`: a
  reset after the FIN notifies nobody, and a stream that is shut down for reading after
  its end arrived is not collected.
- `AllOpened` (StreamLimits, one loss): the loop over lost frames has no case for
  MAX_STREAMS, whose limit was committed when it was sent: the peer stays blocked.
- `TailProtected` (FecScheduler, `DgramsNegotiated`): the schedulers take
  `dgram_max_writable_len().is_some()` for "there are datagrams to send"; it is true
  whenever datagrams were negotiated, and then no repair symbol is ever sent.
- `OnlyWhenIdle` (FecScheduler): a round of the bursts scheduler goes on when new data
  was written meanwhile, although redundancy is to be sent "only when there is no user
  data to send" (`fec/fec_scheduler.rs:24`).
- `DoneMeansNotDue` (FecScheduler): with a full congestion window, or no symbol left in
  the encoder, `timeout()` stays in the past while `send` returns `Done`, and an event
  loop that waits for it spins.

Recovery:

- `CwndIgnoredForProbes` (Recovery): probes may be asked of a space whose keys are gone,
  and the congestion window is ignored until it sends one, which it never does; "Ignore
  cwnd when sending probe packets" (`recovery/mod.rs:792`).
- `loss_time_and_space` compares options, and `None < Some`: a space without a loss time
  hides those of the spaces before it.  `TimerInTime` is stated from the confirmation
  of the handshake on, when one space is left.
- `pto_count` has no limit, and `2_u32.pow` of it overflows at 32; the model stops at
  `MaxBackoff`.
- A server's 0.5-RTT packets may be outstanding without a timer until the handshake ends.
- A client never sends an MTU probe: `should_send_pmtu_probe` asks for `handshake_done_sent`
  (`path.rs:339`), which only a server sets.

Connection ids and paths:

- `RetiredNotInUse` (ConnIds): the handler is "to make sure retired connection IDs are not
  in use anymore" (`lib.rs:7800`), but a
  repeated NEW_CONNECTION_ID of an id that was retired is taken for a new one and given
  to a path, which sends to it while it waits to be retired again.
- The loop over ids to retire (`lib.rs:4425-4433`) takes the same front element again when
  that is the id of the sending path, and does not end; ConnIds sends another one or none.
- A packet that was sent before the peer retired its id and arrives after it ends the connection with
  `InvalidState` (`lib.rs:8189`), if the application passes it on and its path is known.
- A repeated RETIRE_CONNECTION_ID that finds one id left, and a NEW_CONNECTION_ID to be
  repeated for an id that is retired already, end the connection (`err` in ConnIds is then
  not "None"; `DroppedIsReleased` is stated for connections that go on).
- `split` (Paths) records that two paths are active at once, against "There can be
  exactly one active path" (`path.rs:789`): a path that lacks an id, or failed, when another
  becomes active keeps its flag.  A client that migrates onto a path that failed has none.
- A verified path fails with one lost challenge if its credit is used up, since
  `path.rs:458-463` does not ask whether the address is limited.
- The padding of a datagram with an Initial packet is added after the packet was charged
  (`lib.rs:3714-3722`): `AmplificationBound` excepts the path of the handshake.
- A challenge that was acked, and whose response is lost, is never given up: no packet
  is in flight, so no timer fires, and the path stays in validation.

Packet numbers and acknowledgments:

- `NewestDecoded` (PktSpace, `BYTE` 3, `Bounds` {[pkts 9, own 1, gen 0]}): `pkt_num_len` gives
  one bit less than twice the distance to the largest acked packet needs
  (`packet.rs:558`): after 128 packets in a row were lost the next one cannot be decoded
  and is dropped.
- A full B-tree of ranges drops its smallest range before it inserts the new one
  (`ranges.rs:305`), which stays even if it is smaller, against "it will remove the smallest
  range" (`ranges.rs:65`).  The window of duplicates keeps this from `recv_pkt_need_ack`;
  nothing keeps it from `recovered_symbols_need_ack`.
- An acknowledged ACK frame removes everything up to its largest number (`lib.rs:3228`), late
  packets that it did not list included: they are never acknowledged.  `AcksNewest`
  excepts them with `removed`.
- `update_acked` is set whenever a 1-RTT packet is being built (`lib.rs:4209`), with an ACK
  frame in it or not.

HTTP/3:

- `NothingForgotten` (MCHttp3, `Scenarios <- EmptyData`): an empty DATA frame in front of
  another frame: `recv_body` returns `Done` with the event still marked as raised, and
  `poll` reports neither Data nor Finished again.  It is the same with an empty frame of another
  type behind a DATA frame, if `recv_body` reads its header.
- `ResetTold`: a reset after a FIN with unread data, followed by the last ack, collects
  the stream before the application hears of either.
- `ResetNotFinished`: a reset in the middle of a body is reported as `Finished` when
  `recv_body` meets it.
- `EndedOnce`: sending the last of an answer removes the HTTP/3 stream, and what is left in
  QUIC's readable set makes a new one, with an end of its own.
- The limit of PRIORITY_UPDATE is one stream too high (`> max_streams_bidi() * 4`), and
  frames cut short by a FIN are reported as `Finished`.

### Fairness

`Fairness` of ConnFlow and `LimitFairness` of StreamLimits make sending a due frame,
receiving a frame that is not lost, and the applications' reads and writes weakly
fair.  The code justifies it as far as the event loop does what the documentation asks (call `send`
until it returns `Done` after every `recv` and timeout, read what is readable);
`send_single` visits every queue in each packet.  Losses, shutdowns and resets are
never forced, and their number is bounded.  In SendStream, `SendStreamFrame` is
strongly fair since the bound on packets in flight, which the code does not have in
this form, would otherwise disable it for ever; delivery and acks are fair per offset.
`SkipStream` is never fair.  FecScheduler's `FairSpec` assumes only that the application
calls `send` until it returns `Done` and again when `timeout()` has passed, and that
time passes (`Send`, `Wake`, `Tick`): no ack, loss or write is forced, since the
scheduler's own timer has to be enough.

## 4. Proofs

TLAPS proves the following for every value of the constants.

**ConnFlowProofs.**  `CreditInvariant`: `Spec => []CreditInv`.  `StreamCredit` and
`ConnCredit` alone are not inductive: a MAX_DATA frame in transit could carry any limit,
so `FramesWithinLimits` says that it is one the receiver enforces; a repeated
MAX_STREAM_DATA recomputes `consumed + window`, so `UpdateDue` says that a stream is
queued for it only when this is at least the current limit, and that needs windows that
never shrink (`WindowsWithinCaps`, from `WindowAssumption` about the configuration).
From it follow `StreamCreditHolds`, `ConnCreditHolds`, `TypeCorrect` and, as an action
property, `LimitsMonotone`.  One lemma per action that touches a controller, one step
per action in `CreditStep`.  Empty STREAM frames are included.

**SendStreamProofs.**  `BufferImplementsQueue`: the chunk list implements that queue
(`ImplementsQueue`, which TLC checks for three bytes) for streams, chunks and packets of any
size.  `QueueInvariant` is about the queue itself (`Queue!Spec`): its invariant adds to
`NoByteForgotten` and `AckedIsReceived` that packets carry only sent bytes and that their marks
(arrived, decoded, recovered) are truthful, which is what makes dropping a recovered packet
harmless for the data.  `NoByteForgottenHolds` and `AckedIsReceivedHolds` carry both over to
the buffer; `ChunksInOrderHolds`, `FinalSizeHolds` and
`FlushableQueuedHolds` are theorems of the buffer.  The
inductive invariant `StreamInv` rests on `Tidy`: the chunks are adjacent and end at `off`
(`Chain`), those before `pos` are sent, every byte from `emit_off` on waits, and a byte
that is not acked is in a chunk.  The last part, which `ChunksInOrder` lacks, is what a
retransmission needs: it asks for bytes that the buffer must still hold.  `ResetIsOver`,
`FinalIsSent` and `CollectedIsDone` tie the flags to the
buffer; that a FIN or reset was announced only when all before it was sent makes the final
size stable.  There is one lemma per method of `SendBuf`, which says what it does to the set of waiting
bytes (`WriteAppends`, `EmitTakes`, `AckDrops`, `RetransmitRequeues`, `ResetEmpties`), and one per
group of actions.  `SendBuf::len` is not in the theorems: it is not the number of pending
bytes (`LenIsPending`, "Other deviations").

**RecvStreamProofs.**  `TypeCorrect`, `StoredIsUnreadHolds`, `NotStuckHolds`, `FinMeansAllHolds`
and `EndReportedHolds`, for streams, frames and reads of any size, with resets and shutdowns or
without, and for any peer, whether its FIN comes with the last data or after it.  The inductive invariant `RecvInv` says that the buffer is `Tidy`: chunks
have keys of their own and do not overlap (`Sorted`), lie between what was read and `len`, an
empty one is at the final size, and `len` is the final size once that is known.  `Neat` is the
part of it that holds within `write` and `reset` too, where `fin_off` and `off` are ahead
of `len`.  `SizeKept` says that the peer keeps to its size.  A stream is read to its end without a word
only by a frame that brings nothing but the FIN, and that frame sets `late_fin`; so
`EndReported` is proved with the one exception that its comment names.  Each loop is shown to
be what its turns compute (`OverlapTurns`, `ReadTurns`, `StoreTurns`) and has an
invariant of its own: `Scanned` for the scan (every byte of the frame is stored, in what is left in front,
or in what waits for a later round, and the front is clear of the chunks passed), `Going` for the
rounds, `Reading` for `emit`.  A scan that ran to its end leaves a front that can be inserted without
replacing or overlapping a chunk (`Settled`, `Inserted`), which is what `BTreeMap::insert` by end
offset relies on.

**ConnFlowProofs, the streams.**  `NoStreamRefused`, `CountsWithinLimits` and
`ConcurrentStreamsBounded` are about `LimitSpec` of StreamLimits, which the module extends next
to ConnFlow (hence the names with `Limit` there).  The inductive invariant `LimitsInv` orders the limits (the
peer's, the ones in transit, the committed, the next) and says that there is exactly one
credit per collected stream; the bound on concurrent streams follows by counting.

**FecSchedulerProofs.**  `TypeCorrect`, `RepairCount`, `BurstSizeHolds` and, as an action
property, `RepairUseful`, for any streams, symbol sizes, congestion windows and loss estimates.
`RepairProtects` needs to know what is in the encoder's window, and the code never
compares the window with the packets in flight: `WindowInFlight` says that every symbol
in it has landed, or its packet is in flight or waits in the list of lost frames.  The
lost-frames loop runs before a repair symbol is made and empties that list, so the
symbols left are in flight.
`FlightFinite` is there for the cardinality in `bif`.  The proof has one lemma per
operator of the schedulers, one for `send` and one step per action.
`BurstSizeExact` compares two numbers that are taken at different times, `tx_data` now and
when there was last nothing to send, and a reset lowers `tx_data` in between.  `BurstInv`
splits both into streams: `tx_data` is the sum of what was written and `idle_tx` at most
the sum of what was sent, since an empty queue means that all that was written was sent
(`UnsentQueued`), and a reset gives back only what was not.

**ConnFlowProofs, the counters.**  `CountersAreSumsHolds` and `NoFlowControlErrorHolds`, for
any number and any charges of empty frames.  `CountInv` adds to
`CreditInv` that `rx_data` and `tx_data` are sums over the streams, `rx_data` with
`empty_charged` on top, that the connection's
`consumed` is at most the sum of what the streams have read or dropped, and that an error takes
a limit below `tx_data + empty_charged` (`OnlyCharged`).  A frame is refused
if it makes a sum exceed the limit; the sender's own sum is larger and within a
limit that the receiver has granted, so only the charges can make the difference, and
there is no error without them.  The streams are any finite set.

**RecoveryProofs.**  `AccountingHolds`, `TimerInTimeHolds` and, as an action property,
`TimeoutActsHolds`, for any number of packets, any estimates, thresholds and horizons.  The
inductive invariant says of the record `r` that what is acked or lost is in the finite list of
sent packets, whose numbers are below the next one and whose instants are in the order of
the numbers (`Listed`, `Numbered`, `Ordered`), that the 1-RTT loss time is that of a packet
that may still be lost, and early enough (`LossTimed`), that a probe timeout has an instant to
start from (`ProbeTimed`) and that the counters count (`Counted`); of the
handshake, which keys are left at its stages and that a space without keys has nothing sent
(`Stages`, `KeylessCleared`); and, after confirmation, that the timer is armed in time
(`ArmedFor`).  The proof of `TimerInTime` failed for the first form of that property, and TLC
then showed a behaviour outside the run's old bounds: a client's Application ack sets
`loss_time` with a long estimate, a Handshake ack shortens the estimate, HANDSHAKE_DONE
confirms, and `on_path_change` computes the loss time again without setting the timer
(`recovery/mod.rs`).  The timer is then later than the estimate now in force asks for,
and never later than the longest one, which is what the property now says.

**PathsProofs.**  `TypeCorrect`, `AmplificationBoundHolds`, `ValidationPursuedHolds` and
`MigrationReportedHolds`, for every number of slots, sizes of datagrams and bounds.  Each
path is `Good`: it has its type, one with challenges in flight has an id and is under
validation (`Probed`), a validation is pursued even on a path whose flag is set but that
lacks an id (`Pursued`), and a migration to a path that is not validated is still to be
reported (`Deferred`).  The amplification bound is not about the credit left but
about bytes exchanged; `Within` adds the credit to what was sent.  `Told` carries `MigrationReported` through the
states in which the active path is not validated yet, and `Single` says that two paths are active
only if `split` was set.

**PathsProofs, the connection ids.**  `IdsTypeCorrect`, `TablesBoundedHolds`, `PathsLinkedHolds`
and `DroppedIsReleasedHolds` are about `IdsSpec` of ConnIds, for any limits and numbers of
paths; the inductive invariant is `IdsInv`.  The properties are
inductive together with the types and `HandedOut`, which says that what is in transit or
in a table was issued.  The two loops are proved by
induction on the number of turns: `PathsLinked` in the state the loop has reached is
the loop's invariant.

**PktSpaceProofs.**  `AcceptsExactlyHolds`, `AcksNewestHolds` and `KeysFollowHolds`, for any
number of packets and key updates, any loss, delay, duplication and order, and any sizes of bytes,
window and sets within `PktSpaceAssumption`.
Of the range sets, `InlineInserts` and `BTreeInserts` show that either insertion replaces exactly
the ranges the item touches (`Place`, which determines p and q) by their hull, so that
the list stays sorted with gaps (`Gapped`) and denotes the old set and the item
(`InsertIs`); at capacity one range is dropped, the first one or, if the new one is
first, the second.  `DecodeIs` shows that the decoded number is the one number that ends like the
header's and lies within half a window of the expected one, or in the first window.
The inductive invariant `PktInv` has four parts.  `WindowIs`: the window of duplicates ends at the
largest packet and knows exactly what was processed in it.  `AcksAre`: the ranges hold processed
packets; a packet that fell out of them without being removed is older than those in them
*and below the window*.  The second half is what makes it inductive: nothing that arrives from now
on can be older still, so a late packet never gets in front of what was dropped.  It holds
because full ranges are `Spread` over at least `2 * MAX_ACK_RANGES - 1` numbers and `WINDOW` is at most twice
`MAX_ACK_RANGES`; for the same reason the quirk of the B-tree (section 3) never drops the second range
here.  `OwnIs`: what was acknowledged was processed, with keys that were
known.  `KeysAre`: generations grow with packet numbers, and the peer has updated only
when a packet of the generation before was acknowledged, which the endpoint does with that
generation or a newer one; so a second update in a row arrives only after `send` has set
`update_acked`, and is never refused.
`AcksNewest` also says that a frame is read as it was written: after j blocks the parser holds
exactly the last j ranges (`ParsedIs`, `ParseTurn`).

**Http3Proofs.**  `InOrder` states `DeliveredInOrder`, for any set of streams, any scenarios,
legal or not, any portions of arrival, resets, STOP_SENDING and answers, and buffers of any
size.  `Invariance` is the inductive invariant `IInv` under it.  That the application has a prefix of what
arrived does not say where the parser is, and the next byte of a DATA frame could be
anything.  `InStep` says where: in every state of the parser the reference `Heard`, after the
tokens that were read, expects the same kind of token, of the same frame and with as much of the payload
left; what was told is then all that was heard, but for a HEADERS frame that is read and not
handled (`Pending`).  Three things break the step, and `Going` and `Tracked` make room for
each: a stream of which nothing can be read any more (`Spent`: shut down, reset or read to its
FIN), where a frame may have been cut off or bytes were lost with an error; a
connection that was closed in the middle of a call, where `process_frame` fails before the
parser moves on, provided that no DATA frame is open, since `recv_body` goes on after a close;
and a stream that HTTP/3 has forgotten and starts again, which it may do only where nothing was
read or nothing is left.  The invariant is stated of a connection and of what was told (`Good`),
so that it can be followed from call to call inside `poll` and `recv_body`; there is one lemma per
operator, and the two loops are inductions on their turns with `Settled` and
`BodyOk` as invariants.  TLC checked `IInv` on the run's scenarios before it was proved.

**Induction.**  The library's induction theorems take an operator, which the provers
cannot instantiate.  `Induction` in these modules is stated about a *set* instead (0 is in it,
and k is if k - 1 is) and proved from the well-foundedness of `<` by the smallest
counterexample; `SetInduction` is the same for the subsets of a finite set.  With it a
recursive function, or a fold of the library, is shown to exist and to satisfy its
equation, and what it computes is shown turn by turn.

**What the attempts changed.**  `TimerInTime` as told above.  Two `CASE` expressions of
Paths had overlapping guards, whose value TLA+ leaves open and TLC takes from the first; they are now
`IF`s in the order of the code.  `told` had no type in ConnIds.  `IsFiniteSet(Streams)` is now
assumed in ConnFlow and FecScheduler.  `retransmit` was one expression with a
concatenation; it is now the code's steps by name (`Hit`, `Rewind`, `split_off`, and an insertion
in `Rescheduled`), with the same states under TLC.  The loops of `RecvBuf` were RECURSIVE operators, which the prover
does not take; as recursive functions they give the same states too.  In Ranges the insertions were
written with `SelectSeq` and `InsertAt`, and the parser of ACK frames as a fold over an operator;
they are now `Splice`, `RemoveUntil` and a recursive function, and powers of two are
`Pow2`, again with the same states.  In Http3 the loops were RECURSIVE operators and folds; and the
reference for what a message says was too: it is now `Heard`, which can be followed
token by token.  `Ids` is assumed to be a finite set of numbers.  ConnIds and Paths had names in
common, and those of ConnIds were changed, so that one module can prove about both.  `AcksNewest` needs `MAX_ACK_RANGES < Unlimited`, which is now assumed:
a parsed frame with more ranges than a set can hold would lose some.

Assumptions: `ConstantsAssumption`, `WindowAssumption` (ConnFlow), `LimitsAssumption`
(StreamLimits), `FecAssumption` (FecScheduler), `RecoveryAssumption` (Recovery),
`PathsAssumption` (Paths), `ConnIdsAssumption` (ConnIds), `BufferSizeAssumption` (SendBuf),
`StreamAssumption` (SendStream), `RecvAssumption` (RecvStream), `RangesAssumption` (Ranges),
`PktSpaceAssumption` (PktSpace), `ScenariosAssumption` and `BoundsAssumption` (Http3).  `WindowAssumption` is what the code
expects of a configuration without checking it; the others are types, finiteness, the order of
thresholds and, in PktSpace, the proportion of two constants of the code.

Only model-checked: all liveness properties (the provers have no `ENABLED`); and of HTTP/3
`NothingForgotten`, `Verdict` and `EndIsLast`.  The first two are about states in which the
application has asked for everything, and need an account of the readable set, the
queue of finished streams and the event flags that `IInv` does not keep; `Verdict` depends besides
on `legal`, which a scenario states and the model does not compute.

## 5. Not modelled yet, and the plan

1. **Proofs**: `EndIsLast` and `NothingForgotten` of HTTP/3, on top of `IInv`.
2. **StreamQueues**: readable, writable and flushable streams by priority.
3. **Pmtud**: the search over packet sizes; several probes of one size may be in flight, and
   `probe - cur_size` can wrap (`pmtud.rs:73`).
4. The FEC decoder's window at the receiver, and datagrams: a packet that was recovered and
   arrives late is processed twice, which STREAM frames bear and DATAGRAM frames may not.
5. The sending half of HTTP/3: control streams, GOAWAY, SETTINGS.
6. Reno and HyStart++ on top of Recovery.

Not planned: TLS and cryptography (external libraries), wire encodings and QPACK
(without state), CUBIC and delivery-rate arithmetic in floating point, the C interface,
logging, example applications, fuzz targets and the nginx patch.
