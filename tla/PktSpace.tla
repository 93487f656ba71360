------------------------------ MODULE PktSpace ------------------------------
(***************************************************************************)
(* The application packet number space of an endpoint (packet.rs, and        *)
(* recv_single() and send_single() of lib.rs): how numbers are cut off for    *)
(* the header and found again, which packets are taken for duplicates, what  *)
(* the ACK frames list, and the key updates of the peer.  The packets of      *)
(* both sides are lost, delayed, reordered and duplicated: whatever was sent  *)
(* may arrive now, again, or never.                                          *)
(*                                                                         *)
(* A key is its generation; the key phase bit of a packet is the parity of     *)
(* it.  A packet opens only with the key and the number it was sealed with.    *)
(* The peer updates its keys as RFC 9001 lets it, once a packet of the         *)
(* current generation was acknowledged; the endpoint never does by itself.     *)
(***************************************************************************)
EXTENDS Ranges

CONSTANTS BYTE,            \* the bits of a byte
          WINDOW,          \* the bits of PktNumWindow
          MAX_ACK_RANGES,
          Bounds           \* bounds on the packets of the peer, the ACK frames of the
                           \* endpoint and the key generations: [pkts, own, gen]

ASSUME PktSpaceAssumption ==
    /\ {BYTE, WINDOW, MAX_ACK_RANGES} \subseteq Nat \ {0}
    /\ Bounds \subseteq [pkts : Nat, own : Nat, gen : Nat]
    /\ MAX_INLINE_CAPACITY <= MAX_ACK_RANGES
    /\ WINDOW <= 2 * MAX_ACK_RANGES
    /\ MAX_ACK_RANGES < Unlimited

VARIABLES
    bound,     \* chosen once
    pkts,      \* what the peer sent: packet n is pkts[n + 1], [gen, len, acks]
    peer,      \* [gen, largest_acked, seen]: its key, and what it got of `own'
    space,     \* the PktNumSpace of the endpoint, with its key generation gen
    own,       \* the packets with an ACK frame that the endpoint sent: [last, gen, state]
    received,  \* the packets that the endpoint processed
    removed,   \* the largest number given to remove_until()
    closed     \* Error::KeyUpdate

vars == <<bound, pkts, peer, space, own, received, removed, closed>>

None == -1
Pns == 0..(Len(pkts) - 1)

-----------------------------------------------------------------------------
(* Packet numbers.                                                           *)

Pow2[k \in Nat] == IF k = 0 THEN 1 ELSE 2 * Pow2[k - 1]

pkt_num_len(pn, largest_acked) ==
    LET num_unacked == Max({pn - largest_acked, 0}) + 1
        min_bits == CHOOSE b \in 1..num_unacked : Pow2[b - 1] <= num_unacked /\ num_unacked < Pow2[b]
    IN  (min_bits + BYTE - 1) \div BYTE

encode_pkt_num(pn, pn_len) == pn % (Pow2[pn_len * BYTE])

\* Mutant: candidates half a window back are not moved forward.
decode_pkt_num_back(largest_pn, truncated_pn, pn_len) ==
    LET expected_pn == largest_pn + 1
        pn_win == Pow2[pn_len * BYTE]
        candidate_pn == (expected_pn - (expected_pn % pn_win)) + truncated_pn
    IN  IF candidate_pn > expected_pn + pn_win \div 2 /\ candidate_pn >= pn_win
        THEN candidate_pn - pn_win ELSE candidate_pn

decode_pkt_num(largest_pn, truncated_pn, pn_len) ==
    LET expected_pn == largest_pn + 1
        pn_win == Pow2[pn_len * BYTE]
        pn_hwin == pn_win \div 2
        candidate_pn == (expected_pn - (expected_pn % pn_win)) + truncated_pn
    IN  CASE candidate_pn + pn_hwin <= expected_pn -> candidate_pn + pn_win
          [] candidate_pn > expected_pn + pn_hwin /\ candidate_pn >= pn_win ->
               candidate_pn - pn_win
          [] OTHER -> candidate_pn

(* PktNumWindow: the numbers from lower on whose bits are set.                *)

upper(w) == w.lower + WINDOW - 1

InsertPn(w, seq) ==
    LET lower == w.lower + Max({seq - upper(w), 0})
    IN  IF seq < w.lower THEN w
        ELSE [lower |-> lower, window |-> {n \in w.window : n >= lower} \cup {seq}]

contains(w, seq) == seq <= upper(w) /\ (seq < w.lower \/ seq \in w.window)

-----------------------------------------------------------------------------
(* The ACK frame on the wire: <<largest, block>>, then <<gap, block>>.        *)

ACKBlocks(inner) ==
    LET it == Reverse(inner)
    IN  [i \in DOMAIN it |->
           <<IF i = 1 THEN it[1][2] - 1 ELSE it[i - 1][1] - it[i][2] - 1,
             it[i][2] - 1 - it[i][1]>>]

\* Without a range before, the first number of a pair is the largest, not a gap.
ParseBlock(a, block) ==
    LET largest_ack == IF a.smallest_ack = None THEN block[1]
                       ELSE a.smallest_ack - block[1] - 2
        smallest_ack == largest_ack - block[2]
    IN  [valid |-> a.valid /\ block[1] >= 0 /\ smallest_ack >= 0,
         smallest_ack |-> smallest_ack,
         ranges |-> insert(a.ranges, <<smallest_ack, largest_ack + 1>>)]

parse_ack_frame(blocks) ==
    LET after[k \in 0..Len(blocks)] ==
          IF k = 0
          THEN [valid |-> TRUE, smallest_ack |-> None, ranges |-> RangeSetOf(Unlimited)]
          ELSE ParseBlock(after[k - 1], blocks[k])
    IN  after[Len(blocks)]

-----------------------------------------------------------------------------
(* recv_single().                                                            *)

DecodedPn(n) ==
    decode_pkt_num(space.largest_rx_pkt_num, encode_pkt_num(n, pkts[n + 1].len), pkts[n + 1].len)

\* The key that is tried: a packet of the other phase is from before the last update,
\* or the first of the next one.
OpenKey(n) ==
    CASE pkts[n + 1].gen % 2 = space.gen % 2 -> space.gen
      [] /\ pkts[n + 1].gen % 2 # space.gen % 2
         /\ \E u \in space.key_update : DecodedPn(n) < u.pn_on_update -> space.gen - 1
      [] OTHER -> space.gen + 1

Opens(n) == OpenKey(n) = pkts[n + 1].gen /\ DecodedPn(n) = n

Accepts(n) == Opens(n) /\ ~contains(space.recv_pkt_num, DecodedPn(n))

\* Mutant: the update is noted and the keys are kept.
UpdateKeys_kept(n, x) ==
    IF OpenKey(n) = x.gen + 1
    THEN [x EXCEPT !.key_update = {[pn_on_update |-> n, update_acked |-> FALSE]}]
    ELSE x

\* The key update is verified: the packet was opened with the next key.
UpdateKeys(n, x) ==
    IF OpenKey(n) = x.gen + 1
    THEN [x EXCEPT !.gen = @ + 1,
                   !.key_update = {[pn_on_update |-> n, update_acked |-> FALSE]}]
    ELSE x

\* ACK frames of the endpoint that are acknowledged by the packet.
AckedAcks(n) == {k \in pkts[n + 1].acks : own[k].state = "sent"}

Acknowledge(x, ks) ==
    IF ks = {} THEN x
    ELSE [x EXCEPT !.recv_pkt_need_ack = remove_until(@, Max({own[k].last : k \in ks}))]

Received(x, n, ack_elicited) ==
    [x EXCEPT !.recv_pkt_num = InsertPn(@, n),
              !.recv_pkt_need_ack = push_item(@, n),
              !.ack_elicited = @ \/ ack_elicited,
              !.largest_rx_pkt_num = Max({@, n})]

Recv(n, ack_elicited) ==
    /\ ~closed /\ Accepts(n)
    /\ IF OpenKey(n) = space.gen + 1 /\ \E u \in space.key_update : ~u.update_acked
       THEN closed' = TRUE /\ UNCHANGED <<space, own, received, removed>>
       ELSE /\ space' = Received(Acknowledge(UpdateKeys(n, space), AckedAcks(n)), n, ack_elicited)
            /\ own' = [k \in DOMAIN own |->
                         IF k \in AckedAcks(n) THEN [own[k] EXCEPT !.state = "acked"]
                         ELSE own[k]]
            /\ received' = received \cup {n}
            /\ removed' = Max({removed} \cup {own[k].last : k \in AckedAcks(n)})
            /\ UNCHANGED closed
    /\ UNCHANGED <<bound, pkts, peer>>

-----------------------------------------------------------------------------
(* send_single() of a Short packet, on_timeout().                            *)

\* Packets `lost' were declared lost since; `required' is ack_elicit_required, `room'
\* whether the ACK frame fits.  A packet without one leaves no trace here but that the
\* update counts as acknowledged, which is noted even if no packet leaves at all.
Send(lost, required, room) ==
    LET elicited == space.ack_elicited \/ lost # {}
        ack == room /\ space.recv_pkt_need_ack.inner # <<>> /\ (elicited \/ required)
        marked == [k \in DOMAIN own |->
                     IF k \in lost THEN [own[k] EXCEPT !.state = "lost"] ELSE own[k]]
    IN  /\ ~closed
        /\ \A k \in lost : own[k].state = "sent"
        /\ ack => Len(own) < bound.own
        /\ own' = IF ack THEN Append(marked, [last |-> last(space.recv_pkt_need_ack),
                                             gen |-> space.gen, state |-> "sent"])
                  ELSE marked
        /\ space' = [space EXCEPT
                       !.ack_elicited = elicited /\ ~ack,
                       !.key_update = {[u EXCEPT !.update_acked = TRUE] : u \in @}]
        /\ UNCHANGED <<bound, pkts, peer, received, removed, closed>>

\* The old key is discarded.
KeyUpdateTimeout ==
    /\ ~closed /\ space.key_update # {}
    /\ space' = [space EXCEPT !.key_update = {}]
    /\ UNCHANGED <<bound, pkts, peer, own, received, removed, closed>>

-----------------------------------------------------------------------------
(* The peer.                                                                  *)

PeerSend ==
    /\ Len(pkts) < bound.pkts
    /\ pkts' = Append(pkts, [gen |-> peer.gen, acks |-> peer.seen,
                             len |-> pkt_num_len(Len(pkts), Max({peer.largest_acked, 0}))])
    /\ UNCHANGED <<bound, peer, space, own, received, removed, closed>>

PeerReceive(k) ==
    /\ k \notin peer.seen
    /\ peer' = [peer EXCEPT !.seen = @ \cup {k}, !.largest_acked = Max({@, own[k].last})]
    /\ UNCHANGED <<bound, pkts, space, own, received, removed, closed>>

PeerUpdate ==
    /\ peer.gen < bound.gen
    /\ peer.largest_acked # None /\ pkts[peer.largest_acked + 1].gen = peer.gen
    /\ peer' = [peer EXCEPT !.gen = @ + 1]
    /\ UNCHANGED <<bound, pkts, space, own, received, removed, closed>>

Init ==
    /\ bound \in Bounds
    /\ pkts = <<>> /\ own = <<>>
    /\ peer = [gen |-> 0, largest_acked |-> None, seen |-> {}]
    /\ space = [largest_rx_pkt_num |-> 0, recv_pkt_num |-> [lower |-> 0, window |-> {}],
                recv_pkt_need_ack |-> RangeSetOf(MAX_ACK_RANGES), ack_elicited |-> FALSE,
                gen |-> 0, key_update |-> {}]
    /\ received = {} /\ removed = None /\ closed = FALSE

Next ==
    \/ \E n \in Pns, elicited \in BOOLEAN : Recv(n, elicited)
    \/ \E lost \in SUBSET DOMAIN own, required, room \in BOOLEAN : Send(lost, required, room)
    \/ KeyUpdateTimeout
    \/ PeerSend
    \/ \E k \in DOMAIN own : PeerReceive(k)
    \/ PeerUpdate

Spec == Init /\ [][Next]_vars

-----------------------------------------------------------------------------
\* Of the packets that may arrive, the endpoint accepts exactly those that it did not
\* process yet, whose number can be found (it is within half a window of the next one
\* expected, or among the first), which are not older than what is kept of duplicates, and
\* whose key it has: that of the last update until its timer, the current or the next.
AcceptsExactly ==
    \A n \in Pns :
        LET expected == Max(received \cup {0}) + 1
            hwin == Pow2[pkts[n + 1].len * BYTE - 1]
        IN  Accepts(n) <=>
                /\ n \notin received
                /\ expected < n + hwin /\ (n <= expected + hwin \/ n < 2 * hwin)
                /\ \A m \in received : m < n + WINDOW
                /\ pkts[n + 1].gen >= space.gen - (IF space.key_update = {} THEN 0 ELSE 1)

\* An ACK frame says what it is built from, lists only packets that were processed, and
\* leaves out none but those that an acknowledged ACK frame covered and, of the others, the
\* oldest: a packet that arrives late never displaces newer ones.
AcksNewest ==
    LET set == space.recv_pkt_need_ack
        parsed == parse_ack_frame(ACKBlocks(set.inner))
        listed == flatten(set)
    IN  /\ parsed.valid /\ flatten(parsed.ranges) = listed
        /\ listed \subseteq received
        /\ Len(set.inner) <= MAX_ACK_RANGES
        /\ \A n \in received \ listed : n > removed => \A m \in listed : n < m

\* A peer that waits for the acknowledgment of a packet before it updates its keys again is
\* never refused; the endpoint is at most one update behind it, and what it sends is
\* sealed with keys at least as new as those of every packet that it acknowledges.
KeysFollow ==
    /\ ~closed
    /\ space.gen \in {peer.gen - 1, peer.gen}
    /\ \A k \in DOMAIN own : own[k].gen >= pkts[own[k].last + 1].gen

(* A property that the code does not have; see the README.                   *)

\* A new packet can be decoded whatever was lost since the last acknowledgment.
NewestDecoded ==
    \A n \in Pns : n > Max(received \cup {0}) /\ (\A m \in Pns : m <= n) => DecodedPn(n) = n
=============================================================================
