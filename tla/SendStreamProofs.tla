-------------------------- MODULE SendStreamProofs --------------------------
(***************************************************************************)
(* The chunk list of the send buffer implements the queue of SendQueue, for *)
(* streams, chunks and packets of any size, so that it forgets no byte; and *)
(* it announces one final size, and is never missing from the queue of      *)
(* flushable streams.                                                       *)
(***************************************************************************)
EXTENDS SendStream, FiniteSetTheorems, WellFoundedInduction, TLAPS

-----------------------------------------------------------------------------
(* Numbers.                                                                  *)

\* A non-empty set of natural numbers has a smallest member.
LEMMA MinInSet ==
    ASSUME NEW S, S \subseteq Nat, S # {}
    PROVE  Min(S) \in S /\ \A y \in S : Min(S) <= y
<1>1. PICK x \in S : \A y \in S : ~(<<y, x>> \in OpToRel(<, Nat))
  BY NatLessThanWellFounded, WFMin
<1>2. \A y \in S : ~(y < x)
  BY <1>1, Zenon DEF OpToRel
<1>3. \A y \in S : x <= y
  BY <1>2
<1> QED
  BY <1>3 DEF Min

\* One with a bound has a largest member.
LEMMA MaxInSet ==
    ASSUME NEW S, S \subseteq Nat, S # {}, NEW n \in Nat, \A y \in S : y <= n
    PROVE  Max(S) \in S /\ \A y \in S : Max(S) >= y
<1> DEFINE T == {k \in 0 .. n : n - k \in S}
<1>1. T \subseteq Nat /\ T # {}
  <2>1. PICK y \in S : TRUE
    OBVIOUS
  <2>2. n - y \in 0 .. n /\ n - (n - y) = y
    OBVIOUS
  <2> QED
    BY <2>2, SMTT(30)
<1>2. Min(T) \in T /\ \A k \in T : Min(T) <= k
  BY <1>1, MinInSet
<1>3. ASSUME NEW y \in S PROVE n - Min(T) >= y
  <2>1. n - y \in T
    BY <1>3
  <2> QED
    BY <1>2, <2>1
<1>4. n - Min(T) \in S
  BY <1>2
<1> QED
  BY <1>3, <1>4 DEF Max

\* Of two numbers.
LEMMA OfTwo ==
    ASSUME NEW a \in Int, NEW b \in Int
    PROVE  /\ Min({a, b}) = IF a <= b THEN a ELSE b
           /\ Max({a, b}) = IF a >= b THEN a ELSE b
  BY DEF Min, Max

\* Induction, on the members of a set.
LEMMA Induction ==
    ASSUME NEW n \in Nat, NEW P, 0 \in P, \A k \in 1 .. n : k - 1 \in P => k \in P
    PROVE  n \in P
<1> SUFFICES ASSUME n \notin P PROVE FALSE
  OBVIOUS
<1> DEFINE bad == {k \in 0 .. n : k \notin P}
<1>1. bad # {} /\ bad \subseteq Nat
  OBVIOUS
<1>2. Min(bad) \in bad /\ \A y \in bad : Min(bad) <= y
  BY <1>1, MinInSet
<1>3. PICK k \in bad : \A y \in bad : k <= y
  BY <1>2
<1>4. k # 0 /\ k \in 0 .. n
  OBVIOUS
<1>5. k - 1 \in 0 .. n /\ k - 1 \notin bad
  BY <1>3, <1>4
<1> QED
  BY <1>4, <1>5

-----------------------------------------------------------------------------
(* Lists of chunks.                                                          *)

\* The chunks are adjacent, end at `end', and none is sent beyond its end.
Chain(d, end) ==
    /\ d \in Seq(Chunk)
    /\ \A i \in 1 .. Len(d) - 1 : max_off(d[i]) = d[i + 1].off
    /\ d # <<>> => max_off(d[Len(d)]) = end
    /\ \A i \in 1 .. Len(d) : d[i].pos <= d[i].len

\* A chunk begins, goes on unsent and ends.
Bounded(c) ==
    /\ c.off \in Nat /\ FrontOf(c) \in Nat /\ max_off(c) \in Nat
    /\ c.off <= FrontOf(c) /\ FrontOf(c) <= max_off(c)

\* Byte b waits in a chunk; a byte waits in a list.
WaitsIn(c, b) == FrontOf(c) <= b /\ b < max_off(c)

Waits(d, b) == \E i \in 1 .. Len(d) : WaitsIn(d[i], b)

Waiting(d) == {b \in Nat : Waits(d, b)}

LEMMA ChunkBounded ==
    ASSUME NEW c \in Chunk, c.pos <= c.len
    PROVE  Bounded(c)
  BY DEF Chunk, Bounded, max_off, FrontOf

LEMMA Bounds ==
    ASSUME NEW d, NEW end, Chain(d, end)
    PROVE  /\ Len(d) \in Nat /\ DOMAIN d = 1 .. Len(d)
           /\ d # <<>> => Len(d) # 0
           /\ \A i \in 1 .. Len(d) : d[i] \in Chunk /\ Bounded(d[i])
<1>1. d \in Seq(Chunk)
  BY DEF Chain
<1>2. Len(d) \in Nat /\ DOMAIN d = 1 .. Len(d) /\ (d # <<>> => Len(d) # 0)
  BY <1>1
<1>3. ASSUME NEW i \in 1 .. Len(d) PROVE d[i] \in Chunk /\ Bounded(d[i])
  <2>1. d[i] \in Chunk
    BY <1>1, <1>2
  <2>2. d[i].pos <= d[i].len
    BY DEF Chain
  <2> QED
    BY <2>1, <2>2, ChunkBounded
<1> QED
  BY <1>2, <1>3

\* A chunk ends before the next ones begin.
LEMMA Order ==
    ASSUME NEW end, NEW d, Chain(d, end),
           NEW i \in 1 .. Len(d), NEW j \in 1 .. Len(d), i < j
    PROVE  max_off(d[i]) <= d[j].off
<1> DEFINE After(m) == max_off(d[i]) <= d[m].off
           P == {k \in Nat : i + 1 + k <= Len(d) => After(i + 1 + k)}
<1>0. Len(d) \in Nat /\ i \in Nat /\ j \in Nat
  BY Bounds
<1>b. \A m \in 1 .. Len(d) : d[m].off \in Nat /\ max_off(d[m]) \in Nat /\ d[m].off <= max_off(d[m])
  BY Bounds DEF Bounded
<1>s. \A m \in 1 .. Len(d) - 1 : max_off(d[m]) = d[m + 1].off
  BY DEF Chain
<1>1. 0 \in P
  BY <1>0, <1>b, <1>s
<1>2. ASSUME NEW k \in Nat, k # 0, k - 1 \in P, i + 1 + k <= Len(d) PROVE After(i + 1 + k)
  <2>1. PICK m \in 1 .. Len(d) - 1 : m = i + k
    BY <1>0, <1>2
  <2>2. After(m)
    BY <1>0, <1>2, <2>1
  <2>3. m \in 1 .. Len(d) /\ m + 1 \in 1 .. Len(d) /\ m \in Nat
    BY <1>0, <2>1
  <2>4. After(m + 1)
    BY <1>b, <1>s, <2>1, <2>2, <2>3
  <2> QED
    BY <1>0, <2>1, <2>4
<1>3. j - i - 1 \in Nat
  BY <1>0
<1>4. j - i - 1 \in P
  <2>1. \A k \in 1 .. j - i - 1 : k - 1 \in P => k \in P
    BY <1>2, <1>3
  <2> HIDE DEF P
  <2> QED
    BY <1>1, <1>3, <2>1, Induction
<1>5. i + 1 + (j - i - 1) = j
  BY <1>0
<1> QED
  BY <1>0, <1>4, <1>5

\* A chunk ends within the buffered data.
LEMMA Ends ==
    ASSUME NEW end, NEW d, Chain(d, end), NEW i \in 1 .. Len(d)
    PROVE  max_off(d[i]) <= end
<1>0. Len(d) \in Nat /\ Len(d) \in 1 .. Len(d) /\ d # <<>>
  BY Bounds
<1>b. Bounded(d[i]) /\ Bounded(d[Len(d)]) /\ max_off(d[Len(d)]) = end
  BY <1>0, Bounds DEF Chain
<1>1. CASE i = Len(d)
  BY <1>1, <1>b DEF Bounded
<1>2. CASE i # Len(d)
  <2>1. i < Len(d)
    BY <1>0, <1>2
  <2>2. max_off(d[i]) <= d[Len(d)].off
    BY <1>0, <2>1, Order
  <2> QED
    BY <1>b, <2>2 DEF Bounded
<1> QED
  BY <1>1, <1>2

\* No byte between the first chunk and the end is missing.
LEMMA Cover ==
    ASSUME NEW end, NEW d, Chain(d, end), d # <<>>, NEW b \in Nat, d[1].off <= b, b < end
    PROVE  \E i \in 1 .. Len(d) : d[i].off <= b /\ b < max_off(d[i])
<1>0. Len(d) \in Nat /\ Len(d) # 0 /\ max_off(d[Len(d)]) = end
  BY Bounds DEF Chain
<1>b. \A i \in 1 .. Len(d) : d[i].off \in Nat /\ max_off(d[i]) \in Nat
  BY Bounds DEF Bounded
<1> DEFINE S == {i \in 1 .. Len(d) : d[i].off <= b}
<1>1. S \subseteq Nat /\ S # {} /\ \A i \in S : i <= Len(d)
  <2>1. 1 \in S
    BY <1>0
  <2> QED
    BY <1>0, <2>1
<1>2. PICK i \in 1 .. Len(d) : d[i].off <= b /\ \A j \in 1 .. Len(d) : d[j].off <= b => i >= j
  <2>1. Max(S) \in S /\ \A j \in S : Max(S) >= j
    BY <1>0, <1>1, MaxInSet
  <2> QED
    BY <2>1
<1>3. CASE i = Len(d)
  BY <1>0, <1>2, <1>3
<1>4. CASE i # Len(d)
  <2>1. i \in 1 .. Len(d) - 1 /\ i + 1 \in 1 .. Len(d) /\ ~(i >= i + 1)
    BY <1>0, <1>4
  <2>2. max_off(d[i]) = d[i + 1].off /\ ~(d[i + 1].off <= b)
    BY <1>2, <2>1 DEF Chain
  <2> QED
    BY <1>b, <1>2, <2>1, <2>2
<1> QED
  BY <1>3, <1>4

-----------------------------------------------------------------------------
(* The buffer.                                                               *)

\* The fields; the counter len is not needed.
SendBufType(sb) ==
    sb \in [data : Seq(Chunk), pos : Nat, off : Nat, emit_off : Nat, len : {sb.len},
            max_data : Nat, fin_off : Nat \cup {NoFin}, shutdown : BOOLEAN,
            acked : SUBSET Nat, acks : BOOLEAN, error : BOOLEAN]

\* The chunks end at off and those before pos are sent; nothing from emit_off on was
\* sent or acked; only acked bytes are in no chunk.
Tidy(d, pos, off, emit_off, acked) ==
    /\ off \in Nat /\ emit_off \in 0 .. off
    /\ Chain(d, off)
    /\ pos \in 1 .. Len(d) + 1
    /\ \A i \in 1 .. Len(d) : i < pos => FrontOf(d[i]) = max_off(d[i])
    /\ acked \subseteq 0 .. emit_off - 1
    /\ \A b \in emit_off .. off - 1 : Waits(d, b)
    /\ \A b \in 0 .. off - 1 : b \notin acked => d # <<>> /\ d[1].off <= b

BufInv(sb) ==
    /\ SendBufType(sb)
    /\ Tidy(sb.data, sb.pos, sb.off, sb.emit_off, sb.acked)
    /\ sb.off <= sb.max_data
    /\ sb.fin_off \in {NoFin, sb.off}

\* What waits is buffered, and not before pos.
LEMMA WaitsWhere ==
    ASSUME NEW d, NEW pos, NEW off, NEW emit_off, NEW acked,
           Tidy(d, pos, off, emit_off, acked), NEW b, NEW i \in 1 .. Len(d), WaitsIn(d[i], b), b \in Int
    PROVE  b \in 0 .. off - 1 /\ i >= pos /\ d[i].off <= b
<1>1. Bounded(d[i]) /\ max_off(d[i]) <= off
  BY Bounds, Ends DEF Tidy
<1>2. b \in 0 .. off - 1 /\ d[i].off <= b
  BY <1>1 DEF Bounded, WaitsIn, Tidy
<1>3. FrontOf(d[i]) # max_off(d[i])
  BY <1>1 DEF Bounded, WaitsIn
<1>4. i \in Int /\ pos \in Int
  BY DEF Tidy
<1> QED
  BY <1>2, <1>3, <1>4 DEF Tidy

LEMMA PendingIsWaiting ==
    ASSUME NEW sb, Tidy(sb.data, sb.pos, sb.off, sb.emit_off, sb.acked)
    PROVE  /\ Pending(sb) = Waiting(sb.data)
           /\ Pending(sb) \subseteq 0 .. sb.off - 1
<1> DEFINE d == sb.data
<1>0. /\ \A i \in 1 .. Len(d) : FrontOf(d[i]) \in Nat /\ max_off(d[i]) \in Nat
      /\ Len(d) \in Nat /\ sb.pos \in Nat /\ sb.pos >= 1
  BY Bounds DEF Bounded, Tidy
<1>1. ASSUME NEW b \in Pending(sb) PROVE b \in Waiting(d)
  <2>1. PICK i \in sb.pos .. Len(d) : b \in Unsent(d[i])
    BY DEF Pending
  <2>2. i \in 1 .. Len(d)
    BY <1>0, <2>1
  <2>3. b \in Nat /\ WaitsIn(d[i], b)
    BY <1>0, <2>1, <2>2 DEF Unsent, WaitsIn
  <2> QED
    BY <2>2, <2>3 DEF Waiting, Waits
<1>2. ASSUME NEW b \in Waiting(d) PROVE b \in Pending(sb) /\ b \in 0 .. sb.off - 1
  <2>1. PICK i \in 1 .. Len(d) : WaitsIn(d[i], b) /\ b \in Int
    BY DEF Waiting, Waits
  <2>2. b \in 0 .. sb.off - 1 /\ i >= sb.pos
    BY <2>1, WaitsWhere
  <2>3. i \in sb.pos .. Len(d)
    BY <1>0, <2>2
  <2>4. b \in Unsent(d[i])
    BY <1>0, <2>1 DEF Unsent, WaitsIn
  <2> QED
    BY <2>2, <2>3, <2>4 DEF Pending
<1> QED
  BY <1>1, <1>2

\* off_front is the first byte that waits.
LEMMA FrontWaits ==
    ASSUME NEW sb, Tidy(sb.data, sb.pos, sb.off, sb.emit_off, sb.acked)
    PROVE  /\ off_front(sb) \in 0 .. sb.off
           /\ off_front(sb) <= sb.emit_off
           /\ \A b \in Waiting(sb.data) : off_front(sb) <= b
           /\ off_front(sb) < sb.off => off_front(sb) \in Waiting(sb.data)
<1> DEFINE W == Waiting(sb.data)
<1>1. Pending(sb) = W /\ W \subseteq 0 .. sb.off - 1 /\ sb.off \in Nat /\ sb.emit_off \in 0 .. sb.off
  BY PendingIsWaiting DEF Tidy
<1>2. /\ off_front(sb) \in 0 .. sb.off
      /\ \A b \in W : off_front(sb) <= b
      /\ off_front(sb) < sb.off => off_front(sb) \in W
  <2>2. CASE W = {}
    BY <1>1, <2>2 DEF off_front
  <2>3. CASE W # {}
    <3>1. W \subseteq Nat
      BY <1>1
    <3>2. Min(W) \in W /\ \A b \in W : Min(W) <= b
      BY <2>3, <3>1, MinInSet
    <3>3. off_front(sb) = Min(W)
      BY <1>1, <2>3 DEF off_front
    <3> HIDE DEF W
    <3>4. Min(W) \in 0 .. sb.off - 1
      BY <1>1, <3>2
    <3> QED
      BY <1>1, <3>2, <3>3, <3>4
  <2> QED
    BY <2>2, <2>3
<1>3. sb.emit_off < sb.off => sb.emit_off \in W
  BY <1>1 DEF Tidy, Waiting
<1> HIDE DEF W
<1>4. off_front(sb) <= sb.emit_off
  BY <1>1, <1>2, <1>3
<1> QED
  BY <1>2, <1>4 DEF W

\* ack_off is where the acked bytes end.
LEMMA AckOff ==
    ASSUME NEW sb, sb.off \in Nat, sb.acked \subseteq 0 .. sb.off - 1
    PROVE  /\ ack_off(sb) \in 0 .. sb.off
           /\ 0 .. ack_off(sb) - 1 \subseteq sb.acked
           /\ ack_off(sb) \notin sb.acked
<1> DEFINE S == {k \in Nat : k \notin sb.acked}
           Is(k) == 0 .. k - 1 \subseteq sb.acked /\ k \notin sb.acked
<1>1. S \subseteq Nat /\ sb.off \in S
  OBVIOUS
<1>2. PICK k \in S : \A y \in S : k <= y
  BY <1>1, MinInSet
<1>3. k \in 0 .. sb.off /\ Is(k)
  BY <1>1, <1>2
<1>4. ack_off(sb) = CHOOSE n \in 0 .. sb.off : Is(n)
  BY DEF ack_off
<1> HIDE DEF Is
<1>5. ack_off(sb) \in 0 .. sb.off /\ Is(ack_off(sb))
  BY <1>3, <1>4
<1> QED
  BY <1>5 DEF Is

-----------------------------------------------------------------------------
(* reset, and the new limit of the peer.                                     *)

\* The fields of a buffer.
LEMMA BufFields ==
    ASSUME NEW sb, BufInv(sb)
    PROVE  /\ sb.data \in Seq(Chunk) /\ sb.pos \in Nat /\ sb.off \in Nat
           /\ sb.emit_off \in 0 .. sb.off /\ sb.max_data \in Nat /\ sb.off <= sb.max_data
           /\ sb.fin_off \in {NoFin, sb.off} /\ sb.shutdown \in BOOLEAN /\ sb.error \in BOOLEAN
           /\ sb.acked \subseteq 0 .. sb.emit_off - 1 /\ sb.acked \subseteq 0 .. sb.off - 1
           /\ sb.acks \in BOOLEAN
<1>1. sb.acked \subseteq 0 .. sb.emit_off - 1 /\ sb.emit_off \in 0 .. sb.off /\ sb.off \in Nat
  BY DEF BufInv, Tidy
<1>2. sb.acked \subseteq 0 .. sb.off - 1
  BY <1>1
<1> QED
  BY <1>1, <1>2 DEF BufInv, SendBufType

LEMMA EmptyTidy ==
    ASSUME NEW n \in Nat
    PROVE  Tidy(<<>>, 1, n, n, 0 .. n - 1) /\ Waiting(<<>>) = {}
<1>1. Chain(<<>>, n)
  BY DEF Chain
<1>2. Waiting(<<>>) = {}
  BY DEF Waiting, Waits
<1> QED
  BY <1>1, <1>2 DEF Tidy

\* What is left of a buffer that is reset.
Emptied(sb, r) ==
    /\ BufInv(r)
    /\ r.data = <<>> /\ r.off = sb.emit_off /\ r.emit_off = sb.emit_off
    /\ r.fin_off = sb.emit_off
    /\ r.acked = sb.acked \cup 0 .. sb.emit_off - 1
    /\ Waiting(r.data) = {}

LEMMA ResetEmpties ==
    ASSUME NEW sb, BufInv(sb)
    PROVE  /\ Emptied(sb, reset(sb))
           /\ reset(sb).shutdown = sb.shutdown /\ reset(sb).error = sb.error
<1> DEFINE e == sb.emit_off
           r == reset(sb)
<1>1. UnsentOff(sb) = e
  <2>1. off_front(sb) \in Int /\ e \in Int /\ off_front(sb) <= e
    BY FrontWaits, BufFields DEF BufInv
  <2>2. Max({off_front(sb), e}) = IF off_front(sb) >= e THEN off_front(sb) ELSE e
    BY <2>1, OfTwo
  <2>3. UnsentOff(sb) = Max({off_front(sb), e})
    BY DEF UnsentOff
  <2> QED
    BY <2>1, <2>2, <2>3
<1>2. e \in Nat /\ e <= sb.off /\ sb.off \in Nat /\ sb.acked \subseteq 0 .. e - 1 /\ sb.off <= sb.max_data
  BY BufFields
<1>3. sb.acked \cup 0 .. e - 1 = 0 .. e - 1
  BY <1>2
<1>4. /\ SendBufType(r)
      /\ r.data = <<>> /\ r.pos = 1 /\ r.off = e /\ r.emit_off = e /\ r.fin_off = e
      /\ r.acked = sb.acked \cup 0 .. e - 1 /\ r.max_data = sb.max_data
      /\ r.shutdown = sb.shutdown /\ r.error = sb.error
  <2>0. PICK q : q = [sb EXCEPT !.fin_off = e, !.data = <<>>, !.off = e, !.pos = 1, !.len = 0]
    OBVIOUS
  <2>1. r = [q EXCEPT !.acked = q.acked \cup 0 .. 0 + e - 1, !.acks = TRUE]
    BY <1>1, <2>0 DEF reset, ack
  <2>2. /\ SendBufType(q) /\ q.data = <<>> /\ q.pos = 1 /\ q.off = e /\ q.emit_off = e
        /\ q.fin_off = e /\ q.acked = sb.acked /\ q.max_data = sb.max_data
        /\ q.shutdown = sb.shutdown /\ q.error = sb.error
    <3>1. <<>> \in Seq(Chunk)
      OBVIOUS
    <3> HIDE DEF e
    <3>2. e \in Nat \cup {NoFin} /\ q.len = 0
      BY <1>2, <2>0 DEF BufInv, SendBufType
    <3>3. SendBufType(q)
      BY <1>2, <2>0, <3>1, <3>2 DEF BufInv, SendBufType
    <3> QED
      BY <1>2, <2>0, <3>3 DEF BufInv, SendBufType, e
  <2> HIDE DEF r, e
  <2>3. 0 + e - 1 = e - 1 /\ 0 .. e - 1 \subseteq Nat
    BY <1>2
  <2>4. /\ r.data = q.data /\ r.pos = q.pos /\ r.off = q.off /\ r.emit_off = q.emit_off
        /\ r.fin_off = q.fin_off /\ r.acked = q.acked \cup 0 .. e - 1
        /\ r.max_data = q.max_data /\ r.shutdown = q.shutdown /\ r.error = q.error
    BY <2>1, <2>2, <2>3 DEF SendBufType
  <2>5. SendBufType(r)
    BY <2>1, <2>2, <2>3 DEF SendBufType
  <2> QED
    BY <2>2, <2>4, <2>5
<1> HIDE DEF e, r
<1>5. Tidy(r.data, r.pos, r.off, r.emit_off, r.acked) /\ Waiting(r.data) = {}
  BY <1>2, <1>3, <1>4, EmptyTidy
<1>6. r.off <= r.max_data
  BY <1>2, <1>4 DEF BufInv, SendBufType
<1> QED
  BY <1>3, <1>4, <1>5, <1>6 DEF Emptied, BufInv, e, r

LEMMA StopEmpties ==
    ASSUME NEW sb, BufInv(sb)
    PROVE  /\ Emptied(sb, stop(sb)) /\ stop(sb).error = TRUE
           /\ Emptied(sb, shutdown(sb)) /\ shutdown(sb).shutdown = TRUE
<1> DEFINE r == reset(sb)
<1>1. Emptied(sb, r)
  BY ResetEmpties
<1> HIDE DEF r
<1>2. ASSUME NEW s, s = [r EXCEPT !.error = TRUE] PROVE Emptied(sb, s) /\ s.error = TRUE
  <2>1. /\ SendBufType(s) /\ s.error = TRUE /\ s.data = r.data /\ s.pos = r.pos
        /\ s.off = r.off /\ s.emit_off = r.emit_off /\ s.fin_off = r.fin_off
        /\ s.acked = r.acked /\ s.max_data = r.max_data
    BY <1>1, <1>2 DEF Emptied, BufInv, SendBufType
  <2> QED
    BY <1>1, <2>1 DEF Emptied, BufInv
<1>3. ASSUME NEW s, s = [r EXCEPT !.shutdown = TRUE] PROVE Emptied(sb, s) /\ s.shutdown = TRUE
  <2>1. /\ SendBufType(s) /\ s.shutdown = TRUE /\ s.data = r.data /\ s.pos = r.pos
        /\ s.off = r.off /\ s.emit_off = r.emit_off /\ s.fin_off = r.fin_off
        /\ s.acked = r.acked /\ s.max_data = r.max_data
    BY <1>1, <1>3 DEF Emptied, BufInv, SendBufType
  <2> QED
    BY <1>1, <2>1 DEF Emptied, BufInv
<1> QED
  BY <1>2, <1>3 DEF stop, shutdown, r

\* A new limit changes nothing but the limit.
LEMMA LimitRaised ==
    ASSUME NEW sb, BufInv(sb), NEW max \in Nat
    PROVE  LET u == update_max_data(sb, max)
           IN  /\ BufInv(u)
               /\ u.data = sb.data /\ u.pos = sb.pos /\ u.off = sb.off /\ u.emit_off = sb.emit_off
               /\ u.acked = sb.acked /\ u.fin_off = sb.fin_off
               /\ u.shutdown = sb.shutdown /\ u.error = sb.error
<1> DEFINE u == update_max_data(sb, max)
<1>1. Max({sb.max_data, max}) \in Nat /\ Max({sb.max_data, max}) >= sb.max_data
  <2>1. sb.max_data \in Nat /\ sb.max_data \in Int /\ max \in Int
    BY BufFields
  <2>2. Max({sb.max_data, max}) = IF sb.max_data >= max THEN sb.max_data ELSE max
    BY <2>1, OfTwo
  <2> QED
    BY <2>1, <2>2
<1>2. /\ SendBufType(u)
      /\ u.data = sb.data /\ u.pos = sb.pos /\ u.off = sb.off /\ u.emit_off = sb.emit_off
      /\ u.acked = sb.acked /\ u.fin_off = sb.fin_off
      /\ u.shutdown = sb.shutdown /\ u.error = sb.error
      /\ u.max_data = Max({sb.max_data, max})
  BY <1>1 DEF update_max_data, BufInv, SendBufType
<1>3. sb.off <= Max({sb.max_data, max})
  BY <1>1, BufFields
<1> HIDE DEF u
<1> QED
  BY <1>2, <1>3 DEF BufInv, u

-----------------------------------------------------------------------------
(* write.                                                                    *)

\* The number of chunks of size s that n bytes fill.
LEMMA ChunkCount ==
    ASSUME NEW n \in Nat \ {0}, NEW s \in Nat \ {0}
    PROVE  LET m == (n + s - 1) \div s
           IN  m \in Nat \ {0} /\ (m - 1) * s < n /\ n <= m * s
<1> DEFINE a == n + s - 1
           m == a \div s
<1>1. a \in Nat /\ a >= s
  OBVIOUS
<1>2. m \in Int /\ m * s <= a /\ a < (m + 1) * s
  BY <1>1
<1> HIDE DEF m
<1>3. (m + 1) * s = m * s + s /\ (m - 1) * s = m * s - s /\ m * s \in Int
  BY <1>2
<1>4. m > 0
  <2> SUFFICES ASSUME m <= 0 PROVE FALSE
    BY <1>2
  <2>1. m * s <= 0
    BY <1>2
  <2> QED
    BY <1>1, <1>2, <1>3, <2>1
<1>5. m \in Nat \ {0}
  BY <1>2, <1>4
<1>6. (m - 1) * s < n /\ n <= m * s
  BY <1>1, <1>2, <1>3
<1> QED
  BY <1>5, <1>6 DEF m

LEMMA Multiples ==
    ASSUME NEW a \in Nat, NEW b \in Nat, NEW s \in Nat, a <= b
    PROVE  a * s \in Nat /\ b * s \in Nat /\ a * s <= b * s /\ (a + 1) * s = a * s + s
<1>1. PICK k \in Nat : b = a + k
  <2>1. b - a \in Nat /\ b = a + (b - a)
    OBVIOUS
  <2> QED
    BY <2>1
<1>2. a * s \in Nat /\ k * s \in Nat /\ b * s = a * s + k * s
  BY <1>1
<1> QED
  BY <1>2

\* The chunks of a write hold exactly its bytes, all waiting.
LEMMA ChunksHold ==
    ASSUME NEW off \in Nat, NEW n \in Nat \ {0}
    PROVE  /\ Chain(Chunks(off, n), off + n)
           /\ Len(Chunks(off, n)) # 0 /\ Chunks(off, n)[1].off = off
           /\ \A b \in Nat : Waits(Chunks(off, n), b) <=> off <= b /\ b < off + n
<1> DEFINE s == SEND_BUFFER_SIZE
           m == (n + s - 1) \div s
           c == Chunks(off, n)
           Item(i) == [off |-> off + (i - 1) * s,
                       len |-> Min({s, n - (i - 1) * s}), pos |-> 0]
<1>0. s \in Nat \ {0}
  BY BufferSizeAssumption
<1>1. m \in Nat \ {0} /\ (m - 1) * s < n /\ n <= m * s
  BY <1>0, ChunkCount
<1>2. c = [i \in 1 .. m |-> Item(i)]
  BY DEF Chunks
<1> HIDE DEF m, c, s
<1>3. ASSUME NEW i \in 1 .. m
      PROVE  /\ c[i] \in Chunk /\ c[i].pos = 0 /\ c[i].pos <= c[i].len
             /\ c[i].off = off + (i - 1) * s /\ FrontOf(c[i]) = c[i].off
             /\ max_off(c[i]) = IF i = m THEN off + n ELSE off + i * s
             /\ (i - 1) * s \in Nat /\ i * s \in Nat /\ (i - 1) * s <= i * s
  <2>1. i - 1 \in Nat /\ m - 1 \in Nat /\ i - 1 <= m - 1 /\ i - 1 + 1 = i /\ i \in Nat /\ m \in Nat
    BY <1>1
  <2>2. /\ (i - 1) * s \in Nat /\ (m - 1) * s \in Nat /\ (i - 1) * s <= (m - 1) * s
        /\ (i - 1 + 1) * s = (i - 1) * s + s
    BY <1>0, <2>1, Multiples
  <2>3. i # m => i * s <= (m - 1) * s
    BY <1>0, <2>1, Multiples
  <2>4. i * s = (i - 1) * s + s /\ i * s \in Nat
    BY <1>0, <2>1, <2>2
  <2>5. m * s = (m - 1) * s + s
    <3>1. m - 1 + 1 = m
      BY <2>1
    <3> QED
      BY <1>0, <2>1, <3>1, Multiples
  <2>6. PICK x : x = (i - 1) * s /\ x \in Nat /\ x < n /\ (IF i = m THEN n <= x + s ELSE x + s <= n)
    BY <1>0, <1>1, <2>1, <2>2, <2>3, <2>4, <2>5
  <2>7. Min({s, n - x}) = IF i = m THEN n - x ELSE s
    <3>1. n - x \in Int /\ s \in Int
      BY <1>0, <2>6
    <3> QED
      BY <1>0, <2>6, <3>1, OfTwo
  <2>8. c[i] = [off |-> off + x, len |-> IF i = m THEN n - x ELSE s, pos |-> 0]
    BY <1>2, <2>6, <2>7
  <2>9. c[i] \in Chunk
    BY <1>0, <2>6, <2>8 DEF Chunk
  <2>10. max_off(c[i]) = (IF i = m THEN off + n ELSE off + (x + s)) /\ FrontOf(c[i]) = off + x
    BY <1>0, <2>6, <2>8 DEF max_off, FrontOf
  <2> QED
    BY <1>0, <2>2, <2>4, <2>6, <2>8, <2>9, <2>10
<1>4. c \in Seq(Chunk) /\ Len(c) = m
  <2>1. DOMAIN c = 1 .. m /\ \A i \in 1 .. m : c[i] \in Chunk
    BY <1>2, <1>3
  <2>2. c \in [1 .. m -> Chunk]
    BY <1>2, <2>1
  <2> HIDE DEF Item
  <2> QED
    BY <1>1, <2>2
<1>5. Chain(c, off + n)
  <2>1. \A i \in 1 .. m - 1 : i \in 1 .. m /\ i + 1 \in 1 .. m /\ i # m /\ i + 1 - 1 = i
    BY <1>1
  <2>2. \A i \in 1 .. m - 1 : max_off(c[i]) = c[i + 1].off
    BY <1>3, <2>1
  <2>3. m \in 1 .. m
    BY <1>1
  <2> QED
    BY <1>3, <1>4, <2>2, <2>3 DEF Chain
<1>6. c[1].off = off /\ Len(c) # 0 /\ c # <<>> /\ 1 \in 1 .. m
  <2>1. 1 \in 1 .. m /\ 1 - 1 = 0 /\ 0 * s = 0 /\ off + 0 = off
    BY <1>0, <1>1
  <2> QED
    BY <1>1, <1>3, <1>4, <2>1
<1>7. ASSUME NEW b \in Nat PROVE Waits(c, b) <=> off <= b /\ b < off + n
  <2>1. ASSUME off <= b, b < off + n PROVE Waits(c, b)
    <3>1. PICK i \in 1 .. m : c[i].off <= b /\ b < max_off(c[i])
      BY <1>4, <1>5, <1>6, <2>1, Cover
    <3> QED
      BY <1>3, <1>4, <3>1 DEF Waits, WaitsIn
  <2>2. ASSUME Waits(c, b) PROVE off <= b /\ b < off + n
    <3>1. PICK i \in 1 .. m : FrontOf(c[i]) <= b /\ b < max_off(c[i])
      BY <1>4, <2>2 DEF Waits, WaitsIn
    <3>2. max_off(c[i]) <= off + n
      BY <1>4, <1>5, Ends
    <3>3. max_off(c[i]) \in Nat /\ FrontOf(c[i]) = off + (i - 1) * s
      BY <1>3, <1>4, <1>5, Bounds DEF Bounded
    <3> QED
      BY <1>3, <3>1, <3>2, <3>3
  <2> QED
    BY <2>1, <2>2
<1> QED
  BY <1>5, <1>6, <1>7 DEF c

\* A list and one that begins where it ends.
LEMMA Joined ==
    ASSUME NEW off \in Nat, NEW d, Chain(d, off),
           NEW end, NEW c, Chain(c, end), Len(c) # 0, c[1].off = off
    PROVE  /\ Chain(d \o c, end)
           /\ Len(d \o c) = Len(d) + Len(c)
           /\ \A i \in 1 .. Len(d) : (d \o c)[i] = d[i]
           /\ d = <<>> => (d \o c)[1] = c[1]
           /\ \A b : Waits(d \o c, b) <=> Waits(d, b) \/ Waits(c, b)
<1> DEFINE t == d \o c
<1>0. d \in Seq(Chunk) /\ c \in Seq(Chunk) /\ Len(d) \in Nat /\ Len(c) \in Nat
  BY Bounds DEF Chain
<1>1. /\ t \in Seq(Chunk) /\ Len(t) = Len(d) + Len(c)
      /\ \A i \in 1 .. Len(d) : t[i] = d[i]
      /\ \A i \in 1 .. Len(c) : t[Len(d) + i] = c[i]
  BY <1>0
<1>2. d = <<>> => Len(d) = 0
  OBVIOUS
<1>s. ASSUME NEW i \in 1 .. Len(t), i \notin 1 .. Len(d)
      PROVE  i - Len(d) \in 1 .. Len(c) /\ t[i] = c[i - Len(d)]
  <2>1. i - Len(d) \in 1 .. Len(c) /\ Len(d) + (i - Len(d)) = i
    BY <1>0, <1>1, <1>s
  <2> QED
    BY <1>1, <2>1
<1> HIDE DEF t
<1>3. \A i \in 1 .. Len(t) - 1 : max_off(t[i]) = t[i + 1].off
  <2> SUFFICES ASSUME NEW i \in 1 .. Len(t) - 1 PROVE max_off(t[i]) = t[i + 1].off
    OBVIOUS
  <2>0. i \in Nat /\ i >= 1 /\ i + 1 <= Len(t) /\ i \in 1 .. Len(t) /\ i + 1 \in 1 .. Len(t)
    BY <1>0, <1>1
  <2>1. CASE i < Len(d)
    <3>1. i \in 1 .. Len(d) - 1 /\ i \in 1 .. Len(d) /\ i + 1 \in 1 .. Len(d)
      BY <1>0, <2>0, <2>1
    <3> QED
      BY <1>1, <3>1 DEF Chain
  <2>2. CASE i = Len(d)
    <3>1. i \in 1 .. Len(d) /\ 1 \in 1 .. Len(c) /\ d # <<>>
      BY <1>0, <1>2, <2>0, <2>2
    <3>2. t[i] = d[i] /\ t[i + 1] = c[1] /\ max_off(d[i]) = off
      BY <1>1, <2>2, <3>1 DEF Chain
    <3> QED
      BY <3>2
  <2>3. CASE i > Len(d)
    <3>1. PICK k \in 1 .. Len(c) - 1 : i = Len(d) + k
      <4>1. i - Len(d) \in 1 .. Len(c) - 1 /\ i = Len(d) + (i - Len(d))
        BY <1>0, <1>1, <2>0, <2>3
      <4> QED
        BY <4>1
    <3>2. k \in 1 .. Len(c) /\ k + 1 \in 1 .. Len(c) /\ i + 1 = Len(d) + (k + 1)
      BY <1>0, <3>1
    <3>3. t[i] = c[k] /\ t[i + 1] = c[k + 1]
      BY <1>1, <3>1, <3>2
    <3> QED
      BY <3>1, <3>3 DEF Chain
  <2> QED
    BY <1>0, <2>0, <2>1, <2>2, <2>3
<1>4. \A i \in 1 .. Len(t) : t[i].pos <= t[i].len
  BY <1>1, <1>s DEF Chain
<1>5. max_off(t[Len(t)]) = end
  <2>1. Len(c) \in 1 .. Len(c) /\ c # <<>>
    BY <1>0
  <2> QED
    BY <1>1, <2>1 DEF Chain
<1>6. Chain(t, end)
  BY <1>1, <1>3, <1>4, <1>5 DEF Chain
<1>7. d = <<>> => t[1] = c[1]
  <2>1. 1 \in 1 .. Len(c) /\ 0 + 1 = 1
    BY <1>0
  <2> QED
    BY <1>1, <1>2, <2>1
<1>8. ASSUME NEW b PROVE Waits(t, b) <=> Waits(d, b) \/ Waits(c, b)
  <2>1. ASSUME Waits(t, b) PROVE Waits(d, b) \/ Waits(c, b)
    <3>1. PICK i \in 1 .. Len(t) : WaitsIn(t[i], b)
      BY <2>1 DEF Waits
    <3>2. CASE i \in 1 .. Len(d)
      BY <1>1, <3>1, <3>2 DEF Waits
    <3>3. CASE i \notin 1 .. Len(d)
      BY <1>s, <3>1, <3>3 DEF Waits
    <3> QED
      BY <3>2, <3>3
  <2>2. ASSUME Waits(d, b) PROVE Waits(t, b)
    <3>1. PICK i \in 1 .. Len(d) : WaitsIn(d[i], b)
      BY <2>2 DEF Waits
    <3>2. i \in 1 .. Len(t)
      BY <1>0, <1>1
    <3> QED
      BY <1>1, <3>1, <3>2 DEF Waits
  <2>3. ASSUME Waits(c, b) PROVE Waits(t, b)
    <3>1. PICK i \in 1 .. Len(c) : WaitsIn(c[i], b)
      BY <2>3 DEF Waits
    <3>2. Len(d) + i \in 1 .. Len(t) /\ t[Len(d) + i] = c[i]
      BY <1>0, <1>1
    <3> QED
      BY <3>1, <3>2 DEF Waits
  <2> QED
    BY <2>1, <2>2, <2>3
<1> QED
  BY <1>1, <1>6, <1>7, <1>8 DEF t

\* A write appends bytes that wait; one to a finished stream changes nothing.
LEMMA WriteAppends ==
    ASSUME NEW sb, BufInv(sb), NEW n \in Nat, NEW fin \in BOOLEAN,
           ~WriteError(sb, n, fin), n > 0 \/ fin, NEW w, w = write(sb, n, fin)
    PROVE  /\ BufInv(w)
           /\ w.off >= sb.off /\ w.emit_off = sb.emit_off /\ w.acked = sb.acked
           /\ w.shutdown = sb.shutdown /\ w.error = sb.error
           /\ Waiting(w.data) = Waiting(sb.data) \cup sb.off .. w.off - 1
           /\ sb.fin_off # NoFin =>
                 w.data = sb.data /\ w.off = sb.off /\ w.fin_off = sb.fin_off
<1> DEFINE st == Min({n, cap(sb)})
           last == fin /\ n <= cap(sb)
           f == IF last THEN [sb EXCEPT !.fin_off = sb.off + n] ELSE sb
           stay == ack_off(sb) >= sb.off + n \/ st = 0
           c == Chunks(sb.off, st)
<1>0. /\ sb.off \in Nat /\ cap(sb) \in Nat /\ sb.max_data = sb.off + cap(sb)
      /\ ack_off(sb) \in 0 .. sb.off /\ sb.fin_off \in {NoFin, sb.off}
  <2>1. sb.off \in Nat /\ sb.max_data \in Nat /\ sb.off <= sb.max_data
        /\ sb.acked \subseteq 0 .. sb.off - 1 /\ sb.fin_off \in {NoFin, sb.off}
    BY BufFields
  <2> QED
    BY <2>1, AckOff DEF cap
<1>1. st \in Nat /\ st <= n /\ st <= cap(sb) /\ (n <= cap(sb) => st = n)
  <2>1. n \in Int /\ cap(sb) \in Int
    BY <1>0
  <2> QED
    BY <1>0, <2>1, OfTwo
<1>2. w = IF stay THEN f ELSE [f EXCEPT !.data = @ \o c, !.off = @ + st, !.len = @ + st]
  BY DEF write
<1>3. /\ SendBufType(f) /\ f.data = sb.data /\ f.pos = sb.pos /\ f.off = sb.off
      /\ f.emit_off = sb.emit_off /\ f.acked = sb.acked /\ f.shutdown = sb.shutdown
      /\ f.error = sb.error /\ f.max_data = sb.max_data
      /\ f.fin_off = IF last THEN sb.off + n ELSE sb.fin_off
  <2>1. sb.off + n \in Nat
    BY <1>0
  <2>2. CASE last
    <3>1. f = [sb EXCEPT !.fin_off = sb.off + n]
      BY <2>2
    <3> HIDE DEF f, last
    <3> QED
      BY <2>1, <2>2, <3>1 DEF BufInv, SendBufType
  <2>3. CASE ~last
    BY <2>3 DEF BufInv
  <2> QED
    BY <2>2, <2>3
<1>4. sb.fin_off # NoFin => n = 0 /\ last
  BY <1>0 DEF WriteError, NoFin
<1>5. last /\ stay => n = 0
  BY <1>0, <1>1
<1> HIDE DEF f, c, st
<1>6. CASE stay
  <2>1. w = f
    BY <1>2, <1>6
  <2>2. w.fin_off \in {NoFin, w.off}
    BY <1>0, <1>3, <1>4, <1>5, <1>6, <2>1
  <2>3. BufInv(w)
    BY <1>3, <2>1, <2>2 DEF BufInv
  <2>4. sb.off .. w.off - 1 = {}
    BY <1>0, <1>3, <2>1
  <2>5. sb.fin_off # NoFin => w.fin_off = sb.fin_off
    BY <1>0, <1>3, <1>4, <2>1
  <2> QED
    BY <1>0, <1>3, <2>1, <2>3, <2>4, <2>5
<1>7. CASE ~stay
  <2> DEFINE d == sb.data \o c
             off == sb.off + st
  <2>0. st \in Nat \ {0} /\ off \in Nat /\ off <= sb.max_data
    BY <1>0, <1>1, <1>7
  <2>1. Chain(c, off) /\ Len(c) # 0 /\ c[1].off = sb.off
        /\ \A b \in Nat : Waits(c, b) <=> sb.off <= b /\ b < off
    BY <1>0, <2>0, ChunksHold DEF c
  <2>2. Tidy(sb.data, sb.pos, sb.off, sb.emit_off, sb.acked)
    BY DEF BufInv
  <2>3. Chain(sb.data, sb.off)
    BY <2>2 DEF Tidy
  <2> HIDE DEF d, off
  <2>4. /\ Chain(d, off)
        /\ Len(d) = Len(sb.data) + Len(c)
        /\ \A i \in 1 .. Len(sb.data) : d[i] = sb.data[i]
        /\ sb.data = <<>> => d[1] = c[1]
        /\ \A b : Waits(d, b) <=> Waits(sb.data, b) \/ Waits(c, b)
    BY <1>0, <2>1, <2>3, Joined DEF d
  <2>5. Len(sb.data) \in Nat /\ Len(c) \in Nat /\ d \in Seq(Chunk)
        /\ (sb.data # <<>> => Len(sb.data) # 0)
    BY <2>1, <2>3, <2>4, Bounds DEF Chain
  <2>6. Tidy(d, sb.pos, off, sb.emit_off, sb.acked)
    <3>1. sb.emit_off \in 0 .. off /\ sb.off <= off
      BY <1>0, <2>0, <2>2 DEF Tidy, off
    <3>2. sb.pos \in 1 .. Len(d) + 1
      BY <2>2, <2>4, <2>5 DEF Tidy
    <3>3. \A i \in 1 .. Len(d) : i < sb.pos => i \in 1 .. Len(sb.data)
      BY <2>2, <2>5 DEF Tidy
    <3>4. \A i \in 1 .. Len(d) : i < sb.pos => FrontOf(d[i]) = max_off(d[i])
      BY <2>2, <2>4, <3>3 DEF Tidy
    <3>5. \A b \in sb.emit_off .. off - 1 : Waits(d, b)
      BY <1>0, <2>0, <2>1, <2>2, <2>4, <3>1 DEF Tidy
    <3>6. ASSUME NEW b \in 0 .. off - 1, b \notin sb.acked PROVE d # <<>> /\ d[1].off <= b
      <4>1. d # <<>>
        BY <2>1, <2>4, <2>5
      <4>2. CASE sb.data = <<>>
        <5>1. ~(b \in 0 .. sb.off - 1)
          BY <2>2, <3>6, <4>2 DEF Tidy
        <5> QED
          BY <1>0, <2>1, <2>4, <4>1, <4>2, <5>1
      <4>3. CASE sb.data # <<>>
        <5>1. 1 \in 1 .. Len(sb.data) /\ d[1] = sb.data[1]
          BY <2>4, <2>5, <4>3
        <5>2. sb.data[1].off <= sb.off /\ sb.data[1].off \in Nat
          <6>1. Bounded(sb.data[1]) /\ max_off(sb.data[1]) <= sb.off
            BY <2>3, <5>1, Bounds, Ends
          <6> QED
            BY <1>0, <6>1 DEF Bounded
        <5>3. CASE b \in 0 .. sb.off - 1
          BY <2>2, <3>6, <4>1, <5>1, <5>3 DEF Tidy
        <5>4. CASE b \notin 0 .. sb.off - 1
          BY <1>0, <2>0, <4>1, <5>1, <5>2, <5>4, SMTT(30)
        <5> QED
          BY <5>3, <5>4
      <4> QED
        BY <4>2, <4>3
    <3> QED
      BY <2>0, <2>2, <2>4, <3>1, <3>2, <3>4, <3>5, <3>6 DEF Tidy
  <2>7. /\ SendBufType(w) /\ w.data = d /\ w.off = off /\ w.pos = sb.pos
        /\ w.emit_off = sb.emit_off /\ w.acked = sb.acked /\ w.shutdown = sb.shutdown
        /\ w.error = sb.error /\ w.max_data = sb.max_data /\ w.fin_off = f.fin_off
    <3>1. w = [f EXCEPT !.data = f.data \o c, !.off = f.off + st, !.len = f.len + st]
      BY <1>2, <1>7
    <3>2. w = [f EXCEPT !.data = d, !.off = off, !.len = f.len + st]
      BY <1>3, <3>1 DEF d, off
    <3> QED
      BY <1>3, <2>0, <2>5, <3>2 DEF SendBufType
  <2>8. sb.fin_off = NoFin
    BY <1>1, <1>4, <2>0
  <2>9. w.fin_off \in {NoFin, w.off}
    BY <1>1, <1>3, <2>7, <2>8 DEF off
  <2>10. BufInv(w)
    BY <2>0, <2>6, <2>7, <2>9 DEF BufInv
  <2>11. Waiting(d) = Waiting(sb.data) \cup sb.off .. off - 1
    BY <1>0, <2>0, <2>1, <2>4 DEF Waiting
  <2>12. off >= sb.off
    BY <1>0, <2>0 DEF off
  <2> QED
    BY <2>7, <2>8, <2>10, <2>11, <2>12
<1> QED
  BY <1>6, <1>7

-----------------------------------------------------------------------------
(* emit.                                                                     *)

\* What is sent waited.
LEMMA EmitWithin ==
    ASSUME NEW sb, BufInv(sb), NEW n \in Nat
    PROVE  /\ EmitEnd(sb, n) \in Nat
           /\ off_front(sb) <= EmitEnd(sb, n) /\ EmitEnd(sb, n) <= sb.off
           /\ off_front(sb) .. EmitEnd(sb, n) - 1 \subseteq Waiting(sb.data)
<1> DEFINE f == off_front(sb)
           S == {e \in f .. f + n : f .. e - 1 \subseteq Pending(sb)}
<1>0. /\ f \in 0 .. sb.off /\ sb.off \in Nat
      /\ Pending(sb) = Waiting(sb.data) /\ Pending(sb) \subseteq 0 .. sb.off - 1
  BY FrontWaits, PendingIsWaiting, BufFields DEF BufInv
<1> HIDE DEF f
<1>1. f \in S
  BY <1>0
<1>2. S \subseteq Nat /\ f + n \in Nat /\ \A y \in S : y <= f + n
  BY <1>0
<1>3. Max(S) \in S
  BY <1>1, <1>2, MaxInSet
<1>4. EmitEnd(sb, n) = Max(S)
  BY DEF EmitEnd, f
<1>5. PICK e \in S : e = EmitEnd(sb, n)
  BY <1>3, <1>4
<1>6. e \in Nat /\ f <= e /\ f .. e - 1 \subseteq Pending(sb)
  BY <1>0, <1>5
<1>7. e <= sb.off
  <2>1. CASE f = e
    BY <1>0, <2>1
  <2>2. CASE f # e
    <3>1. e - 1 \in f .. e - 1
      BY <1>0, <1>6, <2>2
    <3>2. e - 1 \in 0 .. sb.off - 1
      BY <1>0, <1>6, <3>1
    <3> QED
      BY <1>0, <1>6, <3>2
  <2> QED
    BY <2>1, <2>2
<1> QED
  BY <1>0, <1>5, <1>6, <1>7 DEF f

\* A chunk that is sent up to e.
LEMMA ChunkSent ==
    ASSUME NEW c \in Chunk, Bounded(c), NEW e \in Nat, c.off <= e,
           NEW x, x = [c EXCEPT !.pos = Min({e, max_off(c)}) - c.off]
    PROVE  /\ x \in Chunk /\ x.off = c.off /\ max_off(x) = max_off(c) /\ x.pos <= x.len
           /\ FrontOf(x) = IF e <= max_off(c) THEN e ELSE max_off(c)
<1>1. c.off \in Nat /\ c.len \in Nat /\ max_off(c) = c.off + c.len
  BY DEF Chunk, max_off
<1>2. Min({e, max_off(c)}) = IF e <= max_off(c) THEN e ELSE max_off(c)
  <2>1. e \in Int /\ max_off(c) \in Int
    BY <1>1
  <2> QED
    BY <2>1, OfTwo
<1>3. PICK p \in Nat : p = Min({e, max_off(c)}) - c.off /\ p <= c.len
  <2>1. Min({e, max_off(c)}) - c.off \in Nat /\ Min({e, max_off(c)}) - c.off <= c.len
    BY <1>1, <1>2
  <2> QED
    BY <2>1
<1>4. x = [c EXCEPT !.pos = p] /\ c.off + p = Min({e, max_off(c)})
  BY <1>1, <1>2, <1>3
<1>5. x \in Chunk /\ x.off = c.off /\ x.len = c.len /\ x.pos = p
  BY <1>3, <1>4 DEF Chunk
<1> QED
  BY <1>1, <1>2, <1>3, <1>4, <1>5 DEF max_off, FrontOf

\* Chunks that only go on elsewhere are a list like the one before.
LEMMA SameShape ==
    ASSUME NEW end, NEW d, Chain(d, end), NEW t \in Seq(Chunk), Len(t) = Len(d),
           \A i \in 1 .. Len(d) : /\ t[i].off = d[i].off /\ max_off(t[i]) = max_off(d[i])
                                  /\ t[i].pos <= t[i].len
    PROVE  Chain(t, end)
<1>0. Len(d) \in Nat
  BY Bounds
<1>1. \A i \in 1 .. Len(d) - 1 : i \in 1 .. Len(d) /\ i + 1 \in 1 .. Len(d)
  BY <1>0
<1>2. \A i \in 1 .. Len(t) - 1 : max_off(t[i]) = t[i + 1].off
  BY <1>1 DEF Chain
<1>3. t # <<>> => max_off(t[Len(t)]) = end
  <2> SUFFICES ASSUME t # <<>> PROVE max_off(t[Len(t)]) = end
    OBVIOUS
  <2>1. Len(d) # 0 /\ Len(d) \in 1 .. Len(d) /\ d # <<>>
    BY <1>0
  <2> QED
    BY <2>1 DEF Chain
<1> QED
  BY <1>2, <1>3 DEF Chain

\* m is sb after f .. e-1 was sent.
Emitted(sb, m, f, e) ==
    /\ BufInv(m)
    /\ m.off = sb.off /\ m.acked = sb.acked /\ m.fin_off = sb.fin_off
    /\ m.shutdown = sb.shutdown /\ m.error = sb.error
    /\ m.emit_off = IF e > sb.emit_off THEN e ELSE sb.emit_off
    /\ Waiting(m.data) = Waiting(sb.data) \ (f .. e - 1)
    /\ sb.data = <<>> => m.data = <<>>

\* emit sends what it takes from the front, and nothing else stops waiting.
LEMMA EmitTakes ==
    ASSUME NEW sb, BufInv(sb), NEW n \in Nat, NEW m, m = emit(sb, n),
           NEW f, f = off_front(sb), NEW e, e = EmitEnd(sb, n)
    PROVE  Emitted(sb, m, f, e)
<1> DEFINE d == sb.data
           Touched == {i \in sb.pos .. Len(d) : Unsent(d[i]) \cap (f .. e - 1) # {}}
           Taken(i) == [d[i] EXCEPT !.pos = Min({e, max_off(d[i])}) - d[i].off]
           t == [i \in DOMAIN d |-> IF i \in Touched THEN Taken(i) ELSE d[i]]
           last == Max(Touched)
           pos == IF Touched = {} THEN sb.pos
                  ELSE IF e < max_off(d[last]) THEN last ELSE last + 1
           emitted == IF e > sb.emit_off THEN e ELSE sb.emit_off
<1>0. /\ e \in Nat /\ f \in Nat /\ f <= e /\ e <= sb.off /\ f .. e - 1 \subseteq Waiting(d)
      /\ \A b \in Waiting(d) : f <= b
      /\ sb.off \in Nat /\ sb.emit_off \in 0 .. sb.off
  <2>1. Tidy(sb.data, sb.pos, sb.off, sb.emit_off, sb.acked)
    BY DEF BufInv
  <2>2. f \in 0 .. sb.off /\ \A b \in Waiting(d) : f <= b
    BY <2>1, FrontWaits
  <2>3. sb.off \in Nat /\ sb.emit_off \in 0 .. sb.off
    BY BufFields
  <2>4. e \in Nat /\ f <= e /\ e <= sb.off /\ f .. e - 1 \subseteq Waiting(d)
    BY EmitWithin
  <2> QED
    BY <2>2, <2>3, <2>4
<1>1. /\ Tidy(d, sb.pos, sb.off, sb.emit_off, sb.acked) /\ Chain(d, sb.off)
      /\ sb.pos \in 1 .. Len(d) + 1
  BY DEF BufInv, Tidy
<1>2. /\ Len(d) \in Nat /\ DOMAIN d = 1 .. Len(d) /\ d \in Seq(Chunk)
      /\ \A i \in 1 .. Len(d) : d[i] \in Chunk /\ Bounded(d[i])
  BY <1>1, Bounds DEF Chain
<1>3. m = [sb EXCEPT !.data = t, !.pos = pos, !.len = sb.len - (e - f), !.emit_off = emitted]
  <2>1. Max({sb.emit_off, e}) = emitted
    <3>1. sb.emit_off \in Int /\ e \in Int
      BY <1>0
    <3>2. Max({sb.emit_off, e}) = IF sb.emit_off >= e THEN sb.emit_off ELSE e
      BY <3>1, OfTwo
    <3> QED
      BY <3>1, <3>2
  <2> QED
    BY <2>1 DEF emit
<1> HIDE DEF d
<1>u. \A i \in 1 .. Len(d) : FrontOf(d[i]) < max_off(d[i]) => f <= FrontOf(d[i])
  <2> SUFFICES ASSUME NEW i \in 1 .. Len(d), FrontOf(d[i]) < max_off(d[i])
               PROVE  f <= FrontOf(d[i])
    OBVIOUS
  <2>1. FrontOf(d[i]) \in Waiting(d)
    BY <1>2 DEF Waiting, Waits, WaitsIn, Bounded
  <2> QED
    BY <1>0, <2>1
<1>4. \A i \in 1 .. Len(d) : i \in Touched <=> FrontOf(d[i]) < max_off(d[i]) /\ FrontOf(d[i]) < e
  <2> SUFFICES ASSUME NEW i \in 1 .. Len(d)
               PROVE  i \in Touched <=> FrontOf(d[i]) < max_off(d[i]) /\ FrontOf(d[i]) < e
    OBVIOUS
  <2>0. /\ FrontOf(d[i]) \in Nat /\ max_off(d[i]) \in Nat /\ i \in Nat /\ sb.pos \in Nat
        /\ i < sb.pos => FrontOf(d[i]) = max_off(d[i])
    BY <1>1, <1>2 DEF Bounded, Tidy
  <2>1. ASSUME i \in Touched PROVE FrontOf(d[i]) < max_off(d[i]) /\ FrontOf(d[i]) < e
    BY <1>0, <2>0, <2>1 DEF Unsent
  <2>2. ASSUME FrontOf(d[i]) < max_off(d[i]), FrontOf(d[i]) < e PROVE i \in Touched
    <3>1. FrontOf(d[i]) \in Unsent(d[i])
      BY <2>0, <2>2 DEF Unsent
    <3>2. FrontOf(d[i]) \in f .. e - 1
      BY <1>0, <1>u, <2>0, <2>2
    <3>3. i \in sb.pos .. Len(d)
      BY <1>2, <2>0, <2>2
    <3> QED
      BY <3>1, <3>2, <3>3
  <2> QED
    BY <2>1, <2>2
<1>5. Touched \subseteq 1 .. Len(d)
  BY <1>1, <1>2
<1> HIDE DEF Touched
<1>6. ASSUME NEW i \in 1 .. Len(d)
      PROVE  /\ t[i] \in Chunk /\ t[i].off = d[i].off /\ max_off(t[i]) = max_off(d[i])
             /\ t[i].pos <= t[i].len
             /\ FrontOf(t[i]) = IF i \in Touched THEN IF e <= max_off(d[i]) THEN e ELSE max_off(d[i])
                                ELSE FrontOf(d[i])
  <2>0. d[i] \in Chunk /\ Bounded(d[i])
    BY <1>2
  <2>1. CASE i \in Touched
    <3>1. t[i] = Taken(i)
      BY <1>2, <2>1
    <3>2. d[i].off <= e
      BY <1>0, <1>4, <2>0, <2>1 DEF Bounded
    <3> HIDE DEF t
    <3> QED
      BY <1>0, <2>0, <2>1, <3>1, <3>2, ChunkSent
  <2>2. CASE i \notin Touched
    <3>1. t[i] = d[i]
      BY <1>2, <2>2
    <3> HIDE DEF t
    <3>2. d[i].pos <= d[i].len
      BY <1>1 DEF Chain
    <3> QED
      BY <2>0, <2>2, <3>1, <3>2
  <2> QED
    BY <2>1, <2>2
<1>7. t \in Seq(Chunk) /\ Len(t) = Len(d)
  <2>1. t \in [1 .. Len(d) -> Chunk]
    <3>1. DOMAIN t = 1 .. Len(d) /\ \A i \in 1 .. Len(d) : t[i] \in Chunk
      BY <1>2, <1>6
    <3> QED
      BY <1>2, <3>1
  <2> HIDE DEF t
  <2> QED
    BY <1>2, <2>1
<1> HIDE DEF t
<1>8. Chain(t, sb.off)
  BY <1>1, <1>6, <1>7, SameShape
<1>9. ASSUME NEW b \in Nat PROVE b \in Waiting(t) <=> b \in Waiting(d) /\ b \notin f .. e - 1
  <2>0. \A i \in 1 .. Len(d) :
           /\ FrontOf(d[i]) \in Nat /\ max_off(d[i]) \in Nat /\ FrontOf(d[i]) <= max_off(d[i])
           /\ max_off(t[i]) = max_off(d[i])
           /\ WaitsIn(t[i], b) <=> WaitsIn(d[i], b) /\ b \notin f .. e - 1
    <3> SUFFICES ASSUME NEW i \in 1 .. Len(d)
        PROVE /\ FrontOf(d[i]) \in Nat /\ max_off(d[i]) \in Nat /\ FrontOf(d[i]) <= max_off(d[i])
              /\ max_off(t[i]) = max_off(d[i])
              /\ WaitsIn(t[i], b) <=> WaitsIn(d[i], b) /\ b \notin f .. e - 1
      OBVIOUS
    <3>1. FrontOf(d[i]) \in Nat /\ max_off(d[i]) \in Nat /\ FrontOf(d[i]) <= max_off(d[i])
      BY <1>2 DEF Bounded
    <3>2. FrontOf(d[i]) < max_off(d[i]) => f <= FrontOf(d[i])
      BY <1>u
    <3> QED
      BY <1>0, <1>4, <1>6, <3>1, <3>2 DEF WaitsIn
  <2> QED
    BY <1>7, <2>0 DEF Waiting, Waits
<1>10. Touched # {} => last \in Touched /\ last \in 1 .. Len(d) /\ \A i \in Touched : i <= last
  <2>1. Touched \subseteq Nat /\ \A i \in Touched : i <= Len(d)
    BY <1>2, <1>5
  <2>2. Touched # {} => Max(Touched) \in Touched /\ \A i \in Touched : Max(Touched) >= i
    BY <1>2, <2>1, MaxInSet
  <2> QED
    BY <1>2, <1>5, <2>2
<1> HIDE DEF last
<1>11. pos \in 1 .. Len(d) + 1
  BY <1>1, <1>2, <1>10
<1>12. ASSUME NEW i \in 1 .. Len(d), i < pos PROVE FrontOf(t[i]) = max_off(t[i])
  <2>0. /\ FrontOf(d[i]) \in Nat /\ max_off(d[i]) \in Nat /\ FrontOf(d[i]) <= max_off(d[i])
        /\ i < sb.pos => FrontOf(d[i]) = max_off(d[i])
        /\ i \in Nat
    BY <1>1, <1>2 DEF Bounded, Tidy
  <2>1. CASE Touched = {}
    BY <1>6, <1>12, <2>0, <2>1
  <2>2. CASE Touched # {} /\ i < last
    <3>1. max_off(d[i]) <= d[last].off /\ d[last].off <= FrontOf(d[last]) /\ FrontOf(d[last]) < e
          /\ d[last].off \in Nat /\ FrontOf(d[last]) \in Nat
      BY <1>1, <1>2, <1>4, <1>10, <2>2, Order DEF Bounded
    <3>2. max_off(d[i]) <= e /\ (FrontOf(d[i]) < max_off(d[i]) => i \in Touched)
      BY <1>0, <1>4, <2>0, <3>1
    <3> QED
      BY <1>0, <1>6, <2>0, <3>2
  <2>3. CASE Touched # {} /\ i = last
    <3>1. ~(e < max_off(d[i]))
      BY <1>12, <2>0, <2>3
    <3> QED
      BY <1>0, <1>6, <1>10, <2>0, <2>3, <3>1
  <2>4. CASE Touched # {} /\ i > last
    BY <1>10, <1>12, <2>0, <2>4
  <2> QED
    BY <1>10, <2>0, <2>1, <2>2, <2>3, <2>4
<1> HIDE DEF pos
<1>13. emitted \in 0 .. sb.off /\ sb.emit_off <= emitted /\ e <= emitted
  BY <1>0
<1> HIDE DEF emitted
<1>14. Tidy(t, pos, sb.off, emitted, sb.acked)
  <2>1. sb.acked \subseteq 0 .. emitted - 1
    <3>1. 0 .. sb.emit_off - 1 \subseteq 0 .. emitted - 1
      BY <1>0, <1>13
    <3> QED
      BY <1>1, <3>1 DEF Tidy
  <2>2. ASSUME NEW b \in emitted .. sb.off - 1 PROVE Waits(t, b)
    <3>1. b \in sb.emit_off .. sb.off - 1 /\ b \in Nat /\ b \notin f .. e - 1
      BY <1>0, <1>13
    <3>2. b \in Waiting(d)
      BY <1>1, <3>1 DEF Tidy, Waiting
    <3>3. b \in Waiting(t)
      BY <1>9, <3>1, <3>2
    <3> QED
      BY <3>3 DEF Waiting
  <2>3. ASSUME NEW b \in 0 .. sb.off - 1, b \notin sb.acked PROVE t # <<>> /\ t[1].off <= b
    <3>1. d # <<>> /\ d[1].off <= b
      BY <1>1, <2>3 DEF Tidy
    <3>2. Len(d) # 0 /\ 1 \in 1 .. Len(d)
      BY <1>2, <3>1
    <3> QED
      BY <1>6, <1>7, <3>1, <3>2
  <2> QED
    BY <1>0, <1>7, <1>8, <1>11, <1>12, <1>13, <2>1, <2>2, <2>3 DEF Tidy
<1>15. /\ SendBufType(m) /\ m.data = t /\ m.pos = pos /\ m.off = sb.off /\ m.acked = sb.acked
       /\ m.fin_off = sb.fin_off /\ m.shutdown = sb.shutdown /\ m.error = sb.error
       /\ m.max_data = sb.max_data /\ m.emit_off = emitted
  <2>1. pos \in Nat /\ emitted \in Nat
    BY <1>0, <1>2, <1>11, <1>13
  <2> QED
    BY <1>3, <1>7, <2>1 DEF BufInv, SendBufType
<1>16. BufInv(m)
  BY <1>14, <1>15 DEF BufInv
<1>17. Waiting(t) = Waiting(d) \ (f .. e - 1)
  <2>1. Waiting(t) \subseteq Nat /\ Waiting(d) \subseteq Nat
    BY DEF Waiting
  <2> QED
    BY <1>9, <2>1
<1>18. d = <<>> => t = <<>>
  BY <1>7
<1> QED
  BY <1>15, <1>16, <1>17, <1>18 DEF Emitted, d, emitted

-----------------------------------------------------------------------------
(* ack_and_drop.                                                             *)

\* A list without its first k chunks.
LEMMA Suffix ==
    ASSUME NEW end, NEW d, Chain(d, end), NEW k \in 0 .. Len(d),
           NEW t \in Seq(Chunk), Len(t) = Len(d) - k,
           \A i \in 1 .. Len(t) : t[i] = d[k + i]
    PROVE  /\ Chain(t, end)
           /\ \A i \in 1 .. Len(t) : k + i \in 1 .. Len(d) /\ t[i] = d[k + i]
<1>0. d \in Seq(Chunk) /\ Len(d) \in Nat /\ k \in Nat
  BY Bounds DEF Chain
<1>1. t \in Seq(Chunk) /\ Len(t) = Len(d) - k
  BY <1>0
<1>2. ASSUME NEW i \in 1 .. Len(t) PROVE k + i \in 1 .. Len(d) /\ t[i] = d[k + i]
  BY <1>0, <1>1
<1>3. ASSUME NEW i \in 1 .. Len(t) - 1 PROVE max_off(t[i]) = t[i + 1].off
  <2>1. i \in 1 .. Len(t) /\ i + 1 \in 1 .. Len(t) /\ k + i \in 1 .. Len(d) - 1
        /\ k + (i + 1) = k + i + 1
    BY <1>0, <1>1
  <2>2. t[i] = d[k + i] /\ t[i + 1] = d[k + i + 1]
    BY <1>2, <2>1
  <2> QED
    BY <2>1, <2>2 DEF Chain
<1>4. t # <<>> => max_off(t[Len(t)]) = end
  <2> SUFFICES ASSUME t # <<>> PROVE max_off(t[Len(t)]) = end
    OBVIOUS
  <2>1. Len(t) \in 1 .. Len(t) /\ k + Len(t) = Len(d) /\ d # <<>>
    BY <1>0, <1>1
  <2> QED
    BY <1>2, <2>1 DEF Chain
<1>5. \A i \in 1 .. Len(t) : t[i].pos <= t[i].len
  BY <1>2 DEF Chain
<1> QED
  BY <1>1, <1>2, <1>3, <1>4, <1>5 DEF Chain

\* m is sb after off .. off+len-1 was acked: only acked bytes stop waiting.
Acked(sb, m, off, len) ==
    /\ BufInv(m)
    /\ m.off = sb.off /\ m.emit_off = sb.emit_off /\ m.fin_off = sb.fin_off
    /\ m.max_data = sb.max_data /\ m.shutdown = sb.shutdown /\ m.error = sb.error
    /\ m.acked = sb.acked \cup off .. off + len - 1
    /\ Waiting(m.data) \subseteq Waiting(sb.data)
    /\ Waiting(sb.data) \ Waiting(m.data) \subseteq m.acked
    /\ sb.data = <<>> => m.data = <<>>

LEMMA AckDrops ==
    ASSUME NEW sb, BufInv(sb), NEW off \in Nat, NEW len \in Nat, off + len <= sb.emit_off,
           NEW m, m = ack_and_drop(sb, off, len)
    PROVE  Acked(sb, m, off, len)
<1> DEFINE d == sb.data
           a == ack(sb, off, len)
           upto == ack_off(a)
           Covered == {k \in 0 .. Len(d) : \A i \in 1 .. k : max_off(d[i]) <= upto}
           Rest(k) == [a EXCEPT !.data = SubSeq(d, k + 1, Len(d)), !.pos = Max({sb.pos - k, 1})]
           acked == sb.acked \cup off .. off + len - 1
<1>0. sb.off \in Nat /\ sb.emit_off \in 0 .. sb.off /\ sb.acked \subseteq 0 .. sb.emit_off - 1
  BY BufFields
<1>1. /\ Tidy(d, sb.pos, sb.off, sb.emit_off, sb.acked) /\ Chain(d, sb.off)
      /\ sb.pos \in 1 .. Len(d) + 1
  BY DEF BufInv, Tidy
<1>2. /\ Len(d) \in Nat /\ DOMAIN d = 1 .. Len(d) /\ d \in Seq(Chunk)
      /\ \A i \in 1 .. Len(d) : d[i] \in Chunk /\ Bounded(d[i])
      /\ (d # <<>> => Len(d) # 0)
  BY <1>1, Bounds DEF Chain
<1>3. acked \subseteq 0 .. sb.emit_off - 1 /\ acked \subseteq 0 .. sb.off - 1 /\ acked \subseteq Nat
  BY <1>0
<1>4. /\ SendBufType(a) /\ a.data = d /\ a.pos = sb.pos /\ a.off = sb.off /\ a.emit_off = sb.emit_off
      /\ a.fin_off = sb.fin_off /\ a.max_data = sb.max_data /\ a.shutdown = sb.shutdown
      /\ a.error = sb.error /\ a.acked = acked
  BY <1>3 DEF ack, BufInv, SendBufType
<1> HIDE DEF a
<1>5. upto \in 0 .. sb.off /\ 0 .. upto - 1 \subseteq acked
  <2>1. a.off \in Nat /\ a.acked \subseteq 0 .. a.off - 1
    BY <1>0, <1>3, <1>4
  <2> QED
    BY <1>4, <2>1, AckOff
<1>6. m = IF off > upto THEN a ELSE Rest(Max(Covered))
  <2>1. m = IF off > upto THEN a
            ELSE [a EXCEPT !.data = SubSeq(a.data, Max(Covered) + 1, Len(a.data)),
                           !.pos = Max({a.pos - Max(Covered), 1})]
    BY DEF ack_and_drop, a
  <2> QED
    BY <1>4, <2>1
<1> HIDE DEF upto, acked, d
<1>7. Tidy(d, sb.pos, sb.off, sb.emit_off, acked)
  BY <1>1, <1>3 DEF Tidy, acked
<1>8. CASE off > upto
  <2>1. m = a
    BY <1>6, <1>8
  <2>2. BufInv(m)
    BY <1>4, <1>7, <2>1 DEF BufInv
  <2> QED
    BY <1>4, <2>1, <2>2 DEF Acked, d, acked
<1>9. CASE ~(off > upto)
  <2>1. PICK drop \in 0 .. Len(d) : drop = Max(Covered) /\ \A i \in 1 .. drop : max_off(d[i]) <= upto
    <3>1. Covered \subseteq Nat /\ \A k \in Covered : k <= Len(d)
      BY <1>2
    <3>2. 0 \in Covered
      BY <1>2
    <3>3. Max(Covered) \in Covered
      BY <1>2, <3>1, <3>2, MaxInSet
    <3> QED
      BY <3>3
  <2>t. PICK t : t = SubSeq(d, drop + 1, Len(d))
    OBVIOUS
  <2>p. PICK pos : pos = Max({sb.pos - drop, 1})
    OBVIOUS
  <2>0. m = [a EXCEPT !.data = t, !.pos = pos]
    BY <1>6, <1>9, <2>1, <2>t, <2>p
  <2>2. /\ Chain(t, sb.off)
        /\ Len(t) = Len(d) - drop
        /\ \A i \in 1 .. Len(t) : drop + i \in 1 .. Len(d) /\ t[i] = d[drop + i]
    <3>1. t \in Seq(Chunk) /\ Len(t) = Len(d) - drop /\ \A i \in 1 .. Len(t) : t[i] = d[drop + i]
      <4>1. t \in Seq(Chunk)
        BY <1>2, <2>t
      <4>0. d \in Seq(Chunk) /\ Len(d) \in Nat /\ drop \in Nat /\ drop <= Len(d)
        BY <1>2
      <4>2. Len(t) = Len(d) - drop
        BY <2>t, <4>0
      <4>3. ASSUME NEW i \in 1 .. Len(t) PROVE t[i] = d[drop + i]
        BY <2>t, <4>0, <4>2
      <4> QED
        BY <4>1, <4>2, <4>3
    <3>2. Chain(d, sb.off) /\ drop \in 0 .. Len(d)
      BY <1>1
    <3>3. Chain(t, sb.off)
      BY <3>1, <3>2, Suffix
    <3>4. \A i \in 1 .. Len(t) : drop + i \in 1 .. Len(d) /\ t[i] = d[drop + i]
      BY <3>1, <3>2, Suffix
    <3> QED
      BY <3>1, <3>3, <3>4
  <2>3. t \in Seq(Chunk) /\ drop \in Nat /\ Len(t) \in Nat /\ (t # <<>> <=> Len(t) # 0)
    <3>1. t \in Seq(Chunk)
      BY <2>2 DEF Chain
    <3> QED
      BY <2>1, <3>1
  <2>l. /\ Len(t) \in Nat /\ Len(d) \in Nat /\ drop \in Nat /\ Len(t) = Len(d) - drop
        /\ drop <= Len(d) /\ sb.pos \in Nat /\ sb.pos >= 1 /\ sb.pos <= Len(d) + 1
    BY <1>1, <1>2, <2>1, <2>2, <2>3
  <2>4. pos \in 1 .. Len(t) + 1 /\ (pos = sb.pos - drop \/ pos = 1)
    <3>1. sb.pos - drop \in Int /\ 1 \in Int
      BY <1>1, <2>3
    <3>2. pos = IF sb.pos - drop >= 1 THEN sb.pos - drop ELSE 1
      BY <2>p, <3>1, OfTwo
    <3> QED
      BY <2>l, <3>2
  <2>5. Waiting(t) \subseteq Waiting(d)
    BY <2>2 DEF Waiting, Waits
  <2>6. ASSUME NEW b \in Waiting(d), b \notin Waiting(t) PROVE b \in 0 .. upto - 1
    <3>1. PICK i \in 1 .. Len(d) : WaitsIn(d[i], b) /\ b \in Nat
      BY DEF Waiting, Waits
    <3>2. i <= drop
      <4> SUFFICES ASSUME i > drop PROVE FALSE
        BY <1>2, <2>3
      <4>1. PICK j \in 1 .. Len(t) : i = drop + j
        <5>1. i - drop \in 1 .. Len(t) /\ i = drop + (i - drop)
          BY <2>l
        <5> QED
          BY <5>1
      <4>2. WaitsIn(t[j], b)
        BY <2>2, <3>1, <4>1
      <4> QED
        BY <2>6, <3>1, <4>2 DEF Waiting, Waits
    <3>3. max_off(d[i]) <= upto /\ max_off(d[i]) \in Nat
      <4>1. i \in 1 .. drop
        BY <2>3, <3>2
      <4> QED
        BY <1>2, <2>1, <4>1 DEF Bounded
    <3> QED
      BY <1>5, <3>1, <3>3 DEF WaitsIn
  <2>7. ASSUME NEW b \in 0 .. sb.off - 1, b \notin acked PROVE t # <<>> /\ t[1].off <= b
    <3>0. d # <<>> /\ d[1].off <= b /\ upto <= b
      BY <1>0, <1>5, <1>7, <2>7, SMTT(30) DEF Tidy
    <3>1. t # <<>>
      <4> SUFFICES ASSUME drop = Len(d) PROVE FALSE
        BY <2>l, <2>3
      <4>1. max_off(d[Len(d)]) = sb.off /\ max_off(d[Len(d)]) <= upto
        <5>1. Len(d) \in 1 .. drop
          BY <1>2, <3>0
        <5> QED
          BY <1>1, <2>1, <3>0, <5>1 DEF Chain
      <4> QED
        BY <1>0, <1>5, <3>0, <4>1
    <3>2. t[1] = d[drop + 1] /\ drop + 1 \in 1 .. Len(d)
      <4>1. 1 \in 1 .. Len(t)
        BY <2>3, <3>1
      <4> QED
        BY <2>2, <4>1
    <3>3. CASE drop = 0
      BY <3>0, <3>1, <3>2, <3>3
    <3>4. CASE drop # 0
      <4>1. drop \in 1 .. drop /\ drop \in 1 .. Len(d) - 1
        BY <1>2, <2>3, <3>2, <3>4
      <4>2. max_off(d[drop]) = d[drop + 1].off /\ max_off(d[drop]) <= upto
        BY <1>1, <2>1, <4>1 DEF Chain
      <4>3. d[drop + 1].off \in Nat
        BY <1>2, <3>2 DEF Bounded
      <4> QED
        BY <1>5, <3>0, <3>1, <3>2, <4>2, <4>3
    <3> QED
      BY <3>3, <3>4
  <2>8. ASSUME NEW b \in sb.emit_off .. sb.off - 1 PROVE Waits(t, b)
    <3>1. b \in Waiting(d) /\ b \notin acked
      BY <1>0, <1>3, <1>7 DEF Tidy, Waiting, acked
    <3>2. b \in Waiting(t)
      BY <1>5, <2>6, <3>1
    <3> QED
      BY <3>2 DEF Waiting
  <2>9. ASSUME NEW i \in 1 .. Len(t), i < pos PROVE FrontOf(t[i]) = max_off(t[i])
    <3>1. drop + i \in 1 .. Len(d) /\ drop + i < sb.pos
      BY <1>1, <2>2, <2>3, <2>4, <2>9
    <3> QED
      BY <1>1, <2>2, <3>1 DEF Tidy
  <2>10. Tidy(t, pos, sb.off, sb.emit_off, acked)
    BY <1>7, <2>2, <2>4, <2>7, <2>8, <2>9 DEF Tidy
  <2>11. /\ SendBufType(m) /\ m.data = t /\ m.pos = pos /\ m.off = a.off /\ m.emit_off = a.emit_off
         /\ m.fin_off = a.fin_off /\ m.max_data = a.max_data /\ m.shutdown = a.shutdown
         /\ m.error = a.error /\ m.acked = a.acked
    <3>1. pos \in Nat
      BY <2>3, <2>4
    <3> QED
      BY <1>4, <2>0, <2>3, <3>1 DEF SendBufType
  <2>12. BufInv(m)
    BY <1>4, <2>10, <2>11 DEF BufInv
  <2>13. Waiting(d) \ Waiting(t) \subseteq acked
    BY <1>5, <2>6
  <2>14. d = <<>> => t = <<>>
    BY <1>2, <2>1, <2>2, <2>3
  <2> QED
    BY <1>4, <2>5, <2>11, <2>12, <2>13, <2>14 DEF Acked, d, acked
<1> QED
  BY <1>8, <1>9

-----------------------------------------------------------------------------
(* retransmit.                                                               *)

\* A chunk that is sent again from off on, up to upto.
LEMMA RewoundChunk ==
    ASSUME NEW c \in Chunk, c.pos <= c.len, NEW off \in Nat, NEW upto \in Nat, off <= upto,
           c.off < upto, off <= max_off(c), NEW x, x = Rewind(c, off, upto)
    PROVE  /\ x \in Chunk /\ x.pos <= x.len /\ x.off = c.off
           /\ max_off(x) = IF max_off(c) <= upto THEN max_off(c) ELSE upto
           /\ \A b \in Nat : WaitsIn(x, b) <=>
                 /\ b < upto
                 /\ WaitsIn(c, b) \/ (off <= b /\ c.off <= b /\ b < max_off(c))
<1>0. c.off \in Nat /\ c.len \in Nat /\ c.pos \in Nat /\ max_off(c) = c.off + c.len
      /\ FrontOf(c) = c.off + c.pos
  BY DEF Chunk, max_off, FrontOf
<1> DEFINE k == upto - c.off
           p == Min({c.pos, k})
           q == IF off > c.off THEN Min({p, off - c.off}) ELSE 0
           l == Min({c.len, k})
<1>1. k \in Nat /\ k \in Int /\ c.pos \in Int /\ c.len \in Int /\ off - c.off \in Int
  BY <1>0
<1>2. p = (IF c.pos <= k THEN c.pos ELSE k) /\ l = (IF c.len <= k THEN c.len ELSE k)
  BY <1>1, OfTwo
<1>3. p \in Nat /\ p \in Int /\ l \in Nat
  BY <1>0, <1>1, <1>2
<1>4. x = [c EXCEPT !.len = l, !.pos = q]
  BY DEF Rewind
<1> HIDE DEF p, l
<1>5. q = IF off > c.off THEN IF p <= off - c.off THEN p ELSE off - c.off ELSE 0
  BY <1>1, <1>3, OfTwo
<1> HIDE DEF q
<1>6. q \in Nat /\ q <= l
  BY <1>0, <1>1, <1>2, <1>3, <1>5
<1>7. x \in Chunk /\ x.off = c.off /\ x.len = l /\ x.pos = q
  BY <1>3, <1>4, <1>6 DEF Chunk
<1>8. max_off(x) = c.off + l /\ FrontOf(x) = c.off + q
  BY <1>7 DEF max_off, FrontOf
<1>9. max_off(x) = IF max_off(c) <= upto THEN max_off(c) ELSE upto
  BY <1>0, <1>2, <1>3, <1>8
<1>10. FrontOf(x) = IF off > c.off THEN IF FrontOf(c) <= off THEN FrontOf(c) ELSE off ELSE c.off
  BY <1>0, <1>1, <1>2, <1>3, <1>5, <1>8
<1>11. ASSUME NEW b \in Nat
       PROVE WaitsIn(x, b) <=>
                 /\ b < upto
                 /\ WaitsIn(c, b) \/ (off <= b /\ c.off <= b /\ b < max_off(c))
  BY <1>0, <1>9, <1>10 DEF WaitsIn
<1> QED
  BY <1>6, <1>7, <1>9, <1>11

\* The part of a chunk after upto.
LEMMA SplitChunk ==
    ASSUME NEW c \in Chunk, c.pos <= c.len, NEW upto \in Nat, c.off < upto, upto < max_off(c),
           NEW y, y = split_off(c, upto)
    PROVE  /\ y \in Chunk /\ y.pos <= y.len /\ y.off = upto /\ max_off(y) = max_off(c)
           /\ \A b \in Nat : WaitsIn(y, b) <=> WaitsIn(c, b) /\ upto <= b
<1>0. c.off \in Nat /\ c.len \in Nat /\ c.pos \in Nat /\ max_off(c) = c.off + c.len
      /\ FrontOf(c) = c.off + c.pos
  BY DEF Chunk, max_off, FrontOf
<1>1. Max({FrontOf(c), upto}) = IF FrontOf(c) >= upto THEN FrontOf(c) ELSE upto
  <2>1. FrontOf(c) \in Int /\ upto \in Int
    BY <1>0
  <2> QED
    BY <2>1, OfTwo
<1>2. PICK p \in Nat : p = Max({FrontOf(c), upto}) - upto /\ p <= max_off(c) - upto
                       /\ upto + p = IF FrontOf(c) >= upto THEN FrontOf(c) ELSE upto
  <2> DEFINE p == Max({FrontOf(c), upto}) - upto
  <2>1. p \in Nat /\ p <= max_off(c) - upto
        /\ upto + p = IF FrontOf(c) >= upto THEN FrontOf(c) ELSE upto
    BY <1>0, <1>1
  <2> QED
    BY <2>1
<1>3. PICK l \in Nat : l = max_off(c) - upto /\ upto + l = max_off(c)
  BY <1>0
<1>4. y = [off |-> upto, len |-> l, pos |-> p]
  BY <1>2, <1>3 DEF split_off
<1>5. y \in Chunk /\ y.off = upto /\ y.pos <= y.len /\ max_off(y) = upto + l /\ FrontOf(y) = upto + p
  BY <1>2, <1>3, <1>4 DEF Chunk, max_off, FrontOf
<1>6. ASSUME NEW b \in Nat PROVE WaitsIn(y, b) <=> WaitsIn(c, b) /\ upto <= b
  <2>1. max_off(y) = max_off(c) /\ FrontOf(y) = IF FrontOf(c) >= upto THEN FrontOf(c) ELSE upto
    BY <1>2, <1>3, <1>5
  <2>2. FrontOf(c) \in Nat /\ max_off(c) \in Nat
    BY <1>0
  <2> QED
    BY <2>1, <2>2 DEF WaitsIn
<1> QED
  BY <1>3, <1>5, <1>6

\* The chunk at i moved by one.
Shifted(s, t, i) == t[i + 1] = s[i]

LEMMA Inserted ==
    ASSUME NEW s \in Seq(Chunk), NEW l \in 1 .. Len(s), NEW y \in Chunk,
           NEW t, t = InsertAt(s, l + 1, y)
    PROVE  /\ t \in Seq(Chunk) /\ Len(t) = Len(s) + 1
           /\ \A i \in 1 .. l : t[i] = s[i]
           /\ t[l + 1] = y
           /\ \A i \in 1 .. Len(s) : i > l => Shifted(s, t, i)
<1>0. Len(s) \in Nat /\ l \in Nat /\ l <= Len(s) /\ l >= 1 /\ l + 1 - 1 = l
  OBVIOUS
<1>1. PICK a : a = SubSeq(s, 1, l)
  OBVIOUS
<1>2. PICK z : z = SubSeq(s, l + 1, Len(s))
  OBVIOUS
<1>3. a \in Seq(Chunk) /\ Len(a) = l /\ \A i \in 1 .. l : a[i] = s[i]
  BY <1>0, <1>1
<1>4. z \in Seq(Chunk) /\ Len(z) = Len(s) - l /\ \A i \in 1 .. Len(s) - l : z[i] = s[l + i]
  BY <1>0, <1>2
<1>5. PICK u : u = a \o <<y>>
  OBVIOUS
<1>6. u \in Seq(Chunk) /\ Len(u) = l + 1 /\ (\A i \in 1 .. l : u[i] = s[i]) /\ u[l + 1] = y
  BY <1>0, <1>3, <1>5
<1>7. PICK v : v = u \o z
  OBVIOUS
<1>8. t = v
  <2>1. ASSUME NEW k PROVE InsertAt(s, k, y) = SubSeq(s, 1, k - 1) \o <<y>> \o SubSeq(s, k, Len(s))
    BY DEF InsertAt
  <2>2. PICK k : k = l + 1 /\ k - 1 = l
    BY <1>0
  <2>3. InsertAt(s, k, y) = SubSeq(s, 1, l) \o <<y>> \o SubSeq(s, k, Len(s))
    BY <2>1, <2>2, Zenon
  <2> QED
    BY <1>1, <1>2, <1>5, <1>7, <2>2, <2>3, Zenon
<1>9. /\ v \in Seq(Chunk) /\ Len(v) = Len(s) + 1
      /\ \A i \in 1 .. l + 1 : v[i] = u[i]
      /\ \A i \in 1 .. Len(s) - l : v[l + 1 + i] = z[i]
  <2>1. v \in Seq(Chunk) /\ Len(v) = Len(u) + Len(z)
    <3>1. u \in Seq(Chunk) /\ z \in Seq(Chunk)
      BY <1>4, <1>6
    <3> QED
      BY <1>7, <3>1
  <2>2. Len(v) = Len(s) + 1
    BY <1>0, <1>4, <1>6, <2>1
  <2>3. ASSUME NEW i \in 1 .. l + 1 PROVE v[i] = u[i]
    BY <1>0, <1>4, <1>6, <1>7
  <2>4. ASSUME NEW i \in 1 .. Len(s) - l PROVE v[l + 1 + i] = z[i]
    BY <1>0, <1>4, <1>6, <1>7
  <2> QED
    BY <2>1, <2>2, <2>3, <2>4
<1>10. ASSUME NEW i \in 1 .. Len(s), i > l PROVE Shifted(s, v, i)
  <2>1. PICK k \in 1 .. Len(s) - l : i = l + k
    <3>1. i - l \in 1 .. Len(s) - l /\ i = l + (i - l)
      BY <1>0, <1>10
    <3> QED
      BY <3>1
  <2>2. v[l + 1 + k] = s[l + k] /\ l + 1 + k = i + 1
    BY <1>0, <1>4, <1>9, <2>1
  <2> QED
    BY <2>1, <2>2 DEF Shifted
<1>11. (\A i \in 1 .. l : v[i] = s[i]) /\ v[l + 1] = y
  <2>1. l + 1 \in 1 .. l + 1 /\ \A i \in 1 .. l : i \in 1 .. l + 1
    BY <1>0
  <2> QED
    BY <1>6, <1>9, <2>1
<1> QED
  BY <1>8, <1>9, <1>10, <1>11

\* Byte b is in a chunk.
Holds(d, b) == \E i \in 1 .. Len(d) : d[i].off <= b /\ b < max_off(d[i])

\* t is d with the bytes off .. upto-1 that it holds waiting again.
Again(d, t, end, off, upto) ==
    /\ Chain(t, end)
    /\ Len(d) <= Len(t)
    /\ d # <<>> => t # <<>> /\ t[1].off = d[1].off
    /\ \A b \in Nat : Waits(t, b) <=> Waits(d, b) \/ (off <= b /\ b < upto /\ Holds(d, b))

\* The chunks before those that are hit are the same.
SameBefore(d, t, hit) == \A i \in 1 .. Len(d) : (\A j \in hit : i < j) => t[i] = d[i]

\* Only the bytes of the retransmission wait again, and none is left out.
LEMMA RescheduledList ==
    ASSUME NEW sb, NEW end, Chain(sb.data, end),
           NEW off \in Nat, NEW upto \in Nat, off <= upto,
           NEW t, t = Rescheduled(sb, off, upto)
    PROVE  /\ Again(sb.data, t, end, off, upto)
           /\ SameBefore(sb.data, t, Hit(sb, off, upto))
<1> DEFINE d == sb.data
           hit == Hit(sb, off, upto)
           s == [i \in DOMAIN d |-> IF i \in hit THEN Rewind(d[i], off, upto) ELSE d[i]]
           longer == {i \in hit : upto < max_off(d[i])}
           l == Max(longer)
           y == split_off(d[l], upto)
<1>0. /\ Len(d) \in Nat /\ DOMAIN d = 1 .. Len(d) /\ d \in Seq(Chunk)
      /\ d # <<>> => Len(d) # 0
  BY Bounds DEF Chain
<1>1. t = IF longer = {} THEN s ELSE InsertAt(s, l + 1, y)
  BY DEF Rescheduled
<1> HIDE DEF d
<1>c. Chain(d, end)
  BY DEF d
<1>b. \A i \in 1 .. Len(d) :
         /\ d[i] \in Chunk /\ d[i].pos <= d[i].len
         /\ d[i].off \in Nat /\ FrontOf(d[i]) \in Nat /\ max_off(d[i]) \in Nat
         /\ d[i].off <= FrontOf(d[i]) /\ FrontOf(d[i]) <= max_off(d[i])
  BY <1>c, Bounds DEF Bounded, Chain
<1>h. \A i : i \in hit <=> i \in 1 .. Len(d) /\ d[i].off < upto /\ off <= max_off(d[i])
  BY <1>0 DEF Hit, d
<1> HIDE DEF hit
<1>2. ASSUME NEW i \in 1 .. Len(d)
      PROVE  /\ s[i] \in Chunk /\ s[i].pos <= s[i].len /\ s[i].off = d[i].off
             /\ i \in hit => max_off(s[i]) = IF max_off(d[i]) <= upto THEN max_off(d[i]) ELSE upto
             /\ i \notin hit => s[i] = d[i]
             /\ i \in hit => \A b \in Nat : WaitsIn(s[i], b) <=>
                   /\ b < upto
                   /\ WaitsIn(d[i], b) \/ (off <= b /\ d[i].off <= b /\ b < max_off(d[i]))
  <2>1. CASE i \in hit
    <3>1. s[i] = Rewind(d[i], off, upto)
      BY <1>0, <2>1
    <3> HIDE DEF s
    <3>2. /\ s[i] \in Chunk /\ s[i].pos <= s[i].len /\ s[i].off = d[i].off
          /\ max_off(s[i]) = IF max_off(d[i]) <= upto THEN max_off(d[i]) ELSE upto
          /\ \A b \in Nat : WaitsIn(s[i], b) <=>
                /\ b < upto
                /\ WaitsIn(d[i], b) \/ (off <= b /\ d[i].off <= b /\ b < max_off(d[i]))
      <4>1. d[i] \in Chunk /\ d[i].pos <= d[i].len /\ d[i].off < upto /\ off <= max_off(d[i])
        BY <1>b, <1>h, <2>1
      <4> QED
        BY <3>1, <4>1, RewoundChunk
    <3> QED
      BY <2>1, <3>2
  <2>2. CASE i \notin hit
    <3>1. s[i] = d[i]
      BY <1>0, <2>2
    <3> HIDE DEF s
    <3> QED
      BY <1>b, <2>2, <3>1
  <2> QED
    BY <2>1, <2>2
<1>3. s \in Seq(Chunk) /\ Len(s) = Len(d)
  <2>1. s \in [1 .. Len(d) -> Chunk]
    <3>1. DOMAIN s = 1 .. Len(d) /\ \A i \in 1 .. Len(d) : s[i] \in Chunk
      BY <1>0, <1>2
    <3> QED
      BY <1>0, <3>1
  <2> HIDE DEF s
  <2> QED
    BY <1>0, <2>1
<1> HIDE DEF s
<1>4. CASE longer = {}
  <2>1. t = s
    BY <1>1, <1>4
  <2>2. ASSUME NEW i \in 1 .. Len(d)
        PROVE  /\ max_off(s[i]) = max_off(d[i])
               /\ i \in hit => max_off(d[i]) <= upto
    <3>1. i \in hit => ~(upto < max_off(d[i]))
      BY <1>4
    <3> QED
      BY <1>2, <1>b, <3>1
  <2>3. Chain(t, end)
    BY <1>2, <1>3, <1>c, <2>1, <2>2, SameShape
  <2>4. d # <<>> => t # <<>> /\ t[1].off = d[1].off
    <3>1. d # <<>> => 1 \in 1 .. Len(d) /\ Len(d) # 0
      BY <1>0
    <3>2. Len(s) # 0 => s # <<>>
      BY <1>3
    <3> QED
      BY <1>2, <1>3, <2>1, <3>1, <3>2
  <2>5. ASSUME NEW b \in Nat, NEW i \in 1 .. Len(d)
        PROVE  WaitsIn(s[i], b) <=>
                  \/ WaitsIn(d[i], b)
                  \/ off <= b /\ b < upto /\ d[i].off <= b /\ b < max_off(d[i])
    <3>0. d[i].off \in Nat /\ max_off(d[i]) \in Nat /\ FrontOf(d[i]) \in Nat
          /\ d[i].off <= FrontOf(d[i])
      BY <1>b
    <3>1. CASE i \in hit
      BY <1>2, <2>2, <3>0, <3>1 DEF WaitsIn
    <3>2. CASE i \notin hit
      <4>1. s[i] = d[i] /\ ~(d[i].off < upto /\ off <= max_off(d[i]))
        BY <1>2, <1>h, <3>2
      <4> QED
        BY <3>0, <4>1 DEF WaitsIn
    <3> QED
      BY <3>1, <3>2
  <2>6. \A b \in Nat : Waits(t, b) <=> Waits(d, b) \/ (off <= b /\ b < upto /\ Holds(d, b))
    BY <1>3, <2>1, <2>5 DEF Waits, Holds
  <2>7. ASSUME NEW i \in 1 .. Len(d), \A j \in hit : i < j PROVE t[i] = d[i]
    <3>1. i \notin hit
      BY <2>7
    <3> QED
      BY <1>2, <2>1, <3>1
  <2>8. Len(d) <= Len(t)
    BY <1>0, <1>3, <2>1
  <2> QED
    BY <2>3, <2>4, <2>6, <2>7, <2>8 DEF Again, SameBefore, d, hit
<1>5. CASE longer # {}
  <2>1. l \in longer
    <3>1. longer \subseteq Nat /\ \A i \in longer : i <= Len(d)
      BY <1>0, <1>h
    <3> QED
      BY <1>0, <1>5, <3>1, MaxInSet
  <2>2. l \in 1 .. Len(d) /\ l \in hit /\ d[l].off < upto /\ upto < max_off(d[l]) /\ off <= max_off(d[l])
    BY <1>h, <2>1
  <2>t. t = InsertAt(s, l + 1, y)
    BY <1>1, <1>5
  <2> HIDE DEF longer, l
  <2>y. /\ y \in Chunk /\ y.pos <= y.len /\ y.off = upto /\ max_off(y) = max_off(d[l])
        /\ \A b \in Nat : WaitsIn(y, b) <=> WaitsIn(d[l], b) /\ upto <= b
    <3>1. d[l] \in Chunk /\ d[l].pos <= d[l].len
      BY <1>b, <2>2
    <3> QED
      BY <2>2, <3>1, SplitChunk
  <2> HIDE DEF y
  <2>3. /\ t \in Seq(Chunk) /\ Len(t) = Len(d) + 1
        /\ \A i \in 1 .. l : t[i] = s[i]
        /\ t[l + 1] = y
        /\ \A i \in 1 .. Len(d) : i > l => Shifted(s, t, i)
    <3>1. l \in 1 .. Len(s)
      BY <1>3, <2>2
    <3>2. /\ t \in Seq(Chunk) /\ Len(t) = Len(s) + 1
          /\ \A i \in 1 .. l : t[i] = s[i]
          /\ t[l + 1] = y
          /\ \A i \in 1 .. Len(s) : i > l => Shifted(s, t, i)
      <4>1. s \in Seq(Chunk) /\ y \in Chunk
        BY <1>3, <2>y
      <4> QED
        BY <2>t, <3>1, <4>1, Inserted
    <3> QED
      BY <1>3, <3>2
  <2>4. \A i \in 1 .. Len(d) : i < l => max_off(d[i]) <= upto
    <3> SUFFICES ASSUME NEW i \in 1 .. Len(d), i < l PROVE max_off(d[i]) <= upto
      OBVIOUS
    <3>1. max_off(d[i]) <= d[l].off
      BY <1>c, <2>2, Order
    <3> QED
      BY <1>b, <2>2, <3>1
  <2>5. \A i \in 1 .. Len(d) : i > l => upto < d[i].off /\ i \notin hit
    <3> SUFFICES ASSUME NEW i \in 1 .. Len(d), l < i PROVE upto < d[i].off
      BY <1>b, <1>h, <2>2, SMTT(30)
    <3>1. max_off(d[l]) <= d[i].off
      BY <1>c, <2>2, Order
    <3> QED
      BY <1>b, <2>2, <3>1
  <2>6. /\ \A i \in 1 .. Len(d) : i < l => max_off(s[i]) = max_off(d[i])
        /\ max_off(s[l]) = upto
        /\ \A i \in 1 .. Len(d) : i > l => s[i] = d[i]
    <3>1. \A i \in 1 .. Len(d) : i < l => max_off(s[i]) = max_off(d[i])
      BY <1>2, <1>b, <2>4
    <3>2. max_off(s[l]) = upto
      BY <1>2, <1>b, <2>2
    <3> QED
      BY <1>2, <2>5, <3>1, <3>2
  <2>7. ASSUME NEW i \in 1 .. Len(d), i > l PROVE t[i + 1] = d[i]
    BY <2>3, <2>6, <2>7 DEF Shifted
  <2>l. Len(d) \in Nat /\ l \in Nat /\ l >= 1 /\ l <= Len(d) /\ Len(t) = Len(d) + 1
    BY <1>0, <2>2, <2>3
  <2>8. ASSUME NEW i \in 1 .. Len(t) - 1 PROVE max_off(t[i]) = t[i + 1].off
    <3>0. i \in Nat /\ i >= 1 /\ i <= Len(d)
      BY <2>l
    <3>1. CASE i < l
      <4>1. i \in 1 .. l /\ i + 1 \in 1 .. l /\ i \in 1 .. Len(d) /\ i + 1 \in 1 .. Len(d)
            /\ i \in 1 .. Len(d) - 1
        BY <2>l, <3>0, <3>1
      <4>2. max_off(d[i]) = d[i + 1].off
        BY <1>c, <4>1 DEF Chain
      <4> QED
        BY <1>2, <2>3, <2>6, <3>1, <4>1, <4>2
    <3>2. CASE i = l
      <4>1. l \in 1 .. l
        BY <2>l
      <4> QED
        BY <2>3, <2>6, <2>y, <3>2, <4>1
    <3>3. CASE i = l + 1
      <4>1. i \in 1 .. Len(d) /\ i > l /\ l \in 1 .. Len(d) - 1
        BY <2>l, <3>0, <3>3
      <4>2. t[i + 1] = d[i] /\ max_off(d[l]) = d[l + 1].off
        BY <1>c, <2>7, <4>1 DEF Chain
      <4> QED
        BY <2>3, <2>y, <3>3, <4>2
    <3>4. CASE i > l + 1
      <4>1. PICK k \in 1 .. Len(d) - 1 : i = k + 1 /\ k > l
        <5>1. i - 1 \in 1 .. Len(d) - 1 /\ i = i - 1 + 1 /\ i - 1 > l
          BY <2>l, <3>0, <3>4
        <5> QED
          BY <5>1
      <4>2. k \in 1 .. Len(d) /\ k + 1 \in 1 .. Len(d) /\ k + 1 > l
        BY <2>l, <4>1
      <4>3. t[k + 1] = d[k] /\ t[k + 1 + 1] = d[k + 1] /\ max_off(d[k]) = d[k + 1].off
        BY <1>c, <2>7, <4>1, <4>2 DEF Chain
      <4> QED
        BY <4>1, <4>3
    <3> QED
      BY <2>l, <3>0, <3>1, <3>2, <3>3, <3>4
  <2>9. max_off(t[Len(t)]) = end
    <3>0. d # <<>> /\ max_off(d[Len(d)]) = end /\ Len(d) \in 1 .. Len(d)
      <4>1. d # <<>>
        BY <2>l
      <4> QED
        BY <1>c, <2>l, <4>1 DEF Chain
    <3>1. CASE l = Len(d)
      BY <2>3, <2>y, <3>0, <3>1
    <3>2. CASE l # Len(d)
      BY <2>l, <2>7, <3>0, <3>2
    <3> QED
      BY <3>1, <3>2
  <2>i. ASSUME NEW i \in 1 .. Len(t)
        PROVE  \/ i \in 1 .. l /\ i \in 1 .. Len(d) /\ t[i] = s[i]
               \/ i = l + 1 /\ t[i] = y
               \/ \E k \in 1 .. Len(d) : k > l /\ i = k + 1 /\ t[i] = d[k]
    <3>1. CASE i <= l
      BY <2>l, <2>3, <3>1
    <3>2. CASE i = l + 1
      BY <2>3, <3>2
    <3>3. CASE i > l + 1
      <4>1. i - 1 \in 1 .. Len(d) /\ i - 1 > l /\ i = i - 1 + 1
        BY <2>l, <3>3
      <4> QED
        BY <2>7, <4>1
    <3> QED
      BY <2>l, <3>1, <3>2, <3>3
  <2>10. \A i \in 1 .. Len(t) : t[i].pos <= t[i].len
    <3> SUFFICES ASSUME NEW i \in 1 .. Len(t) PROVE t[i].pos <= t[i].len
      OBVIOUS
    <3>1. CASE i \in 1 .. l /\ i \in 1 .. Len(d) /\ t[i] = s[i]
      BY <1>2, <3>1
    <3>2. CASE t[i] = y
      BY <2>y, <3>2
    <3>3. CASE \E k \in 1 .. Len(d) : k > l /\ i = k + 1 /\ t[i] = d[k]
      BY <1>b, <3>3
    <3> QED
      BY <2>i, <3>1, <3>2, <3>3
  <2>11. Chain(t, end)
    BY <2>3, <2>8, <2>9, <2>10 DEF Chain
  <2>12. d # <<>> => t # <<>> /\ t[1].off = d[1].off
    <3>1. 1 \in 1 .. l /\ 1 \in 1 .. Len(d) /\ t # <<>>
      BY <2>l, <2>3
    <3> QED
      BY <1>2, <2>3, <3>1
  <2>13. ASSUME NEW b \in Nat, Waits(t, b)
         PROVE  Waits(d, b) \/ (off <= b /\ b < upto /\ Holds(d, b))
    <3>1. PICK i \in 1 .. Len(t) : WaitsIn(t[i], b)
      BY <2>13 DEF Waits
    <3>2. CASE i \in 1 .. l /\ i \in 1 .. Len(d) /\ t[i] = s[i]
      <4>1. CASE i \in hit
        BY <1>2, <3>1, <3>2, <4>1 DEF Waits, Holds
      <4>2. CASE i \notin hit
        BY <1>2, <3>1, <3>2, <4>2 DEF Waits
      <4> QED
        BY <4>1, <4>2
    <3>3. CASE t[i] = y
      BY <2>2, <2>y, <3>1, <3>3 DEF Waits
    <3>4. CASE \E k \in 1 .. Len(d) : k > l /\ i = k + 1 /\ t[i] = d[k]
      BY <3>1, <3>4 DEF Waits
    <3> QED
      BY <2>i, <3>2, <3>3, <3>4
  <2>m. \A i \in 1 .. Len(d) : (i <= l => i \in 1 .. Len(t) /\ t[i] = s[i])
                               /\ (i > l => i + 1 \in 1 .. Len(t) /\ t[i + 1] = d[i])
    BY <2>l, <2>3, <2>7
  <2>14. ASSUME NEW b \in Nat, Waits(d, b) PROVE Waits(t, b)
    <3>1. PICK i \in 1 .. Len(d) : WaitsIn(d[i], b)
      BY <2>14 DEF Waits
    <3>2. CASE i > l
      BY <2>m, <3>1, <3>2 DEF Waits
    <3>3. CASE i <= l
      <4>1. i \in 1 .. Len(t) /\ t[i] = s[i]
        BY <2>m, <3>3
      <4>2. CASE i \notin hit
        BY <1>2, <3>1, <4>1, <4>2 DEF Waits
      <4>3. CASE i \in hit /\ b < upto
        BY <1>2, <3>1, <4>1, <4>3 DEF Waits
      <4>4. CASE i \in hit /\ ~(b < upto)
        <5>1. i = l
          BY <1>b, <2>l, <2>4, <3>1, <3>3, <4>4 DEF WaitsIn
        <5>2. WaitsIn(y, b) /\ l + 1 \in 1 .. Len(t)
          BY <2>y, <2>l, <3>1, <4>4, <5>1
        <5> QED
          BY <2>3, <5>2 DEF Waits
      <4> QED
        BY <4>2, <4>3, <4>4
    <3> QED
      BY <2>l, <3>2, <3>3
  <2>15. ASSUME NEW b \in Nat, off <= b, b < upto, Holds(d, b) PROVE Waits(t, b)
    <3>1. PICK i \in 1 .. Len(d) : d[i].off <= b /\ b < max_off(d[i])
      BY <2>15 DEF Holds
    <3>2. i \in hit
      BY <1>b, <1>h, <2>15, <3>1
    <3>3. i <= l
      BY <2>l, <2>5, <3>2
    <3>4. WaitsIn(s[i], b)
      BY <1>2, <2>15, <3>1, <3>2
    <3> QED
      BY <2>m, <3>3, <3>4 DEF Waits
  <2>16. ASSUME NEW i \in 1 .. Len(d), \A j \in hit : i < j PROVE t[i] = d[i]
    <3>1. i \notin hit /\ i <= l
      BY <2>2, <2>l, <2>16
    <3> QED
      BY <1>2, <2>m, <3>1
  <2>17. Len(d) <= Len(t)
    BY <2>l
  <2>18. Again(d, t, end, off, upto)
    BY <2>11, <2>12, <2>13, <2>14, <2>15, <2>17 DEF Again
  <2> QED
    BY <2>16, <2>18 DEF SameBefore, d, hit
<1> QED
  BY <1>4, <1>5

\* m is sb after the bytes lost are retransmitted: bytes among them wait, and all
\* those not yet acked do.
Requeued(sb, m, lost) ==
    /\ BufInv(m)
    /\ m.off = sb.off /\ m.emit_off = sb.emit_off /\ m.fin_off = sb.fin_off
    /\ m.max_data = sb.max_data /\ m.shutdown = sb.shutdown /\ m.error = sb.error
    /\ m.acked = sb.acked
    /\ Waiting(sb.data) \subseteq Waiting(m.data)
    /\ Waiting(m.data) \subseteq Waiting(sb.data) \cup lost
    /\ lost \ sb.acked \subseteq Waiting(m.data)
    /\ sb.data = <<>> => m.data = <<>>

LEMMA RetransmitRequeues ==
    ASSUME NEW sb, BufInv(sb), NEW off \in Nat, NEW len \in Nat,
           NEW m, m = retransmit(sb, off, len),
           NEW lost, lost = (off .. off + len - 1) \cap (0 .. sb.off - 1)
    PROVE  Requeued(sb, m, lost)
<1> DEFINE d == sb.data
           upto == off + len
           hit == Hit(sb, off, upto)
           pos == Min({sb.pos} \cup hit)
<1>0. /\ sb.off \in Nat /\ sb.emit_off \in 0 .. sb.off /\ sb.acked \subseteq 0 .. sb.off - 1
      /\ upto \in Nat /\ off <= upto
  BY BufFields
<1>1. /\ Tidy(d, sb.pos, sb.off, sb.emit_off, sb.acked) /\ Chain(d, sb.off)
      /\ sb.pos \in 1 .. Len(d) + 1
  BY DEF BufInv, Tidy
<1>2. Len(d) \in Nat /\ DOMAIN d = 1 .. Len(d) /\ d \in Seq(Chunk)
  BY <1>1, Bounds DEF Chain
<1>b. \A i \in 1 .. Len(d) : d[i].off \in Nat /\ max_off(d[i]) \in Nat
  BY <1>1, Bounds DEF Bounded
<1>h. \A i : i \in hit <=> i \in 1 .. Len(d) /\ d[i].off < upto /\ off <= max_off(d[i])
  BY <1>2 DEF Hit
<1>3. ack_off(sb) \in 0 .. sb.off /\ 0 .. ack_off(sb) - 1 \subseteq sb.acked
  BY <1>0, AckOff
<1>4. PICK n : m = IF upto <= ack_off(sb) \/ hit = {} THEN sb
                   ELSE [sb EXCEPT !.data = Rescheduled(sb, off, upto), !.pos = pos, !.len = n]
  BY DEF retransmit
<1>l. lost \subseteq Nat /\ \A b \in Nat : b \in lost <=> off <= b /\ b < upto /\ b < sb.off
  BY <1>0
<1> HIDE DEF d, hit, upto
\* A byte that is not acked is in a chunk.
<1>5. ASSUME NEW b \in lost, b \notin sb.acked
      PROVE  \E i \in 1 .. Len(d) : i \in hit /\ d[i].off <= b /\ b < max_off(d[i])
  <2>0. b \in Nat /\ b \in 0 .. sb.off - 1 /\ off <= b /\ b < upto /\ b < sb.off
    BY <1>0, <1>l, <1>5
  <2>1. d # <<>> /\ d[1].off <= b
    BY <1>1, <1>5, <2>0 DEF Tidy
  <2>2. PICK i \in 1 .. Len(d) : d[i].off <= b /\ b < max_off(d[i])
    BY <1>1, <2>0, <2>1, Cover
  <2>3. i \in hit
    BY <1>0, <1>b, <1>h, <2>0, <2>2, SMTT(30)
  <2> QED
    BY <2>2, <2>3
<1>6. CASE upto <= ack_off(sb) \/ hit = {}
  <2>1. m = sb
    BY <1>4, <1>6
  <2>2. lost \ sb.acked = {}
    <3> SUFFICES ASSUME NEW b \in lost, b \notin sb.acked PROVE FALSE
      OBVIOUS
    <3>1. hit # {}
      BY <1>5
    <3>2. b \in Nat /\ b < upto /\ ~(b \in 0 .. ack_off(sb) - 1)
      BY <1>3, <1>l
    <3> QED
      BY <1>0, <1>3, <1>6, <3>1, <3>2
  <2> QED
    BY <2>1, <2>2 DEF Requeued
<1>7. CASE ~(upto <= ack_off(sb) \/ hit = {})
  <2>t. PICK t : t = Rescheduled(sb, off, upto)
    OBVIOUS
  <2>0. m = [sb EXCEPT !.data = t, !.pos = pos, !.len = n]
    BY <1>4, <1>7, <2>t
  <2>1. /\ Again(d, t, sb.off, off, upto)
        /\ SameBefore(d, t, hit)
    <3>1. Chain(sb.data, sb.off)
      BY <1>1 DEF d
    <3> QED
      BY <1>0, <2>t, <3>1, RescheduledList DEF d, hit
  <2>2. /\ Chain(t, sb.off) /\ Len(d) <= Len(t) /\ t \in Seq(Chunk) /\ Len(t) \in Nat
        /\ d # <<>> => t # <<>> /\ t[1].off = d[1].off
    <3>1. Chain(t, sb.off)
      BY <2>1 DEF Again
    <3> QED
      BY <2>1, <3>1, Bounds DEF Again, Chain
  <2>3. \A b \in Nat : Waits(t, b) <=> Waits(d, b) \/ (off <= b /\ b < upto /\ Holds(d, b))
    BY <2>1 DEF Again
  <2>4. pos \in 1 .. Len(t) + 1 /\ pos <= sb.pos /\ \A j \in hit : pos <= j
    <3> DEFINE S == {sb.pos} \cup hit
    <3>1. S \subseteq Nat /\ S # {}
      BY <1>1, <1>2, <1>h
    <3>2. Min(S) \in S /\ \A y \in S : Min(S) <= y
      BY <3>1, MinInSet
    <3>3. PICK k \in S : k = pos /\ \A y \in S : k <= y
      BY <3>2
    <3>4. k \in 1 .. Len(d) + 1
      BY <1>1, <1>2, <1>h
    <3>5. k \in 1 .. Len(t) + 1
      BY <1>2, <2>2, <3>4
    <3> QED
      BY <3>3, <3>5
  <2> HIDE DEF pos
  <2>5. ASSUME NEW i \in 1 .. Len(t), i < pos PROVE FrontOf(t[i]) = max_off(t[i])
    <3>1. i \in 1 .. Len(d) /\ i < sb.pos /\ pos \in Int /\ \A j \in hit : i < j
      BY <1>1, <1>2, <1>h, <2>2, <2>4, <2>5
    <3>2. t[i] = d[i]
      BY <2>1, <3>1 DEF SameBefore
    <3> QED
      BY <1>1, <3>1, <3>2 DEF Tidy
  <2>6. ASSUME NEW b \in 0 .. sb.off - 1, b \notin sb.acked PROVE t # <<>> /\ t[1].off <= b
    <3>1. d # <<>> /\ d[1].off <= b
      BY <1>1, <2>6 DEF Tidy
    <3> QED
      BY <2>2, <3>1
  <2>7. ASSUME NEW b \in sb.emit_off .. sb.off - 1 PROVE Waits(t, b)
    <3>1. b \in Nat
      BY <1>0
    <3>2. Waits(d, b)
      BY <1>1 DEF Tidy
    <3> QED
      BY <2>3, <3>1, <3>2
  <2>8. Tidy(t, pos, sb.off, sb.emit_off, sb.acked)
    BY <1>1, <2>2, <2>4, <2>5, <2>6, <2>7 DEF Tidy
  <2>9. /\ SendBufType(m) /\ m.data = t /\ m.pos = pos /\ m.off = sb.off
        /\ m.emit_off = sb.emit_off /\ m.fin_off = sb.fin_off /\ m.max_data = sb.max_data
        /\ m.shutdown = sb.shutdown /\ m.error = sb.error /\ m.acked = sb.acked
    <3>1. pos \in Nat
      BY <2>2, <2>4
    <3> QED
      BY <2>0, <2>2, <3>1 DEF BufInv, SendBufType
  <2>10. BufInv(m)
    BY <2>8, <2>9 DEF BufInv
  <2>11. Waiting(d) \subseteq Waiting(t)
    BY <2>3 DEF Waiting
  <2>12. Waiting(t) \subseteq Waiting(d) \cup lost
    <3> SUFFICES ASSUME NEW b \in Waiting(t), b \notin Waiting(d) PROVE b \in lost
      OBVIOUS
    <3>1. b \in Nat /\ off <= b /\ b < upto /\ Holds(d, b)
      BY <2>3 DEF Waiting
    <3>2. PICK i \in 1 .. Len(d) : b < max_off(d[i])
      BY <3>1 DEF Holds
    <3>3. max_off(d[i]) <= sb.off /\ max_off(d[i]) \in Nat
      BY <1>1, <1>b, Ends
    <3> QED
      BY <1>0, <1>l, <3>1, <3>2, <3>3
  <2>13. lost \ sb.acked \subseteq Waiting(t)
    <3> SUFFICES ASSUME NEW b \in lost, b \notin sb.acked PROVE b \in Waiting(t)
      OBVIOUS
    <3>1. b \in Nat /\ off <= b /\ b < upto /\ Holds(d, b)
      BY <1>5, <1>l DEF Holds
    <3> QED
      BY <2>3, <3>1 DEF Waiting
  <2>14. d # <<>>
    <3>1. PICK i \in hit : TRUE
      BY <1>7
    <3>2. i \in 1 .. Len(d)
      BY <1>h
    <3> QED
      BY <1>2, <3>2
  <2> QED
    BY <2>9, <2>10, <2>11, <2>12, <2>13, <2>14 DEF Requeued, d
<1> QED
  BY <1>6, <1>7

-----------------------------------------------------------------------------
(* The stream.                                                               *)

StreamPacket == [off : Nat, len : Nat, fin : BOOLEAN, lost : BOOLEAN, recovered : BOOLEAN,
                 at_peer : {"no", "decoded", "received"}]

\* The packets and the peer know sent bytes only.
WithinSent ==
    /\ \A p \in Sent : p \in StreamPacket /\ p.off + p.len <= send.emit_off
    /\ received \subseteq 0 .. send.emit_off - 1

\* A stream that was shut down or stopped has nothing left to send, and only such a
\* stream is reset.
ResetIsOver ==
    /\ send.shutdown \/ send.error =>
          send.data = <<>> /\ send.fin_off = send.off /\ send.emit_off = send.off
    /\ reset_queued \/ reset_pkt # "none" => send.shutdown \/ send.error

\* A final size is announced when everything before it was sent.
FinalIsSent ==
    \A f \in final_sizes : f = send.fin_off /\ f = send.off /\ f = send.emit_off

CollectedIsDone == collected => 0 .. send.off - 1 \subseteq send.acked /\ ~flushable

StreamInv ==
    /\ BufInv(send)
    /\ flushable \in BOOLEAN /\ collected \in BOOLEAN /\ reset_queued \in BOOLEAN
    /\ WithinSent /\ ResetIsOver /\ FinalIsSent /\ CollectedIsDone

\* What a step keeps: the invariant, the queue of SendQueue, and the place in the
\* queue of flushable streams.
StepKeeps ==
    /\ StreamInv'
    /\ [Queue!Next]_(Queue!vars)
    /\ FlushableQueued => FlushableQueued'

LEMMA BagDomains ==
    ASSUME NEW B, NEW p, NEW q
    PROVE  /\ BagToSet(BagAdd(B, q)) = BagToSet(B) \cup {q}
           /\ BagToSet(BagRemove(B, p)) \subseteq BagToSet(B)
  BY DEF BagToSet, BagAdd, BagRemove

LEMMA BagsAgree ==
    ASSUME NEW B, NEW p
    PROVE  /\ Queue!BagAdd(B, p) = BagAdd(B, p) /\ Queue!BagRemove(B, p) = BagRemove(B, p)
           /\ Queue!BagToSet(B) = BagToSet(B)
  BY DEF Queue!BagAdd, BagAdd, Queue!BagRemove, BagRemove, Queue!BagToSet, BagToSet

LEMMA EmptyBags == Queue!EmptyBag = EmptyBag /\ BagToSet(EmptyBag) = {}
  BY DEF Queue!EmptyBag, EmptyBag, Queue!SetToBag, SetToBag, BagToSet

\* What is pending, as bytes that wait.
LEMMA PendingOf ==
    ASSUME NEW sb, BufInv(sb)
    PROVE  Pending(sb) = Waiting(sb.data) /\ Pending(sb) \subseteq 0 .. sb.off - 1
  BY PendingIsWaiting DEF BufInv

\* Only bytes that wait make a stream flushable.
LEMMA FlushableWaits ==
    ASSUME NEW sb, BufInv(sb)
    PROVE  is_flushable(sb) <=> \E b \in Waiting(sb.data) : b < sb.max_data
<1> DEFINE f == off_front(sb)
<1>1. /\ f \in 0 .. sb.off /\ (\A b \in Waiting(sb.data) : f <= b)
      /\ (f < sb.off => f \in Waiting(sb.data))
  BY FrontWaits DEF BufInv
<1>2. sb.off \in Nat /\ sb.max_data \in Nat /\ Waiting(sb.data) \subseteq 0 .. sb.off - 1
  BY BufFields, PendingOf
<1> HIDE DEF f
<1>3. ASSUME is_flushable(sb) PROVE \E b \in Waiting(sb.data) : b < sb.max_data
  BY <1>1, <1>3 DEF is_flushable, f
<1>4. ASSUME NEW b \in Waiting(sb.data), b < sb.max_data PROVE is_flushable(sb)
  <2>1. sb.data # <<>>
    BY DEF Waiting, Waits
  <2>2. f < sb.off /\ f < sb.max_data
    BY <1>1, <1>2, <1>4
  <2> QED
    BY <2>1, <2>2 DEF is_flushable, f
<1> QED
  BY <1>3, <1>4

LEMMA SendStep ==
    ASSUME StreamInv, NEW n \in 0 .. MaxLen, NEW fin \in BOOLEAN, stream_send(n, fin)
    PROVE  StepKeeps
<1>0. n \in Nat /\ BufInv(send)
  BY StreamAssumption DEF StreamInv
<1>1. /\ BufInv(send')
      /\ send'.off >= send.off /\ send'.emit_off = send.emit_off /\ send'.acked = send.acked
      /\ send'.shutdown = send.shutdown /\ send'.error = send.error
      /\ Waiting(send'.data) = Waiting(send.data) \cup send.off .. send'.off - 1
      /\ send.fin_off # NoFin =>
            send'.data = send.data /\ send'.off = send.off /\ send'.fin_off = send.fin_off
  <2>1. ~WriteError(send, n, fin) /\ (n > 0 \/ fin) /\ send' = write(send, n, fin)
    BY DEF stream_send
  <2> QED
    BY <1>0, <2>1, WriteAppends
<1>2. /\ UNCHANGED <<reset_queued, collected, pkts, losses, reset_pkt, final_sizes, received>>
      /\ flushable' \in BOOLEAN /\ ~collected
      /\ is_flushable(send') => is_flushable(send) \/ flushable'
      /\ flushable => flushable'
      /\ passed_over' = (passed_over /\ ~flushable')
  BY DEF stream_send, StillPassedOver, netVars, peerVars, StreamInv
<1>3. send.off \in Nat /\ send'.off \in Nat
  BY <1>0, <1>1, BufFields
<1>4. WithinSent'
  BY <1>1, <1>2 DEF StreamInv, WithinSent, Sent
<1>5. ResetIsOver'
  BY <1>1, <1>2, <1>3 DEF StreamInv, ResetIsOver, NoFin
<1>6. FinalIsSent'
  BY <1>1, <1>2, <1>3 DEF StreamInv, FinalIsSent, NoFin
<1>7. StreamInv'
  BY <1>1, <1>2, <1>4, <1>5, <1>6 DEF StreamInv, CollectedIsDone
<1>8. Queue!Write
  <2>1. Pending(send) = Waiting(send.data) /\ Pending(send') = Waiting(send'.data)
    BY <1>0, <1>1, PendingOf
  <2> QED
    BY <1>1, <1>2, <1>3, <2>1 DEF Queue!Write, Queue!Interval
<1>9. FlushableQueued => FlushableQueued'
  BY <1>2 DEF FlushableQueued
<1> QED
  BY <1>7, <1>8, <1>9 DEF StepKeeps, Queue!Next

LEMMA ResetStep ==
    ASSUME StreamInv, stream_shutdown \/ RecvStopSending
    PROVE  StepKeeps
<1>0. BufInv(send) /\ ~collected /\ send.emit_off \in Nat
  BY BufFields DEF StreamInv, stream_shutdown, RecvStopSending
<1>1. Emptied(send, send') /\ (send'.shutdown \/ send'.error)
  BY <1>0, StopEmpties DEF stream_shutdown, RecvStopSending
<1>2. /\ UNCHANGED <<flushable, collected, pkts, losses, reset_pkt, final_sizes, received>>
      /\ reset_queued' = TRUE
  BY DEF stream_shutdown, RecvStopSending, netVars, peerVars
<1>3. /\ BufInv(send') /\ send'.data = <<>> /\ send'.off = send.emit_off
      /\ send'.emit_off = send.emit_off /\ send'.fin_off = send.emit_off
      /\ send'.acked = send.acked \cup 0 .. send.emit_off - 1 /\ Waiting(send'.data) = {}
  BY <1>1 DEF Emptied
<1>4. StreamInv'
  <2>1. WithinSent'
    BY <1>2, <1>3 DEF StreamInv, WithinSent, Sent
  <2>2. ResetIsOver' /\ FinalIsSent'
    BY <1>1, <1>2, <1>3 DEF StreamInv, ResetIsOver, FinalIsSent
  <2> QED
    BY <1>0, <1>2, <1>3, <2>1, <2>2 DEF StreamInv, CollectedIsDone
<1>5. Queue!Reset
  <2>1. Pending(send') = {}
    BY <1>3, PendingOf
  <2>2. (send'.shutdown \/ send'.error) = TRUE
    BY <1>1, <1>3, BufFields
  <2> QED
    BY <1>2, <1>3, <2>1, <2>2 DEF Queue!Reset, Queue!Interval
<1>6. ~is_flushable(send')
  BY <1>3 DEF is_flushable
<1> QED
  BY <1>4, <1>5, <1>6 DEF StepKeeps, Queue!Next, FlushableQueued

LEMMA LimitStep ==
    ASSUME StreamInv, NEW max \in Nat, RecvMaxStreamData(max)
    PROVE  StepKeeps
<1>0. BufInv(send) /\ send' = update_max_data(send, max)
  BY DEF StreamInv, RecvMaxStreamData
<1>1. /\ BufInv(send')
      /\ send'.data = send.data /\ send'.pos = send.pos /\ send'.off = send.off
      /\ send'.emit_off = send.emit_off /\ send'.acked = send.acked
      /\ send'.fin_off = send.fin_off /\ send'.shutdown = send.shutdown
      /\ send'.error = send.error
  BY <1>0, LimitRaised
<1>2. /\ UNCHANGED <<reset_queued, collected, pkts, losses, reset_pkt, final_sizes, received>>
      /\ flushable' \in BOOLEAN /\ ~collected
      /\ is_flushable(send') => is_flushable(send) \/ flushable'
      /\ flushable => flushable'
      /\ passed_over' = (passed_over /\ ~flushable')
  BY DEF RecvMaxStreamData, StillPassedOver, netVars, peerVars, StreamInv
<1>3. StreamInv'
  BY <1>1, <1>2 DEF StreamInv, WithinSent, Sent, ResetIsOver, FinalIsSent, CollectedIsDone
<1>4. UNCHANGED Queue!vars
  <2>1. Pending(send') = Pending(send)
    BY <1>1 DEF Pending
  <2> QED
    BY <1>1, <1>2, <2>1 DEF Queue!vars
<1> QED
  BY <1>2, <1>3, <1>4 DEF StepKeeps, FlushableQueued

LEMMA EmitStep ==
    ASSUME StreamInv, NEW n \in Nat, SendStreamFrame(n)
    PROVE  StepKeeps
<1>0. BufInv(send) /\ send' = emit(send, n) /\ flushable /\ collected = FALSE
  BY DEF StreamInv, SendStreamFrame, CollectedIsDone
<1>1. PICK f, e : f = off_front(send) /\ e = EmitEnd(send, n)
  OBVIOUS
<1>2. /\ BufInv(send')
      /\ send'.off = send.off /\ send'.acked = send.acked /\ send'.fin_off = send.fin_off
      /\ send'.shutdown = send.shutdown /\ send'.error = send.error
      /\ send'.emit_off = IF e > send.emit_off THEN e ELSE send.emit_off
      /\ Waiting(send'.data) = Waiting(send.data) \ (f .. e - 1)
      /\ send.data = <<>> => send'.data = <<>>
  <2>1. Emitted(send, send', f, e)
    BY <1>0, <1>1, EmitTakes
  <2> QED
    BY <2>1 DEF Emitted
<1>3. /\ e \in Nat /\ f \in Nat /\ f <= e /\ e <= send.off /\ f .. e - 1 \subseteq Waiting(send.data)
      /\ f <= send.emit_off /\ send.off \in Nat /\ send.emit_off \in 0 .. send.off
      /\ send.fin_off \in {NoFin, send.off}
  <2>1. e \in Nat /\ f <= e /\ e <= send.off /\ f .. e - 1 \subseteq Waiting(send.data)
    BY <1>0, <1>1, EmitWithin
  <2>2. f \in 0 .. send.off /\ f <= send.emit_off
    BY <1>0, <1>1, FrontWaits DEF BufInv
  <2> QED
    BY <1>0, <2>1, <2>2, BufFields
<1>4. PICK p : /\ p = [off |-> f, len |-> e - f, fin |-> send.fin_off = e, lost |-> FALSE,
                       recovered |-> FALSE, at_peer |-> "no"]
               /\ pkts' = BagAdd(pkts, p)
  BY <1>1 DEF SendStreamFrame
<1>5. /\ UNCHANGED <<reset_queued, collected, losses, reset_pkt, received>>
      /\ flushable' = is_flushable(send')
      /\ final_sizes' = IF send.fin_off = e THEN final_sizes \cup {e} ELSE final_sizes
  BY <1>1 DEF SendStreamFrame, peerVars
<1>6. /\ p \in StreamPacket /\ p.off = f /\ p.len = e - f /\ p.off + p.len = e
      /\ p.lost = FALSE /\ p.recovered = FALSE /\ p.at_peer = "no"
  BY <1>3, <1>4 DEF StreamPacket
<1>7. send'.emit_off \in Nat /\ send.emit_off <= send'.emit_off /\ e <= send'.emit_off
      /\ send'.emit_off <= send.off
  BY <1>2, <1>3
<1>8. WithinSent'
  <2>1. BagToSet(pkts') = BagToSet(pkts) \cup {p}
    BY <1>4, BagDomains
  <2>2. ASSUME NEW q \in BagToSet(pkts')
        PROVE  q \in StreamPacket /\ q.off + q.len <= send'.emit_off
    <3>1. CASE q = p
      BY <1>6, <1>7, <3>1
    <3>2. CASE q \in BagToSet(pkts)
      <4>1. q \in StreamPacket /\ q.off + q.len <= send.emit_off
        BY <3>2 DEF StreamInv, WithinSent, Sent
      <4>2. q.off \in Nat /\ q.len \in Nat
        BY <4>1 DEF StreamPacket
      <4> QED
        BY <1>3, <1>7, <4>1, <4>2
    <3> QED
      BY <2>1, <3>1, <3>2
  <2>3. received \subseteq 0 .. send'.emit_off - 1
    <3>1. 0 .. send.emit_off - 1 \subseteq 0 .. send'.emit_off - 1
      BY <1>3, <1>7
    <3> QED
      BY <3>1 DEF StreamInv, WithinSent
  <2> QED
    BY <1>5, <2>2, <2>3 DEF WithinSent, Sent
<1>9. ResetIsOver'
  BY <1>2, <1>3, <1>5 DEF StreamInv, ResetIsOver
<1>10. FinalIsSent'
  BY <1>2, <1>3, <1>5 DEF StreamInv, FinalIsSent, NoFin
<1>11. is_flushable(send') \in BOOLEAN
  BY DEF is_flushable
<1>12. StreamInv'
  BY <1>0, <1>2, <1>5, <1>8, <1>9, <1>10, <1>11 DEF StreamInv, CollectedIsDone
<1>13. Queue!Emit(p) /\ p \in Queue!BagToSet(pkts')
  <2>1. Pending(send) = Waiting(send.data) /\ Pending(send') = Waiting(send'.data)
    BY <1>0, <1>2, PendingOf
  <2>2. Queue!Bytes(p) = f .. e - 1
    BY <1>6 DEF Queue!Bytes, Queue!Interval
  <2>3. p \in Queue!Packet
    BY <1>6 DEF StreamPacket, Queue!Packet
  <2>4. pkts' = Queue!BagAdd(pkts, p) /\ p \in Queue!BagToSet(pkts')
    BY <1>4, BagsAgree, BagDomains
  <2> QED
    BY <1>2, <1>3, <1>5, <1>6, <2>1, <2>2, <2>3, <2>4 DEF Queue!Emit
<1>14. [Queue!Next]_(Queue!vars)
  BY <1>13 DEF Queue!Next
<1> QED
  BY <1>5, <1>12, <1>14 DEF StepKeeps, FlushableQueued

LEMMA QueueStep ==
    ASSUME StreamInv, SkipStream \/ SendResetFrame
    PROVE  StepKeeps
<1>1. /\ send' = send
      /\ UNCHANGED <<collected, pkts, received>>
  BY DEF SkipStream, SendResetFrame, netVars, peerVars
<1>2. UNCHANGED Queue!vars
  BY <1>1 DEF Queue!vars
<1>3. CASE SkipStream
  <2>1. UNCHANGED <<reset_queued, reset_pkt, final_sizes>> /\ flushable' = FALSE
        /\ passed_over' = (passed_over \/ ~send.error)
    BY <1>3 DEF SkipStream, netVars
  <2>2. StreamInv'
    BY <1>1, <2>1 DEF StreamInv, WithinSent, Sent, ResetIsOver, FinalIsSent, CollectedIsDone
  <2>3. send.error => ~is_flushable(send)
    BY DEF StreamInv, ResetIsOver, is_flushable
  <2> QED
    BY <1>1, <1>2, <2>1, <2>2, <2>3 DEF StepKeeps, FlushableQueued
<1>4. CASE SendResetFrame
  <2>1. /\ UNCHANGED <<flushable, passed_over>> /\ reset_queued /\ reset_queued' = FALSE
        /\ final_sizes' = final_sizes \cup {send.emit_off}
    BY <1>4 DEF SendResetFrame, history
  <2>2. send.shutdown \/ send.error
    BY <2>1 DEF StreamInv, ResetIsOver
  <2>3. StreamInv'
    BY <1>1, <2>1, <2>2
    DEF StreamInv, WithinSent, Sent, ResetIsOver, FinalIsSent, CollectedIsDone
  <2> QED
    BY <1>1, <1>2, <2>1, <2>3 DEF StepKeeps, FlushableQueued
<1> QED
  BY <1>3, <1>4

\* Packets of a bag, one of which is dropped or replaced by one with the same bytes.
LEMMA PacketsKept ==
    ASSUME StreamInv, NEW p \in Sent, NEW B,
           \/ B = BagRemove(pkts, p)
           \/ \E q : B = BagAdd(BagRemove(pkts, p), q)
                     /\ q \in StreamPacket /\ q.off = p.off /\ q.len = p.len
    PROVE  \A r \in BagToSet(B) : r \in StreamPacket /\ r.off + r.len <= send.emit_off
<1>1. \A r \in BagToSet(pkts) : r \in StreamPacket /\ r.off + r.len <= send.emit_off
  BY DEF StreamInv, WithinSent, Sent
<1>2. CASE B = BagRemove(pkts, p)
  BY <1>1, <1>2, BagDomains
<1>3. ASSUME NEW q, B = BagAdd(BagRemove(pkts, p), q), q \in StreamPacket, q.off = p.off,
             q.len = p.len
      PROVE  \A r \in BagToSet(B) : r \in StreamPacket /\ r.off + r.len <= send.emit_off
  <2>1. BagToSet(B) \subseteq BagToSet(pkts) \cup {q}
    <3>1. PICK R : R = BagRemove(pkts, p)
      OBVIOUS
    <3>2. BagToSet(BagAdd(R, q)) = BagToSet(R) \cup {q} /\ BagToSet(R) \subseteq BagToSet(pkts)
      BY <3>1, BagDomains
    <3> QED
      BY <1>3, <3>1, <3>2
  <2>2. p \in BagToSet(pkts)
    BY DEF Sent
  <2> QED
    BY <1>1, <1>3, <2>1, <2>2
<1> QED
  BY <1>2, <1>3

\* The peer gets a packet, or says that it decoded one.
LEMMA PacketStep ==
    ASSUME StreamInv, NEW p \in Sent, Deliver(p) \/ Decode(p) \/ RecvSourceSymbolAck(p)
    PROVE  StepKeeps
<1>0. /\ p \in StreamPacket /\ p.off + p.len <= send.emit_off /\ p \in BagToSet(pkts)
      /\ send.emit_off \in Nat /\ p.off \in Nat /\ p.len \in Nat
  <2>1. p \in StreamPacket /\ p.off + p.len <= send.emit_off /\ BufInv(send)
    BY DEF StreamInv, WithinSent
  <2>2. send.emit_off \in Nat
    BY <2>1, BufFields
  <2> QED
    BY <2>1, <2>2 DEF StreamPacket, Sent
<1>1. /\ UNCHANGED <<send, flushable, reset_queued, collected, reset_pkt, final_sizes, passed_over>>
      /\ received' = received \/ received' = received \cup Bytes(p)
  BY DEF Deliver, Decode, RecvSourceSymbolAck, Arrive, streamVars, peerVars, history
<1>2. Bytes(p) \subseteq 0 .. send.emit_off - 1 /\ Queue!Bytes(p) = Bytes(p)
  BY <1>0 DEF Bytes, Queue!Bytes, Queue!Interval
<1>3. PICK q1, q2, q3 : /\ q1 = [p EXCEPT !.at_peer = "received"]
                        /\ q2 = [p EXCEPT !.at_peer = "decoded"]
                        /\ q3 = [p EXCEPT !.recovered = TRUE]
  OBVIOUS
<1>4. /\ q1 \in StreamPacket /\ q1.off = p.off /\ q1.len = p.len
      /\ q2 \in StreamPacket /\ q2.off = p.off /\ q2.len = p.len
      /\ q3 \in StreamPacket /\ q3.off = p.off /\ q3.len = p.len
  BY <1>0, <1>3 DEF StreamPacket
<1>5. \/ Deliver(p) /\ p.lost /\ pkts' = BagRemove(pkts, p)
      \/ Deliver(p) /\ pkts' = BagAdd(BagRemove(pkts, p), q1)
      \/ Decode(p) /\ pkts' = BagAdd(BagRemove(pkts, p), q2)
      \/ RecvSourceSymbolAck(p) /\ pkts' = BagAdd(BagRemove(pkts, p), q3)
  BY <1>3 DEF Deliver, Decode, RecvSourceSymbolAck, Becomes
<1>6. \A r \in BagToSet(pkts') : r \in StreamPacket /\ r.off + r.len <= send.emit_off
  BY <1>4, <1>5, PacketsKept
<1>7. StreamInv'
  <2>1. WithinSent'
    BY <1>1, <1>2, <1>6 DEF StreamInv, WithinSent, Sent
  <2> QED
    BY <1>1, <2>1 DEF StreamInv, ResetIsOver, FinalIsSent, CollectedIsDone
<1>8. Queue!Arrive(p) \/ Queue!SymbolAck(p)
  <2>0. UNCHANGED <<send.off, send.emit_off, Pending(send), send.acked,
                    send.shutdown \/ send.error>>
    BY <1>1
  <2>1. CASE Deliver(p) /\ p.lost /\ pkts' = BagRemove(pkts, p)
    BY <1>2, <2>0, <2>1, BagsAgree DEF Queue!Arrive, Deliver, Arrive
  <2>2. CASE Deliver(p) /\ pkts' = BagAdd(BagRemove(pkts, p), q1)
    <3>1. Queue!Becomes(p, q1)
      BY <2>2, BagsAgree DEF Queue!Becomes
    <3> QED
      BY <1>2, <1>3, <2>0, <2>2, <3>1 DEF Queue!Arrive, Deliver, Arrive
  <2>3. CASE Decode(p) /\ pkts' = BagAdd(BagRemove(pkts, p), q2)
    <3>1. Queue!Becomes(p, q2)
      BY <2>3, BagsAgree DEF Queue!Becomes
    <3> QED
      BY <1>2, <1>3, <2>0, <2>3, <3>1 DEF Queue!Arrive, Decode, Arrive
  <2>4. CASE RecvSourceSymbolAck(p) /\ pkts' = BagAdd(BagRemove(pkts, p), q3)
    <3>1. Queue!Becomes(p, q3)
      BY <2>4, BagsAgree DEF Queue!Becomes
    <3> QED
      BY <1>3, <2>0, <2>4, <3>1 DEF Queue!SymbolAck, RecvSourceSymbolAck, peerVars
  <2> QED
    BY <1>5, <2>1, <2>2, <2>3, <2>4
<1>9. [Queue!Next]_(Queue!vars)
  BY <1>0, <1>8, BagsAgree DEF Queue!Next
<1> QED
  BY <1>1, <1>7, <1>9 DEF StepKeeps, FlushableQueued

LEMMA AckStep ==
    ASSUME StreamInv, NEW p \in Sent, AckStream(p)
    PROVE  StepKeeps
<1>0. /\ p \in StreamPacket /\ p.off + p.len <= send.emit_off /\ p \in BagToSet(pkts)
      /\ p.off \in Nat /\ p.len \in Nat /\ BufInv(send)
  BY DEF StreamInv, WithinSent, StreamPacket, Sent
<1>1. /\ UNCHANGED <<reset_pkt, final_sizes, received, passed_over>> /\ pkts' = BagRemove(pkts, p)
      /\ p.at_peer = "received"
  BY DEF AckStream, peerVars, history
<1>2. \A r \in BagToSet(pkts') : r \in StreamPacket /\ r.off + r.len <= send.emit_off
  BY <1>1, PacketsKept
<1>b. Queue!Bytes(p) = p.off .. p.off + p.len - 1
  BY <1>0 DEF Queue!Bytes, Queue!Interval
<1>p. p \in Queue!BagToSet(pkts) /\ pkts' = Queue!BagRemove(pkts, p)
  BY <1>0, <1>1, BagsAgree
<1>3. CASE collected
  <2>1. UNCHANGED <<send, flushable, reset_queued, collected>>
    BY <1>3 DEF AckStream, streamVars
  <2>2. StreamInv'
    BY <1>1, <1>2, <2>1
    DEF StreamInv, WithinSent, Sent, ResetIsOver, FinalIsSent, CollectedIsDone
  <2>3. 0 .. send.off - 1 \subseteq send.acked
    BY <1>3 DEF StreamInv, CollectedIsDone
  <2>4. Queue!IgnoreAck(p)
    BY <1>1, <1>p, <2>1, <2>3 DEF Queue!IgnoreAck, Queue!Interval
  <2>5. [Queue!Next]_(Queue!vars)
    BY <1>p, <2>4 DEF Queue!Next
  <2> QED
    BY <1>3, <2>1, <2>2, <2>5 DEF StepKeeps, FlushableQueued
<1>4. CASE ~collected
  <2>0. /\ send' = ack_and_drop(send, p.off, p.len)
        /\ collected' = (collected \/ is_complete(send'))
        /\ UNCHANGED reset_queued
        /\ flushable' = (flushable /\ ~collected')
    BY <1>4 DEF AckStream, CollectIfComplete
  <2>1. /\ BufInv(send')
        /\ send'.off = send.off /\ send'.emit_off = send.emit_off /\ send'.fin_off = send.fin_off
        /\ send'.max_data = send.max_data /\ send'.shutdown = send.shutdown
        /\ send'.error = send.error
        /\ send'.acked = send.acked \cup p.off .. p.off + p.len - 1
        /\ Waiting(send'.data) \subseteq Waiting(send.data)
        /\ Waiting(send.data) \ Waiting(send'.data) \subseteq send'.acked
        /\ send.data = <<>> => send'.data = <<>>
    <3>1. Acked(send, send', p.off, p.len)
      BY <1>0, <2>0, AckDrops
    <3> QED
      BY <3>1 DEF Acked
  <2>2. is_complete(send') \in BOOLEAN /\ (is_complete(send') => 0 .. send'.off - 1 \subseteq send'.acked)
    <3>1. send'.fin_off \in {NoFin, send'.off}
      BY <2>1, BufFields
    <3> QED
      BY <3>1 DEF is_complete
  <2>3. collected' \in BOOLEAN /\ flushable' \in BOOLEAN /\ CollectedIsDone'
    BY <1>4, <2>0, <2>2 DEF StreamInv, CollectedIsDone
  <2>4. StreamInv'
    <3>1. WithinSent'
      BY <1>1, <1>2, <2>1 DEF StreamInv, WithinSent, Sent
    <3>2. ResetIsOver' /\ FinalIsSent'
      BY <1>1, <2>0, <2>1 DEF StreamInv, ResetIsOver, FinalIsSent
    <3> QED
      BY <2>0, <2>1, <2>3, <3>1, <3>2 DEF StreamInv
  <2>5. Queue!Ack(p)
    <3>1. Pending(send) = Waiting(send.data) /\ Pending(send') = Waiting(send'.data)
      BY <1>0, <2>1, PendingOf
    <3> QED
      BY <1>1, <1>b, <1>p, <2>1, <3>1 DEF Queue!Ack
  <2>6. [Queue!Next]_(Queue!vars)
    BY <1>p, <2>5 DEF Queue!Next
  <2>7. is_flushable(send') => is_flushable(send)
    BY <1>0, <2>1, FlushableWaits
  <2>8. FlushableQueued => FlushableQueued'
    BY <1>1, <1>4, <2>0, <2>7 DEF FlushableQueued
  <2> QED
    BY <2>4, <2>6, <2>8 DEF StepKeeps
<1> QED
  BY <1>3, <1>4

LEMMA LossStep ==
    ASSUME StreamInv, NEW p \in Sent,
           (\E late \in BOOLEAN : DeclareLost(p, late)) \/ ProbeTimeout(p)
    PROVE  StepKeeps
<1>0. /\ p \in StreamPacket /\ p \in BagToSet(pkts) /\ p.off \in Nat /\ p.len \in Nat
      /\ BufInv(send)
  BY DEF StreamInv, WithinSent, StreamPacket, Sent
<1>1. UNCHANGED <<reset_pkt, final_sizes, received, reset_queued, collected>> /\ LostStream(p)
      /\ passed_over' = (passed_over /\ ~flushable')
  BY DEF DeclareLost, ProbeTimeout, LostStream, StillPassedOver, streamVars, peerVars
<1>2. PICK q : q = [p EXCEPT !.lost = TRUE]
  OBVIOUS
<1>3. q \in StreamPacket /\ q.off = p.off /\ q.len = p.len
  BY <1>0, <1>2 DEF StreamPacket
<1>4. \/ pkts' = BagRemove(pkts, p)
      \/ pkts' = BagAdd(BagRemove(pkts, p), q)
      \/ pkts' = pkts
  BY <1>2 DEF DeclareLost, ProbeTimeout, Becomes
<1>5. \A r \in BagToSet(pkts') : r \in StreamPacket /\ r.off + r.len <= send.emit_off
  <2>1. CASE pkts' = pkts
    BY <2>1 DEF StreamInv, WithinSent, Sent
  <2> QED
    BY <1>3, <1>4, <2>1, PacketsKept
<1> DEFINE lost == (p.off .. p.off + p.len - 1) \cap (0 .. send.off - 1)
<1>6. /\ BufInv(send')
      /\ send'.off = send.off /\ send'.emit_off = send.emit_off /\ send'.fin_off = send.fin_off
      /\ send'.shutdown = send.shutdown /\ send'.error = send.error
      /\ send'.acked = send.acked
      /\ Waiting(send.data) \subseteq Waiting(send'.data)
      /\ Waiting(send'.data) \subseteq Waiting(send.data) \cup lost
      /\ p.recovered \/ lost \ send.acked \subseteq Waiting(send'.data)
      /\ send.data = <<>> => send'.data = <<>>
      /\ flushable' \in BOOLEAN
      /\ collected => flushable' = flushable
      /\ FlushableQueued => FlushableQueued'
  <2>1. CASE collected \/ p.recovered
    <3>1. UNCHANGED <<send, flushable, collected>>
      BY <1>1, <2>1 DEF LostStream, streamVars
    <3>2. collected => lost \subseteq send.acked
      BY DEF StreamInv, CollectedIsDone
    <3> HIDE DEF lost
    <3>3. FlushableQueued => FlushableQueued'
      <4>1. is_flushable(send') = is_flushable(send) /\ collected' = collected
        BY <3>1
      <4>2. flushable \/ passed_over => flushable' \/ passed_over'
        <5>1. flushable' = flushable
          BY <3>1
        <5>2. passed_over' = (passed_over /\ ~flushable')
          BY <1>1
        <5> QED
          BY ONLY <5>1, <5>2, Zenon
      <4>3. FlushableQueued = (is_flushable(send) /\ ~collected => flushable \/ passed_over)
        BY DEF FlushableQueued
      <4>4. FlushableQueued'
            = (is_flushable(send') /\ ~collected' => flushable' \/ passed_over')
        BY DEF FlushableQueued
      <4> QED
        BY ONLY <4>1, <4>2, <4>3, <4>4, Zenon
    <3> QED
      BY <1>0, <2>1, <3>1, <3>2, <3>3 DEF StreamInv
  <2>2. CASE ~(collected \/ p.recovered)
    <3>1. /\ send' = retransmit(send, p.off, p.len)
          /\ flushable' = (flushable \/ ((is_flushable(send') \/ (p.len = 0 /\ p.fin))
                                          /\ ~is_flushable(send)))
      BY <1>1, <2>2 DEF LostStream
    <3>2. /\ BufInv(send')
          /\ send'.off = send.off /\ send'.emit_off = send.emit_off
          /\ send'.fin_off = send.fin_off
          /\ send'.max_data = send.max_data /\ send'.shutdown = send.shutdown
          /\ send'.error = send.error
          /\ send'.acked = send.acked
          /\ Waiting(send.data) \subseteq Waiting(send'.data)
          /\ Waiting(send'.data) \subseteq Waiting(send.data) \cup lost
          /\ lost \ send.acked \subseteq Waiting(send'.data)
          /\ send.data = <<>> => send'.data = <<>>
      <4>1. lost = (p.off .. p.off + p.len - 1) \cap (0 .. send.off - 1)
        OBVIOUS
      <4> HIDE DEF lost
      <4>2. Requeued(send, send', lost)
        BY <1>0, <3>1, <4>1, RetransmitRequeues
      <4> QED
        BY <4>2 DEF Requeued
    <3> HIDE DEF lost
    <3>3. flushable' \in BOOLEAN /\ (FlushableQueued => FlushableQueued')
      BY <1>1, <3>1 DEF StreamInv, FlushableQueued
    <3> QED
      BY <2>2, <3>2, <3>3
  <2> QED
    BY <2>1, <2>2
<1> HIDE DEF lost
<1>7. StreamInv'
  <2>1. WithinSent'
    BY <1>1, <1>5, <1>6 DEF StreamInv, WithinSent, Sent
  <2>2. ResetIsOver' /\ FinalIsSent'
    BY <1>1, <1>6 DEF StreamInv, ResetIsOver, FinalIsSent
  <2>3. CollectedIsDone'
    BY <1>1, <1>6 DEF StreamInv, CollectedIsDone
  <2> QED
    BY <1>1, <1>6, <2>1, <2>2, <2>3 DEF StreamInv
<1>8. Queue!Reschedule(p)
  <2>1. Pending(send) = Waiting(send.data) /\ Pending(send') = Waiting(send'.data)
    BY <1>0, <1>6, PendingOf
  <2>2. Queue!Bytes(p) \cap Queue!Interval(0, send.off) = lost
    <3>1. send.off \in Nat
      BY <1>0, BufFields
    <3> QED
      BY <1>0, <3>1 DEF Queue!Bytes, Queue!Interval, lost
  <2> QED
    BY <1>1, <1>6, <2>1, <2>2 DEF Queue!Reschedule
<1>9. Queue!Lost(p) \/ Queue!Probe(p)
  <2>1. CASE pkts' = BagRemove(pkts, p)
    BY <1>8, <2>1, BagsAgree DEF Queue!Lost
  <2>2. CASE pkts' = BagAdd(BagRemove(pkts, p), q)
    <3>1. Queue!Becomes(p, q)
      BY <2>2, BagsAgree DEF Queue!Becomes
    <3> QED
      BY <1>2, <1>8, <3>1 DEF Queue!Lost
  <2>3. CASE pkts' = pkts
    BY <1>8, <2>3 DEF Queue!Probe
  <2> QED
    BY <1>4, <2>1, <2>2, <2>3
<1>10. [Queue!Next]_(Queue!vars)
  BY <1>0, <1>9, BagsAgree DEF Queue!Next
<1> QED
  BY <1>6, <1>7, <1>10 DEF StepKeeps

LEMMA ResetPacketStep ==
    ASSUME StreamInv, DeliverReset \/ AckReset \/ \E late \in BOOLEAN : LoseReset(late)
    PROVE  StepKeeps
<1>1. /\ send' = send
      /\ UNCHANGED <<pkts, final_sizes, received, passed_over>>
      /\ reset_pkt # "none"
  BY DEF DeliverReset, AckReset, LoseReset, streamVars, netVars, peerVars, history
<1>2. UNCHANGED Queue!vars
  BY <1>1 DEF Queue!vars
<1>3. send.shutdown \/ send.error
  BY <1>1 DEF StreamInv, ResetIsOver
<1>4. /\ flushable' \in BOOLEAN /\ collected' \in BOOLEAN /\ reset_queued' \in BOOLEAN
      /\ CollectedIsDone'
      /\ FlushableQueued => FlushableQueued'
  <2>1. CASE AckReset
    <3>1. /\ collected' = (collected \/ is_complete(send)) /\ UNCHANGED reset_queued
          /\ flushable' = (flushable /\ ~collected')
      BY <1>1, <2>1 DEF AckReset, CollectIfComplete
    <3>2. is_complete(send) \in BOOLEAN
          /\ (is_complete(send) => 0 .. send.off - 1 \subseteq send.acked)
      <4>1. send.fin_off \in {NoFin, send.off}
        BY BufFields DEF StreamInv
      <4> QED
        BY <4>1 DEF is_complete
    <3> QED
      BY <1>1, <3>1, <3>2 DEF StreamInv, CollectedIsDone, FlushableQueued
  <2>2. CASE ~AckReset
    <3>1. UNCHANGED <<flushable, collected>> /\ reset_queued' \in BOOLEAN
      BY <2>2 DEF DeliverReset, LoseReset, streamVars, StreamInv
    <3> QED
      BY <1>1, <3>1 DEF StreamInv, CollectedIsDone, FlushableQueued
  <2> QED
    BY <2>1, <2>2
<1>5. StreamInv'
  BY <1>1, <1>3, <1>4 DEF StreamInv, WithinSent, Sent, ResetIsOver, FinalIsSent
<1> QED
  BY <1>2, <1>4, <1>5 DEF StepKeeps

\* The stream starts empty.
LEMMA StreamInit == Init => StreamInv /\ Queue!Init /\ FlushableQueued
<1> SUFFICES ASSUME Init PROVE StreamInv /\ Queue!Init /\ FlushableQueued
  OBVIOUS
<1>1. MaxData[1] \in Nat
  BY StreamAssumption
<1>2. /\ send = new(MaxData[1]) /\ flushable = FALSE /\ reset_queued = FALSE /\ collected = FALSE
      /\ pkts = EmptyBag /\ reset_pkt = "none" /\ final_sizes = {} /\ received = {}
  BY DEF Init
<1>3. /\ send.data = <<>> /\ send.pos = 1 /\ send.off = 0 /\ send.emit_off = 0
      /\ send.acked = {} /\ send.fin_off = NoFin /\ send.max_data = MaxData[1]
      /\ send.shutdown = FALSE /\ send.error = FALSE /\ send.acks = FALSE
  BY <1>2 DEF new
<1>4. Tidy(<<>>, 1, 0, 0, {}) /\ Waiting(<<>>) = {}
  <2>1. 0 .. 0 - 1 = {} /\ 0 \in Nat
    OBVIOUS
  <2> QED
    BY <2>1, EmptyTidy
<1>5. BufInv(send)
  <2>1. SendBufType(send)
    BY <1>1, <1>2 DEF SendBufType, new
  <2> QED
    BY <1>1, <1>3, <1>4, <2>1 DEF BufInv
<1>6. WithinSent
  BY <1>2, EmptyBags DEF WithinSent, Sent
<1>7. StreamInv
  BY <1>2, <1>3, <1>5, <1>6 DEF StreamInv, ResetIsOver, FinalIsSent, CollectedIsDone
<1>8. Pending(send) = {}
  BY <1>3, <1>4, <1>5, PendingOf
<1>9. Queue!Init
  <2>1. (send.shutdown \/ send.error) = FALSE
    BY <1>3
  <2> QED
    BY <1>2, <1>3, <1>8, <2>1, EmptyBags DEF Queue!Init
<1>10. ~is_flushable(send)
  BY <1>3 DEF is_flushable
<1> QED
  BY <1>7, <1>9, <1>10 DEF FlushableQueued

LEMMA StreamStep == StreamInv /\ [Next]_vars => StepKeeps
<1> SUFFICES ASSUME StreamInv, [Next]_vars PROVE StepKeeps
  OBVIOUS
<1>0. Rooms \subseteq Nat /\ \A i \in DOMAIN MaxData : MaxData[i] \in Nat
  BY StreamAssumption
<1>1. CASE AppNext
  <2>1. CASE \E n \in 0 .. MaxLen, fin \in BOOLEAN : stream_send(n, fin)
    BY <2>1, SendStep
  <2>2. CASE stream_shutdown
    BY <2>2, ResetStep
  <2> QED
    BY <1>1, <2>1, <2>2 DEF AppNext
<1>2. CASE SendNext
  <2>1. CASE \E n \in Rooms : SendStreamFrame(n)
    BY <1>0, <2>1, EmitStep
  <2>2. CASE SkipStream \/ SendResetFrame
    BY <2>2, QueueStep
  <2> QED
    BY <1>2, <2>1, <2>2 DEF SendNext
<1>3. CASE RecvNext
  <2>1. CASE RecvStopSending
    BY <2>1, ResetStep
  <2>2. CASE \E i \in DOMAIN MaxData : RecvMaxStreamData(MaxData[i])
    <3>1. PICK max \in Nat : RecvMaxStreamData(max)
      BY <1>0, <2>2
    <3> QED
      BY <3>1, LimitStep
  <2>3. CASE \E p \in Sent : RecvSourceSymbolAck(p)
    BY <2>3, PacketStep
  <2>4. CASE \E p \in Sent : AckStream(p)
    BY <2>4, AckStep
  <2>5. CASE AckReset
    BY <2>5, ResetPacketStep
  <2> QED
    BY <1>3, <2>1, <2>2, <2>3, <2>4, <2>5 DEF RecvNext
<1>4. CASE LossNext
  <2>1. CASE \E p \in Sent, late \in BOOLEAN : DeclareLost(p, late)
    BY <2>1, LossStep
  <2>2. CASE \E p \in Sent : ProbeTimeout(p)
    BY <2>2, LossStep
  <2>3. CASE \E late \in BOOLEAN : LoseReset(late)
    BY <2>3, ResetPacketStep
  <2> QED
    BY <1>4, <2>1, <2>2, <2>3 DEF LossNext
<1>5. CASE NetNext
  <2>1. CASE \E p \in Sent : Deliver(p) \/ Decode(p)
    BY <2>1, PacketStep
  <2>2. CASE DeliverReset
    BY <2>2, ResetPacketStep
  <2> QED
    BY <1>5, <2>1, <2>2 DEF NetNext
<1>6. CASE UNCHANGED vars
  <2>1. UNCHANGED <<send, flushable, reset_queued, collected, pkts, reset_pkt, final_sizes,
                    received, passed_over>>
    BY <1>6 DEF vars, streamVars, netVars, peerVars, history
  <2>2. StreamInv'
    BY <2>1 DEF StreamInv, WithinSent, Sent, ResetIsOver, FinalIsSent, CollectedIsDone
  <2>3. UNCHANGED Queue!vars
    BY <2>1 DEF Queue!vars
  <2> QED
    BY <2>1, <2>2, <2>3 DEF StepKeeps, FlushableQueued
<1> QED
  BY <1>1, <1>2, <1>3, <1>4, <1>5, <1>6 DEF Next

LEMMA TidyIsInOrder == StreamInv => ChunksInOrder
<1> SUFFICES ASSUME StreamInv PROVE ChunksInOrder
  OBVIOUS
<1>1. PICK d : d = send.data
  OBVIOUS
<1>2. /\ BufInv(send) /\ Tidy(d, send.pos, send.off, send.emit_off, send.acked)
      /\ Chain(d, send.off)
  BY <1>1 DEF StreamInv, BufInv, Tidy
<1>3. /\ send.off \in Nat /\ send.emit_off \in 0 .. send.off
      /\ send.acked \subseteq 0 .. send.off - 1
  BY <1>2, BufFields
<1>4. /\ d \in Seq(Chunk) /\ Len(d) \in Nat /\ DOMAIN d = 1 .. Len(d)
      /\ \A i \in 1 .. Len(d) : d[i].off \in Nat /\ max_off(d[i]) \in Nat
                                /\ FrontOf(d[i]) \in Nat /\ d[i].off <= max_off(d[i])
      /\ (d # <<>> => Len(d) # 0)
  <2>1. /\ d \in Seq(Chunk) /\ Len(d) \in Nat
        /\ \A i \in 1 .. Len(d) : d[i] \in Chunk /\ Bounded(d[i])
    BY <1>2, Bounds DEF Chain
  <2> QED
    BY <2>1, SMTT(30) DEF Bounded, Chunk, max_off, FrontOf
<1>5. ack_off(send) \in 0 .. send.off /\ ack_off(send) \notin send.acked
  BY <1>3, AckOff
<1>6. \A i \in 1 .. Len(d) - 1 : max_off(d[i]) = d[i + 1].off
  BY <1>2 DEF Chain
<1>7. d # <<>> => d[1].off <= ack_off(send) /\ max_off(Last(d)) = send.off
  <2> SUFFICES ASSUME d # <<>>
               PROVE  d[1].off <= ack_off(send) /\ max_off(d[Len(d)]) = send.off
    BY DEF Last
  <2>1. max_off(d[Len(d)]) = send.off
    BY <1>2 DEF Chain
  <2>2. 1 \in 1 .. Len(d)
    BY <1>4
  <2>3. CASE ack_off(send) < send.off
    <3>1. ack_off(send) \in 0 .. send.off - 1
      BY <1>3, <1>5, <2>3
    <3> QED
      BY <1>2, <1>5, <2>1, <3>1 DEF Tidy
  <2>4. CASE ack_off(send) = send.off
    <3>1. max_off(d[1]) <= send.off
      BY <1>2, <2>2, Ends
    <3> QED
      BY <1>3, <1>4, <2>1, <2>2, <2>4, <3>1
  <2> QED
    BY <1>3, <1>5, <2>3, <2>4
<1>8. d = <<>> => ack_off(send) = send.off
  <2> SUFFICES ASSUME d = <<>>, ack_off(send) < send.off PROVE FALSE
    BY <1>3, <1>5
  <2>1. ack_off(send) \in 0 .. send.off - 1
    BY <1>3, <1>5
  <2> QED
    BY <1>2, <1>5, <2>1 DEF Tidy
<1>9. ASSUME NEW i \in DOMAIN d
      PROVE  d[i].pos <= d[i].len /\ (i < send.pos => Unsent(d[i]) = {})
  <2>1. d[i].pos <= d[i].len /\ (i < send.pos => FrontOf(d[i]) = max_off(d[i]))
    BY <1>2, <1>4 DEF Chain, Tidy
  <2>2. FrontOf(d[i]) \in Nat /\ max_off(d[i]) \in Nat
    BY <1>4
  <2> QED
    BY <2>1, <2>2 DEF Unsent
<1>10. send.pos <= Len(d) + 1
  BY <1>2, <1>4 DEF Tidy
<1>11. off_front(send) <= send.emit_off /\ send.emit_off <= send.off
  BY <1>2, <1>3, FrontWaits DEF BufInv
<1>12. send.emit_off .. send.off - 1 \subseteq Pending(send)
  <2>1. Pending(send) = Waiting(d)
    BY <1>1, <1>2, PendingOf
  <2> QED
    BY <1>2, <1>3, <2>1 DEF Tidy, Waiting
<1> QED
  BY <1>1, <1>6, <1>7, <1>8, <1>9, <1>10, <1>11, <1>12 DEF ChunksInOrder

-----------------------------------------------------------------------------
\* The chunks of every send buffer stay in order, whatever is written, emitted, acked,
\* lost, probed, shut down or stopped (SendBuf::write, emit, ack_and_drop, retransmit
\* and reset), and packets and final sizes stay within what was sent.
THEOREM StreamInvariant == Spec => []StreamInv
<1>1. StreamInv /\ [Next]_vars => StreamInv'
  BY StreamStep DEF StepKeeps
<1> QED
  BY <1>1, StreamInit, PTL DEF Spec

\* The chunks are adjacent, end at off and miss only acked bytes, nothing before pos is
\* left to send and nothing from emit_off on was sent: emit, which starts at pos,
\* passes over no byte after any number of splits and drops.
THEOREM ChunksInOrderHolds == Spec => []ChunksInOrder
  BY StreamInvariant, TidyIsInOrder, PTL

\* Every FIN and every RESET_STREAM announces the same final size, and the peer holds no
\* byte beyond it (SendBuf::write, emit and reset).
THEOREM FinalSizeHolds == Spec => []FinalSizeStable
<1>1. StreamInv => FinalSizeStable
  BY DEF StreamInv, FinalIsSent, WithinSent, FinalSizeStable
<1> QED
  BY <1>1, StreamInvariant, PTL

\* A stream with data that the peer's limit admits is in the queue of flushable streams:
\* stream_send, MAX_STREAM_DATA and the loop over lost frames queue it in time, and
\* send_single takes it out when it has nothing left, or, the one exception, when a packet
\* has no room for its header; then it waits for the next of those calls to queue it.
THEOREM FlushableQueuedHolds == Spec => []FlushableQueued
<1>1. StreamInv /\ FlushableQueued /\ [Next]_vars => FlushableQueued'
  BY StreamStep DEF StepKeeps
<1> QED
  BY <1>1, StreamInit, StreamInvariant, PTL DEF Spec

\* The chunks implement the queue of SendQueue for streams of any length: every call of
\* SendBuf is one of its steps or changes nothing it sees.
THEOREM BufferImplementsQueue == Spec => ImplementsQueue
<1>1. StreamInv /\ [Next]_vars => [Queue!Next]_(Queue!vars)
  BY StreamStep DEF StepKeeps
<1> QED
  BY <1>1, StreamInit, StreamInvariant, PTL DEF Spec, ImplementsQueue, Queue!Spec

-----------------------------------------------------------------------------
(* The queue never forgets a byte, and so neither does the buffer.           *)

\* Removing one copy of a packet may leave others; adding one leaves the rest.
LEMMA QueueBags ==
    ASSUME NEW B, NEW p, NEW q
    PROVE  /\ Queue!BagToSet(Queue!BagAdd(B, q)) = Queue!BagToSet(B) \cup {q}
           /\ Queue!BagToSet(Queue!BagRemove(B, p)) \subseteq Queue!BagToSet(B)
           /\ Queue!BagToSet(B) \ {p} \subseteq Queue!BagToSet(Queue!BagRemove(B, p))
  BY DEF Queue!BagToSet, Queue!BagAdd, Queue!BagRemove

LEMMA EmptyDomain == Queue!BagToSet(Queue!EmptyBag) = {}
  BY DEF Queue!BagToSet, Queue!EmptyBag, Queue!SetToBag

\* What the bytes below j are when those below i are known.
LEMMA Intervals ==
    ASSUME NEW i \in Nat, NEW j \in Nat, i <= j
    PROVE  /\ i .. j - 1 \subseteq Nat
           /\ i .. j - 1 \subseteq 0 .. j - 1
           /\ 0 .. i - 1 \subseteq 0 .. j - 1
           /\ \A b \in 0 .. j - 1 : b \in 0 .. i - 1 \/ b \in i .. j - 1
  OBVIOUS

LEMMA QueueStarts == Queue!Init => Queue!QueueInv
<1> SUFFICES ASSUME Queue!Init PROVE Queue!QueueInv
  OBVIOUS
<1>1. Queue!Interval(0, send.off) = {}
  BY DEF Queue!Init, Queue!Interval
<1>2. Queue!BagToSet(pkts) = {}
  BY EmptyDomain DEF Queue!Init
<1>3. Queue!TypeOK
  BY <1>2 DEF Queue!Init, Queue!TypeOK
<1>4. Queue!SentWithinBuffered
  BY DEF Queue!Init, Queue!SentWithinBuffered
<1> QED
  BY <1>1, <1>2, <1>3, <1>4
  DEF Queue!Init, Queue!QueueInv, Queue!NoByteForgotten, Queue!AckedIsReceived,
      Queue!ReceivedIsSent, Queue!PacketsTruthful

\* Replacing packet p by q keeps the type of the bag.
LEMMA BecomesDomain ==
    ASSUME NEW p \in Queue!BagToSet(pkts), NEW q, Queue!Becomes(p, q)
    PROVE  /\ Queue!BagToSet(pkts') \subseteq Queue!BagToSet(pkts) \cup {q}
           /\ Queue!BagToSet(pkts) \ {p} \subseteq Queue!BagToSet(pkts')
           /\ q \in Queue!BagToSet(pkts')
<1>1. Queue!BagToSet(pkts') = Queue!BagToSet(Queue!BagRemove(pkts, p)) \cup {q}
  BY QueueBags DEF Queue!Becomes
<1> QED
  BY <1>1, QueueBags

LEMMA QueueKeeps == Queue!QueueInv /\ [Queue!Next]_(Queue!vars) => Queue!QueueInv'
<1> SUFFICES ASSUME Queue!QueueInv, [Queue!Next]_(Queue!vars) PROVE Queue!QueueInv'
  OBVIOUS
<1> USE DEF Queue!QueueInv, Queue!Interval, Queue!Bytes
<1>1. CASE Queue!Write
  <2>1. /\ send.off \in Nat /\ send'.off \in Nat /\ send.off <= send'.off
        /\ send.emit_off \in Nat
        /\ Pending(send') = Pending(send) \cup send.off .. send'.off - 1
        /\ UNCHANGED <<send.emit_off, send.acked, pkts, received>>
        /\ UNCHANGED (send.shutdown \/ send.error)
    BY <1>1 DEF Queue!Write, Queue!TypeOK
  <2>2. /\ send.off .. send'.off - 1 \subseteq Nat
        /\ send.off .. send'.off - 1 \subseteq 0 .. send'.off - 1
        /\ 0 .. send.off - 1 \subseteq 0 .. send'.off - 1
        /\ \A b \in 0 .. send'.off - 1 :
              b \in 0 .. send.off - 1 \/ b \in send.off .. send'.off - 1
    BY <2>1, Intervals
  <2>3. Queue!TypeOK'
    BY <2>1, <2>2 DEF Queue!TypeOK
  <2>4. Queue!SentWithinBuffered'
    <3>1. send'.emit_off <= send'.off
      BY <2>1 DEF Queue!SentWithinBuffered
    <3>2. Pending(send') \subseteq 0 .. send'.off - 1
      BY <2>1, <2>2 DEF Queue!SentWithinBuffered
    <3> QED
      BY <3>1, <3>2 DEF Queue!SentWithinBuffered
  <2>5. Queue!ReceivedIsSent' /\ Queue!PacketsTruthful' /\ Queue!AckedIsReceived'
    BY <2>1 DEF Queue!ReceivedIsSent, Queue!PacketsTruthful, Queue!AckedIsReceived
  <2>6. Queue!NoByteForgotten'
    <3> SUFFICES ASSUME NEW b \in 0 .. send'.off - 1
                 PROVE  \/ b \in send'.acked \/ b \in Pending(send') \/ b \in received'
                        \/ \E p \in Queue!BagToSet(pkts') : ~p.lost /\ b \in Queue!Bytes(p)
      BY DEF Queue!NoByteForgotten
    <3>1. CASE b \in 0 .. send.off - 1
      BY <2>1, <3>1 DEF Queue!NoByteForgotten
    <3>2. CASE b \in send.off .. send'.off - 1
      BY <2>1, <3>2
    <3>3. b \in 0 .. send.off - 1 \/ b \in send.off .. send'.off - 1
      BY <2>2
    <3> QED
      BY <3>1, <3>2, <3>3
  <2> QED
    BY <2>3, <2>4, <2>5, <2>6
<1>2. ASSUME NEW p \in Queue!BagToSet(pkts'), Queue!Emit(p) PROVE Queue!QueueInv'
  <2>1. Queue!BagToSet(pkts') = Queue!BagToSet(pkts) \cup {p}
    BY <1>2, QueueBags DEF Queue!Emit
  <2>2. p \in Queue!Packet /\ p.off \in Nat /\ p.len \in Nat
    BY <1>2 DEF Queue!Emit, Queue!Packet
  <2>3. Queue!TypeOK' /\ Queue!SentWithinBuffered'
    <3>1. send'.emit_off \in Nat /\ send'.emit_off <= send'.off
      BY <1>2, <2>2 DEF Queue!Emit, Queue!TypeOK, Queue!SentWithinBuffered
    <3> QED
      BY <1>2, <2>1, <2>2, <3>1 DEF Queue!Emit, Queue!TypeOK, Queue!SentWithinBuffered
  <2>4. Queue!ReceivedIsSent' /\ Queue!AckedIsReceived'
    BY <1>2, <2>2 DEF Queue!Emit, Queue!TypeOK, Queue!ReceivedIsSent,
                      Queue!AckedIsReceived
  <2>5. Queue!PacketsTruthful'
    <3> SUFFICES ASSUME NEW r \in Queue!BagToSet(pkts')
                 PROVE  /\ r.off + r.len <= send'.emit_off
                        /\ r.at_peer # "no" => Queue!Bytes(r) \subseteq received'
                        /\ r.recovered => r.at_peer # "no"
      BY DEF Queue!PacketsTruthful
    <3>1. CASE r = p
      BY <1>2, <2>2, <3>1 DEF Queue!Emit, Queue!TypeOK
    <3>2. CASE r \in Queue!BagToSet(pkts)
      BY <1>2, <2>2, <3>2 DEF Queue!Emit, Queue!TypeOK, Queue!Packet,
                              Queue!PacketsTruthful
    <3> QED
      BY <2>1, <3>1, <3>2
  <2>6. Queue!NoByteForgotten'
    BY <1>2, <2>1, <2>2 DEF Queue!Emit, Queue!NoByteForgotten, Queue!TypeOK
  <2> QED
    BY <2>3, <2>4, <2>5, <2>6
<1>3. ASSUME NEW p \in Queue!BagToSet(pkts), Queue!Arrive(p) PROVE Queue!QueueInv'
  <2>1. p \in Queue!Packet /\ Queue!Bytes(p) \subseteq Queue!Interval(0, send.emit_off)
    BY DEF Queue!TypeOK, Queue!PacketsTruthful, Queue!Packet
  <2>2. PICK q : /\ Queue!BagToSet(pkts') \subseteq Queue!BagToSet(pkts) \cup {q}
                 /\ Queue!BagToSet(pkts) \ {p} \subseteq Queue!BagToSet(pkts')
                 /\ q \in Queue!Packet /\ q.off = p.off /\ q.len = p.len
                 /\ q.recovered = p.recovered
                 /\ q.recovered => q.at_peer # "no"
    <3>1. CASE pkts' = Queue!BagRemove(pkts, p)
      BY <2>1, <3>1, QueueBags DEF Queue!PacketsTruthful
    <3>2. ASSUME NEW how \in {"decoded", "received"},
                 Queue!Becomes(p, [p EXCEPT !.at_peer = how])
          PROVE  \E q : /\ Queue!BagToSet(pkts') \subseteq Queue!BagToSet(pkts) \cup {q}
                        /\ Queue!BagToSet(pkts) \ {p} \subseteq Queue!BagToSet(pkts')
                        /\ q \in Queue!Packet /\ q.off = p.off /\ q.len = p.len
                        /\ q.recovered = p.recovered
                        /\ q.recovered => q.at_peer # "no"
      <4> DEFINE q == [p EXCEPT !.at_peer = how]
      <4>1. /\ q \in Queue!Packet /\ q.off = p.off /\ q.len = p.len
            /\ q.recovered = p.recovered /\ q.at_peer # "no"
        BY <2>1 DEF Queue!Packet
      <4> HIDE DEF q
      <4>2. /\ Queue!BagToSet(pkts') \subseteq Queue!BagToSet(pkts) \cup {q}
            /\ Queue!BagToSet(pkts) \ {p} \subseteq Queue!BagToSet(pkts')
        BY <3>2, BecomesDomain DEF q
      <4> QED
        BY <4>1, <4>2
    <3> QED
      BY <1>3, <3>1, <3>2 DEF Queue!Arrive
  <2>3. Queue!TypeOK' /\ Queue!SentWithinBuffered'
    BY <1>3, <2>1, <2>2 DEF Queue!Arrive, Queue!TypeOK, Queue!SentWithinBuffered,
                            Queue!Packet
  <2>4. Queue!ReceivedIsSent' /\ Queue!AckedIsReceived'
    BY <1>3, <2>1 DEF Queue!Arrive, Queue!ReceivedIsSent, Queue!AckedIsReceived
  <2>5. Queue!PacketsTruthful'
    BY <1>3, <2>1, <2>2 DEF Queue!Arrive, Queue!PacketsTruthful
  <2>6. Queue!NoByteForgotten'
    BY <1>3, <2>2 DEF Queue!Arrive, Queue!NoByteForgotten
  <2> QED
    BY <2>3, <2>4, <2>5, <2>6
<1>4. ASSUME NEW p \in Queue!BagToSet(pkts), Queue!SymbolAck(p) PROVE Queue!QueueInv'
  <2> DEFINE q == [p EXCEPT !.recovered = TRUE]
  <2>1. p \in Queue!Packet
    BY DEF Queue!TypeOK
  <2>2. /\ q \in Queue!Packet /\ q.off = p.off /\ q.len = p.len /\ q.lost = p.lost
        /\ q.at_peer = p.at_peer
    BY <2>1 DEF Queue!Packet
  <2>3. /\ Queue!BagToSet(pkts') \subseteq Queue!BagToSet(pkts) \cup {q}
        /\ Queue!BagToSet(pkts) \ {p} \subseteq Queue!BagToSet(pkts')
        /\ q \in Queue!BagToSet(pkts')
    BY <1>4, BecomesDomain DEF Queue!SymbolAck
  <2> HIDE DEF q
  <2>4. /\ Queue!TypeOK' /\ Queue!SentWithinBuffered'
        /\ Queue!ReceivedIsSent' /\ Queue!AckedIsReceived'
    BY <1>4, <2>2, <2>3 DEF Queue!SymbolAck, Queue!TypeOK, Queue!SentWithinBuffered,
                            Queue!ReceivedIsSent, Queue!AckedIsReceived
  <2>5. Queue!PacketsTruthful'
    BY <1>4, <2>2, <2>3 DEF Queue!SymbolAck, Queue!PacketsTruthful
  <2>6. Queue!NoByteForgotten'
    BY <1>4, <2>2, <2>3 DEF Queue!SymbolAck, Queue!NoByteForgotten
  <2> QED
    BY <2>4, <2>5, <2>6
<1>5. ASSUME NEW p \in Queue!BagToSet(pkts), Queue!Ack(p) PROVE Queue!QueueInv'
  <2>1. /\ p \in Queue!Packet
        /\ Queue!Bytes(p) \subseteq received /\ Queue!Bytes(p) \subseteq Nat
    BY <1>5 DEF Queue!Ack, Queue!TypeOK, Queue!PacketsTruthful, Queue!Packet
  <2>2. /\ Queue!BagToSet(pkts') \subseteq Queue!BagToSet(pkts)
        /\ Queue!BagToSet(pkts) \ {p} \subseteq Queue!BagToSet(pkts')
    BY <1>5, QueueBags DEF Queue!Ack
  <2>3. /\ Queue!TypeOK' /\ Queue!SentWithinBuffered'
        /\ Queue!ReceivedIsSent' /\ Queue!AckedIsReceived'
    BY <1>5, <2>1, <2>2 DEF Queue!Ack, Queue!TypeOK, Queue!SentWithinBuffered,
                            Queue!ReceivedIsSent, Queue!AckedIsReceived
  <2>4. Queue!PacketsTruthful'
    BY <1>5, <2>2 DEF Queue!Ack, Queue!PacketsTruthful
  <2>5. Queue!NoByteForgotten'
    BY <1>5, <2>2 DEF Queue!Ack, Queue!NoByteForgotten
  <2> QED
    BY <2>3, <2>4, <2>5
<1>6. ASSUME NEW p \in Queue!BagToSet(pkts), Queue!IgnoreAck(p) PROVE Queue!QueueInv'
  <2>1. Queue!BagToSet(pkts') \subseteq Queue!BagToSet(pkts)
    BY <1>6, QueueBags DEF Queue!IgnoreAck
  <2> QED
    BY <1>6, <2>1 DEF Queue!IgnoreAck, Queue!TypeOK, Queue!SentWithinBuffered,
                      Queue!ReceivedIsSent, Queue!AckedIsReceived, Queue!PacketsTruthful,
                      Queue!NoByteForgotten
<1>7. ASSUME NEW p \in Queue!BagToSet(pkts), Queue!Lost(p) PROVE Queue!QueueInv'
  <2>1. p \in Queue!Packet
    BY DEF Queue!TypeOK
  <2>2. /\ Queue!BagToSet(pkts) \ {p} \subseteq Queue!BagToSet(pkts')
        /\ Queue!TypeOK' /\ Queue!PacketsTruthful'
    <3>1. CASE pkts' = Queue!BagRemove(pkts, p)
      BY <1>7, <3>1, QueueBags
      DEF Queue!Lost, Queue!Reschedule, Queue!TypeOK, Queue!PacketsTruthful
    <3>2. CASE Queue!Becomes(p, [p EXCEPT !.lost = TRUE])
      <4> DEFINE q == [p EXCEPT !.lost = TRUE]
      <4>1. /\ q \in Queue!Packet /\ q.off = p.off /\ q.len = p.len
            /\ q.recovered = p.recovered /\ q.at_peer = p.at_peer
        BY <2>1 DEF Queue!Packet
      <4> HIDE DEF q
      <4>2. /\ Queue!BagToSet(pkts') \subseteq Queue!BagToSet(pkts) \cup {q}
            /\ Queue!BagToSet(pkts) \ {p} \subseteq Queue!BagToSet(pkts')
        BY <3>2, BecomesDomain DEF q
      <4> QED
        BY <1>7, <4>1, <4>2
        DEF Queue!Lost, Queue!Reschedule, Queue!TypeOK, Queue!PacketsTruthful
    <3> QED
      BY <1>7, <3>1, <3>2 DEF Queue!Lost
  <2>3. Queue!SentWithinBuffered' /\ Queue!ReceivedIsSent' /\ Queue!AckedIsReceived'
    BY <1>7 DEF Queue!Lost, Queue!Reschedule, Queue!SentWithinBuffered,
                Queue!ReceivedIsSent, Queue!AckedIsReceived
  <2>4. Queue!NoByteForgotten'
    BY <1>7, <2>2 DEF Queue!Lost, Queue!Reschedule, Queue!NoByteForgotten,
                      Queue!PacketsTruthful
  <2> QED
    BY <2>2, <2>3, <2>4
<1>8. ASSUME NEW p \in Queue!BagToSet(pkts), Queue!Probe(p) PROVE Queue!QueueInv'
  BY <1>8 DEF Queue!Probe, Queue!Reschedule, Queue!TypeOK, Queue!SentWithinBuffered,
              Queue!ReceivedIsSent, Queue!AckedIsReceived, Queue!PacketsTruthful,
              Queue!NoByteForgotten
<1>9. CASE Queue!Reset
  BY <1>9 DEF Queue!Reset, Queue!TypeOK, Queue!SentWithinBuffered, Queue!ReceivedIsSent,
              Queue!AckedIsReceived, Queue!PacketsTruthful, Queue!NoByteForgotten
<1>10. CASE UNCHANGED Queue!vars
  BY <1>10 DEF Queue!vars, Queue!TypeOK, Queue!SentWithinBuffered, Queue!ReceivedIsSent,
               Queue!AckedIsReceived, Queue!PacketsTruthful, Queue!NoByteForgotten
<1> QED
  BY <1>1, <1>2, <1>3, <1>4, <1>5, <1>6, <1>7, <1>8, <1>9, <1>10 DEF Queue!Next

\* The queue that SendBuf implements keeps its inductive invariant: no byte is
\* forgotten, acks are truthful, and packets carry what was sent.
THEOREM QueueInvariant == Queue!Spec => []Queue!QueueInv
<1>1. Queue!Init => Queue!QueueInv
  BY QueueStarts
<1>2. Queue!QueueInv /\ [Queue!Next]_(Queue!vars) => Queue!QueueInv'
  BY QueueKeeps
<1> QED
  BY <1>1, <1>2, PTL DEF Queue!Spec

\* No byte the application wrote is forgotten: until it is acked it waits in a chunk, is
\* at the peer, or is in a packet that is still to be acked or declared lost (retransmit,
\* ack_and_drop and the loops over acked and lost frames).
THEOREM NoByteForgottenHolds == Spec => []Queue!NoByteForgotten
<1>1. Queue!QueueInv => Queue!NoByteForgotten
  BY DEF Queue!QueueInv
<1> QED
  BY <1>1, BufferImplementsQueue, QueueInvariant, PTL DEF ImplementsQueue

\* Unless the stream was shut down or stopped, what the RangeSet of acked offsets holds
\* is at the peer (ack_and_drop, reset).
THEOREM AckedIsReceivedHolds == Spec => []Queue!AckedIsReceived
<1>1. Queue!QueueInv => Queue!AckedIsReceived
  BY DEF Queue!QueueInv
<1> QED
  BY <1>1, BufferImplementsQueue, QueueInvariant, PTL DEF ImplementsQueue
=============================================================================
