----------------------------- MODULE Http3Proofs -----------------------------
(***************************************************************************)
(* What the application is told of the peer's streams, for any streams,     *)
(* scenarios, portions of arrival and sizes of buffers.                    *)
(***************************************************************************)
EXTENDS Http3, SequenceTheorems, FiniteSetTheorems, WellFoundedInduction, TLAPS

-----------------------------------------------------------------------------
(* The invariant.  It is stated of a connection c = [q, h] and of what the   *)
(* application was told, so that it can be followed through a call.          *)

QStream ==
    [arrived : Nat, off : Nat, end : {"none", "fin", "reset", "cleared"}, note : BOOLEAN,
     queued : BOOLEAN, drain : BOOLEAN, gone : BOOLEAN,
     tx : {"open", "fin", "stopped", "acked"}]

Types == {"Request", "None", "Control", "Push", "QpackEncoder", "QpackDecoder", "Unknown"}
Varints == {"StreamType", "PushId", "FrameType", "FramePayloadLen"}
States == Varints \cup {"FramePayload", "Data", "QpackInstruction", "Drain", "Finished"}

H3Stream ==
    [ty : Types, state : States, len : Nat, off : Nat, frame_type : Int, is_local : BOOLEAN,
     remote_initialized : BOOLEAN, local_initialized : BOOLEAN, data_event : BOOLEAN,
     priority_update : BOOLEAN]

Tables == UNION {[D -> H3Stream] : D \in SUBSET Int}

H3Conn ==
    [streams : Tables, control : Ids \cup {None}, encoder : Ids \cup {None},
     decoder : Ids \cup {None}, peer_goaway : Int, max_push : Int, finished : Seq(Ids),
     closed : BOOLEAN, next : Nat]

Conns == [q : [Ids -> QStream], h : H3Conn]

\* What was skipped will not be read, and a stream that is gone was over.
QuicOk(x, s) ==
    /\ x.off <= x.arrived /\ x.arrived <= Len(scenario.tokens[s])
    /\ x.end \in {"reset", "cleared"} => x.off = x.arrived
    /\ x.drain => ~x.note
    /\ x.gone => x.off = x.arrived /\ x.end # "none"

\* No token of the stream will be read any more.
Spent(x) == x.drain \/ (x.off = x.arrived /\ x.end # "none")

\* The states that go with the type of a stream.
Shape(s, st) ==
    /\ st.off <= st.len
    /\ st.state \in Varints => st.len = 1
    /\ st.state = "FramePayload" => st.frame_type # DATA
    /\ st.state = "Data" => st.frame_type = DATA
    /\ is_bidi(s) <=> st.ty = "Request"
    /\ CASE st.ty = "None" -> st.state = "StreamType"
         [] st.ty = "Control" ->
              /\ st.state \in {"FrameType", "FramePayloadLen", "FramePayload"}
              /\ st.state # "FrameType" => st.frame_type \notin {DATA, HEADERS}
         [] st.ty = "Request" ->
              st.state \in {"FrameType", "FramePayloadLen", "FramePayload", "Data", "Finished"}
         [] st.ty = "Push" ->
              st.state \in {"PushId", "FrameType", "FramePayloadLen", "FramePayload", "Data",
                            "Finished"}
         [] st.ty = "Unknown" -> st.state = "Drain"
         [] OTHER -> st.state = "QpackInstruction"

\* A HEADERS frame that was read to its end and is not handled yet.
Pending(st) ==
    IF st.state = "FramePayload" /\ st.off = st.len /\ st.frame_type = HEADERS
    THEN <<HeadersItem>> ELSE <<>>

\* The parser is where the tokens it has read have brought it.
InStep(st, d) ==
    CASE st.ty \in {"None", "Push", "Request"} /\ st.state = "StreamType" -> d.at = "stream"
      [] st.ty \in {"Push", "Request"} /\ st.state = "PushId" -> d.at = "push"
      [] st.ty \in {"Push", "Request"} /\ st.state = "FrameType" -> d.at = "type"
      [] st.ty \in {"Push", "Request"} /\ st.state = "FramePayloadLen" ->
           d.at = "length" /\ d.type = st.frame_type
      [] st.ty \in {"Push", "Request"} /\ st.state \in {"FramePayload", "Data"} ->
           IF st.off = st.len THEN d.at = "type"
           ELSE d.at = "payload" /\ d.type = st.frame_type /\ d.left = st.len - st.off
      [] st.ty \in {"Push", "Request"} /\ st.state = "Finished" -> FALSE
      [] OTHER -> d.at = "none"

\* The stream will not be misread.
Going(x, st, d, items) ==
    /\ st.state \in Varints => st.off = 0
    /\ Spent(x) \/ (InStep(st, d) /\ items \o Pending(st) = d.items)

Tracked(c, s, items) ==
    LET x == c.q[s]
        st == c.h.streams[s]
        d == Heard(s)[x.off]
    IN  /\ QuicOk(x, s)
        /\ s \in DOMAIN c.h.streams =>
             /\ Shape(s, st) /\ st.off <= x.off
             /\ IsPrefix(items \o Pending(st), d.items)
             /\ Going(x, st, d, items) \/ (c.h.closed /\ st.state # "Data")
        /\ s \notin DOMAIN c.h.streams =>
             /\ IsPrefix(items, d.items)
             /\ Spent(x) \/ x.off = 0
        /\ c.h.control = s => s \in DOMAIN c.h.streams /\ c.h.streams[s].ty = "Control"
        /\ ~scenario.is_server /\ is_bidi(s) /\ s >= c.h.next =>
             x.arrived = 0 /\ x.end = "none"

\* items: what the application was told of each stream.
Good(c, items) ==
    /\ c \in Conns
    /\ items \in [Ids -> Seq(Int)]
    /\ \A s \in Ids : Tracked(c, s, items[s])

-----------------------------------------------------------------------------
(* Numbers and prefixes.                                                     *)

\* Induction, on the members of a set.
LEMMA Induction ==
    ASSUME NEW n \in Nat, NEW P, 0 \in P, \A k \in 1 .. n : k - 1 \in P => k \in P
    PROVE  n \in P
<1> SUFFICES ASSUME n \notin P PROVE FALSE
  OBVIOUS
<1> DEFINE bad == {k \in 0 .. n : k \notin P}
<1>1. bad # {} /\ bad \subseteq Nat
  OBVIOUS
<1>2. PICK k \in bad : \A y \in bad : ~(<<y, k>> \in OpToRel(<, Nat))
  BY <1>1, NatLessThanWellFounded, WFMin
<1>3. \A y \in bad : ~(y < k)
  BY <1>1, <1>2, Zenon DEF OpToRel
<1>4. k # 0 /\ k \in 0 .. n
  OBVIOUS
<1>5. k - 1 \in 0 .. n /\ k - 1 \notin bad
  BY <1>3, <1>4
<1> QED
  BY <1>4, <1>5

\* A prefix, element by element.
LEMMA PrefixIs ==
    ASSUME NEW a \in Seq(Int), NEW b \in Seq(Int)
    PROVE  IsPrefix(a, b) <=> Len(a) <= Len(b) /\ \A i \in 1 .. Len(a) : a[i] = b[i]
<1>1. CASE Len(a) <= Len(b)
  <2> DEFINE u == SubSeq(a, 1, Len(a))
             v == SubSeq(b, 1, Len(a))
  <2>1. /\ u \in Seq(Int) /\ Len(u) = Len(a)
        /\ \A i \in 1 .. Len(a) : u[i] = a[i]
    BY SubSeqProperties
  <2>2. /\ v \in Seq(Int) /\ Len(v) = Len(a)
        /\ \A i \in 1 .. Len(a) : v[i] = b[i]
    BY <1>1, SubSeqProperties
  <2> HIDE DEF u, v
  <2>3. u = v <=> \A i \in 1 .. Len(a) : u[i] = v[i]
    BY <2>1, <2>2, SeqEqual
  <2>4. IsPrefix(a, b) <=> u = v
    BY <1>1 DEF IsPrefix, u, v
  <2> QED
    BY <1>1, <2>1, <2>2, <2>3, <2>4
<1>2. CASE ~(Len(a) <= Len(b))
  BY <1>2 DEF IsPrefix
<1> QED
  BY <1>1, <1>2

\* Every sequence is its own prefix.
LEMMA PrefixSelf ==
    ASSUME NEW a \in Seq(Int)
    PROVE  IsPrefix(a, a)
  BY PrefixIs

\* A prefix of a prefix.
LEMMA PrefixTrans ==
    ASSUME NEW a \in Seq(Int), NEW b \in Seq(Int), NEW c \in Seq(Int),
           IsPrefix(a, b), IsPrefix(b, c)
    PROVE  IsPrefix(a, c)
<1>1. Len(a) <= Len(b) /\ \A i \in 1 .. Len(a) : a[i] = b[i]
  BY PrefixIs
<1>2. Len(b) <= Len(c) /\ \A i \in 1 .. Len(b) : b[i] = c[i]
  BY PrefixIs
<1>3. Len(a) \in Nat /\ Len(b) \in Nat /\ Len(c) \in Nat
  OBVIOUS
<1>4. Len(a) <= Len(c) /\ \A i \in 1 .. Len(a) : a[i] = c[i]
  BY <1>1, <1>2, <1>3
<1> QED
  BY <1>4, PrefixIs

\* What is appended leaves the prefix.
LEMMA PrefixMore ==
    ASSUME NEW a \in Seq(Int), NEW b \in Seq(Int)
    PROVE  a \o b \in Seq(Int) /\ IsPrefix(a, a \o b)
<1>1. /\ a \o b \in Seq(Int) /\ Len(a \o b) = Len(a) + Len(b)
      /\ \A i \in 1 .. Len(a) : (a \o b)[i] = a[i]
  BY ConcatProperties
<1>2. Len(a) \in Nat /\ Len(b) \in Nat
  OBVIOUS
<1>3. Len(a) <= Len(a \o b)
  BY <1>1, <1>2
<1> QED
  BY <1>1, <1>3, PrefixIs

\* The front of a prefix.
LEMMA PrefixLess ==
    ASSUME NEW a \in Seq(Int), NEW b \in Seq(Int), NEW c \in Seq(Int), IsPrefix(a \o b, c)
    PROVE  IsPrefix(a, c)
<1>1. a \o b \in Seq(Int) /\ IsPrefix(a, a \o b)
  BY PrefixMore
<1> QED
  BY <1>1, PrefixTrans

\* Appending twice.
LEMMA ConcatAssoc ==
    ASSUME NEW a \in Seq(Int), NEW b \in Seq(Int), NEW c \in Seq(Int)
    PROVE  (a \o b) \o c = a \o (b \o c)
  BY ConcatAssociative

\* Appending nothing.
LEMMA ConcatNone ==
    ASSUME NEW a \in Seq(Int)
    PROVE  a \o <<>> = a /\ <<>> \o a = a /\ <<>> \in Seq(Int)
  BY ConcatEmptySeq

-----------------------------------------------------------------------------
(* The reference: what the tokens of a stream say.                           *)

Heards == [at : {"stream", "push", "none", "type", "length", "payload"}, type : Int,
           left : Nat, items : Seq(Int)]

\* The tokens of a stream.
LEMMA TokensAre ==
    ASSUME NEW s \in Ids, scenario \in Scenarios
    PROVE  /\ scenario.tokens[s] \in Seq(Nat) /\ Len(scenario.tokens[s]) \in Nat
           /\ \A i \in 1 .. Len(scenario.tokens[s]) : scenario.tokens[s][i] \in Nat
<1>1. scenario.tokens \in [Ids -> Seq(Nat)]
  BY ScenariosAssumption
<1>2. scenario.tokens[s] \in Seq(Nat)
  BY <1>1
<1> QED
  BY <1>2

\* The reference reads one token after the other.
LEMMA HeardSteps ==
    ASSUME NEW s \in Ids, scenario \in Scenarios
    PROVE  /\ Heard(s)[0] = Start(s)
           /\ \A n \in 1 .. Len(scenario.tokens[s]) :
                Heard(s)[n] = Hear(Heard(s)[n - 1], scenario.tokens[s][n])
<1> DEFINE t == scenario.tokens[s]
           N == Len(t)
           IsRun(f, m) == f = [k \in 0 .. m |-> IF k = 0 THEN Start(s) ELSE Hear(f[k - 1], t[k])]
           P == {m \in 0 .. N : \E f : IsRun(f, m)}
<1>0. N \in Nat
  BY TokensAre
<1>1. 0 \in P
  <2> DEFINE g == [k \in 0 .. 0 |-> Start(s)]
  <2>1. IsRun(g, 0)
    OBVIOUS
  <2> HIDE DEF g, IsRun
  <2> QED
    BY <1>0, <2>1
<1>2. ASSUME NEW m \in 1 .. N, m - 1 \in P PROVE m \in P
  <2> HIDE DEF t, N
  <2>1. PICK f : IsRun(f, m - 1)
    BY <1>2
  <2> DEFINE g == [k \in 0 .. m |-> IF k = m THEN Hear(f[m - 1], t[m]) ELSE f[k]]
  <2>2. IsRun(g, m)
    <3>1. ASSUME NEW k \in 0 .. m
          PROVE  g[k] = IF k = 0 THEN Start(s) ELSE Hear(g[k - 1], t[k])
      <4>1. CASE k = m
        BY <4>1
      <4>2. CASE k # m
        BY <2>1, <4>2
      <4> QED
        BY <4>1, <4>2
    <3> QED
      BY <3>1
  <2> HIDE DEF g, IsRun
  <2> QED
    BY <2>2
<1>3. N \in P
  <2> HIDE DEF P, N
  <2> QED
    BY <1>0, <1>1, <1>2, Induction
<1> DEFINE h1 == CHOOSE f : IsRun(f, N)
<1>4. IsRun(h1, N)
  BY <1>3
<1>5. Heard(s) = h1
  BY DEF Heard
<1> HIDE DEF h1, N
<1>6. h1[0] = Start(s) /\ \A k \in 1 .. N : h1[k] = Hear(h1[k - 1], t[k])
  BY <1>0, <1>4
<1> QED
  BY <1>5, <1>6 DEF N

\* Items are numbers.
LEMMA SaidIs ==
    ASSUME NEW d, NEW v \in Nat
    PROVE  Said(d, v) \in Seq(Int)
  BY DEF Said, HeadersItem

\* What one token does to the reference, by what was expected of it.
LEMMA HearIs ==
    ASSUME NEW d \in Heards, NEW v \in Nat, d.at = "payload" => d.left >= 1
    PROVE  /\ Hear(d, v) \in Heards
           /\ Hear(d, v).at = "payload" => Hear(d, v).left >= 1
           /\ Hear(d, v).items = d.items \o Said(d, v)
           /\ d.at = "stream" => Hear(d, v).at = IF deserialize(v) = "Push" THEN "push" ELSE "none"
           /\ d.at = "push" => Hear(d, v).at = "type"
           /\ d.at = "type" => Hear(d, v).at = "length" /\ Hear(d, v).type = v
           /\ d.at = "length" => /\ Hear(d, v).at = IF v = 0 THEN "type" ELSE "payload"
                                 /\ Hear(d, v).type = d.type /\ Hear(d, v).left = v
           /\ d.at = "payload" => /\ Hear(d, v).at = IF d.left = 1 THEN "type" ELSE "payload"
                                  /\ Hear(d, v).type = d.type /\ Hear(d, v).left = d.left - 1
           /\ d.at = "none" => Hear(d, v) = d
<1> DEFINE u == Said(d, v)
<1>1. u \in Seq(Int) /\ d.items \in Seq(Int) /\ d.left \in Nat /\ d.type \in Int
  BY SaidIs DEF Heards
<1>2. d.items \o u \in Seq(Int) /\ d.items \o <<>> = d.items
  BY <1>1, PrefixMore, ConcatNone
<1>3. d = [at |-> d.at, type |-> d.type, left |-> d.left, items |-> d.items]
  BY DEF Heards
<1>s. /\ d.at \notin {"length", "payload"} => u = <<>>
      /\ d.at \in {"stream", "push", "none", "type", "length", "payload"}
  BY DEF Said, Heards
<1> HIDE DEF u
<1>4. CASE d.at = "stream"
  <2>1. Hear(d, v) =
                    [at |-> IF deserialize(v) = "Push" THEN "push" ELSE "none", type |-> d.type,
                     left |-> d.left, items |-> d.items]
    BY <1>3, <1>4 DEF Hear, u
  <2>2. Hear(d, v).items = d.items \o u /\ Hear(d, v).items \in Seq(Int)
    BY <1>1, <1>2, <1>s, <1>4, <2>1
  <2>3. Hear(d, v) \in Heards
    BY <1>1, <1>4, <2>1, <2>2 DEF Heards
  <2> QED
    BY <1>1, <1>4, <2>1, <2>2, <2>3 DEF u
<1>5. CASE d.at = "push"
  <2>1. Hear(d, v) = [at |-> "type", type |-> d.type, left |-> d.left, items |-> d.items]
    BY <1>3, <1>5 DEF Hear, u
  <2>2. Hear(d, v).items = d.items \o u /\ Hear(d, v).items \in Seq(Int)
    BY <1>1, <1>2, <1>s, <1>5, <2>1
  <2>3. Hear(d, v) \in Heards
    BY <1>1, <1>5, <2>1, <2>2 DEF Heards
  <2> QED
    BY <1>1, <1>5, <2>1, <2>2, <2>3 DEF u
<1>6. CASE d.at = "type"
  <2>1. Hear(d, v) = [at |-> "length", type |-> v, left |-> d.left, items |-> d.items]
    BY <1>3, <1>6 DEF Hear, u
  <2>2. Hear(d, v).items = d.items \o u /\ Hear(d, v).items \in Seq(Int)
    BY <1>1, <1>2, <1>s, <1>6, <2>1
  <2>3. Hear(d, v) \in Heards
    BY <1>1, <1>6, <2>1, <2>2 DEF Heards
  <2> QED
    BY <1>1, <1>6, <2>1, <2>2, <2>3 DEF u
<1>7. CASE d.at = "length"
  <2>1. Hear(d, v) =
                    [at |-> IF v = 0 THEN "type" ELSE "payload", type |-> d.type,
                     left |-> v, items |-> d.items \o u]
    BY <1>3, <1>7 DEF Hear, u
  <2>2. Hear(d, v).items = d.items \o u /\ Hear(d, v).items \in Seq(Int)
    BY <1>1, <1>2, <1>s, <1>7, <2>1
  <2>3. Hear(d, v) \in Heards
    BY <1>1, <1>7, <2>1, <2>2 DEF Heards
  <2> QED
    BY <1>1, <1>7, <2>1, <2>2, <2>3 DEF u
<1>8. CASE d.at = "payload"
  <2>1. Hear(d, v) =
                    [at |-> IF d.left = 1 THEN "type" ELSE "payload", type |-> d.type,
                     left |-> d.left - 1, items |-> d.items \o u]
    BY <1>3, <1>8 DEF Hear, u
  <2>2. Hear(d, v).items = d.items \o u /\ Hear(d, v).items \in Seq(Int)
    BY <1>1, <1>2, <1>s, <1>8, <2>1
  <2>3. Hear(d, v) \in Heards
    BY <1>1, <1>8, <2>1, <2>2 DEF Heards
  <2> QED
    BY <1>1, <1>8, <2>1, <2>2, <2>3 DEF u
<1>9. CASE d.at = "none"
  <2>1. Hear(d, v) = [at |-> d.at, type |-> d.type, left |-> d.left, items |-> d.items]
    BY <1>3, <1>9 DEF Hear, u
  <2>2. Hear(d, v).items = d.items \o u /\ Hear(d, v).items \in Seq(Int)
    BY <1>1, <1>2, <1>s, <1>9, <2>1
  <2>3. Hear(d, v) \in Heards
    BY <1>1, <1>9, <2>1, <2>2 DEF Heards
  <2> QED
    BY <1>1, <1>3, <1>9, <2>1, <2>2, <2>3 DEF u
<1> QED
  BY <1>s, <1>4, <1>5, <1>6, <1>7, <1>8, <1>9

\* In a payload at least one token is left.
LEMMA HeardIs ==
    ASSUME NEW s \in Ids, scenario \in Scenarios, NEW n \in 0 .. Len(scenario.tokens[s])
    PROVE  Heard(s)[n] \in Heards /\ (Heard(s)[n].at = "payload" => Heard(s)[n].left >= 1)
<1> DEFINE t == scenario.tokens[s]
           N == Len(t)
           Fine(d) == d \in Heards /\ (d.at = "payload" => d.left >= 1)
           P == {m \in 0 .. N : Fine(Heard(s)[m])}
<1>0. N \in Nat /\ n \in 0 .. N /\ \A i \in 1 .. N : t[i] \in Nat
  BY TokensAre
<1>1. 0 \in P
  <2>1. <<>> \in Seq(Int)
    OBVIOUS
  <2>2. Fine(Start(s))
    BY <2>1 DEF Start, Heards, None
  <2> QED
    BY <1>0, <2>2, HeardSteps
<1>2. ASSUME NEW m \in 1 .. N, m - 1 \in P PROVE m \in P
  <2>1. Heard(s)[m] = Hear(Heard(s)[m - 1], t[m])
    BY HeardSteps
  <2>2. Fine(Heard(s)[m - 1]) /\ t[m] \in Nat
    BY <1>0, <1>2
  <2>3. Fine(Heard(s)[m])
    <3> HIDE DEF t
    <3> QED
      BY <2>1, <2>2, HearIs
  <2> QED
    BY <2>3
<1> HIDE DEF N, t
<1>3. ASSUME NEW m \in 0 .. N PROVE m \in P
  <2>1. \A k \in 1 .. m : k - 1 \in P => k \in P
    BY <1>0, <1>2
  <2> HIDE DEF P
  <2> QED
    BY <1>0, <1>1, <2>1, Induction
<1> QED
  BY <1>0, <1>3

\* Nothing is unsaid.
LEMMA HeardGrows ==
    ASSUME NEW s \in Ids, scenario \in Scenarios,
           NEW n \in 0 .. Len(scenario.tokens[s]), NEW m \in 0 .. n
    PROVE  IsPrefix(Heard(s)[m].items, Heard(s)[n].items)
<1> DEFINE N == Len(scenario.tokens[s])
           I(k) == Heard(s)[k].items
           P == {k \in 0 .. n - m : IsPrefix(I(m), I(m + k))}
<1>0. N \in Nat /\ \A k \in 0 .. N : I(k) \in Seq(Int)
  BY TokensAre, HeardIs DEF Heards
<1>1. 0 \in P
  BY <1>0, PrefixSelf
<1>2. ASSUME NEW k \in 1 .. n - m, k - 1 \in P PROVE k \in P
  <2> DEFINE j == m + k
  <2>1. j \in 1 .. N /\ j - 1 = m + (k - 1) /\ j - 1 \in 0 .. N
    BY <1>0
  <2>2. scenario.tokens[s][j] \in Nat
    BY <2>1, TokensAre
  <2>3. I(j) = I(j - 1) \o Said(Heard(s)[j - 1], scenario.tokens[s][j])
    <3> DEFINE e == Heard(s)[j - 1]
               v == scenario.tokens[s][j]
    <3>1. Heard(s)[j] = Hear(e, v) /\ e \in Heards /\ (e.at = "payload" => e.left >= 1)
      BY <2>1, HeardSteps, HeardIs
    <3>2. v \in Nat
      BY <2>2
    <3> HIDE DEF e, v
    <3>3. Hear(e, v).items = e.items \o Said(e, v)
      BY <3>1, <3>2, HearIs
    <3> QED
      BY <3>1, <3>3 DEF e, v
  <2>4. IsPrefix(I(j - 1), I(j))
    BY <1>0, <2>1, <2>2, <2>3, SaidIs, PrefixMore
  <2>5. IsPrefix(I(m), I(j - 1))
    BY <1>2, <2>1
  <2>6. m \in 0 .. N
    BY <1>0
  <2>8. I(m) \in Seq(Int) /\ I(j - 1) \in Seq(Int) /\ I(j) \in Seq(Int)
    BY <1>0, <2>1, <2>6
  <2> HIDE DEF I, j
  <2>7. IsPrefix(I(m), I(j))
    BY <2>4, <2>5, <2>8, PrefixTrans
  <2> QED
    BY <2>7 DEF j
<1>3. n - m \in P
  <2>1. n - m \in Nat
    BY <1>0
  <2> HIDE DEF P
  <2> QED
    BY <1>1, <1>2, <2>1, Induction
<1> QED
  BY <1>3

\* k tokens of a payload.
LEMMA HeardPayload ==
    ASSUME NEW s \in Ids, scenario \in Scenarios,
           NEW n \in 0 .. Len(scenario.tokens[s]), Heard(s)[n].at = "payload",
           NEW k \in Nat, k >= 1, k <= Heard(s)[n].left, n + k <= Len(scenario.tokens[s])
    PROVE  LET d == Heard(s)[n]
               e == Heard(s)[n + k]
           IN  /\ e.at = IF d.left = k THEN "type" ELSE "payload"
               /\ e.type = d.type /\ e.left = d.left - k
               /\ e.items = d.items \o
                    CASE d.type = DATA -> SubSeq(scenario.tokens[s], n + 1, n + k)
                      [] d.type = HEADERS /\ d.left = k -> <<HeadersItem>>
                      [] OTHER -> <<>>
<1> DEFINE t == scenario.tokens[s]
           N == Len(t)
           d == Heard(s)[n]
           Body(j) == CASE d.type = DATA -> SubSeq(t, n + 1, n + j)
                        [] d.type = HEADERS /\ d.left = j -> <<HeadersItem>>
                        [] OTHER -> <<>>
           Read(j) == LET e == Heard(s)[n + j]
                      IN  /\ e.at = IF d.left = j THEN "type" ELSE "payload"
                          /\ e.type = d.type /\ e.left = d.left - j
                          /\ e.items = d.items \o Body(j)
           P == {j \in 0 .. k : Read(j)}
<1>0. /\ N \in Nat /\ t \in Seq(Nat) /\ \A i \in 1 .. N : t[i] \in Nat
      /\ d \in Heards /\ d.left \in Nat /\ d.left >= 1 /\ d.items \in Seq(Int) /\ n + k <= N
  BY TokensAre, HeardIs DEF Heards
<1>1. 0 \in P
  <2>1. Body(0) = <<>>
    <3>1. SubSeq(t, n + 1, n + 0) = <<>>
      BY SubSeqEmpty
    <3>2. d.left # 0
      BY <1>0
    <3> HIDE DEF d, t
    <3> QED
      BY <3>1, <3>2
  <2>2. d.items \o <<>> = d.items
    BY <1>0, ConcatNone
  <2>3. n + 0 = n /\ d.left # 0 /\ d.left - 0 = d.left
    BY <1>0
  <2> HIDE DEF Body
  <2>4. Read(0)
    BY <2>1, <2>2, <2>3
  <2> QED
    BY <2>4
<1>2. ASSUME NEW j \in 1 .. k, j - 1 \in P PROVE j \in P
  <2> DEFINE c == Heard(s)[n + (j - 1)]
             e == Heard(s)[n + j]
             v == t[n + j]
  <2>1. n + j \in 1 .. N /\ n + (j - 1) = n + j - 1 /\ n + (j - 1) \in 0 .. N /\ d.left # j - 1
    <3>1. n \in Nat /\ j \in Nat /\ j >= 1 /\ j <= k /\ k <= d.left /\ k \in Nat
      OBVIOUS
    <3> HIDE DEF d, t, N, P, Body, Read, c, e, v
    <3> QED
      BY <1>0, <3>1
  <2>2. e = Hear(c, v) /\ v \in Nat /\ c \in Heards /\ (c.at = "payload" => c.left >= 1)
    <3>0. \A m \in 1 .. N : Heard(s)[m] = Hear(Heard(s)[m - 1], t[m]) /\ t[m] \in Nat
      BY <1>0, HeardSteps
    <3>1. e = Hear(Heard(s)[n + j - 1], v) /\ v \in Nat
      <4> HIDE DEF t, N
      <4> QED
        BY <2>1, <3>0
    <3>2. c \in Heards /\ (c.at = "payload" => c.left >= 1)
      BY <2>1, HeardIs
    <3> QED
      BY <2>1, <3>1, <3>2
  <2>3. c.at = "payload" /\ c.type = d.type /\ c.left = d.left - (j - 1)
        /\ c.items = d.items \o Body(j - 1)
    BY <1>2, <2>1
  <2>4. /\ e.at = IF c.left = 1 THEN "type" ELSE "payload"
        /\ e.type = c.type /\ e.left = c.left - 1
        /\ e.items = c.items \o Said(c, v)
    <3>1. c.at = "payload"
      BY <2>3
    <3> HIDE DEF c, e, v
    <3> QED
      BY <2>2, <3>1, HearIs
  <2>5. c.left = 1 <=> d.left = j
    BY <1>0, <2>3
  <2>6. Body(j - 1) \in Seq(Int) /\ Said(c, v) \in Seq(Int)
        /\ Body(j) = Body(j - 1) \o Said(c, v)
    <3>1. CASE d.type = DATA
      <4>1. n + 1 \in 1 .. N + 1 /\ n + j - 1 \in n .. N /\ n + j \in n + j - 1 .. N
            /\ n + j - 1 \in (n + 1) - 1 .. N
        BY <1>0, <2>1
      <4>2. SubSeq(t, n + 1, n + j - 1) \o SubSeq(t, n + j - 1 + 1, n + j) = SubSeq(t, n + 1, n + j)
        BY <1>0, <4>1, ConcatAdjacentSubSeq
      <4>3. SubSeq(t, n + j - 1 + 1, n + j) = <<v>>
        <5> DEFINE w == SubSeq(t, n + j, n + j)
        <5>1. w \in Seq(Nat) /\ Len(w) = 1 /\ w[1] = v
          <6>1. \A i \in n + j .. n + j : t[i] \in Nat
            BY <1>0, <2>1
          <6> HIDE DEF t
          <6>2. /\ SubSeq(t, n + j, n + j) \in Seq(Nat)
                /\ Len(SubSeq(t, n + j, n + j)) = IF n + j <= n + j THEN n + j - (n + j) + 1 ELSE 0
                /\ \A i \in 1 .. n + j - (n + j) + 1 : SubSeq(t, n + j, n + j)[i] = t[n + j + i - 1]
            BY <2>1, <6>1, SubSeqProperties
          <6>3. n + j + 1 - 1 = n + j /\ n + j - (n + j) + 1 = 1
            BY <2>1
          <6> QED
            BY <6>2, <6>3
        <5>2. w = <<v>>
          <6> HIDE DEF w, v
          <6>1. <<v>> \in Seq(Nat) /\ Len(<<v>>) = 1 /\ <<v>>[1] = v
            BY <2>2
          <6>2. \A i \in 1 .. 1 : w[i] = <<v>>[i]
            BY <5>1, <6>1
          <6> QED
            BY <5>1, <6>1, <6>2, SeqEqual
        <5> QED
          BY <2>1, <5>2
      <4>4. Said(c, v) = <<v>>
        BY <2>3, <3>1 DEF Said, DATA, HEADERS
      <4>5. SubSeq(t, n + 1, n + j - 1) \in Seq(Int)
        <5>1. \A i \in n + 1 .. n + j - 1 : t[i] \in Int
          <6> SUFFICES ASSUME NEW i \in n + 1 .. n + j - 1 PROVE t[i] \in Int
            OBVIOUS
          <6>1. i \in 1 .. N
            BY <1>0, <2>1
          <6>2. \A x \in Nat : x \in Int
            OBVIOUS
          <6> HIDE DEF t, N
          <6> QED
            BY <1>0, <6>1, <6>2
        <5> QED
          BY <2>1, <5>1, SubSeqProperties
      <4>6. <<v>> \in Seq(Int)
        BY <2>2
      <4>7. Body(j) = SubSeq(t, n + 1, n + j) /\ Body(j - 1) = SubSeq(t, n + 1, n + (j - 1))
        <5> HIDE DEF t, d
        <5> DEFINE x(i) == SubSeq(t, n + 1, n + i)
                   y(i) == d.left = i
        <5>1. \A i : Body(i) = CASE d.type = DATA -> x(i)
                               [] d.type = HEADERS /\ y(i) -> <<HeadersItem>>
                               [] OTHER -> <<>>
          OBVIOUS
        <5>2. d.type # HEADERS
          BY <3>1 DEF DATA, HEADERS
        <5> HIDE DEF x, y, Body
        <5>3. Body(j) = x(j) /\ Body(j - 1) = x(j - 1)
          BY <3>1, <5>1, <5>2
        <5> QED
          BY <5>3 DEF x
      <4> HIDE DEF v, t, c, d, Body
      <4>8. n + (j - 1) = n + j - 1
        BY <2>1
      <4> QED
        BY <4>2, <4>3, <4>4, <4>5, <4>6, <4>7, <4>8
    <3>2. CASE d.type = HEADERS
      <4>1. d.type # DATA /\ Body(j - 1) = <<>>
        BY <2>1, <3>2 DEF DATA, HEADERS
      <4>2. Said(c, v) = IF d.left = j THEN <<HeadersItem>> ELSE <<>>
        BY <2>3, <2>5, <3>2, <4>1 DEF Said
      <4>3. Body(j) = IF d.left = j THEN <<HeadersItem>> ELSE <<>>
        BY <3>2, <4>1
      <4>4. Said(c, v) \in Seq(Int)
        BY <2>2, SaidIs
      <4> DEFINE u == Said(c, v)
      <4>5. <<>> \o u = u /\ <<>> \in Seq(Int)
        BY <4>4, ConcatNone
      <4> HIDE DEF Body, u
      <4> QED
        BY <4>1, <4>2, <4>3, <4>4, <4>5 DEF u
    <3>3. CASE d.type # DATA /\ d.type # HEADERS
      <4>1. Body(j - 1) = <<>> /\ Body(j) = <<>>
        BY <3>3
      <4>2. Said(c, v) = <<>>
        BY <2>3, <3>3 DEF Said
      <4>3. <<>> \o <<>> = <<>> /\ <<>> \in Seq(Int)
        BY ConcatNone
      <4> HIDE DEF Body
      <4> QED
        BY <4>1, <4>2, <4>3
    <3> QED
      BY <3>1, <3>2, <3>3
  <2>7. e.items = d.items \o Body(j)
    <3> DEFINE a == d.items
               b == Body(j - 1)
               g == Said(c, v)
    <3>1. a \in Seq(Int) /\ b \in Seq(Int) /\ g \in Seq(Int)
      BY <1>0, <2>6
    <3>2. e.items = (a \o b) \o g /\ Body(j) = b \o g
      BY <2>3, <2>4, <2>6
    <3> HIDE DEF a, b, g, Body
    <3>3. (a \o b) \o g = a \o (b \o g)
      BY <3>1, ConcatAssoc
    <3> QED
      BY <3>2, <3>3 DEF a
  <2> HIDE DEF Body, c, e
  <2>8. e.at = (IF d.left = j THEN "type" ELSE "payload") /\ e.type = d.type /\ e.left = d.left - j
    BY <1>0, <2>3, <2>4, <2>5
  <2> QED
    BY <2>7, <2>8 DEF e
<1>3. k \in P
  <2> HIDE DEF P
  <2> QED
    BY <1>1, <1>2, Induction
<1> HIDE DEF d, Body
<1>4. Read(k)
  BY <1>3
<1> QED
  BY <1>4 DEF d, Body

\* A stream that is no message says nothing.
LEMMA HeardNothing ==
    ASSUME NEW s \in Ids, scenario \in Scenarios,
           NEW n \in 0 .. Len(scenario.tokens[s]), NEW m \in 0 .. n, Heard(s)[m].at = "none"
    PROVE  Heard(s)[n] = Heard(s)[m]
<1> DEFINE N == Len(scenario.tokens[s])
           P == {k \in 0 .. n - m : Heard(s)[m + k] = Heard(s)[m]}
<1>0. N \in Nat /\ n \in 0 .. N
  BY TokensAre
<1>1. 0 \in P
  BY <1>0
<1>2. ASSUME NEW k \in 1 .. n - m, k - 1 \in P PROVE k \in P
  <2> DEFINE j == m + k
  <2>1. j \in 1 .. N /\ j - 1 = m + (k - 1) /\ j - 1 \in 0 .. N
    BY <1>0
  <2>2. scenario.tokens[s][j] \in Nat
    BY <2>1, TokensAre
  <2>3. Heard(s)[j - 1] = Heard(s)[m]
    BY <1>2, <2>1
  <2>4. Heard(s)[j] = Heard(s)[j - 1]
    BY <2>1, <2>2, <2>3, HeardSteps, HeardIs, HearIs
  <2> QED
    BY <2>3, <2>4
<1>3. n - m \in P
  <2>1. n - m \in Nat
    BY <1>0
  <2> HIDE DEF P
  <2> QED
    BY <1>1, <1>2, <2>1, Induction
<1> QED
  BY <1>0, <1>3

-----------------------------------------------------------------------------
(* Connections that differ in one stream.                                    *)

\* Tables of streams are the functions from some ids to streams.
LEMMA TablesAre ==
    ASSUME NEW f
    PROVE  f \in Tables <=> /\ f = [i \in DOMAIN f |-> f[i]]
                            /\ DOMAIN f \subseteq Int
                            /\ \A i \in DOMAIN f : f[i] \in H3Stream
<1>1. ASSUME f \in Tables
      PROVE  /\ f = [i \in DOMAIN f |-> f[i]]
             /\ DOMAIN f \subseteq Int
             /\ \A i \in DOMAIN f : f[i] \in H3Stream
  <2>1. PICK D \in SUBSET Int : f \in [D -> H3Stream]
    BY <1>1 DEF Tables
  <2> HIDE DEF H3Stream
  <2> QED
    BY <2>1
<1>2. ASSUME f = [i \in DOMAIN f |-> f[i]], DOMAIN f \subseteq Int,
             \A i \in DOMAIN f : f[i] \in H3Stream
      PROVE  f \in Tables
  <2>1. f \in [DOMAIN f -> H3Stream]
    BY <1>2
  <2> QED
    BY <1>2, <2>1 DEF Tables
<1> QED
  BY <1>1, <1>2

\* d is c but for what happened on stream s.
Apart(c, d, s) ==
    /\ d \in Conns
    /\ \A i \in Ids \ {s} : d.q[i] = c.q[i]
    /\ DOMAIN d.h.streams = DOMAIN c.h.streams
    /\ \A i \in DOMAIN c.h.streams \ {s} : d.h.streams[i] = c.h.streams[i]
    /\ d.h.control \in {c.h.control, s}
    /\ c.h.closed => d.h.closed
    /\ d.h.next = c.h.next

\* The HTTP/3 side of one stream is replaced.
LEMMA PutStream ==
    ASSUME NEW c \in Conns, NEW s \in DOMAIN c.h.streams, NEW st \in H3Stream
    PROVE  LET d == [c EXCEPT !.h.streams[s] = st]
           IN  /\ Apart(c, d, s) /\ d.q = c.q /\ d.h.streams[s] = st
               /\ d.h.control = c.h.control /\ d.h.closed = c.h.closed
<1> DEFINE f == [c.h.streams EXCEPT ![s] = st]
           d == [c EXCEPT !.h.streams[s] = st]
<1>1. c.q \in [Ids -> QStream] /\ c.h \in H3Conn /\ c = [q |-> c.q, h |-> c.h]
  BY DEF Conns
<1>2. c.h.streams \in Tables
  BY <1>1 DEF H3Conn
<1>3. /\ f \in Tables /\ DOMAIN f = DOMAIN c.h.streams /\ f[s] = st
      /\ \A i \in DOMAIN c.h.streams \ {s} : f[i] = c.h.streams[i]
  <2>1. /\ DOMAIN f = DOMAIN c.h.streams /\ f[s] = st /\ f = [i \in DOMAIN f |-> f[i]]
        /\ \A i \in DOMAIN c.h.streams \ {s} : f[i] = c.h.streams[i]
    OBVIOUS
  <2> HIDE DEF f
  <2>2. \A i \in DOMAIN f : f[i] \in H3Stream
    BY <1>2, <2>1, TablesAre
  <2> QED
    BY <1>2, <2>1, <2>2, TablesAre
<1>4. d = [c EXCEPT !.h = [c.h EXCEPT !.streams = f]]
  OBVIOUS
<1> HIDE DEF f
<1> DEFINE g == [c.h EXCEPT !.streams = f]
<1>5. /\ g \in H3Conn /\ g.streams = f /\ g.control = c.h.control /\ g.closed = c.h.closed
      /\ g.next = c.h.next
  BY <1>1, <1>3 DEF H3Conn
<1> HIDE DEF g
<1>6. d = [q |-> c.q, h |-> g]
  BY <1>1, <1>4 DEF g
<1> HIDE DEF d
<1>7. d \in Conns
  BY <1>1, <1>5, <1>6 DEF Conns
<1>8. d.q = c.q /\ d.h = g
  BY <1>6
<1>9. Apart(c, d, s)
  BY <1>3, <1>5, <1>7, <1>8 DEF Apart
<1>10. d.h.streams[s] = st /\ d.h.control = c.h.control /\ d.h.closed = c.h.closed
  BY <1>3, <1>5, <1>8
<1> QED
  BY <1>8, <1>9, <1>10 DEF d

\* The QUIC side of one stream is replaced.
LEMMA PutQuic ==
    ASSUME NEW c \in Conns, NEW s \in Ids, NEW x \in QStream
    PROVE  LET d == [c EXCEPT !.q[s] = x]
           IN  Apart(c, d, s) /\ d.q[s] = x /\ d.h = c.h
<1> DEFINE d == [c EXCEPT !.q[s] = x]
           f == [c.q EXCEPT ![s] = x]
<1>1. c.q \in [Ids -> QStream] /\ c.h \in H3Conn /\ c = [q |-> c.q, h |-> c.h]
  BY DEF Conns
<1>2. f \in [Ids -> QStream] /\ f[s] = x /\ \A i \in Ids \ {s} : f[i] = c.q[i]
  BY <1>1
<1>3. d = [q |-> f, h |-> c.h]
  BY <1>1
<1> HIDE DEF f, d
<1>4. d \in Conns /\ d.q = f /\ d.h = c.h
  BY <1>1, <1>2, <1>3 DEF Conns
<1>5. Apart(c, d, s)
  BY <1>2, <1>4 DEF Apart
<1> QED
  BY <1>2, <1>4, <1>5 DEF d

\* Two changes of one stream.
LEMMA ApartTrans ==
    ASSUME NEW c, NEW d, NEW e, NEW s, Apart(c, d, s), Apart(d, e, s)
    PROVE  Apart(c, e, s)
  BY DEF Apart

\* No change.
LEMMA ApartSelf ==
    ASSUME NEW c \in Conns, NEW s
    PROVE  Apart(c, c, s)
  BY DEF Apart

\* Only the stream that changed has to be looked at again.
LEMMA ApartGood ==
    ASSUME NEW c, NEW items, Good(c, items), NEW s \in Ids, NEW d, Apart(c, d, s),
           NEW told \in [Ids -> Seq(Int)], \A i \in Ids \ {s} : told[i] = items[i],
           Tracked(d, s, told[s])
    PROVE  Good(d, told)
<1>1. ASSUME NEW i \in Ids PROVE Tracked(d, i, told[i])
  <2>1. CASE i = s
    BY <2>1
  <2>2. CASE i # s
    <3>1. Tracked(c, i, items[i]) /\ told[i] = items[i] /\ d.q[i] = c.q[i]
      BY <2>2 DEF Good, Apart
    <3>2. /\ i \in DOMAIN d.h.streams <=> i \in DOMAIN c.h.streams
          /\ i \in DOMAIN c.h.streams => d.h.streams[i] = c.h.streams[i]
      BY <2>2 DEF Apart
    <3>3. /\ d.h.control = i => c.h.control = i
          /\ c.h.closed => d.h.closed
          /\ d.h.next = c.h.next
      BY <2>2 DEF Apart
    <3> QED
      BY <3>1, <3>2, <3>3 DEF Tracked
  <2> QED
    BY <2>1, <2>2
<1> QED
  BY <1>1 DEF Good, Apart

\* The fields of a connection.
LEMMA ConnIs ==
    ASSUME NEW c \in Conns
    PROVE  /\ \A s \in Ids : c.q[s] \in QStream
           /\ \A s \in DOMAIN c.h.streams : c.h.streams[s] \in H3Stream
           /\ DOMAIN c.h.streams \subseteq Int
           /\ c = [q |-> c.q, h |-> c.h] /\ c.q \in [Ids -> QStream] /\ c.h \in H3Conn
           /\ c.h.streams \in Tables
           /\ c.h.control \in Ids \cup {None} /\ c.h.encoder \in Ids \cup {None}
           /\ c.h.decoder \in Ids \cup {None} /\ c.h.closed \in BOOLEAN
           /\ c.h.finished \in Seq(Ids) /\ c.h.next \in Nat
           /\ c.h.peer_goaway \in Int /\ c.h.max_push \in Int
<1>1. c.q \in [Ids -> QStream] /\ c.h \in H3Conn /\ c = [q |-> c.q, h |-> c.h]
  BY DEF Conns
<1>2. /\ c.h.streams \in Tables
      /\ c.h.control \in Ids \cup {None} /\ c.h.encoder \in Ids \cup {None}
      /\ c.h.decoder \in Ids \cup {None} /\ c.h.closed \in BOOLEAN
      /\ c.h.finished \in Seq(Ids) /\ c.h.next \in Nat
      /\ c.h.peer_goaway \in Int /\ c.h.max_push \in Int
  BY <1>1 DEF H3Conn
<1> QED
  BY <1>1, <1>2, TablesAre

-----------------------------------------------------------------------------
(* What QUIC does for a stream.                                              *)

\* Of a stream that QUIC calls finished nothing is left.
LEMMA FinishedSpent ==
    ASSUME NEW x \in QStream, NEW s, QuicOk(x, s), stream_finished(x)
    PROVE  Spent(x)
  BY DEF QuicOk, stream_finished, Spent, QStream

\* x became y by reading n tokens.
Took(x, y, n) ==
    /\ y \in QStream /\ n \in Nat
    /\ y.off = x.off + n /\ y.arrived = x.arrived /\ y.end = x.end /\ y.drain = x.drain
    /\ Spent(x) => n = 0
    /\ y.tx = x.tx

\* A stream that was read to its end stays so.
LEMMA TookOk ==
    ASSUME NEW s \in Ids, NEW x \in QStream, NEW y, NEW n, Took(x, y, n), QuicOk(y, s)
    PROVE  Spent(x) => Spent(y)
  BY DEF Took, Spent, QStream

\* Collecting a stream changes no more than that.
LEMMA TransportIs ==
    ASSUME NEW c \in Conns, NEW s \in Ids, NEW x \in QStream,
           QuicOk([x EXCEPT !.gone = FALSE], s), x.gone => QuicOk(x, s)
    PROVE  LET d == Transport(c, s, x)
               y == d.q[s]
           IN  /\ Apart(c, d, s) /\ d.h = c.h
               /\ y \in QStream /\ QuicOk(y, s)
               /\ y = [x EXCEPT !.gone = y.gone]
<1> DEFINE y == [x EXCEPT !.gone = x.gone \/ Complete(x, s)]
           d == [c EXCEPT !.q[s] = y]
<1>1. y \in QStream /\ y = [x EXCEPT !.gone = y.gone]
  <2>1. Complete(x, s) \in BOOLEAN
    BY DEF Complete, QStream
  <2> QED
    BY <2>1 DEF QStream
<1>2. QuicOk(y, s)
  <2>1. CASE x.gone
    <3>1. y.gone
      BY <2>1 DEF QStream
    <3> QED
      BY <1>1, <2>1, <3>1 DEF QuicOk, QStream
  <2>2. CASE ~x.gone /\ ~Complete(x, s)
    <3>1. y.gone = FALSE
      BY <2>2 DEF QStream
    <3> QED
      BY <1>1, <3>1 DEF QuicOk, QStream
  <2>3. CASE ~x.gone /\ Complete(x, s)
    BY <1>1, <2>3 DEF QuicOk, QStream, Complete, stream_finished
  <2> QED
    BY <2>1, <2>2, <2>3
<1> HIDE DEF y
<1>3. Apart(c, d, s) /\ d.q[s] = y /\ d.h = c.h
  BY <1>1, PutQuic
<1>4. Transport(c, s, x) = d
  BY DEF Transport, y
<1> HIDE DEF d
<1> QED
  BY <1>1, <1>2, <1>3, <1>4

\* stream_recv: at most n tokens are read, and after an error nothing is left to read.
LEMMA RecvIs ==
    ASSUME NEW c \in Conns, NEW s \in Ids, QuicOk(c.q[s], s), NEW n \in Nat
    PROVE  LET r == stream_recv(c, s, n)
           IN  /\ Apart(c, r.c, s) /\ r.c.h = c.h
               /\ Took(c.q[s], r.c.q[s], r.read) /\ QuicOk(r.c.q[s], s)
               /\ r.read <= n
               /\ r.res \in {"Ok", "Done", "Reset", "Error"}
               /\ r.res # "Ok" => r.read = 0
               /\ r.res \in {"Reset", "Error"} => Spent(r.c.q[s])
               /\ r.res = "Ok" => Readable(c.q[s])
               /\ r.res = "Ok" /\ n > c.q[s].arrived - c.q[s].off => ~Readable(r.c.q[s])
<1> DEFINE x == c.q[s]
           k == IF n < x.arrived - x.off THEN n ELSE x.arrived - x.off
           y == [x EXCEPT !.off = @ + k, !.note = @ /\ n = 0]
           z == [y EXCEPT !.queued = Readable(y)]
           w == [x EXCEPT !.note = FALSE, !.queued = FALSE]
           r == stream_recv(c, s, n)
<1>0. x \in QStream /\ QuicOk(x, s) /\ x.arrived \in Nat /\ x.off \in Nat /\ x.off <= x.arrived
  BY ConnIs DEF QStream, QuicOk
<1>1. k \in Nat /\ k <= n /\ x.off + k <= x.arrived /\ (x.off = x.arrived => k = 0)
  BY <1>0
<1> DEFINE p1 == [c |-> c, res |-> "Error", read |-> 0, fin |-> FALSE]
           p2 == [c |-> c, res |-> "Done", read |-> 0, fin |-> FALSE]
           p3 == [c |-> Transport(c, s, w), res |-> "Reset", read |-> 0, fin |-> FALSE]
           p4 == [c |-> Transport(c, s, z), res |-> "Ok", read |-> k, fin |-> stream_finished(y)]
<1>r. r = CASE x.gone -> p1 [] ~x.gone /\ ~Readable(x) -> p2
            [] Readable(x) /\ x.end = "reset" -> p3 [] OTHER -> p4
  BY Zenon DEF stream_recv
<1>q. /\ x.gone => r = p1
      /\ ~x.gone /\ ~Readable(x) => r = p2
      /\ Readable(x) /\ x.end = "reset" => r = p3
      /\ Readable(x) /\ x.end # "reset" => r = p4
  <2>1. Readable(x) => ~x.gone
    BY DEF Readable
  <2> HIDE DEF p1, p2, p3, p4, r, x
  <2> QED
    BY <1>r, <2>1
<1> HIDE DEF k
<1>2. CASE x.gone
  <2>1. r = [c |-> c, res |-> "Error", read |-> 0, fin |-> FALSE]
    BY <1>2, <1>q
  <2>2. Apart(c, c, s) /\ Took(x, x, 0) /\ Spent(x)
    BY <1>0, <1>2, ApartSelf DEF Took, Spent, QuicOk, QStream
  <2> HIDE DEF r, x
  <2> QED
    BY <1>0, <2>1, <2>2 DEF r, x
<1>3. CASE ~x.gone /\ ~Readable(x)
  <2>1. r = [c |-> c, res |-> "Done", read |-> 0, fin |-> FALSE]
    BY <1>3, <1>q
  <2>2. Apart(c, c, s) /\ Took(x, x, 0)
    BY <1>0, <1>3, ApartSelf DEF Took, Spent, QuicOk, QStream
  <2> HIDE DEF r, x
  <2> QED
    BY <1>0, <2>1, <2>2 DEF r, x
<1>4. CASE Readable(x) /\ x.end = "reset"
  <2> DEFINE d == Transport(c, s, w)
  <2>1. r = [c |-> d, res |-> "Reset", read |-> 0, fin |-> FALSE]
    BY <1>4, <1>q
  <2>2. w \in QStream /\ QuicOk([w EXCEPT !.gone = FALSE], s) /\ ~w.gone
        /\ w.off = x.off /\ w.arrived = x.arrived /\ w.end = x.end /\ w.drain = x.drain /\ w.tx = x.tx
    BY <1>0, <1>4 DEF QStream, QuicOk, Readable
  <2> HIDE DEF x, w
  <2>3. /\ Apart(c, d, s) /\ d.h = c.h
        /\ d.q[s] \in QStream /\ QuicOk(d.q[s], s) /\ d.q[s] = [w EXCEPT !.gone = d.q[s].gone]
    BY <2>2, TransportIs
  <2> HIDE DEF d, r
  <2>4. Took(x, d.q[s], 0) /\ Spent(d.q[s])
    BY <1>0, <1>4, <2>2, <2>3 DEF Took, Spent, QuicOk, QStream
  <2> QED
    BY <2>1, <2>3, <2>4 DEF r, x
<1>5. CASE Readable(x) /\ x.end # "reset"
  <2> DEFINE d == Transport(c, s, z)
  <2>1. r = [c |-> d, res |-> "Ok", read |-> k, fin |-> stream_finished(y)]
    BY <1>5, <1>q
  <2>2. z \in QStream /\ QuicOk([z EXCEPT !.gone = FALSE], s) /\ ~z.gone
        /\ z.off = x.off + k /\ z.arrived = x.arrived /\ z.end = x.end /\ z.drain = x.drain /\ z.tx = x.tx
        /\ (z.note => n = 0)
    <3>1. y \in QStream /\ y.off = x.off + k /\ y.arrived = x.arrived /\ y.end = x.end
          /\ y.drain = x.drain /\ y.tx = x.tx /\ ~y.gone /\ (y.note => x.note /\ n = 0)
      <4> HIDE DEF x
      <4>1. (x.note /\ n = 0) \in BOOLEAN /\ x.off + k \in Nat
        BY <1>0, <1>1 DEF QStream
      <4> DEFINE b == x.note /\ n = 0
      <4>2. y = [x EXCEPT !.off = x.off + k, !.note = b]
        BY Zenon DEF b
      <4>3. b \in BOOLEAN /\ (b => x.note /\ n = 0)
        BY <1>0 DEF QStream
      <4> HIDE DEF y, b
      <4>4. y \in QStream
        BY <1>0, <4>1, <4>2, <4>3 DEF QStream
      <4>5. /\ y.off = x.off + k /\ y.arrived = x.arrived /\ y.end = x.end /\ y.note = b
            /\ y.drain = x.drain /\ y.tx = x.tx /\ y.gone = x.gone
        BY <1>0, <4>2 DEF QStream
      <4> QED
        BY <1>0, <1>5, <4>3, <4>4, <4>5 DEF Readable
    <3> HIDE DEF y, x
    <3>2. Readable(y) \in BOOLEAN
      BY <3>1 DEF Readable, QStream
    <3>3. z \in QStream /\ z.off = y.off /\ z.arrived = y.arrived /\ z.end = y.end
          /\ z.drain = y.drain /\ z.tx = y.tx /\ ~z.gone /\ z.note = y.note
      BY <3>1, <3>2 DEF QStream
    <3> HIDE DEF z
    <3>4. QuicOk([z EXCEPT !.gone = FALSE], s)
      BY <1>0, <1>1, <3>1, <3>3 DEF QStream, QuicOk
    <3> QED
      BY <3>1, <3>3, <3>4
  <2> HIDE DEF x, z
  <2>3. /\ Apart(c, d, s) /\ d.h = c.h
        /\ d.q[s] \in QStream /\ QuicOk(d.q[s], s) /\ d.q[s] = [z EXCEPT !.gone = d.q[s].gone]
    BY <2>2, TransportIs
  <2>4. Spent(x) => k = 0
    BY <1>0, <1>1, <1>5 DEF Spent, Readable, QuicOk, QStream
  <2> HIDE DEF d, r, y
  <2>5. Took(x, d.q[s], k)
    BY <1>0, <1>1, <2>2, <2>3, <2>4 DEF Took, QStream
  <2>6. n > x.arrived - x.off => ~Readable(d.q[s])
    <3>1. n > x.arrived - x.off => k = x.arrived - x.off /\ n # 0
      BY <1>0 DEF k
    <3> QED
      BY <1>0, <2>2, <2>3, <3>1 DEF Readable, QStream
  <2> QED
    BY <1>1, <1>5, <2>1, <2>3, <2>5, <2>6 DEF r, x
<1> QED
  BY <1>2, <1>3, <1>4, <1>5 DEF Readable

\* stream_shutdown of the receive side: what is left is skipped.
LEMMA ShutdownIs ==
    ASSUME NEW c \in Conns, NEW s \in Ids, QuicOk(c.q[s], s)
    PROVE  LET d == stream_shutdown(c, s)
           IN  /\ Apart(c, d, s) /\ d.h = c.h
               /\ d.q[s] \in QStream /\ QuicOk(d.q[s], s) /\ Spent(d.q[s])
               /\ c.q[s].off <= d.q[s].off /\ d.q[s].arrived = c.q[s].arrived
               /\ d.q[s].end = c.q[s].end
<1> DEFINE x == c.q[s]
           y == [x EXCEPT !.drain = TRUE, !.note = FALSE, !.queued = FALSE, !.off = x.arrived]
           d == stream_shutdown(c, s)
<1>0. x \in QStream
  BY ConnIs
<1>1. CASE x.gone \/ x.drain
  <2>1. d = c
    BY <1>1 DEF stream_shutdown
  <2>2. Spent(x) /\ x.off <= x.off
    BY <1>0, <1>1 DEF Spent, QuicOk, QStream
  <2> HIDE DEF d, x
  <2> QED
    BY <1>0, <2>1, <2>2, ApartSelf DEF d, x
<1>2. CASE ~(x.gone \/ x.drain)
  <2>1. d = [c EXCEPT !.q[s] = y]
    BY <1>2 DEF stream_shutdown
  <2>2. y \in QStream /\ QuicOk(y, s) /\ Spent(y) /\ x.off <= y.off /\ y.arrived = x.arrived
        /\ y.end = x.end
    <3>2. QuicOk(x, s)
      OBVIOUS
    <3> HIDE DEF x
    <3>1. y \in QStream
      BY <1>0 DEF QStream
    <3>3. /\ y.off = x.arrived /\ y.arrived = x.arrived /\ y.end = x.end /\ ~y.note
          /\ y.drain /\ y.gone = x.gone
      BY <1>0 DEF QStream
    <3> HIDE DEF y
    <3> QED
      BY <1>0, <1>2, <3>1, <3>2, <3>3 DEF QStream, QuicOk, Spent
  <2> HIDE DEF y, x
  <2>3. Apart(c, d, s) /\ d.q[s] = y /\ d.h = c.h
    BY <2>1, <2>2, PutQuic
  <2> HIDE DEF d
  <2> QED
    BY <2>2, <2>3 DEF d, x
<1> QED
  BY <1>1, <1>2

-----------------------------------------------------------------------------
(* The parser of one stream.                                                 *)

\* What holds of a stream that will not be misread.
View(s, x, st, items) ==
    /\ x \in QStream /\ st \in H3Stream /\ items \in Seq(Int)
    /\ QuicOk(x, s) /\ Shape(s, st) /\ st.off <= x.off
    /\ IsPrefix(items \o Pending(st), Heard(s)[x.off].items)
    /\ Going(x, st, Heard(s)[x.off], items)

\* InStep, state by state.
LEMMA InStepIs ==
    ASSUME NEW st, NEW d
    PROVE  /\ st.ty \in {"None", "Push", "Request"} /\ st.state = "StreamType" =>
                (InStep(st, d) <=> d.at = "stream")
           /\ st.ty \in {"Push", "Request"} /\ st.state = "PushId" =>
                (InStep(st, d) <=> d.at = "push")
           /\ st.ty \in {"Push", "Request"} /\ st.state = "FrameType" =>
                (InStep(st, d) <=> d.at = "type")
           /\ st.ty \in {"Push", "Request"} /\ st.state = "FramePayloadLen" =>
                (InStep(st, d) <=> d.at = "length" /\ d.type = st.frame_type)
           /\ st.ty \in {"Push", "Request"} /\ st.state \in {"FramePayload", "Data"} =>
                (InStep(st, d) <=> IF st.off = st.len THEN d.at = "type"
                                   ELSE d.at = "payload" /\ d.type = st.frame_type
                                        /\ d.left = st.len - st.off)
           /\ st.ty \in {"Push", "Request"} /\ st.state = "Finished" => ~InStep(st, d)
           /\ st.ty \notin {"None", "Push", "Request"} => (InStep(st, d) <=> d.at = "none")
  BY DEF InStep

\* Shape, type by type.
LEMMA ShapeIs ==
    ASSUME NEW s, NEW st \in H3Stream
    PROVE  Shape(s, st) <=>
             /\ st.off <= st.len
             /\ st.state \in Varints => st.len = 1
             /\ st.state = "FramePayload" => st.frame_type # DATA
             /\ st.state = "Data" => st.frame_type = DATA
             /\ is_bidi(s) <=> st.ty = "Request"
             /\ st.ty = "None" => st.state = "StreamType"
             /\ st.ty = "Control" =>
                  /\ st.state \in {"FrameType", "FramePayloadLen", "FramePayload"}
                  /\ st.state # "FrameType" => st.frame_type \notin {DATA, HEADERS}
             /\ st.ty = "Request" =>
                  st.state \in {"FrameType", "FramePayloadLen", "FramePayload", "Data", "Finished"}
             /\ st.ty = "Push" =>
                  st.state \in {"PushId", "FrameType", "FramePayloadLen", "FramePayload", "Data",
                                "Finished"}
             /\ st.ty = "Unknown" => st.state = "Drain"
             /\ st.ty \in {"QpackEncoder", "QpackDecoder"} => st.state = "QpackInstruction"
  BY DEF Shape, H3Stream, Types

\* Only a frame whose payload is read can be pending.
LEMMA PendingIs ==
    ASSUME NEW st
    PROVE  Pending(st) \in Seq(Int) /\ (st.state # "FramePayload" => Pending(st) = <<>>)
  BY DEF Pending, HeadersItem

\* Other fields of a stream do not matter to the parser.
LEMMA SameFields ==
    ASSUME NEW s, NEW st \in H3Stream, NEW su \in H3Stream, NEW d,
           st.ty = su.ty, st.state = su.state, st.len = su.len, st.off = su.off,
           st.frame_type = su.frame_type
    PROVE  /\ Shape(s, st) => Shape(s, su)
           /\ Pending(su) = Pending(st)
           /\ InStep(st, d) => InStep(su, d)
<1>1. Shape(s, st) => Shape(s, su)
  BY ShapeIs
<1>2. Pending(su) = Pending(st)
  BY DEF Pending
<1>3. InStep(st, d) => InStep(su, d)
  BY Zenon DEF InStep
<1> QED
  BY <1>1, <1>2, <1>3

\* More of the stream was read.
LEMMA PrefixLater ==
    ASSUME NEW s \in Ids, scenario \in Scenarios, NEW x \in QStream, NEW y \in QStream,
           QuicOk(x, s), QuicOk(y, s), x.off <= y.off,
           NEW items \in Seq(Int), IsPrefix(items, Heard(s)[x.off].items)
    PROVE  IsPrefix(items, Heard(s)[y.off].items)
<1>1. x.off \in Nat /\ y.off \in 0 .. Len(scenario.tokens[s]) /\ x.off \in 0 .. y.off
      /\ x.off \in 0 .. Len(scenario.tokens[s])
  BY TokensAre DEF QuicOk, QStream
<1>2. IsPrefix(Heard(s)[x.off].items, Heard(s)[y.off].items)
  BY <1>1, HeardGrows
<1>3. Heard(s)[x.off].items \in Seq(Int) /\ Heard(s)[y.off].items \in Seq(Int)
  BY <1>1, HeardIs DEF Heards
<1> QED
  BY <1>2, <1>3, PrefixTrans

\* What the reference says where the stream is read to.
LEMMA OffIs ==
    ASSUME NEW s \in Ids, scenario \in Scenarios, NEW x \in QStream, QuicOk(x, s)
    PROVE  /\ x.off \in 0 .. Len(scenario.tokens[s]) /\ Heard(s)[x.off] \in Heards
           /\ Heard(s)[x.off].items \in Seq(Int) /\ Heard(s)[x.off].left \in Nat
           /\ Heard(s)[x.off].at = "payload" => Heard(s)[x.off].left >= 1
<1>1. x.off \in 0 .. Len(scenario.tokens[s])
  BY TokensAre DEF QuicOk, QStream
<1> QED
  BY <1>1, HeardIs DEF Heards

\* A view of a stream whose tokens were all understood.
LEMMA ViewUnderstood ==
    ASSUME NEW s \in Ids, scenario \in Scenarios, NEW x \in QStream, QuicOk(x, s),
           NEW st \in H3Stream, Shape(s, st), st.state \in Varints => st.off = 0,
           st.off <= x.off, NEW items \in Seq(Int), InStep(st, Heard(s)[x.off]),
           items \o Pending(st) = Heard(s)[x.off].items
    PROVE  View(s, x, st, items)
<1>1. Heard(s)[x.off].items \in Seq(Int)
  BY OffIs
<1>2. IsPrefix(items \o Pending(st), Heard(s)[x.off].items)
  BY <1>1, PrefixSelf
<1> QED
  BY <1>2 DEF View, Going

\* Nothing was read, or some of the payload of a frame.
LEMMA ViewFilled ==
    ASSUME NEW s \in Ids, scenario \in Scenarios, NEW x, NEW y, NEW st, NEW items,
           View(s, x, st, items), NEW k, Took(x, y, k), QuicOk(y, s),
           NEW su \in H3Stream, su.ty = st.ty, su.state = st.state, su.len = st.len,
           su.off = st.off + k, su.frame_type = st.frame_type,
           k = 0 \/ (st.state = "FramePayload" /\ st.off + k <= st.len)
    PROVE  View(s, y, su, items)
<1> DEFINE d == Heard(s)[x.off]
           e == Heard(s)[y.off]
<1>0. /\ x \in QStream /\ y \in QStream /\ st \in H3Stream /\ items \in Seq(Int)
      /\ QuicOk(x, s) /\ Shape(s, st) /\ k \in Nat /\ y.off = x.off + k /\ x.off \in Nat
      /\ st.off \in Nat /\ st.len \in Nat /\ st.off <= x.off
  BY DEF View, Took, QStream, H3Stream
<1>b. su.off <= y.off
  BY <1>0
<1>1. CASE k = 0
  <2>1. y.off = x.off /\ su.off = st.off
    BY <1>0, <1>1
  <2>2. Shape(s, su) /\ Pending(su) = Pending(st) /\ (InStep(st, d) => InStep(su, d))
    BY <1>0, <2>1, SameFields
  <2>3. Spent(x) => Spent(y)
    BY <1>0, TookOk
  <2> QED
    BY <1>0, <1>b, <2>1, <2>2, <2>3 DEF View, Going
<1>2. CASE k # 0
  <2>1. ~Spent(x) /\ st.state = "FramePayload" /\ st.off + k <= st.len
    BY <1>2 DEF Took
  <2>2. InStep(st, d) /\ items \o Pending(st) = d.items
    BY <2>1 DEF View, Going
  <2>3. st.off # st.len /\ k >= 1 /\ st.len - st.off \in Nat
    BY <1>0, <1>2, <2>1
  <2>4. Pending(st) = <<>> /\ items = d.items
    <3>1. Pending(st) = <<>>
      BY <2>3 DEF Pending
    <3> QED
      BY <1>0, <2>2, <3>1, ConcatNone
  <2>5. x.off \in 0 .. Len(scenario.tokens[s]) /\ d \in Heards /\ d.items \in Seq(Int)
    BY <1>0, OffIs
  <2>6. x.off + k <= Len(scenario.tokens[s]) /\ y.off \in 0 .. Len(scenario.tokens[s])
    BY <1>0, OffIs
  <2>7. Shape(s, su)
    <3>1. su.off <= su.len
      BY <1>0, <2>1
    <3> QED
      BY <1>0, <2>1, <3>1, ShapeIs DEF Varints
  <2>8. CASE st.ty \in {"Push", "Request"}
    <3>1. d.at = "payload" /\ d.type = st.frame_type /\ d.left = st.len - st.off
      BY <2>1, <2>2, <2>3, <2>8, InStepIs
    <3>2. k <= d.left
      BY <1>0, <2>1, <3>1
    <3>3. /\ e.at = IF d.left = k THEN "type" ELSE "payload"
          /\ e.type = d.type /\ e.left = d.left - k
          /\ e.items = d.items \o
               CASE d.type = DATA -> SubSeq(scenario.tokens[s], x.off + 1, x.off + k)
                 [] d.type = HEADERS /\ d.left = k -> <<HeadersItem>>
                 [] OTHER -> <<>>
      <4>1. /\ x.off \in 0 .. Len(scenario.tokens[s]) /\ Heard(s)[x.off].at = "payload"
            /\ k \in Nat /\ k >= 1 /\ k <= Heard(s)[x.off].left
            /\ x.off + k <= Len(scenario.tokens[s])
        BY <1>0, <2>3, <2>5, <2>6, <3>1, <3>2
      <4>2. e = Heard(s)[x.off + k]
        BY <1>0
      <4> DEFINE n == x.off
                 d1 == Heard(s)[n]
                 e1 == Heard(s)[n + k]
      <4> HIDE DEF n
      <4>3. /\ e1.at = IF d1.left = k THEN "type" ELSE "payload"
            /\ e1.type = d1.type /\ e1.left = d1.left - k
            /\ e1.items = d1.items \o
                 CASE d1.type = DATA -> SubSeq(scenario.tokens[s], n + 1, n + k)
                   [] d1.type = HEADERS /\ d1.left = k -> <<HeadersItem>>
                   [] OTHER -> <<>>
        <5>1. /\ n \in 0 .. Len(scenario.tokens[s]) /\ Heard(s)[n].at = "payload"
              /\ k \in Nat /\ k >= 1 /\ k <= Heard(s)[n].left
              /\ n + k <= Len(scenario.tokens[s])
          BY <4>1 DEF n
        <5> QED
          BY <5>1, HeardPayload
      <4> QED
        BY <4>2, <4>3 DEF n
    <3>4. d.type # DATA
      BY <1>0, <2>1, <3>1, ShapeIs
    <3>5. e.items = d.items \o IF d.type = HEADERS /\ d.left = k THEN <<HeadersItem>> ELSE <<>>
      <4> HIDE DEF d, e
      <4> QED
        BY <3>3, <3>4
    <3> HIDE DEF d, e
    <3>6. su.off = su.len <=> d.left = k
      BY <1>0, <3>1
    <3>7. Pending(su) = IF d.type = HEADERS /\ d.left = k THEN <<HeadersItem>> ELSE <<>>
      BY <2>1, <3>1, <3>6 DEF Pending
    <3>8. items \o Pending(su) = e.items
      BY <2>4, <3>5, <3>7
    <3>9. InStep(su, e)
      <4>1. e.left = su.len - su.off
        BY <1>0, <3>1, <3>3
      <4> QED
        BY <2>1, <2>8, <3>1, <3>3, <3>6, <4>1, InStepIs
    <3>10. su.state \notin Varints
      BY <2>1 DEF Varints
    <3> QED
      BY <1>0, <1>b, <2>7, <3>8, <3>9, <3>10, ViewUnderstood DEF e
  <2>9. CASE st.ty \notin {"Push", "Request"}
    <3>1. st.ty = "Control" /\ st.frame_type # HEADERS
      BY <1>0, <2>1, <2>9, ShapeIs DEF H3Stream, Types
    <3>2. d.at = "none"
      BY <2>2, <3>1, InStepIs
    <3>3. x.off \in 0 .. y.off
      BY <1>0
    <3>4. e = d
      BY <2>6, <3>2, <3>3, HeardNothing
    <3>5. Pending(su) = <<>>
      BY <3>1 DEF Pending
    <3>6. InStep(su, e) /\ su.state \notin Varints
      BY <2>1, <3>1, <3>2, <3>4, InStepIs DEF Varints
    <3>7. items \o Pending(su) = e.items
      BY <2>2, <2>4, <3>4, <3>5
    <3> QED
      BY <1>0, <1>b, <2>7, <3>6, <3>7, ViewUnderstood
  <2> QED
    BY <2>8, <2>9
<1> QED
  BY <1>1, <1>2

\* state_transition starts an empty buffer.
LEMMA TransitionIs ==
    ASSUME NEW st \in H3Stream, NEW state \in States, NEW len \in Nat
    PROVE  LET su == state_transition(st, state, len)
           IN  /\ su \in H3Stream /\ su.ty = st.ty /\ su.state = state /\ su.len = len
               /\ su.off = 0 /\ su.frame_type = st.frame_type
  BY DEF state_transition, H3Stream

\* set_ty: the state that a type begins with.
LEMMA SetTyIs ==
    ASSUME NEW st \in H3Stream, NEW ty \in Types \ {"Request", "None"}
    PROVE  LET su == set_ty(st, ty)
           IN  /\ su \in H3Stream /\ su.ty = ty /\ su.len = 1 /\ su.off = 0
               /\ su.state = CASE ty = "Control" -> "FrameType" [] ty = "Push" -> "PushId"
                               [] ty \in {"QpackEncoder", "QpackDecoder"} -> "QpackInstruction"
                               [] OTHER -> "Drain"
<1> DEFINE next == CASE ty = "Control" -> "FrameType" [] ty = "Push" -> "PushId"
                     [] ty \in {"QpackEncoder", "QpackDecoder"} -> "QpackInstruction"
                     [] OTHER -> "Drain"
           sv == state_transition(st, next, 1)
           b == sv.remote_initialized \/ next = "QpackInstruction"
<1>1. next \in States
  BY DEF States, Varints
<1> HIDE DEF next
<1>2. sv \in H3Stream /\ sv.state = next /\ sv.len = 1 /\ sv.off = 0
  BY <1>1, TransitionIs
<1>3. b \in BOOLEAN
  BY <1>2 DEF H3Stream
<1>4. set_ty(st, ty) = [sv EXCEPT !.ty = ty, !.remote_initialized = b]
  BY Zenon DEF set_ty, next, sv, b
<1> HIDE DEF sv, b
<1> DEFINE su == [sv EXCEPT !.ty = ty, !.remote_initialized = b]
<1>5. su \in H3Stream /\ su.ty = ty /\ su.len = 1 /\ su.off = 0 /\ su.state = next
  BY <1>2, <1>3 DEF H3Stream
<1> HIDE DEF su
<1> QED
  BY <1>4, <1>5 DEF su, next

\* set_frame_type: the length comes next.
LEMMA SetFrameTypeIs ==
    ASSUME NEW st \in H3Stream, NEW v \in Nat
    PROVE  LET su == set_frame_type(st, v)
           IN  /\ su \in H3Stream /\ su.ty = st.ty /\ su.state = "FramePayloadLen" /\ su.len = 1
               /\ su.off = 0 /\ su.frame_type = v
<1> DEFINE sv == state_transition(st, "FramePayloadLen", 1)
           b == \/ sv.remote_initialized
                \/ st.ty = "Control" /\ v = SETTINGS
                \/ st.ty = "Request" /\ ~st.is_local /\ v = HEADERS
           su == [sv EXCEPT !.frame_type = v, !.remote_initialized = b]
<1>1. sv \in H3Stream /\ sv.ty = st.ty /\ sv.state = "FramePayloadLen" /\ sv.len = 1 /\ sv.off = 0
  BY TransitionIs DEF States, Varints
<1>2. b \in BOOLEAN
  BY <1>1 DEF H3Stream
<1>3. set_frame_type(st, v) = su
  BY Zenon DEF set_frame_type, sv, b
<1> HIDE DEF sv, b
<1>4. su \in H3Stream
  <2>1. v \in Int
    OBVIOUS
  <2>2. [sv EXCEPT !.frame_type = v] \in H3Stream
    BY <1>1, <2>1 DEF H3Stream
  <2> DEFINE sw == [sv EXCEPT !.frame_type = v]
  <2> HIDE DEF sw
  <2>3. [sw EXCEPT !.remote_initialized = b] \in H3Stream
    BY <1>2, <2>2 DEF H3Stream, sw
  <2> QED
    BY <2>3, Zenon DEF sw
<1>5. /\ su.ty = st.ty /\ su.state = "FramePayloadLen" /\ su.len = 1
      /\ su.off = 0 /\ su.frame_type = v
  BY <1>1 DEF H3Stream
<1> HIDE DEF su
<1> QED
  BY <1>3, <1>4, <1>5

\* One more token.
LEMMA NextToken ==
    ASSUME NEW s \in Ids, scenario \in Scenarios, NEW x, NEW y, NEW st, NEW items,
           View(s, x, st, items), Took(x, y, 1), QuicOk(y, s), st.state \in Varints
    PROVE  LET d == Heard(s)[x.off]
               v == scenario.tokens[s][y.off]
           IN  /\ v \in Nat /\ d \in Heards /\ (d.at = "payload" => d.left >= 1)
               /\ InStep(st, d) /\ d.items = items /\ Heard(s)[y.off] = Hear(d, v)
<1> DEFINE d == Heard(s)[x.off]
           v == scenario.tokens[s][y.off]
<1>0. /\ x \in QStream /\ y \in QStream /\ st \in H3Stream /\ items \in Seq(Int)
      /\ QuicOk(x, s) /\ y.off = x.off + 1 /\ x.off \in Nat /\ ~Spent(x)
  BY DEF View, Took, QStream
<1>1. y.off \in 1 .. Len(scenario.tokens[s]) /\ y.off - 1 = x.off
  <2>1. y.off \in 0 .. Len(scenario.tokens[s])
    BY <1>0, OffIs
  <2> QED
    BY <1>0, <2>1
<1>2. v \in Nat /\ Heard(s)[y.off] = Hear(d, v)
  BY <1>1, TokensAre, HeardSteps
<1>3. InStep(st, d) /\ items \o Pending(st) = d.items
  BY <1>0 DEF View, Going
<1>4. Pending(st) = <<>>
  BY PendingIs DEF Varints
<1>5. d.items = items
  BY <1>0, <1>3, <1>4, ConcatNone
<1>6. d \in Heards /\ (d.at = "payload" => d.left >= 1)
  BY <1>0, OffIs
<1> QED
  BY <1>2, <1>3, <1>5, <1>6

\* A type on the wire is one of those the parser knows.
LEMMA DeserializeIs ==
    ASSUME NEW v
    PROVE  deserialize(v) \in Types \ {"Request", "None"}
  BY DEF deserialize, Types

\* The type of a stream was read.
LEMMA ViewStreamType ==
    ASSUME NEW s \in Ids, scenario \in Scenarios, NEW x, NEW y, NEW st, NEW items,
           View(s, x, st, items), Took(x, y, 1), QuicOk(y, s), st.state = "StreamType",
           NEW sv \in H3Stream, sv.ty = st.ty,
           NEW v, v = scenario.tokens[s][y.off]
    PROVE  View(s, y, set_ty(sv, deserialize(v)), items)
<1> DEFINE d == Heard(s)[x.off]
           e == Heard(s)[y.off]
           ty == deserialize(v)
           su == set_ty(sv, ty)
<1>0. /\ y \in QStream /\ st \in H3Stream /\ items \in Seq(Int) /\ Shape(s, st) /\ 0 <= y.off
  BY DEF View, Took, QStream
<1>1. /\ v \in Nat /\ d \in Heards /\ (d.at = "payload" => d.left >= 1)
      /\ InStep(st, d) /\ d.items = items /\ e = Hear(d, v)
  BY NextToken DEF Varints
<1>2. st.ty = "None" /\ ~is_bidi(s)
  BY <1>0, ShapeIs DEF H3Stream, Types
<1>3. d.at = "stream"
  BY <1>1, <1>2, InStepIs
<1> HIDE DEF d, e, ty
<1>4. e.at = (IF ty = "Push" THEN "push" ELSE "none") /\ e.items = d.items \o Said(d, v)
  BY <1>1, <1>3, HearIs DEF ty
<1>5. Said(d, v) = <<>>
  BY <1>3 DEF Said
<1>6. e.items = items
  BY <1>0, <1>1, <1>4, <1>5, ConcatNone
<1>7. ty \in Types \ {"Request", "None"}
  BY DeserializeIs DEF ty
<1>8. /\ su \in H3Stream /\ su.ty = ty /\ su.len = 1 /\ su.off = 0
      /\ su.state = CASE ty = "Control" -> "FrameType" [] ty = "Push" -> "PushId"
                      [] ty \in {"QpackEncoder", "QpackDecoder"} -> "QpackInstruction"
                      [] OTHER -> "Drain"
  BY <1>7, SetTyIs
<1> HIDE DEF su
<1>9. /\ ty = "Control" => su.state = "FrameType"
      /\ ty = "Push" => su.state = "PushId"
      /\ ty \in {"QpackEncoder", "QpackDecoder"} => su.state = "QpackInstruction"
      /\ ty = "Unknown" => su.state = "Drain"
      /\ ty \in {"Control", "Push", "QpackEncoder", "QpackDecoder", "Unknown"}
  BY <1>7, <1>8 DEF Types
<1>10. Shape(s, su)
  BY <1>2, <1>8, <1>9, ShapeIs DEF Varints
<1>11. InStep(su, e)
  <2>1. CASE ty = "Push"
    BY <1>4, <1>8, <1>9, <2>1, InStepIs
  <2>2. CASE ty # "Push"
    BY <1>4, <1>8, <1>9, <2>2, InStepIs
  <2> QED
    BY <2>1, <2>2
<1>12. Pending(su) = <<>>
  BY <1>9, PendingIs
<1>13. items \o Pending(su) = e.items
  BY <1>0, <1>6, <1>12, ConcatNone
<1> QED
  BY <1>0, <1>8, <1>10, <1>11, <1>13, ViewUnderstood DEF e, su, ty

\* The id of a push was read.
LEMMA ViewPushId ==
    ASSUME NEW s \in Ids, scenario \in Scenarios, NEW x, NEW y, NEW st, NEW items,
           View(s, x, st, items), Took(x, y, 1), QuicOk(y, s), st.state = "PushId",
           NEW sv \in H3Stream, sv.ty = st.ty
    PROVE  View(s, y, state_transition(sv, "FrameType", 1), items)
<1> DEFINE d == Heard(s)[x.off]
           e == Heard(s)[y.off]
           v == scenario.tokens[s][y.off]
           su == state_transition(sv, "FrameType", 1)
<1>0. /\ y \in QStream /\ st \in H3Stream /\ items \in Seq(Int) /\ Shape(s, st) /\ 0 <= y.off
  BY DEF View, Took, QStream
<1>1. /\ v \in Nat /\ d \in Heards /\ (d.at = "payload" => d.left >= 1)
      /\ InStep(st, d) /\ d.items = items /\ e = Hear(d, v)
  BY NextToken DEF Varints
<1>2. st.ty = "Push" /\ ~is_bidi(s)
  BY <1>0, ShapeIs DEF H3Stream, Types
<1>3. d.at = "push"
  BY <1>1, <1>2, InStepIs
<1> HIDE DEF d, e, v
<1>4. e.at = "type" /\ e.items = d.items \o Said(d, v)
  BY <1>1, <1>3, HearIs
<1>5. Said(d, v) = <<>>
  BY <1>3 DEF Said
<1>6. e.items = items
  BY <1>0, <1>1, <1>4, <1>5, ConcatNone
<1>7. /\ su \in H3Stream /\ su.ty = "Push" /\ su.len = 1 /\ su.off = 0 /\ su.state = "FrameType"
  <2>1. "FrameType" \in States /\ 1 \in Nat
    BY DEF States, Varints
  <2> QED
    BY <1>2, <2>1, TransitionIs
<1> HIDE DEF su
<1>8. Shape(s, su)
  BY <1>2, <1>7, ShapeIs DEF Varints
<1>9. InStep(su, e)
  BY <1>4, <1>7, InStepIs
<1>10. Pending(su) = <<>>
  BY <1>7, PendingIs
<1>11. items \o Pending(su) = e.items
  BY <1>0, <1>6, <1>10, ConcatNone
<1> QED
  BY <1>0, <1>7, <1>8, <1>9, <1>11, ViewUnderstood DEF e, su

\* The type of a frame was read.
LEMMA ViewFrameType ==
    ASSUME NEW s \in Ids, scenario \in Scenarios, NEW x, NEW y, NEW st, NEW items,
           View(s, x, st, items), Took(x, y, 1), QuicOk(y, s), st.state = "FrameType",
           NEW sv \in H3Stream, sv.ty = st.ty,
           NEW v, v = scenario.tokens[s][y.off], FrameAllowed(sv, v)
    PROVE  View(s, y, set_frame_type(sv, v), items)
<1> DEFINE d == Heard(s)[x.off]
           e == Heard(s)[y.off]
           su == set_frame_type(sv, v)
<1>0. /\ y \in QStream /\ st \in H3Stream /\ items \in Seq(Int) /\ Shape(s, st) /\ 0 <= y.off
  BY DEF View, Took, QStream
<1>1. /\ v \in Nat /\ d \in Heards /\ (d.at = "payload" => d.left >= 1)
      /\ InStep(st, d) /\ d.items = items /\ e = Hear(d, v)
  BY NextToken DEF Varints
<1>2. st.ty \in {"Control", "Push", "Request"}
  BY <1>0, ShapeIs DEF H3Stream, Types
<1>3. /\ su \in H3Stream /\ su.ty = st.ty /\ su.len = 1 /\ su.off = 0
      /\ su.state = "FramePayloadLen" /\ su.frame_type = v
  BY <1>1, SetFrameTypeIs
<1> HIDE DEF su
<1>4. st.ty = "Control" => v \notin {DATA, HEADERS}
  BY DEF FrameAllowed
<1>5. Shape(s, su)
  BY <1>0, <1>2, <1>3, <1>4, ShapeIs DEF Varints
<1> HIDE DEF d, e
<1>6. Said(d, v) = <<>> /\ InStep(su, e)
  <2>1. CASE st.ty = "Control"
    <3>1. d.at = "none"
      BY <1>1, <2>1, InStepIs
    <3>2. e = d /\ Said(d, v) = <<>>
      BY <1>1, <3>1, HearIs DEF Said
    <3> QED
      BY <1>3, <2>1, <3>1, <3>2, InStepIs
  <2>2. CASE st.ty # "Control"
    <3>1. d.at = "type"
      BY <1>1, <1>2, <2>2, InStepIs
    <3>2. Said(d, v) = <<>>
      BY <3>1 DEF Said
    <3>3. e.at = "length" /\ e.type = v
      BY <1>1, <3>1, HearIs
    <3> QED
      BY <1>2, <1>3, <2>2, <3>2, <3>3, InStepIs
  <2> QED
    BY <2>1, <2>2
<1>7. e.items = d.items \o Said(d, v)
  BY <1>1, HearIs
<1>8. Pending(su) = <<>>
  BY <1>3, PendingIs
<1>9. items \o Pending(su) = e.items
  BY <1>0, <1>1, <1>6, <1>7, <1>8, ConcatNone
<1> QED
  BY <1>0, <1>3, <1>5, <1>6, <1>9, ViewUnderstood DEF e, su

\* The length of a frame was read.
LEMMA ViewFrameLen ==
    ASSUME NEW s \in Ids, scenario \in Scenarios, NEW x, NEW y, NEW st, NEW items,
           View(s, x, st, items), Took(x, y, 1), QuicOk(y, s), st.state = "FramePayloadLen",
           NEW sv \in H3Stream, sv.ty = st.ty, sv.frame_type = st.frame_type,
           NEW v, v = scenario.tokens[s][y.off]
    PROVE  View(s, y, set_frame_payload_len(sv, v), items)
<1> DEFINE d == Heard(s)[x.off]
           e == Heard(s)[y.off]
           su == set_frame_payload_len(sv, v)
<1>0. /\ y \in QStream /\ st \in H3Stream /\ items \in Seq(Int) /\ Shape(s, st) /\ 0 <= y.off
  BY DEF View, Took, QStream
<1>1. /\ v \in Nat /\ d \in Heards /\ (d.at = "payload" => d.left >= 1)
      /\ InStep(st, d) /\ d.items = items /\ e = Hear(d, v)
  BY NextToken DEF Varints
<1>2. st.ty \in {"Control", "Push", "Request"}
      /\ (st.ty = "Control" => st.frame_type \notin {DATA, HEADERS})
  BY <1>0, ShapeIs DEF H3Stream, Types
<1>3. /\ su \in H3Stream /\ su.ty = st.ty /\ su.len = v /\ su.off = 0
      /\ su.state = (IF st.frame_type = DATA THEN "Data" ELSE "FramePayload")
      /\ su.frame_type = st.frame_type
  BY <1>1, TransitionIs DEF set_frame_payload_len, States
<1> HIDE DEF su
<1>4. Shape(s, su)
  BY <1>0, <1>1, <1>2, <1>3, ShapeIs DEF Varints
<1> HIDE DEF d, e
<1>5. e.items = d.items \o Said(d, v)
  BY <1>1, HearIs
<1>6. Pending(su) = IF st.frame_type = HEADERS /\ v = 0 THEN <<HeadersItem>> ELSE <<>>
  BY <1>1, <1>3 DEF Pending, DATA, HEADERS
<1>7. Said(d, v) = Pending(su) /\ InStep(su, e)
  <2>1. CASE st.ty = "Control"
    <3>1. d.at = "none"
      BY <1>1, <2>1, InStepIs
    <3>2. e = d /\ Said(d, v) = <<>>
      BY <1>1, <3>1, HearIs DEF Said
    <3> QED
      BY <1>2, <1>3, <1>6, <2>1, <3>1, <3>2, InStepIs
  <2>2. CASE st.ty # "Control"
    <3>1. d.at = "length" /\ d.type = st.frame_type
      BY <1>1, <1>2, <2>2, InStepIs
    <3>2. Said(d, v) = IF st.frame_type = HEADERS /\ v = 0 THEN <<HeadersItem>> ELSE <<>>
      BY <3>1 DEF Said
    <3>3. e.at = (IF v = 0 THEN "type" ELSE "payload") /\ e.type = st.frame_type /\ e.left = v
      BY <1>1, <3>1, HearIs
    <3>4. su.off = su.len <=> v = 0
      BY <1>1, <1>3
    <3>5. su.len - su.off = v
      BY <1>1, <1>3
    <3> QED
      BY <1>2, <1>3, <1>6, <2>2, <3>2, <3>3, <3>4, <3>5, InStepIs
  <2> QED
    BY <2>1, <2>2
<1>8. items \o Pending(su) = e.items
  BY <1>1, <1>5, <1>7
<1>9. su.state \notin Varints
  BY <1>3 DEF Varints
<1> QED
  BY <1>0, <1>3, <1>4, <1>7, <1>8, <1>9, ViewUnderstood DEF e, su

\* A stream of which nothing is left cannot be misread.
LEMMA ViewSpent ==
    ASSUME NEW s, NEW x \in QStream, NEW st \in H3Stream, NEW items \in Seq(Int),
           QuicOk(x, s), Shape(s, st), st.state \in Varints => st.off = 0, Spent(x),
           st.off <= x.off,
           IsPrefix(items \o Pending(st), Heard(s)[x.off].items)
    PROVE  View(s, x, st, items)
  BY DEF View, Going

\* Some of a DATA frame, or all that was left of it.
LEMMA ViewData ==
    ASSUME NEW s \in Ids, scenario \in Scenarios, NEW x, NEW y, NEW st, NEW items,
           View(s, x, st, items), st.state = "Data", NEW k, Took(x, y, k), QuicOk(y, s),
           st.off + k <= st.len,
           NEW su \in H3Stream, su.ty = st.ty,
           \/ /\ su.state = "Data" /\ su.len = st.len /\ su.off = st.off + k
              /\ su.frame_type = st.frame_type
           \/ st.off + k = st.len /\ su.state = "FrameType" /\ su.len = 1 /\ su.off = 0
    PROVE  View(s, y, su, items \o SubSeq(scenario.tokens[s], x.off + 1, x.off + k))
<1> DEFINE d == Heard(s)[x.off]
           e == Heard(s)[y.off]
           body == SubSeq(scenario.tokens[s], x.off + 1, x.off + k)
<1>0. /\ x \in QStream /\ y \in QStream /\ st \in H3Stream /\ items \in Seq(Int)
      /\ QuicOk(x, s) /\ Shape(s, st) /\ k \in Nat /\ y.off = x.off + k /\ x.off \in Nat
      /\ st.off \in Nat /\ st.len \in Nat /\ st.off <= x.off
  BY DEF View, Took, QStream, H3Stream
<1>b. su.off <= y.off
  BY <1>0
<1>1. /\ x.off \in 0 .. Len(scenario.tokens[s]) /\ d \in Heards /\ d.items \in Seq(Int)
      /\ y.off \in 0 .. Len(scenario.tokens[s]) /\ x.off + k <= Len(scenario.tokens[s])
      /\ e.items \in Seq(Int)
  <2>1. x.off \in 0 .. Len(scenario.tokens[s]) /\ d \in Heards /\ d.items \in Seq(Int)
    BY <1>0, OffIs
  <2>2. y.off \in 0 .. Len(scenario.tokens[s]) /\ e.items \in Seq(Int)
    BY <1>0, OffIs
  <2> QED
    BY <1>0, <2>1, <2>2
<1>2. st.frame_type = DATA /\ st.ty \in {"Push", "Request"}
  BY <1>0, ShapeIs DEF H3Stream, Types
<1>3. Shape(s, su) /\ su.state \notin (Varints \ {"FrameType"}) /\ su.state # "FramePayload"
      /\ (su.state \in Varints => su.off = 0)
  BY <1>0, <1>2, ShapeIs DEF Varints
<1>4. Pending(st) = <<>> /\ Pending(su) = <<>>
  BY <1>3, PendingIs
<1>5. k = 0 => body = <<>>
  <2>1. ASSUME k = 0 PROVE SubSeq(scenario.tokens[s], x.off + 1, x.off + k) = <<>>
    BY <1>0, <2>1, SubSeqEmpty
  <2> QED
    BY <2>1
<1>6. body \in Seq(Int)
  <2>1. CASE k = 0
    <3>1. <<>> \in Seq(Int)
      OBVIOUS
    <3> HIDE DEF body
    <3> QED
      BY <1>5, <2>1, <3>1
  <2>2. CASE k # 0
    <3>0. /\ scenario.tokens[s] \in Seq(Nat)
          /\ \A i \in 1 .. Len(scenario.tokens[s]) : scenario.tokens[s][i] \in Nat
      BY TokensAre
    <3>1. \A i \in x.off + 1 .. x.off + k : scenario.tokens[s][i] \in Int
      <4> SUFFICES ASSUME NEW i \in x.off + 1 .. x.off + k PROVE scenario.tokens[s][i] \in Int
        OBVIOUS
      <4>1. i \in 1 .. Len(scenario.tokens[s])
        BY <1>0, <1>1
      <4>2. scenario.tokens[s][i] \in Nat
        BY <3>0, <4>1
      <4> QED
        BY <4>2
    <3>2. x.off + 1 \in Int /\ x.off + k \in Int
      BY <1>0
    <3> QED
      BY <3>0, <3>1, <3>2, SubSeqProperties
  <2> QED
    BY <2>1, <2>2
<1> HIDE DEF body
<1>7. items \o body \in Seq(Int)
  BY <1>0, <1>6, PrefixMore
<1>8. (items \o body) \o Pending(su) = items \o body /\ items \o Pending(st) = items
  BY <1>0, <1>4, <1>7, ConcatNone
<1>9. CASE Spent(x)
  <2>1. k = 0 /\ Spent(y)
    BY <1>0, <1>9, TookOk DEF Took
  <2>2. items \o body = items /\ y.off = x.off
    BY <1>0, <1>5, <2>1, ConcatNone
  <2>3. IsPrefix(items, d.items)
    BY <1>8 DEF View
  <2> QED
    BY <1>0, <1>b, <1>3, <1>7, <1>8, <2>1, <2>2, <2>3, ViewSpent DEF body
<1>10. CASE ~Spent(x)
  <2>1. InStep(st, d) /\ items = d.items
    BY <1>8, <1>10 DEF View, Going
  <2>2. IF st.off = st.len THEN d.at = "type"
        ELSE d.at = "payload" /\ d.type = st.frame_type /\ d.left = st.len - st.off
    BY <1>2, <2>1, InStepIs
  <2>3. /\ IF st.off + k = st.len THEN e.at = "type"
           ELSE e.at = "payload" /\ e.type = st.frame_type /\ e.left = st.len - (st.off + k)
        /\ e.items = items \o body
    <3>1. CASE k = 0
      <4>1. e = d /\ st.off + k = st.off /\ items \o body = items
        BY <1>0, <1>5, <3>1, ConcatNone
      <4> QED
        BY <2>1, <2>2, <4>1
    <3>2. CASE k # 0
      <4> DEFINE n == x.off
                 d1 == Heard(s)[n]
                 e1 == Heard(s)[n + k]
      <4>0. st.off # st.len /\ k >= 1 /\ k <= st.len - st.off
        BY <1>0, <3>2
      <4>1. /\ n \in 0 .. Len(scenario.tokens[s]) /\ d1.at = "payload"
            /\ k \in Nat /\ k >= 1 /\ k <= d1.left
            /\ n + k <= Len(scenario.tokens[s])
        BY <1>0, <1>1, <2>2, <4>0
      <4>2. e = e1
        BY <1>0
      <4> HIDE DEF n
      <4>3. /\ e1.at = IF d1.left = k THEN "type" ELSE "payload"
            /\ e1.type = d1.type /\ e1.left = d1.left - k
            /\ e1.items = d1.items \o
                 CASE d1.type = DATA -> SubSeq(scenario.tokens[s], n + 1, n + k)
                   [] d1.type = HEADERS /\ d1.left = k -> <<HeadersItem>>
                   [] OTHER -> <<>>
        BY <4>1, HeardPayload
      <4>4. d1 = d /\ d.type = DATA /\ d.left = st.len - st.off
        BY <1>2, <2>2, <4>0 DEF n
      <4> HIDE DEF d1, e1, d, e
      <4> DEFINE a1 == SubSeq(scenario.tokens[s], n + 1, n + k)
                 b1 == CASE d1.type = DATA -> a1
                         [] d1.type = HEADERS /\ d1.left = k -> <<HeadersItem>>
                         [] OTHER -> <<>>
      <4>b. e1.items = d1.items \o b1
        BY <4>3, Zenon
      <4>c. b1 = a1
        <5>1. d1.type = DATA /\ d1.type # HEADERS
          BY <4>4 DEF DATA, HEADERS
        <5> HIDE DEF a1
        <5> QED
          BY <5>1
      <4>5. e1.items = d1.items \o SubSeq(scenario.tokens[s], n + 1, n + k)
        BY <4>b, <4>c, Zenon
      <4>6. e1.items = items \o body
        BY <2>1, <4>4, <4>5 DEF body, n
      <4>7. d1.left = k <=> st.off + k = st.len
        BY <1>0, <4>4
      <4>8. d1.left - k = st.len - (st.off + k)
        BY <1>0, <4>4
      <4> QED
        BY <1>2, <4>2, <4>3, <4>4, <4>6, <4>7, <4>8
    <3> QED
      BY <3>1, <3>2
  <2>4. InStep(su, e)
    <3> HIDE DEF e
    <3>1. CASE su.state = "Data"
      BY <1>2, <2>3, <3>1, InStepIs
    <3>2. CASE su.state # "Data"
      BY <1>2, <2>3, <3>2, InStepIs
    <3> QED
      BY <3>1, <3>2
  <2> QED
    BY <1>0, <1>b, <1>3, <1>7, <1>8, <2>3, <2>4, ViewUnderstood DEF body
<1> QED
  BY <1>9, <1>10

\* A frame was handled.
LEMMA ViewFrameDone ==
    ASSUME NEW s \in Ids, scenario \in Scenarios, NEW x, NEW st, NEW items,
           View(s, x, st, items), st.state = "FramePayload", st.off = st.len,
           NEW su \in H3Stream, su.ty = st.ty, su.state = "FrameType", su.len = 1, su.off = 0
    PROVE  View(s, x, su, items \o Pending(st))
<1> DEFINE d == Heard(s)[x.off]
           told == items \o Pending(st)
<1>0. /\ x \in QStream /\ st \in H3Stream /\ items \in Seq(Int) /\ QuicOk(x, s) /\ Shape(s, st)
      /\ IsPrefix(told, d.items) /\ 0 <= x.off
  BY DEF View, QStream
<1>1. st.ty \in {"Control", "Push", "Request"}
  BY <1>0, ShapeIs DEF H3Stream, Types
<1>2. Shape(s, su)
  BY <1>0, <1>1, ShapeIs DEF Varints
<1>3. told \in Seq(Int)
  BY <1>0, PendingIs, PrefixMore
<1> HIDE DEF told
<1>4. Pending(su) = <<>> /\ told \o Pending(su) = told
  BY <1>3, PendingIs, ConcatNone
<1>5. CASE Spent(x)
  BY <1>0, <1>2, <1>3, <1>4, <1>5, ViewSpent DEF told
<1>6. CASE ~Spent(x)
  <2>1. InStep(st, d) /\ told = d.items
    BY <1>6 DEF View, Going, told
  <2>2. InStep(su, d)
    <3>1. CASE st.ty = "Control"
      BY <2>1, <3>1, InStepIs
    <3>2. CASE st.ty # "Control"
      BY <1>1, <2>1, <3>2, InStepIs
    <3> QED
      BY <3>1, <3>2
  <2> QED
    BY <1>0, <1>2, <1>3, <1>4, <2>1, <2>2, ViewUnderstood DEF told
<1> QED
  BY <1>5, <1>6

-----------------------------------------------------------------------------
(* A call that works on stream s.                                            *)

Live(c, items, s) ==
    /\ Good(c, items) /\ s \in DOMAIN c.h.streams
    /\ View(s, c.q[s], c.h.streams[s], items[s])

\* A good connection where s is known and can go on.
LEMMA LiveIs ==
    ASSUME NEW c, NEW items, Good(c, items), NEW s \in Ids, s \in DOMAIN c.h.streams,
           Going(c.q[s], c.h.streams[s], Heard(s)[c.q[s].off], items[s])
    PROVE  Live(c, items, s)
<1>1. Tracked(c, s, items[s]) /\ c \in Conns /\ items[s] \in Seq(Int)
  BY DEF Good
<1>2. c.q[s] \in QStream /\ c.h.streams[s] \in H3Stream
  BY <1>1, ConnIs
<1> QED
  BY <1>1, <1>2 DEF Tracked, View, Live

\* After a change of s alone, only s has to be looked at.
LEMMA LiveStep ==
    ASSUME NEW s \in Ids, NEW c, NEW items, Live(c, items, s), NEW d, Apart(c, d, s),
           NEW told \in [Ids -> Seq(Int)], \A i \in Ids \ {s} : told[i] = items[i],
           View(s, d.q[s], d.h.streams[s], told[s]),
           d.q[s].arrived = c.q[s].arrived, d.q[s].end = c.q[s].end,
           d.h.control = s => d.h.streams[s].ty = "Control"
    PROVE  Live(d, told, s)
<1>1. Good(c, items) /\ s \in DOMAIN c.h.streams /\ Tracked(c, s, items[s])
  BY DEF Live, Good
<1>2. s \in DOMAIN d.h.streams /\ d.h.next = c.h.next
  BY <1>1 DEF Apart
<1>3. Tracked(d, s, told[s])
  <2>1. ~scenario.is_server /\ is_bidi(s) /\ s >= d.h.next =>
          d.q[s].arrived = 0 /\ d.q[s].end = "none"
    BY <1>1, <1>2 DEF Tracked
  <2> QED
    BY <1>2, <2>1 DEF Tracked, View
<1> QED
  BY <1>1, <1>2, <1>3, ApartGood DEF Live

\* What is known of a stream that can go on.
LEMMA LiveFacts ==
    ASSUME NEW s \in Ids, NEW c, NEW items, Live(c, items, s)
    PROVE  /\ c \in Conns /\ items \in [Ids -> Seq(Int)] /\ items[s] \in Seq(Int)
           /\ s \in DOMAIN c.h.streams /\ c.q[s] \in QStream /\ c.h.streams[s] \in H3Stream
           /\ QuicOk(c.q[s], s) /\ Shape(s, c.h.streams[s])
           /\ c.h.streams[s].off <= c.q[s].off
           /\ c.h.streams[s].off \in Nat /\ c.h.streams[s].len \in Nat
           /\ c.h.streams[s].off <= c.h.streams[s].len
           /\ c.h.control = s => c.h.streams[s].ty = "Control"
<1>1. Good(c, items) /\ s \in DOMAIN c.h.streams /\ View(s, c.q[s], c.h.streams[s], items[s])
  BY DEF Live
<1>2. c \in Conns /\ items \in [Ids -> Seq(Int)] /\ Tracked(c, s, items[s])
  BY <1>1 DEF Good
<1>3. /\ c.q[s] \in QStream /\ c.h.streams[s] \in H3Stream
      /\ QuicOk(c.q[s], s) /\ Shape(s, c.h.streams[s])
      /\ c.h.streams[s].off <= c.q[s].off
  BY <1>1 DEF View
<1>4. /\ c.h.streams[s].off \in Nat /\ c.h.streams[s].len \in Nat
      /\ c.h.streams[s].off <= c.h.streams[s].len
  BY <1>3, ShapeIs DEF H3Stream
<1>5. c.h.control = s => c.h.streams[s].ty = "Control"
  BY <1>2 DEF Tracked
<1> QED
  BY <1>1, <1>2, <1>3, <1>4, <1>5

\* try_fill_buffer: the buffer fills up with the next tokens, or an error ends the stream.
LEMMA FillIs ==
    ASSUME NEW s \in Ids, NEW c, NEW items, Live(c, items, s)
    PROVE  LET f == try_fill_buffer(c, s)
               st == c.h.streams[s]
               su == f.c.h.streams[s]
           IN  /\ Apart(c, f.c, s) /\ f.c.h.control = c.h.control /\ f.c.h.closed = c.h.closed
               /\ f.res \in {"Ok", "Done", "Reset", "Error"}
               /\ QuicOk(f.c.q[s], s) /\ f.c.q[s] \in QStream
               /\ f.c.q[s].arrived = c.q[s].arrived /\ f.c.q[s].end = c.q[s].end
               /\ f.res \in {"Reset", "Error"} => Spent(f.c.q[s])
               /\ f.res = "Ok" => su.off = su.len
               /\ su \in H3Stream /\ su.ty = st.ty /\ su.state = st.state /\ su.len = st.len
               /\ su.frame_type = st.frame_type
               /\ \E k \in Nat : /\ Took(c.q[s], f.c.q[s], k)
                                 /\ su.off = st.off + k /\ su.off <= su.len
                                 /\ f.res # "Ok" => k = 0 \/ st.off + k < st.len
<1> DEFINE st == c.h.streams[s]
           n == st.len - st.off
           r == stream_recv(c, s, n)
           off == st.off + r.read
           res == IF r.res = "Ok" /\ off < st.len THEN "Done" ELSE r.res
           f == try_fill_buffer(c, s)
           sv == [st EXCEPT !.off = off, !.data_event = @ /\ res # "Done"]
<1>0. /\ c \in Conns /\ s \in DOMAIN c.h.streams /\ c.q[s] \in QStream /\ st \in H3Stream
      /\ QuicOk(c.q[s], s) /\ st.off \in Nat /\ st.len \in Nat /\ st.off <= st.len
  BY LiveFacts
<1>1. CASE st.off = st.len
  <2>1. f = [c |-> c, res |-> "Ok"]
    BY <1>1 DEF try_fill_buffer
  <2>2. Took(c.q[s], c.q[s], 0) /\ st.off = st.off + 0 /\ 0 \in Nat
    BY <1>0 DEF Took, QStream
  <2> HIDE DEF f
  <2> QED
    BY <1>0, <1>1, <2>1, <2>2, ApartSelf DEF f
<1>2. CASE st.off # st.len
  <2> DEFINE e == [r.c EXCEPT !.h.streams[s] = sv]
  <2>1. f = [c |-> e, res |-> res]
    BY <1>2 DEF try_fill_buffer
  <2>2. n \in Nat
    BY <1>0
  <2>3. /\ Apart(c, r.c, s) /\ r.c.h = c.h
        /\ Took(c.q[s], r.c.q[s], r.read) /\ QuicOk(r.c.q[s], s)
        /\ r.read <= n
        /\ r.res \in {"Ok", "Done", "Reset", "Error"}
        /\ r.res # "Ok" => r.read = 0
        /\ r.res \in {"Reset", "Error"} => Spent(r.c.q[s])
    BY <1>0, <2>2, RecvIs
  <2> HIDE DEF r
  <2>4. r.read \in Nat /\ off \in Nat /\ off <= st.len
    BY <1>0, <2>3 DEF Took
  <2>5. /\ sv \in H3Stream /\ sv.ty = st.ty /\ sv.state = st.state /\ sv.len = st.len
        /\ sv.frame_type = st.frame_type /\ sv.off = off
    <3> DEFINE b == st.data_event /\ res # "Done"
    <3>1. b \in BOOLEAN
      BY <1>0 DEF H3Stream
    <3>2. sv = [st EXCEPT !.off = off, !.data_event = b]
      BY Zenon DEF b
    <3> HIDE DEF b, sv, off, st
    <3> QED
      BY <1>0, <2>4, <3>1, <3>2 DEF H3Stream
  <2> HIDE DEF sv, st
  <2>6. r.c \in Conns /\ s \in DOMAIN r.c.h.streams
    BY <1>0, <2>3 DEF Apart
  <2>7. /\ Apart(r.c, e, s) /\ e.q = r.c.q /\ e.h.streams[s] = sv
        /\ e.h.control = r.c.h.control /\ e.h.closed = r.c.h.closed
    BY <2>5, <2>6, PutStream
  <2> HIDE DEF e
  <2>8. Apart(c, e, s)
    BY <2>3, <2>7, ApartTrans
  <2>9. res \in {"Ok", "Done", "Reset", "Error"} /\ (res = "Ok" => off = st.len)
        /\ (res \in {"Reset", "Error"} => r.res = res)
        /\ (res # "Ok" => r.read = 0 \/ off < st.len)
    BY <1>0, <2>3, <2>4
  <2>10. f.c = e /\ f.res = res
    BY <2>1
  <2> HIDE DEF f, res
  <2>11. /\ QuicOk(f.c.q[s], s) /\ f.c.q[s] \in QStream
         /\ f.c.q[s].arrived = c.q[s].arrived /\ f.c.q[s].end = c.q[s].end
         /\ f.res \in {"Reset", "Error"} => Spent(f.c.q[s])
         /\ Took(c.q[s], f.c.q[s], r.read)
    BY <2>3, <2>7, <2>9, <2>10 DEF Took
  <2>12. /\ Apart(c, f.c, s) /\ f.c.h.control = c.h.control /\ f.c.h.closed = c.h.closed
         /\ f.res \in {"Ok", "Done", "Reset", "Error"}
         /\ f.c.h.streams[s] = sv
    BY <2>3, <2>7, <2>8, <2>9, <2>10
  <2>13. f.res # "Ok" => r.read = 0 \/ st.off + r.read < st.len
    BY <2>9, <2>10
  <2> QED
    BY <2>4, <2>5, <2>9, <2>10, <2>11, <2>12, <2>13 DEF f, st
<1> QED
  BY <1>1, <1>2

\* What the application is told by an event.
With(items, ev) ==
    IF ev[1] = "Headers" THEN [items EXCEPT ![ev[2]] = @ \o <<HeadersItem>>] ELSE items

\* r is where a call on stream s has come to; without polling the application is
\* not told of a frame.
Settled(r, c, items, s, polling) ==
    LET told == With(items, r.ev)
    IN  /\ r = [c |-> r.c, ev |-> <<r.ev[1], r.ev[2]>>]
        /\ Good(r.c, told) /\ s \in DOMAIN r.c.h.streams
        /\ r.ev[1] = "Continue" => Live(r.c, told, s)
        /\ r.ev[1] = "Headers" => r.ev[2] = s
        /\ r.ev[1] # "Error" => r.c.h.closed = c.h.closed
        /\ c.h.closed => r.c.h.closed
        /\ ~polling => /\ r.ev[1] \in {"Done", "Reset", "Error", "Continue"}
                       /\ r.ev[1] \in {"Reset", "Error"} =>
                            \/ Spent(r.c.q[s]) /\ r.c.h.streams[s].state # "FramePayload"
                            \/ /\ r.c.h.closed
                               /\ r.c.h.streams[s].state \notin {"FramePayload", "Data"}

\* The same connection but for what is not about a stream.
Alike(c, d) ==
    /\ d \in Conns /\ d.q = c.q /\ d.h.streams = c.h.streams
    /\ d.h.control = c.h.control /\ d.h.next = c.h.next
    /\ c.h.closed => d.h.closed

\* A change that is not about a stream keeps the invariant.
LEMMA AlikeGood ==
    ASSUME NEW c, NEW d, NEW items, Good(c, items), Alike(c, d)
    PROVE  Good(d, items)
<1>1. ASSUME NEW s \in Ids PROVE Tracked(d, s, items[s])
  <2>1. Tracked(c, s, items[s])
    BY DEF Good
  <2> QED
    BY <2>1 DEF Tracked, Alike
<1> QED
  BY <1>1 DEF Good, Alike

\* And it keeps a stream going.
LEMMA AlikeLive ==
    ASSUME NEW s \in Ids, NEW c, NEW d, NEW items, Live(c, items, s), Alike(c, d)
    PROVE  Live(d, items, s)
<1>1. Good(d, items)
  BY AlikeGood DEF Live
<1> QED
  BY <1>1 DEF Live, Alike

\* The connection is closed.
LEMMA PutClosed ==
    ASSUME NEW c \in Conns
    PROVE  LET d == [c EXCEPT !.h.closed = TRUE] IN Alike(c, d) /\ d.h.closed
<1> DEFINE g == [c.h EXCEPT !.closed = TRUE]
           d == [c EXCEPT !.h.closed = TRUE]
<1>1. c.q \in [Ids -> QStream] /\ c.h \in H3Conn /\ c = [q |-> c.q, h |-> c.h]
  BY ConnIs
<1>2. /\ g \in H3Conn /\ g.streams = c.h.streams /\ g.control = c.h.control
      /\ g.next = c.h.next /\ g.closed
  BY <1>1 DEF H3Conn
<1>3. d = [q |-> c.q, h |-> g]
  <2>1. d = [c EXCEPT !.h = g]
    OBVIOUS
  <2> HIDE DEF d, g
  <2> QED
    BY <1>1, <2>1
<1> HIDE DEF g, d
<1>4. d \in Conns /\ d.q = c.q /\ d.h = g
  BY <1>1, <1>2, <1>3 DEF Conns
<1> QED
  BY <1>2, <1>4 DEF Alike, d

\* A GOAWAY was received.
LEMMA PutGoaway ==
    ASSUME NEW c \in Conns, NEW id \in Int
    PROVE  LET d == [c EXCEPT !.h.peer_goaway = id]
           IN  Alike(c, d) /\ d.h.closed = c.h.closed
<1> DEFINE g == [c.h EXCEPT !.peer_goaway = id]
           d == [c EXCEPT !.h.peer_goaway = id]
<1>1. c.q \in [Ids -> QStream] /\ c.h \in H3Conn /\ c = [q |-> c.q, h |-> c.h]
  BY ConnIs
<1>2. /\ g \in H3Conn /\ g.streams = c.h.streams /\ g.control = c.h.control
      /\ g.next = c.h.next /\ g.closed = c.h.closed
  BY <1>1 DEF H3Conn
<1>3. d = [q |-> c.q, h |-> g]
  <2>1. d = [c EXCEPT !.h = g]
    OBVIOUS
  <2> HIDE DEF d, g
  <2> QED
    BY <1>1, <2>1
<1> HIDE DEF g, d
<1>4. d \in Conns /\ d.q = c.q /\ d.h = g
  BY <1>1, <1>2, <1>3 DEF Conns
<1> QED
  BY <1>2, <1>4 DEF Alike, d

\* A MAX_PUSH_ID was received.
LEMMA PutMaxPush ==
    ASSUME NEW c \in Conns, NEW id \in Int
    PROVE  LET d == [c EXCEPT !.h.max_push = id]
           IN  Alike(c, d) /\ d.h.closed = c.h.closed
<1> DEFINE g == [c.h EXCEPT !.max_push = id]
           d == [c EXCEPT !.h.max_push = id]
<1>1. c.q \in [Ids -> QStream] /\ c.h \in H3Conn /\ c = [q |-> c.q, h |-> c.h]
  BY ConnIs
<1>2. /\ g \in H3Conn /\ g.streams = c.h.streams /\ g.control = c.h.control
      /\ g.next = c.h.next /\ g.closed = c.h.closed
  BY <1>1 DEF H3Conn
<1>3. d = [q |-> c.q, h |-> g]
  <2>1. d = [c EXCEPT !.h = g]
    OBVIOUS
  <2> HIDE DEF d, g
  <2> QED
    BY <1>1, <2>1
<1> HIDE DEF g, d
<1>4. d \in Conns /\ d.q = c.q /\ d.h = g
  BY <1>1, <1>2, <1>3 DEF Conns
<1> QED
  BY <1>2, <1>4 DEF Alike, d

\* d has the stream id as it is there, and the others of c.
Put(c, d, id) ==
    /\ d \in Conns /\ d.q = c.q
    /\ DOMAIN d.h.streams = DOMAIN c.h.streams \cup {id}
    /\ \A i \in DOMAIN c.h.streams \ {id} : d.h.streams[i] = c.h.streams[i]
    /\ d.h.control = c.h.control /\ d.h.closed = c.h.closed /\ d.h.next = c.h.next

\* A stream is added to the table, or replaced.
LEMMA PutAdded ==
    ASSUME NEW c \in Conns, NEW id \in Int, NEW st \in H3Stream
    PROVE  LET d == [c EXCEPT !.h.streams =
                       [i \in DOMAIN @ \cup {id} |-> IF i = id THEN st ELSE @[i]]]
           IN  Put(c, d, id) /\ d.h.streams[id] = st
<1> DEFINE f == [i \in DOMAIN c.h.streams \cup {id} |-> IF i = id THEN st ELSE c.h.streams[i]]
           g == [c.h EXCEPT !.streams = f]
           d == [c EXCEPT !.h.streams =
                       [i \in DOMAIN @ \cup {id} |-> IF i = id THEN st ELSE @[i]]]
<1>1. /\ c.q \in [Ids -> QStream] /\ c.h \in H3Conn /\ c = [q |-> c.q, h |-> c.h]
      /\ DOMAIN c.h.streams \subseteq Int
      /\ \A s \in DOMAIN c.h.streams : c.h.streams[s] \in H3Stream
  BY ConnIs
<1>2. /\ DOMAIN f = DOMAIN c.h.streams \cup {id} /\ f[id] = st
      /\ \A i \in DOMAIN c.h.streams \ {id} : f[i] = c.h.streams[i]
      /\ f = [i \in DOMAIN f |-> f[i]]
  OBVIOUS
<1>3. d = [c EXCEPT !.h.streams = f]
  BY Zenon
<1> HIDE DEF f
<1>4. \A i \in DOMAIN f : f[i] \in H3Stream
  BY <1>1, <1>2
<1>5. f \in Tables
  BY <1>1, <1>2, <1>4, TablesAre
<1>6. /\ g \in H3Conn /\ g.streams = f /\ g.control = c.h.control
      /\ g.next = c.h.next /\ g.closed = c.h.closed
  BY <1>1, <1>5 DEF H3Conn
<1>7. d = [q |-> c.q, h |-> g]
  BY <1>1, <1>3
<1> HIDE DEF g, d
<1>8. d \in Conns /\ d.q = c.q /\ d.h = g
  BY <1>1, <1>6, <1>7 DEF Conns
<1> QED
  BY <1>2, <1>6, <1>8 DEF Put, d

\* Only the stream that was added has to be looked at.
LEMMA PutGood ==
    ASSUME NEW c, NEW d, NEW id, NEW items, Good(c, items), Put(c, d, id),
           id \in Ids => Tracked(d, id, items[id])
    PROVE  Good(d, items)
<1>1. ASSUME NEW s \in Ids PROVE Tracked(d, s, items[s])
  <2>1. Tracked(c, s, items[s])
    BY DEF Good
  <2>2. CASE s = id
    BY <2>2
  <2>3. CASE s # id
    <3>1. /\ d.q[s] = c.q[s] /\ (s \in DOMAIN d.h.streams <=> s \in DOMAIN c.h.streams)
          /\ s \in DOMAIN c.h.streams => d.h.streams[s] = c.h.streams[s]
          /\ d.h.control = c.h.control /\ d.h.closed = c.h.closed /\ d.h.next = c.h.next
      BY <2>3 DEF Put
    <3> QED
      BY <2>1, <3>1 DEF Tracked
  <2> QED
    BY <2>2, <2>3
<1> QED
  BY <1>1 DEF Good, Put

\* A view of the stream is what the invariant asks for.
LEMMA ViewTracked ==
    ASSUME NEW c, NEW s, NEW items, s \in DOMAIN c.h.streams,
           View(s, c.q[s], c.h.streams[s], items),
           c.h.control = s => c.h.streams[s].ty = "Control",
           ~scenario.is_server /\ is_bidi(s) /\ s >= c.h.next =>
             c.q[s].arrived = 0 /\ c.q[s].end = "none"
    PROVE  Tracked(c, s, items)
  BY DEF Tracked, View

\* A stream that HTTP/3 does not know yet, or that it starts again.
LEMMA ViewNew ==
    ASSUME NEW s \in Ids, scenario \in Scenarios, NEW x \in QStream, QuicOk(x, s),
           NEW items \in Seq(Int), IsPrefix(items, Heard(s)[x.off].items),
           Spent(x) \/ x.off = 0,
           NEW st \in H3Stream, st.ty = (IF is_bidi(s) THEN "Request" ELSE "None"),
           st.state = (IF is_bidi(s) THEN "FrameType" ELSE "StreamType"),
           st.len = 1, st.off = 0
    PROVE  View(s, x, st, items)
<1> DEFINE d == Heard(s)[x.off]
<1>1. Shape(s, st) /\ st.off <= x.off
  BY ShapeIs DEF Varints, QStream
<1>2. Pending(st) = <<>> /\ items \o Pending(st) = items
  BY PendingIs, ConcatNone
<1>3. CASE Spent(x)
  BY <1>1, <1>2, <1>3, ViewSpent
<1>4. CASE x.off = 0
  <2>1. d = Start(s)
    BY <1>4, HeardSteps
  <2>2. d.items = <<>> /\ d.at = IF is_bidi(s) THEN "type" ELSE "stream"
    BY <2>1 DEF Start
  <2>3. items = <<>>
    <3>1. Len(items) <= Len(<<>>)
      <4>1. <<>> \in Seq(Int)
        OBVIOUS
      <4> QED
        BY <2>2, <4>1, PrefixIs
    <3> QED
      BY <3>1, EmptySeq
  <2>4. InStep(st, d)
    BY <2>2, InStepIs
  <2> QED
    BY <1>1, <1>2, <2>2, <2>3, <2>4, ViewUnderstood
<1> QED
  BY <1>3, <1>4

\* Stream::new.
LEMMA NewIs ==
    ASSUME NEW s \in Ids, NEW b \in BOOLEAN
    PROVE  LET st == new(s, b)
           IN  /\ st \in H3Stream /\ st.ty = (IF is_bidi(s) THEN "Request" ELSE "None")
               /\ st.state = (IF is_bidi(s) THEN "FrameType" ELSE "StreamType")
               /\ st.len = 1 /\ st.off = 0
  BY DEF new, H3Stream, Types, States, Varints, None

\* A stream gets its type; the control stream is remembered.
LEMMA PutType ==
    ASSUME NEW c \in Conns, NEW s \in Ids, s \in DOMAIN c.h.streams,
           NEW ty \in Types \ {"Request", "None"}
    PROVE  LET d == SetType(c, s, ty)
           IN  /\ Apart(c, d, s) /\ d.q = c.q /\ d.h.streams[s] = set_ty(c.h.streams[s], ty)
               /\ d.h.control = (IF ty = "Control" THEN s ELSE c.h.control)
               /\ d.h.closed = c.h.closed
<1> DEFINE su == set_ty(c.h.streams[s], ty)
           d1 == [c EXCEPT !.h.streams[s] = su]
           k1 == IF ty = "Control" THEN s ELSE c.h.control
           k2 == IF ty = "QpackEncoder" THEN s ELSE c.h.encoder
           k3 == IF ty = "QpackDecoder" THEN s ELSE c.h.decoder
           g == [d1.h EXCEPT !.control = k1, !.encoder = k2, !.decoder = k3]
           d == SetType(c, s, ty)
<1>1. c.h.streams[s] \in H3Stream /\ c = [q |-> c.q, h |-> c.h] /\ c.h \in H3Conn
  BY ConnIs
<1>2. su \in H3Stream
  BY <1>1, SetTyIs
<1> HIDE DEF su
<1>3. /\ Apart(c, d1, s) /\ d1.q = c.q /\ d1.h.streams[s] = su
      /\ d1.h.control = c.h.control /\ d1.h.closed = c.h.closed
  BY <1>2, PutStream
<1>4. d1 \in Conns /\ d1 = [q |-> d1.q, h |-> d1.h] /\ d1.h \in H3Conn /\ d1.q \in [Ids -> QStream]
  BY <1>3, ConnIs DEF Apart
<1>5. k1 \in Ids \cup {None} /\ k2 \in Ids \cup {None} /\ k3 \in Ids \cup {None}
  BY ConnIs
<1>6. d = [d1 EXCEPT !.h = g]
  <2>1. d = [c EXCEPT !.h.streams[s] = set_ty(@, ty), !.h.control = k1, !.h.encoder = k2,
                      !.h.decoder = k3]
    <3>1. [c EXCEPT !.h.streams[s] = set_ty(@, ty)].h.control = c.h.control
      BY <1>1 DEF H3Conn
    <3>2. [c EXCEPT !.h.streams[s] = set_ty(@, ty)].h.encoder = c.h.encoder
      BY <1>1 DEF H3Conn
    <3>3. [c EXCEPT !.h.streams[s] = set_ty(@, ty)].h.decoder = c.h.decoder
      BY <1>1 DEF H3Conn
    <3> QED
      BY <1>1, <3>1, <3>2, <3>3 DEF SetType, H3Conn
  <2> HIDE DEF k1, k2, k3
  <2>2. d1 = [c EXCEPT !.h.streams[s] = set_ty(@, ty)]
    BY DEF su
  <2> QED
    BY <1>1, <2>1, <2>2 DEF H3Conn
<1> HIDE DEF d, d1, k1, k2, k3
<1>7. /\ g \in H3Conn /\ g.streams = d1.h.streams /\ g.control = k1 /\ g.closed = d1.h.closed
      /\ g.next = d1.h.next
  BY <1>4, <1>5 DEF H3Conn
<1> HIDE DEF g
<1>8. d = [q |-> d1.q, h |-> g]
  BY <1>4, <1>6
<1>9. d \in Conns /\ d.q = d1.q /\ d.h = g
  BY <1>4, <1>7, <1>8 DEF Conns
<1>10. d.h.control \in {c.h.control, s}
  BY <1>7, <1>9 DEF k1
<1>11. Apart(c, d, s)
  BY <1>3, <1>7, <1>9, <1>10 DEF Apart
<1> QED
  BY <1>3, <1>7, <1>9, <1>11 DEF d, su, k1

\* No change.
LEMMA AlikeSelf ==
    ASSUME NEW c \in Conns
    PROVE  Alike(c, c)
  BY DEF Alike

\* A change of s, and one that is not about a stream.
LEMMA ApartAlike ==
    ASSUME NEW c, NEW d, NEW e, NEW s, Apart(c, d, s), Alike(d, e)
    PROVE  Apart(c, e, s)
  BY DEF Apart, Alike

\* Where the connection is, or now is, closed.
LEMMA CloseIs ==
    ASSUME NEW c \in Conns, NEW s
    PROVE  LET r == Close(c, s)
           IN  /\ r = [c |-> r.c, ev |-> <<r.ev[1], r.ev[2]>>]
               /\ Alike(c, r.c) /\ r.c.h.closed
               /\ r.ev[1] \in {"Done", "Error"} /\ r.ev[2] = s
               /\ r.ev[1] = "Done" => c.h.closed /\ r.c = c
<1>1. CASE c.h.closed
  <2>1. Close(c, s) = [c |-> c, ev |-> <<"Done", s>>]
    BY <1>1 DEF Close, Result
  <2> QED
    BY <1>1, <2>1, AlikeSelf
<1>2. CASE ~c.h.closed
  <2> DEFINE d == [c EXCEPT !.h.closed = TRUE]
  <2>1. Close(c, s) = [c |-> d, ev |-> <<"Error", s>>]
    BY <1>2 DEF Close, Result
  <2>2. Alike(c, d) /\ d.h.closed
    BY PutClosed
  <2> HIDE DEF d
  <2> QED
    BY <2>1, <2>2
<1> QED
  BY <1>1, <1>2

\* Only HEADERS tells an item.
LEMMA WithIs ==
    ASSUME NEW items, NEW ev, ev[1] # "Headers"
    PROVE  With(items, ev) = items
  BY DEF With

\* HEADERS tells one item of its stream.
LEMMA WithHeaders ==
    ASSUME NEW items \in [Ids -> Seq(Int)], NEW s \in Ids
    PROVE  LET told == With(items, <<"Headers", s>>)
           IN  /\ told \in [Ids -> Seq(Int)] /\ told[s] = items[s] \o <<HeadersItem>>
               /\ \A i \in Ids \ {s} : told[i] = items[i]
<1>1. items[s] \o <<HeadersItem>> \in Seq(Int)
  <2>1. <<HeadersItem>> \in Seq(Int)
    BY DEF HeadersItem
  <2> QED
    BY <2>1, PrefixMore
<1> QED
  BY <1>1 DEF With

\* A call that leaves the stream where it can go on.
LEMMA SettledLive ==
    ASSUME NEW s \in Ids, NEW c, NEW items, NEW r, NEW polling \in BOOLEAN,
           r = [c |-> r.c, ev |-> <<r.ev[1], r.ev[2]>>],
           Live(r.c, items, s), r.ev[1] # "Headers", c.h.closed \in BOOLEAN,
           r.c.h.closed = c.h.closed,
           ~polling => /\ r.ev[1] \in {"Done", "Reset", "Error", "Continue"}
                       /\ r.ev[1] \in {"Reset", "Error"} =>
                            Spent(r.c.q[s]) /\ r.c.h.streams[s].state # "FramePayload"
    PROVE  Settled(r, c, items, s, polling)
<1>1. With(items, r.ev) = items
  BY WithIs
<1>2. Good(r.c, items) /\ s \in DOMAIN r.c.h.streams
  BY DEF Live
<1> QED
  BY <1>1, <1>2 DEF Settled

\* A varint that is allowed there brings the parser where the reference is.
LEMMA ConsumeVarintIs ==
    ASSUME NEW s \in Ids, scenario \in Scenarios, NEW c \in Conns, s \in DOMAIN c.h.streams,
           NEW x, NEW st, NEW items, View(s, x, st, items), st.state \in Varints,
           Took(x, c.q[s], 1), QuicOk(c.q[s], s),
           NEW su, su = c.h.streams[s], su.ty = st.ty, su.state = st.state,
           su.frame_type = st.frame_type,
           c.h.control = s => st.ty = "Control",
           NEW v, v = Token(c, s), VarintAllowed(c, s, v)
    PROVE  LET e == ConsumeVarint(c, s, v)
           IN  /\ Apart(c, e, s) /\ e.q = c.q /\ e.h.closed = c.h.closed
               /\ View(s, e.q[s], e.h.streams[s], items)
               /\ e.h.control = s => e.h.streams[s].ty = "Control"
<1> DEFINE e == ConsumeVarint(c, s, v)
<1>0. /\ v = scenario.tokens[s][c.q[s].off] /\ su \in H3Stream /\ Shape(s, st) /\ st \in H3Stream
  BY ConnIs DEF Token, View
<1>1. CASE st.state = "StreamType"
  <2> DEFINE ty == deserialize(v)
  <2>1. e = SetType(c, s, ty)
    BY <1>1 DEF ConsumeVarint
  <2>2. ty \in Types \ {"Request", "None"}
    BY DeserializeIs
  <2>3. st.ty = "None"
    BY <1>0, <1>1, ShapeIs DEF H3Stream, Types
  <2>4. View(s, c.q[s], set_ty(su, ty), items)
    BY <1>0, <1>1, ViewStreamType
  <2> HIDE DEF ty, e
  <2>5. /\ Apart(c, e, s) /\ e.q = c.q /\ e.h.streams[s] = set_ty(su, ty)
        /\ e.h.control = (IF ty = "Control" THEN s ELSE c.h.control)
        /\ e.h.closed = c.h.closed
    BY <2>1, <2>2, PutType
  <2>6. set_ty(su, ty).ty = ty
    BY <1>0, <2>2, SetTyIs
  <2> QED
    BY <2>3, <2>4, <2>5, <2>6 DEF e
<1>2. CASE st.state = "PushId"
  <2> DEFINE sv == state_transition(su, "FrameType", 1)
  <2>1. e = [c EXCEPT !.h.streams[s] = sv]
    BY <1>2 DEF ConsumeVarint
  <2>2. View(s, c.q[s], sv, items)
    BY <1>0, <1>2, ViewPushId
  <2>3. sv \in H3Stream /\ sv.ty = su.ty
    <3>1. "FrameType" \in States /\ 1 \in Nat
      BY DEF States, Varints
    <3> QED
      BY <1>0, <3>1, TransitionIs
  <2> HIDE DEF sv, e
  <2>5. /\ Apart(c, e, s) /\ e.q = c.q /\ e.h.streams[s] = sv
        /\ e.h.control = c.h.control /\ e.h.closed = c.h.closed
    BY <2>1, <2>3, PutStream
  <2> QED
    BY <2>2, <2>3, <2>5 DEF e
<1>3. CASE st.state = "FrameType"
  <2> DEFINE sv == set_frame_type(su, v)
  <2>1. e = [c EXCEPT !.h.streams[s] = sv]
    BY <1>3 DEF ConsumeVarint
  <2>2. FrameAllowed(su, v)
    BY <1>3 DEF VarintAllowed
  <2>3. View(s, c.q[s], sv, items)
    BY <1>0, <1>3, <2>2, ViewFrameType
  <2>4. v \in Nat
    BY <1>0, NextToken
  <2>5. sv \in H3Stream /\ sv.ty = su.ty
    BY <1>0, <2>4, SetFrameTypeIs
  <2> HIDE DEF sv, e
  <2>6. /\ Apart(c, e, s) /\ e.q = c.q /\ e.h.streams[s] = sv
        /\ e.h.control = c.h.control /\ e.h.closed = c.h.closed
    BY <2>1, <2>5, PutStream
  <2> QED
    BY <2>3, <2>5, <2>6 DEF e
<1>4. CASE st.state = "FramePayloadLen"
  <2> DEFINE sv == set_frame_payload_len(su, v)
  <2>1. e = [c EXCEPT !.h.streams[s] = sv]
    BY <1>4 DEF ConsumeVarint
  <2>2. View(s, c.q[s], sv, items)
    BY <1>0, <1>4, ViewFrameLen
  <2>3. v \in Nat
    BY <1>0, NextToken
  <2>4. sv \in H3Stream /\ sv.ty = su.ty
    <3> DEFINE state == IF su.frame_type = DATA THEN "Data" ELSE "FramePayload"
    <3>1. state \in States
      BY DEF States
    <3>2. sv = state_transition(su, state, v)
      BY DEF set_frame_payload_len
    <3> HIDE DEF state, sv
    <3> QED
      BY <1>0, <2>3, <3>1, <3>2, TransitionIs
  <2> HIDE DEF sv, e
  <2>5. /\ Apart(c, e, s) /\ e.q = c.q /\ e.h.streams[s] = sv
        /\ e.h.control = c.h.control /\ e.h.closed = c.h.closed
    BY <2>1, <2>4, PutStream
  <2> QED
    BY <2>2, <2>4, <2>5 DEF e
<1> QED
  BY <1>1, <1>2, <1>3, <1>4 DEF Varints

\* The turn that reads a varint: whether it is complete, allowed, missing or cut off.
LEMMA VarintOk ==
    ASSUME NEW s \in Ids, scenario \in Scenarios, NEW c, NEW items, Live(c, items, s),
           c.h.streams[s].state \in Varints, NEW polling \in BOOLEAN
    PROVE  Settled(VarintTurn(try_fill_buffer(c, s), s), c, items, s, polling)
<1> DEFINE st == c.h.streams[s]
           x == c.q[s]
           f == try_fill_buffer(c, s)
           su == f.c.h.streams[s]
           y == f.c.q[s]
           r == VarintTurn(f, s)
<1> SUFFICES Settled(r, c, items, s, polling)
  OBVIOUS
<1> HIDE DEF r
<1>0. /\ c \in Conns /\ items \in [Ids -> Seq(Int)] /\ items[s] \in Seq(Int)
      /\ s \in DOMAIN c.h.streams /\ x \in QStream /\ st \in H3Stream /\ QuicOk(x, s)
      /\ Shape(s, st) /\ (c.h.control = s => st.ty = "Control")
  BY LiveFacts
<1>1. View(s, x, st, items[s]) /\ c.h.closed \in BOOLEAN
  BY <1>0, ConnIs DEF Live
<1>2. st.off = 0 /\ st.len = 1
  BY <1>0, <1>1, ShapeIs DEF View, Going
<1>3. /\ Apart(c, f.c, s) /\ f.c.h.control = c.h.control /\ f.c.h.closed = c.h.closed
      /\ f.res \in {"Ok", "Done", "Reset", "Error"}
      /\ QuicOk(y, s) /\ y \in QStream
      /\ y.arrived = x.arrived /\ y.end = x.end
      /\ f.res \in {"Reset", "Error"} => Spent(y)
      /\ f.res = "Ok" => su.off = su.len
      /\ su \in H3Stream /\ su.ty = st.ty /\ su.state = st.state /\ su.len = st.len
      /\ su.frame_type = st.frame_type
  BY FillIs
<1>4. PICK k \in Nat : /\ Took(x, y, k)
                       /\ su.off = st.off + k /\ su.off <= su.len
                       /\ f.res # "Ok" => k = 0 \/ st.off + k < st.len
  BY FillIs
<1>5. f.c \in Conns /\ s \in DOMAIN f.c.h.streams
  BY <1>0, <1>3 DEF Apart
<1>l. Live(c, items, s) /\ st.state \in Varints /\ y = f.c.q[s] /\ su = f.c.h.streams[s]
      /\ x = c.q[s] /\ st = c.h.streams[s]
  OBVIOUS
<1> HIDE DEF f, x, y, st, su
<1>6. CASE f.res # "Ok"
  <2>1. k = 0
    BY <1>2, <1>4, <1>6
  <2>2. View(s, y, su, items[s])
    BY <1>1, <1>3, <1>4, <2>1, ViewFilled
  <2>3. Live(f.c, items, s)
    BY <1>0, <1>3, <1>l, <2>2, LiveStep
  <2>4. r = [c |-> f.c, ev |-> <<f.res, s>>]
    BY <1>6 DEF r, VarintTurn, Result
  <2>5. su.state # "FramePayload"
    BY <1>3, <1>l DEF Varints
  <2>6. r.ev[1] = f.res /\ r.c = f.c
    BY <2>4
  <2> QED
    BY <1>1, <1>3, <1>6, <1>l, <2>3, <2>4, <2>5, <2>6, SettledLive
<1>7. CASE f.res = "Ok" /\ VarintAllowed(f.c, s, Token(f.c, s))
  <2> DEFINE v == Token(f.c, s)
             e == ConsumeVarint(f.c, s, v)
  <2>1. k = 1
    BY <1>2, <1>3, <1>4, <1>7
  <2>2. /\ Apart(f.c, e, s) /\ e.q = f.c.q /\ e.h.closed = f.c.h.closed
        /\ View(s, e.q[s], e.h.streams[s], items[s])
        /\ e.h.control = s => e.h.streams[s].ty = "Control"
    <3>1. /\ Took(x, f.c.q[s], 1) /\ QuicOk(f.c.q[s], s)
          /\ f.c.h.control = s => st.ty = "Control"
          /\ VarintAllowed(f.c, s, v) /\ st.state \in Varints
      BY <1>0, <1>3, <1>4, <1>7, <1>l, <2>1
    <3> HIDE DEF v
    <3> QED
      BY <1>1, <1>3, <1>5, <1>l, <3>1, ConsumeVarintIs DEF v
  <2>3. r = [c |-> e, ev |-> <<"Continue", s>>]
    BY <1>7 DEF r, VarintTurn, Result
  <2> HIDE DEF e, v
  <2>4. Apart(c, e, s)
    BY <1>3, <2>2, ApartTrans
  <2>5. Live(e, items, s)
    BY <1>0, <1>3, <1>l, <2>2, <2>4, LiveStep
  <2>6. r.ev[1] = "Continue" /\ r.c = e
    BY <2>3
  <2> QED
    BY <1>1, <1>3, <2>2, <2>3, <2>5, <2>6, SettledLive
<1>8. CASE f.res = "Ok" /\ ~VarintAllowed(f.c, s, Token(f.c, s))
  <2> DEFINE d == r.c
  <2>1. k = 1
    BY <1>2, <1>3, <1>4, <1>8
  <2>2. r = Close(f.c, s)
    BY <1>8 DEF r, VarintTurn
  <2>3. /\ r = [c |-> d, ev |-> <<r.ev[1], r.ev[2]>>]
        /\ Alike(f.c, d) /\ d.h.closed
        /\ r.ev[1] \in {"Done", "Error"} /\ r.ev[2] = s
        /\ r.ev[1] = "Done" => f.c.h.closed /\ d = f.c
    BY <1>5, <2>2, CloseIs
  <2> HIDE DEF d
  <2>4. Apart(c, d, s) /\ d.q[s] = y /\ d.h.streams[s] = su /\ d.h.control = c.h.control
        /\ s \in DOMAIN d.h.streams
    BY <1>3, <1>5, <1>l, <2>3, ApartAlike DEF Alike
  <2>5. Shape(s, su)
    <3>1. su.off <= su.len
      BY <1>4
    <3> QED
      BY <1>0, <1>3, <3>1, ShapeIs
  <2>6. IsPrefix(items[s] \o Pending(su), Heard(s)[y.off].items)
    <3>1. Pending(su) = <<>> /\ Pending(st) = <<>>
      BY <1>3, <1>l, PendingIs DEF Varints
    <3>2. IsPrefix(items[s] \o Pending(su), Heard(s)[x.off].items)
      BY <1>1, <3>1 DEF View
    <3>3. x.off <= y.off
      BY <1>0, <1>4 DEF Took, QStream
    <3>4. items[s] \o Pending(su) \in Seq(Int)
      BY <1>0, <3>1, ConcatNone
    <3> QED
      BY <1>0, <1>3, <3>2, <3>3, <3>4, PrefixLater
  <2>7. su.off <= y.off
    BY <1>0, <1>2, <1>4 DEF Took, QStream
  <2>8. su.state \notin {"FramePayload", "Data"}
    BY <1>3, <1>l DEF Varints
  <2>9. Tracked(d, s, items[s])
    <3>1. Tracked(c, s, items[s]) /\ d.h.next = c.h.next
      BY <1>l, <2>4 DEF Live, Good, Apart
    <3>2. ~scenario.is_server /\ is_bidi(s) /\ s >= d.h.next => y.arrived = 0 /\ y.end = "none"
      BY <1>3, <1>l, <3>1 DEF Tracked
    <3> QED
      BY <1>0, <1>3, <2>3, <2>4, <2>5, <2>6, <2>7, <2>8, <3>2 DEF Tracked
  <2>10. Good(d, items)
    BY <1>0, <1>l, <2>4, <2>9, ApartGood DEF Live
  <2>11. With(items, r.ev) = items
    BY <2>3, WithIs
  <2> QED
    <3>1. r.c = d /\ r.ev[1] \in {"Done", "Error"} /\ r.c.h.closed
          /\ r.c.h.streams[s].state \notin {"FramePayload", "Data"} /\ s \in DOMAIN r.c.h.streams
          /\ (r.ev[1] # "Error" => r.c.h.closed = c.h.closed)
      BY <1>3, <2>3, <2>4, <2>8 DEF d
    <3> QED
      BY <2>3, <2>10, <2>11, <3>1 DEF Settled
<1> QED
  BY <1>3, <1>6, <1>7, <1>8

\* PRIORITY_UPDATE may add the stream it names to the table, and moves no parser.
LEMMA PriorityUpdateOk ==
    ASSUME NEW s \in Ids, scenario \in Scenarios, NEW c, NEW items, Live(c, items, s),
           NEW id \in Nat, id % 4 = 0, c.h.control = s
    PROVE  LET r == PriorityUpdate(c, s, id)
           IN  /\ r = [c |-> r.c, ev |-> <<r.ev[1], r.ev[2]>>]
               /\ Live(r.c, items, s) /\ r.c.h.closed = c.h.closed
               /\ r.ev[1] \in {"Done", "PriorityUpdate"}
<1> DEFINE known == id \in DOMAIN c.h.streams
           so == IF known THEN c.h.streams[id] ELSE new(id, FALSE)
           st == [so EXCEPT !.priority_update = TRUE]
           d == [c EXCEPT !.h.streams =
                   [i \in DOMAIN @ \cup {id} |-> IF i = id THEN st ELSE @[i]]]
           what == IF known /\ c.h.streams[id].priority_update THEN "Done" ELSE "PriorityUpdate"
           r == PriorityUpdate(c, s, id)
<1>0. /\ c \in Conns /\ items \in [Ids -> Seq(Int)] /\ s \in DOMAIN c.h.streams
      /\ Shape(s, c.h.streams[s]) /\ c.h.streams[s].ty = "Control" /\ c.h.streams[s] \in H3Stream
      /\ Good(c, items) /\ View(s, c.q[s], c.h.streams[s], items[s])
  BY LiveFacts DEF Live
<1>1. id # s
  <2>1. ~is_bidi(s)
    BY <1>0, ShapeIs
  <2> QED
    BY <2>1 DEF is_bidi
<1>2. CASE id \in Ids /\ c.q[id].gone
  <2>1. r = [c |-> c, ev |-> <<"Done", s>>]
    BY <1>2 DEF PriorityUpdate, Result
  <2> HIDE DEF r
  <2> QED
    BY <2>1 DEF r
<1>3. CASE ~(id \in Ids /\ c.q[id].gone)
  <2>1. r = [c |-> d, ev |-> <<what, id>>]
    BY <1>3 DEF PriorityUpdate, Result
  <2>2. so \in H3Stream
    <3>1. CASE known
      BY <1>0, <3>1, ConnIs
    <3>2. CASE ~known
      BY <3>2 DEF new, H3Stream, Types, States, Varints, None
    <3> QED
      BY <3>1, <3>2
  <2> HIDE DEF so
  <2>3. /\ st \in H3Stream /\ st.ty = so.ty /\ st.state = so.state /\ st.len = so.len
        /\ st.off = so.off /\ st.frame_type = so.frame_type
    BY <2>2 DEF H3Stream
  <2> HIDE DEF st
  <2>4. Put(c, d, id) /\ d.h.streams[id] = st
    <3>1. id \in Int
      OBVIOUS
    <3> HIDE DEF known
    <3> QED
      BY <1>0, <2>3, <3>1, PutAdded
  <2> HIDE DEF d
  <2>5. ASSUME id \in Ids PROVE Tracked(d, id, items[id])
    <3> DEFINE x == c.q[id]
    <3>1. Tracked(c, id, items[id]) /\ items[id] \in Seq(Int) /\ x \in QStream
      BY <1>0, <2>5, ConnIs DEF Good
    <3>2. /\ id \in DOMAIN d.h.streams /\ d.q[id] = x /\ d.h.control = c.h.control
          /\ d.h.closed = c.h.closed /\ d.h.next = c.h.next
      BY <2>4 DEF Put
    <3>3. c.h.control # id
      BY <1>1
    <3>4. CASE known
      <4>1. so = c.h.streams[id]
        BY <3>4 DEF so
      <4>2. /\ Shape(id, so) => Shape(id, st)
            /\ Pending(st) = Pending(so)
            /\ InStep(so, Heard(id)[x.off]) => InStep(st, Heard(id)[x.off])
        BY <2>2, <2>3, SameFields
      <4> HIDE DEF x
      <4>3. /\ Shape(id, so) /\ so.off <= x.off
            /\ IsPrefix(items[id] \o Pending(so), Heard(id)[x.off].items)
            /\ Going(x, so, Heard(id)[x.off], items[id]) \/ (c.h.closed /\ so.state # "Data")
            /\ QuicOk(x, id)
            /\ ~scenario.is_server /\ is_bidi(id) /\ id >= c.h.next =>
                 x.arrived = 0 /\ x.end = "none"
        BY <3>1, <3>4, <4>1 DEF Tracked, x
      <4>4. Going(x, so, Heard(id)[x.off], items[id]) => Going(x, st, Heard(id)[x.off], items[id])
        BY <2>3, <4>2 DEF Going
      <4> QED
        BY <2>3, <2>4, <3>2, <3>3, <4>2, <4>3, <4>4 DEF Tracked
    <3>5. CASE ~known
      <4>1. so = new(id, FALSE)
        BY <3>5 DEF so
      <4>2. /\ so.ty = (IF is_bidi(id) THEN "Request" ELSE "None")
            /\ so.state = (IF is_bidi(id) THEN "FrameType" ELSE "StreamType")
            /\ so.len = 1 /\ so.off = 0
        BY <2>5, <4>1, NewIs
      <4> HIDE DEF x
      <4>3. /\ IsPrefix(items[id], Heard(id)[x.off].items) /\ (Spent(x) \/ x.off = 0)
            /\ QuicOk(x, id)
            /\ ~scenario.is_server /\ is_bidi(id) /\ id >= c.h.next =>
                 x.arrived = 0 /\ x.end = "none"
        BY <3>1, <3>5 DEF Tracked, x
      <4>4. View(id, x, st, items[id])
        BY <2>3, <2>5, <3>1, <4>2, <4>3, ViewNew
      <4> QED
        BY <2>4, <3>2, <3>3, <4>3, <4>4, ViewTracked
    <3> QED
      BY <3>4, <3>5
  <2>6. Good(d, items)
    BY <1>0, <2>4, <2>5, PutGood
  <2>7. Live(d, items, s)
    BY <1>0, <1>1, <2>4, <2>6 DEF Live, Put
  <2>8. what \in {"Done", "PriorityUpdate"}
    OBVIOUS
  <2> HIDE DEF r, what
  <2> QED
    BY <2>1, <2>4, <2>7, <2>8 DEF r, Put
<1> QED
  BY <1>2, <1>3

\* A header block that is refused closes the connection, and is told to nobody.
LEMMA HeadersRefused ==
    ASSUME NEW s \in Ids, scenario \in Scenarios, NEW items \in [Ids -> Seq(Int)],
           NEW c, Live(c, With(items, <<"Headers", s>>), s),
           c.h.streams[s].state = "FrameType", NEW d, Alike(c, d), d.h.closed
    PROVE  Good(d, items) /\ s \in DOMAIN d.h.streams
<1> DEFINE told == With(items, <<"Headers", s>>)
<1>1. told[s] = items[s] \o <<HeadersItem>> /\ \A i \in Ids \ {s} : told[i] = items[i]
  BY WithHeaders
<1> HIDE DEF told
<1>2. Live(d, told, s)
  BY AlikeLive DEF told
<1>3. Good(d, told) /\ s \in DOMAIN d.h.streams /\ d.h.streams = c.h.streams
  BY <1>2 DEF Live, Alike
<1>4. d \in Conns /\ Tracked(d, s, told[s])
  BY <1>3 DEF Good
<1>5. QuicOk(d.q[s], s) /\ d.q[s] \in QStream
  BY <1>3, <1>4, ConnIs DEF Tracked
<1>6. Pending(d.h.streams[s]) = <<>>
  BY <1>3, PendingIs
<1>7. IsPrefix(items[s] \o Pending(d.h.streams[s]), Heard(s)[d.q[s].off].items)
  <2> DEFINE heard == Heard(s)[d.q[s].off].items
  <2>1. heard \in Seq(Int)
    BY <1>5, OffIs
  <2>2. items[s] \in Seq(Int) /\ <<HeadersItem>> \in Seq(Int)
    BY DEF HeadersItem
  <2>3. IsPrefix(told[s] \o Pending(d.h.streams[s]), heard)
    BY <1>3, <1>4 DEF Tracked
  <2> HIDE DEF heard
  <2>4. told[s] \in Seq(Int)
    BY <1>1, <2>2, PrefixMore
  <2>5. IsPrefix(items[s] \o <<HeadersItem>>, heard)
    BY <1>1, <1>6, <2>3, <2>4, ConcatNone
  <2>6. IsPrefix(items[s], heard)
    BY <2>1, <2>2, <2>5, PrefixLess
  <2> QED
    BY <1>6, <2>2, <2>6, ConcatNone DEF heard
<1>8. Tracked(d, s, items[s])
  <2>1. d.h.streams[s].state # "Data"
    BY <1>3
  <2> QED
    BY <1>3, <1>4, <1>7, <2>1 DEF Tracked
<1>9. ASSUME NEW i \in Ids \ {s} PROVE Tracked(d, i, items[i])
  BY <1>1, <1>3 DEF Good
<1> QED
  BY <1>3, <1>4, <1>8, <1>9 DEF Good

\* What a frame does to a connection that is open: only an error may stop the parser.
Framed(r, c, items, s) ==
    /\ r = [c |-> r.c, ev |-> <<r.ev[1], r.ev[2]>>]
    /\ Good(r.c, With(items, r.ev)) /\ s \in DOMAIN r.c.h.streams
    /\ r.ev[1] # "Error" => Live(r.c, With(items, r.ev), s)
    /\ r.ev[1] = "Headers" => r.ev[2] = s
    /\ r.ev[1] # "Error" => r.c.h.closed = c.h.closed
    /\ r.ev[1] # "Continue"

\* process_frame: HEADERS is told, an error closes the connection.
LEMMA FrameOk ==
    ASSUME NEW s \in Ids, scenario \in Scenarios, NEW c, NEW told, Live(c, told, s),
           ~c.h.closed, c.h.streams[s].state = "FrameType",
           NEW items \in [Ids -> Seq(Int)], NEW ty, NEW id \in Nat \cup {None},
           IF ty = HEADERS THEN told = With(items, <<"Headers", s>>) ELSE told = items
    PROVE  Framed(process_frame(c, s, ty, id), c, items, s)
<1> DEFINE r == process_frame(c, s, ty, id)
<1> SUFFICES /\ r = [c |-> r.c, ev |-> <<r.ev[1], r.ev[2]>>]
             /\ \/ Live(r.c, With(items, r.ev), s)
                \/ /\ r.ev[1] = "Error"
                   /\ Good(r.c, With(items, r.ev)) /\ s \in DOMAIN r.c.h.streams
             /\ r.ev[1] = "Headers" => r.ev[2] = s
             /\ r.ev[1] # "Error" => r.c.h.closed = c.h.closed
             /\ r.ev[1] # "Continue"
  BY DEF Live, Framed
<1> HIDE DEF r
<1>0. c \in Conns /\ id \in Int
  BY LiveFacts DEF None
<1> DEFINE fine == FrameValid(c, s, ty, id)
           p1 == Close(c, s)
           p2 == [c |-> c, ev |-> <<"Headers", s>>]
           p3 == [c |-> [c EXCEPT !.h.peer_goaway = id], ev |-> <<"GoAway", id>>]
           p4 == [c |-> [c EXCEPT !.h.max_push = id], ev |-> <<"Done", s>>]
           p5 == PriorityUpdate(c, s, id)
           p6 == [c |-> c, ev |-> <<"Done", s>>]
<1>9. /\ ~fine => r = p1
      /\ fine /\ ty = HEADERS => r = p2
      /\ fine /\ ty = GOAWAY => r = p3
      /\ fine /\ ty = MAX_PUSH => r = p4
      /\ fine /\ ty = PRIORITY_UPDATE_REQUEST => r = p5
      /\ fine /\ ty \notin {HEADERS, GOAWAY, MAX_PUSH, PRIORITY_UPDATE_REQUEST} => r = p6
  <2>1. r = CASE ~fine -> p1 [] fine /\ ty = HEADERS -> p2 [] fine /\ ty = GOAWAY -> p3
              [] fine /\ ty = MAX_PUSH -> p4 [] fine /\ ty = PRIORITY_UPDATE_REQUEST -> p5
              [] OTHER -> p6
    BY Zenon DEF r, process_frame, Result
  <2>2. /\ HEADERS = 1 /\ GOAWAY = 7 /\ MAX_PUSH = 13 /\ PRIORITY_UPDATE_REQUEST = 700
        /\ fine \in BOOLEAN
    BY DEF HEADERS, GOAWAY, MAX_PUSH, PRIORITY_UPDATE_REQUEST, FrameValid
  <2> HIDE DEF fine, p1, p2, p3, p4, p5, p6
  <2>3. ty = HEADERS => ty \notin {GOAWAY, MAX_PUSH, PRIORITY_UPDATE_REQUEST}
    BY <2>2
  <2>4. ty = GOAWAY => ty \notin {MAX_PUSH, PRIORITY_UPDATE_REQUEST}
    BY <2>2
  <2>5. ty = MAX_PUSH => ty # PRIORITY_UPDATE_REQUEST
    BY <2>2
  <2> QED
    BY <2>1, <2>2, <2>3, <2>4, <2>5
<1>1. CASE ~FrameValid(c, s, ty, id)
  <2>1. r = Close(c, s)
    BY <1>1, <1>9
  <2>2. /\ r = [c |-> r.c, ev |-> <<r.ev[1], r.ev[2]>>]
        /\ Alike(c, r.c) /\ r.c.h.closed
        /\ r.ev[1] = "Error" /\ r.ev[2] = s
    BY <1>0, <2>1, CloseIs
  <2>3. With(items, r.ev) = items
    BY <2>2, WithIs
  <2>4. CASE ty = HEADERS
    BY <2>2, <2>3, <2>4, HeadersRefused
  <2>5. CASE ty # HEADERS
    BY <2>2, <2>3, <2>5, AlikeLive
  <2> QED
    BY <2>2, <2>4, <2>5
<1>2. CASE FrameValid(c, s, ty, id) /\ ty = HEADERS
  <2>1. r = [c |-> c, ev |-> <<"Headers", s>>]
    BY <1>2, <1>9
  <2>2. told = With(items, <<"Headers", s>>)
    BY <1>2
  <2> QED
    BY <2>1, <2>2
<1>3. CASE FrameValid(c, s, ty, id) /\ ty = GOAWAY
  <2> DEFINE d == [c EXCEPT !.h.peer_goaway = id]
  <2>1. r = [c |-> d, ev |-> <<"GoAway", id>>]
    BY <1>3, <1>9
  <2>2. told = items
    BY <1>3 DEF HEADERS, GOAWAY
  <2>3. Alike(c, d) /\ d.h.closed = c.h.closed
    BY <1>0, PutGoaway
  <2> HIDE DEF d
  <2>4. Live(d, items, s)
    BY <2>2, <2>3, AlikeLive
  <2>5. With(items, <<"GoAway", id>>) = items
    BY WithIs
  <2> QED
    BY <2>1, <2>3, <2>4, <2>5
<1>4. CASE FrameValid(c, s, ty, id) /\ ty = MAX_PUSH
  <2> DEFINE d == [c EXCEPT !.h.max_push = id]
  <2>1. r = [c |-> d, ev |-> <<"Done", s>>]
    BY <1>4, <1>9
  <2>2. told = items
    BY <1>4 DEF HEADERS, MAX_PUSH
  <2>3. Alike(c, d) /\ d.h.closed = c.h.closed
    BY <1>0, PutMaxPush
  <2> HIDE DEF d
  <2>4. Live(d, items, s)
    BY <2>2, <2>3, AlikeLive
  <2>5. With(items, <<"Done", s>>) = items
    BY WithIs
  <2> QED
    BY <2>1, <2>3, <2>4, <2>5
<1>5. CASE FrameValid(c, s, ty, id) /\ ty = PRIORITY_UPDATE_REQUEST
  <2>1. r = PriorityUpdate(c, s, id)
    BY <1>5, <1>9
  <2>2. told = items
    BY <1>5 DEF HEADERS, PRIORITY_UPDATE_REQUEST
  <2>3. c.h.control = s /\ id \in Nat /\ id % 4 = 0
    <3>1. c.h.control = s /\ id % 4 = 0
      BY <1>5 DEF FrameValid
    <3>2. id # -1
      BY <3>1
    <3> QED
      BY <3>1, <3>2 DEF None
  <2>4. /\ r = [c |-> r.c, ev |-> <<r.ev[1], r.ev[2]>>]
        /\ Live(r.c, items, s) /\ r.c.h.closed = c.h.closed
        /\ r.ev[1] \in {"Done", "PriorityUpdate"}
    BY <2>1, <2>2, <2>3, PriorityUpdateOk
  <2>5. With(items, r.ev) = items
    BY <2>4, WithIs
  <2> QED
    BY <2>4, <2>5
<1>6. CASE /\ FrameValid(c, s, ty, id)
           /\ ty \notin {HEADERS, GOAWAY, MAX_PUSH, PRIORITY_UPDATE_REQUEST}
  <2>1. r = [c |-> c, ev |-> <<"Done", s>>]
    BY <1>6, <1>9
  <2>2. told = items /\ With(items, <<"Done", s>>) = items
    BY <1>6, WithIs
  <2> QED
    BY <2>1, <2>2
<1> QED
  BY <1>1, <1>2, <1>3, <1>4, <1>5, <1>6

\* What a payload is read for is one of the tokens.
LEMMA FieldIs ==
    ASSUME NEW s \in Ids, scenario \in Scenarios, NEW c \in Conns, QuicOk(c.q[s], s),
           NEW len \in Nat, len > 0, len <= c.q[s].off
    PROVE  Field(c, s, len) \in Nat
<1>1. c.q[s].off \in Nat /\ c.q[s].off <= Len(scenario.tokens[s]) /\ Len(scenario.tokens[s]) \in Nat
  BY ConnIs, TokensAre DEF QStream, QuicOk
<1>2. c.q[s].off - len + 1 \in 1 .. Len(scenario.tokens[s])
  BY <1>1
<1> QED
  BY <1>2, TokensAre DEF Field

\* The turn that reads the payload of a frame and handles it.
LEMMA FrameTurnOk ==
    ASSUME NEW s \in Ids, scenario \in Scenarios, NEW c, NEW items, Live(c, items, s),
           c.h.streams[s].state = "FramePayload", ~c.h.closed
    PROVE  Settled(FrameTurn(try_fill_buffer(c, s), s, c.h.streams[s]), c, items, s, TRUE)
<1> DEFINE st == c.h.streams[s]
           x == c.q[s]
           f == try_fill_buffer(c, s)
           su == f.c.h.streams[s]
           y == f.c.q[s]
           r == FrameTurn(f, s, st)
<1> SUFFICES Settled(r, c, items, s, TRUE)
  OBVIOUS
<1> HIDE DEF r
<1>0. /\ c \in Conns /\ items \in [Ids -> Seq(Int)] /\ items[s] \in Seq(Int)
      /\ s \in DOMAIN c.h.streams /\ x \in QStream /\ st \in H3Stream /\ QuicOk(x, s)
      /\ Shape(s, st) /\ (c.h.control = s => st.ty = "Control") /\ c.h.closed \in BOOLEAN
      /\ st.len \in Nat /\ st.off \in Nat /\ st.off <= x.off
  BY LiveFacts, ConnIs
<1>1. View(s, x, st, items[s])
  BY DEF Live
<1>2. /\ Apart(c, f.c, s) /\ f.c.h.control = c.h.control /\ f.c.h.closed = c.h.closed
      /\ f.res \in {"Ok", "Done", "Reset", "Error"}
      /\ QuicOk(y, s) /\ y \in QStream
      /\ y.arrived = x.arrived /\ y.end = x.end
      /\ f.res = "Ok" => su.off = su.len
      /\ su \in H3Stream /\ su.ty = st.ty /\ su.state = st.state /\ su.len = st.len
      /\ su.frame_type = st.frame_type
  BY FillIs
<1>3. PICK k \in Nat : /\ Took(x, y, k)
                       /\ su.off = st.off + k /\ su.off <= su.len
  BY FillIs
<1>4. f.c \in Conns /\ s \in DOMAIN f.c.h.streams
  BY <1>0, <1>2 DEF Apart
<1>5. View(s, y, su, items[s])
  <2>1. st.off + k <= st.len
    BY <1>2, <1>3
  <2> QED
    BY <1>1, <1>2, <1>3, <2>1, ViewFilled
<1>6. Live(f.c, items, s)
  BY <1>0, <1>2, <1>5, LiveStep
<1>l. y = f.c.q[s] /\ su = f.c.h.streams[s] /\ st.state = "FramePayload"
  OBVIOUS
<1> HIDE DEF f, x, y, st, su
<1>7. CASE f.res # "Ok"
  <2>1. r = [c |-> f.c, ev |-> <<f.res, s>>]
    BY <1>7 DEF r, FrameTurn, Result
  <2>2. r.ev[1] = f.res /\ r.c = f.c
    BY <2>1
  <2> QED
    BY <1>0, <1>2, <1>6, <1>7, <2>1, <2>2, SettledLive
<1>8. CASE f.res = "Ok"
  <2> DEFINE id == IF st.len > 0 THEN Field(f.c, s, st.len) ELSE None
             c1 == ConsumeFrame(f.c, s)
             p == process_frame(c1, s, st.frame_type, id)
             sw == [state_transition(su, "FrameType", 1) EXCEPT !.data_event = FALSE]
             told == [items EXCEPT ![s] = @ \o Pending(su)]
  <2>1. r = ContinueIfMore(p, s)
    BY <1>8 DEF r, FrameTurn
  <2>2. id \in Nat \cup {None}
    <3>1. st.len > 0 => Field(f.c, s, st.len) \in Nat
      <4>1. st.len <= f.c.q[s].off
        BY <1>0, <1>2, <1>3, <1>8, <1>l DEF Took, QStream
      <4> QED
        BY <1>0, <1>2, <1>4, <1>l, <4>1, FieldIs
    <3> HIDE DEF st
    <3> QED
      BY <3>1
  <2>3. sw \in H3Stream /\ sw.ty = su.ty /\ sw.state = "FrameType" /\ sw.len = 1 /\ sw.off = 0
    <3> DEFINE sv == state_transition(su, "FrameType", 1)
    <3>1. "FrameType" \in States /\ 1 \in Nat
      BY DEF States, Varints
    <3>2. sv \in H3Stream /\ sv.ty = su.ty /\ sv.state = "FrameType" /\ sv.len = 1 /\ sv.off = 0
      BY <1>2, <3>1, TransitionIs
    <3> HIDE DEF sv
    <3>3. [sv EXCEPT !.data_event = FALSE] \in H3Stream
      BY <3>2 DEF H3Stream
    <3> QED
      BY <3>2, <3>3 DEF sv, H3Stream
  <2>4. c1 = [f.c EXCEPT !.h.streams[s] = sw]
    BY <1>l, Zenon DEF ConsumeFrame
  <2> HIDE DEF sw, c1
  <2>5. /\ Apart(f.c, c1, s) /\ c1.q = f.c.q /\ c1.h.streams[s] = sw
        /\ c1.h.control = f.c.h.control /\ c1.h.closed = f.c.h.closed
    BY <1>4, <2>3, <2>4, PutStream
  <2>6. View(s, y, sw, items[s] \o Pending(su))
    BY <1>2, <1>5, <1>8, <1>l, <2>3, ViewFrameDone
  <2>7. /\ told \in [Ids -> Seq(Int)] /\ told[s] = items[s] \o Pending(su)
        /\ \A i \in Ids \ {s} : told[i] = items[i]
    <3>1. items[s] \o Pending(su) \in Seq(Int)
      BY <1>0, PendingIs, PrefixMore
    <3> QED
      BY <1>0, <3>1
  <2>8. Live(c1, told, s)
    <3>1. Apart(c, c1, s)
      BY <1>2, <2>5, ApartTrans
    <3> HIDE DEF told
    <3>2. View(s, c1.q[s], c1.h.streams[s], told[s]) /\ c1.q[s] = y
      BY <1>l, <2>5, <2>6, <2>7
    <3>3. c1.h.control = s => c1.h.streams[s].ty = "Control"
      BY <1>0, <1>2, <2>3, <2>5
    <3>4. c1.q[s].arrived = c.q[s].arrived /\ c1.q[s].end = c.q[s].end
      BY <1>2, <3>2 DEF x
    <3> QED
      BY <2>7, <3>1, <3>2, <3>3, <3>4, LiveStep
  <2>9. IF st.frame_type = HEADERS THEN told = With(items, <<"Headers", s>>) ELSE told = items
    <3>1. Pending(su) = IF st.frame_type = HEADERS THEN <<HeadersItem>> ELSE <<>>
      BY <1>2, <1>8, <1>l DEF Pending
    <3>2. CASE st.frame_type = HEADERS
      <4>1. told = [items EXCEPT ![s] = @ \o <<HeadersItem>>]
        BY <3>1, <3>2
      <4> HIDE DEF told
      <4>2. told = With(items, <<"Headers", s>>)
        BY <4>1 DEF With
      <4> QED
        BY <3>2, <4>2
    <3>3. CASE st.frame_type # HEADERS
      <4>1. items[s] \o Pending(su) = items[s]
        BY <1>0, <3>1, <3>3, ConcatNone
      <4>2. told = items
        BY <1>0, <4>1
      <4> QED
        BY <3>3, <4>2
    <3> QED
      BY <3>2, <3>3
  <2>10. ~c1.h.closed /\ c1.h.streams[s].state = "FrameType"
    BY <1>2, <2>3, <2>5
  <2> HIDE DEF told, id
  <2>11. /\ p = [c |-> p.c, ev |-> <<p.ev[1], p.ev[2]>>]
         /\ Good(p.c, With(items, p.ev)) /\ s \in DOMAIN p.c.h.streams
         /\ p.ev[1] # "Error" => Live(p.c, With(items, p.ev), s)
         /\ p.ev[1] = "Headers" => p.ev[2] = s
         /\ p.ev[1] # "Error" => p.c.h.closed = c1.h.closed
         /\ p.ev[1] # "Continue"
    <3> DEFINE ty == st.frame_type
    <3> HIDE DEF ty
    <3>1. /\ Live(c1, told, s) /\ ~c1.h.closed /\ c1.h.streams[s].state = "FrameType"
          /\ items \in [Ids -> Seq(Int)] /\ id \in Nat \cup {None}
          /\ IF ty = HEADERS THEN told = With(items, <<"Headers", s>>) ELSE told = items
      BY <1>0, <2>2, <2>8, <2>9, <2>10 DEF ty
    <3>2. Framed(process_frame(c1, s, ty, id), c1, items, s)
      BY <3>1, FrameOk
    <3> QED
      BY <3>2 DEF Framed, ty
  <2> HIDE DEF p
  <2>12. CASE p.ev[1] = "Done" /\ ~stream_finished(p.c.q[s])
    <3>1. r = [c |-> p.c, ev |-> <<"Continue", p.ev[2]>>]
      <4>1. r = [p EXCEPT !.ev[1] = "Continue"]
        BY <2>1, <2>12 DEF ContinueIfMore
      <4> DEFINE a == p.c
                 b1 == p.ev[1]
                 b2 == p.ev[2]
      <4>2. p = [c |-> a, ev |-> <<b1, b2>>]
        BY <2>11
      <4> HIDE DEF a, b1, b2
      <4>3. r = [c |-> a, ev |-> <<"Continue", b2>>]
        BY <4>1, <4>2
      <4> QED
        BY <4>3 DEF a, b2
    <3>2. With(items, r.ev) = With(items, p.ev)
      BY <2>12, <3>1, WithIs
    <3>3. r.ev[1] = "Continue" /\ r.c = p.c /\ r.c.h.closed = c.h.closed
      BY <1>2, <2>5, <2>11, <2>12, <3>1
    <3>4. Good(r.c, With(items, r.ev)) /\ Live(r.c, With(items, r.ev), s) /\ s \in DOMAIN r.c.h.streams
      BY <2>11, <2>12, <3>2, <3>3 DEF Live
    <3> QED
      BY <3>1, <3>3, <3>4 DEF Settled
  <2>13. CASE ~(p.ev[1] = "Done" /\ ~stream_finished(p.c.q[s]))
    <3>1. r = p
      BY <2>1, <2>13 DEF ContinueIfMore
    <3>2. Good(r.c, With(items, r.ev)) /\ s \in DOMAIN r.c.h.streams
      BY <2>11, <3>1 DEF Live
    <3>3. (r.ev[1] # "Error" => r.c.h.closed = c.h.closed) /\ (c.h.closed => r.c.h.closed)
      BY <1>2, <2>5, <2>11, <3>1
    <3> QED
      BY <2>11, <3>1, <3>2, <3>3 DEF Settled
  <2> QED
    BY <2>12, <2>13
<1> QED
  BY <1>7, <1>8

\* A stream that says nothing to the application, of which more was read.
LEMMA ViewSilent ==
    ASSUME NEW s \in Ids, scenario \in Scenarios, NEW x, NEW y, NEW st, NEW items,
           View(s, x, st, items), NEW k, Took(x, y, k), QuicOk(y, s),
           st.ty \notin {"None", "Push", "Request"}, st.state \notin Varints \cup {"FramePayload"}
    PROVE  View(s, y, st, items)
<1> DEFINE d == Heard(s)[x.off]
           e == Heard(s)[y.off]
<1>0. /\ x \in QStream /\ y \in QStream /\ st \in H3Stream /\ items \in Seq(Int)
      /\ QuicOk(x, s) /\ Shape(s, st) /\ k \in Nat /\ y.off = x.off + k /\ x.off \in Nat
      /\ st.off \in Nat /\ st.off <= x.off
  BY DEF View, Took, QStream, H3Stream
<1>1. st.off <= y.off
  BY <1>0
<1>2. Pending(st) = <<>> /\ items \o Pending(st) = items
  BY <1>0, PendingIs, ConcatNone
<1>3. CASE Spent(x)
  <2>1. y.off = x.off
    BY <1>0, <1>3 DEF Took
  <2>2. Spent(y)
    BY <1>0, <1>3, TookOk
  <2> QED
    BY <1>0, <1>1, <1>2, <2>1, <2>2, ViewSpent DEF View
<1>4. CASE ~Spent(x)
  <2>1. InStep(st, d) /\ items = d.items
    BY <1>2, <1>4 DEF View, Going
  <2>2. d.at = "none"
    BY <2>1, InStepIs
  <2>3. y.off \in 0 .. Len(scenario.tokens[s]) /\ x.off \in 0 .. y.off
    BY <1>0, OffIs
  <2>4. e = d
    BY <2>2, <2>3, HeardNothing
  <2> QED
    BY <1>0, <1>1, <1>2, <2>1, <2>4, ViewUnderstood
<1> QED
  BY <1>3, <1>4

\* What reads of a silent stream leave.
LEMMA RecvSilent ==
    ASSUME NEW s \in Ids, scenario \in Scenarios, NEW c, NEW items, Live(c, items, s),
           c.h.streams[s].ty \notin {"None", "Push", "Request"},
           c.h.streams[s].state \notin Varints \cup {"FramePayload"},
           NEW n \in Nat
    PROVE  LET r == stream_recv(c, s, n)
           IN  /\ Live(r.c, items, s) /\ r.c.h = c.h
               /\ r.res \in {"Ok", "Done", "Reset", "Error"}
               /\ r.res \in {"Reset", "Error"} => Spent(r.c.q[s])
<1> DEFINE r == stream_recv(c, s, n)
<1>1. /\ c \in Conns /\ QuicOk(c.q[s], s) /\ items \in [Ids -> Seq(Int)]
      /\ c.h.control = s => c.h.streams[s].ty = "Control"
  BY LiveFacts
<1>2. /\ Apart(c, r.c, s) /\ r.c.h = c.h
      /\ Took(c.q[s], r.c.q[s], r.read) /\ QuicOk(r.c.q[s], s)
      /\ r.res \in {"Ok", "Done", "Reset", "Error"}
      /\ r.res \in {"Reset", "Error"} => Spent(r.c.q[s])
  BY <1>1, RecvIs
<1> HIDE DEF r
<1>3. View(s, r.c.q[s], r.c.h.streams[s], items[s])
  BY <1>2, ViewSilent DEF Live
<1>4. r.c.q[s].arrived = c.q[s].arrived /\ r.c.q[s].end = c.q[s].end
  BY <1>2 DEF Took
<1>5. Live(r.c, items, s)
  BY <1>1, <1>2, <1>3, <1>4, LiveStep
<1> QED
  BY <1>2, <1>5 DEF r

\* The turn that throws QPACK instructions away.
LEMMA DiscardOk ==
    ASSUME NEW s \in Ids, scenario \in Scenarios, NEW c, NEW items, Live(c, items, s),
           c.h.streams[s].state = "QpackInstruction", NEW polling \in BOOLEAN
    PROVE  Settled(Discard(c, s), c, items, s, polling)
<1> DEFINE a == stream_recv(c, s, Len(scenario.tokens[s]) + 1)
           b == stream_recv(a.c, s, 1)
           r == Discard(c, s)
           z == IF a.res = "Ok" THEN b ELSE a
<1> SUFFICES Settled(r, c, items, s, polling)
  OBVIOUS
<1>1. r = [c |-> z.c, ev |-> <<z.res, s>>]
  BY DEF Discard, Result
<1> HIDE DEF r
<1>2. c.h.streams[s].ty \notin {"None", "Push", "Request"} /\ c.h.closed \in BOOLEAN
      /\ c.h.streams[s].state \notin Varints \cup {"FramePayload"}
  BY LiveFacts, ShapeIs, ConnIs DEF Varints
<1>3. Len(scenario.tokens[s]) + 1 \in Nat
  BY TokensAre
<1>4. /\ Live(a.c, items, s) /\ a.c.h = c.h
      /\ a.res \in {"Ok", "Done", "Reset", "Error"}
      /\ a.res \in {"Reset", "Error"} => Spent(a.c.q[s])
  BY <1>2, <1>3, RecvSilent
<1> HIDE DEF a
<1>5. /\ Live(b.c, items, s) /\ b.c.h = c.h
      /\ b.res \in {"Ok", "Done", "Reset", "Error"}
      /\ b.res \in {"Reset", "Error"} => Spent(b.c.q[s])
  BY <1>2, <1>4, RecvSilent
<1> HIDE DEF b
<1>6. /\ Live(z.c, items, s) /\ z.c.h = c.h
      /\ z.res \in {"Ok", "Done", "Reset", "Error"}
      /\ z.res \in {"Reset", "Error"} => Spent(z.c.q[s])
  BY <1>4, <1>5
<1>7. z.res # "Ok"
  <2>1. b.res = "Ok" => Readable(a.c.q[s])
    BY <1>4, LiveFacts, RecvIs DEF b
  <2>2. a.res = "Ok" => ~Readable(a.c.q[s])
    <3> DEFINE n == Len(scenario.tokens[s]) + 1
    <3>1. c \in Conns /\ QuicOk(c.q[s], s) /\ c.q[s] \in QStream
      BY LiveFacts
    <3>2. n > c.q[s].arrived - c.q[s].off
      BY <3>1, TokensAre DEF QuicOk, QStream
    <3> QED
      BY <1>3, <3>1, <3>2, RecvIs DEF a
  <2> QED
    BY <2>1, <2>2
<1> QED
  BY <1>1, <1>2, <1>6, <1>7, SettledLive

\* The turn that gives an unknown stream up.
LEMMA DrainOk ==
    ASSUME NEW s \in Ids, scenario \in Scenarios, NEW c, NEW items, Live(c, items, s),
           c.h.streams[s].state = "Drain", NEW polling \in BOOLEAN
    PROVE  Settled(Result(stream_shutdown(c, s), "Done", s), c, items, s, polling)
<1> DEFINE d == stream_shutdown(c, s)
           r == Result(d, "Done", s)
           st == c.h.streams[s]
           x == c.q[s]
           y == d.q[s]
<1> SUFFICES Settled(r, c, items, s, polling)
  OBVIOUS
<1>1. /\ c \in Conns /\ items \in [Ids -> Seq(Int)] /\ items[s] \in Seq(Int)
      /\ x \in QStream /\ st \in H3Stream /\ QuicOk(x, s) /\ Shape(s, st) /\ st.off <= x.off
      /\ c.h.control = s => st.ty = "Control"
      /\ st.off \in Nat /\ c.h.closed \in BOOLEAN
  BY LiveFacts, ConnIs
<1>2. /\ Apart(c, d, s) /\ d.h = c.h
      /\ y \in QStream /\ QuicOk(y, s) /\ Spent(y)
      /\ x.off <= y.off /\ y.arrived = x.arrived /\ y.end = x.end
  BY <1>1, ShutdownIs
<1> HIDE DEF d
<1>3. r = [c |-> d, ev |-> <<"Done", s>>]
  BY DEF Result
<1>4. Live(d, items, s)
  <2>1. Pending(st) = <<>> /\ items[s] \o Pending(st) \in Seq(Int) /\ st.state \notin Varints
    BY <1>1, PendingIs, ConcatNone DEF Varints
  <2>2. IsPrefix(items[s] \o Pending(st), Heard(s)[x.off].items)
    BY DEF Live, View
  <2>3. IsPrefix(items[s] \o Pending(st), Heard(s)[y.off].items)
    BY <1>1, <1>2, <2>1, <2>2, PrefixLater
  <2>4. st.off <= y.off
    BY <1>1, <1>2 DEF QStream
  <2>5. View(s, y, st, items[s])
    BY <1>1, <1>2, <2>1, <2>3, <2>4, ViewSpent
  <2>6. View(s, d.q[s], d.h.streams[s], items[s]) /\ (d.h.control = s => d.h.streams[s].ty = "Control")
    BY <1>1, <1>2, <2>5
  <2> QED
    BY <1>1, <1>2, <2>6, LiveStep
<1> HIDE DEF r
<1>5. r.c = d /\ r.ev[1] = "Done"
  BY <1>3
<1> QED
  BY <1>1, <1>2, <1>3, <1>4, <1>5, SettledLive

\* The turn that announces DATA reads nothing.
LEMMA DataOk ==
    ASSUME NEW s \in Ids, scenario \in Scenarios, NEW c, NEW items, Live(c, items, s)
    PROVE  Settled(Result([c EXCEPT !.h.streams[s].data_event = TRUE], "Data", s), c, items, s, TRUE)
<1> DEFINE st == c.h.streams[s]
           su == [st EXCEPT !.data_event = TRUE]
           d == [c EXCEPT !.h.streams[s] = su]
           r == Result([c EXCEPT !.h.streams[s].data_event = TRUE], "Data", s)
<1> SUFFICES Settled(r, c, items, s, TRUE)
  OBVIOUS
<1>1. /\ c \in Conns /\ items \in [Ids -> Seq(Int)] /\ s \in DOMAIN c.h.streams /\ c.q[s] \in QStream
      /\ st \in H3Stream /\ c.h.closed \in BOOLEAN /\ QuicOk(c.q[s], s)
      /\ c.h.control = s => st.ty = "Control"
  BY LiveFacts, ConnIs
<1>2. r = [c |-> d, ev |-> <<"Data", s>>]
  BY Zenon DEF Result
<1> HIDE DEF r, st
<1>3. /\ su \in H3Stream /\ su.ty = st.ty /\ su.state = st.state /\ su.len = st.len
      /\ su.off = st.off /\ su.frame_type = st.frame_type
  BY <1>1 DEF H3Stream
<1> HIDE DEF su
<1>4. /\ Apart(c, d, s) /\ d.q = c.q /\ d.h.streams[s] = su
      /\ d.h.control = c.h.control /\ d.h.closed = c.h.closed
  BY <1>1, <1>3, PutStream
<1> HIDE DEF d
<1>5. View(s, c.q[s], su, items[s])
  <2>1. View(s, c.q[s], st, items[s])
    BY DEF Live, st
  <2>2. Took(c.q[s], c.q[s], 0) /\ su.off = st.off + 0
    BY <1>1, <1>3 DEF Took, QStream, H3Stream
  <2> QED
    BY <1>1, <1>3, <2>1, <2>2, ViewFilled
<1>6. Live(d, items, s)
  BY <1>1, <1>3, <1>4, <1>5, LiveStep
<1> QED
  BY <1>1, <1>2, <1>4, <1>6, SettledLive

\* Any turn.
LEMMA TurnOk ==
    ASSUME NEW s \in Ids, scenario \in Scenarios, NEW c, NEW items, Live(c, items, s),
           NEW polling \in BOOLEAN, polling => ~c.h.closed
    PROVE  Settled(Turn(c, s, polling), c, items, s, polling)
<1> DEFINE st == c.h.streams[s]
           p1 == VarintTurn(try_fill_buffer(c, s), s)
           p2 == FrameTurn(try_fill_buffer(c, s), s, st)
           p3 == Result([c EXCEPT !.h.streams[s].data_event = TRUE], "Data", s)
           p4 == Discard(c, s)
           p5 == Result(stream_shutdown(c, s), "Done", s)
           p6 == Result(c, "Done", s)
           r == Turn(c, s, polling)
<1> SUFFICES Settled(r, c, items, s, polling)
  OBVIOUS
<1>1. r = CASE st.state \in Varints -> p1
            [] st.state = "FramePayload" /\ polling -> p2
            [] st.state = "Data" /\ polling /\ ~st.data_event -> p3
            [] st.state = "QpackInstruction" -> p4
            [] st.state = "Drain" -> p5
            [] OTHER -> p6
  BY Zenon DEF Turn, Varints
<1>0. c \in Conns /\ c.h.closed \in BOOLEAN /\ st \in H3Stream
  BY LiveFacts, ConnIs
<1> HIDE DEF r
<1>2. CASE st.state \in Varints
  <2>1. r = p1
    <3> HIDE DEF p1, p2, p3, p4, p5, p6
    <3> QED
      BY <1>1, <1>2 DEF Varints
  <2> QED
    BY <1>2, <2>1, VarintOk
<1>3. CASE st.state = "FramePayload" /\ polling
  <2>1. r = p2
    <3> HIDE DEF p1, p2, p3, p4, p5, p6
    <3> QED
      BY <1>1, <1>3 DEF Varints
  <2>2. Settled(p2, c, items, s, TRUE)
    BY <1>3, FrameTurnOk
  <2>3. polling = TRUE
    BY <1>3
  <2> QED
    BY <2>1, <2>2, <2>3
<1>4. CASE st.state = "Data" /\ polling /\ ~st.data_event
  <2>1. r = p3
    <3> HIDE DEF p1, p2, p3, p4, p5, p6
    <3> QED
      BY <1>1, <1>4 DEF Varints
  <2>2. Settled(p3, c, items, s, TRUE)
    BY <1>4, DataOk
  <2>3. polling = TRUE
    BY <1>4
  <2> QED
    BY <2>1, <2>2, <2>3
<1>5. CASE st.state = "QpackInstruction"
  <2>1. r = p4
    <3> HIDE DEF p1, p2, p3, p4, p5, p6
    <3> QED
      BY <1>1, <1>5 DEF Varints
  <2> QED
    BY <1>5, <2>1, DiscardOk
<1>6. CASE st.state = "Drain"
  <2>1. r = p5
    <3> HIDE DEF p1, p2, p3, p4, p5, p6
    <3> QED
      BY <1>1, <1>6 DEF Varints
  <2> QED
    BY <1>6, <2>1, DrainOk
<1>7. CASE /\ st.state \notin Varints \cup {"QpackInstruction", "Drain"}
           /\ ~(st.state = "FramePayload" /\ polling)
           /\ ~(st.state = "Data" /\ polling /\ ~st.data_event)
  <2>1. r = p6
    <3> HIDE DEF p1, p2, p3, p4, p5, p6
    <3> QED
      BY <1>1, <1>7 DEF Varints
  <2>2. r = [c |-> c, ev |-> <<"Done", s>>]
    BY <2>1 DEF Result
  <2>3. r.c = c /\ r.ev[1] = "Done"
    BY <2>2
  <2> QED
    BY <1>0, <2>2, <2>3, SettledLive
<1> QED
  BY <1>2, <1>3, <1>4, <1>5, <1>6, <1>7

\* A turn follows only one that asked for it.
LEMMA NextTurnOk ==
    ASSUME NEW s \in Ids, scenario \in Scenarios, NEW c, NEW items, NEW polling \in BOOLEAN,
           polling => ~c.h.closed, NEW r, Settled(r, c, items, s, polling)
    PROVE  Settled(NextTurn(r, s, polling), c, items, s, polling)
<1>1. CASE r.ev[1] = "Continue"
  <2> DEFINE t == Turn(r.c, s, polling)
  <2>1. With(items, r.ev) = items
    BY <1>1, WithIs
  <2>2. Live(r.c, items, s) /\ r.c.h.closed = c.h.closed
    BY <1>1, <2>1 DEF Settled
  <2>3. Settled(t, r.c, items, s, polling)
    BY <2>2, TurnOk
  <2> HIDE DEF t
  <2>4. Settled(t, c, items, s, polling)
    BY <2>2, <2>3 DEF Settled
  <2> QED
    BY <1>1, <2>4 DEF NextTurn, t
<1>2. CASE r.ev[1] # "Continue"
  BY <1>2 DEF NextTurn
<1> QED
  BY <1>1, <1>2

\* The loop is defined: its turns one after another.
LEMMA ProcessRun ==
    ASSUME NEW s \in Ids, scenario \in Scenarios, NEW r, NEW polling
    PROVE  \E after : /\ after[0] = r /\ after[MaxTurns(s)] = Process(r, s, polling)
                      /\ \A n \in 1 .. MaxTurns(s) :
                           after[n] = NextTurn(after[n - 1], s, polling)
<1> DEFINE N == MaxTurns(s)
           IsRun(f, m) == f = [n \in 0 .. m |-> IF n = 0 THEN r ELSE NextTurn(f[n - 1], s, polling)]
           P == {m \in 0 .. N : \E f : IsRun(f, m)}
<1>0. N \in Nat
  BY TokensAre DEF MaxTurns
<1> HIDE DEF N
<1>1. 0 \in P
  <2> DEFINE g == [n \in 0 .. 0 |-> r]
  <2>1. IsRun(g, 0)
    OBVIOUS
  <2> HIDE DEF g, IsRun
  <2> QED
    BY <1>0, <2>1
<1>2. ASSUME NEW m \in 1 .. N, m - 1 \in P PROVE m \in P
  <2>1. PICK f : IsRun(f, m - 1)
    BY <1>2
  <2> DEFINE g == [n \in 0 .. m |-> IF n = m THEN NextTurn(f[m - 1], s, polling) ELSE f[n]]
  <2>2. IsRun(g, m)
    <3>1. ASSUME NEW n \in 0 .. m
          PROVE  g[n] = IF n = 0 THEN r ELSE NextTurn(g[n - 1], s, polling)
      <4>1. CASE n = m
        BY <4>1
      <4>2. CASE n # m
        BY <2>1, <4>2
      <4> QED
        BY <4>1, <4>2
    <3> QED
      BY <3>1
  <2> HIDE DEF g, IsRun
  <2> QED
    BY <2>2
<1>3. N \in P
  <2> HIDE DEF P
  <2> QED
    BY <1>0, <1>1, <1>2, Induction
<1> DEFINE after == CHOOSE f : IsRun(f, N)
<1>4. IsRun(after, N)
  BY <1>3
<1>5. Process(r, s, polling) = after[N]
  BY DEF Process, N
<1> HIDE DEF after
<1>6. after[0] = r /\ \A n \in 1 .. N : after[n] = NextTurn(after[n - 1], s, polling)
  BY <1>0, <1>4
<1> HIDE DEF IsRun
<1> QED
  BY <1>5, <1>6 DEF N

\* The loop, by induction on its turns.
LEMMA ProcessOk ==
    ASSUME NEW s \in Ids, scenario \in Scenarios, NEW c, NEW items, NEW polling \in BOOLEAN,
           polling => ~c.h.closed, NEW r, Settled(r, c, items, s, polling)
    PROVE  Settled(Process(r, s, polling), c, items, s, polling)
<1> DEFINE N == MaxTurns(s)
<1>1. N \in Nat
  BY TokensAre DEF MaxTurns
<1>2. PICK after : /\ after[0] = r /\ after[N] = Process(r, s, polling)
                   /\ \A n \in 1 .. N : after[n] = NextTurn(after[n - 1], s, polling)
  BY ProcessRun
<1> HIDE DEF N
<1> DEFINE Q == {n \in 0 .. N : Settled(after[n], c, items, s, polling)}
<1>3. 0 \in Q
  BY <1>1, <1>2
<1>4. ASSUME NEW n \in 1 .. N, n - 1 \in Q PROVE n \in Q
  <2>1. Settled(after[n - 1], c, items, s, polling)
    BY <1>4
  <2>2. Settled(after[n], c, items, s, polling)
    BY <1>2, <2>1, NextTurnOk
  <2> QED
    BY <2>2
<1>5. N \in Q
  <2> HIDE DEF Q
  <2> QED
    BY <1>1, <1>3, <1>4, Induction
<1> QED
  BY <1>2, <1>5

\* A stream that becomes readable is entered in the table.
Entered(c, s) ==
    [c EXCEPT !.h.streams =
       [i \in DOMAIN @ \cup {s} |-> IF i \in DOMAIN @ THEN @[i] ELSE new(i, FALSE)]]

\* Stream s becomes st.
Added(c, s, st) ==
    [c EXCEPT !.h.streams = [i \in DOMAIN @ \cup {s} |-> IF i = s THEN st ELSE @[i]]]

\* A stream that is there already.
LEMMA EnteredSame ==
    ASSUME NEW c \in Conns, NEW s \in DOMAIN c.h.streams
    PROVE  Entered(c, s) = c
<1> DEFINE f == [i \in DOMAIN c.h.streams \cup {s} |->
                   IF i \in DOMAIN c.h.streams THEN c.h.streams[i] ELSE new(i, FALSE)]
           d == [c EXCEPT !.h.streams =
                   [i \in DOMAIN @ \cup {s} |-> IF i \in DOMAIN @ THEN @[i] ELSE new(i, FALSE)]]
<1>1. f = c.h.streams
  <2>1. DOMAIN f = DOMAIN c.h.streams /\ f = [i \in DOMAIN f |-> c.h.streams[i]]
    OBVIOUS
  <2>2. c.h.streams = [i \in DOMAIN c.h.streams |-> c.h.streams[i]]
    BY ConnIs, TablesAre
  <2> HIDE DEF f
  <2> QED
    BY <2>1, <2>2
<1>2. d = [c EXCEPT !.h.streams = f]
  BY Zenon
<1> HIDE DEF f, d
<1>3. c = [q |-> c.q, h |-> c.h] /\ c.h \in H3Conn
  BY ConnIs
<1>4. [c.h EXCEPT !.streams = c.h.streams] = c.h
  BY <1>3 DEF H3Conn
<1>5. d = [c EXCEPT !.h = [c.h EXCEPT !.streams = c.h.streams]]
  BY <1>1, <1>2
<1>6. d = c
  BY <1>3, <1>4, <1>5
<1>7. Entered(c, s) = d
  BY Zenon DEF Entered, d
<1> QED
  BY <1>6, <1>7

\* A stream that is new.
LEMMA EnteredNew ==
    ASSUME NEW c, NEW s, s \notin DOMAIN c.h.streams
    PROVE  Entered(c, s) = Added(c, s, new(s, FALSE))
<1>1. [i \in DOMAIN c.h.streams \cup {s} |->
                 IF i \in DOMAIN c.h.streams THEN c.h.streams[i] ELSE new(i, FALSE)]
      = [i \in DOMAIN c.h.streams \cup {s} |-> IF i = s THEN new(s, FALSE) ELSE c.h.streams[i]]
  OBVIOUS
<1> QED
  BY <1>1, Zenon DEF Entered, Added

\* The parser of a stream that is entered can go on.
LEMMA EnteredLive ==
    ASSUME NEW s \in Ids, scenario \in Scenarios, NEW c, NEW items, Good(c, items),
           s \in DOMAIN c.h.streams => Live(c, items, s)
    PROVE  Live(Entered(c, s), items, s) /\ Entered(c, s).h.closed = c.h.closed
<1>0. /\ c \in Conns /\ items \in [Ids -> Seq(Int)] /\ Tracked(c, s, items[s])
      /\ c.h.closed \in BOOLEAN /\ items[s] \in Seq(Int) /\ c.q[s] \in QStream
  BY ConnIs DEF Good
<1>1. CASE s \in DOMAIN c.h.streams
  BY <1>0, <1>1, EnteredSame
<1>2. CASE s \notin DOMAIN c.h.streams
  <2> DEFINE st == new(s, FALSE)
             e == Added(c, s, st)
  <2>1. Entered(c, s) = e
    BY <1>2, EnteredNew
  <2>2. /\ st \in H3Stream /\ st.ty = (IF is_bidi(s) THEN "Request" ELSE "None")
        /\ st.state = (IF is_bidi(s) THEN "FrameType" ELSE "StreamType")
        /\ st.len = 1 /\ st.off = 0
    BY NewIs
  <2> HIDE DEF st
  <2>3. Put(c, e, s) /\ e.h.streams[s] = st
    <3>1. s \in Int /\ c \in Conns /\ st \in H3Stream
      BY <1>0, <2>2, BoundsAssumption
    <3>2. LET g == [c EXCEPT !.h.streams =
                     [i \in DOMAIN @ \cup {s} |-> IF i = s THEN st ELSE @[i]]]
          IN  Put(c, g, s) /\ g.h.streams[s] = st
      BY ONLY <3>1, PutAdded
    <3> QED
      BY ONLY <3>2 DEF e, Added
  <2> HIDE DEF e
  <2>4. View(s, c.q[s], st, items[s])
    BY <1>0, <1>2, <2>2, ViewNew DEF Tracked
  <2>5. Tracked(e, s, items[s])
    <3>1. /\ s \in DOMAIN e.h.streams /\ e.q[s] = c.q[s] /\ e.h.control # s /\ e.h.next = c.h.next
      BY <1>0, <1>2, <2>3 DEF Put, Tracked
    <3>2. ~scenario.is_server /\ is_bidi(s) /\ s >= c.h.next =>
            c.q[s].arrived = 0 /\ c.q[s].end = "none"
      BY <1>0 DEF Tracked
    <3> QED
      BY <2>3, <2>4, <3>1, <3>2, ViewTracked
  <2>6. Good(e, items)
    BY <2>3, <2>5, PutGood
  <2> QED
    BY <2>1, <2>3, <2>4, <2>6 DEF Live, Put
<1> QED
  BY <1>1, <1>2

\* process_readable_stream, on a stream that is new or can go on.
LEMMA ReadableOk ==
    ASSUME NEW s \in Ids, scenario \in Scenarios, NEW c, NEW items, Good(c, items),
           s \in DOMAIN c.h.streams => Live(c, items, s), NEW polling \in BOOLEAN,
           polling => ~c.h.closed
    PROVE  Settled(process_readable_stream(c, s, polling), c, items, s, polling)
<1> DEFINE d == Entered(c, s)
           r == Result(d, "Continue", s)
<1>1. Live(d, items, s) /\ d.h.closed = c.h.closed /\ c.h.closed \in BOOLEAN
  BY EnteredLive, ConnIs DEF Good
<1> HIDE DEF d
<1>2. r = [c |-> d, ev |-> <<"Continue", s>>]
  BY DEF Result
<1> HIDE DEF r
<1>3. r.c = d /\ r.ev[1] = "Continue"
  BY <1>2
<1>4. Settled(r, c, items, s, polling)
  BY <1>1, <1>2, <1>3, SettledLive
<1>5. Settled(Process(r, s, polling), c, items, s, polling)
  BY <1>4, ProcessOk
<1> QED
  BY <1>5 DEF process_readable_stream, Entered, d, r

-----------------------------------------------------------------------------
(* poll()                                                                    *)

\* The queue of finished streams changes.
LEMMA PutFinished ==
    ASSUME NEW c \in Conns, NEW fs \in Seq(Ids)
    PROVE  LET d == [c EXCEPT !.h.finished = fs]
           IN  Alike(c, d) /\ d.h.closed = c.h.closed
<1> DEFINE g == [c.h EXCEPT !.finished = fs]
           d == [c EXCEPT !.h.finished = fs]
<1>1. c.q \in [Ids -> QStream] /\ c.h \in H3Conn /\ c = [q |-> c.q, h |-> c.h]
  BY ConnIs
<1>2. /\ g \in H3Conn /\ g.streams = c.h.streams /\ g.control = c.h.control
      /\ g.next = c.h.next /\ g.closed = c.h.closed
  BY <1>1 DEF H3Conn
<1>3. d = [q |-> c.q, h |-> g]
  <2>1. d = [c EXCEPT !.h = g]
    OBVIOUS
  <2> HIDE DEF d, g
  <2> QED
    BY <1>1, <2>1
<1> HIDE DEF g, d
<1>4. d \in Conns /\ d.q = c.q /\ d.h = g
  BY <1>1, <1>2, <1>3 DEF Conns
<1> QED
  BY <1>2, <1>4 DEF Alike, d

\* A stream whose end was reached is finished; nothing of it can be misread any more.
LEMMA FinishedOk ==
    ASSUME NEW s \in Ids, scenario \in Scenarios, NEW c, NEW items, Good(c, items)
    PROVE  LET d == IfFinished(c, s)
           IN  Good(d, items) /\ d.h.closed = c.h.closed
<1> DEFINE st == c.h.streams[s]
           su == state_transition(st, "Finished", 0)
           x == c.q[s]
           d1 == [c EXCEPT !.h.streams[s] = su]
           fs == Append(c.h.finished, s)
           d == [c EXCEPT !.h.streams[s] = state_transition(@, "Finished", 0),
                          !.h.finished = Append(@, s)]
<1>1. CASE /\ stream_finished(x) /\ s \in DOMAIN c.h.streams
           /\ st.state # "Finished" /\ st.ty \in {"Request", "Push"}
  <2>1. IfFinished(c, s) = d
    BY <1>1, Zenon DEF IfFinished, process_finished_stream
  <2>2. /\ c \in Conns /\ st \in H3Stream /\ x \in QStream /\ QuicOk(x, s) /\ Shape(s, st)
        /\ items[s] \in Seq(Int) /\ IsPrefix(items[s] \o Pending(st), Heard(s)[x.off].items)
        /\ items \in [Ids -> Seq(Int)] /\ Tracked(c, s, items[s])
        /\ c.h.finished \in Seq(Ids)
    <3>1. Tracked(c, s, items[s]) /\ c \in Conns /\ items \in [Ids -> Seq(Int)]
      BY DEF Good
    <3> QED
      BY <1>1, <3>1, ConnIs DEF Tracked
  <2>3. Spent(x)
    BY <1>1, <2>2, FinishedSpent
  <2>4. /\ su \in H3Stream /\ su.ty = st.ty /\ su.state = "Finished" /\ su.len = 0 /\ su.off = 0
        /\ su.frame_type = st.frame_type
    BY <2>2 DEF state_transition, H3Stream, States
  <2>5. d = [d1 EXCEPT !.h.finished = fs]
    <3>1. c.h \in H3Conn /\ c = [q |-> c.q, h |-> c.h]
      BY <2>2, ConnIs
    <3> DEFINE h1 == [c.h EXCEPT !.streams[s] = su]
    <3>2. d = [c EXCEPT !.h = [c.h EXCEPT !.streams[s] = su, !.finished = fs]]
      BY Zenon
    <3>3. d1 = [c EXCEPT !.h = h1]
      BY Zenon
    <3>4. d1 = [q |-> c.q, h |-> h1]
      <4> HIDE DEF h1, d1
      <4> QED
        BY <3>1, <3>3
    <3>5. [d1 EXCEPT !.h.finished = fs] = [d1 EXCEPT !.h = [h1 EXCEPT !.finished = fs]]
      <4> HIDE DEF h1, d1, fs
      <4>1. d1.h = h1
        BY <3>4
      <4>2. [d1 EXCEPT !.h.finished = fs] = [d1 EXCEPT !.h = [d1.h EXCEPT !.finished = fs]]
        BY Zenon
      <4> QED
        BY <4>1, <4>2
    <3>6. [c.h EXCEPT !.streams[s] = su, !.finished = fs] = [h1 EXCEPT !.finished = fs]
      BY Zenon
    <3> DEFINE h2 == [h1 EXCEPT !.finished = fs]
    <3>7. d = [c EXCEPT !.h = h2] /\ [d1 EXCEPT !.h.finished = fs] = [d1 EXCEPT !.h = h2]
      BY <3>2, <3>5, <3>6, Zenon
    <3> HIDE DEF h2, h1, d, d1
    <3>8. d = [q |-> c.q, h |-> h2]
      BY <3>1, <3>7
    <3>9. [d1 EXCEPT !.h = h2] = [q |-> c.q, h |-> h2]
      BY <3>4
    <3> QED
      BY <3>7, <3>8, <3>9
  <2> HIDE DEF su
  <2>6. /\ Apart(c, d1, s) /\ d1.q = c.q /\ d1.h.streams[s] = su
        /\ d1.h.control = c.h.control /\ d1.h.closed = c.h.closed
    BY <1>1, <2>2, <2>4, PutStream
  <2> HIDE DEF d, d1
  <2>7. View(s, x, su, items[s])
    <3>0. su.off <= x.off
      BY <2>2, <2>4 DEF QStream
    <3>4. is_bidi(s) <=> su.ty = "Request"
      BY <2>2, <2>4, ShapeIs
    <3>1. Shape(s, su) /\ su.off <= x.off
      <4> HIDE DEF d, d1, st, x
      <4>1. su \in H3Stream /\ su.state = "Finished" /\ su.ty \in {"Request", "Push"} /\ su.off <= su.len
        BY <1>1, <2>4
      <4> QED
        BY <3>0, <3>4, <4>1, ShapeIs DEF Varints
    <3>2. Pending(su) = <<>> /\ items[s] \o Pending(su) = items[s] /\ Pending(st) \in Seq(Int)
      BY <2>2, <2>4, PendingIs, ConcatNone
    <3>3. IsPrefix(items[s], Heard(s)[x.off].items)
      BY <2>2, <3>2, OffIs, PrefixLess
    <3> QED
      BY <2>2, <2>3, <2>4, <3>1, <3>2, <3>3, ViewSpent DEF Varints
  <2>8. Tracked(d1, s, items[s])
    <3>1. s \in DOMAIN d1.h.streams /\ d1.q[s] = x /\ d1.h.next = c.h.next
      BY <1>1, <2>6 DEF Apart
    <3>2. d1.h.control = s => d1.h.streams[s].ty = "Control"
      BY <2>2, <2>4, <2>6 DEF Tracked
    <3>3. ~scenario.is_server /\ is_bidi(s) /\ s >= d1.h.next =>
             d1.q[s].arrived = 0 /\ d1.q[s].end = "none"
      BY <2>2, <3>1 DEF Tracked
    <3> QED
      BY <2>6, <2>7, <3>1, <3>2, <3>3, ViewTracked
  <2>9. Good(d1, items)
    BY <2>2, <2>6, <2>8, ApartGood
  <2>10. Alike(d1, d) /\ d.h.closed = d1.h.closed
    <3>1. fs \in Seq(Ids) /\ d1 \in Conns
      BY <2>2, <2>6 DEF Apart
    <3> HIDE DEF fs
    <3> QED
      BY <2>5, <3>1, PutFinished
  <2>11. Good(d, items)
    BY <2>9, <2>10, AlikeGood
  <2> QED
    BY <2>1, <2>6, <2>10, <2>11
<1>2. CASE ~ /\ stream_finished(x) /\ s \in DOMAIN c.h.streams
             /\ st.state # "Finished" /\ st.ty \in {"Request", "Push"}
  <2>1. IfFinished(c, s) = c
    BY <1>2, Zenon DEF IfFinished, process_finished_stream
  <2> QED
    BY <2>1
<1> QED
  BY <1>1, <1>2

\* r is where poll() has come to: what the application is told by its event is right, and
\* it goes on only with a connection that is not closed.
Polled(r, items) ==
    /\ r = [c |-> r.c, ev |-> r.ev]
    /\ Good(r.c, With(items, r.ev))
    /\ r.ev[1] = "Done" => ~r.c.h.closed
    /\ r.ev[1] = "Headers" => r.ev[2] \in Ids

\* An event other than HEADERS tells no item.
LEMMA PolledSilent ==
    ASSUME NEW c, NEW items, Good(c, items), NEW s, NEW what, what # "Headers",
           what = "Done" => ~c.h.closed
    PROVE  Polled(Result(c, what, s), items)
<1> DEFINE r == Result(c, what, s)
<1>1. r = [c |-> c, ev |-> <<what, s>>]
  BY DEF Result
<1> HIDE DEF r
<1>2. r.c = c /\ r.ev = <<what, s>> /\ r.ev[1] = what
  BY <1>1
<1>3. With(items, r.ev) = items
  BY <1>2, WithIs
<1> QED
  BY <1>1, <1>2, <1>3 DEF Polled, r

\* While the connection is not closed every stream it knows can go on.
LEMMA LiveThere ==
    ASSUME NEW s \in Ids, NEW c, NEW items, Good(c, items), ~c.h.closed, s \in DOMAIN c.h.streams
    PROVE  Live(c, items, s)
<1>1. Tracked(c, s, items[s])
  BY DEF Good
<1>2. Going(c.q[s], c.h.streams[s], Heard(s)[c.q[s].off], items[s])
  BY <1>1 DEF Tracked
<1> QED
  BY <1>2, LiveIs

\* process_readable_stream while the connection is not closed.
LEMMA ReadableThere ==
    ASSUME NEW s \in Ids, scenario \in Scenarios, NEW c, NEW items, Good(c, items), ~c.h.closed
    PROVE  Settled(process_readable_stream(c, s, TRUE), c, items, s, TRUE)
  BY LiveThere, ReadableOk

\* What the loop leaves is right for poll() too.
LEMMA SettledPolled ==
    ASSUME NEW s \in Ids, NEW c, NEW items, NEW r, ~c.h.closed, Settled(r, c, items, s, TRUE)
    PROVE  Polled(r, items)
<1>1. r.ev = <<r.ev[1], r.ev[2]>>
  BY DEF Settled
<1> QED
  BY <1>1 DEF Settled, Polled

\* process_control_stream, and the close when the stream ended.
LEMMA CriticalOk ==
    ASSUME NEW s \in Ids, scenario \in Scenarios, NEW c, NEW items, Good(c, items), ~c.h.closed
    PROVE  Polled(process_control_stream(c, s), items)
<1>1. ASSUME NEW d, Good(d, items), ~d.h.closed PROVE Polled(Close(d, s), items)
  <2> DEFINE r == Close(d, s)
  <2>0. d \in Conns
    BY <1>1 DEF Good
  <2>1. /\ r = [c |-> r.c, ev |-> <<r.ev[1], r.ev[2]>>] /\ Alike(d, r.c)
        /\ r.ev[1] = "Error"
    BY <1>1, <2>0, CloseIs
  <2> HIDE DEF r
  <2>2. r.ev = <<r.ev[1], r.ev[2]>>
    BY <2>1
  <2>3. Good(r.c, items) /\ With(items, r.ev) = items
    BY <1>1, <2>1, AlikeGood, WithIs
  <2>4. Polled(r, items)
    BY <2>1, <2>2, <2>3 DEF Polled
  <2> QED
    BY <2>4 DEF r
<1>2. CASE stream_finished(c.q[s])
  BY <1>1, <1>2 DEF process_control_stream
<1>3. CASE ~stream_finished(c.q[s])
  <2> DEFINE r == process_readable_stream(c, s, TRUE)
  <2>1. process_control_stream(c, s) = CloseIfEnded(r, s)
    BY <1>3 DEF process_control_stream
  <2>2. Settled(r, c, items, s, TRUE)
    BY ReadableThere
  <2> HIDE DEF r
  <2>3. Polled(r, items)
    BY <2>2, SettledPolled
  <2>4. CASE r.ev[1] = "Done" /\ stream_finished(r.c.q[s])
    <3>1. Good(r.c, items) /\ ~r.c.h.closed
      BY <2>3, <2>4, WithIs DEF Polled
    <3>2. Polled(Close(r.c, s), items)
      BY <1>1, <3>1
    <3> QED
      BY <2>1, <2>4, <3>2 DEF CloseIfEnded
  <2>5. CASE ~(r.ev[1] = "Done" /\ stream_finished(r.c.q[s]))
    BY <2>1, <2>3, <2>5 DEF CloseIfEnded
  <2> QED
    BY <2>4, <2>5
<1> QED
  BY <1>2, <1>3

\* The next critical stream, unless the one before had an event.
LEMMA ThenCriticalOk ==
    ASSUME NEW s \in Ids \cup {None}, scenario \in Scenarios, NEW r, NEW items, Polled(r, items)
    PROVE  Polled(ThenCritical(r, s), items)
<1>1. CASE s = None \/ r.ev[1] # "Done"
  BY <1>1 DEF ThenCritical
<1>2. CASE ~(s = None \/ r.ev[1] # "Done")
  <2>1. Good(r.c, items) /\ ~r.c.h.closed /\ s \in Ids
    BY <1>2, WithIs DEF Polled
  <2>2. Polled(process_control_stream(r.c, s), items)
    BY <2>1, CriticalOk
  <2> QED
    BY <1>2, <2>2 DEF ThenCritical
<1> QED
  BY <1>1, <1>2

\* All critical streams.
LEMMA PollCriticalOk ==
    ASSUME scenario \in Scenarios, NEW c, NEW items, Good(c, items), ~c.h.closed
    PROVE  Polled(PollCritical(c), items)
<1> DEFINE r0 == Result(c, "Done", None)
           r1 == ThenCritical(r0, c.h.control)
           r2 == ThenCritical(r1, c.h.encoder)
           r3 == ThenCritical(r2, c.h.decoder)
<1>0. /\ c.h.control \in Ids \cup {None} /\ c.h.encoder \in Ids \cup {None}
      /\ c.h.decoder \in Ids \cup {None}
  <2>1. c \in Conns
    BY DEF Good
  <2> QED
    BY <2>1, ConnIs
<1>1. Polled(r0, items)
  BY PolledSilent
<1> HIDE DEF r0
<1>2. Polled(r1, items)
  BY <1>0, <1>1, ThenCriticalOk
<1> HIDE DEF r1
<1>3. Polled(r2, items)
  BY <1>0, <1>2, ThenCriticalOk
<1> HIDE DEF r2
<1>4. Polled(r3, items)
  BY <1>0, <1>3, ThenCriticalOk
<1> QED
  BY <1>4 DEF PollCritical, r0, r1, r2, r3

\* The next readable stream, unless the one before had an event.
LEMMA ThenReadableOk ==
    ASSUME NEW s \in Ids, scenario \in Scenarios, NEW r, NEW items, Polled(r, items)
    PROVE  Polled(ThenReadable(r, s), items)
<1>1. CASE r.ev[1] # "Done"
  BY <1>1 DEF ThenReadable
<1>2. CASE r.ev[1] = "Done"
  <2> DEFINE p == process_readable_stream(r.c, s, TRUE)
  <2>1. Good(r.c, items) /\ ~r.c.h.closed
    BY <1>2, WithIs DEF Polled
  <2>2. Settled(p, r.c, items, s, TRUE)
    BY <2>1, ReadableThere
  <2>3. ThenReadable(r, s) = FinishUnlessFailed(p, s)
    BY <1>2 DEF ThenReadable
  <2> HIDE DEF p
  <2>4. Polled(p, items)
    BY <2>1, <2>2, SettledPolled
  <2>5. CASE p.ev[1] \in {"Reset", "Error"}
    BY <2>3, <2>4, <2>5 DEF FinishUnlessFailed
  <2>6. CASE p.ev[1] \notin {"Reset", "Error"}
    <3> DEFINE d == IfFinished(p.c, s)
               told == With(items, p.ev)
               u == [p EXCEPT !.c = IfFinished(@, s)]
    <3>1. Good(d, told) /\ d.h.closed = p.c.h.closed
      <4>1. Good(p.c, told)
        BY <2>4 DEF Polled
      <4> HIDE DEF told
      <4> QED
        BY <4>1, FinishedOk
    <3>2. u = [c |-> d, ev |-> p.ev]
      <4>1. p = [c |-> p.c, ev |-> p.ev]
        BY <2>4 DEF Polled
      <4>2. u = [p EXCEPT !.c = d]
        BY Zenon
      <4> HIDE DEF u, d
      <4> QED
        BY <4>1, <4>2
    <3> HIDE DEF u, d
    <3>3. u.c = d /\ u.ev = p.ev
      BY <3>2
    <3>4. Polled(u, items)
      BY <2>4, <3>1, <3>2, <3>3 DEF Polled
    <3> QED
      BY <2>3, <2>6, <3>4 DEF FinishUnlessFailed, u
  <2> QED
    BY <2>5, <2>6
<1> QED
  BY <1>1, <1>2

\* The readable streams are handled one after another.
LEMMA PollReadableRun ==
    ASSUME NEW c, NEW order \in Seq(Ids)
    PROVE  \E after : /\ after[0] = Result(c, "Done", None)
                      /\ after[Len(order)] = PollReadable(c, order)
                      /\ \A n \in 1 .. Len(order) :
                           after[n] = ThenReadable(after[n - 1], order[n])
<1> DEFINE N == Len(order)
           r == Result(c, "Done", None)
           IsRun(f, m) == f = [n \in 0 .. m |-> IF n = 0 THEN r ELSE ThenReadable(f[n - 1], order[n])]
           P == {m \in 0 .. N : \E f : IsRun(f, m)}
<1>0. N \in Nat
  OBVIOUS
<1> HIDE DEF N, r
<1>1. 0 \in P
  <2> DEFINE g == [n \in 0 .. 0 |-> r]
  <2>1. IsRun(g, 0)
    OBVIOUS
  <2> HIDE DEF g, IsRun
  <2> QED
    BY <1>0, <2>1
<1>2. ASSUME NEW m \in 1 .. N, m - 1 \in P PROVE m \in P
  <2>1. PICK f : IsRun(f, m - 1)
    BY <1>2
  <2> DEFINE g == [n \in 0 .. m |-> IF n = m THEN ThenReadable(f[m - 1], order[m]) ELSE f[n]]
  <2>2. IsRun(g, m)
    <3>1. ASSUME NEW n \in 0 .. m
          PROVE  g[n] = IF n = 0 THEN r ELSE ThenReadable(g[n - 1], order[n])
      <4>1. CASE n = m
        BY <4>1
      <4>2. CASE n # m
        BY <2>1, <4>2
      <4> QED
        BY <4>1, <4>2
    <3> QED
      BY <3>1
  <2> HIDE DEF g, IsRun
  <2> QED
    BY <2>2
<1>3. N \in P
  <2> HIDE DEF P
  <2> QED
    BY <1>0, <1>1, <1>2, Induction
<1> DEFINE after == CHOOSE f : IsRun(f, N)
<1>4. IsRun(after, N)
  BY <1>3
<1>5. PollReadable(c, order) = after[N]
  BY DEF PollReadable, N, r
<1> HIDE DEF after
<1>6. after[0] = r /\ \A n \in 1 .. N : after[n] = ThenReadable(after[n - 1], order[n])
  BY <1>0, <1>4
<1> HIDE DEF IsRun
<1> QED
  BY <1>5, <1>6 DEF N, r

\* All readable streams, in any order.
LEMMA PollReadableOk ==
    ASSUME scenario \in Scenarios, NEW c, NEW items, Good(c, items), ~c.h.closed,
           NEW order \in Seq(Ids)
    PROVE  Polled(PollReadable(c, order), items)
<1> DEFINE N == Len(order)
           r == Result(c, "Done", None)
<1>1. N \in Nat /\ (\A n \in 1 .. N : order[n] \in Ids) /\ Polled(r, items)
  BY PolledSilent
<1>2. PICK after : /\ after[0] = r /\ after[N] = PollReadable(c, order)
                   /\ \A n \in 1 .. N : after[n] = ThenReadable(after[n - 1], order[n])
  BY PollReadableRun
<1> HIDE DEF N, r
<1> DEFINE Q == {n \in 0 .. N : Polled(after[n], items)}
<1>3. 0 \in Q
  BY <1>1, <1>2
<1>4. ASSUME NEW n \in 1 .. N, n - 1 \in Q PROVE n \in Q
  <2>1. Polled(after[n - 1], items) /\ order[n] \in Ids
    BY <1>1, <1>4
  <2>2. Polled(after[n], items)
    BY <1>2, <2>1, ThenReadableOk
  <2> QED
    BY <2>2
<1>5. N \in Q
  <2> HIDE DEF Q
  <2> QED
    BY <1>1, <1>3, <1>4, Induction
<1> QED
  BY <1>2, <1>5

\* Reading nothing: the end of the stream is told, no token is taken.
LEMMA RecvNothingOk ==
    ASSUME NEW s \in Ids, scenario \in Scenarios, NEW c, NEW items, Good(c, items)
    PROVE  LET r == stream_recv(c, s, 0)
           IN  Good(r.c, items) /\ r.c.h = c.h
<1> DEFINE r == stream_recv(c, s, 0)
           d == r.c
           x == c.q[s]
           y == d.q[s]
           st == c.h.streams[s]
<1>1. c \in Conns /\ Tracked(c, s, items[s]) /\ QuicOk(x, s) /\ x \in QStream /\ items[s] \in Seq(Int)
      /\ items \in [Ids -> Seq(Int)]
  <2>1. c \in Conns /\ Tracked(c, s, items[s]) /\ items \in [Ids -> Seq(Int)]
    BY DEF Good
  <2> QED
    BY <2>1, ConnIs DEF Tracked
<1>2. /\ Apart(c, d, s) /\ d.h = c.h
      /\ Took(x, y, r.read) /\ QuicOk(y, s) /\ r.read <= 0
  BY <1>1, RecvIs
<1> HIDE DEF r, d
<1>3. /\ y.off = x.off /\ y.arrived = x.arrived /\ y.end = x.end /\ (Spent(x) => Spent(y))
  <2>1. x \in QStream /\ Took(x, y, r.read) /\ QuicOk(y, s) /\ r.read <= 0
    BY <1>1, <1>2
  <2> HIDE DEF x, y
  <2>2. Spent(x) => Spent(y)
    BY <2>1, TookOk
  <2>3. r.read = 0 /\ x.off \in Nat
    BY <2>1 DEF Took, QStream
  <2> QED
    BY <2>1, <2>2, <2>3 DEF Took
<1>4. Tracked(d, s, items[s])
  <2> DEFINE e == Heard(s)[x.off]
  <2> HIDE DEF x, y
  <2>1. d.q[s] = y /\ d.h = c.h /\ c.q[s] = x
    BY <1>2 DEF x, y
  <2>2. Going(x, st, e, items[s]) => Going(y, st, e, items[s])
    BY <1>3 DEF Going
  <2> HIDE DEF st
  <2> QED
    BY <1>1, <1>2, <1>3, <2>1, <2>2 DEF Tracked, st
<1>5. Good(d, items)
  BY <1>1, <1>2, <1>4, ApartGood
<1> QED
  BY <1>2, <1>5 DEF d, r

\* The front of the queue of finished streams.
LEMMA PopFinishedOk ==
    ASSUME scenario \in Scenarios, NEW c, NEW items, Good(c, items), ~c.h.closed,
           NEW look \in BOOLEAN
    PROVE  Polled(PopFinished(c, look), items)
<1> DEFINE s == Head(c.h.finished)
           r == stream_recv(c, s, 0)
           b == IF look /\ Readable(c.q[s]) THEN r.c ELSE c
           popped == [b EXCEPT !.h.finished = Tail(@)]
           what == IF look /\ Readable(c.q[s]) /\ r.res = "Reset" THEN "Reset" ELSE "Finished"
<1>0. c \in Conns /\ c.h.finished \in Seq(Ids)
  <2>1. c \in Conns
    BY DEF Good
  <2> QED
    BY <2>1, ConnIs
<1>1. CASE c.h.finished = <<>>
  <2>1. PopFinished(c, look) = Result(c, "Done", None)
    BY <1>1 DEF PopFinished
  <2> QED
    BY <2>1, PolledSilent
<1>2. CASE c.h.finished # <<>>
  <2>1. PopFinished(c, look) = Result(popped, what, s)
    BY <1>2, Zenon DEF PopFinished
  <2>2. s \in Ids /\ Tail(c.h.finished) \in Seq(Ids)
    BY <1>0, <1>2, HeadTailProperties
  <2>3. Good(b, items) /\ b.h = c.h
    <3>1. Good(r.c, items) /\ r.c.h = c.h
      BY <2>2, RecvNothingOk
    <3> HIDE DEF r, s
    <3> QED
      BY <3>1
  <2>4. what \in {"Reset", "Finished"}
    OBVIOUS
  <2> DEFINE fs == Tail(c.h.finished)
             e == [b EXCEPT !.h.finished = fs]
  <2>5. popped = e
    <3> HIDE DEF b
    <3>1. Tail(b.h.finished) = fs
      BY <2>3
    <3>2. popped = [b EXCEPT !.h = [b.h EXCEPT !.finished = Tail(b.h.finished)]]
      BY Zenon
    <3>3. e = [b EXCEPT !.h = [b.h EXCEPT !.finished = fs]]
      BY Zenon
    <3> QED
      BY <3>1, <3>2, <3>3
  <2> HIDE DEF b, what, popped, s
  <2>6. Alike(b, e)
    <3>1. b \in Conns /\ fs \in Seq(Ids)
      BY <2>2, <2>3 DEF Good
    <3> HIDE DEF fs
    <3> QED
      BY <3>1, PutFinished
  <2> HIDE DEF e
  <2>7. Good(popped, items)
    BY <2>3, <2>5, <2>6, AlikeGood
  <2>8. Polled(Result(popped, what, s), items)
    BY <2>4, <2>7, PolledSilent
  <2> QED
    BY <2>1, <2>8
<1> QED
  BY <1>1, <1>2

\* The whole call, on a connection that is closed or not.
LEMMA PollOk ==
    ASSUME scenario \in Scenarios, NEW c, NEW items, Good(c, items), NEW order \in Seq(Ids)
    PROVE  LET r == poll(c, order)
           IN  Good(r.c, With(items, r.ev)) /\ (r.ev[1] = "Headers" => r.ev[2] \in Ids)
<1> DEFINE p == poll(c, order)
<1>1. CASE c.h.closed
  <2>1. p = [c |-> c, ev |-> <<"Done", None>>]
    BY <1>1 DEF poll, Result
  <2> HIDE DEF p
  <2>2. p.c = c /\ p.ev[1] = "Done"
    BY <2>1
  <2>3. With(items, p.ev) = items
    BY <2>2, WithIs
  <2> QED
    BY <2>2, <2>3 DEF p
<1>2. CASE ~c.h.closed
  <2> DEFINE r1 == PollCritical(c)
             r2 == PopFinished(r1.c, FALSE)
             r3 == PollReadable(r2.c, order)
             r4 == PopFinished(r3.c, TRUE)
  <2>0. ASSUME NEW r, Polled(r, items), r.ev[1] = "Done"
        PROVE  Good(r.c, items) /\ ~r.c.h.closed
    BY <2>0, WithIs DEF Polled
  <2>1. Polled(r1, items)
    BY <1>2, PollCriticalOk
  <2>2. p = IF r1.ev[1] = "Done" THEN AfterFinished(r2, order) ELSE r1
    BY <1>2 DEF poll, AfterCritical
  <2> HIDE DEF r1
  <2>3. r1.ev[1] = "Done" => Polled(r2, items)
    <3>1. ASSUME r1.ev[1] = "Done" PROVE Good(r1.c, items) /\ ~r1.c.h.closed
      BY <2>0, <2>1, <3>1
    <3> QED
      BY <3>1, PopFinishedOk
  <2>4. AfterFinished(r2, order) = IF r2.ev[1] = "Done" THEN AfterReadable(r3) ELSE r2
    BY DEF AfterFinished
  <2> HIDE DEF r2
  <2>5. r1.ev[1] = "Done" /\ r2.ev[1] = "Done" => Polled(r3, items)
    <3>1. ASSUME r1.ev[1] = "Done", r2.ev[1] = "Done" PROVE Good(r2.c, items) /\ ~r2.c.h.closed
      BY <2>0, <2>3, <3>1
    <3> QED
      BY <3>1, PollReadableOk
  <2>6. AfterReadable(r3) = IF r3.ev[1] = "Done" THEN r4 ELSE r3
    BY DEF AfterReadable
  <2> HIDE DEF r3
  <2>7. r1.ev[1] = "Done" /\ r2.ev[1] = "Done" /\ r3.ev[1] = "Done" => Polled(r4, items)
    <3>1. ASSUME r1.ev[1] = "Done", r2.ev[1] = "Done", r3.ev[1] = "Done"
          PROVE Good(r3.c, items) /\ ~r3.c.h.closed
      BY <2>0, <2>5, <3>1
    <3> QED
      BY <3>1, PopFinishedOk
  <2> HIDE DEF r4, p
  <2>8. Polled(p, items)
    BY <2>1, <2>2, <2>3, <2>4, <2>5, <2>6, <2>7
  <2> QED
    BY <2>8 DEF Polled, p
<1> QED
  BY <1>1, <1>2

-----------------------------------------------------------------------------
(* recv_body()                                                               *)

\* What the application has when the bytes of body are given to it.
Given(items, s, body) == [items EXCEPT ![s] = @ \o body]

\* The bytes of a body are added to the items of their stream.
LEMMA GivenIs ==
    ASSUME NEW items \in [Ids -> Seq(Int)], NEW s \in Ids, NEW body \in Seq(Int)
    PROVE  LET told == Given(items, s, body)
           IN  /\ told \in [Ids -> Seq(Int)] /\ told[s] = items[s] \o body
               /\ \A i \in Ids \ {s} : told[i] = items[i]
<1> DEFINE told == Given(items, s, body)
           new_items == items[s] \o body
<1>1. new_items \in Seq(Int)
  BY PrefixMore
<1>2. told = [items EXCEPT ![s] = new_items]
  BY DEF Given
<1> HIDE DEF new_items, told
<1>3. told \in [Ids -> Seq(Int)] /\ told[s] = new_items /\ \A i \in Ids \ {s} : told[i] = items[i]
  BY <1>1, <1>2
<1> QED
  BY <1>3 DEF told, new_items

\* Bytes given in two parts.
LEMMA GivenMore ==
    ASSUME NEW items \in [Ids -> Seq(Int)], NEW s \in Ids, NEW a \in Seq(Int), NEW b \in Seq(Int)
    PROVE  Given(Given(items, s, a), s, b) = Given(items, s, a \o b)
<1> DEFINE t1 == Given(items, s, a)
           t2 == Given(t1, s, b)
           t3 == Given(items, s, a \o b)
<1>0. a \o b \in Seq(Int) /\ items[s] \in Seq(Int)
  BY PrefixMore
<1>1. /\ t1 \in [Ids -> Seq(Int)] /\ t1[s] = items[s] \o a
      /\ \A i \in Ids \ {s} : t1[i] = items[i]
  BY GivenIs
<1> HIDE DEF t1
<1>2. /\ t2 \in [Ids -> Seq(Int)] /\ t2[s] = t1[s] \o b
      /\ \A i \in Ids \ {s} : t2[i] = t1[i]
  BY <1>1, GivenIs
<1>3. /\ t3 \in [Ids -> Seq(Int)] /\ t3[s] = items[s] \o (a \o b)
      /\ \A i \in Ids \ {s} : t3[i] = items[i]
  BY <1>0, GivenIs
<1> HIDE DEF t2, t3
<1>4. t2[s] = t3[s]
  <2>1. (items[s] \o a) \o b = items[s] \o (a \o b)
    BY <1>0, ConcatAssoc
  <2> QED
    BY <1>1, <1>2, <1>3, <2>1, Zenon
<1>5. t2 = t3
  <2>1. \A i \in Ids : t2[i] = t3[i]
    BY <1>1, <1>2, <1>3, <1>4, Zenon
  <2>2. t2 \in [Ids -> Seq(Int)] /\ t3 \in [Ids -> Seq(Int)]
    BY <1>2, <1>3
  <2> QED
    BY ONLY <2>1, <2>2
<1> QED
  BY <1>5 DEF t1, t2, t3

\* No bytes given.
LEMMA GivenNothing ==
    ASSUME NEW items \in [Ids -> Seq(Int)], NEW s \in Ids
    PROVE  Given(items, s, <<>>) = items
<1> DEFINE t == Given(items, s, <<>>)
<1>1. <<>> \in Seq(Int) /\ items[s] \in Seq(Int) /\ items[s] \o <<>> = items[s]
  BY ConcatNone
<1>2. t \in [Ids -> Seq(Int)] /\ t[s] = items[s] /\ \A i \in Ids \ {s} : t[i] = items[i]
  BY <1>1, GivenIs
<1> HIDE DEF t
<1>3. t = items
  BY <1>2
<1> QED
  BY <1>3 DEF t

\* The result of stream_recv has four fields.
LEMMA RecvShape ==
    ASSUME NEW c, NEW s, NEW n
    PROVE  LET r == stream_recv(c, s, n)
           IN  r = [c |-> r.c, res |-> r.res, read |-> r.read, fin |-> r.fin]
<1> DEFINE x == c.q[s]
           k == IF n < x.arrived - x.off THEN n ELSE x.arrived - x.off
           y == [x EXCEPT !.off = @ + k, !.note = @ /\ n = 0]
           r == stream_recv(c, s, n)
           a == Transport(c, s, [x EXCEPT !.note = FALSE, !.queued = FALSE])
           e == Transport(c, s, [y EXCEPT !.queued = Readable(y)])
           f == stream_finished(y)
           p1 == [c |-> c, res |-> "Error", read |-> 0, fin |-> FALSE]
           p2 == [c |-> c, res |-> "Done", read |-> 0, fin |-> FALSE]
           p3 == [c |-> a, res |-> "Reset", read |-> 0, fin |-> FALSE]
           p4 == [c |-> e, res |-> "Ok", read |-> k, fin |-> f]
<1>1. r = CASE x.gone -> p1
            [] ~x.gone /\ ~Readable(x) -> p2
            [] Readable(x) /\ x.end = "reset" -> p3
            [] OTHER -> p4
  BY Zenon DEF stream_recv
<1> HIDE DEF r
<1>2. r \in {p1, p2, p3, p4}
  <2> HIDE DEF p1, p2, p3, p4, x
  <2> QED
    BY <1>1
<1> HIDE DEF a, e, f, k
<1>3. r = [c |-> r.c, res |-> r.res, read |-> r.read, fin |-> r.fin]
  BY <1>2
<1> QED
  BY <1>3 DEF r

\* try_consume_data: the bytes read are the next ones of the payload.
LEMMA ConsumeDataOk ==
    ASSUME NEW s \in Ids, scenario \in Scenarios, NEW c, NEW items, Live(c, items, s),
           c.h.streams[s].state = "Data", NEW n \in Nat
    PROVE  LET r == try_consume_data(c, s, n)
               body == SubSeq(scenario.tokens[s], c.q[s].off + 1, c.q[s].off + r.read)
           IN  /\ Live(r.c, Given(items, s, body), s) /\ body \in Seq(Int)
               /\ r.c.h.closed = c.h.closed
               /\ r.res \in {"Ok", "Done", "Reset", "Error"}
               /\ r.read \in Nat /\ r.read <= n
               /\ r.res \in {"Reset", "Error"} =>
                    Spent(r.c.q[s]) /\ r.c.h.streams[s].state = "Data"
<1> DEFINE st == c.h.streams[s]
           x == c.q[s]
           left == IF n < st.len - st.off THEN n ELSE st.len - st.off
           r == stream_recv(c, s, left)
           e == r.c
           y == e.q[s]
           more == st.data_event /\ Readable(y)
           read == [st EXCEPT !.off = @ + r.read, !.data_event = @ /\ Readable(y)]
           again == st.data_event /\ r.res # "Done"
           su == IF r.res # "Ok" THEN [st EXCEPT !.data_event = @ /\ r.res # "Done"]
                 ELSE IF read.off = read.len THEN state_transition(read, "FrameType", 1) ELSE read
           d == [e EXCEPT !.h.streams[s] = su]
           t == try_consume_data(c, s, n)
           body == SubSeq(scenario.tokens[s], x.off + 1, x.off + r.read)
<1>1. /\ c \in Conns /\ items \in [Ids -> Seq(Int)] /\ items[s] \in Seq(Int)
      /\ s \in DOMAIN c.h.streams /\ x \in QStream /\ st \in H3Stream /\ QuicOk(x, s)
      /\ st.off \in Nat /\ st.len \in Nat /\ st.off <= st.len
      /\ c.h.control = s => st.ty = "Control"
  BY LiveFacts
<1>2. left \in Nat /\ left <= n /\ st.off + left <= st.len
  <2> HIDE DEF st
  <2> QED
    BY <1>1
<1> HIDE DEF left
<1>3. /\ Apart(c, e, s) /\ e.h = c.h
      /\ Took(x, y, r.read) /\ QuicOk(y, s) /\ r.read <= left
      /\ r.res \in {"Ok", "Done", "Reset", "Error"}
      /\ r.res # "Ok" => r.read = 0
      /\ r.res \in {"Reset", "Error"} => Spent(y)
  BY <1>1, <1>2, RecvIs
<1>4. r = [c |-> r.c, res |-> r.res, read |-> r.read, fin |-> r.fin]
  BY RecvShape
<1>5. t = [r EXCEPT !.c.h.streams[s] = su]
  BY Zenon DEF try_consume_data, left
<1> HIDE DEF t, r, su
<1>6. t = [r EXCEPT !.c = d]
  BY <1>5, Zenon
<1> HIDE DEF d
<1>7. t.c = d /\ t.res = r.res /\ t.read = r.read
  BY <1>4, <1>6
<1>8. r.read \in Nat /\ r.read <= n /\ y \in QStream /\ st.off + r.read <= st.len
  <2> HIDE DEF st, x, y
  <2> QED
    BY <1>1, <1>2, <1>3 DEF Took
<1> HIDE DEF e
<1>9. /\ su \in H3Stream /\ su.ty = st.ty
      /\ \/ /\ su.state = "Data" /\ su.len = st.len /\ su.off = st.off + r.read
            /\ su.frame_type = st.frame_type
         \/ /\ st.off + r.read = st.len /\ su.state = "FrameType" /\ su.len = 1 /\ su.off = 0
            /\ r.res = "Ok"
  <2> DEFINE s1 == [st EXCEPT !.data_event = again]
             s2 == [st EXCEPT !.off = st.off + r.read, !.data_event = more]
             s3 == state_transition(s2, "FrameType", 1)
  <2>0. su = IF r.res # "Ok" THEN s1 ELSE IF s2.off = s2.len THEN s3 ELSE s2
    BY Zenon DEF su
  <2>1. again \in BOOLEAN /\ more \in BOOLEAN
    BY <1>1 DEF H3Stream
  <2> HIDE DEF again, more, st
  <2>2. /\ s1 \in H3Stream /\ s1.ty = st.ty /\ s1.state = st.state /\ s1.len = st.len
        /\ s1.off = st.off /\ s1.frame_type = st.frame_type
    BY <1>1, <2>1 DEF H3Stream
  <2>3. st.off + r.read \in Nat
    BY <1>1, <1>8
  <2>4. /\ s2 \in H3Stream /\ s2.ty = st.ty /\ s2.state = st.state /\ s2.len = st.len
        /\ s2.off = st.off + r.read /\ s2.frame_type = st.frame_type
    BY <1>1, <2>1, <2>3 DEF H3Stream
  <2> HIDE DEF s2
  <2>5. s3 \in H3Stream /\ s3.ty = st.ty /\ s3.state = "FrameType" /\ s3.len = 1 /\ s3.off = 0
    BY <2>4 DEF H3Stream, state_transition, States, Varints
  <2> HIDE DEF s1, s3
  <2>6. st.state = "Data"
    BY DEF st
  <2>7. r.res # "Ok" => st.off + r.read = st.off
    BY <1>1, <1>3
  <2> QED
    BY <2>0, <2>2, <2>4, <2>5, <2>6, <2>7
<1>10. e \in Conns /\ s \in DOMAIN e.h.streams
  BY <1>1, <1>3 DEF Apart
<1>11. /\ Apart(e, d, s) /\ d.q = e.q /\ d.h.streams[s] = su
       /\ d.h.control = e.h.control /\ d.h.closed = e.h.closed
  BY <1>9, <1>10, PutStream DEF d
<1>12. Apart(c, d, s)
  BY <1>3, <1>11, ApartTrans
<1>13. body \in Seq(Int)
  <2>1. scenario.tokens[s] \in Seq(Nat) /\ Len(scenario.tokens[s]) \in Nat
    BY TokensAre
  <2>2. x.off \in Nat /\ y.off = x.off + r.read /\ y.off <= Len(scenario.tokens[s])
    <3>1. y.off = x.off + r.read /\ y.off <= y.arrived /\ y.arrived <= Len(scenario.tokens[s])
      BY <1>3 DEF Took, QuicOk
    <3>2. x.off \in Nat /\ y.off \in Nat /\ y.arrived \in Nat
      BY <1>1, <1>8 DEF QStream
    <3> QED
      BY <2>1, <3>1, <3>2
  <2> HIDE DEF x, y
  <2>3. \A i \in x.off + 1 .. x.off + r.read : scenario.tokens[s][i] \in Int
    BY <1>8, <2>1, <2>2
  <2> QED
    BY <1>8, <2>2, <2>3 DEF body
<1> DEFINE told == Given(items, s, body)
<1>14. /\ told \in [Ids -> Seq(Int)] /\ told[s] = items[s] \o body
       /\ \A i \in Ids \ {s} : told[i] = items[i]
  BY <1>1, <1>13, GivenIs
<1>15. View(s, d.q[s], d.h.streams[s], told[s])
  <2>1. View(s, x, st, items[s])
    BY DEF Live
  <2>2. View(s, y, su, items[s] \o body)
    <3> HIDE DEF st, y, x
    <3>1. st.state = "Data"
      BY DEF st
    <3> QED
      BY <1>3, <1>8, <1>9, <2>1, <3>1, ViewData
  <2> QED
    BY <1>11, <1>14, <2>2
<1>16. Live(d, told, s)
  <2>1. d.q[s].arrived = c.q[s].arrived /\ d.q[s].end = c.q[s].end
    BY <1>3, <1>11 DEF Took
  <2>2. d.h.control = s => d.h.streams[s].ty = "Control"
    BY <1>1, <1>3, <1>9, <1>11
  <2> HIDE DEF told
  <2> QED
    BY <1>12, <1>14, <1>15, <2>1, <2>2, LiveStep
<1>17. /\ d.h.closed = c.h.closed
       /\ r.res \in {"Reset", "Error"} => Spent(d.q[s]) /\ d.h.streams[s].state = "Data"
  BY <1>3, <1>9, <1>11
<1> QED
  BY <1>3, <1>7, <1>8, <1>13, <1>16, <1>17 DEF t

\* b is where recv_body() has come to: the bytes it has are the next ones, and an error takes
\* them with it.
BodyOk(b, items, s) ==
    /\ b = [c |-> b.c, res |-> b.res, body |-> b.body, room |-> b.room]
    /\ b.body \in Seq(Int) /\ b.room \in Nat
    /\ IF b.res \in {"Continue", "Ok"} THEN Good(b.c, Given(items, s, b.body))
       ELSE Good(b.c, items)

\* Where nothing of the stream will be read, it does no harm that bytes are lost.
LEMMA Lost ==
    ASSUME NEW s \in Ids, scenario \in Scenarios, NEW c, NEW items \in [Ids -> Seq(Int)],
           NEW body \in Seq(Int),
           Good(c, Given(items, s, body)), s \in DOMAIN c.h.streams,
           \/ Spent(c.q[s]) /\ c.h.streams[s].state # "FramePayload"
           \/ c.h.closed /\ c.h.streams[s].state \notin {"FramePayload", "Data"}
    PROVE  Good(c, items)
<1> DEFINE told == Given(items, s, body)
           st == c.h.streams[s]
           x == c.q[s]
           e == Heard(s)[x.off]
<1>1. /\ told \in [Ids -> Seq(Int)] /\ told[s] = items[s] \o body
      /\ \A i \in Ids \ {s} : told[i] = items[i]
  BY GivenIs
<1>2. Good(c, told)
  OBVIOUS
<1> HIDE DEF told
<1>3. /\ c \in Conns /\ Tracked(c, s, told[s]) /\ x \in QStream /\ QuicOk(x, s)
      /\ Apart(c, c, s)
  <2>1. c \in Conns /\ Tracked(c, s, told[s])
    BY <1>2 DEF Good
  <2> QED
    BY <2>1, ConnIs, ApartSelf DEF Tracked
<1>4. Pending(st) = <<>> /\ items[s] \o Pending(st) = items[s] /\ told[s] \o Pending(st) = told[s]
      /\ items[s] \in Seq(Int)
  <2>1. st.state # "FramePayload"
    OBVIOUS
  <2>2. items[s] \in Seq(Int) /\ told[s] \in Seq(Int)
    BY <1>1
  <2> QED
    BY <2>1, <2>2, PendingIs, ConcatNone
<1>5. IsPrefix(items[s] \o Pending(st), e.items)
  <2>1. IsPrefix(items[s] \o body, e.items)
    BY <1>1, <1>3, <1>4 DEF Tracked
  <2>2. IsPrefix(items[s], e.items)
    BY <1>3, <1>4, <2>1, OffIs, PrefixLess
  <2> QED
    BY <1>4, <2>2
<1>6. Going(x, st, e, items[s]) \/ (c.h.closed /\ st.state # "Data")
  <2>1. Going(x, st, e, told[s]) \/ (c.h.closed /\ st.state # "Data")
    BY <1>3 DEF Tracked
  <2> QED
    BY <2>1 DEF Going
<1>7. Tracked(c, s, items[s])
  BY <1>3, <1>5, <1>6 DEF Tracked
<1>8. \A i \in Ids : Tracked(c, i, items[i])
  BY <1>1, <1>2, <1>7 DEF Good
<1> QED
  BY <1>3, <1>8 DEF Good

\* Between two DATA frames recv_body() reads the headers of the next frame.
LEMMA NextFrameOk ==
    ASSUME NEW s \in Ids, scenario \in Scenarios, NEW b, NEW items \in [Ids -> Seq(Int)],
           b = [c |-> b.c, res |-> b.res, body |-> b.body, room |-> b.room],
           b.body \in Seq(Int), b.room \in Nat, Live(b.c, Given(items, s, b.body), s)
    PROVE  LET r == NextFrame(b, process_readable_stream(b.c, s, FALSE), s)
           IN  BodyOk(r, items, s) /\ r.room = b.room
<1> DEFINE n == process_readable_stream(b.c, s, FALSE)
           res == CASE n.ev[1] # "Done" -> n.ev[1]
                    [] n.ev[1] = "Done" /\ stream_finished(n.c.q[s]) -> "Ok"
                    [] OTHER -> "Continue"
           told == Given(items, s, b.body)
           r == NextFrame(b, n, s)
<1>1. Settled(n, b.c, told, s, FALSE)
  <2> HIDE DEF told
  <2>1. Live(b.c, told, s) /\ Good(b.c, told)
    BY DEF told, Live
  <2> QED
    BY <2>1, ReadableOk
<1> HIDE DEF n
<1>2. r = [b EXCEPT !.c = n.c, !.res = res]
  BY Zenon DEF NextFrame
<1>3. \/ n.ev[1] = "Done" /\ res \in {"Ok", "Continue"}
      \/ n.ev[1] # "Done" /\ res = n.ev[1]
  OBVIOUS
<1> HIDE DEF r, res
<1>4. r = [c |-> n.c, res |-> res, body |-> b.body, room |-> b.room]
  BY <1>2
<1>5. r.c = n.c /\ r.res = res /\ r.body = b.body /\ r.room = b.room
  BY <1>4
<1> HIDE DEF told
<1>6. /\ n.ev[1] \in {"Done", "Reset", "Error", "Continue"} /\ Good(n.c, told)
      /\ s \in DOMAIN n.c.h.streams
      /\ n.ev[1] \in {"Reset", "Error"} =>
            \/ Spent(n.c.q[s]) /\ n.c.h.streams[s].state # "FramePayload"
            \/ /\ n.c.h.closed
               /\ n.c.h.streams[s].state \notin {"FramePayload", "Data"}
  <2>1. n.ev[1] \in {"Done", "Reset", "Error", "Continue"}
    BY <1>1 DEF Settled
  <2>2. With(told, n.ev) = told
    BY <2>1, WithIs
  <2> QED
    BY <1>1, <2>1, <2>2 DEF Settled
<1>7. CASE n.ev[1] \in {"Reset", "Error"}
  <2>1. res \in {"Reset", "Error"}
    BY <1>3, <1>7
  <2>2. Good(n.c, items)
    BY <1>6, <1>7, Lost DEF told
  <2>3. res \notin {"Continue", "Ok"}
    BY <2>1
  <2>4. BodyOk(r, items, s)
    BY <1>4, <1>5, <2>2, <2>3 DEF BodyOk
  <2> QED
    BY <1>5, <2>4 DEF r, n
<1>8. CASE n.ev[1] \in {"Done", "Continue"}
  <2>1. res \in {"Ok", "Continue"}
    BY <1>3, <1>8
  <2>2. BodyOk(r, items, s)
    BY <1>4, <1>5, <1>6, <2>1 DEF BodyOk, told
  <2> QED
    BY <1>5, <2>2 DEF r, n
<1> QED
  BY <1>6, <1>7, <1>8

\* After a read of at least one byte there is less room.
LEMMA AfterDataOk ==
    ASSUME NEW s \in Ids, scenario \in Scenarios, NEW b, NEW items \in [Ids -> Seq(Int)],
           b = [c |-> b.c, res |-> b.res, body |-> b.body, room |-> b.room],
           b.body \in Seq(Int), b.room \in Nat, Live(b.c, Given(items, s, b.body), s),
           b.c.h.streams[s].state = "Data"
    PROVE  LET t == AfterData(b, try_consume_data(b.c, s, b.room), s)
           IN  BodyOk(t, items, s) /\ (t.res = "Continue" => t.room <= b.room - 1)
<1> DEFINE off == b.c.q[s].off
           r == try_consume_data(b.c, s, b.room)
           body == SubSeq(scenario.tokens[s], off + 1, off + r.read)
           res == IF r.res = "Done" THEN "Ok" ELSE r.res
           room == b.room - r.read
           read == [c |-> r.c, res |-> res, body |-> b.body \o body, room |-> room]
           told == Given(items, s, b.body)
           next == NextFrame(read, process_readable_stream(r.c, s, FALSE), s)
           t == AfterData(b, r, s)
<1>1. t = IF r.res # "Ok" \/ r.read = 0 \/ r.fin THEN read ELSE next
  BY Zenon DEF AfterData
<1>2. /\ Live(r.c, Given(told, s, body), s) /\ body \in Seq(Int)
      /\ r.res \in {"Ok", "Done", "Reset", "Error"}
      /\ r.read \in Nat /\ r.read <= b.room
      /\ r.res \in {"Reset", "Error"} => Spent(r.c.q[s]) /\ r.c.h.streams[s].state = "Data"
  <2> HIDE DEF told
  <2>1. Live(b.c, told, s)
    BY DEF told
  <2> QED
    BY <2>1, ConsumeDataOk
<1> HIDE DEF r, t, body
<1>3. Given(told, s, body) = Given(items, s, b.body \o body) /\ b.body \o body \in Seq(Int)
  BY <1>2, GivenMore, PrefixMore
<1>4. /\ read.c = r.c /\ read.res = res /\ read.body = b.body \o body /\ read.room = room
      /\ read = [c |-> read.c, res |-> read.res, body |-> read.body, room |-> read.room]
  OBVIOUS
<1>5. room \in Nat /\ (r.read # 0 => room <= b.room - 1)
  BY <1>2
<1>6. CASE r.res # "Ok" \/ r.read = 0 \/ r.fin
  <2>1. t = read
    BY <1>1, <1>6
  <2>2. res \in {"Ok", "Reset", "Error"} /\ (res \in {"Reset", "Error"} <=> r.res \in {"Reset", "Error"})
    BY <1>2
  <2> HIDE DEF read, res, room
  <2>3. CASE res = "Ok"
    <3>1. Good(r.c, Given(items, s, b.body \o body))
      BY <1>2, <1>3 DEF Live
    <3> QED
      BY <1>3, <1>4, <1>5, <2>1, <2>3, <3>1 DEF BodyOk, t, r
  <2>4. CASE res \in {"Reset", "Error"}
    <3>1. Good(r.c, Given(items, s, b.body \o body)) /\ s \in DOMAIN r.c.h.streams
      BY <1>2, <1>3 DEF Live
    <3>2. Spent(r.c.q[s]) /\ r.c.h.streams[s].state # "FramePayload"
      BY <1>2, <2>2, <2>4
    <3>3. Good(r.c, items)
      BY <1>3, <3>1, <3>2, Lost
    <3>4. BodyOk(t, items, s) /\ t.res # "Continue"
      BY <1>3, <1>4, <1>5, <2>1, <2>4, <3>3 DEF BodyOk
    <3> QED
      BY <3>4 DEF t, r
  <2> QED
    BY <2>2, <2>3, <2>4
<1>7. CASE ~(r.res # "Ok" \/ r.read = 0 \/ r.fin)
  <2>1. t = next
    BY <1>1, <1>7
  <2> HIDE DEF read
  <2>2. Live(read.c, Given(items, s, read.body), s)
    BY <1>2, <1>3, <1>4
  <2>3. /\ read.body \in Seq(Int) /\ read.room \in Nat
    BY <1>3, <1>4, <1>5
  <2> DEFINE u == NextFrame(read, process_readable_stream(read.c, s, FALSE), s)
  <2>4. BodyOk(u, items, s) /\ u.room = read.room
    BY <1>4, <2>2, <2>3, NextFrameOk
  <2>5. u = t
    BY <1>4, <2>1
  <2> HIDE DEF u
  <2>6. BodyOk(t, items, s) /\ t.room <= b.room - 1
    BY <1>4, <1>5, <1>7, <2>4, <2>5
  <2> QED
    BY <2>6 DEF t, r
<1> QED
  BY <1>6, <1>7

\* One turn of the loop of recv_body().
LEMMA BodyTurnOk ==
    ASSUME NEW s \in Ids, scenario \in Scenarios, NEW b, NEW items \in [Ids -> Seq(Int)],
           BodyOk(b, items, s)
    PROVE  LET t == BodyTurn(b, s)
           IN  /\ BodyOk(t, items, s)
               /\ t.res = "Continue" => b.res = "Continue" /\ t.room <= b.room - 1
<1> DEFINE t == BodyTurn(b, s)
           p2 == AfterData(b, try_consume_data(b.c, s, b.room), s)
           p3 == [b EXCEPT !.res = "Ok"]
           going == /\ b.room > 0 /\ s \in DOMAIN b.c.h.streams
                    /\ b.c.h.streams[s].state = "Data"
<1>1. t = CASE b.res # "Continue" -> b
            [] b.res = "Continue" /\ going -> p2
            [] OTHER -> p3
  BY Zenon DEF BodyTurn
<1>2. CASE b.res # "Continue"
  <2>1. t = b
    <3> HIDE DEF t, p2, p3, going
    <3> QED
      BY <1>1, <1>2
  <2> QED
    BY <1>2, <2>1
<1>3. CASE b.res = "Continue" /\ going
  <2>1. t = p2
    <3> HIDE DEF t, p2, p3, going
    <3> QED
      BY <1>1, <1>3
  <2> DEFINE told == Given(items, s, b.body)
  <2>2. /\ Good(b.c, told) /\ b.body \in Seq(Int) /\ b.room \in Nat
        /\ b = [c |-> b.c, res |-> b.res, body |-> b.body, room |-> b.room]
    BY <1>3 DEF BodyOk
  <2> HIDE DEF told
  <2>3. Live(b.c, told, s)
    <3>1. Tracked(b.c, s, told[s])
      BY <2>2 DEF Good
    <3>2. Going(b.c.q[s], b.c.h.streams[s], Heard(s)[b.c.q[s].off], told[s])
      BY <1>3, <3>1 DEF Tracked
    <3> QED
      BY <1>3, <2>2, <3>2, LiveIs
  <2>4. BodyOk(p2, items, s) /\ (p2.res = "Continue" => p2.room <= b.room - 1)
    BY <1>3, <2>2, <2>3, AfterDataOk DEF told
  <2> HIDE DEF p2, t
  <2>5. BodyOk(t, items, s) /\ (t.res = "Continue" => b.res = "Continue" /\ t.room <= b.room - 1)
    BY <1>3, <2>1, <2>4
  <2> QED
    BY <2>5 DEF t
<1>4. CASE b.res = "Continue" /\ ~going
  <2>1. t = p3
    <3> HIDE DEF t, p2, p3, going
    <3> QED
      BY <1>1, <1>4
  <2>2. p3 = [c |-> b.c, res |-> "Ok", body |-> b.body, room |-> b.room]
    <3>1. b = [c |-> b.c, res |-> b.res, body |-> b.body, room |-> b.room]
      BY DEF BodyOk
    <3> QED
      BY ONLY <3>1
  <2> HIDE DEF t, p3
  <2>3. t.c = b.c /\ t.res = "Ok" /\ t.body = b.body /\ t.room = b.room
    BY <2>1, <2>2
  <2>4. BodyOk(t, items, s) /\ t.res # "Continue"
    BY <1>4, <2>1, <2>2, <2>3 DEF BodyOk
  <2> QED
    BY <2>4 DEF t
<1> QED
  BY <1>2, <1>3, <1>4

\* The loop is defined: its turns one after another.
LEMMA ReadBodyRun ==
    ASSUME NEW s, NEW b, b.room \in Nat
    PROVE  \E after : /\ after[0] = b /\ after[b.room + 1] = ReadBody(b, s)
                      /\ \A n \in 1 .. b.room + 1 : after[n] = BodyTurn(after[n - 1], s)
<1> DEFINE N == b.room + 1
           IsRun(f, m) == f = [n \in 0 .. m |-> IF n = 0 THEN b ELSE BodyTurn(f[n - 1], s)]
           P == {m \in 0 .. N : \E f : IsRun(f, m)}
<1>0. N \in Nat
  OBVIOUS
<1> HIDE DEF N
<1>1. 0 \in P
  <2> DEFINE g == [n \in 0 .. 0 |-> b]
  <2>1. IsRun(g, 0)
    OBVIOUS
  <2> HIDE DEF g, IsRun
  <2> QED
    BY <1>0, <2>1
<1>2. ASSUME NEW m \in 1 .. N, m - 1 \in P PROVE m \in P
  <2>1. PICK f : IsRun(f, m - 1)
    BY <1>2
  <2> DEFINE g == [n \in 0 .. m |-> IF n = m THEN BodyTurn(f[m - 1], s) ELSE f[n]]
  <2>2. IsRun(g, m)
    <3>1. ASSUME NEW n \in 0 .. m
          PROVE  g[n] = IF n = 0 THEN b ELSE BodyTurn(g[n - 1], s)
      <4>1. CASE n = m
        BY <4>1
      <4>2. CASE n # m
        BY <2>1, <4>2
      <4> QED
        BY <4>1, <4>2
    <3> QED
      BY <3>1
  <2> HIDE DEF g, IsRun
  <2> QED
    BY <2>2
<1>3. N \in P
  <2> HIDE DEF P
  <2> QED
    BY <1>0, <1>1, <1>2, Induction
<1> DEFINE after == CHOOSE f : IsRun(f, N)
<1>4. IsRun(after, N)
  BY <1>3
<1>5. ReadBody(b, s) = after[N]
  BY DEF ReadBody, N
<1> HIDE DEF after
<1>6. after[0] = b /\ \A n \in 1 .. N : after[n] = BodyTurn(after[n - 1], s)
  BY <1>0, <1>4
<1> HIDE DEF IsRun
<1> QED
  BY <1>5, <1>6 DEF N

\* The loop, by induction on its turns: the room runs out before the turns do.
LEMMA ReadBodyOk ==
    ASSUME NEW s \in Ids, scenario \in Scenarios, NEW b, NEW items \in [Ids -> Seq(Int)],
           BodyOk(b, items, s)
    PROVE  BodyOk(ReadBody(b, s), items, s) /\ ReadBody(b, s).res # "Continue"
<1> DEFINE N == b.room + 1
<1>1. N \in Nat /\ b.room \in Nat /\ N = b.room + 1
  BY DEF BodyOk
<1>2. PICK after : /\ after[0] = b /\ after[N] = ReadBody(b, s)
                   /\ \A n \in 1 .. N : after[n] = BodyTurn(after[n - 1], s)
  BY <1>1, ReadBodyRun
<1> HIDE DEF N
<1> DEFINE Q == {n \in 0 .. N : /\ BodyOk(after[n], items, s)
                                /\ after[n].res = "Continue" => after[n].room <= b.room - n}
<1>3. 0 \in Q
  <2>1. after[0] = b /\ 0 \in 0 .. N
    BY <1>1, <1>2
  <2> QED
    BY <1>1, <2>1
<1>4. ASSUME NEW n \in 1 .. N, n - 1 \in Q PROVE n \in Q
  <2> DEFINE u == after[n - 1]
             t == after[n]
  <2>1. t = BodyTurn(u, s)
    BY <1>2
  <2>2. BodyOk(u, items, s) /\ (u.res = "Continue" => u.room <= b.room - (n - 1))
    BY <1>4
  <2> HIDE DEF u, t
  <2>3. BodyOk(t, items, s) /\ (t.res = "Continue" => u.res = "Continue" /\ t.room <= u.room - 1)
    BY <2>1, <2>2, BodyTurnOk
  <2>4. u.room \in Nat /\ t.room \in Nat /\ n \in Nat
    BY <1>1, <2>2, <2>3 DEF BodyOk
  <2>5. t.res = "Continue" => t.room <= b.room - n
    BY <1>1, <2>2, <2>3, <2>4
  <2> QED
    BY <2>3, <2>5 DEF t
<1>5. N \in Q
  <2> HIDE DEF Q
  <2> QED
    BY <1>1, <1>3, <1>4, Induction
<1>6. BodyOk(after[N], items, s) /\ (after[N].res = "Continue" => after[N].room <= b.room - N)
  BY <1>5
<1>7. after[N].room \in Nat
  BY <1>6 DEF BodyOk
<1> QED
  BY <1>1, <1>2, <1>6, <1>7

\* recv_body(): the bytes it returns follow what the application has.
LEMMA RecvBodyOk ==
    ASSUME NEW s \in Ids, scenario \in Scenarios, NEW c, NEW items, Good(c, items), NEW n \in Nat
    PROVE  LET r == recv_body(c, s, n)
               body == IF r.res = "Ok" THEN r.body ELSE <<>>
           IN  Good(r.c, Given(items, s, body)) /\ body \in Seq(Int)
<1> DEFINE b == [c |-> c, res |-> "Continue", body |-> <<>>, room |-> n]
           t == ReadBody(b, s)
           u == [t EXCEPT !.c = IfFinished(@, s)]
           d == IfFinished(t.c, s)
           r == recv_body(c, s, n)
           body == IF r.res = "Ok" THEN r.body ELSE <<>>
<1>0. items \in [Ids -> Seq(Int)]
  BY DEF Good
<1>1. BodyOk(b, items, s)
  <2>1. Given(items, s, <<>>) = items
    BY <1>0, GivenNothing
  <2>2. Good(b.c, Given(items, s, b.body)) /\ b.body \in Seq(Int) /\ b.res = "Continue"
        /\ b.room \in Nat
    BY <2>1
  <2>3. b = [c |-> b.c, res |-> b.res, body |-> b.body, room |-> b.room]
    OBVIOUS
  <2> HIDE DEF b
  <2> QED
    BY <2>2, <2>3 DEF BodyOk
<1>2. r = IF t.res = "Ok" THEN u ELSE t
  BY Zenon DEF recv_body, FinishIfRead
<1> HIDE DEF b
<1>3. BodyOk(t, items, s) /\ t.res # "Continue"
  BY <1>0, <1>1, ReadBodyOk
<1> HIDE DEF t, r
<1>4. CASE t.res = "Ok"
  <2>1. t = [c |-> t.c, res |-> t.res, body |-> t.body, room |-> t.room] /\ t.body \in Seq(Int)
        /\ Good(t.c, Given(items, s, t.body))
    BY <1>3, <1>4 DEF BodyOk
  <2>2. u = [t EXCEPT !.c = d]
    BY Zenon
  <2> HIDE DEF u, d
  <2>3. u.c = d /\ u.res = t.res /\ u.body = t.body
    BY <2>1, <2>2
  <2> DEFINE told == Given(items, s, t.body)
  <2> HIDE DEF told
  <2>4. Good(d, told)
    <3>1. Good(t.c, told)
      BY <2>1 DEF told
    <3> QED
      BY <3>1, FinishedOk DEF d
  <2> QED
    BY <1>2, <1>4, <2>1, <2>3, <2>4 DEF told, r
<1>5. CASE t.res # "Ok"
  <2>1. Good(t.c, items) /\ r = t
    BY <1>2, <1>3, <1>5 DEF BodyOk
  <2>2. Given(items, s, <<>>) = items /\ <<>> \in Seq(Int)
    BY <1>0, GivenNothing, ConcatNone
  <2> QED
    BY <1>5, <2>1, <2>2 DEF r
<1> QED
  BY <1>4, <1>5

-----------------------------------------------------------------------------
(* What the network and the sending calls change of one stream.              *)

\* More of the stream arrived, or it was given up.
LEMMA QuicStep ==
    ASSUME NEW s \in Ids, scenario \in Scenarios, NEW c, NEW items, Good(c, items),
           NEW y \in QStream, QuicOk(y, s), c.q[s].off <= y.off,
           Spent(c.q[s]) => Spent(y), y.off = c.q[s].off \/ Spent(y),
           ~scenario.is_server /\ is_bidi(s) /\ s >= c.h.next => y.arrived = 0 /\ y.end = "none"
    PROVE  Good([c EXCEPT !.q[s] = y], items)
<1> DEFINE d == [c EXCEPT !.q[s] = y]
           x == c.q[s]
           st == c.h.streams[s]
           e == Heard(s)[x.off]
           f == Heard(s)[y.off]
           told == items[s]
<1>1. /\ c \in Conns /\ Tracked(c, s, told) /\ items \in [Ids -> Seq(Int)]
      /\ told \in Seq(Int) /\ x \in QStream /\ QuicOk(x, s)
  <2>1. c \in Conns /\ Tracked(c, s, told) /\ items \in [Ids -> Seq(Int)]
    BY DEF Good
  <2> QED
    BY <2>1, ConnIs DEF Tracked
<1>2. Apart(c, d, s) /\ d.q[s] = y /\ d.h = c.h
  BY <1>1, PutQuic
<1> HIDE DEF d
<1>3. s \in DOMAIN c.h.streams => st \in H3Stream
  BY <1>1, ConnIs
<1> HIDE DEF x, st
<1>4. ASSUME NEW a \in Seq(Int), IsPrefix(a, e.items) PROVE IsPrefix(a, f.items)
  BY <1>1, <1>4, PrefixLater DEF x
<1>5. Tracked(c, s, told) <=>
        /\ QuicOk(x, s)
        /\ s \in DOMAIN c.h.streams =>
             /\ Shape(s, st) /\ st.off <= x.off
             /\ IsPrefix(told \o Pending(st), e.items)
             /\ Going(x, st, e, told) \/ (c.h.closed /\ st.state # "Data")
        /\ s \notin DOMAIN c.h.streams =>
             /\ IsPrefix(told, e.items)
             /\ Spent(x) \/ x.off = 0
        /\ c.h.control = s => s \in DOMAIN c.h.streams /\ st.ty = "Control"
        /\ ~scenario.is_server /\ is_bidi(s) /\ s >= c.h.next =>
             x.arrived = 0 /\ x.end = "none"
  BY DEF Tracked, x, st
<1>6. Tracked(d, s, told) <=>
        /\ QuicOk(y, s)
        /\ s \in DOMAIN c.h.streams =>
             /\ Shape(s, st) /\ st.off <= y.off
             /\ IsPrefix(told \o Pending(st), f.items)
             /\ Going(y, st, f, told) \/ (c.h.closed /\ st.state # "Data")
        /\ s \notin DOMAIN c.h.streams =>
             /\ IsPrefix(told, f.items)
             /\ Spent(y) \/ y.off = 0
        /\ c.h.control = s => s \in DOMAIN c.h.streams /\ st.ty = "Control"
        /\ ~scenario.is_server /\ is_bidi(s) /\ s >= c.h.next =>
             y.arrived = 0 /\ y.end = "none"
  BY <1>2 DEF Tracked, st
<1>7. Going(x, st, e, told) => Going(y, st, f, told)
  <2>1. y.off = x.off => e = f
    OBVIOUS
  <2> HIDE DEF e, f
  <2>2. (Spent(x) => Spent(y)) /\ (y.off = x.off \/ Spent(y))
    BY DEF x
  <2> QED
    BY <2>1, <2>2 DEF Going
<1>8. s \in DOMAIN c.h.streams => /\ st.off <= y.off
                                  /\ IsPrefix(told \o Pending(st), f.items)
  <2>1. ASSUME s \in DOMAIN c.h.streams
        PROVE  st.off <= y.off /\ IsPrefix(told \o Pending(st), f.items)
    <3>1. told \o Pending(st) \in Seq(Int)
      BY <1>1, PendingIs, PrefixMore
    <3>2. IsPrefix(told \o Pending(st), f.items)
      BY <1>1, <1>4, <1>5, <2>1, <3>1
    <3>3. st.off \in Nat /\ x.off \in Nat /\ y.off \in Nat /\ st.off <= x.off /\ x.off <= y.off
      <4>1. st.off <= x.off /\ st \in H3Stream
        BY <1>1, <1>3, <1>5, <2>1
      <4>2. x.off <= y.off
        BY DEF x
      <4> QED
        BY <1>1, <4>1, <4>2 DEF H3Stream, QStream
    <3> QED
      BY <3>2, <3>3
  <2> QED
    BY <2>1
<1>9. s \notin DOMAIN c.h.streams => IsPrefix(told, f.items) /\ (Spent(y) \/ y.off = 0)
  <2>1. (Spent(x) => Spent(y)) /\ (y.off = x.off \/ Spent(y))
    BY DEF x
  <2>2. s \notin DOMAIN c.h.streams => IsPrefix(told, f.items)
    BY <1>1, <1>4, <1>5
  <2> QED
    BY <1>1, <1>5, <2>1, <2>2
<1>10. Tracked(d, s, told)
  <2> HIDE DEF e, f
  <2> QED
    BY <1>1, <1>5, <1>6, <1>7, <1>8, <1>9
<1>11. Good(d, items)
  BY <1>1, <1>2, <1>10, ApartGood
<1> QED
  BY <1>11 DEF d

\* What does not move the parser of a stream.
LEMMA SameStream ==
    ASSUME NEW s \in Ids, NEW c, NEW items, Good(c, items), s \in DOMAIN c.h.streams,
           NEW su \in H3Stream, su.ty = c.h.streams[s].ty, su.state = c.h.streams[s].state,
           su.len = c.h.streams[s].len, su.off = c.h.streams[s].off,
           su.frame_type = c.h.streams[s].frame_type
    PROVE  Good([c EXCEPT !.h.streams[s] = su], items)
<1> DEFINE d == [c EXCEPT !.h.streams[s] = su]
           st == c.h.streams[s]
           x == c.q[s]
           e == Heard(s)[x.off]
           told == items[s]
<1>1. /\ c \in Conns /\ Tracked(c, s, told) /\ items \in [Ids -> Seq(Int)] /\ st \in H3Stream
  <2>1. c \in Conns /\ Tracked(c, s, told) /\ items \in [Ids -> Seq(Int)]
    BY DEF Good
  <2> QED
    BY <2>1, ConnIs
<1>2. /\ Apart(c, d, s) /\ d.q = c.q /\ d.h.streams[s] = su
      /\ d.h.control = c.h.control /\ d.h.closed = c.h.closed
  BY <1>1, PutStream
<1> HIDE DEF d
<1>3. /\ st.ty = su.ty /\ st.state = su.state /\ st.len = su.len /\ st.off = su.off
      /\ st.frame_type = su.frame_type
  OBVIOUS
<1> HIDE DEF st
<1>4. /\ Shape(s, st) => Shape(s, su)
      /\ Pending(su) = Pending(st)
      /\ InStep(st, e) => InStep(su, e)
  BY <1>1, <1>3, SameFields
<1>5. Going(x, st, e, told) => Going(x, su, e, told)
  BY <1>3, <1>4 DEF Going
<1>6. Tracked(d, s, told)
  <2>1. /\ QuicOk(x, s)
        /\ Shape(s, st) /\ st.off <= x.off
        /\ IsPrefix(told \o Pending(st), e.items)
        /\ Going(x, st, e, told) \/ (c.h.closed /\ st.state # "Data")
        /\ c.h.control = s => s \in DOMAIN c.h.streams /\ st.ty = "Control"
        /\ ~scenario.is_server /\ is_bidi(s) /\ s >= c.h.next =>
             x.arrived = 0 /\ x.end = "none"
    BY <1>1 DEF Tracked, st
  <2>2. s \in DOMAIN d.h.streams /\ d.h.next = c.h.next
    BY <1>2 DEF Apart
  <2> QED
    BY <1>2, <1>3, <1>4, <1>5, <2>1, <2>2 DEF Tracked
<1>7. Good(d, items)
  BY <1>1, <1>2, <1>6, ApartGood
<1> QED
  BY <1>7 DEF d

\* h' where only the table of streams changes.
LEMMA TableIs ==
    ASSUME NEW c \in Conns, NEW f \in Tables
    PROVE  LET d == [c EXCEPT !.h.streams = f]
           IN  /\ d \in Conns /\ d.q = c.q /\ d.h.streams = f
               /\ d.h = [c.h EXCEPT !.streams = f]
               /\ d.h.control = c.h.control /\ d.h.closed = c.h.closed /\ d.h.next = c.h.next
<1> DEFINE g == [c.h EXCEPT !.streams = f]
           d == [c EXCEPT !.h.streams = f]
<1>1. c.q \in [Ids -> QStream] /\ c.h \in H3Conn /\ c = [q |-> c.q, h |-> c.h]
  BY ConnIs
<1>2. /\ g \in H3Conn /\ g.streams = f /\ g.control = c.h.control
      /\ g.next = c.h.next /\ g.closed = c.h.closed
  BY <1>1 DEF H3Conn
<1>3. d = [q |-> c.q, h |-> g]
  <2>1. d = [c EXCEPT !.h = g]
    OBVIOUS
  <2> HIDE DEF d, g
  <2> QED
    BY <1>1, <2>1
<1> HIDE DEF g, d
<1>4. d \in Conns /\ d.q = c.q /\ d.h = g
  BY <1>1, <1>2, <1>3 DEF Conns
<1> QED
  BY <1>2, <1>4 DEF d, g

\* A request whose two directions are over is forgotten.
LEMMA Forgotten ==
    ASSUME NEW s \in Ids, scenario \in Scenarios, NEW c, NEW items, Good(c, items),
           s \in DOMAIN c.h.streams, is_bidi(s), stream_finished(c.q[s])
    PROVE  Good([c EXCEPT !.h.streams = [i \in DOMAIN c.h.streams \ {s} |-> c.h.streams[i]]], items)
<1> DEFINE f == [i \in DOMAIN c.h.streams \ {s} |-> c.h.streams[i]]
           d == [c EXCEPT !.h.streams = f]
           st == c.h.streams[s]
           x == c.q[s]
<1>1. /\ c \in Conns /\ items \in [Ids -> Seq(Int)] /\ \A i \in Ids : Tracked(c, i, items[i])
      /\ x \in QStream /\ st \in H3Stream /\ c.h.streams \in Tables /\ items[s] \in Seq(Int)
  <2>1. c \in Conns /\ items \in [Ids -> Seq(Int)] /\ \A i \in Ids : Tracked(c, i, items[i])
    BY DEF Good
  <2> QED
    BY <2>1, ConnIs
<1>2. f \in Tables
  <2>1. DOMAIN c.h.streams \subseteq Int /\ \A i \in DOMAIN c.h.streams : c.h.streams[i] \in H3Stream
    BY <1>1, ConnIs
  <2>2. /\ DOMAIN f = DOMAIN c.h.streams \ {s} /\ f = [i \in DOMAIN f |-> f[i]]
        /\ \A i \in DOMAIN f : f[i] = c.h.streams[i]
    OBVIOUS
  <2> HIDE DEF f
  <2> QED
    BY <2>1, <2>2, TablesAre
<1>3. /\ DOMAIN f = DOMAIN c.h.streams \ {s} /\ \A i \in DOMAIN f : f[i] = c.h.streams[i]
  OBVIOUS
<1> HIDE DEF f
<1>4. /\ d \in Conns /\ d.q = c.q /\ d.h.streams = f
      /\ d.h.control = c.h.control /\ d.h.closed = c.h.closed /\ d.h.next = c.h.next
  BY <1>1, <1>2, TableIs
<1> HIDE DEF d
<1>5. ASSUME NEW i \in Ids \ {s} PROVE Tracked(d, i, items[i])
  <2>1. Tracked(c, i, items[i])
    BY <1>1
  <2>2. i \in DOMAIN d.h.streams <=> i \in DOMAIN c.h.streams
    BY <1>3, <1>4
  <2>3. i \in DOMAIN c.h.streams => d.h.streams[i] = c.h.streams[i]
    BY <1>3, <1>4, <2>2
  <2> QED
    BY <1>4, <2>1, <2>2, <2>3 DEF Tracked
<1>6. Tracked(d, s, items[s])
  <2>1. /\ QuicOk(x, s) /\ Shape(s, st)
        /\ IsPrefix(items[s] \o Pending(st), Heard(s)[x.off].items)
        /\ c.h.control = s => st.ty = "Control"
        /\ ~scenario.is_server /\ is_bidi(s) /\ s >= c.h.next =>
             x.arrived = 0 /\ x.end = "none"
    BY <1>1 DEF Tracked
  <2>2. Spent(x)
    BY <1>1, <2>1, FinishedSpent
  <2>3. IsPrefix(items[s], Heard(s)[x.off].items)
    BY <1>1, <2>1, PendingIs, OffIs, PrefixLess
  <2>4. c.h.control # s
    <3>1. st.ty = "Request"
      BY <1>1, <2>1, ShapeIs
    <3> QED
      BY <2>1, <3>1
  <2>5. s \notin DOMAIN d.h.streams /\ d.q[s] = x
    BY <1>3, <1>4
  <2> QED
    BY <1>4, <2>1, <2>2, <2>3, <2>4, <2>5 DEF Tracked
<1>7. Good(d, items)
  BY <1>1, <1>4, <1>5, <1>6 DEF Good
<1> QED
  BY <1>7 DEF d, f

-----------------------------------------------------------------------------
(* The specification.                                                        *)

Conn == [q |-> q, h |-> h]
Items == [s \in Ids |-> got[s].items]
TheEnds == Seq({"Finished", "Reset"})

IInv ==
    /\ scenario \in Scenarios
    /\ got \in [Ids -> [items : Seq(Int), ends : TheEnds]]
    /\ Good(Conn, Items)

\* The items of all streams.
LEMMA GotIs ==
    ASSUME got \in [Ids -> [items : Seq(Int), ends : TheEnds]]
    PROVE  Items \in [Ids -> Seq(Int)] /\ \A s \in Ids : Items[s] = got[s].items
  BY DEF Items

\* What a call tells of a stream is added to what the application knows.
LEMMA ToldIs ==
    ASSUME got \in [Ids -> [items : Seq(Int), ends : TheEnds]],
           NEW s \in Ids, NEW new_items \in Seq(Int), NEW ends \in TheEnds,
           Told(s, new_items, ends)
    PROVE  /\ got' \in [Ids -> [items : Seq(Int), ends : TheEnds]]
           /\ Items' = Given(Items, s, new_items)
<1> DEFINE a == got[s].items \o new_items
           b == IF Len(got[s].ends) < MaxEnds THEN got[s].ends \o ends ELSE got[s].ends
           new_got == [items |-> a, ends |-> b]
<1>1. a \in Seq(Int)
  BY PrefixMore
<1>2. b \in TheEnds
  BY DEF TheEnds
<1>3. got' = [got EXCEPT ![s] = new_got]
  BY DEF Told
<1> HIDE DEF a, b
<1>4. new_got \in [items : Seq(Int), ends : TheEnds] /\ new_got.items = a
  BY <1>1, <1>2
<1> HIDE DEF new_got
<1>5. /\ got' \in [Ids -> [items : Seq(Int), ends : TheEnds]]
      /\ got'[s] = new_got /\ \A i \in Ids \ {s} : got'[i] = got[i]
  BY <1>3, <1>4
<1>6. Items' = Given(Items, s, new_items)
  <2> DEFINE I == Items
             J == Items'
             K == Given(Items, s, new_items)
  <2>1. I \in [Ids -> Seq(Int)] /\ \A i \in Ids : I[i] = got[i].items
    BY GotIs
  <2>2. J \in [Ids -> Seq(Int)] /\ \A i \in Ids : J[i] = got'[i].items
    BY <1>5 DEF Items
  <2>3. K \in [Ids -> Seq(Int)] /\ K[s] = I[s] \o new_items /\ \A i \in Ids \ {s} : K[i] = I[i]
    BY <2>1, GivenIs
  <2> HIDE DEF I, J, K
  <2>4. \A i \in Ids : J[i] = K[i]
    <3>1. J[s] = a
      BY <1>4, <1>5, <2>2
    <3>2. K[s] = a
      BY <2>1, <2>3 DEF a
    <3>3. \A i \in Ids \ {s} : J[i] = K[i]
      BY <1>5, <2>1, <2>2, <2>3
    <3> QED
      BY <3>1, <3>2, <3>3
  <2>5. J = K
    BY <2>2, <2>3, <2>4
  <2> QED
    BY <2>5 DEF J, K
<1> QED
  BY <1>5, <1>6

\* Nothing new for the application.
LEMMA ToldNothing ==
    ASSUME got \in [Ids -> [items : Seq(Int), ends : TheEnds]],
           NEW s, NEW ends \in TheEnds, Told(s, <<>>, ends)
    PROVE  /\ got' \in [Ids -> [items : Seq(Int), ends : TheEnds]]
           /\ Items' = Items
<1>1. CASE s \in Ids
  <2>1. <<>> \in Seq(Int)
    OBVIOUS
  <2>2. /\ got' \in [Ids -> [items : Seq(Int), ends : TheEnds]]
        /\ Items' = Given(Items, s, <<>>)
    BY <1>1, <2>1, ToldIs
  <2>3. Items \in [Ids -> Seq(Int)]
    BY GotIs
  <2> DEFINE I == Items
  <2>4. Given(I, s, <<>>) = I
    <3> HIDE DEF I
    <3>1. I \in [Ids -> Seq(Int)]
      BY <2>3 DEF I
    <3> QED
      BY <1>1, <3>1, GivenNothing
  <2> QED
    BY <2>2, <2>4
<1>2. CASE s \notin Ids
  <2>1. got' = got
    BY <1>2 DEF Told
  <2> QED
    BY <2>1 DEF Items
<1> QED
  BY <1>1, <1>2

\* The scenario is chosen once: what is right in it stays right in it.
LEMMA Kept ==
    ASSUME scenario \in Scenarios, scenario' = scenario,
           got' \in [Ids -> [items : Seq(Int), ends : TheEnds]],
           NEW d, NEW told, Good(d, told), d = Conn', told = Items'
    PROVE  IInv'
<1>1. ASSUME NEW s \in Ids PROVE Heard(s)' = Heard(s)
  BY DEF Heard
<1>2. ASSUME NEW c, NEW items, Good(c, items) PROVE Good(c, items)'
  <2>1. ASSUME NEW s \in Ids PROVE Tracked(c, s, items[s])'
    BY <1>1, <1>2, <2>1 DEF Good, Tracked, QuicOk
  <2> QED
    BY <1>2, <2>1 DEF Good
<1>3. Good(d, told)'
  BY <1>2
<1> QED
  BY <1>3 DEF IInv

\* The readable streams in some order.
LEMMA OrderIs ==
    ASSUME NEW T \in SUBSET Ids, NEW order \in SetToSeqs(T)
    PROVE  order \in Seq(Ids)
<1>1. IsFiniteSet(T) /\ Cardinality(T) \in Nat
  BY BoundsAssumption, FS_Subset, FS_CardinalityType
<1>2. order \in [1 .. Cardinality(T) -> T]
  BY DEF SetToSeqs
<1> QED
  BY <1>1, <1>2

\* The application calls poll().
LEMMA PollStep ==
    ASSUME IInv, Poll
    PROVE  IInv'
<1> DEFINE c == Conn
           told == Items
<1>0. /\ scenario \in Scenarios /\ got \in [Ids -> [items : Seq(Int), ends : TheEnds]]
      /\ Good(c, told) /\ told \in [Ids -> Seq(Int)]
  BY GotIs DEF IInv
<1>1. PICK order \in SetToSeqs({s \in Ids : q[s].queued /\ ~q[s].gone}) :
        \E r \in {poll(c, order)} :
            /\ q' = r.c.q /\ h' = r.c.h /\ scenario' = scenario
            /\ CASE r.ev[1] = "Headers" -> Told(r.ev[2], <<HeadersItem>>, <<>>)
                 [] r.ev[1] \in {"Finished", "Reset"} -> Told(r.ev[2], <<>>, <<r.ev[1]>>)
                 [] OTHER -> UNCHANGED got
  BY DEF Poll, Conn
<1> DEFINE r == poll(c, order)
<1>2. /\ q' = r.c.q /\ h' = r.c.h /\ scenario' = scenario
      /\ CASE r.ev[1] = "Headers" -> Told(r.ev[2], <<HeadersItem>>, <<>>)
           [] r.ev[1] \in {"Finished", "Reset"} -> Told(r.ev[2], <<>>, <<r.ev[1]>>)
           [] OTHER -> UNCHANGED got
  BY <1>1
<1>3. order \in Seq(Ids)
  BY OrderIs
<1> HIDE DEF c, told, r
<1>4. Good(r.c, With(told, r.ev)) /\ (r.ev[1] = "Headers" => r.ev[2] \in Ids)
  BY <1>0, <1>3, PollOk DEF r
<1>5. r.c = Conn'
  <2>1. r.c \in Conns
    BY <1>4 DEF Good
  <2>2. r.c = [q |-> r.c.q, h |-> r.c.h]
    BY <2>1, ConnIs
  <2> QED
    BY <1>2, <2>2 DEF Conn
<1>6. CASE r.ev[1] = "Headers"
  <2>1. <<HeadersItem>> \in Seq(Int) /\ <<>> \in TheEnds
    BY DEF HeadersItem, TheEnds
  <2>2. Told(r.ev[2], <<HeadersItem>>, <<>>)
    BY <1>2, <1>6
  <2>3. /\ got' \in [Ids -> [items : Seq(Int), ends : TheEnds]]
        /\ Items' = Given(told, r.ev[2], <<HeadersItem>>)
    BY <1>0, <1>4, <1>6, <2>1, <2>2, ToldIs DEF told
  <2>4. With(told, r.ev) = Given(told, r.ev[2], <<HeadersItem>>)
    BY <1>6 DEF With, Given
  <2> QED
    BY <1>0, <1>2, <1>4, <1>5, <2>3, <2>4, Kept
<1>7. CASE r.ev[1] \in {"Finished", "Reset"}
  <2>1. <<r.ev[1]>> \in TheEnds
    BY <1>7 DEF TheEnds
  <2>2. Told(r.ev[2], <<>>, <<r.ev[1]>>)
    BY <1>2, <1>7
  <2>3. /\ got' \in [Ids -> [items : Seq(Int), ends : TheEnds]]
        /\ Items' = told
    BY <1>0, <2>1, <2>2, ToldNothing DEF told
  <2>4. With(told, r.ev) = told
    BY <1>7, WithIs
  <2> QED
    BY <1>0, <1>2, <1>4, <1>5, <2>3, <2>4, Kept
<1>8. CASE r.ev[1] \notin {"Headers", "Finished", "Reset"}
  <2>1. got' = got
    BY <1>2, <1>8
  <2>2. got' \in [Ids -> [items : Seq(Int), ends : TheEnds]] /\ Items' = told
    BY <1>0, <2>1 DEF told, Items
  <2>3. With(told, r.ev) = told
    BY <1>8, WithIs
  <2> QED
    BY <1>0, <1>2, <1>4, <1>5, <2>2, <2>3, Kept
<1> QED
  BY <1>6, <1>7, <1>8

\* The application calls recv_body().
LEMMA RecvBodyStep ==
    ASSUME IInv, NEW s \in Ids, NEW n \in BufSizes, RecvBody(s, n)
    PROVE  IInv'
<1> DEFINE c == Conn
           told == Items
<1>0. /\ scenario \in Scenarios /\ got \in [Ids -> [items : Seq(Int), ends : TheEnds]]
      /\ Good(c, told) /\ told \in [Ids -> Seq(Int)] /\ n \in Nat
  BY GotIs, BoundsAssumption DEF IInv
<1>1. PICK r \in {recv_body(c, s, n)} :
        /\ q' = r.c.q /\ h' = r.c.h /\ scenario' = scenario
        /\ Told(s, IF r.res = "Ok" THEN r.body ELSE <<>>,
                IF r.res = "Reset" THEN <<"Reset">> ELSE <<>>)
  BY DEF RecvBody, Conn
<1> DEFINE body == IF r.res = "Ok" THEN r.body ELSE <<>>
           ends == IF r.res = "Reset" THEN <<"Reset">> ELSE <<>>
<1> HIDE DEF c, told
<1>2. Good(r.c, Given(told, s, body)) /\ body \in Seq(Int)
  <2>1. r = recv_body(c, s, n)
    OBVIOUS
  <2> QED
    BY <1>0, <2>1, RecvBodyOk
<1>3. ends \in TheEnds
  <2>1. <<"Reset">> \in TheEnds /\ <<>> \in TheEnds
    BY DEF TheEnds
  <2> QED
    BY <2>1
<1>4. r.c = Conn'
  <2>1. r.c \in Conns
    BY <1>2 DEF Good
  <2>2. r.c = [q |-> r.c.q, h |-> r.c.h]
    BY <2>1, ConnIs
  <2> QED
    BY <1>1, <2>2 DEF Conn
<1>5. Told(s, body, ends)
  BY <1>1
<1> HIDE DEF body, ends
<1>6. /\ got' \in [Ids -> [items : Seq(Int), ends : TheEnds]]
      /\ Items' = Given(told, s, body)
  BY <1>0, <1>2, <1>3, <1>5, ToldIs DEF told
<1> QED
  BY <1>0, <1>1, <1>2, <1>4, <1>6, Kept

\* A step that tells the application nothing.
LEMMA SilentStep ==
    ASSUME IInv, UNCHANGED <<scenario, got>>, NEW d, Good(d, Items), d = Conn'
    PROVE  IInv'
<1>1. scenario \in Scenarios /\ got \in [Ids -> [items : Seq(Int), ends : TheEnds]]
  BY DEF IInv
<1>2. Items' = Items
  BY DEF Items
<1> QED
  BY <1>1, <1>2, Kept

\* What the invariant says of one stream.
LEMMA IInvIs ==
    ASSUME IInv, NEW s \in Ids
    PROVE  /\ Conn \in Conns /\ q[s] \in QStream /\ QuicOk(q[s], s)
           /\ q \in [Ids -> QStream] /\ h \in H3Conn /\ Conn.q = q /\ Conn.h = h
           /\ Tracked(Conn, s, Items[s]) /\ Good(Conn, Items)
<1>1. Good(Conn, Items) /\ Conn \in Conns /\ Tracked(Conn, s, Items[s])
  BY DEF IInv, Good
<1>2. Conn.q = q /\ Conn.h = h
  BY DEF Conn
<1>3. q \in [Ids -> QStream] /\ h \in H3Conn
  BY <1>1, <1>2, ConnIs
<1>4. QuicOk(q[s], s)
  BY <1>1, <1>2 DEF Tracked
<1> QED
  BY <1>1, <1>2, <1>3, <1>4

\* A step of the QUIC stream alone.
LEMMA QuicOnly ==
    ASSUME IInv, NEW s \in Ids, UNCHANGED <<scenario, h, got>>,
           NEW y \in QStream, q' = [q EXCEPT ![s] = y], QuicOk(y, s), q[s].off <= y.off,
           Spent(q[s]) => Spent(y), y.off = q[s].off \/ Spent(y),
           ~scenario.is_server /\ is_bidi(s) /\ s >= h.next => y.arrived = 0 /\ y.end = "none"
    PROVE  IInv'
<1> DEFINE c == Conn
           told == Items
           d == [c EXCEPT !.q[s] = y]
<1>0. scenario \in Scenarios
  BY DEF IInv
<1>1. Good(c, told) /\ c.q = q /\ c.h = h
  BY IInvIs
<1>2. d = Conn'
  BY DEF Conn
<1> HIDE DEF c, told
<1>3. Good(d, told)
  BY <1>0, <1>1, QuicStep
<1> QED
  BY <1>2, <1>3, SilentStep DEF told

\* More of a stream arrives, in order.
LEMMA ArriveStep ==
    ASSUME IInv, NEW s \in Ids, NEW n \in Nat, NEW fin \in BOOLEAN, Arrive(s, n, fin)
    PROVE  IInv'
<1> DEFINE x == q[s]
           note == fin /\ n = 0 /\ x.off = x.arrived /\ ~x.drain
           z == [x EXCEPT !.arrived = @ + n, !.end = IF fin THEN "fin" ELSE "none",
                          !.note = note]
           more == x.queued \/ Readable(z)
           y == [z EXCEPT !.queued = more]
<1>0. scenario \in Scenarios
  BY DEF IInv
<1>1. x \in QStream /\ QuicOk(x, s) /\ h \in H3Conn
  BY IInvIs
<1>2. /\ Opened(s) /\ x.end = "none" /\ x.arrived + n <= Len(scenario.tokens[s])
      /\ UNCHANGED <<scenario, h, got>> /\ q' = [q EXCEPT ![s] = y]
  BY DEF Arrive, Changed
<1>3. ~x.gone /\ (~scenario.is_server /\ is_bidi(s) => s < h.next)
  BY <1>0, <1>2, ScenariosAssumption DEF Opened
<1> HIDE DEF x
<1>4. note \in BOOLEAN
  OBVIOUS
<1>5. more \in BOOLEAN
  <2> HIDE DEF z
  <2> QED
    BY <1>1 DEF QStream, Readable
<1>6. (note => ~x.drain) /\ x.drain \in BOOLEAN
  BY <1>1 DEF QStream
<1> HIDE DEF note, more
<1>7. /\ y \in QStream /\ y.arrived = x.arrived + n /\ y.off = x.off
      /\ y.end = (IF fin THEN "fin" ELSE "none") /\ y.drain = x.drain /\ y.gone = x.gone
      /\ y.note = note
  <2> DEFINE arrived == x.arrived + n
             end == IF fin THEN "fin" ELSE "none"
  <2>1. arrived \in Nat /\ end \in {"none", "fin"}
    BY <1>1 DEF QStream
  <2>2. y = [x EXCEPT !.arrived = arrived, !.end = end, !.note = note, !.queued = more]
    BY <1>1 DEF QStream
  <2> HIDE DEF arrived, end, y
  <2>3. /\ y \in QStream /\ y.arrived = arrived /\ y.off = x.off /\ y.end = end
        /\ y.drain = x.drain /\ y.gone = x.gone /\ y.note = note
    BY <1>1, <1>4, <1>5, <2>1, <2>2 DEF QStream
  <2> QED
    BY <2>3 DEF arrived, end
<1> HIDE DEF y
<1>8. QuicOk(y, s)
  BY <1>1, <1>2, <1>3, <1>6, <1>7 DEF QuicOk, QStream
<1>9. Spent(x) => Spent(y)
  BY <1>2, <1>7 DEF Spent
<1>10. ~(~scenario.is_server /\ is_bidi(s) /\ s >= h.next)
  <2>1. s \in Nat /\ h.next \in Nat
    BY <1>1, BoundsAssumption DEF H3Conn
  <2> QED
    BY <1>3, <2>1
<1>11. x.off <= y.off
  BY <1>1, <1>7 DEF QStream
<1> QED
  BY <1>2, <1>7, <1>8, <1>9, <1>10, <1>11, QuicOnly DEF x

\* The peer resets a stream.
LEMMA ResetStep ==
    ASSUME IInv, NEW s \in Ids, Reset(s)
    PROVE  IInv'
<1> DEFINE x == q[s]
           note == x.end = "none" /\ ~x.drain
           z == [x EXCEPT !.end = IF x.end = "none" THEN "reset" ELSE "cleared",
                          !.off = x.arrived, !.note = note]
           more == x.queued \/ Readable(z)
           y == [z EXCEPT !.queued = more]
<1>0. scenario \in Scenarios
  BY DEF IInv
<1>1. x \in QStream /\ QuicOk(x, s) /\ h \in H3Conn
  BY IInvIs
<1>2. /\ Opened(s) /\ UNCHANGED <<scenario, h, got>> /\ q' = [q EXCEPT ![s] = y]
  BY DEF Reset, Changed
<1>3. ~x.gone /\ (~scenario.is_server /\ is_bidi(s) => s < h.next)
  BY <1>0, <1>2, ScenariosAssumption DEF Opened
<1> HIDE DEF x
<1>4. note \in BOOLEAN
  OBVIOUS
<1>5. more \in BOOLEAN
  <2> HIDE DEF z
  <2> QED
    BY <1>1 DEF QStream, Readable
<1>6. (note => ~x.drain) /\ x.drain \in BOOLEAN
  BY <1>1 DEF QStream
<1> HIDE DEF note, more
<1>7. /\ y \in QStream /\ y.arrived = x.arrived /\ y.off = x.arrived
      /\ y.end = (IF x.end = "none" THEN "reset" ELSE "cleared") /\ y.drain = x.drain
      /\ y.gone = x.gone /\ y.note = note
  BY <1>1, <1>4, <1>5 DEF QStream
<1> HIDE DEF y
<1>8. QuicOk(y, s) /\ Spent(y) /\ x.off <= y.off
  BY <1>1, <1>3, <1>6, <1>7 DEF QuicOk, QStream, Spent
<1>10. ~(~scenario.is_server /\ is_bidi(s) /\ s >= h.next)
  <2>1. s \in Nat /\ h.next \in Nat
    BY <1>1, BoundsAssumption DEF H3Conn
  <2> QED
    BY <1>3, <2>1
<1> QED
  BY <1>2, <1>7, <1>8, <1>10, QuicOnly DEF x

\* The peer asks to stop sending.
LEMMA PeerStopsStep ==
    ASSUME IInv, NEW s \in Ids, PeerStops(s)
    PROVE  IInv'
<1> DEFINE x == q[s]
           z == [x EXCEPT !.tx = "stopped"]
           more == x.queued \/ Readable(z)
           y == [z EXCEPT !.queued = more]
<1>1. x \in QStream /\ QuicOk(x, s) /\ Tracked(Conn, s, Items[s]) /\ Conn.q = q /\ Conn.h = h
  BY IInvIs
<1>2. UNCHANGED <<scenario, h, got>> /\ q' = [q EXCEPT ![s] = y]
  BY DEF PeerStops, Changed
<1>3. ~scenario.is_server /\ is_bidi(s) /\ s >= h.next => x.arrived = 0 /\ x.end = "none"
  BY <1>1 DEF Tracked
<1> HIDE DEF x
<1>5. more \in BOOLEAN
  <2> HIDE DEF z
  <2> QED
    BY <1>1 DEF QStream, Readable
<1> HIDE DEF more
<1>6. /\ y \in QStream /\ y.arrived = x.arrived /\ y.off = x.off
      /\ y.end = x.end /\ y.drain = x.drain /\ y.gone = x.gone /\ y.note = x.note
  BY <1>1, <1>5 DEF QStream
<1> HIDE DEF y
<1>8. QuicOk(y, s) /\ (Spent(x) => Spent(y)) /\ x.off <= y.off
  BY <1>1, <1>6 DEF QuicOk, QStream, Spent
<1> QED
  BY <1>2, <1>3, <1>6, <1>8, QuicOnly DEF x

\* The peer has acknowledged all that was sent.
LEMMA AckedStep ==
    ASSUME IInv, NEW s \in Ids, Acked(s)
    PROVE  IInv'
<1> DEFINE x == q[s]
           gone == stream_finished(x) /\ ~Readable(x)
           y == [x EXCEPT !.tx = "acked", !.gone = gone]
<1>1. /\ x \in QStream /\ QuicOk(x, s) /\ Tracked(Conn, s, Items[s]) /\ Conn.q = q /\ Conn.h = h
      /\ q \in [Ids -> QStream]
  BY IInvIs
<1>2. UNCHANGED <<scenario, h, got>> /\ q' = [q EXCEPT ![s] = y] /\ ~x.gone
  BY <1>1 DEF Acked, Opened
<1>3. ~scenario.is_server /\ is_bidi(s) /\ s >= h.next => x.arrived = 0 /\ x.end = "none"
  BY <1>1 DEF Tracked
<1> HIDE DEF x
<1>5. gone \in BOOLEAN /\ (gone => x.off = x.arrived /\ x.end # "none")
  BY <1>1, <1>2 DEF stream_finished, QuicOk, Readable, QStream
<1> HIDE DEF gone
<1>6. /\ y \in QStream /\ y.arrived = x.arrived /\ y.off = x.off
      /\ y.end = x.end /\ y.drain = x.drain /\ y.gone = gone /\ y.note = x.note
  BY <1>1, <1>5 DEF QStream
<1> HIDE DEF y
<1>8. QuicOk(y, s) /\ (Spent(x) => Spent(y)) /\ x.off <= y.off
  BY <1>1, <1>5, <1>6 DEF QuicOk, QStream, Spent
<1> QED
  BY <1>2, <1>3, <1>6, <1>8, QuicOnly DEF x

\* The next id of the client grows; what it has not used yet is silent.
LEMMA NextLater ==
    ASSUME NEW c, NEW items, Good(c, items), NEW n \in Nat, c.h.next <= n
    PROVE  Good([c EXCEPT !.h.next = n], items)
<1> DEFINE g == [c.h EXCEPT !.next = n]
           d == [c EXCEPT !.h.next = n]
<1>0. /\ c \in Conns /\ items \in [Ids -> Seq(Int)] /\ \A i \in Ids : Tracked(c, i, items[i])
  BY DEF Good
<1>1. c.q \in [Ids -> QStream] /\ c.h \in H3Conn /\ c = [q |-> c.q, h |-> c.h] /\ c.h.next \in Nat
  BY <1>0, ConnIs
<1>2. /\ g \in H3Conn /\ g.streams = c.h.streams /\ g.control = c.h.control
      /\ g.next = n /\ g.closed = c.h.closed
  BY <1>1 DEF H3Conn
<1>3. d = [q |-> c.q, h |-> g]
  <2>1. d = [c EXCEPT !.h = g]
    OBVIOUS
  <2> HIDE DEF d, g
  <2> QED
    BY <1>1, <2>1
<1> HIDE DEF g, d
<1>4. d \in Conns /\ d.q = c.q /\ d.h = g
  BY <1>1, <1>2, <1>3 DEF Conns
<1>5. ASSUME NEW s \in Ids PROVE Tracked(d, s, items[s])
  <2>1. Tracked(c, s, items[s])
    BY <1>0
  <2>2. s >= n => s >= c.h.next
    BY <1>1, BoundsAssumption
  <2> QED
    BY <1>2, <1>4, <2>1, <2>2 DEF Tracked
<1> QED
  BY <1>0, <1>4, <1>5 DEF Good, d

\* The client opens a stream and sends a request on it.
LEMMA SendRequestStep ==
    ASSUME IInv, NEW fin \in BOOLEAN, NEW blocked \in BOOLEAN, SendRequest(fin, blocked)
    PROVE  IInv'
<1> DEFINE c == Conn
           told == Items
           s == h.next
           x == q[s]
           s0 == new(s, TRUE)
           st == [s0 EXCEPT !.local_initialized = ~blocked]
           f == [i \in DOMAIN h.streams \cup {s} |-> IF i = s THEN st ELSE h.streams[i]]
           n == IF blocked THEN h.next ELSE h.next + 4
           tx == IF fin /\ ~blocked THEN "fin" ELSE x.tx
           y == [x EXCEPT !.tx = tx]
           e == [c EXCEPT !.h.streams =
                   [i \in DOMAIN @ \cup {s} |-> IF i = s THEN st ELSE @[i]]]
           e2 == [e EXCEPT !.q[s] = y]
           e3 == [e2 EXCEPT !.h.next = n]
<1>0. scenario \in Scenarios /\ ~scenario.is_server /\ s \in Ids /\ is_bidi(s)
      /\ UNCHANGED <<scenario, got>>
  BY DEF IInv, SendRequest
<1>1. /\ c \in Conns /\ x \in QStream /\ QuicOk(x, s) /\ q \in [Ids -> QStream] /\ h \in H3Conn
      /\ c.q = q /\ c.h = h /\ Tracked(c, s, told[s]) /\ Good(c, told)
  BY <1>0, IInvIs
<1>2. /\ told[s] \in Seq(Int) /\ told \in [Ids -> Seq(Int)] /\ s \in Nat /\ s \in Int
  <2> HIDE DEF c, told, s
  <2>1. told \in [Ids -> Seq(Int)]
    BY <1>1 DEF Good
  <2> QED
    BY <1>0, <2>1, BoundsAssumption
<1>3. x.arrived = 0 /\ x.end = "none" /\ x.off = 0
  <2>1. x.arrived = 0 /\ x.end = "none"
    BY <1>0, <1>1, <1>2 DEF Tracked
  <2> HIDE DEF x
  <2> QED
    BY <1>1, <2>1 DEF QuicOk, QStream
<1>4. /\ st \in H3Stream /\ st.ty = "Request" /\ st.state = "FrameType" /\ st.len = 1 /\ st.off = 0
  <2>1. s0 \in H3Stream /\ s0.ty = "Request" /\ s0.state = "FrameType" /\ s0.len = 1 /\ s0.off = 0
    <3> HIDE DEF s0, s
    <3>1. TRUE \in BOOLEAN
      OBVIOUS
    <3> QED
      BY <1>0, <3>1, NewIs DEF s0
  <2> HIDE DEF s0
  <2> QED
    BY <2>1 DEF H3Stream
<1> HIDE DEF st
<1>5. Put(c, e, s) /\ e.h.streams[s] = st
  <2> HIDE DEF c, s
  <2>1. LET g == [c EXCEPT !.h.streams =
                    [i \in DOMAIN @ \cup {s} |-> IF i = s THEN st ELSE @[i]]]
        IN  Put(c, g, s) /\ g.h.streams[s] = st
    <3>1. c \in Conns /\ s \in Int /\ st \in H3Stream
      BY <1>1, <1>2, <1>4
    <3> QED
      BY ONLY <3>1, PutAdded
  <2> QED
    BY ONLY <2>1 DEF e
<1>6. e = [q |-> q, h |-> [h EXCEPT !.streams = f]]
  BY DEF Conn
<1> HIDE DEF f
<1>7. /\ e3 = [q |-> [q EXCEPT ![s] = y], h |-> [[h EXCEPT !.streams = f] EXCEPT !.next = n]]
      /\ e2 = [q |-> [q EXCEPT ![s] = y], h |-> [h EXCEPT !.streams = f]]
  <2> DEFINE h1 == [h EXCEPT !.streams = f]
             q1 == [q EXCEPT ![s] = y]
             h2 == [h1 EXCEPT !.next = n]
  <2>1. e.q = q /\ e = [q |-> q, h |-> h1]
    BY <1>6
  <2>2. e2 = [e EXCEPT !.q = q1]
    <3> HIDE DEF e, y
    <3> QED
      BY <2>1
  <2> HIDE DEF e, e2, h1, q1
  <2>3. e2 = [q |-> q1, h |-> h1] /\ e2.h = h1
    BY <2>1, <2>2
  <2>4. e3 = [e2 EXCEPT !.h = h2]
    BY <2>3
  <2> HIDE DEF h2, e3
  <2>5. e3 = [q |-> q1, h |-> h2]
    BY <2>3, <2>4
  <2> QED
    BY <2>3, <2>5 DEF h1, h2, q1
<1>8. Conn' = e3
  <2>1. h' = [h EXCEPT !.streams = f, !.next = n]
    BY DEF SendRequest, f, st
  <2>2. q' = [q EXCEPT ![s].tx = IF fin /\ ~blocked THEN "fin" ELSE @]
    BY DEF SendRequest
  <2>3. q' = [q EXCEPT ![s] = y]
    BY <2>2, Zenon
  <2>4. [h EXCEPT !.streams = f, !.next = n] = [[h EXCEPT !.streams = f] EXCEPT !.next = n]
    BY <1>1 DEF H3Conn
  <2> HIDE DEF e3
  <2> QED
    BY <1>7, <2>1, <2>3, <2>4 DEF Conn
<1>9. tx \in {"open", "fin", "stopped", "acked"}
  BY <1>1 DEF QStream
<1>10. n \in Nat /\ h.next <= n
  BY <1>2
<1> HIDE DEF x, tx, e, n, c, told
<1>11. /\ y \in QStream /\ y.arrived = x.arrived /\ y.off = x.off /\ y.end = x.end
       /\ y.drain = x.drain /\ y.gone = x.gone /\ y.note = x.note
  BY <1>1, <1>9 DEF QStream
<1> HIDE DEF y
<1>12. QuicOk(y, s) /\ (Spent(x) => Spent(y)) /\ x.off <= y.off
  BY <1>1, <1>11 DEF QuicOk, QStream, Spent
<1>13. Good(e, told)
  <2>1. IsPrefix(told[s], Heard(s)[x.off].items)
    <3>1. CASE s \in DOMAIN c.h.streams
      <4> DEFINE p == Pending(c.h.streams[s])
      <4>1. p \in Seq(Int) /\ IsPrefix(told[s] \o p, Heard(s)[x.off].items)
        BY <1>1, <3>1, PendingIs DEF Tracked, x
      <4> HIDE DEF p, s
      <4> QED
        BY <1>0, <1>1, <1>2, <4>1, OffIs, PrefixLess
    <3>2. CASE s \notin DOMAIN c.h.streams
      BY <1>1, <3>2 DEF Tracked, x
    <3> QED
      BY <3>1, <3>2
  <2>2. View(s, x, st, told[s])
    <3> HIDE DEF s
    <3> QED
      BY <1>0, <1>1, <1>2, <1>3, <1>4, <2>1, ViewNew
  <2>3. c.h.control # s
    <3>1. ASSUME c.h.control = s PROVE FALSE
      <4> DEFINE old == c.h.streams[s]
      <4>1. s \in DOMAIN c.h.streams /\ old.ty = "Control"
        BY <1>1, <3>1 DEF Tracked
      <4>2. Shape(s, old) /\ old \in H3Stream
        BY <1>1, <4>1, ConnIs DEF Tracked
      <4> HIDE DEF old, s
      <4> QED
        BY <1>0, <4>1, <4>2, ShapeIs
    <3> QED
      BY <3>1
  <2>4. Tracked(e, s, told[s])
    <3>1. s \in DOMAIN e.h.streams /\ e.q[s] = x /\ e.h.control # s
      BY <1>1, <1>5, <2>3 DEF Put, x
    <3> QED
      BY <1>3, <1>5, <2>2, <3>1, ViewTracked
  <2> QED
    BY <1>1, <1>5, <2>4, PutGood
<1>14. Good(e2, told)
  <2>1. e.q[s] = x
    BY <1>1, <1>5 DEF Put, x
  <2> HIDE DEF s, e2
  <2>2. Good([e EXCEPT !.q[s] = y], told)
    BY <1>0, <1>3, <1>11, <1>12, <1>13, <2>1, QuicStep
  <2> QED
    BY <2>2 DEF e2
<1>15. Good(e3, told)
  <2>1. e2.h.next = h.next
    BY <1>1, <1>7 DEF H3Conn
  <2> HIDE DEF e2, e3
  <2>2. Good([e2 EXCEPT !.h.next = n], told)
    BY <1>10, <1>14, <2>1, NextLater
  <2> QED
    BY <2>2 DEF e3
<1> HIDE DEF e3
<1> QED
  BY <1>0, <1>8, <1>15, SilentStep DEF told

\* A response or a body is sent; with both directions over the stream is forgotten.
LEMMA SendStep ==
    ASSUME IInv, NEW s \in Ids, NEW fin \in BOOLEAN, s \in DOMAIN h.streams, is_bidi(s), Send(s, fin)
    PROVE  IInv'
<1> DEFINE c == Conn
           told == Items
           x == q[s]
           old == h.streams[s]
           failed == x.gone \/ x.tx # "open"
           st == [old EXCEPT !.local_initialized = TRUE]
           less == [i \in DOMAIN h.streams \ {s} |-> h.streams[i]]
           more == [h.streams EXCEPT ![s] = st]
           streams == IF (failed \/ fin) /\ stream_finished(x) THEN less
                      ELSE IF failed THEN h.streams ELSE more
           tx == IF fin /\ ~failed THEN "fin" ELSE x.tx
           y == [x EXCEPT !.tx = tx]
           e == [c EXCEPT !.h.streams = streams]
           e2 == [e EXCEPT !.q[s] = y]
<1>0. scenario \in Scenarios /\ UNCHANGED <<scenario, got>>
  BY DEF IInv, Send
<1>1. /\ c \in Conns /\ x \in QStream /\ QuicOk(x, s) /\ q \in [Ids -> QStream] /\ h \in H3Conn
      /\ c.q = q /\ c.h = h /\ Tracked(c, s, told[s]) /\ Good(c, told)
  BY IInvIs
<1>2. h' = [h EXCEPT !.streams = streams]
  BY Zenon DEF Send
<1>3. q' = [q EXCEPT ![s] = y]
  <2>1. q' = [q EXCEPT ![s].tx = IF fin /\ ~failed THEN "fin" ELSE @]
    BY Zenon DEF Send
  <2> QED
    BY <2>1, Zenon
<1>4. ~scenario.is_server /\ is_bidi(s) /\ s >= h.next => x.arrived = 0 /\ x.end = "none"
  BY <1>1 DEF Tracked
<1>5. tx \in {"open", "fin", "stopped", "acked"}
  BY <1>1 DEF QStream
<1>6. e = [q |-> q, h |-> [h EXCEPT !.streams = streams]]
  <2> HIDE DEF streams
  <2> QED
    BY DEF Conn
<1>7. Conn' = e2
  <2> DEFINE h1 == [h EXCEPT !.streams = streams]
             q1 == [q EXCEPT ![s] = y]
  <2>1. e.q = q /\ e = [q |-> q, h |-> h1]
    <3> HIDE DEF h1, e
    <3> QED
      BY <1>6 DEF h1
  <2>2. e2 = [e EXCEPT !.q = q1]
    <3> HIDE DEF e, y
    <3> QED
      BY <2>1
  <2>3. Conn' = [q |-> q1, h |-> h1]
    <3> HIDE DEF streams, y
    <3> QED
      BY <1>2, <1>3 DEF Conn
  <2> HIDE DEF e, e2, h1, q1
  <2> QED
    BY <2>1, <2>2, <2>3
<1>8. Good(e, told)
  <2>1. old \in H3Stream /\ c.h.streams \in Tables /\ c.h.streams = h.streams
    BY <1>1, ConnIs
  <2>2. CASE (failed \/ fin) /\ stream_finished(x)
    <3>1. e = [c EXCEPT !.h.streams = [i \in DOMAIN c.h.streams \ {s} |-> c.h.streams[i]]]
      <4>1. streams = less
        BY <2>2
      <4>2. less = [i \in DOMAIN c.h.streams \ {s} |-> c.h.streams[i]]
        BY <2>1
      <4> HIDE DEF c, less, streams
      <4> QED
        BY <4>1, <4>2
    <3> HIDE DEF e, c, told
    <3>2. c.q[s] = x /\ s \in DOMAIN c.h.streams
      BY <1>1
    <3> QED
      BY <1>0, <1>1, <2>2, <3>1, <3>2, Forgotten
  <2>3. CASE failed /\ ~stream_finished(x)
    <3>1. streams = h.streams
      BY <2>3
    <3>2. [h EXCEPT !.streams = h.streams] = h
      BY <1>1 DEF H3Conn
    <3> HIDE DEF streams, e, c
    <3>3. e = [q |-> q, h |-> h]
      BY <1>6, <3>1, <3>2
    <3> QED
      BY <1>1, <3>3 DEF Conn, c
  <2>4. CASE ~failed /\ ~((failed \/ fin) /\ stream_finished(x))
    <3>1. streams = more
      BY <2>4
    <3>2. /\ st \in H3Stream /\ st.ty = old.ty /\ st.state = old.state /\ st.len = old.len
          /\ st.off = old.off /\ st.frame_type = old.frame_type
      <4> HIDE DEF old
      <4> QED
        BY <2>1 DEF H3Stream
    <3> HIDE DEF st
    <3>3. e = [c EXCEPT !.h.streams[s] = st]
      <4> HIDE DEF streams
      <4>1. e = [c EXCEPT !.h.streams = [h.streams EXCEPT ![s] = st]]
        BY <3>1
      <4> HIDE DEF e, c
      <4>2. [c EXCEPT !.h.streams[s] = st] = [c EXCEPT !.h.streams = [c.h.streams EXCEPT ![s] = st]]
        BY Zenon
      <4> QED
        BY <2>1, <4>1, <4>2
    <3> HIDE DEF c, e, told
    <3>4. s \in DOMAIN c.h.streams /\ c.h.streams[s] = old
      BY <1>1
    <3> HIDE DEF old
    <3> QED
      BY <1>1, <3>2, <3>3, <3>4, SameStream
  <2> QED
    BY <2>2, <2>3, <2>4
<1>9. e.q[s] = x /\ e.h.next = h.next
  <2> HIDE DEF streams, e
  <2> QED
    BY <1>1, <1>6 DEF H3Conn
<1> HIDE DEF x, tx, e, e2, c, told
<1>10. /\ y \in QStream /\ y.arrived = x.arrived /\ y.off = x.off /\ y.end = x.end
       /\ y.drain = x.drain /\ y.gone = x.gone /\ y.note = x.note
  BY <1>1, <1>5 DEF QStream
<1> HIDE DEF y
<1>11. QuicOk(y, s) /\ (Spent(x) => Spent(y)) /\ x.off <= y.off
  BY <1>1, <1>10 DEF QuicOk, QStream, Spent
<1>12. Good(e2, told)
  <2>1. Good([e EXCEPT !.q[s] = y], told)
    BY <1>0, <1>4, <1>8, <1>9, <1>10, <1>11, QuicStep
  <2> QED
    BY <2>1 DEF e2
<1> QED
  BY <1>0, <1>7, <1>12, SilentStep DEF told

\* The application takes a PRIORITY_UPDATE.
LEMMA PriorityTakenStep ==
    ASSUME IInv, NEW s \in Ids, take_last_priority_update(s)
    PROVE  IInv'
<1> DEFINE c == Conn
           told == Items
           old == h.streams[s]
           st == [old EXCEPT !.priority_update = FALSE]
           e == [c EXCEPT !.h.streams[s] = st]
<1>1. /\ c \in Conns /\ h \in H3Conn
      /\ c.q = q /\ c.h = h /\ Good(c, told) /\ s \in DOMAIN h.streams
      /\ UNCHANGED <<scenario, got, q>>
  BY IInvIs DEF take_last_priority_update
<1>2. old \in H3Stream
  BY <1>1, ConnIs
<1>3. Conn' = e
  <2>1. h' = [h EXCEPT !.streams[s] = st]
    BY DEF take_last_priority_update
  <2> HIDE DEF st
  <2> QED
    BY <1>1, <2>1 DEF Conn
<1> HIDE DEF old
<1>4. /\ st \in H3Stream /\ st.ty = old.ty /\ st.state = old.state /\ st.len = old.len
      /\ st.off = old.off /\ st.frame_type = old.frame_type
  BY <1>2 DEF H3Stream
<1> HIDE DEF st, c, e, told
<1>5. Good(e, told)
  <2>1. s \in DOMAIN c.h.streams /\ c.h.streams[s] = old
    BY <1>1 DEF old
  <2> QED
    BY <1>1, <1>4, <2>1, SameStream DEF e
<1> QED
  BY <1>1, <1>3, <1>5, SilentStep DEF told

\* The invariant holds at first.
LEMMA InitInv == Init => IInv
<1> SUFFICES ASSUME Init PROVE IInv
  OBVIOUS
<1> DEFINE c == Conn
           told == Items
<1>1. scenario \in Scenarios /\ got \in [Ids -> [items : Seq(Int), ends : TheEnds]]
  BY DEF Init, TheEnds
<1>2. told \in [Ids -> Seq(Int)] /\ \A s \in Ids : told[s] = <<>>
  BY DEF Init, Items
<1>3. q \in [Ids -> QStream] /\ \A s \in Ids : q[s] = Quiet
  <2>1. Quiet \in QStream
    BY DEF Quiet, QStream
  <2> QED
    BY <2>1 DEF Init
<1>4. h \in H3Conn /\ DOMAIN h.streams = {} /\ h.control = None
  <2>1. <<>> \in Tables
    <3>1. [i \in {} |-> 0] \in [{} -> H3Stream] /\ <<>> = [i \in {} |-> 0]
      OBVIOUS
    <3> QED
      BY <3>1 DEF Tables
  <2>2. <<>> \in Seq(Ids)
    OBVIOUS
  <2> QED
    BY <2>1, <2>2 DEF Init, H3Conn, None
<1>5. c \in Conns /\ c.q = q /\ c.h = h
  BY <1>3, <1>4 DEF Conn, Conns
<1> HIDE DEF c, told
<1>6. ASSUME NEW s \in Ids PROVE Tracked(c, s, told[s])
  <2>1. /\ q[s].off = 0 /\ q[s].arrived = 0 /\ q[s].end = "none" /\ ~q[s].drain /\ ~q[s].gone
    BY <1>3 DEF Quiet
  <2>2. QuicOk(q[s], s)
    BY <1>1, <2>1, TokensAre DEF QuicOk
  <2>3. IsPrefix(<<>>, Heard(s)[0].items)
    <3>1. Heard(s)[0].items = <<>>
      <4>1. Heard(s)[0] = Start(s)
        BY <1>1, HeardSteps
      <4>2. Start(s).items = <<>>
        BY DEF Start
      <4> QED
        BY <4>1, <4>2
    <3>2. <<>> \in Seq(Int)
      OBVIOUS
    <3> QED
      BY <3>1, <3>2, PrefixSelf
  <2>4. h.control # s
    BY <1>4, BoundsAssumption DEF None
  <2> QED
    BY <1>2, <1>4, <1>5, <2>1, <2>2, <2>3, <2>4 DEF Tracked
<1> QED
  BY <1>1, <1>2, <1>5, <1>6 DEF IInv, Good, c, told

\* Every step keeps it.
LEMMA NextInv == IInv /\ [Next]_vars => IInv'
<1> SUFFICES ASSUME IInv, [Next]_vars PROVE IInv'
  OBVIOUS
<1>1. CASE Poll
  BY <1>1, PollStep
<1>2. ASSUME NEW s \in Ids, NEW n \in 0 .. Len(scenario.tokens[s]), NEW fin \in BOOLEAN,
             Arrive(s, n, fin)
      PROVE  IInv'
  <2>1. n \in Nat
    BY TokensAre DEF IInv
  <2> QED
    BY <1>2, <2>1, ArriveStep
<1>3. ASSUME NEW s \in Ids, Reset(s) PROVE IInv'
  BY <1>3, ResetStep
<1>4. ASSUME NEW s \in Ids, PeerStops(s) PROVE IInv'
  BY <1>4, PeerStopsStep
<1>5. ASSUME NEW s \in Ids, Acked(s) PROVE IInv'
  BY <1>5, AckedStep
<1>6. ASSUME NEW s \in Ids, NEW n \in BufSizes, RecvBody(s, n) PROVE IInv'
  BY <1>6, RecvBodyStep
<1>7. ASSUME NEW s \in Ids, NEW fin \in BOOLEAN, SendResponse(s, fin) PROVE IInv'
  BY <1>7, SendStep DEF SendResponse
<1>8. ASSUME NEW s \in Ids, SendBody(s) PROVE IInv'
  <2>1. TRUE \in BOOLEAN
    OBVIOUS
  <2> QED
    BY <1>8, <2>1, SendStep DEF SendBody
<1>9. ASSUME NEW s \in Ids, take_last_priority_update(s) PROVE IInv'
  BY <1>9, PriorityTakenStep
<1>10. ASSUME NEW fin \in BOOLEAN, NEW blocked \in BOOLEAN, SendRequest(fin, blocked) PROVE IInv'
  BY <1>10, SendRequestStep
<1>11. CASE UNCHANGED vars
  <2>1. Conn' = Conn /\ Good(Conn, Items) /\ UNCHANGED <<scenario, got>>
    BY <1>11 DEF vars, Conn, IInv
  <2> QED
    BY <2>1, SilentStep
<1> QED
  BY <1>1, <1>2, <1>3, <1>4, <1>5, <1>6, <1>7, <1>8, <1>9, <1>10, <1>11 DEF Next

\* The inductive invariant: the parser of every stream is where the tokens it has read have
\* brought the reference, or nothing of the stream is left to read, or the connection is
\* closed; what the application was told is what the reference heard, up to a frame that is
\* not handled yet.
THEOREM Invariance == Spec => []IInv
  BY InitInv, NextInv, PTL DEF Spec

\* What the application is given of a stream is, in its order, what the peer sent: for every
\* number of streams, every scenario, every way the tokens arrive and every size of buffer.
THEOREM InOrder == Spec => []DeliveredInOrder
<1>1. IInv => DeliveredInOrder
  <2> SUFFICES ASSUME IInv, NEW s \in Ids
               PROVE  IsPrefix(got[s].items, Message(s, q[s].arrived))
    BY DEF DeliveredInOrder
  <2> DEFINE told == Items[s]
             x == q[s]
             n == x.arrived
  <2>1. /\ scenario \in Scenarios /\ got[s].items = told /\ told \in Seq(Int)
    BY GotIs DEF IInv
  <2>2. x \in QStream /\ QuicOk(x, s) /\ Tracked(Conn, s, told) /\ Conn.q = q /\ Conn.h = h
        /\ Conn \in Conns
    BY IInvIs
  <2>3. IsPrefix(told, Heard(s)[x.off].items)
    <3>1. CASE s \in DOMAIN h.streams
      <4> DEFINE p == Pending(h.streams[s])
      <4>1. p \in Seq(Int) /\ IsPrefix(told \o p, Heard(s)[x.off].items)
        BY <2>2, <3>1, PendingIs DEF Tracked
      <4> HIDE DEF p, told, x
      <4> QED
        BY <2>1, <2>2, <4>1, OffIs, PrefixLess
    <3>2. CASE s \notin DOMAIN h.streams
      BY <2>2, <3>2 DEF Tracked
    <3> QED
      BY <3>1, <3>2
  <2> HIDE DEF told, x
  <2>4. n \in 0 .. Len(scenario.tokens[s]) /\ x.off \in 0 .. n
    BY <2>1, <2>2, TokensAre DEF QuicOk, QStream
  <2>5. IsPrefix(Heard(s)[x.off].items, Heard(s)[n].items)
    BY <2>1, <2>4, HeardGrows
  <2>6. Heard(s)[n].items \in Seq(Int) /\ Heard(s)[x.off].items \in Seq(Int)
    <3>1. Heard(s)[n] \in Heards
      BY <2>1, <2>4, HeardIs
    <3>2. Heard(s)[x.off].items \in Seq(Int)
      BY <2>1, <2>2, OffIs
    <3> QED
      BY <3>1, <3>2 DEF Heards
  <2>7. IsPrefix(told, Heard(s)[n].items)
    BY <2>1, <2>3, <2>5, <2>6, PrefixTrans
  <2> QED
    BY <2>1, <2>7 DEF Message, x
<1> QED
  BY <1>1, Invariance, PTL
=============================================================================
