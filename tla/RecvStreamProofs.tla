-------------------------- MODULE RecvStreamProofs --------------------------
(***************************************************************************)
(* The receive buffer keeps exactly the bytes that arrived and were not     *)
(* read, the application can read them as soon as it may, and it is told of *)
(* the end once it has all, for streams, frames and reads of any size.      *)
(***************************************************************************)
EXTENDS RecvStream, WellFoundedInduction, TLAPS

-----------------------------------------------------------------------------
(* The inductive invariant.                                                  *)

Stored(data) == UNION {Bytes(b) : b \in data}

\* The chunks of the map have keys of their own and do not overlap.
Sorted(data) ==
    \A a, b \in data :
        /\ max_off(a) = max_off(b) => a = b
        /\ max_off(a) < max_off(b) => max_off(a) <= b.off

RecvBufs == [data : SUBSET Chunk, off : Nat, len : Nat, fin_off : Nat \cup {NoFin},
             error : BOOLEAN, drain : BOOLEAN]

\* The chunks are in order, between what was read and the largest offset received; an
\* empty one is at the final size.  This holds within write and reset too.
Neat(rb) ==
    /\ rb \in RecvBufs
    /\ Sorted(rb.data)
    /\ \A b \in rb.data : rb.off <= b.off /\ max_off(b) <= rb.len
    /\ \A b \in rb.data : b.len = 0 => b.off = rb.fin_off
    /\ rb.fin_off # NoFin => rb.len <= rb.fin_off
    /\ rb.drain => rb.data = {}

\* And between two calls the length is the final size once that is known.
Tidy(rb) ==
    /\ Neat(rb)
    /\ rb.off <= rb.len
    /\ rb.fin_off # NoFin => rb.len = rb.fin_off
    /\ rb.error => rb.off = rb.fin_off

\* The peer keeps to its final size.
SizeKept ==
    /\ recv.len <= final
    /\ recv.fin_off \in {NoFin, final}
    /\ arrived \subseteq 0 .. final - 1

\* The application was told of the end.
ToldAtEnd ==
    told = "fin" => /\ recv.fin_off = final /\ recv.off = final
                    /\ 0 .. final - 1 \subseteq arrived

RecvInv ==
    /\ TypeOK
    /\ Tidy(recv)
    /\ SizeKept
    /\ StoredIsUnread
    /\ ready(recv) /\ ~collected => readable
    /\ ToldAtEnd
    /\ ~error
    /\ EndReported

-----------------------------------------------------------------------------
(* Numbers.                                                                  *)

\* A non-empty set of natural numbers has a smallest member.
LEMMA MinInSet ==
    ASSUME NEW S, S \subseteq Nat, S # {}
    PROVE  Min(S) \in S /\ \A y \in S : Min(S) <= y
<1>1. PICK x \in S : \A y \in S : ~(<<y, x>> \in OpToRel(<, Nat))
  BY NatLessThanWellFounded, WFMin
<1>2. \A y \in S : ~(y < x)
  BY <1>1, Zenon DEF OpToRel
<1>3. \A y \in S : x <= y
  BY <1>2
<1> QED
  BY <1>3 DEF Min

\* One with a bound has a largest member.
LEMMA MaxInSet ==
    ASSUME NEW S, S \subseteq Nat, S # {}, NEW n \in Nat, \A y \in S : y <= n
    PROVE  Max(S) \in S /\ \A y \in S : Max(S) >= y
<1> DEFINE T == {k \in 0 .. n : n - k \in S}
<1>1. T \subseteq Nat /\ T # {}
  <2>1. PICK y \in S : TRUE
    OBVIOUS
  <2>2. n - y \in 0 .. n /\ n - (n - y) = y
    OBVIOUS
  <2> QED
    BY <2>2, SMTT(30)
<1>2. Min(T) \in T /\ \A k \in T : Min(T) <= k
  BY <1>1, MinInSet
<1>3. ASSUME NEW y \in S PROVE n - Min(T) >= y
  <2>1. n - y \in T
    BY <1>3
  <2> QED
    BY <1>2, <2>1
<1>4. n - Min(T) \in S
  BY <1>2
<1> QED
  BY <1>3, <1>4 DEF Max

\* Of two numbers.
LEMMA OfTwo ==
    ASSUME NEW a \in Int, NEW b \in Int
    PROVE  /\ Min({a, b}) = IF a <= b THEN a ELSE b
           /\ Max({a, b}) = IF a >= b THEN a ELSE b
  BY DEF Min, Max

\* Induction, on the members of a set.
LEMMA Induction ==
    ASSUME NEW n \in Nat, NEW P, 0 \in P, \A k \in 1 .. n : k - 1 \in P => k \in P
    PROVE  n \in P
<1> SUFFICES ASSUME n \notin P PROVE FALSE
  OBVIOUS
<1> DEFINE bad == {k \in 0 .. n : k \notin P}
<1>1. bad # {} /\ bad \subseteq Nat
  OBVIOUS
<1>2. Min(bad) \in bad /\ \A y \in bad : Min(bad) <= y
  BY <1>1, MinInSet
<1>3. PICK k \in bad : \A y \in bad : k <= y
  BY <1>2
<1>4. k # 0 /\ k \in 0 .. n
  OBVIOUS
<1>5. k - 1 \in 0 .. n /\ k - 1 \notin bad
  BY <1>3, <1>4
<1> QED
  BY <1>4, <1>5

-----------------------------------------------------------------------------
(* The loops.                                                                *)

\* f are the states that the loop over the stored chunks goes through.
OverlapRun(f, data, buf, n) ==
    /\ f[0] = Alone(buf)
    /\ \A k \in 1 .. n : f[k] = OverlapAt(f[k - 1], data, buf.off, k - 1)
    /\ Overlapped(data, buf) = f[n]

\* There are such states.
LEMMA OverlapTurns ==
    ASSUME NEW data, NEW buf, NEW n \in Nat, n = LastKey(data) + 1
    PROVE  \E f : OverlapRun(f, data, buf, n)
<1> DEFINE IsRun(f, m) == f = [k \in 0 .. m |-> IF k = 0 THEN Alone(buf)
                                             ELSE OverlapAt(f[k - 1], data, buf.off, k - 1)]
           P == {m \in 0 .. n : \E f : IsRun(f, m)}
<1>1. 0 \in P
  <2> DEFINE g == [k \in 0 .. 0 |-> Alone(buf)]
  <2>1. IsRun(g, 0)
    OBVIOUS
  <2> HIDE DEF g, IsRun
  <2> QED
    BY <2>1
<1>2. ASSUME NEW m \in 1 .. n, m - 1 \in P PROVE m \in P
  <2>1. PICK f : IsRun(f, m - 1)
    BY <1>2
  <2> DEFINE g == [k \in 0 .. m |-> IF k = m THEN OverlapAt(f[m - 1], data, buf.off, m - 1)
                                  ELSE f[k]]
  <2>2. IsRun(g, m)
    <3>1. ASSUME NEW k \in 0 .. m
          PROVE  g[k] = IF k = 0 THEN Alone(buf) ELSE OverlapAt(g[k - 1], data, buf.off, k - 1)
      <4>1. CASE k = m
        BY <4>1
      <4>2. CASE k # m
        BY <2>1, <4>2
      <4> QED
        BY <4>1, <4>2
    <3> QED
      BY <3>1
  <2> HIDE DEF g, IsRun
  <2> QED
    BY <2>2
<1>3. n \in P
  <2> HIDE DEF P
  <2> QED
    BY <1>1, <1>2, Induction
<1> DEFINE h == CHOOSE f : IsRun(f, n)
<1>4. IsRun(h, n)
  BY <1>3
<1>5. Overlapped(data, buf) = h[n]
  BY DEF Overlapped
<1> HIDE DEF h
<1>6. h[0] = Alone(buf) /\ \A k \in 1 .. n : h[k] = OverlapAt(h[k - 1], data, buf.off, k - 1)
  BY <1>4
<1> QED
  BY <1>5, <1>6 DEF OverlapRun

\* f are the states that the loop that reads goes through.
ReadRun(f, rb, cap, n) ==
    /\ f[0] = [off |-> rb.off, cap |-> cap, done |-> FALSE, data |-> {}]
    /\ \A k \in 1 .. n : f[k] = ReadAt(f[k - 1], rb.data, k - 1)
    /\ ReadAll(rb, cap) = f[n]

LEMMA ReadTurns ==
    ASSUME NEW rb, NEW cap, NEW n \in Nat, n = LastKey(rb.data) + 1
    PROVE  \E f : ReadRun(f, rb, cap, n)
<1> DEFINE start == [off |-> rb.off, cap |-> cap, done |-> FALSE, data |-> {}]
           IsRun(f, m) == f = [k \in 0 .. m |-> IF k = 0 THEN start ELSE ReadAt(f[k - 1], rb.data, k - 1)]
           P == {m \in 0 .. n : \E f : IsRun(f, m)}
<1>1. 0 \in P
  <2> DEFINE g == [k \in 0 .. 0 |-> start]
  <2>1. IsRun(g, 0)
    OBVIOUS
  <2> HIDE DEF g, IsRun
  <2> QED
    BY <2>1
<1>2. ASSUME NEW m \in 1 .. n, m - 1 \in P PROVE m \in P
  <2>1. PICK f : IsRun(f, m - 1)
    BY <1>2
  <2> DEFINE g == [k \in 0 .. m |-> IF k = m THEN ReadAt(f[m - 1], rb.data, m - 1) ELSE f[k]]
  <2>2. IsRun(g, m)
    <3> HIDE DEF start
    <3>1. ASSUME NEW k \in 0 .. m
          PROVE  g[k] = IF k = 0 THEN start ELSE ReadAt(g[k - 1], rb.data, k - 1)
      <4>1. CASE k = m
        BY <4>1
      <4>2. CASE k # m
        BY <2>1, <4>2
      <4> QED
        BY <4>1, <4>2
    <3> QED
      BY <3>1
  <2> HIDE DEF g, IsRun
  <2> QED
    BY <2>2
<1>3. n \in P
  <2> HIDE DEF P
  <2> QED
    BY <1>1, <1>2, Induction
<1> DEFINE h == CHOOSE f : IsRun(f, n)
<1>4. IsRun(h, n)
  BY <1>3
<1>5. ReadAll(rb, cap) = h[n]
  BY DEF ReadAll
<1> HIDE DEF h, start
<1>6. h[0] = start /\ \A k \in 1 .. n : h[k] = ReadAt(h[k - 1], rb.data, k - 1)
  BY <1>4
<1> QED
  BY <1>5, <1>6 DEF ReadRun, start

\* f are the states that the loop over tmp_bufs goes through.
StoreRun(f, rb, buf, n) ==
    /\ f[0] = [rb |-> rb, tmp_bufs |-> <<buf>>]
    /\ \A k \in 1 .. n : f[k] = Turn(f[k - 1])
    /\ Store(rb, buf) = f[n].rb

LEMMA StoreTurns ==
    ASSUME NEW rb, NEW buf, NEW n \in Nat, n = buf.len + 1
    PROVE  \E f : StoreRun(f, rb, buf, n)
<1> DEFINE start == [rb |-> rb, tmp_bufs |-> <<buf>>]
           IsRun(f, m) == f = [k \in 0 .. m |-> IF k = 0 THEN start ELSE Turn(f[k - 1])]
           P == {m \in 0 .. n : \E f : IsRun(f, m)}
<1>1. 0 \in P
  <2> DEFINE g == [k \in 0 .. 0 |-> start]
  <2>1. IsRun(g, 0)
    OBVIOUS
  <2> HIDE DEF g, IsRun
  <2> QED
    BY <2>1
<1>2. ASSUME NEW m \in 1 .. n, m - 1 \in P PROVE m \in P
  <2>1. PICK f : IsRun(f, m - 1)
    BY <1>2
  <2> DEFINE g == [k \in 0 .. m |-> IF k = m THEN Turn(f[m - 1]) ELSE f[k]]
  <2>2. IsRun(g, m)
    <3> HIDE DEF start
    <3>1. ASSUME NEW k \in 0 .. m
          PROVE  g[k] = IF k = 0 THEN start ELSE Turn(g[k - 1])
      <4>1. CASE k = m
        BY <4>1
      <4>2. CASE k # m
        BY <2>1, <4>2
      <4> QED
        BY <4>1, <4>2
    <3> QED
      BY <3>1
  <2> HIDE DEF g, IsRun
  <2> QED
    BY <2>2
<1>3. n \in P
  <2> HIDE DEF P
  <2> QED
    BY <1>1, <1>2, Induction
<1> DEFINE h == CHOOSE f : IsRun(f, n)
<1>4. IsRun(h, n)
  BY <1>3
<1>5. Store(rb, buf) = h[n].rb
  BY DEF Store
<1> HIDE DEF h, start
<1>6. h[0] = start /\ \A k \in 1 .. n : h[k] = Turn(h[k - 1])
  BY <1>4
<1> QED
  BY <1>5, <1>6 DEF StoreRun, start

-----------------------------------------------------------------------------
(* The overlaps of new data with the stored chunks.                           *)

LEMMA ChunkEnd ==
    ASSUME NEW b \in Chunk
    PROVE  /\ b.off \in Nat /\ b.len \in Nat /\ max_off(b) \in Nat /\ b.off <= max_off(b)
           /\ max_off(b) = b.off + b.len
           /\ \A i : i \in Bytes(b) <=> i \in Nat /\ b.off <= i /\ i < max_off(b)
  BY DEF Chunk, max_off, Bytes

\* The chunk ends before the data or starts after it.
Clear(b, buf) ==
    \/ max_off(b) <= buf.off /\ max_off(b) < max_off(buf)
    \/ b.off >= max_off(buf) /\ buf.off < max_off(b)

\* What goes on after a chunk that is in the way.
Later(st, data, buf, k) ==
    \/ st.later = <<>> /\ max_off(st.buf) = max_off(buf)
    \/ /\ st.later = <<From(buf, max_off(st.buf))>>
       /\ st.buf.off < max_off(st.buf) /\ max_off(st.buf) < max_off(buf)
       /\ ~st.dup
       /\ \E c \in data : max_off(c) < k /\ c.off = max_off(st.buf)

\* The state of the loop over the chunks after the keys below k.
Scanned(st, data, buf, k) ==
    /\ st \in [buf : Chunk, later : Seq(Chunk), done : BOOLEAN, dup : BOOLEAN]
    /\ buf.off <= st.buf.off /\ max_off(st.buf) <= max_off(buf)
    /\ \A i \in Nat : buf.off <= i /\ i < st.buf.off => i \in Stored(data)
    /\ Later(st, data, buf, k)
    /\ st.dup => st.done /\ \E b \in data : b.off <= st.buf.off /\ max_off(buf) <= max_off(b)
    /\ ~st.dup => \A b \in data :
           buf.off <= max_off(b) /\ (max_off(b) < k \/ st.done) => Clear(b, st.buf)
    /\ st.buf.len = 0 => buf.len = 0

LEMMA FromUpto ==
    ASSUME NEW b \in Chunk, NEW off \in Nat, b.off <= off, off <= max_off(b)
    PROVE  /\ From(b, off) \in Chunk /\ From(b, off).off = off
           /\ max_off(From(b, off)) = max_off(b) /\ From(b, off).len = max_off(b) - off
           /\ Upto(b, off) \in Chunk /\ Upto(b, off).off = b.off /\ max_off(Upto(b, off)) = off
           /\ Upto(b, off).len = off - b.off
  BY DEF Chunk, max_off, From, Upto

LEMMA OverlapStart ==
    ASSUME NEW data \in SUBSET Chunk, NEW buf \in Chunk
    PROVE  Scanned(Alone(buf), data, buf, 0)
<1>1. /\ Alone(buf) \in [buf : Chunk, later : Seq(Chunk), done : BOOLEAN, dup : BOOLEAN]
      /\ Alone(buf).buf = buf /\ Alone(buf).later = <<>> /\ ~Alone(buf).dup /\ ~Alone(buf).done
  BY DEF Alone
<1>2. \A b \in data : max_off(b) \in Nat
  BY ChunkEnd
<1>3. buf.off \in Nat /\ max_off(buf) \in Nat
  BY ChunkEnd
<1> HIDE DEF Alone
<1> QED
  BY <1>1, <1>2, <1>3 DEF Scanned, Later

\* One round of the loop.
LEMMA OverlapStep ==
    ASSUME NEW data \in SUBSET Chunk, Sorted(data), NEW buf \in Chunk, NEW k \in Nat,
           NEW st, Scanned(st, data, buf, k)
    PROVE  Scanned(OverlapAt(st, data, buf.off, k), data, buf, k + 1)
<1>0. /\ st.buf \in Chunk /\ st.later \in Seq(Chunk) /\ st.done \in BOOLEAN /\ st.dup \in BOOLEAN
      /\ st = [buf |-> st.buf, later |-> st.later, done |-> st.done, dup |-> st.dup]
  BY DEF Scanned
<1>c. \A b \in data : /\ b.off \in Nat /\ max_off(b) \in Nat /\ b.off <= max_off(b)
                      /\ \A i : i \in Bytes(b) <=> i \in Nat /\ b.off <= i /\ i < max_off(b)
  BY ChunkEnd
<1>n. /\ buf.off \in Nat /\ max_off(buf) \in Nat /\ buf.off <= max_off(buf)
      /\ st.buf.off \in Nat /\ max_off(st.buf) \in Nat /\ st.buf.off <= max_off(st.buf)
      /\ st.buf.len \in Nat /\ max_off(st.buf) = st.buf.off + st.buf.len /\ buf.len \in Nat
  BY <1>0, ChunkEnd
<1>l. Later(st, data, buf, k) => Later(st, data, buf, k + 1)
  BY <1>c DEF Later
<1>1. CASE ~(k \in Keys(data) /\ k >= buf.off)
  <2>1. OverlapAt(st, data, buf.off, k) = st
    BY <1>1 DEF OverlapAt
  <2>2. \A b \in data : buf.off <= max_off(b) /\ max_off(b) < k + 1 => max_off(b) < k
    BY <1>1, <1>c, <1>n DEF Keys
  <2> QED
    BY <1>l, <2>1, <2>2 DEF Scanned
<1>2. CASE k \in Keys(data) /\ k >= buf.off
  <2>1. PICK b \in data : b = At(data, k) /\ max_off(b) = k
    BY <1>2 DEF Keys, At
  <2>2. OverlapAt(st, data, buf.off, k) = Overlap(st, b)
    BY <1>2, <2>1 DEF OverlapAt
  <2>3. /\ b.off \in Nat /\ b.off <= k
        /\ \A i : i \in Bytes(b) <=> i \in Nat /\ b.off <= i /\ i < k
        /\ \A c \in data : /\ max_off(c) = k => c = b
                           /\ max_off(c) < k => max_off(c) <= b.off
                           /\ k < max_off(c) => k <= c.off
    BY <1>c, <2>1 DEF Sorted
  <2>4. st.later # <<>> => max_off(st.buf) <= b.off /\ st.buf.off < max_off(st.buf)
    BY <1>c, <1>n, <2>3 DEF Scanned, Later
  <2>5. st.later = <<>> => max_off(st.buf) = max_off(buf)
    BY DEF Scanned, Later
  <2>6. CASE st.done \/ b.off > max_off(st.buf)
    <3> DEFINE t == [st EXCEPT !.done = TRUE]
    <3>1. Overlap(st, b) = t
      BY <2>6 DEF Overlap
    <3>2. /\ t \in [buf : Chunk, later : Seq(Chunk), done : BOOLEAN, dup : BOOLEAN]
          /\ t.buf = st.buf /\ t.later = st.later /\ t.done /\ t.dup = st.dup
      BY <1>0
    <3> HIDE DEF t
    <3>3. Later(t, data, buf, k + 1)
      BY <1>l, <3>2 DEF Scanned, Later
    <3>4. ~st.dup => \A c \in data : buf.off <= max_off(c) => Clear(c, st.buf)
      <4>1. CASE st.done
        BY <4>1 DEF Scanned
      <4>2. CASE ~st.done
        <5> SUFFICES ASSUME ~st.dup, NEW c \in data, buf.off <= max_off(c)
                     PROVE  Clear(c, st.buf)
          OBVIOUS
        <5>1. c.off \in Nat /\ max_off(c) \in Nat /\ c.off <= max_off(c)
          BY <1>c
        <5>2. CASE max_off(c) < k
          BY <5>2 DEF Scanned
        <5>3. CASE max_off(c) >= k
          <6>1. c.off > max_off(st.buf)
            BY <1>n, <2>3, <2>6, <4>2, <5>1, <5>3
          <6> QED
            BY <1>n, <5>1, <6>1 DEF Clear
        <5> QED
          BY <5>1, <5>2, <5>3
      <4> QED
        BY <1>0, <4>1, <4>2
    <3>5. Scanned(t, data, buf, k + 1)
      BY <3>2, <3>3, <3>4 DEF Scanned
    <3> QED
      BY <2>2, <3>1, <3>5
  <2>7. CASE ~(st.done \/ b.off > max_off(st.buf)) /\ st.buf.off >= b.off
             /\ max_off(st.buf) <= k
    <3> DEFINE t == [st EXCEPT !.done = TRUE, !.dup = TRUE]
    <3>1. Overlap(st, b) = t
      BY <2>1, <2>7 DEF Overlap
    <3>2. /\ t \in [buf : Chunk, later : Seq(Chunk), done : BOOLEAN, dup : BOOLEAN]
          /\ t.buf = st.buf /\ t.later = st.later /\ t.done /\ t.dup
      BY <1>0
    <3> HIDE DEF t
    <3>3. st.later = <<>>
      BY <1>n, <2>3, <2>4, <2>7
    <3>4. Later(t, data, buf, k + 1)
      BY <2>5, <3>2, <3>3 DEF Later
    <3>5. Scanned(t, data, buf, k + 1)
      BY <2>1, <2>5, <2>7, <3>2, <3>3, <3>4 DEF Scanned
    <3> QED
      BY <2>2, <3>1, <3>5
  <2>8. CASE ~(st.done \/ b.off > max_off(st.buf)) /\ st.buf.off >= b.off
             /\ k < max_off(st.buf) /\ st.buf.off < k
    <3> DEFINE t == [st EXCEPT !.buf = From(@, k)]
    <3>1. Overlap(st, b) = t
      BY <1>n, <2>1, <2>8 DEF Overlap
    <3>2. /\ From(st.buf, k) \in Chunk /\ From(st.buf, k).off = k
          /\ max_off(From(st.buf, k)) = max_off(st.buf)
          /\ From(st.buf, k).len = max_off(st.buf) - k
      <4>1. st.buf.off <= k /\ k <= max_off(st.buf)
        BY <1>n, <2>8
      <4> QED
        BY <1>0, <4>1, FromUpto
    <3>3. /\ t \in [buf : Chunk, later : Seq(Chunk), done : BOOLEAN, dup : BOOLEAN]
          /\ t.buf.off = k /\ max_off(t.buf) = max_off(st.buf) /\ t.later = st.later
          /\ t.done = st.done /\ t.dup = st.dup /\ t.buf.len # 0
      <4> DEFINE x == From(st.buf, k)
      <4>1. max_off(st.buf) - k # 0
        BY <1>n, <2>8
      <4>2. x \in Chunk /\ x.off = k /\ max_off(x) = max_off(st.buf) /\ x.len # 0
        BY <3>2, <4>1
      <4> HIDE DEF x
      <4>3. /\ t \in [buf : Chunk, later : Seq(Chunk), done : BOOLEAN, dup : BOOLEAN]
            /\ t.buf = x /\ t.later = st.later /\ t.done = st.done /\ t.dup = st.dup
        BY <1>0, <4>2 DEF x
      <4> QED
        BY <4>2, <4>3
    <3> HIDE DEF t
    <3>4. st.later = <<>> /\ ~st.dup
      BY <1>n, <2>3, <2>4, <2>8 DEF Scanned
    <3>5. Later(t, data, buf, k + 1)
      BY <2>5, <3>3, <3>4 DEF Later
    <3>6. ASSUME NEW i \in Nat, buf.off <= i, i < k PROVE i \in Stored(data)
      <4>1. CASE i < st.buf.off
        BY <3>6, <4>1 DEF Scanned
      <4>2. CASE i >= st.buf.off
        <5>1. b.off <= i
          BY <1>n, <2>3, <2>8, <4>2
        <5>2. i \in Bytes(b)
          BY <2>3, <3>6, <5>1
        <5> QED
          BY <5>2 DEF Stored
      <4> QED
        BY <1>n, <4>1, <4>2
    <3>7. \A c \in data : max_off(c) < k + 1 => Clear(c, t.buf)
      BY <1>c, <1>n, <2>8, <3>3 DEF Clear
    <3>8. Scanned(t, data, buf, k + 1)
      BY <1>n, <1>2, <2>8, <3>3, <3>4, <3>5, <3>6, <3>7 DEF Scanned
    <3> QED
      BY <2>2, <3>1, <3>8
  <2>9. CASE ~(st.done \/ b.off > max_off(st.buf)) /\ st.buf.off < b.off
             /\ max_off(st.buf) > b.off
    <3> DEFINE x == From(st.buf, b.off)
               y == Upto(st.buf, b.off)
               t == [st EXCEPT !.buf = y, !.later = Append(@, x)]
    <3>1. Overlap(st, b) = t
      BY <1>n, <2>1, <2>3, <2>9 DEF Overlap
    <3>2. st.later = <<>> /\ ~st.dup
      BY <1>n, <2>3, <2>4, <2>9 DEF Scanned
    <3>3. /\ x \in Chunk /\ y \in Chunk /\ y.off = st.buf.off /\ max_off(y) = b.off
          /\ y.len = b.off - st.buf.off
      BY <1>0, <1>n, <2>3, <2>9, FromUpto
    <3>4. x = From(buf, b.off)
      BY <2>5, <3>2 DEF From
    <3>5. Append(st.later, x) = <<x>> /\ <<x>> \in Seq(Chunk)
      BY <3>2, <3>3
    <3> HIDE DEF x, y
    <3>6. /\ t \in [buf : Chunk, later : Seq(Chunk), done : BOOLEAN, dup : BOOLEAN]
          /\ t.buf = y /\ t.later = <<x>> /\ t.done = st.done /\ t.dup = st.dup
      BY <1>0, <3>3, <3>5
    <3> HIDE DEF t
    <3>7. Later(t, data, buf, k + 1)
      <4>1. max_off(b) < k + 1 /\ b.off = max_off(t.buf)
        BY <2>1, <3>3, <3>6
      <4>2. max_off(t.buf) < max_off(buf) /\ t.buf.off < max_off(t.buf)
        BY <1>n, <2>3, <2>5, <2>9, <3>2, <3>3, <3>6
      <4> QED
        BY <3>2, <3>3, <3>4, <3>6, <4>1, <4>2 DEF Later
    <3>8. \A c \in data : buf.off <= max_off(c) /\ max_off(c) < k + 1 => Clear(c, y)
      <4> TAKE c \in data
      <4>1. CASE max_off(c) < k
        BY <1>c, <1>n, <2>3, <2>9, <3>2, <3>3, <4>1, SMTT(30) DEF Scanned, Clear
      <4>2. CASE max_off(c) = k
        BY <1>n, <2>3, <2>9, <3>3, <4>2 DEF Clear
      <4> QED
        BY <1>c, <4>1, <4>2
    <3>9. Scanned(t, data, buf, k + 1)
      <4>1. buf.off <= y.off /\ max_off(y) <= max_off(buf)
        BY <1>n, <2>3, <2>5, <2>9, <3>2, <3>3 DEF Scanned
      <4>2. y.len # 0
        BY <1>n, <2>3, <2>9, <3>3
      <4> QED
        BY <2>9, <3>2, <3>3, <3>6, <3>7, <3>8, <4>1, <4>2 DEF Scanned
    <3> QED
      BY <2>2, <3>1, <3>9
  <2>10. CASE /\ ~(st.done \/ b.off > max_off(st.buf))
              /\ ~(st.buf.off >= b.off /\ max_off(st.buf) <= k)
              /\ ~(st.buf.off >= b.off /\ st.buf.off < k)
              /\ ~(st.buf.off < b.off /\ max_off(st.buf) > b.off)
    <3>1. Overlap(st, b) = st
      BY <2>1, <2>10 DEF Overlap
    <3>2. Clear(b, st.buf)
      BY <1>n, <2>1, <2>3, <2>10 DEF Clear
    <3>3. \A c \in data : buf.off <= max_off(c) /\ max_off(c) < k + 1 /\ ~st.dup => Clear(c, st.buf)
      BY <1>c, <2>3, <3>2 DEF Scanned
    <3>4. Scanned(st, data, buf, k + 1)
      BY <1>l, <2>10, <3>3 DEF Scanned
    <3> QED
      BY <2>2, <3>1, <3>4
  <2> QED
    BY <1>n, <2>3, <2>6, <2>7, <2>8, <2>9, <2>10
<1> QED
  BY <1>1, <1>2

\* No key is larger than the last one.
LEMMA LastKeyIs ==
    ASSUME NEW data \in SUBSET Chunk, NEW n \in Nat, \A b \in data : max_off(b) <= n
    PROVE  LastKey(data) \in Nat /\ \A b \in data : max_off(b) <= LastKey(data)
<1> DEFINE S == Keys(data) \cup {0}
<1>1. \A b \in data : max_off(b) \in Nat
  BY ChunkEnd
<1>2. S \subseteq Nat /\ S # {} /\ \A y \in S : y <= n
  BY <1>1 DEF Keys
<1>3. \A b \in data : max_off(b) \in S
  BY DEF Keys
<1> HIDE DEF S
<1>4. Max(S) \in S /\ \A y \in S : Max(S) >= y
  BY <1>2, MaxInSet
<1>5. Max(S) \in Nat /\ \A b \in data : max_off(b) <= Max(S)
  BY <1>1, <1>2, <1>3, <1>4
<1> QED
  BY <1>5 DEF S, LastKey

\* What the loop leaves of the new data: a part no chunk overlaps, what goes on after
\* the chunk behind it, and nothing if a chunk holds all of it.
Settled(st, data, buf) ==
    /\ st \in [buf : Chunk, later : Seq(Chunk), done : BOOLEAN, dup : BOOLEAN]
    /\ buf.off <= st.buf.off /\ max_off(st.buf) <= max_off(buf)
    /\ \A i \in Nat : buf.off <= i /\ i < st.buf.off => i \in Stored(data)
    /\ \/ st.later = <<>> /\ max_off(st.buf) = max_off(buf)
       \/ /\ st.later = <<From(buf, max_off(st.buf))>>
          /\ st.buf.off < max_off(st.buf) /\ max_off(st.buf) < max_off(buf)
          /\ ~st.dup /\ data # {}
    /\ st.dup => \E b \in data : b.off <= st.buf.off /\ max_off(buf) <= max_off(b)
    /\ ~st.dup => \A b \in data : Clear(b, st.buf)
    /\ st.buf.len = 0 => buf.len = 0

LEMMA OverlapSettled ==
    ASSUME NEW data \in SUBSET Chunk, Sorted(data), NEW buf \in Chunk,
           NEW n \in Nat, \A b \in data : max_off(b) <= n
    PROVE  Settled(Overlapped(data, buf), data, buf)
<1> DEFINE m == LastKey(data) + 1
<1>1. m \in Nat /\ \A b \in data : max_off(b) < m
  <2>1. LastKey(data) \in Nat /\ \A b \in data : max_off(b) <= LastKey(data)
    BY LastKeyIs
  <2>2. \A b \in data : max_off(b) \in Nat
    BY ChunkEnd
  <2> QED
    BY <2>1, <2>2
<1>2. PICK f : OverlapRun(f, data, buf, m)
  BY <1>1, OverlapTurns
<1> HIDE DEF m
<1> DEFINE P == {k \in 0 .. m : Scanned(f[k], data, buf, k)}
<1>3. 0 \in P
  BY <1>1, <1>2, OverlapStart DEF OverlapRun
<1>4. ASSUME NEW k \in 1 .. m, k - 1 \in P PROVE k \in P
  <2>1. k - 1 \in Nat /\ (k - 1) + 1 = k /\ Scanned(f[k - 1], data, buf, k - 1)
    BY <1>4
  <2>2. Scanned(OverlapAt(f[k - 1], data, buf.off, k - 1), data, buf, (k - 1) + 1)
    BY <2>1, OverlapStep
  <2>3. f[k] = OverlapAt(f[k - 1], data, buf.off, k - 1)
    BY <1>2 DEF OverlapRun
  <2> QED
    BY <2>1, <2>2, <2>3
<1>5. m \in P
  <2> HIDE DEF P
  <2> QED
    BY <1>1, <1>3, <1>4, Induction
<1> DEFINE st == f[m]
<1>6. Scanned(st, data, buf, m) /\ Overlapped(data, buf) = st
  BY <1>2, <1>5 DEF OverlapRun
<1> HIDE DEF st, P
<1>7. st.buf \in Chunk /\ buf.off <= st.buf.off
  BY <1>6 DEF Scanned
<1>8. ASSUME NEW b \in data, ~st.dup PROVE Clear(b, st.buf)
  <2>1. CASE buf.off <= max_off(b)
    BY <1>1, <1>6, <1>8, <2>1 DEF Scanned
  <2>2. CASE max_off(b) < buf.off
    <3>1. /\ max_off(b) \in Nat /\ buf.off \in Nat
          /\ st.buf.off \in Nat /\ max_off(st.buf) \in Nat /\ st.buf.off <= max_off(st.buf)
      BY <1>7, ChunkEnd
    <3> QED
      BY <1>7, <2>2, <3>1 DEF Clear
  <2>3. max_off(b) \in Nat /\ buf.off \in Nat
    BY ChunkEnd
  <2> QED
    BY <2>1, <2>2, <2>3
<1>9. Settled(st, data, buf)
  BY <1>6, <1>8 DEF Scanned, Later, Settled
<1> QED
  BY <1>6, <1>9

\* The loop is skipped for data past all that was received.
LEMMA AloneSettled ==
    ASSUME NEW data \in SUBSET Chunk, NEW buf \in Chunk, buf.len # 0,
           \A b \in data : max_off(b) <= buf.off
    PROVE  Settled(Alone(buf), data, buf)
<1>1. /\ Alone(buf) \in [buf : Chunk, later : Seq(Chunk), done : BOOLEAN, dup : BOOLEAN]
      /\ Alone(buf).buf = buf /\ Alone(buf).later = <<>> /\ ~Alone(buf).dup
  BY DEF Alone
<1>2. /\ buf.off \in Nat /\ max_off(buf) \in Nat /\ buf.off <= max_off(buf)
      /\ buf.len \in Nat /\ max_off(buf) = buf.off + buf.len
      /\ \A b \in data : max_off(b) \in Nat
  BY ChunkEnd
<1> HIDE DEF Alone
<1>3. \A b \in data : Clear(b, buf)
  BY <1>2 DEF Clear
<1> QED
  BY <1>1, <1>2, <1>3 DEF Settled

-----------------------------------------------------------------------------
(* A round of the loop over tmp_bufs.                                         *)

\* A chunk is stored in front of one that is already there, never instead of it.
Inserted(data, buf) ==
    /\ InsertChunk(data, buf) \in SUBSET Chunk
    /\ Sorted(InsertChunk(data, buf))
    /\ Stored(InsertChunk(data, buf)) = Stored(data) \cup Bytes(buf)

LEMMA InsertClear ==
    ASSUME NEW data \in SUBSET Chunk, Sorted(data), NEW buf \in Chunk,
           \A b \in data : Clear(b, buf)
    PROVE  Inserted(data, buf)
<1> DEFINE D == InsertChunk(data, buf)
<1>1. \A b \in D : b = buf \/ (b \in data /\ max_off(b) # max_off(buf))
  BY DEF InsertChunk
<1>2. buf \in D /\ \A b \in data : max_off(b) # max_off(buf) => b \in D
  BY DEF InsertChunk
<1> HIDE DEF D
<1>3. D \in SUBSET Chunk
  BY <1>1
<1>4. \A b \in D : b.off \in Nat /\ max_off(b) \in Nat /\ b.off <= max_off(b)
  BY <1>3, ChunkEnd
<1>5. Sorted(D)
  BY <1>1, <1>2, <1>4 DEF Sorted, Clear
<1>6. \A b \in data : max_off(b) = max_off(buf) => Bytes(b) = {}
  <2> TAKE b \in data
  <2>1. /\ b.off \in Nat /\ max_off(b) \in Nat /\ max_off(buf) \in Nat
        /\ \A i : i \in Bytes(b) <=> i \in Nat /\ b.off <= i /\ i < max_off(b)
    BY ChunkEnd
  <2>2. max_off(b) = max_off(buf) => b.off >= max_off(b)
    BY <2>1 DEF Clear
  <2> QED
    BY <2>1, <2>2
<1>7. Stored(D) = Stored(data) \cup Bytes(buf)
  <2>1. \A i : i \in Stored(D) => i \in Stored(data) \cup Bytes(buf)
    BY <1>1 DEF Stored
  <2>2. \A i : i \in Bytes(buf) => i \in Stored(D)
    BY <1>2 DEF Stored
  <2>3. \A i : i \in Stored(data) => i \in Stored(D)
    BY <1>2, <1>6 DEF Stored
  <2> QED
    BY <2>1, <2>2, <2>3
<1> QED
  BY <1>3, <1>5, <1>7 DEF D, Inserted

\* The bytes of a frame that were not read yet.
Fresh(rb, buf) == {i \in Bytes(buf) : i >= rb.off}

\* The frame has something new for the buffer, or marks the end.
Wanted(rb, buf) ==
    /\ buf \in Chunk
    /\ \/ rb.off < max_off(buf) /\ buf.len # 0
       \/ rb.off <= buf.off /\ buf.len = 0 /\ buf.off = rb.fin_off
    /\ rb.fin_off # NoFin => max_off(buf) <= rb.fin_off

\* What a method that stores data leaves alone.
SameStream(s, rb) ==
    s.off = rb.off /\ s.fin_off = rb.fin_off /\ s.error = rb.error /\ s.drain = rb.drain

\* The buffer grows by bytes of the frame only, and to its end at most.
Grown(s, rb, buf) ==
    /\ Neat(s) /\ SameStream(s, rb)
    /\ rb.len <= s.len /\ (s.len <= rb.len \/ s.len <= max_off(buf))
    /\ Stored(rb.data) \subseteq Stored(s.data)
    /\ Stored(s.data) \subseteq Stored(rb.data) \cup Fresh(rb, buf)

\* The whole frame is stored, and a chunk reaches its end.
AllStored(s, rb, buf) ==
    /\ s.len >= max_off(buf)
    /\ ~rb.drain => /\ Fresh(rb, buf) \subseteq Stored(s.data)
                    /\ \E b \in s.data : max_off(b) >= max_off(buf)

\* A shorter end of the frame is left to store.
Left(t, s, rb, buf, n) ==
    \E z \in Chunk :
        /\ t = <<z>> /\ z.len # 0 /\ z.len < n
        /\ max_off(z) = max_off(buf) /\ rb.off < max_off(z)
        /\ Fresh(rb, z) \subseteq Fresh(rb, buf)
        /\ Fresh(rb, buf) \subseteq Stored(s.data) \cup Fresh(rb, z)

LEMMA TrimKeeps ==
    ASSUME NEW rb, rb.off \in Nat, NEW buf, Wanted(rb, buf)
    PROVE  /\ Trim(rb, buf) \in Chunk /\ max_off(Trim(rb, buf)) = max_off(buf)
           /\ rb.off <= Trim(rb, buf).off /\ buf.off <= Trim(rb, buf).off
           /\ Trim(rb, buf).len <= buf.len
           /\ Trim(rb, buf).len = 0 => buf.len = 0 /\ buf.off = rb.fin_off /\ Trim(rb, buf) = buf
           /\ Bytes(Trim(rb, buf)) = Fresh(rb, buf)
<1>1. /\ buf \in Chunk /\ buf.off \in Nat /\ buf.len \in Nat /\ max_off(buf) \in Nat
      /\ max_off(buf) = buf.off + buf.len
      /\ \A i : i \in Bytes(buf) <=> i \in Nat /\ buf.off <= i /\ i < max_off(buf)
  BY ChunkEnd DEF Wanted
<1>2. CASE rb.off > buf.off
  <2> DEFINE y == From(buf, rb.off)
  <2>1. Trim(rb, buf) = y
    BY <1>2 DEF Trim
  <2>2. buf.off <= rb.off /\ rb.off < max_off(buf) /\ buf.len # 0
    BY <1>1, <1>2 DEF Wanted
  <2>3. /\ y \in Chunk /\ y.off = rb.off /\ max_off(y) = max_off(buf)
        /\ y.len = max_off(buf) - rb.off
    BY <1>1, <2>2, FromUpto
  <2> HIDE DEF y
  <2>4. \A i : i \in Bytes(y) <=> i \in Nat /\ y.off <= i /\ i < max_off(y)
    BY <2>3, ChunkEnd
  <2>5. y.len # 0 /\ y.len <= buf.len
    BY <1>1, <1>2, <2>2, <2>3
  <2>6. Bytes(y) = Fresh(rb, buf)
    BY <1>1, <1>2, <2>3, <2>4 DEF Fresh
  <2> QED
    BY <1>1, <1>2, <2>1, <2>3, <2>5, <2>6
<1>3. CASE rb.off <= buf.off
  <2>1. Trim(rb, buf) = buf
    BY <1>1, <1>3 DEF Trim
  <2>2. Bytes(buf) = Fresh(rb, buf)
    BY <1>1, <1>3 DEF Fresh
  <2>3. buf.len = 0 => buf.off = rb.fin_off
    BY DEF Wanted
  <2> QED
    BY <1>1, <1>3, <2>1, <2>2, <2>3
<1> QED
  BY <1>1, <1>2, <1>3

\* One round.
Turned(s, rb, buf) ==
    /\ s = [rb |-> s.rb, tmp_bufs |-> s.tmp_bufs]
    /\ Grown(s.rb, rb, buf)
    /\ \/ s.tmp_bufs = <<>> /\ AllStored(s.rb, rb, buf)
       \/ Left(s.tmp_bufs, s.rb, rb, buf, buf.len)

LEMMA TurnStores ==
    ASSUME NEW rb, Neat(rb), NEW buf, Wanted(rb, buf)
    PROVE  Turned(Turn([rb |-> rb, tmp_bufs |-> <<buf>>]), rb, buf)
<1> DEFINE y == Trim(rb, buf)
           over == IF y.off < rb.len \/ y.len = 0 THEN Overlapped(rb.data, y) ELSE Alone(y)
           grown == [rb EXCEPT !.len = Max({@, max_off(over.buf)}),
                               !.data = IF rb.drain THEN @ ELSE InsertChunk(@, over.buf)]
           s == [rb |-> IF over.dup THEN rb ELSE grown, tmp_bufs |-> over.later]
<1>r. /\ rb.off \in Nat /\ rb.len \in Nat /\ rb.fin_off \in Nat \cup {NoFin}
      /\ rb.error \in BOOLEAN /\ rb.drain \in BOOLEAN /\ rb.data \in SUBSET Chunk
      /\ rb = [data |-> rb.data, off |-> rb.off, len |-> rb.len, fin_off |-> rb.fin_off,
               error |-> rb.error, drain |-> rb.drain]
      /\ Sorted(rb.data)
  BY DEF Neat, RecvBufs
<1>c. \A b \in rb.data : /\ b.off \in Nat /\ max_off(b) \in Nat /\ b.off <= max_off(b)
                         /\ rb.off <= b.off /\ max_off(b) <= rb.len
                         /\ \A i : i \in Bytes(b) <=> i \in Nat /\ b.off <= i /\ i < max_off(b)
  BY <1>r, ChunkEnd DEF Neat
<1>y. /\ y \in Chunk /\ max_off(y) = max_off(buf) /\ rb.off <= y.off /\ buf.off <= y.off
      /\ y.len <= buf.len
      /\ y.len = 0 => buf.len = 0 /\ buf.off = rb.fin_off /\ y = buf
      /\ Bytes(y) = Fresh(rb, buf)
  BY <1>r, TrimKeeps
<1> HIDE DEF y
<1>b. /\ buf \in Chunk /\ buf.off \in Nat /\ buf.len \in Nat /\ max_off(buf) \in Nat
      /\ y.off \in Nat /\ y.len \in Nat /\ max_off(y) = y.off + y.len
      /\ \A i : i \in Bytes(y) <=> i \in Nat /\ y.off <= i /\ i < max_off(y)
  BY <1>y, ChunkEnd DEF Wanted
<1>f. rb.fin_off # NoFin => max_off(buf) <= rb.fin_off
  BY DEF Wanted
<1>1. Settled(over, rb.data, y)
  <2>1. CASE y.off < rb.len \/ y.len = 0
    BY <1>r, <1>c, <1>y, <2>1, OverlapSettled
  <2>2. CASE ~(y.off < rb.len \/ y.len = 0)
    <3>1. \A b \in rb.data : max_off(b) <= y.off
      BY <1>r, <1>c, <1>b, <2>2
    <3> QED
      BY <1>r, <1>y, <2>2, <3>1, AloneSettled
  <2> QED
    BY <2>1, <2>2
<1>2. Turn([rb |-> rb, tmp_bufs |-> <<buf>>]) = s
  <2>1. <<buf>> # <<>> /\ Head(<<buf>>) = buf
    OBVIOUS
  <2>2. Tail(<<buf>>) \o over.later = over.later
    <3>1. over.later \in Seq(Chunk)
      BY <1>1 DEF Settled
    <3> HIDE DEF over
    <3> QED
      BY <3>1
  <2> QED
    BY <2>1, <2>2 DEF Turn, y
<1>s. s = [rb |-> s.rb, tmp_bufs |-> s.tmp_bufs]
  OBVIOUS
<1> HIDE DEF over
<1> DEFINE w == over.buf
<1>w. /\ w \in Chunk /\ over.dup \in BOOLEAN
      /\ y.off <= w.off /\ max_off(w) <= max_off(y)
      /\ w.len = 0 => y.len = 0
      /\ \A i \in Nat : y.off <= i /\ i < w.off => i \in Stored(rb.data)
  BY <1>1 DEF Settled
<1>x. /\ w.off \in Nat /\ w.len \in Nat /\ max_off(w) \in Nat /\ w.off <= max_off(w)
      /\ max_off(w) = w.off + w.len
      /\ \A i : i \in Bytes(w) <=> i \in Nat /\ w.off <= i /\ i < max_off(w)
  BY <1>w, ChunkEnd
<1>3. CASE over.dup
  <2>1. s.rb = rb /\ s.tmp_bufs = over.later
    BY <1>3
  <2>2. over.later = <<>>
    BY <1>1, <1>3 DEF Settled
  <2>3. PICK b \in rb.data : b.off <= w.off /\ max_off(buf) <= max_off(b)
    BY <1>1, <1>3, <1>y DEF Settled
  <2>4. Fresh(rb, buf) \subseteq Stored(rb.data)
    <3> SUFFICES ASSUME NEW i \in Bytes(y) PROVE i \in Stored(rb.data)
      BY <1>y
    <3>1. i \in Nat /\ y.off <= i /\ i < max_off(y)
      BY <1>b
    <3>2. CASE i < w.off
      BY <1>w, <3>1, <3>2
    <3>3. CASE i >= w.off
      <4>1. i \in Bytes(b)
        BY <1>b, <1>c, <1>x, <1>y, <2>3, <3>1, <3>3
      <4> QED
        BY <4>1 DEF Stored
    <3> QED
      BY <1>x, <3>1, <3>2, <3>3
  <2>5. Grown(rb, rb, buf)
    BY <1>r DEF Grown, SameStream
  <2>6. AllStored(rb, rb, buf)
    <3>1. rb.len >= max_off(buf)
      BY <1>r, <1>b, <1>c, <2>3
    <3>2. max_off(b) >= max_off(buf)
      BY <1>b, <1>c, <2>3
    <3> QED
      BY <2>4, <3>1, <3>2 DEF AllStored
  <2>7. Turned(s, rb, buf)
    <3> HIDE DEF s
    <3> QED
      BY <1>s, <2>1, <2>2, <2>5, <2>6 DEF Turned
  <2> QED
    BY <1>2, <2>7
<1>4. CASE ~over.dup
  <2>1. \A b \in rb.data : Clear(b, w)
    BY <1>1, <1>4 DEF Settled
  <2>2. Inserted(rb.data, w)
    BY <1>r, <1>w, <2>1, InsertClear
  <2> DEFINE t == s.rb
             D == IF rb.drain THEN rb.data ELSE InsertChunk(rb.data, w)
             L == IF rb.len >= max_off(w) THEN rb.len ELSE max_off(w)
  <2>3. t = grown /\ s.tmp_bufs = over.later
    BY <1>4
  <2>4. Max({rb.len, max_off(w)}) = L
    <3> HIDE DEF w
    <3>1. rb.len \in Int /\ max_off(w) \in Int
      BY <1>r, <1>x
    <3> QED
      BY <3>1, OfTwo
  <2>5. L \in Nat /\ rb.len <= L /\ max_off(w) <= L /\ (L <= rb.len \/ L <= max_off(buf))
        /\ (rb.fin_off # NoFin => L <= rb.fin_off)
    <3>1. rb.fin_off # NoFin => rb.len <= rb.fin_off
      BY DEF Neat
    <3> QED
      BY <1>r, <1>b, <1>f, <1>w, <1>x, <1>y, <3>1
  <2>6. D \in SUBSET Chunk /\ Sorted(D)
    BY <1>r, <2>2 DEF Inserted
  <2>7. \A b \in D : b = w \/ b \in rb.data
    BY DEF InsertChunk
  <2>8. ~rb.drain => w \in D /\ Stored(D) = Stored(rb.data) \cup Bytes(w)
    BY <2>2 DEF Inserted, InsertChunk
  <2>9. rb.drain => D = rb.data /\ rb.data = {}
    BY DEF Neat
  <2>10. /\ t.data = D /\ t.len = L /\ t.off = rb.off /\ t.fin_off = rb.fin_off
         /\ t.error = rb.error /\ t.drain = rb.drain
         /\ t = [data |-> D, off |-> rb.off, len |-> L, fin_off |-> rb.fin_off,
                 error |-> rb.error, drain |-> rb.drain]
    <3> HIDE DEF s, D, L
    <3>1. t = [rb EXCEPT !.len = L, !.data = D]
      BY <2>3, <2>4 DEF D
    <3> HIDE DEF t
    <3> QED
      BY <1>r, <3>1
  <2>11. t \in RecvBufs
    <3> HIDE DEF t, D, L
    <3> QED
      BY <1>r, <2>5, <2>6, <2>10 DEF RecvBufs
  <2> HIDE DEF t, D, L
  <2>12. \A b \in D : rb.off <= b.off /\ max_off(b) <= L
    BY <1>r, <1>c, <1>b, <1>w, <1>x, <1>y, <2>5, <2>7
  <2>13. \A b \in D : b.len = 0 => b.off = rb.fin_off
    <3> SUFFICES ASSUME NEW b \in D, b.len = 0 PROVE b.off = rb.fin_off
      OBVIOUS
    <3>1. CASE b = w
      <4>1. y.len = 0 /\ y = buf /\ buf.off = rb.fin_off
        BY <1>w, <1>y, <3>1
      <4>2. w.off = y.off
        BY <1>b, <1>w, <1>x, <3>1, <4>1
      <4> QED
        BY <3>1, <4>1, <4>2
    <3>2. CASE b \in rb.data
      BY <3>2 DEF Neat
    <3> QED
      BY <2>7, <3>1, <3>2
  <2>14. Neat(t)
    BY <2>5, <2>6, <2>9, <2>10, <2>11, <2>12, <2>13 DEF Neat
  <2>15. Bytes(w) \subseteq Fresh(rb, buf)
    <3> SUFFICES ASSUME NEW i \in Bytes(w) PROVE i \in Bytes(y)
      BY <1>y
    <3> QED
      BY <1>b, <1>w, <1>x, <1>y
  <2>16. Grown(t, rb, buf)
    <3>1. CASE rb.drain
      BY <2>5, <2>9, <2>10, <2>14, <3>1 DEF Grown, SameStream
    <3>2. CASE ~rb.drain
      BY <2>5, <2>8, <2>10, <2>14, <2>15, <3>2 DEF Grown, SameStream
    <3> QED
      BY <1>r, <3>1, <3>2
  <2>17. CASE over.later = <<>> /\ max_off(w) = max_off(y)
    <3>1. ~rb.drain => Fresh(rb, buf) \subseteq Stored(D)
      <4> SUFFICES ASSUME ~rb.drain, NEW i \in Bytes(y) PROVE i \in Stored(D)
        BY <1>y
      <4>1. i \in Nat /\ y.off <= i /\ i < max_off(y)
        BY <1>b
      <4>2. CASE i < w.off
        BY <1>w, <2>8, <4>1, <4>2
      <4>3. CASE i >= w.off
        BY <1>x, <2>8, <2>17, <4>1, <4>3
      <4> QED
        BY <1>x, <4>1, <4>2, <4>3
    <3>2. L >= max_off(buf) /\ max_off(w) >= max_off(buf)
      BY <1>b, <1>x, <1>y, <2>5, <2>17
    <3>3. AllStored(t, rb, buf)
      BY <2>8, <2>10, <3>1, <3>2 DEF AllStored
    <3>4. Turned(s, rb, buf)
      <4> HIDE DEF s
      <4> QED
        BY <1>s, <2>3, <2>16, <2>17, <3>3 DEF Turned, t
    <3> QED
      BY <1>2, <3>4
  <2>18. CASE /\ over.later = <<From(y, max_off(w))>>
              /\ w.off < max_off(w) /\ max_off(w) < max_off(y) /\ rb.data # {}
    <3> DEFINE z == From(y, max_off(w))
    <3>1. /\ z \in Chunk /\ z.off = max_off(w) /\ max_off(z) = max_off(y)
          /\ z.len = max_off(y) - max_off(w)
      <4>1. y.off <= max_off(w) /\ max_off(w) <= max_off(y)
        BY <1>b, <1>w, <1>x
      <4> QED
        BY <1>x, <1>y, <4>1, FromUpto
    <3> HIDE DEF z
    <3>2. \A i : i \in Bytes(z) <=> i \in Nat /\ z.off <= i /\ i < max_off(z)
      BY <3>1, ChunkEnd
    <3>3. z.len # 0 /\ z.len < buf.len /\ max_off(z) = max_off(buf) /\ rb.off < max_off(z)
      BY <1>r, <1>b, <1>w, <1>x, <1>y, <2>18, <3>1
    <3>4. Fresh(rb, z) \subseteq Fresh(rb, buf)
      <4> SUFFICES ASSUME NEW i \in Bytes(z) PROVE i \in Bytes(y)
        BY <1>y DEF Fresh
      <4> QED
        BY <1>b, <1>w, <1>x, <2>18, <3>1, <3>2
    <3>5. Fresh(rb, buf) \subseteq Stored(t.data) \cup Fresh(rb, z)
      <4> SUFFICES ASSUME NEW i \in Bytes(y), i >= rb.off
                   PROVE  i \in Stored(D) \/ i \in Bytes(z)
        BY <1>y, <2>10 DEF Fresh
      <4>0. ~rb.drain
        BY <2>9, <2>18
      <4>1. i \in Nat /\ y.off <= i /\ i < max_off(y)
        BY <1>b
      <4>2. CASE i < w.off
        BY <1>w, <2>8, <4>0, <4>1, <4>2
      <4>3. CASE i >= w.off /\ i < max_off(w)
        BY <1>x, <2>8, <4>0, <4>1, <4>3
      <4>4. CASE i >= max_off(w)
        BY <1>x, <3>1, <3>2, <4>1, <4>4
      <4> QED
        BY <1>x, <4>1, <4>2, <4>3, <4>4
    <3>6. Left(s.tmp_bufs, t, rb, buf, buf.len)
      <4>1. s.tmp_bufs = <<z>>
        BY <2>3, <2>18 DEF z
      <4> HIDE DEF s
      <4> QED
        BY <3>1, <3>3, <3>4, <3>5, <4>1 DEF Left
    <3>7. Turned(s, rb, buf)
      <4> HIDE DEF s
      <4> QED
        BY <1>s, <2>16, <3>6 DEF Turned, t
    <3> QED
      BY <1>2, <3>7
  <2> QED
    BY <1>1, <2>17, <2>18 DEF Settled
<1> QED
  BY <1>w, <1>3, <1>4

\* The state of the loop over tmp_bufs after k rounds, the first one done.
Going(s, rb, buf, k) ==
    /\ s = [rb |-> s.rb, tmp_bufs |-> s.tmp_bufs]
    /\ Grown(s.rb, rb, buf)
    /\ \/ s.tmp_bufs = <<>> /\ AllStored(s.rb, rb, buf)
       \/ Left(s.tmp_bufs, s.rb, rb, buf, buf.len + 1 - k)

LEMMA GoesOn ==
    ASSUME NEW rb, Neat(rb), NEW buf, Wanted(rb, buf), NEW k \in Nat, NEW s, Going(s, rb, buf, k)
    PROVE  Going(Turn(s), rb, buf, k + 1)
<1>g. Grown(s.rb, rb, buf) /\ Neat(s.rb) /\ SameStream(s.rb, rb)
  BY DEF Going, Grown
<1>1. CASE s.tmp_bufs = <<>>
  <2>1. Turn(s) = s
    BY <1>1 DEF Turn
  <2>2. \A z : <<z>> # <<>>
    OBVIOUS
  <2>3. AllStored(s.rb, rb, buf)
    BY <1>1, <2>2 DEF Going, Left
  <2> QED
    BY <1>1, <2>1, <2>3 DEF Going
<1>2. CASE s.tmp_bufs # <<>>
  <2>1. PICK z \in Chunk :
        /\ s.tmp_bufs = <<z>> /\ z.len # 0 /\ z.len < buf.len + 1 - k
        /\ max_off(z) = max_off(buf) /\ rb.off < max_off(z)
        /\ Fresh(rb, z) \subseteq Fresh(rb, buf)
        /\ Fresh(rb, buf) \subseteq Stored(s.rb.data) \cup Fresh(rb, z)
    BY <1>2 DEF Going, Left
  <2>2. s = [rb |-> s.rb, tmp_bufs |-> <<z>>]
    BY <2>1 DEF Going
  <2>3. Wanted(s.rb, z)
    BY <1>g, <2>1 DEF Wanted, SameStream
  <2> DEFINE t == Turn(s)
             r1 == s.rb
             r2 == t.rb
  <2>4. Turned(t, r1, z)
    BY <1>g, <2>2, <2>3, TurnStores
  <2> HIDE DEF t
  <2>5. t = [rb |-> r2, tmp_bufs |-> t.tmp_bufs] /\ Grown(r2, r1, z)
    BY <2>4 DEF Turned
  <2> HIDE DEF r1, r2
  <2>6. Fresh(r1, z) = Fresh(rb, z)
    BY <1>g DEF Fresh, SameStream, r1
  <2>7. /\ r1.len \in Nat /\ r2.len \in Nat /\ rb.len \in Nat /\ max_off(buf) \in Nat
        /\ buf.len \in Nat /\ z.len \in Nat
    BY <1>g, <2>5, ChunkEnd DEF Grown, Neat, RecvBufs, Wanted, r1
  <2>8. Grown(r2, rb, buf)
    <3>1. SameStream(r2, rb) /\ Neat(r2)
      BY <1>g, <2>5 DEF Grown, SameStream, r1
    <3>2. rb.len <= r2.len /\ (r2.len <= rb.len \/ r2.len <= max_off(buf))
      BY <1>g, <2>1, <2>5, <2>7 DEF Grown, r1
    <3>3. Stored(rb.data) \subseteq Stored(r2.data)
      BY <1>g, <2>5 DEF Grown, r1
    <3>4. Stored(r2.data) \subseteq Stored(rb.data) \cup Fresh(rb, buf)
      BY <1>g, <2>1, <2>5, <2>6 DEF Grown, r1
    <3> QED
      BY <3>1, <3>2, <3>3, <3>4 DEF Grown
  <2>9. Stored(r1.data) \subseteq Stored(r2.data)
    BY <2>5 DEF Grown
  <2>10. CASE t.tmp_bufs = <<>> /\ AllStored(r2, r1, z)
    <3>1. AllStored(r2, rb, buf)
      <4>1. r1.drain = rb.drain
        BY <1>g DEF SameStream, r1
      <4> QED
        BY <2>1, <2>6, <2>9, <2>10, <4>1 DEF AllStored, r1
    <3> QED
      BY <2>5, <2>8, <2>10, <3>1 DEF Going, t, r2
  <2>11. CASE Left(t.tmp_bufs, r2, r1, z, z.len)
    <3>1. PICK x \in Chunk :
          /\ t.tmp_bufs = <<x>> /\ x.len # 0 /\ x.len < z.len
          /\ max_off(x) = max_off(z) /\ r1.off < max_off(x)
          /\ Fresh(r1, x) \subseteq Fresh(r1, z)
          /\ Fresh(r1, z) \subseteq Stored(r2.data) \cup Fresh(r1, x)
      BY <2>11 DEF Left
    <3>2. Fresh(r1, x) = Fresh(rb, x) /\ r1.off = rb.off
      BY <1>g DEF Fresh, SameStream, r1
    <3>3. x.len < buf.len + 1 - (k + 1)
      <4>1. x.len \in Nat
        BY ChunkEnd
      <4> QED
        BY <2>1, <2>7, <3>1, <4>1
    <3>4. Fresh(rb, x) \subseteq Fresh(rb, buf)
      BY <2>1, <2>6, <3>1, <3>2
    <3>5. Fresh(rb, buf) \subseteq Stored(r2.data) \cup Fresh(rb, x)
      BY <2>1, <2>6, <2>9, <3>1, <3>2 DEF r1
    <3>6. Left(t.tmp_bufs, r2, rb, buf, buf.len + 1 - (k + 1))
      BY <2>1, <3>1, <3>2, <3>3, <3>4, <3>5 DEF Left
    <3> QED
      BY <2>5, <2>8, <3>6 DEF Going, t, r2
  <2> QED
    BY <2>4, <2>10, <2>11 DEF Turned, r2
<1> QED
  BY <1>1, <1>2

\* The loop ends with the whole frame stored.
LEMMA StoreAll ==
    ASSUME NEW rb, Neat(rb), NEW buf, Wanted(rb, buf)
    PROVE  Grown(Store(rb, buf), rb, buf) /\ AllStored(Store(rb, buf), rb, buf)
<1> DEFINE n == buf.len + 1
<1>1. buf \in Chunk /\ buf.len \in Nat /\ n \in Nat
  BY ChunkEnd DEF Wanted
<1>2. PICK f : StoreRun(f, rb, buf, n)
  BY <1>1, StoreTurns
<1> DEFINE P == {k \in 0 .. n : k = 0 \/ Going(f[k], rb, buf, k)}
<1>3. 0 \in P
  BY <1>1
<1>4. ASSUME NEW k \in 1 .. n, k - 1 \in P PROVE k \in P
  <2>1. f[k] = Turn(f[k - 1])
    BY <1>2 DEF StoreRun
  <2>2. CASE k = 1
    <3>1. f[k - 1] = [rb |-> rb, tmp_bufs |-> <<buf>>]
      BY <1>2, <2>2 DEF StoreRun
    <3>2. Turned(f[k], rb, buf)
      BY <2>1, <3>1, TurnStores
    <3>3. buf.len + 1 - k = buf.len
      BY <1>1, <2>2
    <3>4. Going(f[k], rb, buf, k)
      <4> DEFINE s == f[k]
      <4> HIDE DEF s
      <4>1. Turned(s, rb, buf)
        BY <3>2 DEF s
      <4>2. Going(s, rb, buf, k)
        BY <3>3, <4>1 DEF Turned, Going
      <4> QED
        BY <4>2 DEF s
    <3> QED
      BY <3>4
  <2>3. CASE k # 1
    <3>1. Going(f[k - 1], rb, buf, k - 1) /\ k - 1 \in Nat /\ (k - 1) + 1 = k
      BY <1>4, <2>3
    <3>2. Going(Turn(f[k - 1]), rb, buf, (k - 1) + 1)
      BY <3>1, GoesOn
    <3> QED
      BY <2>1, <3>1, <3>2
  <2> QED
    BY <2>2, <2>3
<1>5. n \in P
  <2> HIDE DEF P, n
  <2> QED
    BY <1>1, <1>3, <1>4, Induction
<1> DEFINE s == f[n]
<1>6. Going(s, rb, buf, n)
  BY <1>1, <1>5
<1>7. Store(rb, buf) = s.rb
  BY <1>2 DEF StoreRun
<1> HIDE DEF s, P
<1>8. \A z \in Chunk : ~(z.len < buf.len + 1 - n)
  BY <1>1, ChunkEnd
<1>9. Grown(s.rb, rb, buf) /\ AllStored(s.rb, rb, buf)
  BY <1>6, <1>8 DEF Going, Left
<1> QED
  BY <1>7, <1>9

-----------------------------------------------------------------------------
(* write                                                                      *)

\* What a frame of a peer that keeps to the final size does.
Written(r, rb, buf, fin, size) ==
    /\ Tidy(r)
    /\ r.off = rb.off /\ r.error = rb.error /\ r.drain = rb.drain
    /\ r.len <= size
    /\ r.fin_off = IF fin THEN size ELSE rb.fin_off
    /\ Stored(r.data) \subseteq Stored(rb.data) \cup Fresh(rb, buf)
    /\ ~rb.drain => Stored(rb.data) \cup Fresh(rb, buf) \subseteq Stored(r.data)
    /\ \/ r = rb
       \/ rb.drain
       \/ r.data # {}
       \/ rb.fin_off = NoFin /\ buf.len > 0 /\ rb.off = size

LEMMA RecvBufIs ==
    ASSUME NEW rb \in RecvBufs
    PROVE  /\ rb.off \in Nat /\ rb.len \in Nat /\ rb.fin_off \in Nat \cup {NoFin}
           /\ rb.error \in BOOLEAN /\ rb.drain \in BOOLEAN /\ rb.data \in SUBSET Chunk
           /\ rb = [data |-> rb.data, off |-> rb.off, len |-> rb.len, fin_off |-> rb.fin_off,
                    error |-> rb.error, drain |-> rb.drain]
  BY DEF RecvBufs

LEMMA WriteStores ==
    ASSUME NEW rb, Tidy(rb), NEW buf \in Chunk, NEW fin \in BOOLEAN, NEW size \in Nat,
           max_off(buf) <= size, fin => max_off(buf) = size,
           rb.len <= size, rb.fin_off \in {NoFin, size}
    PROVE  ~WriteError(rb, buf, fin) /\ Written(write(rb, buf, fin), rb, buf, fin, size)
<1>t. /\ Neat(rb) /\ rb \in RecvBufs /\ rb.off <= rb.len /\ Sorted(rb.data)
      /\ rb.fin_off # NoFin => rb.len = rb.fin_off
      /\ rb.error => rb.off = rb.fin_off
      /\ \A b \in rb.data : rb.off <= b.off /\ max_off(b) <= rb.len
      /\ \A b \in rb.data : b.len = 0 => b.off = rb.fin_off
      /\ rb.drain => rb.data = {}
  BY DEF Tidy, Neat
<1>r. /\ rb.off \in Nat /\ rb.len \in Nat /\ rb.fin_off \in Nat \cup {NoFin}
      /\ rb.error \in BOOLEAN /\ rb.drain \in BOOLEAN /\ rb.data \in SUBSET Chunk
      /\ rb = [data |-> rb.data, off |-> rb.off, len |-> rb.len, fin_off |-> rb.fin_off,
               error |-> rb.error, drain |-> rb.drain]
  BY <1>t, RecvBufIs
<1>b. /\ buf.off \in Nat /\ buf.len \in Nat /\ max_off(buf) \in Nat
      /\ max_off(buf) = buf.off + buf.len
      /\ \A i : i \in Bytes(buf) <=> i \in Nat /\ buf.off <= i /\ i < max_off(buf)
  BY ChunkEnd
<1>c. \A b \in rb.data : b.off \in Nat
  BY <1>r, ChunkEnd
<1>1. ~WriteError(rb, buf, fin)
  BY <1>r, <1>b DEF WriteError
<1> DEFINE sized == IF fin THEN [rb EXCEPT !.fin_off = max_off(buf)] ELSE rb
<1>2. /\ sized.data = rb.data /\ sized.off = rb.off /\ sized.len = rb.len
      /\ sized.error = rb.error /\ sized.drain = rb.drain
      /\ sized.fin_off = IF fin THEN size ELSE rb.fin_off
      /\ sized \in RecvBufs
      /\ rb.fin_off # NoFin => sized = rb
  <2>1. CASE fin
    <3>1. sized = [rb EXCEPT !.fin_off = size]
      BY <2>1
    <3> HIDE DEF sized
    <3>2. /\ sized.data = rb.data /\ sized.off = rb.off /\ sized.len = rb.len
          /\ sized.error = rb.error /\ sized.drain = rb.drain /\ sized.fin_off = size
          /\ sized = [data |-> rb.data, off |-> rb.off, len |-> rb.len, fin_off |-> size,
                      error |-> rb.error, drain |-> rb.drain]
      BY <1>r, <3>1
    <3>3. sized \in RecvBufs
      BY <1>r, <3>2 DEF RecvBufs
    <3> QED
      BY <1>r, <2>1, <3>2, <3>3
  <2>2. CASE ~fin
    BY <1>t, <2>2
  <2> QED
    BY <2>1, <2>2
<1>3. write(rb, buf, fin) = IF buf.len = 0 /\ (rb.fin_off # NoFin \/ ~fin) THEN rb
                            ELSE IF buf.len > 0 /\ rb.off >= max_off(buf) THEN sized
                            ELSE Store(sized, buf)
  BY DEF write
<1> HIDE DEF sized
<1>4. Neat(sized)
  <2>1. \A b \in rb.data : b.len = 0 => b.off = sized.fin_off
    BY <1>r, <1>t, <1>c, <1>2 DEF NoFin
  <2>2. sized.fin_off # NoFin => sized.len <= sized.fin_off
    BY <1>r, <1>t, <1>2
  <2> QED
    BY <1>t, <1>2, <2>1, <2>2 DEF Neat
<1>5. CASE buf.len = 0 /\ (rb.fin_off # NoFin \/ ~fin)
  <2>1. Fresh(rb, buf) = {}
    BY <1>b, <1>5 DEF Fresh
  <2>2. rb.fin_off = IF fin THEN size ELSE rb.fin_off
    BY <1>5
  <2>3. Written(rb, rb, buf, fin, size)
    BY <2>1, <2>2 DEF Written
  <2> QED
    BY <1>1, <1>3, <1>5, <2>3
<1>6. CASE buf.len > 0 /\ rb.off >= max_off(buf)
  <2>1. Fresh(rb, buf) = {}
    BY <1>b, <1>6, <1>r DEF Fresh
  <2>2. fin => rb.off = size /\ rb.len = size
    BY <1>r, <1>b, <1>t, <1>6
  <2>3. Tidy(sized)
    BY <1>t, <1>2, <1>4, <2>2 DEF Tidy
  <2>4. \/ sized = rb
        \/ rb.fin_off = NoFin /\ buf.len > 0 /\ rb.off = size
    <3>1. CASE fin /\ rb.fin_off = NoFin
      BY <1>r, <1>2, <1>6, <2>2, <3>1 DEF NoFin
    <3>2. CASE ~(fin /\ rb.fin_off = NoFin)
      BY <1>2, <3>2 DEF sized
    <3> QED
      BY <3>1, <3>2
  <2>5. Written(sized, rb, buf, fin, size)
    BY <1>2, <2>1, <2>3, <2>4 DEF Written
  <2>6. write(rb, buf, fin) = sized
    BY <1>3, <1>6
  <2> QED
    BY <1>1, <2>5, <2>6
<1>7. CASE /\ ~(buf.len = 0 /\ (rb.fin_off # NoFin \/ ~fin))
           /\ ~(buf.len > 0 /\ rb.off >= max_off(buf))
  <2> DEFINE r == Store(sized, buf)
  <2>1. write(rb, buf, fin) = r
    BY <1>3, <1>7
  <2>2. Wanted(sized, buf)
    <3>1. CASE buf.len = 0
      BY <1>r, <1>b, <1>t, <1>2, <1>7, <3>1 DEF Wanted
    <3>2. CASE buf.len # 0
      BY <1>r, <1>b, <1>t, <1>2, <1>7, <3>2 DEF Wanted
    <3> QED
      BY <3>1, <3>2
  <2>3. Grown(r, sized, buf) /\ AllStored(r, sized, buf)
    BY <1>4, <2>2, StoreAll
  <2> HIDE DEF r
  <2>4. /\ Neat(r) /\ r.off = rb.off /\ r.error = rb.error /\ r.drain = rb.drain
        /\ r.fin_off = sized.fin_off
        /\ rb.len <= r.len /\ (r.len <= rb.len \/ r.len <= max_off(buf)) /\ r.len >= max_off(buf)
    BY <1>2, <2>3 DEF Grown, SameStream, AllStored
  <2>5. r.len \in Nat /\ (r.fin_off # NoFin => r.len <= r.fin_off)
    BY <2>4, RecvBufIs DEF Neat
  <2>6. Fresh(sized, buf) = Fresh(rb, buf)
    BY <1>2 DEF Fresh
  <2>7. Tidy(r)
    <3>1. rb.off <= r.len
      BY <1>r, <1>t, <2>4, <2>5
    <3>2. r.fin_off # NoFin => r.len = r.fin_off
      BY <1>r, <1>b, <1>t, <1>2, <2>4, <2>5
    <3>3. r.error => r.off = r.fin_off
      BY <1>r, <1>t, <1>2, <2>4 DEF NoFin
    <3> QED
      BY <2>4, <3>1, <3>2, <3>3 DEF Tidy
  <2>8. r.len <= size
    BY <1>r, <1>b, <2>4, <2>5
  <2>9. ~rb.drain => r.data # {}
    BY <1>2, <2>3 DEF AllStored
  <2>10. Written(r, rb, buf, fin, size)
    BY <1>r, <1>2, <2>3, <2>4, <2>6, <2>7, <2>8, <2>9 DEF Written, Grown, AllStored
  <2> QED
    BY <1>1, <2>1, <2>10
<1> QED
  BY <1>5, <1>6, <1>7

-----------------------------------------------------------------------------
(* reset and shutdown                                                         *)

\* The data is dropped and the final size is known.
LEMMA ResetEnds ==
    ASSUME NEW rb, Tidy(rb), NEW size \in Nat, rb.len <= size, rb.fin_off \in {NoFin, size}
    PROVE  /\ ~ResetError(rb, size)
           /\ Tidy(reset(rb, size)) /\ reset(rb, size).error
           /\ reset(rb, size).off = size /\ reset(rb, size).fin_off = size
           /\ reset(rb, size).len = size
<1>t. /\ Neat(rb) /\ rb \in RecvBufs /\ rb.off <= rb.len /\ Sorted(rb.data)
      /\ rb.fin_off # NoFin => rb.len = rb.fin_off
      /\ rb.error => rb.off = rb.fin_off
  BY DEF Tidy, Neat
<1>r. /\ rb.off \in Nat /\ rb.len \in Nat /\ rb.fin_off \in Nat \cup {NoFin}
      /\ rb.error \in BOOLEAN /\ rb.drain \in BOOLEAN /\ rb.data \in SUBSET Chunk
      /\ rb = [data |-> rb.data, off |-> rb.off, len |-> rb.len, fin_off |-> rb.fin_off,
               error |-> rb.error, drain |-> rb.drain]
  BY <1>t, RecvBufIs
<1>1. ~ResetError(rb, size)
  BY <1>r DEF ResetError
<1>2. CASE rb.error
  <2>1. reset(rb, size) = rb
    BY <1>2 DEF reset
  <2>2. rb.off = size /\ rb.fin_off = size /\ rb.len = size
    BY <1>r, <1>t, <1>2 DEF NoFin
  <2> QED
    BY <1>1, <1>2, <2>1, <2>2
<1>3. CASE ~rb.error
  <2> DEFINE e == [rb EXCEPT !.error = TRUE, !.off = size, !.data = {}]
             buf == [off |-> size, len |-> 0]
             sized == [e EXCEPT !.fin_off = max_off(buf)]
  <2>1. buf \in Chunk /\ buf.off = size /\ buf.len = 0 /\ max_off(buf) = size
    BY DEF Chunk, max_off
  <2> HIDE DEF buf
  <2>2. /\ e.data = {} /\ e.off = size /\ e.len = rb.len /\ e.fin_off = rb.fin_off
        /\ e.error = TRUE /\ e \in RecvBufs
    BY <1>t DEF RecvBufs
  <2> HIDE DEF e
  <2>3. /\ sized.data = {} /\ sized.off = size /\ sized.len = rb.len /\ sized.fin_off = size
        /\ sized.error /\ sized \in RecvBufs
    BY <2>1, <2>2 DEF RecvBufs
  <2>4. reset(rb, size) = write(e, buf, TRUE)
    BY <1>3 DEF reset, buf, e
  <2>5. CASE rb.fin_off # NoFin
    <3>1. write(e, buf, TRUE) = e
      BY <2>1, <2>2, <2>5 DEF write
    <3>2. /\ e.data = {} /\ e.off = size /\ e.len = size /\ e.fin_off = size /\ e.error
          /\ e \in RecvBufs
      BY <1>r, <1>t, <2>2, <2>5 DEF RecvBufs
    <3>3. Tidy(e)
      BY <1>r, <3>2 DEF Tidy, Neat, Sorted
    <3> QED
      BY <1>1, <2>4, <3>1, <3>2, <3>3
  <2>6. CASE rb.fin_off = NoFin
    <3> DEFINE r == Store(sized, buf)
    <3>1. write(e, buf, TRUE) = r
      BY <2>1, <2>2, <2>6 DEF write
    <3> HIDE DEF sized
    <3>3. Neat(sized)
      BY <2>3 DEF Neat, Sorted
    <3>4. Wanted(sized, buf)
      BY <2>1, <2>3 DEF Wanted
    <3>5. Grown(r, sized, buf) /\ AllStored(r, sized, buf)
      BY <3>3, <3>4, StoreAll
    <3> HIDE DEF r
    <3>6. /\ Neat(r) /\ r.off = size /\ r.fin_off = size /\ r.error /\ r.len >= size
      BY <2>1, <2>3, <3>5 DEF Grown, AllStored, SameStream
    <3>7. r.len = size
      <4>1. r.len \in Nat /\ (r.fin_off # NoFin => r.len <= r.fin_off)
        BY <3>6, RecvBufIs DEF Neat
      <4>2. size # NoFin
        BY DEF NoFin
      <4> QED
        BY <3>6, <4>1, <4>2
    <3>8. Tidy(r)
      BY <3>6, <3>7 DEF Tidy
    <3> QED
      BY <1>1, <2>4, <3>1, <3>6, <3>7, <3>8
  <2> QED
    BY <2>5, <2>6
<1> QED
  BY <1>r, <1>2, <1>3

\* What was received counts as read.
LEMMA ShutdownDrains ==
    ASSUME NEW rb, Tidy(rb)
    PROVE  /\ Tidy(shutdown(rb)) /\ shutdown(rb).data = {} /\ shutdown(rb).drain
           /\ shutdown(rb).off = rb.len /\ shutdown(rb).len = rb.len
           /\ shutdown(rb).fin_off = rb.fin_off /\ shutdown(rb).error = rb.error
<1>r. rb \in RecvBufs /\ rb.off \in Nat /\ rb.len \in Nat /\ rb.fin_off \in Nat \cup {NoFin}
  BY RecvBufIs DEF Tidy, Neat
<1> DEFINE r == shutdown(rb)
<1>2. /\ r.data = {} /\ r.off = rb.len /\ r.len = rb.len /\ r.fin_off = rb.fin_off
      /\ r.error = rb.error /\ r.drain /\ r \in RecvBufs
  BY <1>r DEF shutdown, RecvBufs
<1> HIDE DEF r
<1>3. Neat(r)
  BY <1>2 DEF Tidy, Neat, Sorted
<1>4. rb.error => rb.len = rb.fin_off
  BY <1>r DEF Tidy, NoFin
<1>5. Tidy(r)
  BY <1>r, <1>2, <1>3, <1>4 DEF Tidy
<1> QED
  BY <1>2, <1>5 DEF r

-----------------------------------------------------------------------------
(* emit                                                                       *)

\* The state of the loop that reads after the chunks with keys below k: what is left
\* of them is what they hold from the new offset on.
Reading(st, rb, k) ==
    /\ st \in [off : Nat, cap : Nat, done : BOOLEAN, data : SUBSET Chunk]
    /\ rb.off <= st.off /\ st.off <= rb.len
    /\ \A i \in Nat : rb.off <= i /\ i < st.off => i \in Stored(rb.data)
    /\ ~st.done => st.data = {}
    /\ Sorted(st.data)
    /\ \A b \in st.data : /\ st.off <= b.off /\ max_off(b) < k
                          /\ \E c \in rb.data : max_off(c) = max_off(b) /\ (b.len = 0 => b = c)
    /\ \A c \in rb.data : k <= max_off(c) => st.off <= c.off
    /\ \A i \in Nat : i \in Stored(st.data)
                      <=> i >= st.off /\ \E c \in rb.data : max_off(c) < k /\ i \in Bytes(c)

LEMMA ReadStart ==
    ASSUME NEW rb, Tidy(rb), NEW cap \in Nat
    PROVE  Reading([off |-> rb.off, cap |-> cap, done |-> FALSE, data |-> {}], rb, 0)
<1> DEFINE st == [off |-> rb.off, cap |-> cap, done |-> FALSE, data |-> {}]
<1>1. /\ rb.off \in Nat /\ rb.len \in Nat /\ rb.data \in SUBSET Chunk
      /\ rb.off <= rb.len /\ \A b \in rb.data : rb.off <= b.off
  BY RecvBufIs DEF Tidy, Neat
<1>2. \A b \in rb.data : max_off(b) \in Nat
  BY <1>1, ChunkEnd
<1>3. /\ st \in [off : Nat, cap : Nat, done : BOOLEAN, data : SUBSET Chunk]
      /\ st.off = rb.off /\ ~st.done /\ st.data = {}
  BY <1>1
<1> HIDE DEF st
<1>4. Stored({}) = {}
  BY DEF Stored
<1>5. Reading(st, rb, 0)
  BY <1>1, <1>2, <1>3, <1>4 DEF Reading, Sorted
<1> QED
  BY <1>5 DEF st

\* One round.
LEMMA ReadStep ==
    ASSUME NEW rb, Tidy(rb), NEW k \in Nat, NEW st, Reading(st, rb, k)
    PROVE  Reading(ReadAt(st, rb.data, k), rb, k + 1)
<1>r. /\ rb.off \in Nat /\ rb.len \in Nat /\ rb.data \in SUBSET Chunk /\ Sorted(rb.data)
      /\ \A c \in rb.data : rb.off <= c.off /\ max_off(c) <= rb.len
  BY RecvBufIs DEF Tidy, Neat
<1>c. \A c \in rb.data : /\ c.off \in Nat /\ max_off(c) \in Nat /\ c.off <= max_off(c)
                         /\ \A i : i \in Bytes(c) <=> i \in Nat /\ c.off <= i /\ i < max_off(c)
  BY <1>r, ChunkEnd
<1>s. /\ st.off \in Nat /\ st.cap \in Nat /\ st.done \in BOOLEAN /\ st.data \in SUBSET Chunk
      /\ st = [off |-> st.off, cap |-> st.cap, done |-> st.done, data |-> st.data]
      /\ rb.off <= st.off /\ st.off <= rb.len /\ Sorted(st.data)
  BY DEF Reading
<1>d. \A b \in st.data : b.off \in Nat /\ max_off(b) \in Nat /\ b.off <= max_off(b) /\ max_off(b) < k
  BY <1>s, ChunkEnd DEF Reading
<1>1. CASE k \notin Keys(rb.data)
  <2>1. ReadAt(st, rb.data, k) = st
    BY <1>1 DEF ReadAt
  <2>2. \A c \in rb.data : /\ max_off(c) < k + 1 <=> max_off(c) < k
                           /\ k + 1 <= max_off(c) <=> k <= max_off(c)
    BY <1>1, <1>c DEF Keys
  <2>3. \A b \in st.data : max_off(b) < k + 1
    BY <1>d
  <2> QED
    BY <2>1, <2>2, <2>3 DEF Reading
<1>2. CASE k \in Keys(rb.data)
  <2>1. PICK b \in rb.data : b = At(rb.data, k) /\ max_off(b) = k
    BY <1>2 DEF Keys, At
  <2>2. ReadAt(st, rb.data, k) = Read(st, b)
    BY <1>2, <2>1 DEF ReadAt
  <2>3. /\ b \in Chunk /\ b.off \in Nat /\ b.off <= k /\ b.len \in Nat /\ k = b.off + b.len
        /\ \A i : i \in Bytes(b) <=> i \in Nat /\ b.off <= i /\ i < k
        /\ \A c \in rb.data : /\ max_off(c) = k => c = b
                              /\ max_off(c) < k => max_off(c) <= b.off
                              /\ k < max_off(c) => k <= c.off
        /\ st.off <= b.off
    BY <1>r, <2>1, ChunkEnd DEF Sorted, Reading
  <2>4. \A c \in rb.data : max_off(c) < k + 1 <=> max_off(c) < k \/ c = b
    BY <1>c, <2>1, <2>3
  <2>5. \A a \in st.data : max_off(a) <= b.off
    BY <1>c, <2>3 DEF Reading
  <2>6. CASE st.done \/ st.cap = 0 \/ b.off # st.off
    <3> DEFINE D == st.data \cup {b}
               t == [st EXCEPT !.done = TRUE, !.data = D]
    <3>1. Read(st, b) = t
      BY <2>6 DEF Read
    <3>2. D \in SUBSET Chunk /\ \A a \in D : a \in st.data \/ a = b
      BY <1>s, <2>3
    <3>3. \A i : i \in Stored(D) <=> i \in Stored(st.data) \/ i \in Bytes(b)
      BY DEF Stored
    <3>4. b \in D /\ st.data \subseteq D
      OBVIOUS
    <3> HIDE DEF D
    <3>5. /\ t.off = st.off /\ t.cap = st.cap /\ t.done = TRUE /\ t.data = D
          /\ t \in [off : Nat, cap : Nat, done : BOOLEAN, data : SUBSET Chunk]
      BY <1>s, <3>2
    <3> HIDE DEF t
    <3>6. Sorted(D)
      BY <1>s, <1>d, <2>1, <2>3, <2>5, <3>2 DEF Sorted
    <3>7. ASSUME NEW a \in D
          PROVE  /\ t.off <= a.off /\ max_off(a) < k + 1
                 /\ \E c \in rb.data : max_off(c) = max_off(a) /\ (a.len = 0 => a = c)
      <4>1. CASE a = b
        <5>1. t.off <= b.off /\ k < k + 1
          BY <2>3, <3>5
        <5> QED
          BY <2>1, <4>1, <5>1
      <4>2. CASE a \in st.data
        BY <1>d, <3>5, <4>2 DEF Reading
      <4> QED
        BY <3>2, <4>1, <4>2
    <3>8. \A c \in rb.data : k + 1 <= max_off(c) => t.off <= c.off
      BY <1>c, <3>5 DEF Reading
    <3>9. ASSUME NEW i \in Nat
          PROVE  i \in Stored(D)
                 <=> i >= t.off /\ \E c \in rb.data : max_off(c) < k + 1 /\ i \in Bytes(c)
      <4>1. i \in Bytes(b) => i >= st.off
        BY <1>s, <2>3
      <4>2. (\E c \in rb.data : max_off(c) < k + 1 /\ i \in Bytes(c))
            <=> (\E c \in rb.data : max_off(c) < k /\ i \in Bytes(c)) \/ i \in Bytes(b)
        BY <2>4
      <4>3. i \in Stored(st.data)
            <=> i >= st.off /\ \E c \in rb.data : max_off(c) < k /\ i \in Bytes(c)
        BY DEF Reading
      <4> QED
        BY <3>3, <3>5, <4>1, <4>2, <4>3
    <3>10. Reading(t, rb, k + 1)
      BY <1>s, <3>5, <3>6, <3>7, <3>8, <3>9 DEF Reading
    <3> QED
      BY <2>2, <3>1, <3>10
  <2>7. CASE ~(st.done \/ st.cap = 0 \/ b.off # st.off)
    <3> DEFINE n == Min({b.len, st.cap})
               z == From(b, b.off + n)
               D == IF n < b.len THEN st.data \cup {z} ELSE st.data
               t == [off |-> st.off + n, cap |-> st.cap - n, done |-> n < b.len, data |-> D]
    <3>1. Read(st, b) = t
      BY <2>7 DEF Read
    <3>2. n \in Nat /\ n <= b.len /\ n <= st.cap
      <4>1. b.len \in Int /\ st.cap \in Int
        BY <1>s, <2>3
      <4>2. n = IF b.len <= st.cap THEN b.len ELSE st.cap
        BY <4>1, OfTwo
      <4> QED
        BY <1>s, <2>3, <4>2
    <3> HIDE DEF n
    <3>3. /\ z \in Chunk /\ z.off = b.off + n /\ max_off(z) = k /\ z.len = k - (b.off + n)
      <4>1. b.off + n \in Nat /\ b.off <= b.off + n /\ b.off + n <= max_off(b)
        BY <2>1, <2>3, <3>2
      <4> QED
        BY <2>1, <2>3, <4>1, FromUpto
    <3> HIDE DEF z
    <3>4. \A i : i \in Bytes(z) <=> i \in Nat /\ z.off <= i /\ i < k
      BY <3>3, ChunkEnd
    <3>5. st.data = {} /\ st.off = b.off
      BY <2>7 DEF Reading
    <3>6. D = (IF n < b.len THEN {z} ELSE {}) /\ D \in SUBSET Chunk /\ \A a \in D : a = z /\ n < b.len
      BY <3>3, <3>5
    <3> HIDE DEF D
    <3>7. /\ t.off = b.off + n /\ t.data = D /\ t.done = (n < b.len)
          /\ t \in [off : Nat, cap : Nat, done : BOOLEAN, data : SUBSET Chunk]
      BY <1>s, <2>3, <3>2, <3>5, <3>6
    <3> HIDE DEF t
    <3>8. rb.off <= t.off /\ t.off <= rb.len
      BY <1>r, <1>s, <2>1, <2>3, <3>2, <3>5, <3>7
    <3>9. ASSUME NEW i \in Nat, rb.off <= i, i < t.off PROVE i \in Stored(rb.data)
      <4>1. CASE i < st.off
        BY <3>9, <4>1 DEF Reading
      <4>2. CASE i >= st.off
        <5>1. i \in Bytes(b)
          BY <1>s, <2>3, <3>2, <3>5, <3>7, <3>9, <4>2
        <5> QED
          BY <5>1 DEF Stored
      <4> QED
        BY <1>s, <4>1, <4>2
    <3>10. Sorted(D)
      BY <3>3, <3>6 DEF Sorted
    <3>11. ASSUME NEW a \in D
           PROVE  /\ t.off <= a.off /\ max_off(a) < k + 1
                  /\ \E c \in rb.data : max_off(c) = max_off(a) /\ (a.len = 0 => a = c)
      <4>1. a = z /\ n < b.len
        BY <3>6
      <4>2. a.len # 0 /\ t.off <= a.off
        BY <2>3, <3>2, <3>3, <3>7, <4>1
      <4> QED
        BY <2>1, <3>3, <4>1, <4>2
    <3>12. \A c \in rb.data : k + 1 <= max_off(c) => t.off <= c.off
      BY <1>c, <2>3, <3>2, <3>7
    <3>13. ASSUME NEW i \in Nat
           PROVE  i \in Stored(D)
                  <=> i >= t.off /\ \E c \in rb.data : max_off(c) < k + 1 /\ i \in Bytes(c)
      <4>1. i \in Stored(D) <=> n < b.len /\ i \in Bytes(z)
        BY <3>6 DEF Stored
      <4>2. ASSUME i >= t.off, NEW c \in rb.data, max_off(c) < k + 1, i \in Bytes(c)
            PROVE  c = b
        BY <1>c, <2>3, <3>2, <3>7, <4>2
      <4>3. i \in Bytes(z) <=> i >= t.off /\ i \in Bytes(b)
        BY <2>3, <3>2, <3>3, <3>4, <3>7
      <4>4. i \in Bytes(z) => n < b.len
        BY <2>3, <3>2, <3>3, <3>4
      <4> QED
        BY <2>1, <4>1, <4>2, <4>3, <4>4
    <3>14. ~t.done => t.data = {}
      BY <3>6, <3>7
    <3>15. Reading(t, rb, k + 1)
      BY <3>7, <3>8, <3>9, <3>10, <3>11, <3>12, <3>13, <3>14 DEF Reading
    <3> QED
      BY <2>2, <3>1, <3>15
  <2> QED
    BY <2>6, <2>7
<1> QED
  BY <1>1, <1>2

\* What is read comes off the front, each byte once.
Emitted(r, rb) ==
    /\ Tidy(r)
    /\ r.len = rb.len /\ r.fin_off = rb.fin_off /\ r.error = rb.error /\ r.drain = rb.drain
    /\ rb.off <= r.off /\ r.off <= rb.len
    /\ rb.error => r.data = {}
    /\ ~rb.error => \A i \in Nat : /\ rb.off <= i /\ i < r.off => i \in Stored(rb.data)
                                   /\ i \in Stored(r.data) <=> i >= r.off /\ i \in Stored(rb.data)

LEMMA EmitReads ==
    ASSUME NEW rb, Tidy(rb), NEW cap \in Nat
    PROVE  Emitted(emit(rb, cap), rb)
<1>r. /\ rb \in RecvBufs /\ rb.off \in Nat /\ rb.len \in Nat /\ rb.error \in BOOLEAN
      /\ rb.data \in SUBSET Chunk
  BY RecvBufIs DEF Tidy, Neat
<1>t. /\ \A b \in rb.data : rb.off <= b.off /\ max_off(b) <= rb.len
      /\ \A b \in rb.data : b.len = 0 => b.off = rb.fin_off
      /\ rb.fin_off # NoFin => rb.len <= rb.fin_off
      /\ rb.drain => rb.data = {}
      /\ rb.off <= rb.len
      /\ rb.fin_off # NoFin => rb.len = rb.fin_off
      /\ rb.error => rb.off = rb.fin_off
  BY DEF Tidy, Neat
<1> DEFINE r == emit(rb, cap)
<1>1. CASE rb.error
  <2>1. /\ r.data = {} /\ r.off = rb.off /\ r.len = rb.len /\ r.fin_off = rb.fin_off
        /\ r.error = rb.error /\ r.drain = rb.drain /\ r \in RecvBufs
    BY <1>r, <1>1 DEF emit, RecvBufs
  <2> HIDE DEF r
  <2>2. Tidy(r)
    BY <1>t, <2>1 DEF Tidy, Neat, Sorted
  <2>3. Emitted(r, rb)
    BY <1>r, <1>t, <1>1, <2>1, <2>2 DEF Emitted
  <2> QED
    BY <2>3 DEF r
<1>2. CASE ~rb.error
  <2> DEFINE m == LastKey(rb.data) + 1
             st == ReadAll(rb, cap)
  <2>1. m \in Nat /\ \A b \in rb.data : max_off(b) < m
    <3>1. LastKey(rb.data) \in Nat /\ \A b \in rb.data : max_off(b) <= LastKey(rb.data)
      BY <1>r, <1>t, LastKeyIs
    <3>2. \A b \in rb.data : max_off(b) \in Nat
      BY <1>r, ChunkEnd
    <3> QED
      BY <3>1, <3>2
  <2>2. PICK f : ReadRun(f, rb, cap, m)
    BY <2>1, ReadTurns
  <2> HIDE DEF m
  <2> DEFINE P == {k \in 0 .. m : Reading(f[k], rb, k)}
  <2>3. 0 \in P
    <3>1. f[0] = [off |-> rb.off, cap |-> cap, done |-> FALSE, data |-> {}]
      BY <2>2 DEF ReadRun
    <3>2. Reading(f[0], rb, 0)
      BY <3>1, ReadStart
    <3> QED
      BY <2>1, <3>2
  <2>4. ASSUME NEW k \in 1 .. m, k - 1 \in P PROVE k \in P
    <3>1. k - 1 \in Nat /\ (k - 1) + 1 = k /\ Reading(f[k - 1], rb, k - 1)
      BY <2>4
    <3>2. Reading(ReadAt(f[k - 1], rb.data, k - 1), rb, (k - 1) + 1)
      BY <3>1, ReadStep
    <3>3. f[k] = ReadAt(f[k - 1], rb.data, k - 1)
      BY <2>2 DEF ReadRun
    <3> QED
      BY <3>1, <3>2, <3>3
  <2>5. m \in P
    <3> HIDE DEF P
    <3> QED
      BY <2>1, <2>3, <2>4, Induction
  <2>6. Reading(st, rb, m)
    BY <2>2, <2>5 DEF ReadRun
  <2> HIDE DEF st, P
  <2>7. /\ st.off \in Nat /\ st.data \in SUBSET Chunk /\ Sorted(st.data)
        /\ rb.off <= st.off /\ st.off <= rb.len
        /\ \A i \in Nat : rb.off <= i /\ i < st.off => i \in Stored(rb.data)
        /\ \A b \in st.data : /\ st.off <= b.off
                              /\ \E c \in rb.data : max_off(c) = max_off(b) /\ (b.len = 0 => b = c)
    BY <2>6 DEF Reading
  <2>8. /\ r.data = st.data /\ r.off = st.off /\ r.len = rb.len /\ r.fin_off = rb.fin_off
        /\ r.error = rb.error /\ r.drain = rb.drain /\ r \in RecvBufs
    BY <1>r, <1>2, <2>7 DEF emit, st, RecvBufs
  <2> HIDE DEF r
  <2>9. \A b \in st.data : max_off(b) <= rb.len /\ (b.len = 0 => b.off = rb.fin_off)
    BY <1>t, <2>7
  <2>10. Neat(r)
    BY <1>t, <2>7, <2>8, <2>9 DEF Neat
  <2>11. Tidy(r)
    BY <1>t, <1>2, <2>7, <2>8, <2>10 DEF Tidy
  <2>12. ASSUME NEW i \in Nat
         PROVE  i \in Stored(st.data) <=> i >= st.off /\ i \in Stored(rb.data)
    <3>1. (\E c \in rb.data : max_off(c) < m /\ i \in Bytes(c)) <=> i \in Stored(rb.data)
      BY <2>1 DEF Stored
    <3> QED
      BY <2>6, <3>1 DEF Reading
  <2>13. Emitted(r, rb)
    BY <1>2, <2>7, <2>8, <2>11, <2>12 DEF Emitted
  <2> QED
    BY <2>13 DEF r
<1> QED
  BY <1>r, <1>1, <1>2

-----------------------------------------------------------------------------
(* What the invariant says about the front of the buffer.                     *)

\* At the final size only the empty chunk can be left.
LEMMA ReadyAtEnd ==
    ASSUME NEW rb, Tidy(rb), rb.fin_off = rb.off, rb.data # {}
    PROVE  ready(rb)
<1>1. /\ rb.off \in Nat /\ rb.len = rb.off /\ rb.data \in SUBSET Chunk
      /\ \A b \in rb.data : rb.off <= b.off /\ max_off(b) <= rb.len
  BY RecvBufIs DEF Tidy, Neat, NoFin
<1>2. \A b \in rb.data : b.off \in Nat /\ max_off(b) \in Nat /\ b.off <= max_off(b)
  BY <1>1, ChunkEnd
<1>3. \A b \in rb.data : b.off = rb.off /\ max_off(b) = rb.off
  BY <1>1, <1>2
<1> QED
  BY <1>1, <1>3 DEF ready

\* The next byte is at the front.
LEMMA ReadyNext ==
    ASSUME NEW rb, Tidy(rb), rb.off \in Stored(rb.data)
    PROVE  ready(rb)
<1>1. /\ rb.off \in Nat /\ rb.data \in SUBSET Chunk /\ rb.len \in Nat
      /\ rb.fin_off \in Nat \cup {NoFin}
      /\ \A b \in rb.data : rb.off <= b.off /\ max_off(b) <= rb.len
      /\ \A b \in rb.data : b.len = 0 => b.off = rb.fin_off
      /\ rb.fin_off # NoFin => rb.len = rb.fin_off
      /\ Sorted(rb.data)
  BY RecvBufIs DEF Tidy, Neat
<1>2. \A b \in rb.data : /\ b.off \in Nat /\ max_off(b) \in Nat /\ b.off <= max_off(b)
                         /\ b.len \in Nat /\ max_off(b) = b.off + b.len
                         /\ \A i : i \in Bytes(b) <=> i \in Nat /\ b.off <= i /\ i < max_off(b)
  BY <1>1, ChunkEnd
<1>3. PICK b \in rb.data : rb.off \in Bytes(b)
  BY DEF Stored
<1>4. b.off = rb.off /\ rb.off < max_off(b)
  BY <1>1, <1>2, <1>3
<1>5. ASSUME NEW c \in rb.data, max_off(c) < max_off(b) PROVE FALSE
  <2>1. max_off(c) <= b.off
    BY <1>1, <1>5 DEF Sorted
  <2>2. c.len = 0 /\ c.off = rb.off
    BY <1>1, <1>2, <1>4, <2>1
  <2>3. rb.len = rb.off
    BY <1>1, <2>2 DEF NoFin
  <2> QED
    BY <1>1, <1>2, <1>4, <2>3
<1>6. \A c \in rb.data : max_off(b) <= max_off(c)
  BY <1>2, <1>5
<1> QED
  BY <1>4, <1>6 DEF ready

\* Chunks in order do not overlap.
LEMMA SortedApart ==
    ASSUME NEW data \in SUBSET Chunk, Sorted(data)
    PROVE  \A a, b \in data : a # b => Bytes(a) \cap Bytes(b) = {}
<1> SUFFICES ASSUME NEW a \in data, NEW b \in data, a # b PROVE Bytes(a) \cap Bytes(b) = {}
  OBVIOUS
<1>1. /\ a.off \in Nat /\ max_off(a) \in Nat /\ b.off \in Nat /\ max_off(b) \in Nat
      /\ \A i : i \in Bytes(a) <=> i \in Nat /\ a.off <= i /\ i < max_off(a)
      /\ \A i : i \in Bytes(b) <=> i \in Nat /\ b.off <= i /\ i < max_off(b)
  BY ChunkEnd
<1>2. max_off(a) <= b.off \/ max_off(b) <= a.off
  BY <1>1 DEF Sorted
<1> QED
  BY <1>1, <1>2

\* StoredIsUnread byte by byte.
Unread(rb, arr) ==
    \A i \in Nat : /\ i \in Stored(rb.data) <=> i \in arr /\ i >= rb.off
                   /\ i < rb.off => i \in arr

LEMMA UnreadIs ==
    ASSUME NEW rb, Tidy(rb), NEW arr \in SUBSET Nat
    PROVE  Unread(rb, arr)
           <=> /\ UNION {Bytes(b) : b \in rb.data} = arr \ 0 .. rb.off - 1
               /\ \A a, b \in rb.data : a # b => Bytes(a) \cap Bytes(b) = {}
               /\ 0 .. rb.off - 1 \subseteq arr
<1>1. rb.off \in Nat /\ rb.data \in SUBSET Chunk /\ Sorted(rb.data)
  BY RecvBufIs DEF Tidy, Neat
<1>2. \A a, b \in rb.data : a # b => Bytes(a) \cap Bytes(b) = {}
  BY <1>1, SortedApart
<1>3. Stored(rb.data) \subseteq Nat
  <2>1. \A b \in rb.data : Bytes(b) \subseteq Nat
    BY <1>1, ChunkEnd
  <2> QED
    BY <2>1 DEF Stored
<1>4. (0 .. rb.off - 1 \subseteq arr) <=> \A i \in Nat : i < rb.off => i \in arr
  BY <1>1
<1>5. (Stored(rb.data) = arr \ 0 .. rb.off - 1)
      <=> \A i \in Nat : i \in Stored(rb.data) <=> i \in arr /\ i >= rb.off
  <2> DEFINE R == arr \ 0 .. rb.off - 1
  <2>1. \A i \in Nat : i \in R <=> i \in arr /\ i >= rb.off
    BY <1>1
  <2>2. R \subseteq Nat
    OBVIOUS
  <2> HIDE DEF R
  <2>3. (Stored(rb.data) = R) <=> \A i \in Nat : i \in Stored(rb.data) <=> i \in R
    BY <1>3, <2>2
  <2>4. (Stored(rb.data) = R)
        <=> \A i \in Nat : i \in Stored(rb.data) <=> i \in arr /\ i >= rb.off
    BY <2>1, <2>3
  <2> QED
    BY <2>4 DEF R
<1> QED
  BY <1>2, <1>4, <1>5 DEF Unread, Stored

-----------------------------------------------------------------------------
(* The steps.                                                                *)

\* What the invariant says, with StoredIsUnread byte by byte.
LEMMA InvIs ==
    ASSUME RecvInv
    PROVE  /\ Tidy(recv) /\ recv \in RecvBufs
           /\ recv.off \in Nat /\ recv.len \in Nat /\ recv.fin_off \in Nat \cup {NoFin}
           /\ recv.error \in BOOLEAN /\ recv.drain \in BOOLEAN
           /\ final \in Nat /\ recv.len <= final /\ recv.fin_off \in {NoFin, final}
           /\ arrived \in SUBSET Nat
           /\ ~recv.drain /\ ~recv.error => Unread(recv, arrived)
<1>1. Tidy(recv) /\ recv \in RecvBufs
  BY DEF RecvInv, Tidy, Neat
<1>2. /\ final \in Nat /\ recv.len <= final /\ recv.fin_off \in {NoFin, final}
      /\ arrived \in SUBSET Nat
  BY RecvAssumption DEF RecvInv, TypeOK, SizeKept
<1>3. ~recv.drain /\ ~recv.error => Unread(recv, arrived)
  BY <1>1, <1>2, UnreadIs DEF RecvInv, StoredIsUnread
<1> QED
  BY <1>1, <1>2, <1>3, RecvBufIs

LEMMA RecvInvInit == Init => RecvInv
<1> SUFFICES ASSUME Init PROVE RecvInv
  OBVIOUS
<1>1. /\ recv.data = {} /\ recv.off = 0 /\ recv.len = 0 /\ recv.fin_off = NoFin
      /\ ~recv.error /\ ~recv.drain /\ recv \in RecvBufs
  BY DEF Init, new, RecvBufs
<1>2. arrived = {} /\ told = "nothing" /\ final \in 0 .. MaxLen /\ ~readable /\ ~error
  BY DEF Init
<1>3. TypeOK
  BY <1>1 DEF Init, TypeOK, RecvBufs
<1>4. Tidy(recv)
  BY <1>1 DEF Tidy, Neat, Sorted
<1>5. SizeKept
  BY <1>1, <1>2, RecvAssumption DEF SizeKept
<1>6. StoredIsUnread
  <2>1. Unread(recv, arrived)
    BY <1>1, <1>2 DEF Unread, Stored
  <2> QED
    BY <1>2, <1>4, <2>1, UnreadIs DEF StoredIsUnread
<1>7. ~ready(recv) /\ ~is_fin(recv)
  BY <1>1 DEF ready, is_fin, NoFin
<1> QED
  BY <1>2, <1>3, <1>4, <1>5, <1>6, <1>7 DEF RecvInv, ToldAtEnd, EndReported

\* A frame, however it overlaps what came before, adds the bytes that are new.
LEMMA FrameKeeps ==
    ASSUME RecvInv, NEW buf \in Frames, NEW fin \in BOOLEAN, RecvStreamFrame(buf, fin)
    PROVE  RecvInv'
<1>i. /\ Tidy(recv) /\ recv \in RecvBufs
      /\ recv.off \in Nat /\ recv.len \in Nat /\ recv.fin_off \in Nat \cup {NoFin}
      /\ recv.error \in BOOLEAN /\ recv.drain \in BOOLEAN
      /\ final \in Nat /\ recv.len <= final /\ recv.fin_off \in {NoFin, final}
      /\ arrived \in SUBSET Nat
      /\ ~recv.drain /\ ~recv.error => Unread(recv, arrived)
  BY InvIs
<1>b. /\ buf \in Chunk /\ buf.off \in Nat /\ buf.len \in Nat /\ max_off(buf) \in Nat
      /\ max_off(buf) = buf.off + buf.len
      /\ \A i : i \in Bytes(buf) <=> i \in Nat /\ buf.off <= i /\ i < max_off(buf)
  <2>1. buf \in Chunk
    BY RecvAssumption DEF Frames, Chunk
  <2> QED
    BY <2>1, ChunkEnd
<1>g. /\ ~collected /\ max_off(buf) <= final /\ (fin => max_off(buf) = final)
      /\ UNCHANGED <<stopped, collected, send_complete, final, told>>
  BY DEF RecvStreamFrame
<1>u. final' = final /\ told' = told /\ collected' = collected
      /\ send_complete' = send_complete /\ stopped' = stopped
  BY <1>g
<1> DEFINE r == write(recv, buf, fin)
<1>1. ~WriteError(recv, buf, fin) /\ Written(r, recv, buf, fin, final)
  BY <1>i, <1>b, <1>g, WriteStores
<1>2. /\ recv' = r /\ readable' = (readable \/ (ready(r) /\ ~ready(recv)))
      /\ arrived' = arrived \cup Bytes(buf) /\ error' = error
      /\ late_fin' = (late_fin \/ (fin /\ recv.fin_off = NoFin /\ buf.len > 0 /\ recv.off = final))
  BY <1>1 DEF RecvStreamFrame, Becomes
<1> HIDE DEF r
<1>3. /\ Tidy(r) /\ r.off = recv.off /\ r.error = recv.error /\ r.drain = recv.drain
      /\ r.len <= final /\ r.fin_off = IF fin THEN final ELSE recv.fin_off
  BY <1>1 DEF Written
<1>4. r \in RecvBufs
  BY <1>3 DEF Tidy, Neat
<1>5. arrived' \subseteq 0 .. final - 1
  <2>1. arrived \subseteq 0 .. final - 1
    BY DEF RecvInv, SizeKept
  <2>2. \A i \in Bytes(buf) : i \in 0 .. final - 1
    BY <1>i, <1>b, <1>g
  <2> QED
    BY <1>2, <2>1, <2>2
<1>6. TypeOK'
  <2>1. recv' \in [data : SUBSET Chunk, off : Nat, len : Nat,
                   fin_off : Nat \cup {NoFin}, error : BOOLEAN, drain : BOOLEAN]
    BY <1>2, <1>4 DEF RecvBufs
  <2>2. readable' \in BOOLEAN /\ error' \in BOOLEAN /\ late_fin' \in BOOLEAN
    BY <1>2 DEF RecvInv, TypeOK
  <2>3. final' \in 0 .. MaxLen /\ arrived' \subseteq 0 .. MaxLen
    BY <1>5, <1>u, RecvAssumption DEF RecvInv, TypeOK
  <2> QED
    BY <1>u, <2>1, <2>2, <2>3 DEF RecvInv, TypeOK
<1>7. SizeKept'
  <2>1. r.fin_off \in {NoFin, final}
    BY <1>i, <1>3
  <2> QED
    BY <1>u, <1>2, <1>3, <1>5, <2>1 DEF SizeKept
<1>8. StoredIsUnread'
  <2> SUFFICES ASSUME ~r.drain, ~r.error
               PROVE  /\ UNION {Bytes(b) : b \in r.data} = arrived' \ 0 .. r.off - 1
                      /\ \A a, b \in r.data : a # b => Bytes(a) \cap Bytes(b) = {}
                      /\ 0 .. r.off - 1 \subseteq arrived'
    BY <1>2 DEF StoredIsUnread
  <2>1. Unread(recv, arrived)
    BY <1>i, <1>3
  <2>2. \A i : i \in Stored(r.data) <=> i \in Stored(recv.data) \/ i \in Fresh(recv, buf)
    BY <1>1, <1>3 DEF Written
  <2>3. Unread(r, arrived')
    BY <1>2, <1>3, <2>1, <2>2 DEF Unread, Fresh
  <2>4. arrived' \in SUBSET Nat
    BY <1>5, <1>i
  <2> QED
    BY <1>3, <2>3, <2>4, UnreadIs
<1>9. (ready(recv) /\ ~collected => readable)'
  <2>1. ready(recv)' = ready(r)
    BY <1>2
  <2>2. ready(recv) => readable
    BY <1>g DEF RecvInv
  <2> QED
    BY <1>2, <2>1, <2>2
<1>10. ToldAtEnd'
  <2> SUFFICES ASSUME told = "fin"
               PROVE  /\ r.fin_off = final /\ r.off = final /\ 0 .. final - 1 \subseteq arrived'
    BY <1>u, <1>2 DEF ToldAtEnd
  <2> QED
    BY <1>2, <1>3 DEF RecvInv, ToldAtEnd
<1>11. ~error'
  BY <1>2 DEF RecvInv
<1>12. EndReported'
  <2> SUFFICES ASSUME r.fin_off = r.off, ~ready(r), ~r.drain, ~r.error, ~late_fin'
               PROVE  told = "fin" /\ ~(Bidi => send_complete)
    BY <1>g, <1>u, <1>2 DEF EndReported, is_complete, is_fin
  <2>1. r.data = {}
    BY <1>3, ReadyAtEnd
  <2>2. r = recv \/ (recv.fin_off = NoFin /\ buf.len > 0 /\ recv.off = final)
    BY <1>1, <1>3, <2>1 DEF Written
  <2>3. r = recv
    <3>1. recv.fin_off = NoFin => fin
      BY <1>i, <1>3 DEF NoFin
    <3> QED
      BY <1>2, <2>2, <3>1
  <2> QED
    BY <1>g, <1>2, <2>3 DEF RecvInv, EndReported, is_complete, is_fin
<1> QED
  BY <1>2, <1>3, <1>6, <1>7, <1>8, <1>9, <1>10, <1>11, <1>12 DEF RecvInv

\* RESET_STREAM ends the stream at the final size.
LEMMA ResetKeeps ==
    ASSUME RecvInv, RecvResetFrame
    PROVE  RecvInv'
<1>i. /\ Tidy(recv) /\ recv.len <= final /\ recv.fin_off \in {NoFin, final}
      /\ final \in Nat
  BY InvIs
<1>u. /\ ~collected /\ collected' = collected /\ final' = final /\ late_fin' = late_fin
      /\ told' = told /\ arrived' = arrived /\ send_complete' = send_complete
      /\ stopped' = stopped
  BY DEF RecvResetFrame, history
<1> DEFINE r == reset(recv, final)
<1>1. /\ ~ResetError(recv, final) /\ Tidy(r) /\ r.error
      /\ r.off = final /\ r.fin_off = final /\ r.len = final
  BY <1>i, ResetEnds
<1>2. /\ recv' = r /\ readable' = (readable \/ (ready(r) /\ ~ready(recv))) /\ error' = error
  BY <1>1 DEF RecvResetFrame, Becomes
<1> HIDE DEF r
<1>3. r \in RecvBufs
  BY <1>1 DEF Tidy, Neat
<1>4. TypeOK'
  <2>1. recv' \in [data : SUBSET Chunk, off : Nat, len : Nat,
                   fin_off : Nat \cup {NoFin}, error : BOOLEAN, drain : BOOLEAN]
    BY <1>2, <1>3 DEF RecvBufs
  <2>2. readable' \in BOOLEAN /\ error' \in BOOLEAN
    BY <1>2 DEF RecvInv, TypeOK
  <2> QED
    BY <1>u, <2>1, <2>2 DEF RecvInv, TypeOK
<1>5. SizeKept'
  <2>1. final # NoFin /\ final <= final
    BY <1>i DEF NoFin
  <2> QED
    BY <1>u, <1>1, <1>2, <2>1 DEF RecvInv, SizeKept
<1>6. StoredIsUnread' /\ EndReported'
  BY <1>1, <1>2 DEF StoredIsUnread, EndReported
<1>7. (ready(recv) /\ ~collected => readable)'
  <2>1. ready(recv)' = ready(r)
    BY <1>2
  <2>2. ready(recv) => readable
    BY <1>u DEF RecvInv
  <2> QED
    BY <1>2, <2>1, <2>2
<1>8. ToldAtEnd'
  BY <1>u, <1>1, <1>2 DEF RecvInv, ToldAtEnd
<1> QED
  BY <1>1, <1>2, <1>4, <1>5, <1>6, <1>7, <1>8 DEF RecvInv

\* The application reads from the front, and is told of the end with the last byte.
LEMMA RecvKeeps ==
    ASSUME RecvInv, NEW cap \in 1 .. MaxLen + 1, stream_recv(cap)
    PROVE  RecvInv'
<1>i. /\ Tidy(recv) /\ recv \in RecvBufs
      /\ recv.off \in Nat /\ recv.len \in Nat /\ recv.fin_off \in Nat \cup {NoFin}
      /\ recv.error \in BOOLEAN /\ recv.drain \in BOOLEAN
      /\ final \in Nat /\ recv.len <= final /\ recv.fin_off \in {NoFin, final}
      /\ arrived \in SUBSET Nat
      /\ ~recv.drain /\ ~recv.error => Unread(recv, arrived)
  BY InvIs
<1>u. /\ final' = final /\ late_fin' = late_fin /\ arrived' = arrived
      /\ send_complete' = send_complete /\ stopped' = stopped /\ error' = error
  BY DEF stream_recv, history
<1> DEFINE r == emit(recv, cap)
<1>1. Emitted(r, recv)
  <2>1. cap \in Nat
    BY RecvAssumption
  <2> QED
    BY <1>i, <2>1, EmitReads
<1>2. /\ recv' = r /\ collected' = is_complete(r) /\ ready(recv)
      /\ readable' = ((ready(r) /\ ~recv.error) /\ ~is_complete(r))
      /\ told' = CASE recv.error -> "reset"
                   [] ~recv.error /\ is_fin(r) -> "fin"
                   [] OTHER -> told
  BY DEF stream_recv, Collect
<1> HIDE DEF r
<1>3. /\ Tidy(r) /\ r.len = recv.len /\ r.fin_off = recv.fin_off /\ r.error = recv.error
      /\ r.drain = recv.drain /\ recv.off <= r.off /\ r.off <= recv.len
      /\ recv.error => r.data = {}
  BY <1>1 DEF Emitted
<1>4. r \in RecvBufs /\ r.off \in Nat
  BY <1>3, RecvBufIs DEF Tidy, Neat
<1>5. ~recv.drain
  <2>1. recv.data # {}
    BY <1>2 DEF ready
  <2> QED
    BY <1>i, <2>1 DEF Tidy, Neat
<1>6. /\ recv.error => told' = "reset"
      /\ ~recv.error => told' = IF is_fin(r) THEN "fin" ELSE told
  BY <1>2
<1>7. TypeOK'
  <2>1. recv' \in [data : SUBSET Chunk, off : Nat, len : Nat,
                   fin_off : Nat \cup {NoFin}, error : BOOLEAN, drain : BOOLEAN]
    BY <1>2, <1>4 DEF RecvBufs
  <2>2. readable' \in BOOLEAN /\ collected' \in BOOLEAN
    BY <1>2 DEF is_complete
  <2>3. told' \in {"nothing", "fin", "reset"}
    BY <1>i, <1>6 DEF RecvInv, TypeOK
  <2> QED
    BY <1>u, <2>1, <2>2, <2>3 DEF RecvInv, TypeOK
<1>8. SizeKept'
  BY <1>u, <1>2, <1>3 DEF RecvInv, SizeKept
<1>9. ~recv.error => Unread(r, arrived)
  <2> SUFFICES ASSUME ~recv.error, NEW i \in Nat
               PROVE  /\ i \in Stored(r.data) <=> i \in arrived /\ i >= r.off
                      /\ i < r.off => i \in arrived
    BY DEF Unread
  <2>1. /\ i \in Stored(recv.data) <=> i \in arrived /\ i >= recv.off
        /\ i < recv.off => i \in arrived
    BY <1>i, <1>5 DEF Unread
  <2>2. /\ recv.off <= i /\ i < r.off => i \in Stored(recv.data)
        /\ i \in Stored(r.data) <=> i >= r.off /\ i \in Stored(recv.data)
    BY <1>1 DEF Emitted
  <2> QED
    BY <1>i, <1>3, <1>4, <2>1, <2>2
<1>10. StoredIsUnread'
  <2> SUFFICES ASSUME ~r.error
               PROVE  /\ UNION {Bytes(b) : b \in r.data} = arrived \ 0 .. r.off - 1
                      /\ \A a, b \in r.data : a # b => Bytes(a) \cap Bytes(b) = {}
                      /\ 0 .. r.off - 1 \subseteq arrived
    BY <1>u, <1>2 DEF StoredIsUnread
  <2>1. Unread(r, arrived)
    BY <1>3, <1>9
  <2> QED
    BY <1>i, <1>3, <2>1, UnreadIs
<1>11. (ready(recv) /\ ~collected => readable)'
  <2>1. ready(recv)' = ready(r)
    BY <1>2
  <2>2. recv.error => ~ready(r)
    BY <1>3 DEF ready
  <2> QED
    BY <1>2, <2>1, <2>2
<1>12. ToldAtEnd'
  <2> SUFFICES ASSUME told' = "fin"
               PROVE  r.fin_off = final /\ r.off = final /\ 0 .. final - 1 \subseteq arrived
    BY <1>u, <1>2 DEF ToldAtEnd
  <2>1. ~recv.error
    BY <1>6
  <2>2. CASE is_fin(r)
    <3>1. r.fin_off = final /\ r.off = final
      BY <1>i, <1>3, <1>4, <2>2 DEF is_fin, NoFin
    <3> QED
      BY <1>i, <1>9, <2>1, <3>1 DEF Unread
  <2>3. CASE ~is_fin(r)
    <3>1. told = "fin"
      BY <1>6, <2>1, <2>3
    <3>2. recv.fin_off = final /\ recv.off = final /\ 0 .. final - 1 \subseteq arrived
      BY <3>1 DEF RecvInv, ToldAtEnd
    <3> QED
      BY <1>i, <1>3, <1>4, <3>2
  <2> QED
    BY <2>2, <2>3
<1>13. EndReported'
  <2> SUFFICES ASSUME is_fin(r), ~r.error
               PROVE  told' = "fin" /\ (is_complete(r) => collected')
    BY <1>u, <1>2 DEF EndReported, is_complete, is_fin
  <2> QED
    BY <1>2, <1>3, <1>6
<1> QED
  BY <1>u, <1>2, <1>3, <1>7, <1>8, <1>10, <1>11, <1>12, <1>13 DEF RecvInv

\* A stream that is shut down drops what it has and what comes.
LEMMA ShutdownKeeps ==
    ASSUME RecvInv, stream_shutdown
    PROVE  RecvInv'
<1>i. /\ Tidy(recv) /\ recv.off \in Nat /\ recv.len \in Nat /\ recv.off <= recv.len
      /\ final \in Nat /\ recv.len <= final
  BY InvIs DEF Tidy
<1>u. /\ final' = final /\ late_fin' = late_fin /\ arrived' = arrived /\ told' = told
      /\ send_complete' = send_complete /\ error' = error /\ collected' = collected
  BY DEF stream_shutdown, history
<1> DEFINE r == shutdown(recv)
<1>1. /\ Tidy(r) /\ r.data = {} /\ r.drain /\ r.off = recv.len /\ r.len = recv.len
      /\ r.fin_off = recv.fin_off /\ r.error = recv.error
  BY <1>i, ShutdownDrains
<1>2. recv' = r /\ readable' = FALSE /\ stopped' = (stopped \/ ~is_fin(r))
  BY DEF stream_shutdown
<1> HIDE DEF r
<1>3. r \in RecvBufs
  BY <1>1 DEF Tidy, Neat
<1>4. TypeOK'
  <2>1. recv' \in [data : SUBSET Chunk, off : Nat, len : Nat,
                   fin_off : Nat \cup {NoFin}, error : BOOLEAN, drain : BOOLEAN]
    BY <1>2, <1>3 DEF RecvBufs
  <2>2. readable' \in BOOLEAN /\ stopped' \in BOOLEAN
    BY <1>2 DEF RecvInv, TypeOK
  <2> QED
    BY <1>u, <2>1, <2>2 DEF RecvInv, TypeOK
<1>5. SizeKept'
  BY <1>u, <1>1, <1>2 DEF RecvInv, SizeKept
<1>6. StoredIsUnread' /\ EndReported'
  BY <1>1, <1>2 DEF StoredIsUnread, EndReported
<1>7. (ready(recv) /\ ~collected => readable)'
  <2>1. ~ready(r)
    BY <1>1 DEF ready
  <2>2. ready(recv)' = ready(r)
    BY <1>2
  <2> QED
    BY <2>1, <2>2
<1>8. ToldAtEnd'
  BY <1>i, <1>u, <1>1, <1>2 DEF RecvInv, ToldAtEnd
<1> QED
  BY <1>u, <1>1, <1>2, <1>4, <1>5, <1>6, <1>7, <1>8 DEF RecvInv

\* The ack of the send side collects a stream that was read to its end.
LEMMA AckKeeps ==
    ASSUME RecvInv, AckSendSide
    PROVE  RecvInv'
<1>u. /\ final' = final /\ late_fin' = late_fin /\ arrived' = arrived /\ told' = told
      /\ recv' = recv /\ error' = error /\ stopped' = stopped
      /\ send_complete' = TRUE /\ ~collected
      /\ collected' = (is_fin(recv) /\ ~ready(recv))
      /\ readable' = (readable /\ ~(is_fin(recv) /\ ~ready(recv)))
  BY DEF AckSendSide, Collect, history
<1>1. TypeOK'
  BY <1>u DEF RecvInv, TypeOK
<1>2. Tidy(recv)' /\ SizeKept' /\ StoredIsUnread' /\ ToldAtEnd'
  BY <1>u DEF RecvInv, Tidy, Neat, SizeKept, StoredIsUnread, ToldAtEnd
<1>3. ready(recv)' = ready(recv)
  BY <1>u
<1>4. (ready(recv) /\ ~collected => readable)'
  BY <1>u, <1>3 DEF RecvInv
<1>5. EndReported'
  BY <1>u, <1>3 DEF RecvInv, EndReported, is_complete, is_fin
<1> QED
  BY <1>u, <1>1, <1>2, <1>4, <1>5 DEF RecvInv

LEMMA RecvInvStep == RecvInv /\ [Next]_vars => RecvInv'
<1> SUFFICES ASSUME RecvInv, [Next]_vars PROVE RecvInv'
  OBVIOUS
<1>1. ASSUME NEW buf \in Frames, NEW fin \in BOOLEAN, RecvStreamFrame(buf, fin) PROVE RecvInv'
  BY <1>1, FrameKeeps
<1>2. CASE RecvResetFrame
  BY <1>2, ResetKeeps
<1>3. ASSUME NEW cap \in 1 .. MaxLen + 1, stream_recv(cap) PROVE RecvInv'
  BY <1>3, RecvKeeps
<1>4. CASE stream_shutdown
  BY <1>4, ShutdownKeeps
<1>5. CASE AckSendSide
  BY <1>5, AckKeeps
<1>6. CASE UNCHANGED vars
  <2>1. ready(recv)' = ready(recv) /\ is_complete(recv)' = is_complete(recv)
    BY <1>6 DEF vars, is_complete
  <2> QED
    BY <1>6, <2>1 DEF vars, connVars, history, RecvInv, TypeOK, SizeKept, StoredIsUnread,
                      ToldAtEnd, EndReported
<1> QED
  BY <1>1, <1>2, <1>3, <1>4, <1>5, <1>6 DEF Next

-----------------------------------------------------------------------------
(* The theorems.                                                             *)

\* The inductive invariant holds in every state: the chunks are in order between what
\* was read and what was received, and the peer's final size is kept.
THEOREM RecvInvariant == Spec => []RecvInv
  BY RecvInvInit, RecvInvStep, PTL DEF Spec

\* write, emit and reset keep the type of the buffer.
THEOREM TypeCorrect == Spec => []TypeOK
<1>1. RecvInv => TypeOK
  BY DEF RecvInv
<1> QED
  BY <1>1, RecvInvariant, PTL

\* The buffer holds exactly the bytes that arrived and were not read, in chunks that do
\* not overlap, however write had to cut the frames: each byte is read once.
THEOREM StoredIsUnreadHolds == Spec => []StoredIsUnread
<1>1. RecvInv => StoredIsUnread
  BY DEF RecvInv
<1> QED
  BY <1>1, RecvInvariant, PTL

\* When the next byte has arrived ready() finds it at the front of the map, and the
\* stream is in the queue the application polls.
THEOREM NotStuckHolds == Spec => []NotStuck
<1>1. RecvInv => NotStuck
  <2> SUFFICES ASSUME RecvInv PROVE NotStuck
    OBVIOUS
  <2>1. ASSUME ~recv.drain, ~recv.error, recv.off \in arrived PROVE ready(recv)
    <3>1. Tidy(recv) /\ Unread(recv, arrived) /\ recv.off \in Nat
      BY <2>1, InvIs
    <3>2. recv.off \in Stored(recv.data)
      BY <2>1, <3>1 DEF Unread
    <3> QED
      BY <3>1, <3>2, ReadyNext
  <2>2. ready(recv) /\ ~collected => readable
    BY DEF RecvInv
  <2> QED
    BY <2>1, <2>2 DEF NotStuck
<1> QED
  BY <1>1, RecvInvariant, PTL

\* stream_recv reports the end only once all bytes of the stream arrived and were read;
\* a known final size is the length; and no frame of a correct peer is refused.
THEOREM FinMeansAllHolds == Spec => []FinMeansAll
<1>1. RecvInv => FinMeansAll
  BY InvIs DEF RecvInv, FinMeansAll, ToldAtEnd, Tidy
<1> QED
  BY <1>1, RecvInvariant, PTL

\* A stream that was read to its end has reported it, and is collected when its send
\* side is complete too, by stream_recv or by the ack, whichever comes last; unless the
\* FIN first came with data that had been read (late_fin), the one case in which write
\* returns before it stores what would tell of the end.
THEOREM EndReportedHolds == Spec => []EndReported
<1>1. RecvInv => EndReported
  BY DEF RecvInv
<1> QED
  BY <1>1, RecvInvariant, PTL
=============================================================================
