--------------------------- MODULE PktSpaceProofs ---------------------------
(***************************************************************************)
(* Which packets are accepted, what the ACK frames list and which keys are   *)
(* used, for any number of packets, ranges and key updates.                 *)
(***************************************************************************)
EXTENDS PktSpace, SequenceTheorems, WellFoundedInduction, TLAPS

-----------------------------------------------------------------------------
(* Numbers.                                                                  *)

\* A non-empty set of natural numbers has a smallest member.
LEMMA MinInSet ==
    ASSUME NEW S, S \subseteq Nat, S # {}
    PROVE  Min(S) \in S /\ \A y \in S : Min(S) <= y
<1>1. PICK x \in S : \A y \in S : ~(<<y, x>> \in OpToRel(<, Nat))
  BY NatLessThanWellFounded, WFMin
<1>2. \A y \in S : ~(y < x)
  BY <1>1, Zenon DEF OpToRel
<1>3. \A y \in S : x <= y
  BY <1>2
<1> QED
  BY <1>3 DEF Min

\* One with a bound has a largest member.
LEMMA MaxInSet ==
    ASSUME NEW S, S \subseteq Nat, S # {}, NEW n \in Nat, \A y \in S : y <= n
    PROVE  Max(S) \in S /\ \A y \in S : Max(S) >= y
<1> DEFINE T == {k \in 0 .. n : n - k \in S}
<1>1. T \subseteq Nat /\ T # {}
  <2>1. PICK y \in S : TRUE
    OBVIOUS
  <2>2. n - y \in 0 .. n /\ n - (n - y) = y
    OBVIOUS
  <2> QED
    BY <2>2, SMTT(30)
<1>2. Min(T) \in T /\ \A k \in T : Min(T) <= k
  BY <1>1, MinInSet
<1>3. ASSUME NEW y \in S PROVE n - Min(T) >= y
  <2>1. n - y \in T
    BY <1>3
  <2> QED
    BY <1>2, <2>1
<1>4. n - Min(T) \in S
  BY <1>2
<1> QED
  BY <1>3, <1>4 DEF Max

\* Of two numbers.
LEMMA OfTwo ==
    ASSUME NEW a \in Int, NEW b \in Int
    PROVE  /\ Min({a, b}) = IF a <= b THEN a ELSE b
           /\ Max({a, b}) = IF a >= b THEN a ELSE b
  BY DEF Min, Max

\* Induction, on the members of a set.
LEMMA Induction ==
    ASSUME NEW n \in Nat, NEW P, 0 \in P, \A k \in 1 .. n : k - 1 \in P => k \in P
    PROVE  n \in P
<1> SUFFICES ASSUME n \notin P PROVE FALSE
  OBVIOUS
<1> DEFINE bad == {k \in 0 .. n : k \notin P}
<1>1. bad # {} /\ bad \subseteq Nat
  OBVIOUS
<1>2. Min(bad) \in bad /\ \A y \in bad : Min(bad) <= y
  BY <1>1, MinInSet
<1>3. PICK k \in bad : \A y \in bad : k <= y
  BY <1>2
<1>4. k # 0 /\ k \in 0 .. n
  OBVIOUS
<1>5. k - 1 \in 0 .. n /\ k - 1 \notin bad
  BY <1>3, <1>4
<1> QED
  BY <1>4, <1>5

-----------------------------------------------------------------------------
(* Range sets.                                                               *)

\* Ranges that are not empty, in order, with gaps between them.
Gapped(inner) ==
    /\ inner \in Seq(Nat \X Nat)
    /\ \A i \in DOMAIN inner : inner[i][1] < inner[i][2]
    /\ \A i, j \in DOMAIN inner : i < j => inner[i][2] < inner[j][1]

In(x, r) == r[1] <= x /\ x < r[2]
Has(inner, x) == \E i \in DOMAIN inner : In(x, inner[i])

\* The ranges from p to q are those that the item touches.
Place(inner, item, p, q) ==
    /\ p \in 1 .. Len(inner) + 1 /\ q \in p - 1 .. Len(inner)
    /\ \A i \in DOMAIN inner : i < p => inner[i][2] < item[1]
    /\ \A i \in DOMAIN inner : p <= i /\ i <= q => inner[i][1] <= item[2] /\ item[1] <= inner[i][2]
    /\ \A i \in DOMAIN inner : q < i => item[2] < inner[i][1]

Hull(inner, item, p, q) ==
    IF q < p THEN item
    ELSE <<IF item[1] <= inner[p][1] THEN item[1] ELSE inner[p][1],
           IF item[2] >= inner[q][2] THEN item[2] ELSE inner[q][2]>>

Item == {r \in Nat \X Nat : r[1] < r[2]}

\* What the elements of a spliced list are.
SplicedIs(t, inner, p, q, r) ==
    /\ t \in Seq(Nat \X Nat) /\ Len(t) = Len(inner) + p - q
    /\ t[p] = r
    /\ \A i \in 1 .. p - 1 : t[i] = inner[i]
    /\ \A i \in p + 1 .. Len(t) : t[i] = inner[i + q - p]

LEMMA Spliced ==
    ASSUME NEW inner \in Seq(Nat \X Nat), NEW p \in 1 .. Len(inner) + 1,
           NEW q \in p - 1 .. Len(inner), NEW r \in Nat \X Nat
    PROVE  SplicedIs(Splice(inner, p, q, r), inner, p, q, r)
<1> DEFINE t == Splice(inner, p, q, r)
<1>1. Len(inner) \in Nat /\ p \in Int /\ q \in Int
  OBVIOUS
<1>2. /\ DOMAIN t = 1 .. (Len(inner) + p - q) /\ Len(inner) + p - q \in Nat
      /\ t \in [1 .. (Len(inner) + p - q) -> Nat \X Nat]
      /\ \A i \in 1 .. (Len(inner) + p - q) :
            t[i] = IF i < p THEN inner[i] ELSE IF i = p THEN r ELSE inner[i + q - p]
  <2>1. t = [i \in 1..(Len(inner) + p - q) |->
               IF i < p THEN inner[i] ELSE IF i = p THEN r ELSE inner[i + q - p]]
    BY DEF Splice
  <2>2. ASSUME NEW i \in 1 .. (Len(inner) + p - q) PROVE t[i] \in Nat \X Nat
    <3>1. i < p => i \in 1 .. Len(inner)
      BY <1>1
    <3>2. i > p => i + q - p \in 1 .. Len(inner)
      BY <1>1
    <3>3. CASE i < p
      BY <2>1, <3>1, <3>3
    <3>4. CASE i = p
      BY <2>1, <3>4
    <3>5. CASE i > p
      BY <2>1, <3>2, <3>5
    <3> QED
      BY <1>1, <3>3, <3>4, <3>5
  <2> HIDE DEF t
  <2>3. DOMAIN t = 1 .. (Len(inner) + p - q) /\ Len(inner) + p - q \in Nat
    BY <1>1, <2>1
  <2>4. t \in [1 .. (Len(inner) + p - q) -> Nat \X Nat]
    BY <2>1, <2>2
  <2>5. \A i \in 1 .. (Len(inner) + p - q) :
            t[i] = IF i < p THEN inner[i] ELSE IF i = p THEN r ELSE inner[i + q - p]
    BY <2>1
  <2> QED
    BY <2>3, <2>4, <2>5
<1> HIDE DEF t
<1>3. t \in Seq(Nat \X Nat) /\ Len(t) = Len(inner) + p - q
  <2> DEFINE n == Len(inner) + p - q
  <2>1. n \in Nat /\ t \in [1 .. n -> Nat \X Nat]
    BY <1>2
  <2> HIDE DEF n
  <2>2. t \in Seq(Nat \X Nat) /\ Len(t) = n
    BY <2>1
  <2> QED
    BY <2>2 DEF n
<1>4. p \in 1 .. (Len(inner) + p - q)
  BY <1>1
<1>5. t[p] = r
  BY <1>1, <1>2, <1>4
<1>6. ASSUME NEW i \in 1 .. p - 1 PROVE t[i] = inner[i]
  <2>1. i \in 1 .. (Len(inner) + p - q) /\ i < p
    BY <1>1
  <2> QED
    BY <1>2, <2>1
<1>7. ASSUME NEW i \in p + 1 .. Len(t) PROVE t[i] = inner[i + q - p]
  <2>1. i \in 1 .. (Len(inner) + p - q) /\ i > p /\ ~(i < p) /\ i # p
    BY <1>1, <1>3
  <2> QED
    BY <1>2, <2>1
<1> QED
  BY <1>3, <1>5, <1>6, <1>7 DEF SplicedIs, t

\* An item put in its place joins the ranges that it touches, and adds what is in it.
LEMMA JoinsIn ==
    ASSUME NEW inner, Gapped(inner), NEW item \in Item, NEW p, NEW q, Place(inner, item, p, q),
           NEW t, SplicedIs(t, inner, p, q, Hull(inner, item, p, q))
    PROVE  /\ Gapped(t)
           /\ \A x \in Nat : Has(t, x) <=> Has(inner, x) \/ In(x, item)
<1> DEFINE r == Hull(inner, item, p, q)
<1>1. /\ Len(inner) \in Nat /\ 1 <= p /\ p <= Len(inner) + 1 /\ p - 1 <= q /\ q <= Len(inner)
      /\ DOMAIN inner = 1 .. Len(inner) /\ inner \in Seq(Nat \X Nat)
      /\ p \in Nat /\ q \in Nat
  <2>1. /\ inner \in Seq(Nat \X Nat) /\ p \in 1 .. Len(inner) + 1 /\ q \in p - 1 .. Len(inner)
    BY DEF Gapped, Place
  <2>2. Len(inner) \in Nat /\ DOMAIN inner = 1 .. Len(inner)
    BY <2>1
  <2> QED
    BY <2>1, <2>2
<1> DEFINE n == Len(inner)
           m == Len(t)
<1>n. n \in Nat /\ p \in Nat /\ q \in Nat /\ 1 <= p /\ p <= n + 1 /\ p - 1 <= q /\ q <= n
  BY <1>1
<1>d. DOMAIN inner = 1 .. n
  BY <1>1
<1>g. \A i, j \in 1 .. n : i < j => inner[i][2] < inner[j][1]
  BY <1>1 DEF Gapped
<1>p. /\ \A i \in 1 .. n : i < p => inner[i][2] < item[1]
      /\ \A i \in 1 .. n : p <= i /\ i <= q => inner[i][1] <= item[2] /\ item[1] <= inner[i][2]
      /\ \A i \in 1 .. n : q < i => item[2] < inner[i][1]
  BY <1>d DEF Place
<1>2. /\ item \in Nat \X Nat /\ item[1] \in Nat /\ item[2] \in Nat /\ item[1] < item[2]
  BY DEF Item
<1>3. \A i \in 1 .. n : inner[i][1] \in Nat /\ inner[i][2] \in Nat
                        /\ inner[i][1] < inner[i][2]
  <2>1. \A i \in 1 .. n : inner[i] \in Nat \X Nat
    BY <1>1
  <2> QED
    BY <1>1, <2>1 DEF Gapped
<1> HIDE DEF n
<1>4. /\ r \in Nat \X Nat /\ r[1] \in Nat /\ r[2] \in Nat /\ r[1] < r[2]
      /\ r[1] <= item[1] /\ item[2] <= r[2]
      /\ q < p => r = item
      /\ p <= q => /\ p \in 1 .. n /\ q \in 1 .. n
                   /\ r[1] = (IF item[1] <= inner[p][1] THEN item[1] ELSE inner[p][1])
                   /\ r[2] = (IF item[2] >= inner[q][2] THEN item[2] ELSE inner[q][2])
  <2>1. CASE q < p
    BY <1>n, <1>2, <2>1 DEF Hull
  <2>2. CASE p <= q
    <3>1. p \in 1 .. n /\ q \in 1 .. n /\ ~(q < p)
      BY <1>n, <2>2
    <3>2. r = <<IF item[1] <= inner[p][1] THEN item[1] ELSE inner[p][1],
                IF item[2] >= inner[q][2] THEN item[2] ELSE inner[q][2]>>
      BY <3>1 DEF Hull
    <3> HIDE DEF r
    <3> QED
      BY <1>2, <1>3, <3>1, <3>2, <2>2
  <2> QED
    BY <1>n, <2>1, <2>2
<1> HIDE DEF r
<1>s. t \in Seq(Nat \X Nat) /\ DOMAIN t = 1 .. m
  BY DEF SplicedIs
<1>5. /\ m = n + p - q /\ t[p] = r
      /\ \A i \in 1 .. p - 1 : t[i] = inner[i]
      /\ \A i \in p + 1 .. m : t[i] = inner[i + q - p]
      /\ m \in Nat /\ p \in 1 .. m
  <2>1. /\ m = n + p - q /\ t[p] = r
        /\ \A i \in 1 .. p - 1 : t[i] = inner[i]
        /\ \A i \in p + 1 .. m : t[i] = inner[i + q - p]
    BY DEF SplicedIs, r, n
  <2> HIDE DEF m
  <2> QED
    BY <1>n, <2>1
<1> HIDE DEF m
<1>6. \A i \in 1 .. n : /\ i < p => inner[i][2] < r[1]
                        /\ q < i => r[2] < inner[i][1]
  <2> SUFFICES ASSUME NEW i \in 1 .. n
               PROVE  (i < p => inner[i][2] < r[1]) /\ (q < i => r[2] < inner[i][1])
    OBVIOUS
  <2>1. /\ i < p => inner[i][2] < item[1]
        /\ q < i => item[2] < inner[i][1]
    BY <1>p
  <2>2. /\ p <= q /\ i < p => inner[i][2] < inner[p][1]
        /\ p <= q /\ q < i => inner[q][2] < inner[i][1]
    BY <1>n, <1>4, <1>g
  <2> QED
    BY <1>n, <1>2, <1>3, <1>4, <2>1, <2>2
<1>7. ASSUME NEW i \in 1 .. m
      PROVE  \/ i < p /\ i \in 1 .. n /\ t[i] = inner[i]
             \/ i = p /\ t[i] = r
             \/ /\ i > p /\ i + q - p \in 1 .. n /\ i + q - p > q
                /\ t[i] = inner[i + q - p]
  <2>1. CASE i < p
    <3>1. i \in 1 .. p - 1 /\ i \in 1 .. n
      BY <1>n, <2>1
    <3> QED
      BY <1>5, <2>1, <3>1
  <2>2. CASE i = p
    BY <1>5, <2>2
  <2>3. CASE i > p
    <3>1. i \in p + 1 .. m /\ i + q - p \in 1 .. n /\ i + q - p > q
      BY <1>n, <1>5, <2>3
    <3> QED
      BY <1>5, <2>3, <3>1
  <2> QED
    BY <1>n, <2>1, <2>2, <2>3
<1>8. Gapped(t)
  <2>1. \A i \in 1 .. m : t[i][1] < t[i][2]
    BY <1>3, <1>4, <1>5, <1>7
  <2>2. ASSUME NEW i \in 1 .. m, NEW j \in 1 .. m, i < j
        PROVE  t[i][2] < t[j][1]
    <3>1. CASE i < p /\ j < p
      <4>1. i \in 1 .. n /\ t[i] = inner[i] /\ j \in 1 .. n /\ t[j] = inner[j]
        BY <1>n, <1>7, <3>1
      <4> QED
        BY <1>g, <2>2, <4>1
    <3>2. CASE i < p /\ j = p
      <4>1. i \in 1 .. n /\ t[i] = inner[i] /\ t[j] = r
        BY <1>n, <1>7, <3>2
      <4> QED
        BY <1>6, <3>2, <4>1
    <3>3. CASE i < p /\ j > p
      <4>1. /\ i \in 1 .. n /\ t[i] = inner[i]
            /\ j + q - p \in 1 .. n /\ t[j] = inner[j + q - p]
            /\ i < j + q - p
        BY <1>n, <1>7, <3>3
      <4> QED
        BY <1>g, <4>1
    <3>4. CASE i = p /\ j > p
      <4>1. j + q - p \in 1 .. n /\ j + q - p > q /\ t[j] = inner[j + q - p] /\ t[i] = r
        BY <1>n, <1>7, <3>4
      <4> QED
        BY <1>6, <4>1
    <3>5. CASE i > p /\ j > p
      <4>1. /\ i + q - p \in 1 .. n /\ t[i] = inner[i + q - p]
            /\ j + q - p \in 1 .. n /\ t[j] = inner[j + q - p]
            /\ i + q - p < j + q - p
        BY <1>n, <1>7, <2>2, <3>5
      <4> QED
        BY <1>g, <4>1
    <3> QED
      BY <1>n, <2>2, <3>1, <3>2, <3>3, <3>4, <3>5
  <2> QED
    BY <1>s, <2>1, <2>2 DEF Gapped
<1>9. ASSUME NEW x \in Nat, In(x, item) PROVE Has(t, x)
  <2>1. In(x, t[p])
    BY <1>2, <1>4, <1>5, <1>9 DEF In
  <2> QED
    BY <1>5, <1>s, <2>1 DEF Has
<1>10. ASSUME NEW x \in Nat, NEW k \in 1 .. n, In(x, inner[k]) PROVE Has(t, x)
  <2>0. k \in 1 .. n /\ inner[k][1] \in Nat /\ inner[k][2] \in Nat
    BY <1>n, <1>3
  <2>1. CASE k < p
    <3>1. k \in 1 .. m /\ t[k] = inner[k]
      BY <1>n, <1>5, <2>0, <2>1
    <3> QED
      BY <1>s, <1>10, <3>1 DEF Has
  <2>2. CASE k > q
    <3>1. k + p - q \in p + 1 .. m /\ (k + p - q) + q - p = k
      BY <1>n, <1>5, <2>0, <2>2
    <3>2. t[k + p - q] = inner[k] /\ k + p - q \in 1 .. m
      BY <1>n, <1>5, <3>1
    <3> QED
      BY <1>10, <1>s, <3>2 DEF Has
  <2>3. CASE p <= k /\ k <= q
    <3>1. inner[p][1] <= inner[k][1] /\ inner[k][2] <= inner[q][2] /\ p <= q
          /\ inner[p][1] \in Nat /\ inner[p][2] \in Nat /\ inner[q][1] \in Nat /\ inner[q][2] \in Nat
      <4>1. p \in 1 .. n /\ q \in 1 .. n /\ p <= q
        BY <1>n, <1>4, <2>0, <2>3
      <4>2. /\ k = p \/ inner[p][2] < inner[k][1]
            /\ k = q \/ inner[k][2] < inner[q][1]
        BY <1>g, <1>n, <2>0, <2>3, <4>1
      <4> QED
        BY <1>3, <2>0, <4>1, <4>2
    <3>2. In(x, r)
      BY <1>2, <1>4, <1>10, <2>0, <3>1 DEF In
    <3> QED
      BY <1>5, <1>s, <3>2 DEF Has
  <2> QED
    BY <1>n, <2>0, <2>1, <2>2, <2>3
<1>11. ASSUME NEW x \in Nat, NEW k \in 1 .. m, In(x, t[k])
       PROVE  Has(inner, x) \/ In(x, item)
  <2>1. CASE k < p
    BY <1>d, <1>7, <1>11, <2>1 DEF Has
  <2>2. CASE k > p
    BY <1>d, <1>n, <1>7, <1>11, <2>2 DEF Has
  <2>3. CASE k = p
    <3>1. In(x, r)
      BY <1>5, <1>11, <2>3
    <3>2. CASE q < p
      BY <1>4, <3>1, <3>2
    <3>3. CASE p <= q
      <4>1. p \in 1 .. n /\ q \in 1 .. n
        BY <1>4, <3>3
      <4>2. item[1] <= inner[p][2] /\ inner[q][1] <= item[2]
        BY <1>n, <1>p, <3>3, <4>1
      <4>3. In(x, item) \/ In(x, inner[p]) \/ In(x, inner[q])
        BY <1>2, <1>3, <1>4, <3>1, <3>3, <4>1, <4>2 DEF In
      <4> QED
        BY <1>d, <4>1, <4>3 DEF Has
    <3> QED
      BY <1>n, <3>2, <3>3
  <2> QED
    BY <1>n, <2>1, <2>2, <2>3
<1> QED
  BY <1>8, <1>9, <1>10, <1>11, <1>d, <1>s DEF Has

\* The first range that the item is not past, and the ranges up to some other.
LEMMA FirstIs ==
    ASSUME NEW inner, inner \in Seq(Nat \X Nat), NEW S, S \subseteq DOMAIN inner
    PROVE  LET f == Min(S \cup {Len(inner) + 1})
           IN  f \in 1 .. Len(inner) + 1 /\ (f \in S \/ f = Len(inner) + 1) /\ \A y \in S : f <= y
<1> DEFINE T == S \cup {Len(inner) + 1}
<1>1. T \subseteq Nat /\ T # {} /\ T \subseteq 1 .. Len(inner) + 1 /\ Len(inner) \in Nat
  OBVIOUS
<1>2. Min(T) \in T /\ \A y \in T : Min(T) <= y
  <2> HIDE DEF T
  <2> QED
    BY <1>1, MinInSet
<1> QED
  BY <1>1, <1>2

LEMMA LastIs ==
    ASSUME NEW inner, inner \in Seq(Nat \X Nat), NEW S, S \subseteq DOMAIN inner,
           NEW p \in 0 .. Len(inner) + 1
    PROVE  LET f == Max(S \cup {p})
           IN  f \in 0 .. Len(inner) + 1 /\ (f \in S \/ f = p) /\ p <= f /\ \A y \in S : y <= f
<1> DEFINE T == S \cup {p}
<1>1. /\ T \subseteq Nat /\ T # {} /\ T \subseteq 0 .. Len(inner) + 1 /\ Len(inner) + 1 \in Nat
      /\ \A y \in T : y <= Len(inner) + 1
  OBVIOUS
<1>2. Max(T) \in T /\ \A y \in T : Max(T) >= y
  <2> HIDE DEF T
  <2> QED
    BY <1>1, MaxInSet
<1>3. Max(T) \in Nat
  BY <1>1, <1>2
<1> QED
  BY <1>1, <1>2, <1>3

\* The numbers in the ranges of a list.
LEMMA GappedIs ==
    ASSUME NEW inner, Gapped(inner)
    PROVE  /\ inner \in Seq(Nat \X Nat) /\ Len(inner) \in Nat /\ DOMAIN inner = 1 .. Len(inner)
           /\ \A i \in 1 .. Len(inner) : /\ inner[i] \in Nat \X Nat
                                         /\ inner[i][1] \in Nat /\ inner[i][2] \in Nat
                                         /\ inner[i][1] < inner[i][2]
           /\ \A i, j \in 1 .. Len(inner) : i < j => inner[i][2] < inner[j][1]
<1>1. inner \in Seq(Nat \X Nat) /\ Len(inner) \in Nat /\ DOMAIN inner = 1 .. Len(inner)
  BY DEF Gapped
<1>2. \A i \in 1 .. Len(inner) : inner[i] \in Nat \X Nat
  BY <1>1
<1> QED
  BY <1>1, <1>2 DEF Gapped

\* What an item becomes when it is inserted.
Inserts(t, inner, item) ==
    \E p, q \in Nat : /\ Place(inner, item, p, q)
                      /\ t = Splice(inner, p, q, Hull(inner, item, p, q))

LEMMA InsertsBy ==
    ASSUME NEW t, NEW inner, NEW item, NEW p \in Nat, NEW q \in Nat, Place(inner, item, p, q),
           t = Splice(inner, p, q, Hull(inner, item, p, q))
    PROVE  Inserts(t, inner, item)
  BY Zenon DEF Inserts

\* The array, when it is not at capacity.
LEMMA InlineInserts ==
    ASSUME NEW inner, Gapped(inner), NEW item \in Item, NEW capacity, Len(inner) # capacity
    PROVE  Inserts(InlineInsert(inner, item, capacity), inner, item)
<1> DEFINE n == Len(inner)
           S == {i \in DOMAIN inner : item[1] <= inner[i][2]}
           U == {i \in DOMAIN inner : inner[i][1] <= item[2]}
           pos == Min(S \cup {n + 1})
           lst == Max(U \cup {pos})
           t == InlineInsert(inner, item, capacity)
<1>i. /\ inner \in Seq(Nat \X Nat) /\ n \in Nat /\ DOMAIN inner = 1 .. n
      /\ \A i \in 1 .. n : /\ inner[i][1] \in Nat /\ inner[i][2] \in Nat
                           /\ inner[i][1] < inner[i][2]
      /\ \A i, j \in 1 .. n : i < j => inner[i][2] < inner[j][1]
  BY GappedIs
<1>a. item[1] \in Nat /\ item[2] \in Nat /\ item[1] < item[2]
  BY DEF Item
<1>1. pos \in 1 .. n + 1 /\ (pos \in S \/ pos = n + 1) /\ \A y \in S : pos <= y
  <2>1. S \subseteq DOMAIN inner
    OBVIOUS
  <2> HIDE DEF S
  <2> QED
    BY <2>1, <1>i, FirstIs
<1>2. lst \in 0 .. n + 1 /\ (lst \in U \/ lst = pos) /\ pos <= lst /\ \A y \in U : y <= lst
  <2>1. U \subseteq DOMAIN inner /\ pos \in 0 .. n + 1
    BY <1>1
  <2> HIDE DEF U, pos
  <2> QED
    BY <2>1, <1>i, LastIs
<1>3. t = CASE pos > n -> Append(inner, item)
            [] pos <= n /\ item[2] < inner[pos][1] -> Splice(inner, pos, pos - 1, item)
            [] OTHER -> Splice(inner, pos, lst, <<Min({item[1], inner[pos][1]}),
                                                  Max({item[2], inner[lst][2]})>>)
  BY DEF InlineInsert
<1> HIDE DEF t
<1>4. /\ \A i \in 1 .. n : i < pos => inner[i][2] < item[1]
      /\ \A i \in 1 .. n : lst < i => item[2] < inner[i][1]
      /\ pos <= n => item[1] <= inner[pos][2]
      /\ lst # pos => lst \in 1 .. n /\ inner[lst][1] <= item[2]
  <2>1. ASSUME NEW i \in 1 .. n, i < pos PROVE inner[i][2] < item[1]
    <3>1. i \notin S
      <4> HIDE DEF S, pos
      <4> QED
        BY <1>1, <2>1
    <3> QED
      BY <1>i, <1>a, <3>1
  <2>2. ASSUME NEW i \in 1 .. n, lst < i PROVE item[2] < inner[i][1]
    <3>1. i \notin U
      <4> HIDE DEF U, lst
      <4> QED
        BY <1>2, <2>2
    <3> QED
      BY <1>i, <1>a, <3>1
  <2>3. pos <= n => item[1] <= inner[pos][2]
    <3>1. pos <= n => pos \in S
      <4> HIDE DEF S, pos
      <4> QED
        BY <1>1, <1>i
    <3> HIDE DEF pos
    <3> QED
      BY <3>1
  <2>4. lst # pos => lst \in 1 .. n /\ inner[lst][1] <= item[2]
    <3>1. lst # pos => lst \in U
      BY <1>2
    <3> HIDE DEF pos, lst
    <3> QED
      BY <3>1, <1>i
  <2> QED
    BY <2>1, <2>2, <2>3, <2>4
<1>5. pos \in Nat /\ 1 <= pos /\ pos <= n + 1 /\ lst \in Nat /\ pos <= lst
  <2> HIDE DEF pos, lst
  <2> QED
    BY <1>1, <1>2
<1> HIDE DEF pos, lst, S, U
<1>6. CASE pos > n
  <2>1. t = Append(inner, item)
    BY <1>3, <1>5, <1>6, <1>i
  <2>2. Place(inner, item, n + 1, n) /\ n + 1 \in Nat
    <3>1. pos = n + 1
      BY <1>5, <1>6, <1>i
    <3> QED
      BY <1>4, <1>i, <3>1 DEF Place
  <2>3. Hull(inner, item, n + 1, n) = item
    BY <1>i DEF Hull
  <2>4. Append(inner, item) = Splice(inner, n + 1, n, item)
    <3>1. n + (n + 1) - n = n + 1
      BY <1>i
    <3>2. item \in Nat \X Nat
      BY DEF Item
    <3>3. SplicedIs(Splice(inner, n + 1, n, item), inner, n + 1, n, item)
      <4>1. n + 1 \in 1 .. Len(inner) + 1 /\ n \in (n + 1) - 1 .. Len(inner)
        BY <1>i
      <4> QED
        BY <1>i, <3>2, <4>1, Spliced
    <3>4. /\ Append(inner, item) \in Seq(Nat \X Nat)
          /\ Len(Append(inner, item)) = n + 1 /\ Append(inner, item)[n + 1] = item
          /\ \A i \in 1 .. n : Append(inner, item)[i] = inner[i]
      BY <1>i, <3>2, AppendProperties
    <3>7. /\ Splice(inner, n + 1, n, item)[n + 1] = item
          /\ \A i \in 1 .. n : Splice(inner, n + 1, n, item)[i] = inner[i]
      <4>1. (n + 1) - 1 = n
        BY <1>i
      <4> QED
        BY <3>3, <4>1 DEF SplicedIs
    <3>5. ASSUME NEW i \in 1 .. n + 1
          PROVE  Append(inner, item)[i] = Splice(inner, n + 1, n, item)[i]
      <4>1. i \in 1 .. n \/ i = n + 1
        BY <1>i
      <4> QED
        BY <4>1, <3>7, <3>4
    <3>6. Splice(inner, n + 1, n, item) \in Seq(Nat \X Nat) /\ Len(Splice(inner, n + 1, n, item)) = n + 1
      BY <1>i, <3>1, <3>3 DEF SplicedIs
    <3> HIDE DEF n
    <3> QED
      BY <3>4, <3>5, <3>6, SeqEqual
  <2>5. /\ n + 1 \in Nat /\ n \in Nat /\ Place(inner, item, n + 1, n)
        /\ t = Splice(inner, n + 1, n, Hull(inner, item, n + 1, n))
    BY <1>i, <2>1, <2>2, <2>3, <2>4
  <2> QED
    BY <2>5, InsertsBy DEF t
<1>7. CASE pos <= n /\ item[2] < inner[pos][1]
  <2>1. t = Splice(inner, pos, pos - 1, item)
    BY <1>3, <1>5, <1>7, <1>i
  <2>2. Place(inner, item, pos, pos - 1) /\ pos - 1 \in Nat
    <3>1. \A i \in 1 .. n : pos - 1 < i => item[2] < inner[i][1]
      <4> SUFFICES ASSUME NEW i \in 1 .. n, pos - 1 < i PROVE item[2] < inner[i][1]
        OBVIOUS
      <4>1. pos \in 1 .. n /\ (i = pos \/ pos < i)
        BY <1>5, <1>7
      <4>2. i = pos \/ inner[pos][2] < inner[i][1]
        BY <1>i, <4>1
      <4> QED
        BY <1>7, <1>a, <1>i, <4>1, <4>2, SMTT(30)
    <3>2. pos - 1 \in Nat /\ pos - 1 <= n /\ ~(\E i \in 1 .. n : pos <= i /\ i <= pos - 1)
      BY <1>5, <1>7, <1>i
    <3> QED
      BY <1>4, <1>5, <1>i, <3>1, <3>2 DEF Place
  <2>3. Hull(inner, item, pos, pos - 1) = item
    BY <1>5 DEF Hull
  <2> QED
    <3>1. /\ pos \in Nat /\ pos - 1 \in Nat /\ Place(inner, item, pos, pos - 1)
          /\ t = Splice(inner, pos, pos - 1, Hull(inner, item, pos, pos - 1))
      BY <1>5, <2>1, <2>2, <2>3
    <3> QED
      BY <3>1, InsertsBy DEF t
<1>8. CASE pos <= n /\ ~(item[2] < inner[pos][1])
  <2>1. t = Splice(inner, pos, lst, <<Min({item[1], inner[pos][1]}), Max({item[2], inner[lst][2]})>>)
    BY <1>3, <1>5, <1>8, <1>i
  <2>0. pos \in 1 .. n /\ lst \in 1 .. n
    BY <1>4, <1>5, <1>8, <1>i
  <2>2. Place(inner, item, pos, lst)
    <3>1. ASSUME NEW i \in 1 .. n, pos <= i, i <= lst
          PROVE  inner[i][1] <= item[2] /\ item[1] <= inner[i][2]
      <4>1. i = pos \/ inner[pos][2] < inner[i][1]
        BY <1>i, <1>5, <2>0, <3>1
      <4>2. i = lst \/ inner[i][2] < inner[lst][1]
        BY <1>i, <1>5, <2>0, <3>1
      <4>3. inner[pos][1] <= item[2] /\ item[1] <= inner[pos][2]
            /\ (lst = pos \/ inner[lst][1] <= item[2])
        BY <1>4, <1>8, <1>a, <1>i, <2>0, SMTT(30)
      <4>4. /\ inner[i][1] \in Nat /\ inner[i][2] \in Nat /\ inner[i][1] < inner[i][2]
            /\ inner[pos][1] \in Nat /\ inner[pos][2] \in Nat
            /\ inner[lst][1] \in Nat /\ inner[lst][2] \in Nat
        BY <1>i, <2>0
      <4>5. inner[i][1] <= item[2]
        <5>1. i = lst => lst = pos \/ inner[lst][1] <= item[2]
          BY <4>3
        <5>2. lst = pos => i = pos
          BY <1>5, <3>1
        <5> QED
          BY <1>a, <4>2, <4>3, <4>4, <5>1, <5>2
      <4> QED
        BY <1>a, <4>1, <4>3, <4>4, <4>5
    <3>2. pos \in 1 .. n + 1 /\ lst \in pos - 1 .. n
      BY <1>5, <2>0
    <3> QED
      BY <1>4, <1>i, <3>1, <3>2 DEF Place
  <2>3. Hull(inner, item, pos, lst)
          = <<Min({item[1], inner[pos][1]}), Max({item[2], inner[lst][2]})>>
    <3>1. inner[pos][1] \in Int /\ inner[lst][2] \in Int /\ item[1] \in Int /\ item[2] \in Int
      BY <1>i, <1>a, <2>0
    <3>2. /\ Min({item[1], inner[pos][1]}) = IF item[1] <= inner[pos][1] THEN item[1] ELSE inner[pos][1]
          /\ Max({item[2], inner[lst][2]}) = IF item[2] >= inner[lst][2] THEN item[2] ELSE inner[lst][2]
      BY <3>1, OfTwo
    <3>3. ~(lst < pos)
      BY <1>5
    <3> QED
      BY <3>2, <3>3 DEF Hull
  <2> QED
    <3>1. /\ pos \in Nat /\ lst \in Nat /\ Place(inner, item, pos, lst)
          /\ t = Splice(inner, pos, lst, Hull(inner, item, pos, lst))
      BY <1>5, <2>1, <2>2, <2>3
    <3> QED
      BY <3>1, InsertsBy DEF t
<1> QED
  BY <1>5, <1>6, <1>7, <1>8, <1>i DEF t

LEMMA MinIs ==
    ASSUME NEW S, S \subseteq Int, NEW x \in S, \A y \in S : x <= y
    PROVE  Min(S) = x
<1>1. Min(S) \in S /\ \A y \in S : Min(S) <= y
  BY DEF Min
<1>2. Min(S) \in Int /\ x \in Int /\ Min(S) <= x /\ x <= Min(S)
  BY <1>1
<1> QED
  BY <1>2

LEMMA MaxIs ==
    ASSUME NEW S, S \subseteq Int, NEW x \in S, \A y \in S : y <= x
    PROVE  Max(S) = x
<1>1. Max(S) \in S /\ \A y \in S : Max(S) >= y
  BY DEF Max
<1>2. Max(S) \in Int /\ x \in Int /\ Max(S) <= x /\ x <= Max(S)
  BY <1>1
<1> QED
  BY <1>2

\* An item has a place among the ranges, and the tree finds it.
Truncated(m, p, r, capacity) ==
    IF Len(m) <= capacity THEN m ELSE IF p = 1 THEN Splice(m, 1, 2, r) ELSE Tail(m)

TreeInserts(t, inner, item, capacity) ==
    \E p, q \in Nat :
        /\ Place(inner, item, p, q)
        /\ t = Truncated(Splice(inner, p, q, Hull(inner, item, p, q)), p,
                         Hull(inner, item, p, q), capacity)

LEMMA TreeInsertsBy ==
    ASSUME NEW t, NEW inner, NEW item, NEW capacity, NEW p \in Nat, NEW q \in Nat,
           Place(inner, item, p, q),
           t = Truncated(Splice(inner, p, q, Hull(inner, item, p, q)), p,
                         Hull(inner, item, p, q), capacity)
    PROVE  TreeInserts(t, inner, item, capacity)
  BY Zenon DEF TreeInserts

LEMMA BTreeInserts ==
    ASSUME NEW inner, Gapped(inner), NEW item \in Item, NEW capacity
    PROVE  TreeInserts(BTreeInsert(inner, item, capacity), inner, item, capacity)
<1> DEFINE n == Len(inner)
           Absorbed(r) == range_overlaps(r, item) \/ (item[1] <= r[1] /\ r[2] < item[2])
           absorbed == {i \in DOMAIN inner : Absorbed(inner[i])}
           start == Min({item[1]} \cup {inner[i][1] : i \in absorbed})
           end == Max({item[2]} \cup {inner[i][2] : i \in absorbed})
           S == {i \in DOMAIN inner : start <= inner[i][1]}
           pos == Min(S \cup {n + 1})
           lst == Max(absorbed \cup {pos - 1})
           t == BTreeInsert(inner, item, capacity)
<1>i. /\ inner \in Seq(Nat \X Nat) /\ n \in Nat /\ DOMAIN inner = 1 .. n
      /\ \A i \in 1 .. n : /\ inner[i][1] \in Nat /\ inner[i][2] \in Nat
                           /\ inner[i][1] < inner[i][2]
      /\ \A i, j \in 1 .. n : i < j => inner[i][2] < inner[j][1]
  BY GappedIs
<1>a. item[1] \in Nat /\ item[2] \in Nat /\ item[1] < item[2]
  BY DEF Item
<1>0. t = (LET merged == Splice(inner, pos, lst, <<start, end>>)
           IN  IF Len(merged) <= capacity THEN merged
               ELSE IF pos = 1 THEN Splice(merged, 1, 2, <<start, end>>)
               ELSE Tail(merged))
  BY DEF BTreeInsert
<1>1. PICK p, q \in Nat : Place(inner, item, p, q)
  <2>0. n \in Nat => n # n + 1
    <3> HIDE DEF n
    <3> QED
      OBVIOUS
  <2>1. Len(inner) # Len(inner) + 1
    BY <1>i, <2>0
  <2>2. Inserts(InlineInsert(inner, item, Len(inner) + 1), inner, item)
    BY <2>1, InlineInserts
  <2> QED
    BY <2>2, Zenon DEF Inserts
<1>p. /\ 1 <= p /\ p <= n + 1 /\ p - 1 <= q /\ q <= n
      /\ \A i \in 1 .. n : i < p => inner[i][2] < item[1]
      /\ \A i \in 1 .. n : p <= i /\ i <= q => inner[i][1] <= item[2] /\ item[1] <= inner[i][2]
      /\ \A i \in 1 .. n : q < i => item[2] < inner[i][1]
  <2>1. p \in 1 .. n + 1 /\ q \in p - 1 .. n
    BY <1>1 DEF Place
  <2>2. /\ \A i \in 1 .. n : i < p => inner[i][2] < item[1]
        /\ \A i \in 1 .. n : p <= i /\ i <= q => inner[i][1] <= item[2] /\ item[1] <= inner[i][2]
        /\ \A i \in 1 .. n : q < i => item[2] < inner[i][1]
    BY <1>1, <1>i DEF Place
  <2>3. n \in Nat => 1 <= p /\ p <= n + 1 /\ p - 1 <= q /\ q <= n
    <3> HIDE DEF n
    <3> QED
      BY <2>1
  <2> QED
    BY <1>i, <2>2, <2>3
<1>2. absorbed = p .. q
  <2>1. ASSUME NEW i \in 1 .. n
        PROVE  Absorbed(inner[i]) <=> inner[i][1] <= item[2] /\ item[1] <= inner[i][2]
    BY <1>i, <1>a DEF range_overlaps
  <2> HIDE DEF Absorbed
  <2>2. ASSUME NEW i \in 1 .. n
        PROVE  (inner[i][1] <= item[2] /\ item[1] <= inner[i][2]) <=> p <= i /\ i <= q
    <3>1. inner[i][1] \in Nat /\ inner[i][2] \in Nat
      BY <1>i
    <3>2. /\ i < p => inner[i][2] < item[1]
          /\ p <= i /\ i <= q => inner[i][1] <= item[2] /\ item[1] <= inner[i][2]
          /\ q < i => item[2] < inner[i][1]
      BY <1>p
    <3> QED
      BY <1>a, <3>1, <3>2
  <2>3. \A i : i \in p .. q <=> i \in 1 .. n /\ p <= i /\ i <= q
    BY <1>i, <1>p, SMTT(30)
  <2> QED
    BY <1>i, <2>1, <2>2, <2>3
<1> HIDE DEF absorbed
<1>h. Hull(inner, item, p, q) = <<start, end>>
  <2>1. CASE q < p
    <3>1. absorbed = {}
      BY <1>2, <2>1
    <3>2. start = item[1] /\ end = item[2]
      <4>1. {item[1]} \cup {inner[i][1] : i \in absorbed} = {item[1]}
            /\ {item[2]} \cup {inner[i][2] : i \in absorbed} = {item[2]}
        BY <3>1
      <4>2. {item[1]} \subseteq Int /\ {item[2]} \subseteq Int
        BY <1>a
      <4>3. Min({item[1]}) = item[1]
        BY <4>2, MinIs, <1>a, SMTT(30)
      <4>4. Max({item[2]}) = item[2]
        BY <4>2, MaxIs, <1>a, SMTT(30)
      <4> QED
        BY <4>1, <4>3, <4>4
    <3>3. item = <<item[1], item[2]>>
      BY DEF Item
    <3> HIDE DEF start, end
    <3> QED
      BY <2>1, <3>2, <3>3 DEF Hull
  <2>2. CASE p <= q
    <3> DEFINE lo == IF item[1] <= inner[p][1] THEN item[1] ELSE inner[p][1]
               hi == IF item[2] >= inner[q][2] THEN item[2] ELSE inner[q][2]
    <3>1. p \in 1 .. n /\ q \in 1 .. n
      BY <1>p, <2>2
    <3>2. \A i \in p .. q : i \in 1 .. n /\ inner[p][1] <= inner[i][1] /\ inner[i][2] <= inner[q][2]
      <4> SUFFICES ASSUME NEW i \in p .. q
                   PROVE  i \in 1 .. n /\ inner[p][1] <= inner[i][1] /\ inner[i][2] <= inner[q][2]
        OBVIOUS
      <4>1. i \in 1 .. n
        BY <1>p
      <4>2. i = p \/ inner[p][2] < inner[i][1]
        BY <1>i, <3>1, <4>1
      <4>3. i = q \/ inner[i][2] < inner[q][1]
        BY <1>i, <3>1, <4>1
      <4> QED
        BY <1>i, <3>1, <4>1, <4>2, <4>3, SMTT(30)
    <3>3. inner[p][1] \in Nat /\ inner[q][2] \in Nat
      BY <1>i, <3>1
    <3>4. start = lo
      <4> DEFINE T == {item[1]} \cup {inner[i][1] : i \in absorbed}
      <4>1. T \subseteq Int
        BY <1>2, <1>a, <1>i, <3>2, SMTT(30)
      <4>2. lo \in T
        <5>1. p \in absorbed
          BY <1>2, <2>2
        <5> QED
          BY <5>1
      <4>3. \A y \in T : lo <= y
        BY <1>2, <1>a, <1>i, <3>2, <3>3, SMTT(30)
      <4> HIDE DEF T, lo
      <4>4. Min(T) = lo
        BY <4>1, <4>2, <4>3, MinIs
      <4> QED
        BY <4>4 DEF T
    <3>5. end = hi
      <4> DEFINE T == {item[2]} \cup {inner[i][2] : i \in absorbed}
      <4>1. T \subseteq Int
        BY <1>2, <1>a, <1>i, <3>2
      <4>2. hi \in T
        <5>1. q \in absorbed
          BY <1>2, <2>2
        <5> QED
          BY <5>1
      <4>3. ASSUME NEW y \in T PROVE y <= hi
        <5>1. item[2] <= hi /\ inner[q][2] <= hi /\ hi \in Nat
          BY <1>a, <3>3
        <5>2. y = item[2] \/ (y \in Nat /\ y <= inner[q][2])
          <6>1. y = item[2] \/ \E i \in absorbed : y = inner[i][2]
            OBVIOUS
          <6>2. \A i \in absorbed : inner[i][2] \in Nat /\ inner[i][2] <= inner[q][2]
            BY <1>2, <1>i, <3>2
          <6> QED
            BY <6>1, <6>2
        <5> QED
          BY <1>a, <5>1, <5>2, <3>3
      <4> HIDE DEF T, hi
      <4>4. Max(T) = hi
        BY <4>1, <4>2, <4>3, MaxIs
      <4> QED
        BY <4>4 DEF T
    <3>6. ~(q < p)
      BY <2>2
    <3> HIDE DEF start, end
    <3> QED
      BY <3>4, <3>5, <3>6 DEF Hull
  <2> QED
    BY <2>1, <2>2
<1>s. /\ start \in Nat
      /\ \A i \in 1 .. n : i < p => inner[i][1] < start
      /\ p <= n => start <= inner[p][1]
  <2>1. Hull(inner, item, p, q)[1] = start
    BY <1>h
  <2> HIDE DEF start
  <2>2. CASE q < p
    <3>1. start = item[1]
      BY <2>1, <2>2 DEF Hull
    <3>2. p <= n => p \in 1 .. n /\ q < p
      BY <1>p, <2>2
    <3> QED
      BY <1>p, <1>i, <1>a, <3>1, <3>2, SMTT(30)
  <2>3. CASE p <= q
    <3>1. p \in 1 .. n /\ ~(q < p)
      BY <1>p, <2>3
    <3>2. start = IF item[1] <= inner[p][1] THEN item[1] ELSE inner[p][1]
      BY <2>1, <3>1 DEF Hull
    <3>3. inner[p][1] \in Nat
      BY <1>i, <3>1
    <3>4. start \in Nat /\ start <= inner[p][1]
      BY <1>a, <3>2, <3>3
    <3>5. ASSUME NEW i \in 1 .. n, i < p PROVE inner[i][1] < start
      <4>1. inner[i][1] < inner[i][2] /\ inner[i][2] < item[1] /\ inner[i][2] < inner[p][1]
            /\ inner[i][1] \in Nat /\ inner[i][2] \in Nat
        BY <1>i, <1>p, <3>1, <3>5
      <4> QED
        BY <1>a, <3>2, <3>3, <4>1
    <3> QED
      BY <3>4, <3>5
  <2> QED
    BY <2>2, <2>3
<1> HIDE DEF start, end
<1>3. pos = p
  <2> DEFINE T == S \cup {n + 1}
  <2>1. T \subseteq Int
    BY <1>i
  <2>2. p \in T
    <3>1. p = n + 1 \/ (p \in 1 .. n /\ p <= n)
      <4>1. n \in Nat /\ 1 <= p /\ p <= n + 1
        BY <1>p, <1>i
      <4> HIDE DEF n
      <4> QED
        BY <1>1, <4>1
    <3> QED
      BY <1>i, <1>s, <3>1
  <2>3. ASSUME NEW y \in T PROVE p <= y
    <3>1. CASE y = n + 1
      BY <1>p, <3>1
    <3>2. CASE y \in S
      <4>1. y \in 1 .. n /\ start <= inner[y][1] /\ inner[y][1] \in Nat
        BY <1>i, <3>2
      <4>2. ~(y < p)
        BY <1>s, <4>1
      <4> QED
        BY <4>1, <4>2
    <3> QED
      BY <3>1, <3>2
  <2> HIDE DEF T
  <2>4. Min(T) = p
    BY <2>1, <2>2, <2>3, MinIs
  <2> QED
    BY <2>4 DEF T
<1> HIDE DEF pos
<1>4. lst = q
  <2> DEFINE T == absorbed \cup {p - 1}
  <2>1. T \subseteq Int /\ q \in T /\ \A y \in T : y <= q
    BY <1>2, <1>p
  <2> HIDE DEF T
  <2>2. Max(T) = q
    BY <2>1, MaxIs
  <2> QED
    BY <1>3, <2>2 DEF T
<1> HIDE DEF lst
<1> HIDE DEF t
<1>5. t = Truncated(Splice(inner, p, q, Hull(inner, item, p, q)), p, Hull(inner, item, p, q), capacity)
  BY <1>0, <1>3, <1>4, <1>h DEF Truncated
<1> QED
  BY <1>1, <1>5, TreeInsertsBy DEF t

-----------------------------------------------------------------------------
(* insert and remove_until.                                                  *)

RangeSets == [tree : BOOLEAN, inner : Seq(Nat \X Nat), capacity : Nat]

\* A set within its capacity; the array is never full.
Fit(set) ==
    /\ set \in RangeSets /\ Gapped(set.inner)
    /\ Len(set.inner) <= set.capacity
    /\ ~set.tree => Len(set.inner) < MAX_INLINE_CAPACITY

\* t is the list m without its range d.
Drops(t, m, d) ==
    /\ Gapped(t) /\ Len(t) = Len(m) - 1
    /\ \A x \in Nat : Has(t, x) <=> \E i \in DOMAIN m : i # d /\ In(x, m[i])

LEMMA TruncatedIs ==
    ASSUME NEW m, Gapped(m), NEW capacity \in Nat \ {0}, Len(m) = capacity + 1,
           NEW p \in 1 .. Len(m), NEW r, m[p] = r
    PROVE  Drops(Truncated(m, p, r, capacity), m, IF p = 1 THEN 2 ELSE 1)
<1> DEFINE n == Len(m)
           d == IF p = 1 THEN 2 ELSE 1
           t == Truncated(m, p, r, capacity)
<1>i. /\ m \in Seq(Nat \X Nat) /\ n \in Nat /\ DOMAIN m = 1 .. n
      /\ \A i \in 1 .. n : /\ m[i] \in Nat \X Nat /\ m[i][1] \in Nat /\ m[i][2] \in Nat
                           /\ m[i][1] < m[i][2]
      /\ \A i, j \in 1 .. n : i < j => m[i][2] < m[j][1]
  BY GappedIs
<1>n. n = capacity + 1 /\ n >= 2 /\ ~(n <= capacity) /\ p \in 1 .. n
  OBVIOUS
<1> HIDE DEF n
<1> DEFINE Old(i) == IF i < d THEN i ELSE i + 1
<1>1. /\ t \in Seq(Nat \X Nat) /\ Len(t) = n - 1
      /\ \A i \in 1 .. n - 1 : t[i] = m[Old(i)]
  <2>1. CASE p = 1
    <3>1. t = Splice(m, 1, 2, r)
      BY <1>n, <2>1 DEF Truncated, n
    <3>2. SplicedIs(Splice(m, 1, 2, r), m, 1, 2, r)
      <4>1. 1 \in 1 .. Len(m) + 1 /\ 2 \in 1 - 1 .. Len(m) /\ r \in Nat \X Nat
        BY <1>n, <1>i, <2>1 DEF n
      <4> QED
        BY <1>i, <4>1, Spliced
    <3> HIDE DEF t
    <3>3. /\ t \in Seq(Nat \X Nat) /\ Len(t) = n - 1 /\ t[1] = m[1]
          /\ \A i \in 2 .. n - 1 : t[i] = m[i + 1]
      <4>1. /\ n + 1 - 2 = n - 1 /\ 1 + 1 = 2
            /\ \A i \in 2 .. n - 1 : i + 2 - 1 = i + 1
        BY <1>i
      <4> QED
        BY <2>1, <3>1, <3>2, <4>1 DEF SplicedIs, n
    <3>4. ASSUME NEW i \in 1 .. n - 1 PROVE t[i] = m[Old(i)]
      <4>1. i = 1 \/ i \in 2 .. n - 1
        BY <1>i
      <4> QED
        BY <2>1, <3>3, <4>1
    <3> QED
      BY <3>3, <3>4
  <2>2. CASE p # 1
    <3>1. t = Tail(m)
      BY <1>n, <2>2 DEF Truncated, n
    <3>2. /\ Tail(m) \in Seq(Nat \X Nat) /\ Len(Tail(m)) = n - 1
          /\ \A i \in 1 .. n - 1 : Tail(m)[i] = m[i + 1]
      <4>1. m # <<>>
        BY <1>n DEF n
      <4> QED
        BY <1>i, <4>1, HeadTailProperties DEF n
    <3> HIDE DEF t
    <3>3. \A i \in 1 .. n - 1 : Old(i) = i + 1
      BY <2>2, <1>i
    <3> HIDE DEF Old
    <3> QED
      BY <3>1, <3>2, <3>3
  <2> QED
    BY <2>1, <2>2
<1> HIDE DEF t
<1>2. /\ \A i \in 1 .. n - 1 : Old(i) \in 1 .. n /\ Old(i) # d
      /\ \A i, j \in 1 .. n - 1 : i < j => Old(i) < Old(j)
      /\ \A k \in 1 .. n : k # d => \E i \in 1 .. n - 1 : Old(i) = k
  <2>1. \A i \in 1 .. n - 1 : Old(i) \in 1 .. n /\ Old(i) # d
    BY <1>n, <1>i
  <2>2. \A i, j \in 1 .. n - 1 : i < j => Old(i) < Old(j)
    BY <1>n, <1>i
  <2>3. ASSUME NEW k \in 1 .. n, k # d PROVE \E i \in 1 .. n - 1 : Old(i) = k
    <3>1. CASE k < d
      <4>1. k \in 1 .. n - 1 /\ Old(k) = k
        BY <1>n, <1>i, <3>1
      <4> QED
        BY <4>1
    <3>2. CASE k > d
      <4>1. k - 1 \in 1 .. n - 1 /\ Old(k - 1) = k
        BY <1>n, <1>i, <3>2
      <4> QED
        BY <4>1
    <3> QED
      BY <2>3, <3>1, <3>2
  <2> QED
    BY <2>1, <2>2, <2>3
<1> HIDE DEF Old, d
<1>3. DOMAIN t = 1 .. n - 1
  BY <1>1
<1>4. Gapped(t)
  <2>1. \A i \in DOMAIN t : t[i][1] < t[i][2]
    BY <1>1, <1>2, <1>3, <1>i
  <2>2. ASSUME NEW i \in DOMAIN t, NEW j \in DOMAIN t, i < j PROVE t[i][2] < t[j][1]
    <3>1. Old(i) \in 1 .. n /\ Old(j) \in 1 .. n /\ Old(i) < Old(j)
      BY <1>2, <1>3, <2>2
    <3> QED
      BY <1>1, <1>3, <1>i, <3>1
  <2> QED
    BY <1>1, <2>1, <2>2 DEF Gapped
<1>5. ASSUME NEW x \in Nat PROVE Has(t, x) <=> \E i \in DOMAIN m : i # d /\ In(x, m[i])
  <2>1. ASSUME NEW i \in DOMAIN t, In(x, t[i]) PROVE \E k \in DOMAIN m : k # d /\ In(x, m[k])
    <3>1. Old(i) \in DOMAIN m /\ Old(i) # d /\ t[i] = m[Old(i)]
      BY <1>1, <1>2, <1>3, <1>i
    <3> QED
      BY <2>1, <3>1
  <2>2. ASSUME NEW k \in DOMAIN m, k # d, In(x, m[k]) PROVE Has(t, x)
    <3>1. PICK i \in 1 .. n - 1 : Old(i) = k
      BY <1>2, <1>i, <2>2
    <3> QED
      BY <1>1, <1>3, <2>2, <3>1 DEF Has
  <2> QED
    BY <2>1, <2>2 DEF Has
<1> QED
  BY <1>1, <1>4, <1>5 DEF Drops, d, t, n

LEMMA Flag ==
    ASSUME NEW a \in Nat, NEW b \in Nat, NEW c \in Nat, NEW s \in BOOLEAN, NEW f,
           f = IF s THEN a > b ELSE a = c
    PROVE  f \in BOOLEAN /\ (s => (f <=> a > b)) /\ (~s => (f <=> a = c))
<1>1. f \in BOOLEAN
  <2>1. s => f \in BOOLEAN
    OBVIOUS
  <2>2. ~s => f \in BOOLEAN
    OBVIOUS
  <2> QED
    BY <2>1, <2>2
<1>2. s => (f <=> a > b)
  OBVIOUS
<1>3. ~s => (f <=> a = c)
  OBVIOUS
<1> QED
  BY <1>1, <1>2, <1>3

\* What insert does: the item is joined to the ranges, and one of them is dropped if there
\* are too many.  Then the item is a range of its own, and the first other one is dropped.
Grows(t, set, item, m, p) ==
    /\ Fit(t) /\ t.capacity = set.capacity
    /\ Gapped(m) /\ p \in 1 .. Len(m)
    /\ Len(m) <= set.capacity + 1 /\ Len(m) <= Len(set.inner) + 1
    /\ \A x \in Nat : Has(m, x) <=> Has(set.inner, x) \/ In(x, item)
    /\ Len(m) <= set.capacity => t.inner = m
    /\ Len(m) > set.capacity => m[p] = item /\ Drops(t.inner, m, IF p = 1 THEN 2 ELSE 1)

\* The list as it is joined: p is where the item is.
JoinedAt(m, inner, item, p, q) ==
    /\ Place(inner, item, p, q)
    /\ m = Splice(inner, p, q, Hull(inner, item, p, q))

LEMMA HullIs ==
    ASSUME NEW inner, Gapped(inner), NEW item \in Item, NEW p, NEW q, Place(inner, item, p, q)
    PROVE  Hull(inner, item, p, q) \in Nat \X Nat
<1>1. /\ inner \in Seq(Nat \X Nat) /\ Len(inner) \in Nat
      /\ \A i \in 1 .. Len(inner) : inner[i][1] \in Nat /\ inner[i][2] \in Nat
  BY GappedIs
<1>2. item \in Nat \X Nat /\ item[1] \in Nat /\ item[2] \in Nat
  BY DEF Item
<1>3. p \in 1 .. Len(inner) + 1 /\ q \in p - 1 .. Len(inner)
  BY DEF Place
<1>4. CASE q < p
  BY <1>2, <1>4 DEF Hull
<1>5. CASE ~(q < p)
  <2>1. p \in 1 .. Len(inner) /\ q \in 1 .. Len(inner)
    BY <1>1, <1>3, <1>5
  <2> QED
    BY <1>1, <1>2, <1>5, <2>1 DEF Hull
<1> QED
  BY <1>4, <1>5

LEMMA JoinedIs ==
    ASSUME NEW inner, Gapped(inner), NEW item \in Item, NEW p \in Nat, NEW q \in Nat, NEW m,
           JoinedAt(m, inner, item, p, q)
    PROVE  /\ Gapped(m) /\ p \in 1 .. Len(m) /\ Len(m) <= Len(inner) + 1
           /\ m[p] = Hull(inner, item, p, q)
           /\ \A x \in Nat : Has(m, x) <=> Has(inner, x) \/ In(x, item)
           /\ Len(m) = Len(inner) + 1 => m[p] = item
<1>1. Place(inner, item, p, q) /\ m = Splice(inner, p, q, Hull(inner, item, p, q))
  BY DEF JoinedAt
<1>2. inner \in Seq(Nat \X Nat) /\ Len(inner) \in Nat
  BY GappedIs
<1>3. p \in 1 .. Len(inner) + 1 /\ q \in p - 1 .. Len(inner)
  BY <1>1 DEF Place
<1>4. Hull(inner, item, p, q) \in Nat \X Nat
  BY <1>1, HullIs
<1>5. SplicedIs(m, inner, p, q, Hull(inner, item, p, q))
  BY <1>1, <1>2, <1>3, <1>4, Spliced
<1>6. /\ Gapped(m)
      /\ \A x \in Nat : Has(m, x) <=> Has(inner, x) \/ In(x, item)
  BY <1>1, <1>5, JoinsIn
<1>7. Len(m) = Len(inner) + p - q /\ m[p] = Hull(inner, item, p, q)
  BY <1>5 DEF SplicedIs
<1>8. p \in 1 .. Len(m) /\ Len(m) <= Len(inner) + 1 /\ (Len(m) = Len(inner) + 1 => q < p)
  BY <1>2, <1>3, <1>7
<1> QED
  BY <1>6, <1>7, <1>8 DEF Hull

LEMMA InsertIs ==
    ASSUME NEW set, Fit(set), NEW item \in Item, MAX_INLINE_CAPACITY <= set.capacity
    PROVE  \E m, p : Grows(insert(set, item), set, item, m, p)
<1> DEFINE inner == set.inner
           capacity == set.capacity
           t == insert(set, item)
           new == IF set.tree THEN BTreeInsert(inner, item, capacity)
                  ELSE InlineInsert(inner, item, capacity)
<1>0. /\ MAX_INLINE_CAPACITY \in Nat \ {0} /\ MIN_TO_INLINE \in Nat
      /\ MIN_TO_INLINE < MAX_INLINE_CAPACITY
  BY RangesAssumption
<1>1. /\ set \in RangeSets /\ Gapped(inner) /\ inner \in Seq(Nat \X Nat) /\ Len(inner) \in Nat
      /\ capacity \in Nat \ {0} /\ set.tree \in BOOLEAN /\ Len(inner) <= capacity
      /\ ~set.tree => Len(inner) < MAX_INLINE_CAPACITY
  <2>1. set \in RangeSets /\ Gapped(inner) /\ Len(inner) <= capacity
        /\ (~set.tree => Len(inner) < MAX_INLINE_CAPACITY)
    BY DEF Fit
  <2>2. inner \in Seq(Nat \X Nat) /\ Len(inner) \in Nat
    BY <2>1, GappedIs
  <2> QED
    BY <1>0, <2>1, <2>2 DEF RangeSets
<1>2. /\ t.inner = new /\ t.capacity = capacity
      /\ t.tree = IF set.tree THEN Len(new) > MIN_TO_INLINE ELSE Len(new) = MAX_INLINE_CAPACITY
      /\ t = [tree |-> t.tree, inner |-> t.inner, capacity |-> t.capacity]
  <2> DEFINE s == [set EXCEPT !.inner = new]
  <2>1. t = fixup(s)
    BY <1>1 DEF insert, RangeSets
  <2> HIDE DEF new
  <2>2. s.inner = new /\ s.capacity = capacity /\ s.tree = set.tree
        /\ s = [tree |-> s.tree, inner |-> s.inner, capacity |-> s.capacity]
    BY <1>1, SMTT(30) DEF RangeSets
  <2> HIDE DEF s, t
  <2> QED
    BY <2>1, <2>2 DEF fixup
<1> HIDE DEF t
<1>b. ASSUME Len(new) \in Nat
      PROVE  /\ t.tree \in BOOLEAN
             /\ set.tree => (t.tree <=> Len(new) > MIN_TO_INLINE)
             /\ ~set.tree => (t.tree <=> Len(new) = MAX_INLINE_CAPACITY)
  <2> HIDE DEF new
  <2>1. t.tree = IF set.tree THEN Len(new) > MIN_TO_INLINE ELSE Len(new) = MAX_INLINE_CAPACITY
    BY <1>2
  <2> QED
    BY <1>0, <1>b, <1>2, <1>1, <2>1, Flag, SMTT(30)
<1>r. ASSUME new \in Seq(Nat \X Nat) PROVE t \in RangeSets
  <2> HIDE DEF new
  <2>1. t.inner \in Seq(Nat \X Nat) /\ t.capacity \in Nat
    BY <1>1, <1>2, <1>r
  <2>2. Len(new) \in Nat
    BY <1>r
  <2>3. t.tree \in BOOLEAN
    BY <1>b, <2>2
  <2> QED
    BY <1>2, <2>1, <2>3, Zenon DEF RangeSets
<1>3. CASE ~set.tree
  <2>1. new = InlineInsert(inner, item, capacity)
    BY <1>3
  <2>2. Inserts(new, inner, item)
    <3>1. Len(inner) # capacity
      BY <1>0, <1>1, <1>3
    <3> HIDE DEF new
    <3> QED
      BY <1>1, <2>1, <3>1, InlineInserts
  <2> HIDE DEF new
  <2>3. PICK p, q \in Nat : JoinedAt(new, inner, item, p, q)
    BY <2>2, Zenon DEF Inserts, JoinedAt
  <2>4. /\ Gapped(new) /\ p \in 1 .. Len(new) /\ Len(new) <= Len(inner) + 1
        /\ \A x \in Nat : Has(new, x) <=> Has(inner, x) \/ In(x, item)
    <3> HIDE DEF inner
    <3>1. Gapped(inner) /\ p \in Nat /\ q \in Nat
      BY <1>1
    <3> QED
      BY <2>3, <3>1, JoinedIs, SMTT(30)
  <2>5. new \in Seq(Nat \X Nat) /\ Len(new) \in Nat
    BY <2>4, GappedIs
  <2>6. Len(new) <= MAX_INLINE_CAPACITY /\ Len(new) <= capacity
    BY <1>0, <1>1, <1>3, <2>4, <2>5, SMTT(30)
  <2>7. Fit(t)
    <3>1. t \in RangeSets
      BY <1>r, <2>5
    <3>2. ~t.tree => Len(new) < MAX_INLINE_CAPACITY
      BY <1>0, <1>b, <1>3, <2>5, <2>6
    <3> QED
      BY <1>2, <2>4, <2>6, <3>1, <3>2 DEF Fit
  <2>8. Len(new) <= capacity + 1 /\ ~(Len(new) > capacity)
    BY <1>1, <2>5, <2>6
  <2> QED
    BY <1>2, <2>4, <2>6, <2>7, <2>8 DEF Grows, t
<1>4. CASE set.tree
  <2>1. new = BTreeInsert(inner, item, capacity)
    BY <1>4
  <2>2. TreeInserts(new, inner, item, capacity)
    <3> HIDE DEF new
    <3> QED
      BY <1>1, <2>1, BTreeInserts
  <2> HIDE DEF new
  <2>3. PICK p, q \in Nat :
          /\ Place(inner, item, p, q)
          /\ new = Truncated(Splice(inner, p, q, Hull(inner, item, p, q)), p,
                             Hull(inner, item, p, q), capacity)
    BY <2>2, Zenon DEF TreeInserts
  <2> DEFINE m == Splice(inner, p, q, Hull(inner, item, p, q))
  <2>4. JoinedAt(m, inner, item, p, q)
    BY <2>3 DEF JoinedAt
  <2>0. new = Truncated(m, p, Hull(inner, item, p, q), capacity)
    BY <2>3
  <2> HIDE DEF m
  <2>5. /\ Gapped(m) /\ p \in 1 .. Len(m) /\ Len(m) <= Len(inner) + 1
        /\ m[p] = Hull(inner, item, p, q)
        /\ \A x \in Nat : Has(m, x) <=> Has(inner, x) \/ In(x, item)
        /\ Len(m) = Len(inner) + 1 => m[p] = item
    BY <1>1, <2>3, <2>4, JoinedIs
  <2>6. Len(m) \in Nat
    BY <2>5, GappedIs
  <2>7. CASE Len(m) <= capacity
    <3>1. new = m
      BY <2>0, <2>7 DEF Truncated
    <3>2. t.inner = m
      BY <1>2, <3>1
    <3>3. Fit(t)
      <4>1. t \in RangeSets
        BY <1>r, <2>5, <3>1, GappedIs
      <4>2. ~t.tree => Len(m) < MAX_INLINE_CAPACITY
        BY <1>0, <1>b, <1>4, <2>6, <3>1
      <4> QED
        BY <1>2, <2>5, <2>7, <3>2, <4>1, <4>2 DEF Fit
    <3>4. Len(m) <= capacity + 1 /\ ~(Len(m) > capacity)
      BY <1>1, <2>6, <2>7
    <3> QED
      BY <1>2, <2>5, <3>2, <3>3, <3>4 DEF Grows, t
  <2>8. CASE Len(m) > capacity
    <3>1. Len(m) = capacity + 1 /\ Len(m) = Len(inner) + 1
      <4>1. Len(inner) \in Nat /\ capacity \in Nat /\ Len(inner) <= capacity
        BY <1>1
      <4>2. Len(m) <= Len(inner) + 1
        BY <2>5
      <4> HIDE DEF inner, capacity
      <4> QED
        BY <2>6, <2>8, <4>1, <4>2
    <3>2. Drops(new, m, IF p = 1 THEN 2 ELSE 1)
      BY <1>1, <2>0, <2>5, <3>1, TruncatedIs
    <3>3. Gapped(new) /\ Len(new) = capacity
      BY <1>1, <3>1, <3>2 DEF Drops
    <3>4. Fit(t)
      <4>1. t \in RangeSets
        BY <1>r, <3>3, GappedIs
      <4>2. ~t.tree => Len(new) < MAX_INLINE_CAPACITY
        BY <1>0, <1>1, <1>b, <1>4, <3>3
      <4> QED
        BY <1>1, <1>2, <3>3, <4>1, <4>2 DEF Fit
    <3>5. Len(m) <= capacity + 1 /\ ~(Len(m) <= capacity)
      BY <1>1, <2>6, <3>1
    <3> QED
      BY <1>2, <2>5, <3>1, <3>2, <3>4, <3>5 DEF Grows, t
  <2> QED
    BY <1>1, <2>6, <2>7, <2>8
<1> QED
  BY <1>1, <1>3, <1>4

\* What remove_until does.
LEMMA RemoveUntilIs ==
    ASSUME NEW set, Fit(set), NEW largest \in Nat
    PROVE  /\ Fit(remove_until(set, largest))
           /\ remove_until(set, largest).capacity = set.capacity
           /\ \A x \in Nat : Has(remove_until(set, largest).inner, x)
                                <=> Has(set.inner, x) /\ x > largest
<1> DEFINE inner == set.inner
           n == Len(inner)
           S == {i \in DOMAIN inner : inner[i][2] > largest + 1}
           f == Min(S \cup {n + 1})
           kept == SubSeq(inner, f, n)
           u == RemoveUntil(inner, largest)
           t == remove_until(set, largest)
<1>0. /\ MAX_INLINE_CAPACITY \in Nat \ {0} /\ MIN_TO_INLINE \in Nat
      /\ MIN_TO_INLINE < MAX_INLINE_CAPACITY
  BY RangesAssumption
<1>1. /\ set \in RangeSets /\ Gapped(inner) /\ n <= set.capacity
      /\ ~set.tree => n < MAX_INLINE_CAPACITY
      /\ set.tree \in BOOLEAN /\ set.capacity \in Nat
  BY DEF Fit, RangeSets
<1>i. /\ inner \in Seq(Nat \X Nat) /\ n \in Nat /\ DOMAIN inner = 1 .. n
      /\ \A i \in 1 .. n : /\ inner[i] \in Nat \X Nat /\ inner[i][1] \in Nat /\ inner[i][2] \in Nat
                           /\ inner[i][1] < inner[i][2]
      /\ \A i, j \in 1 .. n : i < j => inner[i][2] < inner[j][1]
  BY <1>1, GappedIs
<1>2. /\ f \in Nat /\ 1 <= f /\ f <= n + 1
      /\ \A i \in 1 .. n : i >= f <=> inner[i][2] > largest + 1
  <2>1. f \in 1 .. n + 1 /\ (f \in S \/ f = n + 1) /\ \A y \in S : f <= y
    <3>1. S \subseteq DOMAIN inner
      OBVIOUS
    <3> HIDE DEF S
    <3> QED
      BY <1>i, <3>1, FirstIs
  <2> HIDE DEF f
  <2>2. ASSUME NEW i \in 1 .. n, inner[i][2] > largest + 1 PROVE i >= f
    BY <1>i, <2>1, <2>2
  <2>3. ASSUME NEW i \in 1 .. n, i >= f PROVE inner[i][2] > largest + 1
    <3>1. f \in 1 .. n /\ inner[f][2] > largest + 1
      BY <1>i, <2>1, <2>3
    <3>2. i = f \/ inner[f][2] < inner[i][1]
      <4>1. i # f => f < i
        BY <2>1, <2>3
      <4> QED
        BY <1>i, <3>1, <4>1
    <3>3. inner[i][1] < inner[i][2] /\ inner[i][1] \in Nat /\ inner[i][2] \in Nat
          /\ inner[f][2] \in Nat
      BY <1>i, <3>1
    <3> QED
      BY <3>1, <3>2, <3>3
  <2> QED
    BY <2>1, <2>2, <2>3
<1>3. /\ kept \in Seq(Nat \X Nat) /\ Len(kept) = n + 1 - f
      /\ \A i \in 1 .. n + 1 - f : kept[i] = inner[f + i - 1]
  <2> HIDE DEF f
  <2>1. \A i \in f .. n : inner[i] \in Nat \X Nat
    BY <1>i, <1>2
  <2>2. /\ kept \in Seq(Nat \X Nat)
        /\ Len(kept) = IF f <= n THEN n - f + 1 ELSE 0
        /\ \A i \in 1 .. n - f + 1 : kept[i] = inner[f + i - 1]
    BY <1>2, <1>i, <2>1, SubSeqProperties
  <2> HIDE DEF kept, n
  <2> QED
    BY <1>2, <1>i, <2>2
<1>4. u = [i \in DOMAIN kept |-> <<Max({largest + 1, kept[i][1]}), kept[i][2]>>]
  BY DEF RemoveUntil
<1> HIDE DEF kept, f, u, n
<1> DEFINE k == n + 1 - f
<1>5. /\ k \in Nat /\ DOMAIN u = 1 .. k
      /\ \A i \in 1 .. k :
           /\ f + i - 1 \in 1 .. n /\ f + i - 1 >= f
           /\ u[i] = <<IF largest + 1 >= inner[f + i - 1][1] THEN largest + 1
                       ELSE inner[f + i - 1][1], inner[f + i - 1][2]>>
  <2>1. k \in Nat /\ DOMAIN kept = 1 .. k
    BY <1>2, <1>3, <1>i
  <2>2. ASSUME NEW i \in 1 .. k
        PROVE  /\ f + i - 1 \in 1 .. n /\ f + i - 1 >= f
               /\ u[i] = <<IF largest + 1 >= inner[f + i - 1][1] THEN largest + 1
                           ELSE inner[f + i - 1][1], inner[f + i - 1][2]>>
    <3>1. f + i - 1 \in 1 .. n /\ f + i - 1 >= f
      BY <1>2, <1>i
    <3>2. inner[f + i - 1][1] \in Int /\ largest + 1 \in Int /\ kept[i] = inner[f + i - 1]
      <4>1. inner[f + i - 1][1] \in Nat
        BY <1>i, <3>1
      <4>2. kept[i] = inner[f + i - 1]
        BY <1>3
      <4> QED
        BY <4>1, <4>2
    <3>3. Max({largest + 1, kept[i][1]})
            = IF largest + 1 >= inner[f + i - 1][1] THEN largest + 1 ELSE inner[f + i - 1][1]
      <4> DEFINE a == largest + 1
                 b == inner[f + i - 1][1]
      <4>1. a \in Int /\ b \in Int /\ kept[i][1] = b
        BY <3>2
      <4> HIDE DEF a, b
      <4>2. Max({a, kept[i][1]}) = IF a >= b THEN a ELSE b
        BY <4>1, OfTwo
      <4> QED
        BY <4>2 DEF a, b
    <3> QED
      BY <1>4, <2>1, <3>1, <3>2, <3>3
  <2> QED
    BY <1>4, <2>1, <2>2
<1> HIDE DEF k
<1>6. ASSUME NEW i \in 1 .. k
      PROVE  /\ u[i] \in Nat \X Nat /\ u[i][1] \in Nat /\ u[i][2] \in Nat /\ u[i][1] < u[i][2]
             /\ u[i][2] = inner[f + i - 1][2] /\ inner[f + i - 1][1] <= u[i][1]
             /\ \A x \in Nat : In(x, u[i]) <=> In(x, inner[f + i - 1]) /\ x > largest
  <2>1. f + i - 1 \in 1 .. n /\ f + i - 1 >= f
    BY <1>5
  <2>2. /\ inner[f + i - 1][1] \in Nat /\ inner[f + i - 1][2] \in Nat
        /\ inner[f + i - 1][1] < inner[f + i - 1][2] /\ inner[f + i - 1][2] > largest + 1
    BY <1>2, <1>i, <2>1
  <2>3. u[i] = <<IF largest + 1 >= inner[f + i - 1][1] THEN largest + 1
                 ELSE inner[f + i - 1][1], inner[f + i - 1][2]>>
    BY <1>5
  <2> QED
    BY <2>2, <2>3 DEF In
<1>7. u \in Seq(Nat \X Nat) /\ Len(u) = k
  <2>1. u \in [1 .. k -> Nat \X Nat]
    BY <1>4, <1>5, <1>6
  <2> QED
    BY <1>5, <2>1
<1>8. Gapped(u)
  <2>1. ASSUME NEW i \in 1 .. k, NEW j \in 1 .. k, i < j PROVE u[i][2] < u[j][1]
    <3>1. /\ f + i - 1 \in 1 .. n /\ f + j - 1 \in 1 .. n /\ f + i - 1 < f + j - 1
      <4>1. f + i - 1 \in 1 .. n /\ f + j - 1 \in 1 .. n
        BY <1>5
      <4>2. f + i - 1 < f + j - 1
        BY <1>2, <1>5, <2>1
      <4> QED
        BY <4>1, <4>2
    <3>2. inner[f + i - 1][2] < inner[f + j - 1][1]
      BY <1>i, <3>1
    <3>3. inner[f + i - 1][2] \in Nat /\ inner[f + j - 1][1] \in Nat
      BY <1>i, <3>1
    <3> QED
      BY <1>6, <3>2, <3>3
  <2> QED
    BY <1>5, <1>6, <1>7, <2>1 DEF Gapped
<1>9. ASSUME NEW x \in Nat PROVE Has(u, x) <=> Has(inner, x) /\ x > largest
  <2>1. ASSUME NEW i \in 1 .. k, In(x, u[i]) PROVE Has(inner, x) /\ x > largest
    BY <1>5, <1>6, <1>i, <2>1 DEF Has
  <2>2. ASSUME NEW j \in 1 .. n, In(x, inner[j]), x > largest PROVE Has(u, x)
    <3>1. j >= f
      BY <1>2, <1>i, <2>2, SMTT(30) DEF In
    <3>2. j - f + 1 \in 1 .. k /\ f + (j - f + 1) - 1 = j
      BY <1>2, <1>i, <3>1 DEF k
    <3>3. In(x, u[j - f + 1])
      BY <1>6, <2>2, <3>2
    <3> QED
      BY <1>5, <3>2, <3>3 DEF Has
  <2> QED
    BY <1>5, <1>i, <2>1, <2>2 DEF Has
<1>10. /\ t.inner = u /\ t.capacity = set.capacity
       /\ t.tree = IF set.tree THEN Len(u) > MIN_TO_INLINE ELSE Len(u) = MAX_INLINE_CAPACITY
       /\ t = [tree |-> t.tree, inner |-> t.inner, capacity |-> t.capacity]
  <2> DEFINE s == [set EXCEPT !.inner = u]
  <2>1. t = fixup(s)
    BY <1>1 DEF remove_until, RangeSets, u
  <2>2. s.inner = u /\ s.capacity = set.capacity /\ s.tree = set.tree
        /\ s = [tree |-> s.tree, inner |-> s.inner, capacity |-> s.capacity]
    BY <1>1 DEF RangeSets
  <2> HIDE DEF s, t
  <2> QED
    BY <2>1, <2>2 DEF fixup
<1> HIDE DEF t
<1>b. /\ t.tree \in BOOLEAN
      /\ set.tree => (t.tree <=> Len(u) > MIN_TO_INLINE)
      /\ ~set.tree => (t.tree <=> Len(u) = MAX_INLINE_CAPACITY)
  <2>1. t.tree = IF set.tree THEN Len(u) > MIN_TO_INLINE ELSE Len(u) = MAX_INLINE_CAPACITY
    BY <1>10
  <2>2. Len(u) \in Nat
    BY <1>5, <1>7
  <2> QED
    <3>1. MIN_TO_INLINE \in Nat /\ MAX_INLINE_CAPACITY \in Nat /\ set.tree \in BOOLEAN
      BY <1>0, <1>1
    <3> QED
      BY <2>1, <2>2, <3>1, Flag
<1>11. Fit(t)
  <2>1. Len(u) <= n /\ Len(u) \in Nat
    <3>1. f \in Nat /\ 1 <= f /\ n \in Nat /\ k \in Nat
      BY <1>2, <1>5, <1>i
    <3>2. k <= n
      BY <3>1 DEF k
    <3>3. Len(u) = k
      BY <1>7
    <3> QED
      BY <3>1, <3>2, <3>3
  <2>2. t \in RangeSets
    <3>1. t.inner \in Seq(Nat \X Nat) /\ t.capacity \in Nat
      BY <1>1, <1>10, <1>7
    <3> QED
      BY <1>10, <1>b, <3>1, Zenon DEF RangeSets
  <2>3. ~t.tree => Len(u) < MAX_INLINE_CAPACITY
    BY <1>0, <1>1, <1>b, <1>i, <2>1
  <2>4. Len(u) <= set.capacity
    BY <1>1, <1>i, <2>1
  <2> QED
    BY <1>8, <1>10, <2>2, <2>3, <2>4 DEF Fit
<1> QED
  BY <1>9, <1>10, <1>11 DEF t

-----------------------------------------------------------------------------
(* Powers of two.                                                            *)

PowRun(g, n) ==
    /\ g \in [0 .. n -> Nat \ {0}]
    /\ g[0] = 1
    /\ \A k \in 1 .. n : g[k] = 2 * g[k - 1]

LEMMA PowRunExists ==
    ASSUME NEW n \in Nat
    PROVE  \E g : PowRun(g, n)
<1> DEFINE P == {m \in Nat : \E g : PowRun(g, m)}
<1>1. 0 \in P
  <2>1. PowRun([k \in 0 .. 0 |-> 1], 0)
    BY DEF PowRun
  <2> QED
    BY <2>1
<1>2. ASSUME NEW m \in 1 .. n, m - 1 \in P PROVE m \in P
  <2>1. PICK g : PowRun(g, m - 1)
    BY <1>2
  <2> DEFINE h == [k \in 0 .. m |-> IF k = m THEN 2 * g[m - 1] ELSE g[k]]
  <2>2. /\ \A k \in 0 .. m - 1 : g[k] \in Nat \ {0}
        /\ g[0] = 1 /\ \A k \in 1 .. m - 1 : g[k] = 2 * g[k - 1]
    BY <2>1 DEF PowRun
  <2>3. m - 1 \in 0 .. m - 1 /\ g[m - 1] \in Nat \ {0}
    BY <2>2
  <2>4. \A k \in 0 .. m : h[k] \in Nat \ {0}
    BY <2>2, <2>3
  <2>5. \A k \in 1 .. m : h[k] = 2 * h[k - 1]
    BY <2>2, <2>3
  <2>6. h[0] = 1
    BY <2>2
  <2>7. PowRun(h, m)
    BY <2>4, <2>5, <2>6 DEF PowRun
  <2> QED
    BY <2>7
<1> HIDE DEF P
<1>3. n \in P
  BY <1>1, <1>2, Induction
<1> QED
  BY <1>3 DEF P

LEMMA PowRunsAgree ==
    ASSUME NEW n \in Nat, NEW m \in Nat, n <= m, NEW g, PowRun(g, n), NEW h, PowRun(h, m)
    PROVE  g[n] = h[n]
<1> DEFINE P == {k \in 0 .. n : g[k] = h[k]}
<1>1. 0 \in P
  BY DEF PowRun
<1>2. ASSUME NEW k \in 1 .. n, k - 1 \in P PROVE k \in P
  <2>1. k \in 1 .. m /\ g[k - 1] = h[k - 1]
    BY <1>2
  <2>2. g[k] = 2 * g[k - 1] /\ h[k] = 2 * h[k - 1]
    BY <1>2, <2>1 DEF PowRun
  <2> QED
    BY <2>1, <2>2
<1> HIDE DEF P
<1>3. n \in P
  BY <1>1, <1>2, Induction
<1> QED
  BY <1>3 DEF P

\* The recursive function is the power of two.
LEMMA Pow2Is ==
    /\ Pow2[0] = 1
    /\ \A k \in Nat : Pow2[k] \in Nat \ {0}
    /\ \A k \in Nat \ {0} : Pow2[k] = 2 * Pow2[k - 1]
<1> DEFINE R(n) == CHOOSE g : PowRun(g, n)
           f == [n \in Nat |-> R(n)[n]]
<1>1. \A n \in Nat : PowRun(R(n), n)
  BY PowRunExists
<1> HIDE DEF R
<1>2. f[0] = 1
  BY <1>1 DEF PowRun
<1>3. \A k \in Nat : f[k] \in Nat \ {0}
  <2> SUFFICES ASSUME NEW k \in Nat PROVE R(k)[k] \in Nat \ {0}
    OBVIOUS
  <2>1. PowRun(R(k), k) /\ k \in 0 .. k
    BY <1>1
  <2> QED
    BY <2>1 DEF PowRun
<1>4. ASSUME NEW k \in Nat \ {0} PROVE f[k] = 2 * f[k - 1]
  <2>1. k - 1 \in Nat /\ k \in Nat /\ k - 1 <= k /\ k \in 1 .. k
    OBVIOUS
  <2>2. PowRun(R(k), k) /\ PowRun(R(k - 1), k - 1)
    BY <1>1, <2>1
  <2>3. R(k - 1)[k - 1] = R(k)[k - 1]
    BY <2>1, <2>2, PowRunsAgree
  <2>4. R(k)[k] = 2 * R(k)[k - 1]
    BY <2>1, <2>2 DEF PowRun
  <2> QED
    BY <2>1, <2>3, <2>4
<1>5. f = [k \in Nat |-> IF k = 0 THEN 1 ELSE 2 * f[k - 1]]
  <2>1. \A k \in Nat : f[k] = IF k = 0 THEN 1 ELSE 2 * f[k - 1]
    BY <1>2, <1>4
  <2> DEFINE g == [k \in Nat |-> IF k = 0 THEN 1 ELSE 2 * f[k - 1]]
  <2>2. \A k \in Nat : f[k] = g[k]
    BY <2>1
  <2>3. DOMAIN f = Nat /\ DOMAIN g = Nat /\ f = [k \in Nat |-> f[k]] /\ g = [k \in Nat |-> g[k]]
    OBVIOUS
  <2> HIDE DEF f, g
  <2>4. f = g
    BY <2>2, <2>3
  <2> QED
    BY <2>4 DEF g
<1> HIDE DEF f
<1>6. Pow2 = [k \in Nat |-> IF k = 0 THEN 1 ELSE 2 * Pow2[k - 1]]
  BY <1>5, Zenon DEF Pow2
<1>7. \A k \in Nat : Pow2[k] = f[k]
  <2> SUFFICES ASSUME NEW n \in Nat PROVE Pow2[n] = f[n]
    OBVIOUS
  <2> DEFINE P == {k \in Nat : Pow2[k] = f[k]}
  <2>1. 0 \in P
    BY <1>2, <1>6
  <2>2. ASSUME NEW k \in 1 .. n, k - 1 \in P PROVE k \in P
    <3>1. k \in Nat \ {0} /\ Pow2[k - 1] = f[k - 1] /\ k # 0
      BY <2>2
    <3>2. Pow2[k] = 2 * Pow2[k - 1]
      BY <1>6, <3>1
    <3> QED
      BY <1>4, <3>1, <3>2
  <2> HIDE DEF P
  <2>3. n \in P
    BY <2>1, <2>2, Induction
  <2> QED
    BY <2>3 DEF P
<1> QED
  BY <1>2, <1>3, <1>4, <1>7

\* Any number has a number of bits.
LEMMA BitsExist ==
    ASSUME NEW u \in Nat \ {0}
    PROVE  \E b \in 1 .. u : Pow2[b - 1] <= u /\ u < Pow2[b]
<1> DEFINE P == {k \in Nat : k < Pow2[k]}
<1>1. u \in P
  <2>1. 0 \in P
    BY Pow2Is
  <2>2. ASSUME NEW k \in 1 .. u, k - 1 \in P PROVE k \in P
    <3>1. k - 1 < Pow2[k - 1] /\ Pow2[k - 1] \in Nat /\ Pow2[k] = 2 * Pow2[k - 1]
      BY <2>2, Pow2Is
    <3> QED
      BY <3>1
  <2> HIDE DEF P
  <2> QED
    BY <2>1, <2>2, Induction
<1> DEFINE S == {b \in Nat : u < Pow2[b]}
<1>2. S \subseteq Nat /\ S # {}
  BY <1>1
<1>3. Min(S) \in S /\ \A y \in S : Min(S) <= y
  <2> HIDE DEF S
  <2> QED
    BY <1>2, MinInSet
<1>4. PICK b \in Nat : u < Pow2[b] /\ \A y \in S : b <= y
  BY <1>3
<1>5. b # 0 /\ b <= u
  BY <1>1, <1>4, Pow2Is
<1>6. Pow2[b - 1] <= u
  <2>1. b - 1 \in Nat /\ b - 1 \notin S
    BY <1>4, <1>5
  <2> QED
    BY <2>1, Pow2Is
<1> QED
  BY <1>4, <1>5, <1>6

\* A packet number is cut to at least one byte.
LEMMA LengthIs ==
    ASSUME NEW pn \in Nat, NEW largest \in Nat
    PROVE  pkt_num_len(pn, largest) \in Nat \ {0}
<1> DEFINE u == Max({pn - largest, 0}) + 1
           b == CHOOSE b \in 1 .. u : Pow2[b - 1] <= u /\ u < Pow2[b]
<1>1. u \in Nat \ {0}
  <2>1. Max({pn - largest, 0}) = IF pn - largest >= 0 THEN pn - largest ELSE 0
    BY OfTwo
  <2> QED
    BY <2>1
<1>2. b \in 1 .. u
  <2> HIDE DEF u
  <2> QED
    BY <1>1, BitsExist
<1>3. pkt_num_len(pn, largest) = (b + BYTE - 1) \div BYTE
  BY DEF pkt_num_len
<1>4. b \in Nat /\ b >= 1 /\ BYTE \in Nat \ {0}
  <2> HIDE DEF u, b
  <2> QED
    BY <1>1, <1>2, PktSpaceAssumption
<1> HIDE DEF u, b
<1>5. (b + BYTE - 1) \div BYTE \in Nat \ {0}
  BY <1>4
<1> QED
  BY <1>3, <1>5

-----------------------------------------------------------------------------
(* Packet numbers.                                                           *)

LEMMA Multiples ==
    ASSUME NEW w \in Nat \ {0}, NEW a \in Int, NEW b \in Int,
           w * a - w * b < w, w * b - w * a < w
    PROVE  a = b
<1>1. CASE a > b
  <2>1. PICK d \in Nat : a = b + 1 + d
    <3>1. a - b - 1 \in Nat /\ a = b + 1 + (a - b - 1)
      BY <1>1
    <3> QED
      BY <3>1
  <2>2. w * a = w * b + w + w * d /\ w * d >= 0
    BY <2>1
  <2> QED
    BY <2>2
<1>2. CASE a < b
  <2>1. PICK d \in Nat : b = a + 1 + d
    <3>1. b - a - 1 \in Nat /\ b = a + 1 + (b - a - 1)
      BY <1>2
    <3> QED
      BY <3>1
  <2>2. w * b = w * a + w + w * d /\ w * d >= 0
    BY <2>1
  <2> QED
    BY <2>2
<1> QED
  BY <1>1, <1>2

LEMMA Division ==
    ASSUME NEW n \in Int, NEW w \in Int, w > 0
    PROVE  n % w = n - w * (n \div w)
  BY Z3

\* The number that is found lies within half a window around the one expected, or in the
\* first window, and ends like the one that was sent.
Near(n, e, h) == e < n + h /\ (n <= e + h \/ n < 2 * h)

LEMMA DecodeIs ==
    ASSUME NEW n \in Nat, NEW largest \in Nat, NEW len \in Nat, NEW h \in Nat \ {0},
           Pow2[len * BYTE] = 2 * h
    PROVE  decode_pkt_num(largest, encode_pkt_num(n, len), len) = n <=> Near(n, largest + 1, h)
<1> DEFINE w == 2 * h
           e == largest + 1
           r == n % w
           s == e % w
           c == (e - s) + r
           d == CASE c + h <= e -> c + w
                  [] c > e + h /\ c >= w -> c - w
                  [] OTHER -> c
<1>1. decode_pkt_num(largest, encode_pkt_num(n, len), len) = d
  <2>1. w \div 2 = h
    OBVIOUS
  <2> QED
    BY <2>1, Zenon DEF decode_pkt_num, encode_pkt_num
<1>2. w \in Nat \ {0} /\ e \in Nat /\ w = 2 * h
  OBVIOUS
<1> HIDE DEF w, e
<1>3. PICK i \in Nat : n = w * i + r /\ r \in Nat /\ r < w
  <2>1. n \div w \in Nat /\ r \in Nat /\ r < w
    BY <1>2
  <2>2. r = n - w * (n \div w)
    <3>1. n \in Int /\ w \in Int /\ w > 0
      BY <1>2
    <3>2. n % w = n - w * (n \div w)
      BY <3>1, Division, Zenon
    <3> QED
      BY <3>2
  <2>3. w * (n \div w) \in Int
    BY <1>2, <2>1
  <2> HIDE DEF r
  <2>4. n = w * (n \div w) + r
    BY <1>2, <2>1, <2>2, <2>3
  <2> QED
    BY <2>1, <2>4
<1>4. PICK j \in Nat : e = w * j + s /\ s \in Nat /\ s < w
  <2>1. e \div w \in Nat /\ s \in Nat /\ s < w
    BY <1>2
  <2>2. s = e - w * (e \div w)
    <3>1. e \in Int /\ w \in Int /\ w > 0
      BY <1>2
    <3>2. e % w = e - w * (e \div w)
      BY <3>1, Division, Zenon
    <3> QED
      BY <3>2
  <2>3. w * (e \div w) \in Int
    BY <1>2, <2>1
  <2> HIDE DEF s
  <2>4. e = w * (e \div w) + s
    BY <1>2, <2>1, <2>2, <2>3
  <2> QED
    BY <2>1, <2>4
<1> HIDE DEF r, s
<1>5. c \in Int /\ c = w * j + r /\ c <= e - s + w - 1 /\ c >= e - s
  <2>1. w * j \in Int
    BY <1>2
  <2> QED
    BY <1>2, <1>3, <1>4, <2>1
<1>6. c \in Nat
  <2>1. w * j \in Nat
    BY <1>2
  <2> QED
    BY <1>3, <1>5, <2>1
<1> HIDE DEF c
<1>7. d \in Nat /\ (d = c \/ d = c + w \/ d = c - w)
  BY <1>2, <1>6
<1>8. Near(d, e, h)
  BY <1>2, <1>4, <1>5, <1>6 DEF Near
<1>9. PICK k \in Int : d = w * k + r
  <2>1. w * (j + 1) = w * j + w /\ w * (j - 1) = w * j - w
    BY <1>2
  <2>2. CASE d = c
    BY <1>5, <2>2
  <2>3. CASE d = c + w
    <3>1. j + 1 \in Int /\ d = w * (j + 1) + r
      BY <1>2, <1>3, <1>5, <2>1, <2>3
    <3> QED
      BY <3>1
  <2>4. CASE d = c - w
    <3>1. j - 1 \in Int /\ d = w * (j - 1) + r
      BY <1>2, <1>3, <1>5, <2>1, <2>4
    <3> QED
      BY <3>1
  <2> QED
    BY <1>7, <2>2, <2>3, <2>4
<1> HIDE DEF d
<1>10. ASSUME Near(n, e, h) PROVE d = n
  <2>1. d - n < w /\ n - d < w
    BY <1>2, <1>7, <1>8, <1>10 DEF Near
  <2>2. w * k - w * i < w /\ w * i - w * k < w
    <3>1. w * k \in Int /\ w * i \in Int
      BY <1>2
    <3> QED
      BY <1>2, <1>3, <1>9, <2>1, <3>1
  <2>3. k = i
    BY <1>2, <2>2, Multiples
  <2> QED
    BY <1>3, <1>9, <2>3
<1> QED
  BY <1>1, <1>8, <1>10 DEF e

\* recv_single finds the number of a packet if it is near the one expected.
LEMMA DecodedIs ==
    ASSUME NEW n \in Nat, NEW len \in Nat \ {0}, NEW largest \in Nat
    PROVE  /\ Pow2[len * BYTE - 1] \in Nat \ {0}
           /\ decode_pkt_num(largest, encode_pkt_num(n, len), len) = n
                 <=> Near(n, largest + 1, Pow2[len * BYTE - 1])
<1>1. len * BYTE \in Nat \ {0}
  BY PktSpaceAssumption
<1>2. /\ Pow2[len * BYTE] = 2 * Pow2[len * BYTE - 1] /\ Pow2[len * BYTE - 1] \in Nat \ {0}
  <2>1. len * BYTE - 1 \in Nat
    BY <1>1
  <2> QED
    BY <1>1, <2>1, Pow2Is
<1> QED
  BY <1>2, DecodeIs

-----------------------------------------------------------------------------
(* The inductive invariant.                                                  *)

Windows == [lower : Nat, window : SUBSET Nat]
Updates == [pn_on_update : Nat, update_acked : BOOLEAN]
Spaces == [largest_rx_pkt_num : Nat, recv_pkt_num : Windows, recv_pkt_need_ack : RangeSets,
           ack_elicited : BOOLEAN, gen : Nat, key_update : SUBSET Updates]
Packets == [gen : Nat, len : Nat \ {0}, acks : SUBSET Nat]
OwnPackets == [last : Nat, gen : Nat, state : {"sent", "acked", "lost"}]
Peers == [gen : Nat, largest_acked : Nat \cup {None}, seen : SUBSET Nat]

Typed ==
    /\ pkts \in Seq(Packets) /\ own \in Seq(OwnPackets)
    /\ peer \in Peers /\ space \in Spaces
    /\ received \subseteq Nat
    /\ removed \in Nat \cup {None}

\* The window of duplicates ends at the largest packet, or starts at the first, and knows
\* exactly which packets in it were processed.
WindowIs(x, rcvd) ==
    /\ x.largest_rx_pkt_num \in rcvd \cup {0}
    /\ \A m \in rcvd : m <= x.largest_rx_pkt_num
    /\ x.recv_pkt_num.lower = IF x.largest_rx_pkt_num + 1 >= WINDOW
                              THEN x.largest_rx_pkt_num + 1 - WINDOW ELSE 0
    /\ x.recv_pkt_num.window = {m \in rcvd : m >= x.recv_pkt_num.lower}

\* The ranges to acknowledge hold packets that were processed.  One that fell out of them
\* without being removed is older than those in them, and so old that nothing that arrives
\* from now on is older still.
AcksAre(x, rcvd, rmvd) ==
    LET inner == x.recv_pkt_need_ack.inner
    IN  /\ Fit(x.recv_pkt_need_ack)
        /\ x.recv_pkt_need_ack.capacity = MAX_ACK_RANGES
        /\ \A m \in Nat : Has(inner, m) => m \in rcvd
        /\ \A m \in rcvd : ~Has(inner, m) /\ m > rmvd =>
              m < x.recv_pkt_num.lower /\ \A y \in Nat : Has(inner, y) => m < y

\* What was acknowledged was processed, and with keys that were known.
OwnIs ==
    /\ \A k \in DOMAIN own : /\ own[k].last \in received
                             /\ pkts[own[k].last + 1].gen <= own[k].gen
                             /\ own[k].gen <= space.gen
    /\ peer.seen \subseteq DOMAIN own
    /\ \A i \in DOMAIN pkts : pkts[i].acks \subseteq DOMAIN own

\* Generations grow with the packet numbers.  The peer is at most one ahead: it updated
\* when a packet of its last generation was acknowledged, which the endpoint does with that
\* generation or a newer one; before it does, its update is not acknowledged.
KeysAre ==
    /\ \A i, j \in DOMAIN pkts : i <= j => pkts[i].gen <= pkts[j].gen
    /\ \A i \in DOMAIN pkts : pkts[i].gen <= peer.gen
    /\ \A n \in received : pkts[n + 1].gen <= space.gen
    /\ space.gen <= peer.gen /\ peer.gen <= space.gen + 1
    /\ peer.largest_acked # None => \E k \in peer.seen : own[k].last = peer.largest_acked
    /\ peer.gen > 0 => /\ peer.largest_acked # None
                       /\ peer.gen <= pkts[peer.largest_acked + 1].gen + 1
    /\ \A u \in space.key_update :
          /\ u.pn_on_update \in received
          /\ pkts[u.pn_on_update + 1].gen = space.gen
          /\ ~u.update_acked => \A k \in DOMAIN own : own[k].gen < space.gen

PktInv ==
    /\ Typed
    /\ \A n \in received : n + 1 \in DOMAIN pkts
    /\ WindowIs(space, received)
    /\ AcksAre(space, received, removed)
    /\ OwnIs
    /\ KeysAre
    /\ ~closed

-----------------------------------------------------------------------------
(* What is processed enters the window and the ranges.                       *)

LEMMA WindowKept ==
    ASSUME NEW x, NEW rcvd \in SUBSET Nat, WindowIs(x, rcvd), x.largest_rx_pkt_num \in Nat,
           x.recv_pkt_num \in Windows,
           NEW n \in Nat, ~contains(x.recv_pkt_num, n),
           NEW y, y.largest_rx_pkt_num = Max({x.largest_rx_pkt_num, n}),
           y.recv_pkt_num = InsertPn(x.recv_pkt_num, n)
    PROVE  /\ WindowIs(y, rcvd \cup {n})
           /\ y.largest_rx_pkt_num \in Nat /\ y.recv_pkt_num \in Windows
           /\ n \notin rcvd /\ n >= x.recv_pkt_num.lower
           /\ x.recv_pkt_num.lower <= y.recv_pkt_num.lower
<1> DEFINE w == x.recv_pkt_num
           v == y.recv_pkt_num
           l == x.largest_rx_pkt_num
<1>0. WINDOW \in Nat \ {0}
  BY PktSpaceAssumption
<1>1. /\ w.lower \in Nat /\ w.window \subseteq Nat /\ l \in Nat
      /\ l \in rcvd \cup {0} /\ \A m \in rcvd : m <= l
      /\ w.lower = IF l + 1 >= WINDOW THEN l + 1 - WINDOW ELSE 0
      /\ w.window = {m \in rcvd : m >= w.lower}
  BY DEF WindowIs, Windows
<1>2. n > w.lower + WINDOW - 1 \/ (n >= w.lower /\ n \notin w.window)
  BY <1>0, <1>1 DEF contains, upper
<1>3. /\ n \notin rcvd /\ n >= w.lower
  BY <1>0, <1>1, <1>2
<1> DEFINE a == w.lower + Max({n - upper(w), 0})
<1>4. /\ a \in Nat /\ a = IF n >= w.lower + WINDOW THEN n + 1 - WINDOW ELSE w.lower
      /\ w.lower <= a
  <2>1. upper(w) = w.lower + WINDOW - 1 /\ upper(w) \in Int
    BY <1>0, <1>1 DEF upper
  <2> DEFINE u == n - upper(w)
  <2>2. u \in Int /\ 0 \in Int /\ u = n - (w.lower + WINDOW - 1)
    BY <1>0, <1>1, <2>1
  <2> HIDE DEF u
  <2>3. Max({u, 0}) = IF u >= 0 THEN u ELSE 0
    BY <2>2, OfTwo
  <2>4. a = w.lower + Max({u, 0})
    BY DEF u
  <2> HIDE DEF a
  <2> QED
    BY <1>0, <1>1, <2>2, <2>3, <2>4
<1>5. v = [lower |-> a, window |-> {m \in w.window : m >= a} \cup {n}]
  BY <1>1, <1>3 DEF InsertPn
<1> HIDE DEF a
<1>6. v.lower = a /\ v.window = {m \in w.window : m >= a} \cup {n} /\ v \in Windows
  <2>1. {m \in w.window : m >= a} \cup {n} \in SUBSET Nat
    BY <1>1
  <2> QED
    BY <1>4, <1>5, <2>1 DEF Windows
<1> DEFINE k == y.largest_rx_pkt_num
<1>7. /\ k \in Nat /\ k = (IF l >= n THEN l ELSE n)
  <2>1. l \in Int /\ n \in Int /\ k = Max({l, n})
    BY <1>1
  <2> HIDE DEF l, k
  <2>2. Max({l, n}) = IF l >= n THEN l ELSE n
    BY <2>1, OfTwo
  <2> QED
    BY <1>1, <2>1, <2>2
<1> HIDE DEF k, l, w, v
<1>8. a = IF k + 1 >= WINDOW THEN k + 1 - WINDOW ELSE 0
  BY <1>0, <1>1, <1>3, <1>4, <1>7
<1>9. v.window = {m \in rcvd \cup {n} : m >= v.lower}
  <2>1. n >= a
    BY <1>0, <1>1, <1>3, <1>4
  <2>2. \A m \in rcvd : m >= a => m >= w.lower
    BY <1>1, <1>4
  <2> QED
    BY <1>1, <1>6, <2>1, <2>2
<1>10. k \in (rcvd \cup {n}) \cup {0} /\ \A m \in rcvd \cup {n} : m <= k
  <2>1. CASE l >= n
    <3>1. k = l
      BY <1>7, <2>1
    <3> QED
      BY <1>1, <2>1, <3>1
  <2>2. CASE ~(l >= n)
    <3>1. k = n
      BY <1>7, <2>2
    <3>2. \A m \in rcvd : m \in Nat /\ m <= l
      BY <1>1
    <3>3. \A m \in rcvd \cup {n} : m <= n
      BY <1>1, <2>2, <3>2
    <3> QED
      BY <3>1, <3>3
  <2> QED
    BY <2>1, <2>2
<1> QED
  BY <1>3, <1>4, <1>6, <1>7, <1>8, <1>9, <1>10 DEF WindowIs, k, v, w

\* Ranges have gaps, so many of them are far apart.
LEMMA Spread ==
    ASSUME NEW m, Gapped(m), Len(m) >= 2
    PROVE  m[Len(m)][1] >= m[1][2] + 2 * (Len(m) - 2) + 1
<1> DEFINE n == Len(m)
<1>i. /\ n \in Nat
      /\ \A i \in 1 .. n : m[i][1] \in Nat /\ m[i][2] \in Nat /\ m[i][1] < m[i][2]
      /\ \A i, j \in 1 .. n : i < j => m[i][2] < m[j][1]
  BY GappedIs
<1>n. n \in Nat /\ n >= 2
  BY <1>i
<1> HIDE DEF n
<1> DEFINE P == {k \in 0 .. n - 2 : m[k + 2][1] >= m[1][2] + 2 * k + 1}
<1>1. 0 \in P
  <2>1. 1 \in 1 .. n /\ 2 \in 1 .. n
    BY <1>n
  <2>2. m[1][2] < m[2][1] /\ m[1][2] \in Nat /\ m[2][1] \in Nat
    BY <1>i, <2>1
  <2> QED
    BY <1>n, <2>2
<1>2. ASSUME NEW k \in 1 .. n - 2, k - 1 \in P PROVE k \in P
  <2>1. k + 1 \in 1 .. n /\ k + 2 \in 1 .. n /\ 1 \in 1 .. n /\ k + 1 < k + 2
        /\ (k - 1) + 2 = k + 1
    BY <1>n
  <2>2. m[k + 1][1] >= m[1][2] + 2 * (k - 1) + 1
    BY <1>2, <2>1
  <2>3. m[k + 1][2] < m[k + 2][1] /\ m[k + 1][1] < m[k + 1][2]
        /\ m[k + 1][1] \in Nat /\ m[k + 1][2] \in Nat /\ m[k + 2][1] \in Nat /\ m[1][2] \in Nat
    BY <1>i, <2>1
  <2> DEFINE u == m[k + 1][1]
             v == m[k + 1][2]
             w == m[k + 2][1]
             z == m[1][2]
  <2>5. u >= z + 2 * (k - 1) + 1 /\ v < w /\ u < v /\ u \in Nat /\ v \in Nat /\ w \in Nat
        /\ z \in Nat
    BY <2>2, <2>3, Zenon
  <2>7. k \in Int
    BY <1>n
  <2> HIDE DEF u, v, w, z
  <2>6. w >= z + 2 * k + 1
    BY <2>5, <2>7
  <2>4. m[k + 2][1] >= m[1][2] + 2 * k + 1
    BY <2>6 DEF w, z
  <2> QED
    BY <2>4
<1> HIDE DEF P
<1>3. n - 2 \in Nat
  BY <1>n
<1>4. n - 2 \in P
  BY <1>1, <1>2, <1>3, Induction
<1>5. m[(n - 2) + 2][1] >= m[1][2] + 2 * (n - 2) + 1 /\ (n - 2) + 2 = n
  BY <1>n, <1>4 DEF P
<1> QED
  BY <1>5 DEF n

LEMMA AcksKept ==
    ASSUME NEW x, NEW rcvd \in SUBSET Nat, NEW rmvd \in Int, NEW n \in Nat, NEW y,
           WindowIs(x, rcvd), AcksAre(x, rcvd, rmvd),
           x.recv_pkt_num.lower \in Nat, x.largest_rx_pkt_num \in Nat,
           n >= x.recv_pkt_num.lower, n \notin rcvd,
           WindowIs(y, rcvd \cup {n}), y.largest_rx_pkt_num \in Nat,
           y.recv_pkt_num.lower \in Nat,
           x.recv_pkt_num.lower <= y.recv_pkt_num.lower,
           y.recv_pkt_need_ack = push_item(x.recv_pkt_need_ack, n)
    PROVE  AcksAre(y, rcvd \cup {n}, rmvd)
<1> DEFINE set == x.recv_pkt_need_ack
           t == y.recv_pkt_need_ack
           item == <<n, n + 1>>
           a == x.recv_pkt_num.lower
           b == y.recv_pkt_num.lower
<1>0. WINDOW \in Nat \ {0} /\ MAX_ACK_RANGES \in Nat \ {0} /\ WINDOW <= 2 * MAX_ACK_RANGES
      /\ MAX_INLINE_CAPACITY <= MAX_ACK_RANGES
  BY PktSpaceAssumption
<1>1. /\ Fit(set) /\ set.capacity = MAX_ACK_RANGES
      /\ \A m \in Nat : Has(set.inner, m) => m \in rcvd
      /\ \A m \in rcvd : ~Has(set.inner, m) /\ m > rmvd =>
            m < a /\ \A z \in Nat : Has(set.inner, z) => m < z
  BY DEF AcksAre
<1>2. item \in Item /\ t = insert(set, item)
  BY DEF Item, push_item
<1>3. PICK m, p : Grows(t, set, item, m, p)
  BY <1>0, <1>1, <1>2, InsertIs
<1>4. /\ Fit(t) /\ t.capacity = MAX_ACK_RANGES
      /\ Gapped(m) /\ p \in 1 .. Len(m) /\ Len(m) <= MAX_ACK_RANGES + 1
      /\ \A z \in Nat : Has(m, z) <=> Has(set.inner, z) \/ z = n
      /\ Len(m) <= MAX_ACK_RANGES => t.inner = m
      /\ Len(m) > MAX_ACK_RANGES => m[p] = item /\ Drops(t.inner, m, IF p = 1 THEN 2 ELSE 1)
  <2>1. \A z \in Nat : In(z, item) <=> z = n
    BY DEF In
  <2> HIDE DEF item
  <2> QED
    BY <1>1, <1>3, <2>1 DEF Grows
<1>i. /\ Len(m) \in Nat /\ DOMAIN m = 1 .. Len(m)
      /\ \A i \in 1 .. Len(m) : m[i][1] \in Nat /\ m[i][2] \in Nat /\ m[i][1] < m[i][2]
      /\ \A i, j \in 1 .. Len(m) : i < j => m[i][2] < m[j][1]
  BY <1>4, GappedIs
<1> HIDE DEF item, set, t, a, b
<1>5. a \in Nat /\ b \in Nat /\ a <= b /\ n >= a
  BY DEF a, b
\* What had fallen out before.
<1>6. ASSUME NEW z \in rcvd \cup {n}, ~Has(m, z), z > rmvd
      PROVE  z < b /\ \A u \in Nat : Has(m, u) => z < u
  <2>1. z \in rcvd /\ ~Has(set.inner, z) /\ z \in Nat
    BY <1>4, <1>6
  <2>2. z < a /\ \A u \in Nat : Has(set.inner, u) => z < u
    BY <1>1, <1>6, <2>1
  <2> QED
    BY <1>4, <1>5, <2>1, <2>2
<1>7. CASE Len(m) <= MAX_ACK_RANGES
  <2>1. t.inner = m
    BY <1>4, <1>7
  <2>2. \A z \in Nat : Has(t.inner, z) => z \in rcvd \cup {n}
    BY <1>1, <1>4, <2>1
  <2> QED
    BY <1>4, <1>6, <2>1, <2>2 DEF AcksAre, t, b
<1>8. CASE Len(m) > MAX_ACK_RANGES
  <2> DEFINE k == y.largest_rx_pkt_num
             c == Len(m)
  <2>1. c = MAX_ACK_RANGES + 1 /\ c >= 2 /\ c \in Nat
    <3>1. c \in Nat /\ c > MAX_ACK_RANGES /\ c <= MAX_ACK_RANGES + 1
      BY <1>4, <1>8, <1>i
    <3> HIDE DEF c
    <3> QED
      BY <1>0, <3>1
  <2> HIDE DEF c
  <2>2. 1 \in 1 .. c /\ c \in 1 .. c
    BY <2>1
  <2>3. m[c][1] >= m[1][2] + 2 * MAX_ACK_RANGES - 1 /\ m[c][1] \in Nat /\ m[1][2] \in Nat
        /\ m[1][1] \in Nat /\ m[1][1] < m[1][2]
    <3>1. m[c][1] >= m[1][2] + 2 * (c - 2) + 1
      BY <1>4, <2>1, Spread DEF c
    <3>2. m[c][1] \in Nat /\ m[1][2] \in Nat /\ m[1][1] \in Nat /\ m[1][1] < m[1][2]
      BY <1>i, <2>2 DEF c
    <3> QED
      BY <1>0, <2>1, <3>1, <3>2
  \* The largest of the ranges was processed.
  <2>4. Has(m, m[c][1])
    <3>1. In(m[c][1], m[c]) /\ c \in DOMAIN m
      BY <1>i, <2>2 DEF In, c
    <3> QED
      BY <3>1 DEF Has
  <2>5. m[c][1] \in rcvd \cup {n} /\ m[c][1] <= k /\ k \in Nat
    <3>1. m[c][1] \in rcvd \cup {n}
      BY <1>1, <1>4, <2>3, <2>4
    <3> QED
      BY <3>1 DEF WindowIs
  <2>6. b = IF k + 1 >= WINDOW THEN k + 1 - WINDOW ELSE 0
    BY DEF WindowIs, b
  <2> HIDE DEF k
  \* So what is in the first range is too old.
  <2>7. \A z \in Nat : z < m[1][2] => z < b
    BY <1>0, <2>3, <2>5, <2>6
  <2>8. p # 1
    <3> SUFFICES ASSUME p = 1 PROVE FALSE
      OBVIOUS
    <3>1. m[1][2] = n + 1 /\ m[1] = item
      BY <1>4, <1>8 DEF item
    <3>2. m[c][1] # n /\ m[c][1] \in rcvd
      BY <1>0, <2>3, <2>5, <3>1
    <3>3. m[c][1] <= x.largest_rx_pkt_num
      BY <3>2 DEF WindowIs
    <3>4. a = IF x.largest_rx_pkt_num + 1 >= WINDOW THEN x.largest_rx_pkt_num + 1 - WINDOW ELSE 0
      BY DEF WindowIs, a
    <3> QED
      BY <1>0, <1>5, <2>3, <3>1, <3>3, <3>4
  <2>9. /\ \A z \in Nat : Has(t.inner, z) <=> \E i \in 1 .. c : i # 1 /\ In(z, m[i])
    BY <1>4, <1>8, <1>i, <2>8 DEF Drops, c
  <2>10. \A z \in Nat : Has(t.inner, z) => Has(m, z)
    BY <1>i, <2>9 DEF Has, c
  <2>11. \A z \in Nat : Has(t.inner, z) => z \in rcvd \cup {n}
    BY <1>1, <1>4, <2>10
  <2>12. ASSUME NEW z \in rcvd \cup {n}, ~Has(t.inner, z), z > rmvd
         PROVE  z < b /\ \A u \in Nat : Has(t.inner, u) => z < u
    <3>1. CASE ~Has(m, z)
      BY <1>6, <2>10, <2>12, <3>1
    <3>2. CASE Has(m, z)
      <4>1. In(z, m[1]) /\ z \in Nat
        BY <1>i, <2>9, <2>12, <3>2 DEF Has, c
      <4>2. z < m[1][2]
        BY <4>1 DEF In
      <4>3. ASSUME NEW u \in Nat, Has(t.inner, u) PROVE z < u
        <5>1. PICK i \in 1 .. c : i # 1 /\ In(u, m[i])
          BY <2>9, <4>3
        <5>2. m[1][2] < m[i][1] /\ m[i][1] \in Nat
          BY <1>i, <2>2, <5>1 DEF c
        <5> QED
          BY <2>3, <4>1, <4>2, <5>1, <5>2 DEF In
      <4> QED
        BY <2>7, <4>1, <4>2, <4>3
    <3> QED
      BY <3>1, <3>2
  <2> QED
    BY <1>4, <2>11, <2>12 DEF AcksAre, t, b
<1> QED
  BY <1>0, <1>7, <1>8, <1>i

LEMMA AcksRemoved ==
    ASSUME NEW x, NEW rcvd \in SUBSET Nat, NEW rmvd \in Int, NEW new \in Int, NEW largest \in Nat,
           NEW y, AcksAre(x, rcvd, rmvd), rmvd <= new, largest <= new,
           y.recv_pkt_num = x.recv_pkt_num,
           y.recv_pkt_need_ack = remove_until(x.recv_pkt_need_ack, largest)
    PROVE  AcksAre(y, rcvd, new)
<1> DEFINE set == x.recv_pkt_need_ack
           t == y.recv_pkt_need_ack
<1>1. /\ Fit(set) /\ set.capacity = MAX_ACK_RANGES
      /\ \A m \in Nat : Has(set.inner, m) => m \in rcvd
      /\ \A m \in rcvd : ~Has(set.inner, m) /\ m > rmvd =>
            m < x.recv_pkt_num.lower /\ \A z \in Nat : Has(set.inner, z) => m < z
  BY DEF AcksAre
<1>2. /\ Fit(t) /\ t.capacity = MAX_ACK_RANGES
      /\ \A z \in Nat : Has(t.inner, z) <=> Has(set.inner, z) /\ z > largest
  BY <1>1, RemoveUntilIs
<1> HIDE DEF set, t
<1>3. ASSUME NEW m \in rcvd, ~Has(t.inner, m), m > new
      PROVE  m < y.recv_pkt_num.lower /\ \A z \in Nat : Has(t.inner, z) => m < z
  <2>1. m \in Nat /\ m > rmvd /\ m > largest
    BY <1>3
  <2>2. ~Has(set.inner, m)
    BY <1>2, <1>3, <2>1
  <2> QED
    BY <1>1, <1>2, <2>1, <2>2
<1> QED
  BY <1>1, <1>2, <1>3 DEF AcksAre, t

-----------------------------------------------------------------------------
(* The steps.                                                                *)

LEMMA TypedIs ==
    ASSUME Typed
    PROVE  /\ Len(pkts) \in Nat /\ DOMAIN pkts = 1 .. Len(pkts)
           /\ Len(own) \in Nat /\ DOMAIN own = 1 .. Len(own)
           /\ \A i \in DOMAIN pkts : /\ pkts[i].gen \in Nat /\ pkts[i].len \in Nat \ {0}
                                     /\ pkts[i].acks \in SUBSET Nat
           /\ \A k \in DOMAIN own : /\ own[k].last \in Nat /\ own[k].gen \in Nat
                                    /\ own[k].state \in {"sent", "acked", "lost"}
           /\ peer.gen \in Nat /\ peer.largest_acked \in Nat \cup {None}
           /\ peer.seen \in SUBSET Nat
           /\ space.largest_rx_pkt_num \in Nat /\ space.recv_pkt_num \in Windows
           /\ space.recv_pkt_num.lower \in Nat
           /\ space.recv_pkt_need_ack \in RangeSets
           /\ space.ack_elicited \in BOOLEAN /\ space.gen \in Nat
           /\ space.key_update \in SUBSET Updates
<1>1. /\ Len(pkts) \in Nat /\ DOMAIN pkts = 1 .. Len(pkts)
      /\ \A i \in DOMAIN pkts : pkts[i] \in Packets
  BY DEF Typed
<1>2. /\ Len(own) \in Nat /\ DOMAIN own = 1 .. Len(own)
      /\ \A k \in DOMAIN own : own[k] \in OwnPackets
  BY DEF Typed
<1>3. peer \in Peers /\ space \in Spaces
  BY DEF Typed
<1>4. \A i \in DOMAIN pkts : /\ pkts[i].gen \in Nat /\ pkts[i].len \in Nat \ {0}
                             /\ pkts[i].acks \in SUBSET Nat
  BY <1>1 DEF Packets
<1>5. \A k \in DOMAIN own : /\ own[k].last \in Nat /\ own[k].gen \in Nat
                            /\ own[k].state \in {"sent", "acked", "lost"}
  BY <1>2 DEF OwnPackets
<1>6. /\ peer.gen \in Nat /\ peer.largest_acked \in Nat \cup {None}
      /\ peer.seen \in SUBSET Nat
  BY <1>3 DEF Peers
<1>7. /\ space.largest_rx_pkt_num \in Nat /\ space.recv_pkt_num \in Windows
      /\ space.recv_pkt_need_ack \in RangeSets
      /\ space.ack_elicited \in BOOLEAN /\ space.gen \in Nat
      /\ space.key_update \in SUBSET Updates
  BY <1>3 DEF Spaces
<1>8. space.recv_pkt_num.lower \in Nat
  BY <1>7 DEF Windows
<1> QED
  BY <1>1, <1>2, <1>4, <1>5, <1>6, <1>7, <1>8

LEMMA PktInit ==
    ASSUME Init
    PROVE  PktInv
<1> DEFINE ranges == RangeSetOf(MAX_ACK_RANGES)
<1>0. WINDOW \in Nat \ {0} /\ MAX_ACK_RANGES \in Nat \ {0} /\ MAX_INLINE_CAPACITY \in Nat \ {0}
  BY PktSpaceAssumption, RangesAssumption
<1>1. Fit(ranges) /\ ranges.capacity = MAX_ACK_RANGES /\ ranges.inner = <<>>
  <2>1. /\ ranges.inner = <<>> /\ ranges.capacity = MAX_ACK_RANGES /\ ranges \in RangeSets
    BY <1>0 DEF RangeSetOf, RangeSets
  <2>2. Gapped(ranges.inner) /\ Len(ranges.inner) = 0
    BY <2>1 DEF Gapped
  <2> QED
    BY <1>0, <2>1, <2>2 DEF Fit
<1> HIDE DEF ranges
<1>2. /\ pkts = <<>> /\ own = <<>> /\ received = {} /\ removed = None /\ ~closed
      /\ peer = [gen |-> 0, largest_acked |-> None, seen |-> {}]
      /\ space = [largest_rx_pkt_num |-> 0, recv_pkt_num |-> [lower |-> 0, window |-> {}],
                  recv_pkt_need_ack |-> ranges, ack_elicited |-> FALSE,
                  gen |-> 0, key_update |-> {}]
  BY DEF Init, ranges
<1>3. Typed
  BY <1>1, <1>2 DEF Typed, Spaces, Windows, Updates, Peers, Fit
<1>4. WindowIs(space, received)
  BY <1>0, <1>2 DEF WindowIs
<1>5. AcksAre(space, received, removed)
  BY <1>1, <1>2 DEF AcksAre, Has
<1>6. OwnIs /\ KeysAre
  BY <1>2 DEF OwnIs, KeysAre
<1> QED
  BY <1>2, <1>3, <1>4, <1>5, <1>6 DEF PktInv

\* A packet that is accepted has the number and the key that were found; the update that it
\* may ask for is not refused, for the one before was acknowledged.
LEMMA AcceptedIs ==
    ASSUME PktInv, NEW n \in Pns, Accepts(n)
    PROVE  /\ n \in Nat /\ n + 1 \in DOMAIN pkts
           /\ ~contains(space.recv_pkt_num, n)
           /\ OpenKey(n) = pkts[n + 1].gen
           /\ OpenKey(n) \in {space.gen - 1, space.gen, space.gen + 1}
           /\ ~(OpenKey(n) = space.gen + 1 /\ \E u \in space.key_update : ~u.update_acked)
<1>t. Typed
  BY DEF PktInv
<1>0. /\ Len(pkts) \in Nat /\ DOMAIN pkts = 1 .. Len(pkts)
      /\ \A i \in DOMAIN pkts : pkts[i].gen \in Nat
      /\ \A k \in DOMAIN own : own[k].last \in Nat /\ own[k].gen \in Nat
      /\ peer.gen \in Nat /\ peer.largest_acked \in Nat \cup {None} /\ space.gen \in Nat
  BY <1>t, TypedIs
<1>1. n \in Nat /\ n + 1 \in DOMAIN pkts
  BY <1>0 DEF Pns
<1>2. DecodedPn(n) = n /\ OpenKey(n) = pkts[n + 1].gen /\ ~contains(space.recv_pkt_num, n)
  BY DEF Accepts, Opens
<1>3. OpenKey(n) \in {space.gen - 1, space.gen, space.gen + 1}
  BY DEF OpenKey
<1>4. ASSUME pkts[n + 1].gen = space.gen + 1, NEW u \in space.key_update, ~u.update_acked
      PROVE  FALSE
  <2>1. peer.gen = space.gen + 1
    BY <1>0, <1>1, <1>4 DEF PktInv, KeysAre
  <2> DEFINE la == peer.largest_acked
  <2>2. la # None /\ peer.gen <= pkts[la + 1].gen + 1
    BY <1>0, <2>1 DEF PktInv, KeysAre
  <2>3. PICK k \in peer.seen : own[k].last = la
    BY <2>2 DEF PktInv, KeysAre
  <2>4. k \in DOMAIN own
    BY DEF PktInv, OwnIs
  <2>5. own[k].gen < space.gen
    BY <1>4, <2>4 DEF PktInv, KeysAre
  <2>6. la \in received /\ pkts[la + 1].gen <= own[k].gen
    BY <2>3, <2>4 DEF PktInv, OwnIs
  <2>7. pkts[la + 1].gen \in Nat
    BY <1>0, <2>6 DEF PktInv
  <2> QED
    BY <1>0, <2>1, <2>2, <2>4, <2>5, <2>6, <2>7, SMTT(30)
<1> QED
  BY <1>1, <1>2, <1>3, <1>4

LEMMA MaxWith ==
    ASSUME NEW r \in Nat \cup {None}, NEW S, S \subseteq Nat, NEW n \in Nat, \A y \in S : y <= n
    PROVE  LET g == Max({r} \cup S)
           IN  g \in {r} \cup S /\ r <= g /\ \A y \in S : y <= g
<1>1. CASE S = {}
  <2>1. {r} \cup S = {r} /\ r \in Int
    BY <1>1 DEF None
  <2>2. Max({r}) = r
    BY <2>1 DEF Max
  <2> QED
    BY <1>1, <2>1, <2>2
<1>2. CASE S # {}
  <2> DEFINE m == Max(S)
             g == IF r >= m THEN r ELSE m
             T == {r} \cup S
  <2>1. m \in S /\ m \in Nat /\ \A y \in S : m >= y
    BY <1>2, MaxInSet
  <2> HIDE DEF m
  <2>2. g \in T /\ \A y \in T : g >= y
    BY <2>1 DEF None
  <2>3. T \subseteq Int
    BY DEF None
  <2> HIDE DEF g, T
  <2>4. Max(T) \in T /\ \A y \in T : Max(T) >= y
    BY <2>2 DEF Max
  <2> QED
    BY <2>3, <2>4 DEF T
<1> QED
  BY <1>1, <1>2

\* The keys after the packet.
UpdatedIs(x, n) ==
    /\ x \in Spaces
    /\ x.largest_rx_pkt_num = space.largest_rx_pkt_num /\ x.recv_pkt_num = space.recv_pkt_num
    /\ x.recv_pkt_need_ack = space.recv_pkt_need_ack
    /\ \/ /\ OpenKey(n) = space.gen + 1 /\ x.gen = space.gen + 1
          /\ x.key_update = {[pn_on_update |-> n, update_acked |-> FALSE]}
       \/ /\ OpenKey(n) # space.gen + 1 /\ x.gen = space.gen /\ x.key_update = space.key_update

LEMMA UpdateKeysIs ==
    ASSUME space \in Spaces, NEW n \in Nat
    PROVE  UpdatedIs(UpdateKeys(n, space), n)
<1> DEFINE x == UpdateKeys(n, space)
           new == {[pn_on_update |-> n, update_acked |-> FALSE]}
<1>1. space.gen \in Nat /\ new \in SUBSET Updates
  BY DEF Spaces, Updates
<1>2. CASE OpenKey(n) = space.gen + 1
  <2>1. x = [space EXCEPT !.gen = @ + 1, !.key_update = new]
    BY <1>2 DEF UpdateKeys
  <2> HIDE DEF x, new
  <2>2. /\ x.gen = space.gen + 1 /\ x.key_update = new
        /\ x.largest_rx_pkt_num = space.largest_rx_pkt_num /\ x.recv_pkt_num = space.recv_pkt_num
        /\ x.recv_pkt_need_ack = space.recv_pkt_need_ack
    BY <2>1 DEF Spaces
  <2>3. x \in Spaces
    <3>1. space.gen + 1 \in Nat
      BY <1>1
    <3> QED
      BY <1>1, <2>1, <3>1 DEF Spaces
  <2> QED
    BY <1>2, <2>2, <2>3 DEF UpdatedIs, x, new
<1>3. CASE OpenKey(n) # space.gen + 1
  BY <1>3 DEF UpdateKeys, UpdatedIs
<1> QED
  BY <1>2, <1>3

\* The packets of an acknowledged ACK frame need no more acknowledgment.
LEMMA AcknowledgeIs ==
    ASSUME NEW x \in Spaces, NEW rcvd \in SUBSET Nat, NEW rmvd \in Nat \cup {None},
           AcksAre(x, rcvd, rmvd), NEW ks, ks \subseteq DOMAIN own,
           \A k \in ks : own[k].last \in rcvd, NEW n \in Nat, \A m \in rcvd : m <= n
    PROVE  LET y == Acknowledge(x, ks)
               new == Max({rmvd} \cup {own[k].last : k \in ks})
           IN  /\ y = [x EXCEPT !.recv_pkt_need_ack = y.recv_pkt_need_ack]
               /\ AcksAre(y, rcvd, new) /\ new \in Nat \cup {None}
<1> DEFINE y == Acknowledge(x, ks)
           S == {own[k].last : k \in ks}
           new == Max({rmvd} \cup S)
<1>1. S \subseteq rcvd /\ S \subseteq Nat /\ \A z \in S : z <= n
  OBVIOUS
<1>2. ks = {} <=> S = {}
  OBVIOUS
<1> HIDE DEF S
<1>3. new \in {rmvd} \cup S /\ rmvd <= new /\ \A z \in S : z <= new
  BY <1>1, MaxWith
<1> HIDE DEF new
<1>4. new \in Nat \cup {None} /\ new \in Int /\ rmvd \in Int
  BY <1>1, <1>3 DEF None
<1>5. CASE ks = {}
  <2>1. y = x /\ new = rmvd
    BY <1>2, <1>3, <1>5 DEF Acknowledge
  <2>2. x = [x EXCEPT !.recv_pkt_need_ack = x.recv_pkt_need_ack]
    BY DEF Spaces
  <2> QED
    BY <1>4, <2>1, <2>2 DEF new, S
<1>6. CASE ks # {}
  <2> DEFINE largest == Max(S)
  <2>1. largest \in S /\ largest \in Nat
    BY <1>1, <1>2, <1>6, MaxInSet
  <2>2. largest <= new
    BY <1>3, <2>1
  <2>3. y = [x EXCEPT !.recv_pkt_need_ack = remove_until(x.recv_pkt_need_ack, largest)]
    BY <1>6 DEF Acknowledge, S
  <2> HIDE DEF largest, y
  <2>4. /\ y.recv_pkt_need_ack = remove_until(x.recv_pkt_need_ack, largest)
        /\ y.recv_pkt_num = x.recv_pkt_num
    BY <2>3 DEF Spaces
  <2>5. AcksAre(y, rcvd, new)
    BY <1>3, <1>4, <2>1, <2>2, <2>4, AcksRemoved
  <2> QED
    BY <1>4, <2>3, <2>4, <2>5 DEF new, S, y
<1> QED
  BY <1>5, <1>6

\* The whole of it.
LEMMA ReceivedIs ==
    ASSUME PktInv, NEW n \in Pns, Accepts(n), NEW e \in BOOLEAN
    PROVE  LET ks == AckedAcks(n)
               y == Received(Acknowledge(UpdateKeys(n, space), ks), n, e)
               new == Max({removed} \cup {own[k].last : k \in ks})
           IN  /\ y \in Spaces /\ new \in Nat \cup {None}
               /\ WindowIs(y, received \cup {n})
               /\ AcksAre(y, received \cup {n}, new)
               /\ y.gen = UpdateKeys(n, space).gen
               /\ y.key_update = UpdateKeys(n, space).key_update
<1> DEFINE ks == AckedAcks(n)
           u == UpdateKeys(n, space)
           x == Acknowledge(u, ks)
           y == Received(x, n, e)
           new == Max({removed} \cup {own[k].last : k \in ks})
<1>1. Typed /\ WindowIs(space, received) /\ AcksAre(space, received, removed)
  BY DEF PktInv
<1>2. space \in Spaces /\ received \in SUBSET Nat /\ removed \in Nat \cup {None}
  BY <1>1 DEF Typed
<1>3. n \in Nat /\ n + 1 \in DOMAIN pkts /\ ~contains(space.recv_pkt_num, n)
  BY AcceptedIs
<1>4. UpdatedIs(u, n)
  BY <1>2, <1>3, UpdateKeysIs
<1>5. ks \subseteq DOMAIN own /\ \A k \in ks : own[k].last \in received
  BY <1>3 DEF PktInv, OwnIs, AckedAcks
<1>6. space.largest_rx_pkt_num \in Nat /\ \A m \in received : m <= space.largest_rx_pkt_num
  BY <1>1, <1>2 DEF WindowIs, Spaces
<1> HIDE DEF ks, u
<1>7. u \in Spaces /\ AcksAre(u, received, removed)
  BY <1>1, <1>4 DEF UpdatedIs, AcksAre
<1>8. /\ x = [u EXCEPT !.recv_pkt_need_ack = x.recv_pkt_need_ack]
      /\ AcksAre(x, received, new) /\ new \in Nat \cup {None}
  BY <1>2, <1>5, <1>6, <1>7, AcknowledgeIs
<1> HIDE DEF x, new
<1>9. /\ x \in Spaces /\ x.largest_rx_pkt_num = u.largest_rx_pkt_num
      /\ x.recv_pkt_num = u.recv_pkt_num /\ x.gen = u.gen /\ x.key_update = u.key_update
  <2>1. x.recv_pkt_need_ack \in RangeSets
    BY <1>8 DEF AcksAre, Fit
  <2> QED
    BY <1>7, <1>8, <2>1 DEF Spaces
<1>10. /\ WindowIs(x, received) /\ x.largest_rx_pkt_num \in Nat /\ x.recv_pkt_num \in Windows
       /\ x.recv_pkt_num.lower \in Nat /\ ~contains(x.recv_pkt_num, n)
  BY <1>1, <1>3, <1>4, <1>9 DEF UpdatedIs, WindowIs, Spaces, Windows
<1>11. y = [x EXCEPT !.recv_pkt_num = InsertPn(x.recv_pkt_num, n),
                     !.recv_pkt_need_ack = push_item(x.recv_pkt_need_ack, n),
                     !.ack_elicited = x.ack_elicited \/ e,
                     !.largest_rx_pkt_num = Max({x.largest_rx_pkt_num, n})]
  BY DEF Received
<1> HIDE DEF y
<1>12. /\ y.recv_pkt_num = InsertPn(x.recv_pkt_num, n)
       /\ y.recv_pkt_need_ack = push_item(x.recv_pkt_need_ack, n)
       /\ y.largest_rx_pkt_num = Max({x.largest_rx_pkt_num, n})
       /\ y.gen = x.gen /\ y.key_update = x.key_update
  BY <1>9, <1>11 DEF Spaces
<1>13. /\ WindowIs(y, received \cup {n})
       /\ y.largest_rx_pkt_num \in Nat /\ y.recv_pkt_num \in Windows
       /\ n \notin received /\ n >= x.recv_pkt_num.lower
       /\ x.recv_pkt_num.lower <= y.recv_pkt_num.lower
  BY <1>2, <1>3, <1>10, <1>12, WindowKept
<1>14. y.recv_pkt_num.lower \in Nat /\ new \in Int
  BY <1>8, <1>13 DEF Windows, None
<1>15. AcksAre(y, received \cup {n}, new)
  BY <1>2, <1>3, <1>8, <1>10, <1>12, <1>13, <1>14, AcksKept
<1>16. y \in Spaces
  <2>1. y.recv_pkt_need_ack \in RangeSets
    BY <1>15 DEF AcksAre, Fit
  <2>2. (x.ack_elicited \/ e) \in BOOLEAN
    OBVIOUS
  <2> QED
    BY <1>9, <1>11, <1>12, <1>13, <2>1, <2>2 DEF Spaces
<1> QED
  BY <1>8, <1>9, <1>12, <1>13, <1>15, <1>16 DEF y, x, u, ks, new

\* Packets change their state.
Marking(o, ks, s) ==
    [k \in DOMAIN o |-> IF k \in ks THEN [o[k] EXCEPT !.state = s] ELSE o[k]]

MarkedIs(f, o) ==
    /\ f \in Seq(OwnPackets) /\ DOMAIN f = DOMAIN o /\ Len(f) = Len(o)
    /\ \A k \in DOMAIN o : f[k].last = o[k].last /\ f[k].gen = o[k].gen

LEMMA Marked ==
    ASSUME NEW o \in Seq(OwnPackets), NEW ks, NEW s \in {"sent", "acked", "lost"}
    PROVE  MarkedIs(Marking(o, ks, s), o)
<1> DEFINE f == Marking(o, ks, s)
<1>0. f = [k \in DOMAIN o |-> IF k \in ks THEN [o[k] EXCEPT !.state = s] ELSE o[k]]
  BY DEF Marking
<1> HIDE DEF f
<1>1. /\ Len(o) \in Nat /\ DOMAIN o = 1 .. Len(o) /\ \A k \in 1 .. Len(o) : o[k] \in OwnPackets
  OBVIOUS
<1>2. ASSUME NEW k \in 1 .. Len(o)
      PROVE  f[k] \in OwnPackets /\ f[k].last = o[k].last /\ f[k].gen = o[k].gen
  BY <1>0, <1>1 DEF OwnPackets
<1>3. f = [k \in 1 .. Len(o) |-> f[k]] /\ DOMAIN f = DOMAIN o
  BY <1>0, <1>1
<1>4. f \in Seq(OwnPackets) /\ Len(f) = Len(o)
  <2> DEFINE c == Len(o)
  <2>1. c \in Nat /\ DOMAIN f = 1 .. c /\ \A k \in 1 .. c : f[k] \in OwnPackets
    BY <1>1, <1>2, <1>3
  <2> HIDE DEF c
  <2>2. f = [k \in 1 .. c |-> f[k]]
    BY <1>3 DEF c
  <2>3. f \in [1 .. c -> OwnPackets]
    BY <2>1, <2>2
  <2>4. f \in Seq(OwnPackets)
    BY <2>1, <2>3
  <2>5. Len(f) = c
    BY <2>1, <2>4
  <2> QED
    BY <2>4, <2>5 DEF c
<1> QED
  BY <1>1, <1>2, <1>3, <1>4 DEF MarkedIs, f

LEMMA RecvStep ==
    ASSUME PktInv, NEW n \in Pns, NEW e \in BOOLEAN, Recv(n, e)
    PROVE  PktInv'
<1>1. Accepts(n) /\ ~closed /\ pkts' = pkts /\ peer' = peer
  BY DEF Recv
<1>2. /\ n \in Nat /\ n + 1 \in DOMAIN pkts /\ OpenKey(n) = pkts[n + 1].gen
      /\ OpenKey(n) \in {space.gen - 1, space.gen, space.gen + 1}
      /\ ~(OpenKey(n) = space.gen + 1 /\ \E u \in space.key_update : ~u.update_acked)
  BY <1>1, AcceptedIs
<1> DEFINE ks == AckedAcks(n)
           u == UpdateKeys(n, space)
<1>3. /\ space' = Received(Acknowledge(u, ks), n, e)
      /\ own' = [k \in DOMAIN own |-> IF k \in ks THEN [own[k] EXCEPT !.state = "acked"]
                                      ELSE own[k]]
      /\ received' = received \cup {n}
      /\ removed' = Max({removed} \cup {own[k].last : k \in ks})
      /\ ~closed'
  BY <1>2 DEF Recv
<1>4. /\ space' \in Spaces /\ removed' \in Nat \cup {None}
      /\ WindowIs(space', received') /\ AcksAre(space', received', removed')
      /\ space'.gen = u.gen /\ space'.key_update = u.key_update
  BY <1>1, <1>3, ReceivedIs
<1> HIDE DEF ks
<1>5. Typed /\ (\A m \in received : m + 1 \in DOMAIN pkts) /\ OwnIs /\ KeysAre
  BY DEF PktInv
<1>6. /\ own' \in Seq(OwnPackets) /\ DOMAIN own' = DOMAIN own
      /\ \A k \in DOMAIN own : own'[k].last = own[k].last /\ own'[k].gen = own[k].gen
  <2>1. own \in Seq(OwnPackets) /\ "acked" \in {"sent", "acked", "lost"}
    BY <1>5 DEF Typed
  <2>2. own' = Marking(own, ks, "acked")
    BY <1>3 DEF Marking
  <2>3. MarkedIs(Marking(own, ks, "acked"), own)
    BY <2>1, Marked, Zenon
  <2> QED
    BY <2>2, <2>3 DEF MarkedIs
<1>7. UpdatedIs(u, n)
  BY <1>2, <1>5, UpdateKeysIs DEF Typed
<1> HIDE DEF u
<1>8. Typed'
  BY <1>1, <1>2, <1>3, <1>4, <1>5, <1>6 DEF Typed
<1>9. \A m \in received' : m + 1 \in DOMAIN pkts'
  BY <1>1, <1>2, <1>3, <1>5
<1>10. /\ space.gen \in Nat /\ space'.gen \in Nat /\ peer.gen \in Nat
       /\ \A k \in DOMAIN own : own[k].gen \in Nat
       /\ space.gen <= space'.gen /\ space'.gen <= space.gen + 1
       /\ OpenKey(n) <= space'.gen
       /\ space'.gen # space.gen => OpenKey(n) = space'.gen
  <2>1. space.gen \in Nat /\ peer.gen \in Nat /\ \A k \in DOMAIN own : own[k].gen \in Nat
    BY <1>5, TypedIs
  <2>2. \/ OpenKey(n) = space.gen + 1 /\ u.gen = space.gen + 1
        \/ OpenKey(n) # space.gen + 1 /\ u.gen = space.gen
    BY <1>7 DEF UpdatedIs
  <2> QED
    BY <1>2, <1>4, <2>1, <2>2
<1>11. OwnIs'
  <2>1. ASSUME NEW k \in DOMAIN own'
        PROVE  /\ own'[k].last \in received'
               /\ pkts'[own'[k].last + 1].gen <= own'[k].gen
               /\ own'[k].gen <= space'.gen
    <3>1. own[k].last \in received /\ pkts[own[k].last + 1].gen <= own[k].gen
          /\ own[k].gen <= space.gen
      BY <1>5, <1>6 DEF OwnIs
    <3>2. own[k].gen <= space'.gen
      BY <1>6, <1>10, <3>1
    <3> QED
      BY <1>1, <1>3, <1>6, <3>1, <3>2
  <2>2. peer'.seen \subseteq DOMAIN own' /\ \A i \in DOMAIN pkts' : pkts'[i].acks \subseteq DOMAIN own'
    BY <1>1, <1>5, <1>6 DEF OwnIs
  <2> QED
    BY <2>1, <2>2 DEF OwnIs
<1>12. KeysAre'
  <2>0. \A i \in DOMAIN pkts : pkts[i].gen \in Nat
    BY <1>5, TypedIs
  <2>1. /\ \A i, j \in DOMAIN pkts' : i <= j => pkts'[i].gen <= pkts'[j].gen
        /\ \A i \in DOMAIN pkts' : pkts'[i].gen <= peer'.gen
    BY <1>1, <1>5 DEF KeysAre
  <2>2. \A m \in received' : pkts'[m + 1].gen <= space'.gen
    <3>1. \A m \in received : pkts[m + 1].gen \in Nat /\ pkts[m + 1].gen <= space.gen
      BY <1>5, <2>0 DEF KeysAre
    <3>2. \A m \in received : pkts[m + 1].gen <= space'.gen
      BY <1>10, <3>1
    <3> QED
      BY <1>1, <1>2, <1>3, <1>10, <3>2
  <2>3. space'.gen <= peer'.gen /\ peer'.gen <= space'.gen + 1
    <3>1. pkts[n + 1].gen <= peer.gen /\ space.gen <= peer.gen /\ peer.gen <= space.gen + 1
      BY <1>2, <1>5 DEF KeysAre
    <3> QED
      BY <1>1, <1>2, <1>10, <3>1
  <2>4. /\ peer'.largest_acked # None => \E k \in peer'.seen : own'[k].last = peer'.largest_acked
        /\ peer'.gen > 0 => /\ peer'.largest_acked # None
                            /\ peer'.gen <= pkts'[peer'.largest_acked + 1].gen + 1
    <3>1. peer.seen \subseteq DOMAIN own
      BY <1>5 DEF OwnIs
    <3> QED
      BY <1>1, <1>5, <1>6, <3>1 DEF KeysAre
  <2>5. ASSUME NEW v \in space'.key_update
        PROVE  /\ v.pn_on_update \in received'
               /\ pkts'[v.pn_on_update + 1].gen = space'.gen
               /\ ~v.update_acked => \A k \in DOMAIN own' : own'[k].gen < space'.gen
    <3>1. CASE OpenKey(n) = space.gen + 1
      <4>1. v.pn_on_update = n /\ u.gen = space.gen + 1
        BY <1>4, <1>7, <3>1, <2>5 DEF UpdatedIs
      <4>2. \A k \in DOMAIN own : own[k].gen <= space.gen
        BY <1>5 DEF OwnIs
      <4>3. \A k \in DOMAIN own : own[k].gen < space'.gen
        BY <1>4, <1>10, <4>1, <4>2
      <4> QED
        BY <1>1, <1>2, <1>3, <1>4, <1>6, <3>1, <4>1, <4>3
    <3>2. CASE OpenKey(n) # space.gen + 1
      <4>1. v \in space.key_update /\ u.gen = space.gen
        BY <1>4, <1>7, <3>2, <2>5 DEF UpdatedIs
      <4> QED
        BY <1>1, <1>3, <1>4, <1>5, <1>6, <4>1 DEF KeysAre
    <3> QED
      BY <3>1, <3>2
  <2> QED
    BY <2>1, <2>2, <2>3, <2>4, <2>5 DEF KeysAre
<1> QED
  BY <1>3, <1>4, <1>8, <1>9, <1>11, <1>12 DEF PktInv

\* The largest packet of an ACK frame was processed.
LEMMA LastReceived ==
    ASSUME NEW x, NEW rcvd, NEW rmvd, AcksAre(x, rcvd, rmvd), x.recv_pkt_need_ack.inner # <<>>
    PROVE  last(x.recv_pkt_need_ack) \in rcvd /\ last(x.recv_pkt_need_ack) \in Nat
<1> DEFINE m == x.recv_pkt_need_ack.inner
           c == Len(m)
<1>1. Gapped(m) /\ \A z \in Nat : Has(m, z) => z \in rcvd
  BY DEF AcksAre, Fit
<1>2. last(x.recv_pkt_need_ack) = m[c][2] - 1 /\ m # <<>>
  BY DEF last
<1> HIDE DEF m
<1>3. /\ m \in Seq(Nat \X Nat) /\ c \in Nat /\ DOMAIN m = 1 .. c
      /\ \A i \in 1 .. c : m[i][1] \in Nat /\ m[i][2] \in Nat /\ m[i][1] < m[i][2]
  BY <1>1, GappedIs
<1>4. c # 0
  BY <1>2, <1>3
<1> HIDE DEF c
<1>5. c \in 1 .. c
  BY <1>3, <1>4
<1>6. m[c][1] \in Nat /\ m[c][2] \in Nat /\ m[c][1] < m[c][2]
  BY <1>3, <1>5
<1> DEFINE z == m[c][2] - 1
<1>7. z \in Nat /\ In(z, m[c])
  BY <1>6 DEF In
<1>8. Has(m, z)
  BY <1>3, <1>5, <1>7 DEF Has
<1> QED
  BY <1>1, <1>2, <1>7, <1>8

LEMMA Extended ==
    ASSUME NEW o \in Seq(OwnPackets), NEW r \in OwnPackets
    PROVE  LET f == Append(o, r)
           IN  /\ f \in Seq(OwnPackets) /\ DOMAIN f = 1 .. Len(o) + 1 /\ DOMAIN o = 1 .. Len(o)
               /\ \A k \in DOMAIN o : f[k] = o[k]
               /\ f[Len(o) + 1] = r
  OBVIOUS

LEMMA SendStep ==
    ASSUME PktInv, NEW lost \in SUBSET DOMAIN own, NEW required \in BOOLEAN, NEW room \in BOOLEAN,
           Send(lost, required, room)
    PROVE  PktInv'
<1> DEFINE elicited == space.ack_elicited \/ lost # {}
           ack == room /\ space.recv_pkt_need_ack.inner # <<>> /\ (elicited \/ required)
           marked == Marking(own, lost, "lost")
           sent == [last |-> last(space.recv_pkt_need_ack), gen |-> space.gen, state |-> "sent"]
<1>1. /\ own' = IF ack THEN Append(marked, sent) ELSE marked
      /\ space' = [space EXCEPT
                     !.ack_elicited = elicited /\ ~ack,
                     !.key_update = {[u EXCEPT !.update_acked = TRUE] : u \in space.key_update}]
      /\ pkts' = pkts /\ peer' = peer /\ received' = received /\ removed' = removed
      /\ closed' = closed
  BY DEF Send, Marking
<1>2. /\ Typed /\ (\A m \in received : m + 1 \in DOMAIN pkts) /\ OwnIs /\ KeysAre /\ ~closed
      /\ WindowIs(space, received) /\ AcksAre(space, received, removed)
  BY DEF PktInv
<1>3. space \in Spaces /\ own \in Seq(OwnPackets)
      /\ Len(own) \in Nat /\ DOMAIN own = 1 .. Len(own) /\ space.gen \in Nat
  BY <1>2, TypedIs DEF Typed
<1>4. MarkedIs(marked, own)
  <2>1. "lost" \in {"sent", "acked", "lost"}
    OBVIOUS
  <2> QED
    BY <1>3, <2>1, Marked, Zenon
<1>5. ack => sent.last \in received /\ sent.gen = space.gen /\ sent \in OwnPackets
  BY <1>2, <1>3, LastReceived DEF OwnPackets
<1> HIDE DEF marked, sent
<1>6. /\ own' \in Seq(OwnPackets) /\ DOMAIN own \subseteq DOMAIN own'
      /\ \A k \in DOMAIN own : own'[k].last = own[k].last /\ own'[k].gen = own[k].gen
      /\ \A k \in DOMAIN own' : k \notin DOMAIN own =>
            own'[k].last \in received /\ own'[k].gen = space.gen
  <2>1. CASE ack
    <3>1. marked \in Seq(OwnPackets) /\ Len(marked) = Len(own) /\ DOMAIN marked = DOMAIN own
      BY <1>4 DEF MarkedIs
    <3> DEFINE f == Append(marked, sent)
    <3>2. own' = f
      BY <1>1, <2>1
    <3>3. /\ f \in Seq(OwnPackets) /\ DOMAIN f = 1 .. Len(own) + 1
          /\ \A k \in DOMAIN own : f[k] = marked[k]
          /\ f[Len(own) + 1] = sent
      <4>1. /\ f \in Seq(OwnPackets) /\ DOMAIN f = 1 .. Len(marked) + 1
            /\ \A k \in DOMAIN marked : f[k] = marked[k]
            /\ f[Len(marked) + 1] = sent
        BY <1>5, <2>1, <3>1, Extended
      <4> HIDE DEF f
      <4> QED
        BY <3>1, <4>1
    <3> HIDE DEF f, ack
    <3>4. \A k \in DOMAIN f : k \notin DOMAIN own => k = Len(own) + 1
      BY <1>3, <3>3
    <3>5. DOMAIN own \subseteq DOMAIN f
      BY <1>3, <3>3
    <3>6. \A k \in DOMAIN own : f[k].last = own[k].last /\ f[k].gen = own[k].gen
      BY <1>4, <3>3 DEF MarkedIs
    <3>7. \A k \in DOMAIN f : k \notin DOMAIN own => f[k].last \in received /\ f[k].gen = space.gen
      BY <1>5, <2>1, <3>3, <3>4
    <3> QED
      BY <3>2, <3>3, <3>5, <3>6, <3>7
  <2>2. CASE ~ack
    <3>1. own' = marked
      BY <1>1, <2>2
    <3> QED
      BY <1>4, <3>1 DEF MarkedIs
  <2> QED
    BY <2>1, <2>2
<1> DEFINE keys == {[u EXCEPT !.update_acked = TRUE] : u \in space.key_update}
           flag == elicited /\ ~ack
<1>7. /\ keys \in SUBSET Updates
      /\ \A v \in keys : v.update_acked /\ \E u \in space.key_update : v.pn_on_update = u.pn_on_update
  <2>1. space.key_update \in SUBSET Updates
    BY <1>3 DEF Spaces
  <2>2. ASSUME NEW u \in space.key_update
        PROVE  LET v == [u EXCEPT !.update_acked = TRUE]
               IN  v \in Updates /\ v.update_acked /\ v.pn_on_update = u.pn_on_update
    BY <2>1 DEF Updates
  <2> QED
    BY <2>2
<1>8. flag \in BOOLEAN /\ space' = [space EXCEPT !.ack_elicited = flag, !.key_update = keys]
  BY <1>1
<1> HIDE DEF flag, keys, ack, elicited
<1>9. /\ space' \in Spaces /\ space'.key_update = keys /\ space'.gen = space.gen
      /\ space'.recv_pkt_need_ack = space.recv_pkt_need_ack
      /\ space'.recv_pkt_num = space.recv_pkt_num
      /\ space'.largest_rx_pkt_num = space.largest_rx_pkt_num
  BY <1>3, <1>7, <1>8 DEF Spaces
<1>10. Typed'
  BY <1>1, <1>2, <1>6, <1>9 DEF Typed
<1>11. WindowIs(space', received')
  BY <1>1, <1>2, <1>9 DEF WindowIs
<1>12. AcksAre(space', received', removed')
  BY <1>1, <1>2, <1>9 DEF AcksAre
<1>13. OwnIs'
  <2>1. ASSUME NEW k \in DOMAIN own'
        PROVE  /\ own'[k].last \in received
               /\ pkts[own'[k].last + 1].gen <= own'[k].gen
               /\ own'[k].gen <= space.gen
    <3>1. CASE k \in DOMAIN own
      BY <1>2, <1>6, <3>1 DEF OwnIs
    <3>2. CASE k \notin DOMAIN own
      <4>1. own'[k].last \in received /\ own'[k].gen = space.gen
        BY <1>6, <3>2
      <4>2. pkts[own'[k].last + 1].gen <= space.gen
        BY <1>2, <4>1 DEF KeysAre
      <4> QED
        BY <1>3, <4>1, <4>2
    <3> QED
      BY <3>1, <3>2
  <2>2. peer.seen \subseteq DOMAIN own' /\ \A i \in DOMAIN pkts : pkts[i].acks \subseteq DOMAIN own'
    BY <1>2, <1>6 DEF OwnIs
  <2> QED
    BY <1>1, <1>9, <2>1, <2>2 DEF OwnIs
<1>14. KeysAre'
  <2>1. peer.largest_acked # None => \E k \in peer.seen : own'[k].last = peer.largest_acked
    <3>1. peer.seen \subseteq DOMAIN own
      BY <1>2 DEF OwnIs
    <3> QED
      BY <1>2, <1>6, <3>1 DEF KeysAre
  <2>2. \A v \in keys : /\ v.pn_on_update \in received
                        /\ pkts[v.pn_on_update + 1].gen = space.gen
                        /\ v.update_acked
    BY <1>2, <1>7 DEF KeysAre
  <2> QED
    BY <1>1, <1>2, <1>9, <2>1, <2>2 DEF KeysAre
<1> QED
  BY <1>1, <1>2, <1>10, <1>11, <1>12, <1>13, <1>14 DEF PktInv

LEMMA TimeoutStep ==
    ASSUME PktInv, KeyUpdateTimeout
    PROVE  PktInv'
<1>1. /\ space' = [space EXCEPT !.key_update = {}]
      /\ pkts' = pkts /\ peer' = peer /\ received' = received /\ removed' = removed
      /\ closed' = closed /\ own' = own
  BY DEF KeyUpdateTimeout
<1>2. space \in Spaces
  BY DEF PktInv, Typed
<1>3. /\ space' \in Spaces /\ space'.key_update = {} /\ space'.gen = space.gen
      /\ space'.recv_pkt_need_ack = space.recv_pkt_need_ack
      /\ space'.recv_pkt_num = space.recv_pkt_num
      /\ space'.largest_rx_pkt_num = space.largest_rx_pkt_num
  BY <1>1, <1>2 DEF Spaces
<1>4. WindowIs(space', received') /\ AcksAre(space', received', removed')
  BY <1>1, <1>3 DEF PktInv, WindowIs, AcksAre
<1>5. Typed' /\ OwnIs' /\ KeysAre'
  BY <1>1, <1>3 DEF PktInv, Typed, OwnIs, KeysAre
<1> QED
  BY <1>1, <1>4, <1>5 DEF PktInv

LEMMA PeerSendStep ==
    ASSUME PktInv, PeerSend
    PROVE  PktInv'
<1> DEFINE len == pkt_num_len(Len(pkts), Max({peer.largest_acked, 0}))
           r == [gen |-> peer.gen, acks |-> peer.seen, len |-> len]
           c == Len(pkts)
<1>1. /\ pkts' = Append(pkts, r)
      /\ space' = space /\ peer' = peer /\ received' = received /\ removed' = removed
      /\ closed' = closed /\ own' = own
  BY DEF PeerSend
<1>2. /\ Typed /\ (\A m \in received : m + 1 \in DOMAIN pkts) /\ OwnIs /\ KeysAre /\ ~closed
      /\ WindowIs(space, received) /\ AcksAre(space, received, removed)
  BY DEF PktInv
<1>3. /\ c \in Nat /\ DOMAIN pkts = 1 .. c /\ pkts \in Seq(Packets)
      /\ peer.gen \in Nat /\ peer.seen \in SUBSET Nat /\ peer.largest_acked \in Nat \cup {None}
  BY <1>2, TypedIs DEF Typed
<1>4. len \in Nat \ {0}
  <2>1. Max({peer.largest_acked, 0}) \in Nat
    <3> DEFINE la == peer.largest_acked
    <3>1. la \in Int /\ 0 \in Int /\ (la >= 0 => la \in Nat)
      BY <1>3 DEF None
    <3> HIDE DEF la
    <3>2. Max({la, 0}) = IF la >= 0 THEN la ELSE 0
      BY <3>1, OfTwo
    <3>3. Max({la, 0}) \in Nat
      BY <3>1, <3>2
    <3> QED
      BY <3>3 DEF la
  <2> QED
    BY <1>3, <2>1, LengthIs
<1> HIDE DEF len
<1>5. r \in Packets
  BY <1>3, <1>4 DEF Packets
<1>6. r.gen = peer.gen /\ r.acks = peer.seen
  OBVIOUS
<1> HIDE DEF r
<1>7. /\ pkts' \in Seq(Packets) /\ DOMAIN pkts' = 1 .. c + 1
      /\ \A i \in 1 .. c : pkts'[i] = pkts[i]
      /\ pkts'[c + 1] = r
  BY <1>1, <1>3, <1>5
<1> HIDE DEF c
<1>8. DOMAIN pkts \subseteq DOMAIN pkts' /\ \A m \in received : pkts'[m + 1] = pkts[m + 1]
  BY <1>2, <1>3, <1>7
<1>9. \A i \in DOMAIN pkts' :
         (i \in DOMAIN pkts /\ pkts'[i] = pkts[i]) \/ (i = c + 1 /\ pkts'[i] = r)
  <2> SUFFICES ASSUME NEW i \in DOMAIN pkts'
               PROVE  (i \in DOMAIN pkts /\ pkts'[i] = pkts[i]) \/ (i = c + 1 /\ pkts'[i] = r)
    OBVIOUS
  <2>1. i \in 1 .. c \/ i = c + 1
    BY <1>3, <1>7
  <2> QED
    BY <1>3, <1>7, <2>1
<1>10. Typed'
  BY <1>1, <1>2, <1>7 DEF Typed
<1>11. OwnIs'
  <2>1. \A i \in DOMAIN pkts' : pkts'[i].acks \subseteq DOMAIN own
    BY <1>2, <1>6, <1>9 DEF OwnIs
  <2>2. \A k \in DOMAIN own : pkts'[own[k].last + 1] = pkts[own[k].last + 1]
    BY <1>2, <1>8 DEF OwnIs
  <2> QED
    BY <1>1, <1>2, <2>1, <2>2 DEF OwnIs
<1>12. KeysAre'
  <2>1. \A i \in DOMAIN pkts' : pkts'[i].gen <= peer.gen
    BY <1>2, <1>3, <1>6, <1>9 DEF KeysAre
  <2>2. ASSUME NEW i \in DOMAIN pkts', NEW j \in DOMAIN pkts', i <= j
        PROVE  pkts'[i].gen <= pkts'[j].gen
    <3>1. CASE j = c + 1
      BY <1>6, <1>7, <2>1, <3>1
    <3>2. CASE j # c + 1
      <4>1. i \in DOMAIN pkts /\ j \in DOMAIN pkts
        BY <1>3, <1>7, <2>2, <3>2
      <4>2. pkts'[i] = pkts[i] /\ pkts'[j] = pkts[j]
        BY <1>3, <1>7, <4>1
      <4> QED
        BY <1>2, <2>2, <4>1, <4>2 DEF KeysAre
    <3> QED
      BY <3>1, <3>2
  <2>3. \A m \in received : pkts'[m + 1].gen <= space.gen
    BY <1>2, <1>8 DEF KeysAre
  <2>4. peer.largest_acked # None => peer.largest_acked \in received
    BY <1>2 DEF KeysAre, OwnIs
  <2>5. peer.gen > 0 => /\ peer.largest_acked # None
                        /\ peer.gen <= pkts'[peer.largest_acked + 1].gen + 1
    BY <1>2, <1>8, <2>4 DEF KeysAre
  <2>6. \A v \in space.key_update : /\ v.pn_on_update \in received
                                    /\ pkts'[v.pn_on_update + 1].gen = space.gen
    BY <1>2, <1>8 DEF KeysAre
  <2> QED
    BY <1>1, <1>2, <2>1, <2>2, <2>3, <2>5, <2>6 DEF KeysAre
<1>13. \A m \in received' : m + 1 \in DOMAIN pkts'
  BY <1>1, <1>2, <1>8
<1>14. WindowIs(space', received') /\ AcksAre(space', received', removed')
  BY <1>1, <1>2
<1> QED
  BY <1>1, <1>2, <1>10, <1>11, <1>12, <1>13, <1>14 DEF PktInv

LEMMA PeerReceiveStep ==
    ASSUME PktInv, NEW k \in DOMAIN own, PeerReceive(k)
    PROVE  PktInv'
<1> DEFINE la == peer.largest_acked
           new == Max({la, own[k].last})
<1>1. /\ peer' = [peer EXCEPT !.seen = @ \cup {k}, !.largest_acked = new]
      /\ space' = space /\ pkts' = pkts /\ received' = received /\ removed' = removed
      /\ closed' = closed /\ own' = own
  BY DEF PeerReceive
<1>2. /\ Typed /\ (\A m \in received : m + 1 \in DOMAIN pkts) /\ OwnIs /\ KeysAre /\ ~closed
      /\ WindowIs(space, received) /\ AcksAre(space, received, removed)
  BY DEF PktInv
<1>3. /\ peer \in Peers /\ peer.gen \in Nat /\ peer.seen \in SUBSET Nat
      /\ la \in Nat \cup {None} /\ own[k].last \in Nat /\ k \in Nat
      /\ DOMAIN pkts = 1 .. Len(pkts) /\ Len(pkts) \in Nat
      /\ \A i \in DOMAIN pkts : pkts[i].gen \in Nat
  BY <1>2, TypedIs DEF Typed
<1> DEFINE l == own[k].last
<1>4. new = (IF la >= l THEN la ELSE l) /\ new \in Nat
  <2>1. la \in Int /\ l \in Int /\ l \in Nat
    BY <1>3 DEF None
  <2>2. la >= l => la \in Nat
    BY <1>3, <2>1 DEF None
  <2> HIDE DEF la, l
  <2>3. Max({la, l}) = IF la >= l THEN la ELSE l
    BY <2>1, OfTwo
  <2>4. (IF la >= l THEN la ELSE l) \in Nat
    BY <2>1, <2>2
  <2> QED
    BY <2>3, <2>4 DEF l
<1> HIDE DEF new
<1>5. /\ peer' \in Peers /\ peer'.gen = peer.gen /\ peer'.seen = peer.seen \cup {k}
      /\ peer'.largest_acked = new
  BY <1>1, <1>3, <1>4 DEF Peers
<1>6. Typed'
  BY <1>1, <1>2, <1>5 DEF Typed
<1>7. OwnIs'
  BY <1>1, <1>2, <1>5 DEF OwnIs
<1>8. \E j \in peer'.seen : own[j].last = new
  <2>1. CASE new = l
    BY <1>5, <2>1
  <2>2. CASE new # l
    <3>1. new = la
      BY <1>4, <2>2
    <3>2. la # None
      BY <1>4, <3>1 DEF None
    <3>3. PICK j \in peer.seen : own[j].last = la
      BY <1>2, <3>2 DEF KeysAre
    <3> QED
      BY <1>5, <3>1, <3>3
  <2> QED
    BY <2>1, <2>2
<1>9. peer.gen > 0 => new # None /\ peer.gen <= pkts[new + 1].gen + 1
  <2> SUFFICES ASSUME peer.gen > 0 PROVE new # None /\ peer.gen <= pkts[new + 1].gen + 1
    OBVIOUS
  <2>1. la # None /\ peer.gen <= pkts[la + 1].gen + 1
    BY <1>2 DEF KeysAre
  <2>2. la \in Nat /\ new \in Nat /\ la <= new
    BY <1>3, <1>4, <2>1
  <2>3. la \in received /\ l \in received
    BY <1>2, <2>1 DEF KeysAre, OwnIs
  <2>4. new \in received
    BY <1>4, <2>3
  <2>5. la + 1 \in DOMAIN pkts /\ new + 1 \in DOMAIN pkts /\ la + 1 <= new + 1
    BY <1>2, <2>2, <2>3, <2>4
  <2>6. pkts[la + 1].gen <= pkts[new + 1].gen
    BY <1>2, <2>5 DEF KeysAre
  <2>7. new # None
    BY <2>2 DEF None
  <2>8. pkts[la + 1].gen \in Nat /\ pkts[new + 1].gen \in Nat
    BY <1>3, <2>5
  <2> DEFINE a == pkts[la + 1].gen
             b == pkts[new + 1].gen
             g == peer.gen
  <2>9. a \in Nat /\ b \in Nat /\ g \in Nat /\ a <= b /\ g <= a + 1
    BY <1>3, <2>1, <2>6, <2>8
  <2> HIDE DEF a, b, g
  <2>10. g <= b + 1
    BY <2>9
  <2> QED
    BY <2>7, <2>10 DEF b, g
<1>10. KeysAre'
  BY <1>1, <1>2, <1>5, <1>8, <1>9 DEF KeysAre
<1>11. WindowIs(space', received') /\ AcksAre(space', received', removed')
       /\ \A m \in received' : m + 1 \in DOMAIN pkts'
  BY <1>1, <1>2
<1> QED
  BY <1>1, <1>2, <1>6, <1>7, <1>10, <1>11 DEF PktInv

\* The peer updates its keys when the endpoint has followed the last update.
LEMMA PeerUpdateStep ==
    ASSUME PktInv, PeerUpdate
    PROVE  PktInv'
<1> DEFINE la == peer.largest_acked
<1>1. /\ peer' = [peer EXCEPT !.gen = @ + 1]
      /\ la # None /\ pkts[la + 1].gen = peer.gen
      /\ space' = space /\ pkts' = pkts /\ received' = received /\ removed' = removed
      /\ closed' = closed /\ own' = own
  BY DEF PeerUpdate
<1>2. /\ Typed /\ (\A m \in received : m + 1 \in DOMAIN pkts) /\ OwnIs /\ KeysAre /\ ~closed
      /\ WindowIs(space, received) /\ AcksAre(space, received, removed)
  BY DEF PktInv
<1>3. /\ peer \in Peers /\ peer.gen \in Nat /\ space.gen \in Nat
      /\ \A i \in DOMAIN pkts : pkts[i].gen \in Nat
  BY <1>2, TypedIs DEF Typed
<1>4. /\ peer' \in Peers /\ peer'.gen = peer.gen + 1 /\ peer'.seen = peer.seen
      /\ peer'.largest_acked = la
  BY <1>1, <1>3 DEF Peers
<1>5. space.gen = peer.gen
  <2>1. la \in received
    BY <1>1, <1>2 DEF KeysAre, OwnIs
  <2>2. pkts[la + 1].gen <= space.gen
    BY <1>2, <2>1 DEF KeysAre
  <2>3. space.gen <= peer.gen
    BY <1>2 DEF KeysAre
  <2> QED
    BY <1>1, <1>3, <2>2, <2>3
<1>6. Typed' /\ OwnIs'
  BY <1>1, <1>2, <1>4 DEF Typed, OwnIs
<1>7. KeysAre'
  <2>1. \A i \in DOMAIN pkts : pkts[i].gen <= peer'.gen
    <3>1. \A i \in DOMAIN pkts : pkts[i].gen <= peer.gen
      BY <1>2 DEF KeysAre
    <3> QED
      BY <1>3, <1>4, <3>1
  <2>2. space.gen <= peer'.gen /\ peer'.gen <= space.gen + 1
    BY <1>3, <1>4, <1>5
  <2>3. peer'.gen <= pkts[la + 1].gen + 1
    BY <1>1, <1>3, <1>4
  <2> HIDE DEF la
  <2>4. peer'.largest_acked # None /\ peer'.gen <= pkts[peer'.largest_acked + 1].gen + 1
    BY <1>1, <1>4, <2>3
  <2>5. \E k \in peer'.seen : own[k].last = peer'.largest_acked
    BY <1>1, <1>2, <1>4 DEF KeysAre, la
  <2> QED
    BY <1>1, <1>2, <2>1, <2>2, <2>4, <2>5 DEF KeysAre
<1>8. WindowIs(space', received') /\ AcksAre(space', received', removed')
      /\ \A m \in received' : m + 1 \in DOMAIN pkts'
  BY <1>1, <1>2
<1> QED
  BY <1>1, <1>2, <1>6, <1>7, <1>8 DEF PktInv

\* The invariant holds in every reachable state.
THEOREM PktInvariant == Spec => []PktInv
<1>1. Init => PktInv
  BY PktInit
<1>2. PktInv /\ [Next]_vars => PktInv'
  <2> SUFFICES ASSUME PktInv, [Next]_vars PROVE PktInv'
    OBVIOUS
  <2>1. ASSUME NEW n \in Pns, NEW e \in BOOLEAN, Recv(n, e) PROVE PktInv'
    BY <2>1, RecvStep
  <2>2. ASSUME NEW lost \in SUBSET DOMAIN own, NEW required \in BOOLEAN, NEW room \in BOOLEAN,
               Send(lost, required, room)
        PROVE  PktInv'
    BY <2>2, SendStep
  <2>3. CASE KeyUpdateTimeout
    BY <2>3, TimeoutStep
  <2>4. CASE PeerSend
    BY <2>4, PeerSendStep
  <2>5. ASSUME NEW k \in DOMAIN own, PeerReceive(k) PROVE PktInv'
    BY <2>5, PeerReceiveStep
  <2>6. CASE PeerUpdate
    BY <2>6, PeerUpdateStep
  <2>7. CASE UNCHANGED vars
    BY <2>7 DEF vars, PktInv, Typed, WindowIs, AcksAre, OwnIs, KeysAre
  <2> QED
    BY <2>1, <2>2, <2>3, <2>4, <2>5, <2>6, <2>7 DEF Next
<1> QED
  BY <1>1, <1>2, PTL DEF Spec

\* KeysFollow: the peer is never refused, and is at most one update ahead.
THEOREM KeysFollowHolds == Spec => []KeysFollow
<1>1. PktInv => KeysFollow
  <2> SUFFICES ASSUME PktInv PROVE KeysFollow
    OBVIOUS
  <2>1. peer.gen \in Nat /\ space.gen \in Nat
    BY TypedIs DEF PktInv
  <2>2. space.gen <= peer.gen /\ peer.gen <= space.gen + 1 /\ ~closed
    BY DEF PktInv, KeysAre
  <2>3. space.gen \in {peer.gen - 1, peer.gen}
    BY <2>1, <2>2
  <2>4. \A k \in DOMAIN own : /\ pkts[own[k].last + 1].gen <= own[k].gen
                              /\ own[k].last \in received
    BY DEF PktInv, OwnIs
  <2> QED
    BY <2>2, <2>3, <2>4 DEF KeysFollow
<1> QED
  BY <1>1, PktInvariant, PTL

-----------------------------------------------------------------------------
(* What is accepted.                                                          *)

\* The key is found if it is still kept: packets from before the last update have smaller
\* numbers than it, later ones larger numbers, and the peer is not two updates ahead.
LEMMA KeyIs ==
    ASSUME PktInv, NEW n \in Pns, DecodedPn(n) = n
    PROVE  OpenKey(n) = pkts[n + 1].gen
              <=> pkts[n + 1].gen >= space.gen - (IF space.key_update = {} THEN 0 ELSE 1)
<1> DEFINE g == pkts[n + 1].gen
           h == space.gen
           k == OpenKey(n)
<1>1. /\ Len(pkts) \in Nat /\ DOMAIN pkts = 1 .. Len(pkts) /\ h \in Nat /\ peer.gen \in Nat
      /\ \A i \in DOMAIN pkts : pkts[i].gen \in Nat
  BY TypedIs DEF PktInv
<1>2. n \in Nat /\ n + 1 \in DOMAIN pkts /\ g \in Nat
  BY <1>1 DEF Pns
<1>3. g <= h + 1
  <2>1. g <= peer.gen /\ peer.gen <= h + 1
    BY <1>2 DEF PktInv, KeysAre
  <2> QED
    BY <1>1, <1>2, <2>1
<1>4. \A u \in space.key_update :
         /\ u.pn_on_update \in Nat /\ u.pn_on_update + 1 \in DOMAIN pkts
         /\ pkts[u.pn_on_update + 1].gen = h
  <2>1. \A u \in space.key_update : /\ u.pn_on_update \in received
                                    /\ pkts[u.pn_on_update + 1].gen = h
    BY DEF PktInv, KeysAre
  <2>2. received \subseteq Nat /\ \A m \in received : m + 1 \in DOMAIN pkts
    BY DEF PktInv, Typed
  <2> QED
    BY <2>1, <2>2
<1>5. \A i, j \in DOMAIN pkts : i <= j => pkts[i].gen <= pkts[j].gen
  BY DEF PktInv, KeysAre
<1>6. CASE g % 2 = h % 2
  <2>1. k = h
    BY <1>6 DEF OpenKey
  <2> HIDE DEF g, h, k
  <2>2. CASE g = h
    BY <1>1, <2>1, <2>2 DEF g, h, k
  <2>3. CASE g # h
    <3>1. g < h - 1
      BY <1>1, <1>2, <1>3, <1>6, <2>3, SMTT(30)
    <3> QED
      BY <1>1, <1>2, <2>1, <2>3, <3>1 DEF g, h, k
  <2> QED
    BY <2>2, <2>3
<1>7. CASE g % 2 # h % 2 /\ \E u \in space.key_update : n < u.pn_on_update
  <2>1. k = h - 1 /\ space.key_update # {}
    BY <1>7 DEF OpenKey
  <2>2. g <= h
    <3>1. PICK u \in space.key_update : n < u.pn_on_update
      BY <1>7
    <3>2. n + 1 <= u.pn_on_update + 1
      BY <1>2, <1>4, <3>1
    <3> QED
      BY <1>2, <1>4, <1>5, <3>2
  <2> HIDE DEF g, h, k
  <2>3. g <= h - 1
    <3>1. g # h
      BY <1>7
    <3> QED
      BY <1>1, <1>2, <2>2, <3>1
  <2>4. k = g <=> g >= h - 1
    BY <1>1, <1>2, <2>1, <2>3
  <2> QED
    BY <2>1, <2>4 DEF g, h, k
<1>8. CASE g % 2 # h % 2 /\ ~\E u \in space.key_update : n < u.pn_on_update
  <2>1. k = h + 1
    BY <1>8 DEF OpenKey
  <2>2. CASE space.key_update = {}
    <3> HIDE DEF g, h, k
    <3>1. g # h
      BY <1>8
    <3>2. k = g <=> g >= h - 0
      BY <1>1, <1>2, <1>3, <2>1, <3>1
    <3> QED
      BY <2>2, <3>2 DEF g, h, k
  <2>3. CASE space.key_update # {}
    <3>1. PICK u \in space.key_update : ~(n < u.pn_on_update)
      BY <1>8, <2>3
    <3>2. u.pn_on_update + 1 <= n + 1
      BY <1>2, <1>4, <3>1
    <3>3. g >= h
      BY <1>2, <1>4, <1>5, <3>2
    <3> HIDE DEF g, h, k
    <3>4. g # h
      BY <1>8
    <3>5. k = g /\ g >= h - 1
      BY <1>1, <1>2, <1>3, <2>1, <3>3, <3>4
    <3> QED
      BY <2>3, <3>5 DEF g, h, k
  <2> QED
    BY <2>2, <2>3
<1> QED
  BY <1>6, <1>7, <1>8

\* The window of duplicates is exact down to WINDOW below the largest packet.
LEMMA NewIs ==
    ASSUME NEW x, NEW rcvd \in SUBSET Nat, WindowIs(x, rcvd), x.largest_rx_pkt_num \in Nat,
           NEW n \in Nat
    PROVE  ~contains(x.recv_pkt_num, n)
              <=> n \notin rcvd /\ \A m \in rcvd : m < n + WINDOW
<1> DEFINE w == x.recv_pkt_num
           l == x.largest_rx_pkt_num
<1>0. WINDOW \in Nat \ {0}
  BY PktSpaceAssumption
<1>1. /\ l \in rcvd \cup {0} /\ \A m \in rcvd : m <= l
      /\ w.lower = (IF l + 1 >= WINDOW THEN l + 1 - WINDOW ELSE 0)
      /\ w.window = {m \in rcvd : m >= w.lower} /\ l \in Nat
  BY DEF WindowIs
<1>2. contains(w, n) <=> n <= w.lower + WINDOW - 1 /\ (n < w.lower \/ n \in w.window)
  BY DEF contains, upper
<1> HIDE DEF w, l
<1>3. ASSUME ~contains(w, n) PROVE n \notin rcvd /\ \A m \in rcvd : m < n + WINDOW
  BY <1>0, <1>1, <1>2, <1>3
<1>4. ASSUME n \notin rcvd, \A m \in rcvd : m < n + WINDOW PROVE ~contains(w, n)
  <2>1. l < n + WINDOW
    BY <1>0, <1>1, <1>4
  <2>2. n >= w.lower
    BY <1>0, <1>1, <2>1
  <2> QED
    BY <1>0, <1>1, <1>2, <1>4, <2>2
<1> QED
  BY <1>3, <1>4 DEF w

\* AcceptsExactly: what arrives is accepted if it is new, near, not too old and of a key
\* that is kept, and only then.
THEOREM AcceptsExactlyHolds == Spec => []AcceptsExactly
<1>1. ASSUME PktInv PROVE AcceptsExactly
  <2> SUFFICES ASSUME NEW n \in Pns
               PROVE  LET expected == Max(received \cup {0}) + 1
                          hwin == Pow2[pkts[n + 1].len * BYTE - 1]
                      IN  Accepts(n) <=>
                            /\ n \notin received
                            /\ expected < n + hwin /\ (n <= expected + hwin \/ n < 2 * hwin)
                            /\ \A m \in received : m < n + WINDOW
                            /\ pkts[n + 1].gen >=
                                  space.gen - (IF space.key_update = {} THEN 0 ELSE 1)
    BY DEF AcceptsExactly
  <2> DEFINE l == space.largest_rx_pkt_num
             g == Max(received \cup {0})
             len == pkts[n + 1].len
             hwin == Pow2[len * BYTE - 1]
             kept == pkts[n + 1].gen >= space.gen - (IF space.key_update = {} THEN 0 ELSE 1)
             new == n \notin received /\ \A m \in received : m < n + WINDOW
  <2>1. Typed /\ WindowIs(space, received) /\ received \in SUBSET Nat
    BY <1>1 DEF PktInv, Typed
  <2>2. l \in Nat /\ n \in Nat /\ n + 1 \in DOMAIN pkts /\ len \in Nat \ {0}
    <3>1. /\ l \in Nat /\ Len(pkts) \in Nat /\ DOMAIN pkts = 1 .. Len(pkts)
          /\ \A i \in DOMAIN pkts : pkts[i].len \in Nat \ {0}
      BY <2>1, TypedIs
    <3>2. n \in Nat /\ n + 1 \in DOMAIN pkts
      BY <3>1 DEF Pns
    <3> QED
      BY <3>1, <3>2
  <2>3. g = l
    <3>1. l \in received \cup {0} /\ \A m \in received \cup {0} : m <= l
      BY <2>1, <2>2 DEF WindowIs
    <3>2. received \cup {0} \subseteq Nat /\ received \cup {0} # {}
      BY <2>1
    <3>3. g \in received \cup {0} /\ \A m \in received \cup {0} : g >= m
      BY <2>2, <3>1, <3>2, MaxInSet
    <3> HIDE DEF g, l
    <3>4. g <= l /\ l <= g /\ g \in Nat
      BY <3>1, <3>2, <3>3
    <3> QED
      BY <2>2, <3>4
  <2>4. DecodedPn(n) = n <=> Near(n, l + 1, hwin)
    BY <2>2, DecodedIs DEF DecodedPn
  <2>5. ~contains(space.recv_pkt_num, n) <=> new
    BY <2>1, <2>2, NewIs
  <2>6. DecodedPn(n) = n => (OpenKey(n) = pkts[n + 1].gen <=> kept)
    BY <1>1, KeyIs
  <2> HIDE DEF new, kept, hwin, g, l
  <2>7. Accepts(n) <=> Near(n, g + 1, hwin) /\ new /\ kept
    <3>1. Accepts(n) <=> /\ DecodedPn(n) = n /\ OpenKey(n) = pkts[n + 1].gen
                         /\ ~contains(space.recv_pkt_num, n)
      BY DEF Accepts, Opens
    <3> QED
      BY <2>3, <2>4, <2>5, <2>6, <3>1
  <2> QED
    BY <2>7 DEF Near, new, kept, hwin, g
<1> QED
  BY <1>1, PktInvariant, PTL

-----------------------------------------------------------------------------
(* The ACK frame on the wire.                                                *)

LEMMA FlattenIs ==
    ASSUME NEW set, Gapped(set.inner)
    PROVE  flatten(set) \subseteq Nat /\ \A x \in Nat : x \in flatten(set) <=> Has(set.inner, x)
<1> DEFINE m == set.inner
<1>1. /\ DOMAIN m = 1 .. Len(m)
      /\ \A i \in DOMAIN m : m[i][1] \in Nat /\ m[i][2] \in Nat
  BY GappedIs
<1>2. \A x : x \in flatten(set) <=> \E i \in DOMAIN m : x \in m[i][1] .. (m[i][2] - 1)
  BY DEF flatten
<1> HIDE DEF m
<1>3. ASSUME NEW i \in DOMAIN m, NEW x
      PROVE  x \in m[i][1] .. (m[i][2] - 1) <=> x \in Nat /\ In(x, m[i])
  <2> DEFINE a == m[i][1]
             b == m[i][2]
  <2>1. a \in Nat /\ b \in Nat
    BY <1>1
  <2> HIDE DEF a, b
  <2>2. x \in a .. (b - 1) <=> x \in Nat /\ a <= x /\ x < b
    BY <2>1
  <2> QED
    BY <2>2 DEF a, b, In
<1>4. \A x : x \in flatten(set) <=> x \in Nat /\ \E i \in DOMAIN m : In(x, m[i])
  BY <1>2, <1>3
<1> QED
  BY <1>4 DEF Has, m

\* What the blocks are.
LEMMA BlockIs ==
    ASSUME NEW inner, Gapped(inner), NEW j \in 1 .. Len(inner)
    PROVE  LET i == Len(inner) - j + 1
           IN  /\ DOMAIN ACKBlocks(inner) = 1 .. Len(inner)
               /\ ACKBlocks(inner) \in Seq(Int \X Int)
               /\ i \in 1 .. Len(inner) /\ (j # 1 => i + 1 \in 1 .. Len(inner))
               /\ ACKBlocks(inner)[j][1] = (IF j = 1 THEN inner[i][2] - 1
                                            ELSE inner[i + 1][1] - inner[i][2] - 1)
               /\ ACKBlocks(inner)[j][2] = inner[i][2] - 1 - inner[i][1]
<1> DEFINE n == Len(inner)
           it == Reverse(inner)
           blocks == ACKBlocks(inner)
<1>1. /\ n \in Nat /\ inner \in Seq(Nat \X Nat)
      /\ \A i \in 1 .. n : inner[i][1] \in Nat /\ inner[i][2] \in Nat
  BY GappedIs
<1>2. it = [i \in 1 .. n |-> inner[n - i + 1]] /\ DOMAIN it = 1 .. n
  BY DEF Reverse
<1>3. blocks = [i \in DOMAIN it |->
                  <<IF i = 1 THEN it[1][2] - 1 ELSE it[i - 1][1] - it[i][2] - 1,
                    it[i][2] - 1 - it[i][1]>>]
  BY DEF ACKBlocks
<1> HIDE DEF n, it, blocks
<1>4. \A i \in 1 .. n : it[i] = inner[n - i + 1] /\ n - i + 1 \in 1 .. n
  BY <1>1, <1>2
<1>5. DOMAIN blocks = 1 .. n
  BY <1>2, <1>3
<1>6. \A i \in 1 .. n : i # 1 => i - 1 \in 1 .. n /\ n - (i - 1) + 1 = n - i + 1 + 1
  BY <1>1
<1>7. \A i \in 1 .. n : it[i][1] \in Nat /\ it[i][2] \in Nat
  BY <1>1, <1>4
<1>8. ASSUME NEW i \in 1 .. n PROVE blocks[i] \in Int \X Int
  <2> DEFINE x == IF i = 1 THEN it[1][2] - 1 ELSE it[i - 1][1] - it[i][2] - 1
             y == it[i][2] - 1 - it[i][1]
  <2>1. blocks[i] = <<x, y>>
    BY <1>2, <1>3
  <2>2. it[i][1] \in Nat /\ it[i][2] \in Nat
    BY <1>7
  <2>3. y \in Int
    BY <2>2
  <2>4. x \in Int
    <3>1. CASE i = 1
      BY <2>2, <3>1
    <3>2. CASE i # 1
      <4>1. it[i - 1][1] \in Nat
        BY <1>6, <1>7, <3>2
      <4> QED
        BY <2>2, <3>2, <4>1
    <3> QED
      BY <3>1, <3>2
  <2> HIDE DEF x, y
  <2> QED
    BY <2>1, <2>3, <2>4
<1>9. blocks \in Seq(Int \X Int)
  <2>1. blocks = [i \in 1 .. n |-> blocks[i]]
    BY <1>2, <1>3
  <2>2. blocks \in [1 .. n -> Int \X Int]
    BY <1>5, <1>8, <2>1
  <2>3. n \in Nat
    BY <1>1
  <2> QED
    BY <2>2, <2>3, SMTT(30)
<1>10. j \in 1 .. n
  BY DEF n
<1>11. blocks[j] = <<IF j = 1 THEN it[1][2] - 1 ELSE it[j - 1][1] - it[j][2] - 1,
                     it[j][2] - 1 - it[j][1]>>
  BY <1>2, <1>3, <1>10
<1> DEFINE i == n - j + 1
<1>12. i \in 1 .. n /\ it[j] = inner[i]
  BY <1>4, <1>10
<1>13. j # 1 => it[j - 1] = inner[i + 1] /\ i + 1 \in 1 .. n
  BY <1>4, <1>6, <1>10
<1> HIDE DEF i
<1>14. /\ blocks[j][1] = (IF j = 1 THEN inner[i][2] - 1 ELSE inner[i + 1][1] - inner[i][2] - 1)
       /\ blocks[j][2] = inner[i][2] - 1 - inner[i][1]
  BY <1>11, <1>12, <1>13
<1> QED
  BY <1>5, <1>9, <1>12, <1>13, <1>14 DEF n, blocks, i

\* After j blocks the last j ranges are there again.
ParsedIs(a, inner, j) ==
    /\ a.valid = TRUE
    /\ a.smallest_ack = (IF j = 0 THEN None ELSE inner[Len(inner) - j + 1][1])
    /\ Fit(a.ranges) /\ a.ranges.capacity = Unlimited /\ Len(a.ranges.inner) <= j
    /\ \A x \in Nat : Has(a.ranges.inner, x)
                         <=> \E i \in 1 .. Len(inner) : i > Len(inner) - j /\ In(x, inner[i])

LEMMA ParseTurn ==
    ASSUME NEW inner, Gapped(inner), NEW j \in 1 .. Len(inner), Len(inner) < Unlimited,
           MAX_INLINE_CAPACITY <= Unlimited, NEW a, ParsedIs(a, inner, j - 1)
    PROVE  ParsedIs(ParseBlock(a, ACKBlocks(inner)[j]), inner, j)
<1> DEFINE n == Len(inner)
           i == n - j + 1
           block == ACKBlocks(inner)[j]
           b == ParseBlock(a, block)
           low == inner[i][1]
           high == inner[i][2]
           top == inner[i + 1][1]
           item == <<low, high>>
<1>1. /\ n \in Nat /\ i \in 1 .. n /\ (j # 1 => i + 1 \in 1 .. n)
      /\ block[1] = (IF j = 1 THEN high - 1 ELSE top - high - 1)
      /\ block[2] = high - 1 - low
  BY BlockIs, GappedIs
<1>2. low \in Nat /\ high \in Nat /\ low < high /\ (j # 1 => top \in Nat /\ high < top)
  <2>1. /\ \A k \in 1 .. n : inner[k][1] \in Nat /\ inner[k][2] \in Nat /\ inner[k][1] < inner[k][2]
        /\ \A k, l \in 1 .. n : k < l => inner[k][2] < inner[l][1]
    BY GappedIs
  <2>2. i < i + 1 /\ i \in Int
    BY <1>1
  <2> HIDE DEF i, n
  <2> QED
    BY <1>1, <2>1, <2>2
<1>3. a.smallest_ack = (IF j = 1 THEN None ELSE top)
  <2>1. j - 1 = 0 <=> j = 1
    OBVIOUS
  <2>2. n - (j - 1) + 1 = i + 1
    BY <1>1
  <2>3. a.smallest_ack = (IF j - 1 = 0 THEN None ELSE inner[n - (j - 1) + 1][1])
    BY DEF ParsedIs
  <2> HIDE DEF n, i
  <2> QED
    BY <2>1, <2>2, <2>3
<1> DEFINE largest_ack == IF a.smallest_ack = None THEN block[1] ELSE a.smallest_ack - block[1] - 2
           smallest_ack == largest_ack - block[2]
<1>4. b = [valid |-> a.valid /\ block[1] >= 0 /\ smallest_ack >= 0,
           smallest_ack |-> smallest_ack,
           ranges |-> insert(a.ranges, <<smallest_ack, largest_ack + 1>>)]
  BY DEF ParseBlock
<1> HIDE DEF b, low, high, top, block, i, n, item
<1>5. largest_ack = high - 1
  <2>1. CASE j = 1
    <3>1. largest_ack = block[1] /\ block[1] = high - 1
      BY <1>1, <1>3, <2>1
    <3> QED
      BY <3>1
  <2>2. CASE j # 1
    <3>1. top # None
      BY <1>2, <2>2 DEF None
    <3>2. largest_ack = top - block[1] - 2 /\ block[1] = top - high - 1
      BY <1>1, <1>3, <2>2, <3>1
    <3> QED
      BY <1>2, <2>2, <3>2
  <2> QED
    BY <2>1, <2>2
<1>6. smallest_ack = low
  BY <1>1, <1>2, <1>5
<1>7. block[1] >= 0
  BY <1>1, <1>2
<1> HIDE DEF largest_ack, smallest_ack
<1>8. /\ b.valid = (a.valid /\ block[1] >= 0 /\ smallest_ack >= 0) /\ b.smallest_ack = low
      /\ b.ranges = insert(a.ranges, item)
  <2>1. largest_ack + 1 = high
    BY <1>2, <1>5
  <2> QED
    BY <1>4, <1>6, <2>1 DEF item
<1>9. b.valid = TRUE
  <2>1. a.valid = TRUE /\ smallest_ack >= 0
    BY <1>2, <1>6 DEF ParsedIs
  <2> QED
    BY <1>7, <1>8, <2>1
<1>10. item \in Item /\ \A x \in Nat : In(x, item) <=> In(x, inner[i])
  BY <1>2 DEF item, Item, In, low, high
<1>11. /\ Fit(a.ranges) /\ a.ranges.capacity = Unlimited /\ Len(a.ranges.inner) <= j - 1
       /\ \A x \in Nat : Has(a.ranges.inner, x)
                            <=> \E k \in 1 .. n : k > n - (j - 1) /\ In(x, inner[k])
  BY DEF ParsedIs, n
<1>12. PICK m, p : Grows(b.ranges, a.ranges, item, m, p)
  BY <1>8, <1>10, <1>11, InsertIs
<1>13. /\ Fit(b.ranges) /\ b.ranges.capacity = Unlimited
       /\ Len(m) <= Len(a.ranges.inner) + 1
       /\ \A x \in Nat : Has(m, x) <=> Has(a.ranges.inner, x) \/ In(x, item)
       /\ Len(m) <= Unlimited => b.ranges.inner = m
       /\ Len(m) \in Nat /\ Len(a.ranges.inner) \in Nat
  <2>1. Gapped(m) /\ Gapped(a.ranges.inner)
    BY <1>11, <1>12 DEF Grows, Fit
  <2> QED
    BY <1>11, <1>12, <2>1, GappedIs DEF Grows
<1>14. Len(m) <= j /\ Len(m) <= Unlimited
  <2>1. Len(m) <= j
    BY <1>11, <1>13
  <2>2. j <= n /\ n < Unlimited /\ Unlimited \in Nat
    BY <1>1 DEF n, Unlimited
  <2> QED
    BY <1>1, <1>13, <2>1, <2>2
<1>15. b.ranges.inner = m
  BY <1>13, <1>14
<1>16. ASSUME NEW x \in Nat
       PROVE  Has(m, x) <=> \E k \in 1 .. n : k > n - j /\ In(x, inner[k])
  <2>1. Has(m, x) <=> (\E k \in 1 .. n : k > n - (j - 1) /\ In(x, inner[k])) \/ In(x, inner[i])
    BY <1>10, <1>11, <1>13
  <2>2. \A k \in 1 .. n : k > n - j <=> k > n - (j - 1) \/ k = i
    BY <1>1 DEF i
  <2> QED
    BY <1>1, <2>1, <2>2
<1>17. b.smallest_ack = (IF j = 0 THEN None ELSE inner[n - j + 1][1])
  BY <1>8 DEF low, i
<1> QED
  BY <1>9, <1>13, <1>14, <1>15, <1>16, <1>17 DEF ParsedIs, b, n, block

\* f are the states that the loop over the blocks goes through.
ParseRun(f, blocks, n) ==
    /\ f[0] = [valid |-> TRUE, smallest_ack |-> None, ranges |-> RangeSetOf(Unlimited)]
    /\ \A k \in 1 .. n : f[k] = ParseBlock(f[k - 1], blocks[k])
    /\ parse_ack_frame(blocks) = f[n]

LEMMA ParseTurns ==
    ASSUME NEW blocks, NEW n \in Nat, n = Len(blocks)
    PROVE  \E f : ParseRun(f, blocks, n)
<1> DEFINE start == [valid |-> TRUE, smallest_ack |-> None, ranges |-> RangeSetOf(Unlimited)]
           IsRun(f, m) == f = [k \in 0 .. m |-> IF k = 0 THEN start
                                             ELSE ParseBlock(f[k - 1], blocks[k])]
           P == {m \in 0 .. n : \E f : IsRun(f, m)}
<1> HIDE DEF start
<1>1. 0 \in P
  <2> DEFINE g == [k \in 0 .. 0 |-> start]
  <2>1. IsRun(g, 0)
    OBVIOUS
  <2> HIDE DEF g, IsRun
  <2> QED
    BY <2>1
<1>2. ASSUME NEW m \in 1 .. n, m - 1 \in P PROVE m \in P
  <2>1. PICK f : IsRun(f, m - 1)
    BY <1>2
  <2> DEFINE g == [k \in 0 .. m |-> IF k = m THEN ParseBlock(f[m - 1], blocks[m]) ELSE f[k]]
  <2>2. IsRun(g, m)
    <3>1. ASSUME NEW k \in 0 .. m
          PROVE  g[k] = IF k = 0 THEN start ELSE ParseBlock(g[k - 1], blocks[k])
      <4>1. CASE k = m
        BY <4>1
      <4>2. CASE k # m
        BY <2>1, <4>2
      <4> QED
        BY <4>1, <4>2
    <3> QED
      BY <3>1
  <2> HIDE DEF g, IsRun
  <2> QED
    BY <2>2
<1>3. n \in P
  <2> HIDE DEF P
  <2> QED
    BY <1>1, <1>2, Induction
<1> DEFINE h == CHOOSE f : IsRun(f, n)
<1>4. IsRun(h, n)
  BY <1>3
<1>5. parse_ack_frame(blocks) = h[n]
  BY DEF parse_ack_frame, start
<1> HIDE DEF h
<1>6. h[0] = start /\ \A k \in 1 .. n : h[k] = ParseBlock(h[k - 1], blocks[k])
  BY <1>4
<1> QED
  BY <1>5, <1>6 DEF ParseRun, start

\* A frame that is read says what it was written from.
LEMMA ParsedBack ==
    ASSUME NEW inner, Gapped(inner), Len(inner) <= MAX_ACK_RANGES
    PROVE  LET parsed == parse_ack_frame(ACKBlocks(inner))
           IN  /\ parsed.valid /\ Gapped(parsed.ranges.inner)
               /\ \A x \in Nat : Has(parsed.ranges.inner, x) <=> Has(inner, x)
<1> DEFINE n == Len(inner)
           blocks == ACKBlocks(inner)
           start == [valid |-> TRUE, smallest_ack |-> None, ranges |-> RangeSetOf(Unlimited)]
<1>0. n \in Nat /\ DOMAIN inner = 1 .. n
  BY GappedIs
<1>a. /\ n < Unlimited /\ MAX_INLINE_CAPACITY <= Unlimited /\ MAX_INLINE_CAPACITY \in Nat \ {0}
      /\ Unlimited \in Nat
  <2>1. Unlimited \in Nat
    BY DEF Unlimited
  <2>2. /\ MAX_ACK_RANGES \in Nat /\ MAX_ACK_RANGES < Unlimited
        /\ MAX_INLINE_CAPACITY <= MAX_ACK_RANGES /\ MAX_INLINE_CAPACITY \in Nat \ {0}
    BY PktSpaceAssumption, RangesAssumption
  <2> QED
    BY <1>0, <2>1, <2>2
<1>1. Len(blocks) = n
  <2>1. CASE n = 0
    <3>1. Reverse(inner) = [i \in 1 .. 0 |-> inner[n - i + 1]]
      BY <2>1 DEF Reverse
    <3>2. DOMAIN Reverse(inner) = {}
      BY <3>1
    <3>3. DOMAIN blocks = {}
      BY <3>2 DEF ACKBlocks
    <3>4. blocks = [i \in DOMAIN blocks |-> blocks[i]]
      BY DEF ACKBlocks
    <3> HIDE DEF blocks
    <3>5. blocks = <<>>
      BY <3>3, <3>4
    <3> QED
      BY <2>1, <3>5
  <2>2. CASE n # 0
    <3>1. 1 \in 1 .. n
      BY <1>0, <2>2
    <3>2. DOMAIN blocks = 1 .. n /\ blocks \in Seq(Int \X Int)
      BY <3>1, BlockIs
    <3> HIDE DEF blocks, n
    <3> QED
      BY <1>0, <3>2
  <2> QED
    BY <2>1, <2>2
<1>2. PICK f : ParseRun(f, blocks, n)
  BY <1>0, <1>1, ParseTurns
<1> DEFINE P == {j \in 0 .. n : ParsedIs(f[j], inner, j)}
<1>3. 0 \in P
  <2>1. f[0] = start
    BY <1>2 DEF ParseRun
  <2> DEFINE ranges == RangeSetOf(Unlimited)
  <2>2. ranges.inner = <<>> /\ ranges.capacity = Unlimited /\ Fit(ranges)
    <3>1. /\ ranges.inner = <<>> /\ ranges.capacity = Unlimited /\ ranges \in RangeSets
          /\ ranges.tree = FALSE
      BY <1>a DEF RangeSetOf, RangeSets
    <3>2. Gapped(ranges.inner) /\ Len(ranges.inner) = 0
      BY <3>1 DEF Gapped
    <3> HIDE DEF ranges
    <3> QED
      BY <1>a, <3>1, <3>2 DEF Fit
  <2> HIDE DEF ranges
  <2>3. \A x \in Nat : ~Has(ranges.inner, x)
    BY <2>2 DEF Has
  <2>4. \A i \in 1 .. n : ~(i > n - 0)
    BY <1>0
  <2>5. f[0].valid = TRUE /\ f[0].smallest_ack = None /\ f[0].ranges = ranges
    BY <2>1 DEF ranges
  <2>6. Len(ranges.inner) <= 0
    BY <2>2
  <2>7. ParsedIs(f[0], inner, 0)
    BY <2>2, <2>3, <2>4, <2>5, <2>6 DEF ParsedIs
  <2> QED
    BY <1>0, <2>7
<1>4. ASSUME NEW j \in 1 .. n, j - 1 \in P PROVE j \in P
  <2>1. f[j] = ParseBlock(f[j - 1], blocks[j])
    BY <1>2 DEF ParseRun
  <2>2. ParsedIs(f[j - 1], inner, j - 1)
    BY <1>4
  <2>3. ParsedIs(f[j], inner, j)
    BY <1>a, <2>1, <2>2, ParseTurn
  <2> QED
    BY <2>3
<1> HIDE DEF P
<1>5. n \in P
  BY <1>0, <1>3, <1>4, Induction
<1>6. ParsedIs(f[n], inner, n) /\ parse_ack_frame(blocks) = f[n]
  BY <1>2, <1>5 DEF P, ParseRun
<1>7. \A i \in 1 .. n : i > n - n
  BY <1>0
<1> DEFINE parsed == f[n]
<1>8. /\ parsed.valid = TRUE /\ Gapped(parsed.ranges.inner)
      /\ \A x \in Nat : Has(parsed.ranges.inner, x) <=> \E i \in 1 .. n : In(x, inner[i])
  BY <1>6, <1>7 DEF ParsedIs, Fit
<1> QED
  BY <1>0, <1>6, <1>8 DEF Has

\* AcksNewest: a frame says what it is built from, lists packets that were processed, and
\* misses none but those of acknowledged frames and the oldest.
THEOREM AcksNewestHolds == Spec => []AcksNewest
<1>1. ASSUME PktInv PROVE AcksNewest
  <2> DEFINE set == space.recv_pkt_need_ack
             parsed == parse_ack_frame(ACKBlocks(set.inner))
             listed == flatten(set)
  <2>1. /\ Fit(set) /\ set.capacity = MAX_ACK_RANGES
        /\ \A m \in Nat : Has(set.inner, m) => m \in received
        /\ \A m \in received : ~Has(set.inner, m) /\ m > removed =>
              \A y \in Nat : Has(set.inner, y) => m < y
        /\ received \subseteq Nat
    BY <1>1 DEF PktInv, AcksAre, Typed
  <2> HIDE DEF set
  <2>2. Gapped(set.inner) /\ Len(set.inner) <= MAX_ACK_RANGES
    BY <2>1 DEF Fit
  <2>3. /\ parsed.valid /\ Gapped(parsed.ranges.inner)
        /\ \A x \in Nat : Has(parsed.ranges.inner, x) <=> Has(set.inner, x)
    BY <2>2, ParsedBack
  <2>4. listed \subseteq Nat /\ \A x \in Nat : x \in listed <=> Has(set.inner, x)
    BY <2>2, FlattenIs
  <2> HIDE DEF parsed, listed
  <2>5. /\ flatten(parsed.ranges) \subseteq Nat
        /\ \A x \in Nat : x \in flatten(parsed.ranges) <=> Has(parsed.ranges.inner, x)
    BY <2>3, FlattenIs
  <2>6. flatten(parsed.ranges) = listed
    BY <2>3, <2>4, <2>5
  <2>7. listed \subseteq received
    BY <2>1, <2>4
  <2>8. ASSUME NEW n \in received \ listed, n > removed, NEW m \in listed PROVE n < m
    BY <2>1, <2>4, <2>8
  <2> QED
    BY <2>2, <2>3, <2>6, <2>7, <2>8 DEF AcksNewest, set, parsed, listed
<1> QED
  BY <1>1, PktInvariant, PTL
=============================================================================
