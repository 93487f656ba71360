------------------------------- MODULE Ranges -------------------------------
(***************************************************************************)
(* RangeSet, quiche/src/ranges.rs: numbers kept as ranges <<start, end>>,   *)
(* end excluded, sorted, with gaps between them.  A set is either an array  *)
(* (Inline) or a B-tree (tree), two representations with an insertion of    *)
(* their own; inner lists the ranges of both in ascending order.            *)
(***************************************************************************)
EXTENDS Integers, Sequences, FiniteSets, SequencesExt, FiniteSetsExt

CONSTANTS MAX_INLINE_CAPACITY,  \* an array of that many ranges becomes a tree
          MIN_TO_INLINE         \* a tree of that few becomes an array

ASSUME RangesAssumption ==
    /\ MAX_INLINE_CAPACITY \in Nat \ {0} /\ MIN_TO_INLINE \in Nat
    /\ MIN_TO_INLINE < MAX_INLINE_CAPACITY

\* usize::MAX: more than a set ever holds.
Unlimited == 2147483647

RangeSetOf(capacity) == [tree |-> FALSE, inner |-> <<>>, capacity |-> capacity]

\* The two conversions, at sizes apart from each other.
fixup(set) ==
    [set EXCEPT !.tree = IF @ THEN Len(set.inner) > MIN_TO_INLINE
                         ELSE Len(set.inner) = MAX_INLINE_CAPACITY]

\* The ranges from p to q become one range r, which goes before p if q is p - 1.
Splice(inner, p, q, r) ==
    [i \in 1..(Len(inner) + p - q) |->
       IF i < p THEN inner[i] ELSE IF i = p THEN r ELSE inner[i + q - p]]

\* pos is the first range that does not end before the item; the ranges from pos to
\* last touch it.  At capacity the first range makes room.
InlineInsert(inner, item, capacity) ==
    LET pos == Min({i \in DOMAIN inner : item[1] <= inner[i][2]} \cup {Len(inner) + 1})
        last == Max({i \in DOMAIN inner : inner[i][1] <= item[2]} \cup {pos})
        full == Len(inner) = capacity
        kept == IF full THEN Tail(inner) ELSE inner
        at == IF full THEN pos - 1 ELSE pos
    IN  CASE pos > Len(inner) -> Append(kept, item)
          [] pos <= Len(inner) /\ item[2] < inner[pos][1] ->
               Splice(kept, at, at - 1, item)
          [] OTHER -> Splice(inner, pos, last, <<Min({item[1], inner[pos][1]}),
                                                 Max({item[2], inner[last][2]})>>)

range_overlaps(r, item) == \/ r[1] <= item[1] /\ item[1] <= r[2]
                           \/ r[1] <= item[2] /\ item[2] <= r[2]

\* The neighbours that the item touches or contains are replaced by one range.  At
\* capacity the first of the others goes, also when the new one is before it.
BTreeInsert(inner, item, capacity) ==
    LET Absorbed(r) == range_overlaps(r, item) \/ (item[1] <= r[1] /\ r[2] < item[2])
        absorbed == {i \in DOMAIN inner : Absorbed(inner[i])}
        start == Min({item[1]} \cup {inner[i][1] : i \in absorbed})
        end == Max({item[2]} \cup {inner[i][2] : i \in absorbed})
        pos == Min({i \in DOMAIN inner : start <= inner[i][1]} \cup {Len(inner) + 1})
        merged == Splice(inner, pos, Max(absorbed \cup {pos - 1}), <<start, end>>)
    IN  IF Len(merged) <= capacity THEN merged
        ELSE IF pos = 1 THEN Splice(merged, 1, 2, <<start, end>>)
        ELSE Tail(merged)

insert(set, item) ==
    fixup([set EXCEPT !.inner = IF set.tree THEN BTreeInsert(@, item, set.capacity)
                                ELSE InlineInsert(@, item, set.capacity)])

push_item(set, n) == insert(set, <<n, n + 1>>)

\* Whole ranges go, the one around `largest' is cut.
RemoveUntil(inner, largest) ==
    LET first == Min({i \in DOMAIN inner : inner[i][2] > largest + 1} \cup {Len(inner) + 1})
        kept == SubSeq(inner, first, Len(inner))
    IN  [i \in DOMAIN kept |-> <<Max({largest + 1, kept[i][1]}), kept[i][2]>>]

\* Mutant: the number after `largest' goes too.
remove_until_next(set, largest) ==
    fixup([set EXCEPT !.inner = RemoveUntil(@, largest + 1)])

\* Both representations.
remove_until(set, largest) ==
    fixup([set EXCEPT !.inner = RemoveUntil(@, largest)])

last(set) == set.inner[Len(set.inner)][2] - 1

flatten(set) == UNION {set.inner[i][1]..(set.inner[i][2] - 1) : i \in DOMAIN set.inner}
=============================================================================
