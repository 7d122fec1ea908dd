---------------------------- MODULE BlockRanges ----------------------------
(***************************************************************************)
(* The range algorithms of node/src/block_ranges.rs: a BlockRanges is a    *)
(* sequence of sorted, disjoint ranges lo..hi.  Next to it the state keeps *)
(* the set of heights it stands for, which is how the other modules model  *)
(* ranges; the properties say that the algorithms compute what the sets    *)
(* do.  MaxHeight plays u64::MAX: the arithmetic saturates there.          *)
(***************************************************************************)
EXTENDS Integers, FiniteSets, FiniteSetsExt, SequencesExt

CONSTANTS
    MaxHeight,  \* u64::MAX
    MaxRanges   \* bound on the number of ranges a BlockRanges starts with

VARIABLES
    ranges,     \* the BlockRanges
    heights     \* the heights it stands for

vars == <<ranges, heights>>

-----------------------------------------------------------------------------
(* BlockRange                                                              *)

\* The ranges that pass validate.
Valid == {r \in [lo : 1..MaxHeight, hi : 1..MaxHeight] : r.lo <= r.hi}

SaturatingSub(a, b) == IF a < b THEN 0 ELSE a - b
SaturatingAdd(a, b) == IF a + b > MaxHeight THEN MaxHeight ELSE a + b

Length(r) == IF r.hi < r.lo THEN 0 ELSE r.hi - r.lo + 1

IsLeftOf(r, s) == r.hi < s.lo

IsAdjacent(r, s) == r.hi = SaturatingSub(s.lo, 1) \/ SaturatingSub(r.lo, 1) = s.hi

IsOverlapping(r, s) ==
    \/ r.lo < s.lo /\ r.hi \in s.lo..s.hi
    \/ r.hi > s.hi /\ r.lo \in s.lo..s.hi
    \/ r.lo >= s.lo /\ r.hi <= s.hi
    \/ r.lo <= s.lo /\ r.hi >= s.hi

Empty == [lo |-> 1, hi |-> 0]

\* headn and tailn of one range; the checked operations fail for limit 0.
RangeHeadN(r, limit) ==
    LET start == SaturatingSub(r.hi, limit) + 1
    IN  IF Length(r) = 0 \/ start > MaxHeight THEN Empty
        ELSE [lo |-> IF start > r.lo THEN start ELSE r.lo, hi |-> r.hi]

RangeTailN(r, limit) ==
    LET end == SaturatingAdd(r.lo, limit) - 1
    IN  IF Length(r) = 0 \/ end < 0 THEN Empty
        ELSE [lo |-> r.lo, hi |-> IF end < r.hi THEN end ELSE r.hi]

-----------------------------------------------------------------------------
(* BlockRanges                                                             *)

\* from_vec: sorted and disjoint; ranges that touch need not be merged.
FromVecAccepts(rs) ==
    /\ \A i \in 1..Len(rs) : rs[i] \in Valid
    /\ \A i \in 1..(Len(rs) - 1) : rs[i].hi < rs[i + 1].lo

Covered(rs) == UNION {rs[i].lo..rs[i].hi : i \in 1..Len(rs)}

TotalLength(rs) == FoldLeft(LAMBDA n, r : n + Length(r), 0, rs)

\* find_affected_ranges: the indices of the ranges r overlaps or touches.
AffectedOverlapping(rs, r) == {i \in 1..Len(rs) : IsOverlapping(rs[i], r)}   \* mutation
Affected(rs, r) == {i \in 1..Len(rs) : IsOverlapping(rs[i], r) \/ IsAdjacent(rs[i], r)}

\* rs with the ranges from index i to index j replaced by new
Splice(rs, i, j, new) == SubSeq(rs, 1, i - 1) \o new \o SubSeq(rs, j + 1, Len(rs))

InsertRelaxed(rs, r) ==
    LET hit == Affected(rs, r)
        right == {i \in 1..Len(rs) : r.hi < rs[i].lo}
    IN  IF hit # {}
        THEN Splice(rs, Min(hit), Max(hit),
                    <<[lo |-> Min({rs[Min(hit)].lo, r.lo}), hi |-> Max({rs[Max(hit)].hi, r.hi})]>>)
        ELSE IF right # {} THEN InsertAt(rs, Min(right), r)
        ELSE Append(rs, r)

\* What remove_relaxed leaves of the range `first` below r ...
LeftRest(first, r) == IF first.lo < r.lo THEN <<[lo |-> first.lo, hi |-> r.lo - 1]>> ELSE <<>>

\* ... and of the range `last` above it.
RightRestShared(last, r) ==     \* mutation: r.hi is kept
    IF r.hi < last.hi THEN <<[lo |-> r.hi, hi |-> last.hi]>> ELSE <<>>
RightRest(last, r) == IF r.hi < last.hi THEN <<[lo |-> r.hi + 1, hi |-> last.hi]>> ELSE <<>>

RemoveRelaxed(rs, r) ==
    LET hit == Affected(rs, r)
    IN  IF hit = {} THEN rs
        ELSE Splice(rs, Min(hit), Max(hit),
                    LeftRest(rs[Min(hit)], r) \o RightRest(rs[Max(hit)], r))

PopHead(rs) ==
    IF Length(Last(rs)) = 1 THEN Front(rs)
    ELSE [rs EXCEPT ![Len(rs)].hi = @ - 1]

PopTail(rs) ==
    IF Length(Head(rs)) = 1 THEN Tail(rs)
    ELSE [rs EXCEPT ![1].lo = @ + 1]

\* The operators +, -, ! and &, the last one by De Morgan's law.
Plus(rs, other) == FoldLeft(InsertRelaxed, rs, other)
Minus(rs, other) == FoldLeft(RemoveRelaxed, rs, other)
Complement(rs) == Minus(<<[lo |-> 1, hi |-> MaxHeight]>>, rs)
Intersection(rs, other) == Complement(Plus(Complement(rs), Complement(other)))

\* headn and tailn: range by range, as much as the limit leaves room for.
HeadNStep(limit, taken, r) ==
    IF TotalLength(taken) = limit THEN taken
    ELSE InsertRelaxed(taken, RangeHeadN(r, limit - TotalLength(taken)))
HeadN(rs, limit) == FoldLeft(LAMBDA taken, r : HeadNStep(limit, taken, r), <<>>, Reverse(rs))

TailNStep(limit, taken, r) ==
    IF TotalLength(taken) = limit THEN taken
    ELSE InsertRelaxed(taken, RangeTailN(r, limit - TotalLength(taken)))
TailN(rs, limit) == FoldLeft(LAMBDA taken, r : TailNStep(limit, taken, r), <<>>, rs)

EdgesOf(r) == <<[lo |-> r.lo, hi |-> r.lo], [lo |-> r.hi, hi |-> r.hi]>>
Edges(rs) == FoldLeft(LAMBDA es, r : Plus(es, EdgesOf(r)), <<>>, rs)

\* left_of and right_of, 0 for None
LeftOf(rs, h) ==
    LET found == {i \in 1..Len(rs) : rs[i].lo < h}
    IN  IF found = {} THEN 0 ELSE Min({rs[Max(found)].hi, h - 1})
RightOf(rs, h) ==
    LET found == {i \in 1..Len(rs) : rs[i].hi > h}
    IN  IF found = {} THEN 0 ELSE Max({rs[Min(found)].lo, h + 1})

\* check_insertion_constraints: is r accepted, and are the headers below and
\* above it there to verify it against?
Verdict(ok, prev, next) == [ok |-> ok, prev |-> prev, next |-> next]
Rejected == Verdict(FALSE, FALSE, FALSE)

CheckInsertionConstraints(rs, r) ==
    LET hit == Affected(rs, r)
        first == rs[Min(hit)]
        last == rs[Max(hit)]
    IN  IF rs = <<>> THEN Verdict(TRUE, FALSE, FALSE)
        ELSE IF IsLeftOf(Last(rs), r) THEN Verdict(TRUE, IsAdjacent(Last(rs), r), FALSE)
        ELSE IF hit = {} THEN Rejected
        ELSE IF Cardinality(hit) = 1 /\ ~IsOverlapping(first, r)
             THEN Verdict(TRUE, IsLeftOf(first, r), ~IsLeftOf(first, r))
        ELSE IF Cardinality(hit) = 2 /\ IsAdjacent(first, r) /\ IsAdjacent(last, r)
             THEN Verdict(TRUE, TRUE, TRUE)
        ELSE Rejected

\* Where partitions ends the left half.
SplitPoint(middle, len, r) == r.lo + middle - len

\* partitions: one range of the loop.  The sum start + middle is computed
\* before left_len is subtracted, so it may overflow.
PartitionStep(middle, s, r) ==
    LET end == SplitPoint(middle, s.len, r)
    IN  IF s.len + Length(r) <= middle
        THEN [s EXCEPT !.left = InsertRelaxed(@, r), !.len = @ + Length(r)]
        ELSE IF s.len < middle
        THEN [left |-> InsertRelaxed(s.left, [lo |-> r.lo, hi |-> end]),
              right |-> IF end < r.hi THEN InsertRelaxed(s.right, [lo |-> end + 1, hi |-> r.hi])
                        ELSE s.right,
              len |-> s.len + end - r.lo + 1,
              overflow |-> r.lo + middle > MaxHeight]
        ELSE [s EXCEPT !.right = InsertRelaxed(@, r)]

\* The two halves and the height between them, taken from the longer half.
TakeMiddle(s) ==
    IF s.len < TotalLength(s.right)
    THEN [left |-> s.left, middle |-> Head(s.right).lo, right |-> PopTail(s.right)]
    ELSE [left |-> PopHead(s.left), middle |-> Last(s.left).hi, right |-> s.right]

Halves(rs) ==
    FoldLeft(LAMBDA s, r : PartitionStep(TotalLength(rs) \div 2, s, r),
             [left |-> <<>>, right |-> <<>>, len |-> 0, overflow |-> FALSE], rs)

Partitions(rs) == TakeMiddle(Halves(rs))

-----------------------------------------------------------------------------
(* A BlockRanges in use                                                    *)

\* What from_vec, and with it the deserialization, accepts.
Deserialized == {rs \in UNION {[1..n -> Valid] : n \in 0..MaxRanges} : FromVecAccepts(rs)}

Init ==
    /\ ranges \in Deserialized
    /\ heights = Covered(ranges)

InsertRange ==
    \E r \in Valid :
        /\ ranges' = InsertRelaxed(ranges, r)
        /\ heights' = heights \cup (r.lo..r.hi)

RemoveRange ==
    \E r \in Valid :
        /\ ranges' = RemoveRelaxed(ranges, r)
        /\ heights' = heights \ (r.lo..r.hi)

TakeHead ==
    /\ ranges # <<>>
    /\ ranges' = PopHead(ranges)
    /\ heights' = {h \in heights : \E g \in heights : g > h}

TakeTail ==
    /\ ranges # <<>>
    /\ ranges' = PopTail(ranges)
    /\ heights' = {h \in heights : \E g \in heights : g < h}

Next == InsertRange \/ RemoveRange \/ TakeHead \/ TakeTail

Spec == Init /\ [][Next]_vars

-----------------------------------------------------------------------------
(* Properties                                                              *)

\* The set-based operators of the other modules, applied to these heights.
Store == INSTANCE HeaderStore
    WITH stored <- heights, sampled <- {}, pruned <- {}, metadata <- <<>>, Cids <- {}

\* A BlockRanges equals a set of heights: valid, and covering exactly them.
Is(rs, set) == FromVecAccepts(rs) /\ Covered(rs) = set

\* Insertions, removals and pops, on ranges as from_vec accepts them (also
\* unmerged ones), keep the ranges sorted and disjoint and do what they do to
\* the set.
RangesMatchHeights == Is(ranges, heights)

\* +, -, ! and & of two BlockRanges compute union, difference, complement and
\* intersection.
SetAlgebra ==
    \A other \in Deserialized :
        /\ Is(Plus(ranges, other), heights \cup Covered(other))
        /\ Is(Minus(ranges, other), heights \ Covered(other))
        /\ Is(Intersection(ranges, other), heights \cap Covered(other))
        /\ Is(Complement(other), (1..MaxHeight) \ Covered(other))

\* check_insertion_constraints accepts exactly the ranges HeaderStore's
\* insertion accepts, and reports exactly the neighbours that are there, so
\* that every insertion next to a stored header is verified against it.
InsertionCheckIsExact ==
    \A r \in Valid :
        LET check == CheckInsertionConstraints(ranges, r)
        IN  /\ check.ok <=> Store!InsertionConstraintsMet(r.lo, r.hi)
            /\ check.ok => /\ check.prev <=> r.lo - 1 \in heights
                           /\ check.next <=> r.hi + 1 \in heights

\* headn and tailn take the highest and the lowest `limit` heights; tailn is
\* not exact at u64::MAX, where its sum saturates.
TruncationIsExact ==
    \A limit \in 0..(MaxHeight - 1) :
        LET top == {h \in heights : Cardinality({g \in heights : g > h}) < limit}
            bottom == {h \in heights : Cardinality({g \in heights : g < h}) < limit}
        IN  /\ Is(HeadN(ranges, limit), top)
            /\ MaxHeight \notin heights => Is(TailN(ranges, limit), bottom)

\* left_of and right_of find the nearest height below and above.
NeighboursAreNearest ==
    \A h \in 1..MaxHeight :
        /\ LeftOf(ranges, h) = Store!HeadOf({g \in heights : g < h})
        /\ LET above == {g \in heights : g > h}
           IN  RightOf(ranges, h) = IF above = {} THEN 0 ELSE Min(above)

\* partitions, on which the binary search of the Pruner rests, splits the
\* heights around one of them into halves of nearly equal size, so that the
\* search terminates; the sum it computes does not overflow.
PartitionsAreBalanced ==
    heights # {} =>
        LET p == Partitions(ranges)
        IN  /\ ~Halves(ranges).overflow
            /\ Is(p.left, {h \in heights : h < p.middle})
            /\ Is(p.right, {h \in heights : h > p.middle})
            /\ p.middle \in heights
            /\ TotalLength(p.left) - TotalLength(p.right) \in {-1, 0, 1}

\* The edges of merged ranges are the heights with a missing neighbour, as the
\* Pruner relies on when it spares them.
EdgesHaveMissingNeighbour ==
    (\A i \in 1..(Len(ranges) - 1) : ranges[i].hi + 1 < ranges[i + 1].lo)
        => Is(Edges(ranges), Store!Edges(heights))

\* Every operator and query of block_ranges.rs does to ranges, merged or not, what
\* the other modules take it to do to sets of heights.
QueriesAreExact ==
    /\ SetAlgebra /\ InsertionCheckIsExact /\ TruncationIsExact
    /\ NeighboursAreNearest /\ PartitionsAreBalanced /\ EdgesHaveMissingNeighbour
=============================================================================
