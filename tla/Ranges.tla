------------------------------- MODULE Ranges -------------------------------
(***************************************************************************)
(* The Syncer's cache of verified headers that are not in the store yet     *)
(* (src/sync/ranges.go): a sequence of ranges, each a run of consecutive    *)
(* heights.  A range is a record: start is the field the code keeps beside  *)
(* the slice and lo..hi are the heights in the slice (lo = hi + 1 when it   *)
(* is empty).  The two can differ: an emptied range keeps its old start.    *)
(***************************************************************************)
EXTENDS Integers, Sequences

newRange(h) == [start |-> h, lo |-> h, hi |-> h]

Empty(r) == r.lo > r.hi

Size(r) == r.hi - r.lo + 1

\* The highest height of a range, 0 when it has none.
RangeHead(r) == IF Empty(r) THEN 0 ELSE r.hi

\* The number of headers to be returned or removed up to height end.
rangeAmount(r, end) ==
    CASE r.start > end -> 0
      [] r.start <= end /\ r.start + Size(r) > end -> end - r.start + 1
      [] OTHER -> Size(r)

\* headerRange.Get: the headers up to end as <<first, last>>.
Get(r, end) == <<r.lo, r.lo + rangeAmount(r, end) - 1>>

\* headerRange.Remove; the start moves only when something is left.
Remove(r, end) ==
    LET lo == r.lo + rangeAmount(r, end)
    IN  [start |-> IF lo <= r.hi THEN lo ELSE r.start, lo |-> lo, hi |-> r.hi]

\* headerRange.Append of the height after the range's head; when the range has
\* been emptied meanwhile, the height is all it has.
AppendTo(r, h) == [r EXCEPT !.lo = IF Empty(r) THEN h ELSE r.lo, !.hi = h]

-----------------------------------------------------------------------------
\* Head of all ranges: the last range's, 0 when there is none.
PendingHead(rs) == IF rs = <<>> THEN 0 ELSE RangeHead(rs[Len(rs)])

\* The range Add chooses after it has read the head: none when the header is
\* from the past, the last one when it is adjacent, otherwise a new one.
AddIgnores(rs, h) == PendingHead(rs) >= h
AddExtends(rs, h) == PendingHead(rs) # 0 /\ h = PendingHead(rs) + 1

\* Prune: drop everything up to height, range by range, until one is left with headers.
Prune(rs, height) ==
    LET cut  == [i \in DOMAIN rs |-> Remove(rs[i], height)]
        kept == {i \in DOMAIN rs : ~Empty(cut[i]) /\ \A j \in 1..i - 1 : Empty(cut[j])}
    IN  IF kept = {} THEN <<>>
        ELSE LET k == CHOOSE i \in kept : TRUE
             IN  [i \in 1..Len(rs) - k + 1 |-> IF i = 1 THEN cut[k] ELSE rs[i + k - 1]]

\* First: the ranges without the empty ones in front.
DropEmpty(rs) ==
    LET full == {i \in DOMAIN rs : ~Empty(rs[i])}
        k == CHOOSE i \in full : \A j \in full : i <= j
    IN  IF full = {} THEN <<>> ELSE SubSeq(rs, k, Len(rs))
=============================================================================
