----------------------------- MODULE LimitStream -----------------------------
(***************************************************************************)
(* Two LIMITs, one over the other, as the executors run them (LimitStream  *)
(* in the two backends' accumulate.rs), beside the one interval the        *)
(* planner makes of the pair (RowInterval::over, for a root limit over the *)
(* cut pushed into a scan).                                                *)
(*                                                                         *)
(* A row is its position in the stream the inner limit is handed; a batch  *)
(* is a run of positions.  `passed' are the rows the pair lets through,    *)
(* `fused' the rows the single interval does.                              *)
(***************************************************************************)
EXTENDS Interval

CONSTANTS
    Inners, Outers, \* the intervals the two limits are drawn from
    MaxRows,        \* bound: rows of the stream
    MaxBatch        \* bound: rows of one batch

\* No sum of the two intervals' counts reaches 2^64: skips and fetches are SQL
\* integers, below 2^63, and the cut pushed into a scan has no skip.
Fits(i, o) ==
    /\ i.skip + i.fetch < U64
    /\ o.skip + o.fetch < U64
    /\ i.skip + o.skip < U64
    /\ i.skip + o.skip + o.fetch < U64
    /\ i.skip + o.skip + i.fetch < U64

ASSUME LimitAssumption ==
    /\ Inners \subseteq Intervals /\ Outers \subseteq Intervals
    /\ \A i \in Inners : \A o \in Outers : Fits(i, o)
    /\ MaxRows \in Nat /\ MaxBatch \in Nat

VARIABLES
    inner, outer,   \* the two intervals, fixed when the plan is built
    seen,           \* rows the inner limit was handed
    seen_outer,     \* rows the outer limit was handed
    passed,         \* positions the pair let through
    fused           \* positions the one interval let through

vars == <<inner, outer, seen, seen_outer, passed, fused>>

TypeOK ==
    /\ inner \in Inners /\ outer \in Outers
    /\ seen \in 0 .. MaxRows
    /\ seen_outer \in 0 .. seen
    /\ passed \subseteq 0 .. seen - 1
    /\ fused \subseteq 0 .. seen - 1

Init ==
    /\ inner \in Inners /\ outer \in Outers
    /\ seen = 0
    /\ seen_outer = 0
    /\ passed = {}
    /\ fused = {}

\* The positions a limit lets through of a batch of n rows that starts at
\* position `at': none, all of them, or the slice.
Kept(range, n, at) ==
    LET cut == IF Covers(range, n) THEN [offset |-> 0, length |-> n]
               ELSE Clamp(range, n)
    IN  IF range = NoRows THEN {}
        ELSE at + cut.offset .. at + cut.offset + cut.length - 1

\* A plausible slip: a batch the outer limit drops is not counted as seen.
ArriveUncounted(n) ==
    LET first  == RangeOf(inner, seen, n)
        second == RangeOf(outer, seen_outer, first.length)
        one    == RangeOf(Over(outer, inner), seen, n)
    IN  /\ seen + n <= MaxRows
        /\ seen' = seen + n
        /\ seen_outer' = IF second = NoRows THEN seen_outer ELSE seen_outer + first.length
        /\ passed' = passed \cup Kept(second, first.length, seen + first.offset)
        /\ fused' = fused \cup Kept(one, n, seen)
        /\ UNCHANGED <<inner, outer>>

\* A batch of n rows arrives: the inner limit drops, forwards or slices it,
\* and what it emits arrives at the outer one.  Both count what they are
\* handed whatever they keep of it.
Arrive(n) ==
    LET first  == RangeOf(inner, seen, n)
        second == RangeOf(outer, seen_outer, first.length)
        one    == RangeOf(Over(outer, inner), seen, n)
    IN  /\ seen + n <= MaxRows
        /\ seen' = seen + n
        /\ seen_outer' = seen_outer + first.length
        /\ passed' = passed \cup Kept(second, first.length, seen + first.offset)
        /\ fused' = fused \cup Kept(one, n, seen)
        /\ UNCHANGED <<inner, outer>>

Next == \E n \in 0 .. MaxBatch : Arrive(n)

Spec == Init /\ [][Next]_vars

-----------------------------------------------------------------------------
\* The rows of the stream the pair wants: the inner's rows, counted anew for
\* the outer.
PairWants(k) == Wanted(inner, k) /\ Wanted(outer, k - inner.skip)

\* However the stream is cut into batches, two stacked limits let through
\* exactly the rows LIMIT over LIMIT names (LimitStream::accumulate_and_fetch).
PairIsExact == passed = {k \in 0 .. seen - 1 : PairWants(k)}

\* The fused interval lets through the same rows as the pair it replaces
\* (RowInterval::over): the planner may run one cut in place of two.
FusedIsPair == fused = passed

\* Early exit is safe and judged in time: an interval is satisfied by the rows
\* it was handed exactly when no later row can be one it wants
\* (satisfied_by, what an unload is judged by).
SatisfiedIsFinal ==
    LET one == Over(outer, inner)
    IN  one.fetch # 0 =>
          (SatisfiedBy(one, seen) <=> \A k \in seen .. U64 - 1 : ~Wanted(one, k))

\* Judging a limit by what it emitted stops it at the same point as judging it
\* by what it was handed, for every interval that wants a row at all
\* (satisfied_by_emitted against satisfied_by).
EmittedAgrees ==
    inner.fetch # 0 =>
        (SatisfiedByEmitted(inner, seen_outer) <=> SatisfiedBy(inner, seen))

\* The outer limit was handed exactly the rows the inner one wanted so far.
OuterCount ==
    seen_outer = IF seen <= inner.skip THEN 0
                 ELSE IF inner.fetch = NoFetch THEN seen - inner.skip
                 ELSE LesserOf(seen - inner.skip, inner.fetch)

\* The inductive invariant.
IInv == TypeOK /\ OuterCount /\ PairIsExact /\ FusedIsPair
=============================================================================
