------------------------------- MODULE Interval -------------------------------
(***************************************************************************)
(* The arithmetic of a LIMIT/OFFSET (plan/interval.rs, RowInterval in      *)
(* plan/mod.rs) and of the row range a batch is cut to (RowRange in        *)
(* executor/mod.rs, executor/row_range.rs).                                *)
(*                                                                         *)
(* Counts are u64: U64 is the modulus, and the one addition the code does  *)
(* unchecked, `skip + fetch', wraps at it as a release build does.         *)
(***************************************************************************)
EXTENDS Integers

CONSTANT U64        \* 2^64 in the program

ASSUME U64Assumption == U64 \in Nat \ {0}

Counts == 0 .. U64 - 1

\* `fetch: None', a pure offset.
NoFetch == -1

Intervals == [skip : Counts, fetch : Counts \cup {NoFetch}]

Wrapped(v) == IF v < U64 THEN v ELSE v - U64

SaturatingSub(a, b) == IF a > b THEN a - b ELSE 0

LesserOf(a, b) == IF a < b THEN a ELSE b

\* The row after the last one wanted.
Stop(i) == Wrapped(i.skip + i.fetch)

\* A plausible slip: a limit is let run one row past its stop.
SatisfiedByLate(i, seen) == i.fetch # NoFetch /\ seen > Stop(i)

SatisfiedBy(i, seen) == i.fetch # NoFetch /\ seen >= Stop(i)

\* A plausible slip: emitted rows compared with the stop, skip included.
SatisfiedByEmittedAtStop(i, emitted) == i.fetch # NoFetch /\ emitted >= Stop(i)

SatisfiedByEmitted(i, emitted) == i.fetch # NoFetch /\ emitted >= i.fetch

\* A range of no rows stands for `None': no row of the batch is wanted.
NoRows == [offset |-> 0, length |-> 0]

\* A plausible slip: the stop of the stream taken as the stop of the batch.
RangeOfUnshifted(i, seen, n) ==
    LET start == SaturatingSub(i.skip, seen)
        stop  == IF i.fetch = NoFetch THEN n ELSE LesserOf(n, Stop(i))
    IN  IF start < stop THEN [offset |-> start, length |-> stop - start] ELSE NoRows

\* A plausible slip: the stop not cut to the batch.
RangeOfUncut(i, seen, n) ==
    LET start == SaturatingSub(i.skip, seen)
        stop  == IF i.fetch = NoFetch THEN n ELSE SaturatingSub(Stop(i), seen)
    IN  IF start < stop THEN [offset |-> start, length |-> stop - start] ELSE NoRows

\* Which rows of a batch of n are wanted, `seen' rows having gone before it.
RangeOf(i, seen, n) ==
    LET start == SaturatingSub(i.skip, seen)
        stop  == IF i.fetch = NoFetch THEN n
                 ELSE LesserOf(n, SaturatingSub(Stop(i), seen))
    IN  IF start < stop THEN [offset |-> start, length |-> stop - start] ELSE NoRows

\* A plausible slip: the inner cut not shortened by the outer skip.
OverUnshortened(outer, inner) ==
    [skip  |-> Wrapped(inner.skip + outer.skip),
     fetch |-> IF outer.fetch = NoFetch THEN inner.fetch
               ELSE IF inner.fetch = NoFetch THEN outer.fetch
               ELSE LesserOf(outer.fetch, inner.fetch)]

\* `outer' applied to what `inner' emits, as one interval over inner's input.
Over(outer, inner) ==
    LET left == IF inner.fetch = NoFetch THEN NoFetch
                ELSE SaturatingSub(inner.fetch, outer.skip)
    IN  [skip  |-> Wrapped(inner.skip + outer.skip),
         fetch |-> IF outer.fetch = NoFetch THEN left
                   ELSE IF left = NoFetch THEN outer.fetch
                   ELSE LesserOf(outer.fetch, left)]

\* Whether the range is the whole of a batch of n, so that no cut is made.
Covers(range, n) == range.offset = 0 /\ range.length >= n

\* The rows of a batch of n a range names, as the slice and the export read it.
Clamp(range, n) ==
    LET offset == LesserOf(range.offset, n)
    IN  [offset |-> offset, length |-> LesserOf(range.length, n - offset)]

\* The reference: row k of a stream, counted from 0, is one the interval wants.
Wanted(i, k) == i.skip <= k /\ (i.fetch # NoFetch => k < i.skip + i.fetch)
=============================================================================
