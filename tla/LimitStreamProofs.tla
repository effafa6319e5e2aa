-------------------------- MODULE LimitStreamProofs --------------------------
(***************************************************************************)
(* A limit lets through exactly the rows it names, and one fused interval  *)
(* is the pair it replaces: for every interval, stream and cut into        *)
(* batches.                                                                *)
(***************************************************************************)
EXTENDS LimitStream, TLAPS

\* An interval of the plan whose stop does not wrap.
Sound(i) == i \in Intervals /\ i.skip + i.fetch < U64

LEMMA SoundFields ==
  ASSUME NEW i, Sound(i)
  PROVE  /\ i.skip \in Nat
         /\ i.fetch \in Nat \/ i.fetch = NoFetch
         /\ i.fetch \in Int
         /\ i.fetch # NoFetch => i.fetch \in Nat /\ Stop(i) = i.skip + i.fetch
  <1>1. i.skip \in Nat /\ (i.fetch \in Nat \/ i.fetch = NoFetch)
    BY U64Assumption DEF Sound, Intervals, Counts
  <1>2. i.fetch \in Int
    BY <1>1 DEF NoFetch
  <1> QED BY <1>1, <1>2 DEF Sound, Stop, Wrapped, NoFetch

\* The range the driver or a limit asks for lies inside the batch and is never
\* an empty one: the protocol error of run_lane_scoped cannot be reached.
LEMMA RangeInBatch ==
  ASSUME NEW i, Sound(i), NEW s \in Nat, NEW n \in Nat,
         RangeOf(i, s, n) # NoRows
  PROVE  /\ RangeOf(i, s, n).offset \in Nat
         /\ RangeOf(i, s, n).length \in Nat \ {0}
         /\ RangeOf(i, s, n).offset + RangeOf(i, s, n).length <= n
  BY SoundFields DEF RangeOf, SaturatingSub, LesserOf, NoRows

LEMMA RangeType ==
  ASSUME NEW i, Sound(i), NEW s \in Nat, NEW n \in Nat
  PROVE  /\ RangeOf(i, s, n).offset \in Nat
         /\ RangeOf(i, s, n).length \in Nat
         /\ RangeOf(i, s, n).offset + RangeOf(i, s, n).length <= n
         /\ RangeOf(i, s, n) = NoRows <=> RangeOf(i, s, n).length = 0
  <1>1. CASE RangeOf(i, s, n) = NoRows
    BY <1>1 DEF NoRows
  <1>2. CASE RangeOf(i, s, n) # NoRows
    BY <1>2, RangeInBatch
  <1> QED BY <1>1, <1>2

\* A row of the batch is in the range exactly when the interval wants it.
LEMMA RangeExact ==
  ASSUME NEW i, Sound(i), NEW s \in Nat, NEW n \in Nat, NEW k \in 0 .. n - 1
  PROVE  Wanted(i, s + k) <=>
           /\ RangeOf(i, s, n).offset <= k
           /\ k < RangeOf(i, s, n).offset + RangeOf(i, s, n).length
  BY SoundFields DEF RangeOf, SaturatingSub, LesserOf, NoRows, Wanted, NoFetch

\* What a limit keeps of a batch is what the interval wants of it.
LEMMA KeptExact ==
  ASSUME NEW i, Sound(i), NEW s \in Nat, NEW n \in Nat, NEW at \in Nat
  PROVE  Kept(RangeOf(i, s, n), n, at)
           = {k \in at .. at + n - 1 : Wanted(i, s + (k - at))}
  <1> DEFINE r == RangeOf(i, s, n)
  <1>1. /\ r.offset \in Nat /\ r.length \in Nat /\ r.offset + r.length <= n
        /\ r = NoRows <=> r.length = 0
    BY RangeType
  <1>2. \A k \in at .. at + n - 1 :
          Wanted(i, s + (k - at)) <=> r.offset <= k - at /\ k - at < r.offset + r.length
    <2> TAKE k \in at .. at + n - 1
    <2>1. k - at \in 0 .. n - 1
      OBVIOUS
    <2> QED BY <2>1, RangeExact
  <1>3. Kept(r, n, at) = IF r.length = 0 THEN {}
                         ELSE at + r.offset .. at + r.offset + r.length - 1
    <2> HIDE DEF r
    <2>1. CASE r = NoRows
      BY <1>1, <2>1 DEF Kept
    <2>2. CASE r # NoRows /\ Covers(r, n)
      BY <1>1, <2>2 DEF Kept, Covers
    <2>3. CASE r # NoRows /\ ~Covers(r, n)
      BY <1>1, <2>3 DEF Kept, Covers, Clamp, LesserOf
    <2> QED BY <2>1, <2>2, <2>3
  <1> HIDE DEF r
  <1>4. Kept(r, n, at) = {k \in at .. at + n - 1 : Wanted(i, s + (k - at))}
    <2> DEFINE W == {k \in at .. at + n - 1 : Wanted(i, s + (k - at))}
    <2>1. ASSUME NEW k, k \in Kept(r, n, at) PROVE k \in W
      <3>1. k \in at .. at + n - 1 /\ r.offset <= k - at /\ k - at < r.offset + r.length
        BY <2>1, <1>1, <1>3
      <3> QED BY <3>1, <1>2
    <2>2. ASSUME NEW k, k \in W PROVE k \in Kept(r, n, at)
      <3>1. k \in at .. at + n - 1 /\ r.offset <= k - at /\ k - at < r.offset + r.length
        BY <2>2, <1>2
      <3> QED BY <3>1, <1>1, <1>3
    <2> QED BY <2>1, <2>2
  <1> QED BY <1>4 DEF r

LEMMA IntervalsSound ==
  ASSUME NEW i \in Inners, NEW o \in Outers
  PROVE  Sound(i) /\ Sound(o) /\ Fits(i, o)
  BY LimitAssumption DEF Sound, Fits

\* One interval over another wants the rows the pair wants.
LEMMA OverExact ==
  ASSUME NEW i \in Inners, NEW o \in Outers
  PROVE  /\ Sound(Over(o, i))
         /\ \A k \in Nat : Wanted(Over(o, i), k) <=> Wanted(i, k) /\ Wanted(o, k - i.skip)
  <1>1. Sound(i) /\ Sound(o) /\ Fits(i, o)
    BY IntervalsSound
  <1>2. /\ i.skip \in Nat /\ o.skip \in Nat /\ U64 \in Nat
        /\ i.fetch \in Nat \/ i.fetch = NoFetch
        /\ o.fetch \in Nat \/ o.fetch = NoFetch
    BY <1>1, SoundFields, U64Assumption
  <1>3. i.fetch < U64 /\ o.fetch < U64
    BY <1>1, U64Assumption DEF Sound, Intervals, Counts, NoFetch
  <1>4. Over(o, i).skip = i.skip + o.skip
    BY <1>1, <1>2 DEF Over, Wrapped, Fits
  <1>5. Over(o, i).fetch =
          IF o.fetch = NoFetch
            THEN IF i.fetch = NoFetch THEN NoFetch ELSE SaturatingSub(i.fetch, o.skip)
            ELSE IF i.fetch = NoFetch THEN o.fetch
                 ELSE LesserOf(o.fetch, SaturatingSub(i.fetch, o.skip))
    BY <1>2 DEF Over, SaturatingSub, NoFetch
  <1>6. Over(o, i).fetch \in Counts \cup {NoFetch}
    BY <1>2, <1>3, <1>5 DEF SaturatingSub, LesserOf, Counts, NoFetch
  <1>7. Sound(Over(o, i))
    <2>1. Over(o, i) = [skip |-> Over(o, i).skip, fetch |-> Over(o, i).fetch]
      BY DEF Over
    <2>2. Over(o, i).skip \in Counts
      BY <1>1, <1>2, <1>4 DEF Counts, Fits
    <2>3. Over(o, i).skip + Over(o, i).fetch < U64
      BY <1>1, <1>2, <1>4, <1>5 DEF Fits, SaturatingSub, LesserOf, NoFetch
    <2> QED BY <2>1, <2>2, <2>3, <1>6 DEF Sound, Intervals
  <1>8. ASSUME NEW k \in Nat
        PROVE  Wanted(Over(o, i), k) <=> Wanted(i, k) /\ Wanted(o, k - i.skip)
    BY <1>2, <1>4, <1>5 DEF Wanted, SaturatingSub, LesserOf, NoFetch
  <1> QED BY <1>7, <1>8

LEMMA InitIInv == Init => IInv
  <1> SUFFICES ASSUME Init PROVE IInv
    OBVIOUS
  <1>1. inner \in Inners /\ outer \in Outers /\ inner.skip \in Nat
    BY IntervalsSound, SoundFields DEF Init
  <1> QED BY <1>1, LimitAssumption
          DEF Init, IInv, TypeOK, OuterCount, PairIsExact, FusedIsPair

\* A batch's worth of rows: where the inner limit's slice of it starts, and
\* what the outer limit had been handed by then.
LEMMA SliceStart ==
  ASSUME IInv, NEW n \in Nat
  PROVE  /\ RangeOf(inner, seen, n).length > 0
              => seen + RangeOf(inner, seen, n).offset = inner.skip + seen_outer
         /\ seen_outer + RangeOf(inner, seen, n).length =
              IF seen + n <= inner.skip THEN 0
              ELSE IF inner.fetch = NoFetch THEN seen + n - inner.skip
              ELSE LesserOf(seen + n - inner.skip, inner.fetch)
  <1>1. Sound(inner) /\ seen \in Nat /\ seen_outer \in Nat
    BY IntervalsSound, LimitAssumption DEF IInv, TypeOK
  <1>2. /\ inner.skip \in Nat /\ inner.fetch \in Int
        /\ inner.fetch # NoFetch => inner.fetch \in Nat /\ Stop(inner) = inner.skip + inner.fetch
    BY <1>1, SoundFields
  <1> QED BY <1>1, <1>2
          DEF IInv, OuterCount, RangeOf, SaturatingSub, LesserOf, NoRows, NoFetch

\* One batch adds to both sets exactly its rows that the pair wants.
LEMMA ArriveAdds ==
  ASSUME IInv, NEW n \in Nat, Arrive(n)
  PROVE  LET new == {k \in seen .. seen + n - 1 : PairWants(k)}
         IN  passed' = passed \cup new /\ fused' = fused \cup new
  <1> DEFINE first  == RangeOf(inner, seen, n)
             second == RangeOf(outer, seen_outer, first.length)
             one    == RangeOf(Over(outer, inner), seen, n)
             from   == seen + first.offset
             new    == {k \in seen .. seen + n - 1 : PairWants(k)}
  <1>1. /\ inner \in Inners /\ outer \in Outers
        /\ seen \in Nat /\ seen_outer \in Nat
    BY LimitAssumption DEF IInv, TypeOK
  <1>2. Sound(inner) /\ Sound(outer) /\ inner.skip \in Nat
    BY <1>1, IntervalsSound, SoundFields
  <1>3. /\ first.offset \in Nat /\ first.length \in Nat
        /\ first.offset + first.length <= n
    BY <1>1, <1>2, RangeType
  <1>4. \A k \in seen .. seen + n - 1 :
          Wanted(inner, k) <=> k \in from .. from + first.length - 1
    <2> TAKE k \in seen .. seen + n - 1
    <2>1. k - seen \in 0 .. n - 1 /\ seen + (k - seen) = k
      BY <1>1
    <2>2. Wanted(inner, k) <=>
            first.offset <= k - seen /\ k - seen < first.offset + first.length
      BY <2>1, <1>1, <1>2, RangeExact
    <2> HIDE DEF first
    <2> QED BY <2>2, <1>1, <1>3
  <1>5. Kept(second, first.length, from)
          = {k \in from .. from + first.length - 1 : Wanted(outer, seen_outer + (k - from))}
    <2>1. from \in Nat
      BY <1>1, <1>3
    <2>2. \A m \in Nat : \A at \in Nat :
            Kept(RangeOf(outer, seen_outer, m), m, at)
              = {k \in at .. at + m - 1 : Wanted(outer, seen_outer + (k - at))}
      BY <1>1, <1>2, KeptExact
    <2> HIDE DEF first, from
    <2> QED BY <2>1, <2>2, <1>3
  <1>6. first.length > 0 => from = inner.skip + seen_outer
    BY SliceStart
  <1>7. Kept(second, first.length, from) = new
    <2> HIDE DEF first, second
    <2>1. ASSUME NEW k \in from .. from + first.length - 1
          PROVE  k \in seen .. seen + n - 1 /\ seen_outer + (k - from) = k - inner.skip
      BY <1>1, <1>2, <1>3, <1>6
    <2> QED BY <2>1, <1>4, <1>5 DEF PairWants
  <1>8. Kept(one, n, seen) = {k \in seen .. seen + n - 1 : Wanted(Over(outer, inner), seen + (k - seen))}
    BY <1>1, OverExact, KeptExact
  <1>9. \A k \in seen .. seen + n - 1 :
          k \in Nat /\ seen + (k - seen) = k
    BY <1>1
  <1>10. Kept(one, n, seen) = new
    <2> HIDE DEF one
    <2> QED BY <1>1, <1>8, <1>9, OverExact DEF PairWants
  <1> QED BY <1>7, <1>10 DEF Arrive

LEMMA NextIInv == IInv /\ [Next]_vars => IInv'
  <1> SUFFICES ASSUME IInv, [Next]_vars PROVE IInv'
    OBVIOUS
  <1>1. ASSUME NEW n \in 0 .. MaxBatch, Arrive(n) PROVE IInv'
    <2> DEFINE new == {k \in seen .. seen + n - 1 : PairWants(k)}
    <2>1. n \in Nat /\ seen \in Nat /\ seen_outer \in Nat /\ MaxRows \in Nat
      BY LimitAssumption DEF IInv, TypeOK
    <2>2. /\ seen' = seen + n /\ seen' <= MaxRows
          /\ inner' = inner /\ outer' = outer
          /\ seen_outer' = seen_outer + RangeOf(inner, seen, n).length
      BY <1>1 DEF Arrive
    <2>3. passed' = passed \cup new /\ fused' = fused \cup new
      BY <1>1, <2>1, ArriveAdds
    <2>4. OuterCount'
      <3>1. seen_outer + RangeOf(inner, seen, n).length =
              IF seen + n <= inner.skip THEN 0
              ELSE IF inner.fetch = NoFetch THEN seen + n - inner.skip
              ELSE LesserOf(seen + n - inner.skip, inner.fetch)
        BY <2>1, SliceStart
      <3>2. inner.skip \in Nat /\ inner.fetch \in Int
        BY IntervalsSound, SoundFields DEF IInv, TypeOK
      <3>3. inner'.skip = inner.skip /\ inner'.fetch = inner.fetch
        BY <2>2
      <3> QED BY <2>1, <2>2, <3>1, <3>2, <3>3 DEF OuterCount, LesserOf, NoFetch
    <2>5. PairIsExact' /\ FusedIsPair'
      <3>1. \A k : k \in 0 .. seen' - 1 <=> k \in 0 .. seen - 1 \/ k \in seen .. seen + n - 1
        BY <2>1, <2>2
      <3>2. \A k : PairWants(k)' <=> PairWants(k)
        BY <2>2 DEF PairWants, Wanted
      <3> QED BY <2>3, <3>1, <3>2 DEF IInv, PairIsExact, FusedIsPair
    <2>6. TypeOK'
      <3>1. RangeOf(inner, seen, n).length \in Nat /\ RangeOf(inner, seen, n).length <= n
        <4>1. Sound(inner)
          BY IntervalsSound DEF IInv, TypeOK
        <4> DEFINE first == RangeOf(inner, seen, n)
        <4>2. first.offset \in Nat /\ first.length \in Nat /\ first.offset + first.length <= n
          BY <4>1, <2>1, RangeType
        <4>3. first.length \in Nat /\ first.length <= n
          <5> HIDE DEF first
          <5> QED BY <4>2, <2>1
        <4> QED BY <4>3
      <3>2. seen' \in 0 .. MaxRows /\ seen_outer' \in 0 .. seen'
        BY <2>1, <2>2, <3>1 DEF IInv, TypeOK
      <3>3. passed' \subseteq 0 .. seen' - 1 /\ fused' \subseteq 0 .. seen' - 1
        <4>1. new \subseteq 0 .. seen' - 1 /\ 0 .. seen - 1 \subseteq 0 .. seen' - 1
          BY <2>1, <2>2
        <4>2. passed \subseteq 0 .. seen - 1 /\ fused \subseteq 0 .. seen - 1
          BY DEF IInv, TypeOK
        <4> HIDE DEF new
        <4> QED BY <2>3, <4>1, <4>2
      <3> QED BY <2>2, <3>2, <3>3 DEF IInv, TypeOK
    <2> QED BY <2>4, <2>5, <2>6 DEF IInv
  <1>2. CASE UNCHANGED vars
    BY <1>2 DEF vars, IInv, TypeOK, OuterCount, PairIsExact, FusedIsPair, PairWants
  <1> QED BY <1>1, <1>2 DEF Next

\* The inductive invariant of the pair of limits.
THEOREM LimitInvariant == Spec => []IInv
  BY InitIInv, NextIInv, PTL DEF Spec

\* For every two intervals, and however their stream is cut into batches, the
\* stacked limits let through exactly the rows they name.
THEOREM LimitsAreExact == Spec => []PairIsExact
  <1>1. IInv => PairIsExact
    BY DEF IInv
  <1> QED BY <1>1, LimitInvariant, PTL

\* Replacing a root limit and the cut pushed below it by one interval changes
\* no row of the answer.
THEOREM FusionIsExact == Spec => []FusedIsPair
  <1>1. IInv => FusedIsPair
    BY DEF IInv
  <1> QED BY <1>1, LimitInvariant, PTL

\* The driver may judge a mid-plan limit by what it emitted: that is the same
\* moment its input reaches the end of the interval.
THEOREM EmittedCountAgrees == Spec => []EmittedAgrees
  <1>1. IInv => EmittedAgrees
    <2> SUFFICES ASSUME IInv PROVE EmittedAgrees
      OBVIOUS
    <2>1. Sound(inner) /\ seen \in Nat /\ seen_outer \in Nat
      BY IntervalsSound, LimitAssumption DEF IInv, TypeOK
    <2>2. /\ inner.skip \in Nat /\ inner.fetch \in Int
          /\ inner.fetch # NoFetch => inner.fetch \in Nat /\ Stop(inner) = inner.skip + inner.fetch
      BY <2>1, SoundFields
    <2> QED BY <2>1, <2>2
            DEF IInv, OuterCount, EmittedAgrees, SatisfiedBy, SatisfiedByEmitted, LesserOf
  <1> QED BY <1>1, LimitInvariant, PTL
=============================================================================
