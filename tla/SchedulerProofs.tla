--------------------------- MODULE SchedulerProofs ---------------------------
(***************************************************************************)
(* The incremental schedule equals the rescan, for every plan shape.       *)
(***************************************************************************)
EXTENDS Scheduler, FiniteSetTheorems, TLAPS

\* The joins still building above node n, and the satisfied limits at or above
\* it: the sets the two hold counters count.
BuildHolders(n) == {j \in JoinNodes : building[j] > 0 /\ n \in ProbeNodes(j)}
LimitHolders(n) == {s \in satisfied : n \in Subtree(s)}

\* Every set the counters count is finite.
LEMMA NodesFinite == IsFiniteSet(Nodes) /\ IsFiniteSet(JoinNodes)
  <1>1. NodeCount \in Int /\ JoinNodes \in SUBSET Nodes
    BY ShapeAssumption
  <1>2. IsFiniteSet(1 .. NodeCount)
    BY <1>1, FS_Interval
  <1>3. IsFiniteSet(Nodes)
    BY <1>2 DEF Nodes
  <1>4. IsFiniteSet(JoinNodes)
    BY <1>1, <1>3, FS_Subset
  <1> QED BY <1>3, <1>4

LEMMA LanesFinite ==
  ASSUME NEW n \in Nodes, NEW R, R \subseteq LanesOf(n)
  PROVE  IsFiniteSet(R)
  <1>1. ReadyLanes[n] \in Int
    BY ShapeAssumption
  <1>2. IsFiniteSet(1 .. ReadyLanes[n])
    BY <1>1, FS_Interval
  <1>3. IsFiniteSet(LanesOf(n))
    BY <1>2 DEF LanesOf
  <1> QED BY <1>3, FS_Subset

\* A finite set's cardinality is a natural number, zero only when it is empty.
LEMMA CardNat ==
  ASSUME NEW S, IsFiniteSet(S)
  PROVE  /\ Cardinality(S) \in Nat
         /\ Cardinality(S) = 0 <=> S = {}
         /\ Cardinality(S) > 0 <=> S # {}
  <1>1. Cardinality(S) \in Nat
    BY FS_CardinalityType
  <1>2. Cardinality(S) = 0 <=> S = {}
    BY FS_EmptySet
  <1> QED BY <1>1, <1>2

\* Replacing the ready lanes A by B moves the count by what arrives less what
\* leaves: the sum of the per-lane increments of `set_lane_ready'.
LEMMA CardReplace ==
  ASSUME NEW A, NEW B, IsFiniteSet(A), IsFiniteSet(B)
  PROVE  Cardinality(A) + Cardinality(B \ A) - Cardinality(A \ B) = Cardinality(B)
  <1>1. IsFiniteSet(A \cap B) /\ IsFiniteSet(A \ B) /\ IsFiniteSet(B \ A)
    BY FS_Subset, FS_Intersection, FS_Difference
  <1>2. Cardinality(A \ B) = Cardinality(A) - Cardinality(A \cap B)
    BY FS_Difference
  <1>3. Cardinality(B \ A) = Cardinality(B) - Cardinality(B \cap A)
    BY FS_Difference
  <1>4. Cardinality(B \cap A) = Cardinality(A \cap B)
    <2>1. B \cap A = A \cap B
      OBVIOUS
    <2> QED BY <2>1
  <1>5. Cardinality(A) \in Nat /\ Cardinality(B) \in Nat /\ Cardinality(A \cap B) \in Nat
    BY <1>1, CardNat
  <1> QED BY <1>2, <1>3, <1>4, <1>5

LEMMA InitIInv == Init => IInv
  <1> SUFFICES ASSUME Init PROVE IInv
    OBVIOUS
  <1> USE DEF Init
  <1>1. \A n \in Nodes : BuildHolders(n) = {j \in JoinNodes : n \in ProbeNodes(j)}
    BY ShapeAssumption DEF BuildHolders
  <1>2. \A n \in Nodes : IsFiniteSet({j \in JoinNodes : n \in ProbeNodes(j)})
    BY NodesFinite, FS_Subset
  <1>3. \A n \in Nodes : Cardinality({j \in JoinNodes : n \in ProbeNodes(j)}) \in Nat
    BY <1>2, CardNat
  <1>4. TypeOK
    BY <1>3, ShapeAssumption DEF TypeOK, LanesOf
  <1>5. ReadyCounted
    BY FS_EmptySet DEF ReadyCounted
  <1>6. BuildCounted
    BY <1>1 DEF BuildCounted, BuildHolders
  <1>7. LimitCounted
    <2> SUFFICES ASSUME NEW n \in Nodes
                 PROVE  limit_holds[n] = Cardinality({s \in satisfied : n \in Subtree(s)})
      BY DEF LimitCounted
    <2>1. {s \in satisfied : n \in Subtree(s)} = {}
      OBVIOUS
    <2> QED BY <2>1, FS_EmptySet
  <1>8. WordsAreRescan
    BY DEF WordsAreRescan, Runnable
  <1> QED BY <1>4, <1>5, <1>6, <1>7, <1>8 DEF IInv, CountersExact

\* The words re-read over S after a step: if the counters after it are exact,
\* and outside S nothing a node's bit depends on has moved, the
\* refreshed words are the rescan.
LEMMA RefreshIsRescan ==
  ASSUME IInv, TypeOK', CountersExact', NEW S \in SUBSET Nodes,
         words' = Refreshed(S, ready_lanes', build_holds', limit_holds'),
         \A n \in Nodes \ S : /\ lane_ready'[n] = lane_ready[n]
                              /\ BuildHeld(n)' <=> BuildHeld(n)
                              /\ LimitHeld(n)' <=> LimitHeld(n)
  PROVE  WordsAreRescan'
  <1>1. \A n \in Nodes : /\ ready_lanes'[n] > 0 <=> lane_ready'[n] # {}
                         /\ build_holds'[n] = 0 <=> ~BuildHeld(n)'
                         /\ limit_holds'[n] = 0 <=> ~LimitHeld(n)'
    <2> SUFFICES ASSUME NEW n \in Nodes
                 PROVE  /\ ready_lanes'[n] > 0 <=> lane_ready'[n] # {}
                        /\ build_holds'[n] = 0 <=> ~BuildHeld(n)'
                        /\ limit_holds'[n] = 0 <=> ~LimitHeld(n)'
      OBVIOUS
    <2> USE DEF CountersExact
    <2>1. IsFiniteSet(lane_ready'[n])
      BY LanesFinite DEF TypeOK
    <2>2. IsFiniteSet(BuildHolders(n)')
      BY NodesFinite, FS_Subset DEF BuildHolders
    <2>3. IsFiniteSet(LimitHolders(n)')
      BY NodesFinite, FS_Subset DEF LimitHolders, TypeOK
    <2>4. BuildHeld(n)' <=> BuildHolders(n)' # {}
      BY DEF BuildHeld, BuildHolders
    <2>5. LimitHeld(n)' <=> LimitHolders(n)' # {}
      BY DEF LimitHeld, LimitHolders
    <2>6. build_holds'[n] = Cardinality(BuildHolders(n)')
      BY DEF BuildCounted, BuildHolders
    <2>7. limit_holds'[n] = Cardinality(LimitHolders(n)')
      BY DEF LimitCounted, LimitHolders
    <2>8. ready_lanes'[n] = Cardinality(lane_ready'[n])
      BY DEF ReadyCounted
    <2>9. ready_lanes'[n] > 0 <=> lane_ready'[n] # {}
      BY <2>1, <2>8, CardNat
    <2>10. build_holds'[n] = 0 <=> ~BuildHeld(n)'
      BY <2>2, <2>4, <2>6, CardNat
    <2>11. limit_holds'[n] = 0 <=> ~LimitHeld(n)'
      BY <2>3, <2>5, <2>7, CardNat
    <2> QED BY <2>9, <2>10, <2>11
  <1> SUFFICES ASSUME NEW n \in Nodes PROVE n \in words' <=> Runnable(n)'
    BY DEF WordsAreRescan
  <1>2. CASE n \in S
    BY <1>1, <1>2 DEF Refreshed, Runnable
  <1>3. CASE n \notin S
    <2>1. n \in words' <=> n \in words
      BY <1>3 DEF Refreshed
    <2>2. n \in words <=> Runnable(n)
      BY DEF IInv, WordsAreRescan
    <2> QED BY <2>1, <2>2, <1>3 DEF Runnable
  <1> QED BY <1>2, <1>3

LEMMA RangesInPlan ==
  /\ \A n \in Nodes : Subtree(n) \in SUBSET Nodes
  /\ \A j \in JoinNodes : ProbeNodes(j) \in SUBSET Nodes
  <1>1. ASSUME NEW n \in Nodes PROVE Subtree(n) \in SUBSET Nodes
    <2>1. /\ NodeCount \in Nat
          /\ n \in Int /\ 1 <= n
          /\ SubtreeEnd[n] \in Int /\ SubtreeEnd[n] - 1 <= NodeCount
      BY ShapeAssumption DEF Nodes
    <2>2. \A k \in n .. SubtreeEnd[n] - 1 : k \in 1 .. NodeCount
      BY <2>1
    <2> QED BY <2>2 DEF Nodes, Subtree
  <1>2. \A j \in JoinNodes : ProbeStart[j] \in Nodes /\ ProbeNodes(j) = Subtree(ProbeStart[j])
    BY ShapeAssumption DEF ProbeNodes, Subtree
  <1> QED BY <1>1, <1>2

\* `set_lane_ready' over the lanes of a node keeps the invariant.
LEMMA SetLanesReadyIInv ==
  ASSUME IInv, NEW m \in Nodes, NEW R \in SUBSET LanesOf(m), SetLanesReady(m, R)
  PROVE  IInv'
  <1> DEFINE old == lane_ready[m]
  <1> USE DEF IInv, CountersExact
  <1>1. /\ lane_ready' = [lane_ready EXCEPT ![m] = R]
        /\ ready_lanes' = [ready_lanes EXCEPT
                             ![m] = @ + Cardinality(R \ old) - Cardinality(old \ R)]
        /\ UNCHANGED <<build_holds, limit_holds, building, satisfied>>
    BY DEF SetLanesReady
  <1>2. IsFiniteSet(R) /\ IsFiniteSet(old)
    BY LanesFinite DEF TypeOK
  <1>3. ready_lanes[m] = Cardinality(old)
    BY DEF ReadyCounted
  <1>4. ready_lanes[m] + Cardinality(R \ old) - Cardinality(old \ R) = Cardinality(R)
    BY <1>2, <1>3, CardReplace
  <1>5. ready_lanes' = [ready_lanes EXCEPT ![m] = Cardinality(R)]
    BY <1>1, <1>4
  <1>6. Cardinality(R) \in Nat
    BY <1>2, CardNat
  <1>7. words' \subseteq Nodes
    BY DEF SetLanesReady, Refreshed, TypeOK
  <1>8. TypeOK'
    <2>1. R \in SUBSET Nat
      BY ShapeAssumption DEF LanesOf
    <2>2. lane_ready' \in [Nodes -> SUBSET Nat]
      BY <1>1, <2>1 DEF TypeOK
    <2>3. \A n \in Nodes : lane_ready'[n] \subseteq LanesOf(n)
      BY <1>1 DEF TypeOK
    <2>4. ready_lanes' \in [Nodes -> Nat]
      BY <1>5, <1>6 DEF TypeOK
    <2> QED BY <1>1, <1>7, <2>2, <2>3, <2>4 DEF TypeOK
  <1>9. ReadyCounted'
    BY <1>1, <1>5 DEF ReadyCounted, TypeOK
  <1>10. BuildCounted' /\ LimitCounted'
    BY <1>1 DEF BuildCounted, LimitCounted
  <1>11. \A n \in Nodes : (BuildHeld(n)' <=> BuildHeld(n)) /\ (LimitHeld(n)' <=> LimitHeld(n))
    BY <1>1 DEF BuildHeld, LimitHeld
  <1>12. WordsAreRescan'
    <2>1. CASE R = old
      <3>1. lane_ready' = lane_ready /\ words' = words
        BY <1>1, <2>1 DEF SetLanesReady, TypeOK
      <3> QED BY <3>1, <1>11 DEF WordsAreRescan, Runnable
    <2>2. CASE R # old
      <3>1. words' = Refreshed({m}, ready_lanes', build_holds', limit_holds')
        BY <2>2, <1>1 DEF SetLanesReady
      <3>2. \A n \in Nodes \ {m} : lane_ready'[n] = lane_ready[n]
        BY <1>1 DEF TypeOK
      <3>3. {m} \in SUBSET Nodes
        OBVIOUS
      <3>4. CountersExact'
        BY <1>9, <1>10
      <3> HIDE DEF IInv, CountersExact
      <3> QED BY <3>1, <3>2, <3>3, <3>4, <1>8, <1>11, RefreshIsRescan
    <2> QED BY <2>1, <2>2
  <1> QED BY <1>8, <1>9, <1>10, <1>12

\* A join lane leaving its build phase keeps the invariant: until the last one
\* nothing is lifted, and the last lifts exactly this join's count.
LEMMA LaneLeftBuildIInv ==
  ASSUME IInv, NEW j \in JoinNodes, LaneLeftBuild(j)
  PROVE  IInv'
  <1> USE DEF IInv, CountersExact
  <1> DEFINE last == building[j] = 1
  <1>1. /\ building[j] > 0
        /\ building' = [building EXCEPT ![j] = @ - 1]
        /\ UNCHANGED <<lane_ready, ready_lanes, limit_holds, satisfied>>
    BY DEF LaneLeftBuild
  <1>2. build_holds' = [n \in Nodes |-> IF n \in ProbeNodes(j) /\ last
                                          THEN build_holds[n] - 1
                                          ELSE build_holds[n]]
    BY DEF LaneLeftBuild
  <1>3. building' \in [JoinNodes -> Nat]
    BY <1>1 DEF TypeOK
  <1>4. \A i \in JoinNodes : building'[i] > 0 <=> building[i] > 0 /\ ~(i = j /\ last)
    BY <1>1 DEF TypeOK
  <1>5. \A n \in Nodes : BuildHolders(n)' = IF n \in ProbeNodes(j) /\ last
                                              THEN BuildHolders(n) \ {j}
                                              ELSE BuildHolders(n)
    <2> SUFFICES ASSUME NEW n \in Nodes
                 PROVE  BuildHolders(n)' = IF n \in ProbeNodes(j) /\ last
                                             THEN BuildHolders(n) \ {j}
                                             ELSE BuildHolders(n)
      OBVIOUS
    <2>1. \A i : i \in BuildHolders(n)' <=>
                   i \in JoinNodes /\ building'[i] > 0 /\ n \in ProbeNodes(i)
      BY DEF BuildHolders, ProbeNodes
    <2>2. \A i : i \in BuildHolders(n) <=>
                   i \in JoinNodes /\ building[i] > 0 /\ n \in ProbeNodes(i)
      BY DEF BuildHolders
    <2> QED BY <2>1, <2>2, <1>4
  <1>6. \A n \in Nodes : IsFiniteSet(BuildHolders(n))
    BY NodesFinite, FS_Subset DEF BuildHolders
  <1>7. \A n \in Nodes : build_holds[n] = Cardinality(BuildHolders(n))
    BY DEF BuildCounted, BuildHolders
  <1>8. \A n \in Nodes : /\ build_holds'[n] = Cardinality(BuildHolders(n)')
                         /\ build_holds'[n] \in Nat
    <2> SUFFICES ASSUME NEW n \in Nodes
                 PROVE  /\ build_holds'[n] = Cardinality(BuildHolders(n)')
                        /\ build_holds'[n] \in Nat
      OBVIOUS
    <2>1. CASE n \in ProbeNodes(j) /\ last
      <3>1. j \in BuildHolders(n)
        BY <2>1, <1>1 DEF BuildHolders
      <3>2. /\ IsFiniteSet(BuildHolders(n) \ {j})
            /\ Cardinality(BuildHolders(n) \ {j}) = Cardinality(BuildHolders(n)) - 1
        BY <3>1, <1>6, FS_RemoveElement
      <3>3. build_holds'[n] = build_holds[n] - 1
        BY <2>1, <1>2
      <3>4. BuildHolders(n)' = BuildHolders(n) \ {j}
        BY <2>1, <1>5
      <3>5. Cardinality(BuildHolders(n) \ {j}) \in Nat
        BY <3>2, CardNat
      <3> QED BY <3>2, <3>3, <3>4, <3>5, <1>7
    <2>2. CASE ~(n \in ProbeNodes(j) /\ last)
      BY <2>2, <1>2, <1>5, <1>7 DEF TypeOK
    <2> QED BY <2>1, <2>2
  <1>9. BuildCounted'
    BY <1>8 DEF BuildCounted, BuildHolders
  <1>10. ReadyCounted' /\ LimitCounted'
    BY <1>1 DEF ReadyCounted, LimitCounted
  <1>11. words' \subseteq Nodes
    BY RangesInPlan DEF LaneLeftBuild, Refreshed, TypeOK
  <1>12. build_holds' \in [Nodes -> Nat]
    BY <1>2, <1>8
  <1>13. TypeOK'
    BY <1>1, <1>3, <1>11, <1>12 DEF TypeOK, LanesOf
  <1>14. \A n \in Nodes : (n \notin ProbeNodes(j) \/ ~last) => (BuildHeld(n)' <=> BuildHeld(n))
    BY <1>4 DEF BuildHeld, ProbeNodes
  <1>15. \A n \in Nodes : LimitHeld(n)' <=> LimitHeld(n)
    BY <1>1 DEF LimitHeld
  <1>16. WordsAreRescan'
    <2>1. CASE last
      <3>1. words' = Refreshed(ProbeNodes(j), ready_lanes', build_holds', limit_holds')
        BY <2>1, <1>1 DEF LaneLeftBuild
      <3>2. ProbeNodes(j) \in SUBSET Nodes
        BY RangesInPlan
      <3>3. CountersExact'
        BY <1>9, <1>10
      <3>4. \A n \in Nodes \ ProbeNodes(j) : /\ lane_ready'[n] = lane_ready[n]
                                             /\ BuildHeld(n)' <=> BuildHeld(n)
                                             /\ LimitHeld(n)' <=> LimitHeld(n)
        BY <1>1, <1>14, <1>15
      <3> HIDE DEF IInv, CountersExact
      <3> QED BY <3>1, <3>2, <3>3, <3>4, <1>13, RefreshIsRescan
    <2>2. CASE ~last
      <3>1. words' = words
        BY <2>2 DEF LaneLeftBuild
      <3> QED BY <2>2, <3>1, <1>1, <1>14, <1>15 DEF WordsAreRescan, Runnable
    <2> QED BY <2>1, <2>2
  <1> QED BY <1>9, <1>10, <1>13, <1>16

\* A satisfied limit keeps the invariant, and satisfying it again moves nothing.
LEMMA SatisfyIInv ==
  ASSUME IInv, NEW m \in Nodes, Satisfy(m)
  PROVE  IInv'
  <1> USE DEF IInv, CountersExact
  <1>1. CASE m \in satisfied
    <2>1. UNCHANGED schedVars
      BY <1>1 DEF Satisfy
    <2> QED BY <2>1 DEF schedVars, TypeOK, ReadyCounted, BuildCounted, LimitCounted,
                        WordsAreRescan, Runnable, BuildHeld, LimitHeld
  <1>2. CASE m \notin satisfied
    <2>1. /\ satisfied' = satisfied \cup {m}
          /\ limit_holds' = [n \in Nodes |-> IF n \in Subtree(m) THEN limit_holds[n] + 1
                                                                 ELSE limit_holds[n]]
          /\ UNCHANGED <<lane_ready, ready_lanes, build_holds, building>>
      BY <1>2 DEF Satisfy
    <2>2. words' = Refreshed(Subtree(m), ready_lanes', build_holds', limit_holds')
      BY <1>2, <2>1 DEF Satisfy
    <2>3. \A n \in Nodes : LimitHolders(n)' = IF n \in Subtree(m)
                                                THEN LimitHolders(n) \cup {m}
                                                ELSE LimitHolders(n)
      <3> SUFFICES ASSUME NEW n \in Nodes
                   PROVE  LimitHolders(n)' = IF n \in Subtree(m)
                                               THEN LimitHolders(n) \cup {m}
                                               ELSE LimitHolders(n)
        OBVIOUS
      <3>1. \A s : s \in LimitHolders(n)' <=> s \in satisfied' /\ n \in Subtree(s)
        BY DEF LimitHolders, Subtree
      <3>2. \A s : s \in LimitHolders(n) <=> s \in satisfied /\ n \in Subtree(s)
        BY DEF LimitHolders
      <3> QED BY <3>1, <3>2, <2>1
    <2>4. \A n \in Nodes : IsFiniteSet(LimitHolders(n)) /\ m \notin LimitHolders(n)
      BY <1>2, NodesFinite, FS_Subset DEF LimitHolders, TypeOK
    <2>5. \A n \in Nodes : limit_holds[n] = Cardinality(LimitHolders(n))
      BY DEF LimitCounted, LimitHolders
    <2>6. \A n \in Nodes : limit_holds'[n] = Cardinality(LimitHolders(n)')
      BY <2>1, <2>3, <2>4, <2>5, FS_AddElement
    <2>7. LimitCounted'
      BY <2>6 DEF LimitCounted, LimitHolders
    <2>8. ReadyCounted' /\ BuildCounted'
      BY <2>1 DEF ReadyCounted, BuildCounted
    <2>9. words' \subseteq Nodes
      BY <2>2, RangesInPlan DEF Refreshed, TypeOK
    <2>10. TypeOK'
      BY <2>1, <2>9 DEF TypeOK, LanesOf
    <2>11. \A n \in Nodes \ Subtree(m) : /\ lane_ready'[n] = lane_ready[n]
                                         /\ BuildHeld(n)' <=> BuildHeld(n)
                                         /\ LimitHeld(n)' <=> LimitHeld(n)
      BY <2>1 DEF BuildHeld, LimitHeld, Subtree
    <2>12. Subtree(m) \in SUBSET Nodes
      BY RangesInPlan
    <2>13. CountersExact'
      BY <2>7, <2>8
    <2>14. WordsAreRescan'
      <3> HIDE DEF IInv, CountersExact
      <3> QED BY <2>2, <2>10, <2>11, <2>12, <2>13, RefreshIsRescan
    <2> QED BY <2>10, <2>13, <2>14
  <1> QED BY <1>1, <1>2

\* The inductive step: every call of the driver keeps the invariant.
LEMMA NextIInv == IInv /\ [Next]_schedVars => IInv'
  <1> SUFFICES ASSUME IInv, [Next]_schedVars PROVE IInv'
    OBVIOUS
  <1>1. ASSUME NEW n \in Nodes, NEW R \in SUBSET LanesOf(n), SetLanesReady(n, R)
        PROVE  IInv'
    BY <1>1, SetLanesReadyIInv
  <1>2. ASSUME NEW j \in JoinNodes, LaneLeftBuild(j) PROVE IInv'
    BY <1>2, LaneLeftBuildIInv
  <1>3. ASSUME NEW n \in Nodes, Satisfy(n) PROVE IInv'
    BY <1>3, SatisfyIInv
  <1>4. CASE UNCHANGED schedVars
    BY <1>4 DEF IInv, CountersExact, schedVars, TypeOK, ReadyCounted, BuildCounted,
                LimitCounted, WordsAreRescan, Runnable, BuildHeld, LimitHeld
  <1> QED BY <1>1, <1>2, <1>3, <1>4 DEF Next

\* The inductive invariant holds throughout every run of the scheduler.
THEOREM SchedulerInvariant == Spec => []IInv
  BY InitIInv, NextIInv, PTL DEF Spec

\* Every counter of the schedule stays a natural number: no unsigned decrement
\* of scheduler.rs wraps, whatever the driver calls and in whatever order.
THEOREM SchedulerTypes == Spec => []TypeOK
  <1>1. IInv => TypeOK
    BY DEF IInv
  <1> QED BY <1>1, SchedulerInvariant, PTL

\* For every plan shape, and any calls the driver may make, the incremental
\* bitset that `next' reads is the naive rescan of ready lanes and holds.
THEOREM ScheduleIsRescan == Spec => []WordsAreRescan
  <1>1. IInv => WordsAreRescan
    BY DEF IInv
  <1> QED BY <1>1, SchedulerInvariant, PTL

\* The hold counters count joins still building and limits already satisfied,
\* so overlapping holds lift one at a time.
THEOREM HoldsCounted == Spec => []CountersExact
  <1>1. IInv => CountersExact
    BY DEF IInv
  <1> QED BY <1>1, SchedulerInvariant, PTL

\* No step takes a limit's hold off a node or puts a build hold back on one.
THEOREM HoldsAreMonotone == Spec => HoldsMoveOneWay
  <1> DEFINE A == \A n \in Nodes : /\ LimitHeld(n) => n \notin words'
                                   /\ ~BuildHeld(n) => ~BuildHeld(n)'
  <1>1. ASSUME IInv, IInv', Next PROVE A
    <2>1. satisfied \subseteq satisfied'
      BY <1>1 DEF Next, SetLanesReady, LaneLeftBuild, Satisfy, schedVars
    <2>2. \A j \in JoinNodes : building'[j] > 0 => building[j] > 0
      BY <1>1 DEF Next, SetLanesReady, LaneLeftBuild, Satisfy, schedVars, IInv, TypeOK
    <2>3. \A n \in Nodes : LimitHeld(n) => LimitHeld(n)'
      BY <2>1 DEF LimitHeld, Subtree
    <2>4. \A n \in Nodes : BuildHeld(n)' => BuildHeld(n)
      BY <2>2 DEF BuildHeld, ProbeNodes
    <2>5. \A n \in Nodes : n \in words' => ~LimitHeld(n)'
      BY <1>1 DEF IInv, WordsAreRescan, Runnable
    <2> QED BY <2>3, <2>4, <2>5
  <1>2. IInv /\ IInv' /\ [Next]_schedVars => [A]_schedVars
    BY <1>1
  <1>3. Spec => [][A]_schedVars
    BY <1>2, SchedulerInvariant, PTL DEF Spec
  <1> QED BY <1>3 DEF HoldsMoveOneWay
=============================================================================
