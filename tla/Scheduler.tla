------------------------------ MODULE Scheduler ------------------------------
(***************************************************************************)
(* The incremental schedule of the push driver                             *)
(* (peacockdb-core/src/executor/driver/scheduler.rs).                      *)
(*                                                                         *)
(* The scheduler knows a plan as plain numbers: every node's height and    *)
(* pre-order position, the readiness lanes it counts, its subtree and, per *)
(* join, the probe subtree the join holds while it builds.  It keeps a     *)
(* bit per node, `words', equal to "some lane is ready and no hold is on", *)
(* and keeps it up to date from counters rather than by rescanning.        *)
(*                                                                         *)
(* Nodes are pre-order positions, counted from 1 where the code counts     *)
(* from 0.  The flat `lane_ready' vector is one set of lanes per node, and *)
(* the rank bitset one set of nodes, ordered by Before.                    *)
(***************************************************************************)
EXTENDS Integers, FiniteSets

CONSTANTS
    NodeCount,      \* nodes of the plan
    Height,         \* per node, its distance to the root
    ReadyLanes,     \* per node, how many readiness lanes it has
    SubtreeEnd,     \* per node, the first position past its subtree
    JoinNodes,      \* the nodes that are joins
    ProbeStart,     \* per join, the root of its probe subtree
    JoinLanes       \* per join, its lanes

Nodes == 1 .. NodeCount

LanesOf(n) == 1 .. ReadyLanes[n]

Subtree(n) == n .. SubtreeEnd[n] - 1

\* A join's probe range is the subtree of its second child.
ProbeNodes(j) == ProbeStart[j] .. SubtreeEnd[ProbeStart[j]] - 1

ASSUME ShapeAssumption ==
    /\ NodeCount \in Nat \ {0}
    /\ Height \in [Nodes -> Nat]
    /\ ReadyLanes \in [Nodes -> Nat]
    /\ SubtreeEnd \in [Nodes -> 2 .. NodeCount + 1]
    /\ JoinNodes \subseteq Nodes
    /\ ProbeStart \in [JoinNodes -> Nodes]
    /\ JoinLanes \in [JoinNodes -> Nat \ {0}]

VARIABLES
    lane_ready,     \* per node, the lanes that can step
    ready_lanes,    \* per node, how many there are of them
    build_holds,    \* per node, the joins still building above it
    limit_holds,    \* per node, the satisfied limits at or above it
    building,       \* per join, the lanes that have yet to leave the build
    satisfied,      \* the nodes whose row interval is satisfied
    words           \* the nodes whose runnable bit is set

schedVars == <<lane_ready, ready_lanes, build_holds, limit_holds, building,
               satisfied, words>>

\* One type invariant for the module: every counter is a natural number, so
\* no unsigned decrement of the code ever wraps.
TypeOK ==
    /\ lane_ready \in [Nodes -> SUBSET Nat]
    /\ \A n \in Nodes : lane_ready[n] \subseteq LanesOf(n)
    /\ ready_lanes \in [Nodes -> Nat]
    /\ build_holds \in [Nodes -> Nat]
    /\ limit_holds \in [Nodes -> Nat]
    /\ building \in [JoinNodes -> Nat]
    /\ satisfied \subseteq Nodes
    /\ words \subseteq Nodes

-----------------------------------------------------------------------------
\* A join holds its probe subtree from time zero, one count per join.
Init ==
    /\ lane_ready = [n \in Nodes |-> {}]
    /\ ready_lanes = [n \in Nodes |-> 0]
    /\ build_holds =
         [n \in Nodes |-> Cardinality({j \in JoinNodes : n \in ProbeNodes(j)})]
    /\ limit_holds = [n \in Nodes |-> 0]
    /\ building = JoinLanes
    /\ satisfied = {}
    /\ words = {}

\* A plausible slip: the bit re-read without the limits' holds.
RefreshedPastLimit(S, ready, build, limit) ==
    (words \ S) \cup {n \in S : ready[n] > 0 /\ build[n] = 0}

\* `refresh' over the nodes S, given the counters after the update.
Refreshed(S, ready, build, limit) ==
    (words \ S) \cup {n \in S : ready[n] > 0 /\ build[n] = 0 /\ limit[n] = 0}

\* The driver re-reads all the readiness lanes of a node: `set_lane_ready' on
\* each of them, which leaves a lane alone when its flag does not change.
SetLanesReady(n, R) ==
    LET old  == lane_ready[n]
        next == [ready_lanes EXCEPT
                   ![n] = @ + Cardinality(R \ old) - Cardinality(old \ R)]
    IN  /\ lane_ready' = [lane_ready EXCEPT ![n] = R]
        /\ ready_lanes' = next
        /\ words' = IF R = old THEN words
                    ELSE Refreshed({n}, next, build_holds, limit_holds)
        /\ UNCHANGED <<build_holds, limit_holds, building, satisfied>>

\* A plausible slip: lifting the holds at the first lane that leaves.
LaneLeftBuildEarly(j) ==
    LET lifted == [n \in Nodes |-> IF n \in ProbeNodes(j) /\ build_holds[n] > 0
                                     THEN build_holds[n] - 1
                                     ELSE build_holds[n]]
    IN  /\ building[j] > 0
        /\ building' = [building EXCEPT ![j] = @ - 1]
        /\ build_holds' = lifted
        /\ words' = Refreshed(ProbeNodes(j), ready_lanes, lifted, limit_holds)
        /\ UNCHANGED <<lane_ready, ready_lanes, limit_holds, satisfied>>

\* A plausible slip: holds lifted without re-reading the runnable bits.
LaneLeftBuildStale(j) ==
    /\ building[j] > 0
    /\ building' = [building EXCEPT ![j] = @ - 1]
    /\ build_holds' = [n \in Nodes |-> IF n \in ProbeNodes(j) /\ building[j] = 1
                                         THEN build_holds[n] - 1
                                         ELSE build_holds[n]]
    /\ UNCHANGED <<lane_ready, ready_lanes, limit_holds, satisfied, words>>

\* A plausible slip: nothing stops a lane leaving its build a second time.
LaneLeftBuildTwice(j) ==
    LET last   == building[j] = 1
        lifted == [n \in Nodes |-> IF n \in ProbeNodes(j) /\ last
                                     THEN build_holds[n] - 1
                                     ELSE build_holds[n]]
    IN  /\ building' = [building EXCEPT ![j] = @ - 1]
        /\ build_holds' = lifted
        /\ words' = Refreshed(ProbeNodes(j), ready_lanes, lifted, limit_holds)
        /\ UNCHANGED <<lane_ready, ready_lanes, limit_holds, satisfied>>

\* One lane of join j has run `set_build'.  The guard is the assertion that a
\* lane leaves its build once; the hold lifts with the last lane.
LaneLeftBuild(j) ==
    LET last   == building[j] = 1
        lifted == [n \in Nodes |-> IF n \in ProbeNodes(j) /\ last
                                     THEN build_holds[n] - 1
                                     ELSE build_holds[n]]
    IN  /\ building[j] > 0
        /\ building' = [building EXCEPT ![j] = @ - 1]
        /\ build_holds' = lifted
        /\ words' = IF last
                      THEN Refreshed(ProbeNodes(j), ready_lanes, lifted, limit_holds)
                      ELSE words
        /\ UNCHANGED <<lane_ready, ready_lanes, limit_holds, satisfied>>

\* A plausible slip: satisfying a node twice counts its hold twice.
SatisfyTwice(n) ==
    LET held == [m \in Nodes |-> IF m \in Subtree(n) THEN limit_holds[m] + 1
                                                     ELSE limit_holds[m]]
    IN  /\ limit_holds[n] < 3
        /\ satisfied' = satisfied \cup {n}
        /\ limit_holds' = held
        /\ words' = Refreshed(Subtree(n), ready_lanes, build_holds, held)
        /\ UNCHANGED <<lane_ready, ready_lanes, build_holds, building>>

\* A plausible slip: the node is held, and what feeds it is not.
SatisfyNodeOnly(n) ==
    LET held == [limit_holds EXCEPT ![n] = @ + 1]
    IN  IF n \in satisfied
          THEN UNCHANGED schedVars
          ELSE /\ satisfied' = satisfied \cup {n}
               /\ limit_holds' = held
               /\ words' = Refreshed({n}, ready_lanes, build_holds, held)
               /\ UNCHANGED <<lane_ready, ready_lanes, build_holds, building>>

\* Node n needs no further row: it holds its subtree, itself included, for
\* good.  Satisfying it again changes nothing.
Satisfy(n) ==
    LET held == [m \in Nodes |-> IF m \in Subtree(n) THEN limit_holds[m] + 1
                                                     ELSE limit_holds[m]]
    IN  IF n \in satisfied
          THEN UNCHANGED schedVars
          ELSE /\ satisfied' = satisfied \cup {n}
               /\ limit_holds' = held
               /\ words' = Refreshed(Subtree(n), ready_lanes, build_holds, held)
               /\ UNCHANGED <<lane_ready, ready_lanes, build_holds, building>>

\* A plausible slip: the deepest node first.
BeforeDeepest(m, n) == Height[m] > Height[n] \/ (Height[m] = Height[n] /\ m < n)

\* Rank order: smallest height first, ties leftmost.
Before(m, n) == Height[m] < Height[n] \/ (Height[m] = Height[n] /\ m < n)

Leftmost(S) == CHOOSE n \in S : \A m \in S \ {n} : Before(n, m)

\* `next': the node of the lowest set bit; the run ends where there is none.
SomeRunnable == words # {}
Pick == Leftmost(words)

Next ==
    \/ \E n \in Nodes : \E R \in SUBSET LanesOf(n) : SetLanesReady(n, R)
    \/ \E j \in JoinNodes : LaneLeftBuild(j)
    \/ \E n \in Nodes : Satisfy(n)

Spec == Init /\ [][Next]_schedVars

-----------------------------------------------------------------------------
\* What the counters stand for, recomputed from the facts they count.
BuildHeld(n) == \E j \in JoinNodes : building[j] > 0 /\ n \in ProbeNodes(j)
LimitHeld(n) == \E s \in satisfied : n \in Subtree(s)
Runnable(n) == lane_ready[n] # {} /\ ~BuildHeld(n) /\ ~LimitHeld(n)

\* The incremental bitset is the naive rescan: a node's bit is set exactly
\* when it has a ready lane, no join above it on its probe side is still
\* building and no limit at or above it is satisfied.  `next' reads only the
\* bits, so each pick is the one a rescan would make (scheduler.rs `refresh',
\* `lane_left_build', `satisfy').
WordsAreRescan == \A n \in Nodes : n \in words <=> Runnable(n)

\* Each counter counts the facts it is about, so overlapping probe subtrees
\* and nested limits lift one hold at a time.
ReadyCounted == \A n \in Nodes : ready_lanes[n] = Cardinality(lane_ready[n])
BuildCounted ==
    \A n \in Nodes : build_holds[n] =
        Cardinality({j \in JoinNodes : building[j] > 0 /\ n \in ProbeNodes(j)})
LimitCounted ==
    \A n \in Nodes :
        limit_holds[n] = Cardinality({s \in satisfied : n \in Subtree(s)})

CountersExact == ReadyCounted /\ BuildCounted /\ LimitCounted

\* The inductive invariant.
IInv == TypeOK /\ CountersExact /\ WordsAreRescan

\* A limit's hold never lifts and a build hold never returns: once a node is
\* held by a satisfied limit its runnable bit is never set again, and once no
\* join holds a node no join ever will (`satisfy', `lane_left_build').
HoldsMoveOneWay ==
    [][ \A n \in Nodes :
          /\ LimitHeld(n) => n \notin words'
          /\ ~BuildHeld(n) => ~BuildHeld(n)' ]_schedVars
=============================================================================
