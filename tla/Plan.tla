-------------------------------- MODULE Plan --------------------------------
(***************************************************************************)
(* A plan as the driver indexes it (executor/driver/index.rs), and the     *)
(* routing of its forwarders (executor/forwarder.rs).                      *)
(*                                                                         *)
(* Plan is the sequence of the tree's nodes in pre-order, the sink first.  *)
(* Nodes and lanes are counted from 1.  A node is a record of              *)
(*   category  the executor category the driver dispatches on,             *)
(*   kind      which executor of the category it is,                       *)
(*   children  their positions, a join's build side first,                 *)
(*   lanes     its output lanes,                                           *)
(*   limit     the row interval it carries, as a set of at most one,       *)
(*   reads     per lane, how many batches a source has.                    *)
(***************************************************************************)
EXTENDS Integers, Sequences, FiniteSets, Interval

CONSTANT Plan

Categories == {"Source", "Exec", "BatchAccumulator", "PartitionAccumulator",
               "PartitionEmitter", "BatchForwarder", "Join", "Unload"}

LaneScopedCategories == {"Source", "Exec", "BatchAccumulator", "Join", "Unload"}

Nodes == 1 .. Len(Plan)
Root == 1

Category(n) == Plan[n].category
Kind(n) == Plan[n].kind
Children(n) == Plan[n].children
Lanes(n) == 1 .. Plan[n].lanes
LaneScoped(n) == Category(n) \in LaneScopedCategories

ChildSet(n) == {Children(n)[i] : i \in DOMAIN Children(n)}

Parent(n) == CHOOSE p \in Nodes : n \in ChildSet(p)

ASSUME PlanAssumption ==
    /\ Len(Plan) \in Nat \ {0}
    /\ \A n \in Nodes :
         /\ Category(n) \in Categories
         /\ Plan[n].lanes \in Nat \ {0}
         /\ \A c \in ChildSet(n) : c \in Nodes /\ c > n
         /\ Plan[n].limit \subseteq Intervals
    /\ Category(Root) = "Unload"
    /\ \A n \in Nodes \ {Root} : \E p \in Nodes : n \in ChildSet(p)

\* Distance to the root.
HeightOf[n \in Nodes] == IF n = Root THEN 0 ELSE HeightOf[Parent(n)] + 1

Largest(S) == CHOOSE x \in S : \A y \in S : y <= x

\* Pre-order makes a subtree contiguous: its end is the largest end below.
SubtreeEndOf[n \in Nodes] == Largest({n + 1} \cup {SubtreeEndOf[c] : c \in ChildSet(n)})

InputLanes(n) == Plan[Children(n)[1]].lanes

\* A cross-lane accumulator becomes ready one input lane at a time, and an
\* emitter reads one lane whatever it emits.
ReadyLanesOf ==
    [n \in Nodes |-> CASE Category(n) = "PartitionAccumulator" -> InputLanes(n)
                       [] Category(n) = "PartitionEmitter"     -> 1
                       [] OTHER                                -> Plan[n].lanes]

Joins == {n \in Nodes : Category(n) = "Join"}
BuildChild(j) == Children(j)[1]
ProbeChild(j) == Children(j)[2]

\* The accountant's slots: one per lane of a lane-scoped node, one per node
\* of the others.
SlotOf(n, l) == IF LaneScoped(n) THEN <<n, l>> ELSE <<n, 1>>
AllSlots == UNION {{SlotOf(n, l) : l \in Lanes(n)} : n \in Nodes}

\* The routing of a forwarder: per output lane, the (child, lane) pairs that
\* feed it, in the order they are visited.
UnionLanes(n) ==
    LET Offset[i \in 0 .. Len(Children(n))] ==
            IF i = 0 THEN 0 ELSE Offset[i - 1] + Plan[Children(n)[i]].lanes
    IN  [l \in Lanes(n) |->
           LET i == CHOOSE i \in DOMAIN Children(n) : Offset[i - 1] < l /\ l <= Offset[i]
           IN  <<Children(n)[i], l - Offset[i - 1]>>]

SourcesOf(n, l) ==
    CASE Kind(n) = "MergePartitions" ->
           [i \in 1 .. InputLanes(n) |-> <<Children(n)[1], i>>]
      [] Kind(n) = "Union" -> <<UnionLanes(n)[l]>>
      [] Kind(n) = "Interleave" ->
           [i \in 1 .. Len(Children(n)) |-> <<Children(n)[i], l>>]
=============================================================================
