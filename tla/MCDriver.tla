------------------------------- MODULE MCDriver -------------------------------
(***************************************************************************)
(* Plans the driver is model-checked on.                                   *)
(***************************************************************************)
EXTENDS Driver

Node(category, kind, children, lanes) ==
    [category |-> category, kind |-> kind, children |-> children, lanes |-> lanes,
     limit |-> {}, reads |-> <<>>]
Sink(child, lanes) == Node("Unload", "Unload", <<child>>, lanes)
Source(reads) == [Node("Source", "Scan", <<>>, Len(reads)) EXCEPT !.reads = reads]
Accumulator(kind, child, lanes) == Node("BatchAccumulator", kind, <<child>>, lanes)
Limited(node, skip, fetch) == [node EXCEPT !.limit = {[skip |-> skip, fetch |-> fetch]}]

\* A grouped aggregate: partial states per scan lane, merged, scattered and
\* aggregated again per lane.
ShufflePlan ==
    << Sink(2, 2),
       Accumulator("Aggregate", 3, 2),
       Node("PartitionEmitter", "Scatter", <<4>>, 2),
       Node("BatchForwarder", "MergePartitions", <<5>>, 1),
       Accumulator("GroupedInit", 6, 2),
       Source(<<2, 1>>) >>

\* A join whose build side is scattered, so that lanes may have no build batch,
\* over a probe side of two lanes.
InnerJoinPlan ==
    << Sink(2, 2),
       Node("Join", "Inner", <<3, 6>>, 2),
       Accumulator("Coalesce", 4, 2),
       Node("PartitionEmitter", "Scatter", <<5>>, 2),
       Source(<<1>>),
       Source(<<2, 1>>) >>

\* A join on the probe side of a join, and unions of both kinds below.
NestedJoinPlan ==
    << Sink(2, 2),
       Node("Join", "Full", <<3, 5>>, 2),
       Accumulator("Coalesce", 4, 2),
       Source(<<1, 0>>),
       Node("Join", "Inner", <<6, 10>>, 2),
       Accumulator("Coalesce", 7, 2),
       Node("BatchForwarder", "Union", <<8, 9>>, 2),
       Source(<<1>>),
       Source(<<1>>),
       Source(<<2, 1>>) >>

\* Lanes interleaved, sorted and merged into one.
MergePlan ==
    << Sink(2, 1),
       Node("PartitionAccumulator", "MergeSorted", <<3>>, 1),
       Accumulator("Coalesce", 4, 2),
       Node("BatchForwarder", "Interleave", <<5, 7>>, 2),
       Node("Exec", "Filter", <<6>>, 2),
       Source(<<1, 0>>),
       Node("BatchForwarder", "Union", <<8, 9>>, 2),
       Source(<<2>>),
       Source(<<1>>) >>

\* An aggregate without keys over a LIMIT over merged lanes.
ZeroLimitPlan ==
    << Sink(2, 1),
       Accumulator("KeylessInit", 3, 1),
       Limited(Accumulator("Limit", 4, 1), 0, 0),
       Node("BatchForwarder", "MergePartitions", <<5>>, 1),
       Source(<<2, 2>>) >>

\* A LIMIT on one lane below an aggregate, and one carried by the sink over
\* that lane and another.
LimitsPlan ==
    << Limited(Sink(2, 2), 2, 2),
       Node("BatchForwarder", "Union", <<3, 7>>, 2),
       Accumulator("KeylessInit", 4, 1),
       Limited(Accumulator("Limit", 5, 1), 1, 2),
       Node("BatchForwarder", "MergePartitions", <<6>>, 1),
       Source(<<2, 1>>),
       Node("Exec", "Filter", <<8>>, 1),
       Source(<<2>>) >>

\* Every category of call on one path, a build batch always arriving, and an
\* accumulator that answers two batches at once.
FaultPlan ==
    << Sink(2, 1),
       Node("Join", "Left", <<3, 5>>, 1),
       Accumulator("Coalesce", 4, 1),
       Source(<<1>>),
       Node("PartitionAccumulator", "MergeSorted", <<6>>, 1),
       Node("PartitionEmitter", "Scatter", <<7>>, 2),
       Accumulator("EmitTwice", 8, 1),
       Node("Exec", "Filter", <<9>>, 1),
       Source(<<2>>) >>

\* A join whose build side stays resident, over an accumulator that holds its
\* state and its answer together for the length of one call.
BudgetPlan ==
    << Sink(2, 1),
       Node("Join", "Left", <<3, 5>>, 1),
       Accumulator("Coalesce", 4, 1),
       Source(<<1>>),
       Accumulator("EmitTwice", 6, 1),
       Source(<<1>>) >>

\* A build side whose lanes may answer no batch, one, or two.  The first lane's
\* probe source is nearer the root than the build's, the second lane's is not:
\* the first lane has probed when a second build batch is met.
EagerBuildPlan ==
    << Sink(2, 2),
       Node("Join", "Inner", <<3, 6>>, 2),
       Accumulator("GroupedInit", 4, 2),
       Node("Exec", "Filter", <<5>>, 2),
       Source(<<1, 2>>),
       Node("BatchForwarder", "Union", <<7, 8>>, 2),
       Source(<<1>>),
       Node("Exec", "Filter", <<9>>, 1),
       Source(<<1>>) >>
=============================================================================
