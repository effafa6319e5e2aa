-------------------------------- MODULE Driver --------------------------------
(***************************************************************************)
(* The push driver of one query (executor/driver/partitioned.rs) with its  *)
(* lanes (single_partition.rs), over a Plan, a Scheduler, an Accountant    *)
(* and a Backend.                                                          *)
(*                                                                         *)
(* The driver is one thread: seed every node, then repeat `pick a node,    *)
(* run each of its lanes once, settle its limit, refresh it and its        *)
(* parent' until nothing is runnable.  `ctl' is the program counter; an    *)
(* action is one lane call or one step of that loop.                       *)
(***************************************************************************)
EXTENDS Backend, Accountant

CONSTANTS
    CallFaults,     \* the calls a backend may fail
    BuildFaults,    \* the categories whose executor may fail to be built
    HookRefuses,    \* whether the output hook may refuse a batch
    MaxSteps        \* the driver's own limit on its steps

VARIABLES
    lane_ready, ready_lanes, build_holds, limit_holds, building, satisfied,
    words,              \* the Scheduler's
    ctl,                \* [at, node, lane]: where the driver is
    steps,              \* nodes picked so far
    outcome,            \* "Running", "Ok", or the error the run ends with
    queues,             \* per node and lane, the batches held for the parent
    out_done,           \* per node, the lanes that will queue no more
    lane_state,         \* per node and lane, the executor's life
    exec,               \* per node and lane, the executor's own state
    cursors, retired,   \* per forwarder lane, the next source, the ended ones
    lane_done_sent,     \* per node, the input lanes whose end was passed on
    emitter_finished,   \* the emitters that have ended
    rows_seen,          \* per node, rows an interval-carrying unload was handed
    rows_emitted,       \* per node, rows a mid-plan limit emitted
    emitted, consumed,  \* per producing node and lane, rows in and out of its
    abandoned,          \*   queue, and rows let go of with the query
    acct

schedVars == <<lane_ready, ready_lanes, build_holds, limit_holds, building,
               satisfied, words>>
laneVars == <<lane_state, exec, out_done>>
crossVars == <<cursors, retired, lane_done_sent, emitter_finished>>
rowVars == <<rows_seen, rows_emitted>>
flowVars == <<queues, emitted, consumed, abandoned>>
vars == <<schedVars, ctl, steps, outcome, laneVars, crossVars, rowVars, flowVars, acct>>

S == INSTANCE Scheduler WITH
       NodeCount <- Len(Plan), Height <- HeightOf, ReadyLanes <- ReadyLanesOf,
       SubtreeEnd <- SubtreeEndOf, JoinNodes <- Joins,
       ProbeStart <- [j \in Joins |-> ProbeChild(j)],
       JoinLanes <- [j \in Joins |-> Plan[j].lanes]

Errors == {"Backend", "CallFailed", "PreCall", "PostCall", "Protocol", "NoTermination"}
LaneStates == {"Unbuilt", "Live", "Draining", "Finished"}

\* A limit right below the sink is the sink's own interval, never a node.
CanonicalForm == \A c \in ChildSet(Root) : Plan[c].limit = {}

ASSUME DriverAssumption ==
    /\ CanonicalForm
    /\ MaxSteps \in Nat
    /\ BuildFaults \subseteq Categories
    /\ HookRefuses \in BOOLEAN
    /\ \A n \in Nodes : Plan[n].limit # {} =>
         /\ Category(n) \in {"Unload", "BatchAccumulator"}
         /\ Category(n) = "BatchAccumulator" => Kind(n) = "Limit" /\ Plan[n].lanes = 1

PerLane(v) == [n \in Nodes |-> [l \in Lanes(n) |-> v]]
PerNode(v) == [n \in Nodes |-> v]

Init ==
    /\ S!Init
    /\ ctl = [at |-> "seed_refresh", node |-> Root, lane |-> 1]
    /\ steps = 0
    /\ outcome = "Running"
    /\ lane_state = PerLane("Unbuilt")
    /\ exec = PerLane(NewExecutor)
    /\ out_done = PerNode({})
    /\ cursors = PerLane(1) /\ retired = PerLane({})
    /\ lane_done_sent = PerNode({})
    /\ emitter_finished = {}
    /\ rows_seen = PerNode(0) /\ rows_emitted = PerNode(0)
    /\ queues = PerLane(<<>>)
    /\ emitted = PerLane(0) /\ consumed = PerLane(0) /\ abandoned = PerLane(0)
    /\ acct = NewAccount(AllSlots)

-----------------------------------------------------------------------------
(* Readiness and the choice of a call.                                     *)

Has(n, i, l) == queues[Children(n)[i]][l] # <<>>
Ended(n, i, l) == l \in out_done[Children(n)[i]] /\ ~Has(n, i, l)

\* Unbuilt covers the build phase: the build of a join's executor and the
\* set_build that ends the phase are one call.
AwaitsBuild(n, l) == lane_state[n][l] = "Unbuilt"

CanStep(n, l) ==
    LET i == IF Category(n) = "Join" /\ ~AwaitsBuild(n, l) THEN 2 ELSE 1
    IN  /\ lane_state[n][l] # "Finished"
        /\ Category(n) = "Source" \/ Has(n, i, l) \/ Ended(n, i, l)

\* The sources of a forwarder lane that have not retired.
Live(n, l) == DOMAIN SourcesOf(n, l) \ retired[n][l]
Queue(source) == queues[source[1]][source[2]]
SourceDone(source) == source[2] \in out_done[source[1]]

ForwarderLaneReady(n, l) ==
    /\ l \notin out_done[n]
    /\ \/ \E i \in Live(n, l) : Queue(SourcesOf(n, l)[i]) # <<>>
       \/ \A i \in Live(n, l) : SourceDone(SourcesOf(n, l)[i])

LaneReady(n, l) ==
    CASE LaneScoped(n) -> CanStep(n, l)
      [] Category(n) = "PartitionEmitter" ->
           Has(n, 1, 1) \/ (1 \in out_done[Children(n)[1]] /\ n \notin emitter_finished)
      [] Category(n) = "PartitionAccumulator" ->
           Has(n, 1, l) \/ (l \in out_done[Children(n)[1]] /\ l \notin lane_done_sent[n])
      [] Category(n) = "BatchForwarder" -> ForwarderLaneReady(n, l)

ReadyNow(n) == {l \in 1 .. ReadyLanesOf[n] : LaneReady(n, l)}

\* The rows an unload wants of the batch at the head of its input.
WantedRange(n, l) ==
    RangeOf(LimitOf(n), rows_seen[n], Head(queues[Children(n)[1]][l]))

\* `select', and what the cross-lane nodes do in its place.
CallOf(n, l) ==
    CASE Category(n) = "Source" -> "NextBatch"
      [] Category(n) = "Exec" -> IF Has(n, 1, l) THEN "Exec" ELSE "EndOfInput"
      [] Category(n) = "Unload" ->
           IF ~Has(n, 1, l) THEN "EndOfInput"
           ELSE IF Plan[n].limit # {} /\ WantedRange(n, l) = NoRows THEN "ReleaseUnwanted"
           ELSE "Unload"
      [] Category(n) = "BatchAccumulator" -> IF Has(n, 1, l) THEN "Accumulate" ELSE "MarkDone"
      [] Category(n) = "Join" ->
           IF AwaitsBuild(n, l) THEN "SetBuild"
           ELSE IF lane_state[n][l] = "Draining"
             THEN IF Has(n, 2, l) THEN "DropProbe" ELSE "EndOfInput"
           ELSE IF Has(n, 1, l) THEN "SecondBuild"
           ELSE IF Has(n, 2, l) THEN "Probe" ELSE "Finish"
      [] Category(n) = "PartitionEmitter" -> IF Has(n, 1, 1) THEN "Emit" ELSE "EmitDone"
      [] Category(n) = "PartitionAccumulator" -> IF Has(n, 1, l) THEN "LaneEvent" ELSE "LaneDone"
      [] Category(n) = "BatchForwarder" -> "Forward"

\* The calls that reach an executor, and so are priced against the budget.
PricedCalls == {"NextBatch", "Exec", "Unload", "Accumulate", "MarkDone", "SetBuild",
                "Probe", "Finish", "Emit", "LaneEvent", "LaneDone"}

\* The input slot a call reads, 0 for none.
Consumes(call) ==
    CASE call \in {"Exec", "Unload", "ReleaseUnwanted", "Accumulate", "SetBuild", "Emit",
                   "LaneEvent"} -> 1
      [] call \in {"Probe", "DropProbe"} -> 2
      [] OTHER -> 0

-----------------------------------------------------------------------------
(* One call c of one lane: its name, the node and the lane, the input slot *)
(* it reads, and the batch waiting there.                                  *)

Input(n, l, slot) ==
    IF slot = 0 \/ ~Has(n, slot, l) THEN Nothing
    ELSE <<Head(queues[Children(n)[slot]][l])>>

\* A node was picked because some lane of it is ready; each of its lanes is
\* asked again.  An emitter has one, and a forwarder asks only if it has ended.
LanesToRun(n) ==
    CASE Category(n) = "PartitionEmitter" -> {1}
      [] Category(n) = "BatchForwarder" -> Lanes(n) \ out_done[n]
      [] OTHER -> ReadyNow(n)

Selected(n, l) ==
    {[name |-> name, node |-> n, lane |-> l, slot |-> Consumes(name),
      in |-> Input(n, l, Consumes(name))] : name \in {CallOf(n, l)}}

\* The call the driver is about to make, if it is one of `names'.
Calls(names) ==
    IF ctl.at = "lanes" /\ ctl.lane \in LanesToRun(ctl.node)
      THEN {c \in Selected(ctl.node, ctl.lane) : c.name \in names}
      ELSE {}

\* A cross-lane accumulator's lanes are its input's; it has one executor and
\* one output lane.
OutLane(n, l) == IF LaneScoped(n) THEN l ELSE 1

\* The queues with the call's input popped, and the rows that makes consumed.
Taken(c) ==
    IF c.in = Nothing THEN queues
    ELSE [queues EXCEPT ![Children(c.node)[c.slot]][c.lane] = Tail(@)]

\* A plausible slip: the rows a call reads are not counted.
TakeInputUncounted(c) == consumed' = consumed

TakeInput(c) ==
    consumed' = IF c.in = Nothing THEN consumed
                ELSE [consumed EXCEPT ![Children(c.node)[c.slot]][c.lane] = @ + RowsOf(c.in)]

Fail(error) ==
    /\ outcome' = error
    /\ ctl' = [ctl EXCEPT !.at = "unwind"]

\* A plausible slip: one lane too many.
NextLanePastEnd(n, l) ==
    ctl' = IF l <= ReadyLanesOf[n] THEN [ctl EXCEPT !.lane = l + 1]
           ELSE [ctl EXCEPT !.lane = 1, !.at = "settle"]

\* The loop over the lanes of a node, and what follows it.
NextLane(n, l) ==
    ctl' = IF l < ReadyLanesOf[n] THEN [ctl EXCEPT !.lane = l + 1]
           ELSE [ctl EXCEPT !.lane = 1,
                            !.at = IF Category(n) = "PartitionAccumulator"
                                     THEN "close" ELSE "settle"]

ExecutorOf(c) == exec[c.node][OutLane(c.node, c.lane)]

PreTrips(c) == PreCallTrips(acct, ScratchBytes(c.node, ExecutorOf(c), BytesOf(c.in)))

\* An executor is built by the first call of its lane; a failure to is the
\* end of the query, with the input popped.
BuildFails ==
    \E c \in Calls(PricedCalls \cup {"EndOfInput"}) :
        /\ lane_state[c.node][OutLane(c.node, c.lane)] = "Unbuilt"
        /\ Category(c.node) \in BuildFaults
        /\ TakeInput(c) /\ queues' = Taken(c)
        /\ Fail("Backend")
        /\ UNCHANGED <<schedVars, steps, laneVars, crossVars, rowVars, emitted, abandoned, acct>>

\* The budget refuses the call before it is made, with the input popped.
CallRefused ==
    \E c \in Calls(PricedCalls) :
        /\ PreTrips(c)
        /\ TakeInput(c) /\ queues' = Taken(c)
        /\ Fail("PreCall")
        /\ UNCHANGED <<schedVars, steps, laneVars, crossVars, rowVars, emitted, abandoned, acct>>

\* The call fails.  Its input is released: a SetBuild's whether there was one
\* or not, the other calls' where there was one.
CallFails ==
    \E c \in Calls(PricedCalls \cap CallFaults) :
        /\ ~PreTrips(c)
        /\ acct' = IF c.in # Nothing \/ c.name = "SetBuild"
                     THEN Release(acct, BytesOf(c.in))
                     ELSE acct
        /\ TakeInput(c) /\ queues' = Taken(c)
        /\ Fail("CallFailed")
        /\ UNCHANGED <<schedVars, steps, laneVars, crossVars, rowVars, emitted, abandoned>>

SecondBuild ==
    /\ Calls({"SecondBuild"}) # {}
    /\ Fail("Protocol")
    /\ UNCHANGED <<schedVars, steps, laneVars, crossVars, rowVars, flowVars, acct>>

\* The account once a call has answered `out': the input is alive while the
\* call runs, so it leaves after it.
HeldAfter(c, out) ==
    LET left == IF c.in = Nothing THEN acct ELSE Release(acct, BytesOf(c.in))
    IN  IF out = Nothing THEN left ELSE HoldMany(left, BytesOf(out), Len(out))

\* And once the call has ended, its executor consumed or reporting for x.
Settled(c, x, out, last) ==
    IF last THEN EndConsumingCall(HeldAfter(c, out), SlotOf(c.node, c.lane))
    ELSE EndCall(HeldAfter(c, out), SlotOf(c.node, c.lane), ResidentBytes(c.node, x))

\* A plausible slip: the batches held behind the refused one are left to queues
\* they are not in.
RefusedAccountLeaky(a, unqueued) == Release(a, BytesOf(<<Head(unqueued)>>))

\* The account after the output hook refused the first of the batches that are
\* held and not yet queued.
RefusedAccount(a, unqueued) == ReleaseMany(a, BytesOf(unqueued), Len(unqueued))

\* The queues, the rows reported and a mid-plan limit's count once the batches
\* `out' of a call have gone out.
QueuedOut(c, out) ==
    [Taken(c) EXCEPT ![c.node][OutLane(c.node, c.lane)] = @ \o out]
ReportedOut(c, out) ==
    [emitted EXCEPT ![c.node][OutLane(c.node, c.lane)] = @ + RowsOf(out)]
LimitCountOut(c, out) ==
    IF Category(c.node) # "Unload" /\ Plan[c.node].limit # {}
      THEN [rows_emitted EXCEPT ![c.node] = @ + RowsOf(out)]
      ELSE rows_emitted

\* A plausible slip: the scheduler is told only of a build that had a batch.
LeaveBuildIfAny(c) ==
    IF c.name = "SetBuild" /\ c.in # Nothing
      THEN S!LaneLeftBuild(c.node)
      ELSE UNCHANGED schedVars

\* A lane leaves its build phase whether a batch arrived or not.
LeaveBuild(c) ==
    IF c.name = "SetBuild" THEN S!LaneLeftBuild(c.node) ELSE UNCHANGED schedVars

\* The budget, or a release the account cannot cover, ends the query after the
\* call.  A lane has its output held and in no queue then; a cross-lane node
\* has queued it.
Overrun(c, a, out) ==
    /\ Verdict(a) # "Running"
    /\ acct' = a
    /\ queues' = IF LaneScoped(c.node) THEN Taken(c) ELSE QueuedOut(c, out)
    /\ emitted' = IF LaneScoped(c.node) THEN emitted ELSE ReportedOut(c, out)
    /\ Fail(Verdict(a))
    /\ UNCHANGED <<schedVars, laneVars, lane_done_sent, rowVars>>

\* The output hook refuses the k-th batch of the answer.  Those before it are
\* queued.  A lane offers them after the budget check with all of them held,
\* and gives back those behind the refused one too; a cross-lane node holds
\* each as it offers it, and checks the budget later.
Refused(c, a, out) ==
    /\ HookRefuses /\ Category(c.node) # "Unload"
    /\ LaneScoped(c.node) => Verdict(a) = "Running"
    /\ \E k \in DOMAIN out : \E upto \in {SubSeq(out, 1, k)} :
         /\ acct' = IF LaneScoped(c.node)
                      THEN RefusedAccount(a, SubSeq(out, k, Len(out)))
                      ELSE RefusedAccount(HeldAfter(c, upto), <<out[k]>>)
         /\ queues' = QueuedOut(c, SubSeq(out, 1, k - 1))
         /\ emitted' = ReportedOut(c, upto)
         /\ rows_emitted' = LimitCountOut(c, upto)
    /\ Fail("CallFailed")
    /\ UNCHANGED <<schedVars, laneVars, lane_done_sent, rows_seen>>

\* The call came back: x and state are the executor's, `out' its answer, and
\* `last' whether it was consumed by the call.  A lane that drains has let go
\* of its executor, after that reported for the account.
Answer(c, x, state, out, last) ==
    LET n == c.node
        l == c.lane
        o == OutLane(n, l)
        host   == Category(n) = "Unload"
        limited == Plan[n].limit # {}
    IN  /\ ~PreTrips(c)
        /\ TakeInput(c)
        /\ UNCHANGED <<steps, cursors, retired, emitter_finished, abandoned>>
        /\ \E a \in {Settled(c, x, out, last)} :
             \/ Overrun(c, a, out)
             \/ Refused(c, a, out)
             \/ /\ Verdict(a) = "Running"
                /\ acct' = IF host THEN Release(a, BytesOf(out)) ELSE a
                /\ queues' = IF host THEN Taken(c) ELSE QueuedOut(c, out)
                /\ emitted' = ReportedOut(c, out)
                /\ lane_state' = [lane_state EXCEPT ![n][o] = state]
                /\ exec' = [exec EXCEPT ![n][o] = IF state = "Draining" THEN NewExecutor ELSE x]
                /\ out_done' = IF last THEN [out_done EXCEPT ![n] = @ \cup {l}] ELSE out_done
                /\ lane_done_sent' = IF c.name = "LaneDone"
                                       THEN [lane_done_sent EXCEPT ![n] = @ \cup {l}]
                                       ELSE lane_done_sent
                /\ rows_seen' = IF host /\ limited
                                  THEN [rows_seen EXCEPT ![n] = @ + RowsOf(c.in)]
                                  ELSE rows_seen
                /\ rows_emitted' = LimitCountOut(c, out)
                /\ LeaveBuild(c)
                /\ UNCHANGED outcome
                /\ NextLane(n, l)

NextBatch ==
    \E c \in Calls({"NextBatch"}) :
        LET x    == ExecutorOf(c)
            more == x.count < Plan[c.node].reads[c.lane]
        IN  \E out \in IF more THEN {<<r>> : r \in SourceRows} ELSE {Nothing} :
              Answer(c, IF more THEN [x EXCEPT !.count = @ + 1] ELSE x,
                     IF more THEN "Live" ELSE "Finished", out, ~more)

Exec ==
    \E c \in Calls({"Exec"}) : \E out \in ExecAnswers(c.node, RowsOf(c.in)) :
        Answer(c, ExecutorOf(c), "Live", out, FALSE)

\* The rows an unload exports of its batch, and the check that an interval
\* never asks for rows the batch does not have.
UnloadRange(c) ==
    IF Plan[c.node].limit = {} THEN [offset |-> 0, length |-> RowsOf(c.in)]
    ELSE WantedRange(c.node, c.lane)

Drifted(range, r) ==
    ~Covers(range, r) /\ (range.length = 0 \/ range.offset + range.length > r)

Unload ==
    \E c \in Calls({"Unload"}) : \E range \in {UnloadRange(c)} :
        IF Drifted(range, RowsOf(c.in))
          THEN /\ Fail("Protocol")
               /\ UNCHANGED <<schedVars, steps, laneVars, crossVars, rowVars, flowVars, acct>>
          ELSE Answer(c, ExecutorOf(c), "Live", <<Clamp(range, RowsOf(c.in)).length>>, FALSE)

Accumulate ==
    \E c \in Calls({"Accumulate"}) :
        \E a \in Accumulated(c.node, ExecutorOf(c), RowsOf(c.in)) :
            Answer(c, a.left, "Live", a.out, FALSE)

MarkDone ==
    \E c \in Calls({"MarkDone"}) : \E out \in MarkedDone(c.node, ExecutorOf(c)) :
        Answer(c, NewExecutor, "Finished", out, TRUE)

\* The build batch, or its absence.  What becomes of the lane is the join
\* type's answer, and the scheduler is told either way.
SetBuild ==
    \E c \in Calls({"SetBuild"}) :
        Answer(c, [rows |-> RowsOf(c.in), count |-> Len(c.in)],
               IF OwesNothing(c.node, RowsOf(c.in)) THEN "Draining" ELSE "Live", Nothing, FALSE)

Probe ==
    \E c \in Calls({"Probe"}) : \E out \in ProbeAnswers(c.node) :
        Answer(c, ExecutorOf(c), "Live", out, FALSE)

Finish ==
    \E c \in Calls({"Finish"}) : \E out \in FinishAnswers(c.node, ExecutorOf(c)) :
        Answer(c, NewExecutor, "Finished", out, TRUE)

\* A plausible slip: an unwanted batch is dropped without its release.
LetGoReleaseNothing(c) == acct

LetGoRelease(c) == Release(acct, BytesOf(c.in))

\* A batch no one wants is released where it stands: a probe batch of a lane
\* with no build side, or one outside the sink's interval.
LetGo ==
    \E c \in Calls({"DropProbe", "ReleaseUnwanted"}) :
        /\ TakeInput(c) /\ queues' = Taken(c)
        /\ acct' = LetGoRelease(c)
        /\ rows_seen' = IF Category(c.node) = "Unload"
                          THEN [rows_seen EXCEPT ![c.node] = @ + RowsOf(c.in)]
                          ELSE rows_seen
        /\ NextLane(c.node, c.lane)
        /\ UNCHANGED <<schedVars, steps, outcome, laneVars, crossVars, rows_emitted, emitted,
                       abandoned>>

\* A plausible slip: the lane is marked done and not finished.
EndOfInputUnfinished ==
    \E c \in Calls({"EndOfInput"}) :
        /\ out_done' = [out_done EXCEPT ![c.node] = @ \cup {c.lane}]
        /\ acct' = Forget(acct, SlotOf(c.node, c.lane))
        /\ NextLane(c.node, c.lane)
        /\ UNCHANGED <<schedVars, steps, outcome, lane_state, exec, crossVars, rowVars, flowVars>>

EndOfInput ==
    \E c \in Calls({"EndOfInput"}) :
        /\ lane_state' = [lane_state EXCEPT ![c.node][c.lane] = "Finished"]
        /\ out_done' = [out_done EXCEPT ![c.node] = @ \cup {c.lane}]
        /\ acct' = Forget(acct, SlotOf(c.node, c.lane))
        /\ NextLane(c.node, c.lane)
        /\ UNCHANGED <<schedVars, steps, outcome, exec, crossVars, rowVars, flowVars>>

\* A lane that cannot step is passed over.
SkipLane ==
    /\ ctl.at = "lanes"
    /\ ctl.lane \notin LanesToRun(ctl.node)
    /\ NextLane(ctl.node, ctl.lane)
    /\ UNCHANGED <<schedVars, steps, outcome, laneVars, crossVars, rowVars, flowVars, acct>>

-----------------------------------------------------------------------------
(* The cross-lane nodes.                                                   *)

\* One event of one input lane.  The answer comes with the last lane's end.
LaneEvent ==
    \E c \in Calls({"LaneEvent", "LaneDone"}) :
        LET last == lane_done_sent[c.node] \cup {c.lane} = 1 .. InputLanes(c.node)
        IN  \E a \in {IF c.name = "LaneEvent" THEN LaneBatch(ExecutorOf(c), RowsOf(c.in))
                      ELSE LaneDone(ExecutorOf(c), last)} :
              Answer(c, a.left, "Live", a.out, FALSE)

\* A plausible slip: the node ends with the first lane that does.
CloseAccumulatorEarly ==
    LET n == ctl.node
        some == lane_done_sent[n] # {}
    IN  /\ ctl.at = "close"
        /\ out_done' = IF some THEN [out_done EXCEPT ![n] = {1}] ELSE out_done
        /\ acct' = IF some THEN Forget(acct, SlotOf(n, 1)) ELSE acct
        /\ ctl' = [ctl EXCEPT !.at = "settle"]
        /\ UNCHANGED <<schedVars, steps, outcome, lane_state, exec, crossVars, rowVars, flowVars>>

\* After the lanes of a cross-lane accumulator: it ends when they all have.
CloseAccumulator ==
    LET n == ctl.node
        all == lane_done_sent[n] = 1 .. InputLanes(n)
    IN  /\ ctl.at = "close"
        /\ out_done' = IF all THEN [out_done EXCEPT ![n] = {1}] ELSE out_done
        /\ acct' = IF all THEN Forget(acct, SlotOf(n, 1)) ELSE acct
        /\ ctl' = [ctl EXCEPT !.at = "settle"]
        /\ UNCHANGED <<schedVars, steps, outcome, lane_state, exec, crossVars, rowVars, flowVars>>

\* The lanes ls of an emitter given their parts of a scattered batch.
HeldParts(c, parts, ls) ==
    HoldMany(Release(acct, BytesOf(c.in)),
             Cardinality(ls) * BatchHeader + SumFunctionOnSet(parts, ls), Cardinality(ls))
QueuedParts(c, parts, ls) ==
    [Taken(c) EXCEPT ![c.node] =
       [l \in Lanes(c.node) |-> IF l \in ls THEN Append(@[l], parts[l]) ELSE @[l]]]
ReportedParts(c, parts, ls) ==
    [emitted EXCEPT ![c.node] =
       [l \in Lanes(c.node) |-> @[l] + IF l \in ls THEN parts[l] ELSE 0]]

\* The backend answered with too few or too many batches; the input has left.
Miscounted(c) ==
    /\ "EmitLanes" \in CallFaults
    /\ acct' = Release(acct, BytesOf(c.in))
    /\ queues' = Taken(c)
    /\ Fail("Protocol")
    /\ UNCHANGED emitted

\* A batch is scattered; lanes the hash sent nothing get nothing.  The lanes
\* are held, offered to the hook and queued one after the other, so a refusal
\* at lane k leaves those below it queued and those above it never held.
Scattered(c, parts) ==
    \E full \in {{l \in Lanes(c.node) : parts[l] > 0}} :
        \/ /\ queues' = QueuedParts(c, parts, full)
           /\ emitted' = ReportedParts(c, parts, full)
           /\ acct' = EndCall(HeldParts(c, parts, full), SlotOf(c.node, 1), 0)
           /\ IF Verdict(acct') # "Running" THEN Fail(Verdict(acct'))
              ELSE NextLane(c.node, 1) /\ UNCHANGED outcome
        \/ /\ HookRefuses
           /\ \E k \in full : \E upto \in {{l \in full : l <= k}} :
                /\ acct' = RefusedAccount(HeldParts(c, parts, upto), <<parts[k]>>)
                /\ queues' = QueuedParts(c, parts, upto \ {k})
                /\ emitted' = ReportedParts(c, parts, upto)
           /\ Fail("CallFailed")

Emit ==
    \E c \in Calls({"Emit"}) :
        /\ ~PreTrips(c)
        /\ TakeInput(c)
        /\ Miscounted(c) \/ \E parts \in Scatters(c.node, RowsOf(c.in)) : Scattered(c, parts)
        /\ lane_state' = [lane_state EXCEPT ![c.node][1] = "Live"]
        /\ UNCHANGED <<schedVars, steps, exec, out_done, crossVars, rowVars, abandoned>>

EmitDone ==
    \E c \in Calls({"EmitDone"}) :
        /\ emitter_finished' = emitter_finished \cup {c.node}
        /\ out_done' = [out_done EXCEPT ![c.node] = Lanes(c.node)]
        /\ acct' = Forget(acct, SlotOf(c.node, 1))
        /\ NextLane(c.node, 1)
        /\ UNCHANGED <<schedVars, steps, outcome, lane_state, exec, cursors, retired,
                       lane_done_sent, rowVars, flowVars>>

\* Sources are read in turn.
CursorAfter(i, k) == (i % k) + 1

\* One batch per visit, from the first source at or after the cursor that has
\* one; ended sources passed on the way retire, and the lane ends with the
\* last of them.
Forward ==
    \E c \in Calls({"Forward"}) :
    \E sources \in {SourcesOf(c.node, c.lane)} :
    \E live \in {DOMAIN sources \ retired[c.node][c.lane]} :
    \E full \in {{i \in live : Queue(sources[i]) # <<>>}} :
        LET n == c.node
            l == c.lane
            k == Len(sources)
            Turn(i) == (i - cursors[n][l] + k) % k
        IN  /\ \/ \E first \in full :
                    /\ \A j \in full : Turn(first) <= Turn(j)
                    /\ retired' = [retired EXCEPT ![n][l] = @ \cup
                                     {i \in live : SourceDone(sources[i]) /\ Turn(i) < Turn(first)}]
                    /\ \E r \in {Head(Queue(sources[first]))} :
                         /\ queues' = [queues EXCEPT ![sources[first][1]][sources[first][2]] = Tail(@),
                                                     ![n][l] = Append(@, r)]
                         /\ consumed' = [consumed EXCEPT
                                           ![sources[first][1]][sources[first][2]] = @ + r]
                         /\ emitted' = [emitted EXCEPT ![n][l] = @ + r]
                    /\ cursors' = [cursors EXCEPT ![n][l] = CursorAfter(first, k)]
                    /\ UNCHANGED out_done
               \/ /\ full = {}
                  /\ \E ended \in {{i \in live : SourceDone(sources[i])}} :
                       /\ retired' = [retired EXCEPT ![n][l] = @ \cup ended]
                       /\ out_done' = IF ended = live
                                        THEN [out_done EXCEPT ![n] = @ \cup {l}] ELSE out_done
                  /\ UNCHANGED <<queues, consumed, emitted, cursors>>
            /\ NextLane(n, l)
            /\ UNCHANGED <<schedVars, steps, outcome, lane_state, exec, lane_done_sent,
                           emitter_finished, rowVars, abandoned, acct>>

-----------------------------------------------------------------------------
(* The loop.                                                               *)

\* Rows that could still change this node's answer: none are left.
LimitSatisfied(n) ==
    \E i \in Plan[n].limit :
        IF Category(n) = "Unload" THEN SatisfiedBy(i, rows_seen[n])
        ELSE SatisfiedByEmitted(i, rows_emitted[n])

\* A plausible slip: the node is held and not marked done.
SettleLimitUnmarked(n) ==
    /\ IF LimitSatisfied(n) THEN S!Satisfy(n) ELSE UNCHANGED schedVars
    /\ UNCHANGED out_done

\* A satisfied node is held with its subtree, and marked done as it is held.
SettleLimit(n) ==
    IF LimitSatisfied(n)
      THEN S!Satisfy(n) /\ out_done' = [out_done EXCEPT ![n] = Lanes(n)]
      ELSE UNCHANGED <<schedVars, out_done>>

Refresh(n) == S!SetLanesReady(n, ReadyNow(n))

SeedRefresh ==
    /\ ctl.at = "seed_refresh"
    /\ Refresh(ctl.node)
    /\ ctl' = [ctl EXCEPT !.at = "seed_settle"]
    /\ UNCHANGED <<steps, outcome, laneVars, crossVars, rowVars, flowVars, acct>>

SeedSettle ==
    /\ ctl.at = "seed_settle"
    /\ SettleLimit(ctl.node)
    /\ ctl' = IF ctl.node < Len(Plan)
                THEN [ctl EXCEPT !.at = "seed_refresh", !.node = @ + 1]
                ELSE [ctl EXCEPT !.at = "pick"]
    /\ UNCHANGED <<steps, outcome, lane_state, exec, crossVars, rowVars, flowVars, acct>>

Step ==
    /\ ctl.at = "pick" /\ S!SomeRunnable
    /\ steps' = steps + 1
    /\ ctl' = [at |-> "lanes", node |-> S!Pick, lane |-> 1]
    /\ UNCHANGED <<schedVars, outcome, laneVars, crossVars, rowVars, flowVars, acct>>

Settle ==
    /\ ctl.at = "settle"
    /\ SettleLimit(ctl.node)
    /\ ctl' = [ctl EXCEPT !.at = "refresh"]
    /\ UNCHANGED <<steps, outcome, lane_state, exec, crossVars, rowVars, flowVars, acct>>

\* The end of a step: the next one, or the driver's step limit.
EndStep ==
    IF steps > MaxSteps THEN Fail("NoTermination")
    ELSE ctl' = [ctl EXCEPT !.at = "pick"] /\ UNCHANGED outcome

RefreshNode ==
    /\ ctl.at = "refresh"
    /\ Refresh(ctl.node)
    /\ IF ctl.node = Root THEN EndStep
       ELSE ctl' = [ctl EXCEPT !.at = "refresh_parent"] /\ UNCHANGED outcome
    /\ UNCHANGED <<steps, laneVars, crossVars, rowVars, flowVars, acct>>

\* A plausible slip: only the node that ran is refreshed.
RefreshParentSkipped ==
    /\ ctl.at = "refresh_parent"
    /\ EndStep
    /\ UNCHANGED <<schedVars, steps, laneVars, crossVars, rowVars, flowVars, acct>>

RefreshParent ==
    /\ ctl.at = "refresh_parent"
    /\ Refresh(Parent(ctl.node))
    /\ EndStep
    /\ UNCHANGED <<steps, laneVars, crossVars, rowVars, flowVars, acct>>

AllQueues == UNION {{n} \X Lanes(n) : n \in Nodes}
QueuedBytes == SumFunction([nl \in AllQueues |-> BytesOf(queues[nl[1]][nl[2]])])
QueuedBatches == SumFunction([nl \in AllQueues |-> Len(queues[nl[1]][nl[2]])])

ReleaseInFlight ==
    /\ acct' = ReleaseMany(acct, QueuedBytes, QueuedBatches)
    /\ abandoned' = [n \in Nodes |-> [l \in Lanes(n) |-> abandoned[n][l] + RowsOf(queues[n][l])]]
    /\ queues' = PerLane(<<>>)

Drained == out_done[Root] = Lanes(Root) /\ queues = PerLane(<<>>)

\* Nothing is runnable.  A run some limit cut short gives back what is queued;
\* any other must have drained.
FinishRun ==
    /\ ctl.at = "pick" /\ ~S!SomeRunnable
    /\ \/ /\ satisfied # {}
          /\ ReleaseInFlight
          /\ outcome' = "Ok" /\ ctl' = [ctl EXCEPT !.at = "ended"]
       \/ /\ satisfied = {}
          /\ IF Drained THEN outcome' = "Ok" /\ ctl' = [ctl EXCEPT !.at = "ended"]
             ELSE Fail("Protocol")
          /\ UNCHANGED <<acct, abandoned, queues>>
    /\ UNCHANGED <<schedVars, steps, laneVars, crossVars, rowVars, emitted, consumed>>

\* A plausible slip: a failed query keeps what it had queued.
UnwindNothing ==
    /\ ctl.at = "unwind"
    /\ ctl' = [ctl EXCEPT !.at = "ended"]
    /\ UNCHANGED <<schedVars, steps, outcome, laneVars, crossVars, rowVars, flowVars, acct>>

\* A query that ended badly gives back what is queued, by the same path.
Unwind ==
    /\ ctl.at = "unwind"
    /\ ReleaseInFlight
    /\ ctl' = [ctl EXCEPT !.at = "ended"]
    /\ UNCHANGED <<schedVars, steps, outcome, laneVars, crossVars, rowVars, emitted, consumed>>

\* The run has returned.
Returned == ctl.at = "ended" /\ UNCHANGED vars

Next ==
    \/ SeedRefresh \/ SeedSettle \/ Step
    \/ NextBatch \/ Exec \/ Unload \/ Accumulate \/ MarkDone
    \/ SetBuild \/ Probe \/ Finish \/ LetGo \/ EndOfInput \/ SkipLane
    \/ LaneEvent \/ CloseAccumulator \/ Emit \/ EmitDone \/ Forward
    \/ BuildFails \/ CallRefused \/ CallFails \/ SecondBuild
    \/ Settle \/ RefreshNode \/ RefreshParent
    \/ FinishRun \/ Unwind \/ Returned

Spec == Init /\ [][Next]_vars

\* The driver is a loop that runs until it returns.
FairSpec == Spec /\ WF_vars(Next)

-----------------------------------------------------------------------------
(* Properties.                                                             *)

TypeOK ==
    /\ ctl.at \in {"seed_refresh", "seed_settle", "pick", "lanes", "close", "settle",
                   "refresh", "refresh_parent", "unwind", "ended"}
    /\ ctl.node \in Nodes /\ ctl.lane \in 1 .. ReadyLanesOf[ctl.node]
    /\ outcome \in {"Running", "Ok"} \cup Errors
    /\ steps \in 0 .. MaxSteps + 1
    /\ emitter_finished \subseteq Nodes
    /\ \A n \in Nodes :
         /\ out_done[n] \subseteq Lanes(n)
         /\ rows_seen[n] \in Nat /\ rows_emitted[n] \in Nat
         /\ \A l \in Lanes(n) :
              /\ queues[n][l] \in Seq(Nat)
              /\ lane_state[n][l] \in LaneStates
              /\ exec[n][l] \in [rows : Nat, count : Nat]
              /\ emitted[n][l] \in Nat /\ consumed[n][l] \in Nat /\ abandoned[n][l] \in Nat
    /\ acct.in_flight \in Nat /\ acct.executor \in Nat
    /\ S!TypeOK

Sound == outcome \in {"Running", "Ok"}

\* Inside the subtree of a satisfied limit, the limit's own node aside: the
\* part of the plan a run may leave unfinished.
CutOff(n) == \E s \in satisfied : n \in S!Subtree(s) \ {s}

\* Refreshing only the node that ran and its parent is enough: whenever the
\* driver picks, every node no limit holds has exactly the ready lanes a
\* rescan of the whole plan would find (`refresh', `step').
ReadinessFresh ==
    ctl.at = "pick" => \A n \in Nodes : ~S!LimitHeld(n) => lane_ready[n] = ReadyNow(n)

\* A run that returns an answer is complete: outside the subtrees limits cut
\* off every lane of every node has ended and not one queued row was let go of,
\* although a single satisfied limit switches `assert_drained' off for the
\* whole plan (`finish', `settle_limit').
RunCompletes ==
    outcome = "Ok" =>
        \A n \in Nodes : ~CutOff(n) =>
            /\ out_done[n] = Lanes(n)
            /\ \A l \in Lanes(n) : queues[n][l] = <<>> /\ abandoned[n][l] = 0

\* Rows are neither lost nor made by a queue: what a lane queued was read by
\* its parent, is still queued, or was let go of at the end (`record_emitted',
\* `record_consumed', `release_in_flight').
RowsConserved ==
    Sound => \A nl \in AllQueues : nl[1] # Root =>
        LET n == nl[1]  l == nl[2]
        IN  emitted[n][l] = consumed[n][l] + RowsOf(queues[n][l]) + abandoned[n][l]

\* What a slot of the account should say: nothing once its lane has ended, what
\* its executor holds before that, and for a lane that drains at most an empty
\* batch, the build side of the executor it dropped.
SlotFigures(n, l) ==
    IF LaneScoped(n) /\ l \in out_done[n] THEN {0}
    ELSE IF lane_state[n][l] = "Draining" THEN {0, ArrayHeader}
    ELSE {ResidentBytes(n, exec[n][OutLane(n, l)])}

\* The accountant's totals are those of the state: in-flight bytes are the
\* queued batches', each hold still open is one queued batch, the executors'
\* total is the sum of the slots, and no slot outlives its lane or, but for the
\* empty build side of a draining one, its executor (`hold', `release', `end',
\* `forget', SetBuild, EndOfInput).
AccountExact ==
    Sound =>
        /\ acct.in_flight = QueuedBytes
        /\ acct.holds - acct.releases = QueuedBatches
        /\ acct.executor = SumFunction(acct.cached)
        /\ \A n \in Nodes : \A l \in Lanes(n) : acct.cached[SlotOf(n, l)] \in SlotFigures(n, l)

\* However a run ends, each batch that was held has been released once
\* (`run': "held and released stay equal on every path out of here").
HeldEqualsReleased == ctl.at = "ended" => acct.holds = acct.releases

\* While some lane of a join has yet to see its build side, nothing below its
\* probe side runs, and the count the scheduler waits on is the number of such
\* lanes (`lane_left_build', SetBuild).
ProbeWaits ==
    \A j \in Joins :
        /\ building[j] = Cardinality({l \in Lanes(j) : AwaitsBuild(j, l)})
        /\ building[j] > 0 =>
             \A n \in S!ProbeNodes(j) : \A l \in Lanes(n) :
                 lane_state[n][l] = "Unbuilt" /\ emitted[n][l] = 0

\* A queue holds at most one batch: a parent is always run before the node
\* that feeds it runs again, and a join that still builds, which would leave its
\* probe batches queued, holds the nodes that produce them (`next', the rank
\* order of the schedule, `lane_left_build').
QueuesBounded == \A n \in Nodes : \A l \in Lanes(n) : Len(queues[n][l]) <= 1

RowsEmitted(n) == SumFunction(emitted[n])

\* A LIMIT is exact however its input is split into lanes and batches: a
\* finished run emits, at the limit's node, as many rows as its interval wants
\* of all the rows its input produced (`range_of', `settle_limit').
LimitExact ==
    outcome = "Ok" =>
        \A n \in Nodes : ~CutOff(n) => \A i \in Plan[n].limit :
            RowsEmitted(n) =
              Cardinality({k \in 0 .. RowsEmitted(Children(n)[1]) - 1 : Wanted(i, k)})

\* An aggregate without keys answers at least one row, its identity row if
\* nothing reached it (AggregateInit, `mark_done_and_fetch').
IdentityRow ==
    outcome = "Ok" =>
        \A n \in Nodes : Kind(n) = "KeylessInit" /\ ~CutOff(n) => RowsEmitted(n) >= 1

\* Once a limit is satisfied, no node of its subtree runs again (`satisfy').
SatisfiedIsFrozen ==
    [][ \A n \in Nodes : S!LimitHeld(n) =>
          UNCHANGED <<emitted[n], lane_state[n], exec[n]>> ]_vars

\* The driver's own checks never refuse a plan whose build sides answer one
\* batch: it drains, no release is uncovered and the step limit is not met.
NeverStuck == outcome \notin {"Protocol", "NoTermination"}

\* A run goes on, and returns an answer, only with a resident total within the
\* budget, whichever of queues and executors took the bytes: a call that leaves
\* more is the last.  The total while a call runs, and so the peak, may be more
\* (`check', `begin_call', `end': "fail cleanly when an accounted total at a
\* check point exceeds budget").
GoesOnWithinBudget == Budget # NoBudget /\ Sound => Resident(acct) <= Budget

\* Every run returns, and of its own accord rather than by the step limit
\* (`drive').
Terminates == <>(ctl.at = "ended" /\ outcome # "NoTermination")
=============================================================================
