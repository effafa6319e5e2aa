# Verification of the PeacockDB executor

PeacockDB runs a query as a tree of plan nodes. A single-threaded *driver* pushes
batches of rows from the sources to the sink, one node at a time, over several
*lanes* (partitions). This directory holds a TLA+ model of that driver and of the
parts it rests on, checked with TLC on small plans, with theorems checked by
TLAPS for every plan shape and every interval.

Paths below are relative to `src/`; `driver/` is
`peacockdb-core/src/executor/driver/`.

## The system's parts

| part | state | operations | modelled by |
|---|---|---|---|
| scheduler (`driver/scheduler.rs`) | ready lanes, build and limit holds, runnable bits | `set_lane_ready`, `lane_left_build`, `satisfy`, `next` | `Scheduler` |
| plan index and routing (`driver/index.rs`, `executor/forwarder.rs`) | none, computed once | heights, subtree ranges, slots, forwarder sources | `Plan` |
| partitioned driver (`driver/partitioned.rs`) | queues, ended lanes, cursors, row counts | `seed`, `step`, one routine per node category, `finish` | `Driver` |
| lane driver (`driver/single_partition.rs`) | the life of each lane's executor | `select`, `run` (one arm per call) | `Driver` |
| accountant (`driver/accounting.rs`) | bytes in flight, bytes per executor, peak, hold and release counts | `hold`, `release`, `begin_call`, `end_call`, `forget` | `Accountant` |
| row intervals (`plan/interval.rs`, `plan/mod.rs`, `executor/row_range.rs`) | none | `range_of`, `over`, `satisfied_by`, `clamp` | `Interval`, `LimitStream` |
| CPU executors (`executor/cpu_backend/`) | what each holds | accumulate, mark done, build, probe, finish, emit | `Backend` |
| GPU executors, C++ sessions and operators | device handles | the same calls across a C ABI | not modelled yet |
| planner, wire format, DPhyp, measurement join, reports, scripts | | | not modelled, see below |

The driver asks the scheduler for the runnable node nearest the root, runs each
ready lane of it once, settles its limit, and re-reads the readiness of that node
and of its parent. Each lane call pops its input, asks the accountant whether the
call fits the budget, calls the executor, settles the account and queues the
answer. A join holds its whole probe subtree until every lane has had its build
side. A satisfied limit holds its subtree for good.

## What is hard here

- Readiness is kept incrementally: only the node that ran and its parent are
  re-read, and the runnable bits come from counters.
- Holds overlap: a node can be under two joins and a limit.
- A lane may have no build batch, one, or (an error) two.
- Early exit leaves lanes unfinished and queues full on purpose, and turns the
  drain check off for the whole plan.
- A call can fail, or be refused by the budget or by the output hook, between the
  pop of its input and the queueing of its output.
- Limits are judged by rows seen at the sink and by rows emitted elsewhere.

`PROJECT.json` lists these as hazards, each at its line.

## Modules

- `Scheduler`: one action per method. Nodes are pre-order positions from 1. The
  rank bitset is the set `words`, ordered by `Before`. `SetLanesReady` is the
  driver's re-read of all lanes of a node. The assertion in `lane_left_build` is
  its guard.
- `Plan`: a plan is a sequence of node records in pre-order. Heights, subtrees,
  readiness lanes, slots and routing are computed as the index does.
- `Interval`: the u64 arithmetic. `U64` is the modulus; the unchecked
  `skip + fetch` wraps.
- `LimitStream`: two stacked limits beside the interval the planner fuses them to.
- `Accountant`: an account is a record and each method an operator on it.
- `Backend`: what each executor may answer, as sets of sequences of row counts, and
  the bytes it reports.
- `Driver`: composes the above. `ctl` is the program counter; an action is one
  lane call or one step of the loop. The scheduler is `S == INSTANCE Scheduler`.
- `MCScheduler`, `MCLimitStream`, `MCDriver`: the instances TLC checks.
- `SchedulerProofs`, `LimitStreamProofs`: the theorems.

`Driver` describes the call being made by a record `c` (`Calls`): its name, node,
lane, input slot and waiting batch.

Definitions commented "a plausible slip" are deliberately wrong variants of the
definition that follows them. No specification uses them. Each one, put in the
place of the definition, makes TLC refute the property it is paired with, which
shows that the property depends on that part of the code.

### Abstractions

- A batch is its row count. What the driver accounts for it (`byte_size`) is
  `BatchHeader` plus its rows, and what an executor reports for a batch it holds
  (`get_array_memory_size`) is `ArrayHeader` plus its rows. The headers stand for
  what the schema and the array structures weigh, so an empty batch has bytes, and
  not the same ones on both sides. Columns all have the same width: a join's
  output is no wider than its input.
- The executors of `cpu_backend/` answer at most one batch per lane call. The
  traits allow more and the driver handles more, so `EmitTwice` models the
  accumulator of the driver's own tests that answers two at its end
  (`driver/tests/mock.rs:78`). Rows a probe answers are bounded by `JoinRows`;
  batches of a source by `reads`.
- An aggregate may compact at any arrival; the threshold is not modelled. A sort's
  `fetch` is left out, and a sort is a `Coalesce`.
- Reports that decide nothing are left out: trace, skipped rows, peak queue
  lengths, underestimates, ABI calls.
- The lane states `Unbuilt` and `Build` are one, since the build of an executor
  and the `set_build` that follows are one call.
- On a failing path the executor's own state is not updated: no call follows.
- Plans are assumed valid: no limit node right below the sink
  (`plan/validate.rs:40`), and a mid-plan limit has one lane
  (`plan/accumulators.rs:83`).

## Runs

| run | what it shows |
|---|---|
| `scheduler` | any order of scheduler operations on nested joins keeps counters exact and bits equal to a rescan; limit holds never lift |
| `limit_stream` | every pair of small intervals, every cut into batches: the pair is exact, the fused interval equals it, early exit is judged in time |
| `driver_shuffle` | aggregate, merge, scatter, aggregate: readiness is never stale at a pick, rows and bytes are conserved, each queue holds one batch at most |
| `driver_nested_join` | a join on a join's probe side, lanes without build rows: probe sides wait and each lane's end of its build is counted once, the account is exact, the plan drains, and the holds keep each queue at one batch |
| `driver_merge` | filter, union, interleave, cross-lane merge: no row lost, the plan drains |
| `driver_limits` | a limit below an aggregate and one at the sink: exact, subtree frozen, abandoned batches released, the identity row kept, the run ends |
| `driver_faults` | every call may fail, a source may fail to be built, an emitter may answer the wrong number of lanes, the hook may refuse the first or the second batch of an answer: holds equal releases and the run returns. Two failures are left out because they break the balance, see below: an executor other than a source that cannot be built, and a `set_build` without a batch |
| `driver_second_build` | a second build batch, met before or after the other lane has probed, ends the query and everything queued is given back |
| `driver_budget` | a run goes on, and returns an answer, only with a resident total within the budget. This is not a bound on the peak, see below |
| `driver_zero_limit` | violation, see below |
| `driver_budget_balance` | violation, see below |
| `driver_failed_build` | violation, see below |

Two of these properties are weaker than a first reading of the code suggests:

- The peak may exceed the budget in a run that completes. A buffering node holds
  its state and its answer together for one call; the peak sees both, the check
  after the call sees what is left. `llm-wiki/architecture.md` describes this and
  `driver/tests/budget.rs` tests it, so `GoesOnWithinBudget` is about the total at
  the checks. The plan of `driver_budget` contains the case.
- A slot of the account does not always belong to a live executor. `SetBuild` has
  the probing join report before it drops it for a lane that drains
  (`driver/single_partition.rs:338`), so the slot keeps the bytes of a build batch
  of no rows until the lane's probe side ends. `AccountExact` allows a draining
  slot this residue, at most one `ArrayHeader`, and nothing else.

### Bounds

Source batches have 0 or 2 rows: the empty batch, and one that an interval, a
filter or a scatter can split. The budget runs use 0, 1, 2 or 5 rows and a budget of
9 bytes, under which some runs finish (some of them with a higher peak), some are
refused before a call and some overshoot in one. `BatchHeader = 1` and
`ArrayHeader = 2` are the smallest values that are neither zero nor equal. Lanes have up to two batches, so that a lane can
end before its neighbour and a limit can fall inside, between or after batches.
Two lanes are the fewest that tell "one lane" from "every lane". `MaxSteps` is the
driver's own step limit, set well above what the plans need. `U64 = 64` and `16`
exceed every sum the plans and intervals reach, as 2^64 does for SQL integers. In
`limit_stream` the stream (10 rows) outlasts every pair of intervals (stop at
most 7, or 10 for the pair). Larger plans, more lanes and longer streams are only
covered by the theorems.

### Fairness

`FairSpec` is weak fairness of `Next`: the driver is one loop that keeps running
until it returns, and nothing else runs beside it. `Terminates` is checked where
it is most at risk, with limits and with faults.

### Disagreements with the comments

- `driver_zero_limit`: `seed` refreshes a parent before it settles the limit
  below it. A `LIMIT 0` is satisfied while seeding and never steps, so nothing
  refreshes its parent again. The nodes above never run, and because some limit is
  satisfied the drain check is skipped and the run returns `Ok`; a keyless
  aggregate loses its row. `driver/partitioned.rs:221` says the plan "still has to
  complete rather than stall". SQL planning removes `LIMIT 0`, so this needs a
  plan that still has the node.
- `driver_budget_balance`: a budget trip loses a popped input, or outputs held and
  not yet queued. `driver/partitioned.rs:199` says "held and released stay equal
  on every path out of here". The counts of a failed run are not reported today.
  An executor that cannot be built loses its popped input in the same way
  (`driver/single_partition.rs:243`): `DriverFaults.cfg` with `BuildFaults` set to
  `{"BatchAccumulator"}`, `{"Join"}` or `{"Unload"}` violates `HeldEqualsReleased`.
  That is why `driver_faults` has `BuildFaults = {"Source"}`, the one lane-scoped
  category that takes no input, and why its balance says nothing of the others.
- `driver_failed_build`: a failing `set_build` without a batch counts a release
  of zero bytes, which `driver/single_partition.rs:509` warns against. The build
  side of `driver_faults` always answers one batch, so this does not arise there.

## Proofs

`SchedulerProofs` proves, for every plan shape allowed by `ShapeAssumption` (any
heights, lanes, subtree ends and joins; they need not even form a tree):

- `SchedulerInvariant`: `IInv` (types, exact counters, bits equal to a rescan) is
  inductive. The bits alone are not: a refresh reads the counters, so one needs
  that each counter counts the joins or limits that hold the node; and a
  decrement stays a natural number only because a join that still builds is
  counted. The cardinality lemmas say how such a set changes when one join
  leaves its build or one limit is satisfied.
- `SchedulerTypes`, `HoldsCounted`, `ScheduleIsRescan` follow from it, and
  `HoldsAreMonotone` is the action property from the same invariant.

`LimitStreamProofs` proves, for every set of intervals that satisfies
`LimitAssumption` (no sum reaches the modulus) and every stream:

- `LimitInvariant`: the outer limit was handed exactly the inner one's rows so
  far, and both row sets are the wanted ones. The count is the strengthening: the
  outer range is computed from it.
- `LimitsAreExact`, `FusionIsExact`, `EmittedCountAgrees` follow from it.

Only model-checked: everything about `Driver`, termination (liveness is outside
the prover), and `SatisfiedIsFinal`.

## Not modelled

- C++ operators, expressions: data-parallel kernels without control to check.
- Plan text, FFI, command line, cost report, build scripts: formatting and I/O.
- The Python executable model: a twin of the Rust driver, which is modelled.
- GPU executors, C++ node and join sessions, measurement join, DPhyp, planner
  rewrites, wire numbering, idle watcher: planned.

## Plan

1. GPU executors and the C++ node session: handle lifetimes, per-seq call counters
   on both sides, and the measurement join that pairs them.
2. Aggregate compaction with its doubling threshold; the join session's matched
   rows across probe calls.
3. DPhyp enumeration against a reference definition; wire sequence numbering; the
   idle watcher's tick over restarts.
4. An abstract dataflow specification (any ready node may run) that the driver
   implements.
5. Theorems: a probe side stays idle while its join builds, and the account is
   exact.
