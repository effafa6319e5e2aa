------------------------------- MODULE Backend -------------------------------
(***************************************************************************)
(* What the driver sees of the executors of a backend                      *)
(* (executor/cpu_backend): how many rows each call answers, and the bytes  *)
(* an executor reports.  A batch is its row count; its bytes are those of  *)
(* its schema and one per row, so a batch of no rows has bytes too.        *)
(* Values the data decides are sets of possible answers.                   *)
(*                                                                         *)
(* An executor's state is [rows, count]: for an accumulator and a probing  *)
(* join the rows and the batches it holds, for a limit the rows it has     *)
(* seen, for an aggregate's init whether it has emitted, for a source the  *)
(* batches it has read.                                                    *)
(***************************************************************************)
EXTENDS Plan, Functions

CONSTANTS
    SourceRows,     \* rows a batch read by a source may have
    JoinRows,       \* bound: rows one probe call answers at most
    BatchHeader,    \* bytes the driver accounts for a batch of no rows
    ArrayHeader     \* bytes an executor reports for a held batch of no rows

ASSUME BackendAssumption ==
    /\ SourceRows \subseteq Nat /\ JoinRows \in Nat
    /\ BatchHeader \in Nat /\ ArrayHeader \in Nat

\* The rows of a sequence of batches, and what `byte_size' says of them.
RowsOf(batches) == SumFunction(batches)
BytesOf(batches) == Len(batches) * BatchHeader + RowsOf(batches)

NewExecutor == [rows |-> 0, count |-> 0]

HoldingKinds == {"Coalesce", "Aggregate", "MergeSorted", "EmitTwice"}

\* An accumulator reports the arrays it holds, a probing join its build side's
\* (nothing for an absent one), the others nothing.
ResidentBytes(n, x) ==
    IF Kind(n) \in HoldingKinds \/ Category(n) = "Join"
      THEN x.count * ArrayHeader + x.rows
      ELSE 0

\* The transient a call is priced at.  A join is priced by the batch alone.
ScratchBytes(n, x, bytes) ==
    CASE Category(n) \in {"Source", "Unload"} -> 0
      [] Category(n) \in {"BatchAccumulator", "PartitionAccumulator"} ->
           ResidentBytes(n, x) + bytes
      [] OTHER -> bytes

\* Groups left of k rows of pre-aggregated state: some, and none from none.
Folded(k) == IF k = 0 THEN {0} ELSE 1 .. k

\* An answer is a sequence of batches.
Nothing == <<>>

ExecAnswers(n, r) == IF Kind(n) = "Filter" THEN {<<k>> : k \in 0 .. r} ELSE {<<r>>}

LimitOf(n) == CHOOSE i \in Plan[n].limit : TRUE

\* One more batch of r rows held.
Holding(x, r) == [rows |-> x.rows + r, count |-> x.count + 1]

\* What accumulate_and_fetch may leave and answer, r rows arriving.  An
\* aggregate may or may not fold all it holds into one state at this arrival.
Accumulated(n, x, r) ==
    CASE Kind(n) \in {"Coalesce", "EmitTwice"} ->
           {[left |-> Holding(x, r), out |-> Nothing]}
      [] Kind(n) = "Aggregate" ->
           {[left |-> y, out |-> Nothing] :
              y \in {Holding(x, r)} \cup [rows : Folded(x.rows + r), count : {1}]}
      [] Kind(n) \in {"KeylessInit", "GroupedInit"} /\ r = 0 ->
           {[left |-> x, out |-> Nothing]}
      [] Kind(n) = "KeylessInit" /\ r > 0 ->
           {[left |-> [x EXCEPT !.count = 1], out |-> <<1>>]}
      [] Kind(n) = "GroupedInit" /\ r > 0 ->
           {[left |-> [x EXCEPT !.count = 1], out |-> <<k>>] : k \in 1 .. r}
      [] Kind(n) = "Limit" ->
           LET range == RangeOf(LimitOf(n), x.rows, r)
           IN  {[left |-> [x EXCEPT !.rows = @ + r],
                 out  |-> IF range = NoRows THEN Nothing
                          ELSE IF Covers(range, r) THEN <<r>>
                          ELSE <<range.length>>]}

\* A plausible slip: an aggregate nothing reached answers nothing.
MarkedDoneBare(n, x) ==
    IF x.count = 0 THEN {Nothing}
    ELSE IF Kind(n) \in {"Coalesce", "Aggregate"} THEN {<<x.rows>>}
    ELSE {Nothing}

\* What mark_done_and_fetch may answer: one batch of what was held and nothing
\* where nothing arrived, but for a keyless init, which owes its identity row.
\* The trait allows any number; EmitTwice is the driver tests' executor of two.
MarkedDone(n, x) ==
    CASE Kind(n) = "Coalesce" -> {IF x.count = 0 THEN Nothing ELSE <<x.rows>>}
      [] Kind(n) = "Aggregate" ->
           IF x.count = 0 THEN {Nothing} ELSE {<<k>> : k \in Folded(x.rows)}
      [] Kind(n) = "KeylessInit" -> {IF x.count > 0 THEN Nothing ELSE <<1>>}
      [] Kind(n) \in {"GroupedInit", "Limit"} -> {Nothing}
      [] Kind(n) = "EmitTwice" -> {<<x.rows, x.rows>>}

\* A cross-lane accumulator answers at the last lane's end, and holds nothing
\* from then on.
LaneBatch(x, r) == [left |-> Holding(x, r), out |-> Nothing]
LaneDone(x, last) ==
    IF ~last THEN [left |-> x, out |-> Nothing]
    ELSE [left |-> NewExecutor, out |-> IF x.count = 0 THEN Nothing ELSE <<x.rows>>]

\* The join types by what they owe.
OwesNothing(n, build) ==
    build = 0 /\ Kind(n) \in {"Inner", "Left", "LeftSemi", "LeftAnti", "LeftMark", "RightSemi"}
NeedsFinish(n) == Kind(n) \in {"Left", "Full", "LeftSemi", "LeftAnti", "LeftMark"}
AnswersAtFinishOnly(n) == Kind(n) \in {"LeftSemi", "LeftAnti", "LeftMark"}

ProbeAnswers(n) ==
    IF AnswersAtFinishOnly(n) THEN {Nothing} ELSE {<<k>> : k \in 0 .. JoinRows}
FinishAnswers(n, x) ==
    IF NeedsFinish(n) THEN {<<k>> : k \in 0 .. x.rows} ELSE {Nothing}

\* Exactly one output per lane, empty where the hash sent nothing.
Scatters(n, r) == {parts \in [Lanes(n) -> 0 .. r] : SumFunction(parts) = r}
=============================================================================
