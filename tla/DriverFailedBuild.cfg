SPECIFICATION Spec
CONSTANTS
    Plan <- InnerJoinPlan
    U64 = 64
    Budget <- NoBudget
    SourceRows = {0, 2}
    JoinRows = 1
    BatchHeader = 1
    ArrayHeader = 2
    CallFaults = {"SetBuild"}
    BuildFaults = {}
    HookRefuses = FALSE
    MaxSteps = 60
INVARIANTS HeldEqualsReleased
