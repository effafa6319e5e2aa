SPECIFICATION Spec
CONSTANTS
    Plan <- ShufflePlan
    U64 = 64
    Budget <- NoBudget
    SourceRows = {0, 2}
    JoinRows = 1
    BatchHeader = 1
    ArrayHeader = 2
    CallFaults = {}
    BuildFaults = {}
    HookRefuses = FALSE
    MaxSteps = 60
INVARIANTS TypeOK ReadinessFresh RowsConserved AccountExact QueuesBounded
