SPECIFICATION Spec
CONSTANTS
    Plan <- BudgetPlan
    U64 = 64
    Budget = 9
    SourceRows = {0, 1, 2, 5}
    JoinRows = 1
    BatchHeader = 1
    ArrayHeader = 2
    CallFaults = {}
    BuildFaults = {}
    HookRefuses = FALSE
    MaxSteps = 60
INVARIANTS GoesOnWithinBudget
