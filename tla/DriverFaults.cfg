SPECIFICATION FairSpec
CONSTANTS
    Plan <- FaultPlan
    U64 = 64
    Budget <- NoBudget
    SourceRows = {0, 2}
    JoinRows = 1
    BatchHeader = 1
    ArrayHeader = 2
    CallFaults = {"NextBatch", "Exec", "Unload", "Accumulate", "MarkDone", "SetBuild", "Probe", "Finish", "Emit", "EmitLanes", "LaneEvent", "LaneDone"}
    BuildFaults = {"Source"}
    HookRefuses = TRUE
    MaxSteps = 60
INVARIANTS HeldEqualsReleased
PROPERTIES Terminates
