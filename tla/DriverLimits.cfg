SPECIFICATION FairSpec
CONSTANTS
    Plan <- LimitsPlan
    U64 = 64
    Budget <- NoBudget
    SourceRows = {0, 2}
    JoinRows = 1
    BatchHeader = 1
    ArrayHeader = 2
    CallFaults = {}
    BuildFaults = {}
    HookRefuses = FALSE
    MaxSteps = 60
INVARIANTS RunCompletes LimitExact IdentityRow HeldEqualsReleased
PROPERTIES SatisfiedIsFrozen Terminates
