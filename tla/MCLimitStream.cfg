SPECIFICATION Spec
CONSTANTS
    U64 = 16
    Inners <- MCIntervals
    Outers <- MCIntervals
    MaxRows = 10
    MaxBatch = 4
INVARIANTS TypeOK PairIsExact FusedIsPair SatisfiedIsFinal EmittedAgrees
CHECK_DEADLOCK FALSE
