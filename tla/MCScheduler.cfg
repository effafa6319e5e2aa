SPECIFICATION Spec
CONSTANTS
    NodeCount = 6
    Height <- MCHeight
    ReadyLanes <- MCReadyLanes
    SubtreeEnd <- MCSubtreeEnd
    JoinNodes <- MCJoinNodes
    ProbeStart <- MCProbeStart
    JoinLanes <- MCJoinLanes
INVARIANTS TypeOK CountersExact WordsAreRescan
PROPERTY HoldsMoveOneWay
