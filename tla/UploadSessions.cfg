SPECIFICATION Spec
CONSTANTS
    u1 = u1
    w1 = w1
    w2 = w2
    w3 = w3
    Ids <- OneId
    ChunkCount = 2
    Workers <- ThreeWorkers
    MaxStreams = 2
    MaxSessions = 1
    MaxInodes = 2
    MaxCrashes = 1
    SlowTransfers = FALSE
SYMMETRY WorkerSymmetry
CHECK_DEADLOCK FALSE
INVARIANTS
    TypeOK
    CommitComplete
    ReceivedStored
    CancelLeavesNothing
