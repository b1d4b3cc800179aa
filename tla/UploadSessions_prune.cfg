SPECIFICATION Spec
CONSTANTS
    u1 = u1
    w1 = w1
    w2 = w2
    w3 = w3
    Ids <- OneId
    ChunkCount = 2
    Workers <- TwoWorkers
    MaxStreams = 2
    MaxSessions = 1
    MaxInodes = 2
    MaxCrashes = 0
    SlowTransfers = TRUE
CHECK_DEADLOCK FALSE
INVARIANT
    CommitComplete
