SPECIFICATION FairSpec
CONSTANTS
    u1 = u1
    w1 = w1
    w2 = w2
    w3 = w3
    Ids <- OneId
    ChunkCount = 1
    Workers <- TwoWorkers
    MaxStreams = 2
    MaxSessions = 1
    MaxInodes = 2
    MaxCrashes = 0
    SlowTransfers = FALSE
CHECK_DEADLOCK FALSE
PROPERTY
    TransferEnds
