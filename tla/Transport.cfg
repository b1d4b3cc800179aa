SPECIFICATION AllFairSpec
CONSTANTS
    MinHealthy = 6
    ReprobeInterval = 20
    Cap = 5
    Threshold = 3
    StrikeMax = 5
    FailureMax = 6
    Chunk = 2
    PipeSize = 2
    InputSize = 2
    Limit = 3
    Dispatchers = {d1, d2}
    Sessions = {s1, s2}
    NoPty = NoPty
    MaxTerminals = 1
INVARIANTS
    TypeOK
    HttpOnlyStays
    StrikesLengthenBackoff
PROPERTIES
    LoopFallsBack
    LoopReturns
    RunAlwaysReturns
    AbandonedEnds
CHECK_DEADLOCK FALSE
