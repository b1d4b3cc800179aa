CONSTANTS
    Dispatchers = {d1, d2}
    Sessions = {s1, s2, s3}
    NoPty = NoPty
    MaxTerminals = 2
SPECIFICATION TmSpec
INVARIANT OwnTerminal
CHECK_DEADLOCK FALSE
