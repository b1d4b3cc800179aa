SPECIFICATION Spec
CONSTANTS
    MinHealthy = 6
    ReprobeInterval = 20
    Cap = 5
    Threshold = 3
    StrikeMax = 5
    FailureMax = 6
PROPERTY
    FallbackIsTried
