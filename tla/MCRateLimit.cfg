CONSTANTS
    MrRegRateLimit = 3
    Second = 3
    MaxTime = 9
SPECIFICATION RateSpec
INVARIANTS
    RateTypeOK
    TwiceTheLimit
PROPERTIES
    RefusalsJustified
