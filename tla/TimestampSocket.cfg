SPECIFICATION Spec
CONSTANTS
    MaxRetries = 3
    NumBursts = 2
    BurstLen = 2
INVARIANTS
    TypeOK
    StampIsOwn
    OvertakenExplained
PROPERTIES
    RunEnds
CHECK_DEADLOCK FALSE
