SPECIFICATION Spec
CONSTANTS
    NULL = NULL
    Params <- SmallAndLarge
    DefaultLen = 1
    TestMode = 0
    TestQueueLen = 1
    HeaderLen = 1
    ShortMax = 4
    FrameLen = 3
    FrameOverhead = 2
    Reordering = FALSE
    MaxInFlight = 3
    MaxDuplicates = 0
    MaxRuns = 1
INVARIANTS
    WireBytesCounted
CHECK_DEADLOCK FALSE
