SPECIFICATION Spec
CONSTANTS
    NULL = NULL
    Params <- ForTwoRuns
    DefaultLen = 1
    TestMode = 1
    TestQueueLen = 2
    HeaderLen = 1
    ShortMax = 4
    FrameLen = 3
    FrameOverhead = 2
    Reordering = TRUE
    MaxInFlight = 3
    MaxDuplicates = 1
    MaxRuns = 2
INVARIANTS
    TypeOK
    StoreIsWhatArrived
    LinesAreRealLoss
    ReportIsComplete
    AnalysisCrashExplained
    ExcessNeedsTwoRuns
PROPERTIES
    WildWriteExplained
CHECK_DEADLOCK FALSE
