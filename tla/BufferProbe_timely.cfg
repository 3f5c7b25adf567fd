SPECIFICATION FairSpec
CONSTANTS
    Reordering = FALSE
    MaxDuplicates = 0
    SendFailures = FALSE
    MaxControlLoss = 2
    TestMode = 1
    TestQueueLen = 1
    ReplyCapacity = 4
    MaxRestarts = 0
    MaxErrors = 1
    Params <- GrowingOrNot
    MaxRetries = 2
    MaxRuns = 2
    IntMax = 127
    Timely = TRUE
INVARIANTS
    FailureNeedsLosses
PROPERTIES
    RunEnds
    RunReports
CHECK_DEADLOCK FALSE
