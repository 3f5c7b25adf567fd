SPECIFICATION Spec
CONSTANTS
    Reordering = FALSE
    MaxDuplicates = 0
    SendFailures = FALSE
    MaxControlLoss = 0
    TestMode = 0
    TestQueueLen = 1
    ReplyCapacity = 1
    MaxRestarts = 0
    MaxErrors = 0
    Params <- TwoBursts
    MaxRetries = 2
    MaxRuns = 1
    IntMax = 127
    Timely = TRUE
INVARIANTS
    ReplyFits
CHECK_DEADLOCK FALSE
