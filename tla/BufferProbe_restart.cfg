SPECIFICATION Spec
CONSTANTS
    Reordering = FALSE
    MaxDuplicates = 0
    SendFailures = TRUE
    MaxControlLoss = 1
    TestMode = 0
    TestQueueLen = 1
    ReplyCapacity = 4
    MaxRestarts = 1
    MaxErrors = 1
    Params <- ShortAndLong
    MaxRetries = 1
    MaxRuns = 3
    IntMax = 127
    Timely = FALSE
INVARIANTS
    NullDerefExplained
    IndexExplained
CHECK_DEADLOCK FALSE
CONSTRAINT
    ErrorsEarly
