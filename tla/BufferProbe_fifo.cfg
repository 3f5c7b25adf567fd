SPECIFICATION Spec
CONSTANTS
    Reordering = FALSE
    MaxDuplicates = 0
    SendFailures = FALSE
    MaxControlLoss = 2
    TestMode = 0
    TestQueueLen = 1
    ReplyCapacity = 4
    MaxRestarts = 0
    MaxErrors = 0
    Params <- ShortOrGrowing
    MaxRetries = 2
    MaxRuns = 2
    IntMax = 1
    Timely = FALSE
INVARIANTS
    TypeOK
    MeasuredLossIsRealLoss
PROPERTIES
    RecordedKept
    RejectedIsLate
CHECK_DEADLOCK FALSE
