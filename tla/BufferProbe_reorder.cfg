SPECIFICATION Spec
CONSTANTS
    Reordering = TRUE
    MaxDuplicates = 1
    SendFailures = FALSE
    MaxControlLoss = 1
    TestMode = 0
    TestQueueLen = 1
    ReplyCapacity = 4
    MaxRestarts = 0
    MaxErrors = 0
    Params <- TwoBursts
    MaxRetries = 2
    MaxRuns = 1
    IntMax = 127
    Timely = FALSE
INVARIANTS
    HandshakeInv
    BurstNumbersInv
PROPERTIES
    ImplementsSession
CHECK_DEADLOCK FALSE
