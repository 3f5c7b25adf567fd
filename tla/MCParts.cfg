SPECIFICATION PartsSpec
CONSTANTS
    MILLION = 3
    BurstLen = 4
    MaxClock = 7
    PacketSize = 2
    OtherBursts <- FoundElsewhere
    MaxBursts = 4
    MaxAfter = 1
    MaxDuplicates = 1
    DBL_MAX = 1000
    Keys = {1, 2}
    Values = {a, b}
    NoValue = null
    MaxSize = 5
    Base = 2
    Digits = 3
    MaxPackets = 2
    MaxNow = 10
    MaxLines = 2
INVARIANTS
    PartsTypeOK
    CountsAreSummary
    TimesAreSpans
    ShortestIsSmallestGap
    InOrderNotNegative
    StatisticsOfSamples
    SpanIsExact
    VersionsAgree
    MeanLostExplained
    SizeCountsPops
    RatePrintsExplained
PROPERTIES
    ImplementsStacks
CHECK_DEADLOCK FALSE
