\* One investigation, and a client that polls it at any moment;
\* one database operation may fail.
CONSTANTS
    MaxToolHops = 3
    ConfidenceThreshold = 7000
    TimeoutSeconds = 1
    CostCap = 4
    CallCosts <- OneCost
    MaxCallCost = 1
    Confidences <- AroundThreshold
    Durations <- NoDelay
    MaxDuration = 0
    MaxLostWrites = 1
    MaxRuns = 1
SPECIFICATION FairViewSpec
INVARIANTS
    AnswersTrue
    ResolvedReportReadable
    StatusKnown
    ChainOneToOne
    BenchmarkHonest
PROPERTIES
    ListedClosed
\* the last run ends
CHECK_DEADLOCK FALSE
