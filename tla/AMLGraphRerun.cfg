\* The same investigation invoked twice, with crashes between the nodes and
\* a failing database operation: what the tables hold afterwards,
\* that each run stops, and the abstract investigation they implement.
CONSTANTS
    MaxToolHops = 2
    ConfidenceThreshold = 7000
    TimeoutSeconds = 1
    CostCap = 4
    CallCosts <- OneCost
    MaxCallCost = 1
    Confidences <- AroundThreshold
    Durations <- NoDelay
    MaxDuration = 0
    MaxLostWrites = 1
    MaxRuns = 2
SPECIFICATION FairSpec
INVARIANTS
    OutcomeRecorded
    ReportBacked
    AuditClosed
PROPERTIES
    FirstReportStands
    Termination
    ImplementsOutcome
\* the last run ends
CHECK_DEADLOCK FALSE
