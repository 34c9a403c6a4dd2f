\* One run with every limit in reach: four hops, a cap three calls reach and
\* a timeout two slow nodes reach; one database operation may fail.
CONSTANTS
    MaxToolHops = 4
    ConfidenceThreshold = 7000
    TimeoutSeconds = 3
    CostCap = 6
    CallCosts <- TwoCosts
    MaxCallCost = 2
    Confidences <- AroundThreshold
    Durations <- SlowCall
    MaxDuration = 2
    MaxLostWrites = 1
    MaxRuns = 1
SPECIFICATION Spec
INVARIANTS
    ResolvedWithinLimits
    CostOverrunBounded
    ResolutionLateness
    EvidenceMatchesLog
    EscalationExplained
PROPERTIES
    LimitsGateEvaluation
\* a run ends
CHECK_DEADLOCK FALSE
