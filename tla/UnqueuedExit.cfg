\* A run that neither resolves nor queues the case.
CONSTANTS
    MaxToolHops = 2
    ConfidenceThreshold = 7000
    TimeoutSeconds = 1
    CostCap = 4
    CallCosts <- OneCost
    MaxCallCost = 1
    Confidences <- AroundThreshold
    Durations <- NoDelay
    MaxDuration = 0
    MaxLostWrites = 0
    MaxRuns = 1
SPECIFICATION Spec
INVARIANT NonResolvedExitQueued
\* a run ends
CHECK_DEADLOCK FALSE
