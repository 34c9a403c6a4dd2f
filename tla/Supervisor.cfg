\* Startup and supervision of two processes behind two services.
CONSTANTS
    postgres = postgres
    redis = redis
    api = api
    consumer = consumer
    HealthChecks <- TwoServices
    AppProcesses <- TwoApps
    Retries = 5
    BackoffBase = 2
SPECIFICATION FairSpec
INVARIANTS
    SupervisionInv
PROPERTIES
    StartupDecides
    FirstFailureRestarted
