\* Three threads of two processes on one transaction: every interleaving of the
\* client's initialisation, the mutex, its expiry, outages and crashes.
CONSTANTS
    api1 = api1
    api2 = api2
    consumer = consumer
    apiProcess = apiProcess
    consumerProcess = consumerProcess
    t1 = t1
    NoScore = NoScore
    NoOwner = NoOwner
    Workers <- ThreeWorkers
    Processes <- TwoProcesses
    ProcessOf <- ThreadsOf
    Txns <- OneTxn
    Payloads <- ScoredPayloads
    MutexTTL = 2
SPECIFICATION FairSpec
INVARIANTS
    ExclusiveUnlessOverrun
PROPERTIES
    NoForeignRelease
    MutexFreed
