\* Four messages, an API request and deaths of both processes.
CONSTANTS
    api1 = api1
    consumer = consumer
    apiProcess = apiProcess
    consumerProcess = consumerProcess
    t1 = t1
    NoScore = NoScore
    NoOwner = NoOwner
    Workers <- MCWorkers
    Processes <- MCProcesses
    ProcessOf <- MCProcessOf
    Txns <- MCTxns
    Payloads <- MCPayloads
    MutexTTL = 2
    Consumer = consumer
    Topic <- FourMessages
SPECIFICATION FairConsumerSpec
INVARIANTS
    DeliveryInv
    FlaggedStarted
    LagCountsItself
PROPERTIES
    CommittedOnce
    TopicDrained
