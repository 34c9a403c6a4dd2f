\* Two threads and a pool of one connection: exhaustion, two threads passing the
\* limit, restarts of the database anywhere, for every kind of client.
CONSTANTS
    t1 = t1
    t2 = t2
    c1 = c1
    c2 = c2
    NoConn = NoConn
    NoPool = NoPool
    NoThread = NoThread
    Importer = Importer
    Threads <- TwoThreads
    Conns <- TwoConns
    Clients <- AllClients
    MaxConn = 1
SPECIFICATION FairSpec
INVARIANTS
    PoolInv
    SlotsAccounted
PROPERTIES
    PutconnRaisesInRaces
    DecidedOnce
    ImplementsLossyCall
