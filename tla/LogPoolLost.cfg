\* Two threads both find no log pool: the failed attempt of the later one
\* replaces the pool of the first.
CONSTANTS
    t1 = t1
    t2 = t2
    c1 = c1
    c2 = c2
    NoConn = NoConn
    NoPool = NoPool
    NoThread = NoThread
    Importer = Importer
    Threads <- TwoThreads
    Conns <- TwoConns
    Clients <- OnlyDispatcher
    MaxConn = 1
SPECIFICATION Spec
PROPERTY PoolKept
