\* Two threads log a tool call at the same time: one takes the connection the
\* other is handing back, and loses its place in the pool's books to it.
CONSTANTS
    t1 = t1
    t2 = t2
    c1 = c1
    c2 = c2
    NoConn = NoConn
    NoPool = NoPool
    NoThread = NoThread
    Importer = Importer
    Threads <- TwoThreads
    Conns <- TwoConns
    Clients <- OnlyDispatcher
    MaxConn = 1
SPECIFICATION Spec
INVARIANT NeverRaises
