------------------------------ MODULE ConnPool ------------------------------
(***************************************************************************)
(* The threads of a process calling one database helper through the        *)
(* connection pool of that helper's module.  Four kinds of client occur:   *)
(*                                                                         *)
(*   audit_trail, report_writer,   lazy, under a lock; commits; putconn    *)
(*   escalation_writer             in a handler of its own                 *)
(*   evidence                      the same, but it only reads             *)
(*   dispatcher (_write_tool_log)  lazy, without a lock; commits; putconn  *)
(*                                 bare in the finally clause              *)
(*   postgres_tools                made at import; only reads; bare        *)
(*                                                                         *)
(* psycopg2 is external: SimpleConnectionPool takes no lock, and a thread  *)
(* of CPython may be preempted after any call (from 3.10 on, which the     *)
(* annotations of this repository need, nowhere else), so getconn and      *)
(* putconn are cut there: after the pop and the append of the idle list,   *)
(* after len(), and before each write to _used and _rused, whose keys go   *)
(* through id().  The database may restart any time, which kills every     *)
(* open connection, and the client learns of it only from the next         *)
(* statement.                                                              *)
(***************************************************************************)
EXTENDS Naturals, FiniteSets

CONSTANTS
    Threads,   \* threads of one process
    Conns,     \* bound: connections that exist at a time
    NoConn,
    Importer,  \* the module import, as the maker of a pool
    NoPool,
    NoThread,
    Clients,   \* the kinds of client, of which a behaviour has one
    MaxConn    \* maxconn of the pool

ASSUME PoolAssumption ==
    /\ NoConn \notin Conns
    /\ Importer \notin Threads
    /\ NoPool \notin Threads \cup {Importer}
    /\ NoThread \notin Threads
    /\ MaxConn \in Nat \ {0}
    /\ Clients \subseteq [lazy : BOOLEAN, locked : BOOLEAN, commits : BOOLEAN, guarded : BOOLEAN]

\* A pool object is named by who made it: a thread that has made one never
\* makes another.
Pools == Threads \cup {Importer}

VARIABLES
    client,     \* the kind of client; never changes
    (* module globals *)
    pool,       \* _pool, _log_pool
    attempted,  \* _pool_init_attempted
    locker,     \* who holds _pool_lock
    (* pool objects *)
    idle,       \* _pool of a pool: connections ready for use
    used,       \* _used of a pool: connections checked out, with the call
                \* whose key they are under, named by its thread
    keyed,      \* _rused of a pool: connections whose key it knows
    (* locals of a call *)
    pc, mine,   \* where a thread is, and the pool it got
    conn,       \* its connection
    tx,         \* what that connection knows: transaction status, or closed
    answer,     \* what the call returns
    effect,     \* ghost: rows committed, or queries answered, by the call
    raced,      \* ghost: connections taken before their giver had forgotten them
    (* database *)
    dbUp,
    alive       \* connections whose server side lives

globals   == <<pool, attempted, locker>>
locals    == <<pc, mine, conn, tx, answer, effect>>
objects   == <<idle, used, keyed>>
database  == <<dbUp, alive>>
vars      == <<client, globals, locals, objects, raced, database>>

-----------------------------------------------------------------------------
(* How a call goes on. *)

Goto(t, l) == pc' = [pc EXCEPT ![t] = l]

\* The call returns without a connection.
Finish(t, a) ==
    /\ answer' = [answer EXCEPT ![t] = a]
    /\ mine' = [mine EXCEPT ![t] = NoPool]
    /\ Goto(t, "idle")

Fresh ==
    {c \in Conns :
        /\ \A t \in Threads : conn[t] # c
        /\ \A p \in Pools : c \notin idle[p] /\ \A t \in Threads : <<t, c>> \notin used[p]}

\* putconn is over and the call returns.
PutconnEnds(t) ==
    /\ conn' = [conn EXCEPT ![t] = NoConn]
    /\ tx' = [tx EXCEPT ![t] = "idle"]
    /\ mine' = [mine EXCEPT ![t] = NoPool]
    /\ Goto(t, "idle")

\* putconn raises: a handler of its own ignores that; without one the exception
\* replaces what the call returned.
PutconnRaises(t) ==
    /\ answer' = IF client.guarded THEN answer ELSE [answer EXCEPT ![t] = "raised"]
    /\ PutconnEnds(t)

\* An exception of a statement: the writers roll back first, the readers go
\* straight to the finally clause.  Mutant: no handler rolls back.
AfterError_NoRollback == "put"
AfterError == IF client.commits THEN "rollback" ELSE "put"

\* _pool_lock.  Mutant: it is not taken.
LockFree_Always == TRUE
LockFree == locker = NoThread

\* What a writer returns should its commit fail.  Mutant: the INSERT was enough.
AnswerAfterInsert_Ok == "ok"
AnswerAfterInsert == "failed"

\* Where a reader goes once it has its answer.  Mutant: it returns outside the
\* try block and skips the finally clause.
AfterFetch_SkipsFinally == "idle"
AfterFetch == "put"

\* What the pool gets back with the INSERT: nothing before the finally clause.
\* Mutant: the connection, before its commit.
ReturnedEarly_AfterInsert(t) == {conn[t]}
ReturnedEarly(t) == {}

-----------------------------------------------------------------------------
Init ==
    /\ client \in Clients
    /\ dbUp \in BOOLEAN
    /\ pc = [t \in Threads |-> "idle"]
    /\ mine = [t \in Threads |-> NoPool]
    /\ conn = [t \in Threads |-> NoConn]
    /\ tx = [t \in Threads |-> "idle"]
    /\ answer = [t \in Threads |-> "none"]
    /\ effect = [t \in Threads |-> 0]
    /\ locker = NoThread
    /\ used = [p \in Pools |-> {}]
    /\ keyed = [p \in Pools |-> {}]
    /\ raced = {}
    /\ attempted = ~client.lazy
    /\ \/ /\ pool = NoPool
          /\ idle = [p \in Pools |-> {}]
          /\ alive = {}
       \/ /\ ~client.lazy /\ dbUp
          /\ pool = Importer
          /\ \E c \in Conns :
               /\ idle = [p \in Pools |-> IF p = Importer THEN {c} ELSE {}]
               /\ alive = {c}

Call(t) ==
    /\ pc[t] = "idle"
    /\ Goto(t, "get_pool")
    /\ answer' = [answer EXCEPT ![t] = "none"]
    /\ effect' = [effect EXCEPT ![t] = 0]
    /\ UNCHANGED <<client, globals, mine, conn, tx, objects, raced, database>>

\* With a pool the call goes on; without one it fails.
UsePool(t) ==
    \/ /\ pool # NoPool
       /\ mine' = [mine EXCEPT ![t] = pool]
       /\ Goto(t, "getconn")
       /\ UNCHANGED answer
    \/ pool = NoPool /\ Finish(t, "failed")

\* The check without the lock, and all of it where there is no lock.
GetPool(t) ==
    /\ pc[t] = "get_pool"
    /\ IF pool # NoPool \/ (attempted /\ ~client.locked)
       THEN UsePool(t)
       ELSE /\ Goto(t, IF client.locked THEN "lock" ELSE "init")
            /\ UNCHANGED <<mine, answer>>
    /\ UNCHANGED <<client, globals, conn, tx, effect, objects, raced, database>>

\* The checks under the lock, which is kept only by the thread that makes the
\* pool.
Lock(t) ==
    /\ pc[t] = "lock"
    /\ LockFree
    /\ IF pool # NoPool \/ attempted
       THEN UsePool(t) /\ UNCHANGED locker
       ELSE /\ locker' = t
            /\ Goto(t, "init")
            /\ UNCHANGED <<mine, answer>>
    /\ UNCHANGED <<client, pool, attempted, conn, tx, effect, objects, raced, database>>

\* _init_pool opens one connection; on any failure there is no pool.
InitPool(t) ==
    /\ pc[t] = "init"
    /\ Goto(t, "flag")
    /\ \/ /\ pool' = NoPool
          /\ UNCHANGED <<idle, raced, alive>>
       \/ /\ dbUp
          /\ pool' = t
          /\ \E c \in Fresh :
               /\ idle' = [idle EXCEPT ![t] = {c}]
               /\ alive' = alive \cup {c}
               /\ raced' = raced \ {c}
    /\ UNCHANGED <<client, attempted, locker, mine, conn, tx, answer, effect, used, keyed, dbUp>>

\* The flag is set after the assignment, "with" releases the lock however the
\* initialisation ended, and the global is read again.
Flag(t) ==
    /\ pc[t] = "flag"
    /\ attempted' = TRUE
    /\ locker' = IF client.locked THEN NoThread ELSE locker
    /\ UsePool(t)
    /\ UNCHANGED <<client, pool, conn, tx, effect, objects, raced, database>>

Take(t, c) ==
    /\ conn' = [conn EXCEPT ![t] = c]
    /\ tx' = [tx EXCEPT ![t] = "idle"]
    /\ Goto(t, "register")

\* getconn: an idle connection, else PoolError when exactly maxconn are out,
\* else a new one.
GetConn(t) ==
    /\ pc[t] = "getconn"
    /\ LET p == mine[t]
       IN \/ /\ \E c \in idle[p] :
                  /\ Take(t, c)
                  /\ idle' = [idle EXCEPT ![p] = @ \ {c}]
                  /\ raced' = raced \cup ({c} \cap {conn[u] : u \in Threads})
             /\ UNCHANGED <<mine, answer>>
          \/ /\ idle[p] = {}
             /\ IF Cardinality(used[p]) = MaxConn
                THEN Finish(t, "failed")
                ELSE Goto(t, "connect") /\ UNCHANGED <<mine, answer>>
             /\ UNCHANGED <<conn, tx, idle, raced>>
    /\ UNCHANGED <<client, globals, effect, used, keyed, database>>

\* The limit is not looked at again once the connection is there.
Connect(t) ==
    /\ pc[t] = "connect"
    /\ \/ /\ dbUp
          /\ \E c \in Fresh :
               /\ Take(t, c)
               /\ alive' = alive \cup {c}
               /\ raced' = raced \ {c}
          /\ UNCHANGED <<mine, answer>>
       \/ /\ Finish(t, "failed")
          /\ UNCHANGED <<conn, tx, raced, alive>>
    /\ UNCHANGED <<client, globals, effect, objects, dbUp>>

\* _used[key] = conn
Register(t) ==
    /\ pc[t] = "register"
    /\ used' = [used EXCEPT ![mine[t]] = @ \cup {<<t, conn[t]>>}]
    /\ Goto(t, "key")
    /\ UNCHANGED <<client, globals, mine, conn, tx, answer, effect, idle, keyed, raced, database>>

\* _rused[id(conn)] = key, and getconn returns.
Key(t) ==
    /\ pc[t] = "key"
    /\ keyed' = [keyed EXCEPT ![mine[t]] = @ \cup {conn[t]}]
    /\ Goto(t, "execute")
    /\ UNCHANGED <<client, globals, mine, conn, tx, answer, effect, idle, used, raced, database>>

\* A statement fails: on a live connection it leaves the transaction in error,
\* on a dead one psycopg2 closes the connection.
StatementFails(t) ==
    /\ tx' = [tx EXCEPT ![t] = IF conn[t] \in alive THEN "inerror" ELSE "closed"]
    /\ answer' = [answer EXCEPT ![t] = "failed"]
    /\ Goto(t, AfterError)

\* A writer's INSERT.
Insert(t) ==
    /\ client.commits /\ pc[t] = "execute"
    /\ \/ /\ conn[t] \in alive
          /\ tx' = [tx EXCEPT ![t] = "intrans"]
          /\ Goto(t, "commit")
          /\ answer' = [answer EXCEPT ![t] = AnswerAfterInsert]
          /\ idle' = [idle EXCEPT ![mine[t]] = @ \cup ReturnedEarly(t)]
       \/ StatementFails(t) /\ UNCHANGED idle
    /\ UNCHANGED <<client, globals, mine, conn, effect, used, keyed, raced, database>>

\* A reader's SELECT with its fetch, which begins a transaction nobody ends.
Query(t) ==
    /\ ~client.commits /\ pc[t] = "execute"
    /\ \/ /\ conn[t] \in alive
          /\ tx' = [tx EXCEPT ![t] = "intrans"]
          /\ effect' = [effect EXCEPT ![t] = @ + 1]
          /\ answer' = [answer EXCEPT ![t] = "ok"]
          /\ Goto(t, AfterFetch)
       \/ StatementFails(t) /\ UNCHANGED effect
    /\ UNCHANGED <<client, globals, mine, conn, objects, raced, database>>

\* The commit takes place and is confirmed; or its confirmation is lost with the
\* connection; or the connection was already dead.
Commit(t) ==
    /\ pc[t] = "commit"
    /\ \/ /\ conn[t] \in alive
          /\ effect' = [effect EXCEPT ![t] = @ + 1]
          /\ \/ /\ tx' = [tx EXCEPT ![t] = "idle"]
                /\ answer' = [answer EXCEPT ![t] = "ok"]
                /\ Goto(t, "put")
                /\ UNCHANGED alive
             \/ /\ tx' = [tx EXCEPT ![t] = "closed"]
                /\ alive' = alive \ {conn[t]}
                /\ Goto(t, AfterError)
                /\ UNCHANGED answer
       \/ /\ conn[t] \notin alive
          /\ tx' = [tx EXCEPT ![t] = "closed"]
          /\ Goto(t, AfterError)
          /\ UNCHANGED <<effect, answer, alive>>
    /\ UNCHANGED <<client, globals, mine, conn, objects, raced, dbUp>>

\* rollback in a handler that ignores its failure.
Rollback(t) ==
    /\ pc[t] = "rollback"
    /\ tx' = [tx EXCEPT ![t] = IF conn[t] \in alive /\ @ # "closed" THEN "idle" ELSE "closed"]
    /\ Goto(t, "put")
    /\ UNCHANGED <<client, globals, mine, conn, answer, effect, objects, raced, database>>

\* putconn looks up the key of the connection, and raises when it has none.
PutConn(t) ==
    /\ pc[t] = "put"
    /\ IF conn[t] \in keyed[mine[t]]
       THEN Goto(t, "room") /\ UNCHANGED <<mine, conn, tx, answer>>
       ELSE PutconnRaises(t)
    /\ UNCHANGED <<client, globals, effect, objects, raced, database>>

\* A connection is kept only when none is idle, and closed otherwise.
Room(t) ==
    /\ pc[t] = "room"
    /\ \/ /\ idle[mine[t]] = {}
          /\ Goto(t, "keep")
          /\ UNCHANGED alive
       \/ /\ idle[mine[t]] # {}
          /\ alive' = alive \ {conn[t]}
          /\ Goto(t, "forget")
    /\ UNCHANGED <<client, globals, mine, conn, tx, answer, effect, objects, raced, dbUp>>

\* One inside a transaction is rolled back first; one that is closed is dropped.
Keep(t) ==
    /\ pc[t] = "keep"
    /\ IF tx[t] \in {"intrans", "inerror"}
       THEN Goto(t, "reset") /\ UNCHANGED idle
       ELSE /\ Goto(t, "forget")
            /\ idle' = IF tx[t] = "idle" THEN [idle EXCEPT ![mine[t]] = @ \cup {conn[t]}]
                       ELSE idle
    /\ UNCHANGED <<client, globals, mine, conn, tx, answer, effect, used, keyed, raced, database>>

\* That rollback raises on a dead connection, which then stays in _used.
Reset(t) ==
    /\ pc[t] = "reset"
    /\ \/ /\ conn[t] \in alive
          /\ tx' = [tx EXCEPT ![t] = "idle"]
          /\ idle' = [idle EXCEPT ![mine[t]] = @ \cup {conn[t]}]
          /\ Goto(t, "forget")
          /\ UNCHANGED <<mine, conn, answer>>
       \/ /\ conn[t] \notin alive
          /\ PutconnRaises(t)
          /\ UNCHANGED idle
    /\ UNCHANGED <<client, globals, effect, used, keyed, raced, database>>

\* del _used[key]: the connection may be another thread's by now.
Forget(t) ==
    /\ pc[t] = "forget"
    /\ used' = [used EXCEPT ![mine[t]] = @ \ {<<t, conn[t]>>}]
    /\ Goto(t, "unkey")
    /\ UNCHANGED <<client, globals, mine, conn, tx, answer, effect, idle, keyed, raced, database>>

\* del _rused[id(conn)] takes the entry of that thread, or raises when that
\* thread has taken this one's.
Unkey(t) ==
    /\ pc[t] = "unkey"
    /\ IF conn[t] \in keyed[mine[t]]
       THEN /\ keyed' = [keyed EXCEPT ![mine[t]] = @ \ {conn[t]}]
            /\ PutconnEnds(t)
            /\ UNCHANGED answer
       ELSE PutconnRaises(t) /\ UNCHANGED keyed
    /\ UNCHANGED <<client, globals, effect, idle, used, raced, database>>

\* The database goes down, and with it every connection; or it comes back.
DatabaseChanges ==
    /\ dbUp' = ~dbUp
    /\ alive' = {}
    /\ UNCHANGED <<client, globals, locals, objects, raced>>

\* A step inside a call.
Step(t) ==
    \/ GetPool(t) \/ Lock(t) \/ InitPool(t) \/ Flag(t)
    \/ GetConn(t) \/ Connect(t) \/ Register(t) \/ Key(t)
    \/ Insert(t) \/ Query(t) \/ Commit(t) \/ Rollback(t)
    \/ PutConn(t) \/ Room(t) \/ Keep(t) \/ Reset(t) \/ Forget(t) \/ Unkey(t)

Next ==
    \/ \E t \in Threads : Call(t) \/ Step(t)
    \/ DatabaseChanges

Spec == Init /\ [][Next]_vars

\* Every statement, connection attempt and commit returns or raises.
FairSpec == Spec /\ \A t \in Threads : WF_vars(Step(t))

-----------------------------------------------------------------------------
Holds(t) == conn[t] # NoConn

\* Between taking a connection and handing it back, and until it is forgotten.
Owning  == {"register", "key", "execute", "commit", "rollback", "put", "room", "keep", "reset"}
Holding == Owning \cup {"forget", "unkey"}

TypeOK ==
    /\ client \in Clients
    /\ pool \in Pools \cup {NoPool}
    /\ attempted \in BOOLEAN
    /\ locker \in Threads \cup {NoThread}
    /\ idle \in [Pools -> SUBSET Conns]
    /\ used \in [Pools -> SUBSET (Threads \X Conns)]
    /\ keyed \in [Pools -> SUBSET Conns]
    /\ raced \subseteq Conns
    /\ pc \in [Threads -> {"idle", "get_pool", "lock", "init", "flag", "getconn", "connect"}
                          \cup Holding]
    /\ mine \in [Threads -> Pools \cup {NoPool}]
    /\ conn \in [Threads -> Conns \cup {NoConn}]
    /\ tx \in [Threads -> {"idle", "intrans", "inerror", "closed"}]
    /\ answer \in [Threads -> {"none", "ok", "failed", "raised"}]
    /\ effect \in [Threads -> {0, 1}]
    /\ dbUp \in BOOLEAN
    /\ alive \subseteq Conns
    /\ \A t \in Threads : Holds(t) <=> pc[t] \in Holding
    /\ locker # NoThread => pc[locker] \in {"init", "flag"}

\* A connection is in use by one thread at a time, and lies in no pool while it
\* is: no commit or rollback of a thread ends another's transaction, although a
\* thread takes it before the one that hands it back is done.
ConnectionPrivate ==
    \A t \in Threads : pc[t] \in Owning =>
        /\ \A p \in Pools : conn[t] \notin idle[p]
        /\ \A u \in Threads \ {t} : pc[u] \in Owning => conn[u] # conn[t]

\* The types, and no connection is shared.
PoolInv == TypeOK /\ ConnectionPrivate

\* An entry of _used is that of a call under way, or it is lost for good, and
\* then for one of two reasons: its connection was taken before its giver had
\* forgotten it, or the client only reads and the database died between the
\* answer and putconn, the connection with it.
InUse(t, c, p) == conn[t] = c /\ mine[t] = p /\ pc[t] \in Owning \cup {"forget"}
SlotsAccounted ==
    \A p \in Pools, t \in Threads, c \in Conns : <<t, c>> \in used[p] =>
        \/ InUse(t, c, p)
        \/ c \in raced
        \/ ~client.commits /\ c \notin alive

\* putconn raises for the same two reasons and no others: one helper alone, or
\* two that do not meet in a connection, come back with what they have.
PutconnRaisesInRaces ==
    [][\A t \in Threads : answer'[t] = "raised" /\ answer[t] # "raised" =>
           \/ conn[t] \in raced
           \/ ~client.commits /\ conn[t] \notin alive]_vars

\* Under the lock the process makes up its mind once: a pool, or none for good.
DecidedOnce == [][client.locked /\ attempted => pool' = pool]_vars

(* A call keeps the promise of LossyCall. *)
Promise == INSTANCE LossyCall WITH
    calling <- {t \in Threads : pc[t] # "idle"},
    effect  <- effect,
    answer  <- [t \in Threads |-> IF pc[t] = "idle" THEN answer[t] ELSE "none"]

\* Every client implements the promise: at most one effect, "ok" only after it,
\* and a return of every call, whoever holds the lock and whatever the database
\* does.
ImplementsLossyCall == Promise!Spec

(* What the repository says and the code does not do. *)

\* dispatcher.py: _get_log_pool is "safe to call repeatedly" -- a log pool that
\* was made stays, and does not give way to another thread's failed attempt.
PoolKept == [][pool # NoPool => pool' # NoPool]_vars

\* dispatcher.py: "Log write failure is non-fatal", dispatch_tool "never
\* raises" -- the bare putconn of the finally clause does not either.
NeverRaises == \A t \in Threads : answer[t] # "raised"

=============================================================================
