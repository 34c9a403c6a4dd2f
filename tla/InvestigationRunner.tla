------------------------- MODULE InvestigationRunner -------------------------
(***************************************************************************)
(* run_investigation of agent/runner.py as its callers run it: threads of  *)
(* the API process and of the Kafka consumer process, sharing per process  *)
(* the lazily made Redis client, and between them one mutex per txn_id in  *)
(* Redis with a time to live.  The graph run is one step that may take any *)
(* time; AMLGraph has its inside.  Redis may become unreachable and come   *)
(* back with its keys; a process may die and is started again.             *)
(***************************************************************************)
EXTENDS Integers, FiniteSets

CONSTANTS
    Workers,      \* threads that call run_investigation
    Processes,    \* Python processes
    ProcessOf,    \* the process of each worker
    Txns,         \* transaction ids
    Payloads,     \* trigger type and risk score of what may be dispatched
    NoScore,      \* risk_score is None
    NoOwner,
    MutexTTL      \* the EX of the mutex, in ticks of the clock

ASSUME RunnerAssumption ==
    /\ ProcessOf \in [Workers -> Processes]
    /\ NoOwner \notin Workers
    /\ MutexTTL \in Nat \ {0}
    /\ \A p \in Payloads : p.risk_score = NoScore \/ p.risk_score \in 0 .. 100

VARIABLES
    pc,          \* where each worker is in run_investigation
    txn,         \* its payload.txn_id
    connected,   \* its local r is not None
    acquired,    \* its local mutex_acquired
    result,      \* how its last call ended
    client,      \* per process: _redis_client is not None
    attempted,   \* per process: _redis_init_attempted
    mutex,       \* Redis: the key of each txn_id, with its owner and time to live
    redisUp,     \* Redis can be reached
    overran      \* ghost: txn_ids whose mutex expired under a running investigation

workerVars  == <<pc, txn, connected, acquired, result>>
processVars == <<client, attempted>>
vars        == <<workerVars, processVars, mutex, redisUp, overran>>

-----------------------------------------------------------------------------
Free == [owner |-> NoOwner, ttl |-> 0]

\* _should_investigate; the score is in hundredths.
ShouldInvestigate(p) ==
    \/ p.trigger_type # "ml_score"
    \/ p.risk_score = NoScore
    \/ p.risk_score > 75

\* SET mutex NX EX: refused while the key exists.  Mutant: SET without NX.
MutexTaken_NoNX(t) == FALSE
MutexTaken(t) == mutex[t] # Free

\* Mutant: SET without EX; Redis gives such a key the time to live -1.
NewMutex_NoExpiry(w) == [owner |-> w, ttl |-> -1]
NewMutex(w) == [owner |-> w, ttl |-> MutexTTL]

\* Redis ages a key by one tick.
Aged(m) == IF m.ttl <= 0 THEN m ELSE IF m.ttl = 1 THEN Free ELSE [m EXCEPT !.ttl = @ - 1]

Running(w) == pc[w] = "run"

\* Without Redis the investigation runs without a mutex.  Mutant: not at all.
WithoutRedis_Skips == "idle"
WithoutRedis == "start"

-----------------------------------------------------------------------------
Init ==
    /\ pc = [w \in Workers |-> "idle"]
    /\ txn \in [Workers -> Txns]
    /\ connected = [w \in Workers |-> FALSE]
    /\ acquired = [w \in Workers |-> FALSE]
    /\ result = [w \in Workers |-> "none"]
    /\ client = [p \in Processes |-> FALSE]
    /\ attempted = [p \in Processes |-> FALSE]
    /\ mutex = [t \in Txns |-> Free]
    /\ redisUp \in BOOLEAN
    /\ overran = {}

Return(w, how) ==
    /\ pc' = [pc EXCEPT ![w] = "idle"]
    /\ result' = [result EXCEPT ![w] = how]

\* run_investigation is called with a payload; routing by score comes first.
Receive(w, t, p) ==
    /\ pc[w] = "idle"
    /\ txn' = [txn EXCEPT ![w] = t]
    /\ \/ /\ ~ShouldInvestigate(p)
          /\ Return(w, "log_only")
       \/ /\ ShouldInvestigate(p)
          /\ pc' = [pc EXCEPT ![w] = "get_redis"]
          /\ result' = [result EXCEPT ![w] = "none"]
    /\ connected' = [connected EXCEPT ![w] = FALSE]
    /\ acquired' = [acquired EXCEPT ![w] = FALSE]
    /\ UNCHANGED <<processVars, mutex, redisUp, overran>>

Dispatch(w) == \E t \in Txns, p \in Payloads : Receive(w, t, p)

\* _get_redis: the module's client if there is one, none if an attempt was made,
\* and an attempt otherwise.  No lock covers the checks and the assignments.
GetRedis(w) ==
    LET p == ProcessOf[w]
    IN /\ pc[w] = "get_redis"
       /\ pc' = [pc EXCEPT ![w] = IF client[p] THEN "acquire"
                                  ELSE IF attempted[p] THEN WithoutRedis
                                  ELSE "construct"]
       /\ connected' = [connected EXCEPT ![w] = client[p]]
       /\ UNCHANGED <<txn, acquired, result, processVars, mutex, redisUp, overran>>

Construct(w) ==
    /\ pc[w] = "construct"
    /\ pc' = [pc EXCEPT ![w] = "ping"]
    /\ client' = [client EXCEPT ![ProcessOf[w]] = TRUE]
    /\ UNCHANGED <<txn, connected, acquired, result, attempted, mutex, redisUp, overran>>

\* The ping decides; on success the global is read again, for another thread's
\* failed ping may have cleared it.
Ping(w) ==
    LET p == ProcessOf[w]
    IN /\ pc[w] = "ping"
       /\ client' = [client EXCEPT ![p] = client[p] /\ redisUp]
       /\ connected' = [connected EXCEPT ![w] = client[p] /\ redisUp]
       /\ pc' = [pc EXCEPT ![w] = IF client[p] /\ redisUp THEN "acquire" ELSE WithoutRedis]
       /\ attempted' = [attempted EXCEPT ![p] = TRUE]
       /\ UNCHANGED <<txn, acquired, result, mutex, redisUp, overran>>

\* A request for a transaction under investigation returns before the try block
\* and so releases nothing.  Mutant: it returns through the finally clause.
Blocked_Releases(w) ==
    /\ pc' = [pc EXCEPT ![w] = "release"]
    /\ acquired' = [acquired EXCEPT ![w] = TRUE]
    /\ result' = [result EXCEPT ![w] = "already_investigating"]
Blocked(w) ==
    /\ Return(w, "already_investigating")
    /\ UNCHANGED acquired

\* The connection breaks between the SET and its reply: the key is there.
ReplyLost(w) == redisUp /\ ~MutexTaken(txn[w])

\* The SET is outside the try block: when Redis cannot be reached, or its reply
\* is lost, the exception leaves run_investigation.  The client does not retry.
AcquireMutex(w) ==
    /\ pc[w] = "acquire"
    /\ \/ /\ redisUp /\ MutexTaken(txn[w])
          /\ Blocked(w)
          /\ UNCHANGED mutex
       \/ /\ redisUp /\ ~MutexTaken(txn[w])
          /\ mutex' = [mutex EXCEPT ![txn[w]] = NewMutex(w)]
          /\ acquired' = [acquired EXCEPT ![w] = TRUE]
          /\ pc' = [pc EXCEPT ![w] = "start"]
          /\ UNCHANGED result
       \/ /\ ~redisUp
          /\ Return(w, "raised")
          /\ UNCHANGED <<acquired, mutex>>
       \/ /\ ReplyLost(w)
          /\ mutex' = [mutex EXCEPT ![txn[w]] = NewMutex(w)]
          /\ Return(w, "raised")
          /\ UNCHANGED acquired
    /\ UNCHANGED <<txn, connected, processVars, redisUp, overran>>

\* AMLGraph.invoke is called; until then the key stands for no investigation.
StartGraph(w) ==
    /\ pc[w] = "start"
    /\ pc' = [pc EXCEPT ![w] = "run"]
    /\ UNCHANGED <<txn, connected, acquired, result, processVars, mutex, redisUp, overran>>

\* AMLGraph.invoke returns, or raises and the runner reports an error.
GraphReturns(w) ==
    /\ Running(w)
    /\ pc' = [pc EXCEPT ![w] = "release"]
    /\ \E how \in {"completed", "error"} : result' = [result EXCEPT ![w] = how]
    /\ UNCHANGED <<txn, connected, acquired, processVars, mutex, redisUp, overran>>

\* The finally clause deletes the key, whoever owns it; a failed delete is logged.
ReleaseMutex(w) ==
    /\ pc[w] = "release"
    /\ pc' = [pc EXCEPT ![w] = "idle"]
    /\ mutex' = IF acquired[w] /\ redisUp THEN [mutex EXCEPT ![txn[w]] = Free] ELSE mutex
    /\ acquired' = [acquired EXCEPT ![w] = FALSE]
    /\ UNCHANGED <<txn, connected, result, processVars, redisUp, overran>>

\* What the threads of a process had in their locals is gone.
Forget(p, locals, fresh) ==
    [w \in Workers |-> IF ProcessOf[w] = p THEN fresh ELSE locals[w]]

\* A process dies with what its threads were doing, and comes back fresh.
ProcessDies(p) ==
    /\ pc' = Forget(p, pc, "idle")
    /\ connected' = Forget(p, connected, FALSE)
    /\ acquired' = Forget(p, acquired, FALSE)
    /\ result' = Forget(p, result, "none")
    /\ client' = [client EXCEPT ![p] = FALSE]
    /\ attempted' = [attempted EXCEPT ![p] = FALSE]
    /\ UNCHANGED <<txn, mutex, redisUp, overran>>

RedisReachability ==
    /\ redisUp' = ~redisUp
    /\ UNCHANGED <<workerVars, processVars, mutex, overran>>

\* A tick of the clock: every key ages, and may expire under its holder.
Tick ==
    /\ \E t \in Txns : mutex[t].ttl > 0
    /\ mutex' = [t \in Txns |-> Aged(mutex[t])]
    /\ overran' = overran \cup
         {t \in Txns : mutex[t].ttl = 1 /\ \E w \in Workers : txn[w] = t /\ acquired[w]}
    /\ UNCHANGED <<workerVars, processVars, redisUp>>

Next ==
    \/ \E w \in Workers :
         \/ Dispatch(w) \/ GetRedis(w) \/ Construct(w) \/ Ping(w)
         \/ AcquireMutex(w) \/ StartGraph(w) \/ GraphReturns(w) \/ ReleaseMutex(w)
    \/ \E p \in Processes : ProcessDies(p)
    \/ RedisReachability
    \/ Tick

Spec == Init /\ [][Next]_vars

\* Time passes in Redis; nothing else is owed.
FairSpec == Spec /\ WF_vars(Tick)

-----------------------------------------------------------------------------
TypeOK ==
    /\ pc \in [Workers -> {"idle", "get_redis", "construct", "ping", "acquire", "start", "run",
                           "release"}]
    /\ txn \in [Workers -> Txns]
    /\ connected \in [Workers -> BOOLEAN]
    /\ acquired \in [Workers -> BOOLEAN]
    /\ result \in [Workers -> {"none", "log_only", "already_investigating", "completed",
                               "error", "raised"}]
    /\ client \in [Processes -> BOOLEAN]
    /\ attempted \in [Processes -> BOOLEAN]
    /\ mutex \in [Txns -> [owner : Workers \cup {NoOwner}, ttl : 0 .. MutexTTL]]
    /\ redisUp \in BOOLEAN
    /\ overran \subseteq Txns

\* Two workers investigate one transaction under the mutex at a time only after
\* a mutex of that transaction has expired under an investigation.
ExclusiveUnlessOverrun ==
    \A v, w \in Workers :
        v # w /\ Running(v) /\ Running(w) /\ acquired[v] /\ acquired[w] /\ txn[v] = txn[w]
            => txn[v] \in overran

\* A worker that holds the mutex finds its own key in Redis until it expires: in
\* particular what it deletes at the end is its own, and no failed ping of
\* another thread, outage or crash takes the key from it.
HolderOwnsMutex ==
    \A w \in Workers : acquired[w] /\ txn[w] \notin overran => mutex[txn[w]].owner = w

\* A release never frees a transaction that another worker still investigates
\* under a mutex that has not expired.
NoForeignRelease ==
    [][\A t \in Txns : mutex[t] # Free /\ mutex'[t] = Free /\ mutex[t].ttl > 1 =>
         t \in overran \/ \E w \in Workers : mutex[t].owner = w /\ pc[w] = "release"]_vars

\* A transaction that is blocked becomes free again, even when the process that
\* held the mutex died or could not delete it.
MutexFreed == \A t \in Txns : mutex[t] # Free ~> mutex[t] = Free

=============================================================================
