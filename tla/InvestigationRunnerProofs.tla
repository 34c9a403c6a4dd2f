---------------------- MODULE InvestigationRunnerProofs ----------------------
(***************************************************************************)
(* Theorems about InvestigationRunner for any workers, processes,          *)
(* transactions and time to live: what the mutex of agent/runner.py        *)
(* guarantees through the races of the client's initialisation, outages of *)
(* Redis and deaths of processes -- and that it guarantees it only until   *)
(* the mutex expires under an investigation.                               *)
(***************************************************************************)
EXTENDS InvestigationRunner, TLAPS

\* Only a worker between the SET and the end of the try block has mutex_acquired set.
AcquiredOnlyInside == \A w \in Workers : acquired[w] => pc[w] \in {"start", "run", "release"}

MutexInv == TypeOK /\ AcquiredOnlyInside /\ HolderOwnsMutex

-----------------------------------------------------------------------------
LEMMA FreeType ==
    /\ Free \in [owner : Workers \cup {NoOwner}, ttl : 0 .. MutexTTL]
    /\ Free.ttl = 0
    /\ Free.owner \notin Workers
BY RunnerAssumption DEF Free

LEMMA NewMutexType ==
    ASSUME NEW w \in Workers
    PROVE  /\ NewMutex(w) \in [owner : Workers \cup {NoOwner}, ttl : 0 .. MutexTTL]
           /\ NewMutex(w).owner = w
BY RunnerAssumption DEF NewMutex

\* Ageing keeps the type and, unless the key expires, the owner.
LEMMA AgedType ==
    ASSUME NEW m \in [owner : Workers \cup {NoOwner}, ttl : 0 .. MutexTTL]
    PROVE  /\ Aged(m) \in [owner : Workers \cup {NoOwner}, ttl : 0 .. MutexTTL]
           /\ m.ttl # 1 => Aged(m).owner = m.owner
           /\ m.ttl > 1 => Aged(m) # Free
<1>0. MutexTTL \in Nat
  BY RunnerAssumption
<1>1. CASE m.ttl <= 0
  BY <1>1 DEF Aged
<1>2. CASE m.ttl = 1
  BY <1>2, FreeType DEF Aged
<1>3. CASE m.ttl > 1
  <2>1. Aged(m) = [m EXCEPT !.ttl = m.ttl - 1]
    BY <1>3 DEF Aged
  <2>2. m.ttl - 1 \in 0 .. MutexTTL /\ m.ttl - 1 # 0
    BY <1>0, <1>3
  <2>3. Aged(m).ttl = m.ttl - 1 /\ Aged(m).owner = m.owner
    BY <2>1
  <2>4. Aged(m) # Free
    BY <2>2, <2>3, FreeType
  <2> QED BY <2>1, <2>2, <2>3, <2>4, <1>3
<1> QED BY <1>0, <1>1, <1>2, <1>3

-----------------------------------------------------------------------------
LEMMA InitMutex == Init => MutexInv
<1> SUFFICES ASSUME Init PROVE MutexInv
  OBVIOUS
<1>1. TypeOK
  BY FreeType, RunnerAssumption DEF Init, TypeOK
<1>2. AcquiredOnlyInside /\ HolderOwnsMutex
  BY DEF Init, AcquiredOnlyInside, HolderOwnsMutex
<1> QED BY <1>1, <1>2 DEF MutexInv

\* The steps that touch neither the mutex nor mutex_acquired.
LEMMA BeforeMutex ==
    ASSUME MutexInv, NEW w \in Workers, GetRedis(w) \/ Construct(w) \/ Ping(w)
    PROVE  MutexInv'
<1>0. ProcessOf[w] \in Processes /\ pc[w] \notin {"start", "run", "release"}
  BY RunnerAssumption DEF GetRedis, Construct, Ping
<1>1. CASE GetRedis(w)
  BY <1>0, <1>1 DEF GetRedis, WithoutRedis, MutexInv, TypeOK, AcquiredOnlyInside, HolderOwnsMutex, processVars
<1>2. CASE Construct(w)
  BY <1>0, <1>2 DEF Construct, MutexInv, TypeOK, AcquiredOnlyInside, HolderOwnsMutex
<1>3. CASE Ping(w)
  <2>1. /\ pc' \in [Workers -> {"idle", "get_redis", "construct", "ping", "acquire", "start", "run",
                           "release"}]
        /\ \A v \in Workers : v # w => pc'[v] = pc[v]
    BY <1>3 DEF Ping, WithoutRedis, MutexInv, TypeOK
  <2>2. connected' \in [Workers -> BOOLEAN] /\ client' \in [Processes -> BOOLEAN]
    BY <1>0, <1>3, Zenon DEF Ping, MutexInv, TypeOK
  <2>3. attempted' \in [Processes -> BOOLEAN]
    BY <1>0, <1>3 DEF Ping, MutexInv, TypeOK
  <2>4. UNCHANGED <<txn, acquired, result, mutex, redisUp, overran>>
    BY <1>3 DEF Ping
  <2>5. ~acquired[w]
    BY <1>0 DEF MutexInv, AcquiredOnlyInside
  <2> QED BY <2>1, <2>2, <2>3, <2>4, <2>5
          DEF MutexInv, TypeOK, AcquiredOnlyInside, HolderOwnsMutex
<1> QED BY <1>1, <1>2, <1>3

LEMMA DispatchMutex ==
    ASSUME MutexInv, NEW w \in Workers, Dispatch(w)
    PROVE  MutexInv'
<1>1. PICK t \in Txns, p \in Payloads : Receive(w, t, p)
  BY DEF Dispatch
<1>2. ~acquired'[w] /\ \A v \in Workers : v # w => acquired'[v] = acquired[v]
                                              /\ txn'[v] = txn[v] /\ pc'[v] = pc[v]
  BY <1>1 DEF Receive, Return, MutexInv, TypeOK
<1>3. TypeOK'
  BY <1>1 DEF Receive, Return, MutexInv, TypeOK, processVars
<1>4. UNCHANGED <<mutex, overran>>
  BY <1>1 DEF Receive
<1> QED BY <1>2, <1>3, <1>4 DEF MutexInv, AcquiredOnlyInside, HolderOwnsMutex

\* A worker acquires a mutex only while no other holds that of its transaction.
LEMMA AcquireKeeps ==
    ASSUME MutexInv, NEW w \in Workers, AcquireMutex(w)
    PROVE  MutexInv'
<1>0. ~acquired[w] /\ UNCHANGED <<txn, connected, processVars, redisUp, overran>>
  BY DEF AcquireMutex, MutexInv, AcquiredOnlyInside
<1>1. CASE Blocked(w) /\ UNCHANGED mutex
  BY <1>0, <1>1 DEF Blocked, Return, MutexInv, TypeOK, AcquiredOnlyInside, HolderOwnsMutex, processVars
<1>2. CASE /\ ~MutexTaken(txn[w])
           /\ mutex' = [mutex EXCEPT ![txn[w]] = NewMutex(w)]
           /\ acquired' = [acquired EXCEPT ![w] = TRUE]
           /\ pc' = [pc EXCEPT ![w] = "start"]
           /\ UNCHANGED result
  <2>1. txn[w] \in Txns
    BY DEF MutexInv, TypeOK
  <2>2. TypeOK'
    BY <1>0, <1>2, <2>1, NewMutexType DEF MutexInv, TypeOK, processVars
  <2>3. AcquiredOnlyInside'
    BY <1>2 DEF MutexInv, TypeOK, AcquiredOnlyInside
  <2>4. HolderOwnsMutex'
    <3> SUFFICES ASSUME NEW v \in Workers, acquired'[v], txn'[v] \notin overran'
                 PROVE  mutex'[txn'[v]].owner = v
      BY DEF HolderOwnsMutex
    <3>1. CASE v = w
      BY <1>0, <1>2, <2>1, <3>1, NewMutexType DEF MutexInv, TypeOK
    <3>2. CASE v # w
      <4>1. acquired[v] /\ mutex[txn[v]].owner = v
        BY <1>0, <1>2, <3>2 DEF MutexInv, TypeOK, HolderOwnsMutex
      <4>2. txn[v] # txn[w]
        BY <1>2, <4>1, FreeType DEF MutexTaken
      <4> QED BY <1>0, <1>2, <2>1, <4>1, <4>2 DEF MutexInv, TypeOK
    <3> QED BY <3>1, <3>2
  <2> QED BY <2>2, <2>3, <2>4 DEF MutexInv
<1>3. CASE Return(w, "raised") /\ UNCHANGED <<acquired, mutex>>
  BY <1>0, <1>3 DEF Return, MutexInv, TypeOK, AcquiredOnlyInside, HolderOwnsMutex, processVars
<1>4. CASE /\ ~MutexTaken(txn[w])
           /\ mutex' = [mutex EXCEPT ![txn[w]] = NewMutex(w)]
           /\ Return(w, "raised")
           /\ UNCHANGED acquired
  <2>1. txn[w] \in Txns
    BY DEF MutexInv, TypeOK
  <2>2. TypeOK'
    BY <1>0, <1>4, <2>1, NewMutexType DEF Return, MutexInv, TypeOK, processVars
  <2>3. AcquiredOnlyInside'
    BY <1>0, <1>4 DEF Return, MutexInv, TypeOK, AcquiredOnlyInside
  <2>4. HolderOwnsMutex'
    <3> SUFFICES ASSUME NEW v \in Workers, acquired'[v], txn'[v] \notin overran'
                 PROVE  mutex'[txn'[v]].owner = v
      BY DEF HolderOwnsMutex
    <3>1. acquired[v] /\ mutex[txn[v]].owner = v
      BY <1>0, <1>4 DEF HolderOwnsMutex, MutexInv
    <3>2. txn[v] # txn[w]
      BY <1>4, <3>1, FreeType DEF MutexTaken
    <3> QED BY <1>0, <1>4, <2>1, <3>1, <3>2 DEF MutexInv, TypeOK
  <2> QED BY <2>2, <2>3, <2>4 DEF MutexInv
<1> QED BY <1>1, <1>2, <1>3, <1>4 DEF AcquireMutex, ReplyLost

LEMMA StartGraphMutex ==
    ASSUME MutexInv, NEW w \in Workers, StartGraph(w)
    PROVE  MutexInv'
BY DEF StartGraph, MutexInv, TypeOK, AcquiredOnlyInside, HolderOwnsMutex, processVars

LEMMA GraphReturnsMutex ==
    ASSUME MutexInv, NEW w \in Workers, GraphReturns(w)
    PROVE  MutexInv'
BY DEF GraphReturns, MutexInv, TypeOK, AcquiredOnlyInside, HolderOwnsMutex, processVars

\* The unconditional delete of a mutex that has not expired is its holder's own.
LEMMA ReleaseKeeps ==
    ASSUME MutexInv, NEW w \in Workers, ReleaseMutex(w)
    PROVE  MutexInv'
<1>1. /\ ~acquired'[w]
      /\ \A v \in Workers : v # w => acquired'[v] = acquired[v] /\ pc'[v] = pc[v]
      /\ UNCHANGED <<txn, overran>>
  BY DEF ReleaseMutex, MutexInv, TypeOK
<1>2. TypeOK'
  BY FreeType DEF ReleaseMutex, MutexInv, TypeOK, processVars
<1>3. AcquiredOnlyInside'
  BY <1>1 DEF MutexInv, AcquiredOnlyInside
<1>4. HolderOwnsMutex'
  <2> SUFFICES ASSUME NEW v \in Workers, acquired'[v], txn'[v] \notin overran'
               PROVE  mutex'[txn'[v]].owner = v
    BY DEF HolderOwnsMutex
  <2>1. v # w /\ acquired[v] /\ txn[v] \notin overran
    BY <1>1
  <2>2. mutex[txn[v]].owner = v
    BY <2>1 DEF MutexInv, HolderOwnsMutex
  <2>3. acquired[w] => txn[v] # txn[w]
    BY <2>1, <2>2 DEF MutexInv, HolderOwnsMutex
  <2> QED BY <1>1, <2>2, <2>3 DEF ReleaseMutex, MutexInv, TypeOK
<1> QED BY <1>2, <1>3, <1>4 DEF MutexInv

LEMMA DeathKeeps ==
    ASSUME MutexInv, NEW p \in Processes, ProcessDies(p)
    PROVE  MutexInv'
<1>1. TypeOK'
  <2>1. /\ connected' \in [Workers -> BOOLEAN] /\ acquired' \in [Workers -> BOOLEAN]
        /\ client' \in [Processes -> BOOLEAN] /\ attempted' \in [Processes -> BOOLEAN]
    BY DEF ProcessDies, Forget, MutexInv, TypeOK
  <2>2. /\ pc' \in [Workers -> {"idle", "get_redis", "construct", "ping", "acquire", "start", "run",
                           "release"}]
        /\ result' \in [Workers -> {"none", "log_only", "already_investigating", "completed",
                                    "error", "raised"}]
    BY DEF ProcessDies, Forget, MutexInv, TypeOK
  <2> QED BY <2>1, <2>2 DEF ProcessDies, MutexInv, TypeOK
<1>2. \A v \in Workers : acquired'[v] => acquired[v] /\ pc'[v] = pc[v]
  BY DEF ProcessDies, Forget, MutexInv, TypeOK
<1>3. UNCHANGED <<txn, mutex, overran>>
  BY DEF ProcessDies
<1> QED BY <1>1, <1>2, <1>3 DEF MutexInv, AcquiredOnlyInside, HolderOwnsMutex

\* A key that expires under its holder marks the transaction as overrun.
LEMMA TickKeeps ==
    ASSUME MutexInv, Tick
    PROVE  MutexInv'
<1>0. UNCHANGED <<workerVars, processVars, redisUp>> /\ overran \subseteq overran'
  BY DEF Tick
<1>1. \A t \in Txns : mutex'[t] = Aged(mutex[t])
                      /\ mutex[t] \in [owner : Workers \cup {NoOwner}, ttl : 0 .. MutexTTL]
  BY DEF Tick, MutexInv, TypeOK
<1>2. mutex' \in [Txns -> [owner : Workers \cup {NoOwner}, ttl : 0 .. MutexTTL]]
  BY <1>1, AgedType DEF Tick
<1>3. overran' \subseteq Txns
  BY DEF Tick, MutexInv, TypeOK
<1>4. TypeOK'
  BY <1>0, <1>2, <1>3 DEF MutexInv, TypeOK, workerVars, processVars
<1>5. AcquiredOnlyInside'
  BY <1>0 DEF MutexInv, AcquiredOnlyInside, workerVars
<1>6. HolderOwnsMutex'
  <2> SUFFICES ASSUME NEW v \in Workers, acquired'[v], txn'[v] \notin overran'
               PROVE  mutex'[txn'[v]].owner = v
    BY DEF HolderOwnsMutex
  <2>1. acquired[v] /\ txn'[v] = txn[v] /\ txn[v] \in Txns /\ txn[v] \notin overran
    BY <1>0 DEF workerVars, MutexInv, TypeOK
  <2>2. mutex[txn[v]].owner = v
    BY <2>1 DEF MutexInv, HolderOwnsMutex
  <2>3. mutex[txn[v]].ttl # 1
    BY <2>1 DEF Tick
  <2> QED BY <1>1, <2>1, <2>2, <2>3, AgedType
<1> QED BY <1>4, <1>5, <1>6 DEF MutexInv

LEMMA NextMutex == MutexInv /\ [Next]_vars => MutexInv'
<1> SUFFICES ASSUME MutexInv, [Next]_vars PROVE MutexInv'
  OBVIOUS
<1>1. CASE RedisReachability
  BY <1>1 DEF RedisReachability, MutexInv, TypeOK, AcquiredOnlyInside, HolderOwnsMutex,
              workerVars, processVars
<1>2. CASE UNCHANGED vars
  BY <1>2 DEF vars, workerVars, processVars, MutexInv, TypeOK, AcquiredOnlyInside, HolderOwnsMutex
<1> QED BY <1>1, <1>2, BeforeMutex, DispatchMutex, AcquireKeeps, StartGraphMutex, GraphReturnsMutex,
           ReleaseKeeps, DeathKeeps, TickKeeps DEF Next

-----------------------------------------------------------------------------
THEOREM MutexInvariant == Spec => []MutexInv
<1> QED BY InitMutex, NextMutex, PTL DEF Spec

\* Every variable keeps its type: no key of Redis is ever without an expiry.
THEOREM TypeCorrect == Spec => []TypeOK
<1>1. MutexInv => TypeOK
  BY DEF MutexInv
<1> QED BY <1>1, MutexInvariant, PTL

\* A worker's mutex is its own until it expires under the investigation.
THEOREM MutexOwned == Spec => []HolderOwnsMutex
<1>1. MutexInv => HolderOwnsMutex
  BY DEF MutexInv
<1> QED BY <1>1, MutexInvariant, PTL

\* Two investigations of one transaction run under the mutex at a time only
\* after a mutex of that transaction has expired under one of them.
THEOREM MutualExclusion == Spec => []ExclusiveUnlessOverrun
<1>1. MutexInv => ExclusiveUnlessOverrun
  BY DEF MutexInv, HolderOwnsMutex, ExclusiveUnlessOverrun
<1> QED BY <1>1, MutexInvariant, PTL

\* A release frees nobody else's transaction before the mutex has expired.
THEOREM ReleasesOwn == Spec => NoForeignRelease
<1> DEFINE Own == \A t \in Txns : mutex[t] # Free /\ mutex'[t] = Free /\ mutex[t].ttl > 1 =>
                    t \in overran \/ \E w \in Workers : mutex[t].owner = w /\ pc[w] = "release"
<1>1. MutexInv /\ [Next]_vars => [Own]_vars
  <2> SUFFICES ASSUME MutexInv, Next,
                      NEW t \in Txns, mutex[t] # Free, mutex'[t] = Free, mutex[t].ttl > 1,
                      t \notin overran
               PROVE  \E w \in Workers : mutex[t].owner = w /\ pc[w] = "release"
    OBVIOUS
  <2>1. ~Tick
    BY AgedType DEF Tick, MutexInv, TypeOK
  <2>2. mutex' # mutex
    OBVIOUS
  <2>3. \A w \in Workers : ~(Dispatch(w) \/ GetRedis(w) \/ Construct(w) \/ Ping(w)
                              \/ StartGraph(w) \/ GraphReturns(w))
    BY <2>2 DEF Dispatch, Receive, GetRedis, Construct, Ping, StartGraph, GraphReturns
  <2>4. ~RedisReachability /\ \A p \in Processes : ~ProcessDies(p)
    BY <2>2 DEF RedisReachability, ProcessDies
  <2>5. \A w \in Workers : ~AcquireMutex(w)
    <3> SUFFICES ASSUME NEW w \in Workers, AcquireMutex(w) PROVE FALSE
      OBVIOUS
    <3>1. mutex' = [mutex EXCEPT ![txn[w]] = NewMutex(w)]
      BY <2>2 DEF AcquireMutex
    <3> QED BY <3>1, NewMutexType, FreeType DEF MutexInv, TypeOK
  <2>6. PICK w \in Workers : ReleaseMutex(w)
    BY <2>1, <2>3, <2>4, <2>5 DEF Next
  <2>7. acquired[w] /\ txn[w] = t /\ pc[w] = "release"
    BY <2>2, <2>6 DEF ReleaseMutex, MutexInv, TypeOK
  <2> QED BY <2>7 DEF MutexInv, HolderOwnsMutex
<1> QED BY <1>1, MutexInvariant, PTL DEF Spec, NoForeignRelease

-----------------------------------------------------------------------------
(* The safety core of MutexFreed: what the ageing of the keys relies on. *)

\* Every key that is taken has an owner and an expiry ahead of it.
TakenExpires ==
    \A t \in Txns : mutex[t] # Free => mutex[t].owner \in Workers /\ mutex[t].ttl \in 1 .. MutexTTL

\* Nobody overwrites or renews a key that is taken, and no tick passes it by.
KeysRunOut ==
    \A t \in Txns : mutex[t] # Free =>
        \/ mutex'[t] = Free
        \/ mutex'[t] = mutex[t] /\ ~Tick
        \/ mutex'[t].owner = mutex[t].owner /\ mutex'[t].ttl = mutex[t].ttl - 1

LEMMA AgedTaken ==
    ASSUME NEW m \in [owner : Workers \cup {NoOwner}, ttl : 0 .. MutexTTL],
           m # Free => m.owner \in Workers /\ m.ttl \in 1 .. MutexTTL
    PROVE  /\ m = Free => Aged(m) = Free
           /\ m # Free /\ Aged(m) # Free =>
                Aged(m).owner = m.owner /\ Aged(m).ttl = m.ttl - 1 /\ Aged(m).ttl >= 1
<1>0. MutexTTL \in Nat /\ m.ttl \in 0 .. MutexTTL
  BY RunnerAssumption
<1>1. CASE m = Free
  BY <1>1, FreeType DEF Aged
<1>2. CASE m # Free /\ m.ttl = 1
  BY <1>2 DEF Aged
<1>3. CASE m # Free /\ m.ttl > 1
  <2>1. Aged(m) = [m EXCEPT !.ttl = m.ttl - 1]
    BY <1>0, <1>3 DEF Aged
  <2> QED BY <1>0, <1>3, <2>1
<1> QED BY <1>0, <1>1, <1>2, <1>3

\* Who changes a key: a successful SET a free one, a delete to a free one, a tick.
LEMMA KeyChanges ==
    ASSUME MutexInv, [Next]_vars, ~Tick, NEW t \in Txns
    PROVE  \/ mutex'[t] = mutex[t]
           \/ mutex'[t] = Free
           \/ mutex[t] = Free /\ \E w \in Workers : mutex'[t] = NewMutex(w)
<1>1. CASE UNCHANGED mutex
  BY <1>1
<1>2. ASSUME NEW w \in Workers, AcquireMutex(w), mutex' # mutex
      PROVE  mutex'[t] = mutex[t] \/ (mutex[t] = Free /\ mutex'[t] = NewMutex(w))
  <2>1. ~MutexTaken(txn[w]) /\ mutex' = [mutex EXCEPT ![txn[w]] = NewMutex(w)]
    BY <1>2 DEF AcquireMutex, ReplyLost
  <2> QED BY <2>1 DEF MutexTaken, MutexInv, TypeOK
<1>3. ASSUME NEW w \in Workers, ReleaseMutex(w), mutex' # mutex
      PROVE  mutex'[t] = mutex[t] \/ mutex'[t] = Free
  <2>1. mutex' = [mutex EXCEPT ![txn[w]] = Free]
    BY <1>3 DEF ReleaseMutex
  <2> QED BY <2>1 DEF MutexInv, TypeOK
<1>4. mutex' # mutex => \E w \in Workers : AcquireMutex(w) \/ ReleaseMutex(w)
  BY DEF Next, vars, Dispatch, Receive, GetRedis, Construct, Ping, StartGraph, GraphReturns,
         ProcessDies, RedisReachability
<1> QED BY <1>1, <1>2, <1>3, <1>4

\* A mutex that is taken is never renewed and counts down to its expiry: what
\* MutexFreed needs besides the passing of time, whoever died or lost Redis.
THEOREM MutexRunsOut == Spec => []TakenExpires /\ [][KeysRunOut]_vars
<1>1. Init => TakenExpires
  BY DEF Init, TakenExpires
<1>2. ASSUME MutexInv, TakenExpires, Tick PROVE TakenExpires' /\ KeysRunOut
  <2>1. \A t \in Txns : /\ mutex'[t] = Aged(mutex[t])
                        /\ mutex[t] \in [owner : Workers \cup {NoOwner}, ttl : 0 .. MutexTTL]
                        /\ Aged(mutex[t]).ttl \in 0 .. MutexTTL
    BY <1>2, AgedType DEF Tick, MutexInv, TypeOK
  <2>2. TakenExpires'
    <3> SUFFICES ASSUME NEW t \in Txns, mutex'[t] # Free
                 PROVE  mutex'[t].owner \in Workers /\ mutex'[t].ttl \in 1 .. MutexTTL
      BY DEF TakenExpires
    <3>1. mutex[t] # Free /\ mutex[t].owner \in Workers /\ mutex[t].ttl \in 1 .. MutexTTL
      BY <1>2, <2>1, AgedTaken DEF TakenExpires
    <3>2. Aged(mutex[t]).owner = mutex[t].owner /\ Aged(mutex[t]).ttl >= 1
      BY <2>1, <3>1, AgedTaken
    <3> QED BY <2>1, <3>1, <3>2, RunnerAssumption
  <2>3. KeysRunOut
    BY <1>2, <2>1, AgedTaken DEF KeysRunOut, TakenExpires
  <2> QED BY <2>2, <2>3
<1>3. ASSUME MutexInv, TakenExpires, [Next]_vars, ~Tick PROVE TakenExpires' /\ KeysRunOut
  <2>1. \A w \in Workers : NewMutex(w).owner = w /\ NewMutex(w).ttl \in 1 .. MutexTTL
    BY RunnerAssumption DEF NewMutex
  <2>2. TakenExpires'
    BY <1>3, <2>1, KeyChanges DEF TakenExpires
  <2>3. KeysRunOut
    BY <1>3, KeyChanges DEF KeysRunOut
  <2> QED BY <2>2, <2>3
<1>4. MutexInv /\ TakenExpires /\ [Next]_vars => TakenExpires' /\ [KeysRunOut]_vars
  BY <1>2, <1>3
<1> QED BY <1>1, <1>4, MutexInvariant, PTL DEF Spec

==============================================================================
