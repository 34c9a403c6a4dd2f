--------------------------- MODULE ConnPoolProofs ---------------------------
(***************************************************************************)
(* Theorems about ConnPool for any number of threads and connections, any  *)
(* maxconn and any kind of client: who executes on which connection, where *)
(* slots go, when putconn raises, and that every call keeps the promise of *)
(* LossyCall.                                                              *)
(***************************************************************************)
EXTENDS ConnPool, TLAPS

(* The inductive invariant. *)

\* Where a call has its pool, where getconn has put its connection into the
\* books, and where it has had no effect yet.
Connected == {"getconn", "connect"} \cup Holding
Booked    == Holding \ {"register", "key"}
Undone    == {"get_pool", "lock", "init", "flag", "getconn", "connect", "register", "key",
              "execute", "commit"}

CallInv ==
    \A t \in Threads :
        /\ pc[t] \in Connected => mine[t] \in Pools
        /\ pc[t] \in Undone => effect[t] = 0
        /\ answer[t] = "ok" => effect[t] = 1
        /\ pc[t] \in Booked \ {"execute"} => answer[t] # "none"

\* Under the lock one thread at a time makes a pool, and only the first does.
LockInv ==
    /\ ~client.locked => locker = NoThread
    /\ \A t \in Threads :
         /\ pc[t] = "lock" => client.locked
         /\ client.locked /\ pc[t] \in {"init", "flag"} => locker = t
         /\ client.locked /\ pc[t] = "init" => ~attempted

\* A writer never hands a connection back inside a transaction.
WriterInv ==
    client.commits =>
        \A t \in Threads :
            /\ pc[t] # "reset"
            /\ pc[t] \in {"put", "room", "keep"} => tx[t] \in {"idle", "closed"}

\* An idle connection is of one pool.
IdleInv == \A p, q \in Pools : p # q => idle[p] \cap idle[q] = {}

\* Two threads have to do with one connection only after a race for it.
RaceInv == \A t, u \in Threads : t # u /\ Holds(t) /\ conn[t] = conn[u] => conn[t] \in raced

\* Without such a race the pool knows the key of a connection that is out.
KeyInv == \A t \in Threads : pc[t] \in Booked => conn[t] \in keyed[mine[t]] \cup raced

CallsInv == TypeOK /\ CallInv /\ LockInv /\ WriterInv
ConnInv  == IdleInv /\ ConnectionPrivate /\ RaceInv /\ KeyInv /\ SlotsAccounted

-----------------------------------------------------------------------------
(* The initial state and the steps keep CallsInv. *)

LEMMA InitCalls == Init => CallsInv
BY PoolAssumption
   DEF Init, CallsInv, TypeOK, CallInv, LockInv, WriterInv, Holds, Holding, Owning, Pools,
       Undone, Connected, Booked

LEMMA CallCalls ==
    ASSUME CallsInv, NEW t \in Threads, Call(t)
    PROVE  CallsInv'
<1> USE PoolAssumption DEF CallsInv, Call,
           Goto, globals, locals, objects, database
<1>1. TypeOK'
  BY DEF TypeOK, Holds, Holding, Owning, Pools, CallInv, LockInv, Undone, Connected
<1>2. CallInv'
  BY DEF TypeOK, CallInv, Holds, Holding, Owning, Pools, Undone, Connected, Booked
<1>3. LockInv'
  BY DEF TypeOK, LockInv, Holds
<1>4. WriterInv'
  BY DEF TypeOK, WriterInv
<1> QED BY <1>1, <1>2, <1>3, <1>4

LEMMA GetPoolCalls ==
    ASSUME CallsInv, NEW t \in Threads, GetPool(t)
    PROVE  CallsInv'
<1> USE PoolAssumption DEF CallsInv, GetPool, UsePool, Finish,
           Goto, globals, locals, objects, database
<1>1. TypeOK'
  BY DEF TypeOK, Holds, Holding, Owning, Pools, CallInv, LockInv, Undone, Connected
<1>2. CallInv'
  BY DEF TypeOK, CallInv, Holds, Holding, Owning, Pools, Undone, Connected, Booked
<1>3. LockInv'
  BY DEF TypeOK, LockInv, Holds
<1>4. WriterInv'
  BY DEF TypeOK, WriterInv
<1> QED BY <1>1, <1>2, <1>3, <1>4

LEMMA LockCalls ==
    ASSUME CallsInv, NEW t \in Threads, Lock(t)
    PROVE  CallsInv'
<1> USE PoolAssumption DEF CallsInv, Lock, LockFree, UsePool, Finish,
           Goto, globals, locals, objects, database
<1>1. TypeOK'
  BY DEF TypeOK, Holds, Holding, Owning, Pools, CallInv, LockInv, Undone, Connected
<1>2. CallInv'
  BY DEF TypeOK, CallInv, Holds, Holding, Owning, Pools, Undone, Connected, Booked
<1>3. LockInv'
  BY DEF TypeOK, LockInv, Holds
<1>4. WriterInv'
  BY DEF TypeOK, WriterInv
<1> QED BY <1>1, <1>2, <1>3, <1>4

LEMMA InitPoolCalls ==
    ASSUME CallsInv, NEW t \in Threads, InitPool(t)
    PROVE  CallsInv'
<1> USE PoolAssumption DEF CallsInv, InitPool, Fresh,
           Goto, globals, locals, objects, database
<1>1. TypeOK'
  BY DEF TypeOK, Holds, Holding, Owning, Pools, CallInv, LockInv, Undone, Connected
<1>2. CallInv'
  BY DEF TypeOK, CallInv, Holds, Holding, Owning, Pools, Undone, Connected, Booked
<1>3. LockInv'
  BY DEF TypeOK, LockInv, Holds
<1>4. WriterInv'
  BY DEF TypeOK, WriterInv
<1> QED BY <1>1, <1>2, <1>3, <1>4

LEMMA FlagCalls ==
    ASSUME CallsInv, NEW t \in Threads, Flag(t)
    PROVE  CallsInv'
<1> USE PoolAssumption DEF CallsInv, Flag, UsePool, Finish,
           Goto, globals, locals, objects, database
<1>1. TypeOK'
  BY DEF TypeOK, Holds, Holding, Owning, Pools, CallInv, LockInv, Undone, Connected
<1>2. CallInv'
  BY DEF TypeOK, CallInv, Holds, Holding, Owning, Pools, Undone, Connected, Booked
<1>3. LockInv'
  BY DEF TypeOK, LockInv, Holds
<1>4. WriterInv'
  BY DEF TypeOK, WriterInv
<1> QED BY <1>1, <1>2, <1>3, <1>4

LEMMA GetConnCalls ==
    ASSUME CallsInv, NEW t \in Threads, GetConn(t)
    PROVE  CallsInv'
<1> USE PoolAssumption DEF CallsInv, GetConn, Take, Finish,
           Goto, globals, locals, objects, database
<1>1. TypeOK'
  <2>1. /\ t \in Threads /\ ~Holds(t) /\ mine[t] \in Pools
        /\ locker # t /\ idle[mine[t]] \subseteq Conns
    BY DEF TypeOK, CallInv, Connected, Holding, Owning
  <2>2. CASE \E c \in idle[mine[t]] :
                /\ Take(t, c) /\ idle' = [idle EXCEPT ![mine[t]] = @ \ {c}]
                /\ raced' = raced \cup ({c} \cap {conn[u] : u \in Threads})
                /\ UNCHANGED <<mine, answer>>
    <3>1. PICK c \in Conns :
                /\ Take(t, c) /\ idle' = [idle EXCEPT ![mine[t]] = @ \ {c}]
                /\ raced' = raced \cup ({c} \cap {conn[u] : u \in Threads})
                /\ UNCHANGED <<mine, answer>>
      BY <2>1, <2>2
    <3>2. /\ pc' = [pc EXCEPT ![t] = "register"] /\ conn' = [conn EXCEPT ![t] = c]
          /\ tx' = [tx EXCEPT ![t] = "idle"] /\ c # NoConn
      BY <3>1
    <3>3. idle' \in [Pools -> SUBSET Conns]
      BY <2>1, <3>1 DEF TypeOK
    <3>4. raced' \subseteq Conns
      BY <3>1 DEF TypeOK
    <3> QED BY <2>1, <3>1, <3>2, <3>3, <3>4 DEF TypeOK, Holds, Holding, Owning
  <2>3. CASE idle' = idle
    BY <2>1, <2>3 DEF TypeOK, Holds, Holding, Owning
  <2> QED BY <2>2, <2>3
<1>2. CallInv'
  BY DEF TypeOK, CallInv, Holds, Holding, Owning, Pools, Undone, Connected, Booked
<1>3. LockInv'
  BY DEF TypeOK, LockInv, Holds
<1>4. WriterInv'
  BY DEF TypeOK, WriterInv
<1> QED BY <1>1, <1>2, <1>3, <1>4

LEMMA ConnectCalls ==
    ASSUME CallsInv, NEW t \in Threads, Connect(t)
    PROVE  CallsInv'
<1> USE PoolAssumption DEF CallsInv, Connect, Take, Finish, Fresh,
           Goto, globals, locals, objects, database
<1>1. TypeOK'
  BY DEF TypeOK, Holds, Holding, Owning, Pools, CallInv, LockInv, Undone, Connected
<1>2. CallInv'
  BY DEF TypeOK, CallInv, Holds, Holding, Owning, Pools, Undone, Connected, Booked
<1>3. LockInv'
  BY DEF TypeOK, LockInv, Holds
<1>4. WriterInv'
  BY DEF TypeOK, WriterInv
<1> QED BY <1>1, <1>2, <1>3, <1>4

LEMMA RegisterCalls ==
    ASSUME CallsInv, NEW t \in Threads, Register(t)
    PROVE  CallsInv'
<1> USE PoolAssumption DEF CallsInv, Register,
           Goto, globals, locals, objects, database
<1>1. TypeOK'
  BY DEF TypeOK, Holds, Holding, Owning, Pools, CallInv, LockInv, Undone, Connected
<1>2. CallInv'
  BY DEF TypeOK, CallInv, Holds, Holding, Owning, Pools, Undone, Connected, Booked
<1>3. LockInv'
  BY DEF TypeOK, LockInv, Holds
<1>4. WriterInv'
  BY DEF TypeOK, WriterInv
<1> QED BY <1>1, <1>2, <1>3, <1>4

LEMMA KeyCalls ==
    ASSUME CallsInv, NEW t \in Threads, Key(t)
    PROVE  CallsInv'
<1> USE PoolAssumption DEF CallsInv, Key,
           Goto, globals, locals, objects, database
<1>1. TypeOK'
  BY DEF TypeOK, Holds, Holding, Owning, Pools, CallInv, LockInv, Undone, Connected
<1>2. CallInv'
  BY DEF TypeOK, CallInv, Holds, Holding, Owning, Pools, Undone, Connected, Booked
<1>3. LockInv'
  BY DEF TypeOK, LockInv, Holds
<1>4. WriterInv'
  BY DEF TypeOK, WriterInv
<1> QED BY <1>1, <1>2, <1>3, <1>4

LEMMA InsertCalls ==
    ASSUME CallsInv, NEW t \in Threads, Insert(t)
    PROVE  CallsInv'
<1> USE PoolAssumption DEF CallsInv, Insert, StatementFails, AfterError, AnswerAfterInsert,
           ReturnedEarly,
           Goto, globals, locals, objects, database
<1>1. TypeOK'
  BY DEF TypeOK, Holds, Holding, Owning, Pools, CallInv, LockInv, Undone, Connected
<1>2. CallInv'
  BY DEF TypeOK, CallInv, Holds, Holding, Owning, Pools, Undone, Connected, Booked
<1>3. LockInv'
  BY DEF TypeOK, LockInv, Holds
<1>4. WriterInv'
  BY DEF TypeOK, WriterInv
<1> QED BY <1>1, <1>2, <1>3, <1>4

LEMMA QueryCalls ==
    ASSUME CallsInv, NEW t \in Threads, Query(t)
    PROVE  CallsInv'
<1> USE PoolAssumption DEF CallsInv, Query, StatementFails, AfterError, AfterFetch,
           Goto, globals, locals, objects, database
<1>1. TypeOK'
  <2>1. effect[t] = 0 /\ Holds(t) /\ locker # t
    BY DEF TypeOK, CallInv, Undone, Holding, Owning
  <2>2. \E l \in {"put", "rollback"} : pc' = [pc EXCEPT ![t] = l]
    OBVIOUS
  <2> QED BY <2>1, <2>2 DEF TypeOK, Holds, Holding, Owning
<1>2. CallInv'
  BY DEF TypeOK, CallInv, Holds, Holding, Owning, Pools, Undone, Connected, Booked
<1>3. LockInv'
  BY DEF TypeOK, LockInv, Holds
<1>4. WriterInv'
  BY DEF TypeOK, WriterInv
<1> QED BY <1>1, <1>2, <1>3, <1>4

LEMMA CommitCalls ==
    ASSUME CallsInv, NEW t \in Threads, Commit(t)
    PROVE  CallsInv'
<1> USE PoolAssumption DEF CallsInv, Commit, AfterError,
           Goto, globals, locals, objects, database
<1>1. TypeOK'
  BY DEF TypeOK, Holds, Holding, Owning, Pools, CallInv, LockInv, Undone, Connected
<1>2. CallInv'
  BY DEF TypeOK, CallInv, Holds, Holding, Owning, Pools, Undone, Connected, Booked
<1>3. LockInv'
  BY DEF TypeOK, LockInv, Holds
<1>4. WriterInv'
  BY DEF TypeOK, WriterInv
<1> QED BY <1>1, <1>2, <1>3, <1>4

LEMMA RollbackCalls ==
    ASSUME CallsInv, NEW t \in Threads, Rollback(t)
    PROVE  CallsInv'
<1> USE PoolAssumption DEF CallsInv, Rollback,
           Goto, globals, locals, objects, database
<1>1. TypeOK'
  BY DEF TypeOK, Holds, Holding, Owning, Pools, CallInv, LockInv, Undone, Connected
<1>2. CallInv'
  BY DEF TypeOK, CallInv, Holds, Holding, Owning, Pools, Undone, Connected, Booked
<1>3. LockInv'
  BY DEF TypeOK, LockInv, Holds
<1>4. WriterInv'
  BY DEF TypeOK, WriterInv
<1> QED BY <1>1, <1>2, <1>3, <1>4

LEMMA PutConnCalls ==
    ASSUME CallsInv, NEW t \in Threads, PutConn(t)
    PROVE  CallsInv'
<1> USE PoolAssumption DEF CallsInv, PutConn, PutconnRaises, PutconnEnds,
           Goto, globals, locals, objects, database
<1>1. TypeOK'
  BY DEF TypeOK, Holds, Holding, Owning, Pools, CallInv, LockInv, Undone, Connected
<1>2. CallInv'
  BY DEF TypeOK, CallInv, Holds, Holding, Owning, Pools, Undone, Connected, Booked
<1>3. LockInv'
  BY DEF TypeOK, LockInv, Holds
<1>4. WriterInv'
  BY DEF TypeOK, WriterInv
<1> QED BY <1>1, <1>2, <1>3, <1>4

LEMMA RoomCalls ==
    ASSUME CallsInv, NEW t \in Threads, Room(t)
    PROVE  CallsInv'
<1> USE PoolAssumption DEF CallsInv, Room,
           Goto, globals, locals, objects, database
<1>1. TypeOK'
  BY DEF TypeOK, Holds, Holding, Owning, Pools, CallInv, LockInv, Undone, Connected
<1>2. CallInv'
  BY DEF TypeOK, CallInv, Holds, Holding, Owning, Pools, Undone, Connected, Booked
<1>3. LockInv'
  BY DEF TypeOK, LockInv, Holds
<1>4. WriterInv'
  BY DEF TypeOK, WriterInv
<1> QED BY <1>1, <1>2, <1>3, <1>4

LEMMA KeepCalls ==
    ASSUME CallsInv, NEW t \in Threads, Keep(t)
    PROVE  CallsInv'
<1> USE PoolAssumption DEF CallsInv, Keep,
           Goto, globals, locals, objects, database
<1>1. TypeOK'
  BY DEF TypeOK, Holds, Holding, Owning, Pools, CallInv, LockInv, Undone, Connected
<1>2. CallInv'
  BY DEF TypeOK, CallInv, Holds, Holding, Owning, Pools, Undone, Connected, Booked
<1>3. LockInv'
  BY DEF TypeOK, LockInv, Holds
<1>4. WriterInv'
  BY DEF TypeOK, WriterInv
<1> QED BY <1>1, <1>2, <1>3, <1>4

LEMMA ResetCalls ==
    ASSUME CallsInv, NEW t \in Threads, Reset(t)
    PROVE  CallsInv'
<1> USE PoolAssumption DEF CallsInv, Reset, PutconnRaises, PutconnEnds,
           Goto, globals, locals, objects, database
<1>1. TypeOK'
  <2>1. /\ Holds(t) /\ mine[t] \in Pools /\ conn[t] \in Conns /\ locker # t
    BY DEF TypeOK, CallInv, Connected, Holds, Holding, Owning
  <2>2. CASE conn[t] \in alive
    BY <2>1, <2>2 DEF TypeOK, Holds, Holding, Owning
  <2>3. CASE conn[t] \notin alive
    BY <2>1, <2>3 DEF TypeOK, Holds, Holding, Owning, Pools
  <2> QED BY <2>2, <2>3
<1>2. CallInv'
  BY DEF TypeOK, CallInv, Holds, Holding, Owning, Pools, Undone, Connected, Booked
<1>3. LockInv'
  BY DEF TypeOK, LockInv, Holds
<1>4. WriterInv'
  BY DEF TypeOK, WriterInv
<1> QED BY <1>1, <1>2, <1>3, <1>4

LEMMA ForgetCalls ==
    ASSUME CallsInv, NEW t \in Threads, Forget(t)
    PROVE  CallsInv'
<1> USE PoolAssumption DEF CallsInv, Forget,
           Goto, globals, locals, objects, database
<1>1. TypeOK'
  BY DEF TypeOK, Holds, Holding, Owning, Pools, CallInv, LockInv, Undone, Connected
<1>2. CallInv'
  BY DEF TypeOK, CallInv, Holds, Holding, Owning, Pools, Undone, Connected, Booked
<1>3. LockInv'
  BY DEF TypeOK, LockInv, Holds
<1>4. WriterInv'
  BY DEF TypeOK, WriterInv
<1> QED BY <1>1, <1>2, <1>3, <1>4

LEMMA UnkeyCalls ==
    ASSUME CallsInv, NEW t \in Threads, Unkey(t)
    PROVE  CallsInv'
<1> USE PoolAssumption DEF CallsInv, Unkey, PutconnRaises, PutconnEnds,
           Goto, globals, locals, objects, database
<1>1. TypeOK'
  BY DEF TypeOK, Holds, Holding, Owning, Pools, CallInv, LockInv, Undone, Connected
<1>2. CallInv'
  BY DEF TypeOK, CallInv, Holds, Holding, Owning, Pools, Undone, Connected, Booked
<1>3. LockInv'
  BY DEF TypeOK, LockInv, Holds
<1>4. WriterInv'
  BY DEF TypeOK, WriterInv
<1> QED BY <1>1, <1>2, <1>3, <1>4

LEMMA DatabaseChangesCalls ==
    ASSUME CallsInv, DatabaseChanges \/ UNCHANGED vars
    PROVE  CallsInv'
<1>1. /\ UNCHANGED <<client, globals, locals, objects, raced>>
      /\ alive' \in {{}, alive} /\ dbUp' \in {dbUp, ~dbUp}
  BY DEF DatabaseChanges, vars, database
<1>2. TypeOK'
  <2>1. dbUp' \in BOOLEAN /\ alive' \subseteq Conns
    BY <1>1 DEF CallsInv, TypeOK
  <2> QED BY <1>1, <2>1 DEF CallsInv, TypeOK, globals, locals, objects, Holds
<1>3. CallInv' /\ LockInv' /\ WriterInv'
  BY <1>1 DEF CallsInv, CallInv, LockInv, WriterInv, globals, locals
<1> QED BY <1>2, <1>3 DEF CallsInv

LEMMA NextCalls == CallsInv /\ [Next]_vars => CallsInv'
<1> SUFFICES ASSUME CallsInv, [Next]_vars PROVE CallsInv'
  OBVIOUS
<1>1. ASSUME NEW t \in Threads, Call(t) \/ Step(t) PROVE CallsInv'
  BY <1>1, CallCalls, GetPoolCalls, LockCalls, InitPoolCalls, FlagCalls, GetConnCalls,
     ConnectCalls, RegisterCalls, KeyCalls, InsertCalls, QueryCalls, CommitCalls,
     RollbackCalls, PutConnCalls, RoomCalls, KeepCalls, ResetCalls, ForgetCalls, UnkeyCalls
     DEF Step
<1> QED BY <1>1, DatabaseChangesCalls DEF Next

-----------------------------------------------------------------------------
(* The initial state and the steps keep ConnInv. *)

LEMMA InitConns == Init => ConnInv
BY PoolAssumption
   DEF Init, ConnInv, IdleInv, ConnectionPrivate, RaceInv, KeyInv, SlotsAccounted, Holds,
       Holding, Owning, Booked, Pools

\* A step of a thread that leaves the connection and the books alone.
LEMMA StayConns ==
    ASSUME CallsInv, ConnInv, NEW t \in Threads, NEW l, Goto(t, l),
           UNCHANGED <<client, conn, idle, used, keyed, raced>>, alive' \subseteq alive,
           mine' = mine \/ (pc[t] \notin Holding /\ \E p : mine' = [mine EXCEPT ![t] = p]),
           l \in Owning => pc[t] \in Owning,
           l \in Booked => pc[t] \in Booked,
           pc[t] \in Owning \cup {"forget"} => l \in Owning \cup {"forget"}
    PROVE  ConnInv'
<1>1. \A u \in Threads : pc'[u] = IF u = t THEN l ELSE pc[u]
  BY DEF Goto, CallsInv, TypeOK
<1>2. \A u \in Threads : Holds(u) => mine'[u] = mine[u]
  BY DEF CallsInv, TypeOK
<1>3. /\ \A u \in Threads : Holds(u) <=> pc[u] \in Holding
      /\ \A u \in Threads : conn[u] \in Conns => Holds(u)
  BY PoolAssumption DEF CallsInv, TypeOK, Holds
<1>4. IdleInv' /\ RaceInv'
  BY DEF ConnInv, IdleInv, RaceInv, Holds
<1>5. ConnectionPrivate'
  <2>1. \A u \in Threads : pc'[u] \in Owning => pc[u] \in Owning
    BY <1>1
  <2> QED BY <2>1 DEF ConnInv, ConnectionPrivate
<1>6. KeyInv'
  <2>1. \A u \in Threads : pc'[u] \in Booked => pc[u] \in Booked /\ Holds(u)
    BY <1>1, <1>3 DEF Booked
  <2> QED BY <1>2, <2>1 DEF ConnInv, KeyInv
<1>7. SlotsAccounted'
  <2>1. ASSUME NEW p \in Pools, NEW u \in Threads, NEW c \in Conns, InUse(u, c, p)
        PROVE  InUse(u, c, p)'
    BY <1>1, <1>2, <1>3, <2>1 DEF InUse
  <2> QED BY <2>1 DEF ConnInv, SlotsAccounted
<1> QED BY <1>4, <1>5, <1>6, <1>7 DEF ConnInv

\* A thread takes a connection that was idle in its pool, or in no pool.
LEMMA TakeConns ==
    ASSUME CallsInv, ConnInv, NEW t \in Threads, pc[t] \in {"getconn", "connect"},
           NEW c \in Conns, Take(t, c), UNCHANGED <<client, mine, used, keyed>>,
           \/ /\ c \in idle[mine[t]]
              /\ idle' = [idle EXCEPT ![mine[t]] = @ \ {c}]
              /\ raced' = raced \cup ({c} \cap {conn[u] : u \in Threads})
              /\ alive' = alive
           \/ c \in Fresh /\ idle' = idle /\ raced' = raced \ {c} /\ alive' = alive \cup {c}
    PROVE  ConnInv'
<1> DEFINE p == mine[t]
<1>1. /\ p \in Pools /\ c # NoConn /\ conn[t] = NoConn
      /\ idle \in [Pools -> SUBSET Conns]
      /\ \A u \in Threads : conn'[u] = IF u = t THEN c ELSE conn[u]
      /\ \A u \in Threads : pc'[u] = IF u = t THEN "register" ELSE pc[u]
  BY PoolAssumption DEF Take, Goto, CallsInv, TypeOK, CallInv, Connected, Holds, Holding, Owning
<1>2. \A q \in Pools : idle'[q] \subseteq idle[q] /\ c \notin idle'[q]
  <2>1. CASE c \in Fresh /\ idle' = idle
    BY <2>1 DEF Fresh
  <2>2. CASE c \in idle[p] /\ idle' = [idle EXCEPT ![p] = @ \ {c}]
    <3>1. \A q \in Pools : idle'[q] = IF q = p THEN idle[q] \ {c} ELSE idle[q]
      BY <1>1, <2>2
    <3> QED BY <1>1, <2>2, <3>1 DEF ConnInv, IdleInv
  <2> QED BY <2>1, <2>2
<1>3. \A u \in Threads : pc[u] \in Owning => conn[u] # c
  BY <1>1 DEF Fresh, ConnInv, ConnectionPrivate
<1>4. \A u \in Threads : conn[u] = c => c \in raced'
  BY DEF Fresh
<1>5. \A d \in raced : d \in raced' \/ (d = c /\ c \in Fresh)
  OBVIOUS
<1>6. \A d \in alive' : d \in alive \/ (d = c /\ c \in Fresh)
  OBVIOUS
<1> HIDE DEF p
<1>7. IdleInv'
  BY <1>2 DEF ConnInv, IdleInv
<1>8. ConnectionPrivate'
  BY <1>1, <1>2, <1>3 DEF ConnInv, ConnectionPrivate
<1>9. RaceInv'
  <2> SUFFICES ASSUME NEW u \in Threads, NEW v \in Threads, u # v, conn'[u] # NoConn,
                      conn'[u] = conn'[v]
               PROVE  conn'[u] \in raced'
    BY DEF RaceInv, Holds
  <2>1. CASE conn'[u] = c
    BY <1>1, <1>4, <2>1
  <2>2. CASE conn'[u] # c
    <3>1. conn[u] = conn'[u] /\ conn[v] = conn'[v]
      BY <1>1, <2>2
    <3>2. conn[u] \in raced
      BY <3>1 DEF ConnInv, RaceInv, Holds
    <3> QED BY <1>5, <2>2, <3>1, <3>2
  <2> QED BY <2>1, <2>2
<1>10. KeyInv'
  <2> SUFFICES ASSUME NEW u \in Threads, pc'[u] \in Booked
               PROVE  conn'[u] \in keyed'[mine'[u]] \cup raced'
    BY DEF KeyInv
  <2>1. u # t /\ pc[u] \in Booked /\ conn'[u] = conn[u]
    BY <1>1 DEF Booked
  <2>2. conn[u] \in keyed[mine[u]] \cup raced
    BY <2>1 DEF ConnInv, KeyInv
  <2> QED BY <1>4, <1>5, <2>1, <2>2
<1>11. SlotsAccounted'
  <2> SUFFICES ASSUME NEW q \in Pools, NEW u \in Threads, NEW d \in Conns, <<u, d>> \in used[q]
               PROVE  InUse(u, d, q)' \/ d \in raced' \/ (~client.commits /\ d \notin alive')
    BY DEF SlotsAccounted
  <2>1. ~(d = c /\ c \in Fresh)
    BY DEF Fresh
  <2>2. InUse(u, d, q) \/ d \in raced \/ (~client.commits /\ d \notin alive)
    BY DEF ConnInv, SlotsAccounted
  <2>3. InUse(u, d, q) => InUse(u, d, q)'
    BY <1>1, PoolAssumption DEF InUse
  <2> QED BY <1>5, <1>6, <2>1, <2>2, <2>3
<1> QED BY <1>7, <1>8, <1>9, <1>10, <1>11 DEF ConnInv

\* A thread appends its connection to the idle list.
LEMMA HandBackConns ==
    ASSUME CallsInv, ConnInv, NEW t \in Threads, pc[t] \in {"keep", "reset"}, Goto(t, "forget"),
           idle' = [idle EXCEPT ![mine[t]] = @ \cup {conn[t]}],
           UNCHANGED <<client, mine, conn, used, keyed, raced, alive>>
    PROVE  ConnInv'
<1>1. /\ mine[t] \in Pools /\ pc[t] \in Owning
      /\ \A u \in Threads : pc'[u] = IF u = t THEN "forget" ELSE pc[u]
      /\ \A q \in Pools : idle'[q] = IF q = mine[t] THEN idle[q] \cup {conn[t]} ELSE idle[q]
  BY DEF Goto, CallsInv, TypeOK, CallInv, Connected, Holding, Owning
<1>2. \A q \in Pools : conn[t] \notin idle[q]
  BY <1>1 DEF ConnInv, ConnectionPrivate
<1>3. IdleInv'
  BY <1>1, <1>2 DEF ConnInv, IdleInv
<1>4. ConnectionPrivate'
  BY <1>1 DEF ConnInv, ConnectionPrivate, Owning
<1>5. RaceInv' /\ KeyInv'
  BY <1>1 DEF ConnInv, RaceInv, KeyInv, Holds, Booked, Holding, Owning
<1>6. SlotsAccounted'
  BY <1>1 DEF ConnInv, SlotsAccounted, InUse
<1> QED BY <1>3, <1>4, <1>5, <1>6 DEF ConnInv

\* putconn is over: the slot has been given back, or is lost for a reason.
LEMMA EndConns ==
    ASSUME CallsInv, ConnInv, NEW t \in Threads, pc[t] \in Booked, PutconnEnds(t),
           UNCHANGED <<client, idle, used, raced, alive>>,
           keyed' \in {keyed, [keyed EXCEPT ![mine[t]] = @ \ {conn[t]}]},
           \/ pc[t] = "unkey" \/ conn[t] \in raced
           \/ ~client.commits /\ conn[t] \notin alive
    PROVE  ConnInv'
<1>1. /\ mine[t] \in Pools /\ Holds(t) /\ keyed \in [Pools -> SUBSET Conns]
      /\ \A u \in Threads : pc'[u] = IF u = t THEN "idle" ELSE pc[u]
      /\ \A u \in Threads : conn'[u] = IF u = t THEN NoConn ELSE conn[u]
      /\ \A u \in Threads : u # t => mine'[u] = mine[u]
  BY DEF PutconnEnds, Goto, CallsInv, TypeOK, CallInv, Connected, Booked
<1>2. \A q \in Pools, d \in Conns : d \in keyed[q] /\ d # conn[t] => d \in keyed'[q]
  <2>1. CASE keyed' = keyed
    BY <2>1
  <2>2. CASE keyed' = [keyed EXCEPT ![mine[t]] = @ \ {conn[t]}]
    BY <1>1, <2>2
  <2> QED BY <2>1, <2>2
<1>3. IdleInv'
  BY DEF ConnInv, IdleInv
<1>4. ConnectionPrivate'
  BY <1>1 DEF ConnInv, ConnectionPrivate, Owning
<1>5. RaceInv'
  BY <1>1 DEF ConnInv, RaceInv, Holds
<1>6. KeyInv'
  <2> SUFFICES ASSUME NEW u \in Threads, pc'[u] \in Booked
               PROVE  conn'[u] \in keyed'[mine'[u]] \cup raced
    BY DEF KeyInv
  <2>1. u # t /\ pc[u] \in Booked /\ conn'[u] = conn[u] /\ mine'[u] = mine[u]
    BY <1>1 DEF Booked, Holding, Owning
  <2>2. conn[u] \in Conns /\ mine[u] \in Pools /\ Holds(u)
    BY <2>1 DEF CallsInv, TypeOK, CallInv, Connected, Booked, Holds
  <2>3. conn[u] \in keyed[mine[u]] \cup raced
    BY <2>1 DEF ConnInv, KeyInv
  <2>4. conn[u] = conn[t] => conn[u] \in raced
    BY <2>1, <2>2 DEF ConnInv, RaceInv
  <2> QED BY <1>2, <2>1, <2>2, <2>3, <2>4
<1>7. SlotsAccounted'
  <2> SUFFICES ASSUME NEW q \in Pools, NEW u \in Threads, NEW d \in Conns, <<u, d>> \in used[q]
               PROVE  InUse(u, d, q)' \/ d \in raced \/ (~client.commits /\ d \notin alive)
    BY DEF SlotsAccounted
  <2>1. InUse(u, d, q) \/ d \in raced \/ (~client.commits /\ d \notin alive)
    BY DEF ConnInv, SlotsAccounted
  <2>2. InUse(u, d, q) /\ u # t => InUse(u, d, q)'
    BY <1>1 DEF InUse
  <2>3. InUse(t, d, q) => d = conn[t] /\ pc[t] # "unkey"
    BY DEF InUse, Owning
  <2> QED BY <2>1, <2>2, <2>3
<1> QED BY <1>3, <1>4, <1>5, <1>6, <1>7 DEF ConnInv

\* Threads write the books.
LEMMA RegisterConns ==
    ASSUME CallsInv, ConnInv, NEW t \in Threads, Register(t)
    PROVE  ConnInv'
<1>1. /\ pc[t] = "register" /\ mine[t] \in Pools
      /\ UNCHANGED <<client, mine, conn, idle, keyed, raced, alive>>
      /\ \A u \in Threads : pc'[u] = IF u = t THEN "key" ELSE pc[u]
      /\ \A q \in Pools : used'[q] = IF q = mine[t] THEN used[q] \cup {<<t, conn[t]>>} ELSE used[q]
  BY DEF Register, Goto, database, CallsInv, TypeOK, CallInv, Connected, Holding, Owning
<1>2. IdleInv' /\ RaceInv' /\ KeyInv'
  BY <1>1 DEF ConnInv, IdleInv, RaceInv, KeyInv, Holds, Booked
<1>3. ConnectionPrivate'
  BY <1>1 DEF ConnInv, ConnectionPrivate, Owning
<1>4. SlotsAccounted'
  <2> SUFFICES ASSUME NEW q \in Pools, NEW u \in Threads, NEW d \in Conns, <<u, d>> \in used'[q]
               PROVE  InUse(u, d, q)' \/ d \in raced \/ (~client.commits /\ d \notin alive)
    BY <1>1 DEF SlotsAccounted
  <2>1. CASE <<u, d>> \in used[q]
    <3>1. InUse(u, d, q) => InUse(u, d, q)'
      BY <1>1 DEF InUse, Owning
    <3> QED BY <2>1, <3>1 DEF ConnInv, SlotsAccounted
  <2>2. CASE <<u, d>> \notin used[q]
    <3>1. q = mine[t] /\ <<u, d>> = <<t, conn[t]>>
      BY <1>1, <2>2
    <3>2. u = t /\ d = conn[t]
      BY <3>1
    <3> QED BY <1>1, <3>1, <3>2 DEF InUse, Owning
  <2> QED BY <2>1, <2>2
<1> QED BY <1>2, <1>3, <1>4 DEF ConnInv

LEMMA KeyConns ==
    ASSUME CallsInv, ConnInv, NEW t \in Threads, Key(t)
    PROVE  ConnInv'
<1>1. /\ pc[t] = "key" /\ mine[t] \in Pools
      /\ UNCHANGED <<client, mine, conn, idle, used, raced, alive>>
      /\ \A u \in Threads : pc'[u] = IF u = t THEN "execute" ELSE pc[u]
      /\ \A q \in Pools : keyed[q] \subseteq keyed'[q]
      /\ conn[t] \in keyed'[mine[t]]
  BY DEF Key, Goto, database, CallsInv, TypeOK, CallInv, Connected, Holding, Owning
<1>2. IdleInv' /\ RaceInv'
  BY <1>1 DEF ConnInv, IdleInv, RaceInv, Holds
<1>3. ConnectionPrivate'
  BY <1>1 DEF ConnInv, ConnectionPrivate, Owning
<1>4. KeyInv'
  <2>1. \A u \in Threads : pc[u] \in Booked => mine[u] \in Pools
    BY DEF CallsInv, CallInv, Connected, Booked
  <2> QED BY <1>1, <2>1 DEF ConnInv, KeyInv
<1>5. SlotsAccounted'
  BY <1>1 DEF ConnInv, SlotsAccounted, InUse, Owning
<1> QED BY <1>2, <1>3, <1>4, <1>5 DEF ConnInv

LEMMA ForgetConns ==
    ASSUME CallsInv, ConnInv, NEW t \in Threads, Forget(t)
    PROVE  ConnInv'
<1>1. /\ pc[t] = "forget" /\ mine[t] \in Pools
      /\ UNCHANGED <<client, mine, conn, idle, keyed, raced, alive>>
      /\ \A u \in Threads : pc'[u] = IF u = t THEN "unkey" ELSE pc[u]
      /\ \A q \in Pools : used'[q] = IF q = mine[t] THEN used[q] \ {<<t, conn[t]>>} ELSE used[q]
  BY DEF Forget, Goto, database, CallsInv, TypeOK, CallInv, Connected, Holding
<1>2. IdleInv' /\ RaceInv' /\ KeyInv'
  BY <1>1 DEF ConnInv, IdleInv, RaceInv, KeyInv, Holds, Booked, Holding
<1>3. ConnectionPrivate'
  BY <1>1 DEF ConnInv, ConnectionPrivate, Owning
<1>4. SlotsAccounted'
  <2> SUFFICES ASSUME NEW q \in Pools, NEW u \in Threads, NEW d \in Conns, <<u, d>> \in used'[q]
               PROVE  InUse(u, d, q)' \/ d \in raced \/ (~client.commits /\ d \notin alive)
    BY <1>1 DEF SlotsAccounted
  <2>1. <<u, d>> \in used[q] /\ ~(u = t /\ d = conn[t] /\ q = mine[t])
    BY <1>1
  <2>2. InUse(u, d, q) => InUse(u, d, q)'
    BY <1>1, <2>1 DEF InUse, Owning
  <2> QED BY <2>1, <2>2 DEF ConnInv, SlotsAccounted
<1> QED BY <1>2, <1>3, <1>4 DEF ConnInv

\* Before a call has a connection.
LEMMA CallConns ==
    ASSUME CallsInv, ConnInv, NEW t \in Threads, Call(t) \/ GetPool(t) \/ Lock(t) \/ Flag(t)
    PROVE  ConnInv'
<1>1. /\ pc[t] \notin Holding
      /\ UNCHANGED <<client, conn, idle, used, keyed, raced, alive>>
  BY DEF Call, GetPool, Lock, Flag, Holding, Owning, objects, database
<1>2. mine' = mine \/ \E p : mine' = [mine EXCEPT ![t] = p]
  BY DEF Call, GetPool, Lock, Flag, UsePool, Finish
<1>3. \E l \in {"get_pool", "lock", "init", "getconn", "idle"} : Goto(t, l)
  BY DEF Call, GetPool, Lock, Flag, UsePool, Finish
<1>4. PICK l \in {"get_pool", "lock", "init", "getconn", "idle"} : Goto(t, l)
  BY <1>3
<1>5. l \notin Owning /\ l \notin Booked /\ pc[t] \notin Owning \cup {"forget"}
  BY <1>1 DEF Booked, Holding, Owning
<1> QED BY <1>1, <1>2, <1>4, <1>5, StayConns

\* The first connection of a pool was in none before.
LEMMA InitPoolConns ==
    ASSUME CallsInv, ConnInv, NEW t \in Threads, InitPool(t)
    PROVE  ConnInv'
<1>1. /\ pc[t] = "init" /\ Goto(t, "flag") /\ UNCHANGED <<client, mine, conn, used, keyed>>
      /\ \/ UNCHANGED <<idle, raced, alive>>
         \/ \E c \in Fresh : /\ idle' = [idle EXCEPT ![t] = {c}]
                             /\ alive' = alive \cup {c} /\ raced' = raced \ {c}
  BY DEF InitPool
<1>2. CASE UNCHANGED <<idle, raced, alive>>
  BY <1>1, <1>2, StayConns DEF Booked, Holding, Owning
<1>3. ASSUME NEW c \in Fresh, idle' = [idle EXCEPT ![t] = {c}], alive' = alive \cup {c},
             raced' = raced \ {c}
      PROVE  ConnInv'
  <2>1. /\ \A p \in Pools : c \notin idle[p] /\ \A u \in Threads : <<u, c>> \notin used[p]
        /\ \A u \in Threads : conn[u] # c
    BY DEF Fresh
  <2>2. /\ \A p \in Pools : idle'[p] = IF p = t THEN {c} ELSE idle[p]
        /\ \A u \in Threads : pc'[u] = IF u = t THEN "flag" ELSE pc[u]
    BY <1>1, <1>3 DEF CallsInv, TypeOK, Goto
  <2>3. IdleInv' /\ ConnectionPrivate'
    BY <1>1, <2>1, <2>2 DEF ConnInv, IdleInv, ConnectionPrivate, Owning
  <2>4. RaceInv' /\ KeyInv'
    BY <1>1, <1>3, <2>1, <2>2 DEF ConnInv, RaceInv, KeyInv, Holds, Booked, Holding, Owning
  <2>5. SlotsAccounted'
    BY <1>1, <1>3, <2>1, <2>2 DEF ConnInv, SlotsAccounted, InUse, Owning
  <2> QED BY <2>3, <2>4, <2>5 DEF ConnInv
<1> QED BY <1>1, <1>2, <1>3

LEMMA GetConnConns ==
    ASSUME CallsInv, ConnInv, NEW t \in Threads, GetConn(t)
    PROVE  ConnInv'
<1>1. /\ pc[t] = "getconn" /\ UNCHANGED <<client, used, keyed, alive>>
      /\ mine[t] \in Pools /\ idle[mine[t]] \subseteq Conns
  BY DEF GetConn, database, CallsInv, TypeOK, CallInv, Connected
<1>2. CASE \E c \in idle[mine[t]] :
             /\ Take(t, c) /\ UNCHANGED mine
             /\ idle' = [idle EXCEPT ![mine[t]] = @ \ {c}]
             /\ raced' = raced \cup ({c} \cap {conn[u] : u \in Threads})
  BY <1>1, <1>2, TakeConns
<1>3. CASE /\ UNCHANGED <<conn, idle, raced>>
           /\ Finish(t, "failed") \/ (Goto(t, "connect") /\ UNCHANGED mine)
  BY <1>1, <1>3, StayConns DEF Finish, Booked, Holding, Owning
<1> QED BY <1>2, <1>3 DEF GetConn

LEMMA ConnectConns ==
    ASSUME CallsInv, ConnInv, NEW t \in Threads, Connect(t)
    PROVE  ConnInv'
<1>1. pc[t] = "connect" /\ UNCHANGED <<client, idle, used, keyed>>
  BY DEF Connect, objects
<1>2. CASE \E c \in Fresh :
             Take(t, c) /\ UNCHANGED mine /\ alive' = alive \cup {c} /\ raced' = raced \ {c}
  <2>1. PICK c \in Fresh :
             Take(t, c) /\ UNCHANGED mine /\ alive' = alive \cup {c} /\ raced' = raced \ {c}
    BY <1>2
  <2>2. c \in Conns
    BY DEF Fresh
  <2> QED BY <1>1, <2>1, <2>2, TakeConns
<1>3. CASE Finish(t, "failed") /\ UNCHANGED <<conn, raced, alive>>
  BY <1>1, <1>3, StayConns DEF Finish, Booked, Holding, Owning
<1> QED BY <1>2, <1>3 DEF Connect

\* On the connection, and on the way back as long as the books stay.
LEMMA StatementConns ==
    ASSUME CallsInv, ConnInv, NEW t \in Threads,
           Insert(t) \/ Query(t) \/ Commit(t) \/ Rollback(t) \/ Room(t)
    PROVE  ConnInv'
<1>1. /\ pc[t] \in {"execute", "commit", "rollback", "room"}
      /\ UNCHANGED <<client, mine, conn, used, keyed, raced>>
      /\ \E l \in {"commit", "rollback", "put", "keep", "forget"} : Goto(t, l)
  BY DEF Insert, Query, Commit, Rollback, Room, StatementFails, AfterError, AfterFetch,
         objects, database
<1>2. alive' \subseteq alive
  BY DEF Insert, Query, Commit, Rollback, Room, database
<1>3. idle' = idle
  <2>1. CASE Insert(t)
    <3>1. idle \in [Pools -> SUBSET Conns]
      BY DEF CallsInv, TypeOK
    <3> QED BY <2>1, <3>1 DEF Insert, ReturnedEarly, StatementFails
  <2> QED BY <2>1 DEF Query, Commit, Rollback, Room, objects
<1>4. PICK l \in {"commit", "rollback", "put", "keep", "forget"} : Goto(t, l)
  BY <1>1
<1>5. pc[t] \in Owning /\ pc[t] \in Booked /\ l \in Owning \cup {"forget"}
  BY <1>1 DEF Booked, Holding, Owning
<1> QED BY <1>1, <1>2, <1>3, <1>4, <1>5, StayConns

LEMMA PutConnConns ==
    ASSUME CallsInv, ConnInv, NEW t \in Threads, PutConn(t)
    PROVE  ConnInv'
<1>1. /\ pc[t] = "put" /\ pc[t] \in Booked
      /\ UNCHANGED <<client, idle, used, keyed, raced, alive>>
  BY DEF PutConn, objects, database, Booked, Holding, Owning
<1>2. CASE conn[t] \in keyed[mine[t]]
  <2>1. Goto(t, "room") /\ UNCHANGED <<mine, conn>>
    BY <1>2 DEF PutConn
  <2> QED BY <1>1, <2>1, StayConns DEF Booked, Holding, Owning
<1>3. CASE conn[t] \notin keyed[mine[t]]
  <2>1. PutconnEnds(t) /\ conn[t] \in raced
    BY <1>1, <1>3 DEF PutConn, PutconnRaises, ConnInv, KeyInv
  <2> QED BY <1>1, <2>1, EndConns
<1> QED BY <1>2, <1>3

LEMMA KeepConns ==
    ASSUME CallsInv, ConnInv, NEW t \in Threads, Keep(t)
    PROVE  ConnInv'
<1>1. pc[t] = "keep" /\ UNCHANGED <<client, mine, conn, used, keyed, raced, alive>>
  BY DEF Keep, database
<1>2. \/ idle' = idle /\ (Goto(t, "reset") \/ Goto(t, "forget"))
      \/ idle' = [idle EXCEPT ![mine[t]] = @ \cup {conn[t]}] /\ Goto(t, "forget")
  BY DEF Keep
<1>3. CASE idle' = idle /\ (Goto(t, "reset") \/ Goto(t, "forget"))
  BY <1>1, <1>3, StayConns DEF Booked, Holding, Owning
<1>4. CASE idle' = [idle EXCEPT ![mine[t]] = @ \cup {conn[t]}] /\ Goto(t, "forget")
  BY <1>1, <1>4, HandBackConns
<1> QED BY <1>2, <1>3, <1>4

LEMMA ResetConns ==
    ASSUME CallsInv, ConnInv, NEW t \in Threads, Reset(t)
    PROVE  ConnInv'
<1>1. /\ pc[t] = "reset" /\ pc[t] \in Booked /\ ~client.commits
      /\ UNCHANGED <<client, used, keyed, raced, alive>>
  BY DEF Reset, database, CallsInv, WriterInv, Booked, Holding, Owning
<1>2. CASE /\ Goto(t, "forget") /\ UNCHANGED <<mine, conn>>
           /\ idle' = [idle EXCEPT ![mine[t]] = @ \cup {conn[t]}]
  BY <1>1, <1>2, HandBackConns
<1>3. CASE PutconnEnds(t) /\ idle' = idle /\ conn[t] \notin alive
  BY <1>1, <1>3, EndConns
<1> QED BY <1>2, <1>3 DEF Reset, PutconnRaises

LEMMA UnkeyConns ==
    ASSUME CallsInv, ConnInv, NEW t \in Threads, Unkey(t)
    PROVE  ConnInv'
<1>1. /\ pc[t] = "unkey" /\ pc[t] \in Booked /\ PutconnEnds(t)
      /\ UNCHANGED <<client, idle, used, raced, alive>>
      /\ keyed' \in {keyed, [keyed EXCEPT ![mine[t]] = @ \ {conn[t]}]}
  BY DEF Unkey, PutconnRaises, database, Booked, Holding, Owning
<1> QED BY <1>1, EndConns

LEMMA DatabaseChangesConns ==
    ASSUME ConnInv, DatabaseChanges \/ UNCHANGED vars
    PROVE  ConnInv'
<1>1. /\ UNCHANGED <<client, pc, mine, conn, idle, used, keyed, raced>>
      /\ alive' \in {{}, alive}
  BY DEF DatabaseChanges, vars, globals, locals, objects, database
<1> QED BY <1>1 DEF ConnInv, IdleInv, ConnectionPrivate, RaceInv, KeyInv, SlotsAccounted,
                    InUse, Holds

LEMMA NextConns == CallsInv /\ ConnInv /\ [Next]_vars => ConnInv'
<1> SUFFICES ASSUME CallsInv, ConnInv, [Next]_vars PROVE ConnInv'
  OBVIOUS
<1>1. ASSUME NEW t \in Threads, Call(t) \/ Step(t) PROVE ConnInv'
  BY <1>1, CallConns, InitPoolConns, GetConnConns, ConnectConns, RegisterConns, KeyConns,
     StatementConns, PutConnConns, KeepConns, ResetConns, ForgetConns, UnkeyConns DEF Step
<1> QED BY <1>1, DatabaseChangesConns DEF Next

-----------------------------------------------------------------------------
(* The theorems. *)

\* The strengthening is an invariant.
THEOREM ConnPoolInvariant == Spec => [](CallsInv /\ ConnInv)
<1>1. Init => CallsInv /\ ConnInv
  BY InitCalls, InitConns
<1>2. CallsInv /\ ConnInv /\ [Next]_vars => (CallsInv /\ ConnInv)'
  BY NextCalls, NextConns
<1> QED BY <1>1, <1>2, PTL DEF Spec

\* The types, and no connection is shared: one thread at a time executes on it,
\* and it lies in no pool meanwhile, also when another thread takes it before its
\* last user has forgotten it, when two race to make the pool or pass the limit
\* together, or the database restarts.
THEOREM ConnectionsPrivate == Spec => []PoolInv
<1>1. CallsInv /\ ConnInv => PoolInv
  BY DEF CallsInv, ConnInv, PoolInv
<1> QED BY <1>1, ConnPoolInvariant, PTL

\* A slot that no call is at was lost in a race for its connection, or to the
\* death of the database with a client that never ends its transaction.
THEOREM SlotsLostForAReason == Spec => []SlotsAccounted
<1>1. CallsInv /\ ConnInv => SlotsAccounted
  BY DEF ConnInv
<1> QED BY <1>1, ConnPoolInvariant, PTL

\* Only PutConn, Reset and Unkey raise.
LEMMA WhoRaises ==
    ASSUME CallsInv, NEW u \in Threads, Call(u) \/ Step(u), NEW t \in Threads,
           answer'[t] = "raised", answer[t] # "raised"
    PROVE  t = u /\ (PutConn(t) \/ Reset(t) \/ Unkey(t)) /\ PutconnRaises(t)
<1>1. answer \in [Threads -> {"none", "ok", "failed", "raised"}]
  BY DEF CallsInv, TypeOK
<1>2. answer' = answer \/ \E a : answer' = [answer EXCEPT ![u] = a]
  BY DEF Call, Step, GetPool, Lock, Flag, UsePool, Finish, InitPool, GetConn, Connect, Register,
         Key, Insert, StatementFails, Query, Commit, Rollback, PutConn, Room, Keep, Reset,
         Forget, Unkey, PutconnRaises
<1>3. t = u
  BY <1>1, <1>2
<1>4. \/ answer' = answer
      \/ \E a \in {"none", "ok", "failed"} : answer' = [answer EXCEPT ![t] = a]
      \/ (PutConn(t) \/ Reset(t) \/ Unkey(t)) /\ PutconnRaises(t)
  BY <1>3 DEF Call, Step, GetPool, Lock, Flag, UsePool, Finish, InitPool, GetConn, Connect,
         Register, Key, Insert, StatementFails, AnswerAfterInsert, Query, Commit, Rollback,
         PutConn, Room, Keep, Reset, Forget, Unkey
<1> QED BY <1>1, <1>3, <1>4

\* putconn raises only after such a race, or on a connection that died inside a
\* transaction a reader has left open.
THEOREM RaisesOnlyInRaces == Spec => PutconnRaisesInRaces
<1>1. CallsInv /\ ConnInv /\ [Next]_vars =>
        [\A t \in Threads : answer'[t] = "raised" /\ answer[t] # "raised" =>
            \/ conn[t] \in raced
            \/ ~client.commits /\ conn[t] \notin alive]_vars
  <2> SUFFICES ASSUME CallsInv, ConnInv, Next, NEW t \in Threads,
                      answer'[t] = "raised", answer[t] # "raised"
               PROVE  conn[t] \in raced \/ (~client.commits /\ conn[t] \notin alive)
    OBVIOUS
  <2>1. PICK u \in Threads : Call(u) \/ Step(u)
    BY DEF Next, DatabaseChanges, locals
  <2>2. (PutConn(t) \/ Reset(t) \/ Unkey(t)) /\ PutconnRaises(t)
    BY <2>1, WhoRaises
  <2>3. pc[t] \in {"put", "reset", "unkey"} /\ pc[t] \in Booked
    BY <2>2 DEF PutConn, Reset, Unkey, Booked, Holding, Owning
  <2>4. pc'[t] = "idle"
    BY <2>2 DEF PutconnRaises, PutconnEnds, Goto, CallsInv, TypeOK
  <2>5. CASE PutConn(t) \/ Unkey(t)
    <3>1. conn[t] \notin keyed[mine[t]]
      <4>1. CASE PutConn(t)
        BY <2>4, <4>1 DEF PutConn, Goto, CallsInv, TypeOK
      <4>2. CASE Unkey(t)
        BY <2>2, <4>2 DEF Unkey
      <4> QED BY <2>5, <4>1, <4>2
    <3> QED BY <2>3, <3>1 DEF ConnInv, KeyInv
  <2>6. CASE Reset(t)
    <3>1. ~client.commits
      BY <2>6 DEF Reset, CallsInv, WriterInv
    <3>2. conn[t] \notin alive
      BY <2>4, <2>6 DEF Reset, Goto, CallsInv, TypeOK
    <3> QED BY <3>1, <3>2
  <2> QED BY <2>2, <2>5, <2>6
<1> QED BY <1>1, ConnPoolInvariant, PTL DEF Spec, PutconnRaisesInRaces

\* Under the lock the process makes up its mind once.
THEOREM PoolDecidedOnce == Spec => DecidedOnce
<1>1. CallsInv /\ [Next]_vars => [client.locked /\ attempted => pool' = pool]_vars
  <2> SUFFICES ASSUME CallsInv, Next, client.locked, attempted PROVE pool' = pool
    OBVIOUS
  <2>1. ASSUME NEW t \in Threads, Call(t) \/ Step(t) PROVE pool' = pool
    BY <2>1 DEF Step, Call, GetPool, Lock, InitPool, Flag, GetConn, Connect, Register, Key,
                Insert, Query, Commit, Rollback, PutConn, Room, Keep, Reset, Forget, Unkey,
                globals, CallsInv, LockInv
  <2> QED BY <2>1 DEF Next, DatabaseChanges, globals
<1>2. CallsInv /\ ConnInv => CallsInv
  OBVIOUS
<1> QED BY <1>1, <1>2, ConnPoolInvariant, PTL DEF Spec, DecidedOnce

-----------------------------------------------------------------------------
(* ConnPool implements LossyCall, but for its fairness. *)

Calling == {t \in Threads : pc[t] # "idle"}
Told    == [t \in Threads |-> IF pc[t] = "idle" THEN answer[t] ELSE "none"]

\* A step of one thread, of which the caller sees nothing before it returns.
LEMMA MovedCall ==
    ASSUME TypeOK, NEW t \in Threads, pc[t] # "idle",
           NEW l, l # "idle", pc' = [pc EXCEPT ![t] = l],
           NEW a, answer' = [answer EXCEPT ![t] = a]
    PROVE  UNCHANGED <<Calling, Told>>
<1>1. pc = [u \in Threads |-> pc[u]] /\ answer = [u \in Threads |-> answer[u]]
  BY DEF TypeOK
<1>2. \A u \in Threads : /\ pc'[u] = "idle" <=> pc[u] = "idle"
                         /\ pc[u] = "idle" => answer'[u] = answer[u]
  BY <1>1
<1>3. Calling' = Calling
  BY <1>2 DEF Calling
<1>4. Told' = Told
  BY <1>2 DEF Told
<1> QED BY <1>3, <1>4

LEMMA PromiseMoves ==
    ASSUME TypeOK, NEW t \in Threads, pc[t] # "idle", UNCHANGED effect,
           NEW l, l # "idle", pc' = [pc EXCEPT ![t] = l],
           NEW a, answer' = [answer EXCEPT ![t] = a]
    PROVE  UNCHANGED Promise!vars
BY MovedCall DEF Promise!vars, Calling, Told

LEMMA PromiseTakesEffect ==
    ASSUME TypeOK, NEW t \in Threads, pc[t] # "idle",
           effect[t] = 0, effect' = [effect EXCEPT ![t] = 1],
           NEW l, l # "idle", pc' = [pc EXCEPT ![t] = l],
           NEW a, answer' = [answer EXCEPT ![t] = a]
    PROVE  Promise!TakeEffect(t)
BY MovedCall DEF Promise!TakeEffect, Calling, Told

LEMMA PromiseReturns ==
    ASSUME TypeOK, NEW t \in Threads, pc[t] # "idle", UNCHANGED effect,
           pc' = [pc EXCEPT ![t] = "idle"],
           NEW a \in {"ok", "failed", "raised"}, a = "ok" => effect[t] = 1,
           answer' = [answer EXCEPT ![t] = a]
    PROVE  Promise!Return(t)
<1>1. pc = [u \in Threads |-> pc[u]] /\ answer = [u \in Threads |-> answer[u]]
  BY DEF TypeOK
<1>2. \A u \in Threads : /\ pc'[u] = IF u = t THEN "idle" ELSE pc[u]
                         /\ answer'[u] = IF u = t THEN a ELSE answer[u]
  BY <1>1
<1>3. t \in Calling /\ Calling' = Calling \ {t}
  BY <1>2 DEF Calling
<1>4. Told' = [Told EXCEPT ![t] = a]
  <2>1. Told' = [u \in Threads |-> IF pc'[u] = "idle" THEN answer'[u] ELSE "none"]
    BY DEF Told
  <2>2. \A u \in Threads : (IF pc'[u] = "idle" THEN answer'[u] ELSE "none")
                          = IF u = t THEN a ELSE Told[u]
    BY <1>2 DEF Told
  <2>3. [Told EXCEPT ![t] = a] = [u \in Threads |-> IF u = t THEN a ELSE Told[u]]
    BY DEF Told
  <2> QED BY <2>1, <2>2, <2>3, Zenon
<1>5. a \in Promise!Answers \ {"none"}
  BY DEF Promise!Answers
<1> QED BY <1>3, <1>4, <1>5 DEF Promise!Return, Calling, Told

LEMMA PromiseBegins ==
    ASSUME TypeOK, NEW t \in Threads, Call(t)
    PROVE  Promise!Begin(t)
<1>1. pc = [u \in Threads |-> pc[u]] /\ answer = [u \in Threads |-> answer[u]]
  BY DEF TypeOK
<1>2. /\ pc[t] = "idle" /\ effect' = [effect EXCEPT ![t] = 0]
      /\ \A u \in Threads : /\ pc'[u] = IF u = t THEN "get_pool" ELSE pc[u]
                            /\ answer'[u] = IF u = t THEN "none" ELSE answer[u]
  BY <1>1 DEF Call, Goto
<1>3. t \notin Calling /\ Calling' = Calling \cup {t}
  BY <1>2 DEF Calling
<1>4. Told' = [Told EXCEPT ![t] = "none"]
  BY <1>2 DEF Told
<1> QED BY <1>2, <1>3, <1>4 DEF Promise!Begin, Calling, Told

\* A step goes on without the caller seeing it, takes effect, or returns.
PromiseStep(t) == UNCHANGED Promise!vars \/ Promise!TakeEffect(t) \/ Promise!Return(t)

LEMMA UsePoolPromise ==
    ASSUME TypeOK, NEW t \in Threads, pc[t] # "idle", UsePool(t), UNCHANGED effect
    PROVE  PromiseStep(t)
<1>1. CASE Goto(t, "getconn") /\ UNCHANGED answer
  BY <1>1, PromiseMoves DEF Goto, PromiseStep, TypeOK
<1>2. CASE Finish(t, "failed")
  BY <1>2, PromiseReturns DEF Goto, Finish, PromiseStep
<1> QED BY <1>1, <1>2 DEF UsePool

LEMMA StepPromise ==
    ASSUME CallsInv, NEW t \in Threads, Step(t)
    PROVE  PromiseStep(t)
<1> USE DEF Goto, PromiseStep
<1>1. /\ TypeOK /\ effect \in [Threads -> {0, 1}]
      /\ answer \in [Threads -> {"none", "ok", "failed", "raised"}]
  BY DEF CallsInv, TypeOK
<1>2. answer = [answer EXCEPT ![t] = answer[t]]
  BY <1>1
<1>3. CASE GetPool(t) \/ Lock(t) \/ Flag(t)
  <2>1. pc[t] # "idle" /\ UNCHANGED effect
    BY <1>3 DEF GetPool, Lock, Flag
  <2>2. UsePool(t) \/ (\E l \in {"lock", "init"} : pc' = [pc EXCEPT ![t] = l] /\ answer' = answer)
    BY <1>3 DEF GetPool, Lock, Flag
  <2> QED BY <1>1, <1>2, <2>1, <2>2, UsePoolPromise, PromiseMoves
<1>4. CASE InitPool(t) \/ Register(t) \/ Key(t) \/ Rollback(t) \/ Room(t) \/ Keep(t) \/ Forget(t)
  <2>1. pc[t] # "idle" /\ UNCHANGED <<effect, answer>>
    BY <1>4 DEF InitPool, Register, Key, Rollback, Room, Keep, Forget
  <2>2. \E l \in Holding \cup {"flag"} : pc' = [pc EXCEPT ![t] = l]
    BY <1>4 DEF InitPool, Register, Key, Rollback, Room, Keep, Forget, Holding, Owning
  <2>3. "idle" \notin Holding \cup {"flag"}
    BY DEF Holding, Owning
  <2> QED BY <1>1, <1>2, <2>1, <2>2, <2>3, PromiseMoves
<1>5. CASE GetConn(t) \/ Connect(t)
  <2>1. pc[t] # "idle" /\ UNCHANGED effect
    BY <1>5 DEF GetConn, Connect
  <2>2. \/ Finish(t, "failed")
        \/ \E l \in {"connect", "register"} : pc' = [pc EXCEPT ![t] = l] /\ answer' = answer
    BY <1>5 DEF GetConn, Connect, Take
  <2> QED BY <1>1, <1>2, <2>1, <2>2, PromiseReturns, PromiseMoves DEF Finish
<1>6. CASE Insert(t)
  <2>1. pc[t] # "idle" /\ UNCHANGED effect
    BY <1>6 DEF Insert
  <2>2. \E l \in {"commit", "rollback"} : /\ pc' = [pc EXCEPT ![t] = l]
                                          /\ answer' = [answer EXCEPT ![t] = "failed"]
    BY <1>6 DEF Insert, StatementFails, AfterError, AnswerAfterInsert
  <2> QED BY <1>1, <2>1, <2>2, PromiseMoves
<1>7. CASE Query(t)
  <2>1. pc[t] = "execute" /\ effect[t] = 0
    BY <1>7 DEF Query, CallsInv, CallInv, Undone
  <2>2. /\ pc' = [pc EXCEPT ![t] = "put"]
        /\ \E a \in {"ok", "failed"} : answer' = [answer EXCEPT ![t] = a]
        /\ effect' = [effect EXCEPT ![t] = 1] \/ UNCHANGED effect
    BY <1>7, <2>1 DEF Query, StatementFails, AfterError, AfterFetch
  <2> QED BY <1>1, <2>1, <2>2, PromiseMoves, PromiseTakesEffect
<1>8. CASE Commit(t)
  <2>1. pc[t] = "commit" /\ effect[t] = 0
    BY <1>8 DEF Commit, CallsInv, CallInv, Undone
  <2>2. /\ \E l \in {"put", "rollback"} : pc' = [pc EXCEPT ![t] = l]
        /\ \E a : answer' = [answer EXCEPT ![t] = a]
        /\ effect' = [effect EXCEPT ![t] = 1] \/ UNCHANGED effect
    BY <1>2, <1>8, <2>1 DEF Commit, AfterError
  <2> QED BY <1>1, <2>1, <2>2, PromiseMoves, PromiseTakesEffect
<1>9. CASE PutConn(t) \/ Reset(t) \/ Unkey(t)
  <2>1. /\ pc[t] \in {"put", "reset", "unkey"} /\ UNCHANGED effect
        /\ answer[t] \in {"ok", "failed", "raised"} /\ (answer[t] = "ok" => effect[t] = 1)
    BY <1>1, <1>9 DEF PutConn, Reset, Unkey, CallsInv, CallInv, Booked, Holding, Owning
  <2>2. \/ \E l \in {"room", "forget"} : pc' = [pc EXCEPT ![t] = l] /\ answer' = answer
        \/ /\ pc' = [pc EXCEPT ![t] = "idle"]
           /\ answer' \in {answer, [answer EXCEPT ![t] = "raised"]}
    BY <1>9 DEF PutConn, Reset, Unkey, PutconnRaises, PutconnEnds
  <2>3. CASE \E l \in {"room", "forget"} : pc' = [pc EXCEPT ![t] = l] /\ answer' = answer
    <3>1. PICK l \in {"room", "forget"} : pc' = [pc EXCEPT ![t] = l] /\ answer' = answer
      BY <2>3
    <3>2. pc[t] # "idle" /\ l # "idle" /\ answer' = [answer EXCEPT ![t] = answer[t]]
      BY <1>2, <2>1, <3>1
    <3> QED BY <1>1, <2>1, <3>1, <3>2, PromiseMoves
  <2>4. CASE pc' = [pc EXCEPT ![t] = "idle"] /\ answer' = answer
    BY <1>1, <1>2, <2>1, <2>4, PromiseReturns
  <2>5. CASE pc' = [pc EXCEPT ![t] = "idle"] /\ answer' = [answer EXCEPT ![t] = "raised"]
    <3>1. "raised" \in {"ok", "failed", "raised"} /\ ("raised" = "ok" => effect[t] = 1)
      OBVIOUS
    <3> QED BY <1>1, <2>1, <2>5, <3>1, PromiseReturns
  <2> QED BY <2>2, <2>3, <2>4, <2>5
<1> QED BY <1>3, <1>4, <1>5, <1>6, <1>7, <1>8, <1>9 DEF Step

LEMMA NextPromise == CallsInv /\ [Next]_vars => [Promise!Next]_Promise!vars
<1> SUFFICES ASSUME CallsInv, [Next]_vars PROVE Promise!Next \/ UNCHANGED Promise!vars
  OBVIOUS
<1>1. ASSUME NEW t \in Threads, Call(t) PROVE Promise!Next
  BY <1>1, PromiseBegins DEF Promise!Next, CallsInv
<1>2. ASSUME NEW t \in Threads, Step(t) PROVE Promise!Next \/ UNCHANGED Promise!vars
  BY <1>2, StepPromise DEF PromiseStep, Promise!Next
<1>3. CASE DatabaseChanges \/ UNCHANGED vars
  BY <1>3 DEF DatabaseChanges, vars, locals, Promise!vars
<1> QED BY <1>1, <1>2, <1>3 DEF Next

\* Whatever the client, the lock and the database, a call has its effect at most
\* once and returns "ok" only after it.  (That it returns is left to TLC.)
THEOREM CallsKeepPromise == Spec => Promise!Init /\ [][Promise!Next]_Promise!vars
<1>1. Init => Promise!Init
  BY DEF Init, Promise!Init
<1>2. CallsInv /\ ConnInv /\ [Next]_vars => [Promise!Next]_Promise!vars
  BY NextPromise
<1> QED BY <1>1, <1>2, ConnPoolInvariant, PTL DEF Spec

-----------------------------------------------------------------------------
(* The end of a call. *)

\* A bound on the steps a call can still make from where it is, on the ways of
\* writers and readers taken together.
StepsLeft(l) ==
    CASE l = "idle" -> 0
      [] l = "unkey" -> 1
      [] l = "forget" -> 2
      [] l = "reset" -> 3
      [] l = "keep" -> 4
      [] l = "room" -> 5
      [] l = "put" -> 6
      [] l = "rollback" -> 7
      [] l = "commit" -> 8
      [] l = "execute" -> 9
      [] l = "key" -> 10
      [] l = "register" -> 11
      [] l = "connect" -> 12
      [] l = "getconn" -> 13
      [] l = "flag" -> 14
      [] l = "init" -> 15
      [] l = "lock" -> 16
      [] l = "get_pool" -> 17

\* Within a call a thread only comes closer to its return, whatever the others
\* and the database do.
CallsAdvance ==
    [][\A t \in Threads :
         pc[t] # "idle" /\ pc'[t] # pc[t] => StepsLeft(pc'[t]) < StepsLeft(pc[t])]_vars

Closer(t) == \E l : Goto(t, l) /\ StepsLeft(l) < StepsLeft(pc[t])

LEMMA UsePoolCloser ==
    ASSUME NEW t \in Threads, pc[t] \in {"get_pool", "lock", "flag"}, UsePool(t)
    PROVE  Closer(t)
<1>1. Goto(t, "getconn") \/ Goto(t, "idle")
  BY DEF UsePool, Finish
<1>2. /\ StepsLeft("idle") = 0 /\ StepsLeft("getconn") = 13
      /\ StepsLeft("flag") = 14 /\ StepsLeft("lock") = 16 /\ StepsLeft("get_pool") = 17
  BY DEF StepsLeft
<1>3. StepsLeft("getconn") < StepsLeft(pc[t]) /\ StepsLeft("idle") < StepsLeft(pc[t])
  BY <1>2
<1> QED BY <1>1, <1>3 DEF Closer

LEMMA StepCloser ==
    ASSUME NEW t \in Threads, Step(t)
    PROVE  Closer(t)
<1>1. CASE GetPool(t) \/ Lock(t) \/ Flag(t)
  <2>1. pc[t] \in {"get_pool", "lock", "flag"}
    BY <1>1 DEF GetPool, Lock, Flag
  <2>2. CASE UsePool(t)
    BY <2>1, <2>2, UsePoolCloser
  <2>3. CASE ~UsePool(t)
    <3>1. \/ pc[t] = "get_pool" /\ (Goto(t, "lock") \/ Goto(t, "init"))
          \/ pc[t] = "lock" /\ Goto(t, "init")
      BY <1>1, <2>3 DEF GetPool, Lock, Flag
    <3> QED BY <3>1 DEF Closer, StepsLeft
  <2> QED BY <2>2, <2>3
<1>2. CASE InitPool(t)
  <2>1. pc[t] = "init" /\ Goto(t, "flag")
    BY <1>2 DEF InitPool
  <2> QED BY <2>1 DEF Closer, StepsLeft
<1>3. CASE GetConn(t)
  <2>1. pc[t] = "getconn" /\ (Goto(t, "register") \/ Goto(t, "idle") \/ Goto(t, "connect"))
    BY <1>3 DEF GetConn, Take, Finish
  <2> QED BY <2>1 DEF Closer, StepsLeft
<1>4. CASE Connect(t)
  <2>1. pc[t] = "connect" /\ (Goto(t, "register") \/ Goto(t, "idle"))
    BY <1>4 DEF Connect, Take, Finish
  <2> QED BY <2>1 DEF Closer, StepsLeft
<1>5. CASE Insert(t) \/ Query(t)
  <2>1. pc[t] = "execute" /\ (Goto(t, "commit") \/ Goto(t, "put") \/ Goto(t, "rollback"))
    BY <1>5 DEF Insert, Query, StatementFails, AfterError, AfterFetch
  <2> QED BY <2>1 DEF Closer, StepsLeft
<1>6. CASE Commit(t)
  <2>1. pc[t] = "commit" /\ (Goto(t, "put") \/ Goto(t, "rollback"))
    BY <1>6 DEF Commit, AfterError
  <2> QED BY <2>1 DEF Closer, StepsLeft
<1>7. CASE Rollback(t)
  <2>1. pc[t] = "rollback" /\ Goto(t, "put")
    BY <1>7 DEF Rollback
  <2> QED BY <2>1 DEF Closer, StepsLeft
<1>8. CASE Register(t) \/ Key(t)
  <2>1. (pc[t] = "register" /\ Goto(t, "key")) \/ (pc[t] = "key" /\ Goto(t, "execute"))
    BY <1>8 DEF Register, Key
  <2> QED BY <2>1 DEF Closer, StepsLeft
<1>9. CASE PutConn(t) \/ Room(t)
  <2>1. \/ pc[t] = "put" /\ (Goto(t, "room") \/ Goto(t, "idle"))
        \/ pc[t] = "room" /\ (Goto(t, "keep") \/ Goto(t, "forget"))
    BY <1>9 DEF PutConn, Room, PutconnRaises, PutconnEnds
  <2> QED BY <2>1 DEF Closer, StepsLeft
<1>10. CASE Keep(t) \/ Reset(t)
  <2>1. \/ pc[t] = "keep" /\ (Goto(t, "reset") \/ Goto(t, "forget"))
        \/ pc[t] = "reset" /\ (Goto(t, "forget") \/ Goto(t, "idle"))
    BY <1>10 DEF Keep, Reset, PutconnRaises, PutconnEnds
  <2> QED BY <2>1 DEF Closer, StepsLeft
<1>11. CASE Forget(t) \/ Unkey(t)
  <2>1. (pc[t] = "forget" /\ Goto(t, "unkey")) \/ (pc[t] = "unkey" /\ Goto(t, "idle"))
    BY <1>11 DEF Forget, Unkey, PutconnRaises, PutconnEnds
  <2> QED BY <2>1 DEF Closer, StepsLeft
<1> QED BY <1>1, <1>2, <1>3, <1>4, <1>5, <1>6, <1>7, <1>8, <1>9, <1>10, <1>11 DEF Step

\* A call makes at most seventeen steps of its own, and waits only for the lock,
\* whose holder is making the pool: there is no loop in it and no circle of
\* threads that wait for each other.  (That the holder's steps come is the
\* fairness of ImplementsLossyCall.)
THEOREM CallsAreShort ==
    Spec => CallsAdvance /\ [](locker # NoThread => pc[locker] \in {"init", "flag"})
<1>1. TypeOK /\ [Next]_vars =>
        [\A t \in Threads :
           pc[t] # "idle" /\ pc'[t] # pc[t] => StepsLeft(pc'[t]) < StepsLeft(pc[t])]_vars
  <2> SUFFICES ASSUME TypeOK, Next, NEW t \in Threads, pc[t] # "idle", pc'[t] # pc[t]
               PROVE  StepsLeft(pc'[t]) < StepsLeft(pc[t])
    OBVIOUS
  <2>1. DOMAIN pc = Threads
    BY DEF TypeOK
  <2>2. \A u \in Threads : ~Call(u) \/ u # t
    BY DEF Call
  <2>3. \A u \in Threads \ {t} : ~Call(u)  /\ ~Step(u)
    <3>1. ASSUME NEW u \in Threads \ {t}, Call(u) \/ Step(u)
          PROVE  FALSE
      <4>1. \E l : Goto(u, l)
        BY <3>1, StepCloser DEF Call, Closer
      <4> QED BY <2>1, <3>1, <4>1 DEF Goto
    <3> QED BY <3>1
  <2>4. ~DatabaseChanges
    BY DEF DatabaseChanges, locals
  <2>5. Step(t)
    BY <2>2, <2>3, <2>4 DEF Next
  <2> QED BY <2>1, <2>5, StepCloser DEF Closer, Goto
<1>2. CallsInv => TypeOK /\ (locker # NoThread => pc[locker] \in {"init", "flag"})
  BY DEF CallsInv, TypeOK
<1> QED BY <1>1, <1>2, ConnPoolInvariant, PTL DEF Spec, CallsAdvance

=============================================================================
