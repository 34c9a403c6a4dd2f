------------------------- MODULE KafkaConsumerProofs -------------------------
(***************************************************************************)
(* Theorems about KafkaConsumer for any topic, any workers of the API and  *)
(* any interleaving of deaths, restarts and outages: what a committed      *)
(* offset stands for.  The consumer is one more user of the runner, so the *)
(* invariants of InvestigationRunnerProofs hold here too.                  *)
(***************************************************************************)
EXTENDS KafkaConsumer, InvestigationRunnerProofs

(* The inductive invariant. *)

\* One message at a time is between the committed offset and the position.
PositionInv ==
    /\ position = IF loop = "poll" THEN committed ELSE committed + 1
    /\ loop # "process" => pc[Consumer] = "idle"
    /\ ~alive[ConsumerProcess] => pc[Consumer] = "idle"

\* Deaths of the consumer that no message caused are two at most.
CrashesCounted ==
    crashes <= restarts[ConsumerProcess] + (IF alive[ConsumerProcess] THEN 0 ELSE 1)

\* What must be true of a message before its offset may be committed.
Done(i) ==
    /\ outcomes[i] # {}
    /\ Topic[i].kind = "valid" /\ ShouldInvestigate(Topic[i].payload) =>
         \/ Topic[i].txn \in started
         \/ "raised" \in outcomes[i]
         \/ "already_investigating" \in outcomes[i] /\ KeyOnly(Topic[i].txn)

DoneInv ==
    /\ \A i \in 1 .. committed : Done(i)
    /\ loop = "commit" => Done(position)

\* An investigation was started under the key of a transaction, or none yet.
Led(t) == t \in started \/ KeyOnly(t)

MutexStarted == \A t \in Txns : mutex[t] # Free => Led(t)

\* The message being processed, and what its result will stand for.
ProcessingInv ==
    loop = "process" /\ alive[ConsumerProcess] =>
        /\ Topic[position].kind = "valid"
        /\ txn[Consumer] = Topic[position].txn
        /\ pc[Consumer] = "idle" =>
             /\ result[Consumer] # "none"
             /\ result[Consumer] = "log_only" => ~ShouldInvestigate(Topic[position].payload)
             /\ result[Consumer] = "already_investigating" => Led(txn[Consumer])
             /\ result[Consumer] \in {"completed", "error"} => txn[Consumer] \in started
        /\ pc[Consumer] \in {"run", "release"} => txn[Consumer] \in started
        /\ pc[Consumer] = "release" => result[Consumer] \in {"completed", "error"}

ConsumerInv ==
    /\ ConsumerTypeOK
    /\ PositionInv
    /\ CrashesCounted
    /\ DoneInv
    /\ MutexStarted
    /\ ProcessingInv

-----------------------------------------------------------------------------
(* The consumer is a user of the runner. *)

LEMMA TopicType ==
    /\ Len(Topic) \in Nat /\ DOMAIN Topic = 1 .. Len(Topic)
    /\ \A i \in 1 .. Len(Topic) :
         Topic[i].txn \in Txns /\ Topic[i].payload \in Payloads /\ Topic[i].kind \in Kinds
<1> DEFINE Messages == [txn : Txns, payload : Payloads, kind : Kinds]
<1>1. Topic \in Seq(Messages)
  BY ConsumerAssumption
<1>2. \A m \in Messages : m.txn \in Txns /\ m.payload \in Payloads /\ m.kind \in Kinds
  OBVIOUS
<1> HIDE DEF Messages
<1>3. \A i \in 1 .. Len(Topic) : Topic[i] \in Messages
  BY <1>1
<1>4. Len(Topic) \in Nat /\ DOMAIN Topic = 1 .. Len(Topic)
  BY <1>1
<1> QED BY <1>2, <1>3, <1>4, Zenon

LEMMA ConsumerWorker ==
    /\ Consumer \in Workers /\ ConsumerProcess \in Processes
    /\ \A w \in Workers : ProcessOf[w] \in Processes
    /\ \A w \in Workers : ProcessOf[w] = ConsumerProcess => w = Consumer
BY ConsumerAssumption, RunnerAssumption DEF ConsumerProcess

\* A flagged message starts a run of run_investigation or none; what else the
\* consumer does, the runner does not see.
LEMMA RunnerStep == ConsumerTypeOK /\ [ConsumerNext]_allVars => [Next]_vars
<1> SUFFICES ASSUME ConsumerTypeOK, [ConsumerNext]_allVars PROVE Next \/ UNCHANGED vars
  OBVIOUS
<1>1. CASE Poll
  <2>1. CASE UNCHANGED vars
    BY <2>1
  <2>2. CASE Receive(Consumer, Topic[position + 1].txn, Topic[position + 1].payload)
    <3>1. position + 1 \in 1 .. Len(Topic)
      BY <1>1, TopicType DEF Poll, ConsumerTypeOK
    <3>2. Dispatch(Consumer)
      BY <2>2, <3>1, TopicType DEF Dispatch
    <3> QED BY <3>2, ConsumerWorker DEF Next
  <2> QED BY <1>1, <2>1, <2>2 DEF Poll
<1>2. CASE MessageProcessed \/ Commit
  BY <1>2 DEF MessageProcessed, Commit
<1>3. ASSUME NEW w \in Workers, Request(w) \/ Proceed(w) PROVE Next
  BY <1>3 DEF Request, Proceed, Next
<1>4. ASSUME NEW p \in Processes, Die(p) \/ HandleDeath(p) PROVE Next \/ UNCHANGED vars
  BY <1>4 DEF Die, HandleDeath, Next
<1>5. CASE Environment
  BY <1>5 DEF Environment, Next
<1>6. CASE UNCHANGED allVars
  BY <1>6 DEF allVars
<1>7. CASE MessageKills
  BY <1>7, ConsumerWorker DEF MessageKills, Next
<1> QED BY <1>1, <1>2, <1>3, <1>4, <1>5, <1>6, <1>7 DEF ConsumerNext

-----------------------------------------------------------------------------
(* What keeps the parts of the invariant. *)

\* The runner's types, where the consumer's part of them is needed.
LEMMA RunnerTypes ==
    ASSUME MutexInv
    PROVE  /\ pc = [w \in Workers |-> pc[w]] /\ result = [w \in Workers |-> result[w]]
           /\ txn \in [Workers -> Txns] /\ acquired = [w \in Workers |-> acquired[w]]
           /\ mutex = [t \in Txns |-> mutex[t]]
           /\ \A w \in Workers : result[w] \in {"none", "log_only", "already_investigating",
                                                "completed", "error", "raised"}
           /\ \A t \in Txns : mutex[t] \in [owner : Workers \cup {NoOwner}, ttl : 0 .. MutexTTL]
BY DEF MutexInv, TypeOK

\* A step forgets no started investigation, and a call whose key is set goes on
\* towards its start, or starts one, or leaves a key alone.
StartsKept ==
    /\ started \subseteq started' /\ orphaned \subseteq orphaned'
    /\ \A w \in Workers : AboutToStart(w) =>
         \/ AboutToStart(w)' /\ txn'[w] = txn[w]
         \/ txn[w] \in started' \cup orphaned'

\* A key alone becomes an investigation or stays one.
LEMMA LedKept ==
    ASSUME NEW t, Led(t), StartsKept
    PROVE  Led(t)'
BY DEF Led, KeyOnly, StartsKept

\* What a worker that is not about to start does leaves the others as they are.
LEMMA OneWorkerMoves ==
    ASSUME MutexInv, NEW w \in Workers, ~AboutToStart(w),
           started \subseteq started', orphaned \subseteq orphaned',
           \A v \in Workers : v # w => /\ pc'[v] = pc[v] /\ acquired'[v] = acquired[v]
                                       /\ txn'[v] = txn[v]
    PROVE  StartsKept
BY DEF StartsKept, AboutToStart

LEMMA ReceiveKeepsStarts ==
    ASSUME MutexInv, NEW w \in Workers, NEW t, NEW p, Receive(w, t, p), UNCHANGED history
    PROVE  StartsKept
<1>1. ~AboutToStart(w) /\ UNCHANGED <<started, orphaned>>
  BY DEF Receive, AboutToStart, history
<1>2. \A v \in Workers : v # w => /\ pc'[v] = pc[v] /\ acquired'[v] = acquired[v]
                                  /\ txn'[v] = txn[v]
  BY RunnerTypes DEF Receive, Return
<1> QED BY <1>1, <1>2, OneWorkerMoves

LEMMA ProceedKeepsStarts ==
    ASSUME MutexInv, NEW w \in Workers, Proceed(w)
    PROVE  StartsKept
<1>1. /\ started \subseteq started' /\ orphaned \subseteq orphaned'
      /\ pc'[w] = "run" => txn[w] \in started'
  BY DEF Proceed
<1>2. \A v \in Workers : v # w => /\ pc'[v] = pc[v] /\ acquired'[v] = acquired[v]
                                  /\ txn'[v] = txn[v]
  <2>1. UNCHANGED txn /\ \E l : pc' = [pc EXCEPT ![w] = l]
    BY DEF Proceed, GetRedis, Construct, Ping, AcquireMutex, Blocked, Return, StartGraph,
           GraphReturns, ReleaseMutex
  <2>2. \E b : acquired' = [acquired EXCEPT ![w] = b]
    <3>1. CASE UNCHANGED acquired
      BY <3>1, RunnerTypes
    <3>2. CASE acquired' # acquired
      BY <3>2 DEF Proceed, GetRedis, Construct, Ping, AcquireMutex, Blocked, StartGraph,
                  GraphReturns, ReleaseMutex
    <3> QED BY <3>1, <3>2
  <2> QED BY <2>1, <2>2, RunnerTypes
<1>3. CASE AboutToStart(w)
  <2>1. StartGraph(w)
    BY <1>3 DEF AboutToStart, Proceed, GetRedis, Construct, Ping, AcquireMutex, GraphReturns,
                Running, ReleaseMutex
  <2>2. pc'[w] = "run"
    BY <2>1, RunnerTypes DEF StartGraph
  <2> QED BY <1>1, <1>2, <2>2 DEF StartsKept, AboutToStart
<1>4. CASE ~AboutToStart(w)
  BY <1>1, <1>2, <1>4, OneWorkerMoves
<1> QED BY <1>3, <1>4

\* A death leaves the keys of those who were about to start to nobody.
LEMMA DeathKeepsStarts ==
    ASSUME MutexInv, NEW p \in Processes, ProcessDies(p), UNCHANGED started,
           orphaned \subseteq orphaned',
           \A w \in Workers : ProcessOf[w] = p /\ AboutToStart(w) => txn[w] \in orphaned'
    PROVE  StartsKept
<1>1. \A w \in Workers : ProcessOf[w] # p =>
        pc'[w] = pc[w] /\ acquired'[w] = acquired[w] /\ txn'[w] = txn[w]
  BY DEF ProcessDies, Forget
<1> QED BY <1>1 DEF StartsKept, AboutToStart

LEMMA NextKeepsStarts ==
    ASSUME MutexInv, ConsumerInv, [ConsumerNext]_allVars
    PROVE  StartsKept
<1>1. CASE UNCHANGED <<workerVars, history>>
  BY <1>1 DEF workerVars, history, StartsKept, AboutToStart
<1>2. CASE Poll
  BY <1>1, <1>2, ConsumerWorker, ReceiveKeepsStarts DEF Poll, vars
<1>3. ASSUME NEW w \in Workers, Request(w) PROVE StartsKept
  BY <1>3, ReceiveKeepsStarts DEF Request, Dispatch
<1>4. ASSUME NEW p \in Processes, Die(p) PROVE StartsKept
  <2>1. /\ ProcessDies(p) /\ UNCHANGED started /\ orphaned \subseteq orphaned'
        /\ \A w \in Workers : ProcessOf[w] = p /\ AboutToStart(w) => txn[w] \in orphaned'
    BY <1>4 DEF Die
  <2> QED BY <2>1, DeathKeepsStarts
<1>5. CASE MessageKills
  <2>1. ProcessDies(ConsumerProcess) /\ UNCHANGED <<started, orphaned>> /\ loop = "poll"
    BY <1>5 DEF MessageKills, history
  <2>2. \A w \in Workers : ProcessOf[w] = ConsumerProcess => ~AboutToStart(w)
    BY <2>1, ConsumerWorker DEF ConsumerInv, PositionInv, AboutToStart
  <2> QED BY <2>1, <2>2, ConsumerWorker, DeathKeepsStarts
<1>6. CASE UNCHANGED allVars \/ MessageProcessed \/ Commit \/ Environment
  BY <1>1, <1>6 DEF allVars, MessageProcessed, Commit, Environment, RedisReachability, Tick,
                    vars
<1>7. ASSUME NEW p \in Processes, HandleDeath(p) PROVE StartsKept
  BY <1>1, <1>7 DEF HandleDeath, vars
<1> QED BY <1>2, <1>3, <1>4, <1>5, <1>6, <1>7, ProceedKeepsStarts DEF ConsumerNext

\* A message once done stays done.
LEMMA StaysDone ==
    ASSUME NEW i, Done(i), outcomes[i] \subseteq outcomes'[i], StartsKept
    PROVE  Done(i)'
BY LedKept DEF Done, Led, StartsKept

LEMMA DoneKept ==
    ASSUME ConsumerTypeOK, DoneInv, UNCHANGED <<position, committed, outcomes>>,
           loop' = "commit" => loop = "commit", StartsKept
    PROVE  DoneInv'
BY StaysDone DEF DoneInv

LEMMA MutexKept ==
    ASSUME MutexStarted, StartsKept, \A t \in Txns : mutex'[t] # Free => mutex[t] # Free
    PROVE  MutexStarted'
BY LedKept DEF MutexStarted

-----------------------------------------------------------------------------
LEMMA InitConsumer == ConsumerInit => ConsumerInv
<1> SUFFICES ASSUME ConsumerInit PROVE ConsumerInv
  OBVIOUS
<1>1. ConsumerTypeOK
  BY TopicType DEF ConsumerInit, ConsumerTypeOK
<1> QED BY <1>1, ConsumerWorker
        DEF ConsumerInit, Init, ConsumerInv, PositionInv, CrashesCounted, DoneInv, MutexStarted,
            ProcessingInv

LEMMA PollConsumer ==
    ASSUME MutexInv, ConsumerInv, StartsKept, Poll
    PROVE  ConsumerInv'
<1> DEFINE m == Topic[position + 1]
<1>1. /\ alive[ConsumerProcess] /\ loop = "poll" /\ position < Len(Topic)
      /\ position' = position + 1 /\ committed' = committed
      /\ UNCHANGED <<processState, history>>
      /\ \/ /\ m.kind = "invalid" /\ loop' = "commit" /\ Outcome(position + 1, "invalid") /\ UNCHANGED vars
         \/ /\ m.kind = "valid" /\ loop' = "process" /\ Receive(Consumer, m.txn, m.payload)
            /\ UNCHANGED outcomes
  BY DEF Poll, CommittedByPoll, AfterInvalid
<1>2. /\ position = committed /\ position \in Nat /\ pc[Consumer] = "idle"
      /\ position + 1 \in 1 .. Len(Topic)
      /\ outcomes \in [1 .. Len(Topic) -> SUBSET Results]
  BY <1>1, TopicType DEF ConsumerInv, ConsumerTypeOK, PositionInv
<1>3. UNCHANGED mutex
  BY <1>1 DEF vars, Receive
<1>4. MutexStarted' /\ CrashesCounted'
  BY <1>1, <1>3, MutexKept DEF ConsumerInv, CrashesCounted, processState
<1>5. CASE m.kind = "invalid" /\ loop' = "commit" /\ Outcome(position + 1, "invalid") /\ UNCHANGED vars
  <2>1. \A i \in 1 .. Len(Topic) :
          outcomes'[i] = IF i = position + 1 THEN outcomes[i] \cup {"invalid"} ELSE outcomes[i]
    BY <1>2, <1>5 DEF Outcome
  <2>2. outcomes' \in [1 .. Len(Topic) -> SUBSET Results]
    BY <1>2, <1>5 DEF Outcome, Results
  <2>3. ConsumerTypeOK'
    BY <1>1, <1>2, <1>5, <2>2, TopicType DEF ConsumerInv, ConsumerTypeOK, processState, history
  <2>4. PositionInv'
    BY <1>1, <1>2, <1>5 DEF PositionInv, vars, workerVars
  <2>5. ASSUME NEW i, i = position + 1 PROVE Done(i)'
    BY <1>2, <1>5, <2>1, <2>5 DEF Done
  <2>6. ASSUME NEW i \in 1 .. committed PROVE Done(i)'
    <3>1. Done(i) /\ i \in 1 .. Len(Topic)
      BY <1>2 DEF ConsumerInv, DoneInv
    <3> QED BY <1>1, <2>1, <3>1, StaysDone
  <2>7. DoneInv'
    BY <1>1, <2>5, <2>6 DEF DoneInv, Done
  <2> QED BY <1>4, <1>5, <2>3, <2>4, <2>7 DEF ConsumerInv, ProcessingInv
<1>6. CASE /\ m.kind = "valid" /\ loop' = "process" /\ Receive(Consumer, m.txn, m.payload)
           /\ UNCHANGED outcomes
  <2>1. ConsumerTypeOK'
    BY <1>1, <1>2, <1>6 DEF ConsumerInv, ConsumerTypeOK, processState, history
  <2>2. PositionInv'
    BY <1>1, <1>2, <1>6 DEF PositionInv, processState
  <2>3. DoneInv'
    <3>1. ASSUME NEW i \in 1 .. committed PROVE Done(i)'
      BY <1>1, <1>6, StaysDone DEF ConsumerInv, DoneInv
    <3> QED BY <1>1, <1>6, <3>1 DEF DoneInv
  <2>4. /\ txn'[Consumer] = m.txn
        /\ \/ pc'[Consumer] = "idle" /\ result'[Consumer] = "log_only"
              /\ ~ShouldInvestigate(m.payload)
           \/ pc'[Consumer] = "get_redis"
    BY <1>6, ConsumerWorker, RunnerTypes DEF Receive, Return
  <2>5. ProcessingInv'
    BY <1>1, <1>6, <2>4 DEF ProcessingInv
  <2> QED BY <1>4, <2>1, <2>2, <2>3, <2>5 DEF ConsumerInv
<1> QED BY <1>1, <1>5, <1>6

\* What the loop takes for the end of a message is one: flagged means started.
LEMMA MessageProcessedConsumer ==
    ASSUME MutexInv, ConsumerInv, StartsKept, MessageProcessed
    PROVE  ConsumerInv'
<1>1. /\ alive[ConsumerProcess] /\ loop = "process" /\ pc[Consumer] = "idle"
      /\ loop' = "commit" /\ Outcome(position, result[Consumer])
      /\ UNCHANGED <<vars, position, committed, processState, history>>
  BY DEF MessageProcessed
<1>2. /\ position = committed + 1 /\ committed \in Nat /\ position \in 1 .. Len(Topic)
      /\ outcomes \in [1 .. Len(Topic) -> SUBSET Results]
  BY <1>1, TopicType DEF ConsumerInv, ConsumerTypeOK, PositionInv
<1> DEFINE r == result[Consumer]
<1>3. r \in Results /\ r # "invalid"
  BY <1>1, ConsumerWorker, RunnerTypes DEF ConsumerInv, ProcessingInv, Results
<1>4. /\ r = "log_only" => ~ShouldInvestigate(Topic[position].payload)
      /\ r = "already_investigating" => Led(Topic[position].txn)
      /\ r \in {"completed", "error"} => Topic[position].txn \in started
  BY <1>1 DEF ConsumerInv, ProcessingInv
<1>5. outcomes' = [outcomes EXCEPT ![position] = outcomes[position] \cup {r}]
  BY <1>1 DEF Outcome
<1> HIDE DEF r
<1>6. \A i \in 1 .. Len(Topic) :
        outcomes'[i] = IF i = position THEN outcomes[i] \cup {r} ELSE outcomes[i]
  BY <1>2, <1>5
<1>7. outcomes' \in [1 .. Len(Topic) -> SUBSET Results]
  BY <1>2, <1>3, <1>5
<1>8. ConsumerTypeOK'
  BY <1>1, <1>7, TopicType DEF ConsumerInv, ConsumerTypeOK, processState, history
<1>9. Done(position)'
  <2>1. r \in outcomes'[position]
    BY <1>2, <1>6
  <2>2. ShouldInvestigate(Topic[position].payload) =>
          \/ Topic[position].txn \in started
          \/ r = "raised"
          \/ r = "already_investigating" /\ Led(Topic[position].txn)
    BY <1>3, <1>4 DEF Results
  <2>3. \A t : Led(t) => Led(t)'
    BY LedKept
  <2> QED BY <1>1, <2>1, <2>2, <2>3 DEF Done, Led, history
<1>10. ASSUME NEW i \in 1 .. committed PROVE Done(i)'
  <2>1. Done(i) /\ i \in 1 .. Len(Topic)
    BY <1>2 DEF ConsumerInv, DoneInv
  <2> QED BY <1>1, <1>6, <2>1, StaysDone
<1>11. DoneInv'
  BY <1>1, <1>9, <1>10 DEF DoneInv
<1>12. MutexStarted' /\ CrashesCounted'
  BY <1>1, MutexKept DEF ConsumerInv, CrashesCounted, processState, vars
<1> QED BY <1>1, <1>8, <1>11, <1>12
        DEF ConsumerInv, PositionInv, ProcessingInv, processState, vars, workerVars

LEMMA CommitConsumer ==
    ASSUME MutexInv, ConsumerInv, StartsKept, Commit
    PROVE  ConsumerInv'
<1>1. /\ loop = "commit" /\ loop' = "poll" /\ committed' = position
      /\ UNCHANGED <<vars, position, outcomes, processState, history>>
  BY DEF Commit
<1>2. position = committed + 1 /\ committed \in Nat /\ pc[Consumer] = "idle"
  BY <1>1 DEF ConsumerInv, ConsumerTypeOK, PositionInv
<1>3. ASSUME NEW i \in 1 .. position PROVE Done(i)'
  <2>1. Done(i)
    BY <1>1, <1>2 DEF ConsumerInv, DoneInv
  <2> QED BY <1>1, <2>1, StaysDone
<1>4. DoneInv'
  BY <1>1, <1>3 DEF DoneInv
<1>5. MutexStarted' /\ CrashesCounted'
  BY <1>1, MutexKept DEF ConsumerInv, CrashesCounted, processState, vars
<1> QED BY <1>1, <1>2, <1>4, <1>5
        DEF ConsumerInv, ConsumerTypeOK, PositionInv, ProcessingInv, processState, vars,
            workerVars, history

\* Requests of the API.
LEMMA RequestConsumer ==
    ASSUME MutexInv, ConsumerInv, StartsKept, NEW w \in Workers, Request(w)
    PROVE  ConsumerInv'
<1>1. w # Consumer /\ Dispatch(w) /\ UNCHANGED <<deliveryVars, processState, history>>
  BY DEF Request
<1>2. PICK t \in Txns, p \in Payloads : Receive(w, t, p)
  BY <1>1 DEF Dispatch
<1>3. /\ pc'[Consumer] = pc[Consumer] /\ txn'[Consumer] = txn[Consumer]
      /\ result'[Consumer] = result[Consumer] /\ mutex' = mutex
  BY <1>1, <1>2, ConsumerWorker, RunnerTypes DEF Receive, Return
<1>4. DoneInv'
  BY <1>1, DoneKept DEF ConsumerInv, deliveryVars
<1>5. MutexStarted' /\ CrashesCounted'
  BY <1>1, <1>3, MutexKept DEF ConsumerInv, CrashesCounted, processState
<1>6. ProcessingInv'
  <2>1. \A u : Led(u) => Led(u)'
    BY LedKept
  <2> QED BY <1>1, <1>3, <2>1 DEF ConsumerInv, ProcessingInv, deliveryVars, processState, history
<1> QED BY <1>1, <1>3, <1>4, <1>5, <1>6
        DEF ConsumerInv, ConsumerTypeOK, PositionInv, processState, deliveryVars, history

\* A worker whose SET succeeded is about to start, or its key stands alone.
LEMMA ProceedMutex ==
    ASSUME MutexInv, MutexStarted, StartsKept, NEW w \in Workers, Proceed(w)
    PROVE  MutexStarted'
<1>1. CASE UNCHANGED mutex
  BY <1>1, MutexKept
<1>2. CASE AcquireMutex(w) /\ mutex' # mutex
  <2>1. /\ mutex' = [mutex EXCEPT ![txn[w]] = NewMutex(w)]
        /\ UNCHANGED txn
        /\ mutex[txn[w]] = Free
        /\ \/ acquired' = [acquired EXCEPT ![w] = TRUE] /\ pc' = [pc EXCEPT ![w] = "start"]
           \/ UNCHANGED acquired
    BY <1>2 DEF AcquireMutex, ReplyLost, MutexTaken
  <2>2. txn[w] \in Txns /\ mutex'[txn[w]] # Free
    BY <2>1, NewMutexType, FreeType, RunnerTypes
  <2>3. pc[w] = "acquire" /\ ~acquired[w]
    BY <1>2 DEF AcquireMutex, MutexInv, AcquiredOnlyInside
  <2>4. Led(txn[w])'
    <3>1. CASE acquired' = [acquired EXCEPT ![w] = TRUE] /\ pc' = [pc EXCEPT ![w] = "start"]
      <4>1. AboutToStart(w)' /\ txn'[w] = txn[w]
        BY <2>1, <3>1, RunnerTypes DEF AboutToStart
      <4> QED BY <2>1, <4>1 DEF Led, KeyOnly
    <3>2. CASE UNCHANGED acquired
      <4>1. txn[w] \in orphaned'
        BY <2>1, <2>2, <2>3, <3>2 DEF Proceed
      <4> QED BY <2>1, <4>1 DEF Led, KeyOnly
    <3> QED BY <2>1, <3>1, <3>2
  <2>5. ASSUME NEW t \in Txns, t # txn[w], mutex'[t] # Free PROVE Led(t)'
    <3>1. mutex[t] # Free
      BY <2>1, <2>5, RunnerTypes
    <3> QED BY <3>1, LedKept DEF MutexStarted
  <2> QED BY <2>1, <2>4, <2>5 DEF MutexStarted
<1>3. CASE ReleaseMutex(w) /\ mutex' # mutex
  <2>1. mutex' = [mutex EXCEPT ![txn[w]] = Free]
    BY <1>3 DEF ReleaseMutex
  <2> QED BY <2>1, MutexKept, RunnerTypes
<1> QED BY <1>1, <1>2, <1>3
        DEF Proceed, GetRedis, Construct, Ping, StartGraph, GraphReturns

\* How far the consumer's own worker gets.
LEMMA ProceedProcessing ==
    ASSUME MutexInv, MutexStarted, ProcessingInv, StartsKept, Proceed(Consumer)
    PROVE  ProcessingInv'
<1> SUFFICES ASSUME loop = "process", alive[ConsumerProcess]
             PROVE  ProcessingInv'
  BY DEF Proceed, ProcessingInv, deliveryVars, processState
<1>1. /\ UNCHANGED <<loop, position, alive, txn>>
      /\ started' = IF pc'[Consumer] = "run" THEN started \cup {txn[Consumer]} ELSE started
      /\ txn[Consumer] \in Txns
  BY ConsumerWorker, RunnerTypes
     DEF Proceed, deliveryVars, processState, GetRedis, Construct, Ping, AcquireMutex,
         StartGraph, GraphReturns, ReleaseMutex
<1>2. started \subseteq started' /\ (pc'[Consumer] = "run" => txn[Consumer] \in started')
  BY <1>1
<1>3. CASE GetRedis(Consumer) \/ Construct(Consumer) \/ Ping(Consumer)
  <2>1. pc'[Consumer] \in {"acquire", "start", "construct", "ping"}
    BY <1>3, ConsumerWorker, RunnerTypes DEF GetRedis, Construct, Ping, WithoutRedis
  <2> QED BY <1>1, <1>2, <2>1 DEF ProcessingInv
<1>4. CASE AcquireMutex(Consumer)
  <2>1. \/ pc'[Consumer] = "idle" /\ result'[Consumer] = "already_investigating"
           /\ Led(txn[Consumer])
        \/ pc'[Consumer] = "start"
        \/ pc'[Consumer] = "idle" /\ result'[Consumer] = "raised"
    BY <1>1, <1>4, ConsumerWorker, RunnerTypes
       DEF AcquireMutex, Blocked, Return, MutexTaken, MutexStarted
  <2>2. \A t : Led(t) => Led(t)'
    BY LedKept
  <2> QED BY <1>1, <1>2, <2>1, <2>2 DEF ProcessingInv
<1>5. CASE GraphReturns(Consumer)
  <2>1. /\ pc[Consumer] = "run" /\ pc'[Consumer] = "release"
        /\ result'[Consumer] \in {"completed", "error"}
    BY <1>5, ConsumerWorker, RunnerTypes DEF GraphReturns, Running
  <2> QED BY <1>1, <1>2, <2>1 DEF ProcessingInv
<1>6. CASE ReleaseMutex(Consumer)
  <2>1. /\ pc[Consumer] = "release" /\ pc'[Consumer] = "idle"
        /\ result'[Consumer] = result[Consumer]
    BY <1>6, ConsumerWorker, RunnerTypes DEF ReleaseMutex
  <2> QED BY <1>1, <1>2, <2>1 DEF ProcessingInv
<1>7. CASE StartGraph(Consumer)
  <2>1. pc'[Consumer] = "run"
    BY <1>7, ConsumerWorker, RunnerTypes DEF StartGraph
  <2> QED BY <1>1, <1>2, <2>1 DEF ProcessingInv
<1> QED BY <1>3, <1>4, <1>5, <1>6, <1>7 DEF Proceed

LEMMA ProceedConsumer ==
    ASSUME MutexInv, ConsumerInv, StartsKept, NEW w \in Workers, Proceed(w)
    PROVE  ConsumerInv'
<1>1. /\ alive[ProcessOf[w]] /\ UNCHANGED <<deliveryVars, processState>>
      /\ started' = IF pc'[w] = "run" THEN started \cup {txn[w]} ELSE started
      /\ pc[w] # "idle" /\ UNCHANGED txn /\ txn[w] \in Txns
  BY RunnerTypes
     DEF Proceed, GetRedis, Construct, Ping, AcquireMutex, StartGraph, GraphReturns, Running,
         ReleaseMutex
<1>2. MutexStarted' /\ CrashesCounted' /\ started \subseteq started'
  BY <1>1, ProceedMutex DEF ConsumerInv, CrashesCounted, processState
<1>3. ConsumerTypeOK'
  <2>1. orphaned' \subseteq Txns
    BY <1>1 DEF Proceed, ConsumerInv, ConsumerTypeOK
  <2> QED BY <1>1, <2>1 DEF ConsumerInv, ConsumerTypeOK, deliveryVars, processState
<1>4. DoneInv'
  BY <1>1, <1>2, DoneKept DEF ConsumerInv, deliveryVars
<1>5. CASE w = Consumer
  <2>1. loop = "process" /\ alive[ConsumerProcess]
    BY <1>1, <1>5 DEF ConsumerInv, PositionInv, ConsumerProcess
  <2>2. PositionInv'
    BY <1>1, <2>1 DEF ConsumerInv, PositionInv, deliveryVars, processState
  <2> QED BY <1>2, <1>3, <1>4, <1>5, <2>2, ProceedProcessing DEF ConsumerInv
<1>6. CASE w # Consumer
  <2>1. pc'[Consumer] = pc[Consumer] /\ result'[Consumer] = result[Consumer]
    BY <1>6, ConsumerWorker, RunnerTypes
       DEF Proceed, GetRedis, Construct, Ping, AcquireMutex, Blocked, Return, StartGraph,
           GraphReturns, ReleaseMutex
  <2>3. \A t : Led(t) => Led(t)'
    BY LedKept
  <2>2. PositionInv' /\ ProcessingInv'
    BY <1>1, <1>2, <2>1, <2>3 DEF ConsumerInv, PositionInv, ProcessingInv, deliveryVars, processState
  <2> QED BY <1>2, <1>3, <1>4, <2>2 DEF ConsumerInv
<1> QED BY <1>5, <1>6

\* A process that dies forgets what it did; if it is the consumer's, it is out of
\* the loop until it is restarted, then from the committed offset.
LEMMA DieConsumer ==
    ASSUME MutexInv, ConsumerInv, StartsKept, NEW p \in Processes, Die(p)
    PROVE  ConsumerInv'
<1>1. /\ ProcessDies(p) /\ alive' = [alive EXCEPT ![p] = FALSE]
      /\ UNCHANGED <<deliveryVars, restarts, started>> /\ alive[p]
      /\ crashes' = IF p = ConsumerProcess THEN crashes + 1 ELSE crashes
      /\ orphaned' = orphaned \cup
           {txn[w] : w \in {v \in Workers : ProcessOf[v] = p /\ AboutToStart(v)}}
  BY DEF Die
<1>2. UNCHANGED <<txn, mutex>>
  BY <1>1 DEF ProcessDies
<1>3. DoneInv' /\ MutexStarted'
  BY <1>1, <1>2, DoneKept, MutexKept DEF ConsumerInv, deliveryVars
<1>4. ConsumerTypeOK' /\ CrashesCounted'
  <2>1. alive \in [Processes -> BOOLEAN] /\ restarts[ConsumerProcess] \in 0 .. 1 /\ crashes \in 0 .. 2
    BY ConsumerWorker DEF ConsumerInv, ConsumerTypeOK
  <2>2. CrashesCounted' /\ crashes' \in 0 .. 2
    BY <1>1, <2>1, ConsumerWorker DEF ConsumerInv, CrashesCounted
  <2>3. orphaned' \subseteq Txns
    BY <1>1, RunnerTypes DEF ConsumerInv, ConsumerTypeOK
  <2> QED BY <1>1, <2>2, <2>3 DEF ConsumerInv, ConsumerTypeOK, deliveryVars
<1>5. alive \in [Processes -> BOOLEAN]
  BY DEF ConsumerInv, ConsumerTypeOK
<1>6. CASE p = ConsumerProcess
  <2>1. pc'[Consumer] = "idle" /\ ~alive'[ConsumerProcess]
    BY <1>1, <1>5, <1>6, ConsumerWorker DEF ProcessDies, Forget, ConsumerProcess
  <2>2. PositionInv' /\ ProcessingInv'
    BY <1>1, <2>1 DEF ConsumerInv, PositionInv, ProcessingInv, deliveryVars
  <2> QED BY <1>3, <1>4, <2>2 DEF ConsumerInv
<1>7. CASE p # ConsumerProcess
  <2>1. /\ pc'[Consumer] = pc[Consumer] /\ result'[Consumer] = result[Consumer]
        /\ alive'[ConsumerProcess] = alive[ConsumerProcess]
    BY <1>1, <1>5, <1>7, ConsumerWorker DEF ProcessDies, Forget, ConsumerProcess
  <2>3. \A t : Led(t) => Led(t)'
    BY LedKept
  <2>2. PositionInv' /\ ProcessingInv'
    BY <1>1, <1>2, <2>1, <2>3 DEF ConsumerInv, PositionInv, ProcessingInv, deliveryVars
  <2> QED BY <1>3, <1>4, <2>2 DEF ConsumerInv
<1> QED BY <1>6, <1>7

LEMMA MessageKillsConsumer ==
    ASSUME MutexInv, ConsumerInv, StartsKept, MessageKills
    PROVE  ConsumerInv'
<1>1. /\ ProcessDies(ConsumerProcess) /\ alive[ConsumerProcess]
      /\ alive' = [alive EXCEPT ![ConsumerProcess] = FALSE]
      /\ UNCHANGED <<deliveryVars, restarts, crashes, history>>
  BY DEF MessageKills
<1>2. UNCHANGED <<txn, mutex>>
  BY <1>1 DEF ProcessDies
<1>3. DoneInv' /\ MutexStarted'
  BY <1>1, <1>2, DoneKept, MutexKept DEF ConsumerInv, deliveryVars
<1>4. alive \in [Processes -> BOOLEAN] /\ restarts[ConsumerProcess] \in 0 .. 1 /\ crashes \in 0 .. 2
  BY ConsumerWorker DEF ConsumerInv, ConsumerTypeOK
<1>5. ConsumerTypeOK'
  BY <1>1 DEF ConsumerInv, ConsumerTypeOK, deliveryVars, history
<1>6. CrashesCounted'
  BY <1>1, <1>4, ConsumerWorker DEF ConsumerInv, CrashesCounted
<1>7. pc'[Consumer] = "idle" /\ ~alive'[ConsumerProcess]
  BY <1>1, <1>4, ConsumerWorker DEF ProcessDies, Forget, ConsumerProcess
<1>8. PositionInv' /\ ProcessingInv'
  BY <1>1, <1>7 DEF ConsumerInv, PositionInv, ProcessingInv, deliveryVars
<1> QED BY <1>3, <1>5, <1>6, <1>8 DEF ConsumerInv

LEMMA HandleDeathConsumer ==
    ASSUME MutexInv, ConsumerInv, StartsKept, NEW p \in Processes, HandleDeath(p)
    PROVE  ConsumerInv'
<1>1. /\ ~alive[p] /\ restarts[p] = 0
      /\ alive' = [alive EXCEPT ![p] = TRUE] /\ restarts' = [restarts EXCEPT ![p] = 1]
      /\ IF p = ConsumerProcess
         THEN loop' = "poll" /\ position' = committed
         ELSE UNCHANGED <<loop, position>>
      /\ UNCHANGED <<vars, committed, outcomes, crashes, history>>
  BY DEF HandleDeath, StartPosition
<1>2. /\ alive \in [Processes -> BOOLEAN] /\ restarts \in [Processes -> 0 .. 1]
      /\ committed \in 0 .. Len(Topic)
  BY DEF ConsumerInv, ConsumerTypeOK
<1>3. ConsumerTypeOK'
  <2>1. alive' \in [Processes -> BOOLEAN] /\ restarts' \in [Processes -> 0 .. 1]
    BY <1>1, <1>2
  <2> QED BY <1>1, <1>2, <2>1 DEF ConsumerInv, ConsumerTypeOK, history
<1>4. MutexStarted' /\ CrashesCounted'
  <2>1. MutexStarted'
    BY <1>1, MutexKept DEF ConsumerInv, vars
  <2>2. crashes \in 0 .. 2
    BY DEF ConsumerInv, ConsumerTypeOK
  <2> QED BY <1>1, <1>2, <2>1, <2>2, ConsumerWorker DEF ConsumerInv, CrashesCounted
<1>5. CASE p = ConsumerProcess
  <2>1. pc[Consumer] = "idle"
    BY <1>1, <1>5 DEF ConsumerInv, PositionInv
  <2>2. PositionInv' /\ ProcessingInv'
    BY <1>1, <1>5, <2>1 DEF PositionInv, ProcessingInv, vars, workerVars
  <2>3. \A i \in 1 .. committed : Done(i)'
    BY <1>1, StaysDone DEF ConsumerInv, DoneInv
  <2>4. DoneInv'
    BY <1>1, <1>5, <2>3 DEF DoneInv
  <2> QED BY <1>3, <1>4, <2>2, <2>4 DEF ConsumerInv
<1>6. CASE p # ConsumerProcess
  <2>1. alive'[ConsumerProcess] = alive[ConsumerProcess]
    BY <1>1, <1>2, <1>6, ConsumerWorker
  <2>4. \A t : Led(t) => Led(t)'
    BY LedKept
  <2>2. PositionInv' /\ ProcessingInv'
    BY <1>1, <1>6, <2>1, <2>4 DEF ConsumerInv, PositionInv, ProcessingInv, vars, workerVars, history
  <2>3. DoneInv'
    BY <1>1, <1>6, DoneKept DEF ConsumerInv
  <2> QED BY <1>3, <1>4, <2>2, <2>3 DEF ConsumerInv
<1> QED BY <1>5, <1>6

\* A key that ages is free or still that of the same transaction.
LEMMA EnvironmentConsumer ==
    ASSUME MutexInv, ConsumerInv, StartsKept, Environment
    PROVE  ConsumerInv'
<1>1. UNCHANGED <<workerVars, deliveryVars, processState, history>>
  BY DEF Environment, RedisReachability, Tick
<1>2. MutexStarted'
  <2>1. CASE RedisReachability
    BY <2>1, MutexKept DEF RedisReachability, ConsumerInv
  <2>2. CASE Tick
    <3>1. \A t \in Txns : mutex'[t] # Free => mutex[t] # Free
      BY <2>2, FreeType DEF Tick, Aged
    <3> QED BY <3>1, MutexKept DEF ConsumerInv
  <2> QED BY <2>1, <2>2 DEF Environment
<1>3. DoneInv'
  BY <1>1, DoneKept DEF ConsumerInv, deliveryVars
<1>4. \A t : Led(t) => Led(t)'
  BY LedKept
<1> QED BY <1>1, <1>2, <1>3, <1>4
        DEF ConsumerInv, ConsumerTypeOK, PositionInv, CrashesCounted, ProcessingInv, workerVars,
            deliveryVars, processState, history

LEMMA NextConsumer == MutexInv /\ ConsumerInv /\ [ConsumerNext]_allVars => ConsumerInv'
<1> SUFFICES ASSUME MutexInv, ConsumerInv, [ConsumerNext]_allVars PROVE ConsumerInv'
  OBVIOUS
<1>1. CASE UNCHANGED allVars
  BY <1>1 DEF allVars, vars, workerVars, deliveryVars, processState, history, ConsumerInv,
              ConsumerTypeOK, PositionInv, CrashesCounted, DoneInv, Done, MutexStarted, Led,
              KeyOnly, AboutToStart, ProcessingInv
<1>2. StartsKept
  BY NextKeepsStarts
<1> QED
  BY <1>1, <1>2, PollConsumer, MessageKillsConsumer, MessageProcessedConsumer, CommitConsumer,
     RequestConsumer, ProceedConsumer, DieConsumer, HandleDeathConsumer, EnvironmentConsumer
     DEF ConsumerNext

-----------------------------------------------------------------------------
(* The theorems. *)

\* The strengthening is an invariant, and so are the runner's of the mutex.
THEOREM ConsumerInvariant == ConsumerSpec => [](MutexInv /\ ConsumerInv)
<1>1. ConsumerInit => MutexInv /\ ConsumerInv
  BY InitMutex, InitConsumer DEF ConsumerInit
<1>2. MutexInv /\ ConsumerInv /\ [ConsumerNext]_allVars => (MutexInv /\ ConsumerInv)'
  BY RunnerStep, NextMutex, NextConsumer DEF ConsumerInv
<1> QED BY <1>1, <1>2, PTL DEF ConsumerSpec

\* The consumer, the API's threads and the supervisor's restarts together are a
\* behaviour of the runner: what is proved of it holds of them.
THEOREM ConsumerIsARunner == ConsumerSpec => Spec
<1>1. ConsumerInit => Init
  BY DEF ConsumerInit
<1>2. MutexInv /\ ConsumerInv /\ [ConsumerNext]_allVars => [Next]_vars
  BY RunnerStep DEF ConsumerInv
<1> QED BY <1>1, <1>2, ConsumerInvariant, PTL DEF ConsumerSpec, Spec

\* No message is skipped: a committed one was processed to an outcome.
THEOREM NothingSkipped == ConsumerSpec => []DeliveryInv
<1>1. ConsumerInv => DeliveryInv
  BY DEF ConsumerInv, DeliveryInv, CommittedProcessed, DoneInv, Done
<1> QED BY <1>1, ConsumerInvariant, PTL

\* A committed message that called for an investigation got one started, by the
\* consumer or by who held the mutex, unless Redis failed under the SET or the
\* consumer was turned away by a key that stood for no investigation yet, or ever.
THEOREM FlaggedInvestigated == ConsumerSpec => []FlaggedStarted
<1>1. ConsumerInv => FlaggedStarted
  BY DEF ConsumerInv, FlaggedStarted, DoneInv, Done
<1> QED BY <1>1, ConsumerInvariant, PTL

\* The lag an investigation is told counts the message it is about.
THEOREM LagNeverZero == ConsumerSpec => []LagCountsItself
<1>1. ConsumerInv => LagCountsItself
  BY TopicType DEF ConsumerInv, LagCountsItself, Lag, PositionInv, ConsumerTypeOK
<1> QED BY <1>1, ConsumerInvariant, PTL

\* Offsets never move back, and what is behind them is settled.
THEOREM OffsetsGrow == ConsumerSpec => CommittedOnce
<1> DEFINE Grows == /\ committed' >= committed
                    /\ \A i \in 1 .. committed : outcomes'[i] = outcomes[i]
                    /\ position' >= committed
<1>1. ConsumerInv /\ [ConsumerNext]_allVars => [Grows]_allVars
  <2> SUFFICES ASSUME ConsumerInv, ConsumerNext PROVE Grows
    OBVIOUS
  <2>1. /\ committed \in Nat /\ position = IF loop = "poll" THEN committed ELSE committed + 1
        /\ committed \in 0 .. Len(Topic) /\ position \in 0 .. Len(Topic)
        /\ outcomes \in [1 .. Len(Topic) -> SUBSET Results]
    BY TopicType DEF ConsumerInv, ConsumerTypeOK, PositionInv
  <2>2. CASE UNCHANGED <<position, committed, outcomes>>
    BY <2>1, <2>2
  <2>3. CASE Poll
    <3>1. /\ position = committed /\ position' = position + 1 /\ committed' = committed
          /\ \/ outcomes' = outcomes
             \/ outcomes' = [outcomes EXCEPT ![position + 1] = outcomes[position + 1] \cup {"invalid"}]
      BY <2>1, <2>3 DEF Poll, Outcome, CommittedByPoll
    <3> QED BY <2>1, <3>1
  <2>4. CASE MessageProcessed
    <3>1. /\ position = committed + 1 /\ position' = position /\ committed' = committed
          /\ outcomes' = [outcomes EXCEPT ![position] = outcomes[position] \cup {result[Consumer]}]
      BY <2>1, <2>4 DEF MessageProcessed, Outcome
    <3> QED BY <2>1, <3>1
  <2>5. CASE Commit
    BY <2>1, <2>5 DEF Commit
  <2>7. CASE MessageKills
    BY <2>1, <2>7 DEF MessageKills, deliveryVars
  <2>6. CASE \E p \in Processes : HandleDeath(p)
    BY <2>1, <2>6 DEF HandleDeath, StartPosition
  <2> QED BY <2>2, <2>3, <2>4, <2>5, <2>6, <2>7
          DEF ConsumerNext, Request, Proceed, Die, Environment, deliveryVars
<1>2. MutexInv /\ ConsumerInv => ConsumerInv
  OBVIOUS
<1> QED BY <1>1, <1>2, ConsumerInvariant, PTL DEF ConsumerSpec, CommittedOnce

-----------------------------------------------------------------------------
(* What can be redelivered, and the safety core of TopicDrained. *)

\* Only the first message behind the committed offset can have been processed.
OneUncommitted == \A i \in DOMAIN Topic : outcomes[i] # {} => i <= committed + 1

\* A death of the consumer redelivers one message at most, however many it has
\* processed: it never polls further than one message behind what it committed.
THEOREM RedeliversOne == ConsumerSpec => []OneUncommitted
<1>1. ConsumerInit => OneUncommitted
  BY DEF ConsumerInit, OneUncommitted
<1>2. ConsumerInv /\ OneUncommitted /\ [ConsumerNext]_allVars => OneUncommitted'
  <2> SUFFICES ASSUME ConsumerInv, OneUncommitted, [ConsumerNext]_allVars,
                      NEW i \in 1 .. Len(Topic), outcomes'[i] # {}
               PROVE  i <= committed' + 1
    BY TopicType DEF OneUncommitted
  <2>1. /\ committed \in Nat /\ position = IF loop = "poll" THEN committed ELSE committed + 1
        /\ outcomes \in [1 .. Len(Topic) -> SUBSET Results]
        /\ outcomes[i] # {} => i <= committed + 1
    BY TopicType DEF ConsumerInv, ConsumerTypeOK, PositionInv, OneUncommitted
  <2>2. CASE UNCHANGED <<committed, outcomes>>
    BY <2>1, <2>2
  <2>3. CASE Poll
    <3>1. /\ position = committed /\ committed' = committed
          /\ \/ outcomes' = outcomes
             \/ outcomes' = [outcomes EXCEPT ![position + 1] = outcomes[position + 1] \cup {"invalid"}]
      BY <2>1, <2>3 DEF Poll, Outcome, CommittedByPoll
    <3> QED BY <2>1, <3>1
  <2>4. CASE MessageProcessed
    <3>1. /\ position = committed + 1 /\ committed' = committed
          /\ outcomes' = [outcomes EXCEPT ![position] = outcomes[position] \cup {result[Consumer]}]
      BY <2>1, <2>4 DEF MessageProcessed, Outcome
    <3> QED BY <2>1, <3>1
  <2>5. CASE Commit
    BY <2>1, <2>5 DEF Commit
  <2> QED BY <2>2, <2>3, <2>4, <2>5
          DEF ConsumerNext, MessageKills, Request, Proceed, Die, HandleDeath, Environment,
              deliveryVars, allVars
<1> QED BY <1>1, <1>2, ConsumerInvariant, PTL DEF ConsumerSpec

\* How far the consumer's call of run_investigation is from its return.
CallSteps(at) ==
    CASE at = "get_redis" -> 7
      [] at = "construct" -> 6
      [] at = "ping" -> 5
      [] at = "acquire" -> 4
      [] at = "start" -> 3
      [] at = "run" -> 2
      [] at = "release" -> 1
      [] OTHER -> 0

\* How far the loop is from having committed the next message.
MessageSteps ==
    CASE loop = "poll" -> 10
      [] loop = "process" -> 2 + CallSteps(pc[Consumer])
      [] OTHER -> 1

\* A step of the consumer brings the offset of its message nearer to being
\* committed; no step of anyone else, short of its process dying, undoes that.
LoopAdvances ==
    /\ ConsumerStep =>
         \/ committed' = committed + 1
         \/ committed' = committed /\ MessageSteps' < MessageSteps
    /\ committed' < committed + 2
    /\ \/ ConsumerStep \/ MessageKills \/ Die(ConsumerProcess) \/ HandleDeath(ConsumerProcess)
       \/ UNCHANGED <<committed, MessageSteps>>

LEMMA CallStepsValue ==
    /\ CallSteps("get_redis") = 7 /\ CallSteps("construct") = 6 /\ CallSteps("ping") = 5
    /\ CallSteps("acquire") = 4 /\ CallSteps("start") = 3 /\ CallSteps("run") = 2 /\ CallSteps("release") = 1
    /\ CallSteps("idle") = 0
BY DEF CallSteps

LEMMA MessageStepsValue ==
    /\ loop = "poll" => MessageSteps = 10
    /\ loop = "process" => MessageSteps = 2 + CallSteps(pc[Consumer])
    /\ loop = "commit" => MessageSteps = 1
BY DEF MessageSteps

LEMMA MessageStepsNext ==
    /\ loop' = "poll" => MessageSteps' = 10
    /\ loop' = "process" => MessageSteps' = 2 + CallSteps(pc'[Consumer])
    /\ loop' = "commit" => MessageSteps' = 1
BY DEF MessageSteps

\* Its call of run_investigation never goes back.
LEMMA CallAdvances ==
    ASSUME MutexInv, Proceed(Consumer)
    PROVE  /\ CallSteps(pc'[Consumer]) \in Nat /\ CallSteps(pc[Consumer]) \in Nat
           /\ CallSteps(pc'[Consumer]) < CallSteps(pc[Consumer])
<1>1. CASE GetRedis(Consumer)
  <2>1. pc[Consumer] = "get_redis" /\ pc'[Consumer] \in {"acquire", "start", "construct"}
    BY <1>1, ConsumerWorker, RunnerTypes DEF GetRedis, WithoutRedis
  <2> QED BY <2>1, CallStepsValue
<1>2. CASE Construct(Consumer)
  <2>1. pc[Consumer] = "construct" /\ pc'[Consumer] = "ping"
    BY <1>2, ConsumerWorker, RunnerTypes DEF Construct
  <2> QED BY <2>1, CallStepsValue
<1>3. CASE Ping(Consumer)
  <2>1. pc[Consumer] = "ping" /\ pc'[Consumer] \in {"acquire", "start"}
    BY <1>3, ConsumerWorker, RunnerTypes DEF Ping, WithoutRedis
  <2> QED BY <2>1, CallStepsValue
<1>4. CASE AcquireMutex(Consumer)
  <2>1. pc[Consumer] = "acquire" /\ pc'[Consumer] \in {"idle", "start"}
    BY <1>4, ConsumerWorker, RunnerTypes DEF AcquireMutex, Blocked, Return
  <2> QED BY <2>1, CallStepsValue
<1>5. CASE GraphReturns(Consumer)
  <2>1. pc[Consumer] = "run" /\ pc'[Consumer] = "release"
    BY <1>5, ConsumerWorker, RunnerTypes DEF GraphReturns, Running
  <2> QED BY <2>1, CallStepsValue
<1>6. CASE ReleaseMutex(Consumer)
  <2>1. pc[Consumer] = "release" /\ pc'[Consumer] = "idle"
    BY <1>6, ConsumerWorker, RunnerTypes DEF ReleaseMutex
  <2> QED BY <2>1, CallStepsValue
<1>7. CASE StartGraph(Consumer)
  <2>1. pc[Consumer] = "start" /\ pc'[Consumer] = "run"
    BY <1>7, ConsumerWorker, RunnerTypes DEF StartGraph
  <2> QED BY <2>1, CallStepsValue
<1> QED BY <1>1, <1>2, <1>3, <1>4, <1>5, <1>6, <1>7 DEF Proceed

\* What the others do, the loop does not see.
LEMMA OthersLeaveLoop ==
    ASSUME MutexInv, ConsumerInv, [ConsumerNext]_allVars,
           ~ConsumerStep, ~MessageKills, ~Die(ConsumerProcess), ~HandleDeath(ConsumerProcess)
    PROVE  loop' = loop /\ committed' = committed /\ pc'[Consumer] = pc[Consumer]
<1>1. ASSUME NEW w \in Workers, Request(w) \/ Proceed(w), ~Proceed(Consumer)
      PROVE  pc'[Consumer] = pc[Consumer] /\ UNCHANGED deliveryVars
  <2>1. w # Consumer /\ UNCHANGED deliveryVars
    BY <1>1 DEF Request, Proceed
  <2>2. \/ Request(w) \/ GetRedis(w) \/ Construct(w) \/ Ping(w)
        \/ AcquireMutex(w) \/ StartGraph(w) \/ GraphReturns(w) \/ ReleaseMutex(w)
    BY <1>1 DEF Proceed
  <2>3. \E s : pc' = [pc EXCEPT ![w] = s]
    BY <2>2 DEF Request, Dispatch, Receive, Return, GetRedis, Construct, Ping, AcquireMutex,
                Blocked, StartGraph, GraphReturns, ReleaseMutex
  <2> QED BY <2>1, <2>3, ConsumerWorker, RunnerTypes
<1>2. ASSUME NEW p \in Processes, p # ConsumerProcess, Die(p) \/ HandleDeath(p)
      PROVE  loop' = loop /\ committed' = committed /\ pc'[Consumer] = pc[Consumer]
  <2>1. CASE Die(p)
    BY <1>2, <2>1, ConsumerWorker DEF Die, ProcessDies, Forget, ConsumerProcess, deliveryVars
  <2>2. CASE HandleDeath(p)
    BY <1>2, <2>2 DEF HandleDeath, vars, workerVars
  <2> QED BY <1>2, <2>1, <2>2
<1>3. CASE Environment \/ UNCHANGED allVars
  BY <1>3 DEF Environment, RedisReachability, Tick, allVars, vars, workerVars, deliveryVars
<1>4. ~Poll /\ ~MessageProcessed /\ ~Commit /\ ~Proceed(Consumer)
  BY DEF ConsumerStep
<1> QED BY <1>1, <1>2, <1>3, <1>4 DEF ConsumerNext, deliveryVars

\* Ten steps of its own bring the consumer from one committed message to the next,
\* unless the message kills it: what TopicDrained needs besides the loop going on.
THEOREM LoopNeverStalls == ConsumerSpec => [][LoopAdvances]_allVars
<1>1. MutexInv /\ ConsumerInv /\ [ConsumerNext]_allVars => [LoopAdvances]_allVars
  <2> SUFFICES ASSUME MutexInv, ConsumerInv, ConsumerNext PROVE LoopAdvances
    OBVIOUS
  <2>0. /\ committed \in Nat /\ position = IF loop = "poll" THEN committed ELSE committed + 1
        /\ loop # "process" => pc[Consumer] = "idle"
        /\ ~alive[ConsumerProcess] => pc[Consumer] = "idle"
    BY TopicType DEF ConsumerInv, ConsumerTypeOK, PositionInv
  <2>1. CASE Poll
    <3>1. loop = "poll" /\ committed' = committed /\ loop' \in {"process", "commit"}
      BY <2>1 DEF Poll, CommittedByPoll, AfterInvalid
    <3>2. loop' = "process" => pc'[Consumer] \in {"idle", "get_redis"}
      BY <2>1, ConsumerWorker, RunnerTypes DEF Poll, AfterInvalid, Receive, Return
    <3>3. MessageSteps' < MessageSteps
      BY <3>1, <3>2, MessageStepsValue, MessageStepsNext, CallStepsValue
    <3> QED BY <2>0, <2>1, <3>1, <3>3 DEF LoopAdvances, ConsumerStep
  <2>2. CASE MessageProcessed
    <3>1. /\ loop = "process" /\ pc[Consumer] = "idle" /\ loop' = "commit"
          /\ committed' = committed
      BY <2>2 DEF MessageProcessed
    <3>2. MessageSteps' < MessageSteps
      BY <3>1, MessageStepsValue, MessageStepsNext, CallStepsValue
    <3> QED BY <2>0, <2>2, <3>1, <3>2 DEF LoopAdvances, ConsumerStep
  <2>3. CASE Commit
    <3>1. committed' = committed + 1
      BY <2>0, <2>3 DEF Commit
    <3> QED BY <2>0, <2>3, <3>1 DEF LoopAdvances, ConsumerStep
  <2>4. CASE Proceed(Consumer)
    <3>1. pc[Consumer] # "idle" /\ UNCHANGED deliveryVars
      BY <2>4 DEF Proceed, GetRedis, Construct, Ping, AcquireMutex, StartGraph, GraphReturns,
                  Running, ReleaseMutex
    <3>2. loop = "process" /\ loop' = "process" /\ committed' = committed
      BY <2>0, <3>1 DEF deliveryVars
    <3>3. MessageSteps' < MessageSteps
      BY <2>4, <3>2, CallAdvances, MessageStepsValue, MessageStepsNext
    <3> QED BY <2>0, <2>4, <3>2, <3>3 DEF LoopAdvances, ConsumerStep
  <2>5. CASE MessageKills \/ Die(ConsumerProcess) \/ HandleDeath(ConsumerProcess)
    <3>1. committed' = committed
      BY <2>5 DEF MessageKills, Die, HandleDeath, deliveryVars
    <3>2. ~ConsumerStep
      <4>1. alive'[ConsumerProcess] # alive[ConsumerProcess]
        BY <2>5, ConsumerWorker DEF MessageKills, Die, HandleDeath, ConsumerInv, ConsumerTypeOK
      <4> QED BY <4>1 DEF ConsumerStep, Poll, MessageProcessed, Commit, Proceed, processState
    <3> QED BY <2>0, <2>5, <3>1, <3>2 DEF LoopAdvances
  <2>6. CASE /\ ~ConsumerStep /\ ~MessageKills
             /\ ~Die(ConsumerProcess) /\ ~HandleDeath(ConsumerProcess)
    <3>1. loop' = loop /\ committed' = committed /\ pc'[Consumer] = pc[Consumer]
      BY <2>6, OthersLeaveLoop
    <3>2. MessageSteps' = MessageSteps
      BY <3>1 DEF MessageSteps
    <3> QED BY <2>0, <2>6, <3>1, <3>2 DEF LoopAdvances
  <2> QED BY <2>1, <2>2, <2>3, <2>4, <2>5, <2>6 DEF ConsumerStep
<1> QED BY <1>1, ConsumerInvariant, PTL DEF ConsumerSpec

==============================================================================
