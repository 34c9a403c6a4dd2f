---------------------------- MODULE KafkaConsumer ----------------------------
(***************************************************************************)
(* kafka/consumer.py as start.py runs it: a loop that takes a flagged      *)
(* transaction from its topic, runs the investigation to its end and then  *)
(* commits the offset.  The worker of the loop and the threads of the API  *)
(* are the workers of InvestigationRunner, on the same mutexes; here a     *)
(* process that died stays down until the supervisor restarts it, once,    *)
(* and the consumer then reads on from the committed offset.               *)
(***************************************************************************)
EXTENDS InvestigationRunner, Sequences

CONSTANTS
    Consumer,   \* the worker that runs run_consumer
    Topic       \* the messages of KAFKA_FLAGGED_TOPIC, in order

\* valid: the message parses and validates as an InvestigationPayload.  invalid:
\* it does not, in a way that _process_message logs.  fatal: reading it raises
\* what _process_message does not catch, as an empty value (None) does.
Kinds == {"valid", "invalid", "fatal"}

ASSUME ConsumerAssumption ==
    /\ Consumer \in Workers
    /\ \A w \in Workers : ProcessOf[w] = ProcessOf[Consumer] => w = Consumer
    /\ Topic \in Seq([txn : Txns, payload : Payloads, kind : Kinds])

VARIABLES
    loop,        \* where run_consumer is: "poll", "process" or "commit"
    position,    \* messages the running consumer has taken
    committed,   \* the group's committed offset
    alive,       \* per process: it runs
    restarts,    \* per process: _restart_count
    outcomes,    \* history, per message: how _process_message ended on it
    crashes,     \* history: deaths of the consumer that no message caused
    started,     \* history: transactions an investigation was started on
    orphaned     \* history: transactions whose key was set by a call that ended
                 \* before it started an investigation

deliveryVars == <<loop, position, committed, outcomes>>
processState == <<alive, restarts, crashes>>
history      == <<started, orphaned>>
allVars      == <<vars, deliveryVars, processState, history>>

ConsumerProcess == ProcessOf[Consumer]

\* enable_auto_commit=False.  Mutant: what was polled counts as committed.
CommittedByPoll_Auto == position + 1
CommittedByPoll == committed

\* auto_offset_reset is for a group without an offset.  Mutant: for any start.
StartPosition_Earliest == 0
StartPosition == committed

\* A message that is logged as invalid is committed like any other.
\* Mutant: the loop goes on to the next message.
AfterInvalid_Continues == "poll"
AfterInvalid == "commit"

ConsumerInit ==
    /\ Init
    /\ loop = "poll" /\ position = 0 /\ committed = 0
    /\ alive = [p \in Processes |-> TRUE]
    /\ restarts = [p \in Processes |-> 0]
    /\ outcomes = [i \in DOMAIN Topic |-> {}]
    /\ crashes = 0
    /\ started = {} /\ orphaned = {}

Outcome(i, how) == outcomes' = [outcomes EXCEPT ![i] = @ \cup {how}]

\* for message in consumer: takes the next message and calls _process_message.
Poll ==
    LET m == Topic[position + 1]
    IN /\ alive[ConsumerProcess] /\ loop = "poll" /\ position < Len(Topic)
       /\ position' = position + 1
       /\ committed' = CommittedByPoll
       /\ \/ /\ m.kind = "invalid"
             /\ loop' = AfterInvalid
             /\ Outcome(position + 1, "invalid")
             /\ UNCHANGED vars
          \/ /\ m.kind = "valid"
             /\ loop' = "process"
             /\ Receive(Consumer, m.txn, m.payload)
             /\ UNCHANGED outcomes
       /\ UNCHANGED <<processState, history>>

\* Nothing catches the exception on the way to the end of the process.
MessageKills ==
    /\ alive[ConsumerProcess] /\ loop = "poll" /\ position < Len(Topic)
    /\ Topic[position + 1].kind = "fatal"
    /\ ProcessDies(ConsumerProcess)
    /\ alive' = [alive EXCEPT ![ConsumerProcess] = FALSE]
    /\ UNCHANGED <<deliveryVars, restarts, crashes, history>>

\* dispatch_fn has returned, or raised: the loop is told neither.
MessageProcessed ==
    /\ alive[ConsumerProcess] /\ loop = "process" /\ pc[Consumer] = "idle"
    /\ loop' = "commit"
    /\ Outcome(position, result[Consumer])
    /\ UNCHANGED <<vars, position, committed, processState, history>>

Commit ==
    /\ alive[ConsumerProcess] /\ loop = "commit"
    /\ loop' = "poll"
    /\ committed' = position
    /\ UNCHANGED <<vars, position, outcomes, processState, history>>

\* Its key is set, its investigation not yet started.
AboutToStart(w) == pc[w] = "start" /\ acquired[w]

\* A process dies between any two steps; the consumer's also when commit()
\* raises, for nothing catches that.
Die(p) ==
    /\ alive[p]
    /\ ProcessDies(p)
    /\ alive' = [alive EXCEPT ![p] = FALSE]
    /\ crashes' = IF p = ConsumerProcess THEN crashes + 1 ELSE crashes
    /\ orphaned' = orphaned \cup {txn[w] : w \in {v \in Workers : ProcessOf[v] = p /\ AboutToStart(v)}}
    /\ UNCHANGED <<deliveryVars, restarts, started>>

\* ManagedProcess.handle_death.
HandleDeath(p) ==
    /\ ~alive[p] /\ restarts[p] = 0
    /\ alive' = [alive EXCEPT ![p] = TRUE]
    /\ restarts' = [restarts EXCEPT ![p] = 1]
    /\ IF p = ConsumerProcess
       THEN loop' = "poll" /\ position' = StartPosition
       ELSE UNCHANGED <<loop, position>>
    /\ UNCHANGED <<vars, committed, outcomes, crashes, history>>

\* A background task of POST /investigate.
Request(w) ==
    /\ w # Consumer /\ alive[ProcessOf[w]]
    /\ Dispatch(w)
    /\ UNCHANGED <<deliveryVars, processState, history>>

\* A worker that is inside run_investigation goes on.
Proceed(w) ==
    /\ alive[ProcessOf[w]]
    /\ \/ GetRedis(w) \/ Construct(w) \/ Ping(w)
       \/ AcquireMutex(w) \/ StartGraph(w) \/ GraphReturns(w) \/ ReleaseMutex(w)
    /\ started' = IF pc'[w] = "run" THEN started \cup {txn[w]} ELSE started
    /\ orphaned' = IF mutex[txn[w]] = Free /\ mutex'[txn[w]] # Free /\ ~acquired'[w]
                   THEN orphaned \cup {txn[w]}
                   ELSE orphaned
    /\ UNCHANGED <<deliveryVars, processState>>

Environment ==
    /\ RedisReachability \/ Tick
    /\ UNCHANGED <<deliveryVars, processState, history>>

\* kafka_lag_check as an investigation of the consumer's process asks it; in the
\* API's process the project's kafka/ directory shadows the library and the tool
\* fails.  A group that has never committed has no offsets to sum over.
Lag == IF committed = 0 THEN 0 ELSE Len(Topic) - committed

ConsumerStep == Poll \/ MessageProcessed \/ Commit \/ Proceed(Consumer)

ConsumerNext ==
    \/ Poll \/ MessageKills \/ MessageProcessed \/ Commit
    \/ \E w \in Workers : Request(w) \/ Proceed(w)
    \/ \E p \in Processes : Die(p) \/ HandleDeath(p)
    \/ Environment

ConsumerSpec == ConsumerInit /\ [][ConsumerNext]_allVars

\* Broker, Redis and graph answer or raise, so the loop goes on; the supervisor
\* looks at every process again.
FairConsumerSpec ==
    /\ ConsumerSpec
    /\ WF_allVars(ConsumerStep \/ MessageKills)
    /\ WF_allVars(HandleDeath(ConsumerProcess))

-----------------------------------------------------------------------------
Results == {"invalid", "log_only", "already_investigating", "completed", "error", "raised"}

ConsumerTypeOK ==
    /\ loop \in {"poll", "process", "commit"}
    /\ position \in 0 .. Len(Topic)
    /\ committed \in 0 .. Len(Topic)
    /\ alive \in [Processes -> BOOLEAN]
    /\ restarts \in [Processes -> 0 .. 1]
    /\ outcomes \in [DOMAIN Topic -> SUBSET Results]
    /\ crashes \in 0 .. 2
    /\ started \subseteq Txns /\ orphaned \subseteq Txns

\* No message is skipped: what is committed was processed to an outcome, by this
\* consumer or by the one that died.  (A fatal one has none: no offset passes it.)
CommittedProcessed == \A i \in 1 .. committed : outcomes[i] # {}

\* The types, and no message is skipped.
DeliveryInv == ConsumerTypeOK /\ CommittedProcessed

\* The key of a transaction was set by a call that has yet to start an
\* investigation, or has ended without.
KeyOnly(t) == t \in orphaned \/ \E w \in Workers : AboutToStart(w) /\ txn[w] = t

\* What a flagged message that is committed has led to: an investigation of its
\* transaction, by whoever held the mutex -- or Redis failed under the SET, whose
\* exception the consumer only logs, or it was refused for a key that nothing but
\* a key stood for: there may never be an investigation.  A started one need not
\* have finished either.
FlaggedStarted ==
    \A i \in 1 .. committed :
        Topic[i].kind = "valid" /\ ShouldInvestigate(Topic[i].payload) =>
            \/ Topic[i].txn \in started
            \/ "raised" \in outcomes[i]
            \/ "already_investigating" \in outcomes[i] /\ KeyOnly(Topic[i].txn)

\* The consumer cannot be told that nothing is waiting: after its first commit the
\* lag counts more than the messages behind the one under investigation, also
\* when that one has been delivered again.
LagCountsItself ==
    pc[Consumer] = "run" /\ committed > 0 => Lag > Len(Topic) - position

\* A committed message is not taken again, and offsets are never moved back.
CommittedOnce ==
    [][/\ committed' >= committed
       /\ \A i \in 1 .. committed : outcomes'[i] = outcomes[i]
       /\ position' >= committed]_allVars

\* The topic is consumed to its end, or to the first message that kills its
\* reader, where it stops for good -- unless the consumer was killed twice.
TopicDrained ==
    <>[](\/ committed = Len(Topic)
         \/ Topic[committed + 1].kind = "fatal"
         \/ crashes = 2)

=============================================================================
