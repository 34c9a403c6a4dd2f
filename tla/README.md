# Verification of the AML investigation agent

TLA+ models of the agent's control, TLC runs that check them on small instances
and TLAPS proofs of what matters most for every value of the constants. Every
definition is translated from the Python source; `PROJECT.json` names the lines
of each.

## The system

| Component | Source | State it keeps | Operations | What is hard | What makes it correct |
|---|---|---|---|---|---|
| investigation graph | `agent/graph.py`, `limits.py`, `state.py` | the `AgentState` of a run: status, hops, cost, evidence, evaluation, reason | five nodes, one conditional edge, four limits | limits checked between calls of unknown cost and duration; fallback replies; a crash between nodes | a case closes as RESOLVED only within every limit and on an evaluation of all its evidence; every run stops |
| LLM client | `agent/llm_client.py` | a lazily made client | `call_llm` | any answer, no answer | never raises; the fallback cannot resolve a case |
| writers and evidence builder | `agent/audit_trail.py`, `report_writer.py`, `escalation_writer.py`, `evidence.py` | one connection pool each; four tables | insert a row, read the tool log | every write is non-fatal; a second run of an id; threads share three connections; a pool whose making failed is never tried again | one report per id and it stands; a verdict has evidence behind it; a queued case says why; a call returns, and answers yes only of a row that is there |
| tool dispatcher | `tools/dispatcher.py` | a log pool, made without a lock | route, call, log | log write lost; a pool that is not for sharing, and a bare `putconn` that may raise | each call is in memory and in the log alike; an exception comes only of a race for a connection |
| tools | `tools/*_tools.py` | a pool and a Redis client made at import | seven read-only queries | a connection that dies in use; two stores read one after the other; a recursive query on cyclic data | what is reported is in the data; every slot of a pool that is lost is accounted for |
| runner | `agent/runner.py` | a Redis client per process; a mutex per transaction in Redis | `run_investigation` | threads, lazy initialisation without a lock, expiry, outages | one investigation per transaction at a time |
| Kafka consumer | `kafka/consumer.py` | position; committed offset | take, process, commit | death between processing and commit; redelivery while the dead holder's mutex lives; messages that do not parse, and those that kill their reader | no message skipped, none taken again after its commit |
| supervisor | `scripts/start.py` | restart counts, active processes | wait, migrate, launch, restart once | services and processes fail at any time; a start raises | startup decides; nothing runs unwatched unless an exception ended it |
| HTTP API, UI, benchmark, acceptance script | `api/`, `ui/`, `scripts/benchmark.py`, `scripts/uat_runner.py` | none of their own | start an investigation; read the tables | reads between two writes of a run | the view agrees with the tables and overstates nothing |
| seed script | `scripts/seed.py` | transactions in Postgres, velocity sets in Redis | seed and investigate three scenarios | stopped between the two stores and started again | a scenario that is marked as done has its data in both |

A transaction enters through `POST /investigate` (a background task, one thread
each, in the API process) or through the Kafka consumer (one thread in a process
of its own). Both call `run_investigation`, which routes by score, takes the
mutex `mutex:investigation:{txn_id}` and invokes the graph. The nodes call the
LLM, the dispatcher and the writers; the API's and the UI's read paths see only
the tables. `scripts/start.py` launches the three application processes and
restarts each at most once.

## Modules

| Module | What it is |
|---|---|
| `AMLGraph` | one investigation: graph, limits, LLM replies, writers, tables, crash and second run |
| `AMLOutcome` | the promise of an investigation to its caller |
| `AMLGraphImpl` | `AMLGraph` implements `AMLOutcome` |
| `AMLGraphProofs` | theorems about `AMLGraph` and that it implements `AMLOutcome` |
| `InvestigationRunner` | threads of several processes in `run_investigation`, the Redis client, the mutex |
| `InvestigationRunnerProofs` | theorems about `InvestigationRunner` |
| `KafkaConsumer` | the consumer loop composed with the workers of `InvestigationRunner` and the restart of processes |
| `KafkaConsumerProofs` | theorems about `KafkaConsumer` |
| `Supervisor` | `scripts/start.py` |
| `SupervisorProofs` | theorems about `Supervisor` |
| `LossyCall` | the promise of a database helper to the node that calls it |
| `ConnPool` | the threads of a process in one such helper, through its connection pool; implements `LossyCall` |
| `ConnPoolProofs` | theorems about `ConnPool` and that it implements `LossyCall` |
| `AuditView` | `AMLGraph` with the readers of its tables between any two rows |
| `AuditViewProofs` | theorems about `AuditView` |
| `RoundTrip` | the recursive query of `round_trip_detector` |
| `RoundTripProofs` | theorems about `RoundTrip` |
| `SeedDemo` | `scripts/seed.py` and a `velocity_check` over its two stores |
| `SeedDemoProofs` | theorems about `SeedDemo` |
| `MC...` | the small instances TLC checks |

### AMLGraph

One action per node, and more where a node may end early: `NodeToolCallingRaises`
for the exception out of `json.loads`, `DispatchRaises` for the one out of
`dispatch_tool` (its `putconn` is bare, see ConnPool), and `NodeEvaluatingRefuses`
for the guards before the LLM call.

* `node` is the node LangGraph runs next. The edges are those of `build_graph`,
  so the unconditional edge from `node_investigating` is taken on the fallback
  path too.
* The `AgentState` variables have the names of its keys, shortened. `elapsed` is
  `time.time() - started_at`; a node adds its duration.
* The tables `toolLog`, `auditLog`, `reports`, `escalations` are what is
  committed. Each writer runs one transaction, so a node's writes are separate
  choices between written and lost; `lost` bounds the number of failures. The
  read of the tool log may fail too. `ORDER BY hop_number` is the `hop` field of
  the chain's entries.
* `Crash` is between nodes. A death inside a node leaves the tables as one
  between nodes with that node's remaining writes lost.
* `run`, in rows, and `basis`, in an evaluation, are ghosts: no column has them.
* Confidences are in units of 1e-5 and the threshold in 1e-4, as `round(., 4)`
  is a step of the code; verdicts suspicious and clean are one, since nothing
  tells them apart. Which tool a selection names is not modelled; whether its
  `tool_input_json` parses is.
* `_pre_escalation_status` is no key of `AgentState`, so LangGraph drops it and
  `state_from` of the closing row is always EVALUATING. `final_report` is read
  only by the runner's metrics.
* `EscalationExplained` tells from the queued row which check of `node_evaluating`
  sent it there. The evidence of its snapshot is one more than the evaluation saw
  exactly when a limit refused the call (`Refused`), and the reason is then the
  first limit in the order of the code: hops, timeout, cost. Otherwise all of it
  was evaluated by a call that began in time and below the cap (`Evaluated`), and
  the reason is the cost of that call or its confidence.
* The guard for empty evidence is kept in `HardLimit` although no run reaches it:
  `node_tool_calling` always appends an entry. `EscalationExplained` would fail
  on a queued case with that reason. LangGraph's own recursion limit (25 steps)
  is beyond the ten steps that four hops take.

### InvestigationRunner

`pc[w]` walks a thread through `run_investigation`. `_get_redis` is three
actions, since no lock covers its checks, its assignment, its ping and the read
at its return: `GetRedis`, `Construct`, `Ping` (the read at the return is one
step with the ping; reading later could only find what another thread's ping,
scheduled before, would have left). `AcquireMutex` is outside the try block and
so raises when Redis has gone. `GraphReturns` stands for the whole graph run,
which may take any time. The SET and the start of the graph are two steps
(`AcquireMutex`, `StartGraph`): a process that dies between them leaves a key and
no investigation, and so does a SET whose reply is lost after Redis applied it
(`ReplyLost`; the client makes one attempt). `ReleaseMutex` deletes the key
whoever owns it. The owner in `mutex` is the worker, where Redis has the
investigation id, which the code never reads. `Tick` ages keys; `RedisReachability` takes Redis away and
back with its keys; `ProcessDies` loses what a process had in memory.
`overran` remembers the transactions whose mutex expired under a holder.

### KafkaConsumer

EXTENDS `InvestigationRunner`: the consumer's worker enters `Receive` through
`Poll` only, a process that died takes no step until `HandleDeath` starts it
again, once, and the consumer then reads on from the committed offset. A
`commit()` that raises ends the process, as nothing catches it; that is `Die`
at `loop = "commit"`, before or after the broker stored the offset. `Poll`
combines the iterator's step with the parsing in `_process_message`.

A message is of one of three kinds: valid; invalid, which `_process_message` logs
and the loop commits; or fatal, for `consumer.py:92` catches two exceptions and
reading an empty value raises another. That one ends the process
(`MessageKills`), before any commit, and does so again after the restart: the
topic stops there for good, and `TopicDrained` says so. `Die` is a death for any
other reason, counted in `crashes`.

`FlaggedStarted` tells what the commit of a flagged message stands for: an
investigation of its transaction was started (`started`), or the SET raised, or
the message was refused because of a key behind which there is no investigation
(`KeyOnly`), its setter being about to start one or having ended before it could
(`orphaned`). In the last two cases there may never be one.

The lag tool is `Lag`, as an investigation of the consumer's own process is told
it. Until the group's first commit there are no offsets and the lag is 0,
whatever waits; from then on it counts the message under investigation, so
`is_pipeline_delay` is never false (`LagCountsItself`). In the API's process
`importlib` finds the project's `kafka/` directory and the tool always fails.

### Supervisor

The stages of `main()`: `checking` (one service after another, each attempt a
step), `migrating`, `launching`, `supervising`, `exited`. `FindDead(p)` is one
turn of the scan that finds `p` dead; turns that find it alive do nothing, and
the two-second sleep is the freedom of everything else to move in between.
A start may raise, at launch or at a restart (`StartRaises`), and SIGINT may come
at any stage. Nothing catches the first, and only `_supervise` the second: after
a start that raised, or an interruption of the launch, what has been launched
runs on unwatched (`aborted`), and `NoneUnwatched` allows no other reason.

### ConnPool and LossyCall

The six modules that keep a pool differ in four points, which `client` records:
made lazily or at import, under a lock or not, committing or only reading, and
`putconn` in a handler or bare. One behaviour has one kind of client. A call is
`GetPool`, `Lock`, `InitPool`, `Flag` (the initialisation); `GetConn`, `Connect`,
`Register`, `Key` (getconn); `Insert` or `Query`, `Commit`, `Rollback`; and
`PutConn`, `Room`, `Keep`, `Reset`, `Forget`, `Unkey` (putconn).

psycopg2 is external. Its `SimpleConnectionPool` takes no lock, and its
documentation does not want it shared by threads, as the tasks of the API share
it. CPython switches threads after any call, and from 3.10 on (which the
annotations in the tests need) after calls and at the end of loops only; so
`getconn` and `putconn` are cut after the pop and the append of the idle list,
after `len`, and before each write to the dictionaries `_used` and `_rused`
(`used` and `keyed`), whose keys go through `id()`. What this does:

* `getconn` looks at `maxconn` before it connects and not after, so two threads
  may both pass it.
* `putconn` appends the connection to the idle list before it deletes its entries.
  A thread that takes the connection in between (`raced`) may have the entry in
  `_rused` deleted under it; its own `putconn` then finds no key and raises, and
  its slot in `_used` is never given back, on a live connection.
* `putconn` rolls back a connection that is inside a transaction, which raises
  when the server side has died. The writers have rolled back by then; the
  readers end no transaction, and lose the slot.

`ConnectionPrivate` holds in spite of it: nobody executes on a connection that
another thread still uses, since a race begins only when its giver is through
with it. `SlotsAccounted` and `PutconnRaisesInRaces` say that a slot is lost, and
`putconn` raises, for these two reasons only. Where `putconn` is in a handler of
its own the call does not notice; in `postgres_tools` and the dispatcher the
exception replaces the answer. The tools' is caught by `dispatch_tool`; the
dispatcher's own leaves it, against its docstring (`NeverRaises`), and ends the
investigation (`DispatchRaises` of AMLGraph).
A pool is named by the thread that made it; `DatabaseChanges` kills every open
connection. `LossyCall` is what `AMLGraph` takes a helper for: at most one effect
per call, "ok" only after it, and a return.

### AuditView

EXTENDS `AMLGraph`. A node's rows appear to the readers one by one, in the order
in which it writes them, and the next node waits for the last (`CaughtUp`,
`RowAppears`). `GET /status` is two statements, and rows may appear between them.
`ListedStatus`, `BenchmarkMetrics` and `ChainMatchesLog` are the queries of the
UI's list, the benchmark and the acceptance script over what is shown. A client
that is told RESOLVED fetches the report; the report is written before the row
that says so, so it is there unless its write was lost. Either request may be
answered 500. `ChainMatchesLog` compares with all rows of the investigation id,
as the script does, so a report also differs when a later run has logged calls
(`ChainOneToOne`); the run has one run of the investigation, the theorem any
number. The LIMIT of the UI's list is left out, there being one investigation.
ESCALATED may be told in the middle of a run, by the fallback's row
(`graph.py:165`), of a case that is RESOLVED later; `ToldResolved` has no
counterpart for it.

### RoundTrip

One action per iteration of the recursive term, on the working table of the
iteration before. A row is its `path`. `TypeOK` holds the recursion to the depth
of the code. The query looks at the window only, not at the order of transfers
within it, and reports any one path, not a shortest (LIMIT 1 without ORDER BY).

### SeedDemo

A scenario is a check of the mark, a commit in Postgres, a delete and a zadd in
Redis, and an investigation, which leaves the mark (a report or a queued case).
`Stop` is an exception or the death of the script at any point; `Start` runs it
again. A store holds the number of the start whose timestamps it has, 0 for
nothing: after an interrupted start the rows keep the old ones and the set gets
new ones (`ScoresNotOlder`). One script runs at a time. A velocity check may be
answered in full, without volumes, or, when its `putconn` raises, not at all.

## Runs

| Run | Question | Bounds |
|---|---|---|
| `AMLGraph` | do the limits hold of every outcome, do evidence and escalation tell what happened | four hops as in the code; costs 1 and 2 against a cap of 6, so that the cap is met before, by and after an evaluation call; nodes take 0 or 2 seconds against 3; confidences 0.69994 and 0.69996 on both sides of the rounded threshold; one lost operation |
| `AMLGraphRerun` | what do the tables hold after two runs of one id; does every run stop; is the outcome the promised one | two hops, two runs, one lost operation, a crash at any node |
| `InvestigationRunner` | is the mutex exclusive, whose key does a release delete, does every mutex go | two threads in one process and one in another on one transaction; time to live 2 |
| `KafkaConsumer` | is every message processed and committed once, does the topic drain, what lag is an investigation told | four messages: below the threshold, above it, unparsable, and one that kills its reader; one API thread; each process dies at most twice |
| `Supervisor` | does startup decide, is every process watched and restarted | two services, two processes, five attempts |
| `ConnPool` | does a call return and tell the truth, is a connection one thread's, is a slot lost | two threads, two connections, a pool of one: so that the pool is exhausted, passed by two threads at once, and a connection taken while it is handed back; restarts of the database without bound |
| `RoundTrip` | is what is reported a round trip, is one missed, does it end | the cap of five that the query has; every window over a ring of six accounts, one transfer too long for it, and five shortcuts: cycles of two, four and five transfers, one that misses the origin, and a transfer to itself |
| `AuditView` | what may a reader be told | three hops, one run, one lost operation, one cost, confidences on both sides |
| `SeedDemo` | is the mark ever there without the data, do count and volume agree | three scenarios as in the script, three starts |

Two runs of one investigation suffice for what a later run can do to the rows of
an earlier one, since a third finds the same tables as the second but for more
rows of the same kinds. Transactions do not interact but through the Redis
client, which three threads on one transaction already contend for. Of two
threads in a pool one can always be put between any two steps of the other; the
theorems have any number.

Three runs end in a violation on purpose; each refutes one sentence of the
repository:

| Run | Sentence | What happens |
|---|---|---|
| `UnqueuedExit` | `escalation_writer.py:4` a row on every non-RESOLVED exit | unparsable tool input ends the run as `error` |
| `LogPoolLost` | `dispatcher.py:64` safe to call repeatedly | a thread whose attempt failed assigns None over another's pool, for good |
| `NeverRaises` | `dispatcher.py:207` non-fatal, never raises | a thread takes the connection that another is handing back and loses its entry to it; its bare `putconn` raises |

More sentences and the code part without a run of their own:

* `graph.py:160` "Escalate immediately": the tool is called with `{}` and its
  error becomes evidence (`NodeInvestigating`, the unconditional edge).
* `README.md:225`, the timeout leads to ESCALATED: an evaluation call that
  outlasts it resolves the case; `ResolutionLateness` says by how much.
* `audit_trail.py:4`, every state transition writes a row: none for EVALUATING.
* `README.md:43`, duplicates are blocked: the mutex expires under its
  investigation; `ExclusiveUnlessOverrun` says what is left.
* `consumer.py:88` never raises: a value that is no bytes does, at every delivery
  (`MessageKills`, `TopicDrained`).
* `status.py:28` total cost of an investigation: the audit rows summed at line 54
  have the share of the tool selections only; the cost of an evaluation is in none.
* `runner.py:4` never raises: the SET does when Redis has gone (`AcquireMutex`).
* `runner.py:55` connects exactly once: two threads may both try (`GetRedis`).
* The chain of a report starts at hop 0 where the sample report (`README.md:205`)
  starts at 1, while the evidence in memory and in an escalation starts at 1.
* The backoff waits 2, 4, 8, 16 seconds where `start.py:37` says 1, 2, 4, 8, 16.
* `benchmark.py:52` names `escalation_queue`, which the query never reads: a run
  that ended as an error counts as escalated (`BenchmarkHonest`).
* `metrics.py:74` gives the escalation rate as 0-100; its two counts are two
  statements, so it can pass 100. `app.py:666` takes every case that is not
  escalated, the running ones too, for resolved.
* `runner.py:195` reads cost and hops of the final report as attributes of a
  dict, so the metrics of resolved cases are never observed.

Runs of the graph, of the query and of the seeding disable the deadlock check
because they end; the others do not.

## Fairness

* `AMLGraph`: weak fairness of `GraphStep`. LangGraph runs the next node as soon
  as one returns, and LLM, tool and database calls return or raise. Crashes and
  further runs owe nothing.
* `InvestigationRunner`: weak fairness of `Tick` only: time passes in Redis.
* `KafkaConsumer`: weak fairness of the consumer's own steps, which each return
  or raise, and of the supervisor's look at its process.
* `ConnPool`: weak fairness of each thread's steps inside a call: statements,
  connection attempts and the lock's holder return or raise. Nobody need call.
* `RoundTrip`: the server evaluates a statement to its end.
* `AuditView`: that of `AMLGraph`, and a node's writes follow each other.
* `Supervisor`: weak fairness of its own steps: its sleeps end and its scan comes
  to every active process. Processes and services owe nothing.

## Proofs

`AMLGraphProofs` proves for every limit, cost, duration, confidence and bound,
from the named assumptions of `AMLGraph` alone: `TypeCorrect`,
`ResolutionSound`, `CostBounded`, `LatenessBounded`, `EvaluationGated` and
`ReportsStand`. None of the properties is inductive. `LimitsInv` adds to them
what each node may rely on when it starts (`NodeInv`): at `node_tool_calling`
there is a hop left and either the cost is that of one call or a check has
passed (`AtToolCalling`); at `node_evaluating` there is evidence the last
evaluation has not seen; at `node_resolved`, and in a RESOLVED state, everything
`ResolvedWithinLimits` and `ResolutionLateness` say. The edge from
`node_evaluating` establishes the last from the checks after the LLM call and
from `HardLimit`; the proof has one lemma per action.

`InvestigationRunnerProofs` proves `TypeCorrect`, `MutexOwned`,
`MutualExclusion` and `ReleasesOwn` for any workers, processes, transactions and
time to live. The invariant `MutexInv` joins the types, `HolderOwnsMutex` and the
fact that only a worker in the try block has `mutex_acquired` set: a worker
acquires only a free key, so no other holder of an unexpired key of that
transaction exists; an expiry under a holder puts the transaction into `overran`.

`RoundTripProofs` proves `CyclesAreReal` and `NoCycleMissed` for any window,
accounts and cap. `QueryInv` says of every row that it is a walk of transfers
from the origin within the cap that enters no account twice (`RowOK`), and of
every such walk that it is a row or that a beginning of it is in the working
table (`ReachInv`): the next iteration continues that beginning by one transfer,
for none of the conditions of the recursive term refuses a beginning of a walk.
When the working table is empty, every walk is a row.

`SeedDemoProofs` proves `SeedingComplete`, `VolumesFound` and `MarkRespected` for
any number of scenarios and starts. `DemoInv` adds to the properties what the
script relies on between its steps (`ScriptInv`: it works only on a scenario
without the mark, and past the commit the rows are there), that a set is never
there without its rows (`StoresInv`), and that this holds of what a running check
has counted (`CheckInv`), since the script deletes sets and never rows.

`AMLGraphProofs` goes on with the tables. `TablesInv` joins four parts, which lean
on each other and on `LimitsInv`: `EvidenceInv` (the log and the evidence in
memory agree, and no row is of a run to come), `AuditInv` (a run that has not
come to its end has no closing row, so it may write; no row is of a run to come,
so a new run starts with none), `OutcomeInv` (nothing is filed or queued of a run
that goes on; at `node_escalated` the state shows why, `EscalationDue`; what is
queued at the end is that state) and `ReportBacked`. From it follow
`EvidenceLogged`, `RunsStayClosed`, `OutcomesRecorded`, `EscalationsExplained` and
`ReportsBacked`. `EscalationExplained` alone is not inductive: between
`node_evaluating` and the queueing, the reason has to be carried by the state.
`GraphKeepsPromise` is the refinement: `Init` gives `AMLOutcome`'s, and every step
of the graph is one of its steps or a stutter, under the same mapping that TLC
checks; it needs `QueueInv` (the queue is finite), for `OutcomeRecorded` counts.

`AuditViewProofs` proves that the view is a behaviour of the graph
(`ViewedGraph`), so the invariants above hold beside the readers, and adds
`ReadersInv`. Its parts are `RowsInv`, what the tables say beyond `TablesInv` (only
a closing row says RESOLVED; with nothing lost the last row of a node has a
status, though the `tool_call` row before it has none; a chain is the log up to
its run, exactly); `ShownInv`, what is still to appear (a prefix of the audit log is
seen; a missing tool row is of the current run and that has not ended; while a
report is missing no closing row of its run is seen); and `ClientInv`, what the
client was told and still holds. From it follow `StatusTruthful`,
`ReportReadable`, `StatusAlwaysKnown`, `ChainIsTheLog` and `BenchmarkReliable`.
`HopsNotOverstated` counts rows with the theorems on cardinality, and
`CostNotOverstated` counts units of cost with them: `CostOf` is the number of pairs
of a row and a unit of its cost, since a recursive sum is out of the prover's
reach. What makes it provable is that every row appended charges no more than its
step adds to the cost (`CostInv`). `AnswersCorrect` joins both with the types of the
answers and with `StatusTruthful` to `AnswersTrue`.

`ConnPoolProofs` proves `ConnectionsPrivate`, `SlotsLostForAReason`,
`RaisesOnlyInRaces`, `PoolDecidedOnce` and `CallsKeepPromise` for any threads,
connections, limit and kind of client, at the same grain as the model. `CallsInv`
says where a call is (it has a pool past `GetPool`, no effect before its commit,
"ok" only with one; under a lock one thread at a time makes a pool and only the
first does; a writer reaches `putconn` outside a transaction). `ConnInv` says where
a connection is: idle in one pool at most (`IdleInv`), of two threads only after
a race for it (`RaceInv`), and without one known to the pool from `Key` to `Unkey`
(`KeyInv`). The limit plays no part in it, for two threads may pass it.

`KafkaConsumerProofs` proves `NothingSkipped`, `FlaggedInvestigated`, `LagNeverZero`
and `OffsetsGrow` for any topic and any number of API threads, and that the
composition is a behaviour of `InvestigationRunner` (`ConsumerIsARunner`), so
`MutualExclusion`, `ReleasesOwn` and `MutexRunsOut` hold of it. `ConsumerInv` says what the two
properties about committed messages need before the commit: exactly one message
is between offset and position (`PositionInv`), at `commit` that message is
settled (`DoneInv`), and on the way there the result in the worker already stands
for what `FlaggedStarted` allows (`ProcessingInv`). For the answer
"already_investigating" that is so because behind every key there is a started
investigation or nothing but the key (`Led`, `MutexStarted`), also when its setter
has died: what is about to start becomes `started` or `orphaned`, in the step in
which it stops being so. `CrashesCounted` bounds the deaths by the restarts.

`SupervisorProofs` proves `SupervisionSound` for any sequences of services and
processes and any number of attempts. What is added is what each stage has behind
it (`StageInv`: nothing started before the checks have passed) and that a process
is started in its turn and then once per restart (`StartsInv`).

The theorems assume of the constants what the modules name: that `HealthChecks`
and `AppProcesses` are finite lists, not empty and the second without repetition,
as those of `start.py` are (`SequencesAssumption`, `SupervisorAssumption`); that `Topic` is a
sequence of messages (`ConsumerAssumption`); and the ranges of the limits. The
liveness of a refinement (that a run ends, that a call returns) is no part of
`GraphKeepsPromise` and `CallsKeepPromise`.

A module's type invariant is a conjunct of the named invariant its run checks
(`DeliveryInv`, `SupervisionInv`, `PoolInv`, `SearchInv`, `AnswersTrue`,
`SeedInv`); those of `AMLGraph` and `InvestigationRunner` are the theorems
`TypeCorrect`.

Liveness is out of the prover's reach; what it rests on in the code is not. For each
liveness property a theorem states the part that a wrong step, and no lack of
scheduling, would break:

| Liveness, by TLC | Theorem, for all constants |
|---|---|
| `Termination` | `RunsAreShort`: every node uses up one of at most `2 * MaxToolHops + 2` steps, so no routing leads round the loop without using up a hop |
| `MutexFreed` | `MutexRunsOut`: a key that is taken has an owner and an expiry ahead of it (`TakenExpires`), is never renewed or overwritten, and is missed by no tick |
| `TopicDrained` | `LoopNeverStalls`: ten steps of the consumer commit one message more (`MessageSteps`) unless it kills its reader, and no step of another takes one back but the death of its process; `RedeliversOne`: such a death costs one message at most |
| `StartupDecides` | `StartupAdvances`: each step of the wait is a further attempt or a further service |
| `FirstFailureRestarted` | `FailuresWatched`: who failed once stays on the list that is scanned |
| `Answered` | `RecursionBounded`: an iteration lengthens every row by one transfer, up to the cap |
| `ImplementsLossyCall` (the return) | `CallsAreShort`: seventeen steps per call, none back; whoever holds the lock is making the pool and waits for no lock |
| `ListedClosed` | `ClosedListed`: with the last rows shown, the list tells the status the run ended with |

Checked by TLC only, and out of the prover's reach:

* everything temporal under fairness: `Termination`, `MutexFreed`, `TopicDrained`,
  `StartupDecides`, `FirstFailureRestarted`, `Answered`, `ListedClosed`, and the
  liveness part of `ImplementsOutcome` and `ImplementsLossyCall`.

Every invariant and every action property that a passing run checks is a theorem.

## Plan

What is left is more of the model, not more about it: `KafkaConsumer` with the
supervision of `Supervisor` in place of its own `HandleDeath`; several
investigations beside the reader, for the counts of the UI's metrics; the metrics
of the runner.

## Not modelled

* Texts, prompts, logs, metrics; the import of `kafka-python` around the
  project's own `kafka/`; the routing table of the dispatcher.
* The rows of the plain queries of the tools, and the search in the watchlist
  file: sequential code without state of its own.
* The migrations, which are declarative; of them, the unique key of
  `compliance_reports` is in `InsertReport`.
* The mock dispatcher: nothing calls it in the running system.
* What `ui/app.py` makes of its queries, and the queries that select or count the
  rows of one table; the loops and the printing of the benchmark and acceptance
  scripts.

`PROJECT.json` gives the reason per component, and says of each hazard that
no property covers why.
