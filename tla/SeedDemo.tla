------------------------------ MODULE SeedDemo ------------------------------
(***************************************************************************)
(* scripts/seed.py puts the data of a scenario into two stores -- the      *)
(* transactions into Postgres, the velocity set into Redis -- and then     *)
(* investigates it; velocity_check of tools/redis_tools.py joins the two.  *)
(* The script stops at its first exception and may be started again, which *)
(* is how an interrupted seeding is repaired.                              *)
(*                                                                         *)
(* A scenario's transactions are committed together and its set is added   *)
(* by one command, so each is as a whole there or not.  What matters of    *)
(* them is the now their timestamps count from, which is named by the      *)
(* start of the script that took it.                                       *)
(***************************************************************************)
EXTENDS Naturals

CONSTANTS
    Scenarios,   \* their number: 3 in the script, seeded in order
    MaxStarts    \* bound: times the script is started

ASSUME SeedAssumption == Scenarios \in Nat \ {0} /\ MaxStarts \in Nat \ {0}

VARIABLES
    (* the script *)
    start,         \* which start of the script this is; 0 before the first
    scenario,      \* the scenario it is at
    step,          \* where in the scenario's function
    (* Postgres *)
    transactions,  \* the start whose rows are there, 0 for none
    reports,       \* scenarios with a row in compliance_reports
    queued,        \* scenarios with a row in escalation_queue
    (* Redis *)
    velocity,      \* the start whose scores are in the set, 0 for no set
    (* a velocity_check of one account *)
    check

vars == <<start, scenario, step, transactions, reports, queued, velocity, check>>

S == 1 .. Scenarios

-----------------------------------------------------------------------------
\* _already_seeded.  Mutant: only the reports are looked at.
AlreadySeeded_ReportsOnly(s) == s \in reports
AlreadySeeded(s) == s \in reports \cup queued

\* INSERT ... ON CONFLICT DO NOTHING.
Inserted(s) == IF transactions[s] = 0 THEN start ELSE transactions[s]

\* What follows the check, the commit and the delete.  Mutants: Redis before
\* the commit; the investigation before the set is refilled.
AfterCheck_RedisFirst == "zadd"
AfterCheck == "commit"
AfterDelete_Investigates == "investigate"
AfterDelete == "zadd"

NoCheck == [account |-> 0, phase |-> "idle", counted |-> 0, summed |-> 0]

\* velocity_check without its volumes: they fall back to 0.
VolumeOf(a) == transactions[a]

-----------------------------------------------------------------------------
Init ==
    /\ start = 0 /\ scenario = 1 /\ step = "stopped"
    /\ transactions = [s \in S |-> 0]
    /\ velocity = [s \in S |-> 0]
    /\ reports = {} /\ queued = {}
    /\ check = NoCheck

seeded == <<transactions, reports, queued, velocity>>

Start ==
    /\ step = "stopped"
    /\ start < MaxStarts
    /\ start' = start + 1
    /\ scenario' = 1
    /\ step' = "check"
    /\ UNCHANGED <<seeded, check>>

NextScenario ==
    IF scenario = Scenarios
    THEN step' = "stopped" /\ UNCHANGED scenario
    ELSE step' = "check" /\ scenario' = scenario + 1

\* A scenario with a report or a queued case is left alone.
CheckSeeded ==
    /\ step = "check"
    /\ IF AlreadySeeded(scenario)
       THEN NextScenario
       ELSE step' = AfterCheck /\ UNCHANGED scenario
    /\ UNCHANGED <<start, seeded, check>>

\* The counterparties and the transactions, in one database transaction.
CommitTransactions ==
    /\ step = "commit"
    /\ transactions' = [transactions EXCEPT ![scenario] = Inserted(scenario)]
    /\ step' = "delete"
    /\ UNCHANGED <<start, scenario, reports, queued, velocity, check>>

DeleteVelocity ==
    /\ step = "delete"
    /\ velocity' = [velocity EXCEPT ![scenario] = 0]
    /\ step' = AfterDelete
    /\ UNCHANGED <<start, scenario, transactions, reports, queued, check>>

AddVelocity ==
    /\ step = "zadd"
    /\ velocity' = [velocity EXCEPT ![scenario] = start]
    /\ step' = "investigate"
    /\ UNCHANGED <<start, scenario, transactions, reports, queued, check>>

\* run_investigation files a report, queues the case, or leaves neither.
Investigate ==
    /\ step = "investigate"
    /\ \/ reports' = reports \cup {scenario} /\ UNCHANGED queued
       \/ queued' = queued \cup {scenario} /\ UNCHANGED reports
       \/ UNCHANGED <<reports, queued>>
    /\ NextScenario
    /\ UNCHANGED <<start, transactions, velocity, check>>

\* An exception of Postgres, Redis or the runner leaves the script, as does its
\* death; what was committed or added stays.
Stop ==
    /\ step # "stopped"
    /\ step' = "stopped"
    /\ UNCHANGED <<start, scenario, seeded, check>>

\* Somebody's velocity_check: the counts of the three windows in one pipeline.
CountTransfers ==
    /\ check.phase = "idle"
    /\ \E a \in S :
         check' = [account |-> a, phase |-> "counted", counted |-> velocity[a], summed |-> 0]
    /\ UNCHANGED <<start, scenario, step, seeded>>

\* The volumes of the ids counted, or 0 when Postgres does not answer.  A putconn
\* that raises turns the answer into a failure, counts included.
SumVolumes ==
    /\ check.phase = "counted"
    /\ \E phase \in {"done", "no_volumes", "failed"} :
         /\ phase = "failed" => check.counted # 0
         /\ check' = [check EXCEPT !.phase = phase,
                                   !.summed = IF phase = "done" /\ check.counted # 0
                                              THEN VolumeOf(check.account) ELSE 0]
    /\ UNCHANGED <<start, scenario, step, seeded>>

\* The answer is given; the next check is another one.
CheckReturns ==
    /\ check.phase \in {"done", "no_volumes", "failed"}
    /\ check' = NoCheck
    /\ UNCHANGED <<start, scenario, step, seeded>>

Next ==
    \/ Start \/ CheckSeeded \/ CommitTransactions \/ DeleteVelocity \/ AddVelocity
    \/ Investigate \/ Stop
    \/ CountTransfers \/ SumVolumes \/ CheckReturns

Spec == Init /\ [][Next]_vars

-----------------------------------------------------------------------------
Starts == 0 .. MaxStarts

\* Types; and a scenario is investigated on rows, and on a set of this very start.
TypeOK ==
    /\ start \in Starts
    /\ scenario \in S
    /\ step \in {"stopped", "check", "commit", "delete", "zadd", "investigate"}
    /\ transactions \in [S -> Starts]
    /\ velocity \in [S -> Starts]
    /\ reports \subseteq S /\ queued \subseteq S
    /\ check \in [account : 0 .. Scenarios, phase : {"idle", "counted", "done", "no_volumes", "failed"},
                  counted : Starts, summed : Starts]
    /\ step = "investigate" => transactions[scenario] # 0 /\ velocity[scenario] = start

\* A scenario that will not be seeded again is complete: whatever interrupted
\* which start, its mark is never there without its data in both stores.
MarkedComplete ==
    \A s \in S : AlreadySeeded(s) => transactions[s] # 0 /\ velocity[s] # 0

\* Every transfer that velocity_check counts has its amount, whenever the check
\* runs: a count with no volume means that Postgres did not answer.
CountsHaveVolumes ==
    check.phase = "done" /\ check.counted # 0 => check.summed # 0

\* After an interrupted start the two stores may count from different times: the
\* rows keep the old timestamps and the set gets new ones -- never the reverse,
\* so no transfer drops out of the velocity windows while the history has it as
\* recent.
ScoresNotOlder ==
    \A s \in S : velocity[s] # 0 => velocity[s] >= transactions[s]

\* All that is to hold of the two stores at any moment.
SeedInv == TypeOK /\ MarkedComplete /\ ScoresNotOlder

\* A scenario that has been seeded and investigated is never touched again, also
\* not for the moment between the delete and the zadd.
MarkedUntouched ==
    [][\A s \in S : s \in reports \cup queued =>
         velocity'[s] = velocity[s] /\ transactions'[s] = transactions[s]]_vars

=============================================================================
