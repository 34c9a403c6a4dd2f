----------------------------- MODULE Supervisor -----------------------------
(***************************************************************************)
(* scripts/start.py: waits for the services with exponential backoff, runs *)
(* the migrations, launches the application processes and supervises them, *)
(* restarting each at most once.  Services go up and down and processes    *)
(* exit whenever they like, also while start.py looks at another one;      *)
(* starting a process may raise, and SIGINT may come at any time.          *)
(***************************************************************************)
EXTENDS Integers, Sequences

CONSTANTS
    HealthChecks,   \* HEALTH_CHECKS: a sequence of services
    AppProcesses,   \* APP_PROCESSES: a sequence of processes
    Retries,        \* RETRIES
    BackoffBase     \* BACKOFF_BASE

ASSUME SupervisorAssumption ==
    /\ HealthChecks # <<>> /\ AppProcesses # <<>>
    /\ Retries \in Nat \ {0}
    /\ BackoffBase \in Nat \ {0}
    /\ \A i, j \in DOMAIN AppProcesses : AppProcesses[i] = AppProcesses[j] => i = j

Services == {HealthChecks[i] : i \in DOMAIN HealthChecks}
Apps     == {AppProcesses[i] : i \in DOMAIN AppProcesses}

ASSUME SequencesAssumption == HealthChecks \in Seq(Services) /\ AppProcesses \in Seq(Apps)

VARIABLES
    stage,      \* what main() is at
    checks,     \* services it has dealt with
    attempt,    \* attempt of the service it is waiting for
    sleeps,     \* ghost: the sleeps it made for that service
    healthy,    \* services found healthy
    launched,   \* processes launched so far
    app,        \* what the operating system knows of each process
    restarts,   \* _restart_count
    starts,     \* ghost: how often each process was started
    active,     \* the processes _supervise still looks at
    aborted,    \* ghost: an exception ended start.py with processes launched
    up          \* services that answer

checkVars == <<checks, attempt, sleeps, healthy>>
appVars   == <<launched, app, restarts, starts, active>>
vars      == <<stage, checkVars, appVars, aborted, up>>

Init ==
    /\ stage = "checking"
    /\ checks = 0 /\ attempt = 1 /\ sleeps = <<>> /\ healthy = {}
    /\ launched = 0 /\ active = {}
    /\ app = [p \in Apps |-> "not_started"]
    /\ restarts = [p \in Apps |-> 0]
    /\ starts = [p \in Apps |-> 0]
    /\ aborted = FALSE
    /\ up \in SUBSET Services

-----------------------------------------------------------------------------
Waiting  == stage = "checking" /\ checks < Len(HealthChecks)
Awaited  == HealthChecks[checks + 1]

NextCheck ==
    /\ checks' = checks + 1 /\ attempt' = 1 /\ sleeps' = <<>>
    /\ UNCHANGED stage

\* After the last attempt.  Mutant: the attempts start over.
GiveUp_StartsOver ==
    /\ attempt' = 1 /\ sleeps' = <<>>
    /\ UNCHANGED <<stage, checks>>
GiveUp == NextCheck

CheckPasses ==
    /\ Waiting /\ Awaited \in up
    /\ healthy' = healthy \cup {Awaited}
    /\ NextCheck
    /\ UNCHANGED <<appVars, aborted, up>>

CheckFails ==
    /\ Waiting /\ Awaited \notin up
    /\ \/ /\ attempt >= Retries
          /\ GiveUp
       \/ /\ attempt < Retries
          /\ sleeps' = Append(sleeps, BackoffBase ^ attempt)
          /\ attempt' = attempt + 1
          /\ UNCHANGED <<stage, checks>>
    /\ UNCHANGED <<healthy, appVars, aborted, up>>

AllOk == healthy = Services

ChecksDone ==
    /\ stage = "checking" /\ checks = Len(HealthChecks)
    /\ stage' = IF AllOk THEN "migrating" ELSE "exited"
    /\ UNCHANGED <<checkVars, appVars, aborted, up>>

\* alembic upgrade head succeeds, fails or runs into its timeout.
RunMigrations ==
    /\ stage = "migrating"
    /\ stage' \in {"launching", "exited"}
    /\ UNCHANGED <<checkVars, appVars, aborted, up>>

Start(p) ==
    /\ app' = [app EXCEPT ![p] = "running"]
    /\ starts' = [starts EXCEPT ![p] = @ + 1]

\* Its open() or Popen() raises.  Nothing up to main() catches the exception: it
\* ends start.py, and what is running runs on.
StartRaises ==
    /\ stage' = "exited" /\ aborted' = TRUE
    /\ UNCHANGED <<app, starts>>

Launch ==
    /\ stage = "launching" /\ launched < Len(AppProcesses)
    /\ \/ /\ Start(AppProcesses[launched + 1])
          /\ launched' = launched + 1
          /\ UNCHANGED <<stage, aborted>>
       \/ /\ StartRaises
          /\ UNCHANGED launched
    /\ UNCHANGED <<checkVars, restarts, active, up>>

Supervise ==
    /\ stage = "launching" /\ launched = Len(AppProcesses)
    /\ stage' = "supervising"
    /\ active' = Apps
    /\ UNCHANGED <<checkVars, launched, app, restarts, starts, aborted, up>>

\* Mutants: a restart that is not watched; one that is
\* counted and not made.
Restart_Unwatched(p) == Start(p) /\ active' = active \ {p}
Restart_NotMade(p)   == UNCHANGED <<app, starts, active>>
Restart(p)           == Start(p) /\ UNCHANGED active

\* The first failure is counted, then answered.
HandleDeath(p) ==
    /\ app[p] = "failed" /\ restarts[p] = 0
    /\ restarts' = [restarts EXCEPT ![p] = @ + 1]
    /\ \/ Restart(p) /\ UNCHANGED <<stage, aborted>>
       \/ StartRaises /\ UNCHANGED active

\* A clean exit is left alone, a second failure given up.
Drop(p) ==
    /\ app[p] = "exited_0" \/ (app[p] = "failed" /\ restarts[p] > 0)
    /\ active' = active \ {p}
    /\ UNCHANGED <<stage, aborted, app, restarts, starts>>

\* The loop finds a process dead.
FindDead(p) ==
    /\ stage = "supervising" /\ p \in active
    /\ HandleDeath(p) \/ Drop(p)
    /\ UNCHANGED <<checkVars, launched, up>>

NothingLeft ==
    /\ stage = "supervising" /\ active = {}
    /\ stage' = "exited"
    /\ UNCHANGED <<checkVars, appVars, aborted, up>>

\* SIGINT ends start.py; only _supervise catches it, and terminates what is alive.
Interrupt ==
    /\ stage # "exited"
    /\ stage' = "exited"
    /\ aborted' = (stage = "launching")
    /\ app' = [p \in Apps |-> IF stage = "supervising" /\ p \in active /\ app[p] = "running"
                             THEN "failed" ELSE app[p]]
    /\ UNCHANGED <<checkVars, launched, restarts, starts, active, up>>

Exits(p) ==
    /\ app[p] = "running"
    /\ \E how \in {"exited_0", "failed"} : app' = [app EXCEPT ![p] = how]
    /\ UNCHANGED <<stage, checkVars, launched, restarts, starts, active, aborted, up>>

ServiceChanges(s) ==
    /\ up' = IF s \in up THEN up \ {s} ELSE up \cup {s}
    /\ UNCHANGED <<stage, checkVars, appVars, aborted>>

Main ==
    \/ CheckPasses \/ CheckFails \/ ChecksDone \/ RunMigrations
    \/ Launch \/ Supervise \/ NothingLeft
    \/ \E p \in Apps : FindDead(p)

Next ==
    \/ Main \/ Interrupt
    \/ \E p \in Apps : Exits(p)
    \/ \E s \in Services : ServiceChanges(s)

Spec == Init /\ [][Next]_vars

\* start.py runs: its sleeps end, and its scan comes to every active process.
FairSpec ==
    /\ Spec
    /\ WF_vars(CheckPasses \/ CheckFails \/ ChecksDone \/ RunMigrations
               \/ Launch \/ Supervise \/ NothingLeft)
    /\ \A p \in Apps : WF_vars(FindDead(p))

-----------------------------------------------------------------------------
\* Types; in particular a service is tried Retries times at most, each wait twice
\* (BackoffBase times) the one before, and a process is started twice at most.
TypeOK ==
    /\ stage \in {"checking", "migrating", "launching", "supervising", "exited"}
    /\ checks \in 0 .. Len(HealthChecks)
    /\ attempt \in 1 .. Retries
    /\ sleeps = [i \in 1 .. attempt - 1 |-> BackoffBase ^ i]
    /\ healthy \subseteq Services
    /\ launched \in 0 .. Len(AppProcesses)
    /\ app \in [Apps -> {"not_started", "running", "exited_0", "failed"}]
    /\ restarts \in [Apps -> 0 .. 1]
    /\ starts \in [Apps -> 0 .. 2]
    /\ active \subseteq Apps
    /\ aborted \in BOOLEAN
    /\ up \subseteq Services

\* No process is started unless every service was found healthy before.
LaunchedHealthy == \A p \in Apps : starts[p] > 0 => healthy = Services

\* A running process is looked at by the supervisor, and none is left when the
\* supervisor has exited -- unless an exception ended it: a start that raised, or
\* SIGINT before supervision began.  Then nobody watches what runs on.
NoneUnwatched ==
    \A p \in Apps : app[p] = "running" =>
        \/ stage = "launching"
        \/ stage = "supervising" /\ p \in active
        \/ stage = "exited" /\ aborted

\* The types, no start on unhealthy services, and nobody unwatched by a
\* supervisor that runs or has ended as it should.
SupervisionInv == TypeOK /\ LaunchedHealthy /\ NoneUnwatched

\* Startup comes to a decision whatever the services do.
StartupDecides == stage = "checking" ~> stage # "checking"

\* The first failure of a process is answered by starting it again, unless the
\* supervisor is interrupted first, or starting a process raises.
FirstFailureRestarted ==
    \A p \in Apps : stage = "supervising" /\ app[p] = "failed" /\ restarts[p] = 0
        ~> app[p] = "running" \/ stage = "exited"

=============================================================================
