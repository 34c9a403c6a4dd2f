-------------------------- MODULE SupervisorProofs --------------------------
(***************************************************************************)
(* Theorems about Supervisor for any sequences of services and processes   *)
(* and any number of attempts: what is started, when, and who watches it.  *)
(***************************************************************************)
EXTENDS Supervisor, TLAPS

(* The inductive invariant. *)

\* What main() has behind it at each stage.
StageInv ==
    /\ stage \in {"checking", "migrating"} => \A p \in Apps : starts[p] = 0
    /\ stage \in {"checking", "migrating"} => launched = 0
    /\ stage \in {"migrating", "launching", "supervising"} => healthy = Services

\* A process is started when its turn comes, and again for each restart.
StartsInv ==
    /\ \A i \in DOMAIN AppProcesses : i > launched =>
         /\ starts[AppProcesses[i]] = 0
         /\ restarts[AppProcesses[i]] = 0
         /\ app[AppProcesses[i]] = "not_started"
    /\ \A p \in Apps : starts[p] <= 1 + restarts[p]

IInv == SupervisionInv /\ StageInv /\ StartsInv

-----------------------------------------------------------------------------
(* Lemmas about the two sequences. *)

LEMMA ServiceSequence ==
    /\ Len(HealthChecks) \in Nat /\ Retries \in Nat \ {0} 
    /\ \A i \in 1 .. Len(HealthChecks) : HealthChecks[i] \in Services
BY SupervisorAssumption, SequencesAssumption

LEMMA AppSequence ==
    /\ Len(AppProcesses) \in Nat /\ DOMAIN AppProcesses = 1 .. Len(AppProcesses)
    /\ \A i \in 1 .. Len(AppProcesses) : AppProcesses[i] \in Apps
    /\ \A i, j \in 1 .. Len(AppProcesses) : AppProcesses[i] = AppProcesses[j] => i = j
    /\ \A p \in Apps : \E i \in 1 .. Len(AppProcesses) : p = AppProcesses[i]
BY SupervisorAssumption, SequencesAssumption DEF Apps

LEMMA SleepsBackOff ==
    ASSUME NEW n \in Nat \ {0}, NEW s, s = [i \in 1 .. n - 1 |-> BackoffBase ^ i]
    PROVE  Append(s, BackoffBase ^ n) = [i \in 1 .. n |-> BackoffBase ^ i]
<1> DEFINE f[i \in Nat] == BackoffBase ^ i
<1>1. Len(s) = n - 1 /\ s = [i \in 1 .. n - 1 |-> f[i]]
  OBVIOUS
<1>2. f[n] = BackoffBase ^ n
  OBVIOUS
<1> HIDE DEF f
<1>3. Append(s, f[n]) = [i \in 1 .. n |-> f[i]]
  BY <1>1
<1> QED BY <1>2, <1>3 DEF f

-----------------------------------------------------------------------------
(* The initial state and the steps keep IInv. *)

LEMMA InitSupervision == Init => IInv
<1> SUFFICES ASSUME Init PROVE IInv
  OBVIOUS
<1>1. sleeps = [i \in 1 .. attempt - 1 |-> BackoffBase ^ i]
  BY DEF Init
<1>2. /\ stage = "checking" /\ aborted = FALSE
      /\ app \in [Apps -> {"not_started", "running", "exited_0", "failed"}]
      /\ restarts \in [Apps -> 0 .. 1] /\ starts \in [Apps -> 0 .. 2]
  BY DEF Init
<1>3. /\ checks \in 0 .. Len(HealthChecks) /\ launched \in 0 .. Len(AppProcesses)
      /\ attempt \in 1 .. Retries
      /\ healthy \subseteq Services /\ active \subseteq Apps /\ up \subseteq Services
  BY ServiceSequence, AppSequence DEF Init
<1>4. TypeOK
  BY <1>1, <1>2, <1>3 DEF TypeOK
<1> QED BY <1>4, AppSequence
        DEF Init, IInv, SupervisionInv, LaunchedHealthy, NoneUnwatched, StageInv, StartsInv

\* The loop over the health checks.
LEMMA ChecksSupervision ==
    ASSUME IInv, CheckPasses \/ CheckFails
    PROVE  IInv'
<1>1. /\ stage = "checking" /\ checks < Len(HealthChecks) /\ UNCHANGED <<stage, appVars, aborted, up>>
      /\ healthy' \in {healthy, healthy \cup {Awaited}}
      /\ \/ checks' = checks + 1 /\ attempt' = 1 /\ sleeps' = <<>>
         \/ /\ checks' = checks /\ attempt' = attempt + 1 /\ attempt < Retries
            /\ sleeps' = Append(sleeps, BackoffBase ^ attempt)
  BY DEF CheckPasses, CheckFails, Waiting, NextCheck, GiveUp
<1>2. /\ TypeOK /\ checks \in Nat /\ attempt \in Nat \ {0} /\ Retries \in Nat \ {0}
      /\ sleeps = [i \in 1 .. attempt - 1 |-> BackoffBase ^ i]
  BY ServiceSequence DEF IInv, SupervisionInv, TypeOK
<1>3. Awaited \in Services
  BY <1>1, <1>2, ServiceSequence DEF Awaited
<1>4. sleeps' = [i \in 1 .. attempt' - 1 |-> BackoffBase ^ i]
  <2>1. CASE attempt' = 1 /\ sleeps' = <<>>
    BY <2>1
  <2>2. CASE attempt' = attempt + 1 /\ sleeps' = Append(sleeps, BackoffBase ^ attempt)
    <3>1. sleeps' = [i \in 1 .. attempt |-> BackoffBase ^ i]
      BY <1>2, <2>2, SleepsBackOff
    <3>2. attempt' - 1 = attempt
      BY <1>2, <2>2
    <3> QED BY <3>1, <3>2
  <2> QED BY <1>1, <2>1, <2>2
<1>5. checks' \in 0 .. Len(HealthChecks) /\ attempt' \in 1 .. Retries
  BY <1>1, <1>2, ServiceSequence
<1>6. TypeOK'
  BY <1>1, <1>2, <1>3, <1>4, <1>5 DEF TypeOK, appVars
<1> QED BY <1>1, <1>6
        DEF IInv, SupervisionInv, LaunchedHealthy, NoneUnwatched, StageInv, StartsInv, appVars

\* What main() does between its loops changes no process.
LEMMA StagesSupervision ==
    ASSUME IInv, ChecksDone \/ RunMigrations \/ NothingLeft
    PROVE  IInv'
<1>1. /\ UNCHANGED <<checkVars, appVars, aborted, up>>
      /\ \/ stage = "checking" /\ stage' = "migrating" /\ healthy = Services
         \/ stage = "checking" /\ stage' = "exited"
         \/ stage = "migrating" /\ stage' \in {"launching", "exited"}
         \/ stage = "supervising" /\ stage' = "exited" /\ active = {}
  BY DEF ChecksDone, RunMigrations, NothingLeft, AllOk
<1>2. TypeOK'
  BY <1>1 DEF IInv, SupervisionInv, TypeOK, checkVars, appVars
<1>3. StageInv' /\ StartsInv' /\ LaunchedHealthy'
  BY <1>1 DEF IInv, StageInv, StartsInv, SupervisionInv, LaunchedHealthy, checkVars, appVars
<1>4. NoneUnwatched'
  BY <1>1 DEF IInv, SupervisionInv, NoneUnwatched, checkVars, appVars
<1> QED BY <1>2, <1>3, <1>4 DEF IInv, SupervisionInv

\* A start that raises ends the supervision and starts nothing.
LEMMA RaisesSupervision ==
    ASSUME IInv, StartRaises, NEW p \in Apps,
           UNCHANGED <<checkVars, launched, active, up>>,
           \/ UNCHANGED restarts
           \/ app[p] = "failed" /\ restarts[p] = 0 /\ restarts' = [restarts EXCEPT ![p] = restarts[p] + 1]
    PROVE  IInv'
<1>1. /\ stage' = "exited" /\ aborted' = TRUE /\ UNCHANGED <<app, starts>>
      /\ restarts \in [Apps -> 0 .. 1] /\ starts \in [Apps -> 0 .. 2]
  BY DEF StartRaises, IInv, SupervisionInv, TypeOK
<1>2. /\ restarts' \in [Apps -> 0 .. 1]
      /\ \A q \in Apps : restarts'[q] >= restarts[q]
      /\ \A q \in Apps : app[q] # "failed" => restarts'[q] = restarts[q]
  BY <1>1
<1>3. TypeOK'
  BY <1>1, <1>2 DEF IInv, SupervisionInv, TypeOK, checkVars
<1>4. StageInv' /\ LaunchedHealthy' /\ NoneUnwatched'
  BY <1>1 DEF IInv, SupervisionInv, StageInv, LaunchedHealthy, NoneUnwatched, checkVars
<1>5. StartsInv'
  <2>1. ASSUME NEW i \in DOMAIN AppProcesses, i > launched
        PROVE  /\ starts'[AppProcesses[i]] = 0
               /\ restarts'[AppProcesses[i]] = 0
               /\ app'[AppProcesses[i]] = "not_started"
    BY <1>1, <1>2, <2>1, AppSequence DEF IInv, StartsInv
  <2>2. \A q \in Apps : starts'[q] <= 1 + restarts'[q]
    BY <1>1, <1>2 DEF IInv, StartsInv
  <2> QED BY <2>1, <2>2 DEF StartsInv
<1> QED BY <1>3, <1>4, <1>5 DEF IInv, SupervisionInv

LEMMA LaunchSupervision ==
    ASSUME IInv, Launch, ~StartRaises
    PROVE  IInv'
<1> DEFINE p == AppProcesses[launched + 1]
<1>1. /\ stage = "launching" /\ launched < Len(AppProcesses) /\ launched' = launched + 1
      /\ app' = [app EXCEPT ![p] = "running"]
      /\ starts' = [starts EXCEPT ![p] = starts[p] + 1]
      /\ UNCHANGED <<stage, checkVars, restarts, active, aborted, up>>
  BY DEF Launch, Start
<1>2. /\ TypeOK /\ launched \in Nat /\ launched + 1 \in 1 .. Len(AppProcesses)
      /\ starts \in [Apps -> 0 .. 2] /\ restarts \in [Apps -> 0 .. 1]
      /\ app \in [Apps -> {"not_started", "running", "exited_0", "failed"}]
  BY <1>1, AppSequence DEF IInv, SupervisionInv, TypeOK
<1>3. p \in Apps /\ starts[p] = 0 /\ restarts[p] = 0
  BY <1>2, AppSequence DEF IInv, StartsInv
<1>4. \A i \in 1 .. Len(AppProcesses) : i > launched + 1 => AppProcesses[i] # p /\ i > launched
  BY <1>2, AppSequence
<1> HIDE DEF p
<1>5. \A q \in Apps : /\ app'[q] = IF q = p THEN "running" ELSE app[q]
                      /\ starts'[q] = IF q = p THEN 1 ELSE starts[q]
  BY <1>1, <1>2, <1>3
<1>6. TypeOK'
  <2>1. starts' \in [Apps -> 0 .. 2] /\ app' \in [Apps -> {"not_started", "running", "exited_0", "failed"}]
    BY <1>1, <1>2, <1>3
  <2>2. launched' \in 0 .. Len(AppProcesses)
    BY <1>1, <1>2
  <2> QED BY <1>1, <1>2, <2>1, <2>2 DEF TypeOK, checkVars
<1>7. StageInv' /\ LaunchedHealthy'
  BY <1>1 DEF IInv, StageInv, LaunchedHealthy, checkVars
<1>8. StartsInv'
  <2>1. ASSUME NEW i \in DOMAIN AppProcesses, i > launched'
        PROVE  /\ starts'[AppProcesses[i]] = 0
               /\ restarts'[AppProcesses[i]] = 0
               /\ app'[AppProcesses[i]] = "not_started"
    <3>1. /\ i > launched /\ AppProcesses[i] # p /\ AppProcesses[i] \in Apps
      BY <1>1, <1>4, <2>1, AppSequence
    <3> QED BY <1>1, <1>5, <3>1 DEF IInv, StartsInv
  <2>2. \A q \in Apps : starts'[q] <= 1 + restarts'[q]
    BY <1>1, <1>3, <1>5 DEF IInv, StartsInv
  <2> QED BY <2>1, <2>2 DEF StartsInv
<1>9. NoneUnwatched'
  BY <1>1 DEF NoneUnwatched
<1> QED BY <1>6, <1>7, <1>8, <1>9 DEF IInv, SupervisionInv

LEMMA SuperviseSupervision ==
    ASSUME IInv, Supervise
    PROVE  IInv'
<1>1. /\ stage = "launching" /\ stage' = "supervising" /\ active' = Apps
      /\ UNCHANGED <<checkVars, launched, app, restarts, starts, aborted, up>>
  BY DEF Supervise
<1>2. TypeOK'
  BY <1>1 DEF IInv, SupervisionInv, TypeOK, checkVars
<1> QED BY <1>1, <1>2
        DEF IInv, SupervisionInv, LaunchedHealthy, NoneUnwatched, StageInv, StartsInv, checkVars

\* A restart starts a process that had failed, once more than it was restarted.
LEMMA FindDeadSupervision ==
    ASSUME IInv, NEW p \in Apps, FindDead(p), ~StartRaises
    PROVE  IInv'
<1>1. /\ stage = "supervising" /\ p \in active
      /\ UNCHANGED <<stage, checkVars, launched, aborted, up>>
  BY DEF FindDead, HandleDeath, Drop
<1>2. /\ TypeOK /\ starts \in [Apps -> 0 .. 2] /\ restarts \in [Apps -> 0 .. 1]
      /\ app \in [Apps -> {"not_started", "running", "exited_0", "failed"}]
  BY DEF IInv, SupervisionInv, TypeOK
<1>3. CASE active' = active \ {p} /\ app[p] # "running" /\ UNCHANGED <<app, restarts, starts>>
  <2>1. TypeOK'
    BY <1>1, <1>2, <1>3 DEF TypeOK, checkVars
  <2> QED BY <1>1, <1>3, <2>1
          DEF IInv, SupervisionInv, LaunchedHealthy, NoneUnwatched, StageInv, StartsInv, checkVars
<1>4. CASE /\ app[p] = "failed" /\ restarts[p] = 0 /\ Restart(p)
           /\ restarts' = [restarts EXCEPT ![p] = restarts[p] + 1]
  <2>1. starts[p] \in 0 .. 1
    BY <1>2, <1>4 DEF IInv, StartsInv
  <2>2. /\ active' = active
        /\ \A q \in Apps : /\ app'[q] = IF q = p THEN "running" ELSE app[q]
                           /\ starts'[q] = IF q = p THEN starts[p] + 1 ELSE starts[q]
                           /\ restarts'[q] = IF q = p THEN 1 ELSE restarts[q]
    BY <1>2, <1>4 DEF Restart, Start
  <2>3. TypeOK'
    <3>1. /\ app' \in [Apps -> {"not_started", "running", "exited_0", "failed"}]
          /\ starts' \in [Apps -> 0 .. 2] /\ restarts' \in [Apps -> 0 .. 1]
      BY <1>2, <1>4, <2>1 DEF Restart, Start
    <3> QED BY <1>1, <1>2, <2>2, <3>1 DEF TypeOK, checkVars
  <2>4. StageInv' /\ LaunchedHealthy' /\ NoneUnwatched'
    BY <1>1, <2>2 DEF IInv, SupervisionInv, StageInv, LaunchedHealthy, NoneUnwatched, checkVars
  <2>5. StartsInv'
    <3>1. ASSUME NEW i \in DOMAIN AppProcesses, i > launched
          PROVE  /\ starts'[AppProcesses[i]] = 0
                 /\ restarts'[AppProcesses[i]] = 0
                 /\ app'[AppProcesses[i]] = "not_started"
      <4>1. /\ AppProcesses[i] \in Apps /\ app[AppProcesses[i]] = "not_started"
            /\ starts[AppProcesses[i]] = 0 /\ restarts[AppProcesses[i]] = 0
        BY <3>1, AppSequence DEF IInv, StartsInv
      <4> QED BY <1>4, <2>2, <4>1
    <3>2. \A q \in Apps : starts'[q] <= 1 + restarts'[q]
      BY <2>1, <2>2 DEF IInv, StartsInv
    <3> QED BY <1>1, <3>1, <3>2 DEF StartsInv
  <2> QED BY <2>3, <2>4, <2>5 DEF IInv, SupervisionInv
<1> QED BY <1>3, <1>4 DEF FindDead, HandleDeath, Drop

\* Processes and services that change on their own, and SIGINT.
LEMMA EnvironmentSupervision ==
    ASSUME IInv, Interrupt \/ (\E p \in Apps : Exits(p)) \/ (\E s \in Services : ServiceChanges(s))
    PROVE  IInv'
<1>1. /\ UNCHANGED <<checkVars, launched, restarts, starts, active>>
      /\ up' \subseteq Services
      /\ app' \in [Apps -> {"not_started", "running", "exited_0", "failed"}]
      /\ \A q \in Apps : app[q] = "not_started" => app'[q] = "not_started"
      /\ \A q \in Apps : app'[q] = "running" => app[q] = "running"
      /\ aborted' \in BOOLEAN
      /\ \/ stage' = stage /\ aborted' = aborted
         \/ /\ stage' = "exited" /\ stage # "exited"
            /\ stage = "launching" => aborted'
            /\ stage = "supervising" => \A q \in active : app'[q] # "running"
  <2>1. TypeOK /\ app \in [Apps -> {"not_started", "running", "exited_0", "failed"}]
        /\ active \subseteq Apps /\ up \subseteq Services /\ aborted \in BOOLEAN
    BY DEF IInv, SupervisionInv, TypeOK
  <2>2. CASE Interrupt
    BY <2>1, <2>2 DEF Interrupt
  <2>3. CASE \E p \in Apps : Exits(p)
    BY <2>1, <2>3 DEF Exits
  <2>4. CASE \E s \in Services : ServiceChanges(s)
    BY <2>1, <2>4 DEF ServiceChanges, appVars
  <2> QED BY <2>2, <2>3, <2>4
<1>2. TypeOK'
  BY <1>1 DEF IInv, SupervisionInv, TypeOK, checkVars
<1>3. StageInv' /\ LaunchedHealthy' /\ NoneUnwatched'
  BY <1>1 DEF IInv, SupervisionInv, TypeOK, StageInv, LaunchedHealthy, NoneUnwatched, checkVars
<1>4. StartsInv'
  BY <1>1, AppSequence DEF IInv, StartsInv
<1> QED BY <1>2, <1>3, <1>4 DEF IInv, SupervisionInv

LEMMA NextSupervision == IInv /\ [Next]_vars => IInv'
<1> SUFFICES ASSUME IInv, [Next]_vars PROVE IInv'
  OBVIOUS
<1>1. CASE UNCHANGED vars
  BY <1>1 DEF vars, checkVars, appVars, IInv, SupervisionInv, TypeOK, LaunchedHealthy,
              NoneUnwatched, StageInv, StartsInv
<1>2. ASSUME Launch, StartRaises PROVE IInv'
  BY <1>2, AppSequence, RaisesSupervision, SupervisorAssumption
     DEF Launch, StartRaises, Start, IInv, SupervisionInv, TypeOK
<1>3. ASSUME NEW p \in Apps, FindDead(p), StartRaises PROVE IInv'
  <2>1. HandleDeath(p) /\ UNCHANGED <<checkVars, launched, up>> /\ stage # "exited"
    BY <1>3 DEF FindDead, Drop, StartRaises
  <2>2. UNCHANGED active /\ app[p] = "failed" /\ restarts[p] = 0
        /\ restarts' = [restarts EXCEPT ![p] = restarts[p] + 1]
    BY <1>3, <2>1 DEF HandleDeath, StartRaises
  <2> QED BY <1>3, <2>1, <2>2, RaisesSupervision
<1> QED
  BY <1>1, <1>2, <1>3, ChecksSupervision, StagesSupervision, LaunchSupervision,
     SuperviseSupervision, FindDeadSupervision, EnvironmentSupervision DEF Next, Main

-----------------------------------------------------------------------------
(* The theorems. *)

\* The types -- a service is tried Retries times at most, with waits that grow by
\* the base, and a process started twice at most --, nothing is started before
\* every service was found healthy, and nothing runs that nobody watches unless an
\* exception ended the supervisor.
THEOREM SupervisionSound == Spec => []SupervisionInv
<1>1. Init => IInv
  BY InitSupervision
<1>2. IInv /\ [Next]_vars => IInv'
  BY NextSupervision
<1>3. IInv => SupervisionInv
  BY DEF IInv
<1> QED BY <1>1, <1>2, <1>3, PTL DEF Spec

-----------------------------------------------------------------------------
(* What StartupDecides and FirstFailureRestarted rest on besides fairness. *)

\* Waiting for the services, start.py only moves on: to the next attempt or to the
\* next service.
ChecksAdvance ==
    [][stage' = stage => \/ checks' = checks + 1 /\ attempt' = 1
                         \/ checks' = checks /\ attempt' = attempt + 1]_<<stage, checks, attempt>>

\* A process that has failed for the first time is still looked at, so the scan
\* that restarts it comes.
FailedWatched ==
    \A p \in Apps : stage = "supervising" /\ app[p] = "failed" /\ restarts[p] = 0 => p \in active

LEMMA StepAdvances ==
    ASSUME Next, stage' = stage
    PROVE  \/ checks' = checks + 1 /\ attempt' = 1
           \/ checks' = checks /\ attempt' = attempt + 1
           \/ UNCHANGED <<checks, attempt>>
<1>1. CASE CheckPasses \/ CheckFails
  BY <1>1 DEF CheckPasses, CheckFails, NextCheck, GiveUp
<1>2. CASE ~(CheckPasses \/ CheckFails)
  BY <1>2 DEF Next, Main, ChecksDone, RunMigrations, Launch, Supervise, NothingLeft, FindDead,
              HandleDeath, Drop, Interrupt, Exits, ServiceChanges, checkVars
<1> QED BY <1>1, <1>2

\* The wait for the services is finite: each of its steps is a further attempt, of
\* at most Retries (SupervisionSound), or goes to a further service.
THEOREM StartupAdvances == Spec => ChecksAdvance
<1>1. [Next]_vars =>
        [stage' = stage => \/ checks' = checks + 1 /\ attempt' = 1
                           \/ checks' = checks /\ attempt' = attempt + 1]_<<stage, checks, attempt>>
  BY StepAdvances DEF vars, checkVars
<1> QED BY <1>1, PTL DEF Spec, ChecksAdvance

LEMMA NextFailedWatched ==
    ASSUME IInv, FailedWatched, [Next]_vars
    PROVE  FailedWatched'
<1> SUFFICES ASSUME NEW p \in Apps,
                    stage' = "supervising", app'[p] = "failed", restarts'[p] = 0
             PROVE  p \in active'
  BY DEF FailedWatched
<1>0. /\ app \in [Apps -> {"not_started", "running", "exited_0", "failed"}]
      /\ restarts \in [Apps -> 0 .. 1]
      /\ stage = "supervising" /\ app[p] = "running" => p \in active
  BY DEF IInv, SupervisionInv, TypeOK, NoneUnwatched
<1>1. CASE Supervise
  BY <1>1 DEF Supervise
<1>2. ASSUME NEW q \in Apps, FindDead(q)
      PROVE  p \in active'
  <2>1. CASE active' = active /\ Restart(q) /\ restarts' = [restarts EXCEPT ![q] = restarts[q] + 1]
    <3>1. p # q
      BY <1>0, <2>1 DEF Restart, Start
    <3>2. app'[p] = app[p] /\ restarts'[p] = restarts[p]
      BY <1>0, <2>1, <3>1 DEF Restart, Start
    <3> QED BY <1>2, <2>1, <3>2 DEF FindDead, FailedWatched
  <2>2. CASE active' = active \ {q} /\ UNCHANGED <<app, restarts, starts>>
             /\ (app[q] = "exited_0" \/ restarts[q] > 0)
    BY <1>0, <1>2, <2>2 DEF FindDead, FailedWatched
  <2>3. ~StartRaises
    BY DEF StartRaises
  <2> QED BY <1>2, <2>1, <2>2, <2>3 DEF FindDead, HandleDeath, Drop, Restart
<1>3. ASSUME NEW q \in Apps, Exits(q)
      PROVE  p \in active'
  <2>1. stage = "supervising" /\ active' = active /\ restarts' = restarts
        /\ (app[p] = "failed" \/ app[p] = "running")
    BY <1>0, <1>3 DEF Exits
  <2> QED BY <1>0, <2>1 DEF FailedWatched
<1>4. CASE \/ CheckPasses \/ CheckFails \/ ChecksDone \/ RunMigrations \/ Launch \/ NothingLeft
           \/ Interrupt
  <2>1. stage' # "supervising"
    BY <1>4 DEF CheckPasses, CheckFails, Waiting, NextCheck, GiveUp, ChecksDone, RunMigrations,
                Launch, StartRaises, NothingLeft, Interrupt
  <2> QED BY <2>1
<1>5. CASE (\E s \in Services : ServiceChanges(s)) \/ UNCHANGED vars
  BY <1>5 DEF ServiceChanges, appVars, vars, FailedWatched
<1> QED BY <1>1, <1>2, <1>3, <1>4, <1>5 DEF Next, Main

\* No failure is overlooked: whoever fails a first time while supervised remains
\* on the list of those that the loop looks at until it is restarted.
THEOREM FailuresWatched == Spec => []FailedWatched
<1>1. Init => IInv /\ FailedWatched
  BY InitSupervision DEF Init, FailedWatched
<1>2. IInv /\ FailedWatched /\ [Next]_vars => IInv' /\ FailedWatched'
  BY NextSupervision, NextFailedWatched
<1> QED BY <1>1, <1>2, PTL DEF Spec

=============================================================================
