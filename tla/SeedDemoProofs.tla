--------------------------- MODULE SeedDemoProofs ---------------------------
(***************************************************************************)
(* Theorems about SeedDemo for any number of scenarios and of starts: the  *)
(* mark that keeps a scenario from being seeded again is never there       *)
(* without its data, however often and wherever the script was stopped.    *)
(***************************************************************************)
EXTENDS SeedDemo, TLAPS

Seeding == {"commit", "delete", "zadd", "investigate"}

\* What the script relies on between its steps.
ScriptInv ==
    /\ step # "stopped" => start > 0
    /\ step \in Seeding => ~AlreadySeeded(scenario)
    /\ step \in Seeding \ {"commit"} => transactions[scenario] # 0

\* The rows are never newer than the script, and come before the set.
StoresInv ==
    \A s \in S : transactions[s] <= start /\ (velocity[s] # 0 => transactions[s] # 0)

\* What has been counted was in the set, and so has its rows.
CheckInv ==
    /\ check.account \in S \/ check = NoCheck
    /\ check.phase # "idle" /\ check.counted # 0 => transactions[check.account] # 0

DemoInv == SeedInv /\ CountsHaveVolumes /\ ScriptInv /\ StoresInv /\ CheckInv

-----------------------------------------------------------------------------
LEMMA InitDemo == Init => DemoInv
BY SeedAssumption
   DEF Init, DemoInv, SeedInv, TypeOK, MarkedComplete, ScoresNotOlder, CountsHaveVolumes, ScriptInv,
       StoresInv, CheckInv, NoCheck, S, Starts, Seeding, AlreadySeeded

\* Steps of the script that leave the stores alone.
LEMMA ScriptKeeps ==
    ASSUME DemoInv, Start \/ CheckSeeded \/ Stop
    PROVE  DemoInv'
<1>1. /\ UNCHANGED <<transactions, reports, queued, velocity, check>>
      /\ start <= start' /\ start' \in Starts
  BY SeedAssumption DEF DemoInv, SeedInv, TypeOK, Start, CheckSeeded, Stop, Starts, seeded
<1>2. scenario' \in S
  BY SeedAssumption DEF DemoInv, SeedInv, TypeOK, Start, CheckSeeded, NextScenario, Stop, S
<1>3. step' \in {"stopped", "check", "commit"}
  BY DEF Start, CheckSeeded, NextScenario, AfterCheck, Stop
<1>4. step' # "stopped" => start' > 0
  BY SeedAssumption DEF DemoInv, SeedInv, TypeOK, ScriptInv, Start, CheckSeeded, Stop, Starts
<1>5. step' = "commit" => ~AlreadySeeded(scenario')
  BY DEF Start, CheckSeeded, NextScenario, AfterCheck, Stop, AlreadySeeded
<1>6. TypeOK'
  BY <1>1, <1>2, <1>3 DEF DemoInv, SeedInv, TypeOK
<1>7. MarkedComplete' /\ ScoresNotOlder' /\ CountsHaveVolumes' /\ CheckInv'
  BY <1>1 DEF DemoInv, SeedInv, MarkedComplete, ScoresNotOlder, CountsHaveVolumes, CheckInv, AlreadySeeded
<1>8. ScriptInv'
  BY <1>1, <1>3, <1>4, <1>5 DEF ScriptInv, Seeding, AlreadySeeded
<1>9. StoresInv'
  BY <1>1, SeedAssumption DEF DemoInv, SeedInv, TypeOK, StoresInv, Starts
<1> QED BY <1>6, <1>7, <1>8, <1>9 DEF DemoInv, SeedInv

\* Steps of the script that change one of the stores.
LEMMA StoresKeep ==
    ASSUME DemoInv, CommitTransactions \/ DeleteVelocity \/ AddVelocity
    PROVE  DemoInv'
<1>1. /\ UNCHANGED <<start, scenario, reports, queued, check>>
      /\ step \in Seeding /\ step' \in Seeding \ {"commit"}
  BY DEF CommitTransactions, DeleteVelocity, AddVelocity, AfterDelete, Seeding
<1>2. start \in Starts /\ start > 0 /\ scenario \in S /\ ~AlreadySeeded(scenario)
  BY <1>1 DEF DemoInv, SeedInv, TypeOK, ScriptInv, Seeding
<1>3. /\ transactions' \in [S -> Starts] /\ velocity' \in [S -> Starts]
      /\ \A s \in S : s # scenario => transactions'[s] = transactions[s] /\ velocity'[s] = velocity[s]
      /\ \A s \in S : transactions[s] # 0 => transactions'[s] = transactions[s]
      /\ transactions'[scenario] # 0 /\ transactions'[scenario] <= start
      /\ velocity'[scenario] \in {velocity[scenario], 0, start}
      /\ step' = "investigate" => velocity'[scenario] = start
      /\ velocity'[scenario] = velocity[scenario] => velocity'[scenario] = 0 \/ UNCHANGED transactions \/ velocity'[scenario] = start
  <2>1. CASE CommitTransactions
    BY <1>2, <2>1, SeedAssumption DEF CommitTransactions, Inserted, DemoInv, SeedInv, TypeOK, StoresInv, Starts
  <2>2. CASE DeleteVelocity
    BY <1>1, <1>2, <2>2, SeedAssumption
       DEF DeleteVelocity, AfterDelete, DemoInv, SeedInv, TypeOK, ScriptInv, StoresInv, Starts, Seeding
  <2>3. CASE AddVelocity
    BY <1>1, <1>2, <2>3, SeedAssumption
       DEF AddVelocity, DemoInv, SeedInv, TypeOK, ScriptInv, StoresInv, Starts, Seeding
  <2> QED BY <2>1, <2>2, <2>3
<1>4. TypeOK'
  BY <1>1, <1>2, <1>3 DEF DemoInv, SeedInv, TypeOK, Seeding
<1>5. MarkedComplete'
  BY <1>1, <1>2, <1>3 DEF DemoInv, SeedInv, MarkedComplete, AlreadySeeded
<1>6. ScoresNotOlder'
  BY <1>1, <1>2, <1>3 DEF DemoInv, SeedInv, TypeOK, ScoresNotOlder, Starts
<1>7. CountsHaveVolumes' /\ CheckInv'
  BY <1>1, <1>3 DEF DemoInv, CountsHaveVolumes, CheckInv, NoCheck
<1>8. ScriptInv'
  BY <1>1, <1>2, <1>3 DEF ScriptInv, Seeding, AlreadySeeded
<1>9. StoresInv'
  BY <1>1, <1>2, <1>3 DEF DemoInv, StoresInv
<1> QED BY <1>4, <1>5, <1>6, <1>7, <1>8, <1>9 DEF DemoInv, SeedInv

\* The investigation leaves its mark on a scenario that has both its data.
LEMMA InvestigateKeeps ==
    ASSUME DemoInv, Investigate
    PROVE  DemoInv'
<1>1. UNCHANGED <<start, transactions, velocity, check>> /\ step' \in {"stopped", "check"}
  BY DEF Investigate, NextScenario
<1>2. scenario' \in S
  BY SeedAssumption DEF DemoInv, SeedInv, TypeOK, Investigate, NextScenario, S
<1>3. /\ reports' \subseteq S /\ queued' \subseteq S
      /\ \A s \in S : s \in reports' \cup queued' => s \in reports \cup queued \/ s = scenario
  BY DEF Investigate, DemoInv, SeedInv, TypeOK
<1>4. transactions[scenario] # 0 /\ velocity[scenario] # 0 /\ start > 0
  BY SeedAssumption DEF DemoInv, SeedInv, TypeOK, ScriptInv, Investigate, Starts
<1>5. TypeOK'
  BY <1>1, <1>2, <1>3 DEF DemoInv, SeedInv, TypeOK
<1>6. MarkedComplete'
  BY <1>1, <1>3, <1>4 DEF DemoInv, SeedInv, MarkedComplete, AlreadySeeded
<1>7. ScoresNotOlder' /\ CountsHaveVolumes' /\ CheckInv' /\ StoresInv'
  BY <1>1 DEF DemoInv, SeedInv, ScoresNotOlder, CountsHaveVolumes, CheckInv, StoresInv
<1>8. ScriptInv'
  BY <1>1, <1>4 DEF ScriptInv, Seeding
<1> QED BY <1>5, <1>6, <1>7, <1>8 DEF DemoInv, SeedInv

LEMMA CheckKeeps ==
    ASSUME DemoInv, CountTransfers \/ SumVolumes \/ CheckReturns
    PROVE  DemoInv'
<1>1. UNCHANGED <<start, scenario, step, transactions, reports, queued, velocity>>
  BY DEF CountTransfers, SumVolumes, CheckReturns, seeded
<1>2. /\ check' \in [account : 0 .. Scenarios, phase : {"idle", "counted", "done", "no_volumes", "failed"},
                      counted : Starts, summed : Starts]
      /\ CountsHaveVolumes' /\ CheckInv'
  <2>1. CASE CountTransfers
    <3>1. PICK a \in S :
            check' = [account |-> a, phase |-> "counted", counted |-> velocity[a], summed |-> 0]
      BY <2>1 DEF CountTransfers
    <3> QED
      BY <1>1, <3>1, SeedAssumption
         DEF DemoInv, SeedInv, TypeOK, CountsHaveVolumes, StoresInv, CheckInv, S, Starts
  <2>2. CASE SumVolumes
    <3>1. check.account \in S
      BY <2>2 DEF SumVolumes, DemoInv, CheckInv, NoCheck
    <3>2. /\ transactions[check.account] \in Starts
          /\ check.counted # 0 => transactions[check.account] # 0
      BY <2>2, <3>1 DEF SumVolumes, DemoInv, SeedInv, TypeOK, CheckInv
    <3>3. PICK phase \in {"done", "no_volumes", "failed"} :
            check' = [check EXCEPT !.phase = phase,
                                   !.summed = IF phase = "done" /\ check.counted # 0
                                              THEN VolumeOf(check.account) ELSE 0]
      BY <2>2 DEF SumVolumes
    <3>4. check' = [account |-> check.account, phase |-> phase, counted |-> check.counted,
                    summed |-> IF phase = "done" /\ check.counted # 0
                               THEN transactions[check.account] ELSE 0]
      BY <3>3 DEF VolumeOf, DemoInv, SeedInv, TypeOK
    <3> QED
      BY <1>1, <3>1, <3>2, <3>4, SeedAssumption
         DEF DemoInv, SeedInv, TypeOK, CountsHaveVolumes, CheckInv, S, Starts
  <2>3. CASE CheckReturns
    BY <2>3, SeedAssumption DEF CheckReturns, CountsHaveVolumes, CheckInv, NoCheck, Starts
  <2> QED BY <2>1, <2>2, <2>3
<1>3. TypeOK'
  BY <1>1, <1>2 DEF DemoInv, SeedInv, TypeOK
<1>4. MarkedComplete' /\ ScoresNotOlder' /\ ScriptInv' /\ StoresInv'
  BY <1>1 DEF DemoInv, SeedInv, MarkedComplete, ScoresNotOlder, ScriptInv, StoresInv, AlreadySeeded
<1> QED BY <1>2, <1>3, <1>4 DEF DemoInv, SeedInv

LEMMA NextDemo == DemoInv /\ [Next]_vars => DemoInv'
<1> SUFFICES ASSUME DemoInv, [Next]_vars PROVE DemoInv'
  OBVIOUS
<1>1. CASE UNCHANGED vars
  BY <1>1 DEF vars, DemoInv, SeedInv, TypeOK, MarkedComplete, ScoresNotOlder, CountsHaveVolumes,
              ScriptInv, StoresInv, CheckInv, AlreadySeeded
<1> QED BY <1>1, ScriptKeeps, StoresKeep, InvestigateKeeps, CheckKeeps DEF Next

-----------------------------------------------------------------------------
THEOREM DemoInvariant == Spec => []DemoInv
<1> QED BY InitDemo, NextDemo, PTL DEF Spec

\* A scenario that is marked as done has its rows and its set, and no set is
\* older than the rows it goes with.
THEOREM SeedingComplete == Spec => []SeedInv
<1>1. DemoInv => SeedInv
  BY DEF DemoInv
<1> QED BY <1>1, DemoInvariant, PTL

\* A velocity check that Postgres answered never counts a transfer without its
\* amount, although it reads two stores one after the other.
THEOREM VolumesFound == Spec => []CountsHaveVolumes
<1>1. DemoInv => CountsHaveVolumes
  BY DEF DemoInv
<1> QED BY <1>1, DemoInvariant, PTL

\* The script does not touch the data of a scenario that is marked as done.
THEOREM MarkRespected == Spec => MarkedUntouched
<1> DEFINE Untouched ==
      \A s \in S : s \in reports \cup queued =>
          velocity'[s] = velocity[s] /\ transactions'[s] = transactions[s]
<1>1. DemoInv /\ [Next]_vars => [Untouched]_vars
  <2> SUFFICES ASSUME DemoInv, Next, NEW s \in S, s \in reports \cup queued
               PROVE  velocity'[s] = velocity[s] /\ transactions'[s] = transactions[s]
    OBVIOUS
  <2>1. CASE CommitTransactions \/ DeleteVelocity \/ AddVelocity
    <3>1. s # scenario
      BY <2>1 DEF CommitTransactions, DeleteVelocity, AddVelocity, DemoInv, ScriptInv, Seeding,
                  AlreadySeeded
    <3> QED BY <2>1, <3>1 DEF CommitTransactions, DeleteVelocity, AddVelocity, DemoInv, SeedInv, TypeOK
  <2>2. CASE UNCHANGED <<transactions, velocity>>
    BY <2>2
  <2> QED
    BY <2>1, <2>2 DEF Next, Start, CheckSeeded, Investigate, Stop, CountTransfers, SumVolumes,
                      CheckReturns, seeded
<1> QED BY <1>1, DemoInvariant, PTL DEF Spec, MarkedUntouched

=============================================================================
