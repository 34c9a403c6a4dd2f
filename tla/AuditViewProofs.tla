-------------------------- MODULE AuditViewProofs --------------------------
(***************************************************************************)
(* Theorems about AuditView for every value of its constants: what the     *)
(* readers of the tables may believe although they look between two rows   *)
(* of a node.  They rest on the invariants of the graph that               *)
(* AMLGraphProofs proves, since every step of the view is one of the graph *)
(* or leaves the graph alone.                                              *)
(***************************************************************************)
EXTENDS AuditView, AMLGraphProofs, SequenceTheorems

(* The strengthenings. *)

\* The audit log: RESOLVED is only in the row that closes, and every row is of
\* some run.
RowSound(row) == row.run # 0 /\ (row.state_to = "RESOLVED" => row.event = "resolved")
LogSound(log) == \A i \in DOMAIN log : RowSound(log[i])
LastKnown(log) == log # <<>> => Latest(log).state_to # None

ChainAgrees(report, rows, misses) ==
    \/ report.chain = {ChainEntry(r) : r \in {x \in rows : x.run <= report.run}}
    \/ report.chain = {} /\ misses > 0

\* A report tells the hops and the cost its run ended with.
ReportExact(report) ==
    report.run # 0 /\ (report.run = run => report.hops = hop /\ report.cost = cost)

\* What the tables say beyond TablesInv.
RowsInv ==
    /\ LogSound(auditLog)
    /\ lost = 0 => LastKnown(auditLog)
    /\ \A r \in reports : ChainAgrees(r, toolLog, lost) /\ ReportExact(r)

ShownTables ==
    [toolLog : SUBSET ToolLogRows, auditLog : Seq(AuditRows),
     reports : SUBSET ReportRows, escalations : SUBSET EscalationRows]

Extends(long, short) ==
    Len(short) <= Len(long) /\ \A i \in 1 .. Len(short) : long[i] = short[i]

\* What is still to appear is of the node that ran last: a row of the tool log
\* is followed by other nodes, and a report comes before its closing row.
ShownInv ==
    /\ shown \in ShownTables
    /\ shown.toolLog \subseteq toolLog
    /\ \A x \in toolLog \ shown.toolLog : x.run = run /\ node # "END"
    /\ Extends(auditLog, shown.auditLog)
    /\ shown.reports \subseteq reports
    /\ shown.reports # reports => node = "END" /\ OpenLog(shown.auditLog, run)
    /\ shown.escalations \subseteq escalations

\* What the client has been told still holds.
ClientInv ==
    /\ poll = "row" => HasRows
    /\ told.status = "RESOLVED" /\ run = 1 =>
         node = "END" /\ status = "RESOLVED" /\ shown.reports = reports
    /\ fetched = 404 /\ run = 1 => node = "END" /\ reports = {}

ReadersInv == RowsInv /\ ShownInv /\ ClientInv

-----------------------------------------------------------------------------
(* The rows the graph writes. *)

\* A row with a status that is written last makes the newest row known.
LEMMA LoggedSound ==
    ASSUME NEW log \in Seq(AuditRows), LogSound(log), NEW row \in AuditRows, RowSound(row),
           NEW ok \in BOOLEAN
    PROVE  /\ Logged(log, row, ok) \in Seq(AuditRows)
           /\ LogSound(Logged(log, row, ok))
           /\ Extends(Logged(log, row, ok), log)
           /\ ok /\ row.state_to # None => LastKnown(Logged(log, row, ok))
<1>1. CASE ~ok
  BY <1>1 DEF Logged, Extends
<1>2. CASE ok
  <2> DEFINE new == Append(log, row)
  <2>1. /\ new \in Seq(AuditRows) /\ Len(new) = Len(log) + 1 /\ Len(log) \in Nat
        /\ new[Len(log) + 1] = row
        /\ \A i \in 1 .. Len(log) : new[i] = log[i]
        /\ \A i \in DOMAIN new : \/ i \in DOMAIN log /\ new[i] = log[i]
                                 \/ i = Len(log) + 1 /\ new[i] = row
    BY AppendedRows
  <2>2. Logged(log, row, ok) = new
    BY <1>2 DEF Logged
  <2> HIDE DEF new
  <2> QED BY <2>1, <2>2 DEF LogSound, Extends, LastKnown, Latest
<1> QED BY <1>1, <1>2

LEMMA ExtendsTwice ==
    ASSUME NEW a \in Seq(AuditRows), NEW b \in Seq(AuditRows), NEW c \in Seq(AuditRows),
           Extends(b, a), Extends(c, b)
    PROVE  Extends(c, a)
BY DEF Extends

\* The row type, and what is sound in the rows of this run.
LEMMA RowOfRun ==
    ASSUME LimitsInv,
           NEW event \in {"triggered", "state_change", "tool_call", "resolved", "escalated"},
           NEW from \in Statuses \cup {None}, NEW to \in Statuses \cup {None},
           NEW delta \in Nat, to = "RESOLVED" => event = "resolved"
    PROVE  /\ AuditRow(event, from, to, delta) \in AuditRows
           /\ RowSound(AuditRow(event, from, to, delta))
           /\ AuditRow(event, from, to, delta).state_to = to
<1>1. run \in Nat /\ run # 0
  BY BoundsAssumption DEF LimitsInv, TypeOK
<1> DEFINE row == AuditRow(event, from, to, delta)
<1>2. row \in AuditRows
  BY <1>1, AuditRowType
<1>3. row.run = run /\ row.event = event /\ row.state_to = to
  BY AuditRowFields
<1> QED BY <1>1, <1>2, <1>3 DEF RowSound

\* What one step does to the audit log: it grows by sound rows, and the last one
\* it writes has a status unless its write is lost.
LogGrows ==
    /\ auditLog' \in Seq(AuditRows)
    /\ LogSound(auditLog')
    /\ Extends(auditLog', auditLog)
    /\ lost' = 0 => lost = 0 /\ (LastKnown(auditLog) => LastKnown(auditLog'))

LEMMA NothingMissed ==
    ASSUME NEW a \in BOOLEAN, NEW b \in BOOLEAN, NEW c \in BOOLEAN
    PROVE  /\ Misses(a) = 0 => a
           /\ Misses(a) + Misses(b) = 0 => a /\ b
           /\ Misses(a) + Misses(b) + Misses(c) = 0 => a /\ b /\ c
BY DEF Misses

LEMMA SilentGrows ==
    ASSUME LimitsInv, LogSound(auditLog), UNCHANGED auditLog, lost' = 0 => lost = 0
    PROVE  LogGrows
BY DEF LogGrows, LimitsInv, TypeOK, Extends

LEMMA NodeInvestigatingGrows ==
    ASSUME LimitsInv, LogSound(auditLog), NodeInvestigating
    PROVE  LogGrows
<1> DEFINE a == AuditRow("triggered", None, "INVESTIGATING", 0)
           b == AuditRow("state_change", "IDLE", "INVESTIGATING", 0)
<1>1. PICK okTriggered \in BOOLEAN, okStarted \in BOOLEAN, okFallback \in BOOLEAN :
        LET opened == Logged(Logged(auditLog, a, okTriggered), b, okStarted)
        IN \/ /\ auditLog' = opened
              /\ Lose(Misses(okTriggered) + Misses(okStarted))
           \/ /\ auditLog' = Logged(opened, FallbackRow, okFallback)
              /\ Lose(Misses(okTriggered) + Misses(okStarted) + Misses(okFallback))
  BY DEF NodeInvestigating
<1>2. /\ a \in AuditRows /\ RowSound(a) /\ a.state_to # None
      /\ b \in AuditRows /\ RowSound(b) /\ b.state_to # None
      /\ FallbackRow \in AuditRows /\ RowSound(FallbackRow) /\ FallbackRow.state_to # None
  BY RowOfRun DEF Statuses, None, FallbackRow
<1>3. auditLog \in Seq(AuditRows)
  BY DEF LimitsInv, TypeOK
<1> DEFINE one == Logged(auditLog, a, okTriggered)
           two == Logged(one, b, okStarted)
           three == Logged(two, FallbackRow, okFallback)
<1>4. one \in Seq(AuditRows) /\ LogSound(one) /\ Extends(one, auditLog)
  BY <1>2, <1>3, LoggedSound
<1>5. /\ two \in Seq(AuditRows) /\ LogSound(two) /\ Extends(two, one)
      /\ okStarted => LastKnown(two)
  <2> HIDE DEF one
  <2> QED BY <1>2, <1>4, LoggedSound
<1>6. /\ three \in Seq(AuditRows) /\ LogSound(three) /\ Extends(three, two)
      /\ okFallback => LastKnown(three)
  <2> HIDE DEF two
  <2> QED BY <1>2, <1>5, LoggedSound
<1>7. Extends(two, auditLog) /\ Extends(three, auditLog)
  <2> HIDE DEF one, two, three
  <2>1. Extends(two, auditLog)
    BY <1>3, <1>4, <1>5, ExtendsTwice
  <2> QED BY <2>1, <1>3, <1>5, <1>6, ExtendsTwice
<1>8. \/ auditLog' = two /\ Lose(Misses(okTriggered) + Misses(okStarted))
      \/ auditLog' = three /\ Lose(Misses(okTriggered) + Misses(okStarted) + Misses(okFallback))
  BY <1>1
<1> HIDE DEF one, two, three, a, b
<1>9. CASE auditLog' = two /\ Lose(Misses(okTriggered) + Misses(okStarted))
  <2>1. Misses(okTriggered) + Misses(okStarted) \in Nat
    BY MissesType
  <2>2. lost' = 0 => lost = 0 /\ okStarted
    BY <1>9, <2>1, NothingLost, NothingMissed
  <2> QED BY <1>9, <2>2, <1>5, <1>7 DEF LogGrows
<1>10. CASE auditLog' = three /\ Lose(Misses(okTriggered) + Misses(okStarted) + Misses(okFallback))
  <2>1. Misses(okTriggered) + Misses(okStarted) + Misses(okFallback) \in Nat
    BY MissesType
  <2>2. lost' = 0 => lost = 0 /\ okFallback
    BY <1>10, <2>1, NothingLost, NothingMissed
  <2> QED BY <1>10, <2>2, <1>6, <1>7 DEF LogGrows
<1> QED BY <1>8, <1>9, <1>10

LEMMA NodeToolCallingGrows ==
    ASSUME LimitsInv, LogSound(auditLog), NodeToolCalling
    PROVE  LogGrows
<1> DEFINE a == AuditRow("tool_call", None, None, 0)
           b(from, delta) == AuditRow("state_change", from, "TOOL_CALLING", delta)
<1>1. PICK reply \in SelectionReplies, okTool \in BOOLEAN, okCall \in BOOLEAN,
           okChange \in BOOLEAN :
        /\ auditLog' = Logged(Logged(auditLog, a, okCall),
             b(IF hop = 0 THEN "INVESTIGATING" ELSE "EVALUATING", reply.cost), okChange)
        /\ Lose(Misses(okTool) + Misses(okCall) + Misses(okChange))
  BY DEF NodeToolCalling
<1>2. PICK from \in Statuses : auditLog' = Logged(Logged(auditLog, a, okCall),
                                                  b(from, reply.cost), okChange)
  BY <1>1 DEF Statuses
<1> DEFINE second == b(from, reply.cost)
<1>3. reply.cost \in Nat
  BY SelectionReplyType
<1>4. /\ a \in AuditRows /\ RowSound(a)
      /\ second \in AuditRows /\ RowSound(second) /\ second.state_to # None
  <2>1. a \in AuditRows /\ RowSound(a)
    BY RowOfRun DEF None
  <2>2. "TOOL_CALLING" \in Statuses \cup {None} /\ from \in Statuses \cup {None}
    BY DEF Statuses
  <2>3. second \in AuditRows /\ RowSound(second) /\ second.state_to = "TOOL_CALLING"
    BY <1>3, <2>2, RowOfRun
  <2> QED BY <2>1, <2>3 DEF None
<1>5. auditLog \in Seq(AuditRows)
  BY DEF LimitsInv, TypeOK
<1> DEFINE one == Logged(auditLog, a, okCall)
           two == Logged(one, second, okChange)
<1>6. auditLog' = two
  BY <1>2
<1> HIDE DEF a, second
<1>7. one \in Seq(AuditRows) /\ LogSound(one) /\ Extends(one, auditLog)
  BY <1>4, <1>5, LoggedSound
<1> HIDE DEF one
<1>8. /\ two \in Seq(AuditRows) /\ LogSound(two) /\ Extends(two, one)
      /\ okChange => LastKnown(two)
  BY <1>4, <1>7, LoggedSound
<1> HIDE DEF two
<1>9. Extends(two, auditLog)
  BY <1>5, <1>7, <1>8, ExtendsTwice
<1>10. Misses(okTool) + Misses(okCall) + Misses(okChange) \in Nat
  BY MissesType
<1>11. lost' = 0 => lost = 0 /\ okChange
  BY <1>1, <1>10, NothingLost, NothingMissed
<1> QED BY <1>6, <1>8, <1>9, <1>11 DEF LogGrows

\* A node that writes one row, with a status, or none.
LEMMA OneRowGrows ==
    ASSUME LimitsInv, LogSound(auditLog), NEW row \in AuditRows, RowSound(row),
           row.state_to # None, NEW ok \in BOOLEAN, NEW n \in Nat, Lose(n), n = 0 => ok,
           auditLog' = Logged(auditLog, row, ok)
    PROVE  LogGrows
<1>1. auditLog \in Seq(AuditRows)
  BY DEF LimitsInv, TypeOK
<1>2. lost' = 0 => lost = 0 /\ ok
  BY NothingLost
<1> QED BY <1>1, <1>2, LoggedSound DEF LogGrows

LEMMA NodeEvaluatingRefusesGrows ==
    ASSUME LimitsInv, LogSound(auditLog), NodeEvaluatingRefuses
    PROVE  LogGrows
<1> DEFINE row == AuditRow("state_change", "EVALUATING", "ESCALATED", 0)
<1>1. row \in AuditRows /\ RowSound(row) /\ row.state_to # None
  BY RowOfRun DEF Statuses, None
<1>2. PICK ok \in BOOLEAN : /\ auditLog' = Logged(auditLog, row, HardLimit = "empty_evidence" /\ ok)
                            /\ Lose(Misses(ok))
  BY DEF NodeEvaluatingRefuses
<1> HIDE DEF row
<1>3. Misses(ok) \in Nat
  BY MissesType
<1>4. CASE HardLimit = "empty_evidence"
  <2>1. auditLog' = Logged(auditLog, row, ok)
    BY <1>2, <1>4
  <2> QED BY <1>1, <1>2, <1>3, <2>1, OneRowGrows, NothingMissed
<1>5. CASE HardLimit # "empty_evidence"
  <2>1. UNCHANGED auditLog
    BY <1>2, <1>5 DEF Logged
  <2> QED BY <2>1, <1>2, <1>3, NothingLost, SilentGrows
<1> QED BY <1>4, <1>5

LEMMA NodeResolvedGrows ==
    ASSUME LimitsInv, LogSound(auditLog), NodeResolved
    PROVE  LogGrows
<1> DEFINE row == AuditRow("resolved", "EVALUATING", "RESOLVED", 0)
<1>1. row \in AuditRows /\ RowSound(row) /\ row.state_to # None
  BY RowOfRun DEF Statuses, None
<1>2. PICK okRead \in BOOLEAN, okReport \in BOOLEAN, okAudit \in BOOLEAN :
        /\ auditLog' = Logged(auditLog, row, okAudit)
        /\ Lose(Misses(okRead) + Misses(okReport) + Misses(okAudit))
  BY DEF NodeResolved
<1> HIDE DEF row
<1>3. Misses(okRead) + Misses(okReport) + Misses(okAudit) \in Nat
  BY MissesType
<1>4. Misses(okRead) + Misses(okReport) + Misses(okAudit) = 0 => okAudit
  BY NothingMissed
<1> QED BY <1>1, <1>2, <1>3, <1>4, OneRowGrows

LEMMA NodeEscalatedGrows ==
    ASSUME LimitsInv, LogSound(auditLog), NodeEscalated
    PROVE  LogGrows
<1> DEFINE row == AuditRow("escalated", "EVALUATING", "ESCALATED", 0)
<1>1. row \in AuditRows /\ RowSound(row) /\ row.state_to # None
  BY RowOfRun DEF Statuses, None
<1>2. PICK okAudit \in BOOLEAN, okQueue \in BOOLEAN :
        /\ auditLog' = Logged(auditLog, row, okAudit)
        /\ Lose(Misses(okAudit) + Misses(okQueue))
  BY DEF NodeEscalated
<1> HIDE DEF row
<1>3. Misses(okAudit) + Misses(okQueue) \in Nat
  BY MissesType
<1>4. Misses(okAudit) + Misses(okQueue) = 0 => okAudit
  BY NothingMissed
<1> QED BY <1>1, <1>2, <1>3, <1>4, OneRowGrows

LEMMA StepGrows ==
    ASSUME LimitsInv, LogSound(auditLog), Next
    PROVE  LogGrows
<1>1. CASE NodeToolCallingRaises \/ Crash \/ Invoke \/ NodeEvaluatingCalls
  <2>1. UNCHANGED auditLog /\ UNCHANGED lost
    BY <1>1 DEF NodeToolCallingRaises, Crash, Invoke, NodeEvaluatingCalls, database
  <2> QED BY <2>1, SilentGrows
<1>2. CASE DispatchRaises
  <2>1. UNCHANGED auditLog /\ lost' = lost + 1
    BY <1>2 DEF DispatchRaises, Lose
  <2>2. lost' # 0
    BY <2>1, BoundsAssumption DEF LimitsInv, TypeOK
  <2> QED BY <2>1, <2>2, SilentGrows
<1> QED
  BY <1>1, <1>2, NodeInvestigatingGrows, NodeToolCallingGrows, NodeEvaluatingRefusesGrows,
     NodeResolvedGrows, NodeEscalatedGrows DEF Next, GraphStep

-----------------------------------------------------------------------------
(* The chain of a report. *)

\* Rows of later runs change nothing in it, nor do more failures.
LEMMA ChainStays ==
    ASSUME NEW report, NEW rows, NEW more, NEW n \in Nat, NEW m \in Nat, n <= m,
           \A x \in more \ rows : ~(x.run <= report.run), rows \subseteq more,
           ChainAgrees(report, rows, n)
    PROVE  ChainAgrees(report, more, m)
<1>1. {x \in more : x.run <= report.run} = {x \in rows : x.run <= report.run}
  OBVIOUS
<1>2. n > 0 => m > 0
  OBVIOUS
<1> QED BY <1>1, <1>2 DEF ChainAgrees

LostGrows == lost \in Nat /\ lost' \in Nat /\ lost <= lost'

LEMMA LoseGrows ==
    ASSUME LimitsInv, NEW n \in Nat, Lose(n)
    PROVE  LostGrows
BY BoundsAssumption DEF LimitsInv, TypeOK, Lose, LostGrows

\* What one step does to the other tables: a row of the tool log is of this run
\* and not the last of it; a report is written on the way to the end.
TablesGrow ==
    /\ LostGrows
    /\ toolLog \subseteq toolLog'
    /\ \A x \in toolLog' \ toolLog : x.run = run
    /\ toolLog' # toolLog => node \in Nodes /\ node' # "END" /\ run' = run
    /\ reports \subseteq reports'
    /\ reports' # reports => node \in Nodes /\ node' = "END" /\ run' = run
    /\ escalations \subseteq escalations'

LEMMA StepTables ==
    ASSUME LimitsInv, Next
    PROVE  TablesGrow
<1>1. CASE NodeInvestigating
  <2>1. PICK n \in Nat : Lose(n)
    BY <1>1, MissesType DEF NodeInvestigating
  <2>2. UNCHANGED <<toolLog, reports, escalations>>
    BY <1>1 DEF NodeInvestigating
  <2> QED BY <2>1, <2>2, LoseGrows DEF TablesGrow
<1>2. CASE NodeToolCalling
  <2>1. PICK success \in DispatchOutcomes, okTool \in BOOLEAN :
          toolLog' = IF okTool THEN toolLog \cup {ToolLogRow(success)} ELSE toolLog
    BY <1>2, Zenon DEF NodeToolCalling
  <2>2. LostGrows
    <3>1. PICK outcome \in DispatchOutcomes, reply \in SelectionReplies, d \in Durations,
               okLog \in BOOLEAN, okCall \in BOOLEAN, okChange \in BOOLEAN :
            Lose(Misses(okLog) + Misses(okCall) + Misses(okChange))
      BY <1>2 DEF NodeToolCalling
    <3> QED BY <3>1, MissesType, LoseGrows
  <2>3. UNCHANGED <<run, reports, escalations>> /\ node \in Nodes /\ node' # "END"
    BY <1>2 DEF NodeToolCalling, Nodes
  <2>4. ToolLogRow(success).run = run
    BY DEF ToolLogRow
  <2> QED BY <2>1, <2>2, <2>3, <2>4 DEF TablesGrow
<1>3. CASE NodeEvaluatingRefuses
  <2>1. PICK n \in Nat : Lose(n)
    BY <1>3, MissesType DEF NodeEvaluatingRefuses
  <2>2. UNCHANGED <<toolLog, reports, escalations>>
    BY <1>3 DEF NodeEvaluatingRefuses
  <2> QED BY <2>1, <2>2, LoseGrows DEF TablesGrow
<1>4. CASE NodeResolved
  <2>1. PICK n \in Nat : Lose(n)
    BY <1>4, MissesType DEF NodeResolved
  <2>2. UNCHANGED <<toolLog, run, escalations>> /\ node \in Nodes /\ node' = "END"
    BY <1>4 DEF NodeResolved, Nodes
  <2>3. reports \subseteq reports'
    BY <1>4 DEF NodeResolved, InsertReport
  <2> QED BY <2>1, <2>2, <2>3, LoseGrows DEF TablesGrow
<1>5. CASE NodeEscalated
  <2>1. PICK n \in Nat : Lose(n)
    BY <1>5, MissesType DEF NodeEscalated
  <2>2. UNCHANGED <<toolLog, reports>>
    BY <1>5 DEF NodeEscalated
  <2>3. escalations \subseteq escalations'
    BY <1>5 DEF NodeEscalated, QueueCase
  <2> QED BY <2>1, <2>2, <2>3, LoseGrows DEF TablesGrow
<1>6. CASE NodeToolCallingRaises \/ Crash \/ Invoke \/ NodeEvaluatingCalls
  <2>1. UNCHANGED <<toolLog, reports, escalations, lost>>
    BY <1>6 DEF NodeToolCallingRaises, Crash, Invoke, NodeEvaluatingCalls, database
  <2>2. LostGrows
    BY <2>1, BoundsAssumption DEF LostGrows, LimitsInv, TypeOK
  <2> QED BY <2>1, <2>2 DEF TablesGrow
<1>7. CASE DispatchRaises
  <2>1. PICK success \in DispatchOutcomes, okTool \in BOOLEAN :
          toolLog' = IF okTool THEN toolLog \cup {ToolLogRow(success)} ELSE toolLog
    BY <1>7 DEF DispatchRaises
  <2>2. Lose(1) /\ UNCHANGED <<run, reports, escalations>> /\ node \in Nodes /\ node' # "END"
    BY <1>7 DEF DispatchRaises, agentState, Nodes
  <2>3. ToolLogRow(success).run = run
    BY DEF ToolLogRow
  <2> QED BY <2>1, <2>2, <2>3, LoseGrows DEF TablesGrow
<1> QED BY <1>1, <1>2, <1>3, <1>4, <1>5, <1>6, <1>7 DEF Next, GraphStep

\* The report of a run that resolves holds the log as it is, all of whose rows
\* are of this run or before, or nothing if the read failed.
LEMMA NewReport ==
    ASSUME LimitsInv, EvidenceInv, NodeResolved, NEW r \in reports', r \notin reports
    PROVE  ChainAgrees(r, toolLog, lost') /\ r.run = run /\ r.hops = hop /\ r.cost = cost
<1>1. PICK okRead \in BOOLEAN, okReport \in BOOLEAN, okAudit \in BOOLEAN :
        /\ reports' = IF okReport
                      THEN InsertReport([run |-> run, chain |-> EvidenceChain(okRead),
                             hops |-> hop, cost |-> cost, confidence |-> evaluation.confidence,
                             verdict |-> ReportVerdict(EvidenceChain(okRead))])
                      ELSE reports
        /\ Lose(Misses(okRead) + Misses(okReport) + Misses(okAudit))
  BY DEF NodeResolved
<1>2. r.run = run /\ r.chain = EvidenceChain(okRead) /\ r.hops = hop /\ r.cost = cost
  BY <1>1 DEF InsertReport
<1>3. CASE okRead
  <2>1. {x \in toolLog : x.run <= run} = toolLog
    BY DEF EvidenceInv
  <2> QED BY <1>2, <1>3, <2>1 DEF ChainAgrees, EvidenceChain
<1>4. CASE ~okRead
  <2>1. r.chain = {}
    BY <1>2, <1>4 DEF EvidenceChain
  <2>2. lost' > 0
    BY <1>1, <1>4, BoundsAssumption DEF Lose, Misses, LimitsInv, TypeOK
  <2> QED BY <1>2, <2>1, <2>2 DEF ChainAgrees
<1> QED BY <1>2, <1>3, <1>4

\* What a report says of its run stays so: nothing of a run comes after its
\* report.
LEMMA OldReport ==
    ASSUME LimitsInv, OutcomeInv, Next, NEW r \in reports
    PROVE  r.run # run'
<1>1. run \in Nat /\ r.run \in Nat /\ r.run <= run
  BY DEF LimitsInv, TypeOK, OutcomeInv, ReportRows
<1>2. node # "END" => r.run # run
  BY DEF OutcomeInv
<1>3. run' = run + 1 \/ (run' = run /\ node # "END")
  BY DEF Next, GraphStep, NodeInvestigating, NodeToolCalling, NodeToolCallingRaises,
     DispatchRaises, NodeEvaluatingRefuses, NodeEvaluatingCalls, NodeResolved, NodeEscalated, Crash,
     Invoke, Nodes
<1> QED BY <1>1, <1>2, <1>3

LEMMA NextRows ==
    ASSUME LimitsInv, TablesInv, RowsInv, Next
    PROVE  RowsInv'
<1>1. LogGrows /\ TablesGrow
  BY StepGrows, StepTables DEF RowsInv
<1>2. LogSound(auditLog)' /\ (lost' = 0 => LastKnown(auditLog)')
  BY <1>1 DEF RowsInv, LogGrows
<1>3. ASSUME NEW r \in reports'
      PROVE  ChainAgrees(r, toolLog', lost') /\ ReportExact(r)'
  <2>1. CASE r \in reports
    <3>1. ChainAgrees(r, toolLog, lost) /\ r.run # 0
      BY <2>1 DEF RowsInv, ReportExact
    <3>2. ASSUME NEW x \in toolLog' \ toolLog
          PROVE  ~(x.run <= r.run)
      <4>1. x.run = run /\ node \in Nodes
        BY <1>1 DEF TablesGrow
      <4>2. r.run # run /\ r.run <= run /\ r.run \in Nat /\ run \in Nat
        <5>1. node # "END"
          BY <4>1 DEF Nodes
        <5>2. r \in ReportRows /\ run \in Nat
          BY <2>1 DEF LimitsInv, TypeOK
        <5> QED BY <2>1, <5>1, <5>2 DEF TablesInv, OutcomeInv, ReportRows
      <4> QED BY <4>1, <4>2
    <3>3. r.run # run'
      BY <2>1, OldReport DEF TablesInv
    <3> QED BY <1>1, <3>1, <3>2, <3>3, ChainStays DEF TablesGrow, LostGrows, ReportExact
  <2>2. CASE r \notin reports
    <3>1. NodeResolved
      BY <2>2, <1>3 DEF Next, GraphStep, NodeInvestigating, NodeToolCalling,
         NodeToolCallingRaises, DispatchRaises, NodeEvaluatingRefuses, NodeEvaluatingCalls,
         NodeEscalated,
         Crash, Invoke, database
    <3>2. /\ ChainAgrees(r, toolLog, lost')
          /\ r.run = run /\ r.hops = hop /\ r.cost = cost
      BY <1>3, <2>2, <3>1, NewReport DEF TablesInv
    <3>3. UNCHANGED <<toolLog, run, hop, cost>> /\ run # 0
      BY <3>1 DEF NodeResolved, LimitsInv, TypeOK
    <3> QED BY <3>2, <3>3 DEF ReportExact
  <2> QED BY <2>1, <2>2
<1> QED BY <1>2, <1>3 DEF RowsInv

-----------------------------------------------------------------------------
(* What the readers see. *)

\* The steps of the view are steps of the graph, or leave it alone.
LEMMA ViewStep ==
    ASSUME ViewNext
    PROVE  \/ InvestigationStep /\ Next
           \/ UNCHANGED vars /\ UNCHANGED CaughtUp /\ UNCHANGED shown
           \/ UNCHANGED vars /\ RowAppears
BY DEF ViewNext, InvestigationStep, Next, RowAppears, StatusExists, StatusRow, StatusFails,
   GetReport, CaughtUp, Tables, vars, database

LEMMA TablesType == LimitsInv => Tables \in ShownTables
BY DEF LimitsInv, TypeOK, Tables, ShownTables

\* A step of the graph, which starts when everything has appeared.
LEMMA InvestigationShown ==
    ASSUME LimitsInv, TablesInv, RowsInv, ShownInv, InvestigationStep, Next
    PROVE  ShownInv'
<1>1. LogGrows /\ TablesGrow
  BY StepGrows, StepTables DEF RowsInv
<1>2. /\ shown' = shown
      /\ shown.toolLog = toolLog /\ shown.auditLog = auditLog
      /\ shown.reports = reports /\ shown.escalations = escalations
  BY DEF InvestigationStep, viewVars, CaughtUp, Tables
<1>3. shown' \in ShownTables /\ shown'.toolLog \subseteq toolLog'
      /\ shown'.reports \subseteq reports'
      /\ shown'.escalations \subseteq escalations'
  BY <1>1, <1>2 DEF ShownInv, TablesGrow
<1>4. Extends(auditLog', shown'.auditLog)
  BY <1>1, <1>2 DEF LogGrows
<1>5. \A x \in toolLog' \ shown'.toolLog : x.run = run' /\ node' # "END"
  BY <1>1, <1>2 DEF TablesGrow, Nodes
<1>6. shown'.reports # reports' => node' = "END" /\ OpenLog(shown'.auditLog, run')
  BY <1>1, <1>2 DEF TablesGrow, Nodes, TablesInv, AuditInv
<1> QED BY <1>3, <1>4, <1>5, <1>6 DEF ShownInv

\* The next row appears: every table keeps to its order.
RowShown ==
    /\ shown' \in ShownTables
    /\ shown'.toolLog = toolLog
    /\ shown'.reports \in {shown.reports, reports}
    /\ shown'.reports = shown.reports => shown.toolLog # toolLog \/ shown.reports = reports
    /\ shown'.escalations \in {shown.escalations, escalations}
    /\ Extends(auditLog, shown'.auditLog) /\ Extends(shown'.auditLog, shown.auditLog)
    /\ shown'.auditLog # shown.auditLog => shown.reports = reports

\* A log that is a proper part of the audit log can be continued by one row.
LEMMA LogContinues ==
    ASSUME NEW log \in Seq(AuditRows), NEW part \in Seq(AuditRows),
           Extends(log, part), part # log
    PROVE  /\ SubSeq(log, 1, Len(part) + 1) \in Seq(AuditRows)
           /\ Extends(log, SubSeq(log, 1, Len(part) + 1))
           /\ Extends(SubSeq(log, 1, Len(part) + 1), part)
<1>1. Len(part) \in Nat /\ Len(log) \in Nat /\ Len(part) <= Len(log)
  BY DEF Extends
<1>2. Len(part) < Len(log)
  <2>1. Len(part) # Len(log)
    BY SeqEqual DEF Extends
  <2> QED BY <1>1, <2>1
<1> DEFINE n == Len(part) + 1
<1>3. n \in 1 .. Len(log)
  BY <1>1, <1>2
<1>4. /\ SubSeq(log, 1, n) \in Seq(AuditRows) /\ Len(SubSeq(log, 1, n)) = n
      /\ \A i \in 1 .. n : SubSeq(log, 1, n)[i] = log[i]
  BY <1>1, <1>3
<1> QED BY <1>1, <1>3, <1>4 DEF Extends

LEMMA RowAppearsShown ==
    ASSUME LimitsInv, ShownInv, RowAppears
    PROVE  RowShown
<1>1. /\ shown \in ShownTables
      /\ toolLog \in SUBSET ToolLogRows /\ auditLog \in Seq(AuditRows)
      /\ reports \in SUBSET ReportRows /\ escalations \in SUBSET EscalationRows
  BY DEF ShownInv, LimitsInv, TypeOK
<1>2. shown.auditLog \in Seq(AuditRows) /\ Extends(auditLog, shown.auditLog)
  BY <1>1 DEF ShownInv, ShownTables
<1>3. /\ Extends(auditLog, auditLog)
      /\ Extends(shown.auditLog, shown.auditLog)
  BY <1>1, <1>2 DEF Extends
<1>4. CASE shown.toolLog # toolLog
  <2>1. shown' = [shown EXCEPT !.toolLog = toolLog]
    BY <1>4 DEF RowAppears, NextRow
  <2> QED BY <1>1, <1>2, <1>3, <1>4, <2>1 DEF RowShown, ShownTables
<1>5. CASE shown.toolLog = toolLog /\ shown.reports # reports
  <2>1. shown' = [shown EXCEPT !.reports = reports]
    BY <1>5 DEF RowAppears, NextRow
  <2> QED BY <1>1, <1>2, <1>3, <1>5, <2>1 DEF RowShown, ShownTables
<1>6. CASE shown.toolLog = toolLog /\ shown.reports = reports /\ shown.auditLog # auditLog
  <2> DEFINE log == SubSeq(auditLog, 1, Len(shown.auditLog) + 1)
  <2>1. shown' = [shown EXCEPT !.auditLog = log]
    BY <1>6 DEF RowAppears, NextRow
  <2>2. log \in Seq(AuditRows) /\ Extends(auditLog, log) /\ Extends(log, shown.auditLog)
    BY <1>1, <1>2, <1>6, LogContinues
  <2> HIDE DEF log
  <2> QED BY <1>1, <1>6, <2>1, <2>2 DEF RowShown, ShownTables
<1>7. CASE shown.toolLog = toolLog /\ shown.reports = reports /\ shown.auditLog = auditLog
  <2>1. shown' = Tables
    BY <1>7 DEF RowAppears, NextRow
  <2> QED BY <1>1, <1>2, <1>3, <1>7, <2>1, TablesType DEF RowShown, Tables
<1> QED BY <1>4, <1>5, <1>6, <1>7

LEMMA AppearingShown ==
    ASSUME LimitsInv, ShownInv, RowAppears
    PROVE  ShownInv'
<1>1. RowShown
  BY RowAppearsShown
<1>2. UNCHANGED <<node, run, toolLog, auditLog, reports, escalations>>
  BY DEF RowAppears, vars, database
<1>3. shown'.reports # reports => node = "END" /\ OpenLog(shown'.auditLog, run)
  BY <1>1 DEF RowShown, ShownInv
<1> QED BY <1>1, <1>2, <1>3 DEF RowShown, ShownInv

-----------------------------------------------------------------------------
(* What the client is told. *)

\* The newest row a reader sees says RESOLVED only when the first run has ended
\* so, and then its report is to be seen too.
LEMMA SeenResolved ==
    ASSUME LimitsInv, TablesInv, RowsInv, ShownInv, HasRows, run = 1,
           Latest(shown.auditLog).state_to = "RESOLVED"
    PROVE  node = "END" /\ status = "RESOLVED" /\ shown.reports = reports
<1> DEFINE log == shown.auditLog
           i == Len(log)
<1>1. /\ log \in Seq(AuditRows) /\ auditLog \in Seq(AuditRows) /\ log # <<>>
      /\ Extends(auditLog, log)
  BY DEF ShownInv, ShownTables, LimitsInv, TypeOK, HasRows
<1>2. i \in DOMAIN log /\ i \in DOMAIN auditLog /\ log[i] = auditLog[i]
  BY <1>1 DEF Extends
<1>3. log[i].state_to = "RESOLVED"
  BY DEF Latest
<1> HIDE DEF i, log
<1>4. /\ auditLog[i].state_to = "RESOLVED" /\ auditLog[i].event = "resolved"
      /\ auditLog[i].run # 0
  BY <1>2, <1>3 DEF RowsInv, LogSound, RowSound
<1>5. auditLog[i].run = 1
  <2>1. auditLog[i] \in AuditRows
    BY <1>1, <1>2
  <2>2. auditLog[i].run \in Nat /\ auditLog[i].run <= 1
    BY <1>2, <2>1 DEF AuditRows, TablesInv, AuditInv, LogUpTo
  <2> QED BY <1>4, <2>2
<1>6. AuditInv
  BY DEF TablesInv
<1>7. status = "RESOLVED"
  BY <1>2, <1>4, <1>5, <1>6 DEF AuditInv, Closing
<1>8. node = "END"
  BY <1>2, <1>4, <1>5, <1>6 DEF AuditInv, OpenLog, Closing
<1>9. shown.reports = reports
  <2>1. ~OpenLog(log, run)
    BY <1>2, <1>4, <1>5 DEF OpenLog, Closing
  <2> QED BY <2>1 DEF ShownInv, log
<1> QED BY <1>7, <1>8, <1>9

\* A run that is the first was so before.
LEMMA FirstRun ==
    ASSUME LimitsInv, Next, run' = 1
    PROVE  run = 1
<1>1. run' = run \/ run' = run + 1
  BY DEF Next, GraphStep, NodeInvestigating, NodeToolCalling, NodeToolCallingRaises,
     DispatchRaises, NodeEvaluatingRefuses, NodeEvaluatingCalls, NodeResolved, NodeEscalated, Crash, Invoke
<1>2. run \in Nat /\ run # 0
  BY DEF LimitsInv, TypeOK
<1> QED BY <1>1, <1>2

\* Of a run that has ended the graph only makes another.
LEMMA EndedRun ==
    ASSUME LimitsInv, node = "END", Next
    PROVE  run' # 1
<1>1. Invoke
  BY DEF Next, GraphStep, NodeInvestigating, NodeToolCalling, NodeToolCallingRaises,
     DispatchRaises, NodeEvaluatingRefuses, NodeEvaluatingCalls, NodeResolved, NodeEscalated, Crash, Nodes
<1>2. run' = run + 1 /\ run \in Nat /\ run # 0
  BY <1>1 DEF Invoke, LimitsInv, TypeOK
<1> QED BY <1>2

LEMMA InvestigationClient ==
    ASSUME LimitsInv, ClientInv, InvestigationStep, Next
    PROVE  ClientInv'
<1>1. UNCHANGED <<shown, poll, told, fetched>>
  BY DEF InvestigationStep, viewVars
<1>2. CASE node = "END"
  BY <1>1, <1>2, EndedRun DEF ClientInv, HasRows
<1>3. CASE node # "END"
  <2>1. run' = 1 => run = 1
    BY FirstRun
  <2>2. run' = 1 => told'.status # "RESOLVED" /\ fetched' # 404
    BY <1>1, <1>3, <2>1 DEF ClientInv
  <2>3. poll' = "row" => HasRows'
    BY <1>1 DEF ClientInv, HasRows
  <2> QED BY <2>2, <2>3 DEF ClientInv
<1> QED BY <1>2, <1>3

LEMMA AppearingClient ==
    ASSUME LimitsInv, ShownInv, ClientInv, RowAppears
    PROVE  ClientInv'
<1>1. RowShown
  BY RowAppearsShown
<1>2. UNCHANGED <<node, run, status, reports, poll, told, fetched>>
  BY DEF RowAppears, vars, agentState, database
<1>3. HasRows => HasRows'
  <2>1. /\ shown.auditLog \in Seq(AuditRows) /\ shown'.auditLog \in Seq(AuditRows)
        /\ Len(shown.auditLog) <= Len(shown'.auditLog)
    BY <1>1 DEF RowShown, ShownInv, ShownTables, Extends
  <2> QED BY <2>1 DEF HasRows
<1>4. shown.reports = reports => shown'.reports = reports
  BY <1>1 DEF RowShown
<1> QED BY <1>2, <1>3, <1>4 DEF ClientInv

LEMMA StatusRowClient ==
    ASSUME LimitsInv, TablesInv, RowsInv, ShownInv, ClientInv, StatusRow
    PROVE  ClientInv'
<1>1. /\ UNCHANGED <<node, run, status, reports, shown, fetched>> /\ poll' = "idle"
      /\ told'.status = StatusOf(shown.auditLog) /\ HasRows
  BY DEF StatusRow, vars, agentState, database, ClientInv
<1>2. told'.status = "RESOLVED" => Latest(shown.auditLog).state_to = "RESOLVED"
  BY <1>1 DEF StatusOf
<1>3. told'.status = "RESOLVED" /\ run = 1 =>
        node = "END" /\ status = "RESOLVED" /\ shown.reports = reports
  BY <1>1, <1>2, SeenResolved
<1> QED BY <1>1, <1>3 DEF ClientInv

LEMMA GetReportClient ==
    ASSUME ClientInv, GetReport
    PROVE  ClientInv'
<1>1. /\ UNCHANGED <<node, run, status, reports, shown, poll, told>>
      /\ told.status = "RESOLVED"
      /\ fetched' = 404 => shown.reports = {}
  BY DEF GetReport, vars, agentState, database
<1> QED BY <1>1 DEF ClientInv, HasRows

\* A request without rows, or without a database, is told nothing of a status.
LEMMA OtherAnswers ==
    ASSUME ClientInv, StatusExists \/ StatusFails
    PROVE  ClientInv'
<1>1. UNCHANGED <<node, run, status, reports, shown, fetched>>
  BY DEF StatusExists, StatusFails, vars, agentState, database
<1>2. told' = told \/ told'.status = None
  BY DEF StatusExists, StatusFails, NotAsked
<1>3. poll' = "row" => HasRows
  BY DEF StatusExists, StatusFails, ClientInv
<1> QED BY <1>1, <1>2, <1>3 DEF ClientInv, HasRows, None

-----------------------------------------------------------------------------
(* The theorems. *)

LEMMA InitReaders == ViewInit => ReadersInv
<1> SUFFICES ASSUME ViewInit PROVE ReadersInv
  OBVIOUS
<1>1. RowsInv
  BY DEF ViewInit, Init, RowsInv, LogSound, LastKnown
<1>2. /\ shown.toolLog = {} /\ shown.auditLog = <<>> /\ shown.reports = {}
      /\ shown.escalations = {} /\ shown = Tables
      /\ toolLog = {} /\ auditLog = <<>> /\ reports = {} /\ escalations = {}
  BY DEF ViewInit, Init, Tables
<1>3. shown \in ShownTables
  BY InitLimits, TablesType, <1>2 DEF ViewInit
<1>4. ShownInv
  BY <1>2, <1>3 DEF ShownInv, Extends
<1>5. ClientInv
  BY DEF ViewInit, NotAsked, ClientInv, None
<1> QED BY <1>1, <1>4, <1>5 DEF ReadersInv

LEMMA NextReaders ==
    ASSUME LimitsInv, TablesInv, ReadersInv, [ViewNext]_viewStateVars
    PROVE  ReadersInv'
<1>0. RowsInv /\ ShownInv /\ ClientInv
  BY DEF ReadersInv
<1>1. CASE InvestigationStep
  <2>1. Next
    BY <1>1 DEF InvestigationStep, Next
  <2> QED BY <1>0, <1>1, <2>1, NextRows, InvestigationShown, InvestigationClient DEF ReadersInv
<1>2. UNCHANGED vars => RowsInv'
  BY <1>0 DEF vars, agentState, database, RowsInv, LogSound, LastKnown, ReportExact
<1>3. CASE RowAppears
  BY <1>0, <1>2, <1>3, AppearingShown, AppearingClient DEF ReadersInv, RowAppears
<1>4. UNCHANGED vars /\ UNCHANGED shown => ShownInv'
  BY <1>0 DEF vars, database, ShownInv, OpenLog, Extends
<1>5. CASE StatusExists \/ StatusRow \/ StatusFails \/ GetReport
  <2>1. UNCHANGED vars /\ UNCHANGED shown
    BY <1>5 DEF StatusExists, StatusRow, StatusFails, GetReport
  <2>2. ClientInv'
    BY <1>0, <1>5, StatusRowClient, GetReportClient, OtherAnswers
  <2> QED BY <1>2, <1>4, <2>1, <2>2 DEF ReadersInv
<1>6. CASE UNCHANGED viewStateVars
  <2>1. UNCHANGED vars /\ UNCHANGED <<shown, poll, told, fetched>>
    BY <1>6 DEF viewStateVars, viewVars
  <2>2. ClientInv'
    BY <1>0, <2>1 DEF vars, agentState, database, ClientInv, HasRows
  <2> QED BY <1>2, <1>4, <2>1, <2>2 DEF ReadersInv
<1> QED BY <1>1, <1>3, <1>5, <1>6 DEF ViewNext

\* Readers change nothing: the graph beside them behaves as AMLGraph says, so
\* what is proved of it holds here too.
THEOREM ViewedGraph == ViewSpec => Spec
<1>1. ViewInit => Init
  BY DEF ViewInit
<1>2. [ViewNext]_viewStateVars => [Next]_vars
  <2>1. ViewNext => Next \/ UNCHANGED vars
    BY ViewStep
  <2>2. UNCHANGED viewStateVars => UNCHANGED vars
    BY DEF viewStateVars
  <2> QED BY <2>1, <2>2
<1> QED BY <1>1, <1>2, PTL DEF ViewSpec, Spec

\* Between any two rows of a node: what is seen is a part of the tables, in the
\* order of the writes, and what the client was told of a first run still holds.
THEOREM ReadersInvariant == ViewSpec => []ReadersInv
<1>1. LimitsInv /\ TablesInv /\ ReadersInv /\ [ViewNext]_viewStateVars => ReadersInv'
  BY NextReaders
<1> QED
  BY <1>1, InitReaders, ViewedGraph, LimitsInvariant, TablesInvariant, PTL DEF ViewSpec

\* Whoever is told by GET /status that a first run is RESOLVED is told the truth,
\* and goes on being right.
THEOREM StatusTruthful == ViewSpec => []ToldResolved
<1>1. ReadersInv => ToldResolved
  BY DEF ReadersInv, ClientInv, ToldResolved
<1> QED BY <1>1, ReadersInvariant, PTL

\* A client that asks for the report after it was told RESOLVED gets it, unless
\* its insert was lost: no reader is caught between the two writes.
THEOREM ReportReadable == ViewSpec => []ResolvedReportReadable
<1>1. ReadersInv => ResolvedReportReadable
  BY DEF ReadersInv, ClientInv, ResolvedReportReadable
<1> QED BY <1>1, ReadersInvariant, PTL

\* With all rows of a node written and none lost, GET /status knows a status: no
\* node leaves a row without one as its last.
THEOREM StatusAlwaysKnown == ViewSpec => []StatusKnown
<1>1. LimitsInv /\ ReadersInv => StatusKnown
  <2> SUFFICES ASSUME LimitsInv, ReadersInv, CaughtUp, lost = 0, HasRows
               PROVE  StatusOf(shown.auditLog) # "unknown"
    BY DEF StatusKnown
  <2>1. shown.auditLog = auditLog /\ auditLog \in Seq(AuditRows) /\ auditLog # <<>>
    BY DEF CaughtUp, Tables, HasRows, LimitsInv, TypeOK
  <2>2. Latest(auditLog) \in AuditRows /\ Latest(auditLog).state_to # None
    BY <2>1 DEF ReadersInv, RowsInv, LastKnown, Latest
  <2>3. Latest(auditLog).state_to \in Statuses
    BY <2>2 DEF AuditRows
  <2> QED BY <2>1, <2>2, <2>3 DEF StatusOf, Statuses
<1> QED BY <1>1, ReadersInvariant, ViewedGraph, LimitsInvariant, PTL

\* The acceptance script's comparison: a report that can be seen has the tool log
\* that can be seen as its chain, row by row, however many runs have logged calls,
\* or an empty one after a failure, until a later run logs calls of its own.
THEOREM ChainIsTheLog == ViewSpec => []ChainOneToOne
<1>1. LimitsInv /\ TablesInv /\ ReadersInv => ChainOneToOne
  <2> SUFFICES ASSUME LimitsInv, TablesInv, ReadersInv, NEW r \in shown.reports
               PROVE  \/ ChainMatchesLog(r)
                      \/ r.chain = {} /\ lost > 0
                      \/ \E x \in shown.toolLog : x.run > r.run
    BY DEF ChainOneToOne
  <2>1. r \in reports /\ ChainAgrees(r, toolLog, lost)
    BY DEF ReadersInv, RowsInv, ShownInv
  <2>2. {x \in toolLog : x.run <= r.run} = {x \in shown.toolLog : x.run <= r.run}
    <3>1. ASSUME NEW x \in toolLog \ shown.toolLog
          PROVE  ~(x.run <= r.run)
      <4>1. x.run = run /\ node # "END"
        BY <3>1 DEF ReadersInv, ShownInv
      <4>2. r \in ReportRows /\ run \in Nat
        BY <2>1 DEF LimitsInv, TypeOK
      <4>3. r.run \in Nat /\ r.run # run /\ r.run <= run
        BY <2>1, <4>1, <4>2 DEF TablesInv, OutcomeInv, ReportRows
      <4> QED BY <4>1, <4>2, <4>3
    <3> QED BY <3>1 DEF ReadersInv, ShownInv
  <2>3. CASE \A x \in shown.toolLog : ~(x.run > r.run)
    <3>1. \A x \in shown.toolLog : x.run \in Nat
      BY DEF ReadersInv, ShownInv, ShownTables, ToolLogRows
    <3>2. r.run \in Nat
      BY <2>1 DEF LimitsInv, TypeOK, ReportRows
    <3>3. shown.toolLog = {x \in shown.toolLog : x.run <= r.run}
      BY <2>3, <3>1, <3>2
    <3> QED BY <2>1, <2>2, <3>3 DEF ChainAgrees, ChainMatchesLog
  <2> QED BY <2>3
<1> QED BY <1>1, ReadersInvariant, ViewedGraph, LimitsInvariant, TablesInvariant, PTL

\* The benchmark: of a first run that has stopped with nothing lost, a report
\* means RESOLVED and none means not, and the report's hops and cost are the run's.
THEOREM BenchmarkReliable == ViewSpec => []BenchmarkHonest
<1>1. LimitsInv /\ TablesInv /\ ReadersInv => BenchmarkHonest
  <2> SUFFICES ASSUME LimitsInv, TablesInv, ReadersInv,
                      node \in Stopped, CaughtUp, lost = 0, run = 1
               PROVE  /\ BenchmarkEscalated <=> status # "RESOLVED"
                      /\ ~BenchmarkEscalated =>
                           BenchmarkMetrics.hops = hop /\ BenchmarkMetrics.cost = cost
    BY DEF BenchmarkHonest, BenchmarkMetrics
  <2>1. shown.reports = reports
    BY DEF CaughtUp, Tables
  <2>2. ASSUME NEW r \in reports
        PROVE  r.run = run /\ r.hops = hop /\ r.cost = cost
    <3>1. r.run \in Nat /\ r.run <= 1 /\ r.run # 0
      BY DEF LimitsInv, TypeOK, ReportRows, TablesInv, OutcomeInv, ReadersInv, RowsInv,
         ReportExact
    <3>2. r.run = run
      BY <3>1
    <3> QED BY <3>2 DEF ReadersInv, RowsInv, ReportExact
  <2>3. reports # {} => status = "RESOLVED"
    BY <2>2, RunsRecorded DEF OutcomeRecorded, TablesInv
  <2>4. status = "RESOLVED" => reports # {}
    BY RunsRecorded DEF OutcomeRecorded, TablesInv, LimitsInv, NodeInv
  <2>5. ~BenchmarkEscalated =>
          BenchmarkMetrics.hops = hop /\ BenchmarkMetrics.cost = cost
    <3> SUFFICES ASSUME reports # {}
                 PROVE  BenchmarkMetrics.hops = hop /\ BenchmarkMetrics.cost = cost
      BY <2>1 DEF BenchmarkEscalated
    <3> DEFINE report == CHOOSE r \in reports : TRUE
    <3>1. report \in reports
      OBVIOUS
    <3>2. BenchmarkMetrics.hops = report.hops /\ BenchmarkMetrics.cost = report.cost
      BY <2>1 DEF BenchmarkMetrics
    <3> QED BY <2>2, <3>1, <3>2
  <2> QED BY <2>1, <2>3, <2>4, <2>5 DEF BenchmarkEscalated
<1> QED BY <1>1, ReadersInvariant, ViewedGraph, LimitsInvariant, TablesInvariant, PTL

-----------------------------------------------------------------------------
(* The hops told. *)

CallRows(log) == {i \in DOMAIN log : log[i].event = "tool_call"}

LEMMA HopsType ==
    ASSUME NEW log \in Seq(AuditRows)
    PROVE  IsFiniteSet(CallRows(log)) /\ HopsOf(log) = Cardinality(CallRows(log))
           /\ HopsOf(log) \in Nat
<1>1. IsFiniteSet(1 .. Len(log)) /\ CallRows(log) \subseteq 1 .. Len(log)
  BY FS_Interval DEF CallRows
<1>2. IsFiniteSet(CallRows(log))
  BY <1>1, FS_Subset
<1>3. HopsOf(log) = Cardinality(CallRows(log))
  BY DEF HopsOf, CallRows
<1> QED BY <1>2, <1>3, FS_CardinalityType

\* What is seen of the log counts no more calls than the log.
LEMMA HopsSeen ==
    ASSUME NEW long \in Seq(AuditRows), NEW short \in Seq(AuditRows), Extends(long, short)
    PROVE  HopsOf(short) <= HopsOf(long)
<1>1. CallRows(short) \subseteq CallRows(long)
  BY DEF Extends, CallRows
<1> QED BY <1>1, HopsType, FS_Subset

\* A row counts once if it is of a call, and otherwise not.
LEMMA HopsLogged ==
    ASSUME NEW log \in Seq(AuditRows), NEW row \in AuditRows, NEW ok \in BOOLEAN
    PROVE  /\ Logged(log, row, ok) \in Seq(AuditRows)
           /\ HopsOf(Logged(log, row, ok)) <= HopsOf(log) + 1
           /\ row.event # "tool_call" => HopsOf(Logged(log, row, ok)) = HopsOf(log)
<1>0. HopsOf(log) \in Nat
  BY HopsType
<1>1. CASE ~ok
  BY <1>0, <1>1 DEF Logged
<1>2. CASE ok
  <2> DEFINE new == Append(log, row)
             n == Len(log) + 1
  <2>1. /\ new \in Seq(AuditRows) /\ Len(new) = n /\ Len(log) \in Nat
        /\ new[n] = row
        /\ \A i \in DOMAIN new : \/ i \in DOMAIN log /\ new[i] = log[i]
                                 \/ i = n /\ new[i] = row
        /\ \A i \in DOMAIN log : i \in DOMAIN new /\ i # n /\ new[i] = log[i]
    BY AppendedRows
  <2>2. Logged(log, row, ok) = new
    BY <1>2 DEF Logged
  <2> HIDE DEF new
  <2>3. CASE row.event = "tool_call"
    <3>1. CallRows(new) = CallRows(log) \cup {n} /\ n \notin CallRows(log)
      BY <2>1, <2>3 DEF CallRows
    <3>2. Cardinality(CallRows(new)) = Cardinality(CallRows(log)) + 1
      <4>1. IsFiniteSet(CallRows(log))
        BY HopsType
      <4>2. Cardinality(CallRows(log) \cup {n}) = Cardinality(CallRows(log)) + 1
        BY <3>1, <4>1, FS_AddElement
      <4> QED BY <3>1, <4>2
    <3> QED BY <1>0, <2>1, <2>2, <2>3, <3>2, HopsType
  <2>4. CASE row.event # "tool_call"
    <3>1. CallRows(new) = CallRows(log)
      BY <2>1, <2>4 DEF CallRows
    <3> QED BY <1>0, <2>1, <2>2, <3>1, HopsType
  <2> QED BY <2>3, <2>4
<1> QED BY <1>1, <1>2

HopsInv ==
    /\ run = 1 => HopsOf(auditLog) <= hop
    /\ told.hops \in Nat
    /\ HopsTold

\* A first run counts its calls as the log does, or more when rows were lost.
LEMMA StepHops ==
    ASSUME LimitsInv, Next, run = 1, run' = 1, HopsOf(auditLog) <= hop
    PROVE  HopsOf(auditLog') <= hop' /\ hop <= hop'
<1>1. /\ auditLog \in Seq(AuditRows) /\ hop \in Nat /\ HopsOf(auditLog) \in Nat
      /\ run \in Nat
  BY HopsType DEF LimitsInv, TypeOK
<1>2. CASE NodeInvestigating
  <2> DEFINE a == AuditRow("triggered", None, "INVESTIGATING", 0)
             b == AuditRow("state_change", "IDLE", "INVESTIGATING", 0)
  <2>1. PICK okTriggered \in BOOLEAN, okStarted \in BOOLEAN, okFallback \in BOOLEAN :
          LET opened == Logged(Logged(auditLog, a, okTriggered), b, okStarted)
          IN auditLog' \in {opened, Logged(opened, FallbackRow, okFallback)}
    BY <1>2 DEF NodeInvestigating
  <2>2. /\ a \in AuditRows /\ b \in AuditRows /\ FallbackRow \in AuditRows
        /\ a.event # "tool_call" /\ b.event # "tool_call" /\ FallbackRow.event # "tool_call"
    BY RowOfRun, AuditRowFields DEF Statuses, FallbackRow
  <2> DEFINE one == Logged(auditLog, a, okTriggered)
             two == Logged(one, b, okStarted)
             three == Logged(two, FallbackRow, okFallback)
  <2>3. auditLog' = two \/ auditLog' = three
    BY <2>1
  <2> HIDE DEF a, b
  <2>4. one \in Seq(AuditRows) /\ HopsOf(one) = HopsOf(auditLog)
    BY <1>1, <2>2, HopsLogged
  <2> HIDE DEF one
  <2>5. two \in Seq(AuditRows) /\ HopsOf(two) = HopsOf(auditLog)
    BY <2>2, <2>4, HopsLogged
  <2> HIDE DEF two
  <2>6. HopsOf(three) = HopsOf(auditLog)
    BY <2>2, <2>5, HopsLogged
  <2>7. hop = 0 /\ hop' = 0
    BY <1>2 DEF NodeInvestigating, LimitsInv, NodeInv
  <2> QED BY <2>3, <2>5, <2>6, <2>7
<1>3. CASE NodeToolCalling
  <2>1. PICK reply \in SelectionReplies, okCall \in BOOLEAN, okChange \in BOOLEAN :
          auditLog' = Logged(Logged(auditLog, AuditRow("tool_call", None, None, 0), okCall),
             AuditRow("state_change", IF hop = 0 THEN "INVESTIGATING" ELSE "EVALUATING",
                      "TOOL_CALLING", reply.cost), okChange)
    BY <1>3 DEF NodeToolCalling
  <2>2. PICK from \in Statuses :
          auditLog' = Logged(Logged(auditLog, AuditRow("tool_call", None, None, 0), okCall),
             AuditRow("state_change", from, "TOOL_CALLING", reply.cost), okChange)
    BY <2>1 DEF Statuses
  <2> DEFINE a == AuditRow("tool_call", None, None, 0)
             b == AuditRow("state_change", from, "TOOL_CALLING", reply.cost)
  <2>3. a \in AuditRows
    BY RowOfRun DEF None
  <2>4. b \in AuditRows /\ b.event # "tool_call"
    <3>1. reply.cost \in Nat /\ "TOOL_CALLING" \in Statuses \cup {None}
          /\ from \in Statuses \cup {None}
      BY SelectionReplyType DEF Statuses
    <3> QED BY <3>1, RowOfRun, AuditRowFields
  <2> DEFINE one == Logged(auditLog, a, okCall)
             two == Logged(one, b, okChange)
  <2>5. auditLog' = two
    BY <2>2
  <2> HIDE DEF a, b
  <2>6. one \in Seq(AuditRows) /\ HopsOf(one) <= HopsOf(auditLog) + 1 /\ HopsOf(one) \in Nat
    BY <1>1, <2>3, HopsLogged, HopsType
  <2> HIDE DEF one
  <2>7. HopsOf(two) = HopsOf(one)
    BY <2>4, <2>6, HopsLogged
  <2> HIDE DEF two
  <2>8. hop' = hop + 1
    BY <1>3 DEF NodeToolCalling
  <2> QED BY <1>1, <2>5, <2>6, <2>7, <2>8
<1>4. CASE NodeEvaluatingRefuses \/ NodeResolved \/ NodeEscalated
  <2>1. PICK event \in {"state_change", "resolved", "escalated"},
             to \in {"ESCALATED", "RESOLVED"}, ok \in BOOLEAN :
          /\ auditLog' = Logged(auditLog, AuditRow(event, "EVALUATING", to, 0), ok)
          /\ to = "RESOLVED" => event = "resolved"
    BY <1>4 DEF NodeEvaluatingRefuses, NodeResolved, NodeEscalated
  <2> DEFINE row == AuditRow(event, "EVALUATING", to, 0)
  <2>2. row \in AuditRows /\ row.event # "tool_call"
    <3>1. to \in Statuses \cup {None} /\ "EVALUATING" \in Statuses \cup {None}
      BY DEF Statuses
    <3> QED BY <2>1, <3>1, RowOfRun, AuditRowFields
  <2>3. hop' = hop
    BY <1>4 DEF NodeEvaluatingRefuses, NodeResolved, NodeEscalated
  <2> HIDE DEF row
  <2>4. auditLog' = Logged(auditLog, row, ok)
    BY <2>1 DEF row
  <2> QED BY <1>1, <2>2, <2>3, <2>4, HopsLogged
<1>5. CASE NodeToolCallingRaises \/ DispatchRaises \/ NodeEvaluatingCalls \/ Crash
  <2>1. UNCHANGED <<auditLog, hop>>
    BY <1>5 DEF NodeToolCallingRaises, DispatchRaises, NodeEvaluatingCalls, Crash, agentState,
                database
  <2> QED BY <1>1, <2>1
<1>6. CASE Invoke
  BY <1>1, <1>6 DEF Invoke
<1> QED BY <1>2, <1>3, <1>4, <1>5, <1>6 DEF Next, GraphStep

LEMMA NextHops ==
    ASSUME LimitsInv, ReadersInv, HopsInv, [ViewNext]_viewStateVars
    PROVE  HopsInv'
<1>0. /\ hop \in Nat /\ run \in Nat /\ run # 0
      /\ auditLog \in Seq(AuditRows) /\ shown.auditLog \in Seq(AuditRows)
      /\ Extends(auditLog, shown.auditLog)
  BY DEF LimitsInv, TypeOK, ReadersInv, ShownInv, ShownTables
<1>1. CASE InvestigationStep
  <2>1. Next /\ told' = told
    BY <1>1 DEF InvestigationStep, Next, viewVars
  <2>2. run' = 1 => run = 1
    BY <2>1, FirstRun
  <2>3. run' = 1 => HopsOf(auditLog') <= hop' /\ hop <= hop'
    BY <2>1, <2>2, StepHops DEF HopsInv
  <2>4. hop' \in Nat
    BY <2>1, NextLimits DEF LimitsInv, TypeOK
  <2>5. run' = 1 => told'.hops <= hop'
    BY <1>0, <2>1, <2>2, <2>3, <2>4 DEF HopsInv, HopsTold
  <2>6. (run = 1 => HopsOf(auditLog) <= hop)'
    BY <2>3 DEF HopsOf
  <2> QED BY <2>1, <2>5, <2>6 DEF HopsInv, HopsTold
<1>2. CASE StatusRow
  <2>1. UNCHANGED <<run, hop, auditLog>> /\ told'.hops = HopsOf(shown.auditLog)
    BY <1>2 DEF StatusRow, vars, agentState, database
  <2>2. HopsOf(shown.auditLog) \in Nat /\ HopsOf(auditLog) \in Nat
    BY <1>0, HopsType
  <2>3. HopsOf(shown.auditLog) <= HopsOf(auditLog)
    BY <1>0, HopsSeen
  <2>4. (run = 1 => HopsOf(auditLog) <= hop)'
    BY <2>1 DEF HopsInv, HopsOf
  <2> QED BY <1>0, <2>1, <2>2, <2>3, <2>4 DEF HopsInv, HopsTold
<1>3. CASE RowAppears \/ StatusExists \/ StatusFails \/ GetReport \/ UNCHANGED viewStateVars
  <2>1. UNCHANGED <<run, hop, auditLog>> /\ (told' = told \/ told'.hops = 0)
    BY <1>3 DEF RowAppears, StatusExists, StatusFails, GetReport, NotAsked, viewStateVars,
       viewVars, vars, agentState, database
  <2>2. (run = 1 => HopsOf(auditLog) <= hop)'
    BY <2>1 DEF HopsInv, HopsOf
  <2> QED BY <1>0, <2>1, <2>2 DEF HopsInv, HopsTold
<1> QED BY <1>1, <1>2, <1>3 DEF ViewNext

\* GET /status never tells more tool calls of a first run than were made, at
\* whichever row of a node it looks.
THEOREM HopsNotOverstated == ViewSpec => []HopsTold
<1>1. ViewInit => HopsInv
  <2> SUFFICES ASSUME ViewInit PROVE HopsInv
    OBVIOUS
  <2>1. auditLog = <<>> /\ hop = 0 /\ told.hops = 0
    BY DEF ViewInit, Init, NotAsked
  <2>2. HopsOf(auditLog) = 0
    <3>1. {i \in DOMAIN auditLog : auditLog[i].event = "tool_call"} = {}
      BY <2>1
    <3> QED BY <3>1, FS_EmptySet DEF HopsOf
  <2> QED BY <2>1, <2>2 DEF HopsInv, HopsTold
<1>2. LimitsInv /\ ReadersInv /\ HopsInv /\ [ViewNext]_viewStateVars => HopsInv'
  BY NextHops
<1>3. HopsInv => HopsTold
  BY DEF HopsInv
<1> QED
  BY <1>1, <1>2, <1>3, ReadersInvariant, ViewedGraph, LimitsInvariant, PTL DEF ViewSpec

-----------------------------------------------------------------------------
(* The cost told. *)

\* The cost a row adds is counted in units of its own.
LEMMA UnitsOfRow ==
    ASSUME NEW n, NEW d \in Nat
    PROVE  IsFiniteSet({n} \X (1 .. d)) /\ Cardinality({n} \X (1 .. d)) = d
<1>1. IsFiniteSet({n}) /\ Cardinality({n}) = 1
  BY FS_Singleton
<1>2. IsFiniteSet(1 .. d) /\ Cardinality(1 .. d) = d
  BY FS_Interval
<1>3. IsFiniteSet({n} \X (1 .. d))
  BY <1>1, <1>2, FS_Product
<1>4. Cardinality({n} \X (1 .. d)) = Cardinality({n}) * Cardinality(1 .. d)
  BY <1>1, <1>2, FS_Product
<1> QED BY <1>1, <1>2, <1>3, <1>4

Charged(log) == IsFiniteSet(CostUnits(log))

LEMMA CostType ==
    ASSUME NEW log, Charged(log)
    PROVE  CostOf(log) \in Nat
BY FS_CardinalityType DEF Charged, CostOf

\* What is seen of the log costs no more than the log.
LEMMA CostSeen ==
    ASSUME NEW long \in Seq(AuditRows), NEW short \in Seq(AuditRows), Extends(long, short),
           Charged(long)
    PROVE  Charged(short) /\ CostOf(short) <= CostOf(long)
<1>1. \A i \in DOMAIN short : i \in DOMAIN long /\ long[i] = short[i]
  BY DEF Extends
<1>2. CostUnits(short) \subseteq CostUnits(long)
  BY <1>1 DEF CostUnits
<1> QED BY <1>2, FS_Subset DEF Charged, CostOf

\* A row adds its delta, if its write succeeds.
LEMMA CostLogged ==
    ASSUME NEW log \in Seq(AuditRows), Charged(log), NEW row \in AuditRows, NEW ok \in BOOLEAN
    PROVE  /\ Logged(log, row, ok) \in Seq(AuditRows)
           /\ Charged(Logged(log, row, ok))
           /\ CostOf(Logged(log, row, ok)) <= CostOf(log) + row.cost_usd_delta
<1>0. CostOf(log) \in Nat /\ row.cost_usd_delta \in Nat
  BY CostType DEF AuditRows
<1>1. CASE ~ok
  BY <1>0, <1>1 DEF Logged
<1>2. CASE ok
  <2> DEFINE new == Append(log, row)
             n == Len(log) + 1
             d == row.cost_usd_delta
             added == {n} \X (1 .. d)
  <2>1. /\ new \in Seq(AuditRows) /\ Len(log) \in Nat
        /\ DOMAIN new = DOMAIN log \cup {n} /\ n \notin DOMAIN log
        /\ new[n] = row /\ \A i \in DOMAIN log : new[i] = log[i]
    BY AppendedRows
  <2>2. Logged(log, row, ok) = new
    BY <1>2 DEF Logged
  <2>3. CostUnits(new) = CostUnits(log) \cup added
    <3> HIDE DEF new, n
    <3>1. ASSUME NEW u
          PROVE  u \in CostUnits(new) <=> u \in CostUnits(log) \cup added
      <4>1. u \in CostUnits(new) <=> \E i \in DOMAIN new : u \in {i} \X (1 .. new[i].cost_usd_delta)
        BY DEF CostUnits
      <4>2. u \in CostUnits(log) <=> \E i \in DOMAIN log : u \in {i} \X (1 .. log[i].cost_usd_delta)
        BY DEF CostUnits
      <4> QED BY <2>1, <4>1, <4>2, Zenon
    <3> QED BY <3>1
  <2>4. CostUnits(log) \cap added = {}
    BY <2>1 DEF CostUnits
  <2>5. IsFiniteSet(added) /\ Cardinality(added) = d
    BY <1>0, UnitsOfRow
  <2>6. IsFiniteSet(CostUnits(log))
    BY DEF Charged
  <2> HIDE DEF new, added, d
  <2>7. IsFiniteSet(CostUnits(log) \cup added)
    BY <2>5, <2>6, FS_Union
  <2>8. Cardinality(CostUnits(log) \cup added)
          = Cardinality(CostUnits(log)) + Cardinality(added) - Cardinality({})
    BY <2>4, <2>5, <2>6, FS_Union
  <2>9. Cardinality({}) = 0
    BY FS_EmptySet
  <2>10. CostOf(new) = CostOf(log) + d
    BY <1>0, <2>3, <2>5, <2>8, <2>9 DEF CostOf, d
  <2> QED BY <1>0, <2>1, <2>2, <2>3, <2>7, <2>10 DEF Charged, d
<1> QED BY <1>1, <1>2

CostInv ==
    /\ Charged(auditLog)
    /\ run = 1 => CostOf(auditLog) <= cost
    /\ told.cost \in Nat
    /\ CostTold

\* What one step adds to the log is what it adds to the cost, or less: the
\* first selection and the evaluations are charged to no row.
LEMMA StepCost ==
    ASSUME LimitsInv, Next, Charged(auditLog)
    PROVE  /\ Charged(auditLog')
           /\ run' = run =>
                /\ cost <= cost'
                /\ CostOf(auditLog') + cost <= CostOf(auditLog) + cost'
<1>0. /\ auditLog \in Seq(AuditRows) /\ cost \in Nat /\ CostOf(auditLog) \in Nat
      /\ run \in Nat
  BY CostType DEF LimitsInv, TypeOK
<1>1. CASE NodeInvestigating
  <2> DEFINE a == AuditRow("triggered", None, "INVESTIGATING", 0)
             b == AuditRow("state_change", "IDLE", "INVESTIGATING", 0)
  <2>1. PICK reply \in SelectionReplies, okTriggered \in BOOLEAN, okStarted \in BOOLEAN,
             okFallback \in BOOLEAN :
          LET opened == Logged(Logged(auditLog, a, okTriggered), b, okStarted)
          IN /\ auditLog' \in {opened, Logged(opened, FallbackRow, okFallback)}
             /\ cost' = cost + reply.cost
    BY <1>1 DEF NodeInvestigating
  <2>2. /\ a \in AuditRows /\ b \in AuditRows /\ FallbackRow \in AuditRows
        /\ a.cost_usd_delta = 0 /\ b.cost_usd_delta = 0 /\ FallbackRow.cost_usd_delta = 0
    <3>1. a \in AuditRows /\ b \in AuditRows /\ FallbackRow \in AuditRows
      BY RowOfRun DEF Statuses, FallbackRow
    <3> QED BY <3>1 DEF AuditRow, FallbackRow
  <2> DEFINE one == Logged(auditLog, a, okTriggered)
             two == Logged(one, b, okStarted)
             three == Logged(two, FallbackRow, okFallback)
  <2>3. (auditLog' = two \/ auditLog' = three) /\ cost' = cost + reply.cost
    BY <2>1
  <2>4. reply.cost \in Nat
    BY SelectionReplyType
  <2> HIDE DEF a, b
  <2>5. /\ one \in Seq(AuditRows) /\ Charged(one) /\ CostOf(one) <= CostOf(auditLog) + 0
        /\ CostOf(one) \in Nat
    BY <1>0, <2>2, CostLogged, CostType
  <2> HIDE DEF one
  <2>6. /\ two \in Seq(AuditRows) /\ Charged(two) /\ CostOf(two) <= CostOf(one) + 0
        /\ CostOf(two) \in Nat
    BY <2>2, <2>5, CostLogged, CostType
  <2> HIDE DEF two
  <2>7. Charged(three) /\ CostOf(three) <= CostOf(two) + 0 /\ CostOf(three) \in Nat
    BY <2>2, <2>6, CostLogged, CostType
  <2> HIDE DEF three
  <2>8. CostOf(two) <= CostOf(auditLog) /\ CostOf(three) <= CostOf(auditLog)
    BY <1>0, <2>5, <2>6, <2>7
  <2>9. Charged(auditLog') /\ CostOf(auditLog') <= CostOf(auditLog) /\ CostOf(auditLog') \in Nat
    BY <2>3, <2>6, <2>7, <2>8
  <2> QED BY <1>0, <2>3, <2>4, <2>9
<1>2. CASE NodeToolCalling
  <2>1. PICK reply \in SelectionReplies, okCall \in BOOLEAN, okChange \in BOOLEAN :
          /\ auditLog' = Logged(Logged(auditLog, AuditRow("tool_call", None, None, 0), okCall),
               AuditRow("state_change", IF hop = 0 THEN "INVESTIGATING" ELSE "EVALUATING",
                        "TOOL_CALLING", reply.cost), okChange)
          /\ cost' = cost + reply.cost
    BY <1>2 DEF NodeToolCalling
  <2>2. PICK from \in Statuses :
          auditLog' = Logged(Logged(auditLog, AuditRow("tool_call", None, None, 0), okCall),
             AuditRow("state_change", from, "TOOL_CALLING", reply.cost), okChange)
    BY <2>1 DEF Statuses
  <2> DEFINE a == AuditRow("tool_call", None, None, 0)
             b == AuditRow("state_change", from, "TOOL_CALLING", reply.cost)
  <2>3. reply.cost \in Nat
    BY SelectionReplyType
  <2>4. a \in AuditRows /\ a.cost_usd_delta = 0
    <3>1. a \in AuditRows
      BY RowOfRun DEF None
    <3> QED BY <3>1 DEF AuditRow
  <2>5. b \in AuditRows /\ b.cost_usd_delta = reply.cost
    <3>1. "TOOL_CALLING" \in Statuses \cup {None} /\ from \in Statuses \cup {None}
      BY DEF Statuses
    <3>2. b \in AuditRows
      BY <2>3, <3>1, RowOfRun
    <3> QED BY <3>2 DEF AuditRow
  <2> DEFINE one == Logged(auditLog, a, okCall)
             two == Logged(one, b, okChange)
  <2>6. auditLog' = two
    BY <2>2
  <2> HIDE DEF a, b
  <2>7. /\ one \in Seq(AuditRows) /\ Charged(one) /\ CostOf(one) <= CostOf(auditLog) + 0
        /\ CostOf(one) \in Nat
    BY <1>0, <2>4, CostLogged, CostType
  <2> HIDE DEF one
  <2>8. /\ Charged(two) /\ CostOf(two) <= CostOf(one) + reply.cost /\ CostOf(two) \in Nat
    BY <2>5, <2>7, CostLogged, CostType
  <2> HIDE DEF two
  <2> QED BY <1>0, <2>1, <2>3, <2>6, <2>7, <2>8
<1>3. CASE NodeEvaluatingRefuses \/ NodeResolved \/ NodeEscalated
  <2>1. PICK event \in {"state_change", "resolved", "escalated"},
             to \in {"ESCALATED", "RESOLVED"}, ok \in BOOLEAN :
          /\ auditLog' = Logged(auditLog, AuditRow(event, "EVALUATING", to, 0), ok)
          /\ to = "RESOLVED" => event = "resolved"
    BY <1>3 DEF NodeEvaluatingRefuses, NodeResolved, NodeEscalated
  <2> DEFINE row == AuditRow(event, "EVALUATING", to, 0)
  <2>2. row \in AuditRows /\ row.cost_usd_delta = 0
    <3>1. to \in Statuses \cup {None} /\ "EVALUATING" \in Statuses \cup {None}
      BY DEF Statuses
    <3>2. row \in AuditRows
      BY <2>1, <3>1, RowOfRun
    <3> QED BY <3>2 DEF AuditRow
  <2>3. cost' = cost
    BY <1>3 DEF NodeEvaluatingRefuses, NodeResolved, NodeEscalated
  <2> HIDE DEF row
  <2>4. auditLog' = Logged(auditLog, row, ok)
    BY <2>1 DEF row
  <2>5. /\ Charged(auditLog') /\ CostOf(auditLog') <= CostOf(auditLog) + 0
        /\ CostOf(auditLog') \in Nat
    BY <1>0, <2>2, <2>4, CostLogged, CostType
  <2> QED BY <1>0, <2>3, <2>5
<1>4. CASE NodeEvaluatingCalls
  <2>1. PICK reply \in EvaluationReplies : cost' = cost + reply.cost
    BY <1>4 DEF NodeEvaluatingCalls
  <2>2. reply.cost \in Nat
    BY EvaluationReplyType
  <2>3. UNCHANGED auditLog
    BY <1>4 DEF NodeEvaluatingCalls, database
  <2> QED BY <1>0, <2>1, <2>2, <2>3
<1>5. CASE NodeToolCallingRaises \/ DispatchRaises \/ Crash
  <2>1. UNCHANGED <<auditLog, cost>>
    BY <1>5 DEF NodeToolCallingRaises, DispatchRaises, Crash, agentState, database
  <2> QED BY <1>0, <2>1
<1>6. CASE Invoke
  BY <1>0, <1>6 DEF Invoke, database
<1> QED BY <1>1, <1>2, <1>3, <1>4, <1>5, <1>6 DEF Next, GraphStep

LEMMA NextCost ==
    ASSUME LimitsInv, ReadersInv, CostInv, [ViewNext]_viewStateVars
    PROVE  CostInv'
<1>0. /\ cost \in Nat /\ run \in Nat /\ run # 0
      /\ auditLog \in Seq(AuditRows) /\ shown.auditLog \in Seq(AuditRows)
      /\ Extends(auditLog, shown.auditLog)
      /\ Charged(auditLog) /\ CostOf(auditLog) \in Nat
  BY CostType DEF LimitsInv, TypeOK, ReadersInv, ShownInv, ShownTables, CostInv
<1>1. CASE InvestigationStep
  <2>1. Next /\ told' = told
    BY <1>1 DEF InvestigationStep, Next, viewVars
  <2>2. run' = 1 => run = 1
    BY <2>1, FirstRun
  <2>3. Charged(auditLog')
    BY <1>0, <2>1, StepCost
  <2>4. cost' \in Nat
    BY <2>1, NextLimits DEF LimitsInv, TypeOK
  <2>5. run' = 1 => CostOf(auditLog') <= cost' /\ cost <= cost'
    <3>1. run' = 1 => cost <= cost' /\ CostOf(auditLog') + cost <= CostOf(auditLog) + cost'
      BY <1>0, <2>1, <2>2, StepCost
    <3>2. CostOf(auditLog') \in Nat
      BY <2>3, CostType
    <3> QED BY <1>0, <2>2, <2>4, <3>1, <3>2 DEF CostInv
  <2>6. run' = 1 => told'.cost <= cost'
    BY <1>0, <2>1, <2>2, <2>4, <2>5 DEF CostInv, CostTold
  <2>7. (run = 1 => CostOf(auditLog) <= cost)'
    BY <2>5 DEF CostOf, CostUnits
  <2>8. Charged(auditLog)'
    BY <2>3 DEF Charged, CostUnits
  <2> QED BY <2>1, <2>6, <2>7, <2>8 DEF CostInv, CostTold
<1>2. CASE StatusRow
  <2>1. UNCHANGED <<run, cost, auditLog>> /\ told'.cost = CostOf(shown.auditLog)
    BY <1>2 DEF StatusRow, vars, agentState, database
  <2>2. CostOf(shown.auditLog) \in Nat /\ CostOf(shown.auditLog) <= CostOf(auditLog)
    BY <1>0, CostSeen, CostType
  <2>3. (run = 1 => CostOf(auditLog) <= cost)' /\ Charged(auditLog)'
    BY <2>1 DEF CostInv, CostOf, CostUnits, Charged
  <2> QED BY <1>0, <2>1, <2>2, <2>3 DEF CostInv, CostTold
<1>3. CASE RowAppears \/ StatusExists \/ StatusFails \/ GetReport \/ UNCHANGED viewStateVars
  <2>1. UNCHANGED <<run, cost, auditLog>> /\ (told' = told \/ told'.cost = 0)
    BY <1>3 DEF RowAppears, StatusExists, StatusFails, GetReport, NotAsked, viewStateVars,
       viewVars, vars, agentState, database
  <2>2. (run = 1 => CostOf(auditLog) <= cost)' /\ Charged(auditLog)'
    BY <2>1 DEF CostInv, CostOf, CostUnits, Charged
  <2> QED BY <1>0, <2>1, <2>2 DEF CostInv, CostTold
<1> QED BY <1>1, <1>2, <1>3 DEF ViewNext

LEMMA InitCost == ViewInit => CostInv
<1> SUFFICES ASSUME ViewInit PROVE CostInv
  OBVIOUS
<1>1. auditLog = <<>> /\ cost = 0 /\ told.cost = 0
  BY DEF ViewInit, Init, NotAsked
<1>2. CostUnits(auditLog) = {}
  BY <1>1 DEF CostUnits
<1>3. Charged(auditLog) /\ CostOf(auditLog) = 0
  BY <1>2, FS_EmptySet DEF Charged, CostOf
<1> QED BY <1>1, <1>3 DEF CostInv, CostTold

\* GET /status never tells a higher cost of a first run than was spent, at
\* whichever row of a node it looks.
THEOREM CostNotOverstated == ViewSpec => []CostTold
<1>1. ViewInit => CostInv
  BY InitCost
<1>2. LimitsInv /\ ReadersInv /\ CostInv /\ [ViewNext]_viewStateVars => CostInv'
  BY NextCost
<1>3. CostInv => CostTold
  BY DEF CostInv
<1> QED
  BY <1>1, <1>2, <1>3, ReadersInvariant, ViewedGraph, LimitsInvariant, PTL DEF ViewSpec

-----------------------------------------------------------------------------
(* The answers, all together. *)

Answers ==
    [code : {0, 200, 404, 500}, status : ShownStatuses \cup {None}, hops : Nat, cost : Nat]

AnswersInv ==
    /\ poll \in {"idle", "row"}
    /\ told \in Answers
    /\ fetched \in {0, 200, 404, 500}

LEMMA NotAskedType == NotAsked \in Answers
BY DEF NotAsked, Answers, ShownStatuses

\* Of a log that has rows the newest says a status, or nothing of one.
LEMMA StatusOfType ==
    ASSUME NEW log \in Seq(AuditRows), log # <<>>
    PROVE  StatusOf(log) \in ShownStatuses
<1>1. Latest(log) \in AuditRows
  BY DEF Latest
<1>2. Latest(log).state_to \in Statuses \cup {None}
  BY <1>1 DEF AuditRows
<1> QED BY <1>2 DEF StatusOf, ShownStatuses

LEMMA NextAnswers ==
    ASSUME LimitsInv, ReadersInv, CostInv, AnswersInv, [ViewNext]_viewStateVars
    PROVE  AnswersInv'
<1>0. /\ auditLog \in Seq(AuditRows) /\ shown.auditLog \in Seq(AuditRows)
      /\ Extends(auditLog, shown.auditLog) /\ Charged(auditLog)
      /\ poll = "row" => shown.auditLog # <<>>
  BY DEF LimitsInv, TypeOK, ReadersInv, ShownInv, ShownTables, CostInv, ClientInv, HasRows
<1>1. CASE StatusRow
  <2>1. StatusOf(shown.auditLog) \in ShownStatuses
    BY <1>0, <1>1, StatusOfType DEF StatusRow
  <2>2. HopsOf(shown.auditLog) \in Nat /\ CostOf(shown.auditLog) \in Nat
    BY <1>0, HopsType, CostSeen, CostType
  <2>3. told' \in Answers
    BY <1>1, <2>1, <2>2 DEF StatusRow, Answers
  <2> QED BY <1>1, <2>3 DEF StatusRow, AnswersInv
<1>2. CASE StatusExists \/ StatusFails
  <2>1. told' = told \/ told' = [NotAsked EXCEPT !.code = 404]
        \/ told' = [NotAsked EXCEPT !.code = 500]
    BY <1>2 DEF StatusExists, StatusFails
  <2>2. told' \in Answers
    BY <2>1, NotAskedType DEF Answers, AnswersInv
  <2>3. poll' \in {"idle", "row"} /\ UNCHANGED fetched
    BY <1>2 DEF StatusExists, StatusFails, AnswersInv
  <2> QED BY <2>2, <2>3 DEF AnswersInv
<1>3. CASE GetReport
  BY <1>3 DEF GetReport, AnswersInv
<1>4. CASE InvestigationStep \/ RowAppears \/ UNCHANGED viewStateVars
  BY <1>4 DEF InvestigationStep, RowAppears, viewStateVars, viewVars, AnswersInv
<1> QED BY <1>1, <1>2, <1>3, <1>4 DEF ViewNext

LEMMA SeenPrefix ==
    ASSUME NEW log \in Seq(AuditRows), NEW part \in Seq(AuditRows), Extends(log, part)
    PROVE  Len(part) <= Len(log) /\ part = SubSeq(log, 1, Len(part))
<1>1. Len(part) \in Nat /\ Len(log) \in Nat /\ Len(part) <= Len(log)
  BY DEF Extends
<1> DEFINE head == SubSeq(log, 1, Len(part))
<1>2. /\ head \in Seq(AuditRows) /\ Len(head) = Len(part)
      /\ \A i \in 1 .. Len(part) : head[i] = log[i]
  BY <1>1
<1>3. \A i \in 1 .. Len(part) : head[i] = part[i]
  BY <1>2 DEF Extends
<1> HIDE DEF head
<1>4. part = head
  BY <1>2, <1>3, SeqEqual
<1> QED BY <1>1, <1>4 DEF head

\* Whatever the client asks, and between whichever two rows: each answer is of
\* its type, what is seen is a part of the tables, a RESOLVED is true, and of a
\* first run neither hops nor cost are overstated.
THEOREM AnswersCorrect == ViewSpec => []AnswersTrue
<1>1. ViewInit => CostInv /\ AnswersInv
  BY InitCost, NotAskedType DEF ViewInit, AnswersInv
<1>2. LimitsInv /\ ReadersInv /\ CostInv /\ AnswersInv /\ [ViewNext]_viewStateVars
        => CostInv' /\ AnswersInv'
  BY NextCost, NextAnswers
<1>3. LimitsInv /\ ReadersInv /\ AnswersInv => ViewTypeOK
  <2> SUFFICES ASSUME LimitsInv, ReadersInv, AnswersInv PROVE ViewTypeOK
    OBVIOUS
  <2>1. /\ TypeOK /\ shown.toolLog \subseteq toolLog /\ shown.reports \subseteq reports
        /\ shown.escalations \subseteq escalations
    BY DEF LimitsInv, ReadersInv, ShownInv
  <2>2. Len(shown.auditLog) <= Len(auditLog)
        /\ shown.auditLog = SubSeq(auditLog, 1, Len(shown.auditLog))
    BY SeenPrefix DEF LimitsInv, TypeOK, ReadersInv, ShownInv, ShownTables
  <2> QED BY <2>1, <2>2 DEF AnswersInv, Answers, ViewTypeOK
<1>4. HopsTold /\ CostInv => NothingOverstated
  BY DEF CostInv, NothingOverstated
<1>5. ViewTypeOK /\ ToldResolved /\ NothingOverstated => AnswersTrue
  BY DEF AnswersTrue
<1> QED
  BY <1>1, <1>2, <1>3, <1>4, <1>5, ReadersInvariant, ViewedGraph, LimitsInvariant,
     StatusTruthful, HopsNotOverstated, PTL DEF ViewSpec

-----------------------------------------------------------------------------
(* The list of investigations. *)

UnderWay == {"node_tool_calling", "node_evaluating", "node_resolved", "node_escalated"}

\* An investigation that is past its first node is listed, and one that has ended
\* has the row that says how for its newest -- if nothing was lost.
ListedInv ==
    lost = 0 =>
        /\ node \in UnderWay \cup {"END"} => Listed(auditLog)
        /\ node = "END" => auditLog # <<>> /\ Latest(auditLog).state_to = status

\* Rows are never taken out of the list again.
LEMMA ListedStays ==
    ASSUME NEW long \in Seq(AuditRows), NEW short \in Seq(AuditRows), Extends(long, short),
           Listed(short)
    PROVE  Listed(long)
BY DEF Extends, Listed

\* A row that is written is the newest.
LEMMA LoggedNewest ==
    ASSUME NEW log \in Seq(AuditRows), NEW row \in AuditRows
    PROVE  /\ Logged(log, row, TRUE) \in Seq(AuditRows)
           /\ Logged(log, row, TRUE) # <<>>
           /\ Latest(Logged(log, row, TRUE)) = row
           /\ row.event = "triggered" => Listed(Logged(log, row, TRUE))
<1> DEFINE new == Append(log, row)
<1>1. /\ new \in Seq(AuditRows) /\ Len(new) = Len(log) + 1 /\ Len(log) \in Nat
      /\ new[Len(log) + 1] = row /\ DOMAIN new = 1 .. Len(log) + 1
  BY AppendedRows
<1>2. Logged(log, row, TRUE) = new
  BY DEF Logged
<1> HIDE DEF new
<1>3. Len(log) + 1 \in DOMAIN new /\ new # <<>>
  BY <1>1
<1> QED BY <1>1, <1>2, <1>3 DEF Latest, Listed

LEMMA OpeningListed ==
    ASSUME LimitsInv, LogSound(auditLog), NodeInvestigating, lost' = 0
    PROVE  Listed(auditLog')
<1> DEFINE a == AuditRow("triggered", None, "INVESTIGATING", 0)
           b == AuditRow("state_change", "IDLE", "INVESTIGATING", 0)
<1>1. PICK okTriggered \in BOOLEAN, okStarted \in BOOLEAN, okFallback \in BOOLEAN :
        LET opened == Logged(Logged(auditLog, a, okTriggered), b, okStarted)
        IN \/ /\ auditLog' = opened
              /\ Lose(Misses(okTriggered) + Misses(okStarted))
           \/ /\ auditLog' = Logged(opened, FallbackRow, okFallback)
              /\ Lose(Misses(okTriggered) + Misses(okStarted) + Misses(okFallback))
  BY DEF NodeInvestigating
<1>2. /\ a \in AuditRows /\ RowSound(a) /\ a.event = "triggered"
      /\ b \in AuditRows /\ RowSound(b) /\ FallbackRow \in AuditRows /\ RowSound(FallbackRow)
  BY RowOfRun, AuditRowFields DEF Statuses, None, FallbackRow
<1>3. okTriggered
  <2>1. /\ Misses(okTriggered) + Misses(okStarted) \in Nat
        /\ Misses(okTriggered) + Misses(okStarted) + Misses(okFallback) \in Nat
    BY MissesType
  <2>2. \/ Lose(Misses(okTriggered) + Misses(okStarted))
        \/ Lose(Misses(okTriggered) + Misses(okStarted) + Misses(okFallback))
    BY <1>1
  <2> QED BY <2>1, <2>2, NothingLost, NothingMissed
<1>4. auditLog \in Seq(AuditRows)
  BY DEF LimitsInv, TypeOK
<1> DEFINE one == Logged(auditLog, a, okTriggered)
           two == Logged(one, b, okStarted)
           three == Logged(two, FallbackRow, okFallback)
<1>5. auditLog' = two \/ auditLog' = three
  BY <1>1
<1> HIDE DEF a, b
<1>6. one \in Seq(AuditRows) /\ LogSound(one)
  BY <1>2, <1>4, LoggedSound
<1>7. Listed(one)
  <2>1. one = Logged(auditLog, a, TRUE)
    BY <1>3 DEF Logged
  <2> QED BY <1>2, <1>4, <2>1, LoggedNewest
<1> HIDE DEF one
<1>8. two \in Seq(AuditRows) /\ LogSound(two) /\ Extends(two, one)
  BY <1>2, <1>6, LoggedSound
<1> HIDE DEF two
<1>9. three \in Seq(AuditRows) /\ Extends(three, two)
  BY <1>2, <1>8, LoggedSound
<1> HIDE DEF three
<1>10. Listed(two)
  BY <1>6, <1>7, <1>8, ListedStays
<1>11. Listed(three)
  BY <1>8, <1>9, <1>10, ListedStays
<1> QED BY <1>5, <1>10, <1>11

\* The last node of a run closes it with its status, unless that row is lost.
LEMMA ClosingNewest ==
    ASSUME LimitsInv, NodeResolved \/ NodeEscalated, lost' = 0
    PROVE  auditLog' # <<>> /\ Latest(auditLog').state_to = status'
<1>1. PICK event \in {"resolved", "escalated"}, ok \in BOOLEAN, n \in Nat :
        /\ auditLog' = Logged(auditLog, AuditRow(event, "EVALUATING", status', 0), ok)
        /\ status' \in {"RESOLVED", "ESCALATED"}
        /\ status' = "RESOLVED" => event = "resolved"
        /\ Lose(n) /\ (n = 0 => ok)
  <2>1. CASE NodeResolved
    <3>1. PICK okRead \in BOOLEAN, okReport \in BOOLEAN, okAudit \in BOOLEAN :
            /\ auditLog' = Logged(auditLog,
                             AuditRow("resolved", "EVALUATING", "RESOLVED", 0), okAudit)
            /\ Lose(Misses(okRead) + Misses(okReport) + Misses(okAudit))
      BY <2>1 DEF NodeResolved
    <3>2. status' = "RESOLVED"
      BY <2>1 DEF NodeResolved
    <3>3. /\ Misses(okRead) + Misses(okReport) + Misses(okAudit) \in Nat
          /\ Misses(okRead) + Misses(okReport) + Misses(okAudit) = 0 => okAudit
      BY MissesType, NothingMissed
    <3> QED BY <3>1, <3>2, <3>3
  <2>2. CASE NodeEscalated
    <3>1. PICK okAudit \in BOOLEAN, okQueue \in BOOLEAN :
            /\ auditLog' = Logged(auditLog,
                             AuditRow("escalated", "EVALUATING", "ESCALATED", 0), okAudit)
            /\ Lose(Misses(okAudit) + Misses(okQueue))
      BY <2>2 DEF NodeEscalated
    <3>2. status' = "ESCALATED"
      BY <2>2 DEF NodeEscalated
    <3>3. /\ Misses(okAudit) + Misses(okQueue) \in Nat
          /\ Misses(okAudit) + Misses(okQueue) = 0 => okAudit
      BY MissesType, NothingMissed
    <3> QED BY <3>1, <3>2, <3>3
  <2> QED BY <2>1, <2>2
<1> DEFINE row == AuditRow(event, "EVALUATING", status', 0)
<1>2. row \in AuditRows /\ row.state_to = status'
  <2>1. status' \in Statuses \cup {None} /\ "EVALUATING" \in Statuses \cup {None}
    BY <1>1 DEF Statuses
  <2> QED BY <1>1, <2>1, RowOfRun
<1> HIDE DEF row
<1>3. auditLog' = Logged(auditLog, row, TRUE)
  <2>1. ok
    BY <1>1, NothingLost
  <2> QED BY <1>1, <2>1 DEF row, Logged
<1>4. auditLog \in Seq(AuditRows)
  BY DEF LimitsInv, TypeOK
<1> QED BY <1>2, <1>3, <1>4, LoggedNewest

LEMMA NextListed ==
    ASSUME LimitsInv, LogSound(auditLog), ListedInv, Next
    PROVE  ListedInv'
<1>1. LogGrows
  BY StepGrows
<1>2. auditLog \in Seq(AuditRows) /\ auditLog' \in Seq(AuditRows)
  BY <1>1 DEF LimitsInv, TypeOK, LogGrows
<1>3. /\ lost' = 0 => lost = 0
      /\ Listed(auditLog) => Listed(auditLog')
  BY <1>1, <1>2, ListedStays DEF LogGrows
<1>4. CASE NodeInvestigating
  <2>1. node' = "node_tool_calling"
    BY <1>4 DEF NodeInvestigating
  <2>2. lost' = 0 => Listed(auditLog')
    BY <1>4, OpeningListed
  <2> QED BY <2>1, <2>2 DEF ListedInv, Listed
<1>5. CASE NodeToolCalling \/ NodeEvaluatingRefuses \/ NodeEvaluatingCalls
  <2>1. node \in UnderWay
    BY <1>5 DEF NodeToolCalling, NodeEvaluatingRefuses, NodeEvaluatingCalls, UnderWay
  <2>2. node' # "END"
    BY <1>5 DEF NodeToolCalling, NodeEvaluatingRefuses, NodeEvaluatingCalls,
       RouteAfterEvaluating, EvaluateRouting
  <2> QED BY <1>3, <2>1, <2>2 DEF ListedInv, Listed
<1>6. CASE NodeResolved \/ NodeEscalated
  <2>1. node \in UnderWay
    BY <1>6 DEF NodeResolved, NodeEscalated, UnderWay
  <2>2. lost' = 0 => auditLog' # <<>> /\ Latest(auditLog').state_to = status'
    BY <1>6, ClosingNewest
  <2> QED BY <1>3, <2>1, <2>2 DEF ListedInv, Listed, Latest
<1>7. CASE NodeToolCallingRaises \/ DispatchRaises \/ Crash \/ Invoke
  <2>1. node' \in {"error", "crashed", "node_investigating"}
    BY <1>7 DEF NodeToolCallingRaises, DispatchRaises, Crash, Invoke
  <2> QED BY <2>1 DEF ListedInv, UnderWay
<1> QED BY <1>4, <1>5, <1>6, <1>7 DEF Next, GraphStep

\* If the newest row has a status it is the one that is listed.
LEMMA NewestListed ==
    ASSUME NEW log \in Seq(AuditRows), log # <<>>, Latest(log).state_to # None
    PROVE  ListedStatus(log) = Latest(log).state_to
<1> DEFINE moves == {i \in DOMAIN log : log[i].state_to # None}
           n == Len(log)
<1>1. n \in moves /\ \A j \in moves : j <= n
  BY DEF Latest
<1>2. \A i \in moves : i \in Nat
  OBVIOUS
<1>3. (CHOOSE i \in moves : \A j \in moves : j <= i) = n
  <2> HIDE DEF moves
  <2>1. \A i \in moves : (\A j \in moves : j <= i) => i = n
    BY <1>1, <1>2
  <2> QED BY <1>1, <2>1
<1>4. moves # {}
  BY <1>1
<1> QED BY <1>3, <1>4 DEF ListedStatus, NewestOf, Latest

EndedListed ==
    node = "END" /\ lost = 0 /\ CaughtUp =>
        Listed(shown.auditLog) /\ ListedStatus(shown.auditLog) = status

\* The list never keeps a closed case as active: once the rows of the last node
\* can be seen, an investigation that has ended is listed with the status it
\* ended with, unless a write was lost.  (That they are seen in the end is
\* ListedClosed.)
THEOREM ClosedListed == ViewSpec => []EndedListed
<1>1. ViewInit => ListedInv
  BY DEF ViewInit, Init, ListedInv, UnderWay
<1>2. LimitsInv /\ ReadersInv /\ ListedInv /\ [ViewNext]_viewStateVars => ListedInv'
  <2> SUFFICES ASSUME LimitsInv, ReadersInv, ListedInv, [ViewNext]_viewStateVars
               PROVE  ListedInv'
    OBVIOUS
  <2>1. Next \/ UNCHANGED vars
    BY ViewStep DEF viewStateVars
  <2>2. CASE Next
    BY <2>2, NextListed DEF ReadersInv, RowsInv
  <2>3. CASE UNCHANGED vars
    BY <2>3 DEF vars, agentState, database, ListedInv, Listed, Latest
  <2> QED BY <2>1, <2>2, <2>3
<1>3. LimitsInv /\ ListedInv => EndedListed
  <2> SUFFICES ASSUME LimitsInv, ListedInv, node = "END", lost = 0, CaughtUp
               PROVE  Listed(shown.auditLog) /\ ListedStatus(shown.auditLog) = status
    BY DEF EndedListed
  <2>1. shown.auditLog = auditLog /\ auditLog \in Seq(AuditRows) /\ status \in Statuses
    BY DEF CaughtUp, Tables, LimitsInv, TypeOK
  <2>2. auditLog # <<>> /\ Latest(auditLog).state_to = status /\ Listed(auditLog)
    BY DEF ListedInv
  <2>3. status # None
    BY <2>1 DEF Statuses, None
  <2> QED BY <2>1, <2>2, <2>3, NewestListed
<1> QED
  BY <1>1, <1>2, <1>3, ReadersInvariant, ViewedGraph, LimitsInvariant, PTL DEF ViewSpec

=============================================================================
