------------------------------ MODULE AMLGraph ------------------------------
(***************************************************************************)
(* One AML investigation: the LangGraph state machine of agent/graph.py    *)
(* with the hard limits of agent/limits.py, the LLM client's fallback and  *)
(* the four database writers the nodes call.                               *)
(*                                                                         *)
(* A run is one AMLGraph.invoke for a fixed investigation_id.  Its         *)
(* AgentState lives in memory; the tables live in Postgres and survive a   *)
(* crash, after which the same investigation may be invoked again.  Every  *)
(* database write, and the read of the tool log, is "non-fatal": it may    *)
(* fail and the node goes on.                                              *)
(*                                                                         *)
(* Money is a natural number of some unit, time a number of seconds,       *)
(* confidence a number of 1e-5 units.  A tool selection is abstracted to   *)
(* whether its tool_input_json parses; which tool it names is not told     *)
(* apart.  The field run of a row, and basis of an evaluation, are ghosts: *)
(* no column or key has them, only the properties read them.               *)
(***************************************************************************)
EXTENDS Integers, Sequences, FiniteSets

CONSTANTS
    MaxToolHops,          \* MAX_TOOL_HOPS
    ConfidenceThreshold,  \* CONFIDENCE_THRESHOLD in 1e-4 units
    TimeoutSeconds,       \* INVESTIGATION_TIMEOUT_SECONDS
    CostCap,              \* COST_CAP_USD
    CallCosts,            \* what a successful LLM call may cost
    MaxCallCost,          \* the largest of them
    Confidences,          \* confidences the LLM may return, in 1e-5 units
    Durations,            \* how long a node may take
    MaxDuration,          \* the largest of them
    MaxLostWrites,        \* bound: database operations that fail
    MaxRuns               \* bound: invocations of this investigation

ASSUME LimitsAssumption ==
    /\ MaxToolHops \in Nat \ {0}
    /\ ConfidenceThreshold \in Nat \ {0}
    /\ TimeoutSeconds \in Nat
    /\ CostCap \in Nat \ {0}

ASSUME CallCostsAssumption ==
    /\ CallCosts \subseteq Nat
    /\ MaxCallCost \in Nat
    /\ \A c \in CallCosts : c <= MaxCallCost

ASSUME DurationsAssumption ==
    /\ Durations \subseteq Nat
    /\ MaxDuration \in Nat
    /\ \A d \in Durations : d <= MaxDuration

ASSUME ConfidencesAssumption == \A c \in Confidences : c \in Nat /\ c <= 100000

\* round() has no tie to break: the binary value of such a confidence is never
\* half way between two decimals.
ASSUME NoTiesAssumption == \A c \in Confidences : c % 10 # 5

ASSUME BoundsAssumption ==
    /\ MaxLostWrites \in Nat
    /\ MaxRuns \in Nat \ {0}

-----------------------------------------------------------------------------
(* The data a node reads and writes. *)

Statuses == {"IDLE", "INVESTIGATING", "TOOL_CALLING", "EVALUATING",
             "RESOLVED", "ESCALATED"}
Nodes    == {"node_investigating", "node_tool_calling", "node_evaluating",
             "node_resolved", "node_escalated"}
Stopped  == {"END", "error", "crashed"}
Verdicts == {"conclusive", "inconclusive"}   \* suspicious and clean are one
Reasons  == {"low_confidence", "max_hops", "timeout", "cost_cap",
             "empty_evidence"}

Selections == {"valid_json", "invalid_json"}
None       == "none"

NoEvaluation == [confidence |-> 0, verdict |-> None, should_continue |-> FALSE,
                 basis |-> 0]

SelectionReplies ==
    [selection : Selections, cost : CallCosts]
        \cup {[selection |-> None, cost |-> 0]}

EvaluationReplies ==
    [confidence : Confidences, verdict : Verdicts, should_continue : BOOLEAN,
     cost : CallCosts]
        \cup {[confidence |-> 0, verdict |-> "inconclusive",
               should_continue |-> FALSE, cost |-> 0]}

VARIABLES
    (* control *)
    node,         \* the node LangGraph runs next, or how the run stopped
    run,          \* which invocation of the investigation this is
    (* AgentState *)
    status, hop, cost, selection, evidence, evaluation, reason,
    elapsed,      \* time.time() - started_at
    (* Postgres *)
    toolLog,      \* tool_execution_log
    auditLog,     \* investigation_audit_log, in created_at order
    reports,      \* compliance_reports
    escalations,  \* escalation_queue
    (* bound *)
    lost          \* database operations that failed so far

agentState == <<status, hop, cost, selection, evidence, evaluation, reason, elapsed>>
database   == <<toolLog, auditLog, reports, escalations>>
vars       == <<node, run, agentState, database, lost>>

-----------------------------------------------------------------------------
(* agent/limits.py and the routing of agent/graph.py *)

Round4(c) == (c + 5) \div 10

MaxHopsReached   == hop >= MaxToolHops
TimedOut         == elapsed > TimeoutSeconds
CostCapped(c)    == c >= CostCap
ConfidenceLow(e) == Round4(e.confidence) < ConfidenceThreshold

\* Mutants of HardLimit: the hop limit off by one, the timeout or the cost cap
\* forgotten, the cost cap looked at before the timeout.
HardLimit_HopsOffByOne ==
    IF evidence = <<>>        THEN "empty_evidence"
    ELSE IF hop > MaxToolHops THEN "max_hops"
    ELSE IF TimedOut          THEN "timeout"
    ELSE IF CostCapped(cost)  THEN "cost_cap"
    ELSE None
HardLimit_NoTimeout ==
    IF evidence = <<>>        THEN "empty_evidence"
    ELSE IF MaxHopsReached    THEN "max_hops"
    ELSE IF CostCapped(cost)  THEN "cost_cap"
    ELSE None
HardLimit_NoCostCap ==
    IF evidence = <<>>        THEN "empty_evidence"
    ELSE IF MaxHopsReached    THEN "max_hops"
    ELSE IF TimedOut          THEN "timeout"
    ELSE None
HardLimit_CostCapBeforeTimeout ==
    IF evidence = <<>>        THEN "empty_evidence"
    ELSE IF MaxHopsReached    THEN "max_hops"
    ELSE IF CostCapped(cost)  THEN "cost_cap"
    ELSE IF TimedOut          THEN "timeout"
    ELSE None

\* The guards of node_evaluating that come before its LLM call, in their order.
HardLimit ==
    IF evidence = <<>>        THEN "empty_evidence"
    ELSE IF MaxHopsReached    THEN "max_hops"
    ELSE IF TimedOut          THEN "timeout"
    ELSE IF CostCapped(cost)  THEN "cost_cap"
    ELSE None

\* The checks of node_evaluating that come after its LLM call.
LimitAfterCall(c, e) ==
    IF CostCapped(c)         THEN "cost_cap"
    ELSE IF ConfidenceLow(e) THEN "low_confidence"
    ELSE None

\* Mutant: routing on confidence alone.
EvaluateRouting_IgnoresContinue(e) ==
    IF e = NoEvaluation \/ ConfidenceLow(e)
    THEN "node_tool_calling"
    ELSE "node_resolved"

EvaluateRouting(e) ==
    IF e = NoEvaluation \/ e.should_continue \/ ConfidenceLow(e)
    THEN "node_tool_calling"
    ELSE "node_resolved"

\* Mutant: a case out of hops is sent back to be evaluated again.
RouteAfterEvaluating_Reevaluates(r, e) ==
    IF r = "max_hops" THEN "node_evaluating"
    ELSE IF r # None THEN "node_escalated" ELSE EvaluateRouting(e)

RouteAfterEvaluating(r, e) ==
    IF r # None THEN "node_escalated" ELSE EvaluateRouting(e)

-----------------------------------------------------------------------------
(* The database writers: each either does its write or loses it. *)

\* Mutant: state_to is not passed on.
AuditRow_NoStateTo(event, from, to, delta) ==
    [run |-> run, event |-> event, state_from |-> from, state_to |-> None,
     cost_usd_delta |-> delta]
AuditRow(event, from, to, delta) ==
    [run |-> run, event |-> event, state_from |-> from, state_to |-> to,
     cost_usd_delta |-> delta]

Logged(log, row, ok) == IF ok THEN Append(log, row) ELSE log

\* node_investigating gives up: a state_change row, not the closing "escalated".
\* Mutant: the closing row instead.
FallbackRow_Closes == AuditRow("escalated", "INVESTIGATING", "ESCALATED", 0)
FallbackRow == AuditRow("state_change", "INVESTIGATING", "ESCALATED", 0)

\* Whether the tool succeeds.  Without a selection dispatch_tool is given
\* velocity_check and {}, which the input model of that tool rejects.
DispatchOutcomes == IF selection = None THEN {FALSE} ELSE BOOLEAN

EvidenceEntry(success) ==
    [hop |-> hop + 1, significance |-> IF success THEN "high" ELSE "low"]

\* The row dispatch_tool logs: its hop is the count before this call.
\* Mutant: the count after it.
ToolLogRow_CountsFromOne(success) == [run |-> run, hop |-> hop + 1, success |-> success]
ToolLogRow(success) == [run |-> run, hop |-> hop, success |-> success]

Misses(ok) == IF ok THEN 0 ELSE 1

\* Failures are counted only to bound them.
Lose(n) == lost' = lost + n /\ lost' <= MaxLostWrites

\* What the report says of a logged call.
ChainEntry(r) ==
    [run |-> r.run, hop |-> r.hop, significance |-> IF r.success THEN "medium" ELSE "low"]

\* build_evidence_chain: the rows of this investigation_id, whichever run
\* wrote them.  ORDER BY hop_number is the hop field of the entries.
\* Mutant: only the calls that succeeded.
EvidenceChain_Successes(ok) ==
    IF ok THEN {ChainEntry(r) : r \in {x \in toolLog : x.success}} ELSE {}
EvidenceChain(ok) == IF ok THEN {ChainEntry(r) : r \in toolLog} ELSE {}

\* No conclusive verdict without an evidence chain.  Mutant: the LLM's verdict.
ReportVerdict_Unguarded(chain) == evaluation.verdict
ReportVerdict(chain) == IF chain = {} THEN "inconclusive" ELSE evaluation.verdict

\* ON CONFLICT (investigation_id) DO NOTHING.  Mutant: ... DO UPDATE.
InsertReport_Upserts(report) == {report}
InsertReport(report) == IF reports = {} THEN {report} ELSE reports

\* The queued case: the reason and the snapshot of build_partial_report.
EscalationRow ==
    [run |-> run, reason |-> IF reason = None THEN "low_confidence" ELSE reason,
     hops |-> hop, cost |-> cost, evidence |-> evidence, evaluation |-> evaluation]

\* write_escalation refuses a reason that is not in VALID_REASONS.
\* Mutant: a reason missing from that set.
QueueCase_ReasonMissing(row, ok) ==
    IF ok /\ row.reason \in Reasons \ {"max_hops"} THEN escalations \cup {row} ELSE escalations
QueueCase(row, ok) ==
    IF ok /\ row.reason \in Reasons THEN escalations \cup {row} ELSE escalations

-----------------------------------------------------------------------------
Init ==
    /\ node = "node_investigating" /\ run = 1
    /\ status = "IDLE" /\ hop = 0 /\ cost = 0 /\ elapsed = 0
    /\ selection = None /\ evidence = <<>> /\ evaluation = NoEvaluation
    /\ reason = None
    /\ toolLog = {} /\ auditLog = <<>> /\ reports = {} /\ escalations = {}
    /\ lost = 0

\* The LLM selects the first tool; on its fallback the node asks to escalate,
\* but the edge to node_tool_calling is unconditional.
NodeInvestigating ==
    /\ node = "node_investigating"
    /\ \E reply \in SelectionReplies, d \in Durations,
          okTriggered, okStarted, okFallback \in BOOLEAN :
         LET opened == Logged(Logged(auditLog,
                         AuditRow("triggered", None, "INVESTIGATING", 0), okTriggered),
                         AuditRow("state_change", "IDLE", "INVESTIGATING", 0), okStarted)
         IN /\ selection' = reply.selection
            /\ cost' = cost + reply.cost
            /\ elapsed' = d
            /\ hop' = 0
            /\ \/ /\ reply.selection # None
                  /\ status' = "INVESTIGATING"
                  /\ auditLog' = opened
                  /\ Lose(Misses(okTriggered) + Misses(okStarted))
                  /\ UNCHANGED reason
               \/ /\ reply.selection = None
                  /\ status' = "ESCALATED"
                  /\ reason' = "low_confidence"
                  /\ auditLog' = Logged(opened, FallbackRow, okFallback)
                  /\ Lose(Misses(okTriggered) + Misses(okStarted) + Misses(okFallback))
    /\ node' = "node_tool_calling"
    /\ UNCHANGED <<run, evidence, evaluation, toolLog, reports, escalations>>

\* Runs the selected tool and lets the LLM select the next one.
NodeToolCalling ==
    /\ node = "node_tool_calling"
    /\ selection # "invalid_json"
    /\ \E success \in DispatchOutcomes,
          reply \in SelectionReplies, d \in Durations,
          okTool, okCall, okChange \in BOOLEAN :
         /\ toolLog' = IF okTool THEN toolLog \cup {ToolLogRow(success)} ELSE toolLog
         /\ evidence' = Append(evidence, EvidenceEntry(success))
         /\ auditLog' = Logged(Logged(auditLog,
              AuditRow("tool_call", None, None, 0), okCall),
              AuditRow("state_change",
                       IF hop = 0 THEN "INVESTIGATING" ELSE "EVALUATING",
                       "TOOL_CALLING", reply.cost), okChange)
         /\ Lose(Misses(okTool) + Misses(okCall) + Misses(okChange))
         /\ selection' = reply.selection
         /\ reason' = IF reply.selection = None THEN "low_confidence" ELSE None
         /\ cost' = cost + reply.cost
         /\ elapsed' = elapsed + d
    /\ hop' = hop + 1
    /\ status' = "TOOL_CALLING"
    /\ node' = "node_evaluating"
    /\ UNCHANGED <<run, evaluation, reports, escalations>>

\* json.loads of the selection's tool_input_json raises: the exception leaves
\* the graph and run_investigation returns status "error".
NodeToolCallingRaises ==
    /\ node = "node_tool_calling"
    /\ selection = "invalid_json"
    /\ node' = "error"
    /\ UNCHANGED <<run, agentState, database, lost>>

\* The tool has run and its row may be logged, but handing the log connection
\* back raises (ConnPool): the exception leaves dispatch_tool and the graph.
DispatchRaises ==
    /\ node = "node_tool_calling"
    /\ selection # "invalid_json"
    /\ \E success \in DispatchOutcomes, okTool \in BOOLEAN :
         toolLog' = IF okTool THEN toolLog \cup {ToolLogRow(success)} ELSE toolLog
    /\ Lose(1)
    /\ node' = "error"
    /\ UNCHANGED <<run, agentState, auditLog, reports, escalations>>

\* A guard or a hard limit escalates before the evaluation call.  Only the
\* empty-evidence guard writes an audit row.
NodeEvaluatingRefuses ==
    /\ node = "node_evaluating"
    /\ HardLimit # None
    /\ reason' = HardLimit
    /\ status' = "ESCALATED"
    /\ \E ok \in IF HardLimit = "empty_evidence" THEN BOOLEAN ELSE {TRUE} :
         /\ auditLog' = Logged(auditLog,
              AuditRow("state_change", "EVALUATING", "ESCALATED", 0),
              HardLimit = "empty_evidence" /\ ok)
         /\ Lose(Misses(ok))
    /\ node' = RouteAfterEvaluating(HardLimit, evaluation)
    /\ UNCHANGED <<run, hop, cost, selection, evidence, evaluation, elapsed,
                   toolLog, reports, escalations>>

\* The LLM evaluates the evidence; cost cap and confidence are checked after,
\* the timeout is not.  The database work of the closing node is in d.
NodeEvaluatingCalls ==
    /\ node = "node_evaluating"
    /\ HardLimit = None
    /\ \E reply \in EvaluationReplies, d \in Durations :
         LET e == [confidence |-> reply.confidence, verdict |-> reply.verdict,
                   should_continue |-> reply.should_continue, basis |-> Len(evidence)]
             r == LimitAfterCall(cost + reply.cost, e)
         IN /\ evaluation' = e
            /\ cost' = cost + reply.cost
            /\ elapsed' = elapsed + d
            /\ reason' = r
            /\ status' = IF r = None THEN "EVALUATING" ELSE "ESCALATED"
            /\ node' = RouteAfterEvaluating(r, e)
    /\ UNCHANGED <<run, hop, selection, evidence, database, lost>>

\* Builds the report from the logged evidence, files it, and closes.
NodeResolved ==
    /\ node = "node_resolved"
    /\ \E okRead, okReport, okAudit \in BOOLEAN :
         LET chain  == EvidenceChain(okRead)
             report == [run |-> run, chain |-> chain, hops |-> hop, cost |-> cost,
                        confidence |-> evaluation.confidence,
                        verdict |-> ReportVerdict(chain)]
         IN /\ reports' = IF okReport THEN InsertReport(report) ELSE reports
            /\ auditLog' = Logged(auditLog,
                 AuditRow("resolved", "EVALUATING", "RESOLVED", 0), okAudit)
            /\ Lose(Misses(okRead) + Misses(okReport) + Misses(okAudit))
    /\ status' = "RESOLVED"
    /\ node' = "END"
    /\ UNCHANGED <<run, hop, cost, selection, evidence, evaluation, reason, elapsed,
                   toolLog, escalations>>

\* Queues the case for an analyst with a snapshot of the state.
NodeEscalated ==
    /\ node = "node_escalated"
    /\ \E okAudit, okQueue \in BOOLEAN :
         /\ auditLog' = Logged(auditLog,
              AuditRow("escalated", "EVALUATING", "ESCALATED", 0), okAudit)
         /\ escalations' = QueueCase(EscalationRow, okQueue)
         /\ Lose(Misses(okAudit) + Misses(okQueue))
    /\ status' = "ESCALATED"
    /\ node' = "END"
    /\ UNCHANGED <<run, hop, cost, selection, evidence, evaluation, reason, elapsed,
                   toolLog, reports>>

\* The process dies between two nodes; what it committed stays.
Crash ==
    /\ node \in Nodes
    /\ node' = "crashed"
    /\ UNCHANGED <<run, agentState, database, lost>>

\* The same investigation_id is dispatched again: a redelivered message, a
\* second request.  run_investigation builds a fresh AgentState.
Invoke ==
    /\ node \in Stopped
    /\ run < MaxRuns
    /\ run' = run + 1
    /\ node' = "node_investigating"
    /\ status' = "IDLE" /\ hop' = 0 /\ cost' = 0 /\ elapsed' = 0
    /\ selection' = None /\ evidence' = <<>> /\ evaluation' = NoEvaluation
    /\ reason' = None
    /\ UNCHANGED <<database, lost>>

GraphStep ==
    \/ NodeInvestigating
    \/ NodeToolCalling
    \/ NodeToolCallingRaises
    \/ DispatchRaises
    \/ NodeEvaluatingRefuses
    \/ NodeEvaluatingCalls
    \/ NodeResolved
    \/ NodeEscalated

Next == GraphStep \/ Crash \/ Invoke

Spec == Init /\ [][Next]_vars

\* LangGraph runs the next node as soon as one returns, and every LLM, tool and
\* database call returns or raises.  Crash and Invoke owe nothing.
FairSpec == Spec /\ WF_vars(GraphStep)

-----------------------------------------------------------------------------
(* Types. *)

Evaluations == [confidence : Nat, verdict : Verdicts \cup {None},
                should_continue : BOOLEAN, basis : Nat]
EvidenceEntries == [hop : Nat, significance : {"high", "low"}]
ToolLogRows == [run : Nat, hop : Nat, success : BOOLEAN]
ChainEntries == [run : Nat, hop : Nat, significance : {"medium", "low"}]
AuditRows ==
    [run : Nat, event : {"triggered", "state_change", "tool_call", "resolved", "escalated"},
     state_from : Statuses \cup {None}, state_to : Statuses \cup {None},
     cost_usd_delta : Nat]
ReportRows ==
    [run : Nat, chain : SUBSET ChainEntries, hops : Nat, cost : Nat,
     confidence : Nat, verdict : Verdicts \cup {None}]
EscalationRows ==
    [run : Nat, reason : Reasons, hops : Nat, cost : Nat,
     evidence : Seq(EvidenceEntries), evaluation : Evaluations]

\* Every variable keeps its type; in particular no run makes more than
\* MaxToolHops tool calls, whatever the LLM answers.
TypeOK ==
    /\ node \in Nodes \cup Stopped
    /\ run \in 1 .. MaxRuns
    /\ status \in Statuses
    /\ hop \in 0 .. MaxToolHops
    /\ cost \in Nat
    /\ elapsed \in Nat
    /\ selection \in Selections \cup {None}
    /\ evidence \in Seq(EvidenceEntries)
    /\ evaluation \in Evaluations
    /\ reason \in Reasons \cup {None}
    /\ toolLog \subseteq ToolLogRows
    /\ auditLog \in Seq(AuditRows)
    /\ reports \subseteq ReportRows
    /\ escalations \subseteq EscalationRows
    /\ lost \in 0 .. MaxLostWrites

-----------------------------------------------------------------------------
(* Safety. *)

\* A case is RESOLVED only on an evaluation that saw every piece of evidence,
\* asked for no more, is confident enough after rounding, and was reached under
\* the hop and cost limits.  (The timeout is ResolutionLateness.)
ResolvedWithinLimits ==
    status = "RESOLVED" =>
        /\ evidence # <<>>
        /\ evaluation.basis = Len(evidence)
        /\ ~evaluation.should_continue
        /\ Round4(evaluation.confidence) >= ConfidenceThreshold
        /\ hop < MaxToolHops
        /\ cost < CostCap

\* The cap is checked between calls, so it can be overrun -- but by one LLM call
\* at most, or by the two that precede the first check.
CostOverrunBounded ==
    \/ cost <= 2 * MaxCallCost
    \/ cost < CostCap + MaxCallCost

\* The timeout is checked before the evaluation call and never after it, so a
\* case can be RESOLVED late, but by the duration of that call at most.
ResolutionLateness ==
    status = "RESOLVED" => elapsed <= TimeoutSeconds + MaxDuration

\* The evidence in memory and the tool log agree: one entry per hop, numbered
\* from 1; every row this run logged is the call of one entry, and tells the
\* same outcome, under the entry's number less one -- but for the row of a call
\* whose result dispatch_tool raised instead of returning.
EvidenceMatchesLog ==
    /\ hop = Len(evidence)
    /\ \A i \in 1 .. Len(evidence) : evidence[i].hop = i
    /\ \A r \in toolLog : r.run = run =>
         \/ /\ r.hop < hop
            /\ evidence[r.hop + 1].significance = IF r.success THEN "high" ELSE "low"
         \/ node = "error" /\ r.hop = hop

\* The last evidence was never evaluated: a limit refused the call.
Refused(row) == row.evaluation.basis < row.hops

\* All of it was, by a call that began in time and under the cost cap.
Evaluated(row) ==
    /\ row.evaluation.basis = row.hops
    /\ elapsed <= TimeoutSeconds + MaxDuration
    /\ row.cost < CostCap + MaxCallCost

\* An escalation row tells why: its reason is the first limit, in the order of
\* the checks, that the run had reached -- before the evaluation call, whose
\* absence the snapshot shows, or else after it.
EscalationExplained ==
    \A row \in escalations : row.run = run =>
        /\ row.hops = Len(row.evidence)
        /\ row.hops > 0
        /\ row.reason = "max_hops" <=> row.hops >= MaxToolHops
        /\ CASE row.reason = "max_hops" -> Refused(row)
             [] row.reason = "timeout" -> Refused(row) /\ elapsed > TimeoutSeconds
             [] row.reason = "cost_cap" ->
                   /\ row.cost >= CostCap
                   /\ Evaluated(row) \/ (Refused(row) /\ elapsed <= TimeoutSeconds)
             [] row.reason = "low_confidence" ->
                   /\ Evaluated(row) /\ row.cost < CostCap
                   /\ Round4(row.evaluation.confidence) < ConfidenceThreshold
             [] OTHER -> FALSE

\* A run leaves a report or a queued case and never both, nothing before it
\* reaches END, and exactly one of them at END unless an operation was lost or
\* an earlier run has filed the report.
OutcomeRecorded ==
    LET filed  == {r \in reports : r.run = run}
        queued == {r \in escalations : r.run = run}
    IN /\ node # "END" => filed = {} /\ queued = {}
       /\ filed # {} => status = "RESOLVED"
       /\ queued # {} => status = "ESCALATED"
       /\ node = "END" /\ lost = 0 =>
            \/ status = "RESOLVED" /\ reports # {}
            \/ status = "ESCALATED" /\ Cardinality(queued) = 1

\* A filed report gives a conclusive verdict only with logged evidence behind
\* it, and is within the limits; no row of a later run has crept into it.
ReportBacked ==
    \A r \in reports :
        /\ r.verdict # "inconclusive" => r.chain # {}
        /\ r.hops \in 1 .. MaxToolHops - 1
        /\ r.cost < CostCap
        /\ Round4(r.confidence) >= ConfidenceThreshold
        /\ \A e \in r.chain : e.run <= r.run /\ (e.run = r.run => e.hop < r.hops)

\* In the append-only audit log a run writes nothing after the row that closes
\* it, and the row that closes it tells the status the run ended with.
AuditClosed ==
    \A i \in DOMAIN auditLog : auditLog[i].event \in {"resolved", "escalated"} =>
        /\ \A j \in i + 1 .. Len(auditLog) : auditLog[j].run # auditLog[i].run
        /\ auditLog[i].run = run => node = "END" /\ status = auditLog[i].state_to

(* What a step may never do. *)

\* The first report of an investigation stands: no later run replaces it or
\* adds a second.
FirstReportStands == [][reports # {} => reports' = reports]_vars

\* No evaluation call is made once a hard limit has been reached: the LLM is
\* not asked for a verdict it could no longer be allowed to give.
LimitsGateEvaluation ==
    [][evaluation' # evaluation /\ run' = run =>
           /\ hop < MaxToolHops
           /\ elapsed <= TimeoutSeconds
           /\ cost < CostCap
           /\ evaluation.basis < Len(evidence)]_vars

-----------------------------------------------------------------------------
(* Liveness. *)

\* Every run stops, whatever the LLM and the tools answer.
Termination == node \in Nodes ~> node \in Stopped

-----------------------------------------------------------------------------
(* What the repository says and the code does not do. *)

\* escalation_writer.py: an escalation_queue row on every non-RESOLVED exit
\* (here: of the graph, when no write is lost).
NonResolvedExitQueued ==
    node \in {"END", "error"} /\ status # "RESOLVED" /\ lost = 0 =>
        \E row \in escalations : row.run = run

=============================================================================
