--------------------------- MODULE AMLGraphProofs ---------------------------
(***************************************************************************)
(* Theorems about AMLGraph for every value of its constants: the types;    *)
(* that the hard limits of agent/limits.py hold of every outcome; that the *)
(* tool log, the audit log, the reports and the escalation queue agree with *)
(* the state of the run; and that the graph implements AMLOutcome.         *)
(***************************************************************************)
EXTENDS AMLGraphImpl, FiniteSetTheorems, TLAPS

(* The inductive invariant: what each node may rely on when it starts. *)

WithinLimits ==
    /\ evidence # <<>>
    /\ evaluation.basis = Len(evidence)
    /\ ~evaluation.should_continue
    /\ Round4(evaluation.confidence) >= ConfidenceThreshold
    /\ hop < MaxToolHops
    /\ cost < CostCap
    /\ elapsed <= TimeoutSeconds + MaxDuration

AtToolCalling ==
    /\ hop < MaxToolHops
    /\ cost <= MaxCallCost \/ cost < CostCap
    /\ evaluation.basis <= Len(evidence)

NodeInv ==
    /\ node = "node_investigating" =>
         /\ hop = 0 /\ cost = 0 /\ status = "IDLE" /\ evidence = <<>>
         /\ evaluation.basis = 0
    /\ node = "node_tool_calling"  => AtToolCalling
    /\ node = "node_evaluating"    => evaluation.basis < Len(evidence)
    /\ node = "node_resolved"      => WithinLimits
    /\ status = "RESOLVED"         => WithinLimits /\ node = "END"

LimitsInv == TypeOK /\ NodeInv /\ CostOverrunBounded

-----------------------------------------------------------------------------
(* Lemmas about the operators of the model. *)

\* A write to the audit log, done or lost, leaves a sequence of rows.
LEMMA LoggedType ==
    ASSUME NEW log \in Seq(AuditRows), NEW row \in AuditRows, NEW ok \in BOOLEAN
    PROVE  Logged(log, row, ok) \in Seq(AuditRows)
BY DEF Logged

\* The rows the nodes write have the row type.
LEMMA AuditRowType ==
    ASSUME run \in Nat,
           NEW event \in {"triggered", "state_change", "tool_call", "resolved", "escalated"},
           NEW from \in Statuses \cup {None}, NEW to \in Statuses \cup {None},
           NEW delta \in Nat
    PROVE  AuditRow(event, from, to, delta) \in AuditRows
BY DEF AuditRow, AuditRows

\* Failures are counted within their bound.
LEMMA LoseType ==
    ASSUME lost \in 0 .. MaxLostWrites, NEW n \in Nat, Lose(n)
    PROVE  lost' \in 0 .. MaxLostWrites
BY BoundsAssumption DEF Lose

LEMMA MissesType == ASSUME NEW ok \in BOOLEAN PROVE Misses(ok) \in Nat
BY DEF Misses

\* What a call of the LLM may cost, and what it may be confident of.
LEMMA ReplyBounds ==
    /\ MaxCallCost \in Nat
    /\ \A c \in CallCosts : c \in 0 .. MaxCallCost
    /\ \A c \in Confidences : c \in Nat
    /\ \A d \in Durations : d \in 0 .. MaxDuration
<1>1. MaxCallCost \in Nat /\ \A c \in CallCosts : c \in 0 .. MaxCallCost
  BY CallCostsAssumption
<1>2. \A c \in Confidences : c \in Nat
  BY ConfidencesAssumption
<1>3. \A d \in Durations : d \in 0 .. MaxDuration
  BY DurationsAssumption
<1> QED BY <1>1, <1>2, <1>3

\* What a call of the LLM for a tool selection returns and costs.
LEMMA SelectionReplyType ==
    ASSUME NEW reply \in SelectionReplies
    PROVE  /\ reply.selection \in Selections \cup {None}
           /\ reply.cost \in 0 .. MaxCallCost
<1>1. CASE reply \in [selection : Selections, cost : CallCosts]
  <2>1. reply.selection \in Selections /\ reply.cost \in CallCosts
    BY <1>1
  <2> QED BY <2>1, ReplyBounds
<1>2. CASE reply = [selection |-> None, cost |-> 0]
  BY <1>2, ReplyBounds
<1> QED BY <1>1, <1>2 DEF SelectionReplies

\* What a call of the LLM for an evaluation returns and costs.
LEMMA EvaluationReplyType ==
    ASSUME NEW reply \in EvaluationReplies
    PROVE  /\ reply.confidence \in Nat
           /\ reply.verdict \in Verdicts
           /\ reply.should_continue \in BOOLEAN
           /\ reply.cost \in 0 .. MaxCallCost
<1>1. CASE reply \in [confidence : Confidences, verdict : Verdicts,
                      should_continue : BOOLEAN, cost : CallCosts]
  <2>1. /\ reply.confidence \in Confidences /\ reply.verdict \in Verdicts
        /\ reply.should_continue \in BOOLEAN /\ reply.cost \in CallCosts
    BY <1>1
  <2> QED BY <2>1, ReplyBounds
<1>2. CASE reply = [confidence |-> 0, verdict |-> "inconclusive",
                    should_continue |-> FALSE, cost |-> 0]
  BY <1>2, ReplyBounds DEF Verdicts
<1> QED BY <1>1, <1>2 DEF EvaluationReplies

\* A hard limit not reached bounds what the limits are about.
LEMMA HardLimitNone ==
    ASSUME HardLimit = None
    PROVE  evidence # <<>> /\ ~(hop >= MaxToolHops) /\ ~(elapsed > TimeoutSeconds)
           /\ ~(cost >= CostCap)
BY DEF HardLimit, None, MaxHopsReached, TimedOut, CostCapped

LEMMA HardLimitType == HardLimit \in Reasons \cup {None}
BY DEF HardLimit, Reasons

\* The routing after an evaluation: only a case without a reason, asking for no
\* more and confident enough goes to node_resolved.
LEMMA RouteType ==
    ASSUME NEW r \in Reasons \cup {None}, NEW e
    PROVE  /\ RouteAfterEvaluating(r, e) \in
                {"node_tool_calling", "node_resolved", "node_escalated"}
           /\ r # None <=> RouteAfterEvaluating(r, e) = "node_escalated"
           /\ RouteAfterEvaluating(r, e) = "node_resolved" =>
                ~e.should_continue /\ ~ConfidenceLow(e)
BY DEF RouteAfterEvaluating, EvaluateRouting

-----------------------------------------------------------------------------
(* The initial state and the steps keep LimitsInv. *)

LEMMA InitLimits == Init => LimitsInv
BY LimitsAssumption, BoundsAssumption, ReplyBounds
   DEF Init, LimitsInv, TypeOK, NodeInv, CostOverrunBounded, Nodes, Stopped, Statuses,
       None, NoEvaluation, Evaluations, WithinLimits, AtToolCalling

LEMMA NodeInvestigatingLimits ==
    ASSUME LimitsInv, NodeInvestigating
    PROVE  LimitsInv'
<1> USE DEF LimitsInv
<1>1. PICK reply \in SelectionReplies, d \in Durations,
           okTriggered \in BOOLEAN, okStarted \in BOOLEAN, okFallback \in BOOLEAN :
         LET opened == Logged(Logged(auditLog,
                         AuditRow("triggered", None, "INVESTIGATING", 0), okTriggered),
                         AuditRow("state_change", "IDLE", "INVESTIGATING", 0), okStarted)
         IN /\ selection' = reply.selection
            /\ cost' = cost + reply.cost
            /\ elapsed' = d
            /\ hop' = 0
            /\ \/ /\ reply.selection # None
                  /\ status' = "INVESTIGATING"
                  /\ auditLog' = opened
                  /\ Lose(Misses(okTriggered) + Misses(okStarted))
                  /\ UNCHANGED reason
               \/ /\ reply.selection = None
                  /\ status' = "ESCALATED"
                  /\ reason' = "low_confidence"
                  /\ auditLog' = Logged(opened, FallbackRow, okFallback)
                  /\ Lose(Misses(okTriggered) + Misses(okStarted) + Misses(okFallback))
  BY DEF NodeInvestigating
<1>2. /\ node = "node_investigating" /\ node' = "node_tool_calling"
      /\ UNCHANGED <<run, evidence, evaluation, toolLog, reports, escalations>>
  BY DEF NodeInvestigating
<1>3. auditLog' \in Seq(AuditRows)
  <2> DEFINE triggered == AuditRow("triggered", None, "INVESTIGATING", 0)
             started   == AuditRow("state_change", "IDLE", "INVESTIGATING", 0)
  <2>1. triggered \in AuditRows /\ started \in AuditRows /\ FallbackRow \in AuditRows
    BY AuditRowType DEF TypeOK, Statuses, FallbackRow
  <2>2. auditLog \in Seq(AuditRows)
    BY DEF TypeOK
  <2> HIDE DEF triggered, started
  <2>3. Logged(Logged(auditLog, triggered, okTriggered), started, okStarted) \in Seq(AuditRows)
    BY <2>1, <2>2, LoggedType
  <2>4. Logged(Logged(Logged(auditLog, triggered, okTriggered), started, okStarted),
               FallbackRow, okFallback) \in Seq(AuditRows)
    BY <2>1, <2>3, LoggedType
  <2> QED BY <1>1, <2>3, <2>4 DEF triggered, started
<1>4. lost' \in 0 .. MaxLostWrites
  <2>1. /\ Misses(okTriggered) + Misses(okStarted) \in Nat
        /\ Misses(okTriggered) + Misses(okStarted) + Misses(okFallback) \in Nat
    BY MissesType
  <2> QED BY <1>1, <2>1, LoseType DEF TypeOK
<1>5. /\ reply.cost \in 0 .. MaxCallCost /\ cost = 0
      /\ evidence = <<>> /\ evaluation.basis = 0 /\ status # "RESOLVED"
  BY <1>2, SelectionReplyType DEF NodeInv
<1>6. TypeOK'
  BY <1>1, <1>2, <1>3, <1>4, <1>5, SelectionReplyType, ReplyBounds, LimitsAssumption
     DEF TypeOK, Nodes, Statuses, Reasons
<1>7. NodeInv'
  BY <1>1, <1>2, <1>5, LimitsAssumption DEF NodeInv, AtToolCalling
<1>8. CostOverrunBounded'
  BY <1>1, <1>5, ReplyBounds DEF CostOverrunBounded
<1> QED BY <1>6, <1>7, <1>8

LEMMA NodeToolCallingLimits ==
    ASSUME LimitsInv, NodeToolCalling
    PROVE  LimitsInv'
<1> USE DEF LimitsInv
<1>1. PICK success \in DispatchOutcomes,
           reply \in SelectionReplies, d \in Durations,
           okTool \in BOOLEAN, okCall \in BOOLEAN, okChange \in BOOLEAN :
         /\ toolLog' = IF okTool THEN toolLog \cup {ToolLogRow(success)} ELSE toolLog
         /\ evidence' = Append(evidence, EvidenceEntry(success))
         /\ auditLog' = Logged(Logged(auditLog,
              AuditRow("tool_call", None, None, 0), okCall),
              AuditRow("state_change",
                       IF hop = 0 THEN "INVESTIGATING" ELSE "EVALUATING",
                       "TOOL_CALLING", reply.cost), okChange)
         /\ Lose(Misses(okTool) + Misses(okCall) + Misses(okChange))
         /\ selection' = reply.selection
         /\ reason' = IF reply.selection = None THEN "low_confidence" ELSE None
         /\ cost' = cost + reply.cost
         /\ elapsed' = elapsed + d
  BY DEF NodeToolCalling
<1>2. /\ node = "node_tool_calling" /\ node' = "node_evaluating"
      /\ hop' = hop + 1 /\ status' = "TOOL_CALLING"
      /\ UNCHANGED <<run, evaluation, reports, escalations>>
  BY DEF NodeToolCalling
<1>3. auditLog' \in Seq(AuditRows)
  <2> DEFINE from   == IF hop = 0 THEN "INVESTIGATING" ELSE "EVALUATING"
             called == AuditRow("tool_call", None, None, 0)
             change == AuditRow("state_change", from, "TOOL_CALLING", reply.cost)
  <2>1. from \in Statuses
    BY DEF Statuses
  <2> HIDE DEF from
  <2>2. reply.cost \in Nat
    BY SelectionReplyType, ReplyBounds
  <2>3. called \in AuditRows /\ change \in AuditRows
    BY <2>1, <2>2, AuditRowType DEF TypeOK, Statuses
  <2>4. auditLog \in Seq(AuditRows)
    BY DEF TypeOK
  <2>5. auditLog' = Logged(Logged(auditLog, called, okCall), change, okChange)
    BY <1>1 DEF from
  <2> HIDE DEF called, change
  <2> QED BY <2>3, <2>4, <2>5, LoggedType
<1>4. lost' \in 0 .. MaxLostWrites
  <2>1. Misses(okTool) + Misses(okCall) + Misses(okChange) \in Nat
    BY MissesType
  <2> QED BY <1>1, <2>1, LoseType DEF TypeOK
<1>5. success \in BOOLEAN
  BY DEF DispatchOutcomes
<1>6. toolLog' \subseteq ToolLogRows
  <2>1. ToolLogRow(success) \in ToolLogRows
    BY <1>5 DEF ToolLogRow, ToolLogRows, TypeOK
  <2> QED BY <1>1, <2>1 DEF TypeOK
<1>7. evidence' \in Seq(EvidenceEntries)
  <2>1. EvidenceEntry(success) \in EvidenceEntries
    BY DEF EvidenceEntry, EvidenceEntries, TypeOK
  <2> QED BY <1>1, <2>1 DEF TypeOK
<1>8. /\ reply.cost \in 0 .. MaxCallCost /\ MaxCallCost \in Nat
      /\ cost \in Nat /\ (cost <= MaxCallCost \/ cost < CostCap)
      /\ hop < MaxToolHops /\ hop \in Nat /\ d \in Nat /\ elapsed \in Nat
  BY <1>2, SelectionReplyType, ReplyBounds DEF NodeInv, AtToolCalling, TypeOK
<1>9. hop' \in 0 .. MaxToolHops /\ cost' \in Nat /\ elapsed' \in Nat
  BY <1>1, <1>2, <1>8, LimitsAssumption
<1>10. TypeOK'
  BY <1>1, <1>2, <1>3, <1>4, <1>6, <1>7, <1>9, SelectionReplyType
     DEF TypeOK, Nodes, Statuses, Reasons
<1>11. NodeInv'
  <2>1. /\ evaluation.basis \in Nat /\ evaluation.basis <= Len(evidence)
        /\ Len(evidence) \in Nat
    BY <1>2 DEF NodeInv, AtToolCalling, TypeOK, Evaluations
  <2>2. Len(evidence') = Len(evidence) + 1
    BY <1>1, <1>7 DEF TypeOK
  <2> QED BY <1>2, <2>1, <2>2 DEF NodeInv
<1>12. CostOverrunBounded'
  BY <1>1, <1>8, LimitsAssumption DEF CostOverrunBounded
<1> QED BY <1>10, <1>11, <1>12

LEMMA NodeEvaluatingRefusesLimits ==
    ASSUME LimitsInv, NodeEvaluatingRefuses
    PROVE  LimitsInv'
<1> USE DEF LimitsInv
<1>1. /\ node = "node_evaluating"
      /\ HardLimit # None /\ HardLimit \in Reasons
      /\ reason' = HardLimit /\ status' = "ESCALATED"
      /\ node' = RouteAfterEvaluating(HardLimit, evaluation)
      /\ UNCHANGED <<run, hop, cost, selection, evidence, evaluation, elapsed,
                     toolLog, reports, escalations>>
  BY HardLimitType DEF NodeEvaluatingRefuses
<1>2. PICK ok \in IF HardLimit = "empty_evidence" THEN BOOLEAN ELSE {TRUE} :
         /\ auditLog' = Logged(auditLog,
              AuditRow("state_change", "EVALUATING", "ESCALATED", 0),
              HardLimit = "empty_evidence" /\ ok)
         /\ Lose(Misses(ok))
  BY DEF NodeEvaluatingRefuses
<1>3. node' = "node_escalated"
  BY <1>1, RouteType
<1>4. auditLog' \in Seq(AuditRows)
  <2> DEFINE row == AuditRow("state_change", "EVALUATING", "ESCALATED", 0)
  <2>1. row \in AuditRows
    BY AuditRowType DEF TypeOK, Statuses
  <2>2. (HardLimit = "empty_evidence" /\ ok) \in BOOLEAN
    OBVIOUS
  <2> HIDE DEF row
  <2> QED BY <1>2, <2>1, <2>2, LoggedType DEF TypeOK, row
<1>5. lost' \in 0 .. MaxLostWrites
  BY <1>2, MissesType, LoseType DEF TypeOK
<1>6. TypeOK'
  BY <1>1, <1>3, <1>4, <1>5 DEF TypeOK, Nodes, Statuses
<1>7. NodeInv' /\ CostOverrunBounded'
  BY <1>1, <1>3 DEF NodeInv, CostOverrunBounded
<1> QED BY <1>6, <1>7

LEMMA NodeEvaluatingCallsLimits ==
    ASSUME LimitsInv, NodeEvaluatingCalls
    PROVE  LimitsInv'
<1> USE DEF LimitsInv
<1>1. /\ node = "node_evaluating" /\ HardLimit = None
      /\ UNCHANGED <<run, hop, selection, evidence, database, lost>>
  BY DEF NodeEvaluatingCalls
<1>2. PICK reply \in EvaluationReplies, d \in Durations :
         LET e == [confidence |-> reply.confidence, verdict |-> reply.verdict,
                   should_continue |-> reply.should_continue, basis |-> Len(evidence)]
             r == LimitAfterCall(cost + reply.cost, e)
         IN /\ evaluation' = e
            /\ cost' = cost + reply.cost
            /\ elapsed' = elapsed + d
            /\ reason' = r
            /\ status' = IF r = None THEN "EVALUATING" ELSE "ESCALATED"
            /\ node' = RouteAfterEvaluating(r, e)
  BY DEF NodeEvaluatingCalls
<1> DEFINE e == [confidence |-> reply.confidence, verdict |-> reply.verdict,
                 should_continue |-> reply.should_continue, basis |-> Len(evidence)]
           r == LimitAfterCall(cost + reply.cost, e)
<1>3. /\ evaluation' = e /\ cost' = cost + reply.cost /\ elapsed' = elapsed + d
      /\ reason' = r /\ status' = IF r = None THEN "EVALUATING" ELSE "ESCALATED"
      /\ node' = RouteAfterEvaluating(r, e)
  BY <1>2
<1>4. /\ reply.confidence \in Nat /\ reply.verdict \in Verdicts
      /\ reply.should_continue \in BOOLEAN
      /\ reply.cost \in 0 .. MaxCallCost /\ MaxCallCost \in Nat
      /\ d \in 0 .. MaxDuration /\ MaxDuration \in Nat
  <2>1. /\ reply.confidence \in Nat /\ reply.verdict \in Verdicts
        /\ reply.should_continue \in BOOLEAN /\ reply.cost \in 0 .. MaxCallCost
    BY EvaluationReplyType, Zenon
  <2> QED BY <2>1, ReplyBounds, DurationsAssumption, Zenon
<1>5. /\ cost \in Nat /\ cost < CostCap /\ elapsed \in Nat /\ elapsed <= TimeoutSeconds
      /\ hop \in Nat /\ hop < MaxToolHops /\ evidence # <<>> /\ Len(evidence) \in Nat
  BY <1>1, HardLimitNone, LimitsAssumption DEF TypeOK
<1>6. e \in Evaluations /\ e.basis = Len(evidence)
  BY <1>4, <1>5 DEF Evaluations
<1>7. /\ r \in Reasons \cup {None}
      /\ r = None => ~(cost + reply.cost >= CostCap) /\ ~ConfidenceLow(e)
  BY DEF LimitAfterCall, Reasons, None, CostCapped
<1> HIDE DEF e, r
<1>8. /\ node' \in {"node_tool_calling", "node_resolved", "node_escalated"}
      /\ node' # "node_escalated" => r = None
      /\ node' = "node_resolved" => ~e.should_continue
  BY <1>3, <1>7, RouteType
<1>9. cost' \in Nat /\ elapsed' \in Nat /\ elapsed' <= TimeoutSeconds + MaxDuration
  BY <1>3, <1>4, <1>5, LimitsAssumption
<1>10. TypeOK'
  BY <1>1, <1>3, <1>6, <1>7, <1>8, <1>9 DEF TypeOK, Nodes, Statuses, database
<1>11. node' # "node_escalated" =>
         /\ cost' < CostCap /\ hop' < MaxToolHops
         /\ Round4(evaluation'.confidence) >= ConfidenceThreshold
  <2>1. Round4(e.confidence) \in Int
    BY <1>6 DEF Round4, Evaluations
  <2> QED BY <2>1, <1>1, <1>3, <1>4, <1>5, <1>7, <1>8, LimitsAssumption DEF ConfidenceLow
<1>12. NodeInv'
  <2>1. status' # "RESOLVED" /\ node' # "node_investigating"
    BY <1>3, <1>8
  <2>2. node' = "node_tool_calling" => AtToolCalling'
    BY <1>1, <1>3, <1>5, <1>6, <1>11 DEF AtToolCalling
  <2>3. node' = "node_resolved" => WithinLimits'
    BY <1>1, <1>3, <1>5, <1>6, <1>8, <1>9, <1>11 DEF WithinLimits
  <2> QED BY <1>8, <2>1, <2>2, <2>3 DEF NodeInv
<1>13. CostOverrunBounded'
  BY <1>3, <1>4, <1>5, LimitsAssumption DEF CostOverrunBounded
<1> QED BY <1>10, <1>12, <1>13

LEMMA NodeResolvedLimits ==
    ASSUME LimitsInv, NodeResolved
    PROVE  LimitsInv'
<1> USE DEF LimitsInv
<1>1. /\ node = "node_resolved" /\ status' = "RESOLVED" /\ node' = "END"
      /\ UNCHANGED <<run, hop, cost, selection, evidence, evaluation, reason, elapsed,
                     toolLog, escalations>>
  BY DEF NodeResolved
<1>2. PICK okRead \in BOOLEAN, okReport \in BOOLEAN, okAudit \in BOOLEAN :
         LET chain  == EvidenceChain(okRead)
             report == [run |-> run, chain |-> chain, hops |-> hop, cost |-> cost,
                        confidence |-> evaluation.confidence,
                        verdict |-> ReportVerdict(chain)]
         IN /\ reports' = IF okReport THEN InsertReport(report) ELSE reports
            /\ auditLog' = Logged(auditLog,
                 AuditRow("resolved", "EVALUATING", "RESOLVED", 0), okAudit)
            /\ Lose(Misses(okRead) + Misses(okReport) + Misses(okAudit))
  BY DEF NodeResolved
<1> DEFINE chain  == EvidenceChain(okRead)
           report == [run |-> run, chain |-> chain, hops |-> hop, cost |-> cost,
                      confidence |-> evaluation.confidence,
                      verdict |-> ReportVerdict(chain)]
<1>3. chain \subseteq ChainEntries
  <2>1. \A row \in toolLog : row.run \in Nat /\ row.hop \in Nat
    BY DEF TypeOK, ToolLogRows
  <2> QED BY <2>1 DEF EvidenceChain, ChainEntry, ChainEntries
<1>4. report \in ReportRows
  <2> HIDE DEF chain
  <2>1. ReportVerdict(chain) \in Verdicts \cup {None} /\ evaluation.confidence \in Nat
    BY DEF ReportVerdict, TypeOK, Evaluations, Verdicts
  <2>2. run \in Nat /\ hop \in Nat /\ cost \in Nat
    BY DEF TypeOK
  <2> QED BY <1>3, <2>1, <2>2 DEF ReportRows
<1>5. reports' \subseteq ReportRows
  <2> HIDE DEF report
  <2>1. reports' = IF okReport THEN InsertReport(report) ELSE reports
    BY <1>2 DEF report
  <2> QED BY <1>4, <2>1 DEF InsertReport, TypeOK
<1>6. auditLog' \in Seq(AuditRows)
  <2> DEFINE row == AuditRow("resolved", "EVALUATING", "RESOLVED", 0)
  <2>1. row \in AuditRows
    BY AuditRowType DEF TypeOK, Statuses
  <2>2. auditLog' = Logged(auditLog, row, okAudit)
    BY <1>2
  <2> HIDE DEF row
  <2> QED BY <2>1, <2>2, LoggedType DEF TypeOK
<1>7. lost' \in 0 .. MaxLostWrites
  <2>1. Misses(okRead) + Misses(okReport) + Misses(okAudit) \in Nat
    BY MissesType
  <2> QED BY <1>2, <2>1, LoseType DEF TypeOK
<1>8. TypeOK'
  BY <1>1, <1>5, <1>6, <1>7 DEF TypeOK, Stopped, Statuses
<1>9. NodeInv' /\ CostOverrunBounded'
  BY <1>1 DEF NodeInv, WithinLimits, CostOverrunBounded
<1> QED BY <1>8, <1>9

LEMMA NodeEscalatedLimits ==
    ASSUME LimitsInv, NodeEscalated
    PROVE  LimitsInv'
<1> USE DEF LimitsInv
<1>1. /\ node = "node_escalated" /\ status' = "ESCALATED" /\ node' = "END"
      /\ UNCHANGED <<run, hop, cost, selection, evidence, evaluation, reason, elapsed,
                     toolLog, reports>>
  BY DEF NodeEscalated
<1> DEFINE closing == AuditRow("escalated", "EVALUATING", "ESCALATED", 0)
<1>2. PICK okAudit \in BOOLEAN, okQueue \in BOOLEAN :
         /\ auditLog' = Logged(auditLog, closing, okAudit)
         /\ escalations' = QueueCase(EscalationRow, okQueue)
         /\ Lose(Misses(okAudit) + Misses(okQueue))
  BY DEF NodeEscalated
<1>3. EscalationRow \in EscalationRows
  <2>1. (IF reason = None THEN "low_confidence" ELSE reason) \in Reasons
    BY DEF TypeOK, Reasons
  <2> QED BY <2>1 DEF TypeOK, EscalationRow, EscalationRows
<1>4. closing \in AuditRows
  BY AuditRowType DEF TypeOK, Statuses
<1> HIDE DEF closing
<1>5. escalations' \subseteq EscalationRows
  BY <1>2, <1>3 DEF QueueCase, TypeOK
<1>6. auditLog' \in Seq(AuditRows)
  BY <1>2, <1>4, LoggedType DEF TypeOK
<1>7. lost' \in 0 .. MaxLostWrites
  <2>1. Misses(okAudit) + Misses(okQueue) \in Nat
    BY MissesType
  <2> QED BY <1>2, <2>1, LoseType DEF TypeOK
<1>8. TypeOK'
  BY <1>1, <1>5, <1>6, <1>7 DEF TypeOK, Stopped, Statuses
<1>9. NodeInv' /\ CostOverrunBounded'
  BY <1>1 DEF NodeInv, CostOverrunBounded
<1> QED BY <1>8, <1>9

LEMMA InvokeLimits ==
    ASSUME LimitsInv, Invoke
    PROVE  LimitsInv'
<1>1. TypeOK'
  <2>1. run' \in 1 .. MaxRuns
    BY BoundsAssumption DEF LimitsInv, TypeOK, Invoke
  <2>2. evaluation' \in Evaluations
    BY DEF Invoke, NoEvaluation, Evaluations
  <2> QED BY <2>1, <2>2, LimitsAssumption
          DEF LimitsInv, TypeOK, Invoke, Nodes, Statuses, database, None
<1>2. NodeInv' /\ CostOverrunBounded'
  BY ReplyBounds DEF Invoke, NodeInv, CostOverrunBounded, NoEvaluation
<1> QED BY <1>1, <1>2 DEF LimitsInv

\* A crash, or an exception that leaves the graph, changes only the node.
LEMMA StopLimits ==
    ASSUME LimitsInv, NodeToolCallingRaises \/ Crash
    PROVE  LimitsInv'
<1>1. /\ node \in Nodes /\ node' \in {"error", "crashed"}
      /\ UNCHANGED <<run, agentState, database, lost>>
  BY DEF NodeToolCallingRaises, Crash, Nodes
<1>2. status # "RESOLVED"
  BY <1>1 DEF LimitsInv, NodeInv, Nodes
<1> QED BY <1>1, <1>2
        DEF LimitsInv, TypeOK, NodeInv, CostOverrunBounded, Stopped, agentState, database

\* So does a log connection that cannot be handed back, but for the row.
LEMMA DispatchRaisesLimits ==
    ASSUME LimitsInv, DispatchRaises
    PROVE  LimitsInv'
<1>1. /\ node = "node_tool_calling" /\ node' = "error"
      /\ UNCHANGED <<run, agentState, auditLog, reports, escalations>>
  BY DEF DispatchRaises
<1>2. status # "RESOLVED"
  BY <1>1 DEF LimitsInv, NodeInv
<1>3. toolLog' \subseteq ToolLogRows
  <2>1. PICK success \in DispatchOutcomes, okTool \in BOOLEAN :
           toolLog' = IF okTool THEN toolLog \cup {ToolLogRow(success)} ELSE toolLog
    BY DEF DispatchRaises
  <2>2. success \in BOOLEAN
    BY DEF DispatchOutcomes
  <2>3. ToolLogRow(success) \in ToolLogRows
    BY <2>2, BoundsAssumption, LimitsAssumption DEF ToolLogRow, ToolLogRows, LimitsInv, TypeOK
  <2> QED BY <2>1, <2>3 DEF LimitsInv, TypeOK
<1>4. lost' \in 0 .. MaxLostWrites
  BY BoundsAssumption DEF DispatchRaises, Lose, LimitsInv, TypeOK
<1>5. TypeOK'
  BY <1>1, <1>3, <1>4 DEF LimitsInv, TypeOK, Stopped, agentState
<1> QED BY <1>1, <1>2, <1>5
        DEF LimitsInv, NodeInv, CostOverrunBounded, agentState

LEMMA NextLimits == LimitsInv /\ [Next]_vars => LimitsInv'
<1> SUFFICES ASSUME LimitsInv, [Next]_vars PROVE LimitsInv'
  OBVIOUS
<1>1. CASE NodeInvestigating
  BY <1>1, NodeInvestigatingLimits
<1>2. CASE NodeToolCalling
  BY <1>2, NodeToolCallingLimits
<1>3. CASE NodeToolCallingRaises \/ Crash
  BY <1>3, StopLimits
<1>4. CASE NodeEvaluatingRefuses
  BY <1>4, NodeEvaluatingRefusesLimits
<1>5. CASE NodeEvaluatingCalls
  BY <1>5, NodeEvaluatingCallsLimits
<1>6. CASE NodeResolved
  BY <1>6, NodeResolvedLimits
<1>7. CASE NodeEscalated
  BY <1>7, NodeEscalatedLimits
<1>8. CASE Invoke
  BY <1>8, InvokeLimits
<1>9. CASE DispatchRaises
  BY <1>9, DispatchRaisesLimits
<1>10. CASE UNCHANGED vars
  BY <1>10 DEF vars, agentState, database, LimitsInv, TypeOK, NodeInv, CostOverrunBounded,
              WithinLimits, AtToolCalling
<1> QED
  BY <1>1, <1>2, <1>3, <1>4, <1>5, <1>6, <1>7, <1>8, <1>9, <1>10 DEF Next, GraphStep

-----------------------------------------------------------------------------
(* The theorems. *)

\* The strengthening is an invariant: what each node relies on holds whenever
\* LangGraph starts it.
THEOREM LimitsInvariant == Spec => []LimitsInv
<1>1. Init => LimitsInv
  BY InitLimits
<1>2. LimitsInv /\ [Next]_vars => LimitsInv'
  BY NextLimits
<1> QED BY <1>1, <1>2, PTL DEF Spec

\* Every variable of an investigation keeps its type; in particular no run makes
\* more than MAX_TOOL_HOPS tool calls.
THEOREM TypeCorrect == Spec => []TypeOK
<1>1. LimitsInv => TypeOK
  BY DEF LimitsInv
<1> QED BY <1>1, LimitsInvariant, PTL

\* No case is RESOLVED outside the limits, on stale evidence, or against the
\* LLM's wish to go on.
THEOREM ResolutionSound == Spec => []ResolvedWithinLimits
<1>1. LimitsInv => ResolvedWithinLimits
  BY DEF LimitsInv, NodeInv, WithinLimits, ResolvedWithinLimits
<1> QED BY <1>1, LimitsInvariant, PTL

\* The cost cap is overrun by one LLM call at most, or by the first two.
THEOREM CostBounded == Spec => []CostOverrunBounded
<1>1. LimitsInv => CostOverrunBounded
  BY DEF LimitsInv
<1> QED BY <1>1, LimitsInvariant, PTL

\* A case is RESOLVED at most one node's duration after the timeout.
THEOREM LatenessBounded == Spec => []ResolutionLateness
<1>1. LimitsInv => ResolutionLateness
  BY DEF LimitsInv, NodeInv, WithinLimits, ResolutionLateness
<1> QED BY <1>1, LimitsInvariant, PTL

\* The LLM is not asked for a verdict once a hard limit has been reached, nor
\* twice about the same evidence.
THEOREM EvaluationGated == Spec => LimitsGateEvaluation
<1> DEFINE Gated == evaluation' # evaluation /\ run' = run =>
                      /\ hop < MaxToolHops
                      /\ elapsed <= TimeoutSeconds
                      /\ cost < CostCap
                      /\ evaluation.basis < Len(evidence)
<1>1. LimitsInv /\ [Next]_vars => [Gated]_vars
  <2> SUFFICES ASSUME LimitsInv, Next, evaluation' # evaluation, run' = run
               PROVE  Gated
    OBVIOUS
  <2>1. run \in Nat
    BY DEF LimitsInv, TypeOK
  <2>2. NodeEvaluatingCalls
    <3>1. ~Invoke
      BY <2>1 DEF Invoke
    <3>2. ~(NodeInvestigating \/ NodeToolCalling)
      BY DEF NodeInvestigating, NodeToolCalling
    <3>3. ~(NodeToolCallingRaises \/ DispatchRaises \/ Crash)
      BY DEF NodeToolCallingRaises, DispatchRaises, Crash, agentState
    <3>4. ~(NodeEvaluatingRefuses \/ NodeResolved \/ NodeEscalated)
      BY DEF NodeEvaluatingRefuses, NodeResolved, NodeEscalated
    <3> QED BY <3>1, <3>2, <3>3, <3>4 DEF Next, GraphStep
  <2>3. node = "node_evaluating" /\ HardLimit = None
    BY <2>2 DEF NodeEvaluatingCalls
  <2> QED BY <2>3, HardLimitNone, LimitsAssumption DEF LimitsInv, TypeOK, NodeInv
<1>2. Spec => []LimitsInv
  BY LimitsInvariant
<1> QED BY <1>1, <1>2, PTL DEF Spec, LimitsGateEvaluation

\* The first report of an investigation is never replaced and never joined by a
\* second, however often the investigation is run.
THEOREM ReportsStand == Spec => FirstReportStands
<1>1. [Next]_vars => [reports # {} => reports' = reports]_vars
  <2> SUFFICES ASSUME Next, reports # {} PROVE reports' = reports
    OBVIOUS
  <2>1. CASE NodeResolved
    BY <2>1 DEF NodeResolved, InsertReport
  <2> QED BY <2>1 DEF Next, GraphStep, NodeInvestigating, NodeToolCalling,
                      NodeToolCallingRaises, DispatchRaises, NodeEvaluatingRefuses,
                      NodeEvaluatingCalls, NodeEscalated, Crash, Invoke, database
<1> QED BY <1>1, PTL DEF Spec, FirstReportStands

-----------------------------------------------------------------------------
(* The tool log: what the evidence in memory and the rows of this run agree on. *)

\* The agreement is kept because nothing was logged under a later run: a fresh
\* run starts with no rows of its own.
EvidenceInv == EvidenceMatchesLog /\ \A r \in toolLog : r.run <= run

LEMMA InitEvidence == Init => EvidenceInv
BY DEF Init, EvidenceInv, EvidenceMatchesLog

\* A tool call adds one entry, and under its number less one at most one row.
LEMMA NodeToolCallingEvidence ==
    ASSUME LimitsInv, EvidenceInv, NodeToolCalling
    PROVE  EvidenceInv'
<1>0. PICK success \in DispatchOutcomes, okTool \in BOOLEAN :
         /\ toolLog' = IF okTool THEN toolLog \cup {ToolLogRow(success)} ELSE toolLog
         /\ evidence' = Append(evidence, EvidenceEntry(success))
  BY Zenon DEF NodeToolCalling
<1>1. /\ success \in BOOLEAN
      /\ toolLog' = IF okTool THEN toolLog \cup {ToolLogRow(success)} ELSE toolLog
      /\ evidence' = Append(evidence, EvidenceEntry(success))
  BY <1>0 DEF DispatchOutcomes
<1>2. hop' = hop + 1 /\ run' = run /\ node = "node_tool_calling"
  BY DEF NodeToolCalling
<1>3. /\ evidence \in Seq(EvidenceEntries) /\ hop \in Nat /\ run \in Nat
      /\ toolLog \subseteq ToolLogRows
  BY DEF LimitsInv, TypeOK
<1>4. hop = Len(evidence)
  BY DEF EvidenceInv, EvidenceMatchesLog
<1> DEFINE entry == EvidenceEntry(success)
           row   == ToolLogRow(success)
<1>5. /\ entry.hop = hop + 1 /\ entry.significance = IF success THEN "high" ELSE "low"
      /\ entry \in EvidenceEntries
  BY <1>3 DEF EvidenceEntry, EvidenceEntries
<1>6. row.run = run /\ row.hop = hop /\ row.success = success
  BY DEF ToolLogRow
<1> HIDE DEF entry, row
<1>7. /\ Len(evidence') = hop + 1
      /\ evidence'[hop + 1] = entry
      /\ \A i \in 1 .. hop : evidence'[i] = evidence[i]
  BY <1>1, <1>3, <1>4, <1>5 DEF entry
<1>8. \A i \in 1 .. Len(evidence') : evidence'[i].hop = i
  <2> SUFFICES ASSUME NEW i \in 1 .. hop + 1 PROVE evidence'[i].hop = i
    BY <1>7
  <2>1. CASE i = hop + 1
    BY <1>5, <1>7, <2>1
  <2>2. CASE i \in 1 .. hop
    BY <1>4, <1>7, <2>2 DEF EvidenceInv, EvidenceMatchesLog
  <2> QED BY <1>3, <2>1, <2>2
<1>9. ASSUME NEW r \in toolLog', r.run = run
      PROVE  /\ r.hop < hop + 1
             /\ evidence'[r.hop + 1].significance = IF r.success THEN "high" ELSE "low"
  <2>1. CASE r = row
    BY <1>3, <1>5, <1>6, <1>7, <2>1
  <2>2. CASE r \in toolLog
    <3>1. r.hop < hop /\ r.hop \in Nat
          /\ evidence[r.hop + 1].significance = IF r.success THEN "high" ELSE "low"
      BY <1>2, <1>3, <1>9, <2>2 DEF EvidenceInv, EvidenceMatchesLog, ToolLogRows
    <3>2. r.hop + 1 \in 1 .. hop /\ r.hop < hop + 1
      BY <1>3, <3>1
    <3> QED BY <1>7, <3>1, <3>2
  <2> QED BY <1>1, <2>1, <2>2 DEF row
<1>10. \A r \in toolLog' : r.run <= run
  BY <1>1, <1>3, <1>6 DEF EvidenceInv, row
<1> QED BY <1>2, <1>4, <1>7, <1>8, <1>9, <1>10 DEF EvidenceInv, EvidenceMatchesLog

\* A new run has an empty chain, and no row is its own.
LEMMA InvokeEvidence ==
    ASSUME LimitsInv, EvidenceInv, Invoke
    PROVE  EvidenceInv'
<1>1. /\ run' = run + 1 /\ hop' = 0 /\ evidence' = <<>> /\ toolLog' = toolLog
      /\ run \in Nat /\ \A r \in toolLog : r.run \in Nat /\ r.run <= run
  BY DEF Invoke, database, LimitsInv, TypeOK, ToolLogRows, EvidenceInv
<1>2. \A r \in toolLog' : r.run <= run' /\ r.run # run'
  BY <1>1
<1> QED BY <1>1, <1>2 DEF EvidenceInv, EvidenceMatchesLog

\* A call that raises has no entry, and its row the number of none.
LEMMA DispatchRaisesEvidence ==
    ASSUME LimitsInv, EvidenceInv, DispatchRaises
    PROVE  EvidenceInv'
<1>1. PICK success \in DispatchOutcomes, okTool \in BOOLEAN :
         toolLog' = IF okTool THEN toolLog \cup {ToolLogRow(success)} ELSE toolLog
  BY DEF DispatchRaises
<1>2. /\ node = "node_tool_calling" /\ node' = "error"
      /\ UNCHANGED <<run, hop, evidence>>
  BY DEF DispatchRaises, agentState
<1>3. ToolLogRow(success).run = run /\ ToolLogRow(success).hop = hop
  BY DEF ToolLogRow
<1>4. \A r \in toolLog' : r \in toolLog \/ r = ToolLogRow(success)
  BY <1>1
<1>5. run \in Nat
  BY DEF LimitsInv, TypeOK
<1>6. \A r \in toolLog' : r.run <= run
  BY <1>3, <1>4, <1>5 DEF EvidenceInv
<1>7. \A r \in toolLog' : r.run = run =>
         \/ /\ r.hop < hop
            /\ evidence[r.hop + 1].significance = IF r.success THEN "high" ELSE "low"
         \/ r.hop = hop
  BY <1>2, <1>3, <1>4 DEF EvidenceInv, EvidenceMatchesLog
<1> QED BY <1>2, <1>6, <1>7 DEF EvidenceInv, EvidenceMatchesLog

LEMMA NextEvidence == LimitsInv /\ EvidenceInv /\ [Next]_vars => EvidenceInv'
<1> SUFFICES ASSUME LimitsInv, EvidenceInv, [Next]_vars PROVE EvidenceInv'
  OBVIOUS
<1>1. CASE UNCHANGED <<run, hop, evidence, toolLog>> /\ (node = "error" => node' = "error")
  BY <1>1 DEF EvidenceInv, EvidenceMatchesLog
<1>2. CASE NodeInvestigating
  BY <1>1, <1>2 DEF NodeInvestigating, LimitsInv, NodeInv
<1>3. CASE Crash
  BY <1>1, <1>3 DEF Crash, Nodes, agentState, database
<1> QED
  BY <1>1, <1>2, <1>3, NodeToolCallingEvidence, DispatchRaisesEvidence, InvokeEvidence
     DEF Next, GraphStep, NodeToolCallingRaises, NodeEvaluatingRefuses, NodeEvaluatingCalls,
         NodeResolved, NodeEscalated, Crash, vars, agentState, database

-----------------------------------------------------------------------------
(* The audit log: closed runs stay closed. *)

Closing == {"resolved", "escalated"}

\* No run has a row after its closing row; run n has no closing row; nothing is
\* of a run after n.
ClosedLog(log) ==
    \A i \in DOMAIN log : log[i].event \in Closing =>
        \A j \in i + 1 .. Len(log) : log[j].run # log[i].run
OpenLog(log, n) == \A i \in DOMAIN log : log[i].event \in Closing => log[i].run # n
LogUpTo(log, n) == \A i \in DOMAIN log : log[i].run <= n

Writable(log, n) ==
    log \in Seq(AuditRows) /\ ClosedLog(log) /\ OpenLog(log, n) /\ LogUpTo(log, n)

\* The run may write until it has written its closing row, which is at its end.
AuditInv ==
    /\ ClosedLog(auditLog)
    /\ LogUpTo(auditLog, run)
    /\ node # "END" => OpenLog(auditLog, run)
    /\ \A i \in DOMAIN auditLog :
         auditLog[i].event \in Closing /\ auditLog[i].run = run => auditLog[i].state_to = status

LEMMA AppendedRows ==
    ASSUME NEW log \in Seq(AuditRows), NEW row \in AuditRows
    PROVE  /\ Append(log, row) \in Seq(AuditRows)
           /\ Len(Append(log, row)) = Len(log) + 1
           /\ \A i \in DOMAIN Append(log, row) :
                \/ i \in DOMAIN log /\ Append(log, row)[i] = log[i]
                \/ i = Len(log) + 1 /\ Append(log, row)[i] = row
OBVIOUS

\* Any row of a run that may write leaves every closed run closed.
LEMMA LoggedClosed ==
    ASSUME NEW n \in Nat, NEW log, Writable(log, n),
           NEW row \in AuditRows, row.run = n, NEW ok \in BOOLEAN
    PROVE  ClosedLog(Logged(log, row, ok)) /\ LogUpTo(Logged(log, row, ok), n)
<1>1. CASE ~ok
  BY <1>1 DEF Logged, Writable
<1>2. CASE ok
  <2> DEFINE new == Append(log, row)
  <2>0. Logged(log, row, ok) = new /\ log \in Seq(AuditRows)
    BY <1>2 DEF Logged, Writable
  <2>1. /\ Len(new) = Len(log) + 1 /\ Len(log) \in Nat /\ DOMAIN log = 1 .. Len(log)
        /\ \A i \in DOMAIN new : \/ i \in DOMAIN log /\ new[i] = log[i]
                                 \/ i = Len(log) + 1 /\ new[i] = row
        /\ DOMAIN new = 1 .. Len(log) + 1
    BY <2>0, AppendedRows
  <2> HIDE DEF new
  <2>2. ASSUME NEW i \in DOMAIN new, new[i].event \in Closing,
               NEW j \in i + 1 .. Len(new)
        PROVE  new[j].run # new[i].run
    <3>1. i \in DOMAIN log /\ new[i] = log[i]
      BY <2>1, <2>2
    <3>2. CASE j = Len(log) + 1
      BY <2>1, <2>2, <3>1, <3>2 DEF Writable, OpenLog
    <3>3. CASE j # Len(log) + 1
      <4>1. j \in DOMAIN new /\ j \in i + 1 .. Len(log) /\ new[j] = log[j]
        BY <2>1, <2>2, <3>1, <3>3
      <4> QED BY <2>2, <3>1, <4>1 DEF Writable, ClosedLog
    <3> QED BY <3>2, <3>3
  <2>3. \A i \in DOMAIN new : new[i].run <= n
    BY <2>1 DEF Writable, LogUpTo
  <2> QED BY <2>0, <2>2, <2>3 DEF ClosedLog, LogUpTo
<1> QED BY <1>1, <1>2

\* After a row that closes nothing the run may go on writing.
LEMMA LoggedWritable ==
    ASSUME NEW n \in Nat, NEW log, Writable(log, n),
           NEW row \in AuditRows, row.run = n, row.event \notin Closing, NEW ok \in BOOLEAN
    PROVE  Writable(Logged(log, row, ok), n)
<1>1. ClosedLog(Logged(log, row, ok)) /\ LogUpTo(Logged(log, row, ok), n)
  BY LoggedClosed
<1>2. Logged(log, row, ok) \in Seq(AuditRows) /\ OpenLog(Logged(log, row, ok), n)
  <2>1. CASE ~ok
    BY <2>1 DEF Logged, Writable
  <2>2. CASE ok
    BY <2>2, AppendedRows DEF Logged, Writable, OpenLog
  <2> QED BY <2>1, <2>2
<1> QED BY <1>1, <1>2 DEF Writable

\* The closing row is the only one of its run.
LEMMA LoggedClosing ==
    ASSUME NEW n \in Nat, NEW log, Writable(log, n),
           NEW row \in AuditRows, row.run = n, NEW ok \in BOOLEAN,
           NEW i \in DOMAIN Logged(log, row, ok),
           Logged(log, row, ok)[i].event \in Closing, Logged(log, row, ok)[i].run = n
    PROVE  Logged(log, row, ok)[i] = row
<1>1. CASE ~ok
  BY <1>1 DEF Logged, Writable, OpenLog
<1>2. CASE ok
  BY <1>2, AppendedRows DEF Logged, Writable, OpenLog
<1> QED BY <1>1, <1>2

\* A run that has not come to its end may write.
LEMMA RunWritable ==
    ASSUME LimitsInv, AuditInv, node # "END"
    PROVE  Writable(auditLog, run) /\ run \in Nat
BY DEF LimitsInv, TypeOK, AuditInv, Writable

\* The rows a node writes are of its run.
LEMMA AuditRowFields ==
    ASSUME NEW event, NEW from, NEW to, NEW delta
    PROVE  /\ AuditRow(event, from, to, delta).run = run
           /\ AuditRow(event, from, to, delta).event = event
           /\ AuditRow(event, from, to, delta).state_to = to
BY DEF AuditRow

\* Nodes in the middle of a run.
LEMMA WritableAudit ==
    ASSUME Writable(auditLog', run), UNCHANGED run, node' # "END"
    PROVE  AuditInv'
BY DEF Writable, AuditInv, OpenLog

LEMMA InitAudit == Init => AuditInv
BY DEF Init, AuditInv, ClosedLog, OpenLog, LogUpTo

LEMMA NodeInvestigatingAudit ==
    ASSUME LimitsInv, AuditInv, NodeInvestigating
    PROVE  AuditInv'
<1> DEFINE triggered == AuditRow("triggered", None, "INVESTIGATING", 0)
           started   == AuditRow("state_change", "IDLE", "INVESTIGATING", 0)
<1>1. PICK okTriggered \in BOOLEAN, okStarted \in BOOLEAN, okFallback \in BOOLEAN :
        \/ auditLog' = Logged(Logged(auditLog, triggered, okTriggered), started, okStarted)
        \/ auditLog' = Logged(Logged(Logged(auditLog, triggered, okTriggered), started, okStarted),
                              FallbackRow, okFallback)
  BY DEF NodeInvestigating
<1>2. Writable(auditLog, run) /\ run \in Nat
  BY RunWritable DEF NodeInvestigating
<1>3. triggered \in AuditRows /\ started \in AuditRows /\ FallbackRow \in AuditRows
  BY <1>2, AuditRowType DEF Statuses, FallbackRow
<1>4. /\ triggered.run = run /\ triggered.event \notin Closing
      /\ started.run = run /\ started.event \notin Closing
      /\ FallbackRow.run = run /\ FallbackRow.event \notin Closing
  BY AuditRowFields DEF FallbackRow, Closing
<1> HIDE DEF triggered, started
<1>5. Writable(Logged(auditLog, triggered, okTriggered), run)
  BY <1>2, <1>3, <1>4, LoggedWritable
<1>6. Writable(Logged(Logged(auditLog, triggered, okTriggered), started, okStarted), run)
  BY <1>2, <1>3, <1>4, <1>5, LoggedWritable
<1>7. Writable(Logged(Logged(Logged(auditLog, triggered, okTriggered), started, okStarted),
                      FallbackRow, okFallback), run)
  BY <1>2, <1>3, <1>4, <1>6, LoggedWritable
<1>8. Writable(auditLog', run)
  BY <1>1, <1>6, <1>7
<1> QED BY <1>8, WritableAudit DEF NodeInvestigating

LEMMA NodeToolCallingAudit ==
    ASSUME LimitsInv, AuditInv, NodeToolCalling
    PROVE  AuditInv'
<1> DEFINE called       == AuditRow("tool_call", None, None, 0)
           from         == IF hop = 0 THEN "INVESTIGATING" ELSE "EVALUATING"
           change(cost_) == AuditRow("state_change", from, "TOOL_CALLING", cost_)
<1>1. PICK reply \in SelectionReplies, okCall \in BOOLEAN, okChange \in BOOLEAN :
        auditLog' = Logged(Logged(auditLog, called, okCall), change(reply.cost), okChange)
  BY DEF NodeToolCalling
<1>2. Writable(auditLog, run) /\ run \in Nat
  BY RunWritable DEF NodeToolCalling
<1>3. reply.cost \in Nat /\ from \in Statuses
  BY SelectionReplyType, ReplyBounds DEF Statuses
<1> HIDE DEF from
<1>4. called \in AuditRows /\ change(reply.cost) \in AuditRows
  BY <1>2, <1>3, AuditRowType DEF Statuses
<1>5. /\ called.run = run /\ called.event \notin Closing
      /\ change(reply.cost).run = run /\ change(reply.cost).event \notin Closing
  BY AuditRowFields DEF Closing
<1> HIDE DEF called, change
<1>6. Writable(Logged(auditLog, called, okCall), run)
  BY <1>2, <1>4, <1>5, LoggedWritable
<1>7. Writable(auditLog', run)
  BY <1>1, <1>2, <1>4, <1>5, <1>6, LoggedWritable
<1> QED BY <1>7, WritableAudit DEF NodeToolCalling

LEMMA NodeEvaluatingRefusesAudit ==
    ASSUME LimitsInv, AuditInv, NodeEvaluatingRefuses
    PROVE  AuditInv'
<1> DEFINE row == AuditRow("state_change", "EVALUATING", "ESCALATED", 0)
<1>1. PICK ok \in BOOLEAN : auditLog' = Logged(auditLog, row, ok)
  BY DEF NodeEvaluatingRefuses
<1>2. Writable(auditLog, run) /\ run \in Nat
  BY RunWritable DEF NodeEvaluatingRefuses
<1>3. row \in AuditRows
  BY <1>2, AuditRowType DEF Statuses
<1>4. row.run = run /\ row.event \notin Closing
  BY AuditRowFields DEF Closing
<1> HIDE DEF row
<1>5. Writable(auditLog', run)
  BY <1>1, <1>2, <1>3, <1>4, LoggedWritable
<1>6. node' # "END"
  BY HardLimitType, RouteType DEF NodeEvaluatingRefuses
<1> QED BY <1>5, <1>6, WritableAudit DEF NodeEvaluatingRefuses

\* The closing row of a run tells the status the run has from then on.
LEMMA ClosingRowAudit ==
    ASSUME LimitsInv, AuditInv, node # "END", UNCHANGED run, node' = "END",
           NEW row \in AuditRows, row.run = run, row.state_to = status',
           NEW ok \in BOOLEAN, auditLog' = Logged(auditLog, row, ok)
    PROVE  AuditInv'
<1>1. Writable(auditLog, run) /\ run \in Nat
  BY RunWritable
<1>2. ClosedLog(auditLog') /\ LogUpTo(auditLog', run)
  BY <1>1, LoggedClosed
<1>3. ASSUME NEW i \in DOMAIN auditLog', auditLog'[i].event \in Closing, auditLog'[i].run = run
      PROVE  auditLog'[i].state_to = status'
  BY <1>1, <1>3, LoggedClosing
<1> QED BY <1>2, <1>3 DEF AuditInv

LEMMA NodeResolvedAudit ==
    ASSUME LimitsInv, AuditInv, NodeResolved
    PROVE  AuditInv'
<1> DEFINE row == AuditRow("resolved", "EVALUATING", "RESOLVED", 0)
<1>1. PICK ok \in BOOLEAN : auditLog' = Logged(auditLog, row, ok)
  BY DEF NodeResolved
<1>2. node # "END" /\ node' = "END" /\ run' = run /\ status' = "RESOLVED"
  BY DEF NodeResolved
<1>3. row \in AuditRows
  BY AuditRowType DEF Statuses, LimitsInv, TypeOK
<1>4. row.run = run /\ row.state_to = "RESOLVED"
  BY AuditRowFields
<1> HIDE DEF row
<1> QED BY <1>1, <1>2, <1>3, <1>4, ClosingRowAudit

LEMMA NodeEscalatedAudit ==
    ASSUME LimitsInv, AuditInv, NodeEscalated
    PROVE  AuditInv'
<1> DEFINE row == AuditRow("escalated", "EVALUATING", "ESCALATED", 0)
<1>1. PICK ok \in BOOLEAN : auditLog' = Logged(auditLog, row, ok)
  BY DEF NodeEscalated
<1>2. node # "END" /\ node' = "END" /\ run' = run /\ status' = "ESCALATED"
  BY DEF NodeEscalated
<1>3. row \in AuditRows
  BY AuditRowType DEF Statuses, LimitsInv, TypeOK
<1>4. row.run = run /\ row.state_to = "ESCALATED"
  BY AuditRowFields
<1> HIDE DEF row
<1> QED BY <1>1, <1>2, <1>3, <1>4, ClosingRowAudit

\* A fresh run has written nothing.
LEMMA InvokeAudit ==
    ASSUME LimitsInv, AuditInv, Invoke
    PROVE  AuditInv'
<1>1. /\ run' = run + 1 /\ auditLog' = auditLog /\ run \in Nat
      /\ auditLog \in Seq(AuditRows)
  BY DEF Invoke, database, LimitsInv, TypeOK
<1>2. \A i \in DOMAIN auditLog : auditLog[i].run \in Nat /\ auditLog[i].run <= run
  <2>1. \A i \in DOMAIN auditLog : auditLog[i] \in AuditRows
    BY <1>1
  <2> QED BY <2>1 DEF AuditInv, LogUpTo, AuditRows
<1>3. \A i \in DOMAIN auditLog : auditLog[i].run <= run' /\ auditLog[i].run # run'
  BY <1>1, <1>2
<1> QED BY <1>1, <1>3 DEF AuditInv, ClosedLog, OpenLog, LogUpTo

\* Steps that write no row do not come to an end either.
LEMMA SilentAudit ==
    ASSUME LimitsInv, AuditInv,
           NodeToolCallingRaises \/ DispatchRaises \/ Crash \/ NodeEvaluatingCalls
    PROVE  AuditInv'
<1>1. auditLog' = auditLog /\ run' = run /\ node # "END"
  BY DEF NodeToolCallingRaises, DispatchRaises, Crash, NodeEvaluatingCalls, database, Nodes
<1>2. node' # "END"
  <2>1. CASE NodeEvaluatingCalls
    BY <2>1 DEF NodeEvaluatingCalls, RouteAfterEvaluating, EvaluateRouting
  <2> QED BY <2>1 DEF NodeToolCallingRaises, DispatchRaises, Crash
<1> QED BY <1>1, <1>2, RunWritable, WritableAudit

LEMMA NextAudit == LimitsInv /\ AuditInv /\ [Next]_vars => AuditInv'
<1>1. UNCHANGED vars /\ AuditInv => AuditInv'
  BY DEF vars, agentState, database, AuditInv, ClosedLog, OpenLog, LogUpTo
<1> QED
  BY <1>1, NodeInvestigatingAudit, NodeToolCallingAudit, NodeEvaluatingRefusesAudit,
     NodeResolvedAudit, NodeEscalatedAudit, InvokeAudit, SilentAudit DEF Next, GraphStep

-----------------------------------------------------------------------------
(* The escalation queue and the report: what a run leaves. *)

\* The evaluation call of this hop was refused, or made in time.
RefusedNow == evaluation.basis < hop
EvaluatedNow ==
    /\ evaluation.basis = hop
    /\ elapsed <= TimeoutSeconds + MaxDuration
    /\ cost < CostCap + MaxCallCost

\* Why a run is on its way to an analyst: the first limit it met, in the order in
\* which node_evaluating looks at them.
EscalationDue ==
    /\ evidence # <<>>
    /\ reason = "max_hops" <=> hop >= MaxToolHops
    /\ \/ reason = "max_hops" /\ RefusedNow
       \/ reason = "timeout" /\ RefusedNow /\ elapsed > TimeoutSeconds
       \/ /\ reason = "cost_cap" /\ cost >= CostCap
          /\ EvaluatedNow \/ (RefusedNow /\ elapsed <= TimeoutSeconds)
       \/ /\ reason = "low_confidence" /\ EvaluatedNow /\ cost < CostCap
          /\ Round4(evaluation.confidence) < ConfidenceThreshold

EndedResolved ==
    /\ status = "RESOLVED"
    /\ \A row \in escalations : row.run # run
    /\ lost = 0 => reports # {}

\* The queued case is the state the run ended in.
EndedEscalated ==
    /\ status = "ESCALATED"
    /\ EscalationDue
    /\ \A report \in reports : report.run # run
    /\ \A row \in escalations : row.run = run => row = EscalationRow
    /\ lost = 0 => EscalationRow \in escalations

OutcomeInv ==
    /\ \A r \in reports \cup escalations : r.run <= run
    /\ node # "END" => \A r \in reports \cup escalations : r.run # run
    /\ node = "node_escalated" => EscalationDue
    /\ node = "END" => EndedResolved \/ EndedEscalated

\* With nothing lost so far, nothing was lost before, nor in this step.
LEMMA NothingLost ==
    ASSUME LimitsInv, NEW n \in Nat, Lose(n), lost' = 0
    PROVE  n = 0 /\ lost = 0
BY DEF LimitsInv, TypeOK, Lose

LEMMA InitOutcome == Init => OutcomeInv
BY DEF Init, OutcomeInv

\* Nodes that neither end a run nor send it to the analyst.
LEMMA GoingOnOutcome ==
    ASSUME LimitsInv, OutcomeInv,
           \/ NodeInvestigating \/ NodeToolCalling
           \/ NodeToolCallingRaises \/ DispatchRaises \/ Crash
    PROVE  OutcomeInv'
<1>1. /\ UNCHANGED <<run, reports, escalations>>
      /\ node # "END" /\ node' \notin {"END", "node_escalated"}
  BY DEF NodeInvestigating, NodeToolCalling, NodeToolCallingRaises, DispatchRaises, Crash,
         Nodes, database
<1> QED BY <1>1 DEF OutcomeInv

\* A guard that refuses the evaluation gives the first limit as the reason, and
\* the last evaluation is older than the evidence.
LEMMA NodeEvaluatingRefusesOutcome ==
    ASSUME LimitsInv, EvidenceInv, OutcomeInv, NodeEvaluatingRefuses
    PROVE  OutcomeInv'
<1>1. /\ node = "node_evaluating" /\ HardLimit # None /\ reason' = HardLimit
      /\ UNCHANGED <<run, hop, cost, evidence, evaluation, elapsed, reports, escalations>>
  BY DEF NodeEvaluatingRefuses
<1>2. node' = "node_escalated"
  BY HardLimitType, RouteType DEF NodeEvaluatingRefuses
<1>3. /\ evaluation.basis < Len(evidence) /\ hop = Len(evidence) /\ evidence # <<>>
      /\ hop \in Nat /\ elapsed \in Nat /\ cost \in Nat
  BY <1>1 DEF LimitsInv, NodeInv, TypeOK, EvidenceInv, EvidenceMatchesLog, Evaluations
<1>4. EscalationDue'
  BY <1>1, <1>3, LimitsAssumption
     DEF EscalationDue, RefusedNow, HardLimit, MaxHopsReached, TimedOut, CostCapped, None
<1> QED BY <1>1, <1>2, <1>4 DEF OutcomeInv

\* A check after the evaluation gives its own reason, on an evaluation of all the
\* evidence.
LEMMA NodeEvaluatingCallsOutcome ==
    ASSUME LimitsInv, EvidenceInv, OutcomeInv, NodeEvaluatingCalls
    PROVE  OutcomeInv'
<1>1. PICK reply \in EvaluationReplies, d \in Durations :
         LET e == [confidence |-> reply.confidence, verdict |-> reply.verdict,
                   should_continue |-> reply.should_continue, basis |-> Len(evidence)]
             r == LimitAfterCall(cost + reply.cost, e)
         IN /\ evaluation' = e
            /\ cost' = cost + reply.cost
            /\ elapsed' = elapsed + d
            /\ reason' = r
            /\ node' = RouteAfterEvaluating(r, e)
  BY DEF NodeEvaluatingCalls
<1> DEFINE e == [confidence |-> reply.confidence, verdict |-> reply.verdict,
                 should_continue |-> reply.should_continue, basis |-> Len(evidence)]
           r == LimitAfterCall(cost + reply.cost, e)
<1>2. /\ evaluation' = e /\ cost' = cost + reply.cost /\ elapsed' = elapsed + d
      /\ reason' = r /\ node' = RouteAfterEvaluating(r, e)
  BY <1>1
<1>3. e.basis = Len(evidence)
  OBVIOUS
<1>4. e.confidence \in Nat /\ cost + reply.cost \in Nat
  BY EvaluationReplyType, ReplyBounds DEF LimitsInv, TypeOK
<1>5. r \in Reasons \cup {None}
  BY DEF LimitAfterCall, Reasons
<1>6. /\ r # None => r \in {"cost_cap", "low_confidence"}
      /\ r = "cost_cap" => cost + reply.cost >= CostCap
      /\ r = "low_confidence" => ~(cost + reply.cost >= CostCap) /\ ConfidenceLow(e)
  BY DEF LimitAfterCall, CostCapped, None
<1> HIDE DEF e, r
<1>7. /\ node' \in {"node_tool_calling", "node_resolved", "node_escalated"}
      /\ node' = "node_escalated" => r # None
  BY <1>2, <1>5, RouteType
<1>8. /\ node = "node_evaluating" /\ HardLimit = None
      /\ UNCHANGED <<run, hop, evidence, reports, escalations>>
  BY DEF NodeEvaluatingCalls, database
<1>9. /\ evidence # <<>> /\ hop < MaxToolHops /\ hop = Len(evidence)
      /\ cost < CostCap /\ elapsed <= TimeoutSeconds
      /\ hop \in Nat /\ cost \in Nat /\ elapsed \in Nat
  BY <1>8, HardLimitNone, LimitsAssumption DEF LimitsInv, TypeOK, EvidenceInv, EvidenceMatchesLog
<1>10. EvaluatedNow'
  <2>1. reply.cost \in 0 .. MaxCallCost /\ d \in 0 .. MaxDuration
    BY EvaluationReplyType, ReplyBounds
  <2>2. /\ cost + reply.cost < CostCap + MaxCallCost
        /\ elapsed + d <= TimeoutSeconds + MaxDuration
    BY <1>9, <2>1, LimitsAssumption, CallCostsAssumption, DurationsAssumption
  <2> QED BY <1>2, <1>3, <1>8, <1>9, <2>2 DEF EvaluatedNow
<1>11. r # None => EscalationDue'
  BY <1>2, <1>4, <1>6, <1>8, <1>9, <1>10, LimitsAssumption DEF EscalationDue, ConfidenceLow
<1> QED BY <1>7, <1>8, <1>11 DEF OutcomeInv

\* A run that resolves files its report, unless one is on file, and queues nothing.
LEMMA NodeResolvedOutcome ==
    ASSUME LimitsInv, OutcomeInv, NodeResolved
    PROVE  OutcomeInv'
<1>1. /\ node = "node_resolved" /\ node' = "END" /\ status' = "RESOLVED"
      /\ run' = run /\ escalations' = escalations
  BY DEF NodeResolved
<1>2. PICK okRead \in BOOLEAN, okReport \in BOOLEAN, okAudit \in BOOLEAN :
         LET chain  == EvidenceChain(okRead)
             report == [run |-> run, chain |-> chain, hops |-> hop, cost |-> cost,
                        confidence |-> evaluation.confidence,
                        verdict |-> ReportVerdict(chain)]
         IN /\ reports' = IF okReport THEN InsertReport(report) ELSE reports
            /\ Lose(Misses(okRead) + Misses(okReport) + Misses(okAudit))
  BY DEF NodeResolved
<1> DEFINE report == [run |-> run, chain |-> EvidenceChain(okRead), hops |-> hop, cost |-> cost,
                      confidence |-> evaluation.confidence,
                      verdict |-> ReportVerdict(EvidenceChain(okRead))]
<1>3. /\ report.run = run
      /\ reports' = IF okReport THEN InsertReport(report) ELSE reports
      /\ Lose(Misses(okRead) + Misses(okReport) + Misses(okAudit))
  BY <1>2
<1> HIDE DEF report
<1>4. \A r \in reports' : r \in reports \/ r = report
  BY <1>3 DEF InsertReport
<1>5. lost' = 0 => reports' # {}
  <2>1. /\ Misses(okRead) \in Nat /\ Misses(okReport) \in Nat /\ Misses(okAudit) \in Nat
    BY MissesType
  <2>2. lost' = 0 => Misses(okReport) = 0
    BY <1>3, <2>1, NothingLost
  <2> QED BY <1>3, <2>2 DEF Misses, InsertReport
<1>6. run \in Nat
  BY DEF LimitsInv, TypeOK
<1>7. EndedResolved'
  BY <1>1, <1>5 DEF EndedResolved, OutcomeInv
<1>8. \A r \in reports' \cup escalations' : r.run <= run
  BY <1>1, <1>3, <1>4, <1>6 DEF OutcomeInv
<1> QED BY <1>1, <1>7, <1>8 DEF OutcomeInv

\* A run that escalates queues the state it is in.
LEMMA NodeEscalatedOutcome ==
    ASSUME LimitsInv, OutcomeInv, NodeEscalated
    PROVE  OutcomeInv'
<1>1. /\ node = "node_escalated" /\ node' = "END" /\ status' = "ESCALATED"
      /\ UNCHANGED <<run, hop, cost, evidence, evaluation, reason, elapsed, reports>>
  BY DEF NodeEscalated
<1>2. PICK okAudit \in BOOLEAN, okQueue \in BOOLEAN :
         escalations' = QueueCase(EscalationRow, okQueue) /\ Lose(Misses(okAudit) + Misses(okQueue))
  BY DEF NodeEscalated
<1>3. EscalationDue /\ EscalationDue'
  BY <1>1 DEF OutcomeInv, EscalationDue, RefusedNow, EvaluatedNow
<1>4. EscalationRow.run = run /\ EscalationRow.reason \in Reasons
  BY <1>3 DEF EscalationRow, EscalationDue, Reasons, None
<1>5. EscalationRow' = EscalationRow
  BY <1>1 DEF EscalationRow
<1>6. /\ \A row \in escalations' : row \in escalations \/ row = EscalationRow
      /\ okQueue => EscalationRow \in escalations'
  BY <1>2, <1>4 DEF QueueCase
<1>7. lost' = 0 => okQueue
  <2>1. Misses(okAudit) \in Nat /\ Misses(okQueue) \in Nat
    BY MissesType
  <2>2. lost' = 0 => Misses(okQueue) = 0
    BY <1>2, <2>1, NothingLost
  <2> QED BY <2>2 DEF Misses
<1>8. EndedEscalated'
  BY <1>1, <1>3, <1>5, <1>6, <1>7 DEF EndedEscalated, OutcomeInv
<1>9. \A r \in reports' \cup escalations' : r.run <= run
  BY <1>1, <1>4, <1>6 DEF OutcomeInv, LimitsInv, TypeOK
<1> QED BY <1>1, <1>8, <1>9 DEF OutcomeInv

LEMMA InvokeOutcome ==
    ASSUME LimitsInv, OutcomeInv, Invoke
    PROVE  OutcomeInv'
<1>1. /\ run' = run + 1 /\ node' = "node_investigating"
      /\ reports' = reports /\ escalations' = escalations /\ run \in Nat
  BY DEF Invoke, database, LimitsInv, TypeOK
<1>2. \A r \in reports \cup escalations : r.run \in Nat /\ r.run <= run
  <2>1. \A r \in reports : r.run \in Nat
    BY DEF LimitsInv, TypeOK, ReportRows
  <2>2. \A r \in escalations : r.run \in Nat
    BY DEF LimitsInv, TypeOK, EscalationRows
  <2> QED BY <2>1, <2>2 DEF OutcomeInv
<1>3. \A r \in reports \cup escalations : r.run <= run' /\ r.run # run'
  BY <1>1, <1>2
<1> QED BY <1>1, <1>3 DEF OutcomeInv

LEMMA NextOutcome == LimitsInv /\ EvidenceInv /\ OutcomeInv /\ [Next]_vars => OutcomeInv'
<1>1. UNCHANGED vars /\ OutcomeInv => OutcomeInv'
  BY DEF vars, agentState, database, OutcomeInv, EndedResolved, EndedEscalated, EscalationDue,
         RefusedNow, EvaluatedNow, EscalationRow
<1> QED
  BY <1>1, GoingOnOutcome, NodeEvaluatingRefusesOutcome, NodeEvaluatingCallsOutcome,
     NodeResolvedOutcome, NodeEscalatedOutcome, InvokeOutcome DEF Next, GraphStep

\* A report is made within the limits, and of rows that were there.
LEMMA NodeResolvedBacked ==
    ASSUME LimitsInv, EvidenceInv, ReportBacked, NodeResolved
    PROVE  ReportBacked'
<1>1. PICK okRead \in BOOLEAN, okReport \in BOOLEAN :
         LET chain  == EvidenceChain(okRead)
             report == [run |-> run, chain |-> chain, hops |-> hop, cost |-> cost,
                        confidence |-> evaluation.confidence,
                        verdict |-> ReportVerdict(chain)]
         IN reports' = IF okReport THEN InsertReport(report) ELSE reports
  BY DEF NodeResolved
<1> DEFINE report == [run |-> run, chain |-> EvidenceChain(okRead), hops |-> hop, cost |-> cost,
                      confidence |-> evaluation.confidence,
                      verdict |-> ReportVerdict(EvidenceChain(okRead))]
<1>2. /\ report.run = run /\ report.chain = EvidenceChain(okRead) /\ report.hops = hop
      /\ report.cost = cost /\ report.confidence = evaluation.confidence
      /\ report.verdict = ReportVerdict(EvidenceChain(okRead))
      /\ reports' = IF okReport THEN InsertReport(report) ELSE reports
  BY <1>1
<1> HIDE DEF report
<1>3. WithinLimits
  BY DEF NodeResolved, LimitsInv, NodeInv
<1>4. report.hops \in 1 .. MaxToolHops - 1
  <2>1. hop = Len(evidence) /\ evidence # <<>> /\ hop < MaxToolHops /\ evidence \in Seq(EvidenceEntries)
    BY <1>3 DEF WithinLimits, EvidenceInv, EvidenceMatchesLog, LimitsInv, TypeOK
  <2> QED BY <1>2, <2>1, LimitsAssumption
<1>5. report.verdict # "inconclusive" => report.chain # {}
  BY <1>2 DEF ReportVerdict
<1>6. \A e \in report.chain : e.run <= report.run /\ (e.run = report.run => e.hop < report.hops)
  <2>1. \A e \in report.chain : \E r \in toolLog : e.run = r.run /\ e.hop = r.hop
    BY <1>2 DEF EvidenceChain, ChainEntry
  <2>2. node # "error"
    BY DEF NodeResolved
  <2> QED BY <1>2, <2>1, <2>2 DEF EvidenceInv, EvidenceMatchesLog
<1>7. report.cost < CostCap /\ Round4(report.confidence) >= ConfidenceThreshold
  BY <1>2, <1>3 DEF WithinLimits
<1>8. \A r \in reports' : r \in reports \/ r = report
  BY <1>2 DEF InsertReport
<1> QED BY <1>4, <1>5, <1>6, <1>7, <1>8 DEF ReportBacked

LEMMA NextBacked == LimitsInv /\ EvidenceInv /\ ReportBacked /\ [Next]_vars => ReportBacked'
<1>1. CASE UNCHANGED reports
  BY <1>1 DEF ReportBacked
<1> QED
  BY <1>1, NodeResolvedBacked
     DEF Next, GraphStep, NodeInvestigating, NodeToolCalling, NodeToolCallingRaises,
         DispatchRaises, NodeEvaluatingRefuses, NodeEvaluatingCalls, NodeEscalated, Crash,
         Invoke, vars, database

-----------------------------------------------------------------------------
(* What the invariants say of the tables. *)

\* Between two nodes the queued case of this run, if any, is the state it ended in.
LEMMA QueuedCase ==
    ASSUME OutcomeInv, NEW row \in escalations, row.run = run
    PROVE  /\ node = "END" /\ status = "ESCALATED" /\ EscalationDue
           /\ row = EscalationRow /\ \A report \in reports : report.run # run
BY DEF OutcomeInv, EndedResolved, EndedEscalated

LEMMA CasesExplained == LimitsInv /\ EvidenceInv /\ OutcomeInv => EscalationExplained
<1> SUFFICES ASSUME LimitsInv, EvidenceInv, OutcomeInv,
                    NEW row \in escalations, row.run = run
             PROVE  /\ row.hops = Len(row.evidence)
                    /\ row.hops > 0
                    /\ row.reason = "max_hops" <=> row.hops >= MaxToolHops
                    /\ CASE row.reason = "max_hops" -> Refused(row)
                         [] row.reason = "timeout" -> Refused(row) /\ elapsed > TimeoutSeconds
                         [] row.reason = "cost_cap" ->
                              /\ row.cost >= CostCap
                              /\ Evaluated(row) \/ (Refused(row) /\ elapsed <= TimeoutSeconds)
                         [] row.reason = "low_confidence" ->
                              /\ Evaluated(row) /\ row.cost < CostCap
                              /\ Round4(row.evaluation.confidence) < ConfidenceThreshold
                         [] OTHER -> FALSE
  BY DEF EscalationExplained
<1>1. EscalationDue /\ row = EscalationRow
  BY QueuedCase
<1>2. /\ row.hops = hop /\ row.cost = cost /\ row.evidence = evidence
      /\ row.evaluation = evaluation /\ row.reason = reason
  BY <1>1 DEF EscalationRow, EscalationDue, None
<1>3. hop = Len(evidence) /\ hop > 0
  BY <1>1 DEF EscalationDue, EvidenceInv, EvidenceMatchesLog, LimitsInv, TypeOK
<1>4. (Refused(row) <=> RefusedNow) /\ (Evaluated(row) <=> EvaluatedNow)
  BY <1>2 DEF Refused, RefusedNow, Evaluated, EvaluatedNow
<1> QED BY <1>1, <1>2, <1>3, <1>4 DEF EscalationDue

LEMMA RunsRecorded == LimitsInv /\ OutcomeInv => OutcomeRecorded
<1> SUFFICES ASSUME LimitsInv, OutcomeInv PROVE OutcomeRecorded
  OBVIOUS
<1> DEFINE filed  == {r \in reports : r.run = run}
           queued == {r \in escalations : r.run = run}
<1>1. node # "END" => filed = {} /\ queued = {}
  BY DEF OutcomeInv
<1>2. filed # {} => status = "RESOLVED"
  BY DEF OutcomeInv, EndedResolved, EndedEscalated
<1>3. queued # {} => status = "ESCALATED"
  BY QueuedCase
<1>4. ASSUME node = "END", lost = 0
      PROVE  \/ status = "RESOLVED" /\ reports # {}
             \/ status = "ESCALATED" /\ Cardinality(queued) = 1
  <2>1. CASE EndedResolved
    BY <1>4, <2>1 DEF EndedResolved
  <2>2. CASE EndedEscalated
    <3>1. queued = {EscalationRow}
      BY <1>4, <2>2 DEF EndedEscalated, EscalationRow
    <3> QED BY <2>2, <3>1, FS_Singleton DEF EndedEscalated
  <2> QED BY <1>4, <2>1, <2>2 DEF OutcomeInv
<1> QED BY <1>1, <1>2, <1>3, <1>4 DEF OutcomeRecorded

LEMMA RunsClosed == AuditInv => AuditClosed
BY DEF AuditInv, AuditClosed, ClosedLog, OpenLog, Closing

-----------------------------------------------------------------------------
(* The theorems about the tables. *)

TablesInv == EvidenceInv /\ AuditInv /\ OutcomeInv /\ ReportBacked

\* The strengthening is an invariant: the four tables and the state of the run
\* agree between any two nodes.
THEOREM TablesInvariant == Spec => []TablesInv
<1>1. Init => TablesInv
  BY InitEvidence, InitAudit, InitOutcome DEF TablesInv, ReportBacked, Init
<1>2. LimitsInv /\ TablesInv /\ [Next]_vars => TablesInv'
  BY NextEvidence, NextAudit, NextOutcome, NextBacked DEF TablesInv
<1> QED BY <1>1, <1>2, LimitsInvariant, PTL DEF Spec

\* In every run, also one that follows a crash, the tool log and the evidence in
\* memory tell the same hops and the same outcomes.
THEOREM EvidenceLogged == Spec => []EvidenceMatchesLog
<1>1. TablesInv => EvidenceMatchesLog
  BY DEF TablesInv, EvidenceInv
<1> QED BY <1>1, TablesInvariant, PTL

\* A queued case always gives as its reason the first limit that the run had met.
THEOREM EscalationsExplained == Spec => []EscalationExplained
<1>1. LimitsInv /\ TablesInv => EscalationExplained
  BY CasesExplained DEF TablesInv
<1> QED BY <1>1, LimitsInvariant, TablesInvariant, PTL

\* A run leaves a report or a queued case, never both, and loses neither unless
\* an operation of the database failed.
THEOREM OutcomesRecorded == Spec => []OutcomeRecorded
<1>1. LimitsInv /\ TablesInv => OutcomeRecorded
  BY RunsRecorded DEF TablesInv
<1> QED BY <1>1, LimitsInvariant, TablesInvariant, PTL

\* A filed report has logged evidence behind a conclusive verdict, and nothing a
\* later run did is in it.
THEOREM ReportsBacked == Spec => []ReportBacked
<1>1. TablesInv => ReportBacked
  BY DEF TablesInv
<1> QED BY <1>1, TablesInvariant, PTL

\* The row that closes a run is its last, and tells the status it ended with.
THEOREM RunsStayClosed == Spec => []AuditClosed
<1>1. TablesInv => AuditClosed
  BY RunsClosed DEF TablesInv
<1> QED BY <1>1, TablesInvariant, PTL

-----------------------------------------------------------------------------
(* AMLGraph implements AMLOutcome, but for its fairness. *)

\* Cases are queued one at a time.
QueueInv == IsFiniteSet(escalations)

LEMMA QueueOne ==
    ASSUME NEW queue, IsFiniteSet(queue), NEW row
    PROVE  /\ IsFiniteSet(queue \cup {row})
           /\ Cardinality(queue \cup {row}) \in {Cardinality(queue), Cardinality(queue) + 1}
<1>1. queue \cup {row} = queue \/ row \notin queue
  OBVIOUS
<1> QED BY <1>1, FS_AddElement

LEMMA NodeEscalatedQueue ==
    ASSUME NodeEscalated, QueueInv
    PROVE  /\ QueueInv'
           /\ Cardinality(escalations') \in {Cardinality(escalations), Cardinality(escalations) + 1}
<1>1. escalations' \in {escalations, escalations \cup {EscalationRow}}
  BY DEF NodeEscalated, QueueCase
<1>2. CASE escalations' = escalations
  BY <1>2 DEF QueueInv
<1>3. CASE escalations' = escalations \cup {EscalationRow}
  BY <1>3, QueueOne DEF QueueInv
<1> QED BY <1>1, <1>2, <1>3

\* Every other node leaves the queue alone.
LEMMA OtherQueue ==
    ASSUME [Next]_vars, ~NodeEscalated
    PROVE  UNCHANGED escalations
BY DEF Next, GraphStep, NodeInvestigating, NodeToolCalling, NodeToolCallingRaises,
       DispatchRaises, NodeEvaluatingRefuses, NodeEvaluatingCalls, NodeResolved, Crash, Invoke,
       vars, database

LEMMA InitQueue == Init => QueueInv
BY FS_EmptySet DEF Init, QueueInv

LEMMA NextQueue == QueueInv /\ [Next]_vars => QueueInv'
<1>1. CASE UNCHANGED escalations
  BY <1>1 DEF QueueInv
<1> QED BY <1>1, NodeEscalatedQueue, OtherQueue

LEMMA OutcomeInitially == Init => Outcome!Init
BY FS_EmptySet DEF Init, Outcome!Init, phase, Nodes

\* Within a run: what the caller sees is a run at work.
LEMMA WorkingPhase == node \in Nodes => phase = "working"
BY DEF phase, Nodes

LEMMA OutcomeToolCalling ==
    ASSUME LimitsInv, NodeToolCalling
    PROVE  Outcome!Gather
<1>1. node = "node_tool_calling" /\ node' = "node_evaluating" /\ hop' = hop + 1
      /\ UNCHANGED <<reports, escalations>>
  BY DEF NodeToolCalling
<1>2. hop < MaxToolHops
  BY <1>1 DEF LimitsInv, NodeInv, AtToolCalling
<1>3. phase = "working" /\ phase' = "working"
  BY <1>1 DEF phase, Nodes
<1> QED BY <1>1, <1>2, <1>3 DEF Outcome!Gather

LEMMA OutcomeResolved ==
    ASSUME LimitsInv, EvidenceInv, NodeResolved
    PROVE  Outcome!Resolve
<1>1. node = "node_resolved" /\ node' = "END" /\ status' = "RESOLVED"
      /\ UNCHANGED <<hop, escalations>>
  BY DEF NodeResolved
<1>2. hop \in 1 .. MaxToolHops - 1
  BY <1>1, LimitsAssumption
     DEF LimitsInv, NodeInv, WithinLimits, TypeOK, EvidenceInv, EvidenceMatchesLog
<1>3. phase = "working" /\ phase' = "RESOLVED"
  BY <1>1 DEF phase, Nodes
<1>4. reports # {} => reports' # {}
  BY DEF NodeResolved, InsertReport
<1> QED BY <1>1, <1>2, <1>3, <1>4 DEF Outcome!Resolve

LEMMA OutcomeEscalated ==
    ASSUME LimitsInv, EvidenceInv, OutcomeInv, QueueInv, NodeEscalated
    PROVE  Outcome!Escalate
<1>1. node = "node_escalated" /\ node' = "END" /\ status' = "ESCALATED"
      /\ UNCHANGED <<hop, reports>>
  BY DEF NodeEscalated
<1>2. hop \in 1 .. MaxToolHops
  BY <1>1 DEF OutcomeInv, EscalationDue, LimitsInv, TypeOK, EvidenceInv, EvidenceMatchesLog
<1>3. phase = "working" /\ phase' = "ESCALATED"
  BY <1>1 DEF phase, Nodes
<1> QED BY <1>1, <1>2, <1>3, NodeEscalatedQueue DEF Outcome!Escalate

LEMMA OutcomeStopped ==
    ASSUME NodeToolCallingRaises \/ DispatchRaises \/ Crash
    PROVE  Outcome!Fail
<1>1. node \in Nodes /\ node' \in {"error", "crashed"}
      /\ UNCHANGED <<hop, reports, escalations>>
  BY DEF NodeToolCallingRaises, DispatchRaises, Crash, Nodes, agentState, database
<1>2. phase = "working" /\ phase' = "failed"
  BY <1>1 DEF phase, Nodes
<1> QED BY <1>1, <1>2 DEF Outcome!Fail

LEMMA OutcomeInvoked ==
    ASSUME OutcomeInv, Invoke
    PROVE  Outcome!Restart
<1>1. node \in Stopped /\ node' = "node_investigating" /\ hop' = 0
      /\ UNCHANGED <<reports, escalations>>
  BY DEF Invoke, database
<1>2. phase # "working" /\ phase' = "working"
  BY <1>1 DEF phase, Nodes, Stopped, OutcomeInv, EndedResolved, EndedEscalated
<1> QED BY <1>1, <1>2 DEF Outcome!Restart

\* The nodes whose work the caller does not see.
LEMMA OutcomeHidden ==
    ASSUME LimitsInv, NodeInvestigating \/ NodeEvaluatingRefuses \/ NodeEvaluatingCalls
    PROVE  UNCHANGED Outcome!vars
<1>1. node \in Nodes /\ node' \in Nodes
  <2>1. CASE NodeInvestigating
    BY <2>1 DEF NodeInvestigating, Nodes
  <2>2. CASE NodeEvaluatingRefuses \/ NodeEvaluatingCalls
    BY <2>2 DEF NodeEvaluatingRefuses, NodeEvaluatingCalls, RouteAfterEvaluating,
                EvaluateRouting, Nodes
  <2> QED BY <2>1, <2>2
<1>2. UNCHANGED <<hop, reports, escalations>>
  BY DEF NodeInvestigating, NodeEvaluatingRefuses, NodeEvaluatingCalls, database,
         LimitsInv, NodeInv
<1>3. phase = "working" /\ phase' = "working"
  BY <1>1 DEF phase, Nodes
<1> QED BY <1>2, <1>3 DEF Outcome!vars

LEMMA OutcomeStep ==
    LimitsInv /\ TablesInv /\ QueueInv /\ [Next]_vars => [Outcome!Next]_Outcome!vars
<1> SUFFICES ASSUME LimitsInv, TablesInv, QueueInv, [Next]_vars
             PROVE  Outcome!Next \/ UNCHANGED Outcome!vars
  OBVIOUS
<1>1. CASE UNCHANGED vars
  BY <1>1 DEF vars, agentState, database, Outcome!vars, phase
<1>2. CASE NodeInvestigating \/ NodeEvaluatingRefuses \/ NodeEvaluatingCalls
  BY <1>2, OutcomeHidden
<1>3. CASE NodeToolCalling
  BY <1>3, OutcomeToolCalling DEF Outcome!Next, Outcome!Work
<1>4. CASE NodeResolved
  BY <1>4, OutcomeResolved DEF TablesInv, Outcome!Next, Outcome!Work
<1>5. CASE NodeEscalated
  BY <1>5, OutcomeEscalated DEF TablesInv, Outcome!Next, Outcome!Work
<1>6. CASE NodeToolCallingRaises \/ DispatchRaises \/ Crash
  BY <1>6, OutcomeStopped DEF Outcome!Next, Outcome!Work
<1>7. CASE Invoke
  BY <1>7, OutcomeInvoked DEF TablesInv, Outcome!Next
<1> QED BY <1>1, <1>2, <1>3, <1>4, <1>5, <1>6, <1>7 DEF Next, GraphStep

\* Every behaviour of the graph is one the abstract investigation allows, whatever
\* the constants are: bounded hops, evidence before an outcome, one report at most,
\* a case only from a run that escalates.  (That a run stops is left to TLC.)
THEOREM GraphKeepsPromise == Spec => Outcome!Init /\ [][Outcome!Next]_Outcome!vars
<1>1. Init => Outcome!Init
  BY OutcomeInitially
<1>2. Spec => []QueueInv
  BY InitQueue, NextQueue, PTL DEF Spec
<1>3. LimitsInv /\ TablesInv /\ QueueInv /\ [Next]_vars => [Outcome!Next]_Outcome!vars
  BY OutcomeStep
<1> QED BY <1>1, <1>2, <1>3, LimitsInvariant, TablesInvariant, PTL DEF Spec

-----------------------------------------------------------------------------
(* How long a run can be. *)

\* The most nodes a run can still go through: an evaluation for each tool call,
\* and one node to close.
StepsLeft ==
    CASE node = "node_investigating" -> 2 * MaxToolHops + 2
      [] node = "node_tool_calling" -> 2 * (MaxToolHops - hop) + 1
      [] node = "node_evaluating" -> 2 * (MaxToolHops - hop) + 2
      [] node \in {"node_resolved", "node_escalated"} -> 1
      [] OTHER -> 0

StepsBounded == StepsLeft \in 0 .. 2 * MaxToolHops + 2

\* Every step of a run uses one up.
StepsRunOut == [][run' = run => StepsLeft' < StepsLeft]_vars

LEMMA StepsAtNodes ==
    ASSUME LimitsInv
    PROVE  /\ StepsBounded
           /\ StepsLeft \in Nat
           /\ node \in Nodes => StepsLeft > 0
           /\ node \in Stopped => StepsLeft = 0
<1>1. MaxToolHops \in Nat /\ hop \in 0 .. MaxToolHops /\ node \in Nodes \cup Stopped
  BY LimitsAssumption DEF LimitsInv, TypeOK
<1> QED BY <1>1 DEF StepsLeft, StepsBounded, Nodes, Stopped

LEMMA StepUsedUp ==
    ASSUME LimitsInv, LimitsInv', Next, run' = run
    PROVE  StepsLeft' < StepsLeft
<1>1. /\ MaxToolHops \in Nat
      /\ hop \in 0 .. MaxToolHops /\ hop' \in 0 .. MaxToolHops
      /\ run \in Nat
  BY LimitsAssumption DEF LimitsInv, TypeOK
<1>2. CASE NodeInvestigating
  <2>1. node = "node_investigating" /\ node' = "node_tool_calling" /\ hop' = 0
    BY <1>2 DEF NodeInvestigating
  <2> QED BY <1>1, <2>1 DEF StepsLeft
<1>3. CASE NodeToolCalling
  <2>1. node = "node_tool_calling" /\ node' = "node_evaluating" /\ hop' = hop + 1
    BY <1>3 DEF NodeToolCalling
  <2> QED BY <1>1, <2>1 DEF StepsLeft
<1>4. CASE NodeEvaluatingRefuses \/ NodeEvaluatingCalls
  <2>1. node = "node_evaluating" /\ hop' = hop
        /\ node' \in {"node_tool_calling", "node_resolved", "node_escalated"}
    BY <1>4 DEF NodeEvaluatingRefuses, NodeEvaluatingCalls, RouteAfterEvaluating, EvaluateRouting
  <2> QED BY <1>1, <2>1 DEF StepsLeft
<1>5. CASE NodeToolCallingRaises \/ DispatchRaises \/ NodeResolved \/ NodeEscalated \/ Crash
  <2>1. node \in Nodes /\ node' \in Stopped
    BY <1>5 DEF NodeToolCallingRaises, DispatchRaises, NodeResolved, NodeEscalated, Crash,
                Nodes, Stopped
  <2>2. StepsLeft > 0
    BY <2>1, StepsAtNodes
  <2>3. StepsLeft' = 0
    BY <2>1 DEF StepsLeft, Stopped
  <2> QED BY <2>2, <2>3
<1>6. CASE Invoke
  BY <1>1, <1>6 DEF Invoke
<1> QED BY <1>2, <1>3, <1>4, <1>5, <1>6 DEF Next, GraphStep

\* A run goes through at most 2 * MaxToolHops + 2 nodes, whatever the LLM and the
\* tools answer: no routing leads round the loop without using up a hop.  (That
\* a node that can run does run is the fairness of Termination.)
THEOREM RunsAreShort == Spec => []StepsBounded /\ StepsRunOut
<1>1. LimitsInv => StepsBounded
  BY StepsAtNodes
<1>2. LimitsInv /\ LimitsInv' /\ [Next]_vars => [run' = run => StepsLeft' < StepsLeft]_vars
  BY StepUsedUp
<1> QED BY <1>1, <1>2, LimitsInvariant, PTL DEF Spec, StepsRunOut

=============================================================================
