----------------------------- MODULE AuditView -----------------------------
(***************************************************************************)
(* Who reads the tables while an investigation of AMLGraph writes them: a  *)
(* client that polls GET /status and fetches GET /report, the analyst UI's *)
(* list of investigations, the benchmark's and the acceptance script's     *)
(* queries.                                                                *)
(*                                                                         *)
(* A node of the graph writes its rows one after another, each in a        *)
(* transaction of its own.  AMLGraph takes a node in one step, so here its *)
(* rows appear to the readers one by one afterwards, in the order in which *)
(* the node writes them, and the next node waits for the last.  In every   *)
(* node that order is: the tool log, the report, audit rows, the queue.    *)
(***************************************************************************)
EXTENDS AMLGraph

VARIABLES
    shown,     \* the tables as a reader sees them
    poll,      \* where the client's GET /status is
    told,      \* the last answer of GET /status
    fetched    \* the last answer of GET /report

viewVars == <<shown, poll, told, fetched>>

Tables == [toolLog |-> toolLog, auditLog |-> auditLog, reports |-> reports,
           escalations |-> escalations]

CaughtUp == shown = Tables

-----------------------------------------------------------------------------
(* What the queries return of the rows they see. *)

Latest(log) == log[Len(log)]

HasRows == shown.auditLog # <<>>

\* GET /status: state_to of the newest row, or 'unknown'.  Mutant: whatever is
\* closed counts as resolved.
StatusOf_ClosedIsResolved(log) ==
    IF Latest(log).state_to = None THEN "unknown"
    ELSE IF Latest(log).event = "escalated" THEN "RESOLVED"
    ELSE Latest(log).state_to
StatusOf(log) == IF Latest(log).state_to = None THEN "unknown" ELSE Latest(log).state_to

HopsOf(log) == Cardinality({i \in DOMAIN log : log[i].event = "tool_call"})

\* SUM(cost_usd_delta), counted unit by unit.
CostUnits(log) == UNION {{i} \X (1 .. log[i].cost_usd_delta) : i \in DOMAIN log}
CostOf(log) == Cardinality(CostUnits(log))

\* ORDER BY created_at DESC LIMIT 1 among some of the rows.
NewestOf(log, rows) ==
    IF rows = {} THEN "unknown"
    ELSE log[CHOOSE i \in rows : \A j \in rows : j <= i].state_to

\* get_open_investigations: the newest state_to that is not NULL, for an
\* investigation with a 'triggered' row.  Mutant: the newest state_change.
ListedStatus_ChangesOnly(log) ==
    NewestOf(log, {i \in DOMAIN log : log[i].event = "state_change"})
ListedStatus(log) == NewestOf(log, {i \in DOMAIN log : log[i].state_to # None})

\* Listed if it has a 'triggered' row; the LIMIT of the query, which would drop it
\* behind that many newer investigations, is not modelled: here there is one.
Listed(log) == \E i \in DOMAIN log : log[i].event = "triggered"

\* _fetch_db_metrics: no report means escalated.  Mutant: an audit row that says
\* ESCALATED does.
BenchmarkEscalated_ByAudit ==
    \E i \in DOMAIN shown.auditLog : shown.auditLog[i].state_to = "ESCALATED"
BenchmarkEscalated == shown.reports = {}

BenchmarkMetrics ==
    [escalated |-> BenchmarkEscalated,
     hops |-> IF shown.reports # {} THEN (CHOOSE r \in shown.reports : TRUE).hops
              ELSE HopsOf(shown.auditLog),
     cost |-> IF shown.reports # {} THEN (CHOOSE r \in shown.reports : TRUE).cost
              ELSE CostOf(shown.auditLog)]

\* The acceptance script: the report's chain against the tool log of its
\* investigation_id, row by row, whichever run wrote them.
ChainMatchesLog(report) == report.chain = {ChainEntry(r) : r \in shown.toolLog}

-----------------------------------------------------------------------------
NotAsked == [code |-> 0, status |-> None, hops |-> 0, cost |-> 0]

ViewInit ==
    /\ Init
    /\ shown = Tables
    /\ poll = "idle"
    /\ told = NotAsked
    /\ fetched = 0

\* The node before has written all its rows when the next one starts.
InvestigationStep == CaughtUp /\ (GraphStep \/ Crash \/ Invoke) /\ UNCHANGED viewVars

\* The next row in the order in which every node writes.  Mutant: the closing
\* audit row before the report.
NextRow_AuditFirst ==
    IF shown.toolLog # toolLog THEN [shown EXCEPT !.toolLog = toolLog]
    ELSE IF shown.auditLog # auditLog
         THEN [shown EXCEPT !.auditLog = SubSeq(auditLog, 1, Len(@) + 1)]
    ELSE IF shown.reports # reports THEN [shown EXCEPT !.reports = reports]
    ELSE Tables
NextRow ==
    IF shown.toolLog # toolLog THEN [shown EXCEPT !.toolLog = toolLog]
    ELSE IF shown.reports # reports THEN [shown EXCEPT !.reports = reports]
    ELSE IF shown.auditLog # auditLog
         THEN [shown EXCEPT !.auditLog = SubSeq(auditLog, 1, Len(@) + 1)]
    ELSE Tables

RowAppears ==
    /\ ~CaughtUp
    /\ shown' = NextRow
    /\ UNCHANGED <<vars, poll, told, fetched>>

\* GET /status, first statement: is there any row?
StatusExists ==
    /\ poll = "idle"
    /\ \/ HasRows /\ poll' = "row" /\ UNCHANGED told
       \/ ~HasRows /\ told' = [NotAsked EXCEPT !.code = 404] /\ UNCHANGED poll
    /\ UNCHANGED <<vars, shown, fetched>>

\* Second statement, which may see rows that the first did not.
StatusRow ==
    /\ poll = "row"
    /\ poll' = "idle"
    /\ told' = [code |-> 200, status |-> StatusOf(shown.auditLog),
                hops |-> HopsOf(shown.auditLog), cost |-> CostOf(shown.auditLog)]
    /\ UNCHANGED <<vars, shown, fetched>>

\* The database cannot be reached, at either statement.
StatusFails ==
    /\ poll' = "idle"
    /\ told' = [NotAsked EXCEPT !.code = 500]
    /\ UNCHANGED <<vars, shown, fetched>>

\* GET /report, by a client that has been told RESOLVED; 500 when the database
\* cannot be reached.
GetReport ==
    /\ told.status = "RESOLVED"
    /\ fetched' \in {IF shown.reports = {} THEN 404 ELSE 200, 500}
    /\ UNCHANGED <<vars, shown, poll, told>>

ViewNext ==
    \/ InvestigationStep \/ RowAppears
    \/ StatusExists \/ StatusRow \/ StatusFails \/ GetReport

viewStateVars == <<vars, viewVars>>

ViewSpec == ViewInit /\ [][ViewNext]_viewStateVars

\* The fairness of AMLGraph, and each write is followed by the next.
FairViewSpec ==
    /\ ViewSpec
    /\ WF_viewStateVars(CaughtUp /\ GraphStep /\ UNCHANGED viewVars)
    /\ WF_viewStateVars(RowAppears)

-----------------------------------------------------------------------------
ShownStatuses == Statuses \cup {"unknown"}

ViewTypeOK ==
    /\ TypeOK
    /\ shown.toolLog \subseteq toolLog
    /\ shown.reports \subseteq reports
    /\ shown.escalations \subseteq escalations
    /\ Len(shown.auditLog) <= Len(auditLog)
    /\ shown.auditLog = SubSeq(auditLog, 1, Len(shown.auditLog))
    /\ poll \in {"idle", "row"}
    /\ told \in [code : {0, 200, 404, 500}, status : ShownStatuses \cup {None},
                 hops : Nat, cost : Nat]
    /\ fetched \in {0, 200, 404, 500}

\* A client that has been told RESOLVED finds the report: 404 comes only when
\* its write was lost, never from looking between the two writes.
ResolvedReportReadable == fetched = 404 /\ run = 1 => reports = {}

\* A client is told RESOLVED only of an investigation that has resolved, and
\* will not be told otherwise before it is invoked again.
ToldResolved ==
    told.status = "RESOLVED" /\ run = 1 => node = "END" /\ status = "RESOLVED"

\* No answer about a first run overstates: the hops told are tool calls that
\* were made, the cost told has been spent.
HopsTold == run = 1 => told.hops <= hop
CostTold == run = 1 => told.cost <= cost
NothingOverstated == HopsTold /\ CostTold

\* The types, and no answer is better than the investigation.
AnswersTrue == ViewTypeOK /\ ToldResolved /\ NothingOverstated

\* "unknown" is a passing answer: once a node's rows are all written, the newest
\* carries a status, unless one was lost.
StatusKnown == CaughtUp /\ lost = 0 /\ HasRows => StatusOf(shown.auditLog) # "unknown"

\* The acceptance script finds a report's chain equal to the tool log, entry by
\* entry, unless the report's read of the log failed or a later run of the same
\* investigation has logged calls of its own.
ChainOneToOne ==
    \A r \in shown.reports :
        \/ ChainMatchesLog(r)
        \/ r.chain = {} /\ lost > 0
        \/ \E x \in shown.toolLog : x.run > r.run

\* The benchmark takes no resolved investigation for an escalated one or the
\* other way round, and its hops and cost of a resolved one are exact -- if
\* nothing was lost.  (One that ended in an error it counts as escalated.)
BenchmarkHonest ==
    node \in Stopped /\ CaughtUp /\ lost = 0 /\ run = 1 =>
        /\ BenchmarkMetrics.escalated <=> status # "RESOLVED"
        /\ ~BenchmarkMetrics.escalated =>
               BenchmarkMetrics.hops = hop /\ BenchmarkMetrics.cost = cost

\* An investigation that has ended is in the end listed with the status it ended
\* with, if nothing was lost: the list never keeps a closed case as active.
ListedClosed ==
    (node = "END" /\ lost = 0) ~>
        \/ Listed(shown.auditLog) /\ ListedStatus(shown.auditLog) = status
        \/ node # "END"

=============================================================================
