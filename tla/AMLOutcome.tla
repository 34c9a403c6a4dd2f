----------------------------- MODULE AMLOutcome -----------------------------
(***************************************************************************)
(* What an investigation promises to those who start it, whatever the LLM, *)
(* the tools and the database do: a run gathers evidence in a bounded      *)
(* number of hops, then closes as resolved or escalated, never without     *)
(* evidence, and the hop that uses up the bound can only escalate.  Over   *)
(* all runs at most one report is filed, by a run that resolves, and a     *)
(* case is queued only by a run that escalates.  Every run stops.          *)
(***************************************************************************)
EXTENDS Integers

CONSTANT MaxToolHops

VARIABLES
    phase,   \* what the run is doing or how it stopped
    hops,    \* tool calls of the run
    filed,   \* whether a report is on file
    queue    \* cases queued for analysts

vars == <<phase, hops, filed, queue>>

Init == phase = "working" /\ hops = 0 /\ filed = FALSE /\ queue = 0

Gather ==
    /\ phase = "working" /\ hops < MaxToolHops
    /\ hops' = hops + 1
    /\ UNCHANGED <<phase, filed, queue>>

Resolve ==
    /\ phase = "working" /\ hops \in 1 .. MaxToolHops - 1
    /\ phase' = "RESOLVED"
    /\ filed' \in {filed, TRUE}
    /\ UNCHANGED <<hops, queue>>

Escalate ==
    /\ phase = "working" /\ hops \in 1 .. MaxToolHops
    /\ phase' = "ESCALATED"
    /\ queue' \in {queue, queue + 1}
    /\ UNCHANGED <<hops, filed>>

\* An exception or a crash.
Fail ==
    /\ phase = "working"
    /\ phase' = "failed"
    /\ UNCHANGED <<hops, filed, queue>>

Restart ==
    /\ phase # "working"
    /\ phase' = "working" /\ hops' = 0
    /\ UNCHANGED <<filed, queue>>

Work == Gather \/ Resolve \/ Escalate \/ Fail

Next == Work \/ Restart

Spec == Init /\ [][Next]_vars /\ WF_vars(Work)

=============================================================================
