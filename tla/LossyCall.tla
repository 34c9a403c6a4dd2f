----------------------------- MODULE LossyCall -----------------------------
(***************************************************************************)
(* What a caller may rely on of a database helper of this code (an audit,  *)
(* report, escalation or tool-log writer, the evidence reader, a Postgres  *)
(* tool): a call returns, has its effect at most once, and says "ok" only  *)
(* if the effect took place.  "failed" says nothing: the row may be there. *)
(* AMLGraph takes its writers to be of this kind.                          *)
(***************************************************************************)
EXTENDS Naturals

CONSTANTS Threads

VARIABLES
    calling,   \* the threads inside a call
    effect,    \* effects of each thread's current or last call
    answer     \* how its last call ended

vars == <<calling, effect, answer>>

Answers == {"none", "ok", "failed", "raised"}

Init ==
    /\ calling = {}
    /\ effect = [t \in Threads |-> 0]
    /\ answer = [t \in Threads |-> "none"]

Begin(t) ==
    /\ t \notin calling
    /\ calling' = calling \cup {t}
    /\ effect' = [effect EXCEPT ![t] = 0]
    /\ answer' = [answer EXCEPT ![t] = "none"]

TakeEffect(t) ==
    /\ t \in calling
    /\ effect[t] = 0
    /\ effect' = [effect EXCEPT ![t] = 1]
    /\ UNCHANGED <<calling, answer>>

Return(t) ==
    /\ t \in calling
    /\ calling' = calling \ {t}
    /\ \E a \in Answers \ {"none"} :
         /\ a = "ok" => effect[t] = 1
         /\ answer' = [answer EXCEPT ![t] = a]
    /\ UNCHANGED effect

Next == \E t \in Threads : Begin(t) \/ TakeEffect(t) \/ Return(t)

Spec == Init /\ [][Next]_vars /\ \A t \in Threads : WF_vars(Return(t))
=============================================================================
