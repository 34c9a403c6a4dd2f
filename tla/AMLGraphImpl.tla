---------------------------- MODULE AMLGraphImpl ----------------------------
(***************************************************************************)
(* AMLGraph implements AMLOutcome: the caller's view of a run is the node  *)
(* it is at -- in flight, or its final status -- and the tables are seen as *)
(* "is a report filed" and "how many cases are queued".                    *)
(***************************************************************************)
EXTENDS AMLGraph

phase == CASE node \in Nodes  -> "working"
           [] node = "END"    -> status
           [] OTHER           -> "failed"

Outcome == INSTANCE AMLOutcome
    WITH hops <- hop, filed <- reports # {}, queue <- Cardinality(escalations)

\* Every behaviour of the graph is one the abstract investigation allows: the
\* outcome of agent/graph.py keeps the promise of its state diagram.
ImplementsOutcome == Outcome!Spec

=============================================================================
