----------------------------- MODULE RoundTrip -----------------------------
(***************************************************************************)
(* round_trip_detector of tools/postgres_tools.py: the recursive query     *)
(* that looks for money coming back to an account, as PostgreSQL evaluates *)
(* it -- each iteration joins the rows of the one before with the          *)
(* transactions of the window.                                             *)
(*                                                                         *)
(* A row is its column path: origin, current_node and depth are its first  *)
(* element, its last and its length less one.  UNION ALL keeps duplicates, *)
(* which LIMIT 1 cannot tell from one row.  The query runs in one snapshot *)
(* with one NOW(), so the transfers of the window do not change.           *)
(***************************************************************************)
EXTENDS Naturals, Sequences, FiniteSets

CONSTANTS
    Accounts,
    Origin,        \* inp.account_id
    MaxDepth,      \* the cap of the recursion
    Graphs         \* what the window may hold: sets of <<from, to>>

ASSUME RoundTripAssumption ==
    /\ Origin \in Accounts
    /\ MaxDepth \in Nat \ {0}
    /\ Graphs \subseteq SUBSET (Accounts \X Accounts)

VARIABLES
    transfers,   \* the transactions of the window; never changes
    working,     \* rows of the last iteration
    rows,        \* all rows of cycle_search so far
    answer       \* the ToolResult

vars == <<transfers, working, rows, answer>>

-----------------------------------------------------------------------------
Depth(path)   == Len(path) - 1
Current(path) == path[Len(path)]

NoAnswer      == [kind |-> "none",  path |-> <<>>]
Failure       == [kind |-> "error", path |-> <<>>]
NoCycle       == [kind |-> "clear", path |-> <<>>]
CycleFound(p) == [kind |-> "cycle", path |-> p]

BaseRows == {<<Origin, n>> : n \in {m \in Accounts : <<Origin, m>> \in transfers}}

\* next <> ALL(path[2:]) AND depth < MaxDepth.  Mutants: the whole path, which
\* forbids coming home; one level too many.
MayFollow_WholePath(path, n) ==
    /\ \A i \in 1 .. Len(path) : n # path[i]
    /\ Depth(path) < MaxDepth
MayFollow_OneTooDeep(path, n) ==
    /\ \A i \in 2 .. Len(path) : n # path[i]
    /\ Depth(path) <= MaxDepth
MayFollow(path, n) ==
    /\ \A i \in 2 .. Len(path) : n # path[i]
    /\ Depth(path) < MaxDepth

\* The recursive term reads the working table alone.  Mutant: everything found
\* so far stays in it.
Joined_Accumulates ==
    working \cup {Append(e[1], e[2]) : e \in {x \in working \X Accounts :
        <<Current(x[1]), x[2]>> \in transfers /\ MayFollow(x[1], x[2])}}
Joined ==
    {Append(e[1], e[2]) : e \in {x \in working \X Accounts :
        <<Current(x[1]), x[2]>> \in transfers /\ MayFollow(x[1], x[2])}}

\* WHERE current_node = origin AND depth >= 2.
Matches(path) == Current(path) = Origin /\ Depth(path) >= 2

-----------------------------------------------------------------------------
Init ==
    /\ transfers \in Graphs
    /\ working = BaseRows
    /\ rows = BaseRows
    /\ answer = NoAnswer

\* One iteration of the recursion.
Iterate ==
    /\ answer = NoAnswer
    /\ working # {}
    /\ working' = Joined
    /\ rows' = rows \cup Joined
    /\ UNCHANGED <<transfers, answer>>

\* LIMIT 1: the first matching row there is, which need not be a shortest.
Report ==
    /\ answer = NoAnswer
    /\ \E p \in rows : Matches(p) /\ answer' = CycleFound(p)
    /\ UNCHANGED <<transfers, working, rows>>

\* The recursion has come to its end and no row matches.
ReportNone ==
    /\ answer = NoAnswer
    /\ working = {}
    /\ \A p \in rows : ~Matches(p)
    /\ answer' = NoCycle
    /\ UNCHANGED <<transfers, working, rows>>

\* No pool, no connection, or a failing statement.
QueryFails ==
    /\ answer = NoAnswer
    /\ answer' = Failure
    /\ UNCHANGED <<transfers, working, rows>>

Next == Iterate \/ Report \/ ReportNone \/ QueryFails

Spec == Init /\ [][Next]_vars

\* The server evaluates the statement to its end.
FairSpec == Spec /\ WF_vars(Iterate \/ Report \/ ReportNone)

-----------------------------------------------------------------------------
(* What the tool is to find, said without the query. *)

\* Money that leaves the origin, passes through accounts that differ from each
\* other, and comes back, in at most MaxDepth transfers.
IsRoundTrip(path) ==
    /\ Len(path) \in 3 .. MaxDepth + 1
    /\ path[1] = Origin
    /\ path[Len(path)] = Origin
    /\ \A i \in 1 .. Len(path) - 1 : <<path[i], path[i + 1]>> \in transfers
    /\ \A i, j \in 2 .. Len(path) : i # j => path[i] # path[j]

PathsUpTo(n) == UNION {[1 .. k -> Accounts] : k \in 0 .. n}

TypeOK ==
    /\ transfers \in SUBSET (Accounts \X Accounts)
    /\ working \subseteq rows
    /\ rows \subseteq PathsUpTo(MaxDepth + 1)
    /\ answer.kind \in {"none", "error", "clear", "cycle"}
    /\ answer.path \in PathsUpTo(MaxDepth + 1)

\* A reported cycle is a round trip: every pair of neighbours is a transfer of
\* the window, no account but the origin is passed twice, and a transfer of an
\* account to itself is none.
ReportSound == answer.kind = "cycle" => IsRoundTrip(answer.path)

\* The types, with no row deeper than the cap, and no invented cycle.
SearchInv == TypeOK /\ ReportSound

\* "No cycle" is said only when there is none of at most MaxDepth transfers:
\* neither the exclusion of visited accounts nor the rows that run on beyond the
\* origin, or into a cycle without it, hide one.
ReportComplete ==
    answer.kind = "clear" => \A path \in PathsUpTo(MaxDepth + 1) : ~IsRoundTrip(path)

\* The recursion ends in every window, also in one full of cycles.
Answered == <>(answer # NoAnswer)

=============================================================================
