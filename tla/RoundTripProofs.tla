-------------------------- MODULE RoundTripProofs --------------------------
(***************************************************************************)
(* Theorems about RoundTrip, for every window, set of accounts and cap of  *)
(* the recursion: what the query reports is a round trip, and it reports   *)
(* one whenever there is one.                                              *)
(***************************************************************************)
EXTENDS RoundTrip, TLAPS

-----------------------------------------------------------------------------
(* The strengthening. *)

\* What any row is: a walk of transfers from the origin, within the cap, that
\* enters no account twice.
RowOK(p) ==
    /\ p \in Seq(Accounts)
    /\ Len(p) \in 2 .. MaxDepth + 1
    /\ p[1] = Origin
    /\ \A i \in 1 .. Len(p) - 1 : <<p[i], p[i + 1]>> \in transfers
    /\ \A i, j \in 2 .. Len(p) : i # j => p[i] # p[j]

WindowInv  == transfers \in SUBSET (Accounts \X Accounts)
RowsInv    == working \subseteq rows /\ \A p \in rows : RowOK(p)
AnswerInv  == \/ answer \in {NoAnswer, Failure, NoCycle}
              \/ \E p \in rows : Matches(p) /\ answer = CycleFound(p)

\* Every walk is a row already, or will be: a beginning of it is in the working
\* table, where the next iteration continues it.
Pending(p) == \E k \in 2 .. Len(p) : SubSeq(p, 1, k) \in working
ReachInv   == \A p \in Seq(Accounts) : RowOK(p) => p \in rows \/ Pending(p)

QueryInv == WindowInv /\ RowsInv /\ AnswerInv /\ ReachInv /\ ReportComplete

-----------------------------------------------------------------------------
(* Sequences. *)

\* A sequence that is short enough is one of the paths that TypeOK and
\* ReportComplete range over.
LEMMA ShortPaths ==
    ASSUME NEW n \in Nat, NEW p \in Seq(Accounts), Len(p) <= n
    PROVE  p \in PathsUpTo(n)
<1>1. Len(p) \in 0 .. n
    OBVIOUS
<1>2. p \in [1 .. Len(p) -> Accounts]
    OBVIOUS
<1> QED BY <1>1, <1>2, Zenon DEF PathsUpTo

\* And the other way round.
LEMMA PathsAreSequences ==
    ASSUME NEW n \in Nat, NEW p \in PathsUpTo(n)
    PROVE  p \in Seq(Accounts)
<1>1. PICK k \in 0 .. n : p \in [1 .. k -> Accounts]
    BY DEF PathsUpTo
<1>2. k \in Nat
    OBVIOUS
<1> QED BY <1>1, <1>2

\* The beginning of a path, one account longer.
LEMMA LongerBeginning ==
    ASSUME NEW p \in Seq(Accounts), NEW k \in 1 .. Len(p) - 1
    PROVE  Append(SubSeq(p, 1, k), p[k + 1]) = SubSeq(p, 1, k + 1)
OBVIOUS

\* The whole of a path is its longest beginning.
LEMMA WholePath ==
    ASSUME NEW p \in Seq(Accounts)
    PROVE  SubSeq(p, 1, Len(p)) = p
OBVIOUS

-----------------------------------------------------------------------------
(* The rows. *)

\* The rows of the base term are walks of one transfer.
LEMMA BaseRowsOK ==
    ASSUME WindowInv, NEW p \in BaseRows
    PROVE  RowOK(p)
<1>1. PICK n \in Accounts : <<Origin, n>> \in transfers /\ p = <<Origin, n>>
    BY DEF BaseRows
<1>2. p \in Seq(Accounts) /\ Len(p) = 2 /\ p[1] = Origin /\ p[2] = n
    BY <1>1, RoundTripAssumption
<1>3. 2 \in 2 .. MaxDepth + 1
    BY RoundTripAssumption
<1>4. \A i \in 1 .. Len(p) - 1 : <<p[i], p[i + 1]>> \in transfers
    BY <1>1, <1>2
<1>5. \A i, j \in 2 .. Len(p) : i # j => p[i] # p[j]
    BY <1>2
<1> QED BY <1>2, <1>3, <1>4, <1>5 DEF RowOK

\* A walk that MayFollow lets continue is a walk again.
LEMMA ContinuedOK ==
    ASSUME WindowInv,
           NEW q, RowOK(q),
           NEW n \in Accounts, <<Current(q), n>> \in transfers, MayFollow(q, n)
    PROVE  RowOK(Append(q, n))
<1> DEFINE p == Append(q, n)
<1>1. q \in Seq(Accounts) /\ Len(q) \in 2 .. MaxDepth + 1 /\ MaxDepth \in Nat
    BY RoundTripAssumption DEF RowOK
<1>2. p \in Seq(Accounts) /\ Len(p) = Len(q) + 1 /\ p[Len(p)] = n
    BY <1>1
<1>3. \A i \in 1 .. Len(q) : p[i] = q[i]
    BY <1>1
<1>4. Len(p) \in 2 .. MaxDepth + 1
    BY <1>1, <1>2 DEF MayFollow, Depth
<1>5. p[1] = Origin
    BY <1>1, <1>3 DEF RowOK
<1>6. \A i \in 1 .. Len(p) - 1 : <<p[i], p[i + 1]>> \in transfers
    <2> SUFFICES ASSUME NEW i \in 1 .. Len(p) - 1
                 PROVE  <<p[i], p[i + 1]>> \in transfers
        OBVIOUS
    <2>1. CASE i = Len(q)
        BY <1>1, <1>2, <1>3, <2>1 DEF Current
    <2>2. CASE i # Len(q)
        <3>1. i \in 1 .. Len(q) - 1 /\ i \in 1 .. Len(q) /\ i + 1 \in 1 .. Len(q)
            BY <1>1, <1>2, <2>2
        <3> QED BY <1>3, <3>1 DEF RowOK
    <2> QED BY <2>1, <2>2
<1>7. \A i, j \in 2 .. Len(p) : i # j => p[i] # p[j]
    <2>1. \A i \in 2 .. Len(q) : n # q[i]
        BY DEF MayFollow
    <2>2. \A i, j \in 2 .. Len(q) : i # j => q[i] # q[j]
        BY DEF RowOK
    <2> QED BY <1>1, <1>2, <1>3, <2>1, <2>2
<1> HIDE DEF p
<1>8. RowOK(p)
    BY <1>2, <1>4, <1>5, <1>6, <1>7 DEF RowOK
<1> QED BY <1>8 DEF p

\* RowOK depends on the window alone.
LEMMA RowOKStable ==
    ASSUME UNCHANGED transfers, NEW p
    PROVE  RowOK(p)' <=> RowOK(p)
BY DEF RowOK

-----------------------------------------------------------------------------
(* The invariant holds. *)

\* The base rows are walks of one transfer, and every walk begins with one.
LEMMA InitQuery == Init => QueryInv
<1> SUFFICES ASSUME Init PROVE QueryInv
    OBVIOUS
<1>1. WindowInv
    BY RoundTripAssumption DEF Init, WindowInv
<1>2. RowsInv
    BY <1>1, BaseRowsOK DEF Init, RowsInv
<1>3. AnswerInv
    BY DEF Init, AnswerInv
<1>4. ReachInv
    <2> SUFFICES ASSUME NEW p \in Seq(Accounts), RowOK(p)
                 PROVE  Pending(p)
        BY DEF ReachInv
    <2>1. 2 \in 2 .. Len(p) /\ 1 \in 1 .. Len(p) - 1 /\ p[1] = Origin /\ p[2] \in Accounts
        BY RoundTripAssumption DEF RowOK
    <2>2. <<Origin, p[2]>> \in transfers
        <3>1. <<p[1], p[1 + 1]>> \in transfers
            BY <2>1 DEF RowOK
        <3> QED BY <2>1, <3>1
    <2>3. SubSeq(p, 1, 2) = <<Origin, p[2]>>
        <3> DEFINE s == SubSeq(p, 1, 2)
                   t == <<Origin, p[2]>>
        <3>1. s \in [1 .. 2 -> Accounts] /\ s[1] = Origin /\ s[2] = p[2]
            <4>1. s = [i \in 1 .. 2 |-> p[i]]
                <5>1. Len(p) >= 2 /\ Len(s) = 2
                    BY <2>1
                <5>2. s \in Seq(Accounts)
                    BY <5>1
                <5>3. \A i \in 1 .. 2 : s[i] = p[i]
                    BY <5>1
                <5> HIDE DEF s
                <5> QED BY <5>1, <5>2, <5>3
            <4> HIDE DEF s
            <4> QED BY <2>1, <4>1
        <3>2. t \in [1 .. 2 -> Accounts] /\ t[1] = Origin /\ t[2] = p[2]
            BY <2>1, RoundTripAssumption
        <3> HIDE DEF s, t
        <3>3. s = t
            BY <3>1, <3>2
        <3> QED BY <3>3 DEF s, t
    <2>4. <<Origin, p[2]>> \in BaseRows
        BY <2>1, <2>2 DEF BaseRows
    <2> QED BY <2>1, <2>3, <2>4 DEF Pending, Init
<1>5. ReportComplete
    BY DEF Init, ReportComplete, NoAnswer
<1> QED BY <1>1, <1>2, <1>3, <1>4, <1>5 DEF QueryInv

\* One iteration: its rows are walks, and what was pending is so still, one
\* transfer further on, or has become a row.
LEMMA IterateKeeps == QueryInv /\ Iterate => QueryInv'
<1> SUFFICES ASSUME QueryInv, Iterate PROVE QueryInv'
    OBVIOUS
<1>1. /\ WindowInv /\ RowsInv /\ ReachInv
      /\ working' = Joined /\ rows' = rows \cup Joined
      /\ transfers' = transfers /\ answer' = answer /\ answer = NoAnswer
    BY DEF QueryInv, Iterate
<1>2. WindowInv'
    BY <1>1 DEF WindowInv
<1>3. RowsInv'
    <2>1. ASSUME NEW p \in Joined PROVE RowOK(p)
        <3>1. PICK e \in working \X Accounts :
                  /\ <<Current(e[1]), e[2]>> \in transfers /\ MayFollow(e[1], e[2])
                  /\ p = Append(e[1], e[2])
            BY DEF Joined
        <3>2. e[1] \in rows /\ e[2] \in Accounts
            BY <1>1, <3>1 DEF RowsInv
        <3>3. RowOK(e[1])
            BY <1>1, <3>2 DEF RowsInv
        <3> QED BY <1>1, <3>1, <3>2, <3>3, ContinuedOK
    <2>2. \A p \in rows' : RowOK(p)
        BY <1>1, <2>1 DEF RowsInv
    <2>3. \A p \in rows' : RowOK(p)'
        BY <1>1, <2>2, RowOKStable
    <2> QED BY <1>1, <2>3 DEF RowsInv
<1>4. AnswerInv'
    BY <1>1 DEF AnswerInv
<1>5. ReachInv'
    <2> SUFFICES ASSUME NEW p \in Seq(Accounts), RowOK(p), p \notin rows
                 PROVE  p \in rows' \/ Pending(p)'
        BY <1>1, RowOKStable DEF ReachInv
    <2>1. PICK k \in 2 .. Len(p) : SubSeq(p, 1, k) \in working
        BY <1>1 DEF ReachInv, Pending
    <2>2. k # Len(p)
        <3> SUFFICES ASSUME k = Len(p) PROVE FALSE
            OBVIOUS
        <3>1. p \in working
            BY <2>1, WholePath
        <3> QED BY <1>1, <3>1 DEF RowsInv
    <2>3. /\ k \in 1 .. Len(p) - 1 /\ k + 1 \in 2 .. Len(p)
          /\ p[k + 1] \in Accounts /\ k \in Nat /\ k >= 2
        BY <2>1, <2>2
    <2> DEFINE q == SubSeq(p, 1, k)
    <2>4. Len(q) = k /\ \A i \in 1 .. k : q[i] = p[i]
        BY <2>3
    <2>5. <<Current(q), p[k + 1]>> \in transfers
        <3>1. <<p[k], p[k + 1]>> \in transfers
            BY <2>3 DEF RowOK
        <3> QED BY <2>3, <2>4, <3>1 DEF Current
    <2>6. MayFollow(q, p[k + 1])
        <3>1. \A i \in 2 .. k : p[k + 1] # p[i]
            BY <2>3 DEF RowOK
        <3>2. \A i \in 2 .. Len(q) : p[k + 1] # q[i]
            BY <2>3, <2>4, <3>1
        <3>3. Depth(q) < MaxDepth
            BY <2>3, <2>4, RoundTripAssumption DEF RowOK, Depth
        <3> QED BY <3>2, <3>3 DEF MayFollow
    <2>7. Append(q, p[k + 1]) = SubSeq(p, 1, k + 1)
        BY <2>3, LongerBeginning
    <2>8. Append(q, p[k + 1]) \in Joined
        <3> HIDE DEF q
        <3>1. <<q, p[k + 1]>> \in working \X Accounts
            BY <2>1, <2>3 DEF q
        <3> DEFINE e == <<q, p[k + 1]>>
        <3>2. e \in {x \in working \X Accounts :
                      <<Current(x[1]), x[2]>> \in transfers /\ MayFollow(x[1], x[2])}
            BY <2>5, <2>6, <3>1
        <3>3. Append(q, p[k + 1]) = Append(e[1], e[2])
            OBVIOUS
        <3> HIDE DEF e
        <3> QED BY <3>2, <3>3 DEF Joined
    <2> QED BY <1>1, <2>3, <2>7, <2>8 DEF Pending
<1>6. ReportComplete'
    BY <1>1 DEF ReportComplete, NoAnswer
<1> QED BY <1>2, <1>3, <1>4, <1>5, <1>6 DEF QueryInv

\* The steps that end the query, and stutters, leave the rows alone.
LEMMA RowsAlone ==
    ASSUME QueryInv, UNCHANGED <<transfers, working, rows>>
    PROVE  WindowInv' /\ RowsInv' /\ ReachInv'
<1>1. transfers' = transfers /\ working' = working /\ rows' = rows
    OBVIOUS
<1>2. WindowInv'
    BY <1>1 DEF QueryInv, WindowInv
<1>3. RowsInv'
    BY <1>1, RowOKStable DEF QueryInv, RowsInv
<1>4. ReachInv'
    BY <1>1, RowOKStable DEF QueryInv, ReachInv, Pending
<1> QED BY <1>2, <1>3, <1>4

\* An answer is a row: it needs no look at the rest of the rows.
LEMMA ReportKeeps == QueryInv /\ Report => QueryInv'
<1> SUFFICES ASSUME QueryInv, Report PROVE QueryInv'
    OBVIOUS
<1>1. WindowInv' /\ RowsInv' /\ ReachInv'
    BY RowsAlone DEF Report
<1>2. AnswerInv'
    BY DEF Report, AnswerInv
<1>3. ReportComplete'
    BY DEF Report, ReportComplete, CycleFound
<1> QED BY <1>1, <1>2, <1>3 DEF QueryInv

\* With the working table empty nothing is pending: every walk is a row, and a
\* round trip would be a row that matches.
LEMMA ReportNoneKeeps == QueryInv /\ ReportNone => QueryInv'
<1> SUFFICES ASSUME QueryInv, ReportNone PROVE QueryInv'
    OBVIOUS
<1>1. WindowInv' /\ RowsInv' /\ ReachInv'
    BY RowsAlone DEF ReportNone
<1>2. AnswerInv'
    BY DEF ReportNone, AnswerInv
<1>3. ReportComplete'
    <2>1. \A p \in Seq(Accounts) : RowOK(p) => p \in rows
        BY DEF QueryInv, ReachInv, Pending, ReportNone
    <2>2. ASSUME NEW p \in PathsUpTo(MaxDepth + 1), IsRoundTrip(p)
          PROVE  FALSE
        <3>1. p \in Seq(Accounts) /\ MaxDepth \in Nat /\ MaxDepth + 1 \in Nat
            BY PathsAreSequences, RoundTripAssumption
        <3>2. Len(p) \in 2 .. MaxDepth + 1
            BY <2>2, <3>1 DEF IsRoundTrip
        <3>3. RowOK(p)
            BY <2>2, <3>1, <3>2 DEF IsRoundTrip, RowOK
        <3>4. Matches(p)
            BY <2>2, <3>1 DEF IsRoundTrip, Matches, Current, Depth
        <3> QED BY <2>1, <3>1, <3>3, <3>4 DEF ReportNone
    <2>3. transfers' = transfers
        BY DEF ReportNone
    <2>4. \A p : IsRoundTrip(p)' <=> IsRoundTrip(p)
        BY <2>3 DEF IsRoundTrip
    <2> QED BY <2>2, <2>4 DEF ReportComplete
<1> QED BY <1>1, <1>2, <1>3 DEF QueryInv

LEMMA QueryFailsKeeps == QueryInv /\ QueryFails => QueryInv'
<1> SUFFICES ASSUME QueryInv, QueryFails PROVE QueryInv'
    OBVIOUS
<1>1. WindowInv' /\ RowsInv' /\ ReachInv'
    BY RowsAlone DEF QueryFails
<1>2. AnswerInv'
    BY DEF QueryFails, AnswerInv
<1>3. ReportComplete'
    BY DEF QueryFails, ReportComplete, Failure
<1> QED BY <1>1, <1>2, <1>3 DEF QueryInv

LEMMA StutterKeeps == QueryInv /\ UNCHANGED vars => QueryInv'
<1> SUFFICES ASSUME QueryInv, UNCHANGED vars PROVE QueryInv'
    OBVIOUS
<1>1. transfers' = transfers /\ working' = working /\ rows' = rows /\ answer' = answer
    BY DEF vars
<1>2. WindowInv' /\ RowsInv' /\ ReachInv'
    BY <1>1, RowsAlone
<1>3. AnswerInv'
    BY <1>1 DEF QueryInv, AnswerInv
<1>4. \A p : IsRoundTrip(p)' <=> IsRoundTrip(p)
    BY <1>1 DEF IsRoundTrip
<1>5. ReportComplete'
    BY <1>1, <1>4 DEF QueryInv, ReportComplete
<1> QED BY <1>2, <1>3, <1>5 DEF QueryInv

\* Every step of the query, as PostgreSQL evaluates it, keeps QueryInv.
THEOREM QueryInvariant == Spec => []QueryInv
<1>1. QueryInv /\ [Next]_vars => QueryInv'
    BY IterateKeeps, ReportKeeps, ReportNoneKeeps, QueryFailsKeeps, StutterKeeps DEF Next
<1> QED BY <1>1, InitQuery, PTL DEF Spec

-----------------------------------------------------------------------------
(* The theorems. *)

\* An answer that is a row is a round trip when it matches.
LEMMA QueryIsSound == QueryInv => SearchInv
<1> SUFFICES ASSUME QueryInv PROVE SearchInv
    OBVIOUS
<1>1. MaxDepth \in Nat /\ MaxDepth + 1 \in Nat
    BY RoundTripAssumption
<1>2. \A p \in rows : p \in PathsUpTo(MaxDepth + 1)
    <2> SUFFICES ASSUME NEW p \in rows PROVE p \in PathsUpTo(MaxDepth + 1)
        OBVIOUS
    <2>1. p \in Seq(Accounts) /\ Len(p) <= MaxDepth + 1
        BY <1>1 DEF QueryInv, RowsInv, RowOK
    <2> QED BY <1>1, <2>1, ShortPaths
<1>3. <<>> \in PathsUpTo(MaxDepth + 1)
    <2>1. <<>> \in Seq(Accounts) /\ Len(<<>>) <= MaxDepth + 1
        BY <1>1
    <2> QED BY <1>1, <2>1, ShortPaths
<1>4. CASE answer \in {NoAnswer, Failure, NoCycle}
    <2>1. answer.kind \in {"none", "error", "clear"} /\ answer.path = <<>>
        BY <1>4 DEF NoAnswer, Failure, NoCycle
    <2>2. TypeOK
        BY <1>2, <1>3, <2>1 DEF TypeOK, QueryInv, WindowInv, RowsInv
    <2>3. ReportSound
        BY <2>1 DEF ReportSound
    <2> QED BY <2>2, <2>3 DEF SearchInv
<1>5. ASSUME NEW p \in rows, Matches(p), answer = CycleFound(p)
      PROVE  SearchInv
    <2>1. answer.kind = "cycle" /\ answer.path = p
        BY <1>5 DEF CycleFound
    <2>2. TypeOK
        BY <1>2, <2>1 DEF TypeOK, QueryInv, WindowInv, RowsInv
    <2>3. RowOK(p)
        BY DEF QueryInv, RowsInv
    <2>4. Len(p) \in 3 .. MaxDepth + 1 /\ p[Len(p)] = Origin
        BY <1>1, <1>5, <2>3 DEF RowOK, Matches, Current, Depth
    <2>5. IsRoundTrip(p)
        BY <2>3, <2>4 DEF RowOK, IsRoundTrip
    <2> QED BY <2>1, <2>2, <2>5 DEF SearchInv, ReportSound
<1> QED BY <1>4, <1>5 DEF QueryInv, AnswerInv

\* A reported cycle is one: money that leaves the account and comes back through
\* accounts that differ, in transfers of the window and within the cap; and the
\* recursion makes no row beyond the cap (round_trip_detector).
THEOREM CyclesAreReal == Spec => []SearchInv
BY QueryInvariant, QueryIsSound, PTL

\* "No cycle" is said only of a window without a round trip within the cap: the
\* exclusion of visited accounts and the cap of the recursion hide none
\* (round_trip_detector).
THEOREM NoCycleMissed == Spec => []ReportComplete
<1>1. QueryInv => ReportComplete
    BY DEF QueryInv
<1> QED BY <1>1, QueryInvariant, PTL
-----------------------------------------------------------------------------
(* The end of the recursion. *)

\* The rows of one iteration are equally long.
Level == \A p, q \in working : Len(p) = Len(q)

\* Each iteration makes rows that are one transfer longer than those of the one
\* before.
RowsLengthen == [][\A p \in working, q \in working' : Len(q) = Len(p) + 1]_working

LEMMA JoinedLonger ==
    ASSUME RowsInv, Level, NEW p \in working, NEW q \in Joined
    PROVE  Len(q) = Len(p) + 1
<1>1. PICK r \in working, n \in Accounts : q = Append(r, n)
  BY DEF Joined
<1>2. r \in Seq(Accounts) /\ Len(r) = Len(p)
  BY DEF RowsInv, RowOK, Level
<1> QED BY <1>1, <1>2

\* The recursion comes to its end in every window, also in one full of cycles:
\* each iteration lengthens the rows by one transfer, and none has more than
\* MaxDepth, so there are at most MaxDepth iterations.  (Answered adds that the
\* server does evaluate them.)
THEOREM RecursionBounded == Spec => [](Level /\ \A p \in working : Depth(p) <= MaxDepth)
                                    /\ RowsLengthen
<1> DEFINE Within == \A p \in working : Depth(p) <= MaxDepth
<1>1. Init => Level
  BY DEF Init, Level, BaseRows
<1>2. QueryInv /\ Level /\ [Next]_vars => Level'
  <2> SUFFICES ASSUME QueryInv, Level, [Next]_vars PROVE Level'
    OBVIOUS
  <2>1. CASE Iterate
    <3>1. ASSUME NEW p \in working', NEW q \in working'
          PROVE  Len(p) = Len(q)
      <4>1. PICK r \in working : TRUE
        BY <2>1 DEF Iterate
      <4>2. Len(p) = Len(r) + 1 /\ Len(q) = Len(r) + 1
        BY <2>1, <3>1, <4>1, JoinedLonger DEF Iterate, QueryInv
      <4> QED BY <4>2
    <3> QED BY <3>1 DEF Level
  <2>2. CASE UNCHANGED working
    BY <2>2 DEF Level
  <2> QED BY <2>1, <2>2 DEF Next, Report, ReportNone, QueryFails, vars
<1>3. QueryInv /\ Level /\ [Next]_vars =>
        [\A p \in working, q \in working' : Len(q) = Len(p) + 1]_working
  <2> SUFFICES ASSUME QueryInv, Level, Next, working' # working,
                      NEW p \in working, NEW q \in working'
               PROVE  Len(q) = Len(p) + 1
    BY DEF vars
  <2>1. Iterate
    BY DEF Next, Report, ReportNone, QueryFails
  <2> QED BY <2>1, JoinedLonger DEF Iterate, QueryInv
<1>4. QueryInv => Within
  BY RoundTripAssumption DEF QueryInv, RowsInv, RowOK, Depth
<1> QED BY <1>1, <1>2, <1>3, <1>4, QueryInvariant, PTL DEF Spec, RowsLengthen

=============================================================================
