----------------------------- MODULE MCConnPool -----------------------------
(* Small instances of ConnPool for TLC: the four kinds of client there are. *)
EXTENDS ConnPool

CONSTANTS t1, t2, c1, c2

TwoThreads   == {t1, t2}
TwoConns     == {c1, c2}

Writer        == [lazy |-> TRUE, locked |-> TRUE, commits |-> TRUE, guarded |-> TRUE]
Evidence      == [lazy |-> TRUE, locked |-> TRUE, commits |-> FALSE, guarded |-> TRUE]
Dispatcher    == [lazy |-> TRUE, locked |-> FALSE, commits |-> TRUE, guarded |-> FALSE]
PostgresTools == [lazy |-> FALSE, locked |-> FALSE, commits |-> FALSE, guarded |-> FALSE]

AllClients     == {Writer, Evidence, Dispatcher, PostgresTools}
OnlyDispatcher == {Dispatcher}
=============================================================================
