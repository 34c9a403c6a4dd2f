---------------------------- MODULE MCRoundTrip ----------------------------
(* Small windows for RoundTrip: every subset of a ring of six accounts, one *)
(* transfer longer than the cap, with shortcuts that close cycles of two,   *)
(* four and five transfers, a cycle off the origin, and a transfer to self. *)
EXTENDS RoundTrip

CONSTANTS a, b, c, d, e, f

SixAccounts == {a, b, c, d, e, f}
Ring        == {<<a, b>>, <<b, c>>, <<c, d>>, <<d, e>>, <<e, f>>, <<f, a>>}
Shortcuts   == {<<b, a>>, <<e, a>>, <<c, b>>, <<d, f>>, <<a, a>>}
Windows     == SUBSET (Ring \cup Shortcuts)
=============================================================================
