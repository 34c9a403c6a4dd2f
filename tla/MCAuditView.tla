---------------------------- MODULE MCAuditView ----------------------------
(* Small instances of AuditView for TLC. *)
EXTENDS AuditView

OneCost         == {1}
AroundThreshold == {69994, 69996}
NoDelay         == {0}
=============================================================================
