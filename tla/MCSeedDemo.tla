----------------------------- MODULE MCSeedDemo -----------------------------
(* The three scenarios, with the script started up to three times. *)
EXTENDS SeedDemo
=============================================================================
