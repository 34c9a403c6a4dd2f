---------------------------- MODULE MCSupervisor ----------------------------
(* Small instances of Supervisor for TLC. *)
EXTENDS Supervisor

CONSTANTS postgres, redis, api, consumer

TwoServices == <<postgres, redis>>
TwoApps     == <<api, consumer>>
=============================================================================
