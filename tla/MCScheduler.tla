---------------------------- MODULE MCScheduler ----------------------------
(***************************************************************************)
(* Instances of Scheduler.                                                 *)
(***************************************************************************)
EXTENDS Scheduler

Plain    == {"plain"}
Isolated == {"isolated"}
Both     == {"plain", "isolated"}
=============================================================================
