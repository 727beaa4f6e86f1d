-------------------------- MODULE MCSchedulerFaults --------------------------
(***************************************************************************)
(* Model-checking instances of SchedulerFaults.                            *)
(***************************************************************************)
EXTENDS SchedulerFaults
=============================================================================
