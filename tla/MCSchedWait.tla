----------------------------- MODULE MCSchedWait -----------------------------
(***************************************************************************)
(* Instances of the scheduler with its waiting times for TLC.              *)
(***************************************************************************)
EXTENDS SchedWait, MCSched
=============================================================================
