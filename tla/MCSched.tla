------------------------------- MODULE MCSched ------------------------------
(* Instance of Sched for TLC: sentinels are model values, see the .cfg. *)
EXTENDS Sched
=============================================================================
