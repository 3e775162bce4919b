-------------------------- MODULE MCSchedulerQueue ---------------------------
(* Two growths (three blocks of two slots), two other threads that add.      *)
EXTENDS SchedulerQueue
==============================================================================
