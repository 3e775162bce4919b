---------------------------- MODULE MCHostThreads ----------------------------
(* Up to five threads, one kept idle, so that threads are created, parked,   *)
(* signalled and let go; two jobs that sleep and one that makes calls.       *)
EXTENDS HostThreads
==============================================================================
