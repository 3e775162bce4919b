------------------------------- MODULE MCRWLock -------------------------------
(* Four states: a holder, two waiters that fill the ring of one slot and make *)
(* it grow, and one that arrives from inside an unlock.                       *)
EXTENDS RWLock
==============================================================================
