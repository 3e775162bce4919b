----------------------------- MODULE MCSemaphore -----------------------------
(* A mutex (Initial = 1) with five states: the ring starts at one slot and    *)
(* grows to two and to four, from every offset its Read index can reach.      *)
EXTENDS Semaphore
==============================================================================
