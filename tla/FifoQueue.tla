------------------------------ MODULE FifoQueue ------------------------------
(***************************************************************************)
(* What a scheduler promises to the runtime, without blocks and indices:   *)
(* states that are added are run one at a time, each exactly once, in the  *)
(* order in which they were added.                                         *)
(***************************************************************************)
EXTENDS Sequences

CONSTANTS States,   \* the (State, Value) pairs that may be queued
          Null      \* "no state is running"

VARIABLES queue,    \* the pairs waiting to be run, oldest first
          running   \* the pair whose run() is executing, or Null

vars == <<queue, running>>

Init == queue = <<>> /\ running = Null

\* ml_scheduler_t::add
Put(s) == queue' = Append(queue, s) /\ UNCHANGED running

\* ml_scheduler_t::run: take the oldest pair and enter its run().
Take ==
  /\ queue # <<>>
  /\ running = Null
  /\ running' = Head(queue)
  /\ queue' = Tail(queue)

\* run() returns to the scheduler.
Done ==
  /\ running # Null
  /\ running' = Null
  /\ UNCHANGED queue

Next == (\E s \in States : Put(s)) \/ Take \/ Done

Spec == Init /\ [][Next]_vars
==============================================================================
