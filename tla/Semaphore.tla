------------------------------ MODULE Semaphore ------------------------------
(***************************************************************************)
(* Semaphores and conditions of the runtime (ml_runtime.c).  Every         *)
(* operation runs on the scheduler's one thread, so it is one step; the    *)
(* loop of broadcast takes a step per waiter, and nothing else runs until  *)
(* it ends.  A state that gets a unit is either continued or queued in the *)
(* scheduler (ml_state_schedule): both are "in" here, because what it does *)
(* next comes at an arbitrary later step.                                  *)
(***************************************************************************)
EXTENDS WaiterRing, Sequences, FiniteSets

CONSTANTS
  Users,     \* script states that use the semaphore and the condition
  Initial,   \* semaphore(Initial)
  FirstSize  \* first size of the ring: 4 in the code

ASSUME SemaphoreAssumption ==
  /\ None \notin Users /\ IsFiniteSet(Users)
  /\ Initial \in Nat
  /\ FirstSize \in Nat \ {0}

VARIABLES
  value,     \* Semaphore->Value
  blocked,   \* Semaphore->States, Size, Fill, Write, Read
  waiters,   \* Condition->Waiters, the head first
  waking,    \* what broadcast has yet to visit of the list it took
  place      \* "out", "blocked" (in the ring), "cond" (in waiters) or "in"

semVars == <<value, blocked, waiters, waking, place>>

SemInit ==
  /\ value = Initial
  /\ blocked = NewRing(FirstSize)
  /\ waiters = <<>> /\ waking = <<>>
  /\ place = [p \in Users |-> "out"]

\* ml_semaphore_wait for p.
Acquire(p) ==
  \/ /\ value # 0
     /\ value' = value - 1
     /\ place' = [place EXCEPT ![p] = "in"]
     /\ UNCHANGED blocked
  \/ /\ value = 0
     /\ blocked' = Push(blocked, p)
     /\ place' = [place EXCEPT ![p] = "blocked"]
     /\ UNCHANGED value

\* mutant: the unit handed to a waiter is counted as well
ReleaseTwice(p, next) ==
  \/ /\ blocked.fill > 0
     /\ blocked' = Pop(blocked)
     /\ place' = [place EXCEPT ![p] = next, ![Front(blocked)] = "in"]
     /\ value' = value + 1
  \/ /\ blocked.fill = 0
     /\ value' = value + 1
     /\ place' = [place EXCEPT ![p] = next]
     /\ UNCHANGED blocked

\* mutant: the unit is counted, and the waiter left in the ring
ReleaseCounting(p, next) ==
  /\ value' = value + 1
  /\ place' = [place EXCEPT ![p] = next]
  /\ UNCHANGED blocked

\* ml_semaphore_signal by p, which goes to location next: the unit goes to the
\* first waiter, or back to the value.
Release(p, next) ==
  \/ /\ blocked.fill > 0
     /\ blocked' = Pop(blocked)
     /\ place' = [place EXCEPT ![p] = next, ![Front(blocked)] = "in"]
     /\ UNCHANGED value
  \/ /\ blocked.fill = 0
     /\ value' = value + 1
     /\ place' = [place EXCEPT ![p] = next]
     /\ UNCHANGED blocked

Wait(p) ==
  /\ waking = <<>> /\ place[p] = "out"
  /\ Acquire(p)
  /\ UNCHANGED <<waiters, waking>>

Signal(p) ==
  /\ waking = <<>> /\ place[p] = "in"
  /\ Release(p, "out")
  /\ UNCHANGED <<waiters, waking>>

\* Condition:wait(Semaphore)
CondWait(p) ==
  /\ waking = <<>> /\ place[p] = "in"
  /\ waiters' = <<p>> \o waiters
  /\ Release(p, "cond")
  /\ UNCHANGED waking

\* Condition:signal, called by a state that holds the semaphore or by another.
CondSignal(p) ==
  /\ waking = <<>> /\ place[p] \in {"in", "out"}
  /\ waiters # <<>>
  /\ waiters' = Tail(waiters)
  /\ Acquire(Head(waiters))
  /\ UNCHANGED waking

\* Condition:broadcast takes the list, and visits it waiter by waiter.
Broadcast(p) ==
  /\ waking = <<>> /\ place[p] \in {"in", "out"}
  /\ waking' = waiters
  /\ waiters' = <<>>
  /\ UNCHANGED <<value, blocked, place>>

Visit ==
  /\ waking # <<>>
  /\ waking' = Tail(waking)
  /\ Acquire(Head(waking))
  /\ UNCHANGED waiters

SemNext ==
  \/ \E p \in Users :
       Wait(p) \/ Signal(p) \/ CondWait(p) \/ CondSignal(p) \/ Broadcast(p)
  \/ Visit

SemSpec == SemInit /\ [][SemNext]_semVars

\* The scheduler runs every queued state, and a state that holds a unit gives it
\* back; that somebody broadcasts again and again is the user's part.
SemFairness ==
  /\ \A p \in Users : SF_semVars(Signal(p) \/ CondWait(p))
  /\ WF_semVars(Visit)

FairSemSpec == SemSpec /\ SemFairness
------------------------------------------------------------------------------
(* Properties *)

SemTypeOK ==
  /\ value \in Nat
  /\ IsRing(blocked, Users)
  /\ waiters \in Seq(Users) /\ waking \in Seq(Users)
  /\ place \in [Users -> {"out", "blocked", "cond", "in"}]

Holders == {p \in Users : place[p] = "in"}

\* No unit is lost and none made: through waits, hand-overs and conditions, the
\* units free and the units held add up to the initial value.
UnitsConserved == value + Cardinality(Holders) = Initial

\* Nobody waits while a unit is free.
NoIdleUnit == blocked.fill > 0 => value = 0

\* The ring, however often it has grown, holds every blocked state once.
BlockedAreQueued ==
  /\ RingOK(blocked, Users)
  /\ Waiting(blocked) = {p \in Users : place[p] = "blocked"}

\* The states that wait for the condition are in its list, or in the list that
\* broadcast is visiting, once.
CondsAreListed ==
  LET all == waking \o waiters
  IN  /\ \A i \in 1 .. Len(all) : place[all[i]] = "cond"
      /\ \A i, j \in 1 .. Len(all) : all[i] = all[j] => i = j
      /\ \A p \in Users : place[p] = "cond" => \E i \in 1 .. Len(all) : all[i] = p

\* A blocked state gets a unit, although growth lets later ones overtake it.
BlockedEnter == \A p \in Users : place[p] = "blocked" ~> place[p] = "in"
==============================================================================
