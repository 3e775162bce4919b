-------------------------------- MODULE RWLock --------------------------------
(***************************************************************************)
(* The read-write lock of the runtime (ml_runtime.c).  unlock continues    *)
(* the waiters it lets in by calling their run() from its own loop, so     *)
(* their code - which may lock, unlock or call other script states -       *)
(* executes while that loop is half done: one thread, but a C stack of     *)
(* frames.  stack holds the frames that wait for a callee to return, cur   *)
(* the state whose code executes; the scheduler picks the next state when  *)
(* the stack is empty.                                                     *)
(***************************************************************************)
EXTENDS WaiterRing, Sequences, FiniteSets

CONSTANTS
  Procs,     \* script states that use the lock
  InitSize,  \* first size of the ring: 4 in the code
  MaxCalls   \* script calls nested in one another: bounds the model

ASSUME RWLockAssumption ==
  /\ None \notin Procs /\ None \notin Procs \X {0, 1}
  /\ IsFiniteSet(Procs)
  /\ InitSize \in Nat \ {0} /\ MaxCalls \in Nat

VARIABLES
  Readers, Writers,   \* the counts of the struct
  ring,               \* Waiters: pairs <<State, Writer>>, Writer 0 or 1
  pc,                 \* "out", "waiting", "reading" or "writing"
  stack,              \* frames, innermost first
  cur                 \* the state that executes, or None

vars == <<Readers, Writers, ring, pc, stack, cur>>
lock == <<Readers, Writers, ring>>

\* A frame: state proc called another; at is where its own code goes on.
\*   "loop"   in unlock, at the test of the while loop
\*   "break"  in unlock, after the run() of a writer
\*   "call"   in a call of script code
Frame(p, at) == [proc |-> p, at |-> at]
Frames == [proc : Procs, at : {"loop", "break", "call"}]
Calls == {i \in 1 .. Len(stack) : stack[i].at = "call"}
OnStack(p) == \E i \in 1 .. Len(stack) : stack[i].proc = p

Init ==
  /\ Readers = 0 /\ Writers = 0
  /\ ring = NewRing(InitSize)
  /\ pc = [p \in Procs |-> "out"]
  /\ stack = <<>> /\ cur = None

\* p executes, or the scheduler resumes it.
Executes(p) == cur = p \/ (cur = None /\ stack = <<>> /\ pc[p] # "waiting")

\* rdlock, when no writer uses the lock or is marked as waiting.
RdLock(p) ==
  /\ Executes(p) /\ pc[p] = "out"
  /\ Writers = 0
  /\ Readers' = Readers + 1
  /\ pc' = [pc EXCEPT ![p] = "reading"]
  /\ cur' = p
  /\ UNCHANGED <<Writers, ring, stack>>

\* rdlock, waiting: the run() of p returns.
RdLockWaits(p) ==
  /\ Executes(p) /\ pc[p] = "out"
  /\ Writers # 0
  /\ ring' = Push(ring, <<p, 0>>)
  /\ pc' = [pc EXCEPT ![p] = "waiting"]
  /\ cur' = None
  /\ UNCHANGED <<Readers, Writers, stack>>

\* mutant: only other writers are tested
WrLockIgnoringReaders(p) ==
  /\ Executes(p) /\ pc[p] = "out"
  /\ Writers = 0
  /\ Writers' = 1
  /\ pc' = [pc EXCEPT ![p] = "writing"]
  /\ cur' = p
  /\ UNCHANGED <<Readers, ring, stack>>

WrLock(p) ==
  /\ Executes(p) /\ pc[p] = "out"
  /\ Writers = 0 /\ Readers = 0
  /\ Writers' = 1
  /\ pc' = [pc EXCEPT ![p] = "writing"]
  /\ cur' = p
  /\ UNCHANGED <<Readers, ring, stack>>

WrLockWaits(p) ==
  /\ Executes(p) /\ pc[p] = "out"
  /\ Writers # 0 \/ Readers # 0
  /\ Writers' = 1
  /\ ring' = Push(ring, <<p, 1>>)
  /\ pc' = [pc EXCEPT ![p] = "waiting"]
  /\ cur' = None
  /\ UNCHANGED <<Readers, stack>>

\* mutant: a reader leaves the mark of the writer that waits
UnlockKeepingMark(p) ==
  /\ Executes(p) /\ pc[p] \in {"reading", "writing"}
  /\ Readers' = IF Readers > 0 THEN Readers - 1 ELSE 0
  /\ Writers' = IF Readers > 0 THEN Writers ELSE 0
  /\ pc' = [pc EXCEPT ![p] = "out"]
  /\ stack' = <<Frame(p, "loop")>> \o stack
  /\ cur' = None
  /\ UNCHANGED ring

\* unlock, up to its loop.
Unlock(p) ==
  /\ Executes(p) /\ pc[p] \in {"reading", "writing"}
  /\ Readers' = IF Readers > 0 THEN Readers - 1 ELSE 0
  /\ Writers' = 0
  /\ pc' = [pc EXCEPT ![p] = "out"]
  /\ stack' = <<Frame(p, "loop")>> \o stack
  /\ cur' = None
  /\ UNCHANGED ring

\* The top frame executes in C.
InLoop == cur = None /\ stack # <<>> /\ Head(stack).at = "loop"
Next1 == Front(ring)[1]
NextWrites == Front(ring)[2] = 1
LeaveLoop ==
  /\ stack' = Tail(stack)
  /\ cur' = Head(stack).proc

\* The loop lets the first waiter in as a reader and calls its run().
LetReaderIn ==
  /\ InLoop /\ ring.fill > 0
  /\ ~ NextWrites /\ Writers = 0
  /\ Readers' = Readers + 1
  /\ ring' = Pop(ring)
  /\ pc' = [pc EXCEPT ![Next1] = "reading"]
  /\ cur' = Next1
  /\ UNCHANGED <<Writers, stack>>

\* The loop lets the first waiter in as the writer, and ends when it returns.
LetWriterIn ==
  /\ InLoop /\ ring.fill > 0
  /\ NextWrites /\ Writers = 0 /\ Readers = 0
  /\ Writers' = 1
  /\ ring' = Pop(ring)
  /\ pc' = [pc EXCEPT ![Next1] = "writing"]
  /\ cur' = Next1
  /\ stack' = <<Frame(Head(stack).proc, "break")>> \o Tail(stack)
  /\ UNCHANGED Readers

\* mutant: a writer that stays in the ring does not mark the lock again
LoopEndsUnmarked ==
  /\ InLoop
  /\ \/ ring.fill = 0
     \/ ring.fill > 0 /\ NextWrites /\ (Writers # 0 \/ Readers # 0)
     \/ ring.fill > 0 /\ ~ NextWrites /\ Writers # 0
  /\ LeaveLoop
  /\ UNCHANGED <<Readers, Writers, ring, pc>>

\* The loop ends: nobody waits, or the first waiter cannot be let in.
LoopEnds ==
  /\ InLoop
  /\ \/ ring.fill = 0 /\ UNCHANGED Writers
     \/ /\ ring.fill > 0 /\ NextWrites
        /\ Writers # 0 \/ Readers # 0
        /\ Writers' = 1
     \/ ring.fill > 0 /\ ~ NextWrites /\ Writers # 0 /\ UNCHANGED Writers
  /\ LeaveLoop
  /\ UNCHANGED <<Readers, ring, pc>>

\* The callee of a frame that is done with its call returned.
Resume ==
  /\ cur = None /\ stack # <<>> /\ Head(stack).at \in {"break", "call"}
  /\ LeaveLoop
  /\ UNCHANGED <<lock, pc>>

\* The run() of p returns: p is preempted, waits for something else or ends.
Return(p) ==
  /\ cur = p
  /\ cur' = None
  /\ UNCHANGED <<lock, pc, stack>>

\* p starts or continues another state, which executes at once (a task, a
\* coroutine, a call).
Call(p, q) ==
  /\ Executes(p) /\ q # p /\ ~ OnStack(q) /\ pc[q] # "waiting"
  /\ Cardinality(Calls) < MaxCalls
  /\ stack' = <<Frame(p, "call")>> \o stack
  /\ cur' = q
  /\ UNCHANGED <<lock, pc>>

Next ==
  \/ \E p \in Procs :
       RdLock(p) \/ RdLockWaits(p) \/ WrLock(p) \/ WrLockWaits(p)
         \/ Unlock(p) \/ Return(p) \/ \E q \in Procs : Call(p, q)
  \/ LetReaderIn \/ LetWriterIn \/ LoopEnds \/ Resume

Spec == Init /\ [][Next]_vars

\* C code runs on; every run() returns, at its next preemption if not before; and
\* since the scheduler is a FIFO queue, states that hold the lock are run again:
\* it is not held for ever.
Fairness ==
  /\ WF_vars(LetReaderIn \/ LetWriterIn \/ LoopEnds \/ Resume)
  /\ \A p \in Procs : SF_vars(Return(p))
  /\ SF_vars(\E p \in Procs : Unlock(p))

FairSpec == Spec /\ Fairness
------------------------------------------------------------------------------
(* Properties *)

TypeOK ==
  /\ Readers \in Nat /\ Writers \in {0, 1}
  /\ IsRing(ring, Procs \X {0, 1})
  /\ pc \in [Procs -> {"out", "waiting", "reading", "writing"}]
  /\ stack \in Seq(Frames)
  /\ cur \in Procs \union {None}

Reading == {p \in Procs : pc[p] = "reading"}
Writing == {p \in Procs : pc[p] = "writing"}

\* A writer excludes readers and other writers, and the counts say who is in:
\* also while unlock loops are suspended in the code of those they let in.
Exclusion ==
  /\ Readers = Cardinality(Reading)
  /\ \A p \in Writing : Writing = {p} /\ Reading = {} /\ Writers = 1

\* The ring, however often it has grown, holds every waiting state once.
WaitersAreQueued ==
  /\ RingOK(ring, Procs \X {0, 1})
  /\ \A p \in Procs :
       pc[p] = "waiting" <=> \E w \in {0, 1} : <<p, w>> \in Waiting(ring)
  /\ \A p \in Procs : ~ {<<p, 1>>, <<p, 0>>} \subseteq Waiting(ring)

\* Nobody waits for a lock that nobody will unlock: a state is in it, or an
\* unlock has yet to test the ring.
SomebodyUnlocks ==
  ring.fill > 0 =>
    \/ Reading \union Writing # {}
    \/ \E i \in 1 .. Len(stack) : stack[i].at = "loop"

\* The lock is marked for writers only while one is in or waits: otherwise
\* readers would queue behind nobody.
MarkHasWriter ==
  Writers = 1 =>
    Writing # {} \/ \E p \in Procs : <<p, 1>> \in Waiting(ring)

\* Whoever waits is let in.
WaitersEnter == \A p \in Procs : pc[p] = "waiting" ~> pc[p] # "waiting"

==============================================================================
