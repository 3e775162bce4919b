--------------------------- MODULE SchedulerQueue ----------------------------
(***************************************************************************)
(* The default scheduler of Minilang (ml_scheduler_queue_t in              *)
(* ml_runtime.c): a growing ring of blocks of queued states, filled by any *)
(* thread and emptied by the one thread that runs the scheduler, which     *)
(* sleeps on a condition variable while the ring is empty.                 *)
(*                                                                         *)
(* Slots are used in DESCENDING index order, block after block along Next. *)
(* Everything a function does between pthread_mutex_lock and               *)
(* pthread_mutex_unlock is one action; the pthread_cond_signal of          *)
(* ml_scheduler_queue_add_signal comes after the unlock and is an action   *)
(* of its own.  A (State, Value) pair is one element of States.            *)
(***************************************************************************)
EXTENDS Integers, Sequences, FiniteSets

CONSTANTS
  Blocks,      \* the blocks new() can allocate: bounds the ring in a model
  FirstBlock,  \* the block allocated by the constructor
  BlockSize,   \* QUEUE_BLOCK_SIZE
  States,      \* the (State, Value) pairs that may be queued
  Null,        \* the empty slot {NULL, NULL}
  Adders       \* threads, other than the one running the scheduler, that add

ASSUME QueueAssumption ==
  /\ FirstBlock \in Blocks
  /\ BlockSize \in Nat \ {0}
  /\ Null \notin States

VARIABLES
  Ring,        \* the blocks reachable from WriteBlock
  BlockNext,   \* Block->Next
  Mem,         \* Block->States[Index], for <<Block, Index>>
  WriteBlock, WriteIndex,
  ReadBlock, ReadIndex,
  Space, Fill,
  adder,       \* adder[a]: "idle", or "signal" between unlock and cond_signal
  runner,      \* "check" (about to lock), "waiting" (in cond_wait) or "run"
  running,     \* the pair whose run() executes while runner = "run"
  order        \* auxiliary: the occupied slots, oldest first; no guard reads it

data == <<Ring, BlockNext, Mem, WriteBlock, WriteIndex, ReadBlock, ReadIndex,
          Space, Fill, order>>
threads == <<adder, runner, running>>
vars == <<Ring, BlockNext, Mem, WriteBlock, WriteIndex, ReadBlock, ReadIndex,
          Space, Fill, order, adder, runner, running>>

Index == 0 .. BlockSize - 1
Slots == Blocks \X Index
RingSlots == Ring \X Index
WriteSlot == <<WriteBlock, WriteIndex>>
ReadSlot == <<ReadBlock, ReadIndex>>

\* The slot used after slot s: the next lower index, then the top of Next.
SuccIn(link, s) ==
  IF s[2] = 0 THEN <<link[s[1]], BlockSize - 1>> ELSE <<s[1], s[2] - 1>>
Succ(s) == SuccIn(BlockNext, s)

Init ==
  /\ Ring = {FirstBlock}
  /\ BlockNext = [b \in Blocks |-> FirstBlock]
  /\ Mem = [s \in Slots |-> Null]
  /\ WriteBlock = FirstBlock /\ ReadBlock = FirstBlock
  /\ WriteIndex = BlockSize - 1 /\ ReadIndex = BlockSize - 1
  /\ Space = BlockSize /\ Fill = 0
  /\ adder = [a \in Adders |-> "idle"]
  /\ runner = "check" /\ running = Null
  /\ order = <<>>

\* The tail of ml_scheduler_queue_write: store in the write slot and step it,
\* in a ring whose slots hold mem and whose links are link.
Store(e, mem, link) ==
  /\ Mem' = [mem EXCEPT ![WriteSlot] = e]
  /\ WriteBlock' = SuccIn(link, WriteSlot)[1]
  /\ WriteIndex' = SuccIn(link, WriteSlot)[2]
  /\ Fill' = Fill + 1

WriteInSpace(e) ==
  /\ Space > 0
  /\ Store(e, Mem, BlockNext)
  /\ Space' = Space - 1
  /\ order' = Append(order, WriteSlot)
  /\ UNCHANGED <<Ring, BlockNext, ReadBlock, ReadIndex>>

\* The memcpy and memset of the growth: slots 0 .. ReadIndex of the write block
\* move to the new block b, slots above stay.
Moves(s) == s[1] = WriteBlock /\ s[2] <= ReadIndex
\* mutant: the copy misses the slot of the read position
GrownMemShort(b) ==
  [s \in Slots |-> IF s[1] = b /\ s[2] < ReadIndex THEN Mem[<<WriteBlock, s[2]>>]
                   ELSE IF Moves(s) THEN Null ELSE Mem[s]]
GrownMem(b) ==
  [s \in Slots |-> IF s[1] = b /\ s[2] <= ReadIndex THEN Mem[<<WriteBlock, s[2]>>]
                   ELSE IF Moves(s) THEN Null ELSE Mem[s]]
GrownNext(b) == [BlockNext EXCEPT ![b] = BlockNext[WriteBlock], ![WriteBlock] = b]
GrownOrder(b) ==
  [k \in DOMAIN order |-> IF Moves(order[k]) THEN <<b, order[k][2]>> ELSE order[k]]

WriteGrowing(e) ==
  \E b \in Blocks \ Ring :
    /\ Space = 0
    /\ Store(e, GrownMem(b), GrownNext(b))
    /\ BlockNext' = GrownNext(b)
    /\ Ring' = Ring \union {b}
    /\ ReadBlock' = b
    /\ Space' = BlockSize - 1
    /\ order' = Append(GrownOrder(b), WriteSlot)
    /\ UNCHANGED ReadIndex

\* ml_scheduler_queue_write
Write(e) == WriteInSpace(e) \/ WriteGrowing(e)

\* ml_scheduler_queue_read
Read ==
  /\ running' = Mem[ReadSlot]
  /\ Mem' = [Mem EXCEPT ![ReadSlot] = Null]
  /\ ReadBlock' = Succ(ReadSlot)[1]
  /\ ReadIndex' = Succ(ReadSlot)[2]
  /\ Space' = Space + 1
  /\ Fill' = Fill - 1
  /\ order' = Tail(order)
  /\ UNCHANGED <<Ring, BlockNext, WriteBlock, WriteIndex>>

\* mutant: tests the fill from before the write
AddTestsOldFill(a, e) ==
  /\ adder[a] = "idle"
  /\ Write(e)
  /\ adder' = [adder EXCEPT ![a] = IF Fill = 1 THEN "signal" ELSE "idle"]
  /\ UNCHANGED <<runner, running>>

\* ml_scheduler_queue_add_signal, up to the unlock.  Only the add that makes
\* Fill 1 goes on to signal.
Add(a, e) ==
  /\ adder[a] = "idle"
  /\ Write(e)
  /\ adder' = [adder EXCEPT ![a] = IF Fill' = 1 THEN "signal" ELSE "idle"]
  /\ UNCHANGED <<runner, running>>

\* mutant: the signal wakes nobody
SignalLost(a) ==
  /\ adder[a] = "signal"
  /\ adder' = [adder EXCEPT ![a] = "idle"]
  /\ UNCHANGED <<runner, running, data>>

\* pthread_cond_signal: wakes the runner if it waits, is lost otherwise.
Signal(a) ==
  /\ adder[a] = "signal"
  /\ adder' = [adder EXCEPT ![a] = "idle"]
  /\ runner' = IF runner = "waiting" THEN "check" ELSE runner
  /\ UNCHANGED <<running, data>>

\* A state adds while it runs on the scheduler's own thread.  That thread is
\* not waiting, so its signal wakes nobody.
AddFromRun(e) ==
  /\ runner = "run"
  /\ Write(e)
  /\ UNCHANGED threads

\* ml_scheduler_queue_next_wait, one turn of the loop that holds the lock.
NextWait ==
  /\ runner = "check"
  /\ Fill > 0
  /\ Read
  /\ runner' = "run"
  /\ UNCHANGED adder

WaitForAdd ==
  /\ runner = "check"
  /\ Fill = 0
  /\ runner' = "waiting"
  /\ UNCHANGED <<adder, running, data>>

\* pthread_cond_wait may return without a signal.
SpuriousWakeup ==
  /\ runner = "waiting"
  /\ runner' = "check"
  /\ UNCHANGED <<adder, running, data>>

\* Queued.State->run returns, and the loop calls Scheduler->run again.
RunReturns ==
  /\ runner = "run"
  /\ runner' = "check" /\ running' = Null
  /\ UNCHANGED <<adder, data>>

Next ==
  \/ \E a \in Adders, e \in States : Add(a, e)
  \/ \E a \in Adders : Signal(a)
  \/ \E e \in States : AddFromRun(e)
  \/ NextWait
  \/ WaitForAdd
  \/ SpuriousWakeup
  \/ RunReturns

Spec == Init /\ [][Next]_vars

\* A thread that can take its next step does; nobody is obliged to add, and
\* spurious wake-ups cannot be relied on.
Fairness ==
  /\ WF_vars(NextWait) /\ WF_vars(WaitForAdd) /\ WF_vars(RunReturns)
  /\ \A a \in Adders : WF_vars(Signal(a))

FairSpec == Spec /\ Fairness
------------------------------------------------------------------------------
(* Properties *)

TypeOK ==
  /\ Ring \in SUBSET Blocks
  /\ BlockNext \in [Blocks -> Blocks]
  /\ Mem \in [Slots -> States \union {Null}]
  /\ WriteBlock \in Ring /\ ReadBlock \in Ring
  /\ WriteIndex \in Index /\ ReadIndex \in Index
  /\ Space \in Nat /\ Fill \in Nat
  /\ adder \in [Adders -> {"idle", "signal"}]
  /\ runner \in {"check", "waiting", "run"}
  /\ running \in States \union {Null}
  /\ running # Null <=> runner = "run"
  /\ order \in Seq(Slots)

\* The slots of the ring that hold nothing.
EmptySlots == {s \in RingSlots : Mem[s] = Null}

\* ml_scheduler_queue_write relies on this to grow: a ring without space has
\* its read and write positions in the same slot (the comment at the growth).
FullRingMeets ==
  Space = 0 => ReadBlock = WriteBlock /\ ReadIndex = WriteIndex

\* While Space says there is room, the slot the next write uses holds nothing,
\* so no queued state is ever overwritten.
WriteSlotFree == Space > 0 => Mem[WriteSlot] = Null

\* Space counts the free slots, so ml_scheduler_queue_size and
\* ml_scheduler_queue_fill report the ring's capacity and its contents.
SpaceCounts == Space = Cardinality(EmptySlots)

\* The ring stays one cycle through every block: growing never cuts off a
\* block that holds queued states.
SingleCycle ==
  \A S \in SUBSET Ring :
    S # {} /\ (\A b \in S : BlockNext[b] \in S) => S = Ring

\* The links form one finite cycle.
RingOK ==
  /\ IsFiniteSet(Ring)
  /\ \A b \in Ring : BlockNext[b] \in Ring
  /\ \A b, c \in Ring : BlockNext[b] = BlockNext[c] => b = c
  /\ SingleCycle

\* Reading from the read position along the links meets the occupied slots in
\* the order they were written, ends at the write position, misses none.
OrderOK ==
  /\ Len(order) = Fill
  /\ \A k \in 1 .. Fill : order[k] \in RingSlots /\ Mem[order[k]] # Null
  /\ \A j, k \in 1 .. Fill : order[j] = order[k] => j = k
  /\ \A k \in 1 .. Fill - 1 : Succ(order[k]) = order[k + 1]
  /\ Fill > 0 => order[1] = ReadSlot /\ Succ(order[Fill]) = WriteSlot
  /\ Fill = 0 => ReadSlot = WriteSlot
  /\ \A s \in Slots : Mem[s] # Null => \E k \in 1 .. Fill : order[k] = s

\* What every function of the queue relies on and re-establishes.
QueueInv == RingOK /\ OrderOK /\ SpaceCounts

\* A state that is queued while the runner sleeps has a wake-up on its way:
\* the signal after the unlock cannot be missed.
NoLostWakeup ==
  runner = "waiting" /\ Fill > 0 => \E a \in Adders : adder[a] = "signal"

\* The queue as a sequence: what a refinement of FifoQueue needs.
Contents == [k \in 1 .. Len(order) |-> Mem[order[k]]]

Fifo == INSTANCE FifoQueue WITH queue <- Contents

\* The ring behaves as a FIFO queue: whatever the interleaving of adds, reads
\* and growths, states run once each in the order they were added.
ImplementsFifo == Fifo!Spec

\* Every queued state is run.
EveryStateRuns ==
  \A e \in States : (\E k \in 1 .. Fill : Contents[k] = e) ~> running = e
==============================================================================
