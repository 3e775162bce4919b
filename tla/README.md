# A verification project for Minilang

Minilang is an embeddable programming language written in C. Script code runs
in *states* (`ml_state_t`): a state has a `run` function and is continued by
calling it with a value. States are cooperative; a scheduler queue holds the
ones to run next, a host thread at a time runs them, and everything a script
waits with - semaphores, locks, tasks, channels, sequences that call functions,
comparisons of a priority queue, functions of a map - is a state that somebody
must continue later. That is the core logic modelled here: **who continues
whom, exactly once, and what is left in the data structures when code runs in
between.**

All paths below are relative to `src/` of the repository's root.

## 1. Inventory

| Component | Source | State | Operations | What makes it correct |
|---|---|---|---|---|
| Scheduler queue | `src/ml_runtime.c:1100-1290` | ring of blocks, read and write position, `Fill`, `Space`, lock and condition | add, add with signal, next, next with wait, run | FIFO; growth in the middle of a block loses and reorders nothing; a waiting runner is woken |
| Host threads | `src/ml_runtime.c:40-70, 1295-1440`, `src/minilang.c:525-533`, `src/ml_console.c` | stack of idle threads, `NumIdle`, `Scheduler->Resume`, one semaphore per blocked thread | split, join, thread loop, `ml_call_wait`, default sleep | one thread owns the scheduler; every blocked thread gets it back; the queue is always served |
| Semaphores, conditions | `src/ml_runtime.c:1478-1653` | `Value`, ring of waiters; list of waiters | wait, signal; wait, signal, broadcast | units are conserved, nobody waits while one is free, nobody is lost |
| Read-write locks | `src/ml_runtime.c:1655-1766` | `Readers`, `Writers`, ring of waiters | rdlock, wrlock, unlock | exclusion; everybody is let in; code that runs inside of unlock does no harm |
| Channels of script states | `src/ml_runtime.c:1768-1880` | list of messages, open flag, receiver | start, next, send, close | messages in order, each sender answered once, the receiver never asks an empty channel |
| Tasks and task queues | `src/ml_tasks.c:1-431` | value, caller, waiters; `Remaining` of sets; slots and pending list of a queue | task, wait, wait with timeout, wait for a list, done, error, `*`, `+`, then, else, on, queue, cancel | each waiter continued once; slots conserved; sets complete when they say |
| Parallel | `src/ml_tasks.c:433-538` | iterator, `NumRunning`, first error | iterate, next, key, value, end of a call | each pair handled once; the caller continued once; at most the given number run |
| Buffered, diffused | `src/ml_tasks.c:540-887` | ring of entries, lists of free and ready tasks, running calls | iterate, next, key, value, end of a call | the pairs, each with its result, in order or not; the inner iterator asked once at a time; a consumer that asks is answered |
| Threads, ports, thread channels | `src/ml_thread.c` | scheduler queue per thread, ring of messages, one mutex and condition for all channels, mutexes of protected values | thread, join, call of a port, send, recv, use | a function stays in its thread and in one place; channels are bounded queues; receivers are woken |
| Priority queues | `src/ml_pqueue.c` | heap of entries that know their index; the operation that waits for a comparison | insert, entry, next, keep, requeue, adjust, raise, lower, remove | entries know where they are, the highest is first, although comparisons are calls of script code |
| Maps | `src/ml_map.c` | balanced tree, list in one of five orders; states of functions called for a missing key | insert, `[]`, push, put, delete, pop, pull, empty, order, filter, remove, `[]` and missing with a function | tree and list agree; every order is kept; callers share a call |
| Method tables | `src/ml_method.c` | definitions and caches per context | define, lookup | a lookup finds the best definition, also after a new one |
| Modules, libraries, uninitialized values | `src/ml_module.c`, `src/ml_library.c`, `src/ml_runtime.c:440-540` | export tables, slots that await a value | load, export, import, patch | a use before a definition is patched once |
| Hash tables | `src/inthash.c`, `stringmap.c`, `uuidmap.c`, `weakmap.c` | open addressing tables, a tree | insert, search, remove, grow | what was inserted is found |
| Lists, sets, slices, tuples | `ml_list.c`, `ml_set.c`, `ml_slice.c`, `ml_tuple.c` | linked lists, trees, arrays | insert, delete, iterate | as maps |
| Interpreter | `src/ml_bytecode.c` | frame, stack, instruction pointer | some hundred instructions | preempts only between instructions |
| Compiler, parser | `src/ml_compiler.c`, `ml_opcodes.c`, `ml_expr_types.c` | syntax trees | parse, compile | pure translation |
| Debugger, logging, console, input and output, serialisation, numbers, strings, times, arrays, objects, sequences | the other files | | | pure functions, formats, or OS calls |

How they interact:

* A **state** is continued with `State->run(State, Value)`. `ML_CONTINUE`
  (`ml_state_continue`) calls it at once, or adds it to the scheduler's queue
  when the running state has used up its slice. `ml_state_schedule` always adds
  it.
* The **scheduler queue** runs one state after the other. With
  `ML_HOSTTHREADS` the thread that runs it may *split*: before it blocks in
  the OS it lets another thread take over, and afterwards *joins* by queueing
  a block that makes the other thread hand the scheduler back.
* **Semaphores and locks** call `run` themselves, from the signalling state's
  stack; tasks schedule. A **task queue** is itself the state that its tasks
  continue, a **channel** the state that its function returns to.
* **parallel, buffered and diffused** are asked by whoever iterates them, ask
  an inner iterator and call a function; each of the two may answer at once,
  from inside of the handler that asked, or later.
* A **thread** of `ml_thread.c` has a scheduler queue of its own. A port's call
  adds a message to another thread's queue, its answer adds the caller to its own.
* **Priority queues and maps** call script code - comparisons, functions for
  missing keys, filters - with their operation half done.

What is hard about it: interleavings of OS threads around a signal that is
sent outside of a lock (queue), ownership that is handed on through a field
and a semaphore (host threads), rings that grow while their first element is
in the middle (semaphore, lock), callbacks that re-enter the object from
inside of its own loop (lock, channel, parallel), several events that race to
complete the same object (tasks), answers that are on their way while another
one is asked for (parallel, buffered, diffused), and operations that overlap
because each is suspended in a call (priority queue, map).

## 2. Modules

| Module | Models | Extends |
|---|---|---|
| `FifoQueue` | what a scheduler queue promises: put, take, done | |
| `SchedulerQueue` | the ring of blocks and its lock and condition; refines `FifoQueue` | |
| `HostThreads` | threads around one scheduler | |
| `WaiterRing` | the growing ring of waiters, as operators on a record | |
| `Semaphore` | semaphore and condition | `WaiterRing` |
| `RWLock` | read-write lock with its stack of frames | `WaiterRing` |
| `Channel` | channels of script states | |
| `Tasks` | tasks, sets, lists, composed tasks, the task queue | |
| `Parallel` | `parallel`, its iterator and its calls | |
| `Pipe` | what buffered and diffused promise | |
| `Pipeline` | what they share: the iterator, the function, the consumer, continuation | |
| `Buffered`, `Diffused` | the handlers of the two sequences | `Pipeline` |
| `Pipelines` | their composition with a consumer; refines `Pipe` | `Buffered`, `Diffused` |
| `Mailboxes` | what thread channels promise | |
| `Threads` | threads, ports, thread channels, protected values; refines `Mailboxes` | |
| `PQueue` | priority queues | |
| `OrderedMap` | what a map promises: its keys and the order of iteration | |
| `MapTree` | the functions of `ml_map.c` on the tree and the list, as operators | |
| `Maps` | the methods of maps; refines `OrderedMap` | `MapTree` |
| `MapTreeProofs` | lemmas about the tree and the list of one map | `MapTree` |
| `SharedProofs` | proofs about `WaiterRing`, `Semaphore`, `RWLock` and `Maps` | `Semaphore`, `RWLock`, `Maps`, `MapTreeProofs` |
| `SchedulerProofs` | proofs about `SchedulerQueue`, `HostThreads` and `Parallel` | `SchedulerQueue`, `HostThreads`, `Parallel` |
| `...Proofs` | proofs about `Channel`, `Tasks`, `Pipelines`, `Threads` and `PQueue` | their module |
| `MC...` | one per run: what its instance is for | the model |

### SchedulerQueue and FifoQueue

The slots of all blocks are one function `mem` from `<<block, index>>`;
`next` links the blocks into a ring, as `Next` does. `read` and `write` are the
two cursors, which go from the top index of a block down to 0 and then to the
next block. `WriteGrowing` is the branch of `ml_scheduler_queue_write` that
finds no space: it puts a new block behind the write block and moves the slots
that are not yet read from the old one. `Add`, `Signal` and `WaitForAdd` split
`ml_scheduler_queue_add_signal` and `next_wait` where the lock is released:
an adder may be delayed between its unlock and its `pthread_cond_signal`, and
the condition may wake the runner for no reason.
`FifoQueue` is the abstract queue: a sequence, one state taken at a time.

### HostThreads

One program counter per thread. `Run` is the call of `Scheduler->run`, which
runs a job (a script state) or a block; `Split`, `Join`, `CheckResume`, `Park`
and `Wake` are the pieces of `ml_scheduler_split`, `ml_scheduler_join` and
`ml_scheduler_thread_fn` between two synchronisation points. `MainLoops` is
the loop at the end of `main`, which lacks the test of `Resume`. Jobs always
have something to do: they yield, sleep, or make a call that must be waited
for. The scheduler's own queue is the abstract FIFO queue.

### WaiterRing, Semaphore, RWLock

`Push` and `Pop` are the code that every one of `wait`, `rdlock`, `wrlock`,
`signal` and `unlock` repeats, on a record with the fields of the C structs. A
full ring is copied to the start of one of twice the size; the read position
becomes 0 wherever it was, so growth may change the order, but not the
content.

In `Semaphore`, `Acquire` is `ml_semaphore_wait` and `Release` is
`ml_semaphore_signal`, which hands its unit to the first waiter directly. The
three operations of a condition use both. `broadcast` empties the list first
and then works through its own copy (`waking`), one `Visit` at a time, because
each visit calls into the semaphore.

In `RWLock`, `unlock` calls the `run` of the states it lets in, from its loop.
Their code may lock and unlock the same lock, and may continue other states,
before the loop goes on. The variable `stack` holds the frames that wait for a
callee to return, so these interleavings - all on one thread - are explored.
A caller unlocks only what it locked: the code has no check for it.

### Channel

`stack` holds what has been entered, the running one first, and `sched` the
scheduler's queue. `next` with another message in the list runs the receiver
at once and only then replies to the sender of the last one: the reply stays
on the stack below the receiver's code, which may call `next` again, and so on.
`send` continues the receiver only if its message is the head of the list.
The function and its helpers send, end their slices and sleep at will. The
function returns when its helpers have ended, and the receiver closes a channel
only while the function waits for a reply: the code has no test for either,
and continues the receiver twice otherwise (hazards in `PROJECT.json`).

### Tasks

A record per task holds the C struct's fields; `run` names the C function
that the state will run. The functions of `ml_tasks.c` call each other, so
each is an operator on a record `w` of everything they change, and an action
applies one of them to the present (`Now`) and makes the result the next state
(`Becomes`). `Continue` is `ML_CONTINUE`: `preempted` chooses between a direct
run and the scheduler's queue. `CallAll` is the loop of `*`, `+` and the wait
for a list, which may be preempted after any of its sub tasks. A function that
was called for a task is in `calls` until it returns, at once or later.

### Parallel

`parallel_iter_next`, `_key`, `_value` and `parallel_continue` are entered from
each other by way of the iterator and the function, which answer at once or,
when a slice is over, through the scheduler's queue. So `stack` holds the
handlers that have been entered, the running one first; `sched` the queue; and
an action is one handler, up to its tail call. What `parallel_iter_value`
does after the call of the function is a handler of its own, `rest`, below
those that the call enters. `Preempt` is the timer's signal, `Resume` the return of a
call that did not return at once. The iterator is one like a range's
(`src/ml_number.c:2038-2057`): it advances when it is asked, and its key and
value are those of its position. A read of the value of a NULL iterator stops
the model (`crashed`).

### Pipe, Pipeline, Buffered, Diffused, Pipelines

Handlers, `stack` and `sched` are those of `Parallel`; here there is a consumer
besides, which takes a pair and asks for the next one when it likes. `Pipeline`
has the state and the actions that both sequences have: the inner iterator, the
function and the consumer. `Buffered` has the ring of entries with its
positions `use` and `fetch` and with `head`; `Diffused` has the list of free tasks and
that of ready ones, the current one and `Final`. `Pipelines` runs one of the two, as `Cases` says.
The abstract `Pipe` has three sets of pairs, those whose calls run, those whose
results are held and those that were given, and allows no call more than its
size; the refinement reads the first from the open calls and from the answers on their
way, wherever they are.

### Threads and Mailboxes

A host thread is blocked in `join`, in the mutex of a protected value, or in
`pthread_cond_wait`, or it runs a script: its own function (`Main`) or one
that another function's call of a port runs in it (`Fn`). What `send` and `recv` do
between locking the channels' mutex and unlocking it or waiting is one action;
all channels share one condition, so a sleeper may be woken for another
channel, and may wake for no reason. `Mailboxes` maps the ring of each channel
to a sequence.

### PQueue

Every comparison is a call that continues the queue later, so an operation is
cut at each of them: `Compare` adds one to `open`, and `Continued` runs the
function that the queue's `run` names when one returns, with a result or an error. What the
operation goes on with (`Entry`, `Test`, `Parent`) is in the queue itself, so
an operation that begins meanwhile takes its place. A use of a NULL pointer or
of `INT_MAX` as an index stops the model (`broken`): what the program would do
after that is not followed. The array keeps what it holds beyond `count`, as
`remove` of the only entry leaves that entry in the first slot: `keep` reads
the slot whatever the count is, so it goes on there, and stops the model only
if the slot is NULL. A comparison of what is no priority may say
anything (`Outcomes`). Overwriting what no comparison can read any more
(`Settled`) is the one abstraction of the fields that an operation leaves behind.

### MapTree, Maps, OrderedMap

`MapTree` has the functions of the tree, one operator each, on a record with the
root, the list's ends and the nodes: search, insertion, the two rotations,
deletion with its replacement of a node with two children, and the place in the list. Where
the code is recursive they use a recursive function of the node, which the
prover can reason about. A call of `ml_map_remove_internal` changes both the tree and the
list: `RemoveBelow` is its part on the tree, `RemoveLink` that on the list. `Maps` has the methods, and the functions that `[]`
and `missing` call for a key that is not there: its node holds the
call's state until the function returns, other callers join it, and the key
may be set or deleted meanwhile. `filter` takes the list apart and puts a node
back when its function has returned true. `OrderedMap` has the
keys in the order of iteration, and one action for each method: where `Insert` puts a
key and whether `Access` moves it depends on the order, only `Push` and `Put` move
a key whatever the order is, and in a sorted order a new key goes next to a
neighbour. That the keys are those of some ordered map (`Abstract!Spec`) would let
one method do what another one may, so `ImplementsMap` also says that each method of `Maps`
is the action of its own name (`MethodsImplement`).

`OrderedMap` says of LRU and MRU what the code does: LRU keeps what was used last at
the end, so that `pop` takes what was not used the longest, and MRU
keeps it at the start. The comments on the two orders say the reverse (section 3).

## 3. Runs

| Run | Instance | Distinct states | Shows |
|---|---|---|---|
| `SchedulerQueue` | 3 blocks of 2 slots, 2 states, 2 adding threads | 25 092 | `NoLostWakeup`, `ImplementsFifo`, `EveryStateRuns` |
| `HostThreads` | 3 jobs (2 sleep, 1 calls), 5 threads, 1 kept idle | 71 346 | `OneRunner`, `JobsConserved`, `BlocksAreJoined`, `QueueIsServed` |
| `Semaphore` | 5 states, 1 unit, ring of 1 | 17 732 | `UnitsConserved`, `NoIdleUnit`, `BlockedAreQueued`, `BlockedEnter` |
| `RWLock` | 4 states, ring of 1, 1 nested call | 99 728 | `Exclusion`, `WaitersAreQueued`, `SomebodyUnlocks`, `WaitersEnter` |
| `Channel` | a function and 2 helpers, 2 messages each | 284 246 | `ContinuedOnce`, `InOrder`, `NextHasMessage`, `SendersAnswered` |
| `Tasks` | 3 tasks, 1 waiting state, 1 slot | 233 529 | `WaitersListed`, `SlotsConserved`, `WaitersResume` |
| `TasksAll` | product of 2 tasks | | *violation:* `AllComplete` |
| `Parallel` | up to 3 pairs with slices, 5 without; 5 pairs of limits | 233 340 | `RunningCounted`, `AnsweredOnce`, `EachPairOnce`, `CallerAnswered` |
| `Pipelines` | up to 5 pairs, up to 3 calls | 60 116 | `OneRequest`, `ImplementsPipe`, `ConsumerAnswered` |
| `Threads` | 3 threads in 3 casts, channels of 1 and 2, 3 calls each | 142 575 | `CallsConserved`, `OwnThread`, `ImplementsMailboxes`, `ReceiversWake` |
| `PQueue` | 4 entries with 3 priorities, or 3 and 2 open comparisons | 1 028 134 | `PlacesKept`, `HeapOrder` |
| `Maps` | up to 7 keys, up to 3 callers, all orders | 25 297 | `TreeFitsList`, `BalanceKept`, `ImplementsMap`, `SharedCall`, `JoinersAnswered` |

Why the bounds are enough:

* *SchedulerQueue*: two growths happen, from every alignment of the read and the
  write position in a block of two; one adder can be delayed across another's
  whole operation.
* *HostThreads*: with one thread kept idle and up to four others, threads are
  created, parked, signalled and let go, and two sleeps end while a third
  thread makes a call.
* *Semaphore*: the code's ring starts with 4 slots; here with 1, so that it
  grows twice, from each read position it can have.
* *RWLock*: a holder, two waiters that fill the ring and make it grow, and a
  state that arrives from inside of an unlock; one nested call is enough for
  any state to come in at any point of the loop. `MaxCalls` counts only calls
  of script code: unlock's own frames are not limited.
* *Channel*: three senders make lists of up to three messages, so that a
  receiver that `next` runs calls `next` again with one more in the list;
  second messages let a sender come back before others were answered.
* *Tasks*: the first task is made by hand or from a function, the second is
  composed or queued, the third combines them or is queued too: every kind
  meets every kind that it depends on. A task that waits (a set, the queue)
  and a script state that waits give a waiter's list of two. Values are
  `some`, `nil` and `error`, which is what the code tells apart. `Handlers`
  leaves out the forms with an else function; `then` with an else function
  never calls the first one (`src/ml_tasks.c:251`), which no doc speaks about.
  `External` and `Timed` name the kinds of tasks that are completed from
  outside or time out: the code has no guard that keeps the other kinds from
  being completed twice (hazards in `PROJECT.json`).
* *Parallel*: five pairs let two calls run, a third pause the iteration, and
  the rest resume it; three pairs with slices are enough for two requests to be
  on their way while a call returns. Limits are pairs of `MaxRunning` and
  `Burst` (the minimum plus one), with 9 for `SIZE_MAX`. `EachPairOnce` is
  about executions in which no slice ends (see the observations).
* *Pipelines*: five pairs go once around a ring of three and almost twice
  around one of two, with results that arrive in any order; a size of 1 for buffered, which has no
  call in advance. diffused needs a size of 2 and no ends of slices (hazards).
* *Threads*: two senders for one receiver that names one channel or both, with
  rings of one and two that are full and empty in every position; ports that
  call each other's threads in a circle, with a protected value that another
  thread holds; and a mixture. Nobody creates more than two threads.
* *PQueue*: a heap of four has a node with two children, one with one, and
  depth two; three priorities make ties, and less, between every three. Two
  open comparisons let any operation overlap any other, with two entries of one priority; with
  two priorities and two or three entries, those that change places in the heap do. The entries are
  symmetric: nothing compares them but by priority.
* *Maps*: four keys are the first at which a side below the root can become
  unbalanced; with seven a deletion that replaces a node with two children
  leaves a side unbalanced (with six, the rotations on the way up repair it). Three nodes of one key can be in use at a
  time, because a deleted node's function may still run. Methods on three keys are run in
  all five orders, and on four in one of the two that move keys and one that is sorted.

`CHECK_DEADLOCK FALSE` is set where the system may stop: `Semaphore` (everybody
may wait for a condition that nobody signals), `Tasks`, `TasksAll`, `Parallel`
and `Pipelines` (which end), `Threads` (all functions return, or all threads wait for
messages that nobody sends), `PQueue` (`broken`) and `Channel` (all states
have ended). The other models never stop.

### Finding

**The product of tasks does not wait** (`TasksAll`). The test of
`--Remaining` in `ml_task_all_run` is the wrong way round. With an error
from the second task the set is completed twice, and its waiters are
continued twice.

### Where the code departs from its comments

The models follow the code here, and no run checks what the comment says:

* LRU and MRU of maps: new pairs, and pairs that are looked up, go to the
  end with LRU and to the start with MRU (`src/ml_map.c:452-467, 951-955`). The
  comments on the two orders (`src/ml_map.c:51-52`), and
  `docs/library/map.rst:663-664`, say the reverse: start with LRU, end with MRU. The
  examples of `pop` and `pull` in the same document agree with the code.
* `queued` "returns Entry if it is currently in the priority queue"
  (`src/ml_pqueue.c:448`). `keep` with a target of 0 takes the first slot of the array
  for the highest entry whatever `Count` is. After `remove` of the only entry that slot
  still holds it (`:406-409`); if the comparison of `remove` fails or has not
  returned, `keep` goes on (`:278`), and gives its new entry index 0 in a queue that
  counts none (`:243-245`). `queued` then returns an entry that is in no queue, and `requeue`
  does not put it there. `PlacesKept` says that this is the only step of all that does so.
* `lower` moves an entry up and never down (`src/ml_pqueue.c:370-373`), so that `next`
  need not give "the highest priority entry" (`:218`) after it.
* `adjust` "changes the priority of Entry to Priority" (`src/ml_pqueue.c:315`), but
  only moves the entry as if it had (`:301-327`).
* `parallel` runs one call more than "at most Max calls" (`src/ml_tasks.c:501`), because
  `NumRunning` starts at 1 for the iteration and is compared before it is
  incremented for the call (`:472`); it resumes at one more than Min (`:502`).
* `rdlock` does not wait "if there are any writers using or waiting to use" the lock
  (`src/ml_runtime.c:1691`) while an `unlock` runs: that sets `Writers` to 0 and only
  marks the lock again when its loop meets the writer (`:1741-1752`), and a reader that
  it lets in first may run code that calls `rdlock`.

### Observations

What else the models showed about the code, outside of what a run checks:

* A sleep may never end: the loop of `main` runs the block of a thread that
  wants the scheduler back but, unlike `ml_scheduler_thread_fn`, does not look
  at `Scheduler->Resume`. If the next block is run before another thread looks,
  the first thread is forgotten. `QueueIsServed` holds all the same.
* `parallel` skips pairs when a slice ends while an answer of the iterator is in
  the scheduler's queue: a call that returns asks the iterator again. If one of
  the two answers is nil, the other finds `Iter` NULL.
* `diffused` with a size of 1 hangs at the end of its sequence, asks its
  iterator twice when a slice ends, and may lose an error to a later nil.
* A closed channel does not answer the senders in its list, and a receiver
  that has a helper's message is continued a second time when the function returns.
* `recv` wakes no sender, so one that sleeps because its channel was full goes
  on only when somebody sends to another channel.
* `remove` of the last entry, and an operation that begins while another waits
  for a comparison, may use the index `INT_MAX`; `keep` on a queue that never had an
  entry, or whose last one was taken by `next`, reads a NULL entry if its target
  is 0; an error of a comparison is not passed on.
* A map's root is never rebalanced by an insertion. A deletion that puts another
  node in the place of one with two children does not rebalance the nodes
  that were above it, and `ml_map_rebalance` acts on a difference of exactly
  two: insertions 5, 6, 3, 7, 4, 2, 1 and a deletion of 5 leave 3 with a left side of
  depth two and no right one. `BalanceKept` says that this is the only way in which a
  balanced tree gets unbalanced, and that depths below the root stay right. A function for a missing
  key that fails leaves its state as the value: later callers of the key wait
  for ever. `missing` overwrites a value that was set meanwhile. `filter` loses
  the nodes it has not looked at when its function fails.

### Fairness

* *SchedulerQueue*: the runner's and each adder's next step (weak). The code
  is straight-line between the synchronisation points that are modelled; the
  spurious wake-ups are not fair.
* *HostThreads*: every step of a thread (weak): the OS schedules threads, and
  sleeps end. A running job ends its slice.
* *Semaphore, RWLock*: who holds a unit or the lock gives it back (strong,
  because it runs only when the scheduler picks it, and other states run in
  between), and C code runs on (weak). States are not required to wait, to
  lock, or to signal a condition.
* *Channel*: something goes on while anything can (weak, on `Next`), and a receiver that
  runs again and again calls `next` in the end (strong): without it, nobody
  would ask for the messages.
* *Tasks*: the scheduler runs its next state, some sleep ends, some function
  that was called returns (each weak). Nothing forces `done`, so
  `WaitersResume` is about tasks that depend on functions only, and about queued
  tasks that were not cancelled.
* *Parallel, Pipelines*: handlers run to their end and the scheduler serves its queue
  (weak); calls that are open return (weak). The timer need not fire, and the
  consumer need not ask.
* *Threads*: a thread that is not blocked makes its next step (weak, for each):
  it takes what is queued, leaves `join`, locks and unlocks, tests its channel
  again after a wake-up. What a function chooses to do is not forced.
* *Maps*: a function that was called returns (weak, for each caller).

## 4. Proofs

TLAPS checks, for every value of the constants:

* **SchedulerProofs**, about the queue: `TypeCorrect`, `QueueCorrect` (`QueueInv`),
  `GrowthIsSafe` (`FullRingMeets`), `NoOverwrite`, `WakeupNotLost`
  (`NoLostWakeup`), `QueueRefinesFifo` (`ImplementsFifo`). The inductive
  invariant gives each slot of the ring a position (the number of steps from
  the read position); queued states are those at positions below `Fill`. The
  growth step shifts the positions of the moved slots by a block.
* **SchedulerProofs**, about the host threads: `HostTypes`, `OneThreadRuns` (`OneRunner`),
  `IdleThreadsAreKept` (`IdleThreads`), `JobsAreConserved` (`JobsConserved`) and
  `BlocksAreAwaited` (`BlocksAreJoined`). They are inductive together: that one
  thread owns the scheduler needs that a block, queued or in `Resume`, belongs
  to a thread that waits; that it does needs that the queue and the stack of
  idle threads hold nothing twice. Jobs are counted by saying of each whether it
  is in the queue or with a thread.
* **SharedProofs**, about the ring: `PushOK` and `PopOK`: from a sound ring of any
  size, push and pop lead to a sound ring with exactly one waiter more or less.
  The window of occupied slots is a cyclic interval, and both operations move
  one end of it; growth moves it to the start.
* **SharedProofs**, about semaphores: types, `UnitsConserved`, `NoIdleUnit`,
  `BlockedAreQueued` and `CondsAreListed`. They are inductive together: the count
  of units needs the ring to hold blocked states only, the ring needs every
  listed state to be waiting for the condition, and a unit can stay with the
  waiter that gets it only because nobody waits while one is free. `AcquireStep`
  and `ReleaseStep` are proved once and used by all actions.
* **SharedProofs**, about read-write locks: types, `Exclusion`,
  `WaitersAreQueued`, `SomebodyUnlocks` and `MarkHasWriter`, for any depth of
  nested calls. One more part is needed, `MarkInUse`: the lock is marked for
  writers only while somebody is in it. With it, whoever finds the lock closed
  knows that somebody will unlock; without it, a waiter could wait for a mark
  that nobody takes off.
* **SharedProofs** and **MapTreeProofs**, about maps: `MapTypes`, `TreeAndListFit` (`TreeFitsList`) and
  `OneCallPerNode` (`SharedCall`), for every set of integer keys, any number of
  callers and of nodes per key, and through every method. The invariant `MapInv` says
  that there is a set of nodes that are exactly those of the tree and exactly those of
  the list, in both once, the others being in neither; and that the nodes of the map,
  those that functions have been called for, and those that `filter` has yet to look at
  have a value. The last part is what `SharedCall` needs: a function is
  called only for a node without a value, so never for one that is held. A tree is a
  set of nodes with a function that gives every node those below it, and the order of
  their keys (`IsTree`); a list is a sequence without repetition whose neighbours are linked
  both ways (`Chain`). Search, insertion, deletion and the cut of the last node are
  recursive functions: their equations hold because the tree below a child is a smaller set
  (`Recursion`, from the library's well-founded induction over a rank, with the
  predicate replaced by a set), and what they do to the tree is shown by induction on the
  finite set of its nodes (`SetInduction`, `PutTree`, `BelowTree`). Rotations keep the set
  and the order of the nodes (`RebalancedSide`), whatever the depths say.
  `MapsImplementOrderedMap` (`ImplementsMap`) is the refinement: every method, with any
  keys and callers, does to the keys in the order of iteration what that method of an
  ordered map does (`MethodsImplement`), and so the whole does. For it the invariant is read with the list in hand: `InOrder` names the sequence
  of nodes that the links describe, and `EntriesOf` is that of their keys. `SlotList` says where
  the list gets a new node. In the sorted orders it goes beside its parent in the tree, and that this
  is its place among the keys is the one fact about the search that is
  needed (`NextTo`, `IsPlace`): no key of the map is between the new one and the parent's.
  `RemoveList`, `MoveTailList` and `MoveHeadList` are the other changes of the list, and the lemmas
  that begin with `Shows` map each action to an operation of `OrderedMap` or a stutter;
  what a function's return does to the node, and what is forgotten of nodes that nobody
  holds, are stutters.
* **SharedProofs** and **MapTreeProofs**, about balance: `MapsKeepBalance`
  (`BalanceKept`), for every set of keys and callers and through every method. `Level` says of a set of
  nodes that they know their depths and that the differences of their sides are in `E`:
  with all integers for `E` this is `DepthsFit`, with -1 to 1 it is `Balanced` too, and
  one argument serves both. `RebalanceLevel` has the cases of a rotation; `TurnLevel` says what
  `ml_map_rebalance` makes of a node that differs by two at most, and `Near` that the result is as deep as the
  taller side, or one less. `PutTreeLevel` is an insertion: by induction on the nodes
  below, the side of the key gets one deeper at most, so that the node above differs by
  two at most and a rotation, or none, makes it level. `BelowLevel` is a removal: the tree gets one
  less deep at most (`CutLevel`), except where a node with two children goes, whose
  successor or predecessor takes its place without rotations above it (`ReplacedLevel`). Both leave out the
  top, which is the root's case: an insertion leaves the root as it is. `StaysLevel`
  says it of each action, and `LevelStep` of all.
* **ChannelProofs**: `ChannelTypes`, `ContinuedOnlyOnce` (`ContinuedOnce`),
  `ReceivedInOrder` (`InOrder`) and `NextFindsMessage` (`NextHasMessage`), for any helpers,
  any nesting and any ends of slices. The invariant has three parts besides the types. `Once`
  says of each state that it is on its way in one place, or that its message
  is in the list. `Phases` is the life of a channel; while it serves, the
  receiver is on its way exactly if the list is not empty. `Order` says that
  the list is the end of what was sent, and that the receiver has, or is about
  to have, everything up to its head.
* **SchedulerProofs**, about `parallel`: `ParallelTypes`, `CallsAreCounted` (`RunningCounted`) and
  `CallerContinuedOnce` (`AnsweredOnce`), for sequences of any length, all
  limits, any nesting of handlers and any ends of slices. The invariant equates
  `NumRunning` with a count over two sequences and a set; lemmas say how the
  count changes when a handler is put in front or behind or is taken off. That the
  caller was given nil only at the end follows because a handler that could
  still change anything would be in the count.
* **SchedulerProofs**, about `parallel` without slices: `EachPairIsCalledOnce` (`EachPairOnce`), for
  sequences of any length. While no slice has ended, nothing is in the
  scheduler's queue, and every handler on the stack but the running one is the
  `rest` of a call (`Nested`). `InTurn` relates the position of the iterator to
  the number of calls, for each handler that can be the running one; it is
  what a slice destroys (see the observations).
* **TasksProofs**: `SlotsAreConserved` (`SlotsConserved`) and
  `WaitersAreContinuedOnce` (`WaitersListed`), for any finite set of tasks and any
  sub tasks, states and number of slots. The functions of `ml_tasks.c` call
  one another, so each has one lemma about the records that it maps to one
  another, and the actions only put these together; a state that runs may be a
  task, a set, a list or the queue, and a completed task schedules all of its
  waiters (`CallAllStays` is the loop of a set or a list, which may complete the
  set while it is still being registered). The inductive invariant `Inv` has
  these parts:
  - `Sound`: a state that is registered or scheduled somewhere is of a kind
    that can be run there, and the fields of a task fit its kind.
  - `Tokens`: a task that only its own function completes has one call, or one
    value in the scheduler's queue, or one place in the queue, and no value yet. So
    `ml_task_set` finds such a task without a value, although it does not test it.
  - `Slots`: `NumRunning` counts the tasks that have a token on its way, plus the
    completions that the queue has to see. In the middle of a step a slot that
    was given up is not yet counted off; the parameter of `Slots` says so.
  - `Waits` and `Ended`: a state that waits is with one task that has no value, or
    scheduled once; a combination that has its value takes no other.

  `Sound` and `Tokens` need only a finite set of tasks (`TasksInvariance`). For
  the other two the code has no guard, so they are hypotheses, the ones under
  which the run checks the same. `NoneLost`: no queued task is completed by
  `done`, `error` or a timeout, which would free its slot while its function runs
  (`src/ml_tasks.c:380`). `NoneTwice`: there are no products, which complete with
  every error that they get (the finding); `done` and `error` are not called for
  composed tasks and sums, which do not test for a value when their own
  comes; and composed tasks are not waited for with a timeout
  (`src/ml_tasks.c:258`).
* **ThreadsProofs**: `ThreadTypes`, `FunctionsAreInOnePlace` (`CallsConserved`),
  `FunctionsStayHome` (`OwnThread`) and `ChannelsAreMailboxes`
  (`ImplementsMailboxes`), for any threads, channels and capacities. `Spread` says that the scripts
  that threads run or have queued belong to different functions, and to exactly those
  that have begun and not returned; a call of a port and its answer are both
  instances of one lemma, `Moves`, in which a script of a function ends in one
  place and another of the same function appears in a second. `Rings` says that the write
  position is the read position plus the fill, modulo the size; the lemmas
  `Putting` and `Getting` show that the two operations on a ring append to, and
  take from, the sequence it stores.
* **PQueueProofs**: `EntriesKnowTheirPlace` (`PlacesKept`, with `HeapFits`), `HeapsAreOrdered`
  (`HeapOrder`) and `QueueTypes`, for every set of entries and of bounds. Each function
  of the heap has two lemmas about any queue. The first ones are about `Sound`: what is in the heap is at its index, and what an open
  comparison continues names entries. It holds with operations
  that overlap, comparisons that fail and priorities that change meanwhile, until
  `broken`. `Sound` has a parameter: with `Full` it also says that every entry that says it is
  queued is in the heap there, which every step keeps but one, the comparison of `keep`
  that returns to an empty queue (`Refills`). While `disturbed` is "no" that step cannot
  come (`NeverRefills`), since nothing is left in an empty queue between operations
  (`InOrder`). The second ones are about the order, which only operations that are
  left alone keep (`disturbed = "no"`): then the heap is in order, or one
  comparison is open and its result decides which of two heaps is (`Pending`) - the
  heap with an entry that may still rise, the one with an entry that may still
  sink, where the children of the hole are in order with its parent, or the one
  whose first priority is being changed. That both results of a comparison
  lead back is the proof's core.
* **PipelinesProofs**: `IteratorIsAskedOnce` (`OneRequest`), for sequences of any
  length, any size and any calls that stay open. The invariant `PipeInv` counts
  the handlers that fetch a pair, with those in the scheduler's queue: one at most, and
  none while `Head` says that the iterator may be asked. `Lands` and `Falls`
  say how the counts change when a handler is followed by another one, at
  once or through the queue, or by the one below it. diffused has nothing like
  `Head`: there the handler that fetches must be the running one, as nothing is in the
  queue while no slice ends. That is the hypothesis `DiffusedWhole`; with ends
  of slices the second request is real (see the observations).
  `PipelinesImplementPipe` is `ImplementsPipe`, under that hypothesis, and has two halves.
  `BufferedImplementsPipe` is the one about
  buffered, without the hypothesis: slices end anywhere. Its invariant adds
  `BufferedFits` to `PipeInv`. `WindowFits`: the entries from `use` to `fetch` are
  those of the next pairs in order, no more than the ring has, with one for the
  end when nothing more can be fetched. `FetchesFit`: the handler that fetches
  and the position of the iterator agree about the pair. `EntriesFit`: each entry has
  exactly one answer for its own pair - on its way, in an open call, or in it -
  and nothing else is open or on its way; so an answer cannot come to an entry
  that has been used again, which is what the arithmetic modulo the size has
  to ensure. `ConsumerFits`: the consumer waits, has asked, or is served by one
  handler, and a state that waits for an answer (`caller`) is not served by another. `GivenFits`: what was given is
  1, 2, ... with each result under its own key. Then the entries of the ring
  without a value are the pairs that Pipe runs and those with one the pairs that
  it holds (`Sees`), and each handler, with the one that it continues, is `Start`,
  `Return`, `Give`, `End` or a stutter. Handlers under way are counted over the stack and
  the queue together (`Way`, `Moves`), so that a preempted handler needs no
  case of its own.
  `DiffusedImplementsPipe` is the other half, with the hypothesis, for every size (that a size
  of 1 hangs is a matter of liveness). Its invariant adds `DiffusedFits`. One
  handler runs, and below it are only such that wait for it (`OnlyWaits`): a lemma
  for each handler says what runs next (`Onto`). `TasksFit`: a task is in one place - the
  list of free ones, the list of those with results, out on a call, failed - and each one
  in use has a pair of its own; of those with results only the first may have been
  read by the consumer, which is the one that `ml_iter_next` takes out. `ReachFits`: the
  pairs of the tasks in use and those that were read are all that the iterator has given. `WaitingFits`:
  `Waiting` counts the open calls and the results until there is an error, so
  that it is 0 exactly when nil may be given. `FetchedFits` and `AnswerFits` tie the running
  handler to the pair it fetches or whose result it has, `ReaderFits` to the consumer.

Assumptions: the ones named in the modules (`...Assumption`): finite sets of
states, ring sizes of at least 1, names that differ. `QueueInv`, `FullRingMeets`,
`CondsAreListed`, `MarkHasWriter`, `IdleThreads` and the types are proved and
not checked by a run of their own.

Only model-checked: liveness (`EveryStateRuns`, `QueueIsServed`, `BlockedEnter`,
`WaitersEnter`, `SendersAnswered`, `WaitersResume`, `CallerAnswered`, `ConsumerAnswered`,
`ReceiversWake`, `JoinersAnswered`), which is beyond the prover, as is anything
else with ENABLED; `AllComplete` is violated. Every invariant, action
property and refinement that a passing run checks is a theorem, with the hypotheses
above where there are any.

## 5. Not modelled

* Spurious wake-ups of an idle host thread (`src/ml_runtime.c:1349` has no
  loop around `pthread_cond_wait`): the step after it calls a NULL function.
* `ml_scheduler_queue_inspect`, which nothing calls.
* The function that a task queue calls when it is empty; it only logs errors.
* A timeout for a task that was made by `task()`: such a task has no context
  and cannot be scheduled.
* The conditions of `ml_thread.c`, whose methods only call pthread functions,
  `lock` and `unlock` of its mutexes by scripts, and its check for values that
  may cross threads.
* `splice` and `take`, which move nodes between maps (`splice` corrupts the
  list if a key is in both), iterators over a map that changes, and the copies
  of the tree's search for string and integer keys. `ml_set.c` and
  `stringmap.c` repeat the tree of `ml_map.c`.
* The weak map (`src/weakmap.c`): which entries are empty depends on when the
  garbage collector runs. The insertion of a displaced entry is a hazard in
  `PROJECT.json`.
* The interpreter and the compiler: pure, sequential translations and an
  instruction set of some hundred opcodes, whose states are beyond TLC. That a
  script may be preempted between instructions is in the other models.
* The libraries of numbers, strings, arrays, formats, files: no state that
  evolves, or the state of the operating system. They are most of the code by
  lines, and have no behaviour that interleavings or orders change.

## 6. Plan

Done, in this order: SchedulerQueue, HostThreads, WaiterRing, Semaphore,
RWLock, Tasks, Parallel, Pipelines, Threads, PQueue, Channel, Maps, and the
proofs listed above. What remains, in order of interest:

1. The weak map with a collector that clears any entry at any time.
2. `splice` and iterators of maps; the caches of method tables.
