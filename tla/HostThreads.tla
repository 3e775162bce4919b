----------------------------- MODULE HostThreads -----------------------------
(***************************************************************************)
(* Host threads around one scheduler (ml_runtime.c, ML_HOSTTHREADS).  A    *)
(* state that must block its thread (sleep, reading a console line) calls  *)
(* ml_scheduler_split: another thread takes over running the scheduler.    *)
(* When it can go on it calls ml_scheduler_join: it queues a block and     *)
(* waits until the running thread has met that block and handed the        *)
(* scheduler back.  ml_call_wait splits too, and is handed the scheduler   *)
(* back by the completion of its call instead of a block it queued.        *)
(*                                                                         *)
(* The scheduler itself is the FIFO queue of module FifoQueue.  Its states *)
(* are Jobs (script states) and Threads (the block of that thread).        *)
(***************************************************************************)
EXTENDS Integers, Sequences, FiniteSets

CONSTANTS
  Jobs,       \* script states; each is always runnable or blocked
  Sleepers,   \* the jobs that call sleep
  Callers,    \* the jobs that call ml_call_wait
  Threads,    \* threads that may exist at once: bounds the model
  Main,       \* the thread that runs the loop at the end of minilang.c's main
  MaxIdle,    \* idle threads kept for the next split
  None        \* no block in Scheduler->Resume

ASSUME HostAssumption ==
  /\ IsFiniteSet(Jobs) /\ IsFiniteSet(Threads) /\ Main \in Threads
  /\ Sleepers \subseteq Jobs /\ Callers \subseteq Jobs
  /\ Jobs \intersect Threads = {}
  /\ None \notin Threads \union Jobs
  /\ MaxIdle \in Nat

VARIABLES
  queue,      \* the scheduler's queue
  resume,     \* Scheduler->Resume
  idle,       \* the NextThread stack, top first
  numIdle,    \* NumIdle
  pc,         \* where each thread is
  job,        \* the job on each thread's stack, or None
  call        \* call[t]: t blocks in ml_call_wait rather than in a sleep

hostVars == <<queue, resume, idle, numIdle, pc, job, call>>

(* pc: "unborn"     not created, or returned from ml_scheduler_thread_fn     *)
(*     "loop"       about to call Scheduler->run                             *)
(*     "running"    in the run() of job[t]                                   *)
(*     "blocked"    split, in the blocking system call                       *)
(*     "joined"     in sem_wait on its own block                             *)
(*     "posted"     its block was posted                                     *)
(*     "check"      Scheduler->run returned                                  *)
(*     "park"       posted another thread's block, about to take ThreadLock  *)
(*     "idle"       on the NextThread stack, in pthread_cond_wait            *)
(*     "signalled"  taken off the stack by a split, not yet awake            *)
Locations == {"unborn", "loop", "running", "blocked", "joined", "posted",
              "check", "park", "idle", "signalled"}

HostInit ==
  /\ \E order \in [1 .. Cardinality(Jobs) -> Jobs] :
       /\ \A j \in Jobs : \E i \in DOMAIN order : order[i] = j
       /\ queue = order
  /\ resume = None
  /\ idle = <<>> /\ numIdle = 0
  /\ pc = [t \in Threads |-> IF t = Main THEN "loop" ELSE "unborn"]
  /\ job = [t \in Threads |-> None]
  /\ call = [t \in Threads |-> FALSE]

\* mutant: the newest state is run first
RunNewest(t) ==
  /\ pc[t] = "loop"
  /\ queue # <<>>
  /\ queue' = SubSeq(queue, 1, Len(queue) - 1)
  /\ LET s == queue[Len(queue)]
     IN  \/ /\ s \in Jobs
            /\ pc' = [pc EXCEPT ![t] = "running"]
            /\ job' = [job EXCEPT ![t] = s]
            /\ UNCHANGED resume
         \/ /\ s \in Threads
            /\ pc' = [pc EXCEPT ![t] = "check"]
            /\ resume' = s
            /\ UNCHANGED job
  /\ UNCHANGED <<idle, numIdle, call>>

\* Scheduler->run: the oldest state is taken off the queue and run.  Running a
\* block (ml_scheduler_thread_resume, ml_call_slow_fn) sets Scheduler->Resume.
Run(t) ==
  /\ pc[t] = "loop"
  /\ queue # <<>>
  /\ queue' = Tail(queue)
  /\ \/ /\ Head(queue) \in Jobs
        /\ pc' = [pc EXCEPT ![t] = "running"]
        /\ job' = [job EXCEPT ![t] = Head(queue)]
        /\ UNCHANGED resume
     \/ /\ Head(queue) \in Threads
        /\ pc' = [pc EXCEPT ![t] = "check"]
        /\ resume' = Head(queue)
        /\ UNCHANGED job
  /\ UNCHANGED <<idle, numIdle, call>>

\* The job is preempted or reschedules itself, and its run() returns.
Yield(t) ==
  /\ pc[t] = "running"
  /\ queue' = Append(queue, job[t])
  /\ job' = [job EXCEPT ![t] = None]
  /\ pc' = [pc EXCEPT ![t] = "check"]
  /\ UNCHANGED <<resume, idle, numIdle, call>>

\* ml_scheduler_split by thread t, which goes to location next: the top idle
\* thread is signalled, or a new thread created.
Split(t, next) ==
  \/ /\ idle # <<>>
     /\ idle' = Tail(idle)
     /\ pc' = [pc EXCEPT ![t] = next, ![Head(idle)] = "signalled"]
  \/ /\ idle = <<>>
     /\ \E w \in Threads :
          /\ pc[w] = "unborn"
          /\ pc' = [pc EXCEPT ![t] = next, ![w] = "loop"]
     /\ UNCHANGED idle

\* ml_scheduler_default_sleep, up to the blocking call.
Sleep(t) ==
  /\ pc[t] = "running" /\ job[t] \in Sleepers
  /\ Split(t, "blocked")
  /\ UNCHANGED <<queue, resume, numIdle, job, call>>

\* mutant: a sleep queues its state before it joins
JoinAfterAdd(t) ==
  /\ pc[t] = "blocked"
  /\ queue' = queue \o <<job[t], t>>
  /\ pc' = [pc EXCEPT ![t] = "joined"]
  /\ UNCHANGED <<resume, idle, numIdle, job, call>>

\* ml_scheduler_join: queue the block and wait on its semaphore.
Join(t) ==
  /\ pc[t] = "blocked"
  /\ queue' = Append(queue, t)
  /\ pc' = [pc EXCEPT ![t] = "joined"]
  /\ UNCHANGED <<resume, idle, numIdle, job, call>>

\* ml_call_wait on a call that did not return at once.  The pending call is in
\* the queue; its completion runs ml_call_slow_fn, so it is the block of t.
CallWait(t) ==
  /\ pc[t] = "running" /\ job[t] \in Callers
  /\ Split(t, "joined")
  /\ queue' = Append(queue, t)
  /\ call' = [call EXCEPT ![t] = TRUE]
  /\ UNCHANGED <<resume, numIdle, job>>

\* sem_wait returns.  A sleep queues its state again and returns to the loop; a
\* call goes on with the job.
Resumed(t) ==
  /\ pc[t] = "posted"
  /\ \/ /\ ~ call[t]
        /\ queue' = Append(queue, job[t])
        /\ job' = [job EXCEPT ![t] = None]
        /\ pc' = [pc EXCEPT ![t] = "check"]
     \/ /\ call[t]
        /\ pc' = [pc EXCEPT ![t] = "running"]
        /\ UNCHANGED <<queue, job>>
  /\ call' = [call EXCEPT ![t] = FALSE]
  /\ UNCHANGED <<resume, idle, numIdle>>

\* mutant: the thread goes on after it posted another
CheckResumeKeeping(t) ==
  /\ pc[t] = "check" /\ t # Main
  /\ pc' = IF resume = None THEN [pc EXCEPT ![t] = "loop"]
           ELSE [pc EXCEPT ![t] = "loop", ![resume] = "posted"]
  /\ resume' = None
  /\ UNCHANGED <<queue, idle, numIdle, job, call>>

\* mutant: Resume is not cleared
CheckResumeStale(t) ==
  /\ pc[t] = "check" /\ t # Main
  /\ pc' = IF resume = None THEN [pc EXCEPT ![t] = "loop"]
           ELSE [pc EXCEPT ![t] = "park", ![resume] = "posted"]
  /\ UNCHANGED <<queue, resume, idle, numIdle, job, call>>

\* The body of the loop in ml_scheduler_thread_fn after Scheduler->run.
CheckResume(t) ==
  /\ pc[t] = "check" /\ t # Main
  /\ \/ /\ resume # None
        /\ pc' = [pc EXCEPT ![t] = "park", ![resume] = "posted"]
        /\ resume' = None
     \/ /\ resume = None
        /\ pc' = [pc EXCEPT ![t] = "loop"]
        /\ UNCHANGED resume
  /\ UNCHANGED <<queue, idle, numIdle, job, call>>

\* The loop of main has no such test: it calls Scheduler->run again.
MainLoops ==
  /\ pc[Main] = "check"
  /\ pc' = [pc EXCEPT ![Main] = "loop"]
  /\ UNCHANGED <<queue, resume, idle, numIdle, job, call>>

\* Under ThreadLock: exit if enough threads are idle, else push and wait.
Park(t) ==
  /\ pc[t] = "park"
  /\ \/ /\ numIdle >= MaxIdle
        /\ pc' = [pc EXCEPT ![t] = "unborn"]
        /\ UNCHANGED <<idle, numIdle>>
     \/ /\ numIdle < MaxIdle
        /\ pc' = [pc EXCEPT ![t] = "idle"]
        /\ idle' = <<t>> \o idle
        /\ numIdle' = numIdle + 1
  /\ UNCHANGED <<queue, resume, job, call>>

\* pthread_cond_wait returns in a signalled thread.
Wake(t) ==
  /\ pc[t] = "signalled"
  /\ pc' = [pc EXCEPT ![t] = "loop"]
  /\ numIdle' = numIdle - 1
  /\ UNCHANGED <<queue, resume, idle, job, call>>

HostNext ==
  \/ \E t \in Threads :
       Run(t) \/ Yield(t) \/ Sleep(t) \/ Join(t) \/ CallWait(t) \/ Resumed(t)
         \/ CheckResume(t) \/ Park(t) \/ Wake(t)
  \/ MainLoops

HostSpec == HostInit /\ [][HostNext]_hostVars

\* Threads that can go on do: each thread's own code is sequential and the
\* kernel schedules it, sleeps end, and a running job reaches its next yield or
\* blocking call.
HostFairness ==
  /\ \A t \in Threads :
       /\ WF_hostVars(Run(t)) /\ WF_hostVars(Join(t)) /\ WF_hostVars(Resumed(t))
       /\ WF_hostVars(CheckResume(t)) /\ WF_hostVars(Park(t)) /\ WF_hostVars(Wake(t))
       /\ WF_hostVars(Yield(t) \/ Sleep(t) \/ CallWait(t))
  /\ WF_hostVars(MainLoops)

FairHostSpec == HostSpec /\ HostFairness
------------------------------------------------------------------------------
(* Properties *)

HostTypeOK ==
  /\ queue \in Seq(Jobs \union Threads)
  /\ resume \in Threads \union {None}
  /\ idle \in Seq(Threads)
  /\ numIdle \in Nat
  /\ pc \in [Threads -> Locations]
  /\ job \in [Threads -> Jobs \union {None}]
  /\ call \in [Threads -> BOOLEAN]

\* The thread that owns the scheduler: it runs states, tests Resume or is about
\* to.  Nothing but this hand-over protects a script's data from two threads.
Owns(t) == pc[t] \in {"loop", "running", "check", "signalled", "posted"}

\* Splits and joins hand the scheduler from thread to thread: at every moment
\* exactly one thread owns it.
OneRunner == \E t \in Threads : Owns(t) /\ \A u \in Threads : Owns(u) => u = t

\* The NextThread stack holds exactly the threads that wait on it, once each,
\* and NumIdle counts them and those signalled but not awake yet; it never
\* exceeds MaxIdle.
IdleThreads ==
  /\ \A i \in 1 .. Len(idle) : pc[idle[i]] = "idle"
  /\ \A i, j \in 1 .. Len(idle) : idle[i] = idle[j] => i = j
  /\ \A t \in Threads : pc[t] = "idle" => \E i \in 1 .. Len(idle) : idle[i] = t
  /\ numIdle = Cardinality({t \in Threads : pc[t] \in {"idle", "signalled"}})
  /\ numIdle <= MaxIdle

\* No job is lost or doubled by the hand-overs: each is either queued once or on
\* the stack of one thread that has a job in hand.
Places(j) ==
  {<<"queue", i>> : i \in {k \in 1 .. Len(queue) : queue[k] = j}}
    \union {<<"thread", t>> : t \in {u \in Threads : job[u] = j}}
JobsConserved ==
  /\ \A j \in Jobs : Cardinality(Places(j)) = 1
  /\ \A t \in Threads :
       job[t] # None <=> pc[t] \in {"running", "blocked", "joined", "posted"}

\* Only a thread that waits for it is ever posted, through one queued block.
BlocksAreJoined ==
  /\ resume # None => pc[resume] = "joined"
  /\ \A i \in 1 .. Len(queue) :
       queue[i] \in Threads =>
         /\ pc[queue[i]] = "joined" /\ queue[i] # resume
         /\ \A k \in 1 .. Len(queue) : queue[k] = queue[i] => k = i

\* The scheduler never stops: whatever is queued is taken off the queue, even
\* while threads sleep.
QueueIsServed ==
  \A e \in Jobs \union Threads :
    (\E i \in 1 .. Len(queue) : queue[i] = e)
      ~> ~ (\E i \in 1 .. Len(queue) : queue[i] = e)

==============================================================================
