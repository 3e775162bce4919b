-------------------------------- MODULE Tasks --------------------------------
(***************************************************************************)
(* Tasks and task queues (ml_tasks.c).  A task is a state that gets its    *)
(* value from a function called for it, from done or error, from its sub   *)
(* tasks, or from a timeout; states that wait for it are its Caller and    *)
(* its Waiters, and are put into the scheduler's queue with the value.     *)
(* ML_CONTINUE runs a state at once or, after a preemption, puts it into   *)
(* the scheduler's queue: both are modelled (preempted).                   *)
(***************************************************************************)
EXTENDS Integers, Sequences, FiniteSets, SequencesExt

CONSTANTS
  Procs,       \* script states that wait for tasks
  Tasks,       \* tasks that may be made: bounds the model
  KindsOf,     \* KindsOf[t]: the ways in which task t may be made
  Handlers,    \* the functions composed tasks are made with
  Subs,        \* lists of sub tasks that are combined
  External,    \* kinds of tasks that done or error may be called for
  Timed,       \* kinds of tasks that are waited for with a timeout
  MaxRunning,  \* of the queue
  Queue, None

\* A "list" is the state that waits for a list of tasks.
Kinds == {"manual", "function", "composed", "queued", "all", "any", "list"}

ASSUME TasksAssumption ==
  /\ KindsOf \in [Tasks -> SUBSET Kinds]
  /\ Handlers \subseteq {{"then"}, {"then", "else"}, {"else"}, {"on"}}
  /\ Subs \subseteq Seq(Tasks) /\ <<>> \notin Subs
  /\ "manual" \notin Timed
  /\ MaxRunning \in Nat \ {0}
  /\ Queue \notin Tasks \union Procs \union {None}
  /\ None \notin Tasks \union Procs
  /\ Procs \intersect Tasks = {}

VARIABLES
  task,        \* the ml_task_t of each task
  calls,       \* the functions called for each task that have not returned
  timers,      \* tasks that sleep for a timeout: at most once each
  sched,       \* the scheduler's queue: pairs <<state, value>>
  at,          \* the task each script state waits for, or None
  pending,     \* the tasks from the queue's Head to its Tail
  numRunning   \* of the queue

vars == <<task, calls, timers, sched, at, pending, numRunning>>

Results == {"some", "nil", "error"}
Unset == "unset"

\* run names the C function that the state runs; handlers are the functions Then,
\* Else and On of a composed task; subs the Tasks of a set.
NewTask(run, caller, handlers, subs) ==
  [run |-> run, value |-> Unset, caller |-> caller, waiters |-> <<>>,
   remaining |-> Len(subs), handlers |-> handlers, subs |-> subs]

Done(t) == task[t].value # Unset

\* How task t was made.
Kind(t) ==
  LET r == task[t]
  IN  CASE r.run = "none" -> "manual"
        [] r.handlers # {} -> "composed"
        [] r.run = "task" -> IF r.caller = Queue THEN "queued" ELSE "function"
        [] OTHER -> r.run
Born(t) == Kind(t) # "unborn"

\* Scripts have t: they never see the state that waits for a list.
Known(t) == Born(t) /\ Kind(t) # "list"

\* What a function or done gives: only ml_task_composed_run tells nil from other
\* values.
ResultsOf(t) == IF task[t].run = "composed" THEN Results ELSE {"some", "error"}

Init ==
  /\ task = [t \in Tasks |-> NewTask("unborn", None, {}, <<>>)]
  /\ calls = [t \in Tasks |-> {}]
  /\ timers = {} /\ sched = <<>>
  /\ at = [p \in Procs |-> None]
  /\ pending = <<>> /\ numRunning = 0
------------------------------------------------------------------------------
(* The functions of ml_tasks.c call one another, so they are operators on a  *)
(* record w of everything that they change.                                  *)

Now == [task |-> task, calls |-> calls, sched |-> sched, at |-> at,
        pending |-> pending, numRunning |-> numRunning]

Becomes(w) ==
  /\ task' = w.task /\ calls' = w.calls /\ sched' = w.sched
  /\ at' = w.at /\ pending' = w.pending /\ numRunning' = w.numRunning

Schedule(w, s, v) == [w EXCEPT !.sched = Append(@, <<s, v>>)]

\* ml_task_call for a task without a value: state s waits for it.
Await(w, s, t) ==
  IF w.task[t].caller = None THEN [w EXCEPT !.task[t].caller = s]
  ELSE [w EXCEPT !.task[t].waiters = <<s>> \o @]

\* ml_task_set: whoever waits is scheduled, the newest first.
SetTask(w, t, v) ==
  LET r == w.task[t]
      all == IF r.caller = None THEN <<>> ELSE Append(r.waiters, r.caller)
  IN  [w EXCEPT !.task[t].value = v,
                !.sched = @ \o [i \in 1 .. Len(all) |-> <<all[i], v>>]]

\* mutant: a task that has a value is set again
TaskRunAgain(w, t, v) == SetTask(w, t, v)

\* ml_task_run.
TaskRun(w, t, v) == IF w.task[t].value = Unset THEN SetTask(w, t, v) ELSE w

\* ml_task_composed_run: calls the function for this kind of value, if it has it.
ComposedRun(w, t, v) ==
  LET has == w.task[t].handlers
      calling == CASE v = "error" -> "on" \in has
                   [] v = "nil" -> "else" \in has
                   [] OTHER -> "then" \in has /\ "else" \notin has
  IN  IF calling
      THEN [w EXCEPT !.task[t].run = "task", !.calls[t] = @ \union {"handler"}]
      ELSE SetTask(w, t, v)

\* Remaining after a sub task of a set or of a list gave v.
Left(r, v) ==
  IF r.remaining = 0 \/ v = "error" \/ r.run = "any" THEN 0
  ELSE r.remaining - 1

\* The value v of a sub task completes the set, or ends the wait for the list.
Ends(r, v) ==
  /\ r.remaining # 0
  /\ \/ v = "error" \/ r.run = "any"
     \/ r.run = "all" /\ r.remaining - 1 # 0
     \/ r.run = "list" /\ r.remaining - 1 = 0

\* ml_task_all_run and ml_task_any_run.
SetRun(w, t, v) ==
  LET r == w.task[t]
      x == [w EXCEPT !.task[t].remaining = Left(r, v)]
  IN  IF Ends(r, v) THEN SetTask(x, t, v) ELSE x

\* ml_task_list_run.  Its value stands for the end of the wait.
ListRun(w, t, v, preempted) ==
  LET r == w.task[t]
      x == [w EXCEPT !.task[t].remaining = Left(r, v)]
      y == [x EXCEPT !.task[t].value = v]
  IN  IF ~ Ends(r, v) THEN x
      ELSE IF preempted THEN Schedule(y, r.caller, v)
      ELSE [y EXCEPT !.at[r.caller] = None]

\* mutant: the slot is given up although a task that was pending takes it over
QueueRunFreeing(w) ==
  IF w.pending # <<>>
  THEN [w EXCEPT !.pending = Tail(@), !.calls[Head(w.pending)] = {"fn"},
                 !.numRunning = @ - 1]
  ELSE [w EXCEPT !.numRunning = @ - 1]

\* mutant: pending tasks are left for the next call of the queue
QueueRunLazy(w) == [w EXCEPT !.numRunning = @ - 1]

\* ml_task_queue_run, but for the function that is called when nothing runs.
QueueRun(w) ==
  IF w.pending # <<>>
  THEN [w EXCEPT !.pending = Tail(@), !.calls[Head(w.pending)] = {"fn"}]
  ELSE [w EXCEPT !.numRunning = @ - 1]

\* State s runs with value v.
Run(w, s, v, preempted) ==
  IF s \in Procs THEN [w EXCEPT !.at[s] = None]
  ELSE IF s = Queue THEN QueueRun(w)
  ELSE CASE w.task[s].run = "task" -> TaskRun(w, s, v)
         [] w.task[s].run = "composed" -> ComposedRun(w, s, v)
         [] w.task[s].run = "list" -> ListRun(w, s, v, preempted)
         [] OTHER -> SetRun(w, s, v)

\* ML_CONTINUE.
Continue(w, s, v, preempted) ==
  IF preempted THEN Schedule(w, s, v) ELSE Run(w, s, v, preempted)

\* ml_task_call.
CallTask(w, s, t, preempted) ==
  IF w.task[t].value # Unset
  THEN Continue(w, s, w.task[t].value, preempted)
  ELSE Await(w, s, t)

\* The loop of *, + and the wait for a list: it is preempted after k sub tasks.
CallAll(w, t, k) ==
  LET subs == w.task[t].subs
      after[i \in 0 .. Len(subs)] ==
        IF i = 0 THEN w ELSE CallTask(after[i - 1], t, subs[i], i > k)
  IN  after[Len(subs)]
------------------------------------------------------------------------------
(* The operations.  Each is called by a script state that executes.          *)

Make(w, t, new) == [w EXCEPT !.task[t] = new]

MakeManual(t) ==
  /\ "manual" \in KindsOf[t] /\ ~ Born(t)
  /\ Becomes(Make(Now, t, NewTask("none", None, {}, <<>>)))
  /\ UNCHANGED timers

\* task(Fn): the function may return at once or later.
MakeTask(t) ==
  /\ "function" \in KindsOf[t] /\ ~ Born(t)
  /\ Becomes([Make(Now, t, NewTask("task", None, {}, <<>>))
                EXCEPT !.calls[t] = {"fn"}])
  /\ UNCHANGED timers

\* then (with one or two functions), else and on.
MakeComposed(t) ==
  /\ "composed" \in KindsOf[t] /\ ~ Born(t)
  /\ \E has \in Handlers :
       Becomes([Make(Now, t, NewTask("composed", None, has, <<>>))
                  EXCEPT !.calls[t] = {"fn"}])
  /\ UNCHANGED timers

\* * and +, of tasks that exist.
MakeSet(t) ==
  /\ ~ Born(t)
  /\ \E subs \in Subs, run \in {"all", "any"} \intersect KindsOf[t] :
       /\ Len(subs) >= 2 /\ \A x \in ToSet(subs) : Known(x)
       /\ \E k \in 0 .. Len(subs) :
            Becomes(CallAll(Make(Now, t, NewTask(run, None, {}, subs)), t, k))
  /\ UNCHANGED timers

\* wait, for a list of tasks.
WaitList(p, t) ==
  /\ "list" \in KindsOf[t] /\ at[p] = None /\ ~ Born(t)
  /\ \E subs \in Subs :
       /\ \A x \in ToSet(subs) : Known(x)
       /\ \E k \in 0 .. Len(subs) :
            Becomes(CallAll([Make(Now, t, NewTask("list", p, {}, subs))
                               EXCEPT !.at[p] = t], t, k))
  /\ UNCHANGED timers

\* The task has no value, else wait returns it and done and error an error.
Open(t) == Known(t) /\ ~ Done(t)

Wait(p, t) ==
  /\ at[p] = None /\ Open(t)
  /\ Becomes([Await(Now, p, t) EXCEPT !.at[p] = t])
  /\ UNCHANGED timers

\* wait, with a timeout: the task itself sleeps, and is run with nil at once if
\* the time is not positive.
WaitFor(p, t) ==
  /\ Kind(t) \in Timed /\ at[p] = None /\ Open(t)
  /\ LET w == [Await(Now, p, t) EXCEPT !.at[p] = t]
     IN  \/ t \notin timers /\ Becomes(w) /\ timers' = timers \union {t}
         \/ \E preempted \in BOOLEAN :
              /\ Becomes(Continue(w, t, "nil", preempted))
              /\ UNCHANGED timers

\* The sleep ends.
Timeout(t) ==
  /\ t \in timers /\ timers' = timers \ {t}
  /\ Becomes(Schedule(Now, t, "error"))

\* done and error.
SetDone(t) ==
  /\ Kind(t) \in External /\ Open(t)
  /\ \E v \in ResultsOf(t) : Becomes(SetTask(Now, t, v))
  /\ UNCHANGED timers

\* A function called for the task returns.
Return(t) ==
  /\ \E f \in calls[t], v \in ResultsOf(t), preempted \in BOOLEAN :
       Becomes(Continue([Now EXCEPT !.calls[t] = @ \ {f}], t, v, preempted))
  /\ UNCHANGED timers

\* A call of the queue.
CallQueue(t) ==
  /\ "queued" \in KindsOf[t] /\ ~ Born(t)
  /\ LET w == Make(Now, t, NewTask("task", Queue, {}, <<>>))
     IN  Becomes(IF numRunning < MaxRunning
                 THEN [w EXCEPT !.numRunning = @ + 1, !.calls[t] = {"fn"}]
                 ELSE [w EXCEPT !.pending = Append(@, t)])
  /\ UNCHANGED timers

Cancel ==
  /\ pending # <<>>
  /\ Becomes([Now EXCEPT !.pending = <<>>])
  /\ UNCHANGED timers

\* The scheduler runs the next state.
RunNext ==
  /\ sched # <<>>
  /\ \E preempted \in BOOLEAN :
       Becomes(Run([Now EXCEPT !.sched = Tail(@)],
                   Head(sched)[1], Head(sched)[2], preempted))
  /\ UNCHANGED timers

Next ==
  \/ \E t \in Tasks :
       MakeManual(t) \/ MakeTask(t) \/ MakeComposed(t) \/ MakeSet(t)
         \/ Timeout(t) \/ SetDone(t) \/ Return(t) \/ CallQueue(t)
         \/ \E p \in Procs : Wait(p, t) \/ WaitFor(p, t) \/ WaitList(p, t)
  \/ Cancel \/ RunNext

Spec == Init /\ [][Next]_vars

\* The scheduler's queue is served, sleeps end and the functions that are called
\* for tasks return.
Fairness ==
  /\ WF_vars(RunNext)
  /\ WF_vars(\E t \in Tasks : Timeout(t))
  /\ WF_vars(\E t \in Tasks : Return(t))

FairSpec == Spec /\ Fairness
------------------------------------------------------------------------------
(* Properties *)

States == Procs \union Tasks \union {Queue}

TypeOK ==
  /\ task \in [Tasks ->
       [run : {"unborn", "none", "task", "composed", "all", "any", "list"},
        value : Results \union {Unset}, caller : States \union {None},
        waiters : Seq(States), remaining : Nat,
        handlers : SUBSET {"then", "else", "on"}, subs : Subs \union {<<>>}]]
  /\ calls \in [Tasks -> SUBSET {"fn", "handler"}]
  /\ timers \subseteq Tasks
  /\ sched \in Seq(States \X Results)
  /\ at \in [Procs -> Tasks \union {None}]
  /\ pending \in Seq(Tasks)
  /\ numRunning \in Nat

\* Where state p is going to be continued from.
Places(p) ==
  {<<"caller", t>> : t \in {x \in Tasks : ~ Done(x) /\ task[x].caller = p}}
    \union
  (UNION {{<<"waiter", t, i>> :
             i \in {k \in 1 .. Len(task[t].waiters) : task[t].waiters[k] = p}} :
          t \in {x \in Tasks : ~ Done(x)}})
    \union
  {<<"sched", i>> : i \in {k \in 1 .. Len(sched) : sched[k][1] = p}}

\* A state that waits will be continued, once: it is registered with the task it
\* waits for or, when that has its value, scheduled; and nobody else is.
WaitersListed ==
  \A p \in Procs :
    /\ Cardinality(Places(p)) = IF at[p] = None THEN 0 ELSE 1
    /\ \A x \in Places(p) : x[1] # "sched" => x[2] = at[p]

\* A function was called for t and its value has not reached t yet.
Started(t) ==
  /\ Born(t) /\ ~ Done(t)
  /\ calls[t] # {} \/ \E i \in 1 .. Len(sched) : sched[i][1] = t

\* The queue's slots are neither lost nor handed out twice: NumRunning counts its
\* tasks that have been started and have no value and the completions that it
\* has yet to see; and no task is pending while a slot is free.
SlotsConserved ==
  /\ numRunning =
       Cardinality({t \in Tasks : Kind(t) = "queued" /\ Started(t)})
         + Cardinality({i \in 1 .. Len(sched) : sched[i][1] = Queue})
  /\ numRunning <= MaxRunning
  /\ pending # <<>> => numRunning = MaxRunning

\* Task t gets its value from functions, which return, and not only from done;
\* and it was not cancelled before its function was called.
Settles(t) ==
  \/ Kind(t) \in {"function", "composed"}
  \/ Kind(t) = "queued" /\ (Done(t) \/ Started(t) \/ t \in ToSet(pending))
AllSettle(t) ==
  IF task[t].subs = <<>> THEN Settles(t)
  ELSE \A x \in ToSet(task[t].subs) : Settles(x)

\* Whoever waits for such a task, or a combination of such tasks, is continued.
WaitersResume ==
  \A p \in Procs :
    at[p] # None /\ AllSettle(at[p]) ~> at[p] = None \/ ~ AllSettle(at[p])

\* The comment on *: it "completes when all of its sub tasks complete, or any
\* raises an error".
AllComplete ==
  \A t \in Tasks :
    Kind(t) = "all" /\ Done(t) /\ task[t].value # "error"
      => \A x \in ToSet(task[t].subs) : Done(x)
==============================================================================
