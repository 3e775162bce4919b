------------------------------ MODULE Parallel ------------------------------
(***************************************************************************)
(* parallel (ml_tasks.c): iterates through a sequence and calls a function  *)
(* for each of its pairs without waiting for the call to return.           *)
(*                                                                         *)
(* The iterator and the function answer with ML_CONTINUE: at once, from     *)
(* inside of the code that asked them, so that the handlers of parallel     *)
(* nest; or, once the slice is over (MLPreempt < 0), through the            *)
(* scheduler's queue.  A call of the function may also stay away until      *)
(* something outside resumes it.                                            *)
(***************************************************************************)
EXTENDS Integers, Sequences, FiniteSets

CONSTANTS
  Cases,     \* pairs of the length of a sequence and of whether slices may
             \* end, which they do not when the queue has no timer
  Limits     \* pairs of MaxRunning and Burst

ASSUME ParallelAssumption ==
  /\ Cases \subseteq Nat \X BOOLEAN
  /\ Limits \subseteq Nat \X Nat

VARIABLES
  length, maxRunning, burst, sliced,   \* do not change
  stack,       \* the handlers that have been entered, the running one first
  sched,       \* the scheduler's queue: the handlers that it will run
  preempt,     \* MLPreempt < 0
  position,    \* of the iterator: the pair that its key and value give
  iter,        \* Parallel->Iter is not NULL
  key,         \* Args[0]
  numRunning,  \* NumRunning
  error,       \* Parallel->Error is not NULL
  called,      \* the pairs the function was called with, in order
  open,        \* the calls of it that have not returned: indices into called
  answers,     \* what the caller was continued with
  crashed      \* the value of a NULL iterator was asked for

fixed == <<length, maxRunning, burst, sliced>>
parallelVars ==
  <<fixed, stack, sched, preempt, position, iter, key, numRunning, error, called, open,
    answers, crashed>>

\* A handler and its argument.  "rest" is what parallel_iter_value does after it
\* called the function.
Frames ==
  ({"next"} \X {"iter", "nil", "error"}) \union ({"key", "value"} \X Nat)
    \union ({"continue"} \X {"nil", "error"}) \union {<<"iterate", 0>>, <<"rest", 0>>}

ParallelInit ==
  /\ \E c \in Cases : length = c[1] /\ sliced = c[2]
  /\ \E l \in Limits : maxRunning = l[1] /\ burst = l[2]
  /\ stack = << <<"iterate", 0>> >> /\ sched = <<>> /\ preempt = FALSE
  /\ position = 0 /\ iter = FALSE /\ key = 0
  /\ numRunning = 1 /\ error = FALSE
  /\ called = <<>> /\ open = {} /\ answers = <<>> /\ crashed = FALSE
------------------------------------------------------------------------------
Runs(handler) == stack # <<>> /\ stack[1][1] = handler /\ ~ crashed

\* mutant: every continuation goes through the queue
ContinueLater(f, rest) == stack' = rest /\ sched' = Append(sched, f)

\* The running handler ends with ML_CONTINUE(f); rest is what is left to do for
\* the handlers below it.
Continue(f, rest) ==
  IF preempt THEN stack' = rest /\ sched' = Append(sched, f)
             ELSE stack' = <<f>> \o rest /\ sched' = sched

Returns == stack' = Tail(stack) /\ sched' = sched

\* mutant: an error that was reported does not stop the iteration
NeverStopped == FALSE

\* Parallel->Error is tested first by every handler.
Stopped == error

\* ml_iter_next: the iterator advances, and answers itself, nil or an error.
AskNext ==
  /\ position' = position + 1
  /\ \E x \in {IF position < length THEN "iter" ELSE "nil", "error"} :
       Continue(<<"next", x>>, Tail(stack))

\* parallel has set itself up and calls ml_iterate.
Iterate ==
  /\ Runs("iterate") /\ AskNext
  /\ UNCHANGED <<fixed, preempt, iter, key, numRunning, error, called, open,
                 answers, crashed>>

ParallelIterNext ==
  /\ Runs("next")
  /\ LET x == stack[1][2]
     IN  \/ /\ Stopped /\ Returns
            /\ UNCHANGED <<iter, error, answers>>
         \/ /\ ~ Stopped /\ x = "nil" /\ iter' = FALSE
            /\ Continue(<<"continue", "nil">>, Tail(stack))
            /\ UNCHANGED <<error, answers>>
         \/ /\ ~ Stopped /\ x = "error" /\ error' = TRUE
            /\ answers' = Append(answers, "error") /\ Returns
            /\ UNCHANGED iter
         \/ /\ ~ Stopped /\ x = "iter" /\ iter' = TRUE
            /\ Continue(<<"key", position>>, Tail(stack))
            /\ UNCHANGED <<error, answers>>
  /\ UNCHANGED <<fixed, preempt, position, key, numRunning, called, open, crashed>>

\* Asks Iter for the value, which nil has made NULL when two answers of the
\* iterator were on their way.
ParallelIterKey ==
  /\ Runs("key")
  /\ \/ Stopped /\ Returns /\ UNCHANGED <<key, crashed>>
     \/ /\ ~ Stopped /\ key' = stack[1][2]
        /\ IF iter THEN /\ Continue(<<"value", position>>, Tail(stack))
                        /\ UNCHANGED crashed
                   ELSE Returns /\ crashed' = TRUE
  /\ UNCHANGED <<fixed, preempt, position, iter, numRunning, error, called, open,
                 answers>>

\* Calls the function, which returns at once or stays open.
ParallelIterValue ==
  /\ Runs("value")
  /\ LET rest == << <<"rest", 0>> >> \o Tail(stack)
         pair == <<key, stack[1][2]>>
     IN  \/ Stopped /\ Returns /\ UNCHANGED <<called, open>>
         \/ /\ ~ Stopped /\ called' = Append(called, pair)
            /\ \E x \in {"nil", "error"} : Continue(<<"continue", x>>, rest)
            /\ UNCHANGED open
         \/ /\ ~ Stopped /\ called' = Append(called, pair)
            /\ open' = open \union {Len(called) + 1}
            /\ stack' = rest /\ UNCHANGED sched
  /\ UNCHANGED <<fixed, preempt, position, iter, key, numRunning, error, answers,
                 crashed>>

Paused == numRunning > maxRunning

\* mutant: the request to the iterator is not counted
RestUncounted ==
  /\ Runs("rest")
  /\ IF iter /\ ~ Paused THEN AskNext ELSE Returns /\ UNCHANGED position
  /\ UNCHANGED <<fixed, preempt, iter, key, numRunning, error, called, open,
                 answers, crashed>>

\* The rest of parallel_iter_value.
ParallelIterRest ==
  /\ Runs("rest")
  /\ IF iter /\ ~ Paused
     THEN AskNext /\ numRunning' = numRunning + 1
     ELSE Returns /\ UNCHANGED <<position, numRunning>>
  /\ UNCHANGED <<fixed, preempt, iter, key, error, called, open, answers, crashed>>

\* mutant: the comparison is the wrong way round
ResumesMany(n) == n > burst

\* The running calls are few enough to resume the iteration.
Resumes(n) == n <= burst

ParallelContinue ==
  /\ Runs("continue")
  /\ LET failed == stack[1][2] = "error"
         n == numRunning - 1
     IN  \/ /\ Stopped /\ Returns
            /\ UNCHANGED <<position, numRunning, error, answers>>
         \/ /\ ~ Stopped /\ failed /\ error' = TRUE
            /\ answers' = Append(answers, "error") /\ Returns
            /\ UNCHANGED <<position, numRunning>>
         \/ /\ ~ Stopped /\ ~ failed /\ iter /\ Resumes(n)
            /\ AskNext /\ UNCHANGED <<numRunning, error, answers>>
         \/ /\ ~ Stopped /\ ~ failed /\ iter /\ ~ Resumes(n)
            /\ Returns /\ numRunning' = n
            /\ UNCHANGED <<position, error, answers>>
         \/ /\ ~ Stopped /\ ~ failed /\ ~ iter /\ Returns /\ numRunning' = n
            /\ answers' = IF n = 0 THEN Append(answers, "nil") ELSE answers
            /\ UNCHANGED <<position, error>>
  /\ UNCHANGED <<fixed, preempt, iter, key, called, open, crashed>>

\* A call that stayed open is resumed from outside, and returns.
Resume(i) ==
  /\ stack = <<>> /\ ~ crashed /\ i \in open
  /\ open' = open \ {i}
  /\ \E x \in {"nil", "error"} : Continue(<<"continue", x>>, <<>>)
  /\ UNCHANGED <<fixed, preempt, position, iter, key, numRunning, error, called,
                 answers, crashed>>

\* ml_scheduler_queue_run, whose taking of an entry starts a slice.
RunNext ==
  /\ stack = <<>> /\ sched # <<>> /\ ~ crashed
  /\ stack' = <<Head(sched)>> /\ sched' = Tail(sched) /\ preempt' = FALSE
  /\ UNCHANGED <<fixed, position, iter, key, numRunning, error, called, open,
                 answers, crashed>>

\* ml_preempt: the timer's signal ends the slice.
Preempt ==
  /\ sliced /\ stack # <<>> /\ ~ preempt /\ ~ crashed /\ preempt' = TRUE
  /\ UNCHANGED <<fixed, stack, sched, position, iter, key, numRunning, error,
                 called, open, answers, crashed>>

Step ==
  \/ Iterate \/ ParallelIterNext \/ ParallelIterKey \/ ParallelIterValue
  \/ ParallelIterRest \/ ParallelContinue \/ RunNext

ParallelNext == Step \/ Preempt \/ \E i \in open : Resume(i)

ParallelSpec == ParallelInit /\ [][ParallelNext]_parallelVars

\* Handlers run to their end, the queue is served, and calls return.
FairParallelSpec ==
  ParallelSpec /\ WF_parallelVars(Step) /\ WF_parallelVars(\E i \in open : Resume(i))
------------------------------------------------------------------------------
(* Properties *)

ParallelTypeOK ==
  /\ length \in Nat /\ maxRunning \in Nat /\ burst \in Nat /\ sliced \in BOOLEAN
  /\ stack \in Seq(Frames) /\ sched \in Seq(Frames) /\ preempt \in BOOLEAN
  /\ position \in Nat /\ iter \in BOOLEAN /\ key \in Nat
  /\ numRunning \in Nat /\ error \in BOOLEAN
  /\ called \in Seq(Nat \X Nat) /\ open \subseteq 1 .. Len(called)
  /\ answers \in Seq({"nil", "error"}) /\ crashed \in BOOLEAN

\* How many of the handlers in s still continue parallel: answers of the iterator
\* and of the function.
OnTheWay(s) == Cardinality({i \in DOMAIN s : s[i][1] # "rest"})

\* NumRunning counts what will still continue parallel: the calls that are open,
\* and the answers that are on their way.  So it is 0 at the end and not before,
\* also when a slice ends in the middle.
RunningCounted ==
  ~ error /\ ~ crashed =>
    numRunning = Cardinality(open) + OnTheWay(stack) + OnTheWay(sched)

\* The caller is continued once: with the first error, or with nil when no call
\* is open and nothing is on its way.
AnsweredOnce ==
  /\ Len(answers) <= 1
  /\ answers = <<"nil">> =>
       open = {} /\ OnTheWay(stack) = 0 /\ OnTheWay(sched) = 0 /\ ~ iter
  /\ error => answers = <<"error">>

\* While no slice ends, the function is called with each pair of the sequence
\* once and in order, and with all of them before parallel gives nil.
EachPairOnce ==
  ~ sliced =>
    /\ \A i \in 1 .. Len(called) : called[i] = <<i, i>>
    /\ answers = <<"nil">> => Len(called) = length

\* The caller is continued when all calls return, unless parallel crashed.
CallerAnswered == <>(answers # <<>> \/ crashed)

==============================================================================
