------------------------------ MODULE Pipeline ------------------------------
(***************************************************************************)
(* What buffered and diffused (ml_tasks.c) have in common: a sequence that  *)
(* is iterated for the sake of another, whose consumer asks for one pair    *)
(* after the other; and a function that is called with every pair.          *)
(*                                                                         *)
(* As in Parallel, answers are given with ML_CONTINUE: at once, by a call   *)
(* from inside of the handler that asked, or through the scheduler's queue  *)
(* once the slice is over.  A call of the function may also stay open.      *)
(***************************************************************************)
EXTENDS Integers, Sequences, FiniteSets

CONSTANTS Cases   \* [kind, length, size, sliced]: what is run

ASSUME PipelineAssumption ==
  Cases \subseteq [kind : {"buffered", "diffused"}, length : Nat,
                   size : Nat \ {0}, sliced : BOOLEAN]

VARIABLES
  case,      \* does not change
  stack,     \* the handlers that have been entered, the running one first
  sched,     \* the scheduler's queue: the handlers that it will run
  preempt,   \* MLPreempt < 0
  position,  \* of the iterator
  asked,     \* the requests to the iterator that it has not answered
  entries,   \* State->Entries or State->Tasks: Key and Value
  open,      \* entries whose call of Fn has not returned, with their pair
  caller,    \* State->Base.Caller is not NULL
  given,     \* the pairs that the consumer has read
  idle,      \* the consumer has a pair and has not asked for the next one
  final      \* what the consumer got at last

common == <<case, stack, sched, preempt, position, asked, entries, open, caller,
            given, idle, final>>

Buffers == case.kind = "buffered"
Slots == 0 .. case.size - 1

\* A value: none (NULL), a result of Fn, its error, or the iterator's answer.
Empty == [key |-> 0, value |-> <<"none", 0>>]
Outcomes == {"none", "result", "failed", "nil", "error"}

PipelineInit ==
  /\ case \in Cases
  /\ stack = << <<"begin", 0>> >> /\ sched = <<>> /\ preempt = FALSE
  /\ position = 0 /\ asked = 0
  /\ entries = [s \in Slots |-> Empty]
  /\ open = {} /\ caller = TRUE
  /\ given = <<>> /\ idle = FALSE /\ final = "none"
------------------------------------------------------------------------------
Runs(handler) == stack # <<>> /\ stack[1][1] = handler
Arg == stack[1][2]

\* The running handler ends with ML_CONTINUE(f), above the handlers in rest.
Continue(f, rest) ==
  IF preempt THEN stack' = rest /\ sched' = Append(sched, f)
             ELSE stack' = <<f>> \o rest /\ sched' = sched

\* The running handler calls another one, above the handlers in rest.
Calls(f, rest) == stack' = <<f>> \o rest /\ sched' = sched

Returns == stack' = Tail(stack) /\ sched' = sched

\* ml_iter_next of the inner iterator, which answers itself, nil or an error.
AskIter(rest) ==
  /\ position' = position + 1 /\ asked' = asked + 1
  /\ \E x \in {IF position < case.length THEN "iter" ELSE "nil", "error"} :
       Continue(<<"iterate", x>>, rest)

\* The pair that the iterator is at, or 0 for an error.
Reads(handler) ==
  \E k \in {position, 0} : Continue(<<handler, k>>, Tail(stack))

\* Fn is called for pair p in entry s: it returns at once, or later.
CallFn(s, p) ==
  \/ /\ \E x \in {"result", "failed"} :
          Continue(<<"entry", <<s, <<x, p>>>>>>, << <<"rest", 0>> >> \o Tail(stack))
     /\ UNCHANGED open
  \/ /\ open' = open \union {<<s, p>>}
     /\ Calls(<<"rest", 0>>, Tail(stack))

\* ml_iterate is called for the inner sequence.
Begin ==
  /\ Runs("begin") /\ AskIter(Tail(stack))
  /\ UNCHANGED <<case, preempt, entries, open, caller, given, idle, final>>

\* The consumer is given an answer.  When it is a pair with a result, it asks
\* for the next one at once or later.
Take(pair) ==
  /\ given' = Append(given, pair)
  /\ IF pair.value[1] = "result" THEN final' = final ELSE final' = "error"
  /\ \/ idle' = FALSE /\ pair.value[1] = "result" /\ Calls(<<"next", 0>>, Tail(stack))
     \/ idle' = (pair.value[1] = "result") /\ Returns
  /\ UNCHANGED <<case, preempt, position, asked, entries, open, caller>>

Finish ==
  /\ final' = Arg /\ Returns
  /\ UNCHANGED <<case, preempt, position, asked, entries, open, caller, given, idle>>

Ask ==
  /\ stack = <<>> /\ idle /\ idle' = FALSE
  /\ stack' = << <<"next", 0>> >>
  /\ UNCHANGED <<case, sched, preempt, position, asked, entries, open, caller, given,
                 final>>

\* A call of Fn that stayed open is resumed from outside, and returns.
Resume(c) ==
  /\ stack = <<>> /\ open' = open \ {c}
  /\ \E x \in {"result", "failed"} : Continue(<<"entry", <<c[1], <<x, c[2]>>>>>>, <<>>)
  /\ UNCHANGED <<case, preempt, position, asked, entries, caller, given, idle, final>>

\* ml_scheduler_queue_run, whose taking of an entry starts a slice.
RunNext ==
  /\ stack = <<>> /\ sched # <<>>
  /\ stack' = <<Head(sched)>> /\ sched' = Tail(sched) /\ preempt' = FALSE
  /\ UNCHANGED <<case, position, asked, entries, open, caller, given, idle, final>>

\* ml_preempt: the timer's signal ends the slice.
Preempt ==
  /\ case.sliced /\ stack # <<>> /\ ~ preempt /\ preempt' = TRUE
  /\ UNCHANGED <<case, stack, sched, position, asked, entries, open, caller, given,
                 idle, final>>
==============================================================================
