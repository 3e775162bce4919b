------------------------------ MODULE Diffused ------------------------------
(***************************************************************************)
(* diffused (ml_tasks.c): as buffered, but the results are given in the      *)
(* order in which the calls return.  Every call has a task; the tasks are   *)
(* in one of two lists, or on their way.                                    *)
(***************************************************************************)
EXTENDS Pipeline

VARIABLES
  free,      \* the list Next: the first task is the one that is being fetched
  ready,     \* the list from Head to Tail: results, the first one the consumer's
  waiting,   \* Waiting
  last       \* Final: "none" for NULL

lists == <<free, ready, waiting, last>>

DiffusedInit ==
  /\ free = [i \in 1 .. case.size |-> case.size - i]
  /\ ready = <<>> /\ waiting = 0 /\ last = "none"

\* The consumer is given x if it waits.
Tells(x) ==
  IF caller THEN caller' = FALSE /\ Continue(<<"consumer", x>>, Tail(stack))
            ELSE caller' = FALSE /\ Returns

Fails ==
  last' = "error" /\ waiting' = 0 /\ Tells("error") /\ UNCHANGED <<free, ready>>

DiffusedIterate ==
  /\ Runs("iterate") /\ asked' = asked - 1
  /\ \/ Arg = "iter" /\ Reads("key") /\ UNCHANGED <<caller, lists>>
     \/ Arg = "error" /\ Fails
     \/ /\ Arg = "nil" /\ last' = "nil" /\ UNCHANGED <<free, ready, waiting>>
        /\ IF waiting = 0 THEN Tells("nil") ELSE Returns /\ UNCHANGED caller
  /\ UNCHANGED <<case, preempt, position, entries, open, given, idle, final>>

DiffusedKey ==
  /\ Runs("key")
  /\ \/ /\ Arg # 0 /\ entries' = [entries EXCEPT ![free[1]].key = Arg]
        /\ Reads("value") /\ UNCHANGED <<caller, lists>>
     \/ Arg = 0 /\ Fails /\ UNCHANGED entries
  /\ UNCHANGED <<case, preempt, position, asked, open, given, idle, final>>

DiffusedValue ==
  /\ Runs("value")
  /\ \/ /\ Arg # 0 /\ free' = Tail(free) /\ waiting' = waiting + 1
        /\ CallFn(free[1], Arg) /\ UNCHANGED <<caller, ready, last>>
     \/ Arg = 0 /\ Fails /\ UNCHANGED open
  /\ UNCHANGED <<case, preempt, position, asked, entries, given, idle, final>>

\* The rest of ml_diffused_value, after the call.
DiffusedRest ==
  /\ Runs("rest")
  /\ IF last = "none" /\ free # <<>> THEN AskIter(Tail(stack))
                                     ELSE Returns /\ UNCHANGED <<position, asked>>
  /\ UNCHANGED <<case, preempt, entries, open, caller, given, idle, final, lists>>

\* mutant: a result that arrives is put in front
ReadyFirst(t) == <<t>> \o ready

\* The list of results gets another one.
ReadyWith(t) == Append(ready, t)

\* ml_diffused_task_call
DiffusedEntry ==
  /\ Runs("entry")
  /\ LET t == Arg[1]
     IN  /\ entries' = [entries EXCEPT ![t].value = Arg[2]]
         /\ \/ Arg[2][1] = "failed" /\ Fails
            \/ /\ Arg[2][1] = "result" /\ ready' = ReadyWith(t)
               /\ IF ready = <<>> THEN Tells("state") ELSE Returns /\ UNCHANGED caller
               /\ UNCHANGED <<free, waiting, last>>
  /\ UNCHANGED <<case, preempt, position, asked, open, given, idle, final>>

\* The consumer gets the next result, or waits for it.
Gives ==
  IF ready' # <<>> THEN Continue(<<"consumer", "state">>, Tail(stack)) /\ UNCHANGED caller
                   ELSE Returns /\ caller' = TRUE

\* ml_iter_next of the diffused sequence: the first result has been read, and
\* its task is free again.
DiffusedNext ==
  /\ Runs("next")
  /\ \/ /\ waiting <= 0 /\ Continue(<<"consumer", last>>, Tail(stack))
        /\ UNCHANGED <<position, asked, caller, lists>>
     \/ /\ waiting > 0 /\ ready = <<>> /\ Continue(<<"consumer", "error">>, Tail(stack))
        /\ UNCHANGED <<position, asked, caller, lists>>
     \/ /\ waiting > 0 /\ ready # <<>>
        /\ waiting' = waiting - 1 /\ ready' = Tail(ready) /\ UNCHANGED last
        /\ \/ /\ last # "none" /\ UNCHANGED <<position, asked, free>>
              /\ IF waiting' <= 0
                 THEN Continue(<<"consumer", last>>, Tail(stack)) /\ UNCHANGED caller
                 ELSE Gives
           \/ /\ last = "none" /\ free # <<>> /\ UNCHANGED <<position, asked>>
              /\ free' = <<free[1], ready[1]>> \o Tail(free)
              /\ Gives
           \/ /\ last = "none" /\ free = <<>> /\ free' = <<ready[1]>>
              /\ AskIter(<< <<"fetched", 0>> >> \o Tail(stack)) /\ UNCHANGED caller
  /\ UNCHANGED <<case, preempt, entries, open, given, idle, final>>

\* Its end, after the iterator was asked.
DiffusedFetched ==
  /\ Runs("fetched") /\ ready' = ready /\ Gives
  /\ UNCHANGED <<case, preempt, position, asked, entries, open, given, idle, final, free,
                 waiting, last>>

\* The consumer reads the key and the value of the first result.
DiffusedConsumer ==
  /\ Runs("consumer") /\ UNCHANGED lists
  /\ IF Arg = "state" THEN Take(entries[ready[1]]) ELSE Finish

DiffusedStep ==
  \/ DiffusedIterate \/ DiffusedKey \/ DiffusedValue \/ DiffusedRest \/ DiffusedEntry
  \/ DiffusedNext \/ DiffusedFetched \/ DiffusedConsumer
------------------------------------------------------------------------------
\* The pairs whose results wait to be read, and those whose calls failed.
DiffusedHeld ==
  ({entries[ready[i]].key : i \in DOMAIN ready} \ {given[i].key : i \in DOMAIN given})
    \union {entries[t].key : t \in {u \in Slots : entries[u].value[1] = "failed"}}

DiffusedTypeOK ==
  /\ free \in Seq(Slots) /\ ready \in Seq(Slots)
  /\ waiting \in Nat /\ last \in {"none", "nil", "error"}
==============================================================================
