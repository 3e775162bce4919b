------------------------------ MODULE Buffered ------------------------------
(***************************************************************************)
(* buffered (ml_tasks.c): the function is called for up to Size pairs       *)
(* ahead of the consumer.  The entries form a ring, which is read at Use     *)
(* and filled at Fetch; Head says that the iterator is at a pair that has    *)
(* been fetched, so that it may be asked for the next one.                   *)
(***************************************************************************)
EXTENDS Pipeline

VARIABLES
  use, fetch,   \* Use and Fetch
  head,         \* Head
  current       \* State->Key and State->Value

own == <<use, fetch, head, current>>

BufferedInit == use = 0 /\ fetch = 0 /\ head = FALSE /\ current = Empty

Slot(n) == n % case.size

\* The iterator is asked for the next pair, unless it has been already.
FetchNext(rest) == head /\ head' = FALSE /\ AskIter(rest)

\* The iteration ended, or failed: entry_call stores what the consumer will get.
Ends(x) ==
  /\ fetch' = fetch + 1
  /\ entries' = [entries EXCEPT ![Slot(fetch)].key = 0]
  /\ Calls(<<"entry", <<Slot(fetch), <<x, 0>>>>>>, Tail(stack))

BufferedIterate ==
  /\ Runs("iterate") /\ asked' = asked - 1
  /\ \/ Arg = "iter" /\ Reads("key") /\ UNCHANGED <<entries, fetch>>
     \/ Arg # "iter" /\ Ends(Arg)
  /\ UNCHANGED <<case, preempt, position, open, caller, given, idle, final, use, head,
                 current>>

BufferedKey ==
  /\ Runs("key")
  /\ \/ /\ Arg # 0 /\ entries' = [entries EXCEPT ![Slot(fetch)].key = Arg]
        /\ Reads("value") /\ UNCHANGED fetch
     \/ Arg = 0 /\ Ends("error")
  /\ UNCHANGED <<case, preempt, position, asked, open, caller, given, idle, final, use,
                 head, current>>

BufferedValue ==
  /\ Runs("value")
  /\ \/ /\ Arg # 0 /\ head' = TRUE /\ fetch' = fetch + 1
        /\ CallFn(Slot(fetch), Arg) /\ UNCHANGED entries
     \/ Arg = 0 /\ Ends("error") /\ UNCHANGED <<open, head>>
  /\ UNCHANGED <<case, preempt, position, asked, caller, given, idle, final, use, current>>

\* There is an entry that is free.
Room == fetch - use < case.size

\* mutant: Head is not looked at
RestUnheaded ==
  /\ Runs("rest")
  /\ IF Room THEN head' = FALSE /\ AskIter(Tail(stack))
             ELSE Returns /\ UNCHANGED <<position, asked, head>>
  /\ UNCHANGED <<case, preempt, entries, open, caller, given, idle, final, use, fetch,
                 current>>

\* The rest of ml_buffered_value, after the call.
BufferedRest ==
  /\ Runs("rest")
  /\ IF Room /\ head THEN FetchNext(Tail(stack))
                     ELSE Returns /\ UNCHANGED <<position, asked, head>>
  /\ UNCHANGED <<case, preempt, entries, open, caller, given, idle, final, use, fetch,
                 current>>

\* mutant: any result is handed to a consumer that waits
AnyTurn(s) == caller

\* The consumer waits for entry s.
Turn(s) == caller /\ s = Slot(use)

\* ml_buffered_entry_call
BufferedEntry ==
  /\ Runs("entry")
  /\ LET s == Arg[1]
     IN  /\ entries' = [entries EXCEPT ![s].value = Arg[2]]
         /\ IF Turn(s) THEN Calls(<<"call", s>>, Tail(stack)) ELSE Returns
  /\ UNCHANGED <<case, preempt, position, asked, open, caller, given, idle, final, own>>

\* ml_buffered_call: the entry is taken, and the next pair fetched into the room.
BufferedCall ==
  /\ Runs("call")
  /\ LET entry == entries[Arg]
         answer == <<"consumer", "state">>
     IN  \/ /\ entry.key = 0 /\ Continue(<<"consumer", entry.value[1]>>, Tail(stack))
            /\ UNCHANGED <<position, asked, entries, caller, own>>
         \/ /\ entry.key # 0 /\ current' = entry
            /\ entries' = [entries EXCEPT ![Arg] = Empty]
            /\ use' = use + 1 /\ caller' = FALSE
            /\ \/ FetchNext(<< <<"give", 0>> >> \o Tail(stack))
               \/ /\ ~ head /\ Continue(answer, Tail(stack))
                  /\ UNCHANGED <<position, asked, head>>
            /\ UNCHANGED fetch
  /\ UNCHANGED <<case, preempt, open, given, idle, final>>

\* Its end.
BufferedGive ==
  /\ Runs("give") /\ Continue(<<"consumer", "state">>, Tail(stack))
  /\ UNCHANGED <<case, preempt, position, asked, entries, open, caller, given, idle,
                 final, own>>

\* ml_iter_next of the buffered sequence.
BufferedNext ==
  /\ Runs("next")
  /\ IF entries[Slot(use)].value # Empty.value
     THEN Calls(<<"call", Slot(use)>>, Tail(stack)) /\ UNCHANGED caller
     ELSE Returns /\ caller' = TRUE
  /\ UNCHANGED <<case, preempt, position, asked, entries, open, given, idle, final, own>>

\* The consumer reads the key and the value, which are in the state.
BufferedConsumer ==
  /\ Runs("consumer") /\ IF Arg = "state" THEN Take(current) ELSE Finish
  /\ UNCHANGED own

BufferedStep ==
  \/ BufferedIterate \/ BufferedKey \/ BufferedValue \/ BufferedRest \/ BufferedEntry
  \/ BufferedCall \/ BufferedGive \/ BufferedNext \/ BufferedConsumer
------------------------------------------------------------------------------
\* The values in the ring that the consumer has not taken.
BufferedHeld ==
  {entries[s].key : s \in {s \in Slots : /\ entries[s].key # 0
                                          /\ entries[s].value # Empty.value}}

BufferedTypeOK ==
  /\ use \in Nat /\ fetch \in Nat /\ head \in BOOLEAN
  /\ current \in [key : Nat, value : Outcomes \X Nat]
==============================================================================
