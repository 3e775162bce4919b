------------------------------- MODULE Threads -------------------------------
(***************************************************************************)
(* Threads of scripts (ml_thread.c): each has a scheduler queue of its own,  *)
(* which it serves until its function has a result.  Threads meet through   *)
(* bounded channels, values that are protected by a mutex, and ports: a      *)
(* call of a port runs a function in the thread that made the port.          *)
(*                                                                         *)
(* Channels and mutexes block the host thread.  All channels share one       *)
(* mutex and one condition; what happens under that mutex is one action.     *)
(***************************************************************************)
EXTENDS Integers, Sequences, FiniteSets

CONSTANTS
  ThreadIds,   \* the host threads
  First,       \* the one that runs at the start
  Channels, Size,   \* the channels and their capacities
  Roles,       \* what the functions of the threads do: sets of names of calls
  MaxCalls     \* bound: how many calls such a function makes

ASSUME ThreadsAssumption ==
  /\ IsFiniteSet(ThreadIds) /\ First \in ThreadIds
  /\ Size \in [Channels -> Nat \ {0}] /\ MaxCalls \in Nat
  /\ Roles \subseteq [ThreadIds -> SUBSET {"send", "recv", "port", "use", "join"}]

VARIABLES
  role,       \* does not change
  pc,         \* what each host thread does
  script,     \* the script it runs: <<"fn", t>> is what the call of t runs
  queue,      \* its scheduler's queue
  calls,      \* how much its function has done
  asleep,     \* the threads in pthread_cond_wait
  messages, fill, write, read,   \* of each channel: Messages, Fill, Write, Read
  got,        \* the last message that each thread received
  mutex       \* the script that uses the protected value, and its host thread

channels == <<asleep, messages, fill, write, read, got>>
vars == <<role, pc, script, queue, calls, channels, mutex>>

Main(t) == <<"main", t>>
Fn(t) == <<"fn", t>>
Free == <<<<"free", First>>, First>>
NoMessage == <<First, 0>>

\* "start" and "over" are before pthread_create and after the thread's function.
Locations ==
  {<<"start">>, <<"loop">>, <<"run">>, <<"lock">>, <<"over">>}
    \union ({"join"} \X ThreadIds) \union ({"send"} \X Channels)
    \union ({"recv"} \X (SUBSET Channels \ {{}}))

Init ==
  /\ role \in Roles
  /\ pc = [t \in ThreadIds |-> IF t = First THEN <<"run">> ELSE <<"start">>]
  /\ script = [t \in ThreadIds |-> Main(t)]
  /\ queue = [t \in ThreadIds |-> <<>>]
  /\ calls = [t \in ThreadIds |-> 0]
  /\ asleep = {}
  /\ messages = [c \in Channels |-> [i \in 0 .. Size[c] - 1 |-> NoMessage]]
  /\ fill = [c \in Channels |-> 0]
  /\ write = [c \in Channels |-> 0] /\ read = [c \in Channels |-> 0]
  /\ got = [t \in ThreadIds |-> NoMessage]
  /\ mutex = Free
------------------------------------------------------------------------------
Goes(t, where) == pc' = [pc EXCEPT ![t] = where]
Running(t) == pc[t] = <<"run">>
RunsMain(t) == Running(t) /\ script[t] = Main(t)

\* The function of thread t makes one more call.
Does(t, call) ==
  /\ RunsMain(t) /\ call \in role[t]
  /\ calls[t] < MaxCalls /\ calls' = [calls EXCEPT ![t] = @ + 1]

\* thread(Args..., Fn)
Create(t, u) ==
  /\ RunsMain(t) /\ pc[u] = <<"start">> /\ Goes(u, <<"run">>)
  /\ UNCHANGED <<script, queue, calls, channels, mutex>>

\* join: pthread_join blocks until the function of u has returned.
Join(t, u) ==
  /\ Does(t, "join") /\ t # u /\ pc[u] # <<"start">> /\ Goes(t, <<"join", u>>)
  /\ UNCHANGED <<script, queue, channels, mutex>>

Joined(t) ==
  /\ pc[t][1] = "join" /\ pc[pc[t][2]] = <<"over">> /\ Goes(t, <<"run">>)
  /\ UNCHANGED <<script, queue, calls, channels, mutex>>

\* The function returns: ml_thread_run sets Result, which ends ml_thread_fn.
Finish(t) ==
  /\ RunsMain(t) /\ t # First /\ mutex[1] # Main(t) /\ Goes(t, <<"over">>)
  /\ UNCHANGED <<script, queue, calls, channels, mutex>>

\* The loop of ml_thread_fn takes the next state from its queue.
RunQueued(t) ==
  /\ pc[t] = <<"loop">> /\ queue[t] # <<>>
  /\ script' = [script EXCEPT ![t] = Head(queue[t])]
  /\ queue' = [queue EXCEPT ![t] = Tail(@)]
  /\ Goes(t, <<"run">>)
  /\ UNCHANGED <<calls, channels, mutex>>
------------------------------------------------------------------------------
(* Ports *)

\* mutant: the caller goes on without the answer
GoesOn(t) == pc' = pc

Suspends(t) == Goes(t, <<"loop">>)

\* ml_thread_port_call: the message goes to the port's thread, its caller waits.
CallPort(t, u) ==
  /\ Does(t, "port") /\ pc[u] # <<"start">>
  /\ queue' = [queue EXCEPT ![u] = Append(@, Fn(t))]
  /\ Suspends(t)
  /\ UNCHANGED <<script, channels, mutex>>

\* mutant: the answer is queued where the message ran
AnswerHere(t, s) == queue' = [queue EXCEPT ![t] = Append(@, Main(s))]

\* The caller is added to the scheduler of its own context.
Answer(t, s) == queue' = [queue EXCEPT ![s] = Append(@, Main(s))]

\* The function that a port's message called returns: ml_thread_message_done.
MessageDone(t) ==
  /\ Running(t) /\ script[t][1] = "fn" /\ mutex[1] # script[t]
  /\ Answer(t, script[t][2])
  /\ Goes(t, <<"loop">>)
  /\ UNCHANGED <<script, calls, channels, mutex>>
------------------------------------------------------------------------------
(* Protected values *)

\* use: pthread_mutex_lock blocks the host thread.
Use(t) ==
  /\ Running(t) /\ mutex[1] # script[t]
  /\ IF script[t] = Main(t) THEN Does(t, "use") ELSE UNCHANGED calls
  /\ Goes(t, <<"lock">>)
  /\ UNCHANGED <<script, queue, channels, mutex>>

Locked(t) ==
  /\ pc[t] = <<"lock">> /\ mutex = Free
  /\ mutex' = <<script[t], t>> /\ Goes(t, <<"run">>)
  /\ UNCHANGED <<script, queue, calls, channels>>

\* The function that uses the value returns: ml_thread_protect_state_run.
Unlock(t) ==
  /\ Running(t) /\ mutex[1] = script[t] /\ mutex' = Free
  /\ UNCHANGED <<pc, script, queue, calls, channels>>
------------------------------------------------------------------------------
(* Channels *)

StartSend(t, c) ==
  /\ Does(t, "send") /\ Goes(t, <<"send", c>>)
  /\ UNCHANGED <<script, queue, channels, mutex>>

StartRecv(t, cs) ==
  /\ Does(t, "recv") /\ Goes(t, <<"recv", cs>>)
  /\ UNCHANGED <<script, queue, channels, mutex>>

Sleep(t) ==
  asleep' = asleep \union {t} /\ UNCHANGED <<pc, messages, fill, write, read, got>>

\* mutant: there seems to be room for one more
FullByOne(c) == fill[c] = Size[c] + 1

Full(c) == fill[c] = Size[c]

Message(t) == <<t, calls[t]>>

\* mutant: only a sleeper that waits for this channel is woken
WakesSome(c) == asleep' = {t \in asleep : pc[t] # <<"recv", {c}>>}

\* pthread_cond_broadcast
Wakes(c) == asleep' = {}

\* send, with the mutex: from its lock or a wake-up to its unlock or wait.
Send(t, c) ==
  /\ pc[t] = <<"send", c>> /\ t \notin asleep
  /\ IF Full(c)
     THEN Sleep(t)
     ELSE /\ messages' = [messages EXCEPT ![c][write[c]] = Message(t)]
          /\ fill' = [fill EXCEPT ![c] = @ + 1]
          /\ write' = [write EXCEPT ![c] = (@ + 1) % Size[c]]
          /\ Wakes(c) /\ Goes(t, <<"run">>) /\ UNCHANGED <<read, got>>
  /\ UNCHANGED <<script, queue, calls, mutex>>

\* recv takes from the first channel of its arguments that has a message; nobody
\* is woken.
Recv(t) ==
  /\ pc[t][1] = "recv" /\ t \notin asleep
  /\ \/ (\A c \in pc[t][2] : fill[c] = 0) /\ Sleep(t)
     \/ \E c \in pc[t][2] :
          /\ fill[c] # 0
          /\ got' = [got EXCEPT ![t] = messages[c][read[c]]]
          /\ messages' = [messages EXCEPT ![c][read[c]] = NoMessage]
          /\ fill' = [fill EXCEPT ![c] = @ - 1]
          /\ read' = [read EXCEPT ![c] = (@ + 1) % Size[c]]
          /\ Goes(t, <<"run">>) /\ UNCHANGED <<write, asleep>>
  /\ UNCHANGED <<script, queue, calls, mutex>>

\* pthread_cond_wait may return for no reason.
SpuriousWakeup(t) ==
  /\ t \in asleep /\ asleep' = asleep \ {t}
  /\ UNCHANGED <<pc, script, queue, calls, messages, fill, write, read, got, mutex>>

\* What a thread does by itself when nothing blocks it.
Step(t) ==
  \/ Joined(t) \/ RunQueued(t) \/ MessageDone(t) \/ Locked(t) \/ Unlock(t)
  \/ Recv(t) \/ \E c \in Channels : Send(t, c)

\* What the function of a thread may do, or not.
Choose(t) ==
  \/ \E u \in ThreadIds : Create(t, u) \/ Join(t, u) \/ CallPort(t, u)
  \/ Use(t) \/ Finish(t)
  \/ \E c \in Channels : StartSend(t, c)
  \/ \E cs \in SUBSET Channels \ {{}} : StartRecv(t, cs)

Next ==
  /\ \E t \in ThreadIds : Step(t) \/ Choose(t) \/ SpuriousWakeup(t)
  /\ UNCHANGED role

Spec == Init /\ [][Next]_vars

\* The system runs every thread that is not blocked.
FairSpec == Spec /\ \A t \in ThreadIds : WF_vars(Step(t) /\ UNCHANGED role)
------------------------------------------------------------------------------
(* Properties *)

TypeOK ==
  /\ role \in Roles /\ pc \in [ThreadIds -> Locations]
  /\ script \in [ThreadIds -> {"main", "fn"} \X ThreadIds]
  /\ queue \in [ThreadIds -> Seq({"main", "fn"} \X ThreadIds)]
  /\ calls \in [ThreadIds -> 0 .. MaxCalls]
  /\ asleep \subseteq ThreadIds
  /\ \A c \in Channels :
       /\ messages[c] \in [0 .. Size[c] - 1 -> ThreadIds \X Nat]
       /\ fill[c] \in 0 .. Size[c]
       /\ write[c] \in 0 .. Size[c] - 1 /\ read[c] \in 0 .. Size[c] - 1
  /\ got \in [ThreadIds -> ThreadIds \X Nat]
  /\ mutex \in {Free} \union (({"main", "fn"} \X ThreadIds) \X ThreadIds)

\* The ring of a channel from Read on is a queue of at most its capacity: no
\* message is overwritten, lost or given twice, for any number of threads.
MB == INSTANCE Mailboxes WITH
        Capacity <- Size, Receivers <- ThreadIds, Nothing <- NoMessage,
        Values <- ThreadIds \X (1 .. MaxCalls),
        content <- [c \in Channels |->
                      [i \in 1 .. fill[c] |-> messages[c][(read[c] + i - 1) % Size[c]]]]

ImplementsMailboxes == MB!Spec

Active(u) == pc[u] \notin {<<"start">>, <<"loop">>, <<"over">>}

\* Where the function of thread t goes on: in the thread that runs it or the
\* function it called through a port, or in a queue.
Places(t) ==
  LET here == {Main(t), Fn(t)}
  IN  {<<u, 0>> : u \in {v \in ThreadIds : Active(v) /\ script[v] \in here}}
        \union UNION {{<<u, i>> : i \in {j \in DOMAIN queue[u] : queue[u][j] \in here}}
                         : u \in ThreadIds}

\* A function that waits for a port is continued once: until it returns it is in
\* one place, whichever threads the call and its answer cross.
CallsConserved ==
  \A t \in ThreadIds :
    pc[t] \notin {<<"start">>, <<"over">>} => Cardinality(Places(t)) = 1

\* A function only ever runs in its own thread, so that the thread that unlocks
\* a mutex is the one that locked it.
OwnThread ==
  \A t, u \in ThreadIds :
    (\/ Active(u) /\ script[u] = Main(t)
     \/ \E i \in DOMAIN queue[u] : queue[u][i] = Main(t)
     \/ mutex = <<Main(t), u>>)
      => u = t

\* A receiver does not sleep over a message that it could have.
Served(t) == pc[t][1] = "recv" /\ \E c \in pc[t][2] : fill[c] # 0
ReceiversWake == \A t \in ThreadIds : Served(t) ~> ~ Served(t)
==============================================================================
