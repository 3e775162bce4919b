------------------------------ MODULE Channel ------------------------------
(***************************************************************************)
(* Channels of script states (ml_runtime.c).  start calls a function with   *)
(* the channel as its caller; the function, and helpers it starts, send      *)
(* messages and wait for the replies, the starter takes one message after    *)
(* the other with next, which replies to the last one.                       *)
(*                                                                         *)
(* States are continued at once, from inside of the code that continues     *)
(* them, or through the scheduler's queue when the slice is over; next       *)
(* always runs the receiver at once, before it replies.                     *)
(***************************************************************************)
EXTENDS Integers, Sequences, FiniteSets

CONSTANTS
  Receiver,  \* the state that starts the channel and calls next
  Function,  \* the state of the function that start calls
  Helpers,   \* states the function may start, which send too
  Channel,   \* the channel itself, a state
  MaxSends   \* bound on the messages of one state

Senders == Helpers \union {Function}
States == Senders \union {Receiver}

\* A message is known by its sender and its number among the sender's.
Messages == Senders \X (1 .. MaxSends)

\* Values that are no messages.
Plain == {"nil", "value", "error"}

ASSUME ChannelAssumption ==
  /\ Receiver \notin Helpers \union {Function, Channel}
  /\ Function \notin Helpers \union {Channel}
  /\ Channel \notin Helpers
  /\ MaxSends \in Nat
  /\ Plain \intersect Messages = {}

VARIABLES
  isOpen, head,   \* Open and the list from Head: the messages, as <<sender, number>>
  caller,         \* Base.Caller, Channel if it is not set
  stack,          \* what has been entered, the running one first
  sched,          \* the scheduler's queue
  preempt,        \* MLPreempt < 0
  at,             \* what each state does
  sends,          \* how often each has called send
  sent, got       \* the messages sent, and those the receiver was continued with

vars == <<isOpen, head, caller, stack, sched, preempt, at, sends, sent, got>>

\* An entry of the stack or of the queue: the code of a state runs ("code"), a
\* state is continued with a value ("run"), or next has the reply left ("reply").
Item(kind, state, value) == <<kind, state, value>>

Init ==
  /\ isOpen = FALSE /\ head = <<>> /\ caller = Channel
  /\ stack = <<>> /\ sched = << Item("run", Receiver, "nil") >> /\ preempt = FALSE
  /\ at = [s \in States |-> IF s = Receiver THEN "waits" ELSE "unborn"]
  /\ sends = [s \in Senders |-> 0]
  /\ sent = <<>> /\ got = <<>>
------------------------------------------------------------------------------
Runs(s) == stack # <<>> /\ stack[1] = Item("code", s, "nil")

\* What is running ends with ML_CONTINUE.
Continue(state, value) ==
  IF preempt
  THEN stack' = Tail(stack) /\ sched' = Append(sched, Item("run", state, value))
  ELSE stack' = <<Item("run", state, value)>> \o Tail(stack) /\ sched' = sched

Becomes(s, what) == at' = [at EXCEPT ![s] = what]

\* start: the function is called with the channel as its caller.
Start ==
  /\ Runs(Receiver) /\ at[Function] = "unborn"
  /\ isOpen' = TRUE /\ caller' = Receiver
  /\ at' = [at EXCEPT ![Receiver] = "waits", ![Function] = "runs"]
  /\ stack' = <<Item("code", Function, "nil")>> \o Tail(stack)
  /\ UNCHANGED <<head, sched, preempt, sends, sent, got>>

\* mutant: the receiver is also continued while it has a message
AnyIsFirst == TRUE

\* The message that send has appended is the head of the list.
IsFirst == head = <<>>

Send(s) ==
  LET m == <<s, sends[s] + 1>>
  IN  /\ Runs(s) /\ sends[s] < MaxSends
      /\ Becomes(s, "waits") /\ sends' = [sends EXCEPT ![s] = @ + 1]
      /\ \/ /\ ~ isOpen /\ Continue(s, "error") /\ UNCHANGED <<head, sent>>
         \/ /\ isOpen /\ head' = Append(head, m) /\ sent' = Append(sent, m)
            /\ IF IsFirst THEN Continue(caller, m)
                          ELSE stack' = Tail(stack) /\ sched' = sched
      /\ UNCHANGED <<isOpen, caller, preempt, got>>

\* mutant: the receiver gets the newest message
Newest == head[Len(head)]

\* Next->Value
Second == head[2]

\* mutant: the reply is forgotten when there is another message
Unreplied(m) == <<>>

\* What next still has to do when it runs the receiver with another message.
ReplyLeft(m) == <<Item("reply", m[1], m)>>

\* next: with another message in the list the receiver goes on at once.
ChannelNext ==
  /\ Runs(Receiver) /\ Becomes(Receiver, "waits")
  /\ \/ /\ ~ isOpen /\ at[Function] # "unborn" /\ Continue(Receiver, "error")
        /\ UNCHANGED <<head, caller>>
     \/ /\ isOpen /\ head # <<>> /\ head' = Tail(head) /\ caller' = Receiver
        /\ IF Len(head) > 1
           THEN /\ stack' = <<Item("run", Receiver, Second)>> \o ReplyLeft(head[1])
                              \o Tail(stack)
                /\ sched' = sched
           ELSE Continue(head[1][1], head[1])
  /\ UNCHANGED <<isOpen, preempt, sends, sent, got>>

\* The code that next ran has come back: the sender is continued.
Reply ==
  /\ stack # <<>> /\ stack[1][1] = "reply" /\ Continue(stack[1][2], stack[1][3])
  /\ UNCHANGED <<isOpen, head, caller, preempt, at, sends, sent, got>>

\* A state is continued: its code goes on.
Enter ==
  /\ stack # <<>> /\ stack[1][1] = "run" /\ stack[1][2] # Channel
  /\ LET s == stack[1][2]
         v == stack[1][3]
     IN  /\ Becomes(s, "runs")
         /\ stack' = <<Item("code", s, "nil")>> \o Tail(stack)
         /\ got' = IF s = Receiver /\ v \in Messages THEN Append(got, v) ELSE got
  /\ UNCHANGED <<isOpen, head, caller, sched, preempt, sends, sent>>

\* mutant: the channel stays open
StaysOpen == isOpen

AfterRun == FALSE

\* ml_channel_run: the function, or that of close, has returned to the channel.
ChannelRun ==
  /\ stack # <<>> /\ stack[1][1] = "run" /\ stack[1][2] = Channel
  /\ isOpen' = AfterRun /\ Continue(caller, "value")
  /\ UNCHANGED <<head, caller, preempt, at, sends, sent, got>>

\* The function returns, or calls close, when its helpers have ended.  (ml_channel_run
\* would continue the receiver although it has the message of a helper.)
FunctionReturns ==
  /\ Runs(Function) /\ \A h \in Helpers : at[h] \in {"unborn", "ended"}
  /\ Becomes(Function, "ended") /\ Continue(Channel, "value")
  /\ UNCHANGED <<isOpen, head, caller, preempt, sends, sent, got>>

\* The receiver calls close while the function waits for a reply, which it will
\* not get.  (A function that runs would come back to the channel later, and
\* continue the receiver again.)
Close ==
  /\ Runs(Receiver) /\ isOpen /\ \E i \in DOMAIN head : head[i][1] = Function
  /\ Becomes(Receiver, "waits") /\ Continue(Channel, "value")
  /\ UNCHANGED <<isOpen, head, caller, preempt, sends, sent, got>>
------------------------------------------------------------------------------
(* The code of the states, and the scheduler. *)

Spawn(h) ==
  /\ Runs(Function) /\ at[h] = "unborn" /\ Becomes(h, "waits")
  /\ sched' = Append(sched, Item("run", h, "nil"))
  /\ UNCHANGED <<isOpen, head, caller, stack, preempt, sends, sent, got>>

\* A helper ends, and the receiver when the channel is closed.
End(s) ==
  /\ Runs(s) /\ s # Function
  /\ s = Receiver => ~ isOpen /\ at[Function] # "unborn"
  /\ Becomes(s, "ended") /\ stack' = Tail(stack)
  /\ UNCHANGED <<isOpen, head, caller, sched, preempt, sends, sent, got>>

\* A state sleeps, or its slice is over.
Yield(s) ==
  /\ Runs(s) /\ Becomes(s, "waits")
  /\ stack' = Tail(stack) /\ sched' = Append(sched, Item("run", s, "nil"))
  /\ UNCHANGED <<isOpen, head, caller, preempt, sends, sent, got>>

RunNext ==
  /\ stack = <<>> /\ sched # <<>>
  /\ stack' = <<Head(sched)>> /\ sched' = Tail(sched) /\ preempt' = FALSE
  /\ UNCHANGED <<isOpen, head, caller, at, sends, sent, got>>

Preempt ==
  /\ stack # <<>> /\ ~ preempt /\ preempt' = TRUE
  /\ UNCHANGED <<isOpen, head, caller, stack, sched, at, sends, sent, got>>

Next ==
  \/ Start \/ ChannelNext \/ Reply \/ Enter \/ ChannelRun \/ FunctionReturns \/ Close
  \/ RunNext \/ Preempt
  \/ \E s \in Senders : Send(s)
  \/ \E h \in Helpers : Spawn(h)
  \/ \E s \in States : End(s) \/ Yield(s)

Spec == Init /\ [][Next]_vars

\* What is running goes on; a receiver that runs again and again calls next in the
\* end, as one that waits for the function's value has to.
FairSpec == Spec /\ WF_vars(Next) /\ SF_vars(ChannelNext)
------------------------------------------------------------------------------
(* Properties *)

Items(s) ==
  Cardinality({i \in DOMAIN stack : stack[i][2] = s})
    + Cardinality({i \in DOMAIN sched : sched[i][2] = s})

Listed(s) == Cardinality({i \in DOMAIN head : head[i][1] = s})

Continuations == {"run"} \X (States \union {Channel}) \X (Plain \union Messages)

TypeOK ==
  /\ isOpen \in BOOLEAN /\ preempt \in BOOLEAN /\ caller \in {Channel, Receiver}
  /\ at \in [States -> {"unborn", "waits", "runs", "ended"}]
  /\ sends \in [Senders -> 0 .. MaxSends]
  /\ head \in Seq(Messages) /\ sent \in Seq(Messages) /\ got \in Seq(Messages)
  /\ sched \in Seq(Continuations)
  /\ stack \in Seq(Continuations \union ({"code"} \X States \X {"nil"})
                                 \union ({"reply"} \X Senders \X Messages))

\* A state that waits is continued once: a sender has its message in the list or its
\* reply on the way; the receiver has one continuation on the way at most.
ContinuedOnce ==
  /\ \A s \in Senders :
       Items(s) + Listed(s) = IF at[s] \in {"unborn", "ended"} THEN 0 ELSE 1
  /\ Items(Receiver) <= 1

\* The receiver gets every message once, in the order of the calls of send, however
\* the calls of next nest.
InOrder == Len(got) <= Len(sent) /\ got = SubSeq(sent, 1, Len(got))

\* When the receiver's code runs and the channel is open, next finds a message.
NextHasMessage == Runs(Receiver) /\ isOpen => head # <<>>

\* A sender whose message is in the list goes on, unless the channel is closed.
SendersAnswered ==
  \A s \in Senders : Listed(s) > 0 ~> at[s] = "runs" \/ ~ isOpen
==============================================================================
