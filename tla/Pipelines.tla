------------------------------ MODULE Pipelines ------------------------------
(***************************************************************************)
(* A consumer of a buffered or of a diffused sequence, and what it may      *)
(* expect: the abstract Pipe.                                               *)
(***************************************************************************)
EXTENDS Buffered, Diffused

vars == <<common, own, lists>>

Init == PipelineInit /\ BufferedInit /\ DiffusedInit

Handle ==
  \/ Buffers /\ BufferedStep /\ UNCHANGED lists
  \/ ~ Buffers /\ DiffusedStep /\ UNCHANGED own

Serve == (Begin \/ RunNext) /\ UNCHANGED <<own, lists>>

Return == (\E c \in open : Resume(c)) /\ UNCHANGED <<own, lists>>

Next == Handle \/ Serve \/ Return \/ ((Ask \/ Preempt) /\ UNCHANGED <<own, lists>>)

Spec == Init /\ [][Next]_vars

\* Handlers run to their end, the queue is served, and calls return.
FairSpec == Spec /\ WF_vars(Handle) /\ WF_vars(Serve) /\ WF_vars(Return)
------------------------------------------------------------------------------
(* Properties *)

TypeOK ==
  /\ case \in Cases /\ preempt \in BOOLEAN /\ position \in Nat /\ asked \in Nat
  /\ entries \in [Slots -> [key : Nat, value : Outcomes \X Nat]]
  /\ open \subseteq Slots \X Nat /\ caller \in BOOLEAN /\ idle \in BOOLEAN
  /\ final \in {"none", "nil", "error"}
  /\ BufferedTypeOK /\ DiffusedTypeOK

\* The pairs of the answers of Fn that are on their way, in s.
Returning(s) == {s[i][2][2][2] : i \in {j \in DOMAIN s : /\ s[j][1] = "entry"
                                                         /\ s[j][2][2][2] # 0}}

Running == {c[2] : c \in open} \union Returning(stack) \union Returning(sched)

\* The pair that e stands for, if its key and its result belong to each other.
PairOf(e) == IF e.key = e.value[2] THEN e.key ELSE 0

\* What buffered has taken out of its ring counts as given before it is read.
GivenPairs ==
  [i \in 1 .. (IF Buffers THEN use ELSE Len(given)) |->
     PairOf(IF i <= Len(given) THEN given[i] ELSE current)]

P == INSTANCE Pipe WITH
       size <- case.size, length <- case.length, ordered <- Buffers,
       running <- Running,
       held <- IF Buffers THEN BufferedHeld ELSE DiffusedHeld,
       given <- GivenPairs, final <- final

\* buffered gives the pairs in their order and diffused in any order, each of them
\* once and with its own result; nil comes after the last; and not more than Size
\* calls are open, wherever answers are queued and calls return.
ImplementsPipe == P!Spec

\* The inner iterator is never asked while it owes an answer: it would advance
\* past a pair that nobody has read.
OneRequest == asked <= 1

\* A consumer that has asked is answered when the calls return.
ConsumerAnswered == ~ idle ~> (idle \/ final # "none")
==============================================================================
