------------------------------- MODULE PQueue -------------------------------
(***************************************************************************)
(* Priority queues (ml_pqueue.c): a heap of entries that know their index.   *)
(* Every comparison of two priorities is a call of script code, which        *)
(* continues the queue with its result; what the operation goes on with is   *)
(* kept in the queue itself.  So a second operation that is started before    *)
(* a comparison returns takes the place of the first.                        *)
(***************************************************************************)
EXTENDS Integers, Sequences, FiniteSets

CONSTANTS
  Entries,      \* the entries that may be created
  Bounds,       \* bounds of one history: how many entries it creates, with which
                \* priorities, which operations it calls, and how many comparisons
                \* are open at a time
  Targets,      \* of keep
  None          \* no entry

ASSUME PQueueAssumption ==
  /\ IsFiniteSet(Entries) /\ None \notin Entries
  /\ Targets \subseteq Int
  /\ \A b \in Bounds : b.priorities \subseteq Nat \ {0} /\ b.open \in Nat \ {0}

VARIABLES
  q,          \* the ml_pqueue_t and its entries
  bound,      \* the one of Bounds that is taken
  disturbed   \* the order of the heap may be lost: by lower, or because a comparison
              \* failed or was of no priorities, or two operations overlapped ("others")

vars == <<q, disturbed, bound>>

\* Index of an entry that is not queued: INT_MAX, whose 2 * INT_MAX + 1 is -1.
Out == -1

\* Entries from Index 0, then one that has been allocated per entry; open holds
\* the arguments of the comparisons that have not returned; broken says that a
\* pointer or an index was used that is none.
Init ==
  /\ q = [heap |-> [i \in 0 .. Cardinality(Entries) |-> None], count |-> 0,
          made |-> {}, index |-> [e \in Entries |-> Out],
          priority |-> [e \in Entries |-> 0],
          entry |-> None, test |-> None, parent |-> None, run |-> "none",
          value |-> <<"null", 0>>, kept |-> 0, caller |-> FALSE, open |-> <<>>,
          broken |-> FALSE]
  /\ disturbed = "no" /\ bound \in Bounds
------------------------------------------------------------------------------
(* The functions of ml_pqueue.c, on a queue w. *)

Breaks(w) == [w EXCEPT !.broken = TRUE]

\* What no comparison can read any more is forgotten: a later one can be continued
\* with the entry and the parent left here if an operation overlaps it.
Settled(w) ==
  IF w.open # <<>> THEN w
  ELSE [w EXCEPT !.entry = IF bound.open = 1 THEN None ELSE @,
                 !.parent = IF bound.open = 1 THEN None ELSE @,
                 !.test = None, !.run = "none", !.kept = 0, !.value = <<"null", 0>>,
                 !.caller = FALSE]

\* ml_pqueue_finish continues Caller, which is NULL if it has been already.
Finish(w) ==
  IF w.caller THEN Settled([w EXCEPT !.caller = FALSE, !.value = <<"null", 0>>])
  ELSE Breaks(w)

\* Compare is called; its result continues run.
Compare(w, run, p1, p2) ==
  [w EXCEPT !.run = run, !.open = Append(@, <<p1, p2>>)]

\* Entry and Parent change places.
Swap(w) ==
  LET e == w.index[w.entry]
      p == w.index[w.parent]
  IN  [w EXCEPT !.heap = [@ EXCEPT ![p] = w.entry, ![e] = w.parent],
                !.index = [@ EXCEPT ![w.entry] = p, ![w.parent] = e]]

Swaps(w) ==
  /\ w.entry # None /\ w.parent # None
  /\ w.index[w.entry] # Out /\ w.index[w.parent] # Out

ParentIndex(i) == (i - 1) \div 2

Up2(w, e) ==
  IF w.index[e] = 0 THEN Finish(w)
  ELSE IF w.index[e] = Out THEN Breaks(w)
  ELSE LET p == w.heap[ParentIndex(w.index[e])]
       IN  IF p = None THEN Breaks(w)
           ELSE Compare([w EXCEPT !.entry = e, !.parent = p], "up",
                        w.priority[e], w.priority[p])

UpRun(w, greater) ==
  IF ~ greater THEN Finish(w)
  ELSE IF Swaps(w) THEN Up2(Swap(w), w.entry) ELSE Breaks(w)

\* Is greater than Parent, which starts as Entry, a child of it?  The code's test
\* for a right child without a left one is never true.
Down1(w, e) ==
  LET left == 2 * w.index[e] + 1
      t == w.heap[left]
      v == [w EXCEPT !.entry = e, !.parent = e]
  IN  IF w.index[e] = Out THEN Breaks(w)
      ELSE IF left < w.count
      THEN Compare([v EXCEPT !.test = t], "left", w.priority[t], w.priority[e])
      ELSE Finish(v)

Down2(w) ==
  IF w.parent = w.entry THEN Finish(w)
  ELSE IF Swaps(w) THEN Down1(Swap(w), w.entry) ELSE Breaks(w)

Greatest(w, greater) == IF greater THEN [w EXCEPT !.parent = w.test] ELSE w

DownRight(w, greater) == Down2(Greatest(w, greater))

\* mutant: the right child is compared with the entry, not with the greater one
RightWithEntry(w) == w.entry

RightWith(w) == w.parent

DownLeft(w, greater) ==
  LET v == Greatest(w, greater)
      right == w.index[w.test] + 1
      t == w.heap[right]
  IN  IF w.index[w.test] = Out THEN Breaks(w)
      ELSE IF right < w.count
      THEN Compare([v EXCEPT !.test = t], "right", w.priority[t], w.priority[RightWith(v)])
      ELSE Down2(v)

\* ml_pqueue_insert
Insert(w, e) ==
  Up2([w EXCEPT !.index[e] = w.count, !.heap[w.count] = e, !.count = @ + 1,
                !.caller = TRUE, !.run = "up"], e)

\* A new entry.
Make(w, e, p) == [w EXCEPT !.made = @ \union {e}, !.priority[e] = p]

Returning(w, e) == [w EXCEPT !.value = <<"entry", e>>]

\* mutant: the removed entry stays marked as queued
KeepsIndex(w, e) == w

\* The entry is taken out of the queue.
Leaves(w, e) == [w EXCEPT !.index[e] = Out]

\* e: the entry it allocates if the new priority is not greater.  Nothing asks
\* whether the queue has an entry that it could replace.
KeepRun(w, greater, e) ==
  LET next == w.heap[0]
      v == Leaves([Make(w, e, w.kept) EXCEPT !.index[e] = 0, !.heap[0] = e, !.run = "up"],
                  next)
  IN  IF greater THEN IF w.caller THEN Settled(w) ELSE Breaks(w)
      ELSE IF next = None THEN Breaks(w)
      ELSE Down1(Returning(v, next), e)

AdjustRun(w, greater) ==
  IF greater THEN Up2([w EXCEPT !.run = "up"], w.entry) ELSE Down1(w, w.entry)

\* The priority that a value is: one that is none is 0.
PriorityOf(value) == IF value[1] = "priority" THEN value[2] ELSE 0

\* raise and lower set the priority to what the queue's value is by now, and look
\* upwards only.
ChangeRun(w, greater) ==
  LET e == w.entry
      v == [Returning(w, e) EXCEPT !.priority[e] = PriorityOf(w.value)]
  IN  IF ~ greater THEN Finish(Returning(w, e))
      ELSE IF w.value[1] = "null" THEN Breaks(w)
      ELSE IF w.index[e] # Out THEN Up2([v EXCEPT !.run = "up"], e)
      ELSE IF w.caller THEN Insert(v, e) ELSE Breaks(w)

Continued(w, greater, e) ==
  CASE w.run = "up" -> UpRun(w, greater)
    [] w.run = "left" -> DownLeft(w, greater)
    [] w.run = "right" -> DownRight(w, greater)
    [] w.run = "keep" -> KeepRun(w, greater, e)
    [] w.run = "adjust" -> AdjustRun(w, greater)
    [] w.run \in {"raise", "lower"} -> ChangeRun(w, greater)
------------------------------------------------------------------------------
(* The methods. *)

\* An operation is called, perhaps before another one has ended.
Calls(name) ==
  /\ name \in bound.operations /\ ~ q.broken /\ Len(q.open) < bound.open
  /\ disturbed' = IF q.open # <<>> THEN "others" ELSE disturbed

Called(w) == [w EXCEPT !.caller = TRUE]

Fresh == {e \in Entries \ q.made : Cardinality(q.made) < bound.entries}

PQInsert ==
  /\ Calls("insert")
  /\ \E e \in Fresh, p \in bound.priorities : q' = Insert(Returning(Make(q, e, p), e), e)

\* entry: an entry that is not inserted.
PQEntry ==
  /\ Calls("entry") /\ \E e \in Fresh, p \in bound.priorities : q' = Make(q, e, p)

PQNext ==
  /\ Calls("next") /\ q.count > 0
  /\ LET next == q.heap[0]
         e == q.heap[q.count - 1]
         v == [Leaves(q, next) EXCEPT !.count = @ - 1, !.heap[q.count - 1] = None]
     IN  q' = IF q.count = 1 THEN v
              ELSE Down1(Called(Returning([v EXCEPT !.heap[0] = e, !.index[e] = 0], next)), e)

\* keep: with Target entries or more, the new one replaces the highest if it is
\* not higher.  Of an empty queue the first slot is read as well: remove leaves its
\* entry there if it was the last one.
PQKeep ==
  /\ Calls("keep")
  /\ \E e \in Fresh, p \in bound.priorities, target \in Targets :
       q' = IF q.count < target
            THEN Insert([Make(q, e, p) EXCEPT !.value = <<"nil", 0>>], e)
            ELSE IF q.heap[0] = None THEN Breaks(q)
            ELSE Compare([Called(q) EXCEPT !.value = <<"value", 0>>, !.kept = p],
                         "keep", p, q.priority[q.heap[0]])

\* requeue of a queued entry changes the value only.
PQRequeue ==
  /\ Calls("requeue")
  /\ \E e \in q.made :
       q' = IF q.index[e] = Out THEN Insert(Returning(q, e), e) ELSE Settled(Returning(q, e))

\* adjust compares with the new priority, but does not set it.
PQAdjust ==
  /\ Calls("adjust")
  /\ \E e \in q.made, p \in bound.priorities :
       q' = Compare([Called(Returning(q, e)) EXCEPT !.entry = e], "adjust", p, q.priority[e])

PQRaise ==
  /\ Calls("raise")
  /\ \E e \in q.made, p \in bound.priorities :
       q' = Compare([Called(q) EXCEPT !.entry = e, !.value = <<"priority", p>>],
                    "raise", p, q.priority[e])

PQLower ==
  /\ Calls("lower")
  /\ \E e \in q.made, p \in bound.priorities :
       q' = Compare([Called(q) EXCEPT !.entry = e, !.value = <<"priority", p>>],
                    "lower", q.priority[e], p)

\* remove: the last entry takes the place of the removed one, and is sifted from
\* there as its priority compares to that of the removed one.
PQRemove ==
  /\ Calls("remove")
  /\ \E e \in q.made :
       /\ q.index[e] # Out
       /\ LET next == q.heap[q.count - 1]
              i == q.index[e]
              v == [q EXCEPT !.count = @ - 1,
                             !.heap = [@ EXCEPT ![q.count - 1] = None, ![i] = next],
                             !.index[next] = i]
          IN  q' = IF q.count = 0 THEN Breaks(q)
                   ELSE Compare([Called(Returning(Leaves(v, e), e)) EXCEPT !.entry = next],
                                "adjust", q.priority[next], q.priority[e])

\* Does a comparison that returns leave the heap without its order?
Disturbs(w, greater) == w.run = "lower" /\ greater /\ w.index[w.entry] # Out

Without(s, i) == [j \in 1 .. Len(s) - 1 |-> IF j < i THEN s[j] ELSE s[j + 1]]

Allocated(w, greater) == IF w.run = "keep" /\ ~ greater THEN Fresh ELSE {None}

\* What Compare may say: anything of what is no priority.
Outcomes(c) == IF 0 \in {c[1], c[2]} THEN BOOLEAN ELSE {c[1] > c[2]}

\* A comparison returns its result, or an error: the operation ends where it is.
CompareReturns(i) ==
  LET w == [q EXCEPT !.open = Without(@, i)]
  IN  /\ ~ q.broken
      /\ \/ \E greater \in Outcomes(q.open[i]) :
              /\ \E e \in Allocated(w, greater) : q' = Continued(w, greater, e)
              /\ disturbed' = IF 0 \in {q.open[i][1], q.open[i][2]} THEN "others"
                              ELSE IF disturbed = "no" /\ Disturbs(w, greater) THEN "lower"
                              ELSE disturbed
         \/ /\ q' = IF w.run = "keep" THEN KeepRun(w, TRUE, None) ELSE Finish(w)
            /\ disturbed' = "others"

Operation ==
  \/ PQInsert \/ PQEntry \/ PQNext \/ PQKeep \/ PQRequeue \/ PQAdjust \/ PQRaise
  \/ PQLower \/ PQRemove
  \/ \E i \in DOMAIN q.open : CompareReturns(i)

Next == Operation /\ UNCHANGED bound

Spec == Init /\ [][Next]_vars
------------------------------------------------------------------------------
(* Properties *)

Positions == 0 .. q.count - 1

TypeOK ==
  /\ q.count \in 0 .. Cardinality(Entries) /\ q.made \subseteq Entries
  /\ q.heap \in [0 .. Cardinality(Entries) -> Entries \union {None}]
  /\ q.index \in [Entries -> Int] /\ q.priority \in [Entries -> bound.priorities \union {0}]
  /\ {q.entry, q.test, q.parent} \subseteq Entries \union {None}
  /\ Len(q.open) <= bound.open /\ disturbed \in {"no", "lower", "others"}

\* Every position of the heap holds an entry that says it is there: however the
\* operations overlap, whichever comparisons fail, and whatever an entry that says
\* it is queued may really be.
HeapFits ==
  ~ q.broken => \A i \in Positions : q.heap[i] \in q.made /\ q.index[q.heap[i]] = i

\* An entry that says it is queued is where it says it is: what the method queued
\* answers by.
QueuedFits ==
  ~ q.broken =>
    \A e \in Entries : q.index[e] # Out => q.index[e] \in Positions /\ q.heap[q.index[e]] = e

\* The heap fits, and only one step of all makes an entry say that it is queued when
\* it is not: a comparison of keep that returns when the queue is empty.
PlacesKept ==
  /\ []HeapFits
  /\ QueuedFits
  /\ [][QueuedFits /\ ~ QueuedFits' =>
         \E i \in DOMAIN q.open : CompareReturns(i) /\ q.run = "keep" /\ q.count = 0]_vars

\* Between operations no entry has a greater priority than its parent, so that
\* next gives the highest one.
HeapOrder ==
  q.open = <<>> /\ ~ q.broken /\ disturbed = "no" =>
    \A i \in Positions \ {0} :
      q.priority[q.heap[i]] <= q.priority[q.heap[(i - 1) \div 2]]

==============================================================================
