---------------------------- MODULE PQueueProofs ----------------------------
(***************************************************************************)
(* Proofs about module PQueue, for every set of entries and of bounds: what *)
(* is in the heap knows its index, whatever operations overlap or fail;     *)
(* only a keep that finds the queue empty leaves an entry that says it is   *)
(* queued and is not; and the heap is in order between operations that did   *)
(* neither overlap nor fail.                                                *)
(*                                                                         *)
(* Each function of the heap has two lemmas, on any queue: that it keeps    *)
(* the fields sound, and that it leaves either a heap in order or one open  *)
(* comparison whose result restores it.                                     *)
(***************************************************************************)
EXTENDS PQueue, FiniteSetTheorems, SequenceTheorems, TLAPS

N == Cardinality(Entries)

Runs == {"none", "up", "left", "right", "keep", "adjust", "raise", "lower"}

\* What the caller is given, or the new priority of raise and lower.
Results(V) ==
  ({"null", "nil", "value"} \X {0}) \union ({"entry"} \X Entries) \union ({"priority"} \X V)

Queue(V) ==
  [heap : [0 .. N -> Entries \union {None}], count : 0 .. N,
   made : SUBSET Entries, index : [Entries -> Int], priority : [Entries -> V],
   entry : Entries \union {None}, test : Entries \union {None},
   parent : Entries \union {None}, run : Runs, value : Results(V), kept : V,
   caller : BOOLEAN, open : Seq(V \X V), broken : BOOLEAN]

Pos(w) == 0 .. w.count - 1

\* What is in the heap is at its index.  An entry that says it is queued may not
\* be, but has an index of the heap.
FitOf(heap, index, count, made) ==
  /\ \A i \in 0 .. count - 1 : heap[i] \in made /\ index[heap[i]] = i
  /\ \A i \in 0 .. N : heap[i] \in made \union {None}
  /\ \A e \in Entries : index[e] # Out => index[e] \in 0 .. N - 1 /\ e \in made

\* Every entry that says it is queued is.
QueuedOf(heap, index, count) ==
  \A e \in Entries : index[e] # Out => index[e] \in 0 .. count - 1 /\ heap[index[e]] = e

\* full = Full: nothing but what is queued says so.
Full == "all"

Fit(w, full) ==
  /\ FitOf(w.heap, w.index, w.count, w.made)
  /\ full = Full => QueuedOf(w.heap, w.index, w.count)

\* What is kept for the next step are entries that have been made.
Known(w) == {w.entry, w.parent, w.test} \subseteq w.made \union {None}

\* What an open comparison continues has been set, and has its entries.
Held(w) ==
  /\ Known(w)
  /\ w.open # <<>> => w.run # "none"
  /\ w.run \in {"left", "right", "adjust", "raise", "lower"} => w.entry \in w.made
  /\ w.run \in {"left", "right"} => w.parent \in w.made /\ w.test \in w.made

Sound(w, V, full) == w \in Queue(V) /\ (~ w.broken => Fit(w, full) /\ Held(w))

LEMMA NType == N \in Nat
  BY PQueueAssumption, FS_CardinalityType DEF N

\* The result v of a function on w: sound, with one open comparison more at most.
Leads(w, v, V, full) ==
  /\ Sound(v, V, full)
  /\ v.open = w.open \/ \E c \in V \X V : v.open = Append(w.open, c)

\* v is w but for what an operation keeps for its next step.
Same(w, v) ==
  /\ v.heap = w.heap /\ v.count = w.count /\ v.made = w.made
  /\ v.index = w.index /\ v.priority = w.priority
------------------------------------------------------------------------------
(* The fields stay sound. *)

LEMMA HeapFields ==
  ASSUME NEW V, NEW w \in Queue(V)
  PROVE  /\ w.heap \in [0 .. N -> Entries \union {None}] /\ w.count \in 0 .. N
         /\ w.made \subseteq Entries
         /\ w.index \in [Entries -> Int] /\ w.priority \in [Entries -> V]
  BY DEF Queue

LEMMA StepFields ==
  ASSUME NEW V, NEW w \in Queue(V)
  PROVE  /\ {w.entry, w.test, w.parent} \subseteq Entries \union {None}
         /\ w.run \in Runs /\ w.value \in Results(V) /\ w.kept \in V
         /\ w.caller \in BOOLEAN /\ w.open \in Seq(V \X V) /\ w.broken \in BOOLEAN
  BY DEF Queue

LEMMA SameFit ==
  ASSUME NEW full, NEW w, NEW v, Same(w, v), Fit(w, full)
  PROVE  Fit(v, full)
  BY DEF Same, Fit

\* The steps of the queue leave it as it is.
LEMMA SameHeld ==
  ASSUME NEW w, NEW v, Same(w, v), Held(w), v.open = w.open, v.run = w.run,
         v.entry = w.entry, v.parent = w.parent, v.test = w.test
  PROVE  Held(v)
  BY DEF Same, Held, Known

LEMMA BreaksSound ==
  ASSUME NEW V, NEW full, NEW w \in Queue(V)
  PROVE  /\ Leads(w, Breaks(w), V, full) /\ Breaks(w).broken
         /\ \A u : u.open = w.open => Leads(u, Breaks(w), V, full)
  <1>1. Breaks(w) \in Queue(V) /\ Breaks(w).broken /\ Breaks(w).open = w.open
    BY DEF Breaks, Queue
  <1> QED
    BY <1>1 DEF Leads, Sound

\* Settled changes nothing that an open comparison could need.
LEMMA SettledFields ==
  ASSUME NEW V, 0 \in V, NEW w \in Queue(V)
  PROVE  /\ Settled(w) \in Queue(V) /\ Same(w, Settled(w))
         /\ Settled(w).open = w.open /\ Settled(w).broken = w.broken
         /\ w.open # <<>> => Settled(w) = w
         /\ w.open = <<>> => Settled(w).run = "none"
         /\ Held(w) => Held(Settled(w))
  <1>1. CASE w.open # <<>>
    BY <1>1 DEF Settled, Same
  <1>2. CASE w.open = <<>>
    <2> DEFINE e == IF bound.open = 1 THEN None ELSE w.entry
               p == IF bound.open = 1 THEN None ELSE w.parent
    <2>1. "none" \in Runs /\ <<"null", 0>> \in Results(V)
      BY DEF Runs, Results
    <2>2. Settled(w) = [w EXCEPT !.entry = e, !.parent = p, !.test = None,
                                 !.run = "none", !.kept = 0, !.value = <<"null", 0>>,
                                 !.caller = FALSE]
      BY <1>2 DEF Settled, Queue
    <2>5. /\ e \in {None, w.entry} /\ p \in {None, w.parent}
          /\ e \in Entries \union {None} /\ p \in Entries \union {None}
      BY StepFields
    <2> HIDE DEF e, p
    <2>3. Settled(w) \in Queue(V)
      BY <2>1, <2>2, <2>5, ZenonT(40) DEF Queue
    <2>4. /\ Same(w, Settled(w)) /\ Settled(w).open = w.open
          /\ Settled(w).broken = w.broken /\ Settled(w).run = "none"
          /\ Settled(w).entry = e /\ Settled(w).parent = p /\ Settled(w).test = None
      BY <2>2 DEF Queue, Same
    <2>6. Held(w) => Held(Settled(w))
      BY <1>2, <2>4, <2>5 DEF Held, Known, Same
    <2> QED
      BY <1>2, <2>3, <2>4, <2>6
  <1> QED
    BY <1>1, <1>2

LEMMA FinishFields ==
  ASSUME NEW V, 0 \in V, NEW w \in Queue(V)
  PROVE  /\ Finish(w) \in Queue(V) /\ Same(w, Finish(w)) /\ Finish(w).open = w.open
         /\ w.open = <<>> => Finish(w).broken \/ Finish(w).run = "none"
         /\ Held(w) => Held(Finish(w))
  <1> DEFINE v == [w EXCEPT !.caller = FALSE, !.value = <<"null", 0>>]
  <1>1. CASE w.caller
    <2>1. <<"null", 0>> \in Results(V)
      BY DEF Results
    <2>2. v \in Queue(V)
      BY <2>1 DEF Queue
    <2>3. /\ Same(w, v) /\ v.open = w.open /\ v.run = w.run
          /\ v.entry = w.entry /\ v.test = w.test /\ v.parent = w.parent
      BY DEF Queue, Same
    <2>4. Finish(w) = Settled(v)
      BY <1>1 DEF Finish
    <2> HIDE DEF v
    <2>5. /\ Settled(v) \in Queue(V) /\ Same(v, Settled(v)) /\ Settled(v).open = v.open
          /\ v.open = <<>> => Settled(v).run = "none"
          /\ Held(v) => Held(Settled(v))
      BY <2>2, SettledFields
    <2>6. Held(w) => Held(v)
      BY <2>3, SameHeld
    <2> QED
      BY <2>2, <2>3, <2>4, <2>5, <2>6 DEF Same
  <1>2. CASE ~ w.caller
    <2>1. Finish(w) = Breaks(w)
      BY <1>2 DEF Finish
    <2>2. /\ Breaks(w) \in Queue(V) /\ Same(w, Breaks(w)) /\ Breaks(w).open = w.open
          /\ Breaks(w).broken /\ Breaks(w).run = w.run /\ Breaks(w).entry = w.entry
          /\ Breaks(w).parent = w.parent /\ Breaks(w).test = w.test
      BY DEF Breaks, Queue, Same
    <2>3. Held(w) => Held(Breaks(w))
      BY <2>2, SameHeld
    <2> QED
      BY <2>1, <2>2, <2>3
  <1> QED
    BY <1>1, <1>2

LEMMA FinishSound ==
  ASSUME NEW V, NEW full, 0 \in V, NEW w \in Queue(V), Fit(w, full), Held(w)
  PROVE  Leads(w, Finish(w), V, full)
  <1> DEFINE v == Finish(w)
  <1>1. v \in Queue(V) /\ v.open = w.open /\ Fit(v, full)
    BY FinishFields, SameFit
  <1>2. Held(v)
    BY FinishFields
  <1> QED
    BY <1>1, <1>2 DEF Leads, Sound

LEMMA CompareFields ==
  ASSUME NEW V, NEW w \in Queue(V), NEW run \in Runs, NEW a \in V, NEW b \in V
  PROVE  LET v == Compare(w, run, a, b)
         IN  /\ v \in Queue(V) /\ Same(w, v) /\ v.run = run /\ v.entry = w.entry
             /\ v.parent = w.parent /\ v.test = w.test /\ v.open = Append(w.open, <<a, b>>)
             /\ v.value = w.value /\ v.kept = w.kept
  <1>1. Append(w.open, <<a, b>>) \in Seq(V \X V)
    BY StepFields
  <1> QED
    BY <1>1 DEF Compare, Queue, Same

LEMMA CompareSound ==
  ASSUME NEW V, NEW full, NEW w \in Queue(V), Fit(w, full),
         NEW run \in Runs \ {"none"}, NEW a \in V, NEW b \in V,
         Known(w), run \notin {"up", "keep"} => w.entry \in w.made,
         run \in {"left", "right"} => w.parent \in w.made /\ w.test \in w.made
  PROVE  Leads(w, Compare(w, run, a, b), V, full)
  <1> DEFINE v == Compare(w, run, a, b)
  <1>1. v \in Queue(V) /\ Fit(v, full) /\ v.open = Append(w.open, <<a, b>>)
    BY CompareFields, SameFit
  <1>2. Held(v)
    BY CompareFields DEF Held, Known, Same
  <1>3. <<a, b>> \in V \X V
    OBVIOUS
  <1> QED
    BY <1>1, <1>2, <1>3 DEF Leads, Sound

\* Two entries that say they are queued and change places keep the heap sound;
\* of two that say they are at the same index, b stays there.
LEMMA SwapFit ==
  ASSUME NEW heap, NEW index, NEW count \in 0 .. N, NEW made \in SUBSET Entries,
         FitOf(heap, index, count, made),
         NEW a \in made, NEW b \in made, index[a] # Out, index[b] # Out,
         NEW h, NEW x, x[a] = index[b], x[b] = index[a],
         \A y \in Entries \ {a, b} : x[y] = index[y],
         index[b] # index[a] => h[index[b]] = a, h[index[a]] = b,
         \A i \in 0 .. N : i # index[b] /\ i # index[a] => h[i] = heap[i]
  PROVE  /\ FitOf(h, x, count, made)
         /\ QueuedOf(heap, index, count) => QueuedOf(h, x, count)
  <1>1. /\ index[a] \in 0 .. N - 1 /\ index[b] \in 0 .. N - 1
        /\ \A i \in 0 .. count - 1 : i \in 0 .. N
    BY NType DEF FitOf
  <1>2. ASSUME NEW i \in 0 .. count - 1
        PROVE  h[i] \in made /\ x[h[i]] = i
    <2>1. CASE i = index[a]
      BY <2>1
    <2>2. CASE i = index[b] /\ i # index[a]
      BY <2>2
    <2>3. CASE i # index[a] /\ i # index[b]
      <3>1. h[i] = heap[i] /\ heap[i] \in made /\ index[heap[i]] = i
        BY <1>1, <2>3 DEF FitOf
      <3> QED
        BY <2>3, <3>1
    <2> QED
      BY <2>1, <2>2, <2>3
  <1>3. ASSUME NEW i \in 0 .. N
        PROVE  h[i] \in made \union {None}
    BY DEF FitOf
  <1>4. ASSUME NEW y \in Entries, x[y] # Out
        PROVE  x[y] \in 0 .. N - 1 /\ y \in made
    BY <1>1, <1>4 DEF FitOf
  <1>5. ASSUME QueuedOf(heap, index, count), NEW y \in Entries, x[y] # Out
        PROVE  x[y] \in 0 .. count - 1 /\ h[x[y]] = y
    <2>1. /\ index[a] \in 0 .. count - 1 /\ index[b] \in 0 .. count - 1
          /\ heap[index[a]] = a /\ heap[index[b]] = b
      BY <1>5 DEF QueuedOf
    <2>2. CASE y \in {a, b}
      BY <2>1, <2>2
    <2>3. CASE y \notin {a, b}
      <3>1. x[y] = index[y] /\ index[y] \in 0 .. count - 1 /\ heap[index[y]] = y
        BY <1>5, <2>3 DEF QueuedOf
      <3> QED
        BY <1>1, <2>1, <2>3, <3>1
    <2> QED
      BY <2>2, <2>3
  <1> QED
    BY <1>2, <1>3, <1>4, <1>5 DEF FitOf, QueuedOf

LEMMA SwapFields ==
  ASSUME NEW V, NEW full, NEW w \in Queue(V), Fit(w, full), Swaps(w),
         w.entry \in w.made, w.parent \in w.made
  PROVE  LET v == Swap(w)
             e == w.index[w.entry]
             p == w.index[w.parent]
         IN  /\ e \in 0 .. N - 1 /\ p \in 0 .. N - 1
             /\ (p # e => v.heap[p] = w.entry) /\ v.heap[e] = w.parent
             /\ \A i \in 0 .. N : i # p /\ i # e => v.heap[i] = w.heap[i]
             /\ v.index[w.entry] = p /\ v.index[w.parent] = e
             /\ \A y \in Entries \ {w.entry, w.parent} : v.index[y] = w.index[y]
             /\ v \in Queue(V) /\ v.count = w.count /\ v.made = w.made
             /\ v.priority = w.priority /\ v.entry = w.entry /\ v.test = w.test
             /\ v.parent = w.parent /\ v.run = w.run /\ v.open = w.open
  <1> DEFINE e == w.index[w.entry]
             p == w.index[w.parent]
             h == [w.heap EXCEPT ![p] = w.entry, ![e] = w.parent]
             x == [w.index EXCEPT ![w.entry] = p, ![w.parent] = e]
  <1>1. w.entry \in Entries /\ w.parent \in Entries
    BY HeapFields
  <1>2. e \in 0 .. N - 1 /\ p \in 0 .. N - 1
    BY <1>1 DEF Fit, FitOf, Swaps
  <1>3. Swap(w) = [w EXCEPT !.heap = h, !.index = x]
    BY DEF Swap, Queue
  <1>4. h \in [0 .. N -> Entries \union {None}]
    BY <1>1, HeapFields
  <1>5. e \in Int /\ p \in Int /\ e \in 0 .. N /\ p \in 0 .. N
    BY <1>2, NType
  <1>6. x \in [Entries -> Int]
    BY <1>1, <1>5, HeapFields
  <1>7. /\ (p # e => h[p] = w.entry) /\ h[e] = w.parent
        /\ \A i \in 0 .. N : i # p /\ i # e => h[i] = w.heap[i]
    BY <1>5, HeapFields
  <1>8. /\ x[w.entry] = p /\ x[w.parent] = e
        /\ \A y \in Entries \ {w.entry, w.parent} : x[y] = w.index[y]
    BY <1>1, <1>2, HeapFields
  <1> HIDE DEF h, x
  <1>9. Swap(w) \in Queue(V)
    BY <1>3, <1>4, <1>6 DEF Queue
  <1>10. /\ Swap(w).heap = h /\ Swap(w).index = x /\ Swap(w).count = w.count
         /\ Swap(w).made = w.made /\ Swap(w).priority = w.priority
         /\ Swap(w).entry = w.entry /\ Swap(w).test = w.test /\ Swap(w).parent = w.parent
         /\ Swap(w).run = w.run /\ Swap(w).open = w.open
    BY <1>3 DEF Queue
  <1> QED
    BY <1>2, <1>7, <1>8, <1>9, <1>10

LEMMA SwapSound ==
  ASSUME NEW V, NEW full, NEW w \in Queue(V), Fit(w, full), Held(w), Swaps(w),
         w.entry \in w.made, w.parent \in w.made
  PROVE  /\ Swap(w) \in Queue(V) /\ Fit(Swap(w), full) /\ Held(Swap(w))
         /\ Swap(w).open = w.open
  <1> DEFINE v == Swap(w)
  <1>1. w.count \in 0 .. N /\ w.made \in SUBSET Entries
    BY HeapFields
  <1>2. w.index[w.entry] # Out /\ w.index[w.parent] # Out
    BY DEF Swaps
  <1>3. /\ FitOf(v.heap, v.index, w.count, w.made)
        /\ full = Full => QueuedOf(v.heap, v.index, w.count)
    <2> DEFINE a == w.entry
               b == w.parent
               heap == w.heap
               index == w.index
               h == v.heap
               x == v.index
    <2>1. /\ x[a] = index[b] /\ x[b] = index[a]
          /\ \A y \in Entries \ {a, b} : x[y] = index[y]
          /\ index[b] # index[a] => h[index[b]] = a
          /\ h[index[a]] = b
          /\ \A i \in 0 .. N : i # index[b] /\ i # index[a] => h[i] = heap[i]
      BY SwapFields
    <2>2. /\ FitOf(heap, index, w.count, w.made) /\ a \in w.made /\ b \in w.made
          /\ index[a] # Out /\ index[b] # Out
          /\ full = Full => QueuedOf(heap, index, w.count)
      BY <1>2 DEF Fit
    <2> HIDE DEF a, b, heap, index, h, x
    <2>3. /\ FitOf(h, x, w.count, w.made)
          /\ QueuedOf(heap, index, w.count) => QueuedOf(h, x, w.count)
      BY <1>1, <2>1, <2>2, SwapFit
    <2> QED
      BY <2>2, <2>3 DEF h, x
  <1>5. /\ v.entry = w.entry /\ v.test = w.test /\ v.parent = w.parent
        /\ v.run = w.run /\ v.open = w.open /\ v.made = w.made /\ v.count = w.count
        /\ v \in Queue(V)
    BY SwapFields
  <1> HIDE DEF v
  <1>6. Held(v)
    BY <1>5 DEF Held, Known
  <1> QED
    BY <1>3, <1>5, <1>6 DEF Fit, v

LEMMA LeadsFrom ==
  ASSUME NEW V, NEW full, NEW w, NEW v, NEW u, Leads(v, u, V, full), v.open = w.open
  PROVE  Leads(w, u, V, full)
  BY DEF Leads

\* w, with other entries to compare.
Looking(w, e, p) == [w EXCEPT !.entry = e, !.parent = p]

LEMMA SetBoth ==
  ASSUME NEW V, NEW w \in Queue(V), NEW e \in Entries, NEW p \in Entries, NEW v,
         v = Looking(w, e, p)
  PROVE  /\ v \in Queue(V) /\ Same(w, v) /\ v.open = w.open /\ v.run = w.run
         /\ v.entry = e /\ v.parent = p /\ v.test = w.test
         /\ v.value = w.value /\ v.kept = w.kept
  <1>1. v \in Queue(V)
    BY DEF Looking, Queue
  <1> QED
    BY <1>1 DEF Looking, Queue, Same

LEMMA SetTest ==
  ASSUME NEW V, NEW w \in Queue(V), NEW t \in Entries, NEW v, v = [w EXCEPT !.test = t]
  PROVE  /\ v \in Queue(V) /\ Same(w, v) /\ v.open = w.open /\ v.run = w.run
         /\ v.entry = w.entry /\ v.parent = w.parent /\ v.test = t
  <1>1. v \in Queue(V)
    BY DEF Queue
  <1> QED
    BY <1>1 DEF Queue, Same

LEMMA SetParent ==
  ASSUME NEW V, NEW w \in Queue(V), NEW p \in Entries, NEW v, v = [w EXCEPT !.parent = p]
  PROVE  /\ v \in Queue(V) /\ Same(w, v) /\ v.open = w.open /\ v.run = w.run
         /\ v.entry = w.entry /\ v.parent = p /\ v.test = w.test
  <1>1. v \in Queue(V)
    BY DEF Queue
  <1> QED
    BY <1>1 DEF Queue, Same

\* The parent of a position, and its children.
LEMMA Parents ==
  ASSUME NEW i \in Nat \ {0}
  PROVE  /\ ParentIndex(i) \in Nat /\ ParentIndex(i) < i
         /\ i = 2 * ParentIndex(i) + 1 \/ i = 2 * ParentIndex(i) + 2
  BY DEF ParentIndex

LEMMA Children ==
  ASSUME NEW i \in Nat
  PROVE  ParentIndex(2 * i + 1) = i /\ ParentIndex(2 * i + 2) = i
  BY DEF ParentIndex

\* What is at the positions of a sound heap.
LEMMA AtPositions ==
  ASSUME NEW V, NEW full, NEW w \in Queue(V), Fit(w, full)
  PROVE  /\ \A i \in Pos(w) : /\ w.heap[i] \in w.made /\ w.heap[i] \in Entries
                              /\ w.index[w.heap[i]] = i /\ w.priority[w.heap[i]] \in V
         /\ \A i \in 0 .. N : w.heap[i] \in w.made \union {None}
         /\ \A e \in w.made : e \in Entries /\ w.priority[e] \in V
         /\ \A e \in Entries : w.index[e] # Out => w.index[e] \in 0 .. N - 1 /\ e \in w.made
  <1>1. w.made \subseteq Entries /\ w.priority \in [Entries -> V]
    BY HeapFields
  <1> QED
    BY <1>1 DEF Fit, FitOf, Pos

\* In a full one an entry is where it says it is.
LEMMA Queued ==
  ASSUME NEW V, NEW w \in Queue(V), Fit(w, Full)
  PROVE  /\ \A i \in Pos(w) : /\ w.heap[i] \in w.made /\ w.heap[i] \in Entries
                              /\ w.index[w.heap[i]] = i /\ w.priority[w.heap[i]] \in V
         /\ \A e \in w.made : /\ e \in Entries /\ w.priority[e] \in V
                              /\ w.index[e] # Out => w.index[e] \in Pos(w)
                                                     /\ w.heap[w.index[e]] = e
  <1>1. w.made \subseteq Entries /\ w.priority \in [Entries -> V]
    BY HeapFields
  <1> QED
    BY <1>1 DEF Fit, FitOf, QueuedOf, Pos

LEMMA Up2Sound ==
  ASSUME NEW V, NEW full, 0 \in V, NEW w \in Queue(V), Fit(w, full), Held(w), NEW e \in w.made
  PROVE  Leads(w, Up2(w, e), V, full)
  <1> DEFINE i == w.index[e]
             p == w.heap[ParentIndex(i)]
             v == Looking(w, e, p)
  <1>1. CASE i = 0
    BY <1>1, FinishSound DEF Up2
  <1>2. CASE i = Out
    BY <1>2, BreaksSound DEF Up2, Out
  <1>3. CASE i # 0 /\ i # Out /\ p = None
    BY <1>3, BreaksSound DEF Up2
  <1>4. CASE i # 0 /\ i # Out /\ p # None
    <2>1. i \in 0 .. N - 1 /\ i # 0 /\ e \in Entries /\ w.priority[e] \in V
      BY <1>4, AtPositions
    <2>2. ParentIndex(i) \in 0 .. N
      BY <2>1, Parents, NType
    <2>3. p \in w.made /\ p \in Entries /\ w.priority[p] \in V
      BY <1>4, <2>2, AtPositions
    <2>4. /\ v \in Queue(V) /\ Same(w, v) /\ v.open = w.open /\ v.entry = e
          /\ v.parent = p /\ v.test = w.test
      BY <2>1, <2>3, SetBoth
    <2>6. Up2(w, e) = Compare(v, "up", w.priority[e], w.priority[p])
      BY <1>4 DEF Up2, Looking
    <2> HIDE DEF v, p
    <2>7. Fit(v, full) /\ Known(v)
      BY <2>3, <2>4, SameFit DEF Same, Known, Held
    <2>8. Leads(v, Up2(w, e), V, full)
      BY <2>1, <2>3, <2>4, <2>6, <2>7, CompareSound DEF Runs
    <2> QED
      BY <2>4, <2>8, LeadsFrom
  <1> QED
    BY <1>1, <1>2, <1>3, <1>4

LEMMA UpRunSound ==
  ASSUME NEW V, NEW full, 0 \in V, NEW w \in Queue(V), Fit(w, full), Held(w),
         NEW greater
  PROVE  Leads(w, UpRun(w, greater), V, full)
  <1>1. CASE ~ greater
    BY <1>1, FinishSound DEF UpRun
  <1>2. CASE greater /\ ~ Swaps(w)
    BY <1>2, BreaksSound DEF UpRun
  <1>3. CASE greater /\ Swaps(w)
    <2>1. UpRun(w, greater) = Up2(Swap(w), w.entry)
      BY <1>3 DEF UpRun
    <2>2. w.entry \in w.made /\ w.parent \in w.made
      BY <1>3 DEF Swaps, Held, Known
    <2>3. Swap(w).made = w.made
      BY <1>3, <2>2, SwapFields
    <2>4. Leads(Swap(w), Up2(Swap(w), w.entry), V, full) /\ Swap(w).open = w.open
      BY <1>3, <2>2, <2>3, SwapSound, Up2Sound
    <2> QED
      BY <2>1, <2>4, LeadsFrom
  <1> QED
    BY <1>1, <1>2, <1>3

LEMMA Down1Sound ==
  ASSUME NEW V, NEW full, 0 \in V, NEW w \in Queue(V), Fit(w, full), Held(w), NEW e \in w.made
  PROVE  Leads(w, Down1(w, e), V, full)
  <1> DEFINE left == 2 * w.index[e] + 1
             t == w.heap[left]
             v == Looking(w, e, e)
             u == [v EXCEPT !.test = t]
  <1>1. /\ e \in Entries /\ w.priority[e] \in V
        /\ w.index[e] # Out => w.index[e] \in 0 .. N - 1
    BY AtPositions
  <1>2. v \in Queue(V) /\ Same(w, v) /\ v.open = w.open /\ v.entry = e /\ v.parent = e
        /\ v.test = w.test /\ v.run = w.run
    BY <1>1, SetBoth
  <1>3. CASE w.index[e] = Out
    BY <1>3, BreaksSound DEF Down1
  <1>4. CASE w.index[e] # Out /\ ~ (left < w.count)
    <2>1. Down1(w, e) = Finish(v)
      BY <1>4 DEF Down1, Looking
    <2> HIDE DEF v
    <2>2. Fit(v, full) /\ Held(v)
      BY <1>2, SameFit DEF Held, Known, Same
    <2> QED
      BY <1>2, <2>1, <2>2, FinishSound, LeadsFrom
  <1>5. CASE w.index[e] # Out /\ left < w.count
    <2>1. Down1(w, e) = Compare(u, "left", w.priority[t], w.priority[e])
      BY <1>5 DEF Down1, Looking
    <2>2. left \in Pos(w)
      BY <1>1, <1>5, HeapFields, NType DEF Pos
    <2>3. t \in w.made /\ t \in Entries /\ w.priority[t] \in V
      BY <2>2, AtPositions
    <2> HIDE DEF v, t
    <2>4. u \in Queue(V) /\ Same(v, u) /\ u.open = v.open /\ u.entry = e /\ u.parent = e
          /\ u.test = t
      BY <1>2, <2>3, SetTest
    <2> HIDE DEF u
    <2>5. Fit(u, full) /\ u.made = w.made /\ u.open = w.open /\ Known(u)
      BY <1>2, <2>3, <2>4, SameFit DEF Same, Known
    <2>6. Leads(u, Down1(w, e), V, full)
      BY <1>1, <2>1, <2>3, <2>4, <2>5, CompareSound DEF Runs
    <2> QED
      BY <2>5, <2>6, LeadsFrom
  <1> QED
    BY <1>3, <1>4, <1>5

LEMMA Down2Sound ==
  ASSUME NEW V, NEW full, 0 \in V, NEW w \in Queue(V), Fit(w, full), Held(w),
         w.entry \in w.made, w.parent \in w.made
  PROVE  Leads(w, Down2(w), V, full)
  <1>1. CASE w.parent = w.entry
    BY <1>1, FinishSound DEF Down2
  <1>2. CASE w.parent # w.entry /\ ~ Swaps(w)
    BY <1>2, BreaksSound DEF Down2
  <1>3. CASE w.parent # w.entry /\ Swaps(w)
    <2>1. Down2(w) = Down1(Swap(w), w.entry)
      BY <1>3 DEF Down2
    <2>2. Swap(w).made = w.made
      BY <1>3, SwapFields
    <2>3. Leads(Swap(w), Down1(Swap(w), w.entry), V, full) /\ Swap(w).open = w.open
      BY <1>3, <2>2, SwapSound, Down1Sound
    <2> QED
      BY <2>1, <2>3, LeadsFrom
  <1> QED
    BY <1>1, <1>2, <1>3

LEMMA GreatestFields ==
  ASSUME NEW V, NEW full, NEW w \in Queue(V), Fit(w, full), Held(w), w.entry \in w.made,
         w.parent \in w.made, w.test \in w.made, NEW greater, NEW v, v = Greatest(w, greater)
  PROVE  /\ v \in Queue(V) /\ Fit(v, full) /\ Held(v) /\ Same(w, v) /\ v.open = w.open
         /\ v.run = w.run /\ v.entry = w.entry /\ v.test = w.test
         /\ v.parent = IF greater THEN w.test ELSE w.parent
         /\ v.parent \in v.made
  <1>1. w.test \in Entries
    BY HeapFields
  <1>2. CASE greater
    <2>1. v = [w EXCEPT !.parent = w.test]
      BY <1>2 DEF Greatest
    <2>2. /\ v \in Queue(V) /\ Same(w, v) /\ v.open = w.open /\ v.run = w.run
          /\ v.entry = w.entry /\ v.parent = w.test /\ v.test = w.test
      BY <1>1, <2>1, SetParent
    <2> QED
      BY <1>2, <2>2, SameFit DEF Held, Known, Same
  <1>3. CASE ~ greater
    BY <1>3 DEF Greatest, Same
  <1> QED
    BY <1>2, <1>3

LEMMA DownRightSound ==
  ASSUME NEW V, NEW full, 0 \in V, NEW w \in Queue(V), Fit(w, full), Held(w), w.entry \in w.made,
         w.parent \in w.made, w.test \in w.made, NEW greater
  PROVE  Leads(w, DownRight(w, greater), V, full)
  <1> DEFINE v == Greatest(w, greater)
  <1>1. /\ v \in Queue(V) /\ Fit(v, full) /\ Held(v) /\ v.entry \in v.made /\ v.parent \in v.made
        /\ v.open = w.open
    BY GreatestFields DEF Same
  <1> QED
    BY <1>1, Down2Sound, LeadsFrom DEF DownRight

LEMMA DownLeftSound ==
  ASSUME NEW V, NEW full, 0 \in V, NEW w \in Queue(V), Fit(w, full), Held(w), w.entry \in w.made,
         w.parent \in w.made, w.test \in w.made, NEW greater
  PROVE  Leads(w, DownLeft(w, greater), V, full)
  <1> DEFINE v == Greatest(w, greater)
             right == w.index[w.test] + 1
             t == w.heap[right]
             u == [v EXCEPT !.test = t]
  <1>1. /\ v \in Queue(V) /\ Fit(v, full) /\ Held(v) /\ Same(w, v) /\ v.open = w.open
        /\ v.entry = w.entry /\ v.parent \in v.made
    BY GreatestFields
  <1>2. v.entry \in v.made /\ v.made = w.made /\ w.test \in Entries
    BY <1>1, HeapFields DEF Same
  <1> HIDE DEF v
  <1>3. CASE w.index[w.test] = Out
    BY <1>3, BreaksSound DEF DownLeft
  <1>4. CASE w.index[w.test] # Out /\ ~ (right < w.count)
    <2>1. DownLeft(w, greater) = Down2(v)
      BY <1>4 DEF DownLeft, v
    <2> QED
      BY <1>1, <1>2, <2>1, Down2Sound, LeadsFrom
  <1>5. CASE w.index[w.test] # Out /\ right < w.count
    <2>1. DownLeft(w, greater) = Compare(u, "right", w.priority[t], w.priority[v.parent])
      BY <1>5 DEF DownLeft, RightWith, v
    <2>2. right \in Pos(w)
      BY <1>2, <1>5, AtPositions, HeapFields, NType DEF Pos
    <2>3. t \in w.made /\ t \in Entries /\ w.priority[t] \in V /\ w.priority[v.parent] \in V
      BY <1>1, <1>2, <2>2, AtPositions
    <2> HIDE DEF t
    <2>4. u \in Queue(V) /\ Same(v, u) /\ u.open = v.open /\ u.entry = v.entry
          /\ u.parent = v.parent /\ u.test = t
      BY <1>1, <2>3, SetTest
    <2> HIDE DEF u
    <2>5. Fit(u, full) /\ u.made = w.made /\ u.open = w.open /\ Known(u)
      BY <1>1, <1>2, <2>3, <2>4, SameFit DEF Same, Known
    <2>6. Leads(u, DownLeft(w, greater), V, full)
      BY <1>1, <1>2, <2>1, <2>3, <2>4, <2>5, CompareSound DEF Runs
    <2> QED
      BY <2>5, <2>6, LeadsFrom
  <1> QED
    BY <1>3, <1>4, <1>5
------------------------------------------------------------------------------
(* Entries that come and go. *)

\* There is room for an entry that is not queued.
LEMMA Room ==
  ASSUME NEW V, NEW full, NEW w \in Queue(V), Fit(w, full), NEW e \in Entries, w.index[e] = Out
  PROVE  w.count + 1 \in 0 .. N
  <1> DEFINE f == [i \in Pos(w) |-> w.heap[i]]
             others == Entries \ {e}
  <1>1. IsFiniteSet(others) /\ Cardinality(others) = N - 1
    BY FS_RemoveElement, PQueueAssumption DEF N
  <1>2. w.count \in Nat /\ N \in Nat
    BY HeapFields, NType
  <1>3. \A i \in Pos(w) : w.heap[i] \in others /\ w.index[w.heap[i]] = i
    <2> TAKE i \in Pos(w)
    <2>1. w.heap[i] \in Entries /\ w.index[w.heap[i]] = i /\ i >= 0
      BY <1>2, AtPositions DEF Pos
    <2> QED
      BY <2>1 DEF Out
  <1>4. f \in [Pos(w) -> others]
    BY <1>3
  <1>5. \A i, j \in Pos(w) : f[i] = f[j] => i = j
    BY <1>3
  <1>6. f \in Injection(Pos(w), others)
    BY <1>4, <1>5 DEF Injection, IsInjective
  <1>7. Cardinality(Pos(w)) <= N - 1
    BY <1>1, <1>6, FS_Injection
  <1>8. Cardinality(Pos(w)) = w.count
    BY <1>2, FS_Interval DEF Pos
  <1> QED
    BY <1>2, <1>7, <1>8

\* An entry takes the first free position.
LEMMA AppendFit ==
  ASSUME NEW heap, NEW index, NEW count \in 0 .. N - 1, NEW made \in SUBSET Entries,
         FitOf(heap, index, count, made), NEW e \in made, index[e] = Out,
         NEW h, NEW x, x[e] = count, \A y \in Entries \ {e} : x[y] = index[y],
         h[count] = e, \A i \in 0 .. N : i # count => h[i] = heap[i]
  PROVE  /\ FitOf(h, x, count + 1, made)
         /\ QueuedOf(heap, index, count) => QueuedOf(h, x, count + 1)
  <1>0. count \in Nat /\ N \in Nat /\ \A i \in 0 .. count : i \in 0 .. N
    BY NType
  <1>1. ASSUME NEW i \in 0 .. count
        PROVE  h[i] \in made /\ x[h[i]] = i
    <2>1. CASE i = count
      BY <2>1
    <2>2. CASE i # count
      <3>1. i \in 0 .. count - 1
        BY <1>0, <2>2
      <3>2. h[i] = heap[i] /\ heap[i] \in made /\ index[heap[i]] = i
        BY <1>0, <2>2, <3>1 DEF FitOf
      <3> QED
        BY <3>1, <3>2 DEF Out
    <2> QED
      BY <2>1, <2>2
  <1>2. \A i \in 0 .. N : h[i] \in made \union {None}
    BY DEF FitOf
  <1>3. ASSUME NEW y \in Entries, x[y] # Out
        PROVE  x[y] \in 0 .. N - 1 /\ y \in made
    BY <1>3 DEF FitOf
  <1>4. ASSUME QueuedOf(heap, index, count), NEW y \in Entries, x[y] # Out
        PROVE  x[y] \in 0 .. count /\ h[x[y]] = y
    <2>1. CASE y = e
      BY <1>0, <2>1
    <2>2. CASE y # e
      <3>1. x[y] = index[y] /\ index[y] \in 0 .. count - 1 /\ heap[index[y]] = y
        BY <1>4, <2>2 DEF QueuedOf
      <3> QED
        BY <1>0, <3>1
    <2> QED
      BY <2>1, <2>2
  <1>5. 0 .. (count + 1) - 1 = 0 .. count
    BY <1>0
  <1> QED
    BY <1>1, <1>2, <1>3, <1>4, <1>5 DEF FitOf, QueuedOf

\* An entry takes the position of another, or the first one of an empty queue that
\* an entry has been left at.
LEMMA ReplaceFit ==
  ASSUME NEW heap, NEW index, NEW count \in 0 .. N, NEW made \in SUBSET Entries,
         FitOf(heap, index, count, made), NEW i \in 0 .. N - 1, count = 0 \/ i < count,
         NEW e \in made, index[e] = Out, heap[i] # None, heap[i] # e,
         NEW h, NEW x, x[heap[i]] = Out, x[e] = i,
         \A y \in Entries \ {e, heap[i]} : x[y] = index[y],
         h[i] = e, \A j \in 0 .. N : j # i => h[j] = heap[j]
  PROVE  /\ FitOf(h, x, count, made)
         /\ QueuedOf(heap, index, count) /\ count # 0 => QueuedOf(h, x, count)
  <1>0. /\ N \in Nat /\ count \in Nat /\ \A j \in 0 .. count - 1 : j \in 0 .. N
        /\ heap[i] \in made /\ count # 0 => i \in 0 .. count - 1 /\ index[heap[i]] = i
    BY NType DEF FitOf
  <1>1. ASSUME NEW j \in 0 .. count - 1
        PROVE  h[j] \in made /\ x[h[j]] = j
    <2>1. CASE j = i
      BY <2>1
    <2>2. CASE j # i
      <3>1. /\ h[j] = heap[j] /\ heap[j] \in made /\ index[heap[j]] = j
            /\ index[heap[i]] = i
        BY <1>0, <2>2 DEF FitOf
      <3> QED
        BY <2>2, <3>1 DEF Out
    <2> QED
      BY <2>1, <2>2
  <1>2. \A j \in 0 .. N : h[j] \in made \union {None}
    BY DEF FitOf
  <1>3. ASSUME NEW y \in Entries, x[y] # Out
        PROVE  x[y] \in 0 .. N - 1 /\ y \in made
    BY <1>3 DEF FitOf
  <1>4. ASSUME QueuedOf(heap, index, count), count # 0, NEW y \in Entries, x[y] # Out
        PROVE  x[y] \in 0 .. count - 1 /\ h[x[y]] = y
    <2>1. CASE y = e
      BY <1>0, <1>4, <2>1
    <2>2. CASE y # e
      <3>1. y # heap[i] /\ x[y] = index[y]
        BY <1>4, <2>2
      <3>2. index[y] \in 0 .. count - 1 /\ heap[index[y]] = y
        BY <1>4, <3>1 DEF QueuedOf
      <3> QED
        BY <1>0, <3>1, <3>2
    <2> QED
      BY <2>1, <2>2
  <1> QED
    BY <1>1, <1>2, <1>3, <1>4 DEF FitOf, QueuedOf

\* The entry e leaves, and the last one takes the position where it says it is.
LEMMA MoveFit ==
  ASSUME NEW heap, NEW index, NEW n \in 0 .. N - 1, NEW made \in SUBSET Entries,
         FitOf(heap, index, n + 1, made), NEW e \in made, NEW i, i = index[e], i # Out,
         NEW last, last = heap[n],
         NEW h, NEW x, x[e] = Out, last # e => x[last] = i,
         \A y \in Entries \ {e, last} : x[y] = index[y],
         i # n => h[i] = last, h[n] \in {None, last},
         \A j \in 0 .. N : j # n /\ j # i => h[j] = heap[j]
  PROVE  /\ FitOf(h, x, n, made)
         /\ QueuedOf(heap, index, n + 1) => QueuedOf(h, x, n)
  <1>0. /\ n \in Nat /\ N \in Nat /\ 0 .. (n + 1) - 1 = 0 .. n /\ i \in 0 .. N - 1
        /\ \A j \in 0 .. n : j \in 0 .. N
    BY NType DEF FitOf
  <1>1. last \in made /\ index[last] = n
    BY <1>0 DEF FitOf
  <1>2. ASSUME NEW j \in 0 .. n - 1
        PROVE  h[j] \in made /\ x[h[j]] = j
    <2>0. j \in 0 .. n /\ j # n
      BY <1>0
    <2>1. CASE j = i
      BY <1>1, <2>0, <2>1
    <2>2. CASE j # i
      <3>1. h[j] = heap[j] /\ heap[j] \in made /\ index[heap[j]] = j
        BY <1>0, <2>0, <2>2 DEF FitOf
      <3> QED
        BY <1>1, <2>0, <2>2, <3>1
    <2> QED
      BY <2>1, <2>2
  <1>3. ASSUME NEW j \in 0 .. N
        PROVE  h[j] \in made \union {None}
    <2>1. CASE j = n \/ j = i
      BY <1>1, <2>1
    <2>2. CASE j # n /\ j # i
      BY <2>2 DEF FitOf
    <2> QED
      BY <2>1, <2>2
  <1>4. ASSUME NEW y \in Entries, x[y] # Out
        PROVE  x[y] \in 0 .. N - 1 /\ y \in made
    BY <1>0, <1>1, <1>4 DEF FitOf
  <1>5. ASSUME QueuedOf(heap, index, n + 1), NEW y \in Entries, x[y] # Out
        PROVE  x[y] \in 0 .. n - 1 /\ h[x[y]] = y
    <2>1. i \in 0 .. n /\ heap[i] = e
      BY <1>0, <1>5 DEF QueuedOf
    <2>2. CASE y = last
      BY <1>0, <1>5, <2>1, <2>2
    <2>3. CASE y # last
      <3>1. y # e /\ x[y] = index[y]
        BY <1>5, <2>3
      <3>2. index[y] \in 0 .. n /\ heap[index[y]] = y
        BY <1>0, <1>5, <3>1 DEF QueuedOf
      <3> QED
        BY <1>0, <2>1, <2>3, <3>1, <3>2
    <2> QED
      BY <2>2, <2>3
  <1> QED
    BY <1>2, <1>3, <1>4, <1>5 DEF FitOf, QueuedOf

\* Insert, before it looks for the position of e.
Placed(w, e) ==
  [w EXCEPT !.index[e] = w.count, !.heap[w.count] = e, !.count = @ + 1, !.caller = TRUE,
            !.run = "up"]

LEMMA PlacedFields ==
  ASSUME NEW V, NEW full, NEW w \in Queue(V), Fit(w, full), NEW e \in w.made, w.index[e] = Out,
         NEW v, v = Placed(w, e)
  PROVE  /\ v \in Queue(V) /\ Fit(v, full) /\ v.count = w.count + 1
         /\ v.index[e] = w.count /\ v.heap[w.count] = e
         /\ \A i \in Pos(w) : v.heap[i] = w.heap[i]
         /\ v.made = w.made /\ v.priority = w.priority /\ v.open = w.open /\ v.run = "up"
         /\ v.entry = w.entry /\ v.parent = w.parent /\ v.test = w.test
  <1> DEFINE h == [w.heap EXCEPT ![w.count] = e]
             x == [w.index EXCEPT ![e] = w.count]
  <1>1. /\ e \in Entries /\ w.count \in Nat /\ w.count + 1 \in 0 .. N
        /\ w.count \in 0 .. N - 1 /\ w.count \in 0 .. N /\ "up" \in Runs
    BY Room, HeapFields, NType DEF Runs
  <1>2. v = [w EXCEPT !.index = x, !.heap = h, !.count = w.count + 1, !.caller = TRUE,
                      !.run = "up"]
    BY DEF Placed, Queue
  <1>3. h \in [0 .. N -> Entries \union {None}] /\ x \in [Entries -> Int]
    BY <1>1, HeapFields
  <1>4. /\ x[e] = w.count /\ \A y \in Entries \ {e} : x[y] = w.index[y]
        /\ h[w.count] = e
    BY <1>1, HeapFields
  <1>5. /\ \A i \in 0 .. N : i # w.count => h[i] = w.heap[i]
        /\ \A i \in 0 .. w.count - 1 : i \in 0 .. N /\ i # w.count
    BY <1>1, HeapFields, NType
  <1> HIDE DEF h, x
  <1>6. v \in Queue(V)
    BY <1>1, <1>2, <1>3, ZenonT(40) DEF Queue
  <1>7. /\ v.heap = h /\ v.index = x /\ v.count = w.count + 1
        /\ v.made = w.made /\ v.priority = w.priority /\ v.open = w.open /\ v.run = "up"
        /\ v.entry = w.entry /\ v.parent = w.parent /\ v.test = w.test
    BY <1>2 DEF Queue
  <1>8. /\ FitOf(h, x, w.count + 1, w.made)
        /\ full = Full => QueuedOf(h, x, w.count + 1)
    <2>1. /\ FitOf(w.heap, w.index, w.count, w.made) /\ w.made \in SUBSET Entries
          /\ full = Full => QueuedOf(w.heap, w.index, w.count)
      BY HeapFields DEF Fit
    <2> DEFINE heap == w.heap
               index == w.index
               count == w.count
               made == w.made
    <2>2. /\ FitOf(heap, index, count, made) /\ made \in SUBSET Entries /\ e \in made
          /\ count \in 0 .. N - 1 /\ index[e] = Out /\ x[e] = count /\ h[count] = e
          /\ \A y \in Entries \ {e} : x[y] = index[y]
          /\ \A i \in 0 .. N : i # count => h[i] = heap[i]
      BY <1>1, <1>4, <1>5, <2>1
    <2> HIDE DEF heap, index, count, made
    <2>3. /\ FitOf(h, x, count + 1, made)
          /\ QueuedOf(heap, index, count) => QueuedOf(h, x, count + 1)
      BY <2>2, AppendFit
    <2> QED
      BY <2>1, <2>3 DEF heap, index, count, made
  <1> QED
    BY <1>4, <1>5, <1>6, <1>7, <1>8 DEF Fit, Pos

LEMMA InsertSound ==
  ASSUME NEW V, NEW full, 0 \in V, NEW w \in Queue(V), Fit(w, full), Held(w), NEW e \in w.made,
         w.index[e] = Out
  PROVE  Leads(w, Insert(w, e), V, full)
  <1> DEFINE v == Placed(w, e)
  <1>1. /\ v \in Queue(V) /\ Fit(v, full) /\ v.count = w.count + 1 /\ v.made = w.made
        /\ v.open = w.open /\ v.run = "up" /\ v.entry = w.entry /\ v.parent = w.parent
        /\ v.test = w.test
    BY PlacedFields
  <1>2. Insert(w, e) = Up2(v, e)
    BY DEF Insert, Placed
  <1> HIDE DEF v
  <1>4. Held(v)
    BY <1>1 DEF Held, Known
  <1> QED
    BY <1>1, <1>2, <1>4, Up2Sound, LeadsFrom

\* A new entry is not queued yet.
LEMMA NotMade ==
  ASSUME NEW V, NEW full, NEW w \in Queue(V), Fit(w, full), NEW e \in Entries \ w.made
  PROVE  /\ w.index[e] = Out /\ \A i \in Pos(w) : w.heap[i] # e
         /\ \A i \in 0 .. N : w.heap[i] # e
  BY PQueueAssumption DEF Fit, FitOf, Pos

LEMMA MakeFields ==
  ASSUME NEW V, NEW full, NEW w \in Queue(V), Fit(w, full), NEW e \in Entries \ w.made, NEW p \in V,
         NEW v, v = Make(w, e, p)
  PROVE  /\ v \in Queue(V) /\ Fit(v, full) /\ (Held(w) => Held(v))
         /\ v.heap = w.heap /\ v.index = w.index /\ v.count = w.count
         /\ v.made = w.made \union {e} /\ v.priority[e] = p
         /\ \A y \in Entries \ {e} : v.priority[y] = w.priority[y]
         /\ v.open = w.open /\ v.run = w.run /\ v.kept = w.kept /\ v.value = w.value
         /\ v.broken = w.broken
  <1> DEFINE r == [w.priority EXCEPT ![e] = p]
             m == w.made \union {e}
  <1>1. v = [w EXCEPT !.made = m, !.priority = r]
    BY DEF Make, Queue
  <1>2. /\ r \in [Entries -> V] /\ r[e] = p
        /\ \A y \in Entries \ {e} : r[y] = w.priority[y]
    BY HeapFields
  <1>3. m \in SUBSET Entries
    BY HeapFields
  <1> HIDE DEF r, m
  <1>4. v \in Queue(V)
    BY <1>1, <1>2, <1>3 DEF Queue
  <1>5. /\ v.heap = w.heap /\ v.index = w.index /\ v.count = w.count /\ v.made = m
        /\ v.priority = r /\ v.open = w.open /\ v.run = w.run /\ v.kept = w.kept
        /\ v.value = w.value /\ v.broken = w.broken
        /\ v.entry = w.entry /\ v.parent = w.parent /\ v.test = w.test
    BY <1>1 DEF Queue
  <1>6. Fit(v, full)
    BY <1>5 DEF Fit, FitOf, m
  <1>7. Held(w) => Held(v)
    BY <1>5 DEF Held, Known, m
  <1> QED
    BY <1>2, <1>4, <1>5, <1>6, <1>7 DEF m

LEMMA ReturningFields ==
  ASSUME NEW V, NEW w \in Queue(V), NEW e \in Entries, NEW v, v = Returning(w, e)
  PROVE  /\ v \in Queue(V) /\ Same(w, v) /\ v.open = w.open /\ v.run = w.run
         /\ v.entry = w.entry /\ v.parent = w.parent /\ v.test = w.test
         /\ v.kept = w.kept /\ v.broken = w.broken
         /\ (\A full : Fit(w, full) => Fit(v, full)) /\ (Held(w) => Held(v))
  <1>1. <<"entry", e>> \in Results(V)
    BY DEF Results
  <1>2. v \in Queue(V)
    BY <1>1 DEF Returning, Queue
  <1>3. /\ Same(w, v) /\ v.open = w.open /\ v.run = w.run
        /\ v.entry = w.entry /\ v.parent = w.parent /\ v.test = w.test
        /\ v.kept = w.kept /\ v.broken = w.broken
    BY DEF Returning, Queue, Same
  <1>4. Held(w) => Held(v)
    BY <1>3, SameHeld
  <1> QED
    BY <1>2, <1>3, <1>4, SameFit

\* In a full queue an entry takes the place only of one that is there.
MayReplace(w, full) == full = Full => w.count # 0

\* A new entry in the place of the highest one.
Replaced(w, e) ==
  Leaves([Make(w, e, w.kept) EXCEPT !.index[e] = 0, !.heap[0] = e, !.run = "up"], w.heap[0])

LEMMA ReplacedFields ==
  ASSUME NEW V, NEW full, NEW w \in Queue(V), Fit(w, full), w.heap[0] # None,
         MayReplace(w, full), NEW e \in Entries \ w.made, NEW v, v = Replaced(w, e)
  PROVE  /\ v \in Queue(V) /\ Fit(v, full) /\ (Held(w) => Held(v))
         /\ v.heap[0] = e /\ v.index[e] = 0 /\ v.count = w.count
         /\ \A i \in Pos(w) \ {0} : v.heap[i] = w.heap[i]
         /\ v.made = w.made \union {e} /\ v.priority[e] = w.kept
         /\ \A y \in Entries \ {e} : v.priority[y] = w.priority[y]
         /\ v.open = w.open /\ v.run = "up"
  <1> DEFINE u == Make(w, e, w.kept)
             next == w.heap[0]
             h == [u.heap EXCEPT ![0] = e]
             x == [u.index EXCEPT ![e] = 0, ![next] = Out]
  <1>1. w.kept \in V
    BY StepFields
  <1>2. /\ u \in Queue(V) /\ Fit(u, full)
        /\ u.heap = w.heap /\ u.index = w.index /\ u.count = w.count
        /\ u.made = w.made \union {e} /\ u.priority[e] = w.kept
        /\ \A y \in Entries \ {e} : u.priority[y] = w.priority[y]
        /\ u.open = w.open
    BY <1>1, MakeFields
  <1>3. /\ w.count \in 0 .. N /\ w.count \in Nat /\ N \in Nat /\ 0 \in 0 .. N
    BY HeapFields, NType
  <1>4. next \in w.made /\ next \in Entries /\ next # e /\ w.index[e] = Out
    BY <1>3, AtPositions, NotMade
  <1>5. v = [u EXCEPT !.heap = h, !.index = x, !.run = "up"]
    <2> HIDE DEF u
    <2>1. v = Leaves([u EXCEPT !.index[e] = 0, !.heap[0] = e, !.run = "up"], next)
      BY DEF Replaced, u
    <2> QED
      BY <1>2, <2>1 DEF Leaves, Queue
  <1>14. Held(w) => Held(u)
    BY <1>1, MakeFields
  <1> HIDE DEF u, next
  <1>6. /\ h \in [0 .. N -> Entries \union {None}] /\ x \in [Entries -> Int]
        /\ h[0] = e /\ \A i \in 0 .. N : i # 0 => h[i] = u.heap[i]
    <2>1. u.heap \in [0 .. N -> Entries \union {None}] /\ u.index \in [Entries -> Int]
      BY <1>2, HeapFields
    <2> QED
      BY <1>3, <1>4, <2>1 DEF Out
  <1>7. x[next] = Out /\ x[e] = 0 /\ \A y \in Entries \ {e, next} : x[y] = u.index[y]
    <2>1. u.index \in [Entries -> Int]
      BY <1>2, HeapFields
    <2> QED
      BY <1>4, <2>1
  <1> HIDE DEF h, x
  <1>8. v \in Queue(V)
    <2>1. "up" \in Runs
      BY DEF Runs
    <2> QED
      BY <1>2, <1>5, <1>6, <2>1, ZenonT(40) DEF Queue
  <1>9. /\ v.heap = h /\ v.index = x /\ v.count = u.count /\ v.made = u.made
        /\ v.priority = u.priority /\ v.open = u.open /\ v.run = "up"
        /\ v.entry = u.entry /\ v.parent = u.parent /\ v.test = u.test
    BY <1>2, <1>5 DEF Queue
  <1>10. /\ FitOf(h, x, u.count, u.made)
         /\ full = Full => QueuedOf(h, x, u.count)
    <2>1. FitOf(u.heap, u.index, u.count, u.made) /\ u.made \in SUBSET Entries
      BY <1>2, HeapFields DEF Fit
    <2>6. full = Full => QueuedOf(u.heap, u.index, u.count)
      BY <1>2 DEF Fit
    <2>2. /\ 0 \in 0 .. N - 1 /\ u.count \in 0 .. N /\ (u.count = 0 \/ 0 < u.count)
          /\ e \in u.made /\ u.index[e] = Out /\ u.heap[0] # None /\ u.heap[0] # e
      <3>1. 0 \in 0 .. N - 1
        <4>1. w.count + 1 \in 0 .. N
          BY <1>4, Room
        <4> QED
          BY <1>3, <4>1
      <3> QED
        BY <1>2, <1>3, <1>4, <3>1 DEF next
    <2>3. /\ x[u.heap[0]] = Out /\ x[e] = 0
          /\ \A y \in Entries \ {e, u.heap[0]} : x[y] = u.index[y]
      BY <1>2, <1>7 DEF next
    <2>4. h[0] = e /\ \A j \in 0 .. N : j # 0 => h[j] = u.heap[j]
      BY <1>6
    <2>5. /\ FitOf(h, x, u.count, u.made)
          /\ QueuedOf(u.heap, u.index, u.count) /\ u.count # 0 => QueuedOf(h, x, u.count)
      BY <2>1, <2>2, <2>3, <2>4, ReplaceFit
    <2> QED
      BY <1>2, <2>5, <2>6 DEF MayReplace
  <1>11. Held(w) => Held(v)
    BY <1>9, <1>14 DEF Held, Known
  <1>12. \A i \in Pos(w) \ {0} : v.heap[i] = w.heap[i]
    BY <1>2, <1>3, <1>6, <1>9 DEF Pos
  <1> QED
    BY <1>2, <1>6, <1>7, <1>8, <1>9, <1>10, <1>11, <1>12 DEF Fit

LEMMA KeepRunSound ==
  ASSUME NEW V, NEW full, 0 \in V, NEW w \in Queue(V), Fit(w, full), Held(w),
         NEW greater, ~ greater => MayReplace(w, full),
         NEW e, ~ greater => e \in Entries \ w.made
  PROVE  Leads(w, KeepRun(w, greater, e), V, full)
  <1>1. CASE greater /\ w.caller
    <2>1. KeepRun(w, greater, e) = Settled(w)
      BY <1>1 DEF KeepRun
    <2>2. /\ Settled(w) \in Queue(V) /\ Fit(Settled(w), full) /\ Settled(w).open = w.open
          /\ Held(Settled(w))
      BY SettledFields, SameFit
    <2> QED
      BY <2>1, <2>2 DEF Leads, Sound
  <1>2. CASE greater /\ ~ w.caller
    BY <1>2, BreaksSound DEF KeepRun
  <1>3. CASE ~ greater /\ w.heap[0] = None
    BY <1>3, BreaksSound DEF KeepRun
  <1>4. CASE ~ greater /\ w.heap[0] # None
    <2> DEFINE next == w.heap[0]
               v == Replaced(w, e)
               u == Returning(v, next)
    <2>2. next \in Entries
      BY <1>4, AtPositions, NType
    <2>3. KeepRun(w, greater, e) = Down1(u, e)
      BY <1>4 DEF KeepRun, Replaced
    <2>1. e \in Entries \ w.made /\ MayReplace(w, full) /\ w.heap[0] # None
      BY <1>4
    <2>4. /\ v \in Queue(V) /\ Fit(v, full) /\ Held(v) /\ v.open = w.open
          /\ v.made = w.made \union {e}
      BY <2>1, ReplacedFields
    <2> HIDE DEF v, next
    <2>5. /\ u \in Queue(V) /\ Fit(u, full) /\ Held(u) /\ u.open = v.open /\ e \in u.made
      BY <2>2, <2>4, ReturningFields DEF Same
    <2> HIDE DEF u
    <2> QED
      BY <2>3, <2>4, <2>5, Down1Sound, LeadsFrom
  <1> QED
    BY <1>1, <1>2, <1>3, <1>4

\* A queue that goes on upwards.
Upwards(w) == [w EXCEPT !.run = "up"]

LEMMA UpwardsFields ==
  ASSUME NEW V, NEW w \in Queue(V), NEW v, v = Upwards(w)
  PROVE  /\ v \in Queue(V) /\ Same(w, v) /\ v.open = w.open /\ v.run = "up"
         /\ v.entry = w.entry /\ v.parent = w.parent /\ v.test = w.test
         /\ (\A full : Fit(w, full) => Fit(v, full)) /\ (Held(w) => Held(v))
  <1>1. v \in Queue(V)
    BY DEF Upwards, Queue, Runs
  <1>2. /\ Same(w, v) /\ v.open = w.open /\ v.run = "up"
        /\ v.entry = w.entry /\ v.parent = w.parent /\ v.test = w.test
    BY DEF Upwards, Queue, Same
  <1>3. Held(w) => Held(v)
    BY <1>2 DEF Held, Known, Same
  <1> QED
    BY <1>1, <1>2, <1>3, SameFit

LEMMA AdjustRunSound ==
  ASSUME NEW V, NEW full, 0 \in V, NEW w \in Queue(V), Fit(w, full), Held(w),
         w.entry \in w.made, NEW greater
  PROVE  Leads(w, AdjustRun(w, greater), V, full)
  <1> DEFINE v == Upwards(w)
  <1>1. CASE ~ greater
    BY <1>1, Down1Sound DEF AdjustRun
  <1>2. CASE greater
    <2>1. /\ v \in Queue(V) /\ Fit(v, full) /\ Held(v) /\ v.open = w.open
          /\ w.entry \in v.made
      BY UpwardsFields DEF Same
    <2>2. AdjustRun(w, greater) = Up2(v, w.entry)
      BY <1>2 DEF AdjustRun, Upwards
    <2> HIDE DEF v
    <2> QED
      BY <2>1, <2>2, Up2Sound, LeadsFrom
  <1> QED
    BY <1>1, <1>2

\* An entry of the queue gets another priority.
Changed(w, e) == [Returning(w, e) EXCEPT !.priority[e] = PriorityOf(w.value)]

LEMMA ChangedFields ==
  ASSUME NEW V, 0 \in V, NEW w \in Queue(V), NEW e \in w.made,
         NEW v, v = Changed(w, e)
  PROVE  /\ v \in Queue(V) /\ v.heap = w.heap /\ v.index = w.index /\ v.count = w.count
         /\ v.made = w.made /\ PriorityOf(w.value) \in V
         /\ v.priority[e] = PriorityOf(w.value)
         /\ \A y \in Entries \ {e} : v.priority[y] = w.priority[y]
         /\ v.open = w.open /\ v.run = w.run /\ v.entry = w.entry
         /\ v.parent = w.parent /\ v.test = w.test
         /\ (\A full : Fit(w, full) => Fit(v, full)) /\ (Held(w) => Held(v))
  <1> DEFINE u == Returning(w, e)
             p == PriorityOf(w.value)
             r == [w.priority EXCEPT ![e] = p]
  <1>1. p \in V
    <2>1. w.value \in Results(V)
      BY StepFields
    <2> QED
      BY <2>1 DEF Results, PriorityOf
  <1>2. e \in Entries
    BY HeapFields
  <1>3. u \in Queue(V) /\ Same(w, u) /\ u.open = w.open /\ u.run = w.run
        /\ u.entry = w.entry /\ u.parent = w.parent /\ u.test = w.test
    BY <1>2, ReturningFields
  <1> HIDE DEF p
  <1>4. v = [u EXCEPT !.priority = r]
    <2> HIDE DEF u
    <2>1. v = [u EXCEPT !.priority[e] = p]
      BY DEF Changed, u, p
    <2> QED
      BY <1>3, <2>1 DEF Same, Queue
  <1>5. /\ r \in [Entries -> V] /\ r[e] = p
        /\ \A y \in Entries \ {e} : r[y] = w.priority[y]
    BY <1>1, <1>2, HeapFields
  <1> HIDE DEF u, r
  <1>6. v \in Queue(V)
    BY <1>3, <1>4, <1>5 DEF Queue
  <1>7. /\ v.heap = w.heap /\ v.index = w.index /\ v.count = w.count
        /\ v.made = w.made /\ v.priority = r
        /\ v.open = w.open /\ v.run = w.run /\ v.entry = w.entry
        /\ v.parent = w.parent /\ v.test = w.test
    BY <1>3, <1>4 DEF Queue, Same
  <1> QED
    BY <1>1, <1>5, <1>6, <1>7 DEF Fit, Held, Known, p

LEMMA ChangeRunSound ==
  ASSUME NEW V, NEW full, 0 \in V, NEW w \in Queue(V), Fit(w, full), Held(w),
         w.entry \in w.made, NEW greater
  PROVE  Leads(w, ChangeRun(w, greater), V, full)
  <1> DEFINE e == w.entry
             u == Returning(w, e)
             v == Changed(w, e)
             x == Upwards(v)
  <1>1. e \in Entries
    BY HeapFields
  <1>2. CASE ~ greater
    <2>1. u \in Queue(V) /\ Fit(u, full) /\ Held(u) /\ u.open = w.open
      BY <1>1, ReturningFields
    <2>2. ChangeRun(w, greater) = Finish(u)
      BY <1>2 DEF ChangeRun
    <2> HIDE DEF u
    <2> QED
      BY <2>1, <2>2, FinishSound, LeadsFrom
  <1>3. CASE greater /\ (w.value[1] = "null" \/ (w.index[e] = Out /\ ~ w.caller))
    BY <1>3, BreaksSound DEF ChangeRun
  <1>4. /\ v \in Queue(V) /\ Fit(v, full) /\ Held(v) /\ v.open = w.open /\ e \in v.made
        /\ v.index = w.index
    BY ChangedFields
  <1>5. CASE greater /\ w.value[1] # "null" /\ w.index[e] # Out
    <2>1. ChangeRun(w, greater) = Up2(x, e)
      BY <1>5 DEF ChangeRun, Changed, Upwards
    <2> HIDE DEF v
    <2>2. x \in Queue(V) /\ Fit(x, full) /\ Held(x) /\ x.open = v.open /\ x.made = v.made
      BY <1>4, UpwardsFields DEF Same
    <2> HIDE DEF x
    <2> QED
      BY <1>4, <2>1, <2>2, Up2Sound, LeadsFrom
  <1>6. CASE greater /\ w.value[1] # "null" /\ w.index[e] = Out /\ w.caller
    <2>1. ChangeRun(w, greater) = Insert(v, e)
      BY <1>6 DEF ChangeRun, Changed
    <2> HIDE DEF v
    <2> QED
      BY <1>4, <1>6, <2>1, InsertSound, LeadsFrom
  <1> QED
    BY <1>2, <1>3, <1>5, <1>6

\* What a comparison that returns continues.
LEMMA ContinuedSound ==
  ASSUME NEW V, NEW full, 0 \in V, NEW w \in Queue(V), Fit(w, full), Held(w), w.run # "none",
         NEW greater, w.run = "keep" => MayReplace(w, full),
         NEW e, w.run = "keep" /\ ~ greater => e \in Entries \ w.made
  PROVE  Leads(w, Continued(w, greater, e), V, full)
  <1>0. w.run \in Runs
    BY StepFields
  <1>1. CASE w.run = "up"
    BY <1>1, UpRunSound DEF Continued, Held
  <1>2. CASE w.run = "left"
    BY <1>2, DownLeftSound DEF Continued, Held
  <1>3. CASE w.run = "right"
    BY <1>3, DownRightSound DEF Continued, Held
  <1>4. CASE w.run = "keep"
    BY <1>4, KeepRunSound DEF Continued
  <1>5. CASE w.run = "adjust"
    BY <1>5, AdjustRunSound DEF Continued, Held
  <1>6. CASE w.run \in {"raise", "lower"}
    BY <1>6, ChangeRunSound DEF Continued, Held
  <1> QED
    BY <1>0, <1>1, <1>2, <1>3, <1>4, <1>5, <1>6 DEF Runs

\* One comparison fewer is open.
LEMMA WithoutOne ==
  ASSUME NEW S, NEW s \in Seq(S), NEW i \in DOMAIN s
  PROVE  Without(s, i) \in Seq(S) /\ Len(Without(s, i)) = Len(s) - 1
  <1>1. Len(s) \in Nat \ {0} /\ i \in 1 .. Len(s)
    OBVIOUS
  <1>2. Len(s) - 1 \in Nat
    BY <1>1
  <1>3. \A j \in 1 .. Len(s) - 1 : (IF j < i THEN s[j] ELSE s[j + 1]) \in S
    <2> TAKE j \in 1 .. Len(s) - 1
    <2>1. j \in 1 .. Len(s) /\ j + 1 \in 1 .. Len(s)
      BY <1>1
    <2> QED
      BY <2>1
  <1>4. Without(s, i) \in [1 .. Len(s) - 1 -> S]
    BY <1>3 DEF Without
  <1> QED
    BY <1>2, <1>4

Answered(w, i) == [w EXCEPT !.open = Without(@, i)]

LEMMA AnsweredFields ==
  ASSUME NEW V, NEW w \in Queue(V), NEW i \in DOMAIN w.open, NEW v, v = Answered(w, i)
  PROVE  /\ v \in Queue(V) /\ Same(w, v) /\ Len(v.open) = Len(w.open) - 1
         /\ v.run = w.run /\ v.entry = w.entry /\ v.parent = w.parent /\ v.test = w.test
         /\ v.kept = w.kept /\ v.value = w.value /\ v.broken = w.broken
         /\ (\A full : Fit(w, full) => Fit(v, full)) /\ (Held(w) => Held(v) /\ v.run # "none")
  <1>1. w.open \in Seq(V \X V) /\ w.open # <<>>
    BY StepFields
  <1>2. Without(w.open, i) \in Seq(V \X V) /\ Len(Without(w.open, i)) = Len(w.open) - 1
    BY <1>1, WithoutOne
  <1>3. v = [w EXCEPT !.open = Without(w.open, i)]
    BY DEF Answered, Queue
  <1>4. v \in Queue(V)
    BY <1>2, <1>3 DEF Queue
  <1>5. /\ Same(w, v) /\ v.open = Without(w.open, i)
        /\ v.run = w.run /\ v.entry = w.entry /\ v.parent = w.parent /\ v.test = w.test
        /\ v.kept = w.kept /\ v.value = w.value /\ v.broken = w.broken
    BY <1>3 DEF Queue, Same
  <1>6. Held(w) => Held(v) /\ v.run # "none"
    BY <1>1, <1>5 DEF Held, Known, Same
  <1> QED
    BY <1>2, <1>4, <1>5, <1>6, SameFit

LEMMA CalledFields ==
  ASSUME NEW V, NEW w \in Queue(V), NEW v, v = Called(w)
  PROVE  /\ v \in Queue(V) /\ Same(w, v) /\ v.open = w.open /\ v.run = w.run
         /\ v.entry = w.entry /\ v.parent = w.parent /\ v.test = w.test
         /\ v.kept = w.kept /\ v.value = w.value /\ v.broken = w.broken
         /\ (\A full : Fit(w, full) => Fit(v, full)) /\ (Held(w) => Held(v))
  <1>1. v \in Queue(V)
    BY DEF Called, Queue
  <1>2. /\ Same(w, v) /\ v.open = w.open /\ v.run = w.run
        /\ v.entry = w.entry /\ v.parent = w.parent /\ v.test = w.test
        /\ v.kept = w.kept /\ v.value = w.value /\ v.broken = w.broken
    BY DEF Called, Queue, Same
  <1>3. Held(w) => Held(v)
    BY <1>2, SameHeld
  <1> QED
    BY <1>1, <1>2, <1>3, SameFit

\* The queue without its highest entry, and with the last one in its place.
Popped(w) ==
  LET e == w.heap[w.count - 1]
      v == [Leaves(w, w.heap[0]) EXCEPT !.count = @ - 1, !.heap[w.count - 1] = None]
  IN  IF w.count = 1 THEN v ELSE [v EXCEPT !.heap[0] = e, !.index[e] = 0]

LEMMA PoppedFields ==
  ASSUME NEW V, NEW full, NEW w \in Queue(V), Fit(w, full), Held(w), w.count > 0,
         NEW v, v = Popped(w)
  PROVE  /\ v \in Queue(V) /\ Fit(v, full) /\ Held(v) /\ v.count = w.count - 1
         /\ w.count = 1 => v.heap[0] = None
         /\ w.count # 1 => /\ v.heap[0] = w.heap[w.count - 1]
                           /\ v.index[w.heap[w.count - 1]] = 0
         /\ \A i \in Pos(v) \ {0} : v.heap[i] = w.heap[i]
         /\ v.made = w.made /\ v.priority = w.priority /\ v.open = w.open
         /\ v.broken = w.broken
  <1> DEFINE n == w.count - 1
             e == w.heap[n]
             next == w.heap[0]
             h1 == [w.heap EXCEPT ![n] = None]
             x1 == [w.index EXCEPT ![next] = Out]
             h2 == [h1 EXCEPT ![0] = e]
             x2 == [x1 EXCEPT ![e] = 0]
             h == IF w.count = 1 THEN h1 ELSE h2
             x == IF w.count = 1 THEN x1 ELSE x2
  <1>1. /\ w.count \in Nat /\ n \in Nat /\ n \in 0 .. N /\ 0 \in 0 .. N /\ n \in Pos(w)
        /\ 0 \in Pos(w) /\ n = w.count - 1
    BY HeapFields, NType DEF Pos
  <1>2. /\ e \in w.made /\ e \in Entries /\ w.index[e] = n /\ e = w.heap[n]
        /\ next \in w.made /\ next \in Entries /\ w.index[next] = 0 /\ next = w.heap[0]
    BY <1>1, AtPositions
  <1>3. /\ w.heap \in [0 .. N -> Entries \union {None}] /\ w.index \in [Entries -> Int]
    BY HeapFields
  <1>4. v = [w EXCEPT !.heap = h, !.index = x, !.count = n]
    <2>1. Leaves(w, next) = [w EXCEPT !.index = x1]
      BY DEF Leaves, Queue
    <2>2. [Leaves(w, next) EXCEPT !.count = @ - 1, !.heap[w.count - 1] = None]
            = [w EXCEPT !.heap = h1, !.index = x1, !.count = n]
      BY <2>1 DEF Queue
    <2>3. CASE w.count = 1
      BY <2>2, <2>3 DEF Popped
    <2>4. CASE w.count # 1
      <3> HIDE DEF h1, x1, n, e, next
      <3>1. v = [[w EXCEPT !.heap = h1, !.index = x1, !.count = n] EXCEPT
                    !.heap[0] = e, !.index[e] = 0]
        BY <2>2, <2>4 DEF Popped, e, n, next
      <3> QED
        BY <2>4, <3>1 DEF Queue
    <2> QED
      BY <2>3, <2>4
  <1> HIDE DEF n, e, next
  <1>5. h1 \in [0 .. N -> Entries \union {None}] /\ x1 \in [Entries -> Int]
    BY <1>1, <1>2, <1>3 DEF Out
  <1>6. /\ h1[n] = None /\ \A i \in 0 .. N : i # n => h1[i] = w.heap[i]
        /\ x1[next] = Out /\ \A y \in Entries : y # next => x1[y] = w.index[y]
    BY <1>1, <1>2, <1>3
  <1> HIDE DEF h1, x1
  <1>7. h2 \in [0 .. N -> Entries \union {None}] /\ x2 \in [Entries -> Int]
    BY <1>1, <1>2, <1>5
  <1>8. /\ h2[0] = e /\ \A i \in 0 .. N : i # 0 => h2[i] = h1[i]
        /\ x2[e] = 0 /\ \A y \in Entries : y # e => x2[y] = x1[y]
    BY <1>1, <1>2, <1>5
  <1> HIDE DEF h2, x2
  <1>9. /\ h \in [0 .. N -> Entries \union {None}] /\ x \in [Entries -> Int]
    BY <1>5, <1>7
  <1>10. /\ w.count # 1 => h[0] = e /\ x[e] = 0
         /\ w.count = 1 => h[0] = None
         /\ x[next] = Out
    <2>1. CASE w.count = 1
      BY <1>1, <1>6, <2>1
    <2>2. CASE w.count # 1
      <3>1. n # 0 /\ e # next
        BY <1>1, <1>2, <2>2
      <3> QED
        BY <1>2, <1>6, <1>8, <2>2, <3>1
    <2> QED
      BY <2>1, <2>2
  <1>11. /\ \A i \in 0 .. N : i # n /\ i # 0 => h[i] = w.heap[i]
         /\ h[n] \in {None, e}
    <2>1. CASE w.count = 1
      BY <1>1, <1>6, <2>1
    <2>2. CASE w.count # 1
      BY <1>1, <1>6, <1>8, <2>2
    <2> QED
      BY <2>1, <2>2
  <1>12. \A y \in Entries \ {next, e} : x[y] = w.index[y]
    BY <1>6, <1>8
  <1> HIDE DEF h, x
  <1>13. v \in Queue(V)
    BY <1>1, <1>4, <1>9 DEF Queue
  <1>14. /\ v.heap = h /\ v.index = x /\ v.count = n /\ v.made = w.made
         /\ v.priority = w.priority /\ v.open = w.open /\ v.run = w.run
         /\ v.entry = w.entry /\ v.parent = w.parent /\ v.test = w.test
         /\ v.broken = w.broken
    BY <1>4 DEF Queue
  <1>15. /\ FitOf(h, x, n, w.made)
         /\ full = Full => QueuedOf(h, x, n)
    <2> DEFINE heap == w.heap
               index == w.index
               made == w.made
    <2>1. FitOf(heap, index, n + 1, made) /\ made \in SUBSET Entries
      BY <1>1, HeapFields DEF Fit
    <2>6. full = Full => QueuedOf(heap, index, n + 1)
      BY <1>1 DEF Fit
    <2>2. /\ n \in 0 .. N - 1 /\ next \in made /\ index[next] = 0 /\ index[next] # Out
          /\ e = heap[n]
      BY <1>1, <1>2, HeapFields, NType DEF Out
    <2>3. /\ x[next] = Out /\ (e # next => x[e] = 0) /\ (0 # n => h[0] = e)
          /\ \A y \in Entries \ {next, e} : x[y] = index[y]
      BY <1>1, <1>2, <1>10, <1>12
    <2>4. h[n] \in {None, e} /\ \A j \in 0 .. N : j # n /\ j # 0 => h[j] = heap[j]
      BY <1>11
    <2> HIDE DEF heap, index, made
    <2>5. /\ FitOf(h, x, n, made)
          /\ QueuedOf(heap, index, n + 1) => QueuedOf(h, x, n)
      BY <2>1, <2>2, <2>3, <2>4, MoveFit
    <2> QED
      BY <2>5, <2>6 DEF made
  <1>16. Held(v)
    BY <1>14 DEF Held, Known
  <1>17. \A i \in 0 .. n - 1 : i \in 0 .. N /\ i # n
    BY <1>1, NType
  <1> QED
    BY <1>1, <1>2, <1>10, <1>11, <1>13, <1>14, <1>15, <1>16, <1>17 DEF Fit, Pos

\* The queue without e, and with the last entry in its place.
Removed(w, e) ==
  LET next == w.heap[w.count - 1]
      i == w.index[e]
  IN  Leaves([w EXCEPT !.count = @ - 1,
                       !.heap = [@ EXCEPT ![w.count - 1] = None, ![i] = next],
                       !.index[next] = i], e)

\* Two elements of a function change.
Put(f, a, c, b, d) == [f EXCEPT ![a] = c, ![b] = d]

LEMMA RemovedFields ==
  ASSUME NEW V, NEW full, NEW w \in Queue(V), Fit(w, full), w.count > 0,
         NEW e \in w.made, w.index[e] # Out, NEW v, v = Removed(w, e)
  PROVE  /\ v \in Queue(V) /\ Fit(v, full) /\ (Known(w) => Known(v))
         /\ v.count = w.count - 1 /\ w.heap[w.count - 1] \in w.made
         /\ w.index[e] # w.count - 1 => v.heap[w.index[e]] = w.heap[w.count - 1]
         /\ w.heap[w.count - 1] # e => v.index[w.heap[w.count - 1]] = w.index[e]
         /\ v.index[e] = Out
         /\ \A j \in Pos(v) \ {w.index[e]} : v.heap[j] = w.heap[j]
         /\ v.made = w.made /\ v.priority = w.priority /\ v.open = w.open
  <1> DEFINE n == w.count - 1
             i == w.index[e]
             next == w.heap[n]
             h == Put(w.heap, n, None, i, next)
             x == Put(w.index, next, i, e, Out)
  <1>1. e \in Entries /\ i \in 0 .. N - 1 /\ i # Out
    BY AtPositions
  <1>2. /\ w.count \in Nat /\ n \in Nat /\ n \in 0 .. N /\ n \in Pos(w) /\ n \in 0 .. N - 1
        /\ i \in Nat /\ i \in 0 .. N /\ n = w.count - 1 /\ n + 1 = w.count
    BY <1>1, HeapFields, NType DEF Pos
  <1>3. next \in w.made /\ next \in Entries /\ w.index[next] = n /\ next = w.heap[n]
    BY <1>2, AtPositions
  <1>4. /\ w.heap \in [0 .. N -> Entries \union {None}] /\ w.index \in [Entries -> Int]
    BY HeapFields
  <1>5. v = [w EXCEPT !.heap = h, !.index = x, !.count = n]
    <2>1. v = [[w EXCEPT !.count = @ - 1, !.heap = [@ EXCEPT ![n] = None, ![i] = next],
                        !.index[next] = i] EXCEPT !.index[e] = Out]
      BY DEF Removed, Leaves
    <2> QED
      BY <2>1 DEF Queue, Put
  <1> HIDE DEF n, next
  <1>6. /\ h \in [0 .. N -> Entries \union {None}] /\ h[i] = next
        /\ \A j \in (0 .. N) \ {n, i} : h[j] = w.heap[j]
    <2> DEFINE S == 0 .. N
               T == Entries \union {None}
    <2>1. w.heap \in [S -> T] /\ n \in S /\ i \in S /\ None \in T /\ next \in T
      BY <1>2, <1>3, <1>4
    <2> HIDE DEF S, T, i
    <2>2. h \in [S -> T] /\ h[i] = next /\ \A j \in S \ {n, i} : h[j] = w.heap[j]
      BY <2>1 DEF Put
    <2> QED
      BY <2>2 DEF S, T
  <1>7. /\ x \in [Entries -> Int] /\ x[e] = Out /\ (next # e => x[next] = i)
        /\ \A y \in Entries \ {next, e} : x[y] = w.index[y]
    <2> DEFINE T == Int
    <2>1. w.index \in [Entries -> T] /\ e \in Entries /\ next \in Entries /\ i \in T /\ Out \in T
      BY <1>1, <1>2, <1>3, <1>4 DEF Out
    <2> HIDE DEF T, i
    <2>2. /\ x \in [Entries -> T] /\ x[e] = Out /\ (next # e => x[next] = i)
          /\ \A y \in Entries \ {next, e} : x[y] = w.index[y]
      BY <2>1 DEF Put
    <2> QED
      BY <2>2 DEF T
  <1> HIDE DEF h, x, i
  <1>9. \A j \in (0 .. n - 1) \ {i} : h[j] = w.heap[j]
    <2> TAKE j \in (0 .. n - 1) \ {i}
    <2>1. j \in 0 .. N /\ j # n /\ j # i
      BY <1>2, NType
    <2> QED
      BY <1>6, <2>1
  <1>8. h[n] \in {None, next}
    <2> DEFINE S == 0 .. N
               T == Entries \union {None}
    <2>1. w.heap \in [S -> T] /\ n \in S /\ i \in S
      BY <1>2, <1>4
    <2> HIDE DEF S, T
    <2> QED
      BY <2>1 DEF Put, h
  <1>10. v \in Queue(V)
    BY <1>2, <1>5, <1>6, <1>7, ZenonT(40) DEF Queue
  <1>11. /\ v.heap = h /\ v.index = x /\ v.count = n /\ v.made = w.made
         /\ v.priority = w.priority /\ v.open = w.open
         /\ v.entry = w.entry /\ v.parent = w.parent /\ v.test = w.test
    BY <1>5 DEF Queue
  <1>12. /\ FitOf(h, x, n, w.made)
         /\ full = Full => QueuedOf(h, x, n)
    <2> DEFINE heap == w.heap
               index == w.index
               made == w.made
    <2>1. /\ FitOf(heap, index, n + 1, made) /\ made \in SUBSET Entries
          /\ full = Full => QueuedOf(heap, index, n + 1)
      BY <1>2, HeapFields DEF Fit
    <2>2. /\ n \in 0 .. N - 1 /\ e \in made /\ i = index[e] /\ i # Out /\ next = heap[n]
      BY <1>1, <1>2, <1>3 DEF i
    <2>3. /\ x[e] = Out /\ (next # e => x[next] = i) /\ (i # n => h[i] = next)
          /\ \A y \in Entries \ {e, next} : x[y] = index[y]
      BY <1>6, <1>7
    <2>4. h[n] \in {None, next} /\ \A j \in 0 .. N : j # n /\ j # i => h[j] = heap[j]
      BY <1>6, <1>8
    <2> HIDE DEF heap, index, made
    <2>5. /\ FitOf(h, x, n, made)
          /\ QueuedOf(heap, index, n + 1) => QueuedOf(h, x, n)
      BY <2>1, <2>2, <2>3, <2>4, MoveFit
    <2> QED
      BY <2>1, <2>5 DEF made
  <1>13. Fit(v, full) /\ Pos(v) = 0 .. n - 1
    BY <1>2, <1>11, <1>12 DEF Fit, Pos
  <1>14. Known(w) => Known(v)
    BY <1>11 DEF Known
  <1> QED
    BY <1>2, <1>3, <1>6, <1>7, <1>9, <1>10, <1>11, <1>13, <1>14 DEF i
------------------------------------------------------------------------------
(* The invariant of the indexes. *)

Values == bound.priorities \union {0}

SoundIn(full) ==
  /\ bound \in Bounds /\ disturbed \in {"no", "lower", "others"}
  /\ Sound(q, Values, full)
  /\ Len(q.open) <= bound.open

SoundInv == SoundIn("some")

LEMMA ValuesType ==
  ASSUME NEW full, SoundIn(full)
  PROVE  /\ Values \in SUBSET Nat /\ 0 \in Values /\ bound.priorities \subseteq Values
         /\ bound.open \in Nat
  BY PQueueAssumption DEF SoundIn, Values

\* What holds of the queue that a method is called on.
LEMMA Callable ==
  ASSUME NEW full, SoundIn(full), ~ q.broken
  PROVE  q \in Queue(Values) /\ Fit(q, full) /\ Held(q)
  BY DEF SoundIn, Sound

LEMMA InsertStep ==
  ASSUME NEW full, SoundIn(full), PQInsert
  PROVE  Leads(q, q', Values, full)
  <1>1. PICK e \in Fresh, p \in bound.priorities :
          q' = Insert(Returning(Make(q, e, p), e), e)
    BY DEF PQInsert
  <1>2. /\ q \in Queue(Values) /\ Fit(q, full) /\ Held(q) /\ e \in Entries \ q.made
        /\ p \in Values /\ 0 \in Values
    BY Callable, ValuesType DEF PQInsert, Calls, Fresh
  <1> DEFINE u == Make(q, e, p)
             v == Returning(u, e)
  <1>3. /\ u \in Queue(Values) /\ Fit(u, full) /\ Held(u) /\ u.open = q.open
        /\ e \in u.made /\ u.index[e] = Out
    BY <1>2, MakeFields, NotMade
  <1> HIDE DEF u
  <1>4. /\ v \in Queue(Values) /\ Fit(v, full) /\ Held(v) /\ v.open = q.open
        /\ e \in v.made /\ v.index[e] = Out
    BY <1>2, <1>3, ReturningFields DEF Same
  <1>5. q' = Insert(v, e)
    BY <1>1 DEF u
  <1> HIDE DEF v
  <1> QED
    BY <1>2, <1>4, <1>5, InsertSound, LeadsFrom

LEMMA EntryStep ==
  ASSUME NEW full, SoundIn(full), PQEntry
  PROVE  Leads(q, q', Values, full)
  <1>1. PICK e \in Fresh, p \in bound.priorities : q' = Make(q, e, p)
    BY DEF PQEntry
  <1>2. /\ q \in Queue(Values) /\ Fit(q, full) /\ Held(q) /\ e \in Entries \ q.made
        /\ p \in Values
    BY Callable, ValuesType DEF PQEntry, Calls, Fresh
  <1>3. q' \in Queue(Values) /\ Fit(q', full) /\ Held(q') /\ q'.open = q.open
    BY <1>1, <1>2, MakeFields
  <1> QED
    BY <1>3 DEF Leads, Sound

\* What next leaves to sift down.
Sifted(w) == Called(Returning(Popped(w), w.heap[0]))

LEMMA NextIs ==
  ASSUME PQNext
  PROVE  q' = IF q.count = 1 THEN Popped(q) ELSE Down1(Sifted(q), q.heap[q.count - 1])
  <1> DEFINE next == q.heap[0]
             e == q.heap[q.count - 1]
             v == [Leaves(q, next) EXCEPT !.count = @ - 1, !.heap[q.count - 1] = None]
  <1>1. q' = IF q.count = 1 THEN v
             ELSE Down1(Called(Returning([v EXCEPT !.heap[0] = e, !.index[e] = 0], next)), e)
    BY DEF PQNext
  <1>2. CASE q.count = 1
    BY <1>1, <1>2 DEF Popped
  <1>3. CASE q.count # 1
    <2>1. Popped(q) = [v EXCEPT !.heap[0] = e, !.index[e] = 0]
      BY <1>3 DEF Popped
    <2> HIDE DEF v
    <2> QED
      BY <1>1, <1>3, <2>1 DEF Sifted
  <1> QED
    BY <1>2, <1>3

LEMMA NextStep ==
  ASSUME NEW full, SoundIn(full), PQNext
  PROVE  Leads(q, q', Values, full)
  <1> DEFINE e == q.heap[q.count - 1]
             next == q.heap[0]
             v == Popped(q)
             u == Returning(v, next)
             s == Called(u)
  <1>1. /\ q \in Queue(Values) /\ Fit(q, full) /\ Held(q) /\ q.count > 0 /\ 0 \in Values
    BY Callable, ValuesType DEF PQNext, Calls
  <1>2. e \in q.made /\ next \in Entries
    BY <1>1, AtPositions, HeapFields, NType DEF Pos
  <1>3. v \in Queue(Values) /\ Fit(v, full) /\ Held(v) /\ v.open = q.open /\ v.made = q.made
    BY <1>1, PoppedFields
  <1>4. q' = IF q.count = 1 THEN v ELSE Down1(s, e)
    BY NextIs DEF Sifted
  <1> HIDE DEF v, e, next
  <1>5. u \in Queue(Values) /\ Fit(u, full) /\ Held(u) /\ u.open = v.open /\ u.made = v.made
    BY <1>2, <1>3, ReturningFields DEF Same
  <1> HIDE DEF u
  <1>6. s \in Queue(Values) /\ Fit(s, full) /\ Held(s) /\ s.open = u.open /\ s.made = u.made
    BY <1>5, CalledFields DEF Same
  <1> HIDE DEF s
  <1>7. CASE q.count = 1
    BY <1>3, <1>4, <1>7 DEF Leads, Sound
  <1>8. CASE q.count # 1
    BY <1>1, <1>2, <1>3, <1>4, <1>5, <1>6, <1>8, Down1Sound, LeadsFrom
  <1> QED
    BY <1>7, <1>8

\* A result, and what keep compares.
Offered(w, p) == [Called(w) EXCEPT !.value = <<"value", 0>>, !.kept = p]

LEMMA OfferedFields ==
  ASSUME NEW V, 0 \in V, NEW w \in Queue(V), NEW p \in V, NEW v, v = Offered(w, p)
  PROVE  /\ v \in Queue(V) /\ Same(w, v) /\ v.open = w.open /\ v.kept = p
         /\ (\A full : Fit(w, full) => Fit(v, full)) /\ (Known(w) => Known(v))
  <1>1. <<"value", 0>> \in Results(V)
    BY DEF Results
  <1>2. /\ Called(w) \in Queue(V) /\ Same(w, Called(w)) /\ Called(w).open = w.open
        /\ Called(w).entry = w.entry /\ Called(w).parent = w.parent
        /\ Called(w).test = w.test
    BY CalledFields
  <1>3. v \in Queue(V)
    BY <1>1, <1>2 DEF Offered, Queue
  <1>4. /\ Same(w, v) /\ v.open = w.open /\ v.kept = p
        /\ v.entry = w.entry /\ v.parent = w.parent /\ v.test = w.test
    BY <1>2 DEF Offered, Queue, Same
  <1>5. Known(w) => Known(v)
    BY <1>4 DEF Known, Same
  <1> QED
    BY <1>3, <1>4, <1>5, SameFit

\* A new entry of keep.
Rejected(w, e, p) == [Make(w, e, p) EXCEPT !.value = <<"nil", 0>>]

LEMMA RejectedFields ==
  ASSUME NEW V, NEW full, 0 \in V, NEW w \in Queue(V), Fit(w, full), Held(w), NEW e \in Entries \ w.made,
         NEW p \in V, NEW v, v = Rejected(w, e, p)
  PROVE  /\ v \in Queue(V) /\ Fit(v, full) /\ Held(v) /\ v.open = w.open /\ e \in v.made
         /\ v.index = w.index /\ v.heap = w.heap /\ v.count = w.count
         /\ \A y \in Entries \ {e} : v.priority[y] = w.priority[y]
  <1> DEFINE u == Make(w, e, p)
  <1>1. <<"nil", 0>> \in Results(V)
    BY DEF Results
  <1>2. /\ u \in Queue(V) /\ Fit(u, full) /\ Held(u) /\ u.open = w.open /\ e \in u.made
        /\ u.index = w.index /\ u.heap = w.heap /\ u.count = w.count
        /\ \A y \in Entries \ {e} : u.priority[y] = w.priority[y]
    BY MakeFields
  <1>3. v = [u EXCEPT !.value = <<"nil", 0>>]
    BY DEF Rejected
  <1> HIDE DEF u
  <1>4. v \in Queue(V)
    BY <1>1, <1>2, <1>3 DEF Queue
  <1>5. /\ Same(u, v) /\ v.open = u.open /\ v.run = u.run /\ v.entry = u.entry
        /\ v.parent = u.parent /\ v.test = u.test
    BY <1>2, <1>3 DEF Queue, Same
  <1>6. Held(v) /\ Fit(v, full)
    BY <1>2, <1>5, SameFit, SameHeld
  <1> QED
    BY <1>2, <1>4, <1>5, <1>6 DEF Same

LEMMA KeepStep ==
  ASSUME NEW full, SoundIn(full), PQKeep
  PROVE  Leads(q, q', Values, full)
  <1>1. PICK e \in Fresh, p \in bound.priorities, target \in Targets :
          q' = IF q.count < target THEN Insert(Rejected(q, e, p), e)
               ELSE IF q.heap[0] = None THEN Breaks(q)
               ELSE Compare(Offered(q, p), "keep", p, q.priority[q.heap[0]])
    BY DEF PQKeep, Rejected, Offered
  <1>2. /\ q \in Queue(Values) /\ Fit(q, full) /\ Held(q) /\ e \in Entries \ q.made
        /\ p \in Values /\ 0 \in Values
    BY Callable, ValuesType DEF PQKeep, Calls, Fresh
  <1>3. CASE q.count < target
    <2> DEFINE v == Rejected(q, e, p)
    <2>1. /\ v \in Queue(Values) /\ Fit(v, full) /\ Held(v) /\ v.open = q.open
          /\ e \in v.made /\ v.index[e] = Out
      BY <1>2, RejectedFields, NotMade
    <2>2. q' = Insert(v, e)
      BY <1>1, <1>3
    <2> HIDE DEF v
    <2> QED
      BY <1>2, <2>1, <2>2, InsertSound, LeadsFrom
  <1>4. CASE ~ (q.count < target) /\ q.heap[0] = None
    BY <1>1, <1>2, <1>4, BreaksSound
  <1>5. CASE ~ (q.count < target) /\ q.heap[0] # None
    <2> DEFINE v == Offered(q, p)
    <2>1. v \in Queue(Values) /\ Fit(v, full) /\ Same(q, v) /\ v.open = q.open /\ Known(v)
      BY <1>2, OfferedFields DEF Held
    <2>2. q.priority[q.heap[0]] \in Values
      <3>1. q.heap[0] \in q.made
        BY <1>2, <1>5, AtPositions, NType
      <3> QED
        BY <1>2, <3>1, AtPositions
    <2>3. q' = Compare(v, "keep", p, q.priority[q.heap[0]])
      BY <1>1, <1>5
    <2> HIDE DEF v
    <2>4. Leads(v, q', Values, full)
      BY <1>2, <2>1, <2>2, <2>3, CompareSound DEF Runs
    <2> QED
      BY <2>1, <2>4, LeadsFrom
  <1> QED
    BY <1>3, <1>4, <1>5

LEMMA RequeueStep ==
  ASSUME NEW full, SoundIn(full), PQRequeue
  PROVE  Leads(q, q', Values, full)
  <1> DEFINE v(e) == Returning(q, e)
  <1>1. PICK e \in q.made : q' = IF q.index[e] = Out THEN Insert(v(e), e) ELSE Settled(v(e))
    BY DEF PQRequeue
  <1>2. q \in Queue(Values) /\ Fit(q, full) /\ Held(q) /\ 0 \in Values
    BY Callable, ValuesType DEF PQRequeue, Calls
  <1>3. e \in Entries
    BY <1>2, HeapFields
  <1>4. /\ v(e) \in Queue(Values) /\ Fit(v(e), full) /\ Held(v(e)) /\ v(e).open = q.open
        /\ e \in v(e).made /\ v(e).index = q.index
    BY <1>2, <1>3, ReturningFields DEF Same
  <1> HIDE DEF v
  <1>5. CASE q.index[e] = Out
    BY <1>1, <1>2, <1>4, <1>5, InsertSound, LeadsFrom
  <1>6. CASE q.index[e] # Out
    <2>1. /\ Settled(v(e)) \in Queue(Values) /\ Same(v(e), Settled(v(e)))
          /\ Settled(v(e)).open = q.open /\ Held(Settled(v(e)))
      BY <1>2, <1>4, SettledFields
    <2>2. Fit(Settled(v(e)), full)
      BY <1>4, <2>1, SameFit
    <2> QED
      BY <1>1, <1>6, <2>1, <2>2 DEF Leads, Sound
  <1> QED
    BY <1>5, <1>6

\* What adjust, raise, lower and remove compare for: their entry, and the new
\* priority of raise and lower.
Asked(w, e, p) == [Called(w) EXCEPT !.entry = e, !.value = <<"priority", p>>]
Filled(w, e, next) == [Called(Returning(w, e)) EXCEPT !.entry = next]

LEMMA FilledFields ==
  ASSUME NEW V, NEW full, NEW w \in Queue(V), Fit(w, full), NEW e \in Entries,
         NEW next \in w.made, NEW v, v = Filled(w, e, next)
  PROVE  /\ v \in Queue(V) /\ Same(w, v) /\ Fit(v, full) /\ v.open = w.open /\ v.entry = next
         /\ Known(w) => Known(v)
  <1> DEFINE u == Called(Returning(w, e))
  <1>0. next \in Entries
    BY HeapFields
  <1>1. /\ Returning(w, e) \in Queue(V) /\ Same(w, Returning(w, e))
        /\ Returning(w, e).open = w.open
        /\ Returning(w, e).parent = w.parent /\ Returning(w, e).test = w.test
    BY ReturningFields
  <1>2. u \in Queue(V) /\ Same(w, u) /\ u.open = w.open /\ u.parent = w.parent /\ u.test = w.test
    BY <1>1, CalledFields DEF Same
  <1>3. v = [u EXCEPT !.entry = next]
    BY DEF Filled
  <1> HIDE DEF u
  <1>4. v \in Queue(V)
    BY <1>0, <1>2, <1>3 DEF Queue
  <1>5. /\ Same(w, v) /\ v.open = w.open /\ v.entry = next
        /\ v.parent = w.parent /\ v.test = w.test
    BY <1>2, <1>3 DEF Queue, Same
  <1>6. Known(w) => Known(v)
    BY <1>5 DEF Known, Same
  <1> QED
    BY <1>4, <1>5, <1>6, SameFit

LEMMA AskedFields ==
  ASSUME NEW V, NEW full, NEW w \in Queue(V), Fit(w, full), NEW e \in w.made, NEW p \in V,
         NEW v, v = Asked(w, e, p)
  PROVE  /\ v \in Queue(V) /\ Same(w, v) /\ Fit(v, full) /\ v.open = w.open /\ v.entry = e
         /\ v.value = <<"priority", p>> /\ (Known(w) => Known(v))
  <1> DEFINE u == Called(w)
  <1>0. e \in Entries
    BY HeapFields
  <1>1. u \in Queue(V) /\ Same(w, u) /\ u.open = w.open /\ u.parent = w.parent /\ u.test = w.test
    BY CalledFields
  <1>2. v = [u EXCEPT !.entry = e, !.value = <<"priority", p>>]
    BY DEF Asked
  <1>3. <<"priority", p>> \in Results(V)
    BY DEF Results
  <1> HIDE DEF u
  <1>4. v \in Queue(V)
    BY <1>0, <1>1, <1>2, <1>3 DEF Queue
  <1>5. /\ Same(w, v) /\ v.open = w.open /\ v.entry = e /\ v.value = <<"priority", p>>
        /\ v.parent = w.parent /\ v.test = w.test
    BY <1>1, <1>2 DEF Queue, Same
  <1>6. Known(w) => Known(v)
    BY <1>5 DEF Known, Same
  <1> QED
    BY <1>4, <1>5, <1>6, SameFit

\* A comparison for an entry that has been made.
LEMMA ComparesEntry ==
  ASSUME NEW V, NEW full, NEW w \in Queue(V), NEW v \in Queue(V), Fit(v, full), v.open = w.open,
         Known(v), v.entry \in v.made, NEW run \in {"adjust", "raise", "lower"},
         NEW a \in V, NEW b \in V
  PROVE  Leads(w, Compare(v, run, a, b), V, full)
  <1>1. run \in Runs \ {"none"}
    BY DEF Runs
  <1>2. Leads(v, Compare(v, run, a, b), V, full)
    BY <1>1, CompareSound
  <1> QED
    BY <1>2, LeadsFrom

LEMMA AdjustStep ==
  ASSUME NEW full, SoundIn(full), PQAdjust
  PROVE  Leads(q, q', Values, full)
  <1>1. PICK e \in q.made, p \in bound.priorities :
          q' = Compare(Filled(q, e, e), "adjust", p, q.priority[e])
    BY DEF PQAdjust, Filled
  <1>2. q \in Queue(Values) /\ Fit(q, full) /\ Known(q) /\ p \in Values
    BY Callable, ValuesType DEF Held, PQAdjust, Calls
  <1>3. e \in Entries /\ q.priority[e] \in Values
    BY <1>2, AtPositions
  <1> DEFINE v == Filled(q, e, e)
  <1>4. /\ v \in Queue(Values) /\ Fit(v, full) /\ v.open = q.open /\ v.entry \in v.made
        /\ Known(v)
    BY <1>2, <1>3, FilledFields DEF Same
  <1> HIDE DEF v
  <1> QED
    BY <1>1, <1>2, <1>3, <1>4, ComparesEntry DEF v

LEMMA RaiseStep ==
  ASSUME NEW full, SoundIn(full), PQRaise
  PROVE  Leads(q, q', Values, full)
  <1>1. PICK e \in q.made, p \in bound.priorities :
          q' = Compare(Asked(q, e, p), "raise", p, q.priority[e])
    BY DEF PQRaise, Asked
  <1>2. q \in Queue(Values) /\ Fit(q, full) /\ Known(q) /\ p \in Values
    BY Callable, ValuesType DEF Held, PQRaise, Calls
  <1>3. e \in Entries /\ q.priority[e] \in Values
    BY <1>2, AtPositions
  <1> DEFINE v == Asked(q, e, p)
  <1>4. /\ v \in Queue(Values) /\ Fit(v, full) /\ v.open = q.open /\ v.entry \in v.made
        /\ Known(v)
    BY <1>2, <1>3, AskedFields DEF Same
  <1> HIDE DEF v
  <1> QED
    BY <1>1, <1>2, <1>3, <1>4, ComparesEntry DEF v

LEMMA LowerStep ==
  ASSUME NEW full, SoundIn(full), PQLower
  PROVE  Leads(q, q', Values, full)
  <1>1. PICK e \in q.made, p \in bound.priorities :
          q' = Compare(Asked(q, e, p), "lower", q.priority[e], p)
    BY DEF PQLower, Asked
  <1>2. q \in Queue(Values) /\ Fit(q, full) /\ Known(q) /\ p \in Values
    BY Callable, ValuesType DEF Held, PQLower, Calls
  <1>3. e \in Entries /\ q.priority[e] \in Values
    BY <1>2, AtPositions
  <1> DEFINE v == Asked(q, e, p)
  <1>4. /\ v \in Queue(Values) /\ Fit(v, full) /\ v.open = q.open /\ v.entry \in v.made
        /\ Known(v)
    BY <1>2, <1>3, AskedFields, SMTT(30) DEF Same
  <1> HIDE DEF v
  <1> QED
    BY <1>1, <1>2, <1>3, <1>4, ComparesEntry DEF v

LEMMA RemoveIs ==
  ASSUME PQRemove
  PROVE  \E e \in q.made :
           /\ q.index[e] # Out
           /\ q' = IF q.count = 0 THEN Breaks(q)
                   ELSE Compare(Filled(Removed(q, e), e, q.heap[q.count - 1]), "adjust",
                                q.priority[q.heap[q.count - 1]], q.priority[e])
  BY DEF PQRemove, Filled, Removed

LEMMA RemoveStep ==
  ASSUME NEW full, SoundIn(full), PQRemove
  PROVE  Leads(q, q', Values, full)
  <1>1. PICK e \in q.made :
          /\ q.index[e] # Out
          /\ q' = IF q.count = 0 THEN Breaks(q)
                  ELSE Compare(Filled(Removed(q, e), e, q.heap[q.count - 1]), "adjust",
                               q.priority[q.heap[q.count - 1]], q.priority[e])
    BY RemoveIs
  <1>2. q \in Queue(Values) /\ Fit(q, full) /\ Known(q)
    BY Callable DEF PQRemove, Calls, Held
  <1>7. CASE q.count = 0
    BY <1>1, <1>2, <1>7, BreaksSound
  <1>8. CASE q.count # 0
    <2> DEFINE next == q.heap[q.count - 1]
               u == Removed(q, e)
               v == Filled(u, e, next)
    <2>1. q.count > 0
      BY <1>2, <1>8, HeapFields, NType
    <2>3. /\ u \in Queue(Values) /\ Fit(u, full) /\ u.open = q.open /\ next \in q.made
          /\ u.made = q.made /\ Known(u)
      BY <1>1, <1>2, <2>1, RemovedFields
    <2>4. e \in Entries /\ q.priority[e] \in Values /\ q.priority[next] \in Values
      BY <1>2, <2>3, AtPositions
    <2> HIDE DEF u, next
    <2>5. /\ v \in Queue(Values) /\ Fit(v, full) /\ v.open = q.open /\ v.entry \in v.made
          /\ Known(v)
      BY <2>3, <2>4, FilledFields DEF Same
    <2>6. q' = Compare(v, "adjust", q.priority[next], q.priority[e])
      BY <1>1, <1>8 DEF u, next
    <2> HIDE DEF v
    <2> QED
      BY <1>2, <2>4, <2>5, <2>6, ComparesEntry
  <1> QED
    BY <1>7, <1>8

\* A comparison that returns leaves as many open as there were, at most.
LEMMA ReturnStep ==
  ASSUME NEW full, SoundIn(full), NEW i \in DOMAIN q.open, CompareReturns(i),
         q.run = "keep" => MayReplace(q, full)
  PROVE  Sound(q', Values, full) /\ Len(q'.open) <= bound.open
  <1> DEFINE w == Answered(q, i)
  <1>1. /\ q \in Queue(Values) /\ Fit(q, full) /\ Held(q) /\ 0 \in Values /\ bound.open \in Nat
        /\ Len(q.open) <= bound.open
    BY Callable, ValuesType DEF CompareReturns, SoundIn
  <1>2. /\ w \in Queue(Values) /\ Same(q, w) /\ Fit(w, full) /\ Held(w) /\ w.run # "none"
        /\ Len(w.open) = Len(q.open) - 1 /\ w.run = q.run
    BY <1>1, AnsweredFields
  <1>3. \/ \E greater \in Outcomes(q.open[i]) :
             \E e \in Allocated(w, greater) : q' = Continued(w, greater, e)
        \/ q' = IF w.run = "keep" THEN KeepRun(w, TRUE, None) ELSE Finish(w)
    BY DEF CompareReturns, Answered
  <1> HIDE DEF w
  <1>8. w.run = "keep" => MayReplace(w, full)
    BY <1>2 DEF MayReplace, Same
  <1>4. Leads(w, q', Values, full)
    <2>1. ASSUME NEW greater, NEW e \in Allocated(w, greater), q' = Continued(w, greater, e)
          PROVE  Leads(w, q', Values, full)
      <3>2. w.run = "keep" /\ ~ greater => e \in Entries \ w.made
        BY <1>2 DEF Allocated, Fresh, Same
      <3> QED
        BY <1>1, <1>2, <1>8, <2>1, <3>2, ContinuedSound
    <2>2. CASE q' = IF w.run = "keep" THEN KeepRun(w, TRUE, None) ELSE Finish(w)
      BY <1>1, <1>2, <2>2, KeepRunSound, FinishSound
    <2> QED
      BY <1>3, <2>1, <2>2
  <1>5. w.open \in Seq(Values \X Values) /\ q.open \in Seq(Values \X Values)
    BY <1>1, <1>2, StepFields
  <1>6. Len(q'.open) <= Len(w.open) + 1
    BY <1>4, <1>5 DEF Leads
  <1>7. q'.open \in Seq(Values \X Values)
    BY <1>4, StepFields DEF Leads, Sound
  <1> QED
    BY <1>1, <1>2, <1>4, <1>5, <1>6, <1>7 DEF Leads

LEMMA SoundInit == Init => SoundIn(Full)
  <1> SUFFICES ASSUME Init PROVE SoundIn(Full)
    OBVIOUS
  <1>1. bound \in Bounds /\ disturbed \in {"no", "lower", "others"} /\ bound.open \in Nat
    BY PQueueAssumption DEF Init
  <1>2. q \in Queue(Values)
    <2>1. <<"null", 0>> \in Results(Values) /\ "none" \in Runs /\ 0 \in Values
          /\ <<>> \in Seq(Values \X Values) /\ 0 \in 0 .. N
      BY NType DEF Results, Runs, Values
    <2>2. [i \in 0 .. N |-> None] \in [0 .. N -> Entries \union {None}]
          /\ [e \in Entries |-> Out] \in [Entries -> Int]
          /\ [e \in Entries |-> 0] \in [Entries -> Values]
      BY <2>1 DEF Out
    <2> QED
      BY <2>1, <2>2 DEF Init, Queue, N
  <1>3. Fit(q, Full)
    BY DEF Init, Fit, FitOf, QueuedOf, N
  <1>4. Held(q)
    BY DEF Init, Held, Known
  <1>5. Len(q.open) <= bound.open
    BY <1>1 DEF Init
  <1> QED
    BY <1>1, <1>2, <1>3, <1>4, <1>5 DEF SoundIn, Sound

\* The one step that leaves an entry where it says it is and is not.
Refills == \E i \in DOMAIN q.open : CompareReturns(i) /\ q.run = "keep" /\ q.count = 0

LEMMA SoundNext ==
  ASSUME NEW full, SoundIn(full), [Next]_vars, full = Full => ~ Refills
  PROVE  SoundIn(full)'
  <1>1. CASE UNCHANGED vars
    BY <1>1 DEF vars, SoundIn, Sound, Values, Fit, FitOf, QueuedOf, Held, Known
  <1>2. CASE Next
    <2>1. Operation /\ bound' = bound /\ Values' = Values
      <3>1. Operation /\ bound' = bound
        BY <1>2, Zenon DEF Next
      <3> QED
        BY <3>1, Zenon DEF Values
    <2>2. disturbed' \in {"no", "lower", "others"}
      BY <2>1 DEF SoundIn, Operation, PQInsert, PQEntry, PQNext, PQKeep, PQRequeue,
                  PQAdjust, PQRaise, PQLower, PQRemove, Calls, CompareReturns
    <2>3. ASSUME Leads(q, q', Values, full), Len(q.open) < bound.open
          PROVE  Sound(q', Values, full) /\ Len(q'.open) <= bound.open
      <3>2. q \in Queue(Values) /\ q' \in Queue(Values) /\ bound.open \in Nat
        BY <2>3, ValuesType DEF SoundIn, Sound, Leads
      <3>3. q.open \in Seq(Values \X Values) /\ q'.open \in Seq(Values \X Values)
        BY <3>2, StepFields
      <3>4. Len(q'.open) <= Len(q.open) + 1
        BY <2>3, <3>3 DEF Leads
      <3> QED
        BY <2>3, <3>2, <3>3, <3>4 DEF Leads
    <2>4. CASE PQInsert
      BY <2>1, <2>2, <2>3, <2>4, InsertStep DEF SoundIn, PQInsert, Calls
    <2>5. CASE PQEntry
      BY <2>1, <2>2, <2>3, <2>5, EntryStep DEF SoundIn, PQEntry, Calls
    <2>6. CASE PQNext
      BY <2>1, <2>2, <2>3, <2>6, NextStep DEF SoundIn, PQNext, Calls
    <2>7. CASE PQKeep
      BY <2>1, <2>2, <2>3, <2>7, KeepStep DEF SoundIn, PQKeep, Calls
    <2>8. CASE PQRequeue
      BY <2>1, <2>2, <2>3, <2>8, RequeueStep DEF SoundIn, PQRequeue, Calls
    <2>9. CASE PQAdjust
      BY <2>1, <2>2, <2>3, <2>9, AdjustStep DEF SoundIn, PQAdjust, Calls
    <2>10. CASE PQRaise
      BY <2>1, <2>2, <2>3, <2>10, RaiseStep DEF SoundIn, PQRaise, Calls
    <2>11. CASE PQLower
      BY <2>1, <2>2, <2>3, <2>11, LowerStep DEF SoundIn, PQLower, Calls
    <2>12. CASE PQRemove
      BY <2>1, <2>2, <2>3, <2>12, RemoveStep, Zenon DEF SoundIn, PQRemove, Calls
    <2>13. CASE \E i \in DOMAIN q.open : CompareReturns(i)
      <3>1. PICK i \in DOMAIN q.open : CompareReturns(i)
        BY <2>13
      <3>2. q.run = "keep" => MayReplace(q, full)
        BY <3>1 DEF MayReplace, Refills
      <3> QED
        BY <2>1, <2>2, <3>1, <3>2, ReturnStep DEF SoundIn
    <2> QED
      BY <2>1, <2>4, <2>5, <2>6, <2>7, <2>8, <2>9, <2>10, <2>11, <2>12, <2>13 DEF Operation
  <1> QED
    BY <1>1, <1>2

\* For every set of entries and of bounds, and however operations overlap or fail.
THEOREM SoundInvariance == Spec => []SoundInv
  <1>1. Init => SoundInv
    BY SoundInit DEF SoundInv, SoundIn, Sound, Fit
  <1>2. SoundInv /\ [Next]_vars => SoundInv'
    BY SoundNext DEF SoundInv, Full
  <1> QED
    BY <1>1, <1>2, PTL DEF Spec

\* The queue and what it keeps for its next step have their types.
THEOREM QueueTypes == Spec => []TypeOK
  <1>1. SoundInv => TypeOK
    <2> SUFFICES ASSUME SoundInv PROVE TypeOK
      OBVIOUS
    <2>1. q \in Queue(Values)
      BY DEF SoundInv, SoundIn, Sound
    <2> QED
      BY <2>1, HeapFields, StepFields DEF SoundInv, SoundIn, TypeOK, N, Values
  <1> QED
    BY <1>1, SoundInvariance, PTL

LEMMA SoundFits == SoundInv => HeapFits
  BY DEF SoundInv, SoundIn, Sound, Fit, FitOf, HeapFits, Positions

LEMMA FullOnes == SoundInv /\ QueuedFits => SoundIn(Full)
  BY DEF SoundInv, SoundIn, Sound, Fit, QueuedOf, QueuedFits, Positions

LEMMA QueuedOnes == SoundIn(Full) => QueuedFits
  BY DEF SoundIn, Sound, Fit, QueuedOf, QueuedFits, Positions

\* Every position of the heap holds an entry that says it is there, also when
\* comparisons fail, when operations get into each other's way, and when an entry says
\* it is queued that is not.  An entry that says it is queued is at its index, until
\* a comparison of keep returns to a queue that has become empty: no other step of any
\* operation, however it overlaps or fails, puts an entry where it is not.
THEOREM EntriesKnowTheirPlace == Spec => PlacesKept
  <1>1. Init => QueuedFits
    BY SoundInit, QueuedOnes
  <1>2. SoundInv /\ [Next]_vars =>
          (QueuedFits /\ ~ QueuedFits' =>
             \E i \in DOMAIN q.open : CompareReturns(i) /\ q.run = "keep" /\ q.count = 0)
    <2> SUFFICES ASSUME SoundInv, [Next]_vars, QueuedFits, ~ Refills
                 PROVE  QueuedFits'
      BY DEF Refills
    <2>1. SoundIn(Full)
      BY FullOnes
    <2>2. SoundIn(Full)'
      BY <2>1, SoundNext
    <2>3. SoundIn(Full)' => QueuedFits'
      BY QueuedOnes, PTL
    <2> QED
      BY <2>2, <2>3
  <1> QED
    BY <1>1, <1>2, SoundFits, SoundInvariance, PTL DEF Spec, PlacesKept
------------------------------------------------------------------------------
(* The order of the heap, as the priorities g at its positions 0 .. n - 1. *)

Kids(i) == {2 * i + 1, 2 * i + 2}

\* No priority is greater than the one of its parent, but at the positions S.
Ordered(g, n, S) == \A j \in (0 .. n - 1) \ ({0} \union S) : g[j] <= g[ParentIndex(j)]

\* The children of i fit below the parent of i.
Spans(g, n, i) == i # 0 => \A c \in Kids(i) \cap (0 .. n - 1) : g[c] <= g[ParentIndex(i)]

\* Only i may be too great for its parent; only the children of i for i.
Above(g, n, i) == Ordered(g, n, {i}) /\ Spans(g, n, i)
Below(g, n, i) == Ordered(g, n, Kids(i)) /\ Spans(g, n, i)

Priorities(g, n) == \A j \in 0 .. n - 1 : g[j] \in Nat

LEMMA KidsAreBelow ==
  ASSUME NEW i \in Nat
  PROVE  /\ \A j \in Nat \ {0} : j \in Kids(i) <=> ParentIndex(j) = i
         /\ i \notin Kids(i) /\ 0 \notin Kids(i)
  <1>1. ASSUME NEW j \in Nat \ {0}
        PROVE  j \in Kids(i) <=> ParentIndex(j) = i
    <2>1. j = 2 * ParentIndex(j) + 1 \/ j = 2 * ParentIndex(j) + 2
      BY Parents
    <2>2. ParentIndex(j) \in Nat
      BY Parents
    <2> QED
      BY <2>1, <2>2, Children DEF Kids
  <1> QED
    BY <1>1 DEF Kids

\* A position's parent is a position, and not the same.
LEMMA ParentsArePositions ==
  ASSUME NEW n \in Nat, NEW j \in (0 .. n - 1) \ {0}
  PROVE  ParentIndex(j) \in 0 .. n - 1 /\ ParentIndex(j) # j /\ j \in Nat \ {0}
  BY Parents

\* An entry at the top, or not greater than its parent.
LEMMA AboveDone ==
  ASSUME NEW n \in Nat, NEW g, NEW i \in 0 .. n - 1, Above(g, n, i),
         i # 0 => g[i] <= g[ParentIndex(i)]
  PROVE  Ordered(g, n, {})
  BY DEF Above, Ordered

\* An entry whose children are not greater.
LEMMA BelowDone ==
  ASSUME NEW n \in Nat, NEW g, NEW i \in 0 .. n - 1, Below(g, n, i),
         \A c \in Kids(i) \cap (0 .. n - 1) : g[c] <= g[i]
  PROVE  Ordered(g, n, {})
  <1> SUFFICES ASSUME NEW j \in (0 .. n - 1) \ {0} PROVE g[j] <= g[ParentIndex(j)]
    BY DEF Ordered
  <1>1. CASE j \in Kids(i)
    BY <1>1, KidsAreBelow, ParentsArePositions
  <1>2. CASE j \notin Kids(i)
    BY <1>2 DEF Below, Ordered
  <1> QED
    BY <1>1, <1>2

\* g and h differ in that i and p are exchanged.
Exchanged(g, h, n, i, p) ==
  /\ h[p] = g[i] /\ h[i] = g[p]
  /\ \A j \in (0 .. n - 1) \ {i, p} : h[j] = g[j]

\* A greater entry that takes the place of its parent can only be too great for
\* the parent of that.
LEMMA AboveExchanged ==
  ASSUME NEW n \in Nat, NEW g, NEW h, Priorities(g, n), NEW i \in (0 .. n - 1) \ {0},
         Above(g, n, i), NEW p, p = ParentIndex(i), g[i] > g[p], Exchanged(g, h, n, i, p)
  PROVE  Above(h, n, p)
  <1>1. p \in 0 .. n - 1 /\ p # i /\ i \in Nat /\ p \in Nat
    BY ParentsArePositions
  <1>2. /\ g[i] \in Nat /\ g[p] \in Nat /\ h[p] = g[i] /\ h[i] = g[p]
        /\ \A j \in (0 .. n - 1) \ {i, p} : h[j] = g[j] /\ g[j] \in Nat
    BY <1>1 DEF Exchanged, Priorities
  <1>3. \A j \in (0 .. n - 1) \ {0, i} : g[j] <= g[ParentIndex(j)]
    BY DEF Above, Ordered
  <1>4. \A j \in (0 .. n - 1) \ {0} : ParentIndex(j) = i => g[j] <= g[p]
    BY <1>1, KidsAreBelow, ParentsArePositions DEF Above, Spans
  <1>5. ASSUME NEW j \in (0 .. n - 1) \ {0, p}
        PROVE  h[j] <= h[ParentIndex(j)]
    <2>1. ParentIndex(j) \in 0 .. n - 1 /\ ParentIndex(j) # j
      BY ParentsArePositions
    <2>2. CASE j = i
      BY <1>2, <2>2
    <2>3. CASE j # i /\ ParentIndex(j) = i
      BY <1>2, <1>4, <2>3
    <2>4. CASE j # i /\ ParentIndex(j) = p
      BY <1>2, <1>3, <2>4
    <2>5. CASE j # i /\ ParentIndex(j) # i /\ ParentIndex(j) # p
      BY <1>2, <1>3, <2>1, <2>5
    <2> QED
      BY <2>2, <2>3, <2>4, <2>5
  <1>6. ASSUME p # 0, NEW c \in Kids(p) \cap (0 .. n - 1)
        PROVE  h[c] <= h[ParentIndex(p)]
    <2>1. c # 0 /\ c # p /\ ParentIndex(c) = p
      BY <1>1, KidsAreBelow
    <2>2. ParentIndex(p) \in 0 .. n - 1 /\ ParentIndex(p) # p /\ ParentIndex(p) < p /\ p < i
      BY <1>1, <1>6, Parents, ParentsArePositions
    <2>3. h[ParentIndex(p)] = g[ParentIndex(p)] /\ g[ParentIndex(p)] \in Nat
      BY <1>1, <1>2, <2>2
    <2>4. g[p] <= g[ParentIndex(p)]
      BY <1>1, <1>3, <1>6
    <2>5. CASE c = i
      BY <1>2, <2>3, <2>4, <2>5
    <2>6. CASE c # i
      BY <1>2, <1>3, <2>1, <2>3, <2>4, <2>6
    <2> QED
      BY <2>5, <2>6
  <1> QED
    BY <1>5, <1>6 DEF Above, Ordered, Spans

\* A smaller entry that takes the place of its greatest child can only be too
\* small for the children of that.
LEMMA BelowExchanged ==
  ASSUME NEW n \in Nat, NEW g, NEW h, Priorities(g, n), NEW i \in 0 .. n - 1,
         Below(g, n, i), NEW p \in Kids(i) \cap (0 .. n - 1), g[i] < g[p],
         \A c \in Kids(i) \cap (0 .. n - 1) : g[c] <= g[p], Exchanged(g, h, n, i, p)
  PROVE  Below(h, n, p)
  <1>1. /\ i \in Nat /\ p \in Nat /\ p # 0 /\ p # i /\ ParentIndex(p) = i
        /\ p \in (0 .. n - 1) \ {0}
    BY KidsAreBelow
  <1>2. /\ g[i] \in Nat /\ g[p] \in Nat /\ h[p] = g[i] /\ h[i] = g[p]
        /\ \A j \in (0 .. n - 1) \ {i, p} : h[j] = g[j] /\ g[j] \in Nat
    BY <1>1 DEF Exchanged, Priorities
  <1>3. \A j \in (0 .. n - 1) \ {0} : j \notin Kids(i) => g[j] <= g[ParentIndex(j)]
    BY DEF Below, Ordered
  <1>4. \A j \in (0 .. n - 1) \ {0} : /\ j \in Kids(i) <=> ParentIndex(j) = i
                                      /\ j \in Kids(p) <=> ParentIndex(j) = p
    BY <1>1, KidsAreBelow, ParentsArePositions
  <1>5. ASSUME NEW j \in (0 .. n - 1) \ {0}, j \notin Kids(p)
        PROVE  h[j] <= h[ParentIndex(j)]
    <2>1. ParentIndex(j) \in 0 .. n - 1 /\ ParentIndex(j) # j /\ ParentIndex(j) # p
      BY <1>4, <1>5, ParentsArePositions
    <2>2. CASE j = p
      BY <1>1, <1>2, <2>2
    <2>3. CASE j = i
      <3>1. g[p] <= g[ParentIndex(i)]
        BY <2>3 DEF Below, Spans
      <3> QED
        BY <1>2, <2>1, <2>3, <3>1
    <2>4. CASE j # p /\ ParentIndex(j) = i
      BY <1>2, <1>4, <2>1, <2>4
    <2>5. CASE j # p /\ j # i /\ ParentIndex(j) # i
      BY <1>2, <1>3, <1>4, <2>1, <2>5
    <2> QED
      BY <2>2, <2>3, <2>4, <2>5
  <1>6. ASSUME NEW c \in Kids(p) \cap (0 .. n - 1)
        PROVE  h[c] <= h[ParentIndex(p)]
    <2>1. c # 0 /\ ParentIndex(c) = p /\ c # p
      BY <1>1, KidsAreBelow
    <2>2. c # i
      BY <1>1, <2>1, Parents
    <2>3. c \notin Kids(i)
      BY <1>1, <1>4, <2>1
    <2> QED
      BY <1>1, <1>2, <1>3, <2>1, <2>2, <2>3
  <1> QED
    BY <1>5, <1>6 DEF Below, Ordered, Spans

\* Of an ordered heap the last positions may go, and one may get another
\* priority: a greater one is above its children, a smaller one below its parent,
\* and the top is both.
LEMMA OrderedBut ==
  ASSUME NEW n \in Nat, NEW m \in 0 .. n, NEW g, NEW h, Priorities(g, n), Ordered(g, n, {}),
         NEW i \in 0 .. m - 1, h[i] \in Nat, \A j \in (0 .. m - 1) \ {i} : h[j] = g[j]
  PROVE  /\ h[i] >= g[i] => Above(h, m, i)
         /\ h[i] <= g[i] \/ i = 0 => Below(h, m, i)
  <1>1. /\ m \in Nat /\ i \in Nat /\ g[i] \in Nat
        /\ \A j \in 0 .. m - 1 : j \in 0 .. n - 1 /\ g[j] \in Nat
        /\ \A j \in (0 .. m - 1) \ {0} : g[j] <= g[ParentIndex(j)]
    BY DEF Priorities, Ordered
  <1>2. \A j \in (0 .. m - 1) \ {0} : /\ ParentIndex(j) \in 0 .. m - 1 /\ ParentIndex(j) # j
                                      /\ j \in Kids(i) <=> ParentIndex(j) = i
    BY <1>1, KidsAreBelow, ParentsArePositions
  <1>3. Spans(h, m, i)
    <2> SUFFICES ASSUME i # 0, NEW c \in Kids(i) \cap (0 .. m - 1)
                 PROVE  h[c] <= h[ParentIndex(i)]
      BY DEF Spans
    <2>1. c # 0 /\ c # i
      BY <1>1, KidsAreBelow
    <2> QED
      BY <1>1, <1>2, <2>1
  <1>4. ASSUME h[i] >= g[i], NEW j \in (0 .. m - 1) \ {0, i}
        PROVE  h[j] <= h[ParentIndex(j)]
    <2>1. CASE ParentIndex(j) = i
      BY <1>1, <1>4, <2>1
    <2>2. CASE ParentIndex(j) # i
      BY <1>1, <1>2, <2>2
    <2> QED
      BY <2>1, <2>2
  <1>5. ASSUME h[i] <= g[i] \/ i = 0, NEW j \in (0 .. m - 1) \ {0}, j \notin Kids(i)
        PROVE  h[j] <= h[ParentIndex(j)]
    <2>1. CASE j = i
      BY <1>1, <1>2, <1>5, <2>1
    <2>2. CASE j # i
      BY <1>1, <1>2, <1>5, <2>2
    <2> QED
      BY <2>1, <2>2
  <1> QED
    BY <1>3, <1>4, <1>5 DEF Above, Below, Ordered

\* A last position can only be too great for its parent.
LEMMA OrderedAnd ==
  ASSUME NEW n \in Nat, NEW g, NEW h, Ordered(g, n, {}), \A j \in 0 .. n - 1 : h[j] = g[j]
  PROVE  Above(h, n + 1, n)
  <1>1. Spans(h, n + 1, n)
    <2>1. \A c \in Kids(n) : c \notin 0 .. n
      BY DEF Kids
    <2> QED
      BY <2>1 DEF Spans
  <1>2. ASSUME NEW j \in (0 .. n) \ {0, n}
        PROVE  h[j] <= h[ParentIndex(j)]
    <2>1. j \in (0 .. n - 1) \ {0} /\ ParentIndex(j) \in 0 .. n - 1
      BY ParentsArePositions
    <2> QED
      BY <2>1 DEF Ordered
  <1> QED
    BY <1>1, <1>2 DEF Above, Ordered
------------------------------------------------------------------------------
(* What the functions leave: a heap in order, or one comparison to restore it. *)

Levels(w) == [i \in Pos(w) |-> w.priority[w.heap[i]]]

\* In order, and nothing is left in an empty queue.
InOrder(w) == Ordered(Levels(w), w.count, {}) /\ (w.count = 0 => w.heap[0] = None)

AboveIn(w, e) == Above(Levels(w), w.count, w.index[e])
BelowIn(w, e) == Below(Levels(w), w.count, w.index[e])

\* Entry is compared with its parent.
Rises(w) ==
  /\ w.entry \in w.made /\ w.parent \in w.made
  /\ w.index[w.entry] \in Pos(w) \ {0}
  /\ w.index[w.parent] = ParentIndex(w.index[w.entry])
  /\ AboveIn(w, w.entry)

\* Test is the left child of Entry, which is still the greatest.
SinksLeft(w) ==
  /\ w.index[w.entry] \in Pos(w) /\ w.parent = w.entry
  /\ w.index[w.test] = 2 * w.index[w.entry] + 1 /\ w.index[w.test] \in Pos(w)
  /\ BelowIn(w, w.entry)

\* Test is the right child of Entry, and Parent the greater of Entry and the left.
SinksRight(w) ==
  /\ w.index[w.entry] \in Pos(w)
  /\ w.index[w.test] = 2 * w.index[w.entry] + 2 /\ w.index[w.test] \in Pos(w)
  /\ BelowIn(w, w.entry)
  /\ \/ /\ w.parent = w.entry
        /\ Levels(w)[2 * w.index[w.entry] + 1] <= w.priority[w.entry]
     \/ /\ w.index[w.parent] = 2 * w.index[w.entry] + 1
        /\ w.priority[w.entry] < w.priority[w.parent]

\* Whichever way Entry is going to be sifted, it may be.
Sifts(w, greater) ==
  w.index[w.entry] # Out => IF greater THEN AboveIn(w, w.entry) ELSE BelowIn(w, w.entry)

\* The one comparison that is open, and what its result continues.
Waits(w, run, a, b) == w.run = run /\ w.open = << <<a, b>> >>

Pending(w) ==
  \/ Waits(w, "up", w.priority[w.entry], w.priority[w.parent]) /\ Rises(w)
  \/ Waits(w, "left", w.priority[w.test], w.priority[w.entry]) /\ SinksLeft(w)
  \/ Waits(w, "right", w.priority[w.test], w.priority[w.parent]) /\ SinksRight(w)
  \/ \E a, b \in Nat : Waits(w, "adjust", a, b) /\ Sifts(w, a > b)
  \/ Waits(w, "keep", w.kept, w.priority[w.heap[0]]) /\ InOrder(w) /\ w.count # 0
  \/ \E p \in Nat : /\ w.value = <<"priority", p>> /\ InOrder(w)
                    /\ \/ Waits(w, "raise", p, w.priority[w.entry])
                       \/ Waits(w, "lower", w.priority[w.entry], p)

Orderly(w) == w.broken \/ IF w.open = <<>> THEN InOrder(w) ELSE Pending(w)

LEMMA LevelsFields ==
  ASSUME NEW V \in SUBSET Nat, NEW w \in Queue(V), Fit(w, Full)
  PROVE  /\ Priorities(Levels(w), w.count) /\ w.count \in Nat
         /\ \A i \in Pos(w) : Levels(w)[i] = w.priority[w.heap[i]] /\ Levels(w)[i] \in Nat
         /\ \A e \in w.made : /\ w.priority[e] \in Nat
                              /\ w.index[e] # Out => /\ w.index[e] \in Pos(w)
                                                     /\ Levels(w)[w.index[e]] = w.priority[e]
  <1>1. w.count \in Nat
    BY HeapFields, NType
  <1>2. \A i \in Pos(w) : Levels(w)[i] = w.priority[w.heap[i]] /\ Levels(w)[i] \in Nat
    BY Queued DEF Levels
  <1>3. \A e \in w.made : /\ w.priority[e] \in Nat
                          /\ w.index[e] # Out => /\ w.index[e] \in Pos(w)
                                                 /\ Levels(w)[w.index[e]] = w.priority[e]
    <2> TAKE e \in w.made
    <2>1. /\ w.priority[e] \in V
          /\ w.index[e] # Out => w.index[e] \in Pos(w) /\ w.heap[w.index[e]] = e
      BY Queued
    <2> QED
      BY <1>2, <2>1
  <1> QED
    BY <1>1, <1>2, <1>3 DEF Priorities, Pos

LEMMA SameLevels ==
  ASSUME NEW w, NEW v, Same(w, v)
  PROVE  Pos(v) = Pos(w) /\ Levels(v) = Levels(w)
  BY DEF Same, Pos, Levels

LEMMA BreaksOrder ==
  ASSUME NEW V, NEW w \in Queue(V)
  PROVE  Orderly(Breaks(w))
  BY BreaksSound DEF Orderly

LEMMA FinishOrder ==
  ASSUME NEW V, 0 \in V, NEW w \in Queue(V), w.open = <<>>, InOrder(w)
  PROVE  Orderly(Finish(w))
  <1> DEFINE v == Finish(w)
  <1>1. Same(w, v) /\ v.open = <<>>
    BY FinishFields
  <1> HIDE DEF v
  <1>2. Levels(v) = Levels(w) /\ v.count = w.count /\ v.heap = w.heap
    BY <1>1, SameLevels DEF Same
  <1> QED
    BY <1>1, <1>2 DEF Orderly, InOrder, v

\* A comparison that is the only one.
LEMMA CompareWaits ==
  ASSUME NEW V, NEW w \in Queue(V), w.open = <<>>, NEW run \in Runs, NEW a \in V, NEW b \in V,
         NEW v, v = Compare(w, run, a, b)
  PROVE  /\ Waits(v, run, a, b) /\ Same(w, v) /\ v.open # <<>>
         /\ v.entry = w.entry /\ v.parent = w.parent /\ v.test = w.test
         /\ v.value = w.value /\ v.kept = w.kept
  <1>1. Compare(w, run, a, b).run = run /\ Same(w, Compare(w, run, a, b))
    BY CompareFields
  <1>4. Compare(w, run, a, b).open = Append(w.open, <<a, b>>)
    BY DEF Compare, Queue
  <1>3. /\ Compare(w, run, a, b).entry = w.entry /\ Compare(w, run, a, b).parent = w.parent
        /\ Compare(w, run, a, b).test = w.test
        /\ Compare(w, run, a, b).value = w.value /\ Compare(w, run, a, b).kept = w.kept
    BY CompareFields
  <1>2. Append(<<>>, <<a, b>>) = << <<a, b>> >> /\ << <<a, b>> >> # <<>>
    OBVIOUS
  <1> QED
    BY <1>1, <1>2, <1>3, <1>4 DEF Waits

LEMMA Up2Order ==
  ASSUME NEW V \in SUBSET Nat, 0 \in V, NEW w \in Queue(V), Fit(w, Full), w.open = <<>>,
         NEW e \in w.made, w.index[e] # Out => AboveIn(w, e)
  PROVE  Orderly(Up2(w, e))
  <1>0. /\ w.count \in Nat /\ e \in Entries /\ w.priority[e] \in V
        /\ w.index[e] # Out => w.index[e] \in 0 .. w.count - 1
    BY LevelsFields, Queued DEF Pos
  <1>1. CASE w.index[e] = 0
    <2>1. InOrder(w)
      BY <1>0, <1>1, AboveDone DEF AboveIn, InOrder, Out
    <2> QED
      BY <1>1, <2>1, FinishOrder DEF Up2
  <1>2. CASE w.index[e] = Out
    BY <1>2, BreaksOrder DEF Up2, Out
  <1>3. CASE w.index[e] # 0 /\ w.index[e] # Out
    <2> DEFINE i == w.index[e]
               p == w.heap[ParentIndex(i)]
               v == Looking(w, e, p)
               u == Compare(v, "up", w.priority[e], w.priority[p])
    <2>1. i \in Pos(w) \ {0} /\ ParentIndex(i) \in Pos(w)
      BY <1>0, <1>3, ParentsArePositions DEF Pos
    <2>2. /\ p \in w.made /\ p \in Entries /\ w.index[p] = ParentIndex(i)
          /\ w.priority[p] \in V
      BY <2>1, Queued
    <2>3. v \in Queue(V) /\ Same(w, v) /\ v.open = <<>> /\ v.entry = e /\ v.parent = p
      BY <1>0, <2>2, SetBoth
    <2>10. p # None
      BY <2>2, PQueueAssumption
    <2>4. Up2(w, e) = u
      BY <1>3, <2>10 DEF Up2, Looking
    <2> HIDE DEF v, p
    <2>5. /\ Waits(u, "up", w.priority[e], w.priority[p]) /\ Same(v, u) /\ u.open # <<>>
          /\ u.entry = e /\ u.parent = p
      BY <1>0, <2>2, <2>3, CompareWaits DEF Runs
    <2> HIDE DEF u
    <2>6. Same(w, u) /\ Pos(u) = Pos(w) /\ Levels(u) = Levels(w)
      BY <2>3, <2>5, SameLevels DEF Same
    <2>7. AboveIn(w, e)
      BY <1>3
    <2>8. Rises(u)
      BY <2>1, <2>2, <2>5, <2>6, <2>7 DEF Rises, AboveIn, Same
    <2>9. Waits(u, "up", u.priority[u.entry], u.priority[u.parent])
      BY <2>5, <2>6 DEF Same
    <2> QED
      BY <2>4, <2>5, <2>8, <2>9 DEF Orderly, Pending
  <1> QED
    BY <1>1, <1>2, <1>3

\* Swap exchanges two priorities.
LEMMA SwapExchanges ==
  ASSUME NEW V \in SUBSET Nat, NEW w \in Queue(V), Fit(w, Full), Swaps(w),
         w.entry \in w.made, w.parent \in w.made, w.entry # w.parent
  PROVE  /\ Swap(w).count = w.count /\ Swap(w).index[w.entry] = w.index[w.parent]
         /\ Exchanged(Levels(w), Levels(Swap(w)), w.count, w.index[w.entry], w.index[w.parent])
  <1> DEFINE v == Swap(w)
             e == w.index[w.entry]
             p == w.index[w.parent]
  <1>5. /\ e \in Pos(w) /\ p \in Pos(w) /\ w.heap[e] = w.entry /\ w.heap[p] = w.parent
        /\ p # e
    BY Queued DEF Swaps
  <1>1. /\ v.heap[p] = w.entry /\ v.heap[e] = w.parent
        /\ \A i \in 0 .. N : i # p /\ i # e => v.heap[i] = w.heap[i]
        /\ v.index[w.entry] = p /\ v.count = w.count /\ v.priority = w.priority
    BY <1>5, SwapFields
  <1> HIDE DEF v, e, p
  <1>2. \A i \in Pos(w) : i \in 0 .. N
    BY HeapFields, NType DEF Pos
  <1>3. /\ Pos(v) = Pos(w) /\ \A i \in Pos(w) : Levels(v)[i] = w.priority[v.heap[i]]
        /\ \A i \in Pos(w) : Levels(w)[i] = w.priority[w.heap[i]]
    BY <1>1 DEF Levels, Pos
  <1>4. Exchanged(Levels(w), Levels(v), w.count, e, p)
    BY <1>1, <1>2, <1>3, <1>5 DEF Exchanged, Pos
  <1> QED
    BY <1>1, <1>4 DEF v, e, p

LEMMA UpRunOrder ==
  ASSUME NEW V \in SUBSET Nat, 0 \in V, NEW w \in Queue(V), Fit(w, Full), Held(w), w.open = <<>>,
         w.entry \in w.made, w.parent \in w.made, Rises(w),
         NEW greater, greater <=> w.priority[w.entry] > w.priority[w.parent]
  PROVE  Orderly(UpRun(w, greater))
  <1> DEFINE g == Levels(w)
             i == w.index[w.entry]
             p == w.index[w.parent]
  <1>1. /\ i \in (0 .. w.count - 1) \ {0} /\ p = ParentIndex(i) /\ Above(g, w.count, i)
        /\ w.count \in Nat
    BY LevelsFields DEF Rises, AboveIn, Pos
  <1>2. p \in 0 .. w.count - 1 /\ p # i
    BY <1>1, ParentsArePositions
  <1>3. /\ Priorities(g, w.count) /\ g[i] = w.priority[w.entry] /\ g[p] = w.priority[w.parent]
        /\ g[i] \in Nat /\ g[p] \in Nat
    BY <1>1, <1>2, LevelsFields DEF Out
  <1>4. CASE ~ greater
    <2>1. g[i] <= g[p]
      BY <1>3, <1>4
    <2>2. InOrder(w)
      BY <1>1, <2>1, AboveDone DEF InOrder
    <2> QED
      BY <1>4, <2>2, FinishOrder DEF UpRun
  <1>5. CASE greater
    <2> DEFINE v == Swap(w)
    <2>1. Swaps(w) /\ w.entry # w.parent /\ g[i] > g[p]
      <3>1. w.entry # None /\ w.parent # None
        BY HeapFields, PQueueAssumption
      <3> QED
        BY <1>1, <1>2, <1>3, <1>5, <3>1 DEF Swaps, Out
    <2>2. /\ v.count = w.count /\ v.index[w.entry] = p
          /\ Exchanged(g, Levels(v), w.count, i, p)
      BY <2>1, SwapExchanges
    <2>3. v \in Queue(V) /\ Fit(v, Full) /\ v.open = <<>>
      BY <2>1, SwapSound
    <2>4. w.entry \in v.made
      BY <2>1, SwapFields
    <2>5. UpRun(w, greater) = Up2(v, w.entry)
      BY <1>5, <2>1 DEF UpRun
    <2> HIDE DEF v, g
    <2>6. Above(Levels(v), w.count, p)
      BY <1>1, <1>3, <2>1, <2>2, AboveExchanged
    <2>7. AboveIn(v, w.entry)
      BY <2>2, <2>6 DEF AboveIn
    <2> QED
      BY <2>3, <2>4, <2>5, <2>7, Up2Order
  <1> QED
    BY <1>4, <1>5

LEMMA Down1Order ==
  ASSUME NEW V \in SUBSET Nat, 0 \in V, NEW w \in Queue(V), Fit(w, Full), w.open = <<>>,
         NEW e \in w.made, w.index[e] # Out => BelowIn(w, e)
  PROVE  Orderly(Down1(w, e))
  <1> DEFINE i == w.index[e]
             left == 2 * i + 1
             t == w.heap[left]
             v == Looking(w, e, e)
             x == [v EXCEPT !.test = t]
             u == Compare(x, "left", w.priority[t], w.priority[e])
  <1>0. /\ w.count \in Nat /\ e \in Entries /\ w.priority[e] \in V
        /\ i # Out => i \in 0 .. w.count - 1 /\ i \in Pos(w)
    BY LevelsFields, Queued DEF Pos
  <1>1. v \in Queue(V) /\ Same(w, v) /\ v.open = <<>> /\ v.entry = e /\ v.parent = e
    BY <1>0, SetBoth
  <1>2. CASE i = Out
    BY <1>2, BreaksOrder DEF Down1
  <1>3. CASE i # Out /\ ~ (left < w.count)
    <2>1. Down1(w, e) = Finish(v)
      BY <1>3 DEF Down1, Looking
    <2>2. \A c \in Kids(i) : c \notin 0 .. w.count - 1
      BY <1>0, <1>3 DEF Kids
    <2>3. InOrder(w)
      BY <1>0, <1>3, <2>2, BelowDone DEF BelowIn, InOrder
    <2> HIDE DEF v
    <2>4. InOrder(v)
      BY <1>1, <2>3, SameLevels DEF InOrder, Same
    <2> QED
      BY <1>1, <2>1, <2>4, FinishOrder
  <1>4. CASE i # Out /\ left < w.count
    <2>1. Down1(w, e) = u
      BY <1>4 DEF Down1, Looking
    <2>2. left \in Pos(w)
      BY <1>0, <1>4 DEF Pos
    <2>3. t \in Entries /\ w.index[t] = left /\ w.priority[t] \in V
      BY <2>2, Queued
    <2>4. i \in Pos(w) /\ BelowIn(w, e)
      BY <1>0, <1>4
    <2> HIDE DEF v, t
    <2>5. /\ x \in Queue(V) /\ Same(v, x) /\ x.open = <<>> /\ x.entry = e /\ x.parent = e
          /\ x.test = t
      BY <1>1, <2>3, SetTest
    <2> HIDE DEF x
    <2>6. /\ Waits(u, "left", w.priority[t], w.priority[e]) /\ Same(x, u) /\ u.open # <<>>
          /\ u.entry = e /\ u.parent = e /\ u.test = t
      BY <1>0, <2>3, <2>5, CompareWaits DEF Runs
    <2> HIDE DEF u
    <2>7. Same(w, u) /\ Pos(u) = Pos(w) /\ Levels(u) = Levels(w)
      BY <1>1, <2>5, <2>6, SameLevels DEF Same
    <2>8. SinksLeft(u)
      BY <2>2, <2>3, <2>4, <2>6, <2>7 DEF SinksLeft, BelowIn, Same
    <2>9. Waits(u, "left", u.priority[u.test], u.priority[u.entry])
      BY <2>6, <2>7 DEF Same
    <2> QED
      BY <2>1, <2>6, <2>8, <2>9 DEF Orderly, Pending
  <1> QED
    BY <1>2, <1>3, <1>4

\* Entry changes places with a child that no other one is greater than, if that is
\* not itself.
LEMMA Down2Order ==
  ASSUME NEW V \in SUBSET Nat, 0 \in V, NEW w \in Queue(V), Fit(w, Full), Held(w), w.open = <<>>,
         w.entry \in w.made, w.parent \in w.made,
         w.index[w.entry] \in Pos(w), BelowIn(w, w.entry),
         \/ w.parent = w.entry
         \/ /\ w.index[w.parent] \in Kids(w.index[w.entry])
            /\ w.priority[w.entry] < w.priority[w.parent],
         \A c \in Kids(w.index[w.entry]) \cap Pos(w) : Levels(w)[c] <= w.priority[w.parent]
  PROVE  Orderly(Down2(w))
  <1> DEFINE g == Levels(w)
             i == w.index[w.entry]
             p == w.index[w.parent]
             n == w.count
  <1>1. /\ n \in Nat /\ i \in 0 .. n - 1 /\ i \in Nat /\ Priorities(g, n)
        /\ Below(g, n, i) /\ g[i] = w.priority[w.entry] /\ Pos(w) = 0 .. n - 1
    BY LevelsFields DEF BelowIn, Pos, Out
  <1>2. CASE w.parent = w.entry
    <2>1. InOrder(w)
      BY <1>1, <1>2, BelowDone DEF InOrder
    <2> QED
      BY <1>2, <2>1, FinishOrder DEF Down2
  <1>3. CASE w.parent # w.entry
    <2> DEFINE v == Swap(w)
    <2>1. p \in Kids(i) /\ w.priority[w.entry] < w.priority[w.parent]
      BY <1>3
    <2>2. p \in Nat /\ p # i
      BY <1>1, <2>1, KidsAreBelow, SMTT(30) DEF Kids
    <2>3. p \in 0 .. n - 1 /\ g[p] = w.priority[w.parent]
      BY <1>1, <2>2, LevelsFields, SMTT(30) DEF Out
    <2>4. Swaps(w)
      <3>1. w.entry # None /\ w.parent # None
        BY HeapFields, PQueueAssumption
      <3> QED
        BY <1>1, <2>2, <3>1 DEF Swaps, Out
    <2>5. v.count = n /\ v.index[w.entry] = p /\ Exchanged(g, Levels(v), n, i, p)
      BY <1>3, <2>4, SwapExchanges
    <2>6. v \in Queue(V) /\ Fit(v, Full) /\ v.open = <<>>
      BY <2>4, SwapSound
    <2>7. w.entry \in v.made
      BY <2>4, SwapFields
    <2>8. Down2(w) = Down1(v, w.entry)
      BY <1>3, <2>4 DEF Down2
    <2>9. g[i] < g[p] /\ \A c \in Kids(i) \cap (0 .. n - 1) : g[c] <= g[p]
      BY <1>1, <2>1, <2>3
    <2> HIDE DEF v, g, n, i, p
    <2>10. Below(Levels(v), n, p)
      BY <1>1, <2>1, <2>3, <2>5, <2>9, BelowExchanged
    <2>11. BelowIn(v, w.entry)
      BY <2>5, <2>10 DEF BelowIn
    <2> QED
      BY <2>6, <2>7, <2>8, <2>11, Down1Order
  <1> QED
    BY <1>2, <1>3

LEMMA DownRightOrder ==
  ASSUME NEW V \in SUBSET Nat, 0 \in V, NEW w \in Queue(V), Fit(w, Full), Held(w), w.open = <<>>,
         w.entry \in w.made, w.parent \in w.made, w.test \in w.made, SinksRight(w),
         NEW greater, greater <=> w.priority[w.test] > w.priority[w.parent]
  PROVE  Orderly(DownRight(w, greater))
  <1> DEFINE v == Greatest(w, greater)
             g == Levels(w)
             i == w.index[w.entry]
  <1>1. /\ v \in Queue(V) /\ Fit(v, Full) /\ Held(v) /\ Same(w, v) /\ v.open = <<>>
        /\ v.entry = w.entry /\ v.parent = (IF greater THEN w.test ELSE w.parent)
        /\ v.parent \in v.made
    BY GreatestFields
  <1> HIDE DEF v
  <1>2. Pos(v) = Pos(w) /\ Levels(v) = g /\ v.priority = w.priority /\ v.index = w.index
        /\ v.made = w.made /\ v.count = w.count
    BY <1>1, SameLevels DEF Same
  <1>3. /\ i \in Pos(w) /\ w.index[w.test] = 2 * i + 2 /\ 2 * i + 2 \in Pos(w)
        /\ BelowIn(w, w.entry)
        /\ \/ w.parent = w.entry /\ g[2 * i + 1] <= w.priority[w.entry]
           \/ w.index[w.parent] = 2 * i + 1 /\ w.priority[w.entry] < w.priority[w.parent]
    BY DEF SinksRight
  <1>4. /\ w.count \in Nat /\ \A j \in Pos(w) : g[j] \in Nat
        /\ w.priority[w.entry] \in Nat /\ w.priority[w.parent] \in Nat
        /\ w.priority[w.test] \in Nat
        /\ w.index[w.parent] # Out => g[w.index[w.parent]] = w.priority[w.parent]
        /\ w.index[w.test] # Out => g[w.index[w.test]] = w.priority[w.test]
    BY LevelsFields
  <1> HIDE DEF g, i
  <1>5. i \in Nat /\ 2 * i + 1 \in Pos(w) /\ g[2 * i + 1] \in Nat
    BY <1>3, <1>4 DEF Pos
  <1>6. /\ g[2 * i + 2] = w.priority[w.test]
        /\ w.index[w.parent] = 2 * i + 1 => g[2 * i + 1] = w.priority[w.parent]
    BY <1>3, <1>4, <1>5 DEF Out
  <1>7. \A c \in Kids(i) : g[c] <= w.priority[v.parent]
    <2>1. g[2 * i + 1] <= w.priority[w.parent]
      BY <1>3, <1>4, <1>6
    <2>2. CASE greater
      <3>1. g[2 * i + 1] <= w.priority[w.test]
        BY <1>4, <1>5, <2>1, <2>2
      <3> QED
        BY <1>1, <1>4, <1>6, <2>2, <3>1 DEF Kids
    <2>3. CASE ~ greater
      <3>1. w.priority[w.test] <= w.priority[w.parent]
        BY <1>4, <2>3
      <3> QED
        BY <1>1, <1>6, <2>1, <2>3, <3>1 DEF Kids
    <2> QED
      BY <2>2, <2>3
  <1>8. \/ v.parent = w.entry
        \/ w.index[v.parent] \in Kids(i) /\ w.priority[w.entry] < w.priority[v.parent]
    BY <1>1, <1>3, <1>4, <1>6 DEF Kids
  <1>9. BelowIn(v, w.entry)
    BY <1>2, <1>3 DEF BelowIn, g
  <1>10. DownRight(w, greater) = Down2(v)
    BY DEF DownRight, v
  <1> QED
    BY <1>1, <1>2, <1>3, <1>7, <1>8, <1>9, <1>10, Down2Order DEF g, i

LEMMA DownLeftOrder ==
  ASSUME NEW V \in SUBSET Nat, 0 \in V, NEW w \in Queue(V), Fit(w, Full), Held(w), w.open = <<>>,
         w.entry \in w.made, w.parent \in w.made, w.test \in w.made, SinksLeft(w),
         NEW greater, greater <=> w.priority[w.test] > w.priority[w.entry]
  PROVE  Orderly(DownLeft(w, greater))
  <1> DEFINE v == Greatest(w, greater)
             g == Levels(w)
             i == w.index[w.entry]
             right == w.index[w.test] + 1
             t == w.heap[right]
             x == [v EXCEPT !.test = t]
             u == Compare(x, "right", w.priority[t], w.priority[v.parent])
  <1>1. /\ v \in Queue(V) /\ Fit(v, Full) /\ Held(v) /\ Same(w, v) /\ v.open = <<>>
        /\ v.entry = w.entry /\ v.parent = (IF greater THEN w.test ELSE w.parent)
        /\ v.parent \in v.made
    BY GreatestFields
  <1>2. Pos(v) = Pos(w) /\ Levels(v) = g /\ v.priority = w.priority /\ v.index = w.index
        /\ v.made = w.made /\ v.count = w.count
    BY <1>1, SameLevels DEF Same
  <1>3. /\ i \in Pos(w) /\ w.parent = w.entry /\ w.index[w.test] = 2 * i + 1
        /\ 2 * i + 1 \in Pos(w) /\ BelowIn(w, w.entry)
    BY DEF SinksLeft
  <1>11. /\ w.count \in Nat /\ \A j \in Pos(w) : g[j] \in Nat
         /\ w.priority[w.entry] \in Nat
         /\ w.index[w.test] # Out => g[w.index[w.test]] = w.priority[w.test]
    BY LevelsFields
  <1> HIDE DEF v, g, i
  <1>4. /\ i \in Nat /\ g[2 * i + 1] = w.priority[w.test] /\ g[2 * i + 1] \in Nat
        /\ w.priority[w.entry] \in Nat /\ w.count \in Nat
    BY <1>3, <1>11 DEF Pos, Out
  <1>5. g[2 * i + 1] <= w.priority[v.parent]
    BY <1>1, <1>3, <1>4
  <1>6. \/ v.parent = w.entry /\ g[2 * i + 1] <= w.priority[w.entry]
        \/ w.index[v.parent] = 2 * i + 1 /\ w.priority[w.entry] < w.priority[v.parent]
    BY <1>1, <1>3, <1>4
  <1>7. BelowIn(v, w.entry)
    BY <1>2, <1>3 DEF BelowIn, g, i
  <1>8. w.index[w.test] # Out /\ right = 2 * i + 2
    BY <1>3, <1>4 DEF Out
  <1> HIDE DEF right
  <1>9. CASE ~ (right < w.count)
    <2>1. DownLeft(w, greater) = Down2(v)
      BY <1>8, <1>9 DEF DownLeft, v, right
    <2>2. \A c \in Kids(i) \cap Pos(w) : g[c] <= w.priority[v.parent]
      BY <1>3, <1>4, <1>5, <1>8, <1>9 DEF Kids, Pos
    <2>3. \/ v.parent = w.entry
          \/ w.index[v.parent] \in Kids(i) /\ w.priority[w.entry] < w.priority[v.parent]
      BY <1>6 DEF Kids
    <2> QED
      BY <1>1, <1>2, <1>3, <1>7, <2>1, <2>2, <2>3, Down2Order DEF g, i
  <1>10. CASE right < w.count
    <2>1. DownLeft(w, greater) = u
      BY <1>8, <1>10 DEF DownLeft, RightWith, v, right
    <2>2. right \in Pos(w)
      BY <1>3, <1>4, <1>8, <1>10 DEF Pos
    <2>3. t \in Entries /\ w.index[t] = right /\ w.priority[t] \in V /\ w.priority[v.parent] \in V
      BY <1>1, <1>2, <2>2, Queued
    <2> HIDE DEF t
    <2>4. /\ x \in Queue(V) /\ Same(v, x) /\ x.open = <<>> /\ x.entry = w.entry
          /\ x.parent = v.parent /\ x.test = t
      BY <1>1, <2>3, SetTest
    <2> HIDE DEF x
    <2>5. /\ Waits(u, "right", w.priority[t], w.priority[v.parent]) /\ Same(x, u)
          /\ u.open # <<>> /\ u.entry = w.entry /\ u.parent = v.parent /\ u.test = t
      BY <2>3, <2>4, CompareWaits DEF Runs
    <2> HIDE DEF u
    <2>6. Same(w, u) /\ Pos(u) = Pos(w) /\ Levels(u) = g
      BY <1>1, <2>4, <2>5, SameLevels DEF Same, g
    <2>7. SinksRight(u)
      BY <1>3, <1>6, <1>8, <2>2, <2>3, <2>5, <2>6 DEF SinksRight, BelowIn, Same, g, i
    <2>8. Waits(u, "right", u.priority[u.test], u.priority[u.parent])
      BY <2>5, <2>6 DEF Same
    <2> QED
      BY <2>1, <2>5, <2>7, <2>8 DEF Orderly, Pending
  <1> QED
    BY <1>9, <1>10

LEMMA InsertOrder ==
  ASSUME NEW V \in SUBSET Nat, 0 \in V, NEW w \in Queue(V), Fit(w, Full), w.open = <<>>, InOrder(w),
         NEW e \in w.made, w.index[e] = Out
  PROVE  Orderly(Insert(w, e))
  <1> DEFINE v == Placed(w, e)
  <1>1. /\ v \in Queue(V) /\ Fit(v, Full) /\ v.count = w.count + 1 /\ v.index[e] = w.count
        /\ \A i \in Pos(w) : v.heap[i] = w.heap[i]
        /\ v.made = w.made /\ v.priority = w.priority /\ v.open = w.open
    BY PlacedFields
  <1>2. Insert(w, e) = Up2(v, e)
    BY DEF Insert, Placed
  <1> HIDE DEF v
  <1>3. w.count \in Nat /\ Pos(w) = 0 .. w.count - 1 /\ \A i \in Pos(w) : i \in Pos(v)
    BY <1>1, LevelsFields DEF Pos
  <1>4. \A i \in 0 .. w.count - 1 : Levels(v)[i] = Levels(w)[i]
    BY <1>1, <1>3 DEF Levels
  <1>5. Above(Levels(v), w.count + 1, w.count)
    BY <1>3, <1>4, OrderedAnd DEF InOrder
  <1>6. AboveIn(v, e)
    BY <1>1, <1>5 DEF AboveIn
  <1> QED
    BY <1>1, <1>2, <1>6, Up2Order

LEMMA KeepRunOrder ==
  ASSUME NEW V \in SUBSET Nat, 0 \in V, NEW w \in Queue(V), Fit(w, Full), Held(w), w.open = <<>>,
         w.count # 0, InOrder(w), NEW greater, NEW e, ~ greater => e \in Entries \ w.made
  PROVE  Orderly(KeepRun(w, greater, e))
  <1>1. CASE greater /\ w.caller
    <2>1. KeepRun(w, greater, e) = Settled(w)
      BY <1>1 DEF KeepRun
    <2>2. Same(w, Settled(w)) /\ Settled(w).open = <<>>
      BY SettledFields
    <2>3. InOrder(Settled(w))
      BY <2>2, SameLevels DEF InOrder, Same
    <2> QED
      BY <2>1, <2>2, <2>3 DEF Orderly
  <1>2. CASE greater /\ ~ w.caller
    BY <1>2, BreaksOrder DEF KeepRun
  <1>3. CASE ~ greater /\ w.heap[0] = None
    BY <1>3, BreaksOrder DEF KeepRun
  <1>4. CASE ~ greater /\ w.heap[0] # None
    <2> DEFINE next == w.heap[0]
               v == Replaced(w, e)
               u == Returning(v, next)
    <2>1. e \in Entries \ w.made /\ MayReplace(w, Full) /\ w.heap[0] # None
      BY <1>4 DEF MayReplace
    <2>2. w.count \in Nat /\ 0 \in 0 .. w.count - 1 /\ Pos(w) = 0 .. w.count - 1
      BY LevelsFields DEF Pos
    <2>3. next \in Entries
      BY <2>2, Queued
    <2>4. KeepRun(w, greater, e) = Down1(u, e)
      BY <1>4 DEF KeepRun, Replaced
    <2>5. /\ v \in Queue(V) /\ Fit(v, Full) /\ v.index[e] = 0 /\ v.count = w.count
          /\ v.made = w.made \union {e} /\ v.open = w.open
      BY <2>1, ReplacedFields
    <2>6. /\ \A i \in Pos(w) \ {0} : v.heap[i] = w.heap[i]
          /\ \A y \in Entries \ {e} : v.priority[y] = w.priority[y]
      BY <2>1, ReplacedFields
    <2> HIDE DEF v, next
    <2>7. \A i \in Pos(w) : w.heap[i] # e /\ w.heap[i] \in Entries
      BY <1>4, NotMade, Queued
    <2>8. \A i \in (0 .. w.count - 1) \ {0} : Levels(v)[i] = Levels(w)[i]
      BY <2>2, <2>5, <2>6, <2>7 DEF Levels, Pos
    <2>9. Levels(v)[0] \in Nat
      BY <2>2, <2>5, LevelsFields DEF Pos
    <2>10. Below(Levels(v), w.count, 0)
      <3>1. Priorities(Levels(w), w.count) /\ w.count \in 0 .. w.count
        BY <2>2, LevelsFields
      <3> QED
        BY <2>2, <2>8, <2>9, <3>1, OrderedBut DEF InOrder
    <2>11. /\ u \in Queue(V) /\ Fit(u, Full) /\ u.open = <<>> /\ e \in u.made /\ Same(v, u)
      BY <2>3, <2>5, ReturningFields DEF Same
    <2> HIDE DEF u
    <2>12. BelowIn(u, e)
      BY <2>5, <2>10, <2>11, SameLevels DEF BelowIn, Same
    <2> QED
      BY <2>4, <2>11, <2>12, Down1Order
  <1> QED
    BY <1>1, <1>2, <1>3, <1>4

\* raise sets a greater priority; lower may do so for an entry that is not queued.
LEMMA ChangeRunOrder ==
  ASSUME NEW V \in SUBSET Nat, 0 \in V, NEW w \in Queue(V), Fit(w, Full), Held(w), w.open = <<>>,
         w.entry \in w.made, InOrder(w), NEW greater,
         greater /\ w.index[w.entry] # Out => PriorityOf(w.value) >= w.priority[w.entry]
  PROVE  Orderly(ChangeRun(w, greater))
  <1> DEFINE e == w.entry
             u == Returning(w, e)
             v == Changed(w, e)
  <1>1. e \in Entries
    BY HeapFields
  <1>2. CASE ~ greater
    <2>1. u \in Queue(V) /\ Same(w, u) /\ u.open = <<>>
      BY <1>1, ReturningFields
    <2>2. ChangeRun(w, greater) = Finish(u)
      BY <1>2 DEF ChangeRun
    <2> HIDE DEF u
    <2>3. InOrder(u)
      BY <2>1, SameLevels DEF InOrder, Same
    <2> QED
      BY <2>1, <2>2, <2>3, FinishOrder
  <1>4. CASE greater /\ (w.value[1] = "null" \/ (w.index[e] = Out /\ ~ w.caller))
    BY <1>4, BreaksOrder DEF ChangeRun
  <1>3. CASE greater /\ ~ (w.value[1] = "null" \/ (w.index[e] = Out /\ ~ w.caller))
    <2> DEFINE x == Upwards(v)
    <2>1. /\ v \in Queue(V) /\ Fit(v, Full) /\ v.made = w.made
          /\ v.index = w.index /\ v.heap = w.heap /\ v.count = w.count
      BY ChangedFields
    <2>8. /\ v.priority[e] = PriorityOf(w.value) /\ PriorityOf(w.value) \in V
          /\ \A y \in Entries \ {e} : v.priority[y] = w.priority[y]
      BY ChangedFields
    <2>7. v.open = <<>>
      BY ChangedFields
    <2>2. ChangeRun(w, greater) = IF w.index[e] # Out THEN Up2(x, e) ELSE Insert(v, e)
      BY <1>3 DEF ChangeRun, Changed, Upwards
    <2> HIDE DEF v
    <2>3. /\ w.count \in Nat /\ Pos(w) = 0 .. w.count - 1 /\ Priorities(Levels(w), w.count)
          /\ w.count \in 0 .. w.count
      BY LevelsFields DEF Pos
    <2>4. \A i \in Pos(w) : w.heap[i] # e => Levels(v)[i] = Levels(w)[i]
      BY <2>1, <2>8, Queued DEF Levels, Pos
    <2>5. CASE w.index[e] # Out
      <3> DEFINE i == w.index[e]
      <3>1. /\ i \in 0 .. w.count - 1 /\ Levels(w)[i] = w.priority[e]
        BY <2>3, <2>5, LevelsFields
      <3>2. Levels(v)[i] = PriorityOf(w.value) /\ Levels(v)[i] \in Nat
        BY <2>1, <2>5, <2>8, LevelsFields
      <3>3. \A j \in (0 .. w.count - 1) \ {i} : Levels(v)[j] = Levels(w)[j]
        BY <2>3, <2>4, Queued
      <3>4. Levels(v)[i] >= Levels(w)[i]
        BY <1>3, <2>5, <3>1, <3>2
      <3> HIDE DEF i
      <3>5. Above(Levels(v), w.count, i)
        BY <2>3, <3>1, <3>2, <3>3, <3>4, OrderedBut DEF InOrder
      <3>6. AboveIn(v, e)
        BY <2>1, <3>5 DEF AboveIn, i
      <3>7. x \in Queue(V) /\ Same(v, x) /\ Fit(x, Full) /\ x.open = <<>>
        BY <2>1, <2>7, UpwardsFields
      <3> HIDE DEF x
      <3>8. AboveIn(x, e) /\ e \in x.made
        BY <2>1, <3>6, <3>7, SameLevels DEF AboveIn, Same
      <3> QED
        BY <2>2, <2>5, <3>7, <3>8, Up2Order
    <2>6. CASE w.index[e] = Out
      <3>1. \A i \in Pos(w) : w.heap[i] # e
        BY <2>3, <2>6, Queued DEF Out
      <3>2. \A i \in Pos(w) : Levels(v)[i] = Levels(w)[i]
        BY <2>4, <3>1
      <3>3. InOrder(v)
        <4>1. \A j \in Pos(w) \ {0} : ParentIndex(j) \in Pos(w)
          BY <2>3, ParentsArePositions
        <4> QED
          BY <2>1, <2>3, <3>2, <4>1 DEF InOrder, Ordered
      <3> QED
        BY <2>1, <2>2, <2>6, <2>7, <3>3, InsertOrder
    <2> QED
      BY <2>5, <2>6
  <1> QED
    BY <1>2, <1>3, <1>4

\* What the result of the comparison continues, once it has returned.
Ready(w, greater) ==
  \/ /\ w.run = "up" /\ Rises(w)
     /\ greater <=> w.priority[w.entry] > w.priority[w.parent]
  \/ /\ w.run = "left" /\ SinksLeft(w)
     /\ greater <=> w.priority[w.test] > w.priority[w.entry]
  \/ /\ w.run = "right" /\ SinksRight(w)
     /\ greater <=> w.priority[w.test] > w.priority[w.parent]
  \/ w.run = "adjust" /\ Sifts(w, greater)
  \/ w.run = "keep" /\ InOrder(w) /\ w.count # 0
  \/ /\ w.run \in {"raise", "lower"} /\ InOrder(w)
     /\ greater /\ w.index[w.entry] # Out => PriorityOf(w.value) >= w.priority[w.entry]

LEMMA ContinuedOrder ==
  ASSUME NEW V \in SUBSET Nat, 0 \in V, NEW w \in Queue(V), Fit(w, Full), Held(w), w.open = <<>>,
         NEW greater, Ready(w, greater),
         NEW e, w.run = "keep" /\ ~ greater => e \in Entries \ w.made
  PROVE  Orderly(Continued(w, greater, e))
  <1>1. CASE w.run = "up"
    <2>1. /\ Rises(w)
          /\ greater <=> w.priority[w.entry] > w.priority[w.parent]
          /\ w.entry \in w.made /\ w.parent \in w.made
      BY <1>1 DEF Ready, Rises
    <2>2. Continued(w, greater, e) = UpRun(w, greater)
      BY <1>1 DEF Continued
    <2> QED
      BY <2>1, <2>2, UpRunOrder
  <1>2. CASE w.run = "left"
    <2>1. /\ SinksLeft(w)
          /\ greater <=> w.priority[w.test] > w.priority[w.entry]
          /\ w.entry \in w.made /\ w.parent \in w.made /\ w.test \in w.made
      BY <1>2 DEF Ready, Held
    <2>2. Continued(w, greater, e) = DownLeft(w, greater)
      BY <1>2 DEF Continued
    <2> QED
      BY <2>1, <2>2, DownLeftOrder
  <1>3. CASE w.run = "right"
    <2>1. /\ SinksRight(w)
          /\ greater <=> w.priority[w.test] > w.priority[w.parent]
          /\ w.entry \in w.made /\ w.parent \in w.made /\ w.test \in w.made
      BY <1>3 DEF Ready, Held
    <2>2. Continued(w, greater, e) = DownRight(w, greater)
      BY <1>3 DEF Continued
    <2> QED
      BY <2>1, <2>2, DownRightOrder
  <1>4. CASE w.run = "keep"
    <2>1. InOrder(w) /\ w.count # 0
      BY <1>4 DEF Ready
    <2>2. Continued(w, greater, e) = KeepRun(w, greater, e)
      BY <1>4 DEF Continued
    <2> QED
      BY <1>4, <2>1, <2>2, KeepRunOrder
  <1>5. CASE w.run = "adjust"
    <2>1. w.entry \in w.made /\ Sifts(w, greater)
      BY <1>5 DEF Ready, Held
    <2>2. Continued(w, greater, e) = AdjustRun(w, greater)
      BY <1>5 DEF Continued
    <2>3. CASE ~ greater
      BY <2>1, <2>2, <2>3, Down1Order DEF Sifts, AdjustRun
    <2>4. CASE greater
      <3> DEFINE v == Upwards(w)
      <3>1. AdjustRun(w, greater) = Up2(v, w.entry)
        BY <2>4 DEF AdjustRun, Upwards
      <3>2. v \in Queue(V) /\ Same(w, v) /\ Fit(v, Full) /\ v.open = <<>>
        BY UpwardsFields
      <3>3. w.index[w.entry] # Out => AboveIn(w, w.entry)
        BY <2>1, <2>4 DEF Sifts
      <3> HIDE DEF v
      <3>4. w.entry \in v.made /\ (v.index[w.entry] # Out => AboveIn(v, w.entry))
        BY <2>1, <3>2, <3>3, SameLevels DEF AboveIn, Same
      <3> QED
        BY <2>2, <3>1, <3>2, <3>4, Up2Order
    <2> QED
      BY <2>3, <2>4
  <1>6. CASE w.run \in {"raise", "lower"}
    <2>1. /\ w.entry \in w.made /\ InOrder(w)
          /\ greater /\ w.index[w.entry] # Out => PriorityOf(w.value) >= w.priority[w.entry]
      BY <1>6 DEF Ready, Held
    <2>2. Continued(w, greater, e) = ChangeRun(w, greater)
      BY <1>6 DEF Continued
    <2> QED
      BY <2>1, <2>2, ChangeRunOrder
  <1> QED
    BY <1>1, <1>2, <1>3, <1>4, <1>5, <1>6 DEF Ready
------------------------------------------------------------------------------
(* The invariant of the order. *)

OrderInv == disturbed = "no" => SoundIn(Full) /\ Orderly(q)

\* A method that leaves the order undisturbed is called on a heap in order.
LEMMA CalledInOrder ==
  ASSUME OrderInv, NEW name, Calls(name), disturbed' = "no"
  PROVE  /\ q \in Queue(Values) /\ Fit(q, Full) /\ Held(q) /\ q.open = <<>> /\ InOrder(q)
         /\ Values \in SUBSET Nat /\ 0 \in Values /\ bound.priorities \subseteq Values
  <1>1. disturbed = "no" /\ q.open = <<>> /\ ~ q.broken
    BY DEF Calls
  <1>2. SoundIn(Full) /\ InOrder(q)
    BY <1>1 DEF OrderInv, Orderly
  <1> QED
    BY <1>1, <1>2, Callable, ValuesType

\* An entry that is not queued may have any priority.
LEMMA OrderOfQueued ==
  ASSUME NEW V \in SUBSET Nat, NEW w \in Queue(V), Fit(w, Full), InOrder(w), NEW e \in Entries,
         \A i \in Pos(w) : w.heap[i] # e,
         NEW v, v.heap = w.heap, v.count = w.count,
         \A y \in Entries \ {e} : v.priority[y] = w.priority[y]
  PROVE  InOrder(v)
  <1>1. w.count \in Nat /\ Pos(v) = Pos(w) /\ Pos(w) = 0 .. w.count - 1
    BY LevelsFields DEF Pos
  <1>2. \A i \in Pos(w) : Levels(v)[i] = Levels(w)[i]
    BY <1>1, Queued DEF Levels
  <1>3. \A j \in Pos(w) \ {0} : ParentIndex(j) \in Pos(w)
    BY <1>1, ParentsArePositions
  <1> QED
    BY <1>1, <1>2, <1>3 DEF InOrder, Ordered

\* In an ordered heap every entry may be sifted either way.
LEMMA OrderedSifts ==
  ASSUME NEW V \in SUBSET Nat, NEW w \in Queue(V), Fit(w, Full), InOrder(w), NEW e \in w.made,
         w.index[e] # Out
  PROVE  AboveIn(w, e) /\ BelowIn(w, e)
  <1> DEFINE g == Levels(w)
             n == w.count
             i == w.index[e]
  <1>1. /\ n \in Nat /\ n \in 0 .. n /\ Priorities(g, n) /\ Ordered(g, n, {})
        /\ i \in 0 .. n - 1 /\ g[i] \in Nat
    BY LevelsFields DEF InOrder, Pos
  <1> HIDE DEF g, n, i
  <1>2. Above(g, n, i) /\ Below(g, n, i)
    BY <1>1, OrderedBut
  <1> QED
    BY <1>2 DEF AboveIn, BelowIn, g, n, i

LEMMA InsertKeepsOrder ==
  ASSUME OrderInv, PQInsert, disturbed' = "no"
  PROVE  Orderly(q')
  <1>1. PICK e \in Fresh, p \in bound.priorities :
          q' = Insert(Returning(Make(q, e, p), e), e)
    BY DEF PQInsert
  <1>2. /\ q \in Queue(Values) /\ Fit(q, Full) /\ q.open = <<>> /\ InOrder(q)
        /\ Values \in SUBSET Nat /\ 0 \in Values /\ p \in Values /\ e \in Entries \ q.made
    BY CalledInOrder DEF PQInsert, Fresh
  <1> DEFINE u == Make(q, e, p)
             v == Returning(u, e)
  <1>3. /\ u \in Queue(Values) /\ Fit(u, Full) /\ u.open = <<>> /\ u.heap = q.heap
        /\ u.count = q.count /\ u.index = q.index /\ e \in u.made
        /\ \A y \in Entries \ {e} : u.priority[y] = q.priority[y]
    BY <1>2, MakeFields
  <1> HIDE DEF u
  <1>4. u.index[e] = Out /\ \A i \in Pos(q) : q.heap[i] # e
    BY <1>2, <1>3, NotMade
  <1>5. InOrder(u)
    BY <1>2, <1>3, <1>4, OrderOfQueued
  <1>6. /\ v \in Queue(Values) /\ Fit(v, Full) /\ Same(u, v) /\ v.open = <<>>
        /\ e \in v.made /\ v.index[e] = Out
    BY <1>2, <1>3, <1>4, ReturningFields DEF Same
  <1>7. q' = Insert(v, e)
    BY <1>1 DEF u
  <1> HIDE DEF v
  <1>8. InOrder(v)
    BY <1>5, <1>6, SameLevels DEF InOrder, Same
  <1> QED
    BY <1>2, <1>6, <1>7, <1>8, InsertOrder

LEMMA EntryKeepsOrder ==
  ASSUME OrderInv, PQEntry, disturbed' = "no"
  PROVE  Orderly(q')
  <1>1. PICK e \in Fresh, p \in bound.priorities : q' = Make(q, e, p)
    BY DEF PQEntry
  <1>2. /\ q \in Queue(Values) /\ Fit(q, Full) /\ q.open = <<>> /\ InOrder(q)
        /\ Values \in SUBSET Nat /\ p \in Values /\ e \in Entries \ q.made
    BY CalledInOrder DEF PQEntry, Fresh
  <1>3. /\ q'.open = <<>> /\ q'.heap = q.heap /\ q'.count = q.count
        /\ \A y \in Entries \ {e} : q'.priority[y] = q.priority[y]
    BY <1>1, <1>2, MakeFields
  <1>4. \A i \in Pos(q) : q.heap[i] # e
    BY <1>2, NotMade
  <1>5. InOrder(q')
    BY <1>2, <1>3, <1>4, OrderOfQueued
  <1> QED
    BY <1>3, <1>5 DEF Orderly

LEMMA NextKeepsOrder ==
  ASSUME OrderInv, PQNext, disturbed' = "no"
  PROVE  Orderly(q')
  <1> DEFINE e == q.heap[q.count - 1]
             next == q.heap[0]
             v == Popped(q)
             u == Returning(v, next)
             s == Called(u)
  <1>1. /\ q \in Queue(Values) /\ Fit(q, Full) /\ Held(q) /\ q.open = <<>> /\ InOrder(q)
        /\ Values \in SUBSET Nat /\ 0 \in Values /\ q.count > 0
    BY CalledInOrder DEF PQNext
  <1>2. e \in q.made /\ next \in Entries
    BY <1>1, Queued, HeapFields, NType DEF Pos
  <1>3. /\ v \in Queue(Values) /\ Fit(v, Full) /\ v.open = q.open /\ v.made = q.made
        /\ v.count = q.count - 1 /\ v.priority = q.priority
        /\ q.count = 1 => v.heap[0] = None
        /\ q.count # 1 => v.heap[0] = e /\ v.index[e] = 0
        /\ \A i \in Pos(v) \ {0} : v.heap[i] = q.heap[i]
    <2>1. v = Popped(q)
      OBVIOUS
    <2> HIDE DEF v
    <2>2. /\ v \in Queue(Values) /\ Fit(v, Full) /\ v.count = q.count - 1
          /\ q.count = 1 => v.heap[0] = None
          /\ q.count # 1 => v.heap[0] = q.heap[q.count - 1] /\ v.index[q.heap[q.count - 1]] = 0
          /\ \A i \in Pos(v) \ {0} : v.heap[i] = q.heap[i]
          /\ v.made = q.made /\ v.priority = q.priority /\ v.open = q.open
      <3>1. q \in Queue(Values) /\ Fit(q, Full) /\ Held(q) /\ q.count > 0
        BY <1>1
      <3> QED
        BY <3>1, <2>1, PoppedFields, Z3T(60)
    <2> QED
      BY <1>1, <2>2
  <1>4. q' = IF q.count = 1 THEN v ELSE Down1(s, e)
    BY NextIs DEF Sifted
  <1> HIDE DEF v, e, next
  <1>5. q.count \in Nat
    BY <1>1, LevelsFields
  <1>6. CASE q.count = 1
    <2>1. InOrder(v)
      <3>1. v.count = 0 /\ v.heap[0] = None
        BY <1>3, <1>6
      <3> QED
        BY <3>1 DEF InOrder, Ordered
    <2> QED
      BY <1>1, <1>3, <1>4, <1>6, <2>1 DEF Orderly
  <1>7. CASE q.count # 1
    <2>1. u \in Queue(Values) /\ Same(v, u) /\ Fit(u, Full) /\ u.open = <<>>
      BY <1>1, <1>2, <1>3, ReturningFields
    <2> HIDE DEF u
    <2>2. s \in Queue(Values) /\ Same(u, s) /\ Fit(s, Full) /\ s.open = <<>>
      BY <2>1, CalledFields
    <2> HIDE DEF s
    <2>3. /\ v.count \in 0 .. q.count /\ 0 \in 0 .. v.count - 1
          /\ Pos(v) = 0 .. v.count - 1 /\ \A j \in Pos(v) : j \in Pos(q)
      BY <1>1, <1>3, <1>5, <1>7 DEF Pos
    <2>4. \A j \in Pos(v) \ {0} : Levels(v)[j] = Levels(q)[j]
      BY <1>3, <2>3 DEF Levels
    <2>5. Levels(v)[0] \in Nat /\ Priorities(Levels(q), q.count)
      BY <1>1, <1>3, <2>3, LevelsFields
    <2>6. Below(Levels(v), v.count, 0)
      BY <1>1, <1>5, <2>3, <2>4, <2>5, OrderedBut DEF InOrder
    <2>7. BelowIn(v, e)
      BY <1>3, <1>7, <2>6 DEF BelowIn
    <2>8. BelowIn(s, e) /\ e \in s.made
      BY <1>2, <1>3, <2>1, <2>2, <2>7, SameLevels DEF BelowIn, Same
    <2> QED
      BY <1>1, <1>4, <1>7, <2>2, <2>8, Down1Order
  <1> QED
    BY <1>6, <1>7

LEMMA KeepKeepsOrder ==
  ASSUME OrderInv, PQKeep, disturbed' = "no"
  PROVE  Orderly(q')
  <1>1. PICK e \in Fresh, p \in bound.priorities, target \in Targets :
          q' = IF q.count < target THEN Insert(Rejected(q, e, p), e)
               ELSE IF q.heap[0] = None THEN Breaks(q)
               ELSE Compare(Offered(q, p), "keep", p, q.priority[q.heap[0]])
    BY DEF PQKeep, Rejected, Offered
  <1>2. /\ q \in Queue(Values) /\ Fit(q, Full) /\ Held(q) /\ q.open = <<>> /\ InOrder(q)
        /\ Values \in SUBSET Nat /\ 0 \in Values /\ p \in Values /\ e \in Entries \ q.made
    BY CalledInOrder DEF PQKeep, Fresh
  <1>3. CASE q.count < target
    <2> DEFINE v == Rejected(q, e, p)
    <2>2. q' = Insert(v, e)
      BY <1>1, <1>3
    <2>10. v = Rejected(q, e, p)
      OBVIOUS
    <2> HIDE DEF v
    <2>1. /\ v \in Queue(Values) /\ Fit(v, Full) /\ v.open = <<>> /\ e \in v.made
          /\ v.index = q.index /\ v.heap = q.heap /\ v.count = q.count
          /\ \A y \in Entries \ {e} : v.priority[y] = q.priority[y]
      <3>1. /\ q \in Queue(Values) /\ Fit(q, Full) /\ Held(q) /\ 0 \in Values /\ p \in Values
            /\ e \in Entries \ q.made
        BY <1>2
      <3>2. /\ v \in Queue(Values) /\ Fit(v, Full) /\ v.open = q.open /\ e \in v.made
            /\ v.index = q.index /\ v.heap = q.heap /\ v.count = q.count
            /\ \A y \in Entries \ {e} : v.priority[y] = q.priority[y]
        BY <3>1, <2>10, RejectedFields, Z3T(60)
      <3> QED
        BY <3>2, <1>2
    <2>3. v.index[e] = Out /\ \A i \in Pos(q) : q.heap[i] # e
      BY <1>2, <2>1, NotMade
    <2>4. InOrder(v)
      BY <1>2, <2>1, <2>3, OrderOfQueued
    <2> QED
      BY <1>2, <2>1, <2>2, <2>3, <2>4, InsertOrder
  <1>4. CASE ~ (q.count < target) /\ q.heap[0] = None
    BY <1>1, <1>2, <1>4, BreaksOrder
  <1>5. CASE ~ (q.count < target) /\ q.heap[0] # None
    <2> DEFINE v == Offered(q, p)
               u == Compare(v, "keep", p, q.priority[q.heap[0]])
    <2>1. v \in Queue(Values) /\ Same(q, v) /\ v.open = <<>> /\ v.kept = p
      BY <1>2, OfferedFields
    <2>7. q.count # 0
      BY <1>2, <1>5 DEF InOrder
    <2>2. q.priority[q.heap[0]] \in Values
      BY <1>2, <2>7, Queued, HeapFields, NType DEF Pos
    <2>3. q' = u
      BY <1>1, <1>5
    <2> HIDE DEF v
    <2>4. /\ Waits(u, "keep", p, q.priority[q.heap[0]]) /\ Same(v, u) /\ u.kept = p
          /\ u.open # <<>>
      BY <1>2, <2>1, <2>2, CompareWaits DEF Runs
    <2> HIDE DEF u
    <2>5. Same(q, u) /\ InOrder(u)
      BY <1>2, <2>1, <2>4, SameLevels DEF InOrder, Same
    <2>6. Waits(u, "keep", u.kept, u.priority[u.heap[0]]) /\ u.count # 0
      BY <2>4, <2>5, <2>7 DEF Same
    <2> QED
      BY <2>3, <2>4, <2>5, <2>6 DEF Orderly, Pending
  <1> QED
    BY <1>3, <1>4, <1>5

LEMMA RequeueKeepsOrder ==
  ASSUME OrderInv, PQRequeue, disturbed' = "no"
  PROVE  Orderly(q')
  <1> DEFINE v(e) == Returning(q, e)
  <1>1. PICK e \in q.made : q' = IF q.index[e] = Out THEN Insert(v(e), e) ELSE Settled(v(e))
    BY DEF PQRequeue
  <1>2. /\ q \in Queue(Values) /\ Fit(q, Full) /\ q.open = <<>> /\ InOrder(q)
        /\ Values \in SUBSET Nat /\ 0 \in Values
    BY CalledInOrder DEF PQRequeue
  <1>3. e \in Entries
    BY <1>2, HeapFields
  <1>4. v(e) \in Queue(Values) /\ Fit(v(e), Full) /\ Same(q, v(e)) /\ v(e).open = <<>>
    BY <1>2, <1>3, ReturningFields
  <1> HIDE DEF v
  <1>5. InOrder(v(e)) /\ e \in v(e).made /\ v(e).index = q.index
    BY <1>2, <1>4, SameLevels DEF InOrder, Same
  <1>6. CASE q.index[e] = Out
    BY <1>1, <1>2, <1>4, <1>5, <1>6, InsertOrder
  <1>7. CASE q.index[e] # Out
    <2>1. Same(v(e), Settled(v(e))) /\ Settled(v(e)).open = <<>>
      BY <1>2, <1>4, SettledFields
    <2>2. InOrder(Settled(v(e)))
      BY <1>5, <2>1, SameLevels DEF InOrder, Same
    <2> QED
      BY <1>1, <1>7, <2>1, <2>2 DEF Orderly
  <1> QED
    BY <1>6, <1>7

\* A comparison of adjust or remove, the only one.
LEMMA AdjustWaits ==
  ASSUME NEW V \in SUBSET Nat, NEW v \in Queue(V), v.open = <<>>, NEW a \in V, NEW b \in V,
         Sifts(v, a > b)
  PROVE  Orderly(Compare(v, "adjust", a, b))
  <1> DEFINE u == Compare(v, "adjust", a, b)
  <1>1. Waits(u, "adjust", a, b) /\ Same(v, u) /\ u.open # <<>> /\ u.entry = v.entry
    BY CompareWaits DEF Runs
  <1> HIDE DEF u
  <1>2. AboveIn(u, u.entry) = AboveIn(v, v.entry) /\ BelowIn(u, u.entry) = BelowIn(v, v.entry)
    BY <1>1, SameLevels DEF AboveIn, BelowIn, Same
  <1>3. Sifts(u, a > b)
    BY <1>1, <1>2 DEF Sifts, Same
  <1>4. a \in Nat /\ b \in Nat
    OBVIOUS
  <1>5. Orderly(u)
    BY <1>1, <1>3, <1>4 DEF Orderly, Pending
  <1> QED
    BY <1>5 DEF u

LEMMA AdjustKeepsOrder ==
  ASSUME OrderInv, PQAdjust, disturbed' = "no"
  PROVE  Orderly(q')
  <1>1. PICK e \in q.made, p \in bound.priorities :
          q' = Compare(Filled(q, e, e), "adjust", p, q.priority[e])
    BY DEF PQAdjust, Filled
  <1>2. /\ q \in Queue(Values) /\ Fit(q, Full) /\ q.open = <<>> /\ InOrder(q)
        /\ Values \in SUBSET Nat /\ p \in Values
    BY CalledInOrder DEF PQAdjust
  <1>3. e \in Entries /\ q.priority[e] \in Values
    BY <1>2, Queued
  <1> DEFINE v == Filled(q, e, e)
             greater == p > q.priority[e]
  <1>4. v \in Queue(Values) /\ Same(q, v) /\ v.open = <<>> /\ v.entry = e
    BY <1>2, <1>3, FilledFields
  <1>5. q.index[e] # Out => AboveIn(q, e) /\ BelowIn(q, e)
    BY <1>2, OrderedSifts
  <1>6. q' = Compare(v, "adjust", p, q.priority[e])
    BY <1>1
  <1> HIDE DEF v, greater
  <1>7. v.index[e] # Out => AboveIn(v, e) /\ BelowIn(v, e)
    BY <1>4, <1>5, SameLevels DEF AboveIn, BelowIn, Same
  <1>8. Sifts(v, greater)
    BY <1>4, <1>7 DEF Sifts
  <1> QED
    BY <1>2, <1>3, <1>4, <1>6, <1>8, AdjustWaits DEF greater

\* raise and lower compare the new priority.
LEMMA ChangeWaits ==
  ASSUME NEW V \in SUBSET Nat, NEW w \in Queue(V), Fit(w, Full), InOrder(w), w.open = <<>>,
         NEW e \in w.made, NEW p \in V, NEW v, v = Asked(w, e, p)
  PROVE  /\ Orderly(Compare(v, "raise", p, w.priority[e]))
         /\ Orderly(Compare(v, "lower", w.priority[e], p))
  <1>1. e \in Entries /\ w.priority[e] \in V /\ p \in Nat
    BY Queued
  <1>2. /\ v \in Queue(V) /\ Same(w, v) /\ v.open = <<>> /\ v.entry = e
        /\ v.value = <<"priority", p>>
    BY <1>1, AskedFields
  <1>3. ASSUME NEW u, Same(v, u), u.entry = v.entry, u.value = v.value, u.open # <<>>,
               Waits(u, "raise", p, w.priority[e]) \/ Waits(u, "lower", w.priority[e], p)
        PROVE  Orderly(u)
    <2>1. InOrder(u) /\ u.value = <<"priority", p>> /\ u.priority[u.entry] = w.priority[e]
      BY <1>2, <1>3, SameLevels DEF InOrder, Same
    <2> QED
      BY <1>1, <1>3, <2>1 DEF Orderly, Pending
  <1> DEFINE a == Compare(v, "raise", p, w.priority[e])
             b == Compare(v, "lower", w.priority[e], p)
  <1>4. /\ Waits(a, "raise", p, w.priority[e]) /\ Same(v, a) /\ a.open # <<>>
        /\ a.entry = v.entry /\ a.value = v.value
    BY <1>1, <1>2, CompareWaits DEF Runs
  <1>5. /\ Waits(b, "lower", w.priority[e], p) /\ Same(v, b) /\ b.open # <<>>
        /\ b.entry = v.entry /\ b.value = v.value
    BY <1>1, <1>2, CompareWaits DEF Runs
  <1> HIDE DEF a, b
  <1>6. Orderly(a) /\ Orderly(b)
    BY <1>3, <1>4, <1>5
  <1> QED
    BY <1>6 DEF a, b

LEMMA RaiseKeepsOrder ==
  ASSUME OrderInv, PQRaise, disturbed' = "no"
  PROVE  Orderly(q')
  <1>1. PICK e \in q.made, p \in bound.priorities :
          q' = Compare(Asked(q, e, p), "raise", p, q.priority[e])
    BY DEF PQRaise, Asked
  <1>2. /\ q \in Queue(Values) /\ Fit(q, Full) /\ q.open = <<>> /\ InOrder(q)
        /\ Values \in SUBSET Nat /\ p \in Values
    BY CalledInOrder DEF PQRaise
  <1> QED
    BY <1>1, <1>2, ChangeWaits

LEMMA LowerKeepsOrder ==
  ASSUME OrderInv, PQLower, disturbed' = "no"
  PROVE  Orderly(q')
  <1>1. PICK e \in q.made, p \in bound.priorities :
          q' = Compare(Asked(q, e, p), "lower", q.priority[e], p)
    BY DEF PQLower, Asked
  <1>2. /\ q \in Queue(Values) /\ Fit(q, Full) /\ q.open = <<>> /\ InOrder(q)
        /\ Values \in SUBSET Nat /\ p \in Values
    BY CalledInOrder DEF PQLower
  <1> QED
    BY <1>1, <1>2, ChangeWaits

LEMMA RemoveKeepsOrder ==
  ASSUME OrderInv, PQRemove, disturbed' = "no"
  PROVE  Orderly(q')
  <1>1. PICK e \in q.made :
          /\ q.index[e] # Out
          /\ q' = IF q.count = 0 THEN Breaks(q)
                  ELSE Compare(Filled(Removed(q, e), e, q.heap[q.count - 1]), "adjust",
                               q.priority[q.heap[q.count - 1]], q.priority[e])
    BY RemoveIs
  <1>2. /\ q \in Queue(Values) /\ Fit(q, Full) /\ q.open = <<>> /\ InOrder(q)
        /\ Values \in SUBSET Nat
    BY CalledInOrder DEF PQRemove
  <1> DEFINE next == q.heap[q.count - 1]
             i == q.index[e]
             u == Removed(q, e)
             v == Filled(u, e, next)
             greater == q.priority[next] > q.priority[e]
  <1>5. /\ q.count \in Nat /\ i \in 0 .. q.count - 1 /\ Levels(q)[i] = q.priority[e]
        /\ Priorities(Levels(q), q.count) /\ q.count > 0
    BY <1>1, <1>2, LevelsFields DEF Pos
  <1>3. /\ u \in Queue(Values) /\ Fit(u, Full) /\ u.count = q.count - 1 /\ next \in q.made
        /\ i # q.count - 1 => u.heap[i] = next
        /\ next # e => u.index[next] = i
        /\ u.index[e] = Out
        /\ \A j \in Pos(u) \ {i} : u.heap[j] = q.heap[j]
        /\ u.made = q.made /\ u.priority = q.priority /\ u.open = q.open
    BY <1>1, <1>2, <1>5, RemovedFields
  <1>4. /\ next \in Entries /\ e \in Entries
        /\ q.priority[e] \in Values /\ q.priority[next] \in Values
    BY <1>2, <1>3, Queued
  <1>6. q' = Compare(v, "adjust", q.priority[next], q.priority[e])
    BY <1>1, <1>5
  <1>10. i = q.count - 1 <=> next = e
    <2>1. q.heap[i] = e /\ (next \in q.made /\ q.index[next] = q.count - 1)
      BY <1>1, <1>2, <1>5, Queued DEF Pos
    <2> QED
      BY <2>1
  <1> HIDE DEF u, next, i
  <1>7. v \in Queue(Values) /\ Same(u, v) /\ v.open = <<>> /\ v.entry = next
    BY <1>2, <1>3, <1>4, FilledFields
  <1> HIDE DEF v
  <1>8. CASE i = q.count - 1
    <2>1. Sifts(v, greater)
      BY <1>3, <1>7, <1>8, <1>10 DEF Sifts, Same
    <2> QED
      BY <1>2, <1>4, <1>6, <1>7, <2>1, AdjustWaits
  <1>9. CASE i # q.count - 1
    <2>1. /\ u.count \in 0 .. q.count /\ i \in 0 .. u.count - 1
          /\ Pos(u) = 0 .. u.count - 1 /\ \A j \in Pos(u) : j \in Pos(q)
      BY <1>3, <1>5, <1>9 DEF Pos
    <2>2. \A j \in (0 .. u.count - 1) \ {i} : Levels(u)[j] = Levels(q)[j]
      BY <1>3, <2>1 DEF Levels
    <2>3. Levels(u)[i] = q.priority[next] /\ Levels(u)[i] \in Nat
      BY <1>2, <1>3, <1>4, <1>9, <2>1 DEF Levels
    <2>4. /\ Levels(u)[i] >= Levels(q)[i] => Above(Levels(u), u.count, i)
          /\ Levels(u)[i] <= Levels(q)[i] => Below(Levels(u), u.count, i)
      BY <1>2, <1>5, <2>1, <2>2, <2>3, OrderedBut DEF InOrder
    <2>5. q.priority[e] \in Nat /\ q.priority[next] \in Nat
      BY <1>2, <1>4
    <2>6. IF greater THEN AboveIn(u, next) ELSE BelowIn(u, next)
      BY <1>3, <1>5, <1>9, <1>10, <2>3, <2>4, <2>5 DEF AboveIn, BelowIn
    <2> HIDE DEF greater
    <2>7. IF greater THEN AboveIn(v, next) ELSE BelowIn(v, next)
      BY <1>7, <2>6, SameLevels DEF AboveIn, BelowIn, Same
    <2>8. Sifts(v, greater)
      BY <1>7, <2>7 DEF Sifts
    <2> QED
      BY <1>2, <1>4, <1>6, <1>7, <2>8, AdjustWaits DEF greater
  <1> QED
    BY <1>8, <1>9

\* What an open comparison waits for is still so when it has returned.
LEMMA AnsweredReady ==
  ASSUME NEW V \in SUBSET Nat, NEW w \in Queue(V), Fit(w, Full), Held(w), Pending(w),
         NEW i \in DOMAIN w.open, NEW v, v = Answered(w, i),
         NEW greater, greater <=> w.open[i][1] > w.open[i][2], ~ Disturbs(v, greater)
  PROVE  Ready(v, greater) /\ v.open = <<>>
  <1>1. /\ v \in Queue(V) /\ Same(w, v) /\ Len(v.open) = Len(w.open) - 1
        /\ v.run = w.run /\ v.entry = w.entry /\ v.parent = w.parent /\ v.test = w.test
        /\ v.kept = w.kept /\ v.value = w.value
    BY AnsweredFields
  <1>2. Pos(v) = Pos(w) /\ Levels(v) = Levels(w)
    BY <1>1, SameLevels
  <1>3. PICK a, b : w.open = << <<a, b>> >>
    BY DEF Pending, Waits
  <1>4. i = 1 /\ w.open[i] = <<a, b>> /\ Len(w.open) = 1
    BY <1>3
  <1>5. v.open = <<>>
    <2>1. v.open \in Seq(V \X V) /\ Len(v.open) = 0
      BY <1>1, <1>4, StepFields
    <2> QED
      BY <2>1
  <1>6. greater <=> a > b
    BY <1>4
  <1>7. \A x, y : w.open = << <<x, y>> >> => a = x /\ b = y
    BY <1>3
  <1>8. CASE w.run \in {"up", "left", "right"}
    <2>1. /\ w.run = "up" => Rises(v) /\ w.open = << <<w.priority[w.entry], w.priority[w.parent]>> >>
          /\ w.run = "left" =>
               SinksLeft(v) /\ w.open = << <<w.priority[w.test], w.priority[w.entry]>> >>
          /\ w.run = "right" =>
               SinksRight(v) /\ w.open = << <<w.priority[w.test], w.priority[w.parent]>> >>
      BY <1>1, <1>2 DEF Pending, Waits, Same, Rises, SinksLeft, SinksRight, AboveIn, BelowIn
    <2>2. v.priority = w.priority
      BY <1>1 DEF Same
    <2> QED
      BY <1>1, <1>6, <1>7, <1>8, <2>1, <2>2 DEF Ready
  <1>9. CASE w.run = "adjust"
    <2>1. PICK x, y \in Nat : w.open = << <<x, y>> >> /\ Sifts(w, x > y)
      BY <1>9 DEF Pending, Waits
    <2>2. Sifts(w, greater)
      BY <1>6, <1>7, <2>1 DEF Sifts
    <2>3. Sifts(v, greater)
      BY <1>1, <1>2, <2>2 DEF Sifts, AboveIn, BelowIn, Same
    <2> QED
      BY <1>1, <1>5, <1>9, <2>3 DEF Ready
  <1>10. CASE w.run = "keep"
    <2>1. InOrder(w) /\ w.count # 0
      BY <1>10 DEF Pending, Waits
    <2>2. InOrder(v) /\ v.count # 0
      BY <1>1, <1>2, <2>1 DEF InOrder, Same
    <2> QED
      BY <1>1, <1>5, <1>10, <2>2 DEF Ready
  <1>11. CASE w.run \in {"raise", "lower"}
    <2>1. PICK p \in Nat : /\ w.value = <<"priority", p>> /\ InOrder(w)
                           /\ \/ Waits(w, "raise", p, w.priority[w.entry])
                              \/ Waits(w, "lower", w.priority[w.entry], p)
      BY <1>11 DEF Pending, Waits
    <2>2. InOrder(v) /\ PriorityOf(v.value) = p
          /\ v.priority[v.entry] = w.priority[w.entry] /\ w.priority[w.entry] \in Nat
      BY <1>1, <1>2, <1>11, <2>1, LevelsFields DEF InOrder, Same, Held, PriorityOf
    <2>3. greater /\ v.index[v.entry] # Out => PriorityOf(v.value) >= v.priority[v.entry]
      <3> SUFFICES ASSUME greater, v.index[v.entry] # Out
                   PROVE  PriorityOf(v.value) >= v.priority[v.entry]
        OBVIOUS
      <3>1. w.run = "raise"
        BY <1>1, <1>11 DEF Disturbs
      <3>2. w.open = << <<p, w.priority[w.entry]>> >>
        BY <2>1, <3>1 DEF Waits
      <3> QED
        BY <1>6, <1>7, <2>2, <3>2
    <2> QED
      BY <1>1, <1>5, <1>11, <2>2, <2>3 DEF Ready
  <1> QED
    BY <1>5, <1>8, <1>9, <1>10, <1>11 DEF Pending, Waits

LEMMA ReturnKeepsOrder ==
  ASSUME OrderInv, NEW i \in DOMAIN q.open, CompareReturns(i), disturbed' = "no"
  PROVE  Orderly(q')
  <1> DEFINE w == Answered(q, i)
             greater == q.open[i][1] > q.open[i][2]
  <1>0. disturbed = "no" /\ ~ q.broken /\ 0 \notin {q.open[i][1], q.open[i][2]}
    BY DEF CompareReturns
  <1>9. SoundIn(Full) /\ Orderly(q)
    BY <1>0 DEF OrderInv
  <1>1. /\ q \in Queue(Values) /\ Fit(q, Full) /\ Held(q) /\ 0 \in Values /\ Values \in SUBSET Nat
        /\ ~ q.broken
    BY <1>0, <1>9, Callable, ValuesType
  <1>2. /\ \E e \in Allocated(w, greater) : q' = Continued(w, greater, e)
        /\ ~ Disturbs(w, greater)
    BY <1>0 DEF CompareReturns, Answered, Outcomes
  <1>3. PICK e \in Allocated(w, greater) : q' = Continued(w, greater, e)
    BY <1>2
  <1>4. q.open # <<>>
    OBVIOUS
  <1>5. Pending(q)
    BY <1>1, <1>4, <1>9 DEF Orderly
  <1>6. Ready(w, greater) /\ w.open = <<>>
    <2>1. w = Answered(q, i) /\ (greater <=> q.open[i][1] > q.open[i][2])
      OBVIOUS
    <2> HIDE DEF w, greater
    <2> QED
      BY <1>1, <1>2, <1>5, <2>1, AnsweredReady
  <1>7. w \in Queue(Values) /\ Fit(w, Full) /\ Held(w) /\ w.made = q.made
    BY <1>1, AnsweredFields DEF Same
  <1> HIDE DEF w
  <1>8. w.run = "keep" /\ ~ greater => e \in Entries \ w.made
    BY <1>7 DEF Allocated, Fresh
  <1> HIDE DEF greater
  <1> QED
    BY <1>1, <1>3, <1>6, <1>7, <1>8, ContinuedOrder

\* A comparison of keep does not return to an empty queue.
LEMMA NeverRefills ==
  ASSUME OrderInv, disturbed = "no"
  PROVE  ~ Refills
  <1> SUFFICES ASSUME NEW i \in DOMAIN q.open, CompareReturns(i), q.run = "keep", q.count = 0
               PROVE  FALSE
    BY DEF Refills
  <1>1. ~ q.broken /\ q.open # <<>>
    BY DEF CompareReturns
  <1>2. Pending(q)
    BY <1>1 DEF OrderInv, Orderly
  <1> QED
    BY <1>2 DEF Pending, Waits

LEMMA OrderInit == Init => OrderInv
  BY SoundInit, NType DEF Init, OrderInv, Orderly, InOrder, Ordered, N

\* Only a queue that was not disturbed is not disturbed.
LEMMA NotDisturbed ==
  ASSUME [Next]_vars, disturbed' = "no"
  PROVE  disturbed = "no"
  BY DEF vars, Next, Operation, PQInsert, PQEntry, PQNext, PQKeep, PQRequeue, PQAdjust,
         PQRaise, PQLower, PQRemove, Calls, CompareReturns

LEMMA OrderlyNext ==
  ASSUME OrderInv, [Next]_vars, disturbed' = "no"
  PROVE  Orderly(q')
  <1>1. CASE UNCHANGED vars
    BY <1>1 DEF vars, OrderInv
  <1>2. CASE Next
    <2> QED
      BY <1>2, InsertKeepsOrder, EntryKeepsOrder, NextKeepsOrder, KeepKeepsOrder,
         RequeueKeepsOrder, AdjustKeepsOrder, RaiseKeepsOrder, LowerKeepsOrder,
         RemoveKeepsOrder, ReturnKeepsOrder DEF Next, Operation
  <1> QED
    BY <1>1, <1>2, Zenon

LEMMA OrderNext == OrderInv /\ [Next]_vars => OrderInv'
  <1> SUFFICES ASSUME OrderInv, [Next]_vars, disturbed' = "no"
               PROVE  SoundIn(Full)' /\ Orderly(q')
    BY Zenon DEF OrderInv, Orderly, InOrder, Ordered, Levels, Pos, Pending, Waits, Rises, SinksLeft,
           SinksRight, Sifts, AboveIn, BelowIn
  <1>1. disturbed = "no"
    BY NotDisturbed
  <1>2. SoundIn(Full) /\ ~ Refills
    BY <1>1, NeverRefills DEF OrderInv
  <1>3. SoundIn(Full)'
    BY <1>2, SoundNext
  <1> QED
    BY <1>3, OrderlyNext

THEOREM OrderInvariance == Spec => []OrderInv
  <1>1. Init => OrderInv
    BY OrderInit
  <1>2. OrderInv /\ [Next]_vars => OrderInv'
    BY OrderNext
  <1> QED
    BY <1>1, <1>2, PTL DEF Spec

\* Between operations that did not overlap, fail or lower a priority, no entry has
\* a greater one than its parent: next gives the highest.
THEOREM HeapsAreOrdered == Spec => []HeapOrder
  <1>1. OrderInv => HeapOrder
    <2> SUFFICES ASSUME OrderInv, q.open = <<>>, ~ q.broken, disturbed = "no"
                 PROVE  \A i \in Positions \ {0} :
                          q.priority[q.heap[i]] <= q.priority[q.heap[(i - 1) \div 2]]
      BY DEF HeapOrder
    <2>1. InOrder(q) /\ q \in Queue(Values) /\ Fit(q, Full) /\ Values \in SUBSET Nat
      <3>1. SoundIn(Full) /\ InOrder(q)
        BY DEF OrderInv, Orderly
      <3> QED
        BY <3>1, Callable, ValuesType
    <2>2. q.count \in Nat /\ Positions = Pos(q) /\ Pos(q) = 0 .. q.count - 1
      BY <2>1, LevelsFields DEF Positions, Pos
    <2> TAKE i \in Positions \ {0}
    <2>3. ParentIndex(i) \in Pos(q) /\ i \in Pos(q)
      BY <2>2, ParentsArePositions
    <2>4. Levels(q)[i] <= Levels(q)[ParentIndex(i)]
      BY <2>1, <2>2 DEF InOrder, Ordered
    <2> QED
      BY <2>3, <2>4 DEF Levels, ParentIndex
  <1> QED
    BY <1>1, OrderInvariance, PTL
==============================================================================
