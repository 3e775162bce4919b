----------------------------- MODULE TasksProofs -----------------------------
(***************************************************************************)
(* Proofs that states that wait for tasks are neither lost nor continued     *)
(* twice, and that the slots of a task queue are conserved, for any finite   *)
(* set of tasks, any script states, sub tasks and number of slots.          *)
(***************************************************************************)
EXTENDS Tasks, FiniteSetTheorems, SequenceTheorems, TLAPS

\* The places of x in a scheduler's queue s, and in any other sequence.
Idx(s, x) == {i \in 1 .. Len(s) : s[i][1] = x}
PlaceIn(s, x) == {i \in 1 .. Len(s) : s[i] = x}

Entries == States \X Results

TaskRecords ==
  [run : {"unborn", "none", "task", "composed", "all", "any", "list"},
   value : Results \union {Unset}, caller : States \union {None},
   waiters : Seq(States), remaining : Nat,
   handlers : SUBSET {"then", "else", "on"}, subs : Subs \union {<<>>}]

\* What the functions of ml_tasks.c change.
Worlds ==
  [task : [Tasks -> TaskRecords], calls : [Tasks -> SUBSET {"fn", "handler"}],
   sched : Seq(Entries), at : [Procs -> Tasks \union {None}],
   pending : Seq(Tasks), numRunning : Int]

Combined == {"all", "any", "list"}
Runnable == Combined \union {"task", "composed"}

\* How the fields of a task go together.
FitTask(r, called) ==
  /\ r.run = "unborn" =>
       /\ r.value = Unset /\ r.caller = None /\ r.waiters = <<>>
       /\ r.handlers = {} /\ called = {}
  /\ r.run = "composed" => r.handlers # {}
  /\ r.handlers # {} => r.run \in {"composed", "task"}
  /\ r.caller = Queue => r.run = "task" /\ r.handlers = {}
  /\ r.run = "list" => r.caller \in Procs /\ r.waiters = <<>>
  /\ r.caller = None => r.waiters = <<>>
  /\ called # {} => r.run \in {"composed", "task"}

\* Record r has p as its caller or as a waiter.
Holds(r, p) == r.caller = p \/ PlaceIn(r.waiters, p) # {}
HoldsOnce(r, p) ==
  /\ r.caller = p => PlaceIn(r.waiters, p) = {}
  /\ \A i, j \in PlaceIn(r.waiters, p) : i = j

\* Tasks that are named somewhere can be run there.
Sound(w, T) ==
  /\ \A t \in Tasks : FitTask(w.task[t], w.calls[t])
  /\ \A t \in Tasks : PlaceIn(w.task[t].waiters, Queue) = {}
  /\ \A t, y \in Tasks : Holds(w.task[t], y) => w.task[y].run \in Combined
  /\ \A t \in Tasks : Idx(w.sched, t) # {} \/ t \in T => w.task[t].run \in Runnable
  /\ \A t \in Tasks : PlaceIn(w.pending, t) # {} => w.task[t].caller = Queue

\* Only its function gives task t a value: done and timeouts are kept from it.
Sole(w, t) ==
  \/ w.task[t].run = "composed" /\ "composed" \notin External \union Timed
  \/ w.task[t].caller = Queue /\ "queued" \notin External \union Timed

Fresh(w, t) ==
  w.task[t].value = Unset /\ PlaceIn(w.pending, t) = {}

\* Nothing is on its way to t.
Quiet(w, t) == w.calls[t] = {} /\ Idx(w.sched, t) = {}

\* The function is called once, and its value comes once.
Tokens(w, T) ==
  \A t \in Tasks : Sole(w, t) =>
    /\ t \notin T
    /\ w.calls[t] \subseteq {"fn"}
    /\ w.calls[t] # {} => Idx(w.sched, t) = {}
    /\ \A i, j \in Idx(w.sched, t) : i = j
    /\ \A i, j \in PlaceIn(w.pending, t) : i = j
    /\ ~ Quiet(w, t) => Fresh(w, t)
    /\ PlaceIn(w.pending, t) # {} => w.task[t].value = Unset

\* The queued tasks that are running, or whose value is on its way.
Busy(w) == {t \in Tasks : w.task[t].caller = Queue /\ ~ Quiet(w, t)}

\* d slots are about to be given up.
Slots(w, d) ==
  /\ w.numRunning =
       Cardinality(Busy(w)) + Cardinality(Idx(w.sched, Queue)) + d
  /\ w.numRunning <= MaxRunning
  /\ w.pending # <<>> => w.numRunning = MaxRunning

\* Script states are in one place, but for those of P, which execute.
Waits(w, P) ==
  \A p \in Procs :
    /\ \A i, j \in Idx(w.sched, p) : i = j
    /\ \A t \in Tasks : w.task[t].value = Unset /\ Holds(w.task[t], p) =>
         w.at[p] = t /\ HoldsOnce(w.task[t], p) /\ Idx(w.sched, p) = {} /\ p \notin P
    /\ Idx(w.sched, p) # {} => w.at[p] # None /\ p \notin P
    /\ w.at[p] # None => \/ p \in P
                         \/ Idx(w.sched, p) # {}
                         \/ /\ w.task[w.at[p]].value = Unset
                            /\ Holds(w.task[w.at[p]], p)

\* A combination that has its value takes no other.
Ended(w) ==
  \A t \in Tasks :
    /\ w.task[t].run # "all"
    /\ w.task[t].run \in {"any", "list"} /\ w.task[t].value # Unset
         => w.task[t].remaining = 0

NoneLost == "queued" \notin External \union Timed
NoneTwice ==
  /\ \A t \in Tasks : "all" \notin KindsOf[t]
  /\ External \intersect {"composed", "any"} = {}
  /\ "composed" \notin Timed

\* T are the tasks that sleep.
Good(w, T) == w \in Worlds /\ T \in SUBSET Tasks /\ Sound(w, T) /\ Tokens(w, T)
Safe(w, T) ==
  /\ Good(w, T)
  /\ NoneLost => Slots(w, 0)
  /\ NoneTwice => Waits(w, {}) /\ Ended(w)

Inv == Safe(Now, timers)
------------------------------------------------------------------------------
(* Places in sequences.                                                      *)

LEMMA IdxAppend ==
  ASSUME NEW s \in Seq(Entries), NEW e \in Entries
  PROVE  /\ Append(s, e) \in Seq(Entries) /\ Len(Append(s, e)) = Len(s) + 1
         /\ \A i \in 1 .. Len(s) : Append(s, e)[i] = s[i]
         /\ Append(s, e)[Len(s) + 1] = e
         /\ Len(s) + 1 \notin 1 .. Len(s) /\ Len(s) + 1 \in 1 .. Len(s) + 1
         /\ \A x : x # e[1] => Idx(Append(s, e), x) = Idx(s, x)
         /\ Idx(Append(s, e), e[1]) = Idx(s, e[1]) \union {Len(s) + 1}
         /\ Len(s) + 1 \notin Idx(s, e[1])
  <1> DEFINE r == Append(s, e)
  <1>1. /\ r \in Seq(Entries) /\ Len(r) = Len(s) + 1 /\ Len(s) \in Nat
        /\ \A i \in 1 .. Len(s) : r[i] = s[i]
        /\ r[Len(s) + 1] = e
    OBVIOUS
  <1>2. /\ \A i \in 1 .. Len(r) : i \in 1 .. Len(s) \/ i = Len(s) + 1
        /\ \A i \in 1 .. Len(s) : i \in 1 .. Len(r)
        /\ Len(s) + 1 \in 1 .. Len(r) /\ Len(s) + 1 \notin 1 .. Len(s)
    BY <1>1
  <1> HIDE DEF r
  <1>3. \A x : x # e[1] => Idx(r, x) = Idx(s, x)
    BY <1>1, <1>2 DEF Idx
  <1>4. Idx(r, e[1]) = Idx(s, e[1]) \union {Len(s) + 1}
    BY <1>1, <1>2 DEF Idx
  <1>5. Len(s) + 1 \notin Idx(s, e[1])
    BY <1>2 DEF Idx
  <1> QED
    BY <1>1, <1>2, <1>3, <1>4, <1>5 DEF r

LEMMA PlaceAppend ==
  ASSUME NEW S, NEW s \in Seq(S), NEW e \in S
  PROVE  /\ Append(s, e) \in Seq(S) /\ Len(Append(s, e)) = Len(s) + 1
         /\ \A i \in 1 .. Len(s) : Append(s, e)[i] = s[i]
         /\ Append(s, e)[Len(s) + 1] = e
         /\ \A x : x # e => PlaceIn(Append(s, e), x) = PlaceIn(s, x)
         /\ PlaceIn(Append(s, e), e) = PlaceIn(s, e) \union {Len(s) + 1}
  <1> DEFINE r == Append(s, e)
  <1>1. /\ r \in Seq(S) /\ Len(r) = Len(s) + 1 /\ Len(s) \in Nat
        /\ \A i \in 1 .. Len(s) : r[i] = s[i]
        /\ r[Len(s) + 1] = e
    OBVIOUS
  <1>2. /\ \A i \in 1 .. Len(r) : i \in 1 .. Len(s) \/ i = Len(s) + 1
        /\ \A i \in 1 .. Len(s) : i \in 1 .. Len(r)
        /\ Len(s) + 1 \in 1 .. Len(r) /\ Len(s) + 1 \notin 1 .. Len(s)
    BY <1>1
  <1> HIDE DEF r
  <1>3. /\ \A x : x # e => PlaceIn(r, x) = PlaceIn(s, x)
        /\ PlaceIn(r, e) = PlaceIn(s, e) \union {Len(s) + 1}
    BY <1>1, <1>2 DEF PlaceIn
  <1> QED
    BY <1>1, <1>3 DEF r

\* q is s with e in front, as far as places go.
PutFirst(q, s, e) ==
  /\ \A x : x # e => PlaceIn(q, x) = {i + 1 : i \in PlaceIn(s, x)}
  /\ PlaceIn(q, e) = {1} \union {i + 1 : i \in PlaceIn(s, e)}

\* A state that is put in front of those who wait.
LEMMA PlaceFront ==
  ASSUME NEW S, NEW s \in Seq(S), NEW e \in S
  PROVE  /\ <<e>> \o s \in Seq(S) /\ Len(<<e>> \o s) = Len(s) + 1
         /\ (<<e>> \o s)[1] = e
         /\ \A i \in 1 .. Len(<<e>> \o s) : i # 1 =>
              i - 1 \in 1 .. Len(s) /\ (<<e>> \o s)[i] = s[i - 1]
         /\ PutFirst(<<e>> \o s, s, e)
  <1> DEFINE r == <<e>> \o s
  <1>1. /\ r \in Seq(S) /\ Len(r) = Len(s) + 1 /\ Len(s) \in Nat /\ r[1] = e
        /\ \A i \in 1 .. Len(s) : r[i + 1] = s[i]
    OBVIOUS
  <1>2. /\ \A i \in 1 .. Len(r) : i # 1 => i - 1 \in 1 .. Len(s) /\ (i - 1) + 1 = i
        /\ \A i \in 1 .. Len(s) : i + 1 \in 1 .. Len(r) /\ i + 1 # 1
        /\ 1 \in 1 .. Len(r)
    BY <1>1
  <1> HIDE DEF r
  <1>3. \A i \in 1 .. Len(r) : i # 1 => i - 1 \in 1 .. Len(s) /\ r[i] = s[i - 1]
    BY <1>1, <1>2
  <1>4. ASSUME NEW x, x # e
        PROVE  PlaceIn(r, x) = {i + 1 : i \in PlaceIn(s, x)}
    <2>1. ASSUME NEW i \in PlaceIn(r, x) PROVE i \in {j + 1 : j \in PlaceIn(s, x)}
      <3>1. i \in 1 .. Len(r) /\ r[i] = x /\ i # 1
        BY <1>1, <1>4 DEF PlaceIn
      <3>2. i - 1 \in PlaceIn(s, x) /\ (i - 1) + 1 = i
        BY <1>2, <1>3, <3>1 DEF PlaceIn
      <3> QED
        BY <3>2
    <2>2. ASSUME NEW i \in PlaceIn(s, x) PROVE i + 1 \in PlaceIn(r, x)
      BY <1>1, <1>2 DEF PlaceIn
    <2> QED
      BY <2>1, <2>2
  <1>5. PlaceIn(r, e) = {1} \union {i + 1 : i \in PlaceIn(s, e)}
    <2>1. ASSUME NEW i \in PlaceIn(r, e), i # 1
          PROVE  i \in {j + 1 : j \in PlaceIn(s, e)}
      <3>1. i \in 1 .. Len(r) /\ r[i] = e
        BY DEF PlaceIn
      <3>2. i - 1 \in PlaceIn(s, e) /\ (i - 1) + 1 = i
        BY <1>2, <1>3, <2>1, <3>1 DEF PlaceIn
      <3> QED
        BY <3>2
    <2>2. ASSUME NEW i \in PlaceIn(s, e) PROVE i + 1 \in PlaceIn(r, e)
      BY <1>1, <1>2 DEF PlaceIn
    <2>3. 1 \in PlaceIn(r, e)
      BY <1>1, <1>2 DEF PlaceIn
    <2> QED
      BY <2>1, <2>2, <2>3
  <1>6. PutFirst(r, s, e)
    BY <1>4, <1>5 DEF PutFirst
  <1> QED
    BY <1>1, <1>3, <1>6 DEF r

LEMMA IdxTail ==
  ASSUME NEW s \in Seq(Entries), s # <<>>
  PROVE  /\ Tail(s) \in Seq(Entries) /\ Head(s) \in Entries
         /\ Len(Tail(s)) = Len(s) - 1
         /\ 1 \in 1 .. Len(s) /\ s[1] = Head(s)
         /\ \A i \in 1 .. Len(Tail(s)) :
              i + 1 \in 1 .. Len(s) /\ Tail(s)[i] = s[i + 1]
         /\ \A x : \A i \in Idx(Tail(s), x) : i + 1 \in Idx(s, x) /\ i \in Nat
         /\ \A x : \A i \in Idx(s, x) : i = 1 \/ i - 1 \in Idx(Tail(s), x)
         /\ \A x : x # Head(s)[1] => 1 \notin Idx(s, x)
         /\ 1 \in Idx(s, Head(s)[1])
  <1> DEFINE r == Tail(s)
  <1>1. /\ r \in Seq(Entries) /\ Len(r) = Len(s) - 1 /\ Len(s) \in Nat \ {0}
        /\ \A i \in 1 .. Len(r) : r[i] = s[i + 1]
        /\ s[1] = Head(s) /\ s[1] \in Entries
    OBVIOUS
  <1>2. /\ \A i \in 1 .. Len(r) : i + 1 \in 1 .. Len(s) /\ i \in Nat
        /\ \A i \in 1 .. Len(s) : i = 1 \/ (i - 1 \in 1 .. Len(r) /\ (i - 1) + 1 = i)
        /\ 1 \in 1 .. Len(s)
    BY <1>1
  <1> HIDE DEF r
  <1>3. \A x : \A i \in Idx(r, x) : i + 1 \in Idx(s, x) /\ i \in Nat
    BY <1>1, <1>2 DEF Idx
  <1>4. \A x : \A i \in Idx(s, x) : i = 1 \/ i - 1 \in Idx(r, x)
    BY <1>1, <1>2 DEF Idx
  <1>5. (\A x : x # Head(s)[1] => 1 \notin Idx(s, x)) /\ 1 \in Idx(s, Head(s)[1])
    BY <1>1, <1>2 DEF Idx
  <1> QED
    BY <1>1, <1>2, <1>3, <1>4, <1>5 DEF r

LEMMA PlaceTail ==
  ASSUME NEW S, NEW s \in Seq(S), s # <<>>
  PROVE  /\ Tail(s) \in Seq(S) /\ Head(s) \in S /\ 1 \in 1 .. Len(s)
         /\ Len(Tail(s)) = Len(s) - 1 /\ s[1] = Head(s)
         /\ \A i \in 1 .. Len(Tail(s)) :
              i + 1 \in 1 .. Len(s) /\ Tail(s)[i] = s[i + 1]
         /\ \A x : \A i \in PlaceIn(Tail(s), x) : i + 1 \in PlaceIn(s, x) /\ i \in Nat
         /\ 1 \in PlaceIn(s, Head(s))
  <1> DEFINE r == Tail(s)
  <1>1. /\ r \in Seq(S) /\ Len(r) = Len(s) - 1 /\ Len(s) \in Nat \ {0}
        /\ \A i \in 1 .. Len(r) : r[i] = s[i + 1]
        /\ s[1] = Head(s) /\ s[1] \in S
    OBVIOUS
  <1>2. /\ \A i \in 1 .. Len(r) : i + 1 \in 1 .. Len(s) /\ i \in Nat
        /\ 1 \in 1 .. Len(s)
    BY <1>1
  <1> HIDE DEF r
  <1>3. \A x : \A i \in PlaceIn(r, x) : i + 1 \in PlaceIn(s, x) /\ i \in Nat
    BY <1>1, <1>2 DEF PlaceIn
  <1>4. 1 \in PlaceIn(s, Head(s))
    BY <1>1, <1>2 DEF PlaceIn
  <1> QED
    BY <1>1, <1>2, <1>3, <1>4 DEF r
------------------------------------------------------------------------------
(* The loop of CallAll is a recursive function.                              *)

\* A set of numbers has a least element.
LEMMA LeastNatural ==
  ASSUME NEW B, NEW n \in Nat, n \in B
  PROVE  \E m \in Nat : m \in B /\ \A k \in Nat : k < m => k \notin B
  <1> DEFINE D == {k \in 0 .. n : \A j \in 0 .. k : j \notin B}
             c == Cardinality(D)
  <1>1. IsFiniteSet(D) /\ c \in Nat
    <2>1. D \in SUBSET (0 .. n) /\ IsFiniteSet(0 .. n)
      BY FS_Interval
    <2> QED
      BY <2>1, FS_Subset, FS_CardinalityType
  <1>2. ASSUME NEW k \in D PROVE k \in 0 .. c - 1
    <2>1. k \in Nat /\ 0 .. k \in SUBSET D
      OBVIOUS
    <2>2. Cardinality(0 .. k) = k + 1
      BY <2>1, FS_Interval
    <2>3. Cardinality(0 .. k) <= c
      BY <1>1, <2>1, FS_Subset
    <2> QED
      BY <1>1, <2>1, <2>2, <2>3
  <1>3. D = 0 .. c - 1
    <2>1. IsFiniteSet(0 .. c - 1) /\ Cardinality(0 .. c - 1) = c
      <3> HIDE DEF c
      <3> QED
        BY <1>1, FS_Interval
    <2>2. D \in SUBSET (0 .. c - 1)
      BY <1>2
    <2> HIDE DEF D
    <2> QED
      BY <2>1, <2>2, FS_Subset
  <1>4. \A k \in Nat : k < c => k \notin B
    <2> SUFFICES ASSUME NEW k \in Nat, k < c PROVE k \notin B
      OBVIOUS
    <2>1. k \in 0 .. c - 1
      BY <1>1
    <2>2. k \in D
      BY <1>3, <2>1
    <2> QED
      BY <2>2
  <1>5. c <= n
    BY <1>1, <1>4
  <1>6. c \in B
    <2> SUFFICES ASSUME c \notin B PROVE FALSE
      OBVIOUS
    <2>1. \A j \in 0 .. c : j \notin B
      BY <1>1, <1>4
    <2>2. c \in D
      BY <1>1, <1>5, <2>1
    <2> QED
      BY <1>1, <1>2, <2>2
  <1> QED
    BY <1>1, <1>4, <1>6

\* What every call of a sub task keeps, CallAll keeps.
LEMMA CallAllStays ==
  ASSUME NEW G, NEW w \in G, NEW t \in Tasks, NEW k \in Nat,
         w.task[t].subs \in Seq(Tasks),
         \A x \in G : \A i \in 1 .. Len(w.task[t].subs) :
           CallTask(x, t, w.task[t].subs[i], i > k) \in G
  PROVE  CallAll(w, t, k) \in G
  <1> DEFINE subs == w.task[t].subs
             n == Len(subs)
             Call(x, i) == CallTask(x, t, subs[i], i > k)
             Runs(f, j) == f[0] = w /\ \A i \in 1 .. j : f[i] = Call(f[i - 1], i)
  <1>1. n \in Nat
    OBVIOUS
  <1>2. \A x \in G : \A i \in 1 .. n : Call(x, i) \in G
    OBVIOUS
  <1>3. CallAll(w, t, k) =
          (CHOOSE after : after = [i \in 0 .. n |->
             IF i = 0 THEN w ELSE Call(after[i - 1], i)])[n]
    BY DEF CallAll
  <1> HIDE DEF n, Call
  <1>4. ASSUME NEW j \in 0 .. n PROVE \E f \in [0 .. j -> G] : Runs(f, j)
    <2> DEFINE B == {m \in 0 .. n : ~ \E f \in [0 .. m -> G] : Runs(f, m)}
    <2> SUFFICES ASSUME j \in B PROVE FALSE
      OBVIOUS
    <2>1. PICK m \in Nat : m \in B /\ \A l \in Nat : l < m => l \notin B
      <3> HIDE DEF B
      <3> QED
        BY LeastNatural
    <2>2. CASE m = 0
      <3> DEFINE f == [i \in 0 .. 0 |-> w]
      <3>1. f \in [0 .. m -> G] /\ Runs(f, m)
        BY <2>2
      <3> QED
        BY <2>1, <3>1
    <2>3. CASE m # 0
      <3>1. m - 1 \in Nat /\ m - 1 \in 0 .. n /\ m - 1 < m /\ m \in 1 .. n
        BY <1>1, <2>1, <2>3
      <3>2. PICK f \in [0 .. m - 1 -> G] : Runs(f, m - 1)
        BY <2>1, <3>1
      <3> DEFINE g == [i \in 0 .. m |-> IF i = m THEN Call(f[m - 1], m) ELSE f[i]]
      <3>3. f[m - 1] \in G /\ Call(f[m - 1], m) \in G
        BY <1>2, <3>1
      <3>4. g \in [0 .. m -> G]
        BY <3>1, <3>3
      <3>5. g[0] = w
        BY <2>3, <3>1, <3>2
      <3>6. ASSUME NEW i \in 1 .. m PROVE g[i] = Call(g[i - 1], i)
        <4>1. i - 1 \in 0 .. m /\ i - 1 # m /\ i \in 0 .. m
          BY <3>1
        <4>2. g[i - 1] = f[i - 1]
          BY <4>1
        <4>3. CASE i = m
          BY <4>1, <4>2, <4>3
        <4>4. CASE i # m
          <5>1. i \in 1 .. m - 1
            BY <3>1, <4>4
          <5>2. f[i] = Call(f[i - 1], i)
            BY <3>2, <5>1
          <5> QED
            BY <4>1, <4>2, <4>4, <5>2
        <4> QED
          BY <4>3, <4>4
      <3> HIDE DEF g
      <3> QED
        BY <2>1, <3>4, <3>5, <3>6
    <2> QED
      BY <2>2, <2>3
  <1>5. PICK f \in [0 .. n -> G] : Runs(f, n)
    <2>1. n \in 0 .. n
      BY <1>1
    <2> HIDE DEF Runs
    <2> QED
      BY <1>4, <2>1
  <1>6. f = [i \in 0 .. n |-> IF i = 0 THEN w ELSE Call(f[i - 1], i)]
    <2>1. ASSUME NEW i \in 0 .. n PROVE f[i] = IF i = 0 THEN w ELSE Call(f[i - 1], i)
      <3>1. i = 0 \/ i \in 1 .. n
        BY <1>1
      <3> QED
        BY <1>5, <3>1
    <2> QED
      BY <2>1
  <1> DEFINE after == CHOOSE h : h = [i \in 0 .. n |->
                        IF i = 0 THEN w ELSE Call(h[i - 1], i)]
  <1>7. after = [i \in 0 .. n |-> IF i = 0 THEN w ELSE Call(after[i - 1], i)]
    BY <1>6
  <1>8. CallAll(w, t, k) = after[n]
    BY <1>3
  <1> HIDE DEF after
  <1>9. ASSUME NEW i \in 0 .. n PROVE after[i] = f[i]
    <2> DEFINE B == {m \in 0 .. n : after[m] # f[m]}
    <2> SUFFICES ASSUME i \in B PROVE FALSE
      OBVIOUS
    <2>1. PICK m \in Nat : m \in B /\ \A l \in Nat : l < m => l \notin B
      <3> HIDE DEF B
      <3> QED
        BY LeastNatural
    <2>2. CASE m = 0
      <3>1. after[0] = w
        BY <1>1, <1>7
      <3> QED
        BY <1>5, <2>1, <2>2, <3>1
    <2>3. CASE m # 0
      <3>1. m - 1 \in Nat /\ m - 1 \in 0 .. n /\ m - 1 < m /\ m \in 1 .. n
        BY <1>1, <2>1, <2>3
      <3>2. after[m - 1] = f[m - 1]
        BY <2>1, <3>1
      <3>3. after[m] = Call(after[m - 1], m)
        BY <1>7, <2>1, <2>3
      <3>4. f[m] = Call(f[m - 1], m)
        BY <1>5, <3>1
      <3> QED
        BY <2>1, <3>2, <3>3, <3>4
    <2> QED
      BY <2>2, <2>3
  <1> QED
    BY <1>1, <1>8, <1>9
------------------------------------------------------------------------------
(* Counting.                                                                 *)

LEMMA IdxFinite ==
  ASSUME NEW s \in Seq(Entries), NEW x
  PROVE  IsFiniteSet(Idx(s, x)) /\ Cardinality(Idx(s, x)) \in Nat
  <1>1. IsFiniteSet(1 .. Len(s))
    BY FS_Interval
  <1>2. Idx(s, x) \in SUBSET (1 .. Len(s))
    BY DEF Idx
  <1> QED
    BY <1>1, <1>2, FS_Subset, FS_CardinalityType

LEMMA CountAppend ==
  ASSUME NEW s \in Seq(Entries), NEW e \in Entries, NEW x
  PROVE  Cardinality(Idx(Append(s, e), x)) =
           Cardinality(Idx(s, x)) + IF e[1] = x THEN 1 ELSE 0
  <1>1. CASE e[1] = x
    <2>1. Idx(Append(s, e), x) = Idx(s, x) \union {Len(s) + 1}
          /\ Len(s) + 1 \notin Idx(s, x)
      BY <1>1, IdxAppend
    <2>2. IsFiniteSet(Idx(s, x))
      BY IdxFinite
    <2>3. Cardinality(Idx(s, x) \union {Len(s) + 1}) = Cardinality(Idx(s, x)) + 1
      BY <2>1, <2>2, FS_AddElement
    <2> QED
      BY <1>1, <2>1, <2>3
  <1>2. CASE e[1] # x
    <2>1. Idx(Append(s, e), x) = Idx(s, x)
      BY <1>2, IdxAppend
    <2>2. Cardinality(Idx(s, x)) \in Nat
      BY IdxFinite
    <2> QED
      BY <1>2, <2>1, <2>2
  <1> QED
    BY <1>1, <1>2

LEMMA CountTail ==
  ASSUME NEW s \in Seq(Entries), s # <<>>, NEW x
  PROVE  Cardinality(Idx(s, x)) =
           Cardinality(Idx(Tail(s), x)) + IF Head(s)[1] = x THEN 1 ELSE 0
  <1> DEFINE S == Idx(Tail(s), x)
             T == Idx(s, x) \ {1}
             f == [i \in S |-> i + 1]
  <1>1. Tail(s) \in Seq(Entries)
    BY IdxTail
  <1>2. IsFiniteSet(S) /\ Cardinality(S) \in Nat
    BY <1>1, IdxFinite
  <1>3. \A i \in S : i + 1 \in Idx(s, x) /\ i \in Nat /\ i # 0
    <2>1. \A i \in S : i \in 1 .. Len(Tail(s))
      BY DEF Idx
    <2> QED
      BY <2>1, IdxTail
  <1>4. \A i \in T : i - 1 \in S /\ i \in Int
    <2>1. \A i \in T : i \in 1 .. Len(s)
      BY DEF Idx
    <2> QED
      BY <2>1, IdxTail
  <1> HIDE DEF S
  <1>5. f \in [S -> T]
    BY <1>3
  <1>6. f \in Bijection(S, T)
    <2>1. \A i, j \in S : f[i] = f[j] => i = j
      BY <1>3
    <2>2. \A j \in T : \E i \in S : f[i] = j
      <3> SUFFICES ASSUME NEW j \in T PROVE \E i \in S : f[i] = j
        OBVIOUS
      <3>1. j - 1 \in S /\ f[j - 1] = j
        BY <1>4
      <3> QED
        BY <3>1
    <2> HIDE DEF f, T
    <2> QED
      BY <1>5, <2>1, <2>2 DEF Bijection, Injection, Surjection, IsInjective
  <1>7. Cardinality(T) = Cardinality(S)
    <2>1. ExistsBijection(S, T)
      BY <1>6 DEF ExistsBijection
    <2> QED
      BY <1>2, <2>1, FS_Bijection
  <1>8. IsFiniteSet(Idx(s, x)) /\ Cardinality(Idx(s, x)) \in Nat
    BY IdxFinite
  <1>9. Cardinality(T) = IF 1 \in Idx(s, x) THEN Cardinality(Idx(s, x)) - 1
                         ELSE Cardinality(Idx(s, x))
    BY <1>8, FS_RemoveElement
  <1>10. 1 \in Idx(s, x) <=> Head(s)[1] = x
    BY IdxTail
  <1> QED
    BY <1>2, <1>7, <1>8, <1>9, <1>10 DEF S
------------------------------------------------------------------------------
(* What each elementary step changes.                                        *)

\* Task t may be run: if it is Sole, what was on its way to it has arrived.
Arrived(w, t) == Sole(w, t) => Quiet(w, t) /\ Fresh(w, t)
Ready(w, t) == w.task[t].run \in Runnable /\ Arrived(w, t)

\* The slot that t is about to give up.
Due(w, t) == IF w.task[t].caller = Queue THEN 1 ELSE 0

\* x is w but for task t, whose record becomes r.
OnlyTask(x, w, t, r) ==
  \A y \in Tasks : x.task[y] = IF y = t THEN r ELSE w.task[y]

LEMMA WorldType ==
  ASSUME NEW w \in Worlds
  PROVE  /\ w.task \in [Tasks -> TaskRecords]
         /\ w.calls \in [Tasks -> SUBSET {"fn", "handler"}]
         /\ w.sched \in Seq(Entries) /\ w.at \in [Procs -> Tasks \union {None}]
         /\ w.pending \in Seq(Tasks) /\ w.numRunning \in Int
  BY DEF Worlds

LEMMA TaskType ==
  ASSUME NEW w \in Worlds, NEW t \in Tasks
  PROVE  LET r == w.task[t] IN
         /\ r \in TaskRecords
         /\ r.run \in {"unborn", "none", "task", "composed", "all", "any", "list"}
         /\ r.value \in Results \union {Unset} /\ r.caller \in States \union {None}
         /\ r.waiters \in Seq(States) /\ r.remaining \in Nat
         /\ r.handlers \in SUBSET {"then", "else", "on"}
         /\ r.subs \in Subs \union {<<>>}
  <1>1. w.task[t] \in TaskRecords
    BY WorldType
  <1> QED
    BY <1>1 DEF TaskRecords

\* r is s and an entry for state y.
Appended(r, s, y) ==
  /\ Len(r) = Len(s) + 1 /\ Len(s) \in Nat
  /\ \A i \in 1 .. Len(s) : r[i] = s[i]
  /\ r[Len(s) + 1][1] = y
  /\ \A z : z # y => Idx(r, z) = Idx(s, z)
  /\ Idx(r, y) = Idx(s, y) \union {Len(s) + 1} /\ Len(s) + 1 \notin Idx(s, y)

LEMMA AppendEntry ==
  ASSUME NEW s \in Seq(Entries), NEW e \in Entries
  PROVE  Appended(Append(s, e), s, e[1])
  <1>1. Len(s) \in Nat
    OBVIOUS
  <1>2. Append(s, e)[Len(s) + 1][1] = e[1]
    BY IdxAppend
  <1> QED
    BY <1>1, <1>2, IdxAppend DEF Appended

LEMMA ScheduleIs ==
  ASSUME NEW w \in Worlds, NEW s \in States, NEW v \in Results
  PROVE  LET x == Schedule(w, s, v) IN
         /\ x \in Worlds /\ <<s, v>> \in Entries
         /\ x.sched = Append(w.sched, <<s, v>>) /\ w.sched \in Seq(Entries)
         /\ Appended(x.sched, w.sched, s)
         /\ x.task = w.task /\ x.calls = w.calls /\ x.at = w.at
         /\ x.pending = w.pending /\ x.numRunning = w.numRunning
  <1> DEFINE x == Schedule(w, s, v)
  <1>1. <<s, v>> \in Entries
    BY DEF Entries
  <1>2. Append(w.sched, <<s, v>>) \in Seq(Entries)
    BY <1>1, WorldType, IdxAppend
  <1>3. Appended(Append(w.sched, <<s, v>>), w.sched, <<s, v>>[1])
    BY <1>1, WorldType, AppendEntry
  <1>4. Appended(Append(w.sched, <<s, v>>), w.sched, s)
    BY <1>3
  <1> QED
    BY <1>1, <1>2, <1>4 DEF Schedule, Worlds

LEMMA WithTask ==
  ASSUME NEW w \in Worlds, NEW t \in Tasks, NEW r \in TaskRecords
  PROVE  LET x == [w EXCEPT !.task[t] = r] IN
         /\ x \in Worlds /\ OnlyTask(x, w, t, r)
         /\ x.sched = w.sched /\ x.calls = w.calls /\ x.at = w.at
         /\ x.pending = w.pending /\ x.numRunning = w.numRunning
  BY DEF Worlds, OnlyTask

SetCalls(w, t, c) == [w EXCEPT !.calls[t] = c]

LEMMA WithCalls ==
  ASSUME NEW w \in Worlds, NEW t \in Tasks, NEW c \in SUBSET {"fn", "handler"}
  PROVE  LET x == SetCalls(w, t, c) IN
         /\ x \in Worlds
         /\ \A y \in Tasks : x.calls[y] = IF y = t THEN c ELSE w.calls[y]
         /\ x.sched = w.sched /\ x.task = w.task /\ x.at = w.at
         /\ x.pending = w.pending /\ x.numRunning = w.numRunning
  BY DEF Worlds, SetCalls

SetAt(w, p, a) == [w EXCEPT !.at[p] = a]
SetValue(w, t, v) == [w EXCEPT !.task[t].value = v]
SetLeft(w, t, n) == [w EXCEPT !.task[t].remaining = n]
CallHandler(w, t) ==
  [w EXCEPT !.task[t].run = "task", !.calls[t] = @ \union {"handler"}]

LEMMA WithAt ==
  ASSUME NEW w \in Worlds, NEW p \in Procs, NEW a \in Tasks \union {None}
  PROVE  LET x == SetAt(w, p, a) IN
         /\ x \in Worlds
         /\ \A q \in Procs : x.at[q] = IF q = p THEN a ELSE w.at[q]
         /\ x.sched = w.sched /\ x.task = w.task /\ x.calls = w.calls
         /\ x.pending = w.pending /\ x.numRunning = w.numRunning
  BY DEF Worlds, SetAt

\* x is w with s among those who wait for task t.
Awaited(x, w, s, t) ==
  LET o == w.task[t]
      r == x.task[t]
  IN  /\ x \in Worlds /\ OnlyTask(x, w, t, r)
      /\ r.run = o.run /\ r.value = o.value /\ r.remaining = o.remaining
      /\ r.handlers = o.handlers /\ r.subs = o.subs
      /\ o.caller = None => r.caller = s /\ r.waiters = o.waiters
      /\ o.caller # None => r.caller = o.caller /\ r.waiters = <<s>> \o o.waiters
      /\ x.sched = w.sched /\ x.calls = w.calls /\ x.at = w.at
      /\ x.pending = w.pending /\ x.numRunning = w.numRunning

LEMMA AwaitIs ==
  ASSUME NEW w \in Worlds, NEW s \in States, NEW t \in Tasks
  PROVE  Awaited(Await(w, s, t), w, s, t)
  <1> DEFINE o == w.task[t]
             a == [o EXCEPT !.caller = s]
             b == [o EXCEPT !.waiters = <<s>> \o @]
  <1>1. o \in TaskRecords /\ o.waiters \in Seq(States)
    BY TaskType
  <1>2. <<s>> \o o.waiters \in Seq(States)
    BY <1>1, PlaceFront
  <1>3. a \in TaskRecords /\ b \in TaskRecords
    BY <1>1, <1>2 DEF TaskRecords
  <1>4. CASE o.caller = None
    <2>1. Await(w, s, t) = [w EXCEPT !.task[t] = a]
      BY <1>4 DEF Await
    <2>2. /\ a.run = o.run /\ a.value = o.value /\ a.remaining = o.remaining
          /\ a.handlers = o.handlers /\ a.subs = o.subs
          /\ a.caller = s /\ a.waiters = o.waiters
      BY <1>1 DEF TaskRecords
    <2> DEFINE x == Await(w, s, t)
    <2> HIDE DEF o, a, b
    <2>3. /\ x \in Worlds /\ OnlyTask(x, w, t, a)
          /\ x.sched = w.sched /\ x.calls = w.calls /\ x.at = w.at
          /\ x.pending = w.pending /\ x.numRunning = w.numRunning
      BY <1>3, <2>1, WithTask
    <2>4. x.task[t] = a
      BY <2>3 DEF OnlyTask
    <2> HIDE DEF x
    <2>5. Awaited(x, w, s, t)
      BY <1>4, <2>2, <2>3, <2>4 DEF o, Awaited
    <2> QED
      BY <2>5 DEF x
  <1>5. CASE o.caller # None
    <2>1. Await(w, s, t) = [w EXCEPT !.task[t] = b]
      BY <1>5 DEF Await
    <2>2. /\ b.run = o.run /\ b.value = o.value /\ b.remaining = o.remaining
          /\ b.handlers = o.handlers /\ b.subs = o.subs
          /\ b.caller = o.caller /\ b.waiters = <<s>> \o o.waiters
      BY <1>1 DEF TaskRecords
    <2> DEFINE x == Await(w, s, t)
    <2> HIDE DEF o, a, b
    <2>3. /\ x \in Worlds /\ OnlyTask(x, w, t, b)
          /\ x.sched = w.sched /\ x.calls = w.calls /\ x.at = w.at
          /\ x.pending = w.pending /\ x.numRunning = w.numRunning
      BY <1>3, <2>1, WithTask
    <2>4. x.task[t] = b
      BY <2>3 DEF OnlyTask
    <2> HIDE DEF x
    <2>5. Awaited(x, w, s, t)
      BY <1>5, <2>2, <2>3, <2>4 DEF o, Awaited
    <2> QED
      BY <2>5 DEF x
  <1> QED
    BY <1>4, <1>5

\* Everybody who waits for a task, in the order in which they are scheduled.
AllOf(r) == IF r.caller = None THEN <<>> ELSE Append(r.waiters, r.caller)

LEMMA AllOfIs ==
  ASSUME NEW w \in Worlds, NEW t \in Tasks, NEW T, Sound(w, T)
  PROVE  LET r == w.task[t] IN
         /\ AllOf(r) \in Seq(States)
         /\ \A k \in 1 .. Len(AllOf(r)) : Holds(r, AllOf(r)[k])
         /\ \A y \in States : ~ Holds(r, y) => PlaceIn(AllOf(r), y) = {}
         /\ \A y \in States : Holds(r, y) /\ HoldsOnce(r, y) =>
              \E k \in 1 .. Len(AllOf(r)) : PlaceIn(AllOf(r), y) = {k}
  <1> DEFINE r == w.task[t]
             a == AllOf(r)
  <1>1. r \in TaskRecords /\ r.waiters \in Seq(States) /\ r.caller \in States \union {None}
    BY TaskType
  <1>2. r.caller = None => r.waiters = <<>>
    BY DEF Sound, FitTask
  <1>3. None \notin States
    BY TasksAssumption DEF States
  <1>4. CASE r.caller = None
    <2>1. a = <<>> /\ Len(a) = 0 /\ \A y : PlaceIn(a, y) = {}
      BY <1>4 DEF AllOf, PlaceIn
    <2>2. \A y \in States : ~ Holds(r, y)
      BY <1>2, <1>3, <1>4 DEF Holds, PlaceIn
    <2> QED
      BY <2>1, <2>2
  <1>5. CASE r.caller # None
    <2> DEFINE n == Len(r.waiters)
    <2>1. r.caller \in States /\ a = Append(r.waiters, r.caller) /\ n \in Nat
      <3>1. a = Append(r.waiters, r.caller)
        BY <1>5 DEF AllOf
      <3> HIDE DEF a, r
      <3> QED
        BY <1>1, <1>5, <3>1
    <2>2. /\ a \in Seq(States) /\ Len(a) = n + 1
          /\ \A i \in 1 .. n : a[i] = r.waiters[i]
          /\ a[n + 1] = r.caller
          /\ \A y : y # r.caller => PlaceIn(a, y) = PlaceIn(r.waiters, y)
          /\ PlaceIn(a, r.caller) = PlaceIn(r.waiters, r.caller) \union {n + 1}
      BY <1>1, <2>1, PlaceAppend
    <2> HIDE DEF a, r
    <2>3. ASSUME NEW k \in 1 .. Len(a) PROVE Holds(r, a[k])
      <3>1. k \in 1 .. n \/ k = n + 1
        BY <2>1, <2>2
      <3>2. k \in 1 .. n => k \in PlaceIn(r.waiters, a[k])
        BY <2>2 DEF PlaceIn
      <3> QED
        BY <2>2, <3>1, <3>2 DEF Holds
    <2>4. \A y \in States : ~ Holds(r, y) => PlaceIn(a, y) = {}
      BY <2>2 DEF Holds
    <2>5. ASSUME NEW y \in States, Holds(r, y), HoldsOnce(r, y)
          PROVE  \E k \in 1 .. Len(a) : PlaceIn(a, y) = {k}
      <3>1. CASE y = r.caller
        <4>1. PlaceIn(a, y) = {n + 1} /\ n + 1 \in 1 .. Len(a)
          BY <2>1, <2>2, <2>5, <3>1 DEF HoldsOnce
        <4> QED
          BY <4>1
      <3>2. CASE y # r.caller
        <4>1. PICK k \in PlaceIn(r.waiters, y) : TRUE
          BY <2>5, <3>2 DEF Holds
        <4>2. PlaceIn(a, y) = {k}
          BY <2>2, <2>5, <3>2, <4>1 DEF HoldsOnce
        <4>3. k \in 1 .. Len(a)
          BY <2>1, <2>2, <4>1 DEF PlaceIn
        <4> QED
          BY <4>2, <4>3
      <3> QED
        BY <3>1, <3>2
    <2> QED
      BY <2>2, <2>3, <2>4, <2>5 DEF a, r
  <1> QED
    BY <1>4, <1>5

LEMMA ConcatIs ==
  ASSUME NEW S, NEW s \in Seq(S), NEW b \in Seq(S)
  PROVE  /\ s \o b \in Seq(S) /\ Len(s \o b) = Len(s) + Len(b)
         /\ \A i \in 1 .. Len(s) : (s \o b)[i] = s[i]
         /\ \A i \in 1 .. Len(b) : (s \o b)[Len(s) + i] = b[i]
  OBVIOUS

\* The entries that SetTask puts into the scheduler's queue.
EntriesOf(a, v) == [i \in 1 .. Len(a) |-> <<a[i], v>>]

LEMMA EntriesOfIs ==
  ASSUME NEW a \in Seq(States), NEW v \in Results
  PROVE  /\ EntriesOf(a, v) \in Seq(Entries) /\ Len(EntriesOf(a, v)) = Len(a)
         /\ \A i \in 1 .. Len(a) : EntriesOf(a, v)[i] = <<a[i], v>>
  <1>1. Len(a) \in Nat /\ \A i \in 1 .. Len(a) : <<a[i], v>> \in Entries
    BY DEF Entries
  <1> QED
    BY <1>1 DEF EntriesOf

\* r is s and an entry for everybody of a.
Extends(r, s, a) ==
  /\ \A y : PlaceIn(a, y) = {} => Idx(r, y) = Idx(s, y)
  /\ \A y : \A k \in 1 .. Len(a) : PlaceIn(a, y) = {k} =>
       Idx(r, y) = Idx(s, y) \union {Len(s) + k} /\ Len(s) + k \notin Idx(s, y)

\* The scheduler's queue after everybody of a was put into it.
LEMMA IdxConcat ==
  ASSUME NEW s \in Seq(Entries), NEW a \in Seq(States), NEW v \in Results
  PROVE  /\ s \o EntriesOf(a, v) \in Seq(Entries)
         /\ Extends(s \o EntriesOf(a, v), s, a)
  <1> DEFINE b == EntriesOf(a, v)
             r == s \o b
             n == Len(s)
             m == Len(a)
  <1>1. n \in Nat /\ m \in Nat
    OBVIOUS
  <1>2. b \in Seq(Entries) /\ Len(b) = m /\ \A i \in 1 .. m : b[i] = <<a[i], v>>
    BY EntriesOfIs
  <1> HIDE DEF b
  <1>3. /\ r \in Seq(Entries) /\ Len(r) = n + m
        /\ \A i \in 1 .. n : r[i] = s[i]
        /\ \A i \in 1 .. m : r[n + i] = b[i]
    <2>1. b \in Seq(Entries) /\ Len(b) = m
      BY <1>2
    <2>2. /\ s \o b \in Seq(Entries) /\ Len(s \o b) = Len(s) + Len(b)
          /\ \A i \in 1 .. Len(s) : (s \o b)[i] = s[i]
          /\ \A i \in 1 .. Len(b) : (s \o b)[Len(s) + i] = b[i]
      <3>1. b \in Seq(Entries)
        BY <2>1
      <3> QED
        BY ONLY s \in Seq(Entries), <3>1, ConcatIs
    <2> QED
      BY <2>1, <2>2
  <1>4. \A i \in 1 .. m : r[n + i][1] = a[i]
    BY <1>2, <1>3
  <1>5. \A i \in 1 .. Len(r) :
          i \in 1 .. n \/ (i - n \in 1 .. m /\ n + (i - n) = i)
    BY <1>1, <1>3
  <1>6. \A i \in 1 .. m : n + i \in 1 .. Len(r) /\ n + i \notin 1 .. n
    BY <1>1, <1>3
  <1>7. \A i \in 1 .. n : i \in 1 .. Len(r)
    BY <1>1, <1>3
  <1> HIDE DEF r, n, m
  <1>8. \A i \in 1 .. Len(r) : i \in 1 .. n \/ (i - n \in 1 .. m /\ r[i][1] = a[i - n])
    BY <1>4, <1>5
  <1>9. ASSUME NEW y, PlaceIn(a, y) = {} PROVE Idx(r, y) = Idx(s, y)
    <2>1. \A i \in 1 .. m : a[i] # y
      BY <1>9 DEF PlaceIn, m
    <2> QED
      BY <1>3, <1>7, <1>8, <2>1 DEF Idx, n
  <1>10. ASSUME NEW y, NEW k \in 1 .. m, PlaceIn(a, y) = {k}
         PROVE  Idx(r, y) = Idx(s, y) \union {n + k} /\ n + k \notin Idx(s, y)
    <2>1. a[k] = y /\ \A i \in 1 .. m : a[i] = y => i = k
      BY <1>10 DEF PlaceIn, m
    <2>2. n + k \in Idx(r, y) /\ n + k \notin Idx(s, y)
      BY <1>4, <1>6, <2>1 DEF Idx, n
    <2>3. ASSUME NEW i \in Idx(r, y) PROVE i \in Idx(s, y) \/ i = n + k
      <3>1. i \in 1 .. Len(r) /\ r[i][1] = y
        BY DEF Idx
      <3>2. CASE i \in 1 .. n
        BY <1>3, <3>1, <3>2 DEF Idx, n
      <3>3. CASE i \notin 1 .. n
        BY <1>5, <1>8, <2>1, <3>1, <3>3
      <3> QED
        BY <3>2, <3>3
    <2>4. \A i \in Idx(s, y) : i \in Idx(r, y)
      BY <1>3, <1>7 DEF Idx, n
    <2> QED
      BY <2>2, <2>3, <2>4
  <1> QED
    BY <1>3, <1>8, <1>9, <1>10 DEF b, r, n, m, Extends

LEMMA SetTaskIs ==
  ASSUME NEW w \in Worlds, NEW t \in Tasks, NEW v \in Results, NEW T, Sound(w, T)
  PROVE  LET x == SetTask(w, t, v)
             o == w.task[t]
             r == x.task[t]
         IN
         /\ x \in Worlds /\ OnlyTask(x, w, t, r)
         /\ r.run = o.run /\ r.value = v /\ r.remaining = o.remaining
         /\ r.handlers = o.handlers /\ r.subs = o.subs
         /\ r.caller = o.caller /\ r.waiters = o.waiters
         /\ x.calls = w.calls /\ x.at = w.at
         /\ x.pending = w.pending /\ x.numRunning = w.numRunning
         /\ \A y \in States : ~ Holds(o, y) => Idx(x.sched, y) = Idx(w.sched, y)
         /\ \A y \in States : Holds(o, y) /\ HoldsOnce(o, y) =>
              \E k : /\ Idx(x.sched, y) = Idx(w.sched, y) \union {k}
                     /\ k \notin Idx(w.sched, y)
  <1> DEFINE o == w.task[t]
             b == [o EXCEPT !.value = v]
             y == [w EXCEPT !.task[t] = b]
             s == w.sched \o EntriesOf(AllOf(o), v)
             x == SetTask(w, t, v)
  <1>1. o \in TaskRecords /\ AllOf(o) \in Seq(States) /\ w.sched \in Seq(Entries)
    BY TaskType, AllOfIs, WorldType
  <1>2. b \in TaskRecords
    BY <1>1 DEF TaskRecords
  <1>3. /\ b.run = o.run /\ b.value = v /\ b.remaining = o.remaining
        /\ b.handlers = o.handlers /\ b.subs = o.subs
        /\ b.caller = o.caller /\ b.waiters = o.waiters
    BY <1>1 DEF TaskRecords
  <1>4. x = [y EXCEPT !.sched = s]
    BY WorldType DEF SetTask, AllOf, EntriesOf, Worlds
  <1> HIDE DEF b
  <1>5. /\ y \in Worlds /\ OnlyTask(y, w, t, b)
        /\ y.sched = w.sched /\ y.calls = w.calls /\ y.at = w.at
        /\ y.pending = w.pending /\ y.numRunning = w.numRunning
    BY <1>2, WithTask
  <1>6. s \in Seq(Entries)
    <2> HIDE DEF o
    <2> QED
      BY <1>1, IdxConcat
  <1> HIDE DEF y, s, o
  <1>7. /\ x \in Worlds /\ x.task = y.task /\ x.sched = s
        /\ x.calls = w.calls /\ x.at = w.at
        /\ x.pending = w.pending /\ x.numRunning = w.numRunning
    BY <1>4, <1>5, <1>6 DEF Worlds
  <1>8. x.task[t] = b /\ OnlyTask(x, w, t, b)
    BY <1>5, <1>7 DEF OnlyTask
  <1> HIDE DEF x
  <1> DEFINE a == AllOf(o)
  <1>9. /\ \A z \in States : ~ Holds(o, z) => PlaceIn(a, z) = {}
        /\ \A z \in States : Holds(o, z) /\ HoldsOnce(o, z) =>
             \E k \in 1 .. Len(a) : PlaceIn(a, z) = {k}
    BY AllOfIs DEF o
  <1>10. Extends(s, w.sched, a)
    BY <1>1, IdxConcat DEF s
  <1> HIDE DEF a
  <1>11. \A z \in States : ~ Holds(o, z) => Idx(s, z) = Idx(w.sched, z)
    BY <1>9, <1>10 DEF Extends
  <1>12. \A z \in States : Holds(o, z) /\ HoldsOnce(o, z) =>
              \E k : /\ Idx(s, z) = Idx(w.sched, z) \union {k}
                     /\ k \notin Idx(w.sched, z)
    BY <1>9, <1>10 DEF Extends
  <1> QED
    BY <1>3, <1>7, <1>8, <1>11, <1>12 DEF x, o
------------------------------------------------------------------------------
(* What the elementary steps keep.  No step counts on the others: each part  *)
(* of the invariant is kept by itself, but for Sound and Tokens.             *)

LEMMA SoleRuns ==
  ASSUME NEW T, NEW w, Good(w, T), NEW t \in Tasks
  PROVE  /\ Sole(w, t) => w.task[t].run \in {"task", "composed"} /\ t \notin T
         /\ w.task[t].caller = Queue => w.task[t].run = "task"
         /\ w.task[t].caller = Queue /\ NoneLost => Sole(w, t)
         /\ \A y \in Tasks : Holds(w.task[t], y) =>
              w.task[y].run \in Combined /\ ~ Sole(w, y) /\ w.task[y].caller # Queue
         /\ Holds(w.task[t], Queue) <=> w.task[t].caller = Queue
         /\ w.task[t].caller = Queue => HoldsOnce(w.task[t], Queue)
  <1>1. \A y \in Tasks : w.task[y].caller = Queue => w.task[y].run = "task"
    BY DEF Good, Sound, FitTask
  <1>2. \A y \in Tasks : Sole(w, y) => w.task[y].run \in {"task", "composed"}
    BY <1>1 DEF Sole
  <1>3. Sole(w, t) => t \notin T
    BY DEF Good, Tokens
  <1>4. \A y \in Tasks : Holds(w.task[t], y) => w.task[y].run \in Combined
    BY DEF Good, Sound
  <1>5. \A y \in Tasks : w.task[y].run \in Combined => ~ Sole(w, y) /\ w.task[y].caller # Queue
    BY <1>1, <1>2 DEF Combined
  <1>6. PlaceIn(w.task[t].waiters, Queue) = {}
    BY DEF Good, Sound
  <1> QED
    BY <1>1, <1>2, <1>3, <1>4, <1>5, <1>6 DEF Sole, NoneLost, Holds, HoldsOnce

LEMMA FiniteBusy ==
  ASSUME IsFiniteSet(Tasks), NEW w
  PROVE  IsFiniteSet(Busy(w)) /\ Cardinality(Busy(w)) \in Nat
  <1>1. Busy(w) \in SUBSET Tasks
    BY DEF Busy
  <1> QED
    BY <1>1, FS_Subset, FS_CardinalityType

\* Task t is put into the scheduler's queue.
LEMMA ScheduleGood ==
  ASSUME NEW T, NEW w, Good(w, T), NEW t \in Tasks, Ready(w, t), NEW v \in Results
  PROVE  Good(Schedule(w, t, v), T)
  <1> DEFINE x == Schedule(w, t, v)
  <1>1. w \in Worlds /\ w.sched \in Seq(Entries) /\ t \in States
    BY WorldType DEF Good, States
  <1>2. /\ x \in Worlds /\ <<t, v>> \in Entries
        /\ Appended(x.sched, w.sched, t)
        /\ x.task = w.task /\ x.calls = w.calls
        /\ x.pending = w.pending
    BY <1>1, ScheduleIs
  <1> HIDE DEF x
  <1>3. /\ Len(x.sched) = Len(w.sched) + 1 /\ Len(w.sched) \in Nat
        /\ \A i \in 1 .. Len(w.sched) : x.sched[i] = w.sched[i]
        /\ x.sched[Len(w.sched) + 1][1] = t
        /\ \A y : y # t => Idx(x.sched, y) = Idx(w.sched, y)
        /\ Idx(x.sched, t) = Idx(w.sched, t) \union {Len(w.sched) + 1}
    BY <1>2 DEF Appended
  <1>4. Sound(x, T)
    <2>1. \A y \in Tasks : Idx(x.sched, y) # {} => y = t \/ Idx(w.sched, y) # {}
      BY <1>3
    <2> QED
      BY <1>2, <2>1 DEF Good, Sound, Ready
  <1>5. Tokens(x, T)
    <2> SUFFICES ASSUME NEW y \in Tasks, Sole(x, y)
                 PROVE  /\ y \notin T
                        /\ x.calls[y] \subseteq {"fn"}
                        /\ x.calls[y] # {} => Idx(x.sched, y) = {}
                        /\ \A i, j \in Idx(x.sched, y) : i = j
                        /\ \A i, j \in PlaceIn(x.pending, y) : i = j
                        /\ ~ Quiet(x, y) => Fresh(x, y)
                        /\ PlaceIn(x.pending, y) # {} => x.task[y].value = Unset
      BY DEF Tokens
    <2>1. Sole(w, y)
      BY <1>2 DEF Sole
    <2>2. /\ y \notin T
          /\ w.calls[y] \subseteq {"fn"}
          /\ w.calls[y] # {} => Idx(w.sched, y) = {}
          /\ \A i, j \in Idx(w.sched, y) : i = j
          /\ \A i, j \in PlaceIn(w.pending, y) : i = j
          /\ ~ Quiet(w, y) => Fresh(w, y)
          /\ PlaceIn(w.pending, y) # {} => w.task[y].value = Unset
      BY <2>1 DEF Good, Tokens
    <2>3. CASE y # t
      BY <1>2, <1>3, <2>2, <2>3 DEF Quiet, Fresh
    <2>4. CASE y = t
      BY <1>2, <1>3, <2>1, <2>2, <2>4 DEF Quiet, Fresh, Ready, Arrived
    <2> QED
      BY <2>3, <2>4
  <1> QED
    BY <1>2, <1>4, <1>5 DEF Good, x

LEMMA ScheduleSlots ==
  ASSUME IsFiniteSet(Tasks), NoneLost,
         NEW T, NEW w, Good(w, T), NEW t \in Tasks, Ready(w, t), NEW v \in Results,
         Slots(w, Due(w, t))
  PROVE  Slots(Schedule(w, t, v), 0)
  <1> DEFINE x == Schedule(w, t, v)
  <1>1. w \in Worlds /\ w.sched \in Seq(Entries) /\ t \in States /\ Queue # t
    BY WorldType, TasksAssumption DEF Good, States
  <1>2. /\ <<t, v>> \in Entries
        /\ Appended(x.sched, w.sched, t)
        /\ x.task = w.task /\ x.calls = w.calls
        /\ x.pending = w.pending /\ x.numRunning = w.numRunning
    BY <1>1, ScheduleIs
  <1> HIDE DEF x
  <1>3. /\ \A y : y # t => Idx(x.sched, y) = Idx(w.sched, y)
        /\ Idx(x.sched, t) # {}
    BY <1>2 DEF Appended
  <1>4. Idx(x.sched, Queue) = Idx(w.sched, Queue)
    BY <1>1, <1>3
  <1>5. CASE w.task[t].caller = Queue
    <2>1. Sole(w, t) /\ Quiet(w, t)
      BY <1>5, SoleRuns DEF Ready, Arrived
    <2>2. Busy(x) = Busy(w) \union {t} /\ t \notin Busy(w)
      BY <1>2, <1>3, <1>5, <2>1 DEF Busy, Quiet
    <2>3. Cardinality(Busy(x)) = Cardinality(Busy(w)) + 1
      BY <2>2, FiniteBusy, FS_AddElement
    <2> QED
      BY <1>2, <1>4, <1>5, <2>3, FiniteBusy, IdxFinite, <1>1 DEF Slots, Due, x
  <1>6. CASE w.task[t].caller # Queue
    <2>1. Busy(x) = Busy(w)
      BY <1>2, <1>3, <1>6 DEF Busy, Quiet
    <2> QED
      BY <1>2, <1>4, <1>6, <2>1 DEF Slots, Due, x
  <1> QED
    BY <1>5, <1>6

LEMMA ScheduleWaits ==
  ASSUME NEW T, NEW w, Good(w, T), NEW t \in Tasks, NEW v \in Results,
         Waits(w, {}), Ended(w)
  PROVE  Waits(Schedule(w, t, v), {}) /\ Ended(Schedule(w, t, v))
  <1> DEFINE x == Schedule(w, t, v)
  <1>1. w \in Worlds /\ w.sched \in Seq(Entries) /\ t \in States /\ t \notin Procs
    BY WorldType, TasksAssumption DEF Good, States
  <1>2. /\ <<t, v>> \in Entries
        /\ Appended(x.sched, w.sched, t)
        /\ x.task = w.task /\ x.at = w.at
    BY <1>1, ScheduleIs
  <1> HIDE DEF x
  <1>3. \A p \in Procs : Idx(x.sched, p) = Idx(w.sched, p)
    BY <1>1, <1>2 DEF Appended
  <1>4. Waits(x, {})
    BY <1>2, <1>3 DEF Waits
  <1>5. Ended(x)
    BY <1>2 DEF Ended
  <1> QED
    BY <1>4, <1>5 DEF x

\* Task t gets its value.
LEMMA SetTaskGood ==
  ASSUME NEW T, NEW w, Good(w, T), NEW t \in Tasks, NEW v \in Results,
         w.task[t].run # "unborn", Arrived(w, t)
  PROVE  Good(SetTask(w, t, v), T)
  <1> DEFINE x == SetTask(w, t, v)
             o == w.task[t]
             r == x.task[t]
  <1>1. w \in Worlds /\ Sound(w, T)
    BY DEF Good
  <1>2. /\ x \in Worlds /\ OnlyTask(x, w, t, r)
        /\ r.run = o.run /\ r.handlers = o.handlers
        /\ r.caller = o.caller /\ r.waiters = o.waiters
        /\ x.calls = w.calls /\ x.pending = w.pending
        /\ \A y \in States : ~ Holds(o, y) => Idx(x.sched, y) = Idx(w.sched, y)
    BY <1>1, SetTaskIs
  <1> HIDE DEF x
  <1>3. \A y \in Tasks :
          /\ x.task[y].run = w.task[y].run /\ x.task[y].handlers = w.task[y].handlers
          /\ x.task[y].caller = w.task[y].caller
          /\ x.task[y].waiters = w.task[y].waiters
          /\ y # t => x.task[y].value = w.task[y].value
    BY <1>2 DEF OnlyTask
  <1>4. \A y \in Tasks : Holds(o, y) => w.task[y].run \in Combined /\ ~ Sole(w, y)
    BY SoleRuns
  <1> HIDE DEF o, r
  <1>5. Sound(x, T)
    <2>1. ASSUME NEW y \in Tasks PROVE FitTask(x.task[y], x.calls[y])
      <3>1. FitTask(w.task[y], w.calls[y])
        BY <1>1 DEF Sound
      <3>2. y = t => x.task[y].run # "unborn"
        BY <1>3
      <3> QED
        BY <1>2, <1>3, <3>1, <3>2 DEF FitTask
    <2>2. \A y \in Tasks : Idx(x.sched, y) # {} =>
            Holds(o, y) \/ Idx(w.sched, y) # {}
      BY <1>2 DEF States
    <2>3. \A y \in Tasks : Idx(x.sched, y) # {} \/ y \in T => x.task[y].run \in Runnable
      BY <1>1, <1>3, <1>4, <2>2 DEF Sound, Runnable
    <2>4. \A y, z \in Tasks : Holds(x.task[y], z) <=> Holds(w.task[y], z)
      BY <1>3 DEF Holds
    <2> QED
      BY <1>1, <1>2, <1>3, <2>1, <2>3, <2>4 DEF Sound
  <1>6. Tokens(x, T)
    <2> SUFFICES ASSUME NEW y \in Tasks, Sole(x, y)
                 PROVE  /\ y \notin T
                        /\ x.calls[y] \subseteq {"fn"}
                        /\ x.calls[y] # {} => Idx(x.sched, y) = {}
                        /\ \A i, j \in Idx(x.sched, y) : i = j
                        /\ \A i, j \in PlaceIn(x.pending, y) : i = j
                        /\ ~ Quiet(x, y) => Fresh(x, y)
                        /\ PlaceIn(x.pending, y) # {} => x.task[y].value = Unset
      BY DEF Tokens
    <2>1. Sole(w, y)
      BY <1>3 DEF Sole
    <2>2. /\ y \notin T
          /\ w.calls[y] \subseteq {"fn"}
          /\ w.calls[y] # {} => Idx(w.sched, y) = {}
          /\ \A i, j \in Idx(w.sched, y) : i = j
          /\ \A i, j \in PlaceIn(w.pending, y) : i = j
          /\ ~ Quiet(w, y) => Fresh(w, y)
          /\ PlaceIn(w.pending, y) # {} => w.task[y].value = Unset
      BY <2>1 DEF Good, Tokens
    <2>3. Idx(x.sched, y) = Idx(w.sched, y)
      BY <1>2, <1>4, <2>1 DEF States
    <2>4. y = t => Quiet(w, y) /\ Fresh(w, y)
      BY <2>1 DEF Arrived
    <2> QED
      BY <1>2, <1>3, <2>2, <2>3, <2>4 DEF Quiet, Fresh
  <1> QED
    BY <1>2, <1>5, <1>6 DEF Good, x

LEMMA SetTaskSlots ==
  ASSUME IsFiniteSet(Tasks), NoneLost,
         NEW T, NEW w, Good(w, T), NEW t \in Tasks, NEW v \in Results,
         Slots(w, Due(w, t))
  PROVE  Slots(SetTask(w, t, v), 0)
  <1> DEFINE x == SetTask(w, t, v)
             o == w.task[t]
             r == x.task[t]
  <1>1. w \in Worlds /\ Sound(w, T) /\ Queue \in States /\ w.sched \in Seq(Entries)
    BY WorldType DEF Good, States
  <1>2. /\ x \in Worlds /\ OnlyTask(x, w, t, r) /\ r.caller = o.caller
        /\ x.calls = w.calls
        /\ x.pending = w.pending /\ x.numRunning = w.numRunning
        /\ \A y \in States : ~ Holds(o, y) => Idx(x.sched, y) = Idx(w.sched, y)
        /\ \A y \in States : Holds(o, y) /\ HoldsOnce(o, y) =>
             \E k : /\ Idx(x.sched, y) = Idx(w.sched, y) \union {k}
                    /\ k \notin Idx(w.sched, y)
    BY <1>1, SetTaskIs
  <1> HIDE DEF x
  <1>3. \A y \in Tasks : x.task[y].caller = w.task[y].caller
    BY <1>2 DEF OnlyTask
  <1>4. /\ Holds(o, Queue) <=> o.caller = Queue
        /\ o.caller = Queue => HoldsOnce(o, Queue)
    BY SoleRuns
  <1>5. \A y \in Tasks : w.task[y].caller = Queue => Idx(x.sched, y) = Idx(w.sched, y)
    <2>1. \A y \in Tasks : w.task[y].caller = Queue => ~ Holds(o, y)
      BY SoleRuns
    <2> QED
      BY <1>2, <2>1 DEF States
  <1>6. Busy(x) = Busy(w)
    BY <1>2, <1>3, <1>5 DEF Busy, Quiet
  <1>7. Cardinality(Idx(x.sched, Queue)) = Cardinality(Idx(w.sched, Queue)) + Due(w, t)
    <2>1. CASE o.caller = Queue
      <3>1. PICK k : /\ Idx(x.sched, Queue) = Idx(w.sched, Queue) \union {k}
                     /\ k \notin Idx(w.sched, Queue)
        BY <1>1, <1>2, <1>4, <2>1
      <3>2. Cardinality(Idx(x.sched, Queue)) = Cardinality(Idx(w.sched, Queue)) + 1
        BY <1>1, <3>1, IdxFinite, FS_AddElement
      <3> QED
        BY <2>1, <3>2 DEF Due
    <2>2. CASE o.caller # Queue
      <3>1. Idx(x.sched, Queue) = Idx(w.sched, Queue)
        BY <1>1, <1>2, <1>4, <2>2
      <3> QED
        BY <1>1, <2>2, <3>1, IdxFinite DEF Due
    <2> QED
      BY <2>1, <2>2
  <1>8. Due(w, t) \in Nat /\ Cardinality(Busy(w)) \in Nat
        /\ Cardinality(Idx(w.sched, Queue)) \in Nat
    BY <1>1, IdxFinite, FiniteBusy DEF Due
  <1> HIDE DEF o, r
  <1> QED
    BY <1>2, <1>6, <1>7, <1>8 DEF Slots, x

LEMMA SetTaskWaits ==
  ASSUME NEW T, NEW w, Good(w, T), NEW t \in Tasks, NEW v \in Results,
         Waits(w, {}), Ended(w), w.task[t].value = Unset,
         w.task[t].run \in {"any", "list"} => w.task[t].remaining = 0
  PROVE  Waits(SetTask(w, t, v), {}) /\ Ended(SetTask(w, t, v))
  <1> DEFINE x == SetTask(w, t, v)
             o == w.task[t]
             r == x.task[t]
  <1>1. w \in Worlds /\ Sound(w, T)
    BY DEF Good
  <1>2. /\ x \in Worlds /\ OnlyTask(x, w, t, r)
        /\ r.run = o.run /\ r.value = v /\ r.remaining = o.remaining
        /\ x.at = w.at
        /\ \A y \in States : ~ Holds(o, y) => Idx(x.sched, y) = Idx(w.sched, y)
        /\ \A y \in States : Holds(o, y) /\ HoldsOnce(o, y) =>
             \E k : /\ Idx(x.sched, y) = Idx(w.sched, y) \union {k}
                    /\ k \notin Idx(w.sched, y)
    BY <1>1, SetTaskIs
  <1> HIDE DEF x
  <1>3. /\ \A y \in Tasks : y # t => x.task[y] = w.task[y]
        /\ x.task[t].value # Unset
        /\ x.task[t].run = w.task[t].run /\ x.task[t].remaining = w.task[t].remaining
    BY <1>2 DEF OnlyTask, Results, Unset
  <1> HIDE DEF r
  <1>4. Ended(x)
    BY <1>3 DEF Ended
  <1>5. ASSUME NEW p \in Procs
        PROVE  /\ \A i, j \in Idx(x.sched, p) : i = j
               /\ \A y \in Tasks : x.task[y].value = Unset /\ Holds(x.task[y], p) =>
                    x.at[p] = y /\ HoldsOnce(x.task[y], p) /\ Idx(x.sched, p) = {}
               /\ Idx(x.sched, p) # {} => x.at[p] # None
               /\ x.at[p] # None => \/ Idx(x.sched, p) # {}
                                    \/ /\ x.task[x.at[p]].value = Unset
                                       /\ Holds(x.task[x.at[p]], p)
    <2>1. /\ \A i, j \in Idx(w.sched, p) : i = j
          /\ \A y \in Tasks : w.task[y].value = Unset /\ Holds(w.task[y], p) =>
               w.at[p] = y /\ HoldsOnce(w.task[y], p) /\ Idx(w.sched, p) = {}
          /\ Idx(w.sched, p) # {} => w.at[p] # None
          /\ w.at[p] # None => \/ Idx(w.sched, p) # {}
                               \/ /\ w.task[w.at[p]].value = Unset
                                  /\ Holds(w.task[w.at[p]], p)
      BY DEF Waits
    <2>2. w.at[p] \in Tasks \union {None} /\ None \notin Tasks /\ p \in States
      BY <1>1, WorldType, TasksAssumption DEF States
    <2>3. CASE Holds(o, p)
      <3>1. w.at[p] = t /\ HoldsOnce(o, p) /\ Idx(w.sched, p) = {}
        BY <2>1, <2>3
      <3>2. PICK k : Idx(x.sched, p) = {k}
        BY <1>2, <2>2, <2>3, <3>1
      <3> QED
        BY <1>2, <1>3, <2>1, <2>2, <3>1, <3>2
    <2>4. CASE ~ Holds(o, p)
      <3>1. Idx(x.sched, p) = Idx(w.sched, p)
        BY <1>2, <2>2, <2>4
      <3> QED
        BY <1>2, <1>3, <2>1, <2>2, <2>4, <3>1
    <2> QED
      BY <2>3, <2>4
  <1>6. Waits(x, {})
    BY <1>5 DEF Waits
  <1> QED
    BY <1>4, <1>6 DEF x

\* A step that changes nothing but what tasks have got so far.
LEMMA FieldsGood ==
  ASSUME NEW T, NEW w, Good(w, T), NEW x \in Worlds,
         x.sched = w.sched, x.calls = w.calls, x.pending = w.pending,
         \A y \in Tasks :
           /\ x.task[y].run = w.task[y].run /\ x.task[y].handlers = w.task[y].handlers
           /\ x.task[y].caller = w.task[y].caller
           /\ x.task[y].waiters = w.task[y].waiters
           /\ w.task[y].run \notin Combined => x.task[y].value = w.task[y].value
  PROVE  /\ Good(x, T)
         /\ x.numRunning = w.numRunning => \A d : Slots(w, d) => Slots(x, d)
  <1>1. \A y, z \in Tasks : Holds(x.task[y], z) <=> Holds(w.task[y], z)
    BY DEF Holds
  <1>2. ASSUME NEW y \in Tasks PROVE FitTask(x.task[y], x.calls[y])
    <2>1. FitTask(w.task[y], w.calls[y])
      BY DEF Good, Sound
    <2>2. w.task[y].run = "unborn" => w.task[y].run \notin Combined
      BY DEF Combined
    <2> QED
      BY <2>1, <2>2 DEF FitTask
  <1>3. Sound(x, T)
    BY <1>1, <1>2 DEF Good, Sound
  <1>4. \A y \in Tasks : Sole(x, y) => Sole(w, y) /\ x.task[y].value = w.task[y].value
    <2>1. \A y \in Tasks : w.task[y].run \in {"task", "composed"} =>
            w.task[y].run \notin Combined
      BY DEF Combined
    <2>2. \A y \in Tasks : Sole(w, y) => w.task[y].run \in {"task", "composed"}
      BY SoleRuns
    <2> QED
      BY <2>1, <2>2 DEF Sole
  <1>5. Tokens(x, T)
    BY <1>4 DEF Good, Tokens, Quiet, Fresh
  <1>6. Busy(x) = Busy(w)
    BY DEF Busy, Quiet
  <1> QED
    BY <1>3, <1>5, <1>6 DEF Good, Slots

\* A combination counts a sub task.
LEMMA CountDown ==
  ASSUME NEW T, NEW w, Good(w, T), NEW t \in Tasks, NEW n \in Nat
  PROVE  LET x == SetLeft(w, t, n) IN
         /\ Good(x, T)
         /\ \A d : Slots(w, d) => Slots(x, d)
         /\ Waits(w, {}) => Waits(x, {})
         /\ Ended(w) /\ (w.task[t].remaining = 0 => n = 0) => Ended(x)
         /\ \A y \in Tasks :
              /\ x.task[y].run = w.task[y].run /\ x.task[y].handlers = w.task[y].handlers
              /\ x.task[y].caller = w.task[y].caller
              /\ x.task[y].waiters = w.task[y].waiters
              /\ x.task[y].value = w.task[y].value
              /\ x.task[y].subs = w.task[y].subs
              /\ y # t => x.task[y].remaining = w.task[y].remaining
         /\ x.task[t].remaining = n
         /\ x.sched = w.sched /\ x.calls = w.calls /\ x.at = w.at
         /\ x.pending = w.pending
         /\ Arrived(x, t) <=> Arrived(w, t)
  <1> DEFINE o == w.task[t]
             r == [o EXCEPT !.remaining = n]
             x == SetLeft(w, t, n)
  <1>1. w \in Worlds /\ o \in TaskRecords
    BY TaskType DEF Good
  <1>2. r \in TaskRecords
    BY <1>1 DEF TaskRecords
  <1>3. /\ r.run = o.run /\ r.handlers = o.handlers /\ r.caller = o.caller
        /\ r.waiters = o.waiters /\ r.value = o.value /\ r.subs = o.subs
        /\ r.remaining = n
    BY <1>1 DEF TaskRecords
  <1>4. x = [w EXCEPT !.task[t] = r]
    BY DEF SetLeft
  <1> HIDE DEF r
  <1>5. /\ x \in Worlds /\ OnlyTask(x, w, t, r)
        /\ x.sched = w.sched /\ x.calls = w.calls /\ x.at = w.at
        /\ x.pending = w.pending /\ x.numRunning = w.numRunning
    BY <1>1, <1>2, <1>4, WithTask
  <1> HIDE DEF x
  <1>6. /\ \A y \in Tasks :
              /\ x.task[y].run = w.task[y].run /\ x.task[y].handlers = w.task[y].handlers
              /\ x.task[y].caller = w.task[y].caller
              /\ x.task[y].waiters = w.task[y].waiters
              /\ x.task[y].value = w.task[y].value
              /\ x.task[y].subs = w.task[y].subs
              /\ y # t => x.task[y].remaining = w.task[y].remaining
        /\ x.task[t].remaining = n
    BY <1>3, <1>5 DEF OnlyTask
  <1>7. Good(x, T) /\ \A d : Slots(w, d) => Slots(x, d)
    BY <1>5, <1>6, FieldsGood
  <1>8. Waits(w, {}) => Waits(x, {})
    <2>1. \A p \in Procs : w.at[p] \in Tasks \union {None}
      BY <1>1, WorldType
    <2>2. \A y \in Tasks : \A p : /\ Holds(x.task[y], p) <=> Holds(w.task[y], p)
                                  /\ HoldsOnce(x.task[y], p) <=> HoldsOnce(w.task[y], p)
      BY <1>6 DEF Holds, HoldsOnce
    <2> QED
      BY <1>5, <1>6, <2>1, <2>2 DEF Waits
  <1>9. Ended(w) /\ (w.task[t].remaining = 0 => n = 0) => Ended(x)
    BY <1>6 DEF Ended
  <1>10. Arrived(x, t) <=> Arrived(w, t)
    BY <1>5, <1>6 DEF Arrived, Sole, Quiet, Fresh
  <1> QED
    BY <1>5, <1>6, <1>7, <1>8, <1>9, <1>10 DEF x

\* A composed task calls its Then, Else or On.
LEMMA HandlerCalled ==
  ASSUME NEW T, NEW w, Good(w, T), NEW t \in Tasks, w.task[t].run = "composed"
  PROVE  LET x == CallHandler(w, t) IN
         /\ Good(x, T)
         /\ \A d : Slots(w, d) => Slots(x, d)
         /\ Waits(w, {}) => Waits(x, {})
         /\ Ended(w) => Ended(x)
  <1> DEFINE o == w.task[t]
             r == [o EXCEPT !.run = "task"]
             c == w.calls[t] \union {"handler"}
             u == [w EXCEPT !.task[t] = r]
             x == CallHandler(w, t)
  <1>1. w \in Worlds /\ o \in TaskRecords /\ c \in SUBSET {"fn", "handler"}
    BY TaskType, WorldType DEF Good
  <1>2. r \in TaskRecords
    BY <1>1 DEF TaskRecords
  <1>3. /\ r.run = "task" /\ r.handlers = o.handlers /\ r.caller = o.caller
        /\ r.waiters = o.waiters /\ r.value = o.value
    BY <1>1 DEF TaskRecords
  <1>4. x = SetCalls(u, t, c)
    BY <1>1 DEF Worlds, CallHandler, SetCalls
  <1> HIDE DEF r, c, x
  <1>5. /\ u \in Worlds /\ OnlyTask(u, w, t, r)
        /\ u.sched = w.sched /\ u.calls = w.calls /\ u.at = w.at
        /\ u.pending = w.pending /\ u.numRunning = w.numRunning
    BY <1>1, <1>2, WithTask
  <1> HIDE DEF u
  <1>6. /\ x \in Worlds
        /\ \A y \in Tasks : x.calls[y] = IF y = t THEN c ELSE u.calls[y]
        /\ x.sched = u.sched /\ x.task = u.task /\ x.at = u.at
        /\ x.pending = u.pending /\ x.numRunning = u.numRunning
    BY <1>1, <1>4, <1>5, WithCalls
  <1>7. /\ \A y \in Tasks :
              /\ x.task[y].handlers = w.task[y].handlers
              /\ x.task[y].caller = w.task[y].caller
              /\ x.task[y].waiters = w.task[y].waiters
              /\ x.task[y].value = w.task[y].value
              /\ y # t => x.task[y] = w.task[y] /\ x.calls[y] = w.calls[y]
        /\ x.task[t].run = "task"
        /\ x.sched = w.sched /\ x.at = w.at
        /\ x.pending = w.pending /\ x.numRunning = w.numRunning
    BY <1>3, <1>5, <1>6 DEF OnlyTask
  <1>8. /\ w.task[t].caller # Queue /\ w.task[t].handlers # {}
        /\ w.task[t].run \notin Combined
    BY DEF Good, Sound, FitTask, Combined
  <1>9. \A y, z \in Tasks : Holds(x.task[y], z) <=> Holds(w.task[y], z)
    BY <1>7 DEF Holds
  <1>10. Sound(x, T)
    <2>1. ASSUME NEW y \in Tasks PROVE FitTask(x.task[y], x.calls[y])
      <3>1. FitTask(w.task[y], w.calls[y])
        BY DEF Good, Sound
      <3> QED
        BY <1>7, <1>8, <3>1 DEF FitTask
    <2>2. \A y \in Tasks : w.task[y].run \in Combined => x.task[y].run \in Combined
      BY <1>7, <1>8
    <2>3. \A y \in Tasks : w.task[y].run \in Runnable => x.task[y].run \in Runnable
      BY <1>7 DEF Runnable
    <2> QED
      BY <1>7, <1>9, <2>1, <2>2, <2>3 DEF Good, Sound
  <1>11. \A y \in Tasks : Sole(x, y) => y # t /\ Sole(w, y)
    BY <1>7, <1>8 DEF Sole
  <1>12. Tokens(x, T)
    BY <1>7, <1>11 DEF Good, Tokens, Quiet, Fresh
  <1>13. Busy(x) = Busy(w)
    BY <1>7, <1>8 DEF Busy, Quiet
  <1>14. \A d : Slots(w, d) => Slots(x, d)
    BY <1>7, <1>13 DEF Slots
  <1>15. Waits(w, {}) => Waits(x, {})
    <2>1. \A p \in Procs : w.at[p] \in Tasks \union {None}
      BY <1>1, WorldType
    <2>2. \A y \in Tasks : \A p : /\ Holds(x.task[y], p) <=> Holds(w.task[y], p)
                                  /\ HoldsOnce(x.task[y], p) <=> HoldsOnce(w.task[y], p)
      BY <1>7 DEF Holds, HoldsOnce
    <2> QED
      BY <1>7, <2>1, <2>2 DEF Waits
  <1>16. Ended(w) => Ended(x)
    BY <1>7 DEF Ended
  <1> QED
    BY <1>6, <1>10, <1>12, <1>14, <1>15, <1>16 DEF Good, x

\* A script state is put into the scheduler's queue, or goes on.
LEMMA ScheduleProc ==
  ASSUME NEW T, NEW w, Good(w, T), NEW p \in Procs, NEW v \in Results
  PROVE  /\ Good(Schedule(w, p, v), T)
         /\ \A d : Slots(w, d) => Slots(Schedule(w, p, v), d)
  <1> DEFINE x == Schedule(w, p, v)
  <1>1. w \in Worlds /\ p \in States /\ p \notin Tasks /\ p # Queue
    BY TasksAssumption DEF Good, States
  <1>2. /\ x \in Worlds /\ Appended(x.sched, w.sched, p)
        /\ x.task = w.task /\ x.calls = w.calls
        /\ x.pending = w.pending /\ x.numRunning = w.numRunning
    BY <1>1, ScheduleIs
  <1> HIDE DEF x
  <1>3. /\ \A y \in Tasks : Idx(x.sched, y) = Idx(w.sched, y)
        /\ Idx(x.sched, Queue) = Idx(w.sched, Queue)
    BY <1>1, <1>2 DEF Appended
  <1>4. Sound(x, T)
    BY <1>2, <1>3 DEF Good, Sound
  <1>5. Tokens(x, T)
    BY <1>2, <1>3 DEF Good, Tokens, Sole, Quiet, Fresh
  <1>6. Busy(x) = Busy(w)
    BY <1>2, <1>3 DEF Busy, Quiet
  <1>7. \A d : Slots(w, d) => Slots(x, d)
    BY <1>2, <1>3, <1>6 DEF Slots
  <1> QED
    BY <1>2, <1>4, <1>5, <1>7 DEF Good, x

LEMMA AtGood ==
  ASSUME NEW T, NEW w, Good(w, T), NEW p \in Procs, NEW a \in Tasks \union {None}
  PROVE  LET x == SetAt(w, p, a) IN
         Good(x, T) /\ \A d : Slots(w, d) => Slots(x, d)
  <1> DEFINE x == SetAt(w, p, a)
  <1>1. /\ x \in Worlds /\ x.sched = w.sched /\ x.task = w.task /\ x.calls = w.calls
        /\ x.pending = w.pending /\ x.numRunning = w.numRunning
    BY WithAt DEF Good
  <1> HIDE DEF x
  <1>2. Good(x, T) /\ \A d : Slots(w, d) => Slots(x, d)
    BY <1>1, FieldsGood
  <1> QED
    BY <1>2 DEF x

\* A state that was taken from the scheduler's queue goes on.
LEMMA ReleaseWaits ==
  ASSUME NEW T, NEW w, Good(w, T), NEW p \in Procs, Waits(w, {p}), Ended(w)
  PROVE  LET x == SetAt(w, p, None) IN Waits(x, {}) /\ Ended(x)
  <1> DEFINE x == SetAt(w, p, None)
  <1>1. /\ \A q \in Procs : x.at[q] = IF q = p THEN None ELSE w.at[q]
        /\ x.sched = w.sched /\ x.task = w.task
    <2>1. w \in Worlds
      BY DEF Good
    <2> QED
      BY <2>1, WithAt
  <1> HIDE DEF x
  <1>2. Waits(x, {}) /\ Ended(x)
    BY <1>1 DEF Waits, Ended
  <1> QED
    BY <1>2 DEF x

\* The wait for a list ends: it is as if the list had a value.
LEMMA ListValue ==
  ASSUME NEW T, NEW w, Good(w, T), NEW t \in Tasks, w.task[t].run = "list",
         NEW v \in Results
  PROVE  LET y == SetValue(w, t, v) IN
         /\ Good(y, T) /\ \A d : Slots(w, d) => Slots(y, d)
         /\ \A z \in Tasks :
              /\ y.task[z].run = w.task[z].run /\ y.task[z].caller = w.task[z].caller
              /\ y.task[z].waiters = w.task[z].waiters
              /\ y.task[z].remaining = w.task[z].remaining
              /\ y.task[z].value = IF z = t THEN v ELSE w.task[z].value
         /\ y.sched = w.sched /\ y.at = w.at
         /\ w.task[t].caller \in Procs
  <1> DEFINE o == w.task[t]
             r == [o EXCEPT !.value = v]
             y == SetValue(w, t, v)
  <1>1. w \in Worlds /\ o \in TaskRecords
    BY TaskType DEF Good
  <1>2. r \in TaskRecords
    BY <1>1 DEF TaskRecords
  <1>3. /\ r.run = o.run /\ r.handlers = o.handlers /\ r.caller = o.caller
        /\ r.waiters = o.waiters /\ r.value = v /\ r.remaining = o.remaining
    BY <1>1 DEF TaskRecords
  <1>4. y = [w EXCEPT !.task[t] = r]
    BY DEF SetValue
  <1> HIDE DEF r, y
  <1>5. /\ y \in Worlds /\ OnlyTask(y, w, t, r)
        /\ y.sched = w.sched /\ y.calls = w.calls /\ y.at = w.at
        /\ y.pending = w.pending /\ y.numRunning = w.numRunning
    BY <1>1, <1>2, <1>4, WithTask
  <1>6. \A z \in Tasks :
          /\ y.task[z].run = w.task[z].run /\ y.task[z].handlers = w.task[z].handlers
          /\ y.task[z].caller = w.task[z].caller
          /\ y.task[z].waiters = w.task[z].waiters
          /\ y.task[z].remaining = w.task[z].remaining
          /\ y.task[z].value = IF z = t THEN v ELSE w.task[z].value
    BY <1>3, <1>5 DEF OnlyTask
  <1>7. w.task[t].run \in Combined
    BY DEF Combined
  <1>8. Good(y, T) /\ \A d : Slots(w, d) => Slots(y, d)
    BY <1>5, <1>6, <1>7, FieldsGood
  <1>9. w.task[t].caller \in Procs
    BY DEF Good, Sound, FitTask
  <1> QED
    BY <1>5, <1>6, <1>8, <1>9 DEF y

\* w with the wait for list t ended, and its caller scheduled or continued.
ListEnd(w, t, v, preempted) ==
  LET y == SetValue(w, t, v)
      p == w.task[t].caller
  IN  IF preempted THEN Schedule(y, p, v) ELSE SetAt(y, p, None)

LEMMA ListEndGood ==
  ASSUME NEW T, NEW w, Good(w, T), NEW t \in Tasks, w.task[t].run = "list",
         NEW v \in Results, NEW preempted \in BOOLEAN
  PROVE  LET x == ListEnd(w, t, v, preempted) IN
         /\ Good(x, T) /\ \A d : Slots(w, d) => Slots(x, d)
         /\ \A z \in Tasks : x.task[z].run = w.task[z].run
  <1> DEFINE y == SetValue(w, t, v)
             p == w.task[t].caller
             x == ListEnd(w, t, v, preempted)
  <1>1. /\ Good(y, T) /\ \A d : Slots(w, d) => Slots(y, d)
        /\ \A z \in Tasks : y.task[z].run = w.task[z].run
        /\ p \in Procs
    BY ListValue
  <1>2. x = IF preempted THEN Schedule(y, p, v) ELSE SetAt(y, p, None)
    BY DEF ListEnd
  <1> HIDE DEF y, p, x
  <1>3. y \in Worlds /\ p \in States
    BY <1>1 DEF Good, States
  <1>4. CASE preempted
    <2>1. /\ Good(x, T) /\ \A d : Slots(y, d) => Slots(x, d)
          /\ x.task = y.task
      BY <1>1, <1>2, <1>3, <1>4, ScheduleProc, ScheduleIs
    <2> QED
      BY <1>1, <2>1 DEF x
  <1>5. CASE ~ preempted
    <2>1. /\ Good(x, T) /\ \A d : Slots(y, d) => Slots(x, d)
          /\ x.task = y.task
      BY <1>1, <1>2, <1>3, <1>5, AtGood, WithAt
    <2> QED
      BY <1>1, <2>1 DEF x
  <1> QED
    BY <1>4, <1>5

LEMMA ListEndWaits ==
  ASSUME NEW T, NEW w, Good(w, T), NEW t \in Tasks, w.task[t].run = "list",
         NEW v \in Results, NEW preempted \in BOOLEAN,
         Waits(w, {}), Ended(w), w.task[t].value = Unset, w.task[t].remaining = 0
  PROVE  LET x == ListEnd(w, t, v, preempted) IN Waits(x, {}) /\ Ended(x)
  <1> DEFINE y == SetValue(w, t, v)
             p == w.task[t].caller
             x == ListEnd(w, t, v, preempted)
  <1>1. /\ Good(y, T)
        /\ \A z \in Tasks :
              /\ y.task[z].run = w.task[z].run /\ y.task[z].caller = w.task[z].caller
              /\ y.task[z].waiters = w.task[z].waiters
              /\ y.task[z].remaining = w.task[z].remaining
              /\ y.task[z].value = IF z = t THEN v ELSE w.task[z].value
        /\ y.sched = w.sched /\ y.at = w.at
        /\ p \in Procs
    BY ListValue
  <1>2. x = IF preempted THEN Schedule(y, p, v) ELSE SetAt(y, p, None)
    BY DEF ListEnd
  <1> HIDE DEF y
  <1>3. /\ w \in Worlds /\ y \in Worlds /\ p \in States /\ None \notin Tasks
        /\ v # Unset
        /\ \A q \in Procs : w.at[q] \in Tasks \union {None}
    BY <1>1, WorldType, TasksAssumption DEF Good, States, Results, Unset
  <1>4. \A z \in Tasks : \A q : /\ Holds(y.task[z], q) <=> Holds(w.task[z], q)
                                /\ HoldsOnce(y.task[z], q) <=> HoldsOnce(w.task[z], q)
    BY <1>1 DEF Holds, HoldsOnce
  <1>5. Ended(y)
    BY <1>1 DEF Ended
  <1>6. w.at[p] = t /\ Idx(w.sched, p) = {} /\ PlaceIn(w.task[t].waiters, p) = {}
    <2>1. Holds(w.task[t], p)
      BY DEF Holds
    <2>2. w.at[p] = t /\ HoldsOnce(w.task[t], p) /\ Idx(w.sched, p) = {}
      BY <1>1, <2>1 DEF Waits
    <2> QED
      BY <2>2 DEF HoldsOnce
  <1>7. \A q \in Procs : q # p => ~ Holds(w.task[t], q)
    <2>1. w.task[t].waiters = <<>>
      BY DEF Good, Sound, FitTask
    <2> QED
      BY <2>1 DEF Holds, PlaceIn
  <1>8. \A z \in Tasks : y.task[z].value = Unset => ~ Holds(y.task[z], p)
    BY <1>1, <1>3, <1>4, <1>6 DEF Waits
  <1> HIDE DEF p, x
  <1>9. CASE preempted
    <2>1. x.task = y.task /\ Appended(x.sched, y.sched, p) /\ x.at = y.at
      BY <1>2, <1>3, <1>9, ScheduleIs
    <2>2. /\ Idx(x.sched, p) = {Len(w.sched) + 1}
          /\ \A q \in Procs : q # p => Idx(x.sched, q) = Idx(w.sched, q)
      <3>1. Idx(w.sched, p) = {}
        BY <1>6 DEF p
      <3> QED
        BY <1>1, <2>1, <3>1 DEF Appended
    <2>3. Ended(x)
      BY <1>5, <2>1 DEF Ended
    <2>4. ASSUME NEW q \in Procs
          PROVE  /\ \A i, j \in Idx(x.sched, q) : i = j
                 /\ \A z \in Tasks : x.task[z].value = Unset /\ Holds(x.task[z], q) =>
                      x.at[q] = z /\ HoldsOnce(x.task[z], q) /\ Idx(x.sched, q) = {}
                 /\ Idx(x.sched, q) # {} => x.at[q] # None
                 /\ x.at[q] # None => \/ Idx(x.sched, q) # {}
                                      \/ /\ x.task[x.at[q]].value = Unset
                                         /\ Holds(x.task[x.at[q]], q)
      <3>1. CASE q = p
        <4>1. \A z \in Tasks : x.task[z].value = Unset => ~ Holds(x.task[z], q)
          BY <1>8, <2>1, <3>1
        <4>2. Idx(x.sched, q) = {Len(w.sched) + 1}
          BY <2>2, <3>1
        <4>3. x.at[q] # None
          BY <1>1, <1>3, <1>6, <2>1, <3>1
        <4> QED
          BY <4>1, <4>2, <4>3
      <3>2. CASE q # p
        <4>1. /\ \A i, j \in Idx(w.sched, q) : i = j
              /\ \A z \in Tasks : w.task[z].value = Unset /\ Holds(w.task[z], q) =>
                   w.at[q] = z /\ HoldsOnce(w.task[z], q) /\ Idx(w.sched, q) = {}
              /\ Idx(w.sched, q) # {} => w.at[q] # None
              /\ w.at[q] # None => \/ Idx(w.sched, q) # {}
                                   \/ /\ w.task[w.at[q]].value = Unset
                                      /\ Holds(w.task[w.at[q]], q)
          BY DEF Waits
        <4>2. w.at[q] \in Tasks \union {None} /\ ~ Holds(w.task[t], q)
          BY <1>3, <1>7, <3>2
        <4>3. Idx(x.sched, q) = Idx(w.sched, q) /\ x.at[q] = w.at[q]
          BY <1>1, <2>1, <2>2, <3>2
        <4>4. \A z \in Tasks : x.task[z].value = Unset /\ Holds(x.task[z], q) =>
                x.at[q] = z /\ HoldsOnce(x.task[z], q) /\ Idx(x.sched, q) = {}
          BY <1>1, <1>3, <1>4, <2>1, <4>1, <4>3
        <4>5. w.at[q] # None /\ Idx(w.sched, q) = {} =>
                /\ x.task[x.at[q]].value = Unset
                /\ Holds(x.task[x.at[q]], q)
          BY <1>1, <1>4, <2>1, <4>1, <4>2, <4>3
        <4> QED
          BY <4>1, <4>3, <4>4, <4>5
      <3> QED
        BY <3>1, <3>2
    <2>5. Waits(x, {})
      BY <2>4 DEF Waits
    <2> QED
      BY <2>3, <2>5 DEF x
  <1>10. CASE ~ preempted
    <2>1. /\ \A q \in Procs : x.at[q] = IF q = p THEN None ELSE y.at[q]
          /\ x.sched = y.sched /\ x.task = y.task
      BY <1>1, <1>2, <1>3, <1>10, WithAt
    <2>2. Ended(x)
      BY <1>5, <2>1 DEF Ended
    <2>3. ASSUME NEW q \in Procs
          PROVE  /\ \A i, j \in Idx(x.sched, q) : i = j
                 /\ \A z \in Tasks : x.task[z].value = Unset /\ Holds(x.task[z], q) =>
                      x.at[q] = z /\ HoldsOnce(x.task[z], q) /\ Idx(x.sched, q) = {}
                 /\ Idx(x.sched, q) # {} => x.at[q] # None
                 /\ x.at[q] # None => \/ Idx(x.sched, q) # {}
                                      \/ /\ x.task[x.at[q]].value = Unset
                                         /\ Holds(x.task[x.at[q]], q)
      <3>1. CASE q = p
        BY <1>1, <1>3, <1>6, <1>8, <2>1, <3>1
      <3>2. CASE q # p
        <4>1. /\ \A i, j \in Idx(w.sched, q) : i = j
              /\ \A z \in Tasks : w.task[z].value = Unset /\ Holds(w.task[z], q) =>
                   w.at[q] = z /\ HoldsOnce(w.task[z], q) /\ Idx(w.sched, q) = {}
              /\ Idx(w.sched, q) # {} => w.at[q] # None
              /\ w.at[q] # None => \/ Idx(w.sched, q) # {}
                                   \/ /\ w.task[w.at[q]].value = Unset
                                      /\ Holds(w.task[w.at[q]], q)
          BY DEF Waits
        <4>2. w.at[q] \in Tasks \union {None} /\ ~ Holds(w.task[t], q)
          BY <1>3, <1>7, <3>2
        <4>3. Idx(x.sched, q) = Idx(w.sched, q) /\ x.at[q] = w.at[q]
          BY <1>1, <1>3, <2>1, <3>2
        <4>4. \A z \in Tasks : x.task[z].value = Unset /\ Holds(x.task[z], q) =>
                x.at[q] = z /\ HoldsOnce(x.task[z], q) /\ Idx(x.sched, q) = {}
          BY <1>1, <1>3, <1>4, <2>1, <4>1, <4>3
        <4>5. w.at[q] # None /\ Idx(w.sched, q) = {} =>
                /\ x.task[x.at[q]].value = Unset
                /\ Holds(x.task[x.at[q]], q)
          BY <1>1, <1>4, <2>1, <4>1, <4>2, <4>3
        <4> QED
          BY <4>1, <4>3, <4>4, <4>5
      <3> QED
        BY <3>1, <3>2
    <2>4. Waits(x, {})
      BY <2>3 DEF Waits
    <2> QED
      BY <2>2, <2>4 DEF x
  <1> QED
    BY <1>9, <1>10
------------------------------------------------------------------------------
(* A state is run.                                                           *)

\* x is what is left when task t was run in w.
Kept(x, w, T, t) ==
  /\ Good(x, T)
  /\ NoneLost /\ Slots(w, Due(w, t)) => Slots(x, 0)
  /\ NoneTwice /\ Waits(w, {}) /\ Ended(w) => Waits(x, {}) /\ Ended(x)
  /\ w.task[t].run \in Combined => \A y \in Tasks : x.task[y].run = w.task[y].run

LEMMA SetTaskKept ==
  ASSUME IsFiniteSet(Tasks),
         NEW T, NEW w, Good(w, T), NEW t \in Tasks, NEW v \in Results,
         w.task[t].run # "unborn", Arrived(w, t),
         NoneTwice /\ Ended(w) =>
           /\ w.task[t].value = Unset
           /\ w.task[t].run \in {"any", "list"} => w.task[t].remaining = 0
  PROVE  Kept(SetTask(w, t, v), w, T, t)
  <1>1. w \in Worlds /\ Sound(w, T)
    BY DEF Good
  <1>2. \A y \in Tasks : SetTask(w, t, v).task[y].run = w.task[y].run
    BY <1>1, SetTaskIs DEF OnlyTask
  <1>3. Good(SetTask(w, t, v), T)
    BY SetTaskGood
  <1>4. NoneLost /\ Slots(w, Due(w, t)) => Slots(SetTask(w, t, v), 0)
    BY SetTaskSlots
  <1>5. NoneTwice /\ Waits(w, {}) /\ Ended(w) =>
          Waits(SetTask(w, t, v), {}) /\ Ended(SetTask(w, t, v))
    BY SetTaskWaits
  <1> QED
    BY <1>2, <1>3, <1>4, <1>5 DEF Kept

LEMMA ComposedUnset ==
  ASSUME NEW T, NEW w, Good(w, T), NEW t \in Tasks, w.task[t].run = "composed",
         Arrived(w, t), NoneTwice
  PROVE  w.task[t].value = Unset
  <1>1. Sole(w, t)
    BY DEF Sole, NoneTwice
  <1> QED
    BY <1>1 DEF Arrived, Fresh

\* Who gives up no slot.
LEMMA NotDue ==
  ASSUME NEW T, NEW w, Good(w, T), NEW t \in Tasks, NoneLost,
         \/ w.task[t].run # "task"
         \/ ~ Sole(w, t)
         \/ Arrived(w, t) /\ w.task[t].value # Unset
  PROVE  Due(w, t) = 0
  BY SoleRuns DEF Due, Arrived, Fresh

LEMMA TaskRunKept ==
  ASSUME IsFiniteSet(Tasks),
         NEW T, NEW w, Good(w, T), NEW t \in Tasks, NEW v \in Results,
         w.task[t].run = "task", Arrived(w, t)
  PROVE  Kept(TaskRun(w, t, v), w, T, t)
  <1>1. CASE w.task[t].value = Unset
    BY <1>1, SetTaskKept DEF TaskRun
  <1>2. CASE w.task[t].value # Unset
    <2>1. NoneLost => Due(w, t) = 0
      BY <1>2, NotDue
    <2> QED
      BY <1>2, <2>1 DEF TaskRun, Kept, Combined
  <1> QED
    BY <1>1, <1>2

LEMMA ComposedRunKept ==
  ASSUME IsFiniteSet(Tasks),
         NEW T, NEW w, Good(w, T), NEW t \in Tasks, NEW v \in Results,
         w.task[t].run = "composed", Arrived(w, t)
  PROVE  Kept(ComposedRun(w, t, v), w, T, t)
  <1>1. Kept(CallHandler(w, t), w, T, t)
    <2>1. NoneLost => Due(w, t) = 0
      BY NotDue
    <2>2. /\ Good(CallHandler(w, t), T)
          /\ Slots(w, 0) => Slots(CallHandler(w, t), 0)
          /\ Waits(w, {}) => Waits(CallHandler(w, t), {})
          /\ Ended(w) => Ended(CallHandler(w, t))
      BY HandlerCalled
    <2> QED
      BY <2>1, <2>2 DEF Kept, Combined
  <1>2. Kept(SetTask(w, t, v), w, T, t)
    <2>1. NoneTwice => w.task[t].value = Unset
      BY ComposedUnset
    <2> QED
      BY <2>1, SetTaskKept
  <1>3. ComposedRun(w, t, v) \in {CallHandler(w, t), SetTask(w, t, v)}
    BY DEF ComposedRun, CallHandler
  <1> QED
    BY <1>1, <1>2, <1>3

LEMMA LeftIs ==
  ASSUME NEW w \in Worlds, NEW t \in Tasks, NEW v \in Results
  PROVE  LET r == w.task[t] IN
         /\ Left(r, v) \in Nat
         /\ r.remaining = 0 => Left(r, v) = 0
         /\ Ends(r, v) => r.remaining # 0
         /\ Ends(r, v) /\ r.run \in {"any", "list"} => Left(r, v) = 0
  <1>1. w.task[t].remaining \in Nat
    BY TaskType
  <1> QED
    BY <1>1 DEF Left, Ends

LEMMA SetRunKept ==
  ASSUME IsFiniteSet(Tasks),
         NEW T, NEW w, Good(w, T), NEW t \in Tasks, NEW v \in Results,
         w.task[t].run \in {"all", "any"}, Arrived(w, t)
  PROVE  Kept(SetRun(w, t, v), w, T, t)
  <1> DEFINE r == w.task[t]
             n == Left(r, v)
             x == SetLeft(w, t, n)
  <1>1. /\ n \in Nat /\ (r.remaining = 0 => n = 0)
        /\ Ends(r, v) => r.remaining # 0
        /\ Ends(r, v) /\ r.run \in {"any", "list"} => n = 0
    BY LeftIs DEF Good
  <1>2. SetRun(w, t, v) = IF Ends(r, v) THEN SetTask(x, t, v) ELSE x
    BY DEF SetRun, SetLeft
  <1> HIDE DEF n
  <1>3. /\ Good(x, T)
        /\ \A d : Slots(w, d) => Slots(x, d)
        /\ Waits(w, {}) => Waits(x, {})
        /\ Ended(w) => Ended(x)
        /\ \A y \in Tasks : x.task[y].run = w.task[y].run
        /\ x.task[t].caller = w.task[t].caller
        /\ x.task[t].value = w.task[t].value
        /\ x.task[t].remaining = n
        /\ Arrived(x, t)
    BY <1>1, CountDown
  <1> HIDE DEF x
  <1>4. Due(x, t) = Due(w, t) /\ (NoneLost => Due(w, t) = 0)
    BY <1>3, NotDue DEF Due
  <1>5. CASE ~ Ends(r, v)
    BY <1>2, <1>3, <1>4, <1>5 DEF Kept
  <1>6. CASE Ends(r, v)
    <2>1. /\ w.task[t].run \in {"all", "any"} /\ x.task[t].run = w.task[t].run
          /\ x.task[t].run # "unborn"
      BY <1>3
    <2>2. Good(SetTask(x, t, v), T)
      BY <1>3, <2>1, SetTaskGood
    <2>3. NoneLost /\ Slots(x, Due(x, t)) => Slots(SetTask(x, t, v), 0)
      BY <1>3, SetTaskSlots
    <2>4. Ended(w) => x.task[t].value = Unset /\ x.task[t].remaining = 0
      BY <1>1, <1>3, <1>6, <2>1 DEF Ended
    <2>5. Waits(w, {}) /\ Ended(w) =>
            Waits(SetTask(x, t, v), {}) /\ Ended(SetTask(x, t, v))
      BY <1>3, <2>4, SetTaskWaits
    <2>6. \A y \in Tasks : SetTask(x, t, v).task[y].run = x.task[y].run
      BY <1>3, SetTaskIs DEF OnlyTask, Good
    <2> QED
      BY <1>2, <1>3, <1>4, <1>6, <2>2, <2>3, <2>5, <2>6 DEF Kept
  <1> QED
    BY <1>5, <1>6

LEMMA ListRunKept ==
  ASSUME NEW T, NEW w, Good(w, T), NEW t \in Tasks, NEW v \in Results,
         NEW preempted \in BOOLEAN, w.task[t].run = "list", Arrived(w, t)
  PROVE  Kept(ListRun(w, t, v, preempted), w, T, t)
  <1> DEFINE r == w.task[t]
             n == Left(r, v)
             x == SetLeft(w, t, n)
  <1>1. /\ n \in Nat /\ (r.remaining = 0 => n = 0)
        /\ Ends(r, v) => r.remaining # 0 /\ n = 0
    BY LeftIs DEF Good
  <1>2. ListRun(w, t, v, preempted) =
          IF ~ Ends(r, v) THEN x
          ELSE LET y == SetValue(x, t, v)
               IN  IF preempted THEN Schedule(y, r.caller, v)
                   ELSE SetAt(y, r.caller, None)
    BY DEF ListRun, SetLeft, SetValue, SetAt
  <1> HIDE DEF n
  <1>3. /\ Good(x, T)
        /\ \A d : Slots(w, d) => Slots(x, d)
        /\ Waits(w, {}) => Waits(x, {})
        /\ Ended(w) => Ended(x)
        /\ \A y \in Tasks : x.task[y].run = w.task[y].run
        /\ x.task[t].caller = w.task[t].caller
        /\ x.task[t].value = w.task[t].value
        /\ x.task[t].remaining = n
    BY <1>1, CountDown
  <1> HIDE DEF x
  <1>4. NoneLost => Due(w, t) = 0
    BY NotDue
  <1>5. CASE ~ Ends(r, v)
    BY <1>2, <1>3, <1>4, <1>5 DEF Kept
  <1>6. CASE Ends(r, v)
    <2>1. ListRun(w, t, v, preempted) = ListEnd(x, t, v, preempted)
      BY <1>2, <1>3, <1>6 DEF ListEnd
    <2>2. /\ Good(ListEnd(x, t, v, preempted), T)
          /\ \A d : Slots(x, d) => Slots(ListEnd(x, t, v, preempted), d)
          /\ \A y \in Tasks : ListEnd(x, t, v, preempted).task[y].run = x.task[y].run
      BY <1>3, ListEndGood
    <2>3. Ended(w) => x.task[t].value = Unset /\ x.task[t].remaining = 0
      BY <1>1, <1>3, <1>6 DEF Ended
    <2>4. Waits(w, {}) /\ Ended(w) => /\ Waits(ListEnd(x, t, v, preempted), {})
                                      /\ Ended(ListEnd(x, t, v, preempted))
      BY <1>3, <2>3, ListEndWaits
    <2> QED
      BY <1>3, <1>4, <2>1, <2>2, <2>4 DEF Kept
  <1> QED
    BY <1>5, <1>6

LEMMA RunKept ==
  ASSUME IsFiniteSet(Tasks),
         NEW T, NEW w, Good(w, T), NEW t \in Tasks, NEW v \in Results,
         NEW preempted \in BOOLEAN, Ready(w, t)
  PROVE  /\ Kept(Run(w, t, v, preempted), w, T, t)
         /\ Kept(Schedule(w, t, v), w, T, t)
         /\ Kept(Continue(w, t, v, preempted), w, T, t)
  <1>1. Kept(Run(w, t, v, preempted), w, T, t)
    <2>1. Run(w, t, v, preempted) =
            CASE w.task[t].run = "task" -> TaskRun(w, t, v)
              [] w.task[t].run = "composed" -> ComposedRun(w, t, v)
              [] w.task[t].run = "list" -> ListRun(w, t, v, preempted)
              [] OTHER -> SetRun(w, t, v)
      BY TasksAssumption DEF Run
    <2>2. Arrived(w, t)
      BY DEF Ready
    <2>3. CASE w.task[t].run = "task"
      BY <2>1, <2>2, <2>3, TaskRunKept
    <2>4. CASE w.task[t].run = "composed"
      BY <2>1, <2>2, <2>4, ComposedRunKept
    <2>5. CASE w.task[t].run = "list"
      BY <2>1, <2>2, <2>5, ListRunKept
    <2>6. CASE w.task[t].run \in {"all", "any"}
      BY <2>1, <2>2, <2>6, SetRunKept
    <2> QED
      BY <2>3, <2>4, <2>5, <2>6 DEF Ready, Runnable, Combined
  <1>2. Kept(Schedule(w, t, v), w, T, t)
    <2>1. t \in States /\ w \in Worlds
      BY DEF States, Good
    <2>2. Schedule(w, t, v).task = w.task
      BY <2>1, ScheduleIs
    <2> QED
      BY <2>2, ScheduleGood, ScheduleSlots, ScheduleWaits DEF Kept
  <1> QED
    BY <1>1, <1>2 DEF Continue
------------------------------------------------------------------------------
(* A state waits for a task.                                                 *)

\* Record r is o with s among those who wait.
JoinedBy(r, o, s) ==
  /\ \A y \in States : Holds(r, y) <=> y = s \/ Holds(o, y)
  /\ \A y \in States : y # s /\ HoldsOnce(o, y) => HoldsOnce(r, y)
  /\ ~ Holds(o, s) => HoldsOnce(r, s)
  /\ \A y \in States : y # s => (r.caller = y <=> o.caller = y)
  /\ s # Queue /\ PlaceIn(o.waiters, Queue) = {} => PlaceIn(r.waiters, Queue) = {}
  /\ r.caller \in States

LEMMA AwaitHolds ==
  ASSUME NEW T, NEW w, Good(w, T), NEW t \in Tasks, NEW s \in States
  PROVE  JoinedBy(Await(w, s, t).task[t], w.task[t], s)
  <1> DEFINE o == w.task[t]
             r == Await(w, s, t).task[t]
  <1>1. w \in Worlds
    BY DEF Good
  <1>2. /\ o.caller = None => r.caller = s /\ r.waiters = o.waiters
        /\ o.caller # None => r.caller = o.caller /\ r.waiters = <<s>> \o o.waiters
    BY <1>1, AwaitIs DEF Awaited
  <1>3. /\ None \notin States /\ o.waiters \in Seq(States)
        /\ o.caller \in States \union {None}
    BY <1>1, TaskType, TasksAssumption DEF States
  <1>4. o.caller = None => o.waiters = <<>>
    BY DEF Good, Sound, FitTask
  <1> HIDE DEF o, r
  <1>5. CASE o.caller = None
    <2>1. \A y : PlaceIn(r.waiters, y) = {} /\ PlaceIn(o.waiters, y) = {}
      BY <1>2, <1>4, <1>5 DEF PlaceIn
    <2> QED
      BY <1>2, <1>3, <1>5, <2>1 DEF Holds, HoldsOnce, JoinedBy, o, r
  <1>6. CASE o.caller # None
    <2>1. PutFirst(<<s>> \o o.waiters, o.waiters, s)
      BY <1>3, PlaceFront
    <2> DEFINE q == r.waiters
    <2>2. q = <<s>> \o o.waiters /\ r.caller = o.caller
      BY <1>2, <1>6
    <2>3. PutFirst(q, o.waiters, s)
      BY <2>1, <2>2
    <2> HIDE DEF q
    <2>4. \A y \in States : Holds(r, y) <=> y = s \/ Holds(o, y)
      <3>1. PlaceIn(q, s) # {}
        BY <2>3 DEF PutFirst
      <3>2. \A y : y # s => (PlaceIn(q, y) # {} <=> PlaceIn(o.waiters, y) # {})
        BY <2>3 DEF PutFirst
      <3> QED
        BY <2>2, <3>1, <3>2 DEF Holds, q
    <2>5. \A y \in States : y # s /\ HoldsOnce(o, y) => HoldsOnce(r, y)
      BY <2>2, <2>3 DEF HoldsOnce, PutFirst, q
    <2>6. ~ Holds(o, s) => HoldsOnce(r, s)
      BY <2>2, <2>3 DEF Holds, HoldsOnce, PutFirst, q
    <2>7. s # Queue /\ PlaceIn(o.waiters, Queue) = {} => PlaceIn(r.waiters, Queue) = {}
      BY <2>3 DEF PutFirst, q
    <2> QED
      BY <1>3, <1>6, <2>2, <2>4, <2>5, <2>6, <2>7 DEF JoinedBy, o, r
  <1> QED
    BY <1>5, <1>6

LEMMA AwaitGood ==
  ASSUME NEW T, NEW w, Good(w, T), NEW t \in Tasks, NEW s \in States,
         s \in Procs \/ (s \in Tasks /\ w.task[s].run \in Combined),
         w.task[t].run \notin {"unborn", "list"}
  PROVE  LET x == Await(w, s, t) IN
         /\ Good(x, T) /\ \A d : Slots(w, d) => Slots(x, d)
         /\ \A y \in Tasks : x.task[y].run = w.task[y].run
         /\ \A y \in Tasks : x.task[y].value = w.task[y].value
         /\ \A y \in Tasks : x.task[y].caller = Queue <=> w.task[y].caller = Queue
         /\ x.sched = w.sched /\ x.at = w.at /\ x.calls = w.calls
         /\ x.pending = w.pending
         /\ Ended(w) => Ended(x)
  <1> DEFINE x == Await(w, s, t)
             o == w.task[t]
             r == x.task[t]
  <1>1. Awaited(x, w, s, t)
    BY AwaitIs DEF Good
  <1>2. JoinedBy(r, o, s)
    BY AwaitHolds
  <1> HIDE DEF x
  <1>11. /\ x \in Worlds /\ OnlyTask(x, w, t, r)
        /\ r.run = o.run /\ r.value = o.value /\ r.remaining = o.remaining
        /\ r.handlers = o.handlers
        /\ x.sched = w.sched /\ x.calls = w.calls /\ x.at = w.at
        /\ x.pending = w.pending /\ x.numRunning = w.numRunning
    BY <1>1 DEF Awaited
  <1>3. s # Queue /\ Queue \in States /\ None \notin States
    BY TasksAssumption DEF States
  <1> HIDE DEF x, o, r
  <1>4. /\ \A y \in Tasks : y # t => x.task[y] = w.task[y]
        /\ x.task[t] = r /\ w.task[t] = o
    BY <1>11 DEF OnlyTask, o, r
  <1>5. \A y \in Tasks :
          /\ x.task[y].run = w.task[y].run /\ x.task[y].value = w.task[y].value
          /\ x.task[y].remaining = w.task[y].remaining
          /\ x.task[y].caller = Queue <=> w.task[y].caller = Queue
    BY <1>11, <1>2, <1>3, <1>4 DEF JoinedBy
  <1>6. Sound(x, T)
    <2>1. ASSUME NEW y \in Tasks PROVE FitTask(x.task[y], x.calls[y])
      <3>1. FitTask(w.task[y], w.calls[y])
        BY DEF Good, Sound
      <3>2. CASE y # t
        BY <1>11, <1>4, <3>1, <3>2
      <3>3. CASE y = t
        <4>1. o.run \notin {"unborn", "list"}
          BY <1>4
        <4> QED
          BY <1>11, <1>2, <1>3, <1>4, <3>1, <3>3, <4>1 DEF FitTask, JoinedBy
      <3> QED
        BY <3>2, <3>3
    <2>2. \A y \in Tasks : PlaceIn(x.task[y].waiters, Queue) = {}
      BY <1>2, <1>3, <1>4 DEF Good, Sound, JoinedBy
    <2>3. \A y, z \in Tasks : Holds(x.task[y], z) => w.task[z].run \in Combined
      <3>1. \A y, z \in Tasks : Holds(w.task[y], z) => w.task[z].run \in Combined
        BY DEF Good, Sound
      <3>2. s \in Tasks => w.task[s].run \in Combined
        BY TasksAssumption
      <3> QED
        BY <1>2, <1>4, <3>1, <3>2 DEF States, JoinedBy
    <2> QED
      BY <1>11, <1>5, <2>1, <2>2, <2>3 DEF Good, Sound
  <1>7. Tokens(x, T)
    <2>1. \A y \in Tasks : Sole(x, y) => Sole(w, y)
      BY <1>5 DEF Sole
    <2> QED
      BY <1>11, <1>5, <2>1 DEF Good, Tokens, Quiet, Fresh
  <1>8. Busy(x) = Busy(w)
    BY <1>11, <1>5 DEF Busy, Quiet
  <1>9. \A d : Slots(w, d) => Slots(x, d)
    BY <1>11, <1>8 DEF Slots
  <1>10. Ended(w) => Ended(x)
    BY <1>5 DEF Ended
  <1> QED
    BY <1>11, <1>5, <1>6, <1>7, <1>9, <1>10 DEF Good, x

\* A combination waits for a sub task: no script state does anything.
LEMMA AwaitWaits ==
  ASSUME NEW T, NEW w, Good(w, T), NEW t \in Tasks, NEW s \in Tasks, Waits(w, {})
  PROVE  Waits(Await(w, s, t), {})
  <1> DEFINE x == Await(w, s, t)
             o == w.task[t]
             r == x.task[t]
  <1>1. s \in States /\ s \notin Procs /\ Procs \in SUBSET States
        /\ \A p \in Procs : w.at[p] \in Tasks \union {None}
    <2>1. w.at \in [Procs -> Tasks \union {None}]
      BY WorldType DEF Good
    <2>2. s \in States /\ s \notin Procs /\ Procs \in SUBSET States
      BY TasksAssumption DEF States
    <2> QED
      BY <2>1, <2>2
  <1>2. /\ OnlyTask(x, w, t, r) /\ r.value = o.value
        /\ x.sched = w.sched /\ x.at = w.at
    <2>1. w \in Worlds
      BY DEF Good
    <2>2. Awaited(x, w, s, t)
      BY <1>1, <2>1, AwaitIs
    <2> HIDE DEF x
    <2> QED
      BY <2>2 DEF Awaited
  <1>3. \A p \in Procs : /\ Holds(r, p) <=> Holds(o, p)
                         /\ HoldsOnce(o, p) => HoldsOnce(r, p)
    BY <1>1, AwaitHolds DEF JoinedBy
  <1> HIDE DEF x, r
  <1>4. \A y \in Tasks :
          /\ x.task[y].value = w.task[y].value
          /\ \A p \in Procs : /\ Holds(x.task[y], p) <=> Holds(w.task[y], p)
                              /\ HoldsOnce(w.task[y], p) => HoldsOnce(x.task[y], p)
    BY <1>2, <1>3 DEF OnlyTask
  <1>5. Waits(x, {})
    BY <1>1, <1>2, <1>4 DEF Waits
  <1> QED
    BY <1>5 DEF x

\* A script state that executes waits for a task without a value.
LEMMA WaitWaits ==
  ASSUME NEW T, NEW w, Good(w, T), NEW t \in Tasks, NEW p \in Procs,
         w.at[p] = None, w.task[t].value = Unset, Waits(w, {})
  PROVE  Waits(SetAt(Await(w, p, t), p, t), {})
  <1> DEFINE u == Await(w, p, t)
             x == SetAt(u, p, t)
             o == w.task[t]
             r == u.task[t]
  <1>1. p \in States /\ Procs \in SUBSET States /\ None \notin Tasks
        /\ \A q \in Procs : w.at[q] \in Tasks \union {None}
    <2>1. w.at \in [Procs -> Tasks \union {None}]
      BY WorldType DEF Good
    <2>2. p \in States /\ Procs \in SUBSET States /\ None \notin Tasks
      BY TasksAssumption DEF States
    <2> QED
      BY <2>1, <2>2
  <1>2. /\ u \in Worlds /\ OnlyTask(u, w, t, r) /\ r.value = o.value
        /\ u.sched = w.sched /\ u.at = w.at
    <2>1. w \in Worlds
      BY DEF Good
    <2>2. Awaited(u, w, p, t)
      BY <1>1, <2>1, AwaitIs
    <2> HIDE DEF u
    <2> QED
      BY <2>2 DEF Awaited
  <1>3. /\ \A q \in Procs : Holds(r, q) <=> q = p \/ Holds(o, q)
        /\ \A q \in Procs : q # p /\ HoldsOnce(o, q) => HoldsOnce(r, q)
        /\ ~ Holds(o, p) => HoldsOnce(r, p)
    BY <1>1, AwaitHolds DEF JoinedBy
  <1> HIDE DEF u, r
  <1>4. /\ \A q \in Procs : x.at[q] = IF q = p THEN t ELSE w.at[q]
        /\ x.sched = w.sched /\ x.task = u.task
    BY <1>2, WithAt
  <1> HIDE DEF x
  <1>5. /\ \A y \in Tasks : y # t => x.task[y] = w.task[y]
        /\ x.task[t] = r /\ r.value = Unset
    BY <1>2, <1>4 DEF OnlyTask
  <1>6. /\ Idx(w.sched, p) = {}
        /\ \A y \in Tasks : w.task[y].value = Unset => ~ Holds(w.task[y], p)
    BY <1>1 DEF Waits
  <1>7. ASSUME NEW q \in Procs
        PROVE  /\ \A i, j \in Idx(x.sched, q) : i = j
               /\ \A y \in Tasks : x.task[y].value = Unset /\ Holds(x.task[y], q) =>
                    x.at[q] = y /\ HoldsOnce(x.task[y], q) /\ Idx(x.sched, q) = {}
               /\ Idx(x.sched, q) # {} => x.at[q] # None
               /\ x.at[q] # None => \/ Idx(x.sched, q) # {}
                                    \/ /\ x.task[x.at[q]].value = Unset
                                       /\ Holds(x.task[x.at[q]], q)
    <2>1. CASE q = p
      BY <1>1, <1>3, <1>4, <1>5, <1>6, <2>1
    <2>2. CASE q # p
      <3>1. /\ \A i, j \in Idx(w.sched, q) : i = j
            /\ \A y \in Tasks : w.task[y].value = Unset /\ Holds(w.task[y], q) =>
                 w.at[q] = y /\ HoldsOnce(w.task[y], q) /\ Idx(w.sched, q) = {}
            /\ Idx(w.sched, q) # {} => w.at[q] # None
            /\ w.at[q] # None => \/ Idx(w.sched, q) # {}
                                 \/ /\ w.task[w.at[q]].value = Unset
                                    /\ Holds(w.task[w.at[q]], q)
        BY DEF Waits
      <3> QED
        BY <1>1, <1>3, <1>4, <1>5, <2>2, <3>1
    <2> QED
      BY <2>1, <2>2
  <1>8. Waits(x, {})
    BY <1>7 DEF Waits
  <1> QED
    BY <1>8 DEF x, u

\* What a combination keeps while its sub tasks are called: x comes from w.
Stays(x, w, T) ==
  /\ Good(x, T)
  /\ \A y \in Tasks : x.task[y].run = w.task[y].run
  /\ NoneLost => Slots(x, 0)
  /\ NoneTwice => Waits(x, {}) /\ Ended(x)

LEMMA CallTaskStays ==
  ASSUME IsFiniteSet(Tasks), NEW T, NEW w, NEW x, Stays(x, w, T),
         NEW t \in Tasks, w.task[t].run \in Combined,
         NEW y \in Tasks, w.task[y].run \notin {"unborn", "list"},
         NEW preempted \in BOOLEAN
  PROVE  Stays(CallTask(x, t, y, preempted), w, T)
  <1>1. /\ Good(x, T) /\ \A z \in Tasks : x.task[z].run = w.task[z].run
        /\ NoneLost => Slots(x, 0)
        /\ NoneTwice => Waits(x, {}) /\ Ended(x)
    BY DEF Stays
  <1>2. ~ Sole(x, t) /\ x.task[t].run \in Combined /\ x.task[t].run # "task"
    <2>1. x.task[t].run \in Combined /\ x.task[t].run \notin {"task", "composed"}
      BY <1>1 DEF Combined
    <2> QED
      BY <1>1, <2>1, SoleRuns
  <1>3. CASE x.task[y].value # Unset
    <2> DEFINE v == x.task[y].value
               z == Continue(x, t, v, preempted)
    <2>1. v \in Results
      BY <1>1, <1>3, TaskType DEF Good
    <2>2. Ready(x, t)
      BY <1>2 DEF Ready, Arrived, Runnable
    <2> HIDE DEF v
    <2>3. Kept(z, x, T, t)
      BY <1>1, <2>1, <2>2, RunKept
    <2>4. NoneLost => Due(x, t) = 0
      BY <1>1, <1>2, NotDue
    <2> HIDE DEF z
    <2>5. Stays(z, w, T)
      BY <1>1, <1>2, <2>3, <2>4 DEF Kept, Stays
    <2>6. CallTask(x, t, y, preempted) = z
      BY <1>3 DEF CallTask, v, z
    <2> QED
      BY <2>5, <2>6
  <1>4. CASE x.task[y].value = Unset
    <2> DEFINE z == Await(x, t, y)
    <2>1. t \in States /\ x.task[y].run \notin {"unborn", "list"}
      BY <1>1 DEF States
    <2>2. /\ Good(z, T) /\ \A d : Slots(x, d) => Slots(z, d)
          /\ \A a \in Tasks : z.task[a].run = x.task[a].run
          /\ Ended(x) => Ended(z)
      BY <1>1, <1>2, <2>1, AwaitGood
    <2>3. Waits(x, {}) => Waits(z, {})
      BY <1>1, AwaitWaits
    <2> HIDE DEF z
    <2>4. Stays(z, w, T)
      BY <1>1, <2>2, <2>3 DEF Stays
    <2> QED
      BY <1>4, <2>4 DEF CallTask, z
  <1> QED
    BY <1>3, <1>4

LEMMA CallAllKept ==
  ASSUME IsFiniteSet(Tasks), NEW T, NEW w, Stays(w, w, T),
         NEW t \in Tasks, w.task[t].run \in Combined, w.task[t].subs \in Seq(Tasks),
         \A i \in 1 .. Len(w.task[t].subs) :
           w.task[w.task[t].subs[i]].run \notin {"unborn", "list"},
         NEW k \in Nat
  PROVE  Stays(CallAll(w, t, k), w, T)
  <1> DEFINE G == {x \in Worlds : Stays(x, w, T)}
             subs == w.task[t].subs
  <1>1. w \in G /\ \A x : Stays(x, w, T) => x \in G
    BY DEF Stays, Good
  <1>2. ASSUME NEW x \in G, NEW i \in 1 .. Len(subs)
        PROVE  CallTask(x, t, subs[i], i > k) \in G
    <2>1. subs[i] \in Tasks /\ w.task[subs[i]].run \notin {"unborn", "list"}
      OBVIOUS
    <2>2. Stays(x, w, T) /\ (i > k) \in BOOLEAN
      OBVIOUS
    <2> HIDE DEF subs
    <2>3. Stays(CallTask(x, t, subs[i], i > k), w, T)
      BY <2>1, <2>2, CallTaskStays
    <2> QED
      BY <1>1, <2>3
  <1> HIDE DEF G
  <1>3. CallAll(w, t, k) \in G
    BY <1>1, <1>2, CallAllStays
  <1> QED
    BY <1>3 DEF G
------------------------------------------------------------------------------
(* A task is made.                                                           *)

\* x is w with the new task t, for which the functions of c are called.
Made(x, w, t, r, c) ==
  /\ x \in Worlds /\ OnlyTask(x, w, t, r) /\ x.sched = w.sched
  /\ \A y \in Tasks : x.calls[y] = IF y = t THEN c ELSE w.calls[y]
  /\ w.task[t].run = "unborn"
  /\ r.value = Unset /\ r.waiters = <<>> /\ FitTask(r, c) /\ c \subseteq {"fn"}

LEMMA UnbornIs ==
  ASSUME NEW T, NEW w, Good(w, T), NEW t \in Tasks, w.task[t].run = "unborn"
  PROVE  /\ Idx(w.sched, t) = {} /\ t \notin T /\ PlaceIn(w.pending, t) = {}
         /\ w.calls[t] = {} /\ w.task[t].caller = None /\ w.task[t].waiters = <<>>
         /\ \A y \in Tasks : ~ Holds(w.task[y], t)
         /\ \A p \in States : ~ Holds(w.task[t], p)
  <1>1. FitTask(w.task[t], w.calls[t])
    BY DEF Good, Sound
  <1>2. w.task[t].run \notin Runnable /\ w.task[t].run \notin Combined
    BY DEF Runnable, Combined
  <1>3. w.calls[t] = {} /\ w.task[t].caller = None /\ w.task[t].waiters = <<>>
    BY <1>1 DEF FitTask
  <1>4. None \notin States /\ None # Queue
    BY TasksAssumption DEF States
  <1>5. \A p \in States : ~ Holds(w.task[t], p)
    BY <1>3, <1>4 DEF Holds, PlaceIn
  <1>6. /\ Idx(w.sched, t) = {} /\ t \notin T
        /\ \A y \in Tasks : ~ Holds(w.task[y], t)
    BY <1>2 DEF Good, Sound
  <1>7. PlaceIn(w.pending, t) = {}
    BY <1>3, <1>4 DEF Good, Sound
  <1> QED
    BY <1>3, <1>5, <1>6, <1>7

LEMMA MakeGood ==
  ASSUME NEW T, NEW w, Good(w, T), NEW t \in Tasks, NEW r, NEW c, NEW x,
         Made(x, w, t, r, c), r.caller \in Procs \union {None, Queue},
         \/ x.pending = w.pending
         \/ x.pending = Append(w.pending, t) /\ r.caller = Queue /\ c = {}
  PROVE  Good(x, T)
  <1>1. /\ x \in Worlds /\ x.sched = w.sched
        /\ \A y \in Tasks : y # t => x.task[y] = w.task[y]
        /\ x.task[t] = r
        /\ \A y \in Tasks : x.calls[y] = IF y = t THEN c ELSE w.calls[y]
        /\ w.task[t].run = "unborn"
        /\ r.value = Unset /\ r.waiters = <<>> /\ FitTask(r, c) /\ c \subseteq {"fn"}
    BY DEF Made, OnlyTask
  <1>2. /\ Idx(w.sched, t) = {} /\ t \notin T /\ PlaceIn(w.pending, t) = {}
        /\ \A y \in Tasks : ~ Holds(w.task[y], t)
    BY <1>1, UnbornIs
  <1>3. /\ \A y \in Tasks : y # t => PlaceIn(x.pending, y) = PlaceIn(w.pending, y)
        /\ \A i, j \in PlaceIn(x.pending, t) : i = j
        /\ PlaceIn(x.pending, t) # {} => r.caller = Queue /\ c = {}
    <2>1. CASE x.pending = w.pending
      BY <1>2, <2>1
    <2>2. CASE x.pending = Append(w.pending, t) /\ r.caller = Queue /\ c = {}
      <3>1. w.pending \in Seq(Tasks)
        BY WorldType DEF Good
      <3>2. /\ \A y : y # t => PlaceIn(Append(w.pending, t), y) = PlaceIn(w.pending, y)
            /\ PlaceIn(Append(w.pending, t), t) =
                 PlaceIn(w.pending, t) \union {Len(w.pending) + 1}
        BY <3>1, PlaceAppend
      <3> QED
        BY <1>2, <2>2, <3>2
    <2> QED
      BY <2>1, <2>2
  <1>4. \A y \in Tasks : ~ Holds(r, y) /\ PlaceIn(r.waiters, Queue) = {}
    BY <1>1, TasksAssumption DEF Holds, PlaceIn
  <1>5. Sound(x, T)
    <2>1. \A y \in Tasks : FitTask(x.task[y], x.calls[y])
      BY <1>1 DEF Good, Sound
    <2>2. \A y \in Tasks : PlaceIn(x.task[y].waiters, Queue) = {}
      BY <1>1, <1>4 DEF Good, Sound
    <2>3. \A y, z \in Tasks : Holds(x.task[y], z) => x.task[z].run \in Combined
      <3>1. \A y, z \in Tasks : Holds(w.task[y], z) => w.task[z].run \in Combined
        BY DEF Good, Sound
      <3> QED
        BY <1>1, <1>2, <1>4, <3>1
    <2>4. \A y \in Tasks : Idx(x.sched, y) # {} \/ y \in T => x.task[y].run \in Runnable
      BY <1>1, <1>2 DEF Good, Sound
    <2>5. \A y \in Tasks : PlaceIn(x.pending, y) # {} => x.task[y].caller = Queue
      BY <1>1, <1>3 DEF Good, Sound
    <2> QED
      BY <2>1, <2>2, <2>3, <2>4, <2>5 DEF Sound
  <1>6. Tokens(x, T)
    <2> SUFFICES ASSUME NEW y \in Tasks, Sole(x, y)
                 PROVE  /\ y \notin T
                        /\ x.calls[y] \subseteq {"fn"}
                        /\ x.calls[y] # {} => Idx(x.sched, y) = {}
                        /\ \A i, j \in Idx(x.sched, y) : i = j
                        /\ \A i, j \in PlaceIn(x.pending, y) : i = j
                        /\ ~ Quiet(x, y) => Fresh(x, y)
                        /\ PlaceIn(x.pending, y) # {} => x.task[y].value = Unset
      BY DEF Tokens
    <2>1. CASE y = t
      BY <1>1, <1>2, <1>3, <2>1 DEF Quiet, Fresh
    <2>2. CASE y # t
      <3>1. Sole(w, y)
        BY <1>1, <2>2 DEF Sole
      <3>2. /\ y \notin T
            /\ w.calls[y] \subseteq {"fn"}
            /\ w.calls[y] # {} => Idx(w.sched, y) = {}
            /\ \A i, j \in Idx(w.sched, y) : i = j
            /\ \A i, j \in PlaceIn(w.pending, y) : i = j
            /\ ~ Quiet(w, y) => Fresh(w, y)
            /\ PlaceIn(w.pending, y) # {} => w.task[y].value = Unset
        BY <3>1 DEF Good, Tokens
      <3> QED
        BY <1>1, <1>3, <2>2, <3>2 DEF Quiet, Fresh
    <2> QED
      BY <2>1, <2>2
  <1> QED
    BY <1>1, <1>5, <1>6 DEF Good

LEMMA MakeSlots ==
  ASSUME IsFiniteSet(Tasks), NEW T, NEW w, Good(w, T), NEW t \in Tasks,
         NEW r, NEW c, NEW x, Made(x, w, t, r, c), Slots(w, 0),
         \/ r.caller # Queue /\ x.pending = w.pending /\ x.numRunning = w.numRunning
         \/ /\ r.caller = Queue /\ c = {"fn"} /\ w.numRunning < MaxRunning
            /\ x.pending = w.pending /\ x.numRunning = w.numRunning + 1
         \/ /\ r.caller = Queue /\ c = {} /\ ~ (w.numRunning < MaxRunning)
            /\ x.pending = Append(w.pending, t) /\ x.numRunning = w.numRunning
  PROVE  Slots(x, 0)
  <1>1. /\ x.sched = w.sched
        /\ \A y \in Tasks : y # t => x.task[y] = w.task[y]
        /\ x.task[t] = r
        /\ \A y \in Tasks : x.calls[y] = IF y = t THEN c ELSE w.calls[y]
        /\ w.task[t].run = "unborn"
    BY DEF Made, OnlyTask
  <1>2. /\ Idx(w.sched, t) = {} /\ w.task[t].caller = None /\ None # Queue
    <2>1. None # Queue
      BY TasksAssumption
    <2>2. Idx(w.sched, t) = {} /\ w.task[t].caller = None
      BY <1>1, UnbornIs
    <2> QED
      BY <2>1, <2>2
  <1>3. /\ w.numRunning \in Int /\ MaxRunning \in Nat
        /\ w.pending \in Seq(Tasks) /\ Append(w.pending, t) # <<>>
        /\ w.sched \in Seq(Entries)
    <2>1. w.numRunning \in Int /\ w.pending \in Seq(Tasks) /\ w.sched \in Seq(Entries)
      BY WorldType DEF Good
    <2>2. Append(w.pending, t) # <<>>
      BY <2>1
    <2> QED
      BY <2>1, <2>2, TasksAssumption
  <1>4. t \notin Busy(w)
    BY <1>2 DEF Busy
  <1>5. /\ Cardinality(Busy(w)) \in Nat /\ IsFiniteSet(Busy(w))
        /\ Cardinality(Idx(w.sched, Queue)) \in Nat
    BY <1>3, FiniteBusy, IdxFinite
  <1>6. /\ w.numRunning = Cardinality(Busy(w)) + Cardinality(Idx(w.sched, Queue))
        /\ w.numRunning <= MaxRunning
        /\ w.pending # <<>> => w.numRunning = MaxRunning
    BY <1>5 DEF Slots
  <1>7. CASE r.caller = Queue /\ c # {}
    <2>1. Busy(x) = Busy(w) \union {t}
      BY <1>1, <1>7 DEF Busy, Quiet
    <2>2. Cardinality(Busy(x)) = Cardinality(Busy(w)) + 1
      BY <1>4, <1>5, <2>1, FS_AddElement
    <2>3. /\ w.numRunning < MaxRunning /\ x.pending = w.pending
          /\ x.numRunning = w.numRunning + 1
      BY <1>7
    <2>4. x.pending = <<>>
      BY <1>3, <1>6, <2>3
    <2>5. x.numRunning = Cardinality(Busy(x)) + Cardinality(Idx(x.sched, Queue)) + 0
      BY <1>1, <1>3, <1>5, <1>6, <2>2, <2>3
    <2>6. x.numRunning <= MaxRunning
      BY <1>3, <2>3
    <2> QED
      BY <2>4, <2>5, <2>6 DEF Slots
  <1>8. CASE r.caller # Queue \/ c = {}
    <2>1. Busy(x) = Busy(w)
      BY <1>1, <1>2, <1>8 DEF Busy, Quiet
    <2>2. /\ x.numRunning = w.numRunning
          /\ x.pending = w.pending \/ ~ (w.numRunning < MaxRunning)
      BY <1>8
    <2>3. x.numRunning = Cardinality(Busy(x)) + Cardinality(Idx(x.sched, Queue)) + 0
      BY <1>1, <1>5, <1>6, <2>1, <2>2
    <2>4. x.pending # <<>> => x.numRunning = MaxRunning
      BY <1>3, <1>6, <2>2
    <2> QED
      BY <1>6, <2>2, <2>3, <2>4 DEF Slots
  <1> QED
    BY <1>7, <1>8

LEMMA MakeWaits ==
  ASSUME NEW T, NEW w, Good(w, T), NEW t \in Tasks,
         NEW r, NEW c, NEW x, Made(x, w, t, r, c), r.run # "all",
         \A q \in Procs : /\ r.caller = q => w.at[q] = None /\ x.at[q] = t
                          /\ r.caller # q => x.at[q] = w.at[q],
         Waits(w, {}), Ended(w)
  PROVE  Waits(x, {}) /\ Ended(x)
  <1>1. /\ x.sched = w.sched
        /\ \A y \in Tasks : y # t => x.task[y] = w.task[y]
        /\ x.task[t] = r /\ r.value = Unset /\ r.waiters = <<>>
        /\ w.task[t].run = "unborn"
    BY DEF Made, OnlyTask
  <1>2. Ended(x)
    BY <1>1 DEF Ended
  <1>3. \A q : /\ Holds(r, q) <=> r.caller = q
               /\ HoldsOnce(r, q)
    BY <1>1 DEF Holds, HoldsOnce, PlaceIn
  <1>4. \A q \in Procs : ~ Holds(w.task[t], q)
    BY <1>1, UnbornIs DEF States
  <1>5. None \notin Tasks /\ \A q \in Procs : w.at[q] \in Tasks \union {None}
    BY TasksAssumption, WorldType DEF Good
  <1>6. ASSUME NEW q \in Procs
        PROVE  /\ \A i, j \in Idx(x.sched, q) : i = j
               /\ \A y \in Tasks : x.task[y].value = Unset /\ Holds(x.task[y], q) =>
                    x.at[q] = y /\ HoldsOnce(x.task[y], q) /\ Idx(x.sched, q) = {}
               /\ Idx(x.sched, q) # {} => x.at[q] # None
               /\ x.at[q] # None => \/ Idx(x.sched, q) # {}
                                    \/ /\ x.task[x.at[q]].value = Unset
                                       /\ Holds(x.task[x.at[q]], q)
    <2>1. /\ \A i, j \in Idx(w.sched, q) : i = j
          /\ \A y \in Tasks : w.task[y].value = Unset /\ Holds(w.task[y], q) =>
               w.at[q] = y /\ HoldsOnce(w.task[y], q) /\ Idx(w.sched, q) = {}
          /\ Idx(w.sched, q) # {} => w.at[q] # None
          /\ w.at[q] # None => \/ Idx(w.sched, q) # {}
                               \/ /\ w.task[w.at[q]].value = Unset
                                  /\ Holds(w.task[w.at[q]], q)
      BY DEF Waits
    <2>2. CASE r.caller = q
      <3>1. w.at[q] = None /\ x.at[q] = t /\ Idx(w.sched, q) = {}
        BY <2>1, <2>2
      <3>2. \A y \in Tasks : x.task[y].value = Unset /\ Holds(x.task[y], q) => y = t
        BY <1>1, <1>5, <2>1, <3>1
      <3> QED
        BY <1>1, <1>3, <1>5, <2>2, <3>1, <3>2
    <2>3. CASE r.caller # q
      <3>1. x.at[q] = w.at[q] /\ ~ Holds(r, q)
        BY <1>3, <2>3
      <3>2. \A y \in Tasks : x.task[y].value = Unset /\ Holds(x.task[y], q) =>
               x.at[q] = y /\ HoldsOnce(x.task[y], q) /\ Idx(x.sched, q) = {}
        BY <1>1, <2>1, <3>1
      <3>3. x.at[q] # None /\ Idx(x.sched, q) = {} =>
              /\ x.task[x.at[q]].value = Unset
              /\ Holds(x.task[x.at[q]], q)
        BY <1>1, <1>4, <1>5, <2>1, <3>1
      <3> QED
        BY <1>1, <2>1, <3>1, <3>2, <3>3
    <2> QED
      BY <2>2, <2>3
  <1>7. Waits(x, {})
    BY <1>6 DEF Waits
  <1> QED
    BY <1>2, <1>7
------------------------------------------------------------------------------
(* Functions return, and the scheduler's queue is served.                    *)

\* One of the functions that were called for task t returns.
LEMMA DropCall ==
  ASSUME IsFiniteSet(Tasks), NEW T, NEW w, Good(w, T), NEW t \in Tasks,
         NEW f \in w.calls[t]
  PROVE  LET x == [w EXCEPT !.calls[t] = @ \ {f}] IN
         /\ Good(x, T) /\ Ready(x, t)
         /\ NoneLost /\ Slots(w, 0) => Slots(x, Due(x, t))
         /\ Waits(w, {}) => Waits(x, {})
         /\ Ended(w) => Ended(x)
  <1> DEFINE c == w.calls[t] \ {f}
             x == [w EXCEPT !.calls[t] = @ \ {f}]
  <1>1. w \in Worlds /\ c \in SUBSET {"fn", "handler"}
    BY WorldType DEF Good
  <1>2. x = SetCalls(w, t, c)
    BY <1>1 DEF Worlds, SetCalls
  <1> HIDE DEF x
  <1>3. /\ x \in Worlds
        /\ \A y \in Tasks : x.calls[y] = IF y = t THEN c ELSE w.calls[y]
        /\ x.sched = w.sched /\ x.task = w.task /\ x.at = w.at
        /\ x.pending = w.pending /\ x.numRunning = w.numRunning
    BY <1>1, <1>2, WithCalls
  <1>4. w.task[t].run \in {"task", "composed"}
    <2>1. FitTask(w.task[t], w.calls[t])
      BY DEF Good, Sound
    <2>2. w.calls[t] # {}
      OBVIOUS
    <2> QED
      BY ONLY <2>1, <2>2 DEF FitTask
  <1>5. Sound(x, T)
    <2>1. ASSUME NEW y \in Tasks PROVE FitTask(x.task[y], x.calls[y])
      <3>1. FitTask(w.task[y], w.calls[y])
        BY DEF Good, Sound
      <3>2. x.calls[y] # {} => w.calls[y] # {}
        BY <1>3
      <3>3. w.calls[y] = {} => x.calls[y] = {}
        BY <1>3
      <3> QED
        BY <1>3, <3>1, <3>2, <3>3 DEF FitTask
    <2> QED
      BY <1>3, <2>1 DEF Good, Sound
  <1>6. Tokens(x, T)
    <2>1. \A y \in Tasks : Sole(x, y) <=> Sole(w, y)
      BY <1>3 DEF Sole
    <2>2. \A y \in Tasks : x.calls[y] \subseteq w.calls[y]
      BY <1>3
    <2> QED
      BY <1>3, <2>1, <2>2 DEF Good, Tokens, Quiet, Fresh
  <1>7. Arrived(x, t)
    <2> SUFFICES ASSUME Sole(w, t) PROVE Quiet(x, t) /\ Fresh(x, t)
      BY <1>3 DEF Arrived, Sole
    <2>1. /\ w.calls[t] \subseteq {"fn"} /\ Idx(w.sched, t) = {} /\ Fresh(w, t)
      BY DEF Good, Tokens, Quiet
    <2>2. x.calls[t] = {}
      BY <1>3, <2>1
    <2> QED
      BY <1>3, <2>1, <2>2 DEF Quiet, Fresh
  <1>8. Ready(x, t)
    BY <1>3, <1>4, <1>7 DEF Ready, Runnable
  <1>9. ASSUME NoneLost, Slots(w, 0) PROVE Slots(x, Due(x, t))
    <2>1. CASE w.task[t].caller = Queue
      <3>1. Sole(x, t) /\ Quiet(x, t)
        BY <1>3, <1>7, <1>9, <2>1 DEF Sole, NoneLost, Arrived
      <3>2. Busy(x) = Busy(w) \ {t} /\ t \in Busy(w)
        BY <1>3, <2>1, <3>1 DEF Busy, Quiet
      <3>3. Cardinality(Busy(x)) = Cardinality(Busy(w)) - 1
        BY <3>2, FiniteBusy, FS_RemoveElement
      <3>4. Due(x, t) = 1 /\ Cardinality(Busy(w)) \in Nat
            /\ Cardinality(Idx(w.sched, Queue)) \in Nat
        BY <1>1, <1>3, <2>1, FiniteBusy, IdxFinite, WorldType DEF Due
      <3> QED
        BY <1>3, <1>9, <3>3, <3>4 DEF Slots
    <2>2. CASE w.task[t].caller # Queue
      <3>1. Busy(x) = Busy(w)
        BY <1>3, <2>2 DEF Busy, Quiet
      <3>2. Due(x, t) = 0
        BY <1>3, <2>2 DEF Due
      <3> QED
        BY <1>3, <1>9, <3>1, <3>2 DEF Slots
    <2> QED
      BY <2>1, <2>2
  <1>10. (Waits(w, {}) => Waits(x, {})) /\ (Ended(w) => Ended(x))
    BY <1>3 DEF Waits, Ended
  <1> QED
    BY <1>3, <1>5, <1>6, <1>8, <1>9, <1>10 DEF Good, x

\* r is the scheduler's queue s without its first entry, which was for e.
Popped(r, s, e) ==
  /\ \A y : y # e => (Idx(r, y) = {} <=> Idx(s, y) = {})
  /\ \A y : (\A i, j \in Idx(s, y) : i = j) => \A i, j \in Idx(r, y) : i = j
  /\ Idx(s, e) # {}
  /\ (\A i, j \in Idx(s, e) : i = j) => Idx(r, e) = {}

LEMMA PoppedIs ==
  ASSUME NEW s \in Seq(Entries), s # <<>>
  PROVE  Popped(Tail(s), s, Head(s)[1])
  <1> DEFINE r == Tail(s)
             e == Head(s)[1]
  <1>1. /\ \A x : \A i \in Idx(r, x) : i + 1 \in Idx(s, x) /\ i \in Nat
        /\ \A x : \A i \in Idx(s, x) : i = 1 \/ i - 1 \in Idx(r, x)
        /\ \A x : x # e => 1 \notin Idx(s, x)
        /\ 1 \in Idx(s, e)
    BY IdxTail
  <1> HIDE DEF r, e
  <1>2. \A y : y # e => (Idx(r, y) = {} <=> Idx(s, y) = {})
    BY <1>1
  <1>3. ASSUME NEW y, \A i, j \in Idx(s, y) : i = j, NEW i \in Idx(r, y), NEW j \in Idx(r, y)
        PROVE  i = j
    <2>1. i + 1 \in Idx(s, y) /\ j + 1 \in Idx(s, y) /\ i \in Nat /\ j \in Nat
      BY <1>1
    <2>2. i + 1 = j + 1
      BY <1>3, <2>1
    <2> QED
      BY <2>1, <2>2
  <1>4. ASSUME \A i, j \in Idx(s, e) : i = j, NEW i \in Idx(r, e) PROVE FALSE
    <2>1. i + 1 \in Idx(s, e) /\ i \in Nat /\ 1 \in Idx(s, e)
      BY <1>1
    <2>2. i + 1 = 1
      BY <1>4, <2>1
    <2>3. i = 0
      BY <2>1, <2>2
    <2>4. 0 \notin Idx(r, e)
      BY DEF Idx
    <2> QED
      BY <2>3, <2>4
  <1>5. Popped(r, s, e)
    BY <1>1, <1>2, <1>3, <1>4 DEF Popped
  <1> QED
    BY <1>5 DEF r, e

Pop(w) == [w EXCEPT !.sched = Tail(@)]

LEMMA PopIs ==
  ASSUME NEW w \in Worlds, w.sched # <<>>
  PROVE  LET x == Pop(w)
             e == Head(w.sched)
         IN  /\ x \in Worlds /\ x.sched = Tail(w.sched)
             /\ Popped(x.sched, w.sched, e[1])
             /\ e[1] \in States /\ e[2] \in Results
             /\ x.task = w.task /\ x.calls = w.calls /\ x.at = w.at
             /\ x.pending = w.pending /\ x.numRunning = w.numRunning
             /\ \A y : Cardinality(Idx(w.sched, y)) =
                         Cardinality(Idx(x.sched, y)) + IF e[1] = y THEN 1 ELSE 0
  <1> DEFINE x == Pop(w)
             e == Head(w.sched)
  <1>1. w.sched \in Seq(Entries)
    BY WorldType
  <1>2. Tail(w.sched) \in Seq(Entries) /\ e \in Entries
    BY <1>1, IdxTail
  <1>3. /\ x \in Worlds /\ x.sched = Tail(w.sched)
        /\ x.task = w.task /\ x.calls = w.calls /\ x.at = w.at
        /\ x.pending = w.pending /\ x.numRunning = w.numRunning
    BY <1>2 DEF Pop, Worlds
  <1>4. e[1] \in States /\ e[2] \in Results
    BY <1>2 DEF Entries
  <1>5. Popped(Tail(w.sched), w.sched, e[1])
    BY <1>1, PoppedIs
  <1>6. \A y : Cardinality(Idx(w.sched, y)) =
                 Cardinality(Idx(Tail(w.sched), y)) + IF e[1] = y THEN 1 ELSE 0
    BY <1>1, CountTail
  <1> HIDE DEF x, e
  <1> QED
    BY <1>3, <1>4, <1>5, <1>6 DEF x, e

LEMMA PopGood ==
  ASSUME NEW T, NEW w, Good(w, T), w.sched # <<>>
  PROVE  LET x == Pop(w)
             e == Head(w.sched)[1]
         IN  Good(x, T) /\ (e \in Tasks => Ready(x, e))
  <1> DEFINE x == Pop(w)
             e == Head(w.sched)[1]
  <1>1. w \in Worlds
    BY DEF Good
  <1>2. /\ x \in Worlds /\ Popped(x.sched, w.sched, e)
        /\ x.task = w.task /\ x.calls = w.calls /\ x.at = w.at
        /\ x.pending = w.pending
    BY <1>1, PopIs
  <1> HIDE DEF x, e
  <1>3. \A y : Idx(x.sched, y) # {} => Idx(w.sched, y) # {}
    BY <1>2 DEF Popped
  <1>4. Sound(x, T)
    BY <1>2, <1>3 DEF Good, Sound
  <1>5. Tokens(x, T)
    <2> SUFFICES ASSUME NEW y \in Tasks, Sole(x, y)
                 PROVE  /\ y \notin T
                        /\ x.calls[y] \subseteq {"fn"}
                        /\ x.calls[y] # {} => Idx(x.sched, y) = {}
                        /\ \A i, j \in Idx(x.sched, y) : i = j
                        /\ \A i, j \in PlaceIn(x.pending, y) : i = j
                        /\ ~ Quiet(x, y) => Fresh(x, y)
                        /\ PlaceIn(x.pending, y) # {} => x.task[y].value = Unset
      BY DEF Tokens
    <2>1. Sole(w, y)
      BY <1>2 DEF Sole
    <2>2. /\ y \notin T
          /\ w.calls[y] \subseteq {"fn"}
          /\ w.calls[y] # {} => Idx(w.sched, y) = {}
          /\ \A i, j \in Idx(w.sched, y) : i = j
          /\ \A i, j \in PlaceIn(w.pending, y) : i = j
          /\ ~ Quiet(w, y) => Fresh(w, y)
          /\ PlaceIn(w.pending, y) # {} => w.task[y].value = Unset
      BY <2>1 DEF Good, Tokens
    <2>3. \A i, j \in Idx(x.sched, y) : i = j
      BY <1>2, <2>2 DEF Popped
    <2> QED
      BY <1>2, <1>3, <2>2, <2>3 DEF Quiet, Fresh
  <1>6. ASSUME e \in Tasks PROVE Ready(x, e)
    <2>1. Idx(w.sched, e) # {}
      BY <1>2 DEF Popped
    <2>2. w.task[e].run \in Runnable
      BY <1>6, <2>1 DEF Good, Sound
    <2>3. ASSUME Sole(w, e) PROVE Quiet(x, e) /\ Fresh(x, e)
      <3>1. /\ w.calls[e] = {} /\ Fresh(w, e)
            /\ \A i, j \in Idx(w.sched, e) : i = j
        BY <1>6, <2>1, <2>3 DEF Good, Tokens, Quiet
      <3>2. Idx(x.sched, e) = {}
        BY <1>2, <3>1 DEF Popped
      <3> QED
        BY <1>2, <3>1, <3>2 DEF Quiet, Fresh
    <2> QED
      BY <1>2, <2>2, <2>3 DEF Ready, Arrived, Sole
  <1> QED
    BY <1>2, <1>4, <1>5, <1>6 DEF Good, x, e

LEMMA PopSlots ==
  ASSUME IsFiniteSet(Tasks), NoneLost,
         NEW T, NEW w, Good(w, T), w.sched # <<>>, Slots(w, 0)
  PROVE  LET x == Pop(w)
             e == Head(w.sched)[1]
         IN  /\ e \in Tasks => Slots(x, Due(x, e))
             /\ e = Queue => Slots(x, 1)
             /\ e \in Procs => Slots(x, 0)
  <1> DEFINE x == Pop(w)
             e == Head(w.sched)[1]
  <1>1. w \in Worlds
    BY DEF Good
  <1>2. /\ x \in Worlds /\ Popped(x.sched, w.sched, e)
        /\ x.task = w.task /\ x.calls = w.calls
        /\ x.pending = w.pending /\ x.numRunning = w.numRunning
        /\ \A y : Cardinality(Idx(w.sched, y)) =
                    Cardinality(Idx(x.sched, y)) + IF e = y THEN 1 ELSE 0
    BY <1>1, PopIs
  <1>3. e \in Tasks => Ready(x, e)
    BY PopGood
  <1> HIDE DEF x, e
  <1>4. Queue \notin Tasks /\ Queue \notin Procs /\ Procs \intersect Tasks = {}
    BY TasksAssumption
  <1>5. /\ Cardinality(Busy(w)) \in Nat /\ IsFiniteSet(Busy(w))
        /\ Cardinality(Idx(w.sched, Queue)) \in Nat
        /\ Cardinality(Idx(x.sched, Queue)) \in Nat
    BY <1>1, <1>2, WorldType, FiniteBusy, IdxFinite
  <1>6. \A y \in Tasks : y # e => (Quiet(x, y) <=> Quiet(w, y))
    BY <1>2 DEF Quiet, Popped
  <1>7. CASE e \in Tasks /\ w.task[e].caller = Queue
    <2>1. Quiet(x, e)
      <3>1. Sole(x, e)
        BY <1>2, <1>7 DEF Sole, NoneLost
      <3> QED
        BY <1>3, <1>7, <3>1 DEF Ready, Arrived
    <2>2. ~ Quiet(w, e)
      BY <1>2 DEF Quiet, Popped
    <2>3. Busy(x) = Busy(w) \ {e} /\ e \in Busy(w)
      BY <1>2, <1>6, <1>7, <2>1, <2>2 DEF Busy
    <2>4. Cardinality(Busy(x)) = Cardinality(Busy(w)) - 1
      BY <1>5, <2>3, FS_RemoveElement
    <2>5. Due(x, e) = 1
      BY <1>2, <1>7 DEF Due
    <2>6. Cardinality(Idx(w.sched, Queue)) = Cardinality(Idx(x.sched, Queue))
      BY <1>2, <1>4, <1>5, <1>7
    <2>7. Slots(x, 1)
      BY <1>2, <1>5, <2>4, <2>6 DEF Slots
    <2> QED
      BY <1>4, <1>7, <2>5, <2>7 DEF x, e
  <1>8. CASE ~ (e \in Tasks /\ w.task[e].caller = Queue)
    <2>1. Busy(x) = Busy(w)
      BY <1>2, <1>6, <1>8 DEF Busy
    <2>2. e \in Tasks => Due(x, e) = 0
      BY <1>2, <1>8 DEF Due
    <2>3. e # Queue => Slots(x, 0)
      <3> SUFFICES ASSUME e # Queue PROVE Slots(x, 0)
        OBVIOUS
      <3>1. Cardinality(Idx(w.sched, Queue)) = Cardinality(Idx(x.sched, Queue))
        BY <1>2, <1>5
      <3> QED
        BY <1>2, <2>1, <3>1 DEF Slots
    <2>4. e = Queue => Slots(x, 1)
      <3> SUFFICES ASSUME e = Queue PROVE Slots(x, 1)
        OBVIOUS
      <3>1. Cardinality(Idx(w.sched, Queue)) = Cardinality(Idx(x.sched, Queue)) + 1
        BY <1>2, <1>5
      <3> QED
        BY <1>2, <1>5, <2>1, <3>1 DEF Slots
    <2> QED
      BY <1>4, <2>2, <2>3, <2>4 DEF x, e
  <1> QED
    BY <1>7, <1>8

LEMMA PopWaits ==
  ASSUME NEW T, NEW w, Good(w, T), w.sched # <<>>, Waits(w, {})
  PROVE  LET x == Pop(w)
             e == Head(w.sched)[1]
         IN  /\ e \in Procs => Waits(x, {e})
             /\ e \notin Procs => Waits(x, {})
  <1> DEFINE x == Pop(w)
             e == Head(w.sched)[1]
  <1>1. w \in Worlds
    BY DEF Good
  <1>2. /\ x \in Worlds /\ Popped(x.sched, w.sched, e)
        /\ x.task = w.task /\ x.at = w.at
    BY <1>1, PopIs
  <1> HIDE DEF x, e
  <1>3. ASSUME NEW p \in Procs
        PROVE  /\ \A i, j \in Idx(w.sched, p) : i = j
               /\ \A t \in Tasks : w.task[t].value = Unset /\ Holds(w.task[t], p) =>
                    w.at[p] = t /\ HoldsOnce(w.task[t], p) /\ Idx(w.sched, p) = {}
               /\ Idx(w.sched, p) # {} => w.at[p] # None
               /\ w.at[p] # None => \/ Idx(w.sched, p) # {}
                                    \/ /\ w.task[w.at[p]].value = Unset
                                       /\ Holds(w.task[w.at[p]], p)
    BY DEF Waits
  <1>4. \A p \in Procs : /\ \A i, j \in Idx(x.sched, p) : i = j
                         /\ p # e => (Idx(x.sched, p) = {} <=> Idx(w.sched, p) = {})
    BY <1>2, <1>3 DEF Popped
  <1>5. e \in Procs => Idx(x.sched, e) = {} /\ Idx(w.sched, e) # {}
    BY <1>2, <1>3 DEF Popped
  <1>6. ASSUME e \in Procs PROVE Waits(x, {e})
    BY <1>2, <1>3, <1>4, <1>5, <1>6 DEF Waits
  <1>7. ASSUME e \notin Procs PROVE Waits(x, {})
    BY <1>2, <1>3, <1>4, <1>7 DEF Waits
  <1> QED
    BY <1>6, <1>7 DEF x, e

\* r is s without its first element h.
Shorter(r, s, h) ==
  /\ \A y : PlaceIn(r, y) # {} => PlaceIn(s, y) # {}
  /\ \A y : (\A i, j \in PlaceIn(s, y) : i = j) => \A i, j \in PlaceIn(r, y) : i = j
  /\ PlaceIn(s, h) # {}
  /\ (\A i, j \in PlaceIn(s, h) : i = j) => PlaceIn(r, h) = {}

LEMMA ShorterIs ==
  ASSUME NEW s \in Seq(Tasks), s # <<>>
  PROVE  Shorter(Tail(s), s, Head(s)) /\ Tail(s) \in Seq(Tasks) /\ Head(s) \in Tasks
  <1> DEFINE r == Tail(s)
             h == Head(s)
  <1>1. /\ r \in Seq(Tasks) /\ h \in Tasks
        /\ \A x : \A i \in PlaceIn(r, x) : i + 1 \in PlaceIn(s, x) /\ i \in Nat
        /\ 1 \in PlaceIn(s, h)
    BY PlaceTail
  <1> HIDE DEF r, h
  <1>2. ASSUME NEW y, \A i, j \in PlaceIn(s, y) : i = j,
               NEW i \in PlaceIn(r, y), NEW j \in PlaceIn(r, y)
        PROVE  i = j
    <2>1. i + 1 \in PlaceIn(s, y) /\ j + 1 \in PlaceIn(s, y) /\ i \in Nat /\ j \in Nat
      BY <1>1
    <2>2. i + 1 = j + 1
      BY <1>2, <2>1
    <2> QED
      BY <2>1, <2>2
  <1>3. ASSUME \A i, j \in PlaceIn(s, h) : i = j, NEW i \in PlaceIn(r, h) PROVE FALSE
    <2>1. i + 1 \in PlaceIn(s, h) /\ i \in Nat
      BY <1>1
    <2>2. i + 1 = 1
      BY <1>1, <1>3, <2>1
    <2>3. i = 0 /\ 0 \notin PlaceIn(r, h)
      BY <2>1, <2>2 DEF PlaceIn
    <2> QED
      BY <2>3
  <1>4. Shorter(r, s, h)
    BY <1>1, <1>2, <1>3 DEF Shorter
  <1> QED
    BY <1>1, <1>4 DEF r, h

\* The queue hears of a completion.
LEMMA QueueRunKept ==
  ASSUME IsFiniteSet(Tasks), NEW T, NEW w, Good(w, T)
  PROVE  LET x == QueueRun(w) IN
         /\ Good(x, T)
         /\ NoneLost /\ Slots(w, 1) => Slots(x, 0)
         /\ Waits(w, {}) => Waits(x, {})
         /\ Ended(w) => Ended(x)
  <1> DEFINE x == QueueRun(w)
  <1>1. /\ w \in Worlds /\ w.pending \in Seq(Tasks) /\ w.numRunning \in Int
        /\ MaxRunning \in Nat /\ w.sched \in Seq(Entries)
    BY WorldType, TasksAssumption DEF Good
  <1>2. /\ Cardinality(Busy(w)) \in Nat /\ IsFiniteSet(Busy(w))
        /\ Cardinality(Idx(w.sched, Queue)) \in Nat
    BY <1>1, FiniteBusy, IdxFinite
  <1>3. CASE w.pending = <<>>
    <2>1. x = [w EXCEPT !.numRunning = w.numRunning - 1]
      BY <1>3 DEF QueueRun
    <2> HIDE DEF x
    <2>2. /\ x \in Worlds /\ x.sched = w.sched /\ x.task = w.task
          /\ x.calls = w.calls /\ x.at = w.at /\ x.pending = w.pending
          /\ x.numRunning = w.numRunning - 1
      <3>1. w.numRunning - 1 \in Int
        BY <1>1
      <3> QED
        BY <1>1, <2>1, <3>1 DEF Worlds
    <2>3. Good(x, T)
      <3>1. Sound(x, T)
        BY <2>2 DEF Good, Sound
      <3>2. Tokens(x, T)
        BY <2>2 DEF Good, Tokens, Sole, Quiet, Fresh
      <3> QED
        BY <2>2, <3>1, <3>2 DEF Good
    <2>4. Busy(x) = Busy(w)
      BY <2>2 DEF Busy, Quiet
    <2>5. Slots(w, 1) => Slots(x, 0)
      BY <1>1, <1>2, <1>3, <2>2, <2>4 DEF Slots
    <2>6. (Waits(w, {}) => Waits(x, {})) /\ (Ended(w) => Ended(x))
      BY <2>2 DEF Waits, Ended
    <2> QED
      BY <2>3, <2>5, <2>6 DEF x
  <1>4. CASE w.pending # <<>>
    <2> DEFINE h == Head(w.pending)
               u == [w EXCEPT !.calls[h] = {"fn"}]
    <2>1. /\ Shorter(Tail(w.pending), w.pending, h)
          /\ Tail(w.pending) \in Seq(Tasks) /\ h \in Tasks
      BY <1>1, <1>4, ShorterIs
    <2>2. x = [u EXCEPT !.pending = Tail(w.pending)]
      BY <1>1, <1>4 DEF QueueRun, Worlds
    <2> HIDE DEF h, u, x
    <2>3. /\ u \in Worlds
          /\ \A y \in Tasks : u.calls[y] = IF y = h THEN {"fn"} ELSE w.calls[y]
          /\ u.sched = w.sched /\ u.task = w.task /\ u.at = w.at
          /\ u.pending = w.pending /\ u.numRunning = w.numRunning
      <3>1. {"fn"} \in SUBSET {"fn", "handler"} /\ w \in Worlds /\ h \in Tasks
        BY <1>1, <2>1
      <3>2. u = SetCalls(w, h, {"fn"})
        BY DEF u, SetCalls
      <3> QED
        BY <3>1, <3>2, WithCalls
    <2>4. /\ x \in Worlds /\ x.calls = u.calls /\ x.sched = u.sched
          /\ x.task = u.task /\ x.at = u.at /\ x.numRunning = u.numRunning
          /\ x.pending = Tail(w.pending)
      BY <2>1, <2>2, <2>3 DEF Worlds
    <2>5. /\ x \in Worlds /\ x.sched = w.sched /\ x.task = w.task /\ x.at = w.at
          /\ x.numRunning = w.numRunning
          /\ \A y \in Tasks : x.calls[y] = IF y = h THEN {"fn"} ELSE w.calls[y]
          /\ Shorter(x.pending, w.pending, h)
      BY <2>1, <2>3, <2>4
    <2>6. w.task[h].caller = Queue /\ w.task[h].run = "task"
      <3>1. w.task[h].caller = Queue
        BY <2>1, <2>5 DEF Good, Sound, Shorter
      <3> QED
        BY <2>1, <3>1, SoleRuns
    <2>7. Sound(x, T)
      <3>1. \A y \in Tasks : FitTask(x.task[y], x.calls[y])
        <4>1. \A y \in Tasks : FitTask(w.task[y], w.calls[y])
          BY DEF Good, Sound
        <4> QED
          BY <2>5, <2>6, <4>1 DEF FitTask
      <3> QED
        BY <2>5, <3>1 DEF Good, Sound, Shorter
    <2>8. ASSUME Sole(w, h) PROVE Quiet(w, h) /\ Fresh(x, h)
      <3>1. /\ PlaceIn(w.pending, h) # {}
            /\ \A i, j \in PlaceIn(w.pending, h) : i = j
            /\ ~ Quiet(w, h) => Fresh(w, h)
            /\ w.task[h].value = Unset
        BY <2>1, <2>5, <2>8 DEF Good, Tokens, Shorter
      <3>2. PlaceIn(x.pending, h) = {}
        BY <2>5, <3>1 DEF Shorter
      <3> QED
        BY <2>5, <3>1, <3>2 DEF Fresh
    <2>9. Tokens(x, T)
      <3> SUFFICES ASSUME NEW y \in Tasks, Sole(x, y)
                   PROVE  /\ y \notin T
                          /\ x.calls[y] \subseteq {"fn"}
                          /\ x.calls[y] # {} => Idx(x.sched, y) = {}
                          /\ \A i, j \in Idx(x.sched, y) : i = j
                          /\ \A i, j \in PlaceIn(x.pending, y) : i = j
                          /\ ~ Quiet(x, y) => Fresh(x, y)
                          /\ PlaceIn(x.pending, y) # {} => x.task[y].value = Unset
        BY DEF Tokens
      <3>1. Sole(w, y)
        BY <2>5 DEF Sole
      <3>2. /\ y \notin T
            /\ w.calls[y] \subseteq {"fn"}
            /\ w.calls[y] # {} => Idx(w.sched, y) = {}
            /\ \A i, j \in Idx(w.sched, y) : i = j
            /\ \A i, j \in PlaceIn(w.pending, y) : i = j
            /\ ~ Quiet(w, y) => Fresh(w, y)
            /\ PlaceIn(w.pending, y) # {} => w.task[y].value = Unset
        BY <3>1 DEF Good, Tokens
      <3>3. /\ \A i, j \in PlaceIn(x.pending, y) : i = j
            /\ PlaceIn(x.pending, y) # {} => PlaceIn(w.pending, y) # {}
        BY <2>5, <3>2 DEF Shorter
      <3>4. CASE y = h
        BY <2>5, <2>8, <3>1, <3>2, <3>3, <3>4 DEF Quiet, Fresh
      <3>5. CASE y # h
        BY <2>5, <3>2, <3>3, <3>5 DEF Quiet, Fresh
      <3> QED
        BY <3>4, <3>5
    <2>10. ASSUME NoneLost, Slots(w, 1) PROVE Slots(x, 0)
      <3>1. Quiet(w, h)
        BY <2>6, <2>8, <2>10 DEF Sole, NoneLost
      <3>2. Busy(x) = Busy(w) \union {h} /\ h \notin Busy(w)
        BY <2>1, <2>5, <2>6, <3>1 DEF Busy, Quiet
      <3>3. Cardinality(Busy(x)) = Cardinality(Busy(w)) + 1
        BY <1>2, <3>2, FS_AddElement
      <3> QED
        BY <1>1, <1>2, <1>4, <2>5, <2>10, <3>3 DEF Slots
    <2>11. (Waits(w, {}) => Waits(x, {})) /\ (Ended(w) => Ended(x))
      BY <2>5 DEF Waits, Ended
    <2> QED
      BY <2>5, <2>7, <2>9, <2>10, <2>11 DEF Good, x
  <1> QED
    BY <1>3, <1>4

\* A timeout starts, and ends.
LEMMA TimerGood ==
  ASSUME NEW T, NEW w, Good(w, T), NEW t \in Tasks
  PROVE  /\ Good(w, T \ {t})
         /\ w.task[t].run \in Runnable /\ ~ Sole(w, t) => Good(w, T \union {t})
         /\ t \in T => Ready(w, t) /\ ~ Sole(w, t)
  <1>1. Good(w, T \ {t})
    BY DEF Good, Sound, Tokens
  <1>2. ASSUME w.task[t].run \in Runnable, ~ Sole(w, t) PROVE Good(w, T \union {t})
    <2>1. Sound(w, T \union {t})
      BY <1>2 DEF Good, Sound
    <2>2. Tokens(w, T \union {t})
      BY <1>2 DEF Good, Tokens
    <2> QED
      BY <2>1, <2>2 DEF Good
  <1>3. ASSUME t \in T PROVE Ready(w, t) /\ ~ Sole(w, t)
    <2>1. ~ Sole(w, t)
      BY <1>3, SoleRuns
    <2>2. w.task[t].run \in Runnable
      BY <1>3 DEF Good, Sound
    <2> QED
      BY <2>1, <2>2 DEF Ready, Arrived
  <1> QED
    BY <1>1, <1>2, <1>3
------------------------------------------------------------------------------
(* The actions.                                                              *)

LEMMA Stepped ==
  ASSUME NEW x, NEW T, Safe(x, T), Becomes(x), timers' = T
  PROVE  Inv'
  <1>1. x \in Worlds
    BY DEF Safe, Good
  <1>2. Now' = [task |-> x.task, calls |-> x.calls, sched |-> x.sched, at |-> x.at,
                pending |-> x.pending, numRunning |-> x.numRunning]
    BY DEF Now, Becomes
  <1>3. Now' = x
    BY <1>1, <1>2 DEF Worlds
  <1> QED
    BY <1>3 DEF Inv

LEMMA KeptSafe ==
  ASSUME NEW T, NEW w, NEW t \in Tasks, NEW x, Kept(x, w, T, t),
         NoneLost => Slots(w, Due(w, t)),
         NoneTwice => Waits(w, {}) /\ Ended(w)
  PROVE  Safe(x, T)
  BY DEF Kept, Safe

LEMMA KindIs ==
  ASSUME Inv, NEW t \in Tasks
  PROVE  /\ Born(t) <=> task[t].run # "unborn"
         /\ Kind(t) = "list" <=> task[t].run = "list"
         /\ task[t].run = "any" => Kind(t) = "any"
         /\ task[t].run = "none" => Kind(t) = "manual"
         /\ task[t].run = "composed" => Kind(t) = "composed"
         /\ Kind(t) = "queued" <=> task[t].caller = Queue
         /\ task[t].run \in {"unborn", "none", "task", "composed", "all", "any", "list"}
  <1>1. FitTask(task[t], calls[t])
    BY DEF Inv, Safe, Good, Sound, Now
  <1>2. task[t].run \in {"unborn", "none", "task", "composed", "all", "any", "list"}
    <2>1. Now \in Worlds /\ Now.task = task
      BY DEF Inv, Safe, Good, Now
    <2> QED
      BY <2>1, TaskType
  <1>3. CASE task[t].handlers # {}
    BY <1>1, <1>2, <1>3 DEF Kind, Born, FitTask
  <1>4. CASE task[t].handlers = {} /\ task[t].run = "task"
    BY <1>1, <1>4 DEF Kind, Born, FitTask
  <1>5. CASE task[t].handlers = {} /\ task[t].run # "task"
    BY <1>1, <1>2, <1>5 DEF Kind, Born, FitTask
  <1> QED
    BY <1>3, <1>4, <1>5

\* r is a new task's record.
NewIs(r, run, caller, has, subs) ==
  /\ r \in TaskRecords
  /\ r.run = run /\ r.caller = caller /\ r.handlers = has /\ r.subs = subs
  /\ r.value = Unset /\ r.waiters = <<>>

LEMMA NewTaskIs ==
  ASSUME NEW run \in {"none", "task", "composed", "all", "any", "list"},
         NEW caller \in Procs \union {None, Queue},
         NEW has \in SUBSET {"then", "else", "on"}, NEW subs \in Subs \union {<<>>}
  PROVE  NewIs(NewTask(run, caller, has, subs), run, caller, has, subs)
  <1>1. Len(subs) \in Nat
    BY TasksAssumption
  <1>2. caller \in States \union {None}
    BY DEF States
  <1> QED
    BY <1>1, <1>2 DEF NewTask, TaskRecords, NewIs

\* The new task, before its function is called.
LEMMA MakeIs ==
  ASSUME NEW T, NEW w, Good(w, T), NEW t \in Tasks, w.task[t].run = "unborn",
         NEW r \in TaskRecords, r.value = Unset, r.waiters = <<>>, FitTask(r, {})
  PROVE  LET x == Make(w, t, r) IN
         /\ Made(x, w, t, r, {}) /\ x.at = w.at
         /\ x.pending = w.pending /\ x.numRunning = w.numRunning
  <1> DEFINE x == Make(w, t, r)
  <1>1. w \in Worlds /\ w.calls[t] = {}
    BY UnbornIs DEF Good
  <1>2. x = [w EXCEPT !.task[t] = r]
    BY DEF Make
  <1> HIDE DEF x
  <1>3. /\ x \in Worlds /\ OnlyTask(x, w, t, r)
        /\ x.sched = w.sched /\ x.calls = w.calls /\ x.at = w.at
        /\ x.pending = w.pending /\ x.numRunning = w.numRunning
    BY <1>1, <1>2, WithTask
  <1>4. Made(x, w, t, r, {})
    BY <1>1, <1>3 DEF Made
  <1> QED
    BY <1>3, <1>4 DEF x

CallFn(w, t) == [w EXCEPT !.calls[t] = {"fn"}]

LEMMA CallFnIs ==
  ASSUME NEW w, NEW t \in Tasks, NEW r, NEW x, Made(x, w, t, r, {}), FitTask(r, {"fn"})
  PROVE  LET y == CallFn(x, t) IN
         /\ Made(y, w, t, r, {"fn"}) /\ y.at = x.at
         /\ y.pending = x.pending /\ y.numRunning = x.numRunning
  <1> DEFINE y == CallFn(x, t)
  <1>1. x \in Worlds /\ {"fn"} \in SUBSET {"fn", "handler"}
    BY DEF Made
  <1>2. y = SetCalls(x, t, {"fn"})
    BY DEF CallFn, SetCalls
  <1> HIDE DEF y
  <1>3. /\ y \in Worlds
        /\ \A z \in Tasks : y.calls[z] = IF z = t THEN {"fn"} ELSE x.calls[z]
        /\ y.sched = x.sched /\ y.task = x.task /\ y.at = x.at
        /\ y.pending = x.pending /\ y.numRunning = x.numRunning
    BY <1>1, <1>2, WithCalls
  <1>4. Made(y, w, t, r, {"fn"})
    <2>1. /\ OnlyTask(x, w, t, r) /\ x.sched = w.sched
          /\ \A z \in Tasks : x.calls[z] = IF z = t THEN {} ELSE w.calls[z]
          /\ w.task[t].run = "unborn" /\ r.value = Unset /\ r.waiters = <<>>
      BY DEF Made
    <2>2. OnlyTask(y, w, t, r)
      BY <1>3, <2>1 DEF OnlyTask
    <2>3. \A z \in Tasks : y.calls[z] = IF z = t THEN {"fn"} ELSE w.calls[z]
      BY <1>3, <2>1
    <2> QED
      BY <1>3, <2>1, <2>2, <2>3 DEF Made
  <1> QED
    BY <1>3, <1>4 DEF y

\* A task that nobody waits for.
LEMMA MakeSafe ==
  ASSUME IsFiniteSet(Tasks), NEW T, NEW w, Safe(w, T), NEW t \in Tasks,
         NEW r, NEW c, NEW x, Made(x, w, t, r, c), r.caller = None,
         NoneTwice => r.run # "all",
         x.at = w.at, x.pending = w.pending, x.numRunning = w.numRunning
  PROVE  Safe(x, T)
  <1>1. None # Queue /\ None \notin Procs
    BY TasksAssumption
  <1>2. Good(x, T)
    BY MakeGood DEF Safe
  <1>3. NoneLost => Slots(x, 0)
    BY <1>1, MakeSlots DEF Safe
  <1>4. \A q \in Procs : /\ r.caller = q => w.at[q] = None /\ x.at[q] = t
                         /\ r.caller # q => x.at[q] = w.at[q]
    BY <1>1
  <1>5. NoneTwice => Waits(x, {}) /\ Ended(x)
    BY <1>4, MakeWaits DEF Safe
  <1> QED
    BY <1>2, <1>3, <1>5 DEF Safe

LEMMA MakeManualSafe ==
  ASSUME IsFiniteSet(Tasks), Inv, NEW t \in Tasks, MakeManual(t)
  PROVE  Inv'
  <1> DEFINE r == NewTask("none", None, {}, <<>>)
             x == Make(Now, t, r)
  <1>1. Safe(Now, timers) /\ Good(Now, timers) /\ Now.task[t].run = "unborn"
    BY KindIs DEF MakeManual, Inv, Safe, Now
  <1>2. /\ r \in TaskRecords /\ r.run = "none" /\ r.caller = None /\ r.handlers = {}
        /\ r.value = Unset /\ r.waiters = <<>>
    BY NewTaskIs DEF NewIs
  <1>3. FitTask(r, {})
    BY <1>2, TasksAssumption DEF FitTask
  <1> HIDE DEF r
  <1>4. /\ Made(x, Now, t, r, {}) /\ x.at = Now.at
        /\ x.pending = Now.pending /\ x.numRunning = Now.numRunning
    BY <1>1, <1>2, <1>3, MakeIs
  <1> HIDE DEF x
  <1>5. Safe(x, timers)
    BY <1>1, <1>2, <1>4, MakeSafe
  <1>6. Becomes(x) /\ timers' = timers
    BY DEF MakeManual, x, r
  <1> QED
    BY <1>5, <1>6, Stepped

LEMMA MakeTaskSafe ==
  ASSUME IsFiniteSet(Tasks), Inv, NEW t \in Tasks, MakeTask(t)
  PROVE  Inv'
  <1> DEFINE r == NewTask("task", None, {}, <<>>)
             x == Make(Now, t, r)
             y == CallFn(x, t)
  <1>1. Safe(Now, timers) /\ Good(Now, timers) /\ Now.task[t].run = "unborn"
    BY KindIs DEF MakeTask, Inv, Safe, Now
  <1>2. /\ r \in TaskRecords /\ r.run = "task" /\ r.caller = None /\ r.handlers = {}
        /\ r.value = Unset /\ r.waiters = <<>>
    BY NewTaskIs DEF NewIs
  <1>3. FitTask(r, {}) /\ FitTask(r, {"fn"})
    BY <1>2, TasksAssumption DEF FitTask
  <1>4. Becomes(y) /\ timers' = timers
    BY DEF MakeTask, CallFn
  <1> HIDE DEF r
  <1>5. /\ Made(x, Now, t, r, {}) /\ x.at = Now.at
        /\ x.pending = Now.pending /\ x.numRunning = Now.numRunning
    BY <1>1, <1>2, <1>3, MakeIs
  <1> HIDE DEF x
  <1>6. /\ Made(y, Now, t, r, {"fn"}) /\ y.at = x.at
        /\ y.pending = x.pending /\ y.numRunning = x.numRunning
    BY <1>3, <1>5, CallFnIs
  <1> HIDE DEF y
  <1>7. Safe(y, timers)
    BY <1>1, <1>2, <1>5, <1>6, MakeSafe
  <1> QED
    BY <1>4, <1>7, Stepped

LEMMA MakeComposedSafe ==
  ASSUME IsFiniteSet(Tasks), Inv, NEW t \in Tasks, MakeComposed(t)
  PROVE  Inv'
  <1>1. PICK has \in Handlers :
          Becomes(CallFn(Make(Now, t, NewTask("composed", None, has, <<>>)), t))
    BY DEF MakeComposed, CallFn
  <1> DEFINE r == NewTask("composed", None, has, <<>>)
             x == Make(Now, t, r)
             y == CallFn(x, t)
  <1>2. Safe(Now, timers) /\ Good(Now, timers) /\ Now.task[t].run = "unborn"
    <2>1. ~ Born(t)
      BY DEF MakeComposed
    <2> QED
      BY <2>1, KindIs DEF Inv, Safe, Now
  <1>3. has \in SUBSET {"then", "else", "on"} /\ has # {}
    <2>1. has \in {{"then"}, {"then", "else"}, {"else"}, {"on"}}
      BY TasksAssumption
    <2>2. has = {"then"} \/ has = {"then", "else"} \/ has = {"else"} \/ has = {"on"}
      BY <2>1
    <2> QED
      BY <2>2
  <1>4. /\ r \in TaskRecords /\ r.run = "composed" /\ r.caller = None /\ r.handlers = has
        /\ r.value = Unset /\ r.waiters = <<>>
    BY <1>3, NewTaskIs DEF NewIs
  <1> HIDE DEF r
  <1>5. FitTask(r, {}) /\ FitTask(r, {"fn"})
    BY <1>3, <1>4, TasksAssumption DEF FitTask
  <1>6. /\ Made(x, Now, t, r, {}) /\ x.at = Now.at
        /\ x.pending = Now.pending /\ x.numRunning = Now.numRunning
    BY <1>2, <1>4, <1>5, MakeIs
  <1> HIDE DEF x
  <1>7. /\ Made(y, Now, t, r, {"fn"}) /\ y.at = x.at
        /\ y.pending = x.pending /\ y.numRunning = x.numRunning
    BY <1>5, <1>6, CallFnIs
  <1> HIDE DEF y
  <1>8. Safe(y, timers)
    BY <1>2, <1>4, <1>6, <1>7, MakeSafe
  <1>9. Becomes(y) /\ timers' = timers
    BY <1>1 DEF MakeComposed, y, x, r
  <1> QED
    BY <1>8, <1>9, Stepped

\* Sub tasks are tasks that a script has.
LEMMA SubsKnown ==
  ASSUME Inv, NEW t \in Tasks, ~ Born(t), NEW subs \in Subs,
         \A x \in ToSet(subs) : Known(x), NEW i \in 1 .. Len(subs)
  PROVE  /\ subs[i] \in Tasks /\ subs[i] # t
         /\ task[subs[i]].run \notin {"unborn", "list"}
  <1>1. subs \in Seq(Tasks)
    BY TasksAssumption
  <1>2. subs[i] \in Tasks /\ subs[i] \in ToSet(subs)
    BY <1>1 DEF ToSet
  <1>3. Known(subs[i])
    BY <1>2
  <1> QED
    BY <1>2, <1>3, KindIs DEF Known

LEMMA MakeSetSafe ==
  ASSUME IsFiniteSet(Tasks), Inv, NEW t \in Tasks, MakeSet(t)
  PROVE  Inv'
  <1>1. PICK subs \in Subs, run \in {"all", "any"} \intersect KindsOf[t] :
          /\ \A x \in ToSet(subs) : Known(x)
          /\ \E k \in 0 .. Len(subs) :
               Becomes(CallAll(Make(Now, t, NewTask(run, None, {}, subs)), t, k))
    BY DEF MakeSet
  <1>2. PICK k \in 0 .. Len(subs) :
          Becomes(CallAll(Make(Now, t, NewTask(run, None, {}, subs)), t, k))
    BY <1>1
  <1> DEFINE r == NewTask(run, None, {}, subs)
             x == Make(Now, t, r)
             y == CallAll(x, t, k)
  <1>3. /\ Safe(Now, timers) /\ Good(Now, timers) /\ Now.task[t].run = "unborn"
        /\ ~ Born(t) /\ Now.task = task
    <2>1. ~ Born(t)
      BY DEF MakeSet
    <2> QED
      BY <2>1, KindIs DEF Inv, Safe, Now
  <1>4. /\ r \in TaskRecords /\ r.run \in {"all", "any"} /\ r.caller = None
        /\ r.handlers = {} /\ r.subs = subs /\ r.value = Unset /\ r.waiters = <<>>
        /\ r.run = run
    <2>1. /\ run \in {"none", "task", "composed", "all", "any", "list"}
          /\ subs \in Subs \union {<<>>} /\ {} \in SUBSET {"then", "else", "on"}
          /\ None \in Procs \union {None, Queue}
      OBVIOUS
    <2>2. NewIs(r, run, None, {}, subs)
      BY <2>1, NewTaskIs
    <2> HIDE DEF r
    <2> QED
      BY <2>2 DEF NewIs
  <1>5. subs \in Seq(Tasks) /\ k \in Nat
    BY TasksAssumption
  <1>6. Becomes(y) /\ timers' = timers
    BY <1>2 DEF MakeSet
  <1> HIDE DEF r
  <1>7. FitTask(r, {})
    BY <1>4, TasksAssumption DEF FitTask
  <1>8. NoneTwice => r.run # "all"
    BY <1>4 DEF NoneTwice
  <1>9. /\ Made(x, Now, t, r, {}) /\ x.at = Now.at
        /\ x.pending = Now.pending /\ x.numRunning = Now.numRunning
    BY <1>3, <1>4, <1>7, MakeIs
  <1> HIDE DEF x
  <1>10. Safe(x, timers)
    BY <1>3, <1>4, <1>8, <1>9, MakeSafe
  <1>11. Stays(x, x, timers)
    BY <1>10 DEF Stays, Safe
  <1>12. x.task[t] = r /\ \A z \in Tasks : z # t => x.task[z] = task[z]
    BY <1>3, <1>9 DEF Made, OnlyTask
  <1>13. \A i \in 1 .. Len(subs) : x.task[subs[i]].run \notin {"unborn", "list"}
    BY <1>1, <1>3, <1>12, SubsKnown
  <1>14. x.task[t].run \in Combined
    BY <1>4, <1>12 DEF Combined
  <1>15. x.task[t].subs = subs
    BY <1>4, <1>12
  <1>16. Stays(y, x, timers)
    BY <1>5, <1>11, <1>13, <1>14, <1>15, CallAllKept
  <1>17. Safe(y, timers)
    BY <1>16 DEF Stays, Safe
  <1> HIDE DEF y
  <1> QED
    BY <1>6, <1>17, Stepped

LEMMA WaitListSafe ==
  ASSUME IsFiniteSet(Tasks), Inv, NEW t \in Tasks, NEW p \in Procs, WaitList(p, t)
  PROVE  Inv'
  <1>1. PICK subs \in Subs :
          /\ \A x \in ToSet(subs) : Known(x)
          /\ \E k \in 0 .. Len(subs) :
               Becomes(CallAll([Make(Now, t, NewTask("list", p, {}, subs))
                                  EXCEPT !.at[p] = t], t, k))
    BY DEF WaitList
  <1>2. PICK k \in 0 .. Len(subs) :
          Becomes(CallAll(SetAt(Make(Now, t, NewTask("list", p, {}, subs)), p, t), t, k))
    BY <1>1 DEF SetAt
  <1> DEFINE r == NewTask("list", p, {}, subs)
             u == Make(Now, t, r)
             x == SetAt(u, p, t)
             y == CallAll(x, t, k)
  <1>3. /\ Safe(Now, timers) /\ Good(Now, timers) /\ Now.task[t].run = "unborn"
        /\ ~ Born(t) /\ Now.task = task /\ Now.at[p] = None
    BY KindIs DEF WaitList, Inv, Safe, Now
  <1>4. /\ r \in TaskRecords /\ r.run = "list" /\ r.caller = p
        /\ r.handlers = {} /\ r.subs = subs /\ r.value = Unset /\ r.waiters = <<>>
    BY NewTaskIs DEF NewIs
  <1>5. subs \in Seq(Tasks) /\ k \in Nat /\ Queue # p
    BY TasksAssumption
  <1>6. Becomes(y) /\ timers' = timers
    BY <1>2 DEF WaitList
  <1> HIDE DEF r
  <1>7. FitTask(r, {})
    BY <1>4, <1>5 DEF FitTask
  <1>8. /\ Made(u, Now, t, r, {}) /\ u.at = Now.at
        /\ u.pending = Now.pending /\ u.numRunning = Now.numRunning
    BY <1>3, <1>4, <1>7, MakeIs
  <1>9. u \in Worlds
    BY <1>8 DEF Made
  <1> HIDE DEF u
  <1>10. /\ x \in Worlds
         /\ \A q \in Procs : x.at[q] = IF q = p THEN t ELSE u.at[q]
         /\ x.sched = u.sched /\ x.task = u.task /\ x.calls = u.calls
         /\ x.pending = u.pending /\ x.numRunning = u.numRunning
    BY <1>9, WithAt
  <1> HIDE DEF x
  <1>11. Made(x, Now, t, r, {})
    BY <1>8, <1>10 DEF Made, OnlyTask
  <1>12. /\ \A q \in Procs : /\ r.caller = q => Now.at[q] = None /\ x.at[q] = t
                             /\ r.caller # q => x.at[q] = Now.at[q]
         /\ x.pending = Now.pending /\ x.numRunning = Now.numRunning
    BY <1>3, <1>4, <1>8, <1>10
  <1>13. Good(x, timers)
    BY <1>3, <1>4, <1>11, <1>12, MakeGood
  <1>14. NoneLost => Slots(x, 0)
    BY <1>3, <1>4, <1>5, <1>11, <1>12, MakeSlots DEF Safe
  <1>15. r.run # "all"
    BY <1>4
  <1>16. NoneTwice => Waits(x, {}) /\ Ended(x)
    BY <1>3, <1>11, <1>12, <1>15, MakeWaits DEF Safe
  <1>17. Stays(x, x, timers)
    BY <1>13, <1>14, <1>16 DEF Stays
  <1>18. x.task[t] = r /\ \A z \in Tasks : z # t => x.task[z] = task[z]
    BY <1>3, <1>11 DEF Made, OnlyTask
  <1>19. \A i \in 1 .. Len(subs) : x.task[subs[i]].run \notin {"unborn", "list"}
    BY <1>1, <1>3, <1>18, SubsKnown
  <1>20. x.task[t].run \in Combined
    BY <1>4, <1>18 DEF Combined
  <1>21. x.task[t].subs = subs
    BY <1>4, <1>18
  <1>22. Stays(y, x, timers)
    BY <1>5, <1>17, <1>19, <1>20, <1>21, CallAllKept
  <1>23. Safe(y, timers)
    BY <1>22 DEF Stays, Safe
  <1> HIDE DEF y
  <1> QED
    BY <1>6, <1>23, Stepped

LEMMA CallQueueSafe ==
  ASSUME IsFiniteSet(Tasks), Inv, NEW t \in Tasks, CallQueue(t)
  PROVE  Inv'
  <1> DEFINE r == NewTask("task", Queue, {}, <<>>)
             x == Make(Now, t, r)
             y == [CallFn(x, t) EXCEPT !.numRunning = @ + 1]
             z == [x EXCEPT !.pending = Append(@, t)]
  <1>1. /\ Safe(Now, timers) /\ Good(Now, timers) /\ Now.task[t].run = "unborn"
        /\ Now.numRunning = numRunning
    <2>1. ~ Born(t)
      BY DEF CallQueue
    <2> QED
      BY <2>1, KindIs DEF Inv, Safe, Now
  <1>2. /\ r \in TaskRecords /\ r.run = "task" /\ r.caller = Queue /\ r.handlers = {}
        /\ r.value = Unset /\ r.waiters = <<>>
    BY NewTaskIs DEF NewIs
  <1>3. FitTask(r, {}) /\ FitTask(r, {"fn"}) /\ Queue \notin Procs /\ r.run # "all"
    <2>1. Queue # None /\ Queue \notin Procs
      BY TasksAssumption
    <2> QED
      BY <1>2, <2>1 DEF FitTask
  <1>4. /\ Made(x, Now, t, r, {}) /\ x.at = Now.at
        /\ x.pending = Now.pending /\ x.numRunning = Now.numRunning
    <2> HIDE DEF r
    <2> QED
      BY <1>1, <1>2, <1>3, MakeIs
  <1>5. x \in Worlds /\ x.numRunning \in Int /\ x.pending \in Seq(Tasks)
    BY <1>4, WorldType DEF Made
  <1>6. CASE numRunning < MaxRunning
    <2>1. Becomes(y) /\ timers' = timers
      <3>1. Becomes([x EXCEPT !.numRunning = @ + 1, !.calls[t] = {"fn"}])
        BY <1>6 DEF CallQueue
      <3>2. [x EXCEPT !.numRunning = @ + 1, !.calls[t] = {"fn"}] = y
        BY <1>5 DEF CallFn, Worlds
      <3> QED
        BY <3>1, <3>2 DEF CallQueue
    <2> DEFINE u == CallFn(x, t)
    <2> HIDE DEF r, x
    <2>2. /\ Made(u, Now, t, r, {"fn"}) /\ u.at = x.at
          /\ u.pending = x.pending /\ u.numRunning = x.numRunning
      BY <1>3, <1>4, CallFnIs
    <2>3. y = [u EXCEPT !.numRunning = u.numRunning + 1]
      OBVIOUS
    <2>4. u \in Worlds
      BY <2>2 DEF Made
    <2> HIDE DEF u, y
    <2>5. u.numRunning + 1 \in Int
      BY <1>5, <2>2
    <2>6. /\ y \in Worlds /\ y.task = u.task /\ y.calls = u.calls
          /\ y.sched = u.sched /\ y.at = u.at /\ y.pending = u.pending
          /\ y.numRunning = u.numRunning + 1
      BY <2>3, <2>4, <2>5 DEF Worlds
    <2>7. Made(y, Now, t, r, {"fn"})
      BY <2>2, <2>6 DEF Made, OnlyTask
    <2>8. /\ y.at = Now.at /\ y.pending = Now.pending
          /\ y.numRunning = Now.numRunning + 1 /\ Now.numRunning < MaxRunning
      BY <1>1, <1>4, <1>6, <2>2, <2>6
    <2>9. Good(y, timers)
      BY <1>1, <1>2, <2>7, <2>8, MakeGood
    <2>10. NoneLost => Slots(y, 0)
      BY <1>1, <1>2, <2>7, <2>8, MakeSlots DEF Safe
    <2>11. \A q \in Procs : /\ r.caller = q => Now.at[q] = None /\ y.at[q] = t
                            /\ r.caller # q => y.at[q] = Now.at[q]
      BY <1>2, <1>3, <2>8
    <2>12. NoneTwice => Waits(y, {}) /\ Ended(y)
      BY <1>1, <1>3, <2>7, <2>11, MakeWaits DEF Safe
    <2>13. Safe(y, timers)
      BY <2>9, <2>10, <2>12 DEF Safe
    <2> QED
      BY <2>1, <2>13, Stepped
  <1>7. CASE ~ (numRunning < MaxRunning)
    <2>1. Becomes(z) /\ timers' = timers
      BY <1>7 DEF CallQueue
    <2> HIDE DEF r, x
    <2>2. z = [x EXCEPT !.pending = Append(x.pending, t)]
      OBVIOUS
    <2>3. Append(x.pending, t) \in Seq(Tasks)
      BY <1>5
    <2> HIDE DEF z
    <2>4. /\ z \in Worlds /\ z.task = x.task /\ z.calls = x.calls
          /\ z.sched = x.sched /\ z.at = x.at
          /\ z.pending = Append(x.pending, t) /\ z.numRunning = x.numRunning
      BY <1>5, <2>2, <2>3 DEF Worlds
    <2>5. Made(z, Now, t, r, {})
      BY <1>4, <2>4 DEF Made, OnlyTask
    <2>6. /\ z.at = Now.at /\ z.pending = Append(Now.pending, t)
          /\ z.numRunning = Now.numRunning /\ ~ (Now.numRunning < MaxRunning)
      BY <1>1, <1>4, <1>7, <2>4
    <2>7. Good(z, timers)
      BY <1>1, <1>2, <2>5, <2>6, MakeGood
    <2>8. NoneLost => Slots(z, 0)
      BY <1>1, <1>2, <2>5, <2>6, MakeSlots DEF Safe
    <2>9. \A q \in Procs : /\ r.caller = q => Now.at[q] = None /\ z.at[q] = t
                           /\ r.caller # q => z.at[q] = Now.at[q]
      BY <1>2, <1>3, <2>6
    <2>10. NoneTwice => Waits(z, {}) /\ Ended(z)
      BY <1>1, <1>3, <2>5, <2>9, MakeWaits DEF Safe
    <2>11. Safe(z, timers)
      BY <2>7, <2>8, <2>10 DEF Safe
    <2> QED
      BY <2>1, <2>11, Stepped
  <1> QED
    BY <1>6, <1>7

\* Script state p waits for a task without a value.
LEMMA WaitedSafe ==
  ASSUME NEW T, NEW w, Safe(w, T), NEW t \in Tasks, NEW p \in Procs,
         w.at[p] = None, w.task[t].value = Unset,
         w.task[t].run \notin {"unborn", "list"}
  PROVE  LET x == SetAt(Await(w, p, t), p, t) IN
         /\ Safe(x, T) /\ x.task[t].run = w.task[t].run
         /\ x.task[t].caller = Queue <=> w.task[t].caller = Queue
  <1> DEFINE u == Await(w, p, t)
             x == SetAt(u, p, t)
  <1>1. Good(w, T) /\ p \in States
    BY DEF Safe, States
  <1>2. /\ Good(u, T) /\ \A d : Slots(w, d) => Slots(u, d)
        /\ \A y \in Tasks : u.task[y].run = w.task[y].run
        /\ \A y \in Tasks : u.task[y].caller = Queue <=> w.task[y].caller = Queue
        /\ Ended(w) => Ended(u)
    BY <1>1, AwaitGood
  <1>3. Waits(w, {}) => Waits(x, {})
    BY <1>1, WaitWaits
  <1> HIDE DEF u
  <1>4. u \in Worlds
    BY <1>2 DEF Good
  <1>5. Good(x, T) /\ \A d : Slots(u, d) => Slots(x, d)
    BY <1>2, AtGood
  <1>6. x.task = u.task
    BY <1>4, WithAt
  <1> HIDE DEF x
  <1>7. Ended(u) => Ended(x)
    BY <1>6 DEF Ended
  <1>8. Safe(x, T)
    BY <1>2, <1>3, <1>5, <1>7 DEF Safe
  <1> QED
    BY <1>2, <1>6, <1>8 DEF x, u

LEMMA OpenIs ==
  ASSUME Inv, NEW t \in Tasks, Open(t)
  PROVE  /\ Safe(Now, timers) /\ Good(Now, timers)
         /\ Now.task[t].value = Unset /\ Now.task[t].run \notin {"unborn", "list"}
         /\ Kind(t) \in Timed =>
              /\ Now.task[t].run \in Runnable
              /\ Now.task[t].run # "composed" \/ "composed" \in Timed
              /\ Now.task[t].caller # Queue \/ "queued" \in Timed
         /\ Kind(t) \in External => ~ Sole(Now, t)
         /\ NoneTwice /\ Kind(t) \in External => Now.task[t].run # "any"
  <1>1. Now.task = task /\ Safe(Now, timers) /\ Good(Now, timers)
    BY DEF Now, Inv, Safe
  <1>2. task[t].value = Unset /\ task[t].run \notin {"unborn", "list"}
    BY KindIs DEF Open, Known, Done
  <1>3. Kind(t) \in Timed =>
          /\ task[t].run \in Runnable
          /\ task[t].run # "composed" \/ "composed" \in Timed
          /\ task[t].caller # Queue \/ "queued" \in Timed
    <2>1. "manual" \notin Timed
      BY TasksAssumption
    <2> QED
      BY <1>2, <2>1, KindIs DEF Runnable, Combined
  <1>4. Kind(t) \in External => ~ Sole(Now, t)
    BY <1>1, KindIs DEF Sole
  <1>5. NoneTwice /\ Kind(t) \in External => task[t].run # "any"
    BY KindIs DEF NoneTwice
  <1> QED
    BY <1>1, <1>2, <1>3, <1>4, <1>5

LEMMA WaitSafe ==
  ASSUME Inv, NEW t \in Tasks, NEW p \in Procs, Wait(p, t)
  PROVE  Inv'
  <1> DEFINE x == SetAt(Await(Now, p, t), p, t)
  <1>1. Becomes(x) /\ timers' = timers /\ Open(t) /\ Now.at[p] = None
    BY DEF Wait, SetAt, Now
  <1>2. Safe(x, timers)
    BY <1>1, OpenIs, WaitedSafe
  <1> HIDE DEF x
  <1> QED
    BY <1>1, <1>2, Stepped

LEMMA WaitForSafe ==
  ASSUME IsFiniteSet(Tasks), Inv, NEW t \in Tasks, NEW p \in Procs, WaitFor(p, t)
  PROVE  Inv'
  <1> DEFINE x == SetAt(Await(Now, p, t), p, t)
  <1>1. /\ Kind(t) \in Timed /\ Open(t) /\ Now.at[p] = None
        /\ \/ Becomes(x) /\ timers' = timers \union {t}
           \/ \E preempted \in BOOLEAN :
                /\ Becomes(Continue(x, t, "nil", preempted))
                /\ timers' = timers
    BY DEF WaitFor, SetAt, Now
  <1>2. /\ Safe(Now, timers)
        /\ Now.task[t].value = Unset /\ Now.task[t].run \notin {"unborn", "list"}
        /\ Now.task[t].run \in Runnable
        /\ Now.task[t].run # "composed" \/ "composed" \in Timed
        /\ Now.task[t].caller # Queue \/ "queued" \in Timed
    BY <1>1, OpenIs
  <1>3. /\ Safe(x, timers) /\ x.task[t].run = Now.task[t].run
        /\ x.task[t].caller = Queue <=> Now.task[t].caller = Queue
    BY <1>1, <1>2, WaitedSafe
  <1> HIDE DEF x
  <1>4. ~ Sole(x, t) /\ x.task[t].run \in Runnable
    BY <1>2, <1>3 DEF Sole
  <1>5. Good(x, timers) /\ Ready(x, t)
    BY <1>3, <1>4 DEF Safe, Ready, Arrived
  <1>6. CASE Becomes(x) /\ timers' = timers \union {t}
    <2>1. Good(x, timers \union {t})
      BY <1>4, <1>5, TimerGood
    <2>2. Safe(x, timers \union {t})
      BY <1>3, <2>1 DEF Safe
    <2> QED
      BY <1>6, <2>2, Stepped
  <1>7. ASSUME NEW preempted \in BOOLEAN, Becomes(Continue(x, t, "nil", preempted)),
               timers' = timers
        PROVE  Inv'
    <2> DEFINE v == "nil"
               y == Continue(x, t, v, preempted)
    <2>1. v \in Results
      BY DEF Results
    <2>2. Becomes(y)
      BY <1>7
    <2> HIDE DEF v
    <2>3. Kept(y, x, timers, t)
      BY <1>5, <2>1, RunKept
    <2>4. NoneLost => Due(x, t) = 0
      BY <1>4, <1>5, NotDue
    <2> HIDE DEF y
    <2>5. Safe(y, timers)
      BY <1>3, <2>3, <2>4, KeptSafe DEF Safe
    <2> QED
      BY <1>7, <2>2, <2>5, Stepped
  <1> QED
    BY <1>1, <1>6, <1>7

LEMMA TimeoutSafe ==
  ASSUME IsFiniteSet(Tasks), Inv, NEW t \in Tasks, Timeout(t)
  PROVE  Inv'
  <1> DEFINE v == "error"
             x == Schedule(Now, t, v)
  <1>1. /\ t \in timers /\ timers' = timers \ {t} /\ Becomes(x)
        /\ Safe(Now, timers) /\ Good(Now, timers) /\ v \in Results
    BY DEF Timeout, Inv, Safe, Results
  <1> HIDE DEF v
  <1>2. Ready(Now, t) /\ ~ Sole(Now, t)
    BY <1>1, TimerGood
  <1>3. Good(Now, timers \ {t})
    BY <1>1, TimerGood
  <1>4. Kept(x, Now, timers \ {t}, t)
    <2> DEFINE S == timers \ {t}
    <2>1. Good(Now, S)
      BY <1>3
    <2> HIDE DEF S
    <2>2. Kept(Schedule(Now, t, v), Now, S, t)
      BY <1>1, <1>2, <2>1, RunKept
    <2> QED
      BY <2>2 DEF S
  <1>5. NoneLost => Due(Now, t) = 0
    BY <1>1, <1>2, NotDue
  <1> HIDE DEF x
  <1>6. Safe(x, timers \ {t})
    BY <1>1, <1>4, <1>5, KeptSafe DEF Safe
  <1> QED
    BY <1>1, <1>6, Stepped

LEMMA SetDoneSafe ==
  ASSUME IsFiniteSet(Tasks), Inv, NEW t \in Tasks, SetDone(t)
  PROVE  Inv'
  <1>1. PICK v \in ResultsOf(t) : Becomes(SetTask(Now, t, v))
    BY DEF SetDone
  <1>2. Kind(t) \in External /\ Open(t) /\ timers' = timers
    BY DEF SetDone
  <1>3. v \in Results
    BY DEF ResultsOf, Results
  <1>4. /\ Safe(Now, timers) /\ Good(Now, timers)
        /\ Now.task[t].value = Unset /\ Now.task[t].run \notin {"unborn", "list"}
        /\ ~ Sole(Now, t)
        /\ NoneTwice => Now.task[t].run # "any"
    BY <1>2, OpenIs
  <1> DEFINE x == SetTask(Now, t, v)
  <1>5. Kept(x, Now, timers, t)
    <2>1. Arrived(Now, t) /\ Now.task[t].run # "unborn"
      BY <1>4 DEF Arrived
    <2>2. NoneTwice /\ Ended(Now) =>
            /\ Now.task[t].value = Unset
            /\ Now.task[t].run \in {"any", "list"} => Now.task[t].remaining = 0
      BY <1>4
    <2> QED
      BY <1>3, <1>4, <2>1, <2>2, SetTaskKept
  <1>6. NoneLost => Due(Now, t) = 0
    BY <1>4, NotDue
  <1> HIDE DEF x
  <1>7. Safe(x, timers)
    BY <1>4, <1>5, <1>6, KeptSafe DEF Safe
  <1>8. Becomes(x)
    BY <1>1 DEF x
  <1> QED
    BY <1>2, <1>7, <1>8, Stepped

LEMMA ReturnSafe ==
  ASSUME IsFiniteSet(Tasks), Inv, NEW t \in Tasks, Return(t)
  PROVE  Inv'
  <1>1. PICK f \in calls[t], v \in ResultsOf(t), preempted \in BOOLEAN :
          Becomes(Continue([Now EXCEPT !.calls[t] = @ \ {f}], t, v, preempted))
    BY DEF Return
  <1> DEFINE w == [Now EXCEPT !.calls[t] = @ \ {f}]
             x == Continue(w, t, v, preempted)
  <1>2. /\ Safe(Now, timers) /\ Good(Now, timers) /\ f \in Now.calls[t]
        /\ timers' = timers /\ v \in Results /\ Becomes(x)
    BY <1>1 DEF Return, Inv, Safe, Now, ResultsOf, Results
  <1>3. /\ Good(w, timers) /\ Ready(w, t)
        /\ NoneLost /\ Slots(Now, 0) => Slots(w, Due(w, t))
        /\ Waits(Now, {}) => Waits(w, {})
        /\ Ended(Now) => Ended(w)
    BY <1>2, DropCall
  <1> HIDE DEF w
  <1>4. Kept(x, w, timers, t)
    BY <1>2, <1>3, RunKept
  <1> HIDE DEF x
  <1>5. Safe(x, timers)
    BY <1>2, <1>3, <1>4, KeptSafe DEF Safe
  <1> QED
    BY <1>2, <1>5, Stepped

LEMMA CancelSafe ==
  ASSUME Inv, Cancel
  PROVE  Inv'
  <1> DEFINE x == [Now EXCEPT !.pending = <<>>]
  <1>1. /\ Safe(Now, timers) /\ Good(Now, timers) /\ Now \in Worlds
        /\ timers' = timers /\ Becomes(x) /\ <<>> \in Seq(Tasks)
    BY DEF Cancel, Inv, Safe, Good
  <1>2. /\ x \in Worlds /\ x.task = Now.task /\ x.calls = Now.calls
        /\ x.sched = Now.sched /\ x.at = Now.at /\ x.pending = <<>>
        /\ x.numRunning = Now.numRunning
    BY <1>1 DEF Worlds
  <1> HIDE DEF x
  <1>3. \A y : PlaceIn(x.pending, y) = {}
    BY <1>2 DEF PlaceIn
  <1>4. Sound(x, timers)
    BY <1>1, <1>2, <1>3 DEF Good, Sound
  <1>5. Tokens(x, timers)
    BY <1>1, <1>2, <1>3 DEF Good, Tokens, Sole, Quiet, Fresh
  <1>6. Busy(x) = Busy(Now)
    BY <1>2 DEF Busy, Quiet
  <1>7. Slots(Now, 0) => Slots(x, 0)
    BY <1>2, <1>6 DEF Slots
  <1>8. (Waits(Now, {}) => Waits(x, {})) /\ (Ended(Now) => Ended(x))
    BY <1>2 DEF Waits, Ended
  <1>9. Safe(x, timers)
    BY <1>1, <1>2, <1>4, <1>5, <1>7, <1>8 DEF Safe, Good
  <1> QED
    BY <1>1, <1>9, Stepped

LEMMA RunNextSafe ==
  ASSUME IsFiniteSet(Tasks), Inv, RunNext
  PROVE  Inv'
  <1> DEFINE w == Pop(Now)
             e == Head(Now.sched)[1]
             v == Head(Now.sched)[2]
  <1>1. PICK preempted \in BOOLEAN : Becomes(Run(w, e, v, preempted))
    BY DEF RunNext, Pop, Now
  <1>2. /\ Safe(Now, timers) /\ Good(Now, timers) /\ Now \in Worlds
        /\ Now.sched # <<>> /\ timers' = timers
    BY DEF RunNext, Inv, Safe, Good, Now
  <1>3. Good(w, timers) /\ (e \in Tasks => Ready(w, e))
    BY <1>2, PopGood
  <1>4. NoneLost => /\ e \in Tasks => Slots(w, Due(w, e))
                    /\ e = Queue => Slots(w, 1)
                    /\ e \in Procs => Slots(w, 0)
    BY <1>2, PopSlots DEF Safe
  <1>5. NoneTwice => /\ e \in Procs => Waits(w, {e})
                     /\ e \notin Procs => Waits(w, {})
    BY <1>2, PopWaits DEF Safe
  <1>6. e \in States /\ v \in Results /\ w.task = Now.task
    BY <1>2, PopIs
  <1> HIDE DEF w, e, v
  <1>7. NoneTwice => Ended(w)
    BY <1>2, <1>6 DEF Safe, Ended
  <1> DEFINE x == Run(w, e, v, preempted)
  <1>8. CASE e \in Procs
    <2>1. x = SetAt(w, e, None)
      BY <1>8 DEF Run, SetAt
    <2>2. Good(x, timers) /\ \A d : Slots(w, d) => Slots(x, d)
      BY <1>3, <1>8, <2>1, AtGood
    <2>3. NoneTwice => Waits(x, {}) /\ Ended(x)
      BY <1>3, <1>5, <1>7, <1>8, <2>1, ReleaseWaits
    <2> HIDE DEF x
    <2>4. Safe(x, timers)
      BY <1>4, <1>8, <2>2, <2>3 DEF Safe
    <2> QED
      BY <1>1, <1>2, <2>4, Stepped DEF x
  <1>9. CASE e = Queue
    <2>1. x = QueueRun(w) /\ e \notin Procs
      BY <1>9, TasksAssumption DEF Run
    <2>2. /\ Good(x, timers)
          /\ NoneLost /\ Slots(w, 1) => Slots(x, 0)
          /\ Waits(w, {}) => Waits(x, {})
          /\ Ended(w) => Ended(x)
      BY <1>3, <2>1, QueueRunKept
    <2> HIDE DEF x
    <2>3. Safe(x, timers)
      BY <1>4, <1>5, <1>7, <1>9, <2>1, <2>2 DEF Safe
    <2> QED
      BY <1>1, <1>2, <2>3, Stepped DEF x
  <1>10. CASE e \in Tasks
    <2>1. Kept(x, w, timers, e)
      BY <1>3, <1>6, <1>10, RunKept
    <2>2. e \notin Procs
      BY <1>10, TasksAssumption
    <2> HIDE DEF x
    <2>3. NoneTwice => Waits(w, {}) /\ Ended(w)
      BY <1>5, <1>7, <2>2
    <2>4. NoneLost => Slots(w, Due(w, e))
      BY <1>4, <1>10
    <2>5. Safe(x, timers)
      BY <1>10, <2>1, <2>3, <2>4, KeptSafe
    <2> QED
      BY <1>1, <1>2, <2>5, Stepped DEF x
  <1> QED
    BY <1>6, <1>8, <1>9, <1>10 DEF States
------------------------------------------------------------------------------
(* The theorems.                                                             *)

LEMMA InitSafe ==
  ASSUME Init
  PROVE  Inv
  <1> DEFINE r == NewTask("unborn", None, {}, <<>>)
  <1>1. /\ Now.task = [t \in Tasks |-> r] /\ Now.calls = [t \in Tasks |-> {}]
        /\ Now.sched = <<>> /\ Now.at = [p \in Procs |-> None]
        /\ Now.pending = <<>> /\ Now.numRunning = 0 /\ timers = {}
    BY DEF Init, Now
  <1>2. Now = [task |-> Now.task, calls |-> Now.calls, sched |-> Now.sched,
               at |-> Now.at, pending |-> Now.pending, numRunning |-> Now.numRunning]
    BY DEF Now
  <1>3. /\ r \in TaskRecords /\ r.run = "unborn" /\ r.value = Unset /\ r.caller = None
        /\ r.waiters = <<>> /\ r.handlers = {}
    BY DEF NewTask, TaskRecords
  <1> HIDE DEF r
  <1>4. None # Queue /\ None \notin Tasks /\ None \notin Procs /\ MaxRunning \in Nat
    BY TasksAssumption
  <1>5. /\ \A t \in Tasks : Now.task[t] = r /\ Now.calls[t] = {}
        /\ \A p \in Procs : Now.at[p] = None
    BY <1>1
  <1>6. \A y : Idx(Now.sched, y) = {} /\ PlaceIn(Now.pending, y) = {}
               /\ PlaceIn(r.waiters, y) = {}
    BY <1>1, <1>3 DEF Idx, PlaceIn
  <1>7. Now \in Worlds
    <2>1. /\ Now.task \in [Tasks -> TaskRecords]
          /\ Now.calls \in [Tasks -> SUBSET {"fn", "handler"}]
          /\ Now.sched \in Seq(Entries) /\ Now.at \in [Procs -> Tasks \union {None}]
          /\ Now.pending \in Seq(Tasks) /\ Now.numRunning \in Int
      BY <1>1, <1>3
    <2> QED
      BY <1>2, <2>1 DEF Worlds
  <1>8. \A t, y \in Tasks : ~ Holds(Now.task[t], y)
    BY <1>3, <1>4, <1>5, <1>6 DEF Holds
  <1>9. Sound(Now, timers)
    <2>1. FitTask(r, {})
      BY <1>3, <1>4 DEF FitTask
    <2> QED
      BY <1>1, <1>5, <1>6, <1>8, <2>1 DEF Sound
  <1>10. \A t \in Tasks : ~ Sole(Now, t)
    BY <1>3, <1>4, <1>5 DEF Sole
  <1>11. Tokens(Now, timers)
    BY <1>10 DEF Tokens
  <1>12. Slots(Now, 0)
    <2>1. Busy(Now) = {}
      BY <1>3, <1>4, <1>5 DEF Busy
    <2>2. Idx(Now.sched, Queue) = {}
      BY <1>6
    <2>3. Cardinality({}) = 0
      BY FS_EmptySet
    <2> DEFINE w == Now
    <2>4. /\ w.numRunning = 0 /\ Cardinality(Busy(w)) = 0
          /\ Cardinality(Idx(w.sched, Queue)) = 0 /\ w.pending = <<>>
      BY <1>1, <2>1, <2>2, <2>3
    <2> HIDE DEF w
    <2>5. Slots(w, 0)
      BY <1>4, <2>4 DEF Slots
    <2> QED
      BY <2>5 DEF w
  <1>13. Waits(Now, {})
    <2>1. \A p \in Procs : \A t \in Tasks : ~ Holds(Now.task[t], p)
      BY <1>3, <1>4, <1>5, <1>6 DEF Holds
    <2> QED
      BY <1>5, <1>6, <2>1 DEF Waits
  <1>14. Ended(Now)
    BY <1>3, <1>5 DEF Ended
  <1> QED
    BY <1>1, <1>7, <1>9, <1>11, <1>12, <1>13, <1>14 DEF Inv, Safe, Good

LEMMA NextSafe ==
  ASSUME IsFiniteSet(Tasks), Inv, [Next]_vars
  PROVE  Inv'
  <1>1. CASE UNCHANGED vars
    BY <1>1 DEF vars, Inv, Now
  <1>2. ASSUME NEW t \in Tasks,
               \/ MakeManual(t) \/ MakeTask(t) \/ MakeComposed(t) \/ MakeSet(t)
               \/ Timeout(t) \/ SetDone(t) \/ Return(t) \/ CallQueue(t)
        PROVE  Inv'
    BY <1>2, MakeManualSafe, MakeTaskSafe, MakeComposedSafe, MakeSetSafe,
       TimeoutSafe, SetDoneSafe, ReturnSafe, CallQueueSafe
  <1>3. ASSUME NEW t \in Tasks, NEW p \in Procs,
               Wait(p, t) \/ WaitFor(p, t) \/ WaitList(p, t)
        PROVE  Inv'
    BY <1>3, WaitSafe, WaitForSafe, WaitListSafe
  <1>4. CASE Cancel \/ RunNext
    BY <1>4, CancelSafe, RunNextSafe
  <1> QED
    BY <1>1, <1>2, <1>3, <1>4 DEF Next

\* The inductive invariant: the functions of ml_tasks.c are called for tasks that
\* can take the call, and the value of a composed or queued task that nobody else
\* completes arrives once; the slots and the waiters follow where that counts.
THEOREM TasksInvariance ==
  ASSUME IsFiniteSet(Tasks)
  PROVE  Spec => []Inv
  <1>1. Init => Inv
    BY InitSafe
  <1>2. Inv /\ [Next]_vars => Inv'
    BY NextSafe
  <1> QED
    BY <1>1, <1>2, PTL DEF Spec

LEMMA BusyStarted ==
  ASSUME Inv, NoneLost
  PROVE  {t \in Tasks : Kind(t) = "queued" /\ Started(t)} = Busy(Now)
  <1>1. Good(Now, timers) /\ Now.task = task /\ Now.calls = calls /\ Now.sched = sched
    BY DEF Inv, Safe, Now
  <1>2. ASSUME NEW t \in Tasks
        PROVE  Kind(t) = "queued" /\ Started(t) <=> t \in Busy(Now)
    <2>1. Kind(t) = "queued" <=> task[t].caller = Queue
      BY KindIs
    <2>2. task[t].caller = Queue => task[t].run = "task"
      BY <1>1, SoleRuns
    <2>3. (\E i \in 1 .. Len(sched) : sched[i][1] = t) <=> Idx(sched, t) # {}
      BY DEF Idx
    <2>4. task[t].caller = Queue /\ ~ Quiet(Now, t) => task[t].value = Unset
      <3>1. task[t].caller = Queue => Sole(Now, t)
        BY <1>1 DEF Sole, NoneLost
      <3> QED
        BY <1>1, <3>1 DEF Good, Tokens, Fresh
    <2>5. Born(t) <=> task[t].run # "unborn"
      BY KindIs
    <2>6. Quiet(Now, t) <=> calls[t] = {} /\ Idx(sched, t) = {}
      BY <1>1 DEF Quiet
    <2> QED
      BY <1>1, <2>1, <2>2, <2>3, <2>4, <2>5, <2>6 DEF Started, Done, Busy
  <1> QED
    BY <1>2 DEF Busy

\* The slots of a task queue are neither lost nor handed out twice, and no task is
\* pending while a slot is free, if done, error and timeouts are kept from the
\* tasks of the queue.
THEOREM SlotsAreConserved ==
  ASSUME IsFiniteSet(Tasks), NoneLost
  PROVE  Spec => []SlotsConserved
  <1>1. Inv => SlotsConserved
    <2> SUFFICES ASSUME Inv PROVE SlotsConserved
      OBVIOUS
    <2>1. Slots(Now, 0) /\ Now \in Worlds
      BY DEF Inv, Safe, Good
    <2>2. /\ Now.sched = sched /\ Now.pending = pending /\ Now.numRunning = numRunning
          /\ sched \in Seq(Entries)
      BY <2>1, WorldType DEF Now
    <2>3. {i \in 1 .. Len(sched) : sched[i][1] = Queue} = Idx(sched, Queue)
      BY DEF Idx
    <2>4. Cardinality(Busy(Now)) \in Nat /\ Cardinality(Idx(sched, Queue)) \in Nat
      BY <2>2, FiniteBusy, IdxFinite
    <2>5. {t \in Tasks : Kind(t) = "queued" /\ Started(t)} = Busy(Now)
      BY BusyStarted
    <2>6. numRunning = Cardinality(Busy(Now)) + Cardinality(Idx(sched, Queue)) + 0
      BY <2>1, <2>2 DEF Slots
    <2>7. numRunning <= MaxRunning /\ (pending # <<>> => numRunning = MaxRunning)
      BY <2>1, <2>2 DEF Slots
    <2> DEFINE b == Cardinality(Busy(Now))
               c == Cardinality(Idx(sched, Queue))
    <2>8. numRunning = b + c
      <3>1. numRunning = b + c + 0 /\ b \in Nat /\ c \in Nat
        BY <2>4, <2>6
      <3> HIDE DEF b, c
      <3> QED
        BY <3>1
    <2> QED
      BY <2>3, <2>5, <2>7, <2>8 DEF SlotsConserved
  <1> QED
    BY <1>1, TasksInvariance, PTL

LEMMA PlacesAre ==
  ASSUME NEW p
  PROVE  \A x : x \in Places(p) <=>
           \/ \E t \in Tasks : /\ task[t].value = Unset /\ task[t].caller = p
                               /\ x = <<"caller", t>>
           \/ \E t \in Tasks : \E i \in PlaceIn(task[t].waiters, p) :
                task[t].value = Unset /\ x = <<"waiter", t, i>>
           \/ \E i \in Idx(sched, p) : x = <<"sched", i>>
  <1> DEFINE C == {<<"caller", t>> : t \in {x \in Tasks : ~ Done(x) /\ task[x].caller = p}}
             K(t) == {k \in 1 .. Len(task[t].waiters) : task[t].waiters[k] = p}
             R(t) == {<<"waiter", t, i>> : i \in K(t)}
             W == UNION {R(t) : t \in {x \in Tasks : ~ Done(x)}}
             S == {<<"sched", i>> : i \in {k \in 1 .. Len(sched) : sched[k][1] = p}}
  <1>1. Places(p) = C \union W \union S
    BY DEF Places
  <1>2. ASSUME NEW x
        PROVE  x \in C <=> \E t \in Tasks : /\ task[t].value = Unset /\ task[t].caller = p
                                           /\ x = <<"caller", t>>
    BY DEF Done
  <1>3. \A t : K(t) = PlaceIn(task[t].waiters, p)
    BY DEF PlaceIn
  <1>4. ASSUME NEW x
        PROVE  x \in W <=> \E t \in Tasks : \E i \in PlaceIn(task[t].waiters, p) :
                             task[t].value = Unset /\ x = <<"waiter", t, i>>
    <2>1. \A t : x \in R(t) <=> \E i \in PlaceIn(task[t].waiters, p) : x = <<"waiter", t, i>>
      BY <1>3
    <2> HIDE DEF R
    <2>2. x \in W <=> \E t \in Tasks : task[t].value = Unset /\ x \in R(t)
      BY DEF Done
    <2> HIDE DEF W
    <2> QED
      BY <2>1, <2>2
  <1>5. ASSUME NEW x
        PROVE  x \in S <=> \E i \in Idx(sched, p) : x = <<"sched", i>>
    BY DEF Idx
  <1> HIDE DEF C, W, S
  <1> QED
    BY <1>1, <1>2, <1>4, <1>5

\* Every state that waits is registered once with the task that it waits for, or
\* is scheduled once when that has its value, and no state that executes is
\* anywhere: if there are no products, done is not called for composed tasks or
\* sums, and composed tasks are not waited for with a timeout.
THEOREM WaitersAreContinuedOnce ==
  ASSUME IsFiniteSet(Tasks), NoneTwice
  PROVE  Spec => []WaitersListed
  <1>1. Inv => WaitersListed
    <2> SUFFICES ASSUME Inv, NEW p \in Procs
                 PROVE  /\ Cardinality(Places(p)) = IF at[p] = None THEN 0 ELSE 1
                        /\ \A x \in Places(p) : x[1] # "sched" => x[2] = at[p]
      BY DEF WaitersListed
    <2>1. Waits(Now, {}) /\ Now.task = task /\ Now.sched = sched /\ Now.at = at
          /\ Now \in Worlds
      BY DEF Inv, Safe, Good, Now
    <2>2. /\ \A i, j \in Idx(sched, p) : i = j
          /\ \A t \in Tasks : task[t].value = Unset /\ Holds(task[t], p) =>
               at[p] = t /\ HoldsOnce(task[t], p) /\ Idx(sched, p) = {}
          /\ Idx(sched, p) # {} => at[p] # None
          /\ at[p] # None => \/ Idx(sched, p) # {}
                             \/ task[at[p]].value = Unset /\ Holds(task[at[p]], p)
      BY <2>1 DEF Waits
    <2>3. at[p] \in Tasks \union {None} /\ None \notin Tasks
      BY <2>1, WorldType, TasksAssumption
    <2>4. \A x : x \in Places(p) =>
            \/ \E t \in Tasks : /\ task[t].value = Unset /\ Holds(task[t], p)
                                /\ x[2] = t
            \/ x[1] = "sched" /\ Idx(sched, p) # {}
      BY PlacesAre DEF Holds
    <2>5. \A x \in Places(p) : x[1] # "sched" => x[2] = at[p]
      BY <2>2, <2>4
    <2>6. CASE at[p] = None
      <3>1. Places(p) = {}
        BY <2>2, <2>3, <2>4, <2>6
      <3> QED
        BY <2>5, <2>6, <3>1, FS_EmptySet
    <2>7. CASE at[p] # None
      <3>1. \E x : Places(p) = {x}
        <4>1. CASE Idx(sched, p) # {}
          <5>1. PICK k \in Idx(sched, p) : TRUE
            BY <4>1
          <5>2. Idx(sched, p) = {k}
            BY <2>2, <5>1
          <5>3. \A t \in Tasks : ~ (task[t].value = Unset /\ Holds(task[t], p))
            BY <2>2, <4>1
          <5>4. \A t \in Tasks : task[t].value = Unset =>
                  task[t].caller # p /\ PlaceIn(task[t].waiters, p) = {}
            BY <5>3 DEF Holds
          <5>5. \A x : x \in Places(p) <=> \E i \in Idx(sched, p) : x = <<"sched", i>>
            BY <5>4, PlacesAre
          <5>6. \A x : x \in Places(p) <=> x = <<"sched", k>>
            BY <5>2, <5>5
          <5>7. Places(p) = {<<"sched", k>>}
            BY <5>6, Zenon
          <5> QED
            BY <5>7
        <4>2. CASE Idx(sched, p) = {}
          <5> DEFINE t == at[p]
          <5>1. t \in Tasks /\ task[t].value = Unset /\ Holds(task[t], p)
                /\ HoldsOnce(task[t], p)
            BY <2>2, <2>3, <2>7, <4>2
          <5>2. \A y \in Tasks : task[y].value = Unset /\ Holds(task[y], p) => y = t
            BY <2>2
          <5> HIDE DEF t
          <5>3. CASE task[t].caller = p
            <6>1. PlaceIn(task[t].waiters, p) = {}
              BY <5>1, <5>3 DEF HoldsOnce
            <6>2. \A y \in Tasks : task[y].value = Unset =>
                    PlaceIn(task[y].waiters, p) = {} /\ (task[y].caller = p => y = t)
              BY <5>2, <6>1 DEF Holds
            <6>3. \A x : x \in Places(p) <=>
                    \E y \in Tasks : /\ task[y].value = Unset /\ task[y].caller = p
                                    /\ x = <<"caller", y>>
              BY <4>2, <6>2, PlacesAre
            <6>4. \A x : x \in Places(p) <=> x = <<"caller", t>>
              BY <5>1, <5>3, <6>2, <6>3
            <6>5. Places(p) = {<<"caller", t>>}
              BY <6>4, Zenon
            <6> QED
              BY <6>5
          <5>4. CASE task[t].caller # p
            <6>1. PICK k \in PlaceIn(task[t].waiters, p) : TRUE
              BY <5>1, <5>4 DEF Holds
            <6>2. PlaceIn(task[t].waiters, p) = {k}
              BY <5>1, <6>1 DEF HoldsOnce
            <6>3. \A y \in Tasks : task[y].value = Unset =>
                    task[y].caller # p /\ (PlaceIn(task[y].waiters, p) # {} => y = t)
              BY <5>2, <5>4 DEF Holds
            <6>4. \A x : x \in Places(p) <=>
                    \E y \in Tasks : \E i \in PlaceIn(task[y].waiters, p) :
                      task[y].value = Unset /\ x = <<"waiter", y, i>>
              BY <4>2, <6>3, PlacesAre
            <6>5. \A x : x \in Places(p) <=> x = <<"waiter", t, k>>
              BY <5>1, <6>1, <6>2, <6>3, <6>4
            <6>6. Places(p) = {<<"waiter", t, k>>}
              BY <6>5, Zenon
            <6> QED
              BY <6>6
          <5> QED
            BY <5>3, <5>4
        <4> QED
          BY <4>1, <4>2
      <3>2. Cardinality(Places(p)) = 1
        BY <3>1, FS_Singleton
      <3> QED
        BY <2>5, <2>7, <3>2
    <2> QED
      BY <2>6, <2>7
  <1> QED
    BY <1>1, TasksInvariance, PTL
==============================================================================
