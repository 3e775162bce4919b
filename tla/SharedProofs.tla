----------------------------- MODULE SharedProofs -----------------------------
(***************************************************************************)
(* Proofs about what script states share and wait for: the read-write lock, *)
(* the semaphore with its condition, and the map, in which the callers that *)
(* look up a missing key wait for one function.  The invariants of modules  *)
(* RWLock, Semaphore and Maps hold for every set of states, every initial   *)
(* value, every first size of the ring, every depth of calls, every set of  *)
(* keys and every number of callers.                                       *)
(*                                                                         *)
(* Lemmas about the ring come first: what growing, storing and taking do    *)
(* to the set of waiters, for every ring that satisfies RingOK.  The proofs *)
(* about the map come last, and rest on the lemmas of MapTreeProofs.        *)
(***************************************************************************)
EXTENDS RWLock, Semaphore, Maps, MapTreeProofs

LEMMA ModNext ==
  ASSUME NEW n \in Nat \ {0}, NEW i \in 0 .. n - 1
  PROVE  (i + 1) % n = IF i + 1 = n THEN 0 ELSE i + 1
  <1>1. CASE i + 1 = n
    BY <1>1
  <1>2. CASE i + 1 # n
    BY <1>2
  <1> QED
    BY <1>1, <1>2

\* How the window moves: one more slot at the write end, one less at the read end.
Window(rd, wr, n, f) ==
  IF rd < wr THEN f = wr - rd ELSE f = wr + n - rd \/ (f = 0 /\ rd = wr)

LEMMA WindowMoves ==
  ASSUME NEW n \in Nat \ {0}, NEW f \in Nat,
         NEW rd \in 0 .. n - 1, NEW wr \in 0 .. n - 1,
         Window(rd, wr, n, f)
  PROVE  /\ f < n => Window(rd, IF wr + 1 = n THEN 0 ELSE wr + 1, n, f + 1)
         /\ f > 0 => Window(IF rd + 1 = n THEN 0 ELSE rd + 1, wr, n, f - 1)
  BY DEF Window

\* Which slots the window covers.
Within(rd, wr, f, i) ==
  IF rd < wr THEN rd <= i /\ i < wr ELSE f > 0 /\ (rd <= i \/ i < wr)

\* The fields of a ring that satisfies RingOK.
LEMMA RingFields ==
  ASSUME NEW E, NEW r, RingOK(r, E)
  PROVE  /\ r.size \in Nat \ {0} /\ r.fill \in Nat
         /\ r.write \in 0 .. r.size - 1 /\ r.read \in 0 .. r.size - 1
         /\ r.slots \in [0 .. r.size - 1 -> E \union {None}]
         /\ r.fill <= r.size
         /\ Window(r.read, r.write, r.size, r.fill)
  BY DEF RingOK, IsRing, Window

\* A new ring is empty.
LEMMA NewRingOK ==
  ASSUME NEW E, NEW n \in Nat \ {0}
  PROVE  /\ RingOK(NewRing(n), E)
         /\ Waiting(NewRing(n)) = {}
         /\ NewRing(n).fill = 0
  BY DEF RingOK, IsRing, Waiting, NewRing, InWindow

\* An empty ring holds nobody.
LEMMA EmptyRing ==
  ASSUME NEW E, NEW r, RingOK(r, E), r.fill = 0
  PROVE  Waiting(r) = {}
  BY DEF RingOK, IsRing, Waiting, InWindow

\* Growing a full ring loses nobody.
LEMMA GrowOK ==
  ASSUME NEW E, NEW r, RingOK(r, E), r.fill = r.size
  PROVE  /\ RingOK(Grow(r), E)
         /\ Waiting(Grow(r)) = Waiting(r)
         /\ Grow(r).fill < Grow(r).size
         /\ Grow(r).fill = r.fill
  <1> DEFINE g == Grow(r)
  <1>1. /\ g.size = 2 * r.size /\ g.fill = r.size
        /\ g.write = r.size /\ g.read = 0
        /\ g.slots = [i \in 0 .. 2 * r.size - 1 |->
                        IF i < r.size THEN r.slots[i] ELSE None]
    BY DEF Grow
  <1>2. /\ r.size \in Nat \ {0}
        /\ r.slots \in [0 .. r.size - 1 -> E \union {None}]
    BY RingFields
  <1>3. IsRing(g, E)
    BY <1>1, <1>2 DEF IsRing, Grow
  <1>4. \A i \in 0 .. r.size - 1 : r.slots[i] # None
    BY <1>2 DEF RingOK, IsRing, InWindow
  <1>5. \A i \in 0 .. g.size - 1 : g.slots[i] # None <=> InWindow(g, i)
    BY <1>1, <1>2, <1>4 DEF InWindow
  <1>6. \A i, j \in 0 .. g.size - 1 :
          g.slots[i] # None /\ g.slots[i] = g.slots[j] => i = j
    BY <1>1, <1>2, <1>4 DEF RingOK
  <1>7. RingOK(g, E)
    <2>1. /\ g.write < g.size /\ g.read < g.size
          /\ g.read < g.write /\ g.fill = g.write - g.read
      BY <1>1, <1>2
    <2> QED
      BY <2>1, <1>3, <1>5, <1>6 DEF RingOK
  <1>8. Waiting(g) = Waiting(r)
    <2>1. ASSUME NEW x \in Waiting(g) PROVE x \in Waiting(r)
      <3>1. PICK i \in 0 .. g.size - 1 : x = g.slots[i] /\ x # None
        BY <2>1 DEF Waiting
      <3>2. x = IF i < r.size THEN r.slots[i] ELSE None
        BY <1>1, <3>1
      <3>3. i \in 0 .. r.size - 1 /\ x = r.slots[i]
        BY <1>1, <1>2, <3>1, <3>2
      <3> QED
        BY <3>1, <3>3 DEF Waiting
    <2>2. ASSUME NEW x \in Waiting(r) PROVE x \in Waiting(g)
      <3>1. PICK i \in 0 .. r.size - 1 : x = r.slots[i] /\ x # None
        BY <2>2 DEF Waiting
      <3>2. i \in 0 .. g.size - 1 /\ x = g.slots[i]
        BY <1>1, <1>2, <3>1
      <3> QED
        BY <3>1, <3>2 DEF Waiting
    <2> QED
      BY <2>1, <2>2
  <1> QED
    BY <1>1, <1>2, <1>7, <1>8

\* The slots in use, from read up to write and around the end, when write moves on.
LEMMA WindowGrows ==
  ASSUME NEW size \in Nat \ {0}, NEW fill \in Nat, fill < size,
         NEW read \in 0 .. size - 1, NEW write \in 0 .. size - 1, NEW i \in 0 .. size - 1,
         Window(read, write, size, fill),
         NEW after, after = IF write + 1 = size THEN 0 ELSE write + 1
  PROVE  Within(read, after, fill + 1, i) <=> Within(read, write, fill, i) \/ i = write
  <1>1. CASE write + 1 = size
    <2>1. after = 0
      BY <1>1
    <2> QED
      BY <1>1, <2>1 DEF Within, Window
  <1>2. CASE write + 1 # size
    <2>1. after = write + 1
      BY <1>2
    <2>2. CASE read < write
      BY <2>1, <2>2 DEF Within, Window
    <2>3. CASE ~ (read < write)
      BY <1>2, <2>1, <2>3 DEF Within, Window
    <2> QED
      BY <2>2, <2>3
  <1> QED
    BY <1>1, <1>2

\* Storing a new waiter in a ring with a free slot adds it.
LEMMA StoreOK ==
  ASSUME NEW E, NEW r, RingOK(r, E), r.fill < r.size,
         NEW e \in E, e # None, e \notin Waiting(r)
  PROVE  /\ RingOK(Store(r, e), E)
         /\ Waiting(Store(r, e)) = Waiting(r) \union {e}
         /\ Store(r, e).fill = r.fill + 1
  <1> DEFINE g == Store(r, e)
  <1>1. /\ r.size \in Nat \ {0} /\ r.fill \in Nat
        /\ r.write \in 0 .. r.size - 1 /\ r.read \in 0 .. r.size - 1
        /\ r.slots \in [0 .. r.size - 1 -> E \union {None}]
    BY RingFields
  <1>2. /\ g.slots = [r.slots EXCEPT ![r.write] = e]
        /\ g.size = r.size /\ g.fill = r.fill + 1 /\ g.read = r.read
        /\ g.write = IF r.write + 1 = r.size THEN 0 ELSE r.write + 1
    BY <1>1, ModNext DEF Store
  <1>3. IsRing(g, E)
    BY <1>1, <1>2, ModNext DEF IsRing, Store
  <1>4. r.slots[r.write] = None
    BY <1>1 DEF RingOK, InWindow
  <1>5. \A i \in 0 .. r.size - 1 : InWindow(g, i) <=> InWindow(r, i) \/ i = r.write
    <2> TAKE i \in 0 .. r.size - 1
    <2>1. Window(r.read, r.write, r.size, r.fill)
      BY RingFields
    <2>2. InWindow(r, i) <=> Within(r.read, r.write, r.fill, i)
      BY DEF InWindow, Within
    <2>3. InWindow(g, i) <=> Within(g.read, g.write, g.fill, i)
      BY DEF InWindow, Within
    <2>4. /\ g.fill = r.fill + 1 /\ g.read = r.read
          /\ g.write = IF r.write + 1 = r.size THEN 0 ELSE r.write + 1
      BY <1>2
    <2> HIDE DEF g
    <2>5. Within(r.read, g.write, r.fill + 1, i) <=> Within(r.read, r.write, r.fill, i) \/ i = r.write
      BY <1>1, <2>1, <2>4, WindowGrows
    <2> QED
      BY <2>2, <2>3, <2>4, <2>5
  <1>6. \A i \in 0 .. g.size - 1 : g.slots[i] # None <=> InWindow(g, i)
    BY <1>1, <1>2, <1>5 DEF RingOK
  <1>7. \A i \in 0 .. r.size - 1 : r.slots[i] # e
    BY <1>1 DEF Waiting
  <1>8. \A i, j \in 0 .. g.size - 1 :
          g.slots[i] # None /\ g.slots[i] = g.slots[j] => i = j
    <2> TAKE i, j \in 0 .. g.size - 1
    <2> SUFFICES ASSUME g.slots[i] # None, g.slots[i] = g.slots[j]
                 PROVE  i = j
      OBVIOUS
    <2>1. i \in 0 .. r.size - 1 /\ j \in 0 .. r.size - 1
      BY <1>2
    <2>2. \A k \in 0 .. r.size - 1 : g.slots[k] = IF k = r.write THEN e ELSE r.slots[k]
      BY <1>1, <1>2
    <2> HIDE DEF g
    <2>3. CASE i = r.write \/ j = r.write
      BY <1>7, <2>1, <2>2, <2>3
    <2>4. CASE i # r.write /\ j # r.write
      <3>1. r.slots[i] # None /\ r.slots[i] = r.slots[j]
        BY <2>1, <2>2, <2>4
      <3> QED
        BY <2>1, <3>1 DEF RingOK
    <2> QED
      BY <2>3, <2>4
  <1>9. /\ g.write < g.size /\ g.read < g.size
        /\ Window(g.read, g.write, g.size, g.fill)
    <2>1. Window(r.read, r.write, r.size, r.fill)
      BY RingFields
    <2>2. Window(r.read, IF r.write + 1 = r.size THEN 0 ELSE r.write + 1, r.size, r.fill + 1)
      BY <1>1, <2>1, WindowMoves
    <2> HIDE DEF g
    <2> QED
      BY <1>1, <1>2, <2>2
  <1>10. RingOK(g, E)
    BY <1>3, <1>6, <1>8, <1>9 DEF RingOK, Window
  <1>11. Waiting(g) = Waiting(r) \union {e}
    BY <1>1, <1>2, <1>4 DEF Waiting
  <1> QED
    BY <1>2, <1>10, <1>11

\* Pushing a new waiter adds it, whether the ring is full or not.
LEMMA PushOK ==
  ASSUME NEW E, NEW r, RingOK(r, E), NEW e \in E, e # None, e \notin Waiting(r)
  PROVE  /\ RingOK(Push(r, e), E)
         /\ Waiting(Push(r, e)) = Waiting(r) \union {e}
         /\ Push(r, e).fill = r.fill + 1
  <1>1. CASE r.fill = r.size
    BY <1>1, GrowOK, StoreOK DEF Push
  <1>2. CASE r.fill # r.size
    <2>1. r.fill < r.size
      BY <1>2, RingFields
    <2> QED
      BY <1>2, <2>1, StoreOK DEF Push
  <1> QED
    BY <1>1, <1>2

\* Taking the front off a ring takes one waiter out of it, and no other.
LEMMA PopOK ==
  ASSUME NEW E, NEW r, RingOK(r, E), r.fill > 0
  PROVE  /\ Front(r) \in Waiting(r) /\ Front(r) \in E
         /\ RingOK(Pop(r), E)
         /\ Waiting(Pop(r)) = Waiting(r) \ {Front(r)}
         /\ Pop(r).fill = r.fill - 1
  <1> DEFINE g == Pop(r)
  <1>1. /\ r.size \in Nat \ {0} /\ r.fill \in Nat
        /\ r.write \in 0 .. r.size - 1 /\ r.read \in 0 .. r.size - 1
        /\ r.slots \in [0 .. r.size - 1 -> E \union {None}]
    BY RingFields
  <1>2. /\ g.slots = [r.slots EXCEPT ![r.read] = None]
        /\ g.size = r.size /\ g.fill = r.fill - 1 /\ g.write = r.write
        /\ g.read = IF r.read + 1 = r.size THEN 0 ELSE r.read + 1
    BY <1>1, ModNext DEF Pop
  <1>3. IsRing(g, E)
    BY <1>1, <1>2, ModNext DEF IsRing, Pop
  <1>4. r.slots[r.read] # None
    BY <1>1 DEF RingOK, InWindow
  <1>5. \A i \in 0 .. r.size - 1 : InWindow(g, i) <=> InWindow(r, i) /\ i # r.read
    <2>1. Window(r.read, r.write, r.size, r.fill)
      BY RingFields
    <2>2. \A i \in 0 .. r.size - 1 :
            Within(g.read, g.write, g.fill, i)
              <=> Within(r.read, r.write, r.fill, i) /\ i # r.read
      <3> TAKE i \in 0 .. r.size - 1
      <3>1. /\ r.fill \in Nat \ {0} /\ g.fill \in Nat /\ g.read \in Nat
            /\ g.fill = r.fill - 1 /\ g.write = r.write
            /\ g.read = IF r.read + 1 = r.size THEN 0 ELSE r.read + 1
        BY <1>1, <1>2
      <3>2. Within(g.read, r.write, g.fill, i)
              <=> Within(r.read, r.write, r.fill, i) /\ i # r.read
        <4>1. CASE r.read < r.write
          BY <1>1, <2>1, <3>1, <4>1 DEF Within, Window
        <4>2. CASE r.write <= r.read /\ r.read + 1 = r.size
          <5>1. g.read = 0 /\ g.fill = r.write /\ r.fill = r.write + 1
            BY <1>1, <2>1, <3>1, <4>2 DEF Window
          <5>2. Within(g.read, r.write, g.fill, i) <=> i < r.write
            BY <1>1, <5>1 DEF Within
          <5>3. Within(r.read, r.write, r.fill, i) <=> i < r.write \/ i = r.read
            BY <1>1, <4>2, <5>1 DEF Within
          <5> QED
            BY <1>1, <4>2, <5>2, <5>3
        <4>3. CASE r.write <= r.read /\ r.read + 1 < r.size
          BY <1>1, <2>1, <3>1, <4>3, SMTT(30) DEF Within, Window
        <4> QED
          BY <1>1, <4>1, <4>2, <4>3
      <3> QED
        BY <3>1, <3>2
    <2> QED
      BY <2>2 DEF InWindow, Within
  <1>6. \A i \in 0 .. g.size - 1 : g.slots[i] # None <=> InWindow(g, i)
    BY <1>1, <1>2, <1>5 DEF RingOK
  <1>7. \A i, j \in 0 .. g.size - 1 :
          g.slots[i] # None /\ g.slots[i] = g.slots[j] => i = j
    <2> TAKE i, j \in 0 .. g.size - 1
    <2> SUFFICES ASSUME g.slots[i] # None, g.slots[i] = g.slots[j]
                 PROVE  i = j
      OBVIOUS
    <2>1. i \in 0 .. r.size - 1 /\ j \in 0 .. r.size - 1
      BY <1>2
    <2>2. \A k \in 0 .. r.size - 1 :
            g.slots[k] = IF k = r.read THEN None ELSE r.slots[k]
      BY <1>1, <1>2
    <2> HIDE DEF g
    <2>3. r.slots[i] # None /\ r.slots[i] = r.slots[j]
      BY <2>1, <2>2
    <2> QED
      BY <2>1, <2>3 DEF RingOK
  <1>8. /\ g.write < g.size /\ g.read < g.size
        /\ Window(g.read, g.write, g.size, g.fill)
    <2>1. Window(r.read, r.write, r.size, r.fill)
      BY RingFields
    <2>2. Window(IF r.read + 1 = r.size THEN 0 ELSE r.read + 1, r.write, r.size, r.fill - 1)
      BY <1>1, <2>1, WindowMoves
    <2> HIDE DEF g
    <2> QED
      BY <1>1, <1>2, <2>2
  <1>9. RingOK(g, E)
    BY <1>3, <1>6, <1>7, <1>8 DEF RingOK, Window
  <1>10. Front(r) \in Waiting(r) /\ Front(r) \in E
    BY <1>1, <1>4 DEF Waiting, Front
  <1>11. Waiting(g) = Waiting(r) \ {Front(r)}
    <2>1. \A i \in 0 .. r.size - 1 : i # r.read => r.slots[i] # Front(r)
      BY <1>1, <1>4 DEF RingOK, Front
    <2>2. ASSUME NEW x \in Waiting(g) PROVE x \in Waiting(r) /\ x # Front(r)
      BY <1>1, <1>2, <2>1, <2>2 DEF Waiting
    <2>3. ASSUME NEW x \in Waiting(r), x # Front(r) PROVE x \in Waiting(g)
      BY <1>1, <1>2, <2>3 DEF Waiting, Front
    <2> QED
      BY <2>2, <2>3
  <1> QED
    BY <1>2, <1>9, <1>10, <1>11
------------------------------------------------------------------------------
(* The read-write lock. *)

\* Writers is set only while somebody is in: what keeps the lock's users alive.
\* It is the part of the inductive invariant that no run checks by itself.
MarkInUse == Writers = 1 => Reading \union Writing # {}

IInv ==
  /\ TypeOK /\ Exclusion /\ WaitersAreQueued
  /\ SomebodyUnlocks /\ MarkHasWriter /\ MarkInUse

Waiters == Procs \X {0, 1}

\* An unlock loop is on stack s.
Loops(s) == \E i \in 1 .. Len(s) : s[i].at = "loop"

LEMMA FiniteReading ==
  IsFiniteSet(Reading) /\ Cardinality(Reading) \in Nat
  <1>1. Reading \subseteq Procs /\ IsFiniteSet(Procs)
    BY RWLockAssumption DEF Reading
  <1> QED
    BY <1>1, FS_Subset, FS_CardinalityType

\* Nobody reads exactly when the count is 0.
LEMMA NoReaders ==
  ASSUME Exclusion
  PROVE  Readers = 0 <=> Reading = {}
  BY FiniteReading, FS_EmptySet DEF Exclusion

\* A state that must wait joins the waiters.
LEMMA EnterRing ==
  ASSUME TypeOK, WaitersAreQueued, NEW p \in Procs, NEW w \in {0, 1},
         pc[p] = "out", ring' = Push(ring, <<p, w>>),
         pc' = [pc EXCEPT ![p] = "waiting"]
  PROVE  /\ WaitersAreQueued' /\ IsRing(ring, Waiters)'
         /\ pc' \in [Procs -> {"out", "waiting", "reading", "writing"}]
         /\ Waiting(ring') = Waiting(ring) \union {<<p, w>>}
         /\ Reading' = Reading /\ Writing' = Writing
  <1> DEFINE e == <<p, w>>
  <1>1. e \in Waiters /\ e # None
    BY RWLockAssumption DEF Waiters
  <1>2. RingOK(ring, Waiters) /\ \A v \in {0, 1} : <<p, v>> \notin Waiting(ring)
    BY DEF WaitersAreQueued, Waiters
  <1>3. /\ RingOK(ring', Waiters)
        /\ Waiting(ring') = Waiting(ring) \union {e}
    BY <1>1, <1>2, PushOK
  <1>4. ASSUME NEW q \in Procs
        PROVE  /\ pc'[q] = "waiting" <=> \E v \in {0, 1} : <<q, v>> \in Waiting(ring')
               /\ ~ {<<q, 1>>, <<q, 0>>} \subseteq Waiting(ring')
    <2>1. CASE q = p
      BY <1>2, <1>3, <2>1 DEF TypeOK
    <2>2. CASE q # p
      BY <1>3, <2>2 DEF TypeOK, WaitersAreQueued
    <2> QED
      BY <2>1, <2>2
  <1>5. Reading' = Reading /\ Writing' = Writing
    BY DEF TypeOK, Reading, Writing
  <1> QED
    BY <1>3, <1>4, <1>5 DEF WaitersAreQueued, Waiters, RingOK, TypeOK

\* The first waiter is let in.
LEMMA LeaveRing ==
  ASSUME TypeOK, WaitersAreQueued, ring.fill > 0,
         NEW s \in {"reading", "writing"},
         ring' = Pop(ring), pc' = [pc EXCEPT ![Next1] = s]
  PROVE  /\ WaitersAreQueued' /\ IsRing(ring, Waiters)'
         /\ pc' \in [Procs -> {"out", "waiting", "reading", "writing"}]
         /\ Next1 \in Procs /\ pc[Next1] = "waiting"
         /\ Waiting(ring') = Waiting(ring) \ {Front(ring)}
         /\ ring'.fill = ring.fill - 1
  <1> DEFINE f == Front(ring)
  <1>1. RingOK(ring, Waiters)
    BY DEF WaitersAreQueued, Waiters
  <1>2. /\ f \in Waiting(ring) /\ f \in Waiters
        /\ RingOK(ring', Waiters) /\ Waiting(ring') = Waiting(ring) \ {f}
        /\ ring'.fill = ring.fill - 1
    BY <1>1, PopOK
  <1>3. Next1 \in Procs /\ \E w \in {0, 1} : f = <<Next1, w>>
    BY <1>2 DEF Next1, Waiters
  <1>4. pc[Next1] = "waiting"
    BY <1>2, <1>3 DEF WaitersAreQueued
  <1>5. \A v \in {0, 1} : <<Next1, v>> \notin Waiting(ring')
    BY <1>2, <1>3 DEF WaitersAreQueued
  <1>6. ASSUME NEW q \in Procs
        PROVE  /\ pc'[q] = "waiting" <=> \E v \in {0, 1} : <<q, v>> \in Waiting(ring')
               /\ ~ {<<q, 1>>, <<q, 0>>} \subseteq Waiting(ring')
    <2>1. CASE q = Next1
      <3>1. pc'[q] = s /\ pc'[q] # "waiting"
        BY <1>3, <2>1 DEF TypeOK
      <3>2. \A v \in {0, 1} : <<q, v>> \notin Waiting(ring')
        BY <1>5, <2>1
      <3>3. <<q, 1>> \notin Waiting(ring')
        BY <3>2
      <3> QED
        BY <3>1, <3>2, <3>3
    <2>2. CASE q # Next1
      <3>1. pc'[q] = pc[q]
        BY <1>3, <2>2 DEF TypeOK
      <3>2. \A v \in {0, 1} : <<q, v>> # f
        BY <1>3, <2>2
      <3>3. \A v \in {0, 1} : <<q, v>> \in Waiting(ring') <=> <<q, v>> \in Waiting(ring)
        BY <1>2, <3>2
      <3>4. /\ pc[q] = "waiting" <=> \E v \in {0, 1} : <<q, v>> \in Waiting(ring)
            /\ ~ {<<q, 1>>, <<q, 0>>} \subseteq Waiting(ring)
        BY DEF WaitersAreQueued
      <3>5. /\ <<q, 1>> \in Waiting(ring') <=> <<q, 1>> \in Waiting(ring)
            /\ <<q, 0>> \in Waiting(ring') <=> <<q, 0>> \in Waiting(ring)
        BY <3>3
      <3> QED
        BY <3>1, <3>3, <3>4, <3>5
    <2> QED
      BY <2>1, <2>2
  <1> QED
    BY <1>2, <1>3, <1>4, <1>6 DEF WaitersAreQueued, Waiters, RingOK, TypeOK

\* A frame of an unlock loop below the top stays where it is, and pushing or
\* popping a frame keeps the stack typed.
LEMMA StackSteps ==
  ASSUME stack \in Seq(Frames), NEW f \in Frames
  PROVE  /\ <<f>> \o stack \in Seq(Frames)
         /\ (<<f>> \o stack)[1] = f /\ Len(<<f>> \o stack) = Len(stack) + 1
         /\ \A i \in 1 .. Len(stack) : (<<f>> \o stack)[i + 1] = stack[i]
         /\ stack # <<>> =>
              /\ Head(stack) \in Frames /\ Head(stack) = stack[1]
              /\ Tail(stack) \in Seq(Frames) /\ Len(Tail(stack)) = Len(stack) - 1
              /\ Len(stack) \in Nat \ {0}
              /\ \A i \in 1 .. Len(Tail(stack)) : Tail(stack)[i] = stack[i + 1]
  OBVIOUS

LEMMA TypeUse ==
  ASSUME TypeOK
  PROVE  /\ Readers \in Nat /\ Writers \in {0, 1} /\ IsRing(ring, Waiters)
         /\ pc \in [Procs -> {"out", "waiting", "reading", "writing"}]
         /\ stack \in Seq(Frames) /\ cur \in Procs \union {None}
  BY DEF TypeOK, Waiters

\* The lock is in use whenever a state finds that it cannot enter.
LEMMA RefusedInUse ==
  ASSUME IInv, Writers # 0 \/ Readers # 0
  PROVE  Reading \union Writing # {}
  <1>1. CASE Writers # 0
    BY <1>1 DEF IInv, TypeOK, MarkInUse
  <1>2. CASE Readers # 0
    BY <1>2, NoReaders DEF IInv
  <1> QED
    BY <1>1, <1>2

\* A state enters as a reader: p was out, or the first waiter.
LEMMA ReaderEnters ==
  ASSUME TypeOK, Exclusion, NEW p \in Procs, pc[p] \in {"out", "waiting"},
         Writers = 0, Writers' = Writers, Readers' = Readers + 1,
         pc' = [pc EXCEPT ![p] = "reading"]
  PROVE  Exclusion' /\ MarkInUse' /\ MarkHasWriter' /\ Reading' # {}
  <1>1. Writing = {}
    BY DEF Exclusion
  <1>2. Reading' = Reading \union {p} /\ p \notin Reading /\ Writing' = Writing
    BY DEF TypeOK, Reading, Writing
  <1>3. Cardinality(Reading \union {p}) = Cardinality(Reading) + 1
    <2> DEFINE R == Reading
    <2>1. Cardinality(R \union {p}) = Cardinality(R) + 1
      BY <1>2, FiniteReading, FS_AddElement
    <2> QED
      BY <2>1
  <1> QED
    BY <1>1, <1>2, <1>3 DEF Exclusion, MarkInUse, MarkHasWriter

\* A state enters as the writer.
LEMMA WriterEnters ==
  ASSUME TypeOK, Exclusion, NEW p \in Procs, pc[p] \in {"out", "waiting"},
         Writers = 0, Readers = 0, Writers' = 1, Readers' = Readers,
         pc' = [pc EXCEPT ![p] = "writing"]
  PROVE  Exclusion' /\ MarkInUse' /\ MarkHasWriter' /\ Writing' # {}
  <1>1. Writing = {} /\ Reading = {}
    BY NoReaders DEF Exclusion
  <1>2. Writing' = {p} /\ Reading' = {}
    BY <1>1 DEF TypeOK, Reading, Writing
  <1>3. Cardinality(Reading') = 0
    BY <1>2, FS_EmptySet
  <1> QED
    BY <1>2, <1>3 DEF Exclusion, MarkInUse, MarkHasWriter

\* A state leaves.
LEMMA StateLeaves ==
  ASSUME TypeOK, Exclusion, NEW p \in Procs, pc[p] \in {"reading", "writing"},
         Writers' = 0, Readers' = IF Readers > 0 THEN Readers - 1 ELSE 0,
         pc' = [pc EXCEPT ![p] = "out"]
  PROVE  Exclusion' /\ Readers' \in Nat
  <1>1. CASE pc[p] = "reading"
    <2>1. p \in Reading /\ Writing = {}
      BY <1>1 DEF Exclusion, Reading
    <2>2. Reading' = Reading \ {p} /\ Writing' = {}
      BY <1>1, <2>1 DEF TypeOK, Reading, Writing
    <2>3. Cardinality(Reading \ {p}) = Cardinality(Reading) - 1
      BY <2>1, FiniteReading, FS_RemoveElement
    <2>4. Readers # 0 /\ Readers \in Nat
      BY <2>1, NoReaders DEF TypeOK
    <2> QED
      BY <2>2, <2>3, <2>4 DEF Exclusion
  <1>2. CASE pc[p] = "writing"
    <2>1. Writing = {p} /\ Reading = {} /\ Readers = 0
      BY <1>2, NoReaders DEF Exclusion, Writing
    <2>2. Writing' = {} /\ Reading' = {}
      BY <1>2, <2>1 DEF TypeOK, Reading, Writing
    <2>3. Cardinality(Reading') = 0
      BY <2>2, FS_EmptySet
    <2> QED
      BY <2>1, <2>2, <2>3 DEF Exclusion
  <1> QED
    BY <1>1, <1>2

\* Waiters stay where they are while pc changes between other places only.
LEMMA RingStays ==
  ASSUME TypeOK, WaitersAreQueued, NEW p \in Procs, pc[p] # "waiting",
         NEW s \in {"out", "reading", "writing"},
         ring' = ring, pc' = [pc EXCEPT ![p] = s]
  PROVE  /\ WaitersAreQueued' /\ IsRing(ring, Waiters)'
         /\ pc' \in [Procs -> {"out", "waiting", "reading", "writing"}]
  <1>1. \A q \in Procs : pc'[q] = "waiting" <=> pc[q] = "waiting"
    BY DEF TypeOK
  <1> QED
    BY <1>1 DEF TypeOK, WaitersAreQueued, Waiters

LEMMA InitInv == Init => IInv
  <1> SUFFICES ASSUME Init PROVE IInv
    OBVIOUS
  <1> USE RWLockAssumption DEF Init
  <1>1. /\ RingOK(ring, Waiters) /\ Waiting(ring) = {} /\ ring.fill = 0
    BY NewRingOK
  <1>2. TypeOK
    BY <1>1 DEF TypeOK, RingOK, Waiters
  <1>3. Reading = {} /\ Writing = {}
    BY DEF Reading, Writing
  <1>4. Exclusion
    BY <1>3, FS_EmptySet DEF Exclusion
  <1>5. WaitersAreQueued
    BY <1>1 DEF WaitersAreQueued, Waiters
  <1>6. SomebodyUnlocks /\ MarkHasWriter /\ MarkInUse
    BY <1>1 DEF SomebodyUnlocks, MarkHasWriter, MarkInUse
  <1> QED
    BY <1>2, <1>4, <1>5, <1>6 DEF IInv

LEMMA NextInv == IInv /\ [Next]_vars => IInv'
  <1> SUFFICES ASSUME IInv, [Next]_vars PROVE IInv'
    OBVIOUS
  <1>1. /\ TypeOK /\ Exclusion /\ WaitersAreQueued
        /\ SomebodyUnlocks /\ MarkHasWriter /\ MarkInUse
    BY DEF IInv
  <1>2. /\ Readers \in Nat /\ Writers \in {0, 1} /\ IsRing(ring, Waiters)
        /\ pc \in [Procs -> {"out", "waiting", "reading", "writing"}]
        /\ stack \in Seq(Frames) /\ cur \in Procs \union {None}
    BY <1>1, TypeUse
  <1>3. ASSUME NEW p \in Procs, RdLock(p) PROVE IInv'
    <2>1. /\ pc[p] = "out" /\ Writers = 0 /\ Readers' = Readers + 1
          /\ pc' = [pc EXCEPT ![p] = "reading"] /\ cur' = p
          /\ Writers' = Writers /\ ring' = ring /\ stack' = stack
      BY <1>3 DEF RdLock
    <2>2. Exclusion' /\ MarkInUse' /\ MarkHasWriter' /\ Reading' # {}
      BY <1>1, <2>1, ReaderEnters
    <2>3. /\ WaitersAreQueued' /\ IsRing(ring, Waiters)'
          /\ pc' \in [Procs -> {"out", "waiting", "reading", "writing"}]
      BY <1>1, <2>1, RingStays
    <2>4. TypeOK'
      BY <1>2, <2>1, <2>3 DEF TypeOK, Waiters
    <2>5. SomebodyUnlocks'
      BY <2>2 DEF SomebodyUnlocks
    <2> QED
      BY <2>2, <2>3, <2>4, <2>5 DEF IInv
  <1>4. ASSUME NEW p \in Procs, RdLockWaits(p) PROVE IInv'
    <2>1. /\ pc[p] = "out" /\ Writers # 0 /\ ring' = Push(ring, <<p, 0>>)
          /\ pc' = [pc EXCEPT ![p] = "waiting"] /\ cur' = None
          /\ Readers' = Readers /\ Writers' = Writers /\ stack' = stack
      BY <1>4 DEF RdLockWaits
    <2>2. /\ WaitersAreQueued' /\ IsRing(ring, Waiters)'
          /\ pc' \in [Procs -> {"out", "waiting", "reading", "writing"}]
          /\ Waiting(ring') = Waiting(ring) \union {<<p, 0>>}
          /\ Reading' = Reading /\ Writing' = Writing
      BY <1>1, <2>1, EnterRing
    <2>3. TypeOK'
      BY <1>2, <2>1, <2>2 DEF TypeOK, Waiters
    <2>4. Exclusion' /\ MarkInUse' /\ MarkHasWriter'
      BY <1>1, <2>1, <2>2 DEF Exclusion, MarkInUse, MarkHasWriter
    <2>5. SomebodyUnlocks'
      BY <2>1, <2>2, RefusedInUse DEF SomebodyUnlocks
    <2> QED
      BY <2>2, <2>3, <2>4, <2>5 DEF IInv
  <1>5. ASSUME NEW p \in Procs, WrLock(p) PROVE IInv'
    <2>1. /\ pc[p] = "out" /\ Writers = 0 /\ Readers = 0 /\ Writers' = 1
          /\ pc' = [pc EXCEPT ![p] = "writing"] /\ cur' = p
          /\ Readers' = Readers /\ ring' = ring /\ stack' = stack
      BY <1>5 DEF WrLock
    <2>2. Exclusion' /\ MarkInUse' /\ MarkHasWriter' /\ Writing' # {}
      BY <1>1, <2>1, WriterEnters
    <2>3. /\ WaitersAreQueued' /\ IsRing(ring, Waiters)'
          /\ pc' \in [Procs -> {"out", "waiting", "reading", "writing"}]
      BY <1>1, <2>1, RingStays
    <2>4. TypeOK'
      BY <1>2, <2>1, <2>3 DEF TypeOK, Waiters
    <2>5. SomebodyUnlocks'
      BY <2>2 DEF SomebodyUnlocks
    <2> QED
      BY <2>2, <2>3, <2>4, <2>5 DEF IInv
  <1>6. ASSUME NEW p \in Procs, WrLockWaits(p) PROVE IInv'
    <2>1. /\ pc[p] = "out"
          /\ Writers # 0 \/ Readers # 0
          /\ Writers' = 1 /\ ring' = Push(ring, <<p, 1>>)
          /\ pc' = [pc EXCEPT ![p] = "waiting"] /\ cur' = None
          /\ Readers' = Readers /\ stack' = stack
      BY <1>6 DEF WrLockWaits
    <2>2. /\ WaitersAreQueued' /\ IsRing(ring, Waiters)'
          /\ pc' \in [Procs -> {"out", "waiting", "reading", "writing"}]
          /\ Waiting(ring') = Waiting(ring) \union {<<p, 1>>}
          /\ Reading' = Reading /\ Writing' = Writing
      BY <1>1, <2>1, EnterRing
    <2>3. TypeOK'
      BY <1>2, <2>1, <2>2 DEF TypeOK, Waiters
    <2>4. Reading \union Writing # {}
      BY <1>6, RefusedInUse DEF WrLockWaits
    <2>5. Exclusion' /\ MarkInUse' /\ MarkHasWriter'
      BY <1>1, <2>1, <2>2, <2>4 DEF Exclusion, MarkInUse, MarkHasWriter
    <2>6. SomebodyUnlocks'
      BY <2>2, <2>4 DEF SomebodyUnlocks
    <2> QED
      BY <2>2, <2>3, <2>5, <2>6 DEF IInv
  <1>7. ASSUME NEW p \in Procs, Unlock(p) PROVE IInv'
    <2> DEFINE f == Frame(p, "loop")
    <2>1. /\ pc[p] \in {"reading", "writing"}
          /\ Readers' = IF Readers > 0 THEN Readers - 1 ELSE 0
          /\ Writers' = 0 /\ pc' = [pc EXCEPT ![p] = "out"]
          /\ stack' = <<f>> \o stack /\ cur' = None /\ ring' = ring
      BY <1>7 DEF Unlock
    <2>2. Exclusion' /\ Readers' \in Nat
      BY <1>1, <2>1, StateLeaves
    <2>3. /\ WaitersAreQueued' /\ IsRing(ring, Waiters)'
          /\ pc' \in [Procs -> {"out", "waiting", "reading", "writing"}]
      BY <1>1, <2>1, RingStays
    <2>4. f \in Frames /\ f.at = "loop"
      BY DEF Frame, Frames
    <2>5. /\ stack' \in Seq(Frames) /\ stack'[1].at = "loop"
          /\ 1 \in 1 .. Len(stack')
      BY <1>2, <2>1, <2>4, StackSteps
    <2>6. TypeOK'
      BY <1>2, <2>1, <2>2, <2>3, <2>5 DEF TypeOK, Waiters
    <2>7. SomebodyUnlocks' /\ MarkInUse' /\ MarkHasWriter'
      BY <2>1, <2>5 DEF SomebodyUnlocks, MarkInUse, MarkHasWriter
    <2> QED
      BY <2>2, <2>3, <2>6, <2>7 DEF IInv
  <1>8. CASE LetReaderIn
    <2>1. /\ ring.fill > 0 /\ Writers = 0 /\ Readers' = Readers + 1
          /\ ring' = Pop(ring) /\ pc' = [pc EXCEPT ![Next1] = "reading"]
          /\ cur' = Next1 /\ Writers' = Writers /\ stack' = stack
      BY <1>8 DEF LetReaderIn
    <2>2. /\ WaitersAreQueued' /\ IsRing(ring, Waiters)'
          /\ pc' \in [Procs -> {"out", "waiting", "reading", "writing"}]
          /\ Next1 \in Procs /\ pc[Next1] = "waiting"
      BY <1>1, <2>1, LeaveRing
    <2>3. Exclusion' /\ MarkInUse' /\ MarkHasWriter' /\ Reading' # {}
      BY <1>1, <2>1, <2>2, ReaderEnters
    <2>4. TypeOK'
      BY <1>2, <2>1, <2>2 DEF TypeOK, Waiters
    <2>5. SomebodyUnlocks'
      BY <2>3 DEF SomebodyUnlocks
    <2> QED
      BY <2>2, <2>3, <2>4, <2>5 DEF IInv
  <1>9. CASE LetWriterIn
    <2> DEFINE f == Frame(Head(stack).proc, "break")
    <2>1. /\ ring.fill > 0 /\ Writers = 0 /\ Readers = 0 /\ Writers' = 1
          /\ ring' = Pop(ring) /\ pc' = [pc EXCEPT ![Next1] = "writing"]
          /\ cur' = Next1 /\ Readers' = Readers /\ stack # <<>>
          /\ stack' = <<f>> \o Tail(stack)
      BY <1>9 DEF LetWriterIn, InLoop
    <2>2. /\ WaitersAreQueued' /\ IsRing(ring, Waiters)'
          /\ pc' \in [Procs -> {"out", "waiting", "reading", "writing"}]
          /\ Next1 \in Procs /\ pc[Next1] = "waiting"
      BY <1>1, <2>1, LeaveRing
    <2>3. Exclusion' /\ MarkInUse' /\ MarkHasWriter' /\ Writing' # {}
      BY <1>1, <2>1, <2>2, WriterEnters
    <2>4. Head(stack) \in Frames /\ Tail(stack) \in Seq(Frames)
      BY <1>2, <2>1
    <2>5. f \in Frames
      BY <2>4 DEF Frame, Frames
    <2>6. stack' \in Seq(Frames)
      BY <2>1, <2>4, <2>5
    <2>7. TypeOK'
      BY <1>2, <2>1, <2>2, <2>6 DEF TypeOK, Waiters
    <2>8. SomebodyUnlocks'
      BY <2>3 DEF SomebodyUnlocks
    <2> QED
      BY <2>2, <2>3, <2>7, <2>8 DEF IInv
  <1>10. CASE LoopEnds
    <2>1. /\ stack # <<>> /\ stack' = Tail(stack) /\ cur' = Head(stack).proc
          /\ Readers' = Readers /\ ring' = ring /\ pc' = pc
          /\ \/ ring.fill = 0 /\ Writers' = Writers
             \/ /\ ring.fill > 0 /\ NextWrites
                /\ Writers # 0 \/ Readers # 0
                /\ Writers' = 1
             \/ ring.fill > 0 /\ Writers # 0 /\ Writers' = Writers
      BY <1>10 DEF LoopEnds, InLoop, LeaveLoop
    <2>2. Head(stack).proc \in Procs /\ stack' \in Seq(Frames)
      <3>1. Head(stack) \in Frames /\ Tail(stack) \in Seq(Frames)
        BY <1>2, <2>1
      <3> QED
        BY <2>1, <3>1 DEF Frames
    <2>3. TypeOK'
      BY <1>2, <2>1, <2>2 DEF TypeOK, Waiters
    <2>4. Reading' = Reading /\ Writing' = Writing
      BY <2>1 DEF Reading, Writing
    <2>5. ring.fill > 0 => Reading \union Writing # {}
      <3>1. ring.fill > 0 => Writers # 0 \/ Readers # 0
        BY <2>1
      <3> QED
        BY <3>1, RefusedInUse
    <2>6. SomebodyUnlocks'
      BY <2>1, <2>4, <2>5 DEF SomebodyUnlocks
    <2>7. MarkInUse'
      BY <1>1, <2>1, <2>4, <2>5 DEF MarkInUse
    <2>8. Exclusion' /\ WaitersAreQueued'
      BY <1>1, <2>1, <2>4 DEF Exclusion, WaitersAreQueued, TypeOK
    <2>9. MarkHasWriter'
      <3>1. CASE ring.fill > 0 /\ NextWrites
        <4> DEFINE e == Front(ring)
        <4>1. RingOK(ring, Waiters)
          BY <1>1 DEF WaitersAreQueued, Waiters
        <4>2. e \in Waiting(ring) /\ e \in Waiters
          BY <3>1, <4>1, PopOK
        <4>3. PICK q \in Procs, w \in {0, 1} : e = <<q, w>>
          BY <4>2 DEF Waiters
        <4>4. w = 1
          BY <3>1, <4>3 DEF NextWrites
        <4>5. <<q, 1>> \in Waiting(ring')
          BY <2>1, <4>2, <4>3, <4>4
        <4> QED
          BY <4>5 DEF MarkHasWriter
      <3>2. CASE Writers' = Writers
        BY <1>1, <2>1, <2>4, <3>2 DEF MarkHasWriter
      <3> QED
        BY <2>1, <3>1, <3>2
    <2> QED
      BY <2>3, <2>6, <2>7, <2>8, <2>9 DEF IInv
  <1>11. ASSUME NEW f \in Frames, stack' = <<f>> \o stack PROVE Loops(stack) => Loops(stack')
    <2>1. SUFFICES ASSUME NEW i \in 1 .. Len(stack), stack[i].at = "loop"
                   PROVE  Loops(stack')
      BY DEF Loops
    <2>2. i + 1 \in 1 .. Len(stack') /\ stack'[i + 1].at = "loop"
      BY <1>2, <1>11, <2>1, StackSteps
    <2> QED
      BY <2>2 DEF Loops
  <1>12. ASSUME stack # <<>>, Head(stack).at # "loop", stack' = Tail(stack)
         PROVE  Loops(stack) => Loops(stack')
    <2>1. SUFFICES ASSUME NEW i \in 1 .. Len(stack), stack[i].at = "loop"
                   PROVE  Loops(stack')
      BY DEF Loops
    <2>2. i # 1 /\ i - 1 \in 1 .. Len(Tail(stack))
      BY <1>2, <1>12, <2>1
    <2>3. Tail(stack)[i - 1] = stack[i]
      BY <1>2, <1>12, <2>2
    <2> QED
      BY <1>12, <2>1, <2>2, <2>3 DEF Loops
  <1>13. ASSUME UNCHANGED <<lock, pc>>, Loops(stack) => Loops(stack'), TypeOK'
         PROVE  IInv'
    <2>1. Reading' = Reading /\ Writing' = Writing
      BY <1>13 DEF Reading, Writing
    <2>2. Exclusion' /\ WaitersAreQueued' /\ MarkInUse' /\ MarkHasWriter'
      BY <1>1, <1>13, <2>1
      DEF lock, Exclusion, WaitersAreQueued, MarkInUse, MarkHasWriter
    <2>3. SomebodyUnlocks'
      BY <1>1, <1>13, <2>1 DEF lock, SomebodyUnlocks, Loops
    <2> QED
      BY <1>13, <2>2, <2>3 DEF IInv
  <1>14. CASE Resume
    <2>1. /\ stack # <<>> /\ Head(stack).at # "loop" /\ stack' = Tail(stack)
          /\ cur' = Head(stack).proc /\ UNCHANGED <<lock, pc>>
      BY <1>14 DEF Resume, LeaveLoop
    <2>2. Head(stack).proc \in Procs /\ stack' \in Seq(Frames)
      <3>1. Head(stack) \in Frames /\ Tail(stack) \in Seq(Frames)
        BY <1>2, <2>1
      <3> QED
        BY <2>1, <3>1 DEF Frames
    <2>3. TypeOK'
      BY <1>2, <2>1, <2>2 DEF TypeOK, Waiters, lock
    <2> QED
      BY <1>12, <1>13, <2>1, <2>3
  <1>15. ASSUME NEW p \in Procs, Return(p) PROVE IInv'
    <2>1. cur' = None /\ stack' = stack /\ UNCHANGED <<lock, pc>>
      BY <1>15 DEF Return
    <2>2. TypeOK'
      BY <1>2, <2>1 DEF TypeOK, Waiters, lock
    <2> QED
      BY <1>13, <2>1, <2>2
  <1>16. ASSUME NEW p \in Procs, NEW q \in Procs, Call(p, q) PROVE IInv'
    <2> DEFINE f == Frame(p, "call")
    <2>1. stack' = <<f>> \o stack /\ cur' = q /\ UNCHANGED <<lock, pc>>
      BY <1>16 DEF Call
    <2>2. f \in Frames
      BY DEF Frame, Frames
    <2>3. TypeOK'
      BY <1>2, <2>1, <2>2 DEF TypeOK, Waiters, lock
    <2> QED
      BY <1>11, <1>13, <2>1, <2>2, <2>3
  <1>17. CASE UNCHANGED vars
    <2>1. stack' = stack /\ cur' = cur /\ UNCHANGED <<lock, pc>>
      BY <1>17 DEF vars, lock
    <2>2. TypeOK'
      BY <1>2, <2>1 DEF TypeOK, Waiters, lock
    <2> QED
      BY <1>13, <2>1, <2>2
  <1> QED
    BY <1>3, <1>4, <1>5, <1>6, <1>7, <1>8, <1>9, <1>10, <1>14, <1>15, <1>16,
       <1>17 DEF Next

\* The inductive invariant holds in every reachable state.
THEOREM Invariance == Spec => []IInv
  <1> QED
    BY InitInv, NextInv, PTL DEF Spec

\* The lock and the stack of frames are well typed in every reachable state.
THEOREM LockTypes == Spec => []TypeOK
  <1>1. IInv => TypeOK
    BY DEF IInv
  <1> QED
    BY <1>1, Invariance, PTL

\* A writer excludes readers and other writers, and the counts are exact, however
\* deep unlock's own calls are nested.
THEOREM WritersExclude == Spec => []Exclusion
  <1>1. IInv => Exclusion
    BY DEF IInv
  <1> QED
    BY <1>1, Invariance, PTL

\* However often the ring has grown, it holds every waiting state once.
THEOREM NoWaiterIsLost == Spec => []WaitersAreQueued
  <1>1. IInv => WaitersAreQueued
    BY DEF IInv
  <1> QED
    BY <1>1, Invariance, PTL

\* Whenever a state waits, a state that is in the lock or an unfinished unlock
\* will look at the ring again.
THEOREM WaitersAreServed == Spec => []SomebodyUnlocks
  <1>1. IInv => SomebodyUnlocks
    BY DEF IInv
  <1> QED
    BY <1>1, Invariance, PTL

\* The lock is marked for writers only while a writer is in or waits.
THEOREM MarksAreOwned == Spec => []MarkHasWriter
  <1>1. IInv => MarkHasWriter
    BY DEF IInv
  <1> QED
    BY <1>1, Invariance, PTL
------------------------------------------------------------------------------
(* The semaphore and its condition. *)

\* Sequence s lists the elements of set C, each once.
Lists(s, C) ==
  /\ \A i \in 1 .. Len(s) : s[i] \in C
  /\ \A i, j \in 1 .. Len(s) : s[i] = s[j] => i = j
  /\ \A c \in C : \E i \in 1 .. Len(s) : s[i] = c

LEMMA ListsPush ==
  ASSUME NEW S, NEW C, NEW s \in Seq(S), Lists(s, C), NEW p \in S, p \notin C
  PROVE  Lists(<<p>> \o s, C \union {p})
  <1> DEFINE t == <<p>> \o s
  <1>1. /\ Len(t) = Len(s) + 1 /\ Len(s) \in Nat
        /\ t[1] = p /\ \A i \in 2 .. Len(t) : t[i] = s[i - 1]
    BY DEF Lists
  <1>2. \A i \in 1 .. Len(s) : s[i] \in C
    BY DEF Lists
  <1>3. \A i, j \in 1 .. Len(t) : t[i] = t[j] => i = j
    <2> TAKE i, j \in 1 .. Len(t)
    <2>1. CASE i = 1 \/ j = 1
      BY <1>1, <1>2, <2>1
    <2>2. CASE i # 1 /\ j # 1
      <3>1. /\ i - 1 \in 1 .. Len(s) /\ t[i] = s[i - 1]
            /\ j - 1 \in 1 .. Len(s) /\ t[j] = s[j - 1]
        BY <1>1, <2>2
      <3>2. t[i] = t[j] => i - 1 = j - 1
        BY <3>1 DEF Lists
      <3> QED
        BY <3>2
    <2> QED
      BY <2>1, <2>2
  <1>4. \A c \in C \union {p} : \E i \in 1 .. Len(t) : t[i] = c
    <2> TAKE c \in C \union {p}
    <2>1. CASE c = p
      BY <1>1, <2>1
    <2>2. CASE c \in C
      <3>1. PICK i \in 1 .. Len(s) : s[i] = c
        BY <2>2 DEF Lists
      <3>2. i + 1 \in 1 .. Len(t) /\ t[i + 1] = c
        BY <1>1, <3>1
      <3> QED
        BY <3>2
    <2> QED
      BY <2>1, <2>2
  <1>5. \A i \in 1 .. Len(t) : t[i] \in C \union {p}
    <2> HIDE DEF t
    <2> QED
      BY <1>1, <1>2
  <1> HIDE DEF t
  <1>6. Lists(t, C \union {p})
    BY <1>3, <1>4, <1>5 DEF Lists
  <1> QED
    BY <1>6 DEF t

LEMMA ListsTail ==
  ASSUME NEW S, NEW C, NEW s \in Seq(S), Lists(s, C), s # <<>>
  PROVE  /\ Head(s) \in C
         /\ Lists(Tail(s), C \ {Head(s)})
  <1> DEFINE t == Tail(s)
  <1>1. /\ Len(t) = Len(s) - 1 /\ Len(s) \in Nat \ {0}
        /\ Head(s) = s[1] /\ \A i \in 1 .. Len(t) : t[i] = s[i + 1]
    <2>1. Len(s) \in Nat \ {0}
      BY EmptySeq
    <2> QED
      BY <2>1
  <1>2. \A i \in 1 .. Len(s) : s[i] \in C
    BY DEF Lists
  <1>3. \A i \in 1 .. Len(t) : t[i] \in C \ {Head(s)}
    BY <1>1, <1>2 DEF Lists
  <1>5. \A i, j \in 1 .. Len(t) : t[i] = t[j] => i = j
    BY <1>1 DEF Lists
  <1>6. \A c \in C \ {Head(s)} : \E i \in 1 .. Len(t) : t[i] = c
    <2> TAKE c \in C \ {Head(s)}
    <2>1. PICK i \in 1 .. Len(s) : s[i] = c
      BY DEF Lists
    <2>2. i - 1 \in 1 .. Len(t) /\ t[i - 1] = c
      BY <1>1, <2>1
    <2> QED
      BY <2>2
  <1> QED
    BY <1>1, <1>2, <1>3, <1>5, <1>6 DEF Lists

LEMMA Concatenations ==
  ASSUME NEW S, NEW s \in Seq(S), NEW t \in Seq(S)
  PROVE  /\ <<>> \o s = s
         /\ s \o <<>> = s
         /\ s # <<>> => /\ s \o t # <<>> /\ Head(s \o t) = Head(s)
                        /\ Tail(s \o t) = Tail(s) \o t
  OBVIOUS
------------------------------------------------------------------------------
(* The inductive invariant is the conjunction of the invariants: the count  *)
(* of units needs the ring to hold blocked states only, the ring needs every *)
(* listed state to wait for the condition, and a unit stays with a waiter    *)
(* only because nobody waits while one is free.                              *)

SemInv == SemTypeOK /\ UnitsConserved /\ NoIdleUnit /\ BlockedAreQueued /\ CondsAreListed

Blocked == {p \in Users : place[p] = "blocked"}
Conds == {p \in Users : place[p] = "cond"}

LEMMA CondsAreLists ==
  ASSUME SemTypeOK
  PROVE  CondsAreListed <=> Lists(waking \o waiters, Conds)
  <1>1. waking \o waiters \in Seq(Users)
    BY DEF SemTypeOK
  <1>2. \A i \in 1 .. Len(waking \o waiters) : (waking \o waiters)[i] \in Users
    BY <1>1
  <1> QED
    BY <1>2 DEF CondsAreListed, Lists, Conds

\* The same of the next state.
LEMMA CondsAreListsNext ==
  ASSUME SemTypeOK'
  PROVE  CondsAreListed' <=> Lists(waking \o waiters, Conds)'
  <1>1. (waking \o waiters)' \in Seq(Users)
    BY DEF SemTypeOK
  <1>2. \A i \in 1 .. Len((waking \o waiters)') :
          (waking \o waiters)'[i] \in Users
    BY <1>1
  <1> QED
    BY <1>2 DEF CondsAreListed, Lists, Conds

LEMMA FiniteHolders == IsFiniteSet(Holders)
  <1>1. Holders \subseteq Users /\ IsFiniteSet(Users)
    BY SemaphoreAssumption DEF Holders
  <1> QED
    BY <1>1, FS_Subset

\* What wait does to the semaphore, for a state that is not blocked.
LEMMA AcquireStep ==
  ASSUME SemTypeOK, UnitsConserved, NoIdleUnit, BlockedAreQueued,
         NEW p \in Users, place[p] \in {"out", "cond"}, Acquire(p)
  PROVE  /\ value' \in Nat /\ IsRing(blocked, Users)'
         /\ place' \in [Users -> {"out", "blocked", "cond", "in"}]
         /\ UnitsConserved' /\ NoIdleUnit' /\ BlockedAreQueued'
         /\ Conds' = Conds \ {p}
  <1> USE DEF SemTypeOK
  <1>1. p \notin Waiting(blocked) /\ p # None
    BY SemaphoreAssumption DEF BlockedAreQueued
  <1>2. Cardinality(Holders) \in Nat /\ value \in Nat /\ Initial \in Nat
    BY FiniteHolders, FS_CardinalityType, SemaphoreAssumption
  <1>3. CASE /\ value # 0 /\ value' = value - 1 /\ blocked' = blocked
             /\ place' = [place EXCEPT ![p] = "in"]
    <2>1. Holders' = Holders \union {p} /\ p \notin Holders
      BY <1>3 DEF Holders
    <2>2. Cardinality(Holders') = Cardinality(Holders) + 1
      BY <2>1, FiniteHolders, FS_AddElement
    <2>3. UnitsConserved'
      BY <1>2, <1>3, <2>2 DEF UnitsConserved
    <2>4. blocked.fill \in Nat /\ blocked.fill = 0
      BY <1>2, <1>3 DEF NoIdleUnit, IsRing
    <2>5. NoIdleUnit'
      BY <1>3, <2>4 DEF NoIdleUnit
    <2>6. BlockedAreQueued'
      BY <1>3 DEF BlockedAreQueued
    <2>7. Conds' = Conds \ {p}
      BY <1>3 DEF Conds
    <2> QED
      BY <1>2, <1>3, <2>3, <2>5, <2>6, <2>7
  <1>4. CASE /\ value = 0 /\ value' = value /\ blocked' = Push(blocked, p)
             /\ place' = [place EXCEPT ![p] = "blocked"]
    <2>1. Holders' = Holders
      BY <1>4 DEF Holders
    <2>2. UnitsConserved' /\ NoIdleUnit'
      BY <1>4, <2>1 DEF UnitsConserved, NoIdleUnit
    <2>3. RingOK(blocked, Users)
      BY DEF BlockedAreQueued
    <2>4. /\ RingOK(Push(blocked, p), Users)
          /\ Waiting(Push(blocked, p)) = Waiting(blocked) \union {p}
      BY <1>1, <2>3, PushOK
    <2>5. Blocked' = Blocked \union {p}
      BY <1>4 DEF Blocked
    <2>6. BlockedAreQueued' /\ IsRing(blocked, Users)'
      BY <1>4, <2>4, <2>5 DEF BlockedAreQueued, Blocked, RingOK
    <2>7. Conds' = Conds \ {p}
      BY <1>4 DEF Conds
    <2> QED
      BY <1>2, <1>4, <2>2, <2>6, <2>7
  <1> QED
    BY <1>3, <1>4 DEF Acquire

\* What signal does to the semaphore, for a state that holds a unit.
LEMMA ReleaseStep ==
  ASSUME SemTypeOK, UnitsConserved, NoIdleUnit, BlockedAreQueued,
         NEW p \in Users, place[p] = "in", NEW next \in {"out", "cond"},
         Release(p, next)
  PROVE  /\ value' \in Nat /\ IsRing(blocked, Users)'
         /\ place' \in [Users -> {"out", "blocked", "cond", "in"}]
         /\ UnitsConserved' /\ NoIdleUnit' /\ BlockedAreQueued'
         /\ Conds' = IF next = "cond" THEN Conds \union {p} ELSE Conds
  <1> USE DEF SemTypeOK
  <1>1. p \in Holders
    BY DEF Holders
  <1>2. /\ Cardinality(Holders) \in Nat /\ value \in Nat /\ Initial \in Nat
        /\ Cardinality(Holders \ {p}) = Cardinality(Holders) - 1
        /\ IsFiniteSet(Holders \ {p})
    BY <1>1, FiniteHolders, FS_CardinalityType, FS_RemoveElement,
       SemaphoreAssumption
  <1>3. RingOK(blocked, Users)
    BY DEF BlockedAreQueued
  <1>4. CASE /\ blocked.fill > 0 /\ blocked' = Pop(blocked) /\ value' = value
             /\ place' = [place EXCEPT ![p] = next, ![Front(blocked)] = "in"]
    <2> DEFINE q == Front(blocked)
    <2>1. /\ q \in Waiting(blocked) /\ q \in Users
          /\ RingOK(blocked', Users) /\ Waiting(blocked') = Waiting(blocked) \ {q}
      BY <1>3, <1>4, PopOK
    <2>2. place[q] = "blocked" /\ q # p
      BY <2>1 DEF BlockedAreQueued
    <2>3. Holders' = (Holders \ {p}) \union {q} /\ q \notin Holders \ {p}
      <3>1. \A x \in Users : place'[x] = IF x = q THEN "in" ELSE
                                      IF x = p THEN next ELSE place[x]
        BY <1>4, <2>1, <2>2
      <3> QED
        BY <2>1, <2>2, <3>1 DEF Holders
    <2>4. Cardinality(Holders') = Cardinality(Holders)
      <3> DEFINE H == Holders \ {p}
      <3>1. Cardinality(H \union {q}) = Cardinality(H) + 1
        BY <1>2, <2>3, FS_AddElement
      <3> QED
        BY <1>2, <2>3, <3>1
    <2>5. UnitsConserved' /\ NoIdleUnit'
      BY <1>4, <2>4 DEF UnitsConserved, NoIdleUnit
    <2>6. Blocked' = Blocked \ {q}
      BY <1>4, <2>1, <2>2 DEF Blocked
    <2>7. BlockedAreQueued' /\ IsRing(blocked, Users)'
      BY <2>1, <2>6 DEF BlockedAreQueued, Blocked, RingOK
    <2>8. Conds' = IF next = "cond" THEN Conds \union {p} ELSE Conds
      BY <1>4, <2>1, <2>2 DEF Conds
    <2> QED
      BY <1>2, <1>4, <2>1, <2>5, <2>7, <2>8
  <1>5. CASE /\ blocked.fill = 0 /\ blocked' = blocked /\ value' = value + 1
             /\ place' = [place EXCEPT ![p] = next]
    <2>1. Holders' = Holders \ {p}
      BY <1>5 DEF Holders
    <2>2. UnitsConserved' /\ NoIdleUnit'
      BY <1>2, <1>5, <2>1 DEF UnitsConserved, NoIdleUnit
    <2>3. BlockedAreQueued'
      BY <1>5 DEF BlockedAreQueued
    <2>4. Conds' = IF next = "cond" THEN Conds \union {p} ELSE Conds
      BY <1>5 DEF Conds
    <2> QED
      BY <1>2, <1>5, <2>2, <2>3, <2>4
  <1> QED
    BY <1>4, <1>5 DEF Release

LEMMA SemInitInv == SemInit => SemInv
  <1> SUFFICES ASSUME SemInit PROVE SemInv
    OBVIOUS
  <1> USE SemaphoreAssumption DEF SemInit
  <1>1. /\ RingOK(blocked, Users) /\ Waiting(blocked) = {} /\ blocked.fill = 0
    BY NewRingOK
  <1>2. SemTypeOK
    BY <1>1 DEF SemTypeOK, RingOK
  <1>3. Holders = {}
    BY DEF Holders
  <1>4. UnitsConserved
    BY <1>3, FS_EmptySet DEF UnitsConserved
  <1>5. NoIdleUnit /\ BlockedAreQueued
    BY <1>1 DEF NoIdleUnit, BlockedAreQueued
  <1>6. CondsAreListed
    BY DEF CondsAreListed
  <1> QED
    BY <1>2, <1>4, <1>5, <1>6 DEF SemInv

LEMMA SemNextInv == SemInv /\ [SemNext]_semVars => SemInv'
  <1> SUFFICES ASSUME SemInv, [SemNext]_semVars PROVE SemInv'
    OBVIOUS
  <1>1. SemTypeOK /\ UnitsConserved /\ NoIdleUnit /\ BlockedAreQueued
    BY DEF SemInv
  <1>2. Lists(waking \o waiters, Conds)
    BY CondsAreLists DEF SemInv
  <1>3. waiters \in Seq(Users) /\ waking \in Seq(Users)
    BY <1>1 DEF SemTypeOK
  <1>4. ASSUME NEW p \in Users, Wait(p) PROVE SemInv'
    <2>1. place[p] = "out" /\ Acquire(p) /\ UNCHANGED <<waiters, waking>>
      BY <1>4 DEF Wait
    <2>2. /\ SemTypeOK' /\ UnitsConserved' /\ NoIdleUnit' /\ BlockedAreQueued'
          /\ Conds' = Conds \ {p}
      BY <1>1, <1>3, <2>1, AcquireStep DEF SemTypeOK
    <2>3. Lists(waking \o waiters, Conds)'
      BY <1>2, <2>1, <2>2 DEF Conds
    <2> QED
      BY <2>2, <2>3, CondsAreListsNext DEF SemInv
  <1>5. ASSUME NEW p \in Users, Signal(p) PROVE SemInv'
    <2>1. place[p] = "in" /\ Release(p, "out") /\ UNCHANGED <<waiters, waking>>
      BY <1>5 DEF Signal
    <2>2. /\ SemTypeOK' /\ UnitsConserved' /\ NoIdleUnit' /\ BlockedAreQueued'
          /\ Conds' = Conds
      BY <1>1, <1>3, <2>1, ReleaseStep DEF SemTypeOK
    <2>3. Lists(waking \o waiters, Conds)'
      BY <1>2, <2>1, <2>2
    <2> QED
      BY <2>2, <2>3, CondsAreListsNext DEF SemInv
  <1>6. ASSUME NEW p \in Users, CondWait(p) PROVE SemInv'
    <2>1. /\ waking = <<>> /\ place[p] = "in" /\ Release(p, "cond")
          /\ waiters' = <<p>> \o waiters /\ UNCHANGED waking
      BY <1>6 DEF CondWait
    <2>2. waiters' \in Seq(Users)
      BY <1>3, <2>1
    <2>3. /\ SemTypeOK' /\ UnitsConserved' /\ NoIdleUnit' /\ BlockedAreQueued'
          /\ Conds' = Conds \union {p}
      BY <1>1, <1>3, <2>1, <2>2, ReleaseStep DEF SemTypeOK
    <2>4. Lists(waiters, Conds) /\ p \notin Conds
      BY <1>2, <1>3, <2>1, Concatenations DEF Conds
    <2>5. Lists(waiters', Conds')
      BY <1>3, <2>1, <2>3, <2>4, ListsPush
    <2>6. Lists(waking \o waiters, Conds)'
      BY <2>1, <2>2, <2>5, Concatenations
    <2> QED
      BY <2>3, <2>6, CondsAreListsNext DEF SemInv
  <1>7. ASSUME NEW p \in Users, CondSignal(p) PROVE SemInv'
    <2>1. /\ waking = <<>> /\ waiters # <<>> /\ Acquire(Head(waiters))
          /\ waiters' = Tail(waiters) /\ UNCHANGED waking
      BY <1>7 DEF CondSignal
    <2>2. Lists(waiters, Conds)
      BY <1>2, <1>3, <2>1, Concatenations
    <2>3. Head(waiters) \in Conds /\ Lists(waiters', Conds \ {Head(waiters)})
      BY <1>3, <2>1, <2>2, ListsTail
    <2>4. waiters' \in Seq(Users)
      BY <1>3, <2>1
    <2>5. /\ SemTypeOK' /\ UnitsConserved' /\ NoIdleUnit' /\ BlockedAreQueued'
          /\ Conds' = Conds \ {Head(waiters)}
      BY <1>1, <1>3, <2>1, <2>3, <2>4, AcquireStep DEF SemTypeOK, Conds
    <2>6. Lists(waking \o waiters, Conds)'
      BY <2>1, <2>3, <2>4, <2>5, Concatenations
    <2> QED
      BY <2>5, <2>6, CondsAreListsNext DEF SemInv
  <1>8. ASSUME NEW p \in Users, Broadcast(p) PROVE SemInv'
    <2>1. /\ waking = <<>> /\ waking' = waiters /\ waiters' = <<>>
          /\ UNCHANGED <<value, blocked, place>>
      BY <1>8 DEF Broadcast
    <2>2. SemTypeOK' /\ UnitsConserved' /\ NoIdleUnit' /\ BlockedAreQueued'
      BY <1>1, <1>3, <2>1
      DEF SemTypeOK, UnitsConserved, NoIdleUnit, BlockedAreQueued, Holders
    <2>3. (waking \o waiters)' = waking \o waiters /\ Conds' = Conds
      BY <1>3, <2>1, Concatenations DEF Conds
    <2> QED
      BY <1>2, <2>2, <2>3, CondsAreListsNext DEF SemInv
  <1>9. CASE Visit
    <2> DEFINE w == Head(waking)
    <2>1. /\ waking # <<>> /\ Acquire(w)
          /\ waking' = Tail(waking) /\ UNCHANGED waiters
      BY <1>9 DEF Visit
    <2>2. /\ waking \o waiters \in Seq(Users) /\ waking \o waiters # <<>>
          /\ Head(waking \o waiters) = w
          /\ Tail(waking \o waiters) = waking' \o waiters
      BY <1>3, <2>1, Concatenations
    <2>3. w \in Conds /\ Lists(waking' \o waiters, Conds \ {w})
      <3> DEFINE all == waking \o waiters
      <3>1. Head(all) \in Conds /\ Lists(Tail(all), Conds \ {Head(all)})
        BY <1>2, <2>2, ListsTail
      <3> QED
        BY <2>2, <3>1
    <2>4. waking' \in Seq(Users)
      BY <1>3, <2>1
    <2>5. /\ SemTypeOK' /\ UnitsConserved' /\ NoIdleUnit' /\ BlockedAreQueued'
          /\ Conds' = Conds \ {w}
      BY <1>1, <1>3, <2>1, <2>3, <2>4, AcquireStep DEF SemTypeOK, Conds
    <2>6. Lists(waking \o waiters, Conds)'
      BY <2>1, <2>3, <2>5
    <2> QED
      BY <2>5, <2>6, CondsAreListsNext DEF SemInv
  <1>10. CASE UNCHANGED semVars
    <2>1. SemTypeOK' /\ UnitsConserved' /\ NoIdleUnit' /\ BlockedAreQueued'
      BY <1>1, <1>10
      DEF semVars, SemTypeOK, UnitsConserved, NoIdleUnit, BlockedAreQueued, Holders
    <2> QED
      BY <2>1, <1>10 DEF SemInv, CondsAreListed, semVars
  <1> QED
    BY <1>4, <1>5, <1>6, <1>7, <1>8, <1>9, <1>10 DEF SemNext

\* The inductive invariant holds in every reachable state.
THEOREM SemInvariance == SemSpec => []SemInv
  <1> QED
    BY SemInitInv, SemNextInv, PTL DEF SemSpec

\* The semaphore and the condition are well typed in every reachable state.
THEOREM SemaphoreTypes == SemSpec => []SemTypeOK
  <1>1. SemInv => SemTypeOK
    BY DEF SemInv
  <1> QED
    BY <1>1, SemInvariance, PTL

\* Free units and held units always add up to the initial value, for any number
\* of states that wait, signal and use the condition.
THEOREM UnitsAreConserved == SemSpec => []UnitsConserved
  <1>1. SemInv => UnitsConserved
    BY DEF SemInv
  <1> QED
    BY <1>1, SemInvariance, PTL

\* No state waits in the ring while a unit is free.
THEOREM NoUnitIsIdle == SemSpec => []NoIdleUnit
  <1>1. SemInv => NoIdleUnit
    BY DEF SemInv
  <1> QED
    BY <1>1, SemInvariance, PTL

\* However often the ring has grown, it holds every blocked state once.
THEOREM NoBlockedStateIsLost == SemSpec => []BlockedAreQueued
  <1>1. SemInv => BlockedAreQueued
    BY DEF SemInv
  <1> QED
    BY <1>1, SemInvariance, PTL

\* The condition's list and broadcast's own together hold every state that waits
\* for the condition, once.
THEOREM NoCondWaiterIsLost == SemSpec => []CondsAreListed
  <1>1. SemInv => CondsAreListed
    BY DEF SemInv
  <1> QED
    BY <1>1, SemInvariance, PTL
------------------------------------------------------------------------------
(* The map of a state.                                                       *)

Cleared(v) ==
  [v EXCEPT !.root = Null, !.head = Null, !.tail = Null, !.size = 0,
            !.n = [x \in DOMAIN @ |-> Blank], !.links = [x \in DOMAIN @ |-> Unlinked]]

LEMMA ClearedWhole ==
  ASSUME NEW N, NEW W, NEW v \in MapsOf(N, W)
  PROVE  Whole(N, W, Cleared(v), {}) /\ Else(Cleared(v), v)
  <1> DEFINE K == [x \in N |-> Blank]
             H == [x \in N |-> Unlinked]
             u == Cleared(v)
             s == [j \in 1 .. 0 |-> Null]
  <1>1. DOMAIN v.n = N /\ DOMAIN v.links = N
    BY DEF MapsOf, Trees, Links
  <1>2. u = [v EXCEPT !.root = Null, !.head = Null, !.tail = Null, !.size = 0,
                      !.n = K, !.links = H]
    BY <1>1 DEF Cleared, MapsOf
  <1>3. K \in Trees(N) /\ H \in Links(N)
    <2>1. Blank \in Fields(N) /\ Unlinked \in Link(N)
      BY DEF Blank, Unlinked, Fields, Link
    <2> QED
      BY <2>1 DEF Trees, Links
  <1>4. \A x \in N : K[x] = Blank /\ H[x] = Unlinked
    OBVIOUS
  <1> HIDE DEF u, K, H
  <1>5. /\ u \in MapsOf(N, W) /\ u.root = Null /\ u.head = Null /\ u.tail = Null /\ u.size = 0
        /\ u.n = K /\ u.links = H /\ u.order = v.order /\ u.value = v.value
        /\ u.pending = v.pending
    BY <1>2, <1>3 DEF MapsOf
  <1>6. Chain(N, u, 0, s) /\ Listing(0, s) = {}
    <2>1. s \in [1 .. 0 -> N] /\ 0 \in Nat /\ \A j \in 1 .. 0 : FALSE
      OBVIOUS
    <2> HIDE DEF s
    <2>2. Chain(N, u, 0, s)
      BY <1>3, <1>5, <2>1 DEF Chain, Once
    <2>3. Listing(0, s) = {}
      BY <2>1 DEF Listing
    <2> QED
      BY <2>2, <2>3
  <1> HIDE DEF s
  <1>7. ListHas(N, u, {})
    BY <1>4, <1>5, <1>6 DEF ListHas
  <1>8. IsTree(u.n, {}, u.root)
    BY <1>5, EmptyTree
  <1> QED
    BY <1>4, <1>5, <1>7, <1>8 DEF Whole, Else, u

\* The values of a map.
Values == {"null", "value", "nil"} \union Callers

\* Other values.
LEMMA ValuesWhole ==
  ASSUME NEW N, NEW W, NEW v, NEW T, Whole(N, W, v, T), NEW f \in [N -> W]
  PROVE  LET u == [v EXCEPT !.value = f]
         IN  /\ Whole(N, W, u, T) /\ u.value = f /\ u.pending = v.pending /\ u.order = v.order
             /\ SameShape(u, v)
  <1> DEFINE u == [v EXCEPT !.value = f]
  <1>1. v \in MapsOf(N, W)
    BY WholeType
  <1>2. /\ u \in MapsOf(N, W) /\ SameShape(u, v) /\ u.value = f /\ u.pending = v.pending
        /\ u.order = v.order
    BY <1>1 DEF MapsOf, SameShape
  <1> HIDE DEF u
  <1> QED
    BY <1>2, ShapeWhole DEF u

\* Other nodes that filter has left.
LEMMA PendingWhole ==
  ASSUME NEW N, NEW W, NEW v, NEW T, Whole(N, W, v, T), NEW q \in Seq(N)
  PROVE  LET u == [v EXCEPT !.pending = q]
         IN  /\ Whole(N, W, u, T) /\ u.value = v.value /\ u.pending = q /\ u.order = v.order
  <1> DEFINE u == [v EXCEPT !.pending = q]
  <1>1. v \in MapsOf(N, W)
    BY WholeType
  <1>2. /\ u \in MapsOf(N, W) /\ SameShape(u, v) /\ u.value = v.value /\ u.pending = q
        /\ u.order = v.order
    BY <1>1 DEF MapsOf, SameShape
  <1> HIDE DEF u
  <1> QED
    BY <1>2, ShapeWhole DEF u

LEMMA SetValueWhole ==
  ASSUME NEW N, Names(N), NEW W, NEW v, NEW T, Whole(N, W, v, T), NEW k, NEW a \in W
  PROVE  LET u == SetValue(v, k, a)
         IN  /\ Whole(N, W, u, T) /\ u.pending = v.pending /\ u.order = v.order
             /\ u.value = [v.value EXCEPT ![Find(v, k)] = a] /\ Find(u, k) = Find(v, k)
  <1> DEFINE f == [v.value EXCEPT ![Find(v, k)] = a]
             u == SetValue(v, k, a)
  <1>1. v \in MapsOf(N, W) /\ v.value \in [N -> W]
    BY WholeType
  <1>2. f \in [N -> W]
    BY <1>1
  <1>3. u = [v EXCEPT !.value = f]
    BY DEF SetValue
  <1> HIDE DEF f, u
  <1>4. /\ Whole(N, W, u, T) /\ u.value = f /\ u.pending = v.pending /\ u.order = v.order
        /\ SameShape(u, v)
    BY <1>2, <1>3, ValuesWhole
  <1>5. Find(u, k) = Find(v, k)
    BY <1>4 DEF SameShape, Find
  <1> QED
    BY <1>4, <1>5 DEF f, u

\* What is forgotten.
LEMMA ForgetWhole ==
  ASSUME NEW N, NEW W, NEW v, NEW T, Whole(N, W, v, T), NEW held, "null" \in W
  PROVE  LET u == Forget(v, held)
         IN  /\ Whole(N, W, u, T) /\ u.pending = v.pending /\ u.order = v.order
             /\ \A x \in N : u.value[x] = IF x \in T \union held \union Pending(v)
                                          THEN v.value[x] ELSE "null"
  <1> DEFINE f == [x \in DOMAIN v.value |-> IF InMap(v, x) \/ x \in held \union Pending(v)
                                            THEN v.value[x] ELSE "null"]
             u == Forget(v, held)
  <1>1. v \in MapsOf(N, W) /\ v.value \in [N -> W]
    BY WholeType
  <1>2. f \in [N -> W]
    BY <1>1
  <1>3. u = [v EXCEPT !.value = f]
    BY DEF Forget
  <1>4. \A x \in N : f[x] = IF InMap(v, x) \/ x \in held \union Pending(v)
                            THEN v.value[x] ELSE "null"
    BY <1>1
  <1>5. \A x \in N : InMap(v, x) <=> x \in T
    BY WholeDepth DEF InMap
  <1> HIDE DEF f, u
  <1>6. Whole(N, W, u, T) /\ u.value = f /\ u.pending = v.pending /\ u.order = v.order
    BY <1>2, <1>3, ValuesWhole
  <1>7. \A x \in N : u.value[x] = IF x \in T \union held \union Pending(v)
                                  THEN v.value[x] ELSE "null"
    BY <1>4, <1>5, <1>6
  <1> QED
    BY <1>6, <1>7 DEF u
\* The nodes of the map, those that functions are called for, and those that filter has
\* left have a value.
Sound(N, v, T, held) ==
  /\ Whole(N, Values, v, T) /\ held \subseteq N
  /\ \A x \in T \union held \union Pending(v) : v.value[x] # "null"

LEMMA PendingIn ==
  ASSUME NEW N, NEW W, NEW v, NEW T, Whole(N, W, v, T)
  PROVE  Pending(v) \subseteq N
  <1>1. v.pending \in Seq(N)
    BY WholeType
  <1> QED
    BY <1>1 DEF Pending

\* Some node gets a value.
LEMMA SoundSet ==
  ASSUME NEW N, Names(N), NEW u, NEW T, NEW held, Sound(N, u, T, held), NEW k, NEW v, NEW M,
         Whole(N, Values, v, M), Else(v, u), Find(v, k) \in M, M \subseteq T \union {Find(v, k)},
         NEW a \in Values, a # "null"
  PROVE  Sound(N, SetValue(v, k, a), M, held) /\ Find(SetValue(v, k, a), k) = Find(v, k)
         /\ Pending(SetValue(v, k, a)) = Pending(u)
  <1> DEFINE x == Find(v, k)
             z == SetValue(v, k, a)
  <1>1. /\ Whole(N, Values, z, M) /\ z.pending = v.pending
        /\ z.value = [v.value EXCEPT ![x] = a] /\ Find(z, k) = x
    BY SetValueWhole
  <1>2. v.value \in [N -> Values] /\ M \subseteq N
    BY WholeType
  <1> HIDE DEF x, z
  <1>3. v.value = u.value /\ v.pending = u.pending
    BY DEF Else
  <1>4. x \in M /\ M \subseteq T \union {x}
    BY DEF x
  <1>5. z.value[x] = a /\ \A y \in N \ {x} : z.value[y] = u.value[y]
    BY <1>1, <1>2, <1>3, <1>4
  <1>6. /\ \A y \in T \union held \union Pending(u) : u.value[y] # "null"
        /\ held \subseteq N /\ Pending(u) \subseteq N
    BY PendingIn DEF Sound
  <1>7. Pending(z) = Pending(u)
    BY <1>1, <1>3 DEF Pending
  <1>8. ASSUME NEW y \in M \union held \union Pending(z)
        PROVE  z.value[y] # "null"
    <2>1. CASE y = x
      BY <1>5, <2>1
    <2>2. CASE y # x
      <3>1. y \in T \union held \union Pending(u) /\ y \in N
        BY <1>2, <1>4, <1>6, <1>7, <2>2
      <3> QED
        BY <1>5, <1>6, <2>2, <3>1
    <2> QED
      BY <2>1, <2>2
  <1> QED
    BY <1>1, <1>6, <1>7, <1>8 DEF Sound, x, z

LEMMA SoundLess ==
  ASSUME NEW N, NEW v, NEW T, NEW held, Sound(N, v, T, held), NEW h \in SUBSET held
  PROVE  Sound(N, v, T, h)
  BY DEF Sound

LEMMA SoundForget ==
  ASSUME NEW N, NEW v, NEW T, NEW held, Sound(N, v, T, held)
  PROVE  Sound(N, Forget(v, held), T, held)
  <1> DEFINE u == Forget(v, held)
  <1>1. "null" \in Values
    BY DEF Values
  <1>2. Whole(N, Values, v, T) /\ T \subseteq N /\ held \subseteq N
    BY WholeType DEF Sound
  <1>3. /\ Whole(N, Values, u, T) /\ u.pending = v.pending
        /\ \A x \in N : u.value[x] = IF x \in T \union held \union Pending(v)
                                     THEN v.value[x] ELSE "null"
    BY <1>1, <1>2, ForgetWhole
  <1>4. Pending(v) \subseteq N
    BY <1>2, PendingIn
  <1> HIDE DEF u
  <1>5. Pending(u) = Pending(v)
    BY <1>3 DEF Pending
  <1>6. \A x \in T \union held \union Pending(u) : u.value[x] # "null"
    BY <1>2, <1>3, <1>4, <1>5 DEF Sound
  <1> QED
    BY <1>2, <1>3, <1>6 DEF Sound, u

\* Nodes move, or leave the map.
LEMMA SoundElse ==
  ASSUME NEW N, NEW v, NEW T, NEW held, Sound(N, v, T, held), NEW u, NEW M \in SUBSET T,
         Whole(N, Values, u, M), Else(u, v)
  PROVE  Sound(N, u, M, held)
  <1>1. u.value = v.value /\ Pending(u) = Pending(v)
    BY DEF Else, Pending
  <1> QED
    BY <1>1 DEF Sound

LEMMA SoundMove ==
  ASSUME NEW N, Names(N), NEW v, NEW T, NEW held, Sound(N, v, T, held), NEW x \in T
  PROVE  Sound(N, MoveTail(v, x), T, held) /\ Sound(N, MoveHead(v, x), T, held)
  <1>1. Whole(N, Values, v, T)
    BY DEF Sound
  <1>2. /\ Whole(N, Values, MoveTail(v, x), T) /\ Else(MoveTail(v, x), v)
        /\ Whole(N, Values, MoveHead(v, x), T) /\ Else(MoveHead(v, x), v)
    BY <1>1, MoveWhole
  <1> QED
    BY <1>2, SoundElse

LEMMA SoundRemove ==
  ASSUME NEW N, Names(N), NEW v, NEW T, NEW held, Sound(N, v, T, held), NEW k \in Int
  PROVE  \E M : Sound(N, Remove(v, k), M, held)
  <1> DEFINE M == T \ WithKey(T, k)
  <1>1. Whole(N, Values, v, T)
    BY DEF Sound
  <1>2. Whole(N, Values, Remove(v, k), M) /\ Else(Remove(v, k), v)
    BY <1>1, RemoveWhole
  <1>3. M \in SUBSET T
    OBVIOUS
  <1> HIDE DEF M
  <1>4. Sound(N, Remove(v, k), M, held)
    BY <1>2, <1>3, SoundElse
  <1> QED
    BY <1>4

\* Some of the pending nodes are left, or others that have a value.
LEMMA SoundPending ==
  ASSUME NEW N, NEW v, NEW T, NEW held, Sound(N, v, T, held), NEW q \in Seq(N),
         \A i \in DOMAIN q : v.value[q[i]] # "null"
  PROVE  Sound(N, [v EXCEPT !.pending = q], T, held)
  <1> DEFINE u == [v EXCEPT !.pending = q]
  <1>1. Whole(N, Values, v, T)
    BY DEF Sound
  <1>2. Whole(N, Values, u, T) /\ u.value = v.value /\ u.pending = q
    BY <1>1, PendingWhole
  <1> HIDE DEF u
  <1>3. \A x \in Pending(u) : v.value[x] # "null"
    BY <1>2 DEF Pending
  <1> QED
    BY <1>2, <1>3 DEF Sound, u

LEMMA SoundCleared ==
  ASSUME NEW N, NEW v, NEW T, NEW held, Sound(N, v, T, held)
  PROVE  Sound(N, Cleared(v), {}, held) /\ Cleared(v).value = v.value
  <1>1. v \in MapsOf(N, Values)
    BY WholeType DEF Sound
  <1>2. Whole(N, Values, Cleared(v), {}) /\ Else(Cleared(v), v)
    BY <1>1, ClearedWhole
  <1>3. {} \in SUBSET T
    OBVIOUS
  <1> QED
    BY <1>2, <1>3, SoundElse DEF Else
------------------------------------------------------------------------------
(* The invariant.                                                            *)

CallRecords == [at : {"idle", "calls", "waits", "done"}, node : Nodes \union {Null},
          kind : {"", "index", "missing"}, for : Callers \union {Null},
          waiters : SUBSET Callers]

MapInv ==
  /\ bound \in Bounds /\ calls \in [Callers -> CallRecords]
  /\ \E T : Sound(Nodes, map, T, Held)
  /\ SharedCall

LEMMA KeysAre ==
  ASSUME bound \in Bounds
  PROVE  /\ bound.keys \subseteq Int /\ bound.orders \subseteq Orderings /\ Names(Nodes)
         /\ \A x \in Nodes : KeyOf(x) \in bound.keys
         /\ \A k \in bound.keys, g \in 1 .. Generations : <<k, g>> \in Nodes /\ KeyOf(<<k, g>>) = k
  <1>1. /\ bound.keys \subseteq Int /\ bound.orders \subseteq Orderings
        /\ Generations \in Nat
    BY MapsAssumption DEF Orderings
  <1>2. Nodes = bound.keys \X (1 .. Generations)
    BY DEF Nodes
  <1>3. 1 .. Generations \subseteq Nat
    BY <1>1
  <1>4. Names(Nodes)
    BY <1>1, <1>2, <1>3 DEF Names
  <1>5. \A x \in Nodes : KeyOf(x) \in bound.keys
    BY <1>2 DEF KeyOf
  <1>6. \A k \in bound.keys, g \in 1 .. Generations : <<k, g>> \in Nodes /\ KeyOf(<<k, g>>) = k
    BY <1>2 DEF KeyOf
  <1> QED
    BY <1>1, <1>4, <1>5, <1>6

LEMMA NewIs ==
  ASSUME bound \in Bounds, NEW k \in bound.keys, Free(k) # {}
  PROVE  New(k) \in Nodes /\ KeyOf(New(k)) = k
  <1> DEFINE F == Free(k)
             D == {x[2] : x \in F}
  <1>1. \A x \in F : x \in {k} \X (1 .. Generations)
    BY DEF Free
  <1>2. \A x \in F : x \in Nodes /\ KeyOf(x) = k /\ x[2] \in Nat
    <2>1. \A x \in {k} \X (1 .. Generations) : x = <<k, x[2]>> /\ x[2] \in 1 .. Generations
      OBVIOUS
    <2>2. \A g \in 1 .. Generations : g \in Nat
      BY MapsAssumption
    <2> HIDE DEF F
    <2> QED
      BY <1>1, <2>1, <2>2, KeysAre
  <1> HIDE DEF F
  <1>3. D \in SUBSET Nat /\ D # {}
    BY <1>2 DEF F
  <1>4. PICK m \in D : \A j \in D : m <= j
    <2> HIDE DEF D
    <2> QED
      BY <1>3, LeastNumber
  <1>5. PICK x \in F : m = x[2]
    OBVIOUS
  <1>6. \A y \in F : x[2] <= y[2]
    BY <1>4, <1>5
  <1>7. New(k) \in F
    BY <1>5, <1>6 DEF New, F
  <1> QED
    BY <1>2, <1>7

\* The node of k is in the map, and no other node has come.
LEMMA NodeIs ==
  ASSUME bound \in Bounds, NEW T, Whole(Nodes, Values, map, T), NEW k \in bound.keys, HasNode(k)
  PROVE  /\ Else(Node(k), map)
         /\ \E M : /\ Whole(Nodes, Values, Node(k), M) /\ Find(Node(k), k) \in M
                   /\ M \subseteq T \union {Find(Node(k), k)}
  <1> DEFINE N == Nodes
             new == IF Find(map, k) # Null THEN Find(map, k) ELSE New(k)
             u == Node(k)
             M == Grows(T, k, new)
  <1>1. Names(N) /\ k \in Int
    BY KeysAre
  <1>2. T \subseteq N
    BY WholeType
  <1>3. /\ Find(map, k) \in WithKey(T, k) \union {Null}
        /\ WithKey(T, k) = IF Find(map, k) = Null THEN {} ELSE {Find(map, k)}
    BY <1>1, WholeFind
  <1>4. new \in N /\ KeyOf(new) = k
    <2>1. CASE Find(map, k) # Null
      BY <1>2, <1>3, <2>1 DEF WithKey
    <2>2. CASE Find(map, k) = Null
      <3>1. Free(k) # {}
        BY <2>2 DEF HasNode
      <3> QED
        BY <2>2, <3>1, NewIs
    <2> QED
      BY <2>1, <2>2
  <1>5. u = Slot(map, k, new)
    BY DEF Node
  <1> HIDE DEF new, u
  <1>6. Find(u, k) = new
    BY <1>1, <1>4, <1>5, SlotFind DEF new
  <1>7. Whole(N, Values, u, M) /\ Else(u, map) /\ Find(u, k) \in M
    BY <1>1, <1>4, <1>5, SlotWhole, SlotFind
  <1>8. M \subseteq T \union {Find(u, k)}
    BY <1>6 DEF Grows
  <1> HIDE DEF M
  <1> QED
    BY <1>7, <1>8 DEF u
------------------------------------------------------------------------------
(* The steps.                                                                *)

\* The calls of a step that calls no function are those that were there.
LEMMA FewerCalls ==
  ASSUME SharedCall, \A d \in Callers : calls'[d].at = "calls" =>
                        calls[d].at = "calls" /\ calls'[d].node = calls[d].node
  PROVE  SharedCall' /\ Held' \subseteq Held
  BY DEF SharedCall, Held

\* What every step has to show.
LEMMA InvStep ==
  ASSUME MapInv, bound' = bound, calls' \in [Callers -> CallRecords], SharedCall',
         NEW T, NEW held, Sound(Nodes, map', T, held), Held' \subseteq held
  PROVE  MapInv'
  <1>1. Nodes' = Nodes /\ bound \in Bounds
    BY DEF Nodes, MapInv
  <1>2. CallRecords' = CallRecords
    BY <1>1 DEF CallRecords
  <1>3. Sound(Nodes', map', T, Held')
    BY <1>1, SoundLess
  <1> QED
    BY <1>1, <1>2, <1>3 DEF MapInv

\* And one that leaves the calls as they are.
LEMMA QuietStep ==
  ASSUME MapInv, bound' = bound, calls' = calls, NEW T, Sound(Nodes, map', T, Held)
  PROVE  MapInv'
  <1>1. calls' \in [Callers -> CallRecords] /\ SharedCall
    BY DEF MapInv
  <1>2. SharedCall' /\ Held' \subseteq Held
    BY <1>1, FewerCalls
  <1> QED
    BY <1>1, <1>2, InvStep

\* A key is set.
LEMMA NodeSet ==
  ASSUME MapInv, NEW k \in bound.keys, HasNode(k), NEW a \in Values, a # "null"
  PROVE  LET u == SetValue(Node(k), k, a)
         IN  \E M : Sound(Nodes, u, M, Held) /\ Find(u, k) \in M /\ Find(u, k) = Find(Node(k), k)
  <1> DEFINE u == SetValue(Node(k), k, a)
  <1>1. bound \in Bounds
    BY DEF MapInv
  <1>2. PICK T : Sound(Nodes, map, T, Held)
    BY DEF MapInv
  <1>3. Whole(Nodes, Values, map, T)
    BY <1>2 DEF Sound
  <1>4. PICK M : /\ Whole(Nodes, Values, Node(k), M) /\ Find(Node(k), k) \in M
                 /\ M \subseteq T \union {Find(Node(k), k)}
    BY <1>1, <1>3, NodeIs
  <1>5. Else(Node(k), map)
    BY <1>1, <1>3, NodeIs
  <1>6. Names(Nodes)
    BY <1>1, KeysAre
  <1>7. Sound(Nodes, u, M, Held) /\ Find(u, k) = Find(Node(k), k)
    BY <1>2, <1>4, <1>5, <1>6, SoundSet
  <1> HIDE DEF u
  <1> QED
    BY <1>4, <1>7 DEF u

\* A key is looked up that has a value.
LEMMA NodeKept ==
  ASSUME MapInv, NEW k \in bound.keys, HasNode(k), Node(k).value[Find(Node(k), k)] # "null"
  PROVE  \E M : Sound(Nodes, Node(k), M, Held)
  <1> DEFINE u == Node(k)
  <1>1. bound \in Bounds
    BY DEF MapInv
  <1>2. PICK T : Sound(Nodes, map, T, Held)
    BY DEF MapInv
  <1>3. Whole(Nodes, Values, map, T)
    BY <1>2 DEF Sound
  <1>4. PICK M : Whole(Nodes, Values, u, M) /\ M \subseteq T \union {Find(u, k)}
    BY <1>1, <1>3, NodeIs
  <1>5. Else(u, map)
    BY <1>1, <1>3, NodeIs
  <1> HIDE DEF u
  <1>6. u.value = map.value /\ Pending(u) = Pending(map)
    BY <1>5 DEF Else, Pending
  <1>7. u.value[Find(u, k)] # "null"
    BY DEF u
  <1>8. \A x \in M \union Held \union Pending(u) : u.value[x] # "null"
    BY <1>2, <1>4, <1>6, <1>7 DEF Sound
  <1>9. Sound(Nodes, u, M, Held)
    BY <1>2, <1>4, <1>8 DEF Sound
  <1> QED
    BY <1>9 DEF u

LEMMA InsertStep ==
  ASSUME MapInv, NEW k \in bound.keys, MapInsert(k)
  PROVE  MapInv'
  <1>1. "value" \in Values /\ "value" # "null"
    BY DEF Values
  <1>2. HasNode(k) /\ map' = SetValue(Node(k), k, "value") /\ UNCHANGED <<calls, bound>>
    BY DEF MapInsert, Does
  <1>3. \E M : Sound(Nodes, map', M, Held)
    BY <1>1, <1>2, NodeSet
  <1> QED
    BY <1>2, <1>3, QuietStep

LEMMA EndStep ==
  ASSUME MapInv, NEW k \in bound.keys, MapPush(k) \/ MapPut(k)
  PROVE  MapInv'
  <1> DEFINE v == SetValue(Node(k), k, "value")
             x == Find(v, k)
  <1>1. "value" \in Values /\ "value" # "null"
    BY DEF Values
  <1>2. /\ HasNode(k) /\ UNCHANGED <<calls, bound>>
        /\ map' = MoveHead(v, x) \/ map' = MoveTail(v, x)
    BY DEF MapPush, MapPut, Does
  <1>3. \E M : Sound(Nodes, v, M, Held) /\ x \in M
    BY <1>1, <1>2, NodeSet
  <1>4. Names(Nodes)
    BY KeysAre DEF MapInv
  <1> HIDE DEF v, x
  <1>5. \E M : Sound(Nodes, map', M, Held)
    BY <1>2, <1>3, <1>4, SoundMove
  <1> QED
    BY <1>2, <1>5, QuietStep

LEMMA IndexStep ==
  ASSUME MapInv, NEW k \in bound.keys, MapIndex(k)
  PROVE  MapInv'
  <1> DEFINE x == Find(map, k)
  <1>1. Names(Nodes) /\ k \in Int
    BY KeysAre DEF MapInv
  <1>2. PICK T : Sound(Nodes, map, T, Held)
    BY DEF MapInv
  <1>3. Whole(Nodes, Values, map, T)
    BY <1>2 DEF Sound
  <1>4. /\ x # Null /\ UNCHANGED <<calls, bound>>
        /\ map' = MoveTail(map, x) \/ map' = MoveHead(map, x) \/ map' = map
    BY DEF MapIndex, Does
  <1>5. x \in T
    BY <1>1, <1>3, <1>4, WholeFind DEF WithKey
  <1> HIDE DEF x
  <1>6. Sound(Nodes, map', T, Held)
    BY <1>1, <1>2, <1>4, <1>5, SoundMove
  <1> QED
    BY <1>4, <1>6, QuietStep

LEMMA RemovedStep ==
  ASSUME MapInv, NEW k \in Int, map' = Removed(k), UNCHANGED <<calls, bound>>
  PROVE  MapInv'
  <1>1. Names(Nodes)
    BY KeysAre DEF MapInv
  <1>2. PICK T : Sound(Nodes, map, T, Held)
    BY DEF MapInv
  <1>3. PICK M : Sound(Nodes, Remove(map, k), M, Held)
    BY <1>1, <1>2, SoundRemove
  <1>4. Sound(Nodes, map', M, Held)
    BY <1>3, SoundForget DEF Removed
  <1> QED
    BY <1>4, QuietStep

LEMMA DeleteStep ==
  ASSUME MapInv, MapPop \/ MapPull \/ \E k \in bound.keys : MapDelete(k)
  PROVE  MapInv'
  <1>1. bound.keys \subseteq Int /\ \A x \in Nodes : KeyOf(x) \in bound.keys
    BY KeysAre DEF MapInv
  <1>2. map.head \in Nodes \union {Null} /\ map.tail \in Nodes \union {Null}
    BY WholeType DEF MapInv, Sound, MapsOf
  <1>3. UNCHANGED <<calls, bound>>
    BY DEF MapPop, MapPull, MapDelete, Does
  <1>4. \E k \in Int : map' = Removed(k)
    BY <1>1, <1>2 DEF MapPop, MapPull, MapDelete
  <1> QED
    BY <1>3, <1>4, RemovedStep

LEMMA EmptyStep ==
  ASSUME MapInv, MapEmpty
  PROVE  MapInv'
  <1>1. map' = Forget(Cleared(map), Held) /\ UNCHANGED <<calls, bound>>
    BY DEF MapEmpty, Does, Emptied, Cleared
  <1>2. PICK T : Sound(Nodes, map, T, Held)
    BY DEF MapInv
  <1>3. Sound(Nodes, Cleared(map), {}, Held)
    BY <1>2, SoundCleared
  <1>4. Sound(Nodes, map', {}, Held)
    BY <1>1, <1>3, SoundForget
  <1> QED
    BY <1>1, <1>4, QuietStep

LEMMA OrderStep ==
  ASSUME MapInv, NEW o \in bound.orders, MapOrder(o)
  PROVE  MapInv'
  <1>1. o \in Orderings
    BY KeysAre DEF MapInv
  <1>2. map' = [map EXCEPT !.order = o] /\ UNCHANGED <<calls, bound>>
    BY DEF MapOrder, Does
  <1>3. PICK T : Sound(Nodes, map, T, Held)
    BY DEF MapInv
  <1>4. Whole(Nodes, Values, map, T) /\ map \in MapsOf(Nodes, Values)
    BY <1>3, WholeType DEF Sound
  <1>5. map' \in MapsOf(Nodes, Values) /\ SameShape(map', map) /\ map'.value = map.value
        /\ map'.pending = map.pending
    BY <1>1, <1>2, <1>4 DEF MapsOf, SameShape
  <1>6. Whole(Nodes, Values, map', T)
    BY <1>4, <1>5, ShapeWhole
  <1>7. Pending(map') = Pending(map)
    BY <1>5 DEF Pending
  <1>8. Sound(Nodes, map', T, Held)
    BY <1>3, <1>5, <1>6, <1>7 DEF Sound
  <1> QED
    BY <1>2, <1>8, QuietStep

LEMMA FilterStep ==
  ASSUME MapInv, MapFilter
  PROVE  MapInv'
  <1> DEFINE q == NodeList(map)
             v == Cleared(map)
             u == [v EXCEPT !.pending = q]
  <1>1. map' = Forget(u, Held) /\ UNCHANGED <<calls, bound>>
    BY DEF MapFilter, Does, Emptied, Cleared
  <1>2. PICK T : Sound(Nodes, map, T, Held)
    BY DEF MapInv
  <1>3. Names(Nodes) /\ Whole(Nodes, Values, map, T)
    BY <1>2, KeysAre DEF MapInv, Sound
  <1>4. PICK s : Chain(Nodes, map, map.size, s) /\ Listing(map.size, s) = T
    BY <1>3 DEF Whole, ListHas
  <1>5. /\ q \in Seq(Nodes) /\ Len(q) = map.size /\ \A j \in 1 .. map.size : q[j] = s[j]
    BY <1>3, <1>4, ListIs
  <1>6. \A j \in DOMAIN q : q[j] \in T
    BY <1>4, <1>5 DEF Listing
  <1>7. Sound(Nodes, v, {}, Held) /\ v.value = map.value
    BY <1>2, SoundCleared
  <1> HIDE DEF q, v
  <1>8. \A j \in DOMAIN q : v.value[q[j]] # "null"
    BY <1>2, <1>6, <1>7 DEF Sound
  <1>9. Sound(Nodes, u, {}, Held)
    BY <1>5, <1>7, <1>8, SoundPending
  <1>10. Sound(Nodes, map', {}, Held)
    BY <1>1, <1>9, SoundForget
  <1> QED
    BY <1>1, <1>10, QuietStep
------------------------------------------------------------------------------
\* filter puts a node back.
LEMMA PutBackSound ==
  ASSUME bound \in Bounds, NEW v, NEW T, NEW held, Sound(Nodes, v, T, held), NEW x \in Nodes,
         v.value[x] # "null"
  PROVE  \E M : Sound(Nodes, PutBack(v, x), M, held)
  <1> DEFINE k == KeyOf(x)
             a == v.value[x]
             u == Slot(v, k, x)
             M == Grows(T, k, x)
  <1>1. Names(Nodes) /\ k \in Int
    BY KeysAre
  <1>2. Whole(Nodes, Values, v, T)
    BY DEF Sound
  <1>3. a \in Values
    BY <1>2, WholeType
  <1>4. Whole(Nodes, Values, u, M) /\ Else(u, v)
    BY <1>1, <1>2, SlotWhole
  <1>5. /\ Find(u, k) = IF Find(v, k) = Null THEN x ELSE Find(v, k)
        /\ Find(u, k) \in M
    BY <1>1, <1>2, SlotFind
  <1>6. WithKey(T, k) = IF Find(v, k) = Null THEN {} ELSE {Find(v, k)}
    BY <1>1, <1>2, WholeFind
  <1>7. M \subseteq T \union {Find(u, k)}
    BY <1>5, <1>6 DEF Grows
  <1>8. PutBack(v, x) = SetValue(u, k, a)
    BY DEF PutBack
  <1> HIDE DEF k, a, u, M
  <1>9. a # "null"
    BY DEF a
  <1>10. Sound(Nodes, SetValue(u, k, a), M, held)
    BY <1>1, <1>3, <1>4, <1>5, <1>7, <1>9, SoundSet
  <1> QED
    BY <1>8, <1>10

LEMMA FilterReturnsStep ==
  ASSUME MapInv, FilterReturns
  PROVE  MapInv'
  <1> DEFINE p == map.pending
             q == Tail(p)
             e == [map EXCEPT !.pending = <<>>]
             v == [map EXCEPT !.pending = q]
             x == p[1]
  <1>1. bound \in Bounds
    BY DEF MapInv
  <1>2. PICK T : Sound(Nodes, map, T, Held)
    BY DEF MapInv
  <1>3. Whole(Nodes, Values, map, T) /\ p \in Seq(Nodes)
    BY <1>2, WholeType DEF Sound
  <1>4. p # <<>> /\ UNCHANGED <<calls, bound>>
    BY DEF FilterReturns
  <1>5. \E u \in {PutBack(v, x), v, e} : map' = Forget(u, Held)
    BY DEF FilterReturns
  <1>6. \A i \in DOMAIN p : map.value[p[i]] # "null"
    BY <1>2 DEF Sound, Pending
  <1> HIDE DEF p
  <1>7. q \in Seq(Nodes) /\ x \in Nodes /\ 1 \in DOMAIN p
    BY <1>3, <1>4
  <1>8. \A i \in DOMAIN q : map.value[q[i]] # "null"
    <2>1. \A i \in DOMAIN q : i + 1 \in DOMAIN p /\ q[i] = p[i + 1]
      BY <1>3, <1>4
    <2> HIDE DEF q
    <2> QED
      BY <1>6, <2>1
  <1> HIDE DEF q
  <1>9. Sound(Nodes, v, T, Held)
    BY <1>2, <1>7, <1>8, SoundPending
  <1>10. Sound(Nodes, e, T, Held)
    <2> DEFINE o == <<>>
    <2>1. o \in Seq(Nodes) /\ DOMAIN o = {}
      OBVIOUS
    <2> HIDE DEF o
    <2>2. Sound(Nodes, [map EXCEPT !.pending = o], T, Held)
      BY <1>2, <2>1, SoundPending
    <2> QED
      BY <2>2 DEF o
  <1>11. v.value = map.value
    BY <1>3, <1>7, PendingWhole
  <1>12. v.value[x] # "null"
    BY <1>6, <1>7, <1>11
  <1> HIDE DEF v, e, x
  <1>13. \E M : Sound(Nodes, PutBack(v, x), M, Held)
    BY <1>1, <1>7, <1>9, <1>12, PutBackSound
  <1>14. \E M : Sound(Nodes, map', M, Held)
    BY <1>5, <1>9, <1>10, <1>13, SoundForget
  <1> QED
    BY <1>4, <1>14, QuietStep

\* The record of a call, when the call goes on.
LEMMA CallAt ==
  ASSUME NEW r \in CallRecords, NEW a \in {"idle", "calls", "waits", "done"}
  PROVE  /\ [r EXCEPT !.at = a] \in CallRecords
         /\ [r EXCEPT !.at = a].at = a /\ [r EXCEPT !.at = a].node = r.node
  <1> DEFINE X == Nodes \union {Null}
             A == {"idle", "calls", "waits", "done"}
             K == {"", "index", "missing"}
             F == Callers \union {Null}
             S == SUBSET Callers
  <1>1. CallRecords = [at : A, node : X, kind : K, for : F, waiters : S]
    BY DEF CallRecords
  <1>2. a \in A
    OBVIOUS
  <1> HIDE DEF X, A, K, F, S
  <1> QED
    BY <1>1, <1>2

LEMMA CallFor ==
  ASSUME NEW r \in CallRecords, NEW a \in {"idle", "calls", "waits", "done"}, NEW d \in Callers \union {Null}
  PROVE  /\ [r EXCEPT !.at = a, !.for = d] \in CallRecords
         /\ [r EXCEPT !.at = a, !.for = d].at = a
         /\ [r EXCEPT !.at = a, !.for = d].waiters = r.waiters
  <1> DEFINE X == Nodes \union {Null}
             A == {"idle", "calls", "waits", "done"}
             K == {"", "index", "missing"}
             F == Callers \union {Null}
             S == SUBSET Callers
  <1>1. CallRecords = [at : A, node : X, kind : K, for : F, waiters : S]
    BY DEF CallRecords
  <1>2. a \in A /\ d \in F
    OBVIOUS
  <1> HIDE DEF X, A, K, F, S
  <1> QED
    BY <1>1, <1>2

\* u is the record r of a call when its function is called.
Opened(r, x, kind, u) ==
  /\ u = [r EXCEPT !.at = "calls", !.node = x, !.kind = kind]
  /\ u.at = "calls" /\ u.node = x

LEMMA CallNode ==
  ASSUME NEW r \in CallRecords, NEW x \in Nodes, NEW kind \in {"index", "missing"}
  PROVE  \E u \in CallRecords : Opened(r, x, kind, u)
  <1> DEFINE X == Nodes \union {Null}
             A == {"idle", "calls", "waits", "done"}
             K == {"", "index", "missing"}
             F == Callers \union {Null}
             S == SUBSET Callers
             u == [r EXCEPT !.at = "calls", !.node = x, !.kind = kind]
  <1>1. CallRecords = [at : A, node : X, kind : K, for : F, waiters : S]
    BY DEF CallRecords
  <1>2. "calls" \in A /\ x \in X /\ kind \in K
    OBVIOUS
  <1> HIDE DEF X, A, K, F, S
  <1>3. u \in CallRecords /\ u.at = "calls" /\ u.node = x
    BY <1>1, <1>2
  <1> QED
    BY <1>3 DEF Opened

LEMMA CallWaiters ==
  ASSUME NEW r \in CallRecords, NEW c \in Callers
  PROVE  /\ [r EXCEPT !.waiters = r.waiters \union {c}] \in CallRecords
         /\ [r EXCEPT !.waiters = r.waiters \union {c}].at = r.at
         /\ [r EXCEPT !.waiters = r.waiters \union {c}].node = r.node
  <1> DEFINE X == Nodes \union {Null}
             A == {"idle", "calls", "waits", "done"}
             K == {"", "index", "missing"}
             F == Callers \union {Null}
             S == SUBSET Callers
  <1>1. CallRecords = [at : A, node : X, kind : K, for : F, waiters : S]
    BY DEF CallRecords
  <1>2. \A s \in S : s \union {c} \in S
    OBVIOUS
  <1> HIDE DEF X, A, K, F, S
  <1> QED
    BY <1>1, <1>2

\* A function is called: no other is for its node, which has had no value.
LEMMA CalledStep ==
  ASSUME MapInv, bound' = bound, NEW k \in bound.keys, HasNode(k), NEW c \in Callers,
         calls[c].at = "idle", NEW kind \in {"index", "missing"},
         Node(k).value[Find(Node(k), k)] = "null", NEW a \in Values, a # "null",
         map' = SetValue(Node(k), k, a), calls' = Called(c, Find(map', k), kind)
  PROVE  MapInv'
  <1> DEFINE y == Find(Node(k), k)
             x == Find(map', k)
  <1>1. bound \in Bounds /\ calls \in [Callers -> CallRecords] /\ SharedCall
    BY DEF MapInv
  <1>2. PICK T : Sound(Nodes, map, T, Held)
    BY DEF MapInv
  <1>3. Whole(Nodes, Values, map, T)
    BY <1>2 DEF Sound
  <1>4. Node(k).value = map.value
    BY <1>1, <1>3, NodeIs DEF Else
  <1>5. PICK M : Sound(Nodes, map', M, Held) /\ x \in M /\ x = y
    BY NodeSet
  <1>6. x \in Nodes
    BY <1>5, WholeType DEF Sound
  <1>7. map.value[y] = "null"
    BY <1>4
  <1> HIDE DEF x, y
  <1>8. x \notin Held
    BY <1>2, <1>5, <1>7 DEF Sound
  <1>9. calls' = [calls EXCEPT ![c] = [@ EXCEPT !.at = "calls", !.node = x, !.kind = kind]]
    BY <1>1 DEF Called, x, CallRecords
  <1> DEFINE r == [calls[c] EXCEPT !.at = "calls", !.node = x, !.kind = kind]
  <1>10. r \in CallRecords /\ r.at = "calls" /\ r.node = x
    <2>1. calls[c] \in CallRecords
      BY <1>1
    <2>2. PICK u \in CallRecords : Opened(calls[c], x, kind, u)
      BY <1>6, <2>1, CallNode
    <2> QED
      BY <2>2 DEF Opened
  <1>11. /\ calls' \in [Callers -> CallRecords] /\ calls'[c].at = "calls" /\ calls'[c].node = x
         /\ \A d \in Callers \ {c} : calls'[d] = calls[d]
    <2>1. calls' = [calls EXCEPT ![c] = r]
      BY <1>9
    <2> HIDE DEF r
    <2> QED
      BY <1>1, <1>10, <2>1
  <1>12. \A d \in Callers : calls[d].at = "calls" => calls[d].node \in Held
    BY DEF Held
  <1>13. SharedCall'
    BY <1>1, <1>8, <1>11, <1>12 DEF SharedCall
  <1>14. Held' \subseteq Held \union {x}
    BY <1>11 DEF Held
  <1>15. Sound(Nodes, map', M, Held \union {x})
    BY <1>5, <1>6 DEF Sound
  <1> QED
    BY <1>11, <1>13, <1>14, <1>15, InvStep

\* A key is looked up, and no function is called.
LEMMA KeptStep ==
  ASSUME MapInv, bound' = bound, NEW k \in bound.keys, HasNode(k), map' = Node(k),
         map'.value[Find(map', k)] # "null", calls' \in [Callers -> CallRecords],
         \A d \in Callers : calls'[d].at = "calls" =>
                        calls[d].at = "calls" /\ calls'[d].node = calls[d].node
  PROVE  MapInv'
  <1>1. PICK M : Sound(Nodes, map', M, Held)
    BY NodeKept
  <1>2. SharedCall' /\ Held' \subseteq Held
    BY FewerCalls DEF MapInv
  <1> QED
    BY <1>1, <1>2, InvStep

LEMMA AnsweredCalls ==
  ASSUME calls \in [Callers -> CallRecords], NEW c \in Callers, calls' = Answered(c)
  PROVE  /\ calls' \in [Callers -> CallRecords]
         /\ \A d \in Callers : calls'[d].at = "calls" =>
                        calls[d].at = "calls" /\ calls'[d].node = calls[d].node
  <1> DEFINE r == [calls[c] EXCEPT !.at = "done"]
  <1>1. r \in CallRecords /\ r.at = "done"
    BY CallAt
  <1>2. calls' = [calls EXCEPT ![c] = r]
    BY DEF Answered
  <1> HIDE DEF r
  <1> QED
    BY <1>1, <1>2

LEMMA IndexCallStep ==
  ASSUME MapInv, NEW k \in bound.keys, NEW c \in Callers, IndexCall(c, k)
  PROVE  MapInv'
  <1> DEFINE v == Node(k)
             found == v.value[Find(v, k)]
  <1>1. calls \in [Callers -> CallRecords]
    BY DEF MapInv
  <1>2. UNCHANGED bound /\ calls[c].at = "idle" /\ HasNode(k)
    BY DEF IndexCall, Does
  <1>3. \/ found = "null" /\ map' = SetValue(v, k, c) /\ calls' = Called(c, Find(v, k), "index")
        \/ found # "null" /\ found \in Callers /\ map' = v /\ calls' = Joined(c, found)
        \/ found # "null" /\ found \notin Callers /\ map' = v /\ calls' = Answered(c)
    BY DEF IndexCall, CallsFunction
  <1>4. CASE found = "null" /\ map' = SetValue(v, k, c) /\ calls' = Called(c, Find(v, k), "index")
    <2>1. c \in Values /\ c # "null"
      BY MapsAssumption DEF Values
    <2>2. Find(map', k) = Find(v, k)
      BY <1>2, <1>4, <2>1, NodeSet
    <2> QED
      BY <1>2, <1>4, <2>1, <2>2, CalledStep
  <1>5. CASE found # "null" /\ found \in Callers /\ map' = v /\ calls' = Joined(c, found)
    <2> HIDE DEF found
    <2>1. /\ calls' \in [Callers -> CallRecords]
          /\ \A d \in Callers : calls'[d].at = "calls" =>
                        calls[d].at = "calls" /\ calls'[d].node = calls[d].node
      <3> DEFINE a == [calls[c] EXCEPT !.at = "waits"]
                 b == [a EXCEPT !.for = found]
                 f == [calls EXCEPT ![c] = b]
                 g == [[calls EXCEPT ![c] = a] EXCEPT
                         ![c] = [[calls EXCEPT ![c] = a][c] EXCEPT !.for = found]]
                 r == [f[found] EXCEPT !.waiters = f[found].waiters \union {c}]
      <3>1. b \in CallRecords /\ b.at = "waits" /\ b.waiters = calls[c].waiters
        BY <1>1, <1>5, CallFor
      <3>2. f[found].waiters = calls[found].waiters
        <4> HIDE DEF b
        <4> QED
          BY <1>1, <1>5, <3>1
      <3>3. calls' = [g EXCEPT ![found] = [g[found] EXCEPT !.waiters = calls[found].waiters \union {c}]]
        BY <1>5 DEF Joined
      <3>4. f = g
        <4> HIDE DEF a
        <4> QED
          BY <1>1
      <3> HIDE DEF b, g
      <3>5. f \in [Callers -> CallRecords]
        BY <1>1, <3>1
      <3>6. \A d \in Callers : f[d].at = "calls" =>
                        calls[d].at = "calls" /\ f[d].node = calls[d].node
        BY <1>1, <3>1
      <3> HIDE DEF f
      <3>7. calls' = [f EXCEPT ![found] = r]
        BY <3>2, <3>3, <3>4
      <3>8. r \in CallRecords /\ r.at = f[found].at /\ r.node = f[found].node
        BY <1>5, <3>5, CallWaiters
      <3> HIDE DEF r
      <3>9. calls' \in [Callers -> CallRecords]
        BY <1>5, <3>5, <3>7, <3>8
      <3>10. \A d \in Callers : calls'[d].at = f[d].at /\ calls'[d].node = f[d].node
        BY <1>5, <3>5, <3>7, <3>8
      <3> QED
        BY <3>6, <3>9, <3>10
    <2>2. map'.value[Find(map', k)] # "null"
      BY <1>5 DEF found
    <2> QED
      BY <1>2, <1>5, <2>1, <2>2, KeptStep
  <1>6. CASE found # "null" /\ found \notin Callers /\ map' = v /\ calls' = Answered(c)
    <2>1. /\ calls' \in [Callers -> CallRecords]
          /\ \A d \in Callers : calls'[d].at = "calls" =>
                        calls[d].at = "calls" /\ calls'[d].node = calls[d].node
      BY <1>1, <1>6, AnsweredCalls
    <2> QED
      BY <1>2, <1>6, <2>1, KeptStep
  <1> QED
    BY <1>3, <1>4, <1>5, <1>6

LEMMA MissingCallStep ==
  ASSUME MapInv, NEW k \in bound.keys, NEW c \in Callers, MissingCall(c, k)
  PROVE  MapInv'
  <1> DEFINE v == Node(k)
             found == v.value[Find(v, k)]
  <1>1. calls \in [Callers -> CallRecords]
    BY DEF MapInv
  <1>2. UNCHANGED bound /\ calls[c].at = "idle" /\ HasNode(k)
    BY DEF MissingCall, Does
  <1>3. CASE found = "null"
    <2>1. map' = SetValue(v, k, "nil") /\ calls' = Called(c, Find(v, k), "missing")
      BY <1>3 DEF MissingCall
    <2>2. "nil" \in Values /\ "nil" # "null"
      BY DEF Values
    <2>3. Find(map', k) = Find(v, k)
      BY <1>2, <2>1, <2>2, NodeSet
    <2> QED
      BY <1>2, <1>3, <2>1, <2>2, <2>3, CalledStep
  <1>4. CASE found # "null"
    <2>1. map' = v /\ calls' = Answered(c)
      BY <1>4 DEF MissingCall
    <2>2. /\ calls' \in [Callers -> CallRecords]
          /\ \A d \in Callers : calls'[d].at = "calls" =>
                        calls[d].at = "calls" /\ calls'[d].node = calls[d].node
      BY <1>1, <2>1, AnsweredCalls
    <2> QED
      BY <1>2, <1>4, <2>1, <2>2, KeptStep
  <1> QED
    BY <1>3, <1>4

LEMMA CallReturnsStep ==
  ASSUME MapInv, NEW c \in Callers, CallReturns(c)
  PROVE  MapInv'
  <1> DEFINE x == calls[c].node
             h == {calls[d].node : d \in {e \in Callers \ {c} : calls[e].at = "calls"}}
  <1>1. calls \in [Callers -> CallRecords] /\ SharedCall
    BY DEF MapInv
  <1>2. PICK T : Sound(Nodes, map, T, Held)
    BY DEF MapInv
  <1>3. calls[c].at = "calls" /\ UNCHANGED bound
    BY DEF CallReturns
  <1>4. PICK fails \in BOOLEAN : map' = Forget([map EXCEPT !.value[x] = Result(c, fails)], h)
    BY DEF CallReturns
  <1> DEFINE r == Result(c, fails)
             f == [map.value EXCEPT ![x] = r]
             u == [map EXCEPT !.value = f]
             Ended(d) == [calls[d] EXCEPT !.at = "done"]
  <1>5. calls' = [d \in Callers |-> IF d \in Continued(c) THEN [calls[d] EXCEPT !.at = "done"]
                                    ELSE calls[d]]
    BY DEF CallReturns
  <1>6. Whole(Nodes, Values, map, T) /\ Held \subseteq Nodes
    BY <1>2 DEF Sound
  <1>7. map \in MapsOf(Nodes, Values) /\ map.value \in [Nodes -> Values]
    BY <1>6, WholeType
  <1>8. x \in Held /\ h \subseteq Held
    BY <1>3 DEF Held
  <1>9. map.value[x] # "null"
    BY <1>2, <1>8 DEF Sound
  <1>10. r \in Values /\ r # "null"
    <2>1. r = map.value[x] \/ r = "value"
      BY DEF Result
    <2>2. map.value[x] \in Values
      BY <1>6, <1>7, <1>8
    <2>3. "value" \in Values /\ "value" # "null"
      BY DEF Values
    <2> QED
      BY <1>9, <2>1, <2>2, <2>3
  <1>11. map' = Forget(u, h)
    BY <1>4, <1>7 DEF MapsOf
  <1> HIDE DEF x, r
  <1>12. f \in [Nodes -> Values]
    BY <1>7, <1>10
  <1>13. /\ Whole(Nodes, Values, u, T) /\ u.value = f /\ u.pending = map.pending
    <2> HIDE DEF f
    <2> QED
      BY <1>6, <1>12, ValuesWhole
  <1>14. \A y \in Nodes : f[y] = IF y = x THEN r ELSE map.value[y]
    BY <1>7
  <1> HIDE DEF f, u, h
  <1>15. Pending(u) = Pending(map) /\ Pending(map) \subseteq Nodes
    BY <1>6, <1>13, PendingIn DEF Pending
  <1>16. \A y \in T \union Held \union Pending(u) : u.value[y] # "null"
    <2>1. T \subseteq Nodes
      BY <1>6, WholeType
    <2> QED
      BY <1>2, <1>6, <1>10, <1>13, <1>14, <1>15, <2>1 DEF Sound
  <1>17. Sound(Nodes, u, T, Held)
    BY <1>6, <1>13, <1>16 DEF Sound
  <1>18. Sound(Nodes, map', T, h)
    BY <1>8, <1>11, <1>17, SoundLess, SoundForget
  <1>19. \A d \in Callers : Ended(d) \in CallRecords /\ Ended(d).at = "done"
    BY <1>1, CallAt
  <1>20. /\ calls' \in [Callers -> CallRecords]
         /\ \A d \in Callers : calls'[d].at = "calls" =>
             d # c /\ calls[d].at = "calls" /\ calls'[d].node = calls[d].node
    <2>1. calls' = [d \in Callers |-> IF d \in Continued(c) THEN Ended(d) ELSE calls[d]]
      BY <1>5
    <2>2. c \in Continued(c)
      BY DEF Continued
    <2> HIDE DEF Ended
    <2> QED
      BY <1>1, <1>19, <2>1, <2>2
  <1>21. SharedCall'
    BY <1>1, <1>20, FewerCalls
  <1>22. Held' \subseteq h
    BY <1>20 DEF Held, h
  <1> QED
    BY <1>3, <1>18, <1>20, <1>21, <1>22, InvStep
------------------------------------------------------------------------------
(* What the invariant says of the runs' properties, and the theorems.        *)

\* The map of the beginning is an empty one.
LEMMA MapStarts ==
  ASSUME MapTreeAssumption, MapInit
  PROVE  MapInv
  <1> DEFINE N == Nodes
             K == [x \in N |-> Blank]
             L == [x \in N |-> Unlinked]
             V == [x \in N |-> "null"]
  <1>1. bound \in Bounds
    BY DEF MapInit
  <1>2. PICK o \in bound.orders :
          map = [root |-> Null, head |-> Null, tail |-> Null, size |-> 0, order |-> o,
               n |-> K, links |-> L, value |-> V, pending |-> <<>>]
    BY DEF MapInit
  <1>3. o \in Orderings
    BY <1>1, KeysAre
  <1>4. K \in Trees(N) /\ L \in Links(N) /\ V \in [N -> Values] /\ <<>> \in Seq(N)
        /\ DOMAIN K = N /\ DOMAIN L = N
    BY DEF Trees, Fields, Blank, Links, Link, Unlinked, Values
  <1>5. Null \in N \union {Null} /\ 0 \in Nat
    OBVIOUS
  <1>6. Cleared(map) = [map EXCEPT !.root = Null, !.head = Null, !.tail = Null, !.size = 0,
                               !.n = K, !.links = L]
    BY <1>2, <1>4 DEF Cleared
  <1>7. map.pending = <<>> /\ map.value = V
    BY <1>2
  <1> HIDE DEF N, K, L, V
  <1>8. map \in MapsOf(N, Values)
    BY <1>2, <1>3, <1>4, <1>5 DEF MapsOf
  <1>9. Cleared(map) = map
    BY <1>2, <1>6
  <1>10. Whole(N, Values, map, {})
    BY <1>8, <1>9, ClearedWhole
  <1>11. calls = [c \in Callers |-> [at |-> "idle", node |-> Null, kind |-> "", for |-> Null,
                                    waiters |-> {}]]
    BY DEF MapInit
  <1>12. calls \in [Callers -> CallRecords] /\ \A c \in Callers : calls[c].at = "idle"
    BY <1>11 DEF CallRecords
  <1>13. Held = {} /\ SharedCall
    BY <1>12 DEF Held, SharedCall
  <1>14. Pending(map) = {}
    BY <1>7 DEF Pending
  <1>15. Sound(N, map, {}, Held)
    BY <1>10, <1>13, <1>14 DEF Sound
  <1> QED
    BY <1>1, <1>12, <1>13, <1>15 DEF MapInv, N

LEMMA MapStep ==
  ASSUME MapInv, [MapNext]_mapVars
  PROVE  MapInv'
  <1>1. CASE UNCHANGED mapVars
    <2>1. bound' = bound /\ calls' = calls /\ map' = map
      BY <1>1 DEF mapVars
    <2>2. PICK T : Sound(Nodes, map, T, Held)
      BY DEF MapInv
    <2> QED
      BY <2>1, <2>2, QuietStep
  <1>2. CASE MapPop \/ MapPull \/ \E k \in bound.keys : MapDelete(k)
    BY <1>2, DeleteStep
  <1>3. CASE MapEmpty
    BY <1>3, EmptyStep
  <1>4. CASE MapFilter
    BY <1>4, FilterStep
  <1>5. CASE FilterReturns
    BY <1>5, FilterReturnsStep
  <1>6. CASE \E k \in bound.keys : MapInsert(k) \/ MapIndex(k) \/ MapPush(k) \/ MapPut(k)
    BY <1>6, InsertStep, IndexStep, EndStep
  <1>7. CASE \E k \in bound.keys : \E c \in Callers : IndexCall(c, k) \/ MissingCall(c, k)
    BY <1>7, IndexCallStep, MissingCallStep
  <1>8. CASE \E o \in bound.orders : MapOrder(o)
    BY <1>8, OrderStep
  <1>9. CASE \E c \in Callers : CallReturns(c)
    BY <1>9, CallReturnsStep
  <1> QED
    BY <1>1, <1>2, <1>3, <1>4, <1>5, <1>6, <1>7, <1>8, <1>9 DEF MapNext

LEMMA InvType ==
  ASSUME MapInv
  PROVE  MapTypeOK
  <1>1. PICK T : Whole(Nodes, Values, map, T)
    BY DEF MapInv, Sound
  <1>2. map \in MapsOf(Nodes, Values) /\ calls \in [Callers -> CallRecords]
    BY <1>1, WholeType DEF MapInv
  <1>3. /\ map.n \in Trees(Nodes) /\ map.links \in Links(Nodes) /\ map.value \in [Nodes -> Values]
        /\ {map.root, map.head, map.tail} \subseteq Nodes \union {Null}
    BY <1>2 DEF MapsOf
  <1>4. ASSUME NEW x \in Nodes
        PROVE  /\ {map.n[x].left, map.n[x].right, map.links[x].prev, map.links[x].next}
                     \subseteq Nodes \union {Null}
               /\ map.value[x] \in {"null", "value", "nil"} \union Callers
    <2>1. map.n[x] \in Fields(Nodes) /\ map.links[x] \in Link(Nodes) /\ map.value[x] \in Values
      BY <1>3 DEF Trees, Links
    <2>2. map.n[x].left \in Nodes \union {Null} /\ map.n[x].right \in Nodes \union {Null}
      BY <2>1 DEF Fields
    <2>3. map.links[x].prev \in Nodes \union {Null} /\ map.links[x].next \in Nodes \union {Null}
      BY <2>1 DEF Link
    <2> QED
      BY <2>1, <2>2, <2>3 DEF Values
  <1>5. \A c \in Callers : calls[c].at \in {"idle", "calls", "waits", "done"}
    BY <1>2 DEF CallRecords
  <1> QED
    BY <1>3, <1>4, <1>5 DEF MapTypeOK

\* What iteration goes through.
IsListed(N, v, s) ==
  /\ NodeList(v) \in Seq(N) /\ Len(NodeList(v)) = v.size
  /\ \A j \in 1 .. v.size : NodeList(v)[j] = s[j]

LEMMA ListIsListed ==
  ASSUME NEW N, Names(N), NEW W, NEW v, NEW T, Whole(N, W, v, T), NEW s,
         Chain(N, v, v.size, s), Listing(v.size, s) = T
  PROVE  IsListed(N, v, s)
  BY ListIs DEF IsListed

LEMMA InvFits ==
  ASSUME MapInv
  PROVE  TreeFitsList
  <1> DEFINE N == Nodes
             m == map.size
             q == NodeList(map)
  <1>1. PICK T : Whole(N, Values, map, T)
    BY DEF MapInv, Sound
  <1>2. PICK s : Chain(N, map, m, s) /\ Listing(m, s) = T
    BY <1>1 DEF Whole, ListHas
  <1>3. Names(N) /\ bound.keys \subseteq Int
    BY KeysAre DEF MapInv
  <1>4. q \in Seq(N) /\ Len(q) = m /\ \A j \in 1 .. m : q[j] = s[j]
    <2>1. IsListed(N, map, s)
      BY <1>1, <1>2, <1>3, ListIsListed
    <2> QED
      BY <2>1 DEF IsListed
  <1>5. /\ m \in Nat /\ map.tail = IF m = 0 THEN Null ELSE s[m]
        /\ \A i \in 1 .. m : map.links[s[i]].prev = IF i = 1 THEN Null ELSE s[i - 1]
    BY <1>2 DEF Chain
  <1>6. T = {s[j] : j \in 1 .. m}
    BY <1>2 DEF Listing
  <1>7. T \subseteq N /\ Null \notin N
    BY <1>1, <1>3, WholeType, NodesAre
  <1> HIDE DEF N, m, q
  <1>8. DOMAIN q = 1 .. m /\ (q = <<>> <=> m = 0)
    BY <1>4, <1>5
  <1>9. ASSUME NEW k \in bound.keys
        PROVE  IF \E i \in DOMAIN q : KeyOf(q[i]) = k
               THEN \E i \in DOMAIN q : q[i] = Find(map, k) /\ KeyOf(q[i]) = k
               ELSE Find(map, k) = Null
    <2>1. /\ Find(map, k) \in WithKey(T, k) \union {Null}
          /\ WithKey(T, k) = IF Find(map, k) = Null THEN {} ELSE {Find(map, k)}
      BY <1>1, <1>3, WholeFind
    <2>2. \A x : x \in WithKey(T, k) <=> \E i \in DOMAIN q : x = q[i] /\ KeyOf(q[i]) = k
      BY <1>4, <1>6, <1>8 DEF WithKey
    <2> QED
      BY <2>1, <2>2
  <1>10. map.tail = IF q = <<>> THEN Null ELSE q[Len(q)]
    BY <1>4, <1>5, <1>8
  <1>11. \A i \in DOMAIN q : map.links[q[i]].prev = IF i = 1 THEN Null ELSE q[i - 1]
    <2>1. \A i \in 1 .. m : i # 1 => i - 1 \in 1 .. m
      BY <1>5
    <2> QED
      BY <1>4, <1>5, <1>8, <2>1
  <1>12. m = Len(q)
    BY <1>4
  <1> QED
    BY <1>9, <1>10, <1>11, <1>12 DEF TreeFitsList, Listed, q, m

\* The invariant: there is a set of nodes that are those of the tree and those of the list,
\* each of them in both once, and they have a value, like those that functions have been
\* called for and those that filter has left.
LEMMA MapInvHolds == MapSpec => []MapInv
  <1>1. MapInit => MapInv
    BY MapStarts, MapTreeAssumption
  <1>2. MapInv /\ [MapNext]_mapVars => MapInv'
    BY MapStep
  <1> QED
    BY <1>1, <1>2, PTL DEF MapSpec

\* Nodes, values and calls are what ml_map.c makes of them, in every map.
THEOREM MapTypes == MapSpec => []MapTypeOK
  <1>1. MapInv => MapTypeOK
    BY InvType
  <1> QED
    BY <1>1, MapInvHolds, PTL

\* Through every sequence of the methods of ml_map.c, however many keys there are: the tree,
\* which rotations rearrange, and the list, which the order of the map arranges, have the
\* same nodes, a look-up finds exactly those keys, Size counts them, and the list is linked
\* in both directions.
THEOREM TreeAndListFit == MapSpec => []TreeFitsList
  <1>1. MapInv => TreeFitsList
    BY InvFits
  <1> QED
    BY <1>1, MapInvHolds, PTL

\* Two functions are never called for the same node (ml_map_node, and the state that is its
\* value while the function runs), with any number of callers, whatever is deleted, set or
\* filtered meanwhile.
THEOREM OneCallPerNode == MapSpec => []SharedCall
  <1>1. MapInv => SharedCall
    BY DEF MapInv
  <1> QED
    BY <1>1, MapInvHolds, PTL
------------------------------------------------------------------------------
(* The order of iteration.  The lists of nodes are those of the proofs above;  *)
(* the keys of one are a list of integers with the same places.               *)

KeysIn(m, s) == [j \in 1 .. m |-> KeyOf(s[j])]

LEMMA KeysOfInserted ==
  ASSUME NEW m \in Nat, NEW s, NEW i \in 0 .. m, NEW x
  PROVE  KeysIn(m + 1, Inserted(m, s, i, x)) = Inserted(m, KeysIn(m, s), i, KeyOf(x))
  <1> DEFINE t == Inserted(m, s, i, x)
             e == KeysIn(m, s)
             a == KeysIn(m + 1, t)
             b == Inserted(m, e, i, KeyOf(x))
  <1>1. ASSUME NEW j \in 1 .. m + 1
        PROVE  a[j] = b[j]
    <2>1. a[j] = KeyOf(t[j])
      BY DEF KeysIn
    <2>2. CASE j <= i
      <3>1. t[j] = s[j] /\ b[j] = e[j]
        BY <2>2 DEF Inserted
      <3>2. e[j] = KeyOf(s[j])
        <4>1. j \in 1 .. m
          BY <2>2
        <4> QED
          BY <4>1 DEF KeysIn
      <3> QED
        BY <2>1, <3>1, <3>2
    <2>3. CASE j = i + 1
      <3>1. t[j] = x /\ b[j] = KeyOf(x)
        BY <2>3 DEF Inserted
      <3> QED
        BY <2>1, <3>1
    <2>4. CASE j > i + 1
      <3>1. t[j] = s[j - 1] /\ b[j] = e[j - 1]
        BY <2>4 DEF Inserted
      <3>2. e[j - 1] = KeyOf(s[j - 1])
        <4>1. j - 1 \in 1 .. m
          BY <2>4
        <4> QED
          BY <4>1 DEF KeysIn
      <3> QED
        BY <2>1, <3>1, <3>2
    <2>5. j <= i \/ j = i + 1 \/ j > i + 1
      OBVIOUS
    <2> QED
      BY <2>2, <2>3, <2>4, <2>5
  <1>2. a = [j \in 1 .. m + 1 |-> a[j]] /\ b = [j \in 1 .. m + 1 |-> b[j]]
    BY DEF KeysIn, Inserted
  <1> HIDE DEF a, b
  <1>3. a = b
    BY <1>1, <1>2
  <1> QED
    BY <1>3 DEF a, b, t, e

LEMMA KeysOfDeleted ==
  ASSUME NEW m \in Nat, NEW s, NEW i \in 1 .. m
  PROVE  KeysIn(m - 1, Deleted(m, s, i)) = Deleted(m, KeysIn(m, s), i)
  <1> DEFINE t == Deleted(m, s, i)
             e == KeysIn(m, s)
             a == KeysIn(m - 1, t)
             b == Deleted(m, e, i)
  <1>1. ASSUME NEW j \in 1 .. m - 1
        PROVE  a[j] = b[j]
    <2>1. a[j] = KeyOf(t[j])
      BY DEF KeysIn
    <2>2. j \in 1 .. m /\ j + 1 \in 1 .. m
      OBVIOUS
    <2>3. t[j] = (IF j < i THEN s[j] ELSE s[j + 1]) /\ b[j] = (IF j < i THEN e[j] ELSE e[j + 1])
      BY DEF Deleted
    <2>4. e[j] = KeyOf(s[j]) /\ e[j + 1] = KeyOf(s[j + 1])
      BY <2>2 DEF KeysIn
    <2> QED
      BY <2>1, <2>3, <2>4
  <1>2. a = [j \in 1 .. m - 1 |-> a[j]] /\ b = [j \in 1 .. m - 1 |-> b[j]]
    BY DEF KeysIn, Deleted
  <1> HIDE DEF a, b
  <1>3. a = b
    BY <1>1, <1>2
  <1> QED
    BY <1>3 DEF a, b, t, e

\* What is inserted can be taken out, and what is taken out at the end put back.
LEMMA DeleteInserted ==
  ASSUME NEW m \in Nat, NEW X, NEW s \in [1 .. m -> X], NEW i \in 0 .. m, NEW x
  PROVE  Deleted(m + 1, Inserted(m, s, i, x), i + 1) = s
  <1> DEFINE t == Inserted(m, s, i, x)
             a == Deleted(m + 1, t, i + 1)
  <1>1. \A j \in 1 .. m + 1 : t[j] = IF j <= i THEN s[j] ELSE IF j = i + 1 THEN x ELSE s[j - 1]
    BY DEF Inserted
  <1>2. (m + 1) - 1 = m
    OBVIOUS
  <1>3. a = [j \in 1 .. m |-> IF j < i + 1 THEN t[j] ELSE t[j + 1]]
    BY <1>2 DEF Deleted
  <1> HIDE DEF t, a
  <1>4. ASSUME NEW j \in 1 .. m
        PROVE  a[j] = s[j]
    <2>1. CASE j < i + 1
      <3>1. j \in 1 .. m + 1 /\ j <= i
        BY <2>1
      <3> QED
        BY <1>1, <1>3, <2>1, <3>1
    <2>2. CASE ~ (j < i + 1)
      <3>1. j + 1 \in 1 .. m + 1 /\ ~ (j + 1 <= i) /\ j + 1 # i + 1 /\ (j + 1) - 1 = j
        BY <2>2
      <3> QED
        BY <1>1, <1>3, <2>2, <3>1
    <2> QED
      BY <2>1, <2>2
  <1>5. a = [j \in 1 .. m |-> a[j]]
    BY <1>3
  <1>6. a = s
    BY <1>4, <1>5
  <1> QED
    BY <1>6 DEF a, t

LEMMA InsertDeleted ==
  ASSUME NEW m \in Nat, NEW X, NEW s \in [1 .. m -> X], NEW i \in 1 .. m
  PROVE  Inserted(m - 1, Deleted(m, s, i), i - 1, s[i]) = s
  <1> DEFINE t == Deleted(m, s, i)
             a == Inserted(m - 1, t, i - 1, s[i])
  <1>1. \A j \in 1 .. m - 1 : t[j] = IF j < i THEN s[j] ELSE s[j + 1]
    BY DEF Deleted
  <1>2. (m - 1) + 1 = m /\ (i - 1) + 1 = i
    OBVIOUS
  <1>3. a = [j \in 1 .. m |-> IF j <= i - 1 THEN t[j] ELSE IF j = i THEN s[i] ELSE t[j - 1]]
    BY <1>2 DEF Inserted
  <1> HIDE DEF t, a
  <1>4. ASSUME NEW j \in 1 .. m
        PROVE  a[j] = s[j]
    <2>1. CASE j <= i - 1
      <3>1. j \in 1 .. m - 1 /\ j < i
        BY <2>1
      <3> QED
        BY <1>1, <1>3, <2>1, <3>1
    <2>2. CASE j = i
      <3>1. ~ (j <= i - 1)
        BY <2>2
      <3> QED
        BY <1>3, <2>2, <3>1
    <2>3. CASE j > i
      <3>1. j - 1 \in 1 .. m - 1 /\ ~ (j - 1 < i) /\ ~ (j <= i - 1) /\ j # i /\ (j - 1) + 1 = j
        BY <2>3
      <3> QED
        BY <1>1, <1>3, <3>1
    <2>4. j <= i - 1 \/ j = i \/ j > i
      OBVIOUS
    <2> QED
      BY <2>1, <2>2, <2>3, <2>4
  <1>5. a = [j \in 1 .. m |-> a[j]]
    BY <1>3
  <1>6. a = s
    BY <1>4, <1>5
  <1> QED
    BY <1>6 DEF a, t

\* The same in terms of sequences.
LEMMA IsSequence ==
  ASSUME NEW m \in Nat, NEW e \in [1 .. m -> Int]
  PROVE  e \in Seq(Int) /\ Len(e) = m /\ DOMAIN e = 1 .. m
  OBVIOUS

LEMMA SameSequence ==
  ASSUME NEW m \in Nat, NEW q \in Seq(Int), Len(q) = m, NEW f \in [1 .. m -> Int],
         \A j \in 1 .. m : q[j] = f[j]
  PROVE  q = f
  <1>1. q = [j \in 1 .. m |-> q[j]] /\ f = [j \in 1 .. m |-> f[j]]
    OBVIOUS
  <1> QED
    BY <1>1

LEMMA Joins ==
  ASSUME NEW p \in Seq(Int), NEW q \in Seq(Int), NEW a, NEW b, Len(p) = a, Len(q) = b
  PROVE  /\ p \o q \in Seq(Int) /\ Len(p \o q) = a + b
         /\ \A j \in 1 .. a + b : (p \o q)[j] = IF j <= a THEN p[j] ELSE q[j - a]
  BY ConcatProperties

LEMMA KeyInserted ==
  ASSUME NEW m \in Nat, NEW e \in [1 .. m -> Int], NEW i \in 0 .. m, NEW k \in Int
  PROVE  /\ Inserted(m, e, i, k) \in [1 .. m + 1 -> Int]
         /\ \A j \in 1 .. m + 1 : Inserted(m, e, i, k)[j] =
              IF j <= i THEN e[j] ELSE IF j = i + 1 THEN k ELSE e[j - 1]
  <1>1. ASSUME NEW j \in 1 .. m + 1
        PROVE  (IF j <= i THEN e[j] ELSE IF j = i + 1 THEN k ELSE e[j - 1]) \in Int
    <2>1. /\ j <= i => j \in 1 .. m
          /\ ~ (j <= i) /\ j # i + 1 => j - 1 \in 1 .. m
      OBVIOUS
    <2> QED
      BY <2>1
  <1> QED
    BY <1>1 DEF Inserted

LEMMA KeyDeleted ==
  ASSUME NEW m \in Nat, NEW e \in [1 .. m -> Int], NEW i \in 1 .. m
  PROVE  /\ Deleted(m, e, i) \in [1 .. m - 1 -> Int] /\ m - 1 \in Nat
         /\ \A j \in 1 .. m - 1 : Deleted(m, e, i)[j] = IF j < i THEN e[j] ELSE e[j + 1]
  <1>1. \A j \in 1 .. m - 1 : j \in 1 .. m /\ j + 1 \in 1 .. m
    OBVIOUS
  <1>2. m - 1 \in Nat
    OBVIOUS
  <1> QED
    BY <1>1, <1>2 DEF Deleted

LEMMA Appended ==
  ASSUME NEW m \in Nat, NEW e \in [1 .. m -> Int], NEW k \in Int
  PROVE  Append(e, k) = Inserted(m, e, m, k)
  <1> DEFINE q == Append(e, k)
             f == Inserted(m, e, m, k)
  <1>1. e \in Seq(Int) /\ Len(e) = m
    BY IsSequence
  <1>2. q \in Seq(Int) /\ Len(q) = m + 1 /\ q[m + 1] = k /\ \A j \in 1 .. m : q[j] = e[j]
    BY <1>1
  <1>3. f \in [1 .. m + 1 -> Int] /\ \A j \in 1 .. m + 1 :
           f[j] = IF j <= m THEN e[j] ELSE IF j = m + 1 THEN k ELSE e[j - 1]
    <2>1. m \in 0 .. m
      OBVIOUS
    <2> QED
      BY <2>1, KeyInserted
  <1> HIDE DEF q, f
  <1>4. \A j \in 1 .. m + 1 : q[j] = f[j]
    <2>1. \A j \in 1 .. m + 1 : (j <= m => j \in 1 .. m) /\ (~ (j <= m) => j = m + 1)
      OBVIOUS
    <2> QED
      BY <1>2, <1>3, <2>1
  <1>5. q = f
    BY <1>2, <1>3, <1>4, SameSequence
  <1> QED
    BY <1>5 DEF q, f

LEMMA Prepended ==
  ASSUME NEW m \in Nat, NEW e \in [1 .. m -> Int], NEW k \in Int
  PROVE  <<k>> \o e = Inserted(m, e, 0, k)
  <1> DEFINE q == <<k>> \o e
             f == Inserted(m, e, 0, k)
  <1>1. e \in Seq(Int) /\ Len(e) = m /\ <<k>> \in Seq(Int)
    BY IsSequence
  <1>2. q \in Seq(Int) /\ Len(q) = m + 1 /\ q[1] = k /\ \A j \in 2 .. m + 1 : q[j] = e[j - 1]
    BY <1>1
  <1>3. f \in [1 .. m + 1 -> Int] /\ \A j \in 1 .. m + 1 :
           f[j] = IF j <= 0 THEN e[j] ELSE IF j = 0 + 1 THEN k ELSE e[j - 1]
    <2>1. 0 \in 0 .. m
      OBVIOUS
    <2> QED
      BY <2>1, KeyInserted
  <1> HIDE DEF q, f
  <1>4. \A j \in 1 .. m + 1 : q[j] = f[j]
    <2>1. \A j \in 1 .. m + 1 : j = 1 \/ (j \in 2 .. m + 1 /\ ~ (j <= 0) /\ j # 0 + 1)
      OBVIOUS
    <2> QED
      BY <1>2, <1>3, <2>1
  <1>5. q = f
    BY <1>2, <1>3, <1>4, SameSequence
  <1> QED
    BY <1>5 DEF q, f

LEMMA Between ==
  ASSUME NEW m \in Nat, NEW e \in [1 .. m -> Int], NEW i \in 0 .. m, NEW k \in Int
  PROVE  SubSeq(e, 1, i) \o <<k>> \o SubSeq(e, i + 1, Len(e)) = Inserted(m, e, i, k)
  <1> DEFINE a == SubSeq(e, 1, i)
             b == SubSeq(e, i + 1, m)
             q == a \o <<k>> \o b
             f == Inserted(m, e, i, k)
  <1>1. e \in Seq(Int) /\ Len(e) = m /\ <<k>> \in Seq(Int)
    BY IsSequence
  <1>2. a \in Seq(Int) /\ Len(a) = i /\ \A j \in 1 .. i : a[j] = e[j]
    BY <1>1
  <1>3. b \in Seq(Int) /\ Len(b) = m - i /\ \A j \in 1 .. m - i : b[j] = e[i + j]
    <2>1. \A j \in 1 .. m - i : (i + 1) + j - 1 = i + j
      OBVIOUS
    <2> QED
      BY <1>1, <2>1
  <1> HIDE DEF a, b
  <1> DEFINE c == a \o <<k>>
  <1>4. c \in Seq(Int) /\ Len(c) = i + 1 /\ c[i + 1] = k /\ \A j \in 1 .. i : c[j] = a[j]
    BY <1>1, <1>2
  <1> HIDE DEF c
  <1>5. /\ c \o b \in Seq(Int) /\ Len(c \o b) = (i + 1) + (m - i)
        /\ \A j \in 1 .. (i + 1) + (m - i) :
             (c \o b)[j] = IF j <= i + 1 THEN c[j] ELSE b[j - (i + 1)]
    <2> DEFINE n == i + 1
               l == m - i
    <2>1. c \in Seq(Int) /\ b \in Seq(Int) /\ Len(c) = n /\ Len(b) = l
      BY <1>3, <1>4
    <2> HIDE DEF n, l
    <2>2. /\ c \o b \in Seq(Int) /\ Len(c \o b) = n + l
          /\ \A j \in 1 .. n + l : (c \o b)[j] = IF j <= n THEN c[j] ELSE b[j - n]
      BY <2>1, Joins
    <2> QED
      BY <2>2 DEF n, l
  <1>6. q = c \o b /\ (i + 1) + (m - i) = m + 1
    BY DEF c
  <1>7. f \in [1 .. m + 1 -> Int] /\ \A j \in 1 .. m + 1 :
           f[j] = IF j <= i THEN e[j] ELSE IF j = i + 1 THEN k ELSE e[j - 1]
    BY KeyInserted
  <1> HIDE DEF q, f
  <1>8. ASSUME NEW j \in 1 .. m + 1
        PROVE  q[j] = f[j]
    <2>1. CASE j <= i
      <3>1. j \in 1 .. i /\ j <= i + 1
        BY <2>1
      <3> QED
        BY <1>2, <1>4, <1>5, <1>6, <1>7, <2>1, <3>1
    <2>2. CASE j = i + 1
      <3>1. ~ (j <= i) /\ j <= i + 1
        BY <2>2
      <3> QED
        BY <1>4, <1>5, <1>6, <1>7, <2>2, <3>1
    <2>3. CASE j > i + 1
      <3>1. /\ ~ (j <= i) /\ ~ (j <= i + 1) /\ j # i + 1 /\ j - (i + 1) \in 1 .. m - i
            /\ i + (j - (i + 1)) = j - 1
        BY <2>3
      <3> QED
        BY <1>3, <1>5, <1>6, <1>7, <3>1
    <2>4. j <= i \/ j = i + 1 \/ j > i + 1
      OBVIOUS
    <2> QED
      BY <2>1, <2>2, <2>3, <2>4
  <1>9. q = f
    <2>1. q \in Seq(Int) /\ Len(q) = m + 1 /\ m + 1 \in Nat
      BY <1>5, <1>6
    <2> QED
      BY <1>7, <1>8, <2>1, SameSequence
  <1> QED
    BY <1>1, <1>9 DEF q, f, a, b

LEMMA Around ==
  ASSUME NEW m \in Nat, NEW e \in [1 .. m -> Int], NEW i \in 1 .. m
  PROVE  SubSeq(e, 1, i - 1) \o SubSeq(e, i + 1, Len(e)) = Deleted(m, e, i)
  <1> DEFINE a == SubSeq(e, 1, i - 1)
             b == SubSeq(e, i + 1, m)
             q == a \o b
             f == Deleted(m, e, i)
  <1>1. e \in Seq(Int) /\ Len(e) = m
    BY IsSequence
  <1>2. a \in Seq(Int) /\ Len(a) = i - 1 /\ \A j \in 1 .. i - 1 : a[j] = e[j]
    BY <1>1
  <1>3. b \in Seq(Int) /\ Len(b) = m - i /\ \A j \in 1 .. m - i : b[j] = e[i + j]
    <2>1. \A j \in 1 .. m - i : (i + 1) + j - 1 = i + j
      OBVIOUS
    <2> QED
      BY <1>1, <2>1
  <1> HIDE DEF a, b
  <1>4. /\ q \in Seq(Int) /\ Len(q) = (i - 1) + (m - i)
        /\ \A j \in 1 .. (i - 1) + (m - i) : q[j] = IF j <= i - 1 THEN a[j] ELSE b[j - (i - 1)]
    BY <1>2, <1>3, Joins
  <1>5. (i - 1) + (m - i) = m - 1
    OBVIOUS
  <1>6. /\ f \in [1 .. m - 1 -> Int] /\ m - 1 \in Nat
        /\ \A j \in 1 .. m - 1 : f[j] = IF j < i THEN e[j] ELSE e[j + 1]
    BY KeyDeleted
  <1> HIDE DEF q, f
  <1>7. ASSUME NEW j \in 1 .. m - 1
        PROVE  q[j] = f[j]
    <2>1. CASE j < i
      <3>1. j \in 1 .. i - 1 /\ j <= i - 1
        BY <2>1
      <3> QED
        BY <1>2, <1>4, <1>5, <1>6, <2>1, <3>1
    <2>2. CASE ~ (j < i)
      <3>1. ~ (j <= i - 1) /\ j - (i - 1) \in 1 .. m - i /\ i + (j - (i - 1)) = j + 1
        BY <2>2
      <3> QED
        BY <1>3, <1>4, <1>5, <1>6, <2>2, <3>1
    <2> QED
      BY <2>1, <2>2
  <1>8. q = f
    BY <1>4, <1>5, <1>6, <1>7, SameSequence
  <1> QED
    BY <1>1, <1>8 DEF q, f, a, b
------------------------------------------------------------------------------
(* What the functions of ml_map.c do to the order of the nodes.              *)

\* The nodes of v are those of T, in the order of s.
InOrder(N, W, v, T, s) ==
  Whole(N, W, v, T) /\ Chain(N, v, v.size, s) /\ Listing(v.size, s) = T

LEMMA ListsType ==
  ASSUME NEW N, Names(N), NEW W, NEW v, NEW T, NEW s, InOrder(N, W, v, T, s)
  PROVE  /\ Whole(N, W, v, T) /\ v \in MapsOf(N, W) /\ T \in SUBSET N
         /\ v.size \in Nat /\ s \in [1 .. v.size -> N] /\ Once(v.size, s)
         /\ Chain(N, v, v.size, s) /\ Listing(v.size, s) = T
         /\ \A x : x \in T <=> \E i \in 1 .. v.size : x = s[i]
  <1>1. /\ Whole(N, W, v, T) /\ Chain(N, v, v.size, s) /\ Listing(v.size, s) = T
    BY DEF InOrder
  <1>2. v \in MapsOf(N, W) /\ T \in SUBSET N /\ v.size \in Nat
    BY <1>1, WholeType
  <1>3. s \in [1 .. v.size -> N] /\ Once(v.size, s)
    BY <1>1 DEF Chain
  <1>4. \A x : x \in T <=> \E i \in 1 .. v.size : x = s[i]
    BY <1>1 DEF Listing
  <1> QED
    BY <1>1, <1>2, <1>3, <1>4

LEMMA ListsExist ==
  ASSUME NEW N, NEW W, NEW v, NEW T, Whole(N, W, v, T)
  PROVE  \E s : InOrder(N, W, v, T, s)
  BY DEF Whole, ListHas, InOrder

LEMMA ListsSame ==
  ASSUME NEW N, Names(N), NEW W, NEW v, NEW T, NEW s, InOrder(N, W, v, T, s), NEW u, Whole(N, W, u, T),
         u.links = v.links, u.head = v.head, u.tail = v.tail, u.size = v.size
  PROVE  InOrder(N, W, u, T, s)
  BY DEF InOrder, Chain

EntriesOf(v) == [i \in DOMAIN NodeList(v) |-> KeyOf(NodeList(v)[i])]

\* The keys of the list, no two of which are the same.
LEMMA ListsKeys ==
  ASSUME NEW N, Names(N), NEW W, NEW v, NEW T, NEW s, InOrder(N, W, v, T, s)
  PROVE  /\ EntriesOf(v) = KeysIn(v.size, s)
         /\ KeysIn(v.size, s) \in [1 .. v.size -> Int] /\ Once(v.size, KeysIn(v.size, s))
         /\ \A j \in 1 .. v.size : KeysIn(v.size, s)[j] = KeyOf(s[j])
  <1> DEFINE m == v.size
             q == NodeList(v)
             e == KeysIn(m, s)
  <1>1. /\ Whole(N, W, v, T) /\ m \in Nat /\ s \in [1 .. m -> N] /\ Once(m, s)
        /\ Chain(N, v, m, s) /\ Listing(m, s) = T /\ \A j \in 1 .. m : s[j] \in T
    BY ListsType
  <1>2. q \in Seq(N) /\ Len(q) = m /\ \A j \in 1 .. m : q[j] = s[j]
    BY <1>1, ListIs
  <1>3. \A j \in 1 .. m : s[j] \in N /\ KeyOf(s[j]) \in Int
    BY <1>1, NodesAre
  <1> HIDE DEF q, m
  <1>4. EntriesOf(v) = e
    <2>1. DOMAIN q = 1 .. m
      BY <1>1, <1>2
    <2>2. \A j \in 1 .. m : KeyOf(q[j]) = KeyOf(s[j])
      BY <1>2
    <2> QED
      BY <2>1, <2>2 DEF EntriesOf, KeysIn, q
  <1>5. e \in [1 .. m -> Int] /\ \A j \in 1 .. m : e[j] = KeyOf(s[j])
    BY <1>3 DEF KeysIn
  <1>6. ASSUME NEW j \in 1 .. m, NEW l \in 1 .. m, e[j] = e[l]
        PROVE  j = l
    <2> DEFINE k == e[j]
    <2>1. k \in Int /\ KeyOf(s[j]) = k /\ KeyOf(s[l]) = k
      BY <1>5, <1>6
    <2> HIDE DEF k
    <2>2. WithKey(T, k) = IF Find(v, k) = Null THEN {} ELSE {Find(v, k)}
      BY <1>1, <2>1, WholeFind
    <2>3. s[j] \in WithKey(T, k) /\ s[l] \in WithKey(T, k)
      BY <1>1, <2>1 DEF WithKey
    <2>4. s[j] = s[l]
      BY <2>2, <2>3
    <2> QED
      BY <1>1, <2>4 DEF Once
  <1>7. Once(m, e)
    BY <1>6 DEF Once
  <1> QED
    BY <1>4, <1>5, <1>7 DEF m

\* A node that has moved.
LEMMA MovedList ==
  ASSUME NEW N, Names(N), NEW W, NEW v, NEW T, NEW s, InOrder(N, W, v, T, s), NEW i \in 1 .. v.size,
         NEW z, LinksOut(N, v, z, v.size, s, i), NEW l \in 0 .. v.size - 1, NEW u,
         LinksIn(N, z, u, v.size - 1, Deleted(v.size, s, i), l, s[i]),
         Whole(N, W, u, T), u.size = v.size
  PROVE  InOrder(N, W, u, T, Inserted(v.size - 1, Deleted(v.size, s, i), l, s[i]))
  <1> DEFINE m == v.size
             t == Deleted(m, s, i)
             x == s[i]
             r == Inserted(m - 1, t, l, x)
  <1>1. /\ m \in Nat /\ s \in [1 .. m -> N] /\ Once(m, s) /\ x \in N /\ x \in T
        /\ (m - 1) + 1 = m /\ Chain(N, v, m, s) /\ Listing(m, s) = T
    BY ListsType
  <1>2. /\ m - 1 \in Nat /\ Less(m, s, t, x) /\ t \in [1 .. m - 1 -> N]
        /\ Once(m - 1, t)
    BY <1>1, DeletedIs
  <1>3. Chain(N, z, m - 1, t)
    BY <1>1, DeleteChain
  <1> HIDE DEF t, x, r, m
  <1>4. x \notin Listing(m - 1, t)
    BY <1>1, <1>2 DEF Less
  <1>5. Chain(N, u, (m - 1) + 1, r) /\ More(m - 1, t, r, x)
    <2>1. LinksIn(N, z, u, m - 1, t, l, x) /\ l \in 0 .. m - 1
      BY DEF t, x, m
    <2>2. Chain(N, u, (m - 1) + 1, r)
      BY <1>1, <1>3, <1>4, <2>1, InsertChain DEF r
    <2>3. More(m - 1, t, r, x)
      BY <1>1, <1>2, <1>4, <2>1, InsertedIs DEF r
    <2> QED
      BY <2>2, <2>3
  <1>6. Chain(N, u, m, r) /\ Listing(m, r) = T
    BY <1>1, <1>2, <1>5 DEF Less, More
  <1>7. u.size = m
    BY DEF m
  <1> QED
    BY <1>6, <1>7 DEF InOrder, r, t, x, m

LEMMA MoveTailList ==
  ASSUME NEW N, Names(N), NEW W, NEW v, NEW T, NEW s, InOrder(N, W, v, T, s), NEW i \in 1 .. v.size
  PROVE  LET m == v.size
             u == MoveTail(v, s[i])
         IN  InOrder(N, W, u, T, Inserted(m - 1, Deleted(m, s, i), m - 1, s[i])) /\ u.size = m
  <1> DEFINE m == v.size
             x == s[i]
             z == Unlink(v, x)
             t == Deleted(m, s, i)
             u == MoveTail(v, x)
  <1>1. /\ Whole(N, W, v, T) /\ v \in MapsOf(N, W) /\ m \in Nat /\ s \in [1 .. m -> N]
        /\ Once(m, s) /\ Chain(N, v, m, s) /\ Listing(m, s) = T /\ x \in T /\ x \in N
    BY ListsType
  <1>2. v.links[x].next = IF i = m THEN Null ELSE s[i + 1]
    BY <1>1 DEF Chain
  <1>3. Whole(N, W, u, T) /\ Moved(N, W, v, u, m, T)
    BY <1>1, MoveWhole, MoveTailIs
  <1>4. u.size = m
    BY <1>3 DEF Moved, OnlyList
  <1>5. CASE i = m
    <2>1. u = v
      BY <1>2, <1>5 DEF MoveTail
    <2>2. Inserted(m - 1, t, i - 1, x) = s
      BY <1>1, InsertDeleted
    <2> QED
      BY <1>4, <1>5, <2>1, <2>2
  <1>6. CASE i # m
    <2>1. s[i + 1] # Null
      <3>1. i + 1 \in 1 .. m
        <4>1. m \in Nat /\ i \in 1 .. m
          BY <1>1
        <4> QED
          BY <1>6, <4>1
      <3> QED
        BY <1>1, <3>1, NodesAre
    <2>2. u = LinkAfter(z, z.tail, x)
      BY <1>2, <1>6, <2>1 DEF MoveTail
    <2>3. LinksOut(N, v, z, m, s, i) /\ z \in MapsOf(N, W)
      BY <1>1, UnlinkIs
    <2>4. Chain(N, z, m - 1, t)
      BY <1>1, <2>3, DeleteChain
    <2>5. m - 1 \in Nat /\ Less(m, s, t, x)
      BY <1>1, DeletedIs
    <2>6. m - 1 # 0 /\ m - 1 \in 1 .. m - 1 /\ m - 1 \in 0 .. m - 1
      BY <1>1, <1>6, <2>5
    <2>7. z.tail = t[m - 1]
      BY <2>4, <2>6 DEF Chain
    <2>8. x \notin Listing(m - 1, t)
      BY <2>5 DEF Less
    <2> HIDE DEF t, z, x, m, u
    <2>9. LinksIn(N, z, u, m - 1, t, m - 1, x)
      BY <1>1, <2>2, <2>3, <2>4, <2>6, <2>7, <2>8, LinkAfterIs
    <2> QED
      BY <1>3, <1>4, <2>3, <2>6, <2>9, MovedList DEF t, x, m, u
  <1> QED
    BY <1>5, <1>6

LEMMA MoveHeadList ==
  ASSUME NEW N, Names(N), NEW W, NEW v, NEW T, NEW s, InOrder(N, W, v, T, s), NEW i \in 1 .. v.size
  PROVE  LET m == v.size
             u == MoveHead(v, s[i])
         IN  InOrder(N, W, u, T, Inserted(m - 1, Deleted(m, s, i), 0, s[i])) /\ u.size = m
  <1> DEFINE m == v.size
             x == s[i]
             z == Unlink(v, x)
             t == Deleted(m, s, i)
             u == MoveHead(v, x)
  <1>1. /\ Whole(N, W, v, T) /\ v \in MapsOf(N, W) /\ m \in Nat /\ s \in [1 .. m -> N]
        /\ Once(m, s) /\ Chain(N, v, m, s) /\ Listing(m, s) = T /\ x \in T /\ x \in N
    BY ListsType
  <1>2. v.links[x].prev = IF i = 1 THEN Null ELSE s[i - 1]
    BY <1>1 DEF Chain
  <1>3. Whole(N, W, u, T) /\ Moved(N, W, v, u, m, T)
    BY <1>1, MoveWhole, MoveHeadIs
  <1>4. u.size = m
    BY <1>3 DEF Moved, OnlyList
  <1>5. CASE i = 1
    <2>1. u = v
      BY <1>2, <1>5 DEF MoveHead
    <2>2. Inserted(m - 1, t, i - 1, x) = s
      BY <1>1, InsertDeleted
    <2>3. i - 1 = 0
      BY <1>5
    <2> QED
      BY <1>4, <2>1, <2>2, <2>3
  <1>6. CASE i # 1
    <2>1. s[i - 1] # Null
      <3>1. i - 1 \in 1 .. m
        <4>1. m \in Nat /\ i \in 1 .. m
          BY <1>1
        <4> QED
          BY <1>6, <4>1
      <3> QED
        BY <1>1, <3>1, NodesAre
    <2>2. u = LinkBefore(z, z.head, x)
      BY <1>2, <1>6, <2>1 DEF MoveHead
    <2>3. LinksOut(N, v, z, m, s, i) /\ z \in MapsOf(N, W)
      BY <1>1, UnlinkIs
    <2>4. Chain(N, z, m - 1, t)
      BY <1>1, <2>3, DeleteChain
    <2>5. m - 1 \in Nat /\ Less(m, s, t, x)
      BY <1>1, DeletedIs
    <2>6. m - 1 # 0 /\ 1 \in 1 .. m - 1 /\ 0 \in 0 .. m - 1 /\ 1 - 1 = 0
      BY <1>1, <1>6, <2>5
    <2>7. z.head = t[1]
      BY <2>4, <2>6 DEF Chain
    <2>8. x \notin Listing(m - 1, t)
      BY <2>5 DEF Less
    <2> HIDE DEF t, z, x, m, u
    <2>9. LinksIn(N, z, u, m - 1, t, 0, x)
      BY <1>1, <2>2, <2>3, <2>4, <2>6, <2>7, <2>8, LinkBeforeIs
    <2> QED
      BY <1>3, <1>4, <2>3, <2>6, <2>9, MovedList DEF t, x, m, u
  <1> QED
    BY <1>5, <1>6
------------------------------------------------------------------------------
\* Where ml_map_node_order puts a node that it is given next to s[a].
IsAt(o, g, a, m, i) ==
  /\ o \in {"insert", "lru"} => i = m
  /\ o = "mru" => i = 0
  /\ o = "ascending" => i = IF g THEN a ELSE a - 1
  /\ o = "descending" => i = IF g THEN a - 1 ELSE a

LEMMA OrderPlace ==
  ASSUME NEW N, Names(N), NEW W, NEW v \in MapsOf(N, W), NEW m, NEW s, Chain(N, v, m, s),
         NEW a \in 1 .. m, NEW x \in N, x \notin Listing(m, s), NEW g \in BOOLEAN
  PROVE  \E i \in 0 .. m : /\ LinksIn(N, v, NodeOrder(v, s[a], x, g), m, s, i, x)
                           /\ IsAt(v.order, g, a, m, i)
  <1> DEFINE y == s[a]
  <1>2. /\ m \in Nat /\ m # 0 /\ 1 \in 1 .. m /\ m \in 1 .. m /\ v.head = s[1] /\ v.tail = s[m]
        /\ v.order \in Orderings
    BY DEF Chain, MapsOf
  <1>3. \A i \in 1 .. m : /\ LinksIn(N, v, LinkAfter(v, s[i], x), m, s, i, x)
                          /\ LinksIn(N, v, LinkBefore(v, s[i], x), m, s, i - 1, x)
    BY LinkAfterIs, LinkBeforeIs
  <1>4. \A i \in 1 .. m : i \in 0 .. m /\ i - 1 \in 0 .. m
    BY <1>2
  <1>5. CASE v.order \in {"insert", "lru"}
    <2>1. NodeOrder(v, y, x, g) = LinkAfter(v, s[m], x)
      BY <1>2, <1>5 DEF NodeOrder
    <2>2. IsAt(v.order, g, a, m, m)
      BY <1>5 DEF IsAt
    <2> QED
      BY <1>2, <1>3, <1>4, <2>1, <2>2
  <1>6. CASE v.order = "mru"
    <2>1. NodeOrder(v, y, x, g) = LinkBefore(v, s[1], x) /\ 1 - 1 = 0
      BY <1>2, <1>6 DEF NodeOrder
    <2>2. IsAt(v.order, g, a, m, 0)
      BY <1>6 DEF IsAt
    <2>3. LinksIn(N, v, LinkBefore(v, s[1], x), m, s, 0, x)
      BY <1>2, <1>3, <2>1
    <2> QED
      BY <1>2, <2>1, <2>2, <2>3
  <1>7. CASE (v.order = "ascending" /\ g) \/ (v.order = "descending" /\ ~ g)
    <2>1. NodeOrder(v, y, x, g) = LinkAfter(v, y, x)
      BY <1>7 DEF NodeOrder
    <2>2. IsAt(v.order, g, a, m, a)
      BY <1>7 DEF IsAt
    <2> QED
      BY <1>3, <1>4, <2>1, <2>2
  <1>8. CASE (v.order = "ascending" /\ ~ g) \/ (v.order = "descending" /\ g)
    <2>1. NodeOrder(v, y, x, g) = LinkBefore(v, y, x)
      BY <1>8 DEF NodeOrder
    <2>2. IsAt(v.order, g, a, m, a - 1)
      BY <1>8 DEF IsAt
    <2> QED
      BY <1>3, <1>4, <2>1, <2>2
  <1>9. v.order \in {"insert", "lru"} \/ v.order = "mru" \/ v.order = "ascending"
          \/ v.order = "descending"
    BY <1>2 DEF Orderings
  <1>10. g \/ ~ g
    OBVIOUS
  <1> QED
    BY <1>5, <1>6, <1>7, <1>8, <1>9, <1>10

\* That place in terms of the keys: in a sorted order it is next to one of the neighbours.
Ordered(o, j, k) == IF o = "ascending" THEN j < k ELSE j > k

Close(m, e, a, k) ==
  \A j \in 1 .. m : ~ (e[a] < e[j] /\ e[j] < k) /\ ~ (k < e[j] /\ e[j] < e[a])

Beside(o, m, e, i, k) ==
  \E a \in 1 .. m : /\ Close(m, e, a, k)
                    /\ (i = a /\ Ordered(o, e[a], k)) \/ (i = a - 1 /\ Ordered(o, k, e[a]))

IsPlace(o, m, e, i, k) ==
  m # 0 => /\ o \in {"insert", "lru"} => i = m
           /\ o = "mru" => i = 0
           /\ o \in {"ascending", "descending"} => Beside(o, m, e, i, k)

LEMMA PlaceIs ==
  ASSUME NEW m \in Nat, NEW e \in [1 .. m -> Int], NEW a \in 1 .. m, NEW k \in Int,
         e[a] # k, Close(m, e, a, k), NEW o, NEW i \in 0 .. m, IsAt(o, k > e[a], a, m, i)
  PROVE  IsPlace(o, m, e, i, k)
  <1>1. e[a] \in Int /\ (k > e[a] \/ k < e[a])
    OBVIOUS
  <1>2. CASE o \in {"ascending", "descending"}
    <2>1. (i = a /\ Ordered(o, e[a], k)) \/ (i = a - 1 /\ Ordered(o, k, e[a]))
      <3>1. CASE k > e[a]
        <4>1. (o = "ascending" => i = a) /\ (o = "descending" => i = a - 1)
          BY <3>1 DEF IsAt
        <4>2. e[a] < k
          BY <1>1, <3>1
        <4> QED
          BY <1>2, <3>1, <4>1, <4>2 DEF Ordered
      <3>2. CASE ~ (k > e[a])
        <4>1. (o = "ascending" => i = a - 1) /\ (o = "descending" => i = a)
          BY <3>2 DEF IsAt
        <4>2. k < e[a] /\ e[a] > k
          BY <1>1, <3>2
        <4> QED
          BY <1>2, <4>1, <4>2 DEF Ordered
      <3> QED
        BY <3>1, <3>2
    <2>2. Beside(o, m, e, i, k)
      BY <2>1 DEF Beside
    <2> QED
      BY <1>2, <2>2 DEF IsPlace
  <1>3. CASE o \notin {"ascending", "descending"}
    BY <1>3 DEF IsPlace, IsAt
  <1> QED
    BY <1>2, <1>3

\* A key that the map has not is put in its place.
Enters(N, W, v, T, s, k, new, u) ==
  \E i \in 0 .. v.size : /\ InOrder(N, W, u, T \union {new}, Inserted(v.size, s, i, new))
                         /\ IsPlace(v.order, v.size, KeysIn(v.size, s), i, k)
                         /\ u.size = v.size + 1

LEMMA FirstEnters ==
  ASSUME NEW N, Names(N), NEW W, NEW v, NEW s, InOrder(N, W, v, {}, s), NEW k, NEW new \in N
  PROVE  Enters(N, W, v, {}, s, k, new, Slot(v, k, new))
  <1> DEFINE u == Slot(v, k, new)
             t == Inserted(0, s, 0, new)
  <1>1. Whole(N, W, v, {}) /\ v.size = 0
    BY WholeEmpty DEF InOrder
  <1>2. Whole(N, W, u, {new})
    BY <1>1, SlotFirst
  <1> HIDE DEF u
  <1>3. PICK r : Chain(N, u, u.size, r) /\ Listing(u.size, r) = {new}
    BY <1>2 DEF Whole, ListHas
  <1> DEFINE m == u.size
  <1>4. m \in Nat /\ r \in [1 .. m -> N] /\ Once(m, r) /\ \A j \in 1 .. m : r[j] = new
    BY <1>3 DEF Chain, Listing
  <1>5. m # 0
    BY <1>3 DEF Listing
  <1>6. m < 2
    <2>1. m >= 2 => 1 \in 1 .. m /\ 2 \in 1 .. m
      BY <1>4
    <2> QED
      BY <1>4, <2>1 DEF Once
  <1>7. m = 1
    BY <1>4, <1>5, <1>6
  <1>8. r = t
    <2>1. t = [j \in 1 .. 1 |-> t[j]] /\ \A j \in 1 .. 1 : t[j] = new
      BY DEF Inserted
    <2>2. r = [j \in 1 .. 1 |-> r[j]] /\ \A j \in 1 .. 1 : r[j] = new
      BY <1>4, <1>7
    <2> HIDE DEF t
    <2> QED
      BY <2>1, <2>2
  <1> HIDE DEF m
  <1>9. InOrder(N, W, u, {} \union {new}, t)
    <2>1. {} \union {new} = {new}
      OBVIOUS
    <2> QED
      BY <1>2, <1>3, <1>8, <2>1 DEF InOrder
  <1>10. IsPlace(v.order, 0, KeysIn(0, s), 0, k)
    BY DEF IsPlace
  <1>11. 0 \in 0 .. 0 /\ u.size = 0 + 1
    BY <1>7 DEF m
  <1> QED
    BY <1>1, <1>9, <1>10, <1>11 DEF Enters, u

LEMMA NextEnters ==
  ASSUME NEW N, Names(N), NEW W, NEW v, NEW T, NEW s, InOrder(N, W, v, T, s), NEW k \in Int,
         NEW new \in N, KeyOf(new) = k, WithKey(T, k) = {}, NEW p \in T, NextTo(T, p, k), NEW u,
         OnlyTree(u, Placed(v, p, k, new)), Whole(N, W, u, T \union {new})
  PROVE  Enters(N, W, v, T, s, k, new, u)
  <1> DEFINE z == Entered(v, new)
             q == Placed(v, p, k, new)
             m == v.size
             e == KeysIn(m, s)
  <1>1. /\ v \in MapsOf(N, W) /\ m \in Nat /\ s \in [1 .. m -> N] /\ Once(m, s)
        /\ Chain(N, v, m, s) /\ Listing(m, s) = T
        /\ \A x : x \in T <=> \E i \in 1 .. m : x = s[i]
    BY ListsType
  <1>2. new \notin T /\ v.head # Null /\ v.tail # Null
    BY WholeEmpty DEF WithKey, InOrder
  <1>3. /\ z \in MapsOf(N, W) /\ z.size = m + 1 /\ z.head = v.head /\ z.tail = v.tail
        /\ z.links = v.links /\ z.order = v.order
    BY <1>1, EnteredIs
  <1>4. PICK a \in 1 .. m : p = s[a]
    BY <1>1
  <1> DEFINE g == k > KeyOf(p)
  <1>5. q = NodeOrder(z, s[a], new, g) /\ OnlyList(q, z) /\ g \in BOOLEAN
    BY <1>1, <1>2, <1>4, PlacedIs
  <1>6. e \in [1 .. m -> Int] /\ \A j \in 1 .. m : e[j] = KeyOf(s[j])
    BY ListsKeys
  <1>7. g = (k > e[a]) /\ e[a] # k
    BY <1>1, <1>4, <1>6 DEF WithKey
  <1>8. Close(m, e, a, k)
    BY <1>1, <1>4, <1>6 DEF Close, NextTo
  <1> HIDE DEF z, q, g
  <1>9. Chain(N, z, m, s)
    BY <1>1, <1>3 DEF Chain
  <1> HIDE DEF m, e
  <1>10. PICK i \in 0 .. m : LinksIn(N, z, q, m, s, i, new) /\ IsAt(z.order, g, a, m, i)
    <2>1. new \notin Listing(m, s)
      BY <1>1, <1>2 DEF m
    <2>2. \E i \in 0 .. m : /\ LinksIn(N, z, NodeOrder(z, s[a], new, g), m, s, i, new)
                           /\ IsAt(z.order, g, a, m, i)
      BY <1>3, <1>5, <1>9, <2>1, OrderPlace
    <2> QED
      BY <1>5, <2>2
  <1>11. IsPlace(v.order, m, e, i, k)
    <2>1. IsAt(v.order, k > e[a], a, m, i)
      BY <1>3, <1>7, <1>10
    <2> QED
      BY <1>1, <1>6, <1>7, <1>8, <2>1, PlaceIs
  <1> DEFINE t == Inserted(m, s, i, new)
  <1>12. Chain(N, q, m + 1, t)
    BY <1>1, <1>2, <1>9, <1>10, InsertChain
  <1>13. More(m, s, t, new)
    BY <1>1, <1>2, InsertedIs
  <1> HIDE DEF t
  <1>14. u.size = m + 1 /\ u.links = q.links /\ u.head = q.head /\ u.tail = q.tail
    BY <1>3, <1>5 DEF OnlyList, OnlyTree, q
  <1>15. Chain(N, u, u.size, t) /\ Listing(u.size, t) = T \union {new}
    <2>1. Chain(N, u, m + 1, t)
      BY <1>12, <1>14 DEF Chain
    <2>2. Listing(m + 1, t) = T \union {new}
      BY <1>1, <1>13 DEF More
    <2> QED
      BY <1>14, <2>1, <2>2
  <1>16. InOrder(N, W, u, T \union {new}, t)
    BY <1>15 DEF InOrder
  <1> QED
    BY <1>10, <1>11, <1>14, <1>16 DEF Enters, t, e, m

LEMMA SlotList ==
  ASSUME NEW N, Names(N), NEW W, NEW v, NEW T, NEW s, InOrder(N, W, v, T, s), NEW k \in Int,
         NEW new \in N, KeyOf(new) = k
  PROVE  LET u == Slot(v, k, new)
         IN  /\ WithKey(T, k) # {} => InOrder(N, W, u, T, s) /\ u.size = v.size
             /\ WithKey(T, k) = {} => Enters(N, W, v, T, s, k, new, u)
  <1> DEFINE u == Slot(v, k, new)
  <1>1. Whole(N, W, v, T) /\ v \in MapsOf(N, W) /\ T \in SUBSET N
    BY ListsType
  <1>2. v.n \in Trees(N) /\ IsTree(v.n, T, v.root)
    BY <1>1, WholeType
  <1>3. Whole(N, W, u, Grows(T, k, new))
    BY <1>1, SlotWhole
  <1>4. CASE v.root = Null
    <2>1. T = {}
      BY <1>2, <1>4, EmptyTree
    <2>2. WithKey(T, k) = {}
      BY <2>1 DEF WithKey
    <2>3. Enters(N, W, v, T, s, k, new, u)
      BY <2>1, FirstEnters
    <2> QED
      BY <2>2, <2>3
  <1>5. CASE v.root # Null
    <2>1. u = InsertBelow(v, v.root, k, new)
      BY <1>5 DEF Slot
    <2>2. PICK rank : Ranked(N, v.n, rank)
      BY <1>1, WholeRank
    <2>3. v.head # Null /\ v.tail # Null
      BY <1>1, <1>2, <1>5, TreeTop, WholeEmpty
    <2>4. PutIn(N, W, v, k, new, T, v.root, u)
      BY <1>1, <1>2, <1>5, <2>1, <2>2, <2>3, PutTree
    <2> HIDE DEF u
    <2>5. CASE WithKey(T, k) # {}
      <3>1. OnlyTree(u, v)
        BY <2>4, <2>5 DEF PutIn
      <3>2. Whole(N, W, u, T)
        BY <1>3, <2>5 DEF Grows
      <3>3. /\ u.links = v.links /\ u.head = v.head /\ u.tail = v.tail /\ u.size = v.size
        BY <3>1 DEF OnlyTree
      <3>4. InOrder(N, W, u, T, s)
        BY <3>2, <3>3, ListsSame
      <3> QED
        BY <2>5, <3>3, <3>4 DEF u
    <2>6. CASE WithKey(T, k) = {}
      <3>1. PICK p \in T : OnlyTree(u, Placed(v, p, k, new)) /\ NextTo(T, p, k)
        BY <2>4, <2>6 DEF PutIn
      <3>2. Whole(N, W, u, T \union {new})
        BY <1>3, <2>6 DEF Grows
      <3>3. Enters(N, W, v, T, s, k, new, u)
        BY <2>6, <3>1, <3>2, NextEnters
      <3> QED
        BY <2>6, <3>3 DEF u
    <2> QED
      BY <2>5, <2>6
  <1> QED
    BY <1>4, <1>5

\* The node with a key leaves the map, if there is one.
Leaves(N, W, v, T, s, k, u) ==
  /\ WithKey(T, k) = {} => InOrder(N, W, u, T, s) /\ u.size = v.size
  /\ \A i \in 1 .. v.size : KeyOf(s[i]) = k =>
       InOrder(N, W, u, T \ {s[i]}, Deleted(v.size, s, i)) /\ u.size = v.size - 1

LEMMA RemoveList ==
  ASSUME NEW N, Names(N), NEW W, NEW v, NEW T, NEW s, InOrder(N, W, v, T, s), NEW k \in Int
  PROVE  Leaves(N, W, v, T, s, k, Remove(v, k))
  <1> DEFINE r == RemoveBelow(v.n, v.root, k)
             y == Find(v, k)
             z == RemoveLink(v, y)
             u == Remove(v, k)
             m == v.size
  <1>1. /\ Whole(N, W, v, T) /\ v \in MapsOf(N, W) /\ T \in SUBSET N /\ m \in Nat
        /\ s \in [1 .. m -> N] /\ Once(m, s) /\ Chain(N, v, m, s) /\ Listing(m, s) = T
        /\ \A x : x \in T <=> \E i \in 1 .. m : x = s[i]
    BY ListsType
  <1>2. v.n \in Trees(N) /\ IsTree(v.n, T, v.root)
    BY <1>1, WholeType
  <1>3. Whole(N, W, u, T \ WithKey(T, k))
    BY <1>1, RemoveWhole
  <1>4. CASE v.root = Null
    <2>1. u = v /\ T = {}
      BY <1>2, <1>4, EmptyTree DEF Remove
    <2>2. \A i \in 1 .. m : FALSE
      BY <1>1, <2>1
    <2> QED
      BY <2>1, <2>2 DEF Leaves
  <1>5. CASE v.root # Null
    <2>1. u = [z EXCEPT !.n = r.n, !.root = r.top]
      BY <1>5 DEF Remove
    <2>2. WithKey(T, k) = IF y = Null THEN {} ELSE {y}
      BY <1>1, WholeFind
    <2> HIDE DEF r, y, u
    <2>3. CASE y = Null
      <3>1. z = v
        BY <2>3 DEF RemoveLink
      <3> HIDE DEF z
      <3>2. u.links = v.links /\ u.head = v.head /\ u.tail = v.tail /\ u.size = v.size
        BY <1>1, <2>1, <3>1 DEF MapsOf
      <3>3. WithKey(T, k) = {} /\ Whole(N, W, u, T)
        <4>1. WithKey(T, k) = {}
          BY <2>2, <2>3
        <4>2. T \ WithKey(T, k) = T
          BY <4>1
        <4> QED
          BY <1>3, <4>1, <4>2
      <3>4. InOrder(N, W, u, T, s)
        BY <3>2, <3>3, ListsSame
      <3>5. \A i \in 1 .. m : KeyOf(s[i]) # k
        BY <1>1, <3>3 DEF WithKey
      <3> QED
        BY <3>2, <3>3, <3>4, <3>5 DEF Leaves, u, m
    <2>4. CASE y # Null
      <3>1. WithKey(T, k) = {y} /\ T \ WithKey(T, k) = T \ {y}
        BY <2>2, <2>4
      <3>2. ASSUME NEW i \in 1 .. m, KeyOf(s[i]) = k
            PROVE  InOrder(N, W, u, T \ {s[i]}, Deleted(m, s, i)) /\ u.size = m - 1
        <4> DEFINE t == Deleted(m, s, i)
        <4>1. y = s[i]
          BY <1>1, <3>1, <3>2 DEF WithKey
        <4>2. z \in MapsOf(N, W) /\ z.size = m - 1 /\ Chain(N, z, m - 1, t)
          BY <1>1, <4>1, RemoveLinkIs
        <4>3. Less(m, s, t, y)
          BY <1>1, <4>1, DeletedIs
        <4> HIDE DEF t, z
        <4>4. u.links = z.links /\ u.head = z.head /\ u.tail = z.tail /\ u.size = m - 1
          BY <2>1, <4>2 DEF MapsOf
        <4>5. Chain(N, u, u.size, t) /\ Listing(u.size, t) = T \ {y}
          BY <1>1, <4>2, <4>3, <4>4 DEF Chain, Less
        <4>6. Whole(N, W, u, T \ {y})
          BY <1>3, <3>1
        <4> QED
          BY <4>1, <4>4, <4>5, <4>6 DEF InOrder, t
      <3>3. WithKey(T, k) # {}
        BY <3>1
      <3> QED
        BY <3>2, <3>3 DEF Leaves, u, m
    <2> QED
      BY <2>3, <2>4
  <1> QED
    BY <1>4, <1>5
------------------------------------------------------------------------------
(* What ordered maps promise, in the same terms.                             *)

\* n keys f are the m keys e without k, if k is one of them.
WithoutKey(m, e, k, n, f) ==
  /\ (\A j \in 1 .. m : e[j] # k) => f = e /\ n = m
  /\ \A j \in 1 .. m : e[j] = k => f = Deleted(m, e, j) /\ n = m - 1

\* Key k is there, or is put in its place for order o.
EntersKey(o, m, e, k, n, f) ==
  /\ (\E j \in 1 .. m : e[j] = k) => f = e /\ n = m
  /\ (\A j \in 1 .. m : e[j] # k) =>
       \E i \in 0 .. m : f = Inserted(m, e, i, k) /\ IsPlace(o, m, e, i, k) /\ n = m + 1

\* e are m keys.
Different(m, e) == m \in Nat /\ e \in [1 .. m -> Int] /\ Once(m, e)

LEMMA WithoutKeyExists ==
  ASSUME NEW m, NEW e, Different(m, e), NEW k
  PROVE  \E n \in Nat : \E f \in [1 .. n -> Int] : WithoutKey(m, e, k, n, f)
  <1>1. m \in Nat /\ e \in [1 .. m -> Int]
    BY DEF Different
  <1>2. CASE \A j \in 1 .. m : e[j] # k
    BY <1>1, <1>2 DEF WithoutKey
  <1>3. ASSUME NEW j \in 1 .. m, e[j] = k
        PROVE  \E n \in Nat : \E f \in [1 .. n -> Int] : WithoutKey(m, e, k, n, f)
    <2> DEFINE f == Deleted(m, e, j)
    <2>1. m - 1 \in Nat /\ f \in [1 .. m - 1 -> Int]
      BY <1>1, KeyDeleted
    <2>2. \A l \in 1 .. m : e[l] = k => l = j
      BY <1>3 DEF Different, Once
    <2>3. \A l \in 1 .. m : e[l] = k => f = Deleted(m, e, l)
      BY <2>2
    <2> HIDE DEF f
    <2>4. WithoutKey(m, e, k, m - 1, f)
      BY <1>3, <2>3 DEF WithoutKey
    <2> QED
      BY <2>1, <2>4
  <1> QED
    BY <1>2, <1>3

\* What is put in and taken out again.
LEMMA EnteredWithout ==
  ASSUME NEW o, NEW m, NEW e, Different(m, e), NEW k \in Int, NEW n, NEW f, EntersKey(o, m, e, k, n, f),
         Once(n, f), NEW i \in 1 .. n, f[i] = k
  PROVE  WithoutKey(m, e, k, n - 1, Deleted(n, f, i))
  <1>1. m \in Nat /\ e \in [1 .. m -> Int]
    BY DEF Different
  <1>2. CASE \A j \in 1 .. m : e[j] # k
    <2>1. PICK p \in 0 .. m : f = Inserted(m, e, p, k) /\ n = m + 1
      BY <1>2 DEF EntersKey
    <2>2. p + 1 \in 1 .. n /\ f[p + 1] = k /\ (m + 1) - 1 = m
      <3>1. p + 1 \in 1 .. m + 1 /\ ~ (p + 1 <= p) /\ (m + 1) - 1 = m
        BY <1>1
      <3>2. Inserted(m, e, p, k)[p + 1] = k
        BY <3>1 DEF Inserted
      <3> QED
        BY <2>1, <3>1, <3>2
    <2>3. i = p + 1
      BY <2>2 DEF Once
    <2>4. Deleted(m + 1, Inserted(m, e, p, k), p + 1) = e
      BY <1>1, DeleteInserted
    <2> QED
      BY <1>2, <2>1, <2>2, <2>3, <2>4 DEF WithoutKey
  <1>3. CASE \E j \in 1 .. m : e[j] = k
    <2>1. f = e /\ n = m
      BY <1>3 DEF EntersKey
    <2>2. \A j \in 1 .. m : e[j] = k => j = i
      BY <2>1 DEF Once
    <2> QED
      BY <1>3, <2>1, <2>2 DEF WithoutKey
  <1> QED
    BY <1>2, <1>3

\* The operators of the abstract map, of the keys that the map lists.
LEMMA AbsHolds ==
  ASSUME NEW m, Different(m, ListedKeys)
  PROVE  /\ DOMAIN ListedKeys = 1 .. m /\ Len(ListedKeys) = m
         /\ \A k : Abstract!Holds(k) <=> \E j \in 1 .. m : ListedKeys[j] = k
  <1>1. DOMAIN ListedKeys = 1 .. m /\ Len(ListedKeys) = m
    BY IsSequence DEF Different
  <1> QED
    BY <1>1 DEF Abstract!Holds

LEMMA AbsOthers ==
  ASSUME NEW m, NEW e, ListedKeys = e, Different(m, e), NEW k, NEW n, NEW f, WithoutKey(m, e, k, n, f)
  PROVE  Abstract!Others(k) = f
  <1>1. /\ DOMAIN e = 1 .. m /\ Len(e) = m /\ m \in Nat /\ e \in [1 .. m -> Int]
        /\ Abstract!Holds(k) <=> \E j \in 1 .. m : e[j] = k
    BY AbsHolds DEF Different
  <1>2. CASE \A j \in 1 .. m : e[j] # k
    BY <1>1, <1>2 DEF WithoutKey, Abstract!Others
  <1>3. CASE \E j \in 1 .. m : e[j] = k
    <2> DEFINE i == CHOOSE j \in DOMAIN e : e[j] = k
    <2>1. i \in 1 .. m /\ e[i] = k
      BY <1>1, <1>3
    <2>2. Abstract!Others(k) = SubSeq(e, 1, i - 1) \o SubSeq(e, i + 1, Len(e))
      BY <1>1, <1>3 DEF Abstract!Others
    <2> HIDE DEF i
    <2>3. f = Deleted(m, e, i)
      BY <2>1 DEF WithoutKey
    <2> QED
      BY <1>1, <2>1, <2>2, <2>3, Around
  <1> QED
    BY <1>2, <1>3

LEMMA AbsNeighbour ==
  ASSUME NEW m, NEW e, ListedKeys = e, Different(m, e), NEW k \in Int, NEW a \in 1 .. m, Close(m, e, a, k),
         map.order \in {"ascending", "descending"}
  PROVE  Abstract!Neighbour(a, k)
  <1>1. DOMAIN e = 1 .. m /\ e \in [1 .. m -> Int]
    BY AbsHolds DEF Different
  <1>2. ASSUME NEW j \in 1 .. m
        PROVE  ~ ((Abstract!Before(k, e[j]) /\ Abstract!Before(e[j], e[a]))
                   \/ (Abstract!Before(e[j], k) /\ Abstract!Before(e[a], e[j])))
    <2>1. e[a] \in Int /\ e[j] \in Int
      BY <1>1
    <2>2. ~ (e[a] < e[j] /\ e[j] < k) /\ ~ (k < e[j] /\ e[j] < e[a])
      BY DEF Close
    <2>3. CASE map.order = "ascending"
      <3>1. \A x, y : Abstract!Before(x, y) <=> x < y
        BY <2>3 DEF Abstract!Before
      <3> QED
        BY <2>2, <3>1
    <2>4. CASE map.order = "descending"
      <3>1. \A x, y : Abstract!Before(x, y) <=> x > y
        BY <2>4 DEF Abstract!Before
      <3> QED
        BY <2>1, <2>2, <3>1
    <2> QED
      BY <2>3, <2>4
  <1> QED
    BY <1>1, <1>2 DEF Abstract!Neighbour

LEMMA AbsPlaced ==
  ASSUME NEW m, NEW e, ListedKeys = e, Different(m, e), NEW k \in Int, map.order \in Orderings,
         NEW i \in 0 .. m, IsPlace(map.order, m, e, i, k)
  PROVE  Inserted(m, e, i, k) \in Abstract!Placed(k)
  <1> DEFINE f == Inserted(m, e, i, k)
             o == map.order
  <1>1. DOMAIN e = 1 .. m /\ Len(e) = m /\ m \in Nat /\ e \in [1 .. m -> Int]
    BY AbsHolds DEF Different
  <1>2. m = 0 => i = m /\ i = 0
    BY <1>1
  <1>3. CASE o \in {"insert", "lru"}
    <2>1. i = m
      BY <1>2, <1>3 DEF IsPlace
    <2>2. f = Append(e, k)
      BY <1>1, <2>1, Appended
    <2> QED
      BY <1>3, <2>2 DEF Abstract!Placed
  <1>4. CASE o = "mru"
    <2>1. i = 0
      BY <1>2, <1>4 DEF IsPlace
    <2>2. f = <<k>> \o e
      BY <1>1, <2>1, Prepended
    <2> QED
      BY <1>4, <2>2 DEF Abstract!Placed
  <1>5. CASE o \in {"ascending", "descending"} /\ m = 0
    <2>1. e = <<>> /\ f = <<>> \o <<k>>
      <3>1. e = <<>>
        BY <1>1, <1>5
      <3>2. f = <<k>> \o e
        BY <1>1, <1>2, <1>5, Prepended
      <3> QED
        BY <3>1, <3>2
    <2>2. f = <<k>>
      BY <2>1
    <2> QED
      BY <1>5, <2>1, <2>2 DEF Abstract!Placed
  <1>6. CASE o \in {"ascending", "descending"} /\ m # 0
    <2> DEFINE P(p) == \/ p > 0 /\ Abstract!Neighbour(p, k) /\ Abstract!Before(e[p], k)
                       \/ p < m /\ Abstract!Neighbour(p + 1, k) /\ Abstract!Before(k, e[p + 1])
               Q(p) == SubSeq(e, 1, p) \o <<k>> \o SubSeq(e, p + 1, Len(e))
    <2>1. e # <<>>
      BY <1>1, <1>6
    <2>2. Abstract!Placed(k) = {Q(p) : p \in {l \in 0 .. m : P(l)}}
      <3>1. o \notin {"insert", "lru"} /\ o # "mru"
        BY <1>6
      <3> QED
        BY <1>1, <2>1, <3>1 DEF Abstract!Placed
    <2>3. P(i)
      <3>1. PICK a \in 1 .. m :
              /\ Close(m, e, a, k)
              /\ (i = a /\ Ordered(o, e[a], k)) \/ (i = a - 1 /\ Ordered(o, k, e[a]))
        BY <1>6 DEF IsPlace, Beside
      <3>2. Abstract!Neighbour(a, k)
        BY <1>6, <3>1, AbsNeighbour
      <3>3. \A x, y : Ordered(o, x, y) => Abstract!Before(x, y)
        BY <1>6 DEF Ordered, Abstract!Before
      <3>4. a > 0 /\ a - 1 < m /\ (a - 1) + 1 = a
        BY <1>1
      <3> QED
        BY <3>1, <3>2, <3>3, <3>4
    <2>4. Q(i) = f
      BY <1>1, Between
    <2> HIDE DEF P, Q, f
    <2> QED
      BY <2>2, <2>3, <2>4 DEF f
  <1> QED
    BY <1>3, <1>4, <1>5, <1>6 DEF Orderings
------------------------------------------------------------------------------
(* The keys of the list of a map, under the functions of ml_map.c.           *)

SameList(u, v) == u.links = v.links /\ u.head = v.head /\ u.tail = v.tail /\ u.size = v.size

SameKeys(u, v) == EntriesOf(u) = EntriesOf(v) /\ u.size = v.size /\ u.order = v.order

LEMMA EntriesAre ==
  ASSUME NEW N, Names(N), NEW W, NEW v, NEW T, Whole(N, W, v, T)
  PROVE  Different(v.size, EntriesOf(v))
  <1>1. PICK s : InOrder(N, W, v, T, s)
    BY ListsExist
  <1>2. v.size \in Nat
    BY <1>1, ListsType
  <1>3. /\ EntriesOf(v) = KeysIn(v.size, s) /\ KeysIn(v.size, s) \in [1 .. v.size -> Int]
        /\ Once(v.size, KeysIn(v.size, s))
    BY <1>1, ListsKeys
  <1> QED
    BY <1>2, <1>3 DEF Different

LEMMA EntriesSame ==
  ASSUME NEW N, Names(N), NEW W, NEW v, NEW T, Whole(N, W, v, T), NEW u, Whole(N, W, u, T),
         SameList(u, v)
  PROVE  EntriesOf(u) = EntriesOf(v) /\ u.size = v.size
  <1>1. PICK s : InOrder(N, W, v, T, s)
    BY ListsExist
  <1>2. InOrder(N, W, u, T, s) /\ u.size = v.size
    BY <1>1, ListsSame DEF SameList
  <1>3. EntriesOf(v) = KeysIn(v.size, s)
    BY <1>1, ListsKeys
  <1>4. EntriesOf(u) = KeysIn(u.size, s)
    BY <1>2, ListsKeys
  <1> QED
    BY <1>2, <1>3, <1>4

LEMMA ValuesEntries ==
  ASSUME NEW N, Names(N), NEW W, NEW v, NEW T, Whole(N, W, v, T), NEW f \in [N -> W]
  PROVE  SameKeys([v EXCEPT !.value = f], v)
  <1> DEFINE u == [v EXCEPT !.value = f]
  <1>1. Whole(N, W, u, T) /\ SameShape(u, v) /\ u.order = v.order
    BY ValuesWhole
  <1> HIDE DEF u
  <1>2. SameList(u, v)
    BY <1>1 DEF SameShape, SameList
  <1>3. EntriesOf(u) = EntriesOf(v) /\ u.size = v.size
    BY <1>1, <1>2, EntriesSame
  <1> QED
    BY <1>1, <1>3 DEF SameKeys, u

LEMMA SetValueEntries ==
  ASSUME NEW N, Names(N), NEW W, NEW v, NEW T, Whole(N, W, v, T), NEW k, NEW a \in W
  PROVE  SameKeys(SetValue(v, k, a), v)
  <1> DEFINE f == [v.value EXCEPT ![Find(v, k)] = a]
  <1>1. v.value \in [N -> W]
    BY WholeType
  <1>2. f \in [N -> W]
    BY <1>1
  <1>3. SetValue(v, k, a) = [v EXCEPT !.value = f]
    BY DEF SetValue
  <1> HIDE DEF f
  <1> QED
    BY <1>2, <1>3, ValuesEntries

LEMMA SetValueFinds ==
  ASSUME NEW N, Names(N), NEW W, NEW v, NEW T, Whole(N, W, v, T), NEW k, NEW a \in W
  PROVE  Whole(N, W, SetValue(v, k, a), T) /\ Find(SetValue(v, k, a), k) = Find(v, k)
  <1> DEFINE f == [v.value EXCEPT ![Find(v, k)] = a]
             u == SetValue(v, k, a)
  <1>1. v.value \in [N -> W]
    BY WholeType
  <1>2. f \in [N -> W]
    BY <1>1
  <1>3. u = [v EXCEPT !.value = f]
    BY DEF SetValue
  <1> HIDE DEF f, u
  <1>4. Whole(N, W, u, T) /\ SameShape(u, v)
    BY <1>2, <1>3, ValuesWhole
  <1>5. Find(u, k) = Find(v, k)
    BY <1>4 DEF SameShape, Find
  <1> QED
    BY <1>4, <1>5 DEF u

LEMMA ForgetEntries ==
  ASSUME NEW N, Names(N), NEW W, NEW v, NEW T, Whole(N, W, v, T), NEW held, "null" \in W
  PROVE  SameKeys(Forget(v, held), v)
  <1> DEFINE f == [x \in DOMAIN v.value |-> IF InMap(v, x) \/ x \in held \union Pending(v)
                                            THEN v.value[x] ELSE "null"]
  <1>1. v.value \in [N -> W]
    BY WholeType
  <1>2. f \in [N -> W]
    BY <1>1
  <1>3. Forget(v, held) = [v EXCEPT !.value = f]
    BY DEF Forget
  <1> HIDE DEF f
  <1> QED
    BY <1>2, <1>3, ValuesEntries

LEMMA PendingEntries ==
  ASSUME NEW N, Names(N), NEW W, NEW v, NEW T, Whole(N, W, v, T), NEW q \in Seq(N)
  PROVE  SameKeys([v EXCEPT !.pending = q], v)
  <1> DEFINE u == [v EXCEPT !.pending = q]
  <1>1. v \in MapsOf(N, W)
    BY WholeType
  <1>2. SameList(u, v) /\ u.order = v.order
    BY <1>1 DEF MapsOf, SameList
  <1>3. Whole(N, W, u, T)
    BY PendingWhole
  <1> HIDE DEF u
  <1>4. EntriesOf(u) = EntriesOf(v) /\ u.size = v.size
    BY <1>2, <1>3, EntriesSame
  <1> QED
    BY <1>2, <1>4 DEF SameKeys, u

LEMMA OrderEntries ==
  ASSUME NEW N, Names(N), NEW W, NEW v, NEW T, Whole(N, W, v, T), NEW o \in Orderings
  PROVE  LET u == [v EXCEPT !.order = o] IN EntriesOf(u) = EntriesOf(v) /\ u.order = o
  <1> DEFINE u == [v EXCEPT !.order = o]
  <1>1. v \in MapsOf(N, W)
    BY WholeType
  <1>2. u \in MapsOf(N, W) /\ SameShape(u, v) /\ u.order = o
    BY <1>1 DEF MapsOf, SameShape
  <1> HIDE DEF u
  <1>3. Whole(N, W, u, T) /\ SameList(u, v)
    BY <1>2, ShapeWhole DEF SameShape, SameList
  <1>4. EntriesOf(u) = EntriesOf(v)
    BY <1>3, EntriesSame
  <1> QED
    BY <1>2, <1>4 DEF u

LEMMA EmptyEntries ==
  ASSUME NEW N, Names(N), NEW W, NEW v, Whole(N, W, v, {})
  PROVE  EntriesOf(v) = <<>>
  <1>1. v.size = 0
    BY WholeEmpty
  <1>2. EntriesOf(v) \in [1 .. 0 -> Int]
    BY <1>1, EntriesAre DEF Different
  <1> QED
    BY <1>2

LEMMA SlotEntries ==
  ASSUME NEW N, Names(N), NEW W, NEW v, NEW T, Whole(N, W, v, T), NEW k \in Int, NEW new \in N,
         KeyOf(new) = k
  PROVE  LET u == Slot(v, k, new)
         IN  EntersKey(v.order, v.size, EntriesOf(v), k, u.size, EntriesOf(u))
  <1> DEFINE u == Slot(v, k, new)
             m == v.size
  <1>1. PICK s : InOrder(N, W, v, T, s)
    BY ListsExist
  <1> DEFINE e == KeysIn(m, s)
  <1>2. EntriesOf(v) = e /\ \A j \in 1 .. m : e[j] = KeyOf(s[j])
    BY <1>1, ListsKeys
  <1>3. m \in Nat /\ \A x : x \in T <=> \E j \in 1 .. m : x = s[j]
    BY <1>1, ListsType
  <1>4. /\ WithKey(T, k) # {} => InOrder(N, W, u, T, s) /\ u.size = m
        /\ WithKey(T, k) = {} => Enters(N, W, v, T, s, k, new, u)
    BY <1>1, SlotList
  <1> HIDE DEF u, e
  <1>5. CASE WithKey(T, k) # {}
    <2>1. EntriesOf(u) = e /\ u.size = m
      BY <1>4, <1>5, ListsKeys DEF e
    <2>2. \E j \in 1 .. m : e[j] = k
      BY <1>2, <1>3, <1>5 DEF WithKey
    <2> QED
      BY <1>2, <2>1, <2>2 DEF EntersKey, u
  <1>6. CASE WithKey(T, k) = {}
    <2>1. PICK i \in 0 .. m : /\ InOrder(N, W, u, T \union {new}, Inserted(m, s, i, new))
                              /\ IsPlace(v.order, m, e, i, k) /\ u.size = m + 1
      BY <1>4, <1>6 DEF Enters, e
    <2>2. EntriesOf(u) = KeysIn(m + 1, Inserted(m, s, i, new))
      BY <2>1, ListsKeys
    <2>3. EntriesOf(u) = Inserted(m, e, i, k)
      BY <1>3, <2>2, KeysOfInserted DEF e
    <2>4. \A j \in 1 .. m : e[j] # k
      BY <1>2, <1>3, <1>6 DEF WithKey
    <2> QED
      BY <1>2, <2>1, <2>3, <2>4 DEF EntersKey, u
  <1> QED
    BY <1>5, <1>6

\* The key of a node that has moved is last, or first.
MovedKey(m, e, k, l, f) ==
  \E i \in 1 .. m : e[i] = k /\ f = Inserted(m - 1, Deleted(m, e, i), l, k)

LEMMA MoveEntries ==
  ASSUME NEW N, Names(N), NEW W, NEW v, NEW T, Whole(N, W, v, T), NEW x \in T
  PROVE  /\ MovedKey(v.size, EntriesOf(v), KeyOf(x), v.size - 1, EntriesOf(MoveTail(v, x)))
         /\ MovedKey(v.size, EntriesOf(v), KeyOf(x), 0, EntriesOf(MoveHead(v, x)))
         /\ MoveTail(v, x).size = v.size /\ MoveHead(v, x).size = v.size
  <1> DEFINE m == v.size
             k == KeyOf(x)
             a == MoveTail(v, x)
             b == MoveHead(v, x)
  <1>1. PICK s : InOrder(N, W, v, T, s)
    BY ListsExist
  <1> DEFINE e == KeysIn(m, s)
  <1>2. EntriesOf(v) = e /\ \A j \in 1 .. m : e[j] = KeyOf(s[j])
    BY <1>1, ListsKeys
  <1>3. m \in Nat /\ \A y : y \in T <=> \E j \in 1 .. m : y = s[j]
    BY <1>1, ListsType
  <1>4. PICK i \in 1 .. m : x = s[i]
    BY <1>3
  <1> DEFINE t == Deleted(m, s, i)
  <1>5. /\ InOrder(N, W, a, T, Inserted(m - 1, t, m - 1, x)) /\ a.size = m
        /\ InOrder(N, W, b, T, Inserted(m - 1, t, 0, x)) /\ b.size = m
    BY <1>1, <1>4, MoveTailList, MoveHeadList
  <1> HIDE DEF a, b, e, k
  <1>6. /\ EntriesOf(a) = KeysIn(m, Inserted(m - 1, t, m - 1, x))
        /\ EntriesOf(b) = KeysIn(m, Inserted(m - 1, t, 0, x))
    BY <1>5, ListsKeys
  <1>7. KeysIn(m - 1, t) = Deleted(m, e, i)
    BY <1>3, KeysOfDeleted DEF e
  <1>8. m - 1 \in Nat /\ m - 1 \in 0 .. m - 1 /\ 0 \in 0 .. m - 1 /\ (m - 1) + 1 = m
    BY <1>3
  <1> HIDE DEF t, m
  <1>9. \A l \in 0 .. m - 1 :
          KeysIn(m, Inserted(m - 1, t, l, x)) = Inserted(m - 1, Deleted(m, e, i), l, k)
    BY <1>7, <1>8, KeysOfInserted DEF k
  <1>10. e[i] = k
    BY <1>2, <1>4 DEF k
  <1>11. MovedKey(m, e, k, m - 1, EntriesOf(a)) /\ MovedKey(m, e, k, 0, EntriesOf(b))
    BY <1>6, <1>8, <1>9, <1>10 DEF MovedKey
  <1> QED
    BY <1>2, <1>5, <1>11 DEF a, b, k, m

LEMMA RemoveEntries ==
  ASSUME NEW N, Names(N), NEW W, NEW v, NEW T, Whole(N, W, v, T), NEW k \in Int
  PROVE  LET u == Remove(v, k)
         IN  WithoutKey(v.size, EntriesOf(v), k, u.size, EntriesOf(u))
  <1> DEFINE u == Remove(v, k)
             m == v.size
  <1>1. PICK s : InOrder(N, W, v, T, s)
    BY ListsExist
  <1> DEFINE e == KeysIn(m, s)
  <1>2. EntriesOf(v) = e /\ \A j \in 1 .. m : e[j] = KeyOf(s[j])
    BY <1>1, ListsKeys
  <1>3. m \in Nat /\ \A y : y \in T <=> \E j \in 1 .. m : y = s[j]
    BY <1>1, ListsType
  <1>4. Leaves(N, W, v, T, s, k, u)
    BY <1>1, RemoveList
  <1> HIDE DEF u, e
  <1>5. ASSUME \A j \in 1 .. m : e[j] # k
        PROVE  EntriesOf(u) = e /\ u.size = m
    <2>1. WithKey(T, k) = {}
      BY <1>2, <1>3, <1>5 DEF WithKey
    <2> QED
      BY <1>4, <2>1, ListsKeys DEF Leaves, e
  <1>6. ASSUME NEW j \in 1 .. m, e[j] = k
        PROVE  EntriesOf(u) = Deleted(m, e, j) /\ u.size = m - 1
    <2>1. InOrder(N, W, u, T \ {s[j]}, Deleted(m, s, j)) /\ u.size = m - 1
      BY <1>2, <1>4, <1>6 DEF Leaves
    <2>2. EntriesOf(u) = KeysIn(m - 1, Deleted(m, s, j))
      BY <2>1, ListsKeys
    <2> QED
      BY <1>3, <2>1, <2>2, KeysOfDeleted DEF e
  <1> QED
    BY <1>2, <1>5, <1>6 DEF WithoutKey, u, m
------------------------------------------------------------------------------
(* The refinement: what each action does to the keys in the order of iteration, *)
(* and what an ordered map may do.                                             *)

LEMMA MapIsWhole ==
  ASSUME MapInv
  PROVE  /\ \E T : Whole(Nodes, Values, map, T)
         /\ Names(Nodes) /\ bound \in Bounds /\ Different(map.size, EntriesOf(map))
         /\ ListedKeys = EntriesOf(map) /\ map.order \in Orderings
         /\ bound.keys \subseteq Int /\ bound.keys \subseteq Keys /\ bound.orders \subseteq Orders
         /\ bound.orders \subseteq Orderings /\ "null" \in Values /\ "value" \in Values
  <1>1. PICK T : Whole(Nodes, Values, map, T)
    BY DEF MapInv, Sound
  <1>2. /\ bound \in Bounds /\ Names(Nodes) /\ bound.keys \subseteq Int
        /\ bound.orders \subseteq Orderings
    BY KeysAre DEF MapInv
  <1>3. map.order \in Orderings
    BY <1>1, WholeType DEF MapsOf
  <1>4. Different(map.size, EntriesOf(map))
    BY <1>1, <1>2, EntriesAre
  <1>5. bound.keys \subseteq Keys /\ bound.orders \subseteq Orders
    BY <1>2 DEF Keys, Orders
  <1>6. ListedKeys = EntriesOf(map)
    BY DEF ListedKeys, Listed, EntriesOf
  <1>7. "null" \in Values /\ "value" \in Values
    BY DEF Values
  <1> QED
    BY <1>1, <1>2, <1>3, <1>4, <1>5, <1>6, <1>7

LEMMA NextKeys == ListedKeys' = EntriesOf(map')
  BY DEF ListedKeys, Listed, EntriesOf

\* The steps of the abstract map, in terms of the next map.
LEMMA ShowsInsert ==
  ASSUME MapInv, NEW k \in bound.keys, NEW n, map'.order = map.order,
         EntersKey(map.order, map.size, EntriesOf(map), k, n, EntriesOf(map'))
  PROVE  Abstract!Insert(k)
  <1> DEFINE m == map.size
             e == EntriesOf(map)
             f == EntriesOf(map')
  <1>1. /\ ListedKeys = e /\ Different(m, e) /\ map.order \in Orderings /\ k \in Int /\ k \in Keys
    BY MapIsWhole
  <1>2. ListedKeys' = f
    BY NextKeys
  <1> HIDE DEF e, f, m
  <1>3. Abstract!Holds(k) <=> \E j \in 1 .. m : e[j] = k
    BY <1>1, AbsHolds
  <1>4. EntersKey(map.order, m, e, k, n, f)
    BY DEF e, f, m
  <1>5. CASE \E j \in 1 .. m : e[j] = k
    <2>1. f = e
      BY <1>4, <1>5 DEF EntersKey
    <2> QED
      BY <1>1, <1>2, <1>3, <1>5, <2>1 DEF Abstract!Insert
  <1>6. CASE \A j \in 1 .. m : e[j] # k
    <2>1. PICK i \in 0 .. m : f = Inserted(m, e, i, k) /\ IsPlace(map.order, m, e, i, k)
      BY <1>4, <1>6 DEF EntersKey
    <2>2. f \in Abstract!Placed(k)
      BY <1>1, <2>1, AbsPlaced
    <2> QED
      BY <1>2, <1>3, <1>6, <2>2 DEF Abstract!Insert
  <1> QED
    BY <1>5, <1>6

LEMMA ShowsDelete ==
  ASSUME MapInv, NEW k \in bound.keys, NEW n, map'.order = map.order,
         WithoutKey(map.size, EntriesOf(map), k, n, EntriesOf(map'))
  PROVE  Abstract!Delete(k)
  <1>1. ListedKeys = EntriesOf(map) /\ Different(map.size, EntriesOf(map)) /\ k \in Keys
    BY MapIsWhole
  <1>2. Abstract!Others(k) = EntriesOf(map')
    BY <1>1, AbsOthers
  <1> QED
    BY <1>2, NextKeys DEF Abstract!Delete

LEMMA ShowsEnds ==
  ASSUME MapInv, NEW k \in bound.keys, NEW n \in Nat, NEW f \in [1 .. n -> Int],
         map'.order = map.order, WithoutKey(map.size, EntriesOf(map), k, n, f)
  PROVE  /\ EntriesOf(map') = Inserted(n, f, n, k) => Abstract!ToBack(k)
         /\ EntriesOf(map') = Inserted(n, f, 0, k) => Abstract!ToFront(k)
  <1>1. ListedKeys = EntriesOf(map) /\ Different(map.size, EntriesOf(map)) /\ k \in Int
    BY MapIsWhole
  <1>2. Abstract!Others(k) = f
    BY <1>1, AbsOthers
  <1>3. Append(f, k) = Inserted(n, f, n, k) /\ <<k>> \o f = Inserted(n, f, 0, k)
    BY <1>1, Appended, Prepended
  <1>4. ListedKeys' = EntriesOf(map')
    BY NextKeys
  <1>5. EntriesOf(map') = Inserted(n, f, n, k) => Abstract!ToBack(k)
    BY <1>2, <1>3, <1>4 DEF Abstract!ToBack
  <1>6. EntriesOf(map') = Inserted(n, f, 0, k) => Abstract!ToFront(k)
    BY <1>2, <1>3, <1>4 DEF Abstract!ToFront
  <1> QED
    BY <1>5, <1>6

LEMMA ShowsEmpty ==
  ASSUME EntriesOf(map') = <<>>, map'.order = map.order
  PROVE  Abstract!Empty
  BY NextKeys DEF Abstract!Empty

LEMMA ShowsNothing ==
  ASSUME MapInv, SameKeys(map', map)
  PROVE  UNCHANGED Abstract!vars
  <1>1. ListedKeys' = ListedKeys /\ map'.order = map.order
    BY MapIsWhole, NextKeys DEF SameKeys
  <1> QED
    BY <1>1 DEF Abstract!vars

LEMMA KeysChain ==
  ASSUME NEW u, NEW v, NEW w, SameKeys(u, v), SameKeys(v, w)
  PROVE  SameKeys(u, w)
  BY DEF SameKeys

\* The node of a key that is looked up or set.
LEMMA NodeEntries ==
  ASSUME MapInv, NEW k \in bound.keys, HasNode(k)
  PROVE  /\ EntersKey(map.order, map.size, EntriesOf(map), k, Node(k).size, EntriesOf(Node(k)))
         /\ Node(k).order = map.order
  <1> DEFINE N == Nodes
             new == IF Find(map, k) # Null THEN Find(map, k) ELSE New(k)
  <1>1. PICK T : Whole(N, Values, map, T)
    BY MapIsWhole
  <1>2. Names(N) /\ k \in Int /\ bound \in Bounds
    BY MapIsWhole
  <1>3. /\ Find(map, k) \in WithKey(T, k) \union {Null} /\ T \subseteq N
    BY <1>1, <1>2, WholeFind, WholeType
  <1>4. new \in N /\ KeyOf(new) = k
    <2>1. CASE Find(map, k) # Null
      BY <1>3, <2>1 DEF WithKey
    <2>2. CASE Find(map, k) = Null
      <3>1. Free(k) # {}
        BY <2>2 DEF HasNode
      <3> QED
        BY <1>2, <2>2, <3>1, NewIs
    <2> QED
      BY <2>1, <2>2
  <1>5. Node(k) = Slot(map, k, new)
    BY DEF Node
  <1> HIDE DEF new, N
  <1>6. Node(k).order = map.order
    BY <1>1, <1>2, <1>4, <1>5, SlotWhole DEF Else
  <1>7. EntersKey(map.order, map.size, EntriesOf(map), k, Node(k).size, EntriesOf(Node(k)))
    <2> DEFINE u == Slot(map, k, new)
    <2>1. EntersKey(map.order, map.size, EntriesOf(map), k, u.size, EntriesOf(u))
      BY <1>1, <1>2, <1>4, SlotEntries
    <2> QED
      BY <1>5, <2>1
  <1> QED
    BY <1>6, <1>7

LEMMA NodeWhole ==
  ASSUME MapInv, NEW k \in bound.keys, HasNode(k), NEW a \in Values
  PROVE  LET v == SetValue(Node(k), k, a)
         IN  /\ SameKeys(v, Node(k))
             /\ \E M : Whole(Nodes, Values, v, M) /\ Find(v, k) \in M /\ KeyOf(Find(v, k)) = k
  <1> DEFINE v == SetValue(Node(k), k, a)
  <1>1. PICK T : Whole(Nodes, Values, map, T)
    BY MapIsWhole
  <1>2. Names(Nodes) /\ k \in Int /\ bound \in Bounds
    BY MapIsWhole
  <1>3. PICK M : Whole(Nodes, Values, Node(k), M) /\ Find(Node(k), k) \in M
    BY <1>1, <1>2, NodeIs
  <1>4. Whole(Nodes, Values, v, M) /\ Find(v, k) = Find(Node(k), k)
    BY <1>2, <1>3, SetValueFinds
  <1>5. SameKeys(v, Node(k))
    BY <1>2, <1>3, SetValueEntries
  <1>6. Find(Node(k), k) \in WithKey(M, k) \union {Null} /\ Null \notin M
    <2>1. M \subseteq Nodes /\ Null \notin Nodes
      BY <1>2, <1>3, WholeType, NodesAre
    <2> QED
      BY <1>2, <1>3, <2>1, WholeFind
  <1>7. KeyOf(Find(Node(k), k)) = k
    BY <1>3, <1>6 DEF WithKey
  <1> HIDE DEF v
  <1> QED
    BY <1>3, <1>4, <1>5, <1>7 DEF v

\* A key is looked up or set: an insertion.
LEMMA InsertShown ==
  ASSUME MapInv, NEW k \in bound.keys, HasNode(k), SameKeys(map', Node(k))
  PROVE  Abstract!Insert(k)
  <1>1. /\ EntersKey(map.order, map.size, EntriesOf(map), k, Node(k).size, EntriesOf(map'))
        /\ map'.order = map.order
    BY NodeEntries DEF SameKeys
  <1> QED
    BY <1>1, ShowsInsert

LEMMA NodeSame ==
  ASSUME NEW v
  PROVE  SameKeys(v, v)
  BY DEF SameKeys

LEMMA CallShown ==
  ASSUME MapInv, NEW k \in bound.keys,
         MapInsert(k) \/ \E c \in Callers : IndexCall(c, k) \/ MissingCall(c, k)
  PROVE  Abstract!Insert(k)
  <1>1. HasNode(k)
    BY DEF MapInsert, IndexCall, MissingCall
  <1>2. \A a \in Values : SameKeys(SetValue(Node(k), k, a), Node(k))
    BY <1>1, NodeWhole
  <1>3. map' = Node(k) \/ \E a \in Values : map' = SetValue(Node(k), k, a)
    <2>1. "value" \in Values /\ "nil" \in Values /\ \A c \in Callers : c \in Values
      BY DEF Values
    <2> QED
      BY <2>1 DEF MapInsert, IndexCall, MissingCall
  <1>4. SameKeys(map', Node(k))
    BY <1>2, <1>3, NodeSame
  <1> QED
    BY <1>1, <1>4, InsertShown

LEMMA EndShown ==
  ASSUME MapInv, NEW k \in bound.keys, MapPush(k) \/ MapPut(k)
  PROVE  (MapPush(k) => Abstract!Push(k)) /\ (MapPut(k) => Abstract!Put(k))
  <1> DEFINE v == SetValue(Node(k), k, "value")
             x == Find(v, k)
             m == map.size
             e == EntriesOf(map)
             n == v.size
             f == EntriesOf(v)
             a == MoveTail(v, x)
             b == MoveHead(v, x)
  <1>1. HasNode(k) /\ (MapPush(k) => map' = b) /\ (MapPut(k) => map' = a)
    BY DEF MapPush, MapPut
  <1>2. Names(Nodes) /\ k \in Int /\ k \in Keys /\ Different(m, e) /\ "value" \in Values
    BY MapIsWhole
  <1>3. SameKeys(v, Node(k)) /\ \E M : Whole(Nodes, Values, v, M) /\ x \in M /\ KeyOf(x) = k
    BY <1>1, <1>2, NodeWhole
  <1>4. EntersKey(map.order, m, e, k, Node(k).size, EntriesOf(Node(k))) /\ Node(k).order = map.order
    BY <1>1, NodeEntries
  <1> HIDE DEF v, x, m, e
  <1>5. EntersKey(map.order, m, e, k, n, f) /\ v.order = map.order
    BY <1>3, <1>4 DEF SameKeys
  <1>6. PICK M : Whole(Nodes, Values, v, M) /\ x \in M /\ KeyOf(x) = k
    BY <1>3
  <1>7. Different(n, f)
    BY <1>2, <1>6, EntriesAre
  <1>8. /\ MovedKey(n, f, k, n - 1, EntriesOf(a)) /\ MovedKey(n, f, k, 0, EntriesOf(b))
    BY <1>2, <1>6, MoveEntries
  <1>9. a.order = v.order /\ b.order = v.order
    BY <1>2, <1>6, MoveWhole DEF Else
  <1> HIDE DEF n, f, a, b
  <1>10. ASSUME NEW i \in 1 .. n, f[i] = k
         PROVE  /\ n - 1 \in Nat /\ Deleted(n, f, i) \in [1 .. n - 1 -> Int]
                /\ WithoutKey(m, e, k, n - 1, Deleted(n, f, i))
    <2>1. n \in Nat /\ f \in [1 .. n -> Int] /\ Once(n, f)
      BY <1>7 DEF Different
    <2>2. WithoutKey(m, e, k, n - 1, Deleted(n, f, i))
      BY <1>2, <1>5, <1>10, <2>1, EnteredWithout
    <2> QED
      BY <2>1, <2>2, KeyDeleted
  <1>11. map'.order = map.order
    BY <1>1, <1>5, <1>9
  <1>12. ASSUME map' = a
         PROVE  Abstract!Put(k)
    <2>1. PICK i \in 1 .. n : f[i] = k /\ EntriesOf(a) = Inserted(n - 1, Deleted(n, f, i), n - 1, k)
      BY <1>8 DEF MovedKey
    <2>2. Abstract!ToBack(k)
      BY <1>10, <1>11, <1>12, <2>1, ShowsEnds DEF m, e
    <2> QED
      BY <1>11, <2>2 DEF Abstract!Put
  <1>13. ASSUME map' = b
         PROVE  Abstract!Push(k)
    <2>1. PICK i \in 1 .. n : f[i] = k /\ EntriesOf(b) = Inserted(n - 1, Deleted(n, f, i), 0, k)
      BY <1>8 DEF MovedKey
    <2>2. Abstract!ToFront(k)
      BY <1>10, <1>11, <1>13, <2>1, ShowsEnds DEF m, e
    <2> QED
      BY <1>11, <2>2 DEF Abstract!Push
  <1> QED
    BY <1>1, <1>12, <1>13

LEMMA IndexShown ==
  ASSUME MapInv, NEW k \in bound.keys, MapIndex(k)
  PROVE  Abstract!Access(k)
  <1> DEFINE x == Find(map, k)
             m == map.size
             e == EntriesOf(map)
             a == MoveTail(map, x)
             b == MoveHead(map, x)
  <1>1. /\ x # Null
        /\ \/ map.order = "lru" /\ map' = a
           \/ map.order = "mru" /\ map' = b
           \/ map.order \notin {"lru", "mru"} /\ map' = map
    BY DEF MapIndex
  <1>2. Names(Nodes) /\ k \in Int /\ k \in Keys /\ Different(m, e) /\ ListedKeys = e
    BY MapIsWhole
  <1>3. PICK T : Whole(Nodes, Values, map, T)
    BY MapIsWhole
  <1>4. x \in T /\ KeyOf(x) = k
    BY <1>1, <1>2, <1>3, WholeFind DEF WithKey
  <1> HIDE DEF x
  <1>5. MovedKey(m, e, k, m - 1, EntriesOf(a)) /\ MovedKey(m, e, k, 0, EntriesOf(b))
    BY <1>2, <1>3, <1>4, MoveEntries
  <1>6. a.order = map.order /\ b.order = map.order
    BY <1>2, <1>3, <1>4, MoveWhole DEF Else
  <1> HIDE DEF m, e, a, b
  <1>7. ASSUME NEW i \in 1 .. m, e[i] = k
        PROVE  /\ m - 1 \in Nat /\ Deleted(m, e, i) \in [1 .. m - 1 -> Int]
               /\ WithoutKey(m, e, k, m - 1, Deleted(m, e, i)) /\ Abstract!Holds(k)
    <2>1. m \in Nat /\ e \in [1 .. m -> Int] /\ \A j \in 1 .. m : e[j] = k => j = i
      BY <1>2, <1>7 DEF Different, Once
    <2>2. WithoutKey(m, e, k, m - 1, Deleted(m, e, i))
      BY <1>7, <2>1 DEF WithoutKey
    <2>3. Abstract!Holds(k)
      BY <1>2, <1>7, AbsHolds
    <2> QED
      BY <2>1, <2>2, <2>3, KeyDeleted
  <1>8. CASE map.order = "lru" /\ map' = a
    <2>1. PICK i \in 1 .. m : e[i] = k /\ EntriesOf(a) = Inserted(m - 1, Deleted(m, e, i), m - 1, k)
      BY <1>5 DEF MovedKey
    <2>2. Abstract!ToBack(k) /\ Abstract!Holds(k)
      BY <1>6, <1>7, <1>8, <2>1, ShowsEnds DEF m, e
    <2> QED
      BY <1>6, <1>8, <2>2 DEF Abstract!Access
  <1>9. CASE map.order = "mru" /\ map' = b
    <2>1. PICK i \in 1 .. m : e[i] = k /\ EntriesOf(b) = Inserted(m - 1, Deleted(m, e, i), 0, k)
      BY <1>5 DEF MovedKey
    <2>2. Abstract!ToFront(k) /\ Abstract!Holds(k)
      BY <1>6, <1>7, <1>9, <2>1, ShowsEnds DEF m, e
    <2> QED
      BY <1>6, <1>9, <2>2 DEF Abstract!Access
  <1>10. CASE map.order \notin {"lru", "mru"} /\ map' = map
    <2>1. ListedKeys' = ListedKeys
      BY <1>10 DEF ListedKeys, Listed
    <2>2. PICK i \in 1 .. m : e[i] = k
      BY <1>5 DEF MovedKey
    <2>3. Abstract!Holds(k)
      BY <1>7, <2>2
    <2> QED
      BY <1>10, <2>1, <2>3 DEF Abstract!Access
  <1> QED
    BY <1>1, <1>8, <1>9, <1>10

\* The key of a node that is removed.
LEMMA RemovedShown ==
  ASSUME MapInv, NEW k \in bound.keys, map' = Removed(k)
  PROVE  /\ Abstract!Delete(k)
         /\ \E n : WithoutKey(map.size, EntriesOf(map), k, n, EntriesOf(map'))
         /\ map'.order = map.order
  <1>2. PICK T : Whole(Nodes, Values, map, T)
    BY MapIsWhole
  <1> DEFINE u == Remove(map, k)
  <1>5. Names(Nodes) /\ k \in Int /\ "null" \in Values
    BY MapIsWhole
  <1>6. \E M : Whole(Nodes, Values, u, M)
    BY <1>2, <1>5, RemoveWhole
  <1>7. u.order = map.order
    <2>1. Else(u, map)
      BY <1>2, <1>5, RemoveWhole
    <2> HIDE DEF u
    <2> QED
      BY <2>1 DEF Else
  <1>8. WithoutKey(map.size, EntriesOf(map), k, u.size, EntriesOf(u))
    BY <1>2, <1>5, RemoveEntries
  <1>9. map' = Forget(u, Held)
    BY DEF Removed
  <1> HIDE DEF u
  <1>10. SameKeys(map', u)
    BY <1>5, <1>6, <1>9, ForgetEntries
  <1>11. EntriesOf(map') = EntriesOf(u) /\ map'.order = map.order
    BY <1>7, <1>10 DEF SameKeys
  <1>12. WithoutKey(map.size, EntriesOf(map), k, u.size, EntriesOf(map'))
    BY <1>8, <1>11
  <1> QED
    BY <1>11, <1>12, ShowsDelete

LEMMA DeleteShown ==
  ASSUME MapInv, NEW k \in bound.keys, MapDelete(k)
  PROVE  Abstract!Delete(k)
  BY RemovedShown DEF MapDelete

\* The first and the last key of the list are those of the head and of the tail.
LEMMA EndsAre ==
  ASSUME NEW N, Names(N), NEW W, NEW v, NEW T, Whole(N, W, v, T), NEW m, NEW e,
         m = v.size, e = EntriesOf(v)
  PROVE  /\ m = 0 => v.head = Null /\ v.tail = Null
         /\ m # 0 => v.head \in N /\ v.tail \in N /\ e[1] = KeyOf(v.head) /\ e[m] = KeyOf(v.tail)
  <1>1. PICK s : InOrder(N, W, v, T, s)
    BY ListsExist
  <1>2. m \in Nat /\ s \in [1 .. m -> N] /\ Chain(N, v, m, s)
    BY <1>1, ListsType
  <1>3. \A j \in 1 .. m : e[j] = KeyOf(s[j])
    BY <1>1, ListsKeys
  <1>4. v.head = (IF m = 0 THEN Null ELSE s[1]) /\ v.tail = (IF m = 0 THEN Null ELSE s[m])
    BY <1>2 DEF Chain
  <1>5. m # 0 => 1 \in 1 .. m /\ m \in 1 .. m
    BY <1>2
  <1> QED
    BY <1>2, <1>3, <1>4, <1>5

LEMMA EndsDeleted ==
  ASSUME NEW m \in Nat \ {0}, NEW e \in [1 .. m -> Int]
  PROVE  Deleted(m, e, 1) = Tail(e) /\ Deleted(m, e, m) = SubSeq(e, 1, Len(e) - 1)
  <1>1. e \in Seq(Int) /\ Len(e) = m /\ e # <<>>
    BY IsSequence
  <1>2. m - 1 \in Nat /\ 1 \in 1 .. m /\ m \in 1 .. m
    OBVIOUS
  <1>3. Deleted(m, e, 1) = Tail(e)
    <2> DEFINE q == Tail(e)
               f == Deleted(m, e, 1)
    <2>1. q \in Seq(Int) /\ Len(q) = m - 1 /\ \A j \in 1 .. m - 1 : q[j] = e[j + 1]
      BY <1>1
    <2>2. f \in [1 .. m - 1 -> Int]
          /\ \A j \in 1 .. m - 1 : f[j] = IF j < 1 THEN e[j] ELSE e[j + 1]
      BY <1>2, KeyDeleted
    <2> HIDE DEF q, f
    <2>3. \A j \in 1 .. m - 1 : q[j] = f[j]
      BY <2>1, <2>2
    <2>4. q = f
      BY <1>2, <2>1, <2>2, <2>3, SameSequence
    <2> QED
      BY <2>4 DEF q, f
  <1>4. Deleted(m, e, m) = SubSeq(e, 1, m - 1)
    <2> DEFINE q == SubSeq(e, 1, m - 1)
               f == Deleted(m, e, m)
    <2>1. q \in Seq(Int) /\ Len(q) = m - 1 /\ \A j \in 1 .. m - 1 : q[j] = e[j]
      BY <1>1
    <2>2. f \in [1 .. m - 1 -> Int]
          /\ \A j \in 1 .. m - 1 : f[j] = IF j < m THEN e[j] ELSE e[j + 1]
      BY <1>2, KeyDeleted
    <2> HIDE DEF q, f
    <2>3. \A j \in 1 .. m - 1 : q[j] = f[j]
      BY <2>1, <2>2
    <2>4. q = f
      BY <1>2, <2>1, <2>2, <2>3, SameSequence
    <2> QED
      BY <2>4 DEF q, f
  <1> QED
    BY <1>1, <1>3, <1>4

LEMMA PopShown ==
  ASSUME MapInv
  PROVE  (MapPop => Abstract!Pop) /\ (MapPull => Abstract!Pull)
  <1> DEFINE m == map.size
             e == EntriesOf(map)
  <1>1. \A x \in Nodes : KeyOf(x) \in bound.keys
    BY KeysAre DEF MapInv
  <1>2. PICK T : Whole(Nodes, Values, map, T)
    BY MapIsWhole
  <1>3. /\ Names(Nodes) /\ m \in Nat /\ e \in [1 .. m -> Int] /\ Once(m, e)
        /\ ListedKeys = e /\ ListedKeys' = EntriesOf(map')
    BY MapIsWhole, NextKeys DEF Different
  <1>4. /\ m = 0 => map.head = Null /\ map.tail = Null
        /\ m # 0 => /\ map.head \in Nodes /\ map.tail \in Nodes
                    /\ e[1] = KeyOf(map.head) /\ e[m] = KeyOf(map.tail)
    BY <1>2, <1>3, EndsAre
  <1>5. /\ MapPop => map.head # Null /\ map' = Removed(KeyOf(map.head))
        /\ MapPull => map.tail # Null /\ map' = Removed(KeyOf(map.tail))
    BY DEF MapPop, MapPull
  <1>6. ASSUME NEW i \in 1 .. m, m # 0, e[i] \in bound.keys, map' = Removed(e[i])
        PROVE  EntriesOf(map') = Deleted(m, e, i) /\ map'.order = map.order
    <2>1. PICK n : WithoutKey(m, e, e[i], n, EntriesOf(map'))
      BY <1>6, RemovedShown
    <2>2. map'.order = map.order
      BY <1>6, RemovedShown
    <2> QED
      BY <2>1, <2>2 DEF WithoutKey
  <1> HIDE DEF m, e
  <1>7. m # 0 => /\ 1 \in 1 .. m /\ m \in 1 .. m /\ e # <<>>
                 /\ Deleted(m, e, 1) = Tail(e) /\ Deleted(m, e, m) = SubSeq(e, 1, Len(e) - 1)
    <2>1. ASSUME m # 0
          PROVE  1 \in 1 .. m /\ m \in 1 .. m /\ Len(e) # 0 /\ m \in Nat \ {0}
      BY <1>3, <2>1, IsSequence
    <2> QED
      BY <1>3, <2>1, EndsDeleted
  <1>8. ASSUME MapPop
        PROVE  Abstract!Pop
    <2>1. m # 0 /\ e[1] \in bound.keys /\ map' = Removed(e[1])
      BY <1>1, <1>4, <1>5, <1>8
    <2> QED
      BY <1>3, <1>6, <1>7, <2>1 DEF Abstract!Pop
  <1>9. ASSUME MapPull
        PROVE  Abstract!Pull
    <2>1. m # 0 /\ e[m] \in bound.keys /\ map' = Removed(e[m])
      BY <1>1, <1>4, <1>5, <1>9
    <2> QED
      BY <1>3, <1>6, <1>7, <2>1 DEF Abstract!Pull
  <1> QED
    BY <1>8, <1>9

\* empty, and filter before it calls its function.
LEMMA EmptyShown ==
  ASSUME MapInv, MapEmpty \/ MapFilter
  PROVE  Abstract!Empty
  <1> DEFINE q == NodeList(map)
             v == Cleared(map)
             u == [v EXCEPT !.pending = q]
  <1>1. map' = Forget(v, Held) \/ map' = Forget(u, Held)
    BY DEF MapEmpty, MapFilter, Emptied, Cleared
  <1>2. PICK T : Whole(Nodes, Values, map, T)
    BY MapIsWhole
  <1>3. Names(Nodes) /\ "null" \in Values
    BY MapIsWhole
  <1>4. q \in Seq(Nodes)
    BY <1>2, <1>3, ListIs DEF Whole, ListHas
  <1>5. Whole(Nodes, Values, v, {}) /\ v.order = map.order
    BY <1>2, ClearedWhole, WholeType DEF Else
  <1> HIDE DEF v, q
  <1>6. Whole(Nodes, Values, u, {}) /\ u.order = map.order
    BY <1>4, <1>5, PendingWhole
  <1> HIDE DEF u
  <1>7. PICK w : map' = Forget(w, Held) /\ Whole(Nodes, Values, w, {}) /\ w.order = map.order
    BY <1>1, <1>5, <1>6
  <1>8. SameKeys(map', w)
    BY <1>3, <1>7, ForgetEntries
  <1>9. EntriesOf(w) = <<>>
    BY <1>3, <1>7, EmptyEntries
  <1>10. EntriesOf(map') = <<>> /\ map'.order = map.order
    BY <1>7, <1>8, <1>9 DEF SameKeys
  <1> QED
    BY <1>10, ShowsEmpty

\* filter keeps a node, or does not, or ends with an error.
LEMMA FilterReturnsShown ==
  ASSUME MapInv, FilterReturns
  PROVE  Abstract!Insert(KeyOf(Head(map.pending))) \/ UNCHANGED Abstract!vars
  <1> DEFINE p == map.pending
             q == Tail(p)
             e == [map EXCEPT !.pending = <<>>]
             v == [map EXCEPT !.pending = q]
             x == p[1]
             k == KeyOf(x)
             z == Slot(v, k, x)
             y == PutBack(v, x)
  <1>1. p # <<>> /\ \E u \in {y, v, e} : map' = Forget(u, Held)
    BY DEF FilterReturns
  <1>2. PICK T : Whole(Nodes, Values, map, T)
    BY MapIsWhole
  <1>3. Names(Nodes) /\ "null" \in Values
    BY MapIsWhole
  <1>4. p \in Seq(Nodes)
    BY <1>2, WholeType
  <1>10. x = Head(map.pending)
    BY <1>1, <1>4
  <1> HIDE DEF p
  <1>5. q \in Seq(Nodes) /\ x \in Nodes /\ <<>> \in Seq(Nodes)
    BY <1>1, <1>4
  <1> HIDE DEF q, x
  <1>6. Whole(Nodes, Values, v, T) /\ SameKeys(v, map)
    BY <1>2, <1>3, <1>5, PendingWhole, PendingEntries
  <1>7. Whole(Nodes, Values, e, T) /\ SameKeys(e, map)
    BY <1>2, <1>3, <1>5, PendingWhole, PendingEntries
  <1> HIDE DEF v, e
  <1>8. CASE map' = Forget(v, Held) \/ map' = Forget(e, Held)
    <2>1. SameKeys(map', map)
      BY <1>3, <1>6, <1>7, <1>8, ForgetEntries, KeysChain
    <2> QED
      BY <2>1, ShowsNothing
  <1>9. CASE map' = Forget(y, Held)
    <2>1. k \in bound.keys /\ k \in Int
      BY <1>5, KeysAre, MapIsWhole DEF MapInv
    <2>2. y = SetValue(z, k, v.value[x]) /\ v.value[x] \in Values
      <3>1. v.value \in [Nodes -> Values]
        BY <1>6, WholeType
      <3> QED
        BY <1>5, <3>1 DEF PutBack
    <2> HIDE DEF y
    <2>3. \E M : Whole(Nodes, Values, z, M)
      BY <1>3, <1>5, <1>6, <2>1, SlotWhole
    <2>4. z.order = v.order
      BY <1>3, <1>5, <1>6, <2>1, SlotWhole DEF Else
    <2>5. EntersKey(v.order, v.size, EntriesOf(v), k, z.size, EntriesOf(z))
      BY <1>3, <1>5, <1>6, <2>1, SlotEntries
    <2> HIDE DEF z, k
    <2>6. SameKeys(y, z) /\ \E M : Whole(Nodes, Values, y, M)
      BY <1>3, <2>2, <2>3, SetValueEntries, SetValueWhole
    <2>7. SameKeys(map', z)
      BY <1>3, <1>9, <2>6, ForgetEntries, KeysChain
    <2>8. /\ EntersKey(map.order, map.size, EntriesOf(map), k, z.size, EntriesOf(map'))
          /\ map'.order = map.order
      BY <1>6, <2>4, <2>5, <2>7 DEF SameKeys
    <2>9. Abstract!Insert(k)
      BY <2>1, <2>8, ShowsInsert
    <2>10. k = KeyOf(Head(map.pending))
      BY <1>10 DEF k
    <2> QED
      BY <2>9, <2>10
  <1> QED
    BY <1>1, <1>8, <1>9

LEMMA OrderShown ==
  ASSUME MapInv, NEW o \in bound.orders, MapOrder(o)
  PROVE  Abstract!SetOrder(o)
  <1>1. map' = [map EXCEPT !.order = o]
    BY DEF MapOrder
  <1>2. Names(Nodes) /\ o \in Orderings /\ o \in Orders /\ ListedKeys = EntriesOf(map)
    BY MapIsWhole
  <1>3. PICK T : Whole(Nodes, Values, map, T)
    BY MapIsWhole
  <1>4. EntriesOf(map') = EntriesOf(map) /\ map'.order = o
    BY <1>1, <1>2, <1>3, OrderEntries
  <1> QED
    BY <1>2, <1>4, NextKeys DEF Abstract!SetOrder

LEMMA CallReturnsShown ==
  ASSUME MapInv, NEW c \in Callers, CallReturns(c)
  PROVE  UNCHANGED Abstract!vars
  <1> DEFINE x == calls[c].node
             h == {calls[d].node : d \in {e \in Callers \ {c} : calls[e].at = "calls"}}
  <1>1. PICK T : Whole(Nodes, Values, map, T)
    BY MapIsWhole
  <1>2. Names(Nodes) /\ "null" \in Values /\ "value" \in Values
    BY MapIsWhole
  <1>3. PICK fails \in BOOLEAN : map' = Forget([map EXCEPT !.value[x] = Result(c, fails)], h)
    BY DEF CallReturns
  <1>4. map.value \in [Nodes -> Values] /\ x \in Nodes
    <2>1. map.value \in [Nodes -> Values]
      BY <1>1, WholeType
    <2>2. x \in Held /\ Held \subseteq Nodes
      BY DEF CallReturns, Held, MapInv, Sound
    <2> QED
      BY <2>1, <2>2
  <1> DEFINE r == Result(c, fails)
             f == [map.value EXCEPT ![x] = r]
             u == [map EXCEPT !.value = f]
  <1>5. r \in Values
    BY <1>2, <1>4 DEF Result
  <1>6. f \in [Nodes -> Values]
    <2> HIDE DEF r, x
    <2> QED
      BY <1>4, <1>5
  <1>7. map' = Forget(u, h)
    BY <1>3
  <1> HIDE DEF f, h
  <1>8. Whole(Nodes, Values, u, T) /\ SameKeys(u, map)
    BY <1>1, <1>2, <1>6, ValuesWhole, ValuesEntries
  <1> HIDE DEF u
  <1>9. SameKeys(map', map)
    BY <1>2, <1>7, <1>8, ForgetEntries, KeysChain
  <1> QED
    BY <1>9, ShowsNothing

LEMMA AbstractStarts ==
  ASSUME MapInv, MapInit
  PROVE  Abstract!Init
  <1>1. PICK o \in bound.orders : map.order = o /\ map.head = Null
    <2> DEFINE K == [x \in Nodes |-> Blank]
               L == [x \in Nodes |-> Unlinked]
               V == [x \in Nodes |-> "null"]
    <2>1. PICK o \in bound.orders :
            map = [root |-> Null, head |-> Null, tail |-> Null, size |-> 0, order |-> o,
                   n |-> K, links |-> L, value |-> V, pending |-> <<>>]
      BY DEF MapInit
    <2> HIDE DEF K, L, V
    <2> QED
      BY <2>1
  <1>2. PICK T : Whole(Nodes, Values, map, T)
    BY MapIsWhole
  <1>3. Names(Nodes) /\ o \in Orders /\ ListedKeys = EntriesOf(map)
    BY MapIsWhole
  <1>4. T = {}
    BY <1>1, <1>2, <1>3, WholeEmpty
  <1>5. ListedKeys = <<>>
    BY <1>2, <1>3, <1>4, EmptyEntries
  <1> QED
    BY <1>1, <1>3, <1>5 DEF Abstract!Init

LEMMA PendingKey ==
  ASSUME MapInv, FilterReturns
  PROVE  KeyOf(Head(map.pending)) \in bound.keys
  <1>1. PICK T : Whole(Nodes, Values, map, T)
    BY MapIsWhole
  <1>2. map.pending \in Seq(Nodes) /\ map.pending # <<>>
    BY <1>1, WholeType DEF FilterReturns
  <1>3. Head(map.pending) \in Nodes
    BY <1>2
  <1> QED
    BY <1>3, KeysAre DEF MapInv

\* Every method of the map is that method of the ordered map.
LEMMA MethodsAre ==
  ASSUME MapInv
  PROVE  MethodsImplement
  <1>1. ASSUME NEW k \in bound.keys
        PROVE  /\ MapInsert(k) => Abstract!Insert(k)
               /\ MapIndex(k) => Abstract!Access(k)
               /\ MapPush(k) => Abstract!Push(k)
               /\ MapPut(k) => Abstract!Put(k)
               /\ MapDelete(k) => Abstract!Delete(k)
               /\ \A c \in Callers : IndexCall(c, k) \/ MissingCall(c, k) => Abstract!Insert(k)
    <2>1. MapInsert(k) => Abstract!Insert(k)
      BY CallShown
    <2>2. \A c \in Callers : IndexCall(c, k) \/ MissingCall(c, k) => Abstract!Insert(k)
      BY CallShown
    <2>3. MapIndex(k) => Abstract!Access(k)
      BY IndexShown
    <2>4. (MapPush(k) => Abstract!Push(k)) /\ (MapPut(k) => Abstract!Put(k))
      BY EndShown
    <2>5. MapDelete(k) => Abstract!Delete(k)
      BY DeleteShown
    <2> QED
      BY <2>1, <2>2, <2>3, <2>4, <2>5
  <1>2. (MapPop => Abstract!Pop) /\ (MapPull => Abstract!Pull)
    BY PopShown
  <1>3. MapEmpty \/ MapFilter => Abstract!Empty
    BY EmptyShown
  <1>4. \A o \in bound.orders : MapOrder(o) => Abstract!SetOrder(o)
    BY OrderShown
  <1>5. FilterReturns => Abstract!Insert(KeyOf(Head(map.pending))) \/ UNCHANGED Abstract!vars
    BY FilterReturnsShown
  <1>6. \A c \in Callers : CallReturns(c) => UNCHANGED Abstract!vars
    BY CallReturnsShown
  <1> QED
    BY <1>1, <1>2, <1>3, <1>4, <1>5, <1>6 DEF MethodsImplement

LEMMA AbstractStep ==
  ASSUME MapInv, [MapNext]_mapVars
  PROVE  [Abstract!Next]_(Abstract!vars)
  <1>1. MethodsImplement /\ bound.keys \subseteq Keys /\ bound.orders \subseteq Orders
    BY MethodsAre, MapIsWhole
  <1>2. CASE UNCHANGED mapVars
    <2>1. map' = map
      BY <1>2 DEF mapVars
    <2>2. SameKeys(map', map)
      BY <2>1 DEF SameKeys
    <2> QED
      BY <2>2, ShowsNothing
  <1>3. CASE MapPop \/ MapPull \/ MapEmpty \/ MapFilter
    <2>1. Abstract!Pop \/ Abstract!Pull \/ Abstract!Empty
      BY <1>1, <1>3 DEF MethodsImplement
    <2> QED
      BY <2>1 DEF Abstract!Next
  <1>4. CASE FilterReturns
    <2>1. KeyOf(Head(map.pending)) \in Keys
      BY <1>1, <1>4, PendingKey
    <2>2. Abstract!Insert(KeyOf(Head(map.pending))) \/ UNCHANGED Abstract!vars
      BY <1>1, <1>4 DEF MethodsImplement
    <2> QED
      BY <2>1, <2>2 DEF Abstract!Next
  <1>5. ASSUME NEW k \in bound.keys,
               \/ MapInsert(k) \/ MapIndex(k) \/ MapPush(k) \/ MapPut(k) \/ MapDelete(k)
               \/ \E c \in Callers : IndexCall(c, k) \/ MissingCall(c, k)
        PROVE  [Abstract!Next]_(Abstract!vars)
    <2>1. \/ Abstract!Insert(k) \/ Abstract!Access(k) \/ Abstract!Push(k) \/ Abstract!Put(k)
          \/ Abstract!Delete(k)
      BY <1>1, <1>5 DEF MethodsImplement
    <2>2. k \in Keys
      BY <1>1
    <2> QED
      BY <2>1, <2>2 DEF Abstract!Next
  <1>6. ASSUME NEW o \in bound.orders, MapOrder(o)
        PROVE  [Abstract!Next]_(Abstract!vars)
    <2>1. Abstract!SetOrder(o) /\ o \in Orders
      BY <1>1, <1>6 DEF MethodsImplement
    <2> QED
      BY <2>1 DEF Abstract!Next
  <1>7. CASE \E c \in Callers : CallReturns(c)
    BY <1>1, <1>7 DEF MethodsImplement
  <1> QED
    BY <1>2, <1>3, <1>4, <1>5, <1>6, <1>7 DEF MapNext

\* Whatever the rotations and the links do, the keys in the order of iteration are an ordered
\* map, and from every state that ml_map.c can reach, with any keys and callers and in
\* each of the five orders, every method is that method of the ordered map: [] moves
\* the key to the end under LRU, to the start under MRU, and nowhere in the other
\* orders; an insertion puts a new key at the place of the order; push, put, pop,
\* pull, delete and empty do what they say.
THEOREM MapsImplementOrderedMap == MapSpec => ImplementsMap
  <1>1. MapInit => Abstract!Init
    BY MapStarts, MapTreeAssumption, AbstractStarts
  <1>2. MapInv /\ [MapNext]_mapVars => [Abstract!Next]_(Abstract!vars)
    BY AbstractStep
  <1>3. MapInv /\ [MapNext]_mapVars => [MethodsImplement]_mapVars
    BY MethodsAre
  <1> QED
    BY <1>1, <1>2, <1>3, MapInvHolds, PTL DEF MapSpec, ImplementsMap, Abstract!Spec
------------------------------------------------------------------------------
(* Whole maps.                                                               *)

\* Below its root the tree of v is level.
Levels(N, v, E) ==
  \A x \in N : InMap(v, x) /\ x # v.root => v.n[x].depth = Tall(v.n, x) /\ Balance(v.n, x) \in E

SameTree(u, v) == u.n = v.n /\ u.root = v.root

LEMMA LevelsAre ==
  ASSUME NEW N, NEW W, NEW v, NEW T, Whole(N, W, v, T), NEW E
  PROVE  Levels(N, v, E) <=> Level(v.n, T \ {v.root}, E)
  <1>1. T \subseteq N
    BY WholeType
  <1>2. \A x \in N : InMap(v, x) <=> x \in T
    BY WholeDepth DEF InMap
  <1> QED
    BY <1>1, <1>2 DEF Levels, Level

LEMMA SameLevels ==
  ASSUME NEW N, NEW u, NEW v, SameTree(u, v), NEW E, Levels(N, v, E)
  PROVE  Levels(N, u, E)
  BY DEF SameTree, Levels, InMap

LEMMA EmptyLevels ==
  ASSUME NEW N, NEW W, NEW v, Whole(N, W, v, {}), NEW E
  PROVE  Levels(N, v, E)
  <1>1. \A x \in N : v.n[x].depth = 0
    BY DEF Whole, Blank
  <1> QED
    BY <1>1 DEF Levels, InMap

LEMMA SlotLevels ==
  ASSUME NEW N, Names(N), NEW W, NEW v, NEW T, Whole(N, W, v, T), NEW k \in Int,
         NEW new \in N, KeyOf(new) = k, NEW E, Spread(E), Levels(N, v, E)
  PROVE  Levels(N, Slot(v, k, new), E)
  <1> DEFINE u == Slot(v, k, new)
             M == Grows(T, k, new)
  <1>1. v \in MapsOf(N, W) /\ T \in SUBSET N /\ v.n \in Trees(N) /\ IsTree(v.n, T, v.root)
    BY WholeType
  <1>2. Whole(N, W, u, M)
    BY SlotWhole
  <1>3. CASE v.root = Null
    <2>1. T = {}
      BY <1>1, <1>3, EmptyTree
    <2>2. M = {new}
      BY <2>1 DEF Grows, WithKey
    <2>3. u.root = new
      BY <1>1, <1>3 DEF Slot, MapsOf
    <2> HIDE DEF u, M
    <2>4. M \ {u.root} = {}
      BY <2>2, <2>3
    <2>5. Level(u.n, M \ {u.root}, E)
      BY <2>4 DEF Level
    <2> QED
      BY <1>2, <2>5, LevelsAre DEF u
  <1>4. CASE v.root # Null
    <2>1. u = InsertBelow(v, v.root, k, new)
      BY <1>4 DEF Slot
    <2>2. PICK rank : Ranked(N, v.n, rank)
      BY WholeRank
    <2>3. v.head # Null /\ v.tail # Null
      BY <1>1, <1>4, TreeTop, WholeEmpty
    <2>4. PutIn(N, W, v, k, new, T, v.root, u)
      BY <1>1, <1>4, <2>1, <2>2, <2>3, PutTree
    <2>5. Level(v.n, T \ {v.root}, E)
      BY LevelsAre
    <2>6. PutLevel(v.n, v.root, k, E, u.n, M)
      BY <1>1, <1>4, <2>1, <2>2, <2>3, <2>5, PutTreeLevel DEF Grows
    <2> HIDE DEF u
    <2>7. u.root = v.root
      <3>1. CASE WithKey(T, k) # {}
        BY <2>4, <3>1 DEF PutIn, OnlyTree
      <3>2. CASE WithKey(T, k) = {}
        <4>1. PICK p \in T : OnlyTree(u, Placed(v, p, k, new))
          BY <2>4, <3>2 DEF PutIn
        <4>2. new \notin T
          BY <3>2 DEF WithKey
        <4> DEFINE q == Placed(v, p, k, new)
        <4>3. /\ ListHas(N, q, T \union {new}) /\ q.order = v.order /\ q.value = v.value
              /\ q.pending = v.pending /\ q.root = v.root
          BY <4>2, ListGrows
        <4> HIDE DEF q
        <4> QED
          BY <4>1, <4>3 DEF OnlyTree, q
      <3> QED
        BY <3>1, <3>2
    <2> HIDE DEF M
    <2>8. Level(u.n, M \ {u.root}, E)
      BY <2>6, <2>7 DEF PutLevel
    <2> QED
      BY <1>2, <2>8, LevelsAre DEF u
  <1> QED
    BY <1>3, <1>4

\* Only deletions of nodes with two children need not keep the balance.
LEMMA RemoveLevels ==
  ASSUME NEW N, Names(N), NEW W, NEW v, NEW T, Whole(N, W, v, T), NEW k \in Int,
         NEW E, Spread(E), Levels(N, v, E), E = -1 .. 1 => Few(v.n, T, k)
  PROVE  Levels(N, Remove(v, k), E)
  <1> DEFINE u == Remove(v, k)
             M == T \ WithKey(T, k)
             r == RemoveBelow(v.n, v.root, k)
             z == RemoveLink(v, Find(v, k))
  <1>1. v \in MapsOf(N, W) /\ T \in SUBSET N /\ v.n \in Trees(N) /\ IsTree(v.n, T, v.root)
    BY WholeType
  <1>2. CASE v.root = Null
    <2>1. u = v
      BY <1>2 DEF Remove
    <2> QED
      BY <2>1
  <1>3. CASE v.root # Null
    <2>1. Whole(N, W, u, M)
      BY RemoveWhole
    <2>2. PICK rank : Ranked(N, v.n, rank)
      BY WholeRank
    <2>3. Level(v.n, T \ {v.root}, E)
      BY LevelsAre
    <2>4. CutLevel(v.n, T, v.root, E, r, M)
      BY <1>1, <1>3, <2>2, <2>3, BelowLevel
    <2>5. u = [z EXCEPT !.n = r.n, !.root = r.top]
      BY <1>3 DEF Remove
    <2>6. z \in MapsOf(N, W)
      <3> DEFINE y == Find(v, k)
      <3>1. y \in WithKey(T, k) \union {Null}
        BY WholeFind
      <3>2. CASE y = Null
        BY <1>1, <3>2 DEF RemoveLink
      <3>3. CASE y # Null
        <4>1. y \in T
          BY <3>1, <3>3 DEF WithKey
        <4>2. PICK s : Chain(N, v, v.size, s) /\ Listing(v.size, s) = T
          BY DEF Whole, ListHas
        <4>3. PICK i \in 1 .. v.size : y = s[i]
          BY <4>1, <4>2 DEF Listing
        <4> HIDE DEF y
        <4>4. RemoveLink(v, y) \in MapsOf(N, W)
          BY <1>1, <4>2, <4>3, RemoveLinkIs, WholeType
        <4> QED
          BY <4>4 DEF y
      <3> QED
        BY <3>2, <3>3
    <2> HIDE DEF z, r, u, M
    <2>7. u.n = r.n /\ u.root = r.top
      BY <2>5, <2>6 DEF MapsOf
    <2>8. Level(u.n, M \ {u.root}, E)
      BY <2>4, <2>7 DEF CutLevel
    <2> QED
      BY <2>1, <2>8, LevelsAre DEF u
  <1> QED
    BY <1>2, <1>3

------------------------------------------------------------------------------
(* The steps.                                                                *)

\* A node with two children is deleted.
Lost == \E x \in Nodes : InMap(map, x) /\ ~ InMap(map', x) /\ HasTwoChildren(x)

\* What a step may do to a level map.
StaysLevel(E) == Levels(Nodes, map', E) \/ (E = -1 .. 1 /\ Lost)

\* u is v, as far as its tree goes, and whole.
Likewise(u, v, T) == Whole(Nodes, Values, u, T) /\ SameTree(u, v)

LEMMA SetValueLike ==
  ASSUME bound \in Bounds, NEW v, NEW T, Whole(Nodes, Values, v, T), NEW k, NEW a \in Values
  PROVE  Likewise(SetValue(v, k, a), v, T)
  <1> DEFINE f == [v.value EXCEPT ![Find(v, k)] = a]
             u == SetValue(v, k, a)
  <1>1. f \in [Nodes -> Values]
    BY WholeType
  <1>2. u = [v EXCEPT !.value = f]
    BY DEF SetValue
  <1> HIDE DEF f, u
  <1>3. Whole(Nodes, Values, u, T) /\ SameShape(u, v)
    BY <1>1, <1>2, ValuesWhole
  <1> QED
    BY <1>3 DEF Likewise, SameShape, SameTree, u

LEMMA ForgetLike ==
  ASSUME NEW v, NEW T, Whole(Nodes, Values, v, T), NEW held
  PROVE  Likewise(Forget(v, held), v, T)
  <1> DEFINE f == [x \in DOMAIN v.value |-> IF InMap(v, x) \/ x \in held \union Pending(v)
                                            THEN v.value[x] ELSE "null"]
             u == Forget(v, held)
  <1>1. f \in [Nodes -> Values]
    <2>1. v.value \in [Nodes -> Values] /\ "null" \in Values
      BY WholeType DEF Values
    <2> QED
      BY <2>1
  <1>2. u = [v EXCEPT !.value = f]
    BY DEF Forget
  <1> HIDE DEF f, u
  <1>3. Whole(Nodes, Values, u, T) /\ SameShape(u, v)
    BY <1>1, <1>2, ValuesWhole
  <1> QED
    BY <1>3 DEF Likewise, SameShape, SameTree, u

LEMMA PendingLike ==
  ASSUME NEW v, NEW T, Whole(Nodes, Values, v, T), NEW q \in Seq(Nodes)
  PROVE  Likewise([v EXCEPT !.pending = q], v, T)
  <1> DEFINE u == [v EXCEPT !.pending = q]
  <1>1. v \in MapsOf(Nodes, Values)
    BY WholeType
  <1>2. SameTree(u, v)
    BY <1>1 DEF MapsOf, SameTree
  <1>3. Whole(Nodes, Values, u, T)
    BY PendingWhole
  <1> QED
    BY <1>2, <1>3 DEF Likewise

LEMMA MoveLike ==
  ASSUME bound \in Bounds, NEW v, NEW T, Whole(Nodes, Values, v, T), NEW x \in T
  PROVE  SameTree(MoveHead(v, x), v) /\ SameTree(MoveTail(v, x), v)
  <1>1. Names(Nodes)
    BY KeysAre
  <1>2. /\ MoveTail(v, x).n = v.n /\ MoveTail(v, x).root = v.root
        /\ MoveHead(v, x).n = v.n /\ MoveHead(v, x).root = v.root
    BY <1>1, MoveWhole
  <1> QED
    BY <1>2 DEF SameTree

\* The node of a key that is looked up or set.
LEMMA NodeLevels ==
  ASSUME MapInv, NEW k \in bound.keys, HasNode(k), NEW E, Spread(E), Levels(Nodes, map, E)
  PROVE  Levels(Nodes, Node(k), E) /\ \E M : Whole(Nodes, Values, Node(k), M)
                                             /\ Find(Node(k), k) \in M
  <1> DEFINE N == Nodes
             new == IF Find(map, k) # Null THEN Find(map, k) ELSE New(k)
  <1>1. PICK T : Whole(N, Values, map, T)
    BY MapIsWhole
  <1>2. Names(N) /\ k \in Int /\ bound \in Bounds
    BY MapIsWhole
  <1>3. /\ Find(map, k) \in WithKey(T, k) \union {Null} /\ T \subseteq N
    BY <1>1, <1>2, WholeFind, WholeType
  <1>4. new \in N /\ KeyOf(new) = k
    <2>1. CASE Find(map, k) # Null
      BY <1>3, <2>1 DEF WithKey
    <2>2. CASE Find(map, k) = Null
      <3>1. Free(k) # {}
        BY <2>2 DEF HasNode
      <3> QED
        BY <1>2, <2>2, <3>1, NewIs
    <2> QED
      BY <2>1, <2>2
  <1>5. Node(k) = Slot(map, k, new)
    BY DEF Node
  <1> HIDE DEF new
  <1>6. Levels(N, Node(k), E)
    BY <1>1, <1>2, <1>4, <1>5, SlotLevels
  <1>7. \E M : Whole(N, Values, Node(k), M) /\ Find(Node(k), k) \in M
    BY <1>1, <1>2, NodeIs
  <1> QED
    BY <1>6, <1>7

\* A key is looked up or set.
LEMMA SetLevels ==
  ASSUME MapInv, NEW k \in bound.keys, NEW E, Spread(E), Levels(Nodes, map, E),
         \/ MapInsert(k) \/ MapPush(k) \/ MapPut(k)
         \/ \E c \in Callers : IndexCall(c, k) \/ MissingCall(c, k)
  PROVE  Levels(Nodes, map', E)
  <1>1. HasNode(k)
    BY DEF MapInsert, MapPush, MapPut, IndexCall, MissingCall
  <1>2. bound \in Bounds /\ Names(Nodes)
    BY MapIsWhole
  <1>3. PICK M : Whole(Nodes, Values, Node(k), M) /\ Find(Node(k), k) \in M
    BY <1>1, NodeLevels
  <1>4. Levels(Nodes, Node(k), E)
    BY <1>1, NodeLevels
  <1>5. ASSUME NEW a \in Values
        PROVE  LET v == SetValue(Node(k), k, a)
               IN  Levels(Nodes, v, E) /\ Whole(Nodes, Values, v, M) /\ Find(v, k) \in M
    <2> DEFINE v == SetValue(Node(k), k, a)
    <2>1. Likewise(v, Node(k), M)
      BY <1>2, <1>3, SetValueLike
    <2>2. Find(v, k) = Find(Node(k), k)
      BY <1>2, <1>3, SetValueFinds
    <2> HIDE DEF v
    <2>3. Levels(Nodes, v, E)
      BY <1>4, <2>1, SameLevels DEF Likewise
    <2> QED
      BY <1>3, <2>1, <2>2, <2>3 DEF Likewise, v
  <1> DEFINE s == SetValue(Node(k), k, "value")
             x == Find(s, k)
  <1>6. \/ map' = Node(k) \/ \E a \in Values : map' = SetValue(Node(k), k, a)
        \/ map' = MoveHead(s, x) \/ map' = MoveTail(s, x)
    <2>1. "value" \in Values /\ "nil" \in Values /\ \A c \in Callers : c \in Values
      BY DEF Values
    <2> QED
      BY <2>1 DEF MapInsert, MapPush, MapPut, IndexCall, MissingCall
  <1>7. CASE map' = Node(k) \/ \E a \in Values : map' = SetValue(Node(k), k, a)
    BY <1>4, <1>5, <1>7
  <1>8. CASE map' = MoveHead(s, x) \/ map' = MoveTail(s, x)
    <2>1. "value" \in Values
      BY DEF Values
    <2>2. Levels(Nodes, s, E) /\ Whole(Nodes, Values, s, M) /\ x \in M
      BY <1>5, <2>1
    <2> HIDE DEF s, x
    <2>3. SameTree(map', s)
      BY <1>2, <1>8, <2>2, MoveLike
    <2> QED
      BY <2>2, <2>3, SameLevels
  <1> QED
    BY <1>6, <1>7, <1>8

\* [] of a key that is there.
LEMMA IndexLevels ==
  ASSUME MapInv, NEW k \in bound.keys, NEW E, Levels(Nodes, map, E), MapIndex(k)
  PROVE  Levels(Nodes, map', E)
  <1> DEFINE x == Find(map, k)
  <1>1. PICK T : Whole(Nodes, Values, map, T)
    BY MapIsWhole
  <1>2. Names(Nodes) /\ k \in Int /\ bound \in Bounds
    BY MapIsWhole
  <1>3. x # Null /\ (map' = MoveTail(map, x) \/ map' = MoveHead(map, x) \/ map' = map)
    BY DEF MapIndex
  <1>4. x \in T
    BY <1>1, <1>2, <1>3, WholeFind DEF WithKey
  <1> HIDE DEF x
  <1>5. SameTree(map', map)
    BY <1>1, <1>2, <1>3, <1>4, MoveLike DEF SameTree
  <1> QED
    BY <1>5, SameLevels

\* The map with its tree as it is.
LEMMA ForgetLevels ==
  ASSUME NEW v, NEW T, Whole(Nodes, Values, v, T), NEW held, NEW E, Levels(Nodes, v, E)
  PROVE  Levels(Nodes, Forget(v, held), E)
  <1>1. SameTree(Forget(v, held), v)
    BY ForgetLike DEF Likewise
  <1> QED
    BY <1>1, SameLevels

\* A deletion keeps a level map level, or what is deleted has two children.
LEMMA DeleteLevels ==
  ASSUME MapInv, NEW E, Spread(E), Levels(Nodes, map, E),
         MapPop \/ MapPull \/ \E k \in bound.keys : MapDelete(k)
  PROVE  StaysLevel(E)
  <1>1. \A x \in Nodes : KeyOf(x) \in bound.keys
    BY KeysAre DEF MapInv
  <1>2. PICK T : Whole(Nodes, Values, map, T)
    BY MapIsWhole
  <1>3. map.head \in Nodes \union {Null} /\ map.tail \in Nodes \union {Null} /\ T \subseteq Nodes
    BY <1>2, WholeType DEF MapsOf
  <1>4. PICK k \in bound.keys : map' = Removed(k)
    BY <1>1, <1>3 DEF MapPop, MapPull, MapDelete
  <1> DEFINE u == Remove(map, k)
             M == T \ WithKey(T, k)
  <1>5. Names(Nodes) /\ k \in Int
    BY MapIsWhole
  <1>6. Whole(Nodes, Values, u, M)
    BY <1>2, <1>5, RemoveWhole
  <1>7. map' = Forget(u, Held)
    BY <1>4 DEF Removed
  <1>8. CASE E = -1 .. 1 => Few(map.n, T, k)
    <2>1. Levels(Nodes, u, E)
      BY <1>2, <1>5, <1>8, RemoveLevels
    <2> HIDE DEF u, M
    <2> QED
      BY <1>6, <1>7, <2>1, ForgetLevels DEF StaysLevel
  <1>9. CASE ~ (E = -1 .. 1 => Few(map.n, T, k))
    <2>1. PICK x \in WithKey(T, k) : ~ AtMostOneChild(map.n, x)
      BY <1>9 DEF Few
    <2>2. x \in T /\ x \in Nodes /\ x \notin M
      BY <1>3, <2>1 DEF WithKey
    <2> HIDE DEF u, M
    <2>3. Whole(Nodes, Values, map', M)
      BY <1>6, <1>7, ForgetLike DEF Likewise
    <2>4. InMap(map, x) /\ ~ InMap(map', x)
      BY <1>2, <2>2, <2>3, WholeDepth DEF InMap
    <2>5. HasTwoChildren(x)
      BY <2>1 DEF AtMostOneChild, HasTwoChildren
    <2> QED
      BY <1>9, <2>2, <2>4, <2>5 DEF StaysLevel, Lost
  <1> QED
    BY <1>8, <1>9

\* empty, and filter before it calls its function.
LEMMA EmptyStepLevels ==
  ASSUME MapInv, NEW E, MapEmpty \/ MapFilter
  PROVE  Levels(Nodes, map', E)
  <1> DEFINE q == NodeList(map)
             v == Cleared(map)
             u == [v EXCEPT !.pending = q]
  <1>1. map' = Forget(v, Held) \/ map' = Forget(u, Held)
    BY DEF MapEmpty, MapFilter, Emptied, Cleared
  <1>2. PICK T : Whole(Nodes, Values, map, T)
    BY MapIsWhole
  <1>3. Names(Nodes)
    BY MapIsWhole
  <1>4. q \in Seq(Nodes)
    BY <1>2, <1>3, ListIs DEF Whole, ListHas
  <1>5. Whole(Nodes, Values, v, {})
    BY <1>2, ClearedWhole, WholeType
  <1> HIDE DEF v, q
  <1>6. Whole(Nodes, Values, u, {})
    BY <1>4, <1>5, PendingWhole
  <1> HIDE DEF u
  <1>7. Whole(Nodes, Values, map', {})
    BY <1>1, <1>5, <1>6, ForgetLike DEF Likewise
  <1> QED
    BY <1>7, EmptyLevels

\* filter keeps a node, or does not, or ends with an error.
LEMMA FilterReturnsLevels ==
  ASSUME MapInv, NEW E, Spread(E), Levels(Nodes, map, E), FilterReturns
  PROVE  Levels(Nodes, map', E)
  <1> DEFINE p == map.pending
             q == Tail(p)
             e == [map EXCEPT !.pending = <<>>]
             v == [map EXCEPT !.pending = q]
             x == p[1]
             k == KeyOf(x)
             z == Slot(v, k, x)
             y == PutBack(v, x)
  <1>1. p # <<>> /\ \E u \in {y, v, e} : map' = Forget(u, Held)
    BY DEF FilterReturns
  <1>2. PICK T : Whole(Nodes, Values, map, T)
    BY MapIsWhole
  <1>3. Names(Nodes) /\ bound \in Bounds
    BY MapIsWhole
  <1>4. p \in Seq(Nodes)
    BY <1>2, WholeType
  <1> HIDE DEF p
  <1>5. q \in Seq(Nodes) /\ x \in Nodes /\ <<>> \in Seq(Nodes)
    BY <1>1, <1>4
  <1> HIDE DEF q, x
  <1>6. Likewise(v, map, T) /\ Likewise(e, map, T)
    BY <1>2, <1>5, PendingLike
  <1> HIDE DEF v, e
  <1>7. /\ Whole(Nodes, Values, v, T) /\ Levels(Nodes, v, E)
        /\ Whole(Nodes, Values, e, T) /\ Levels(Nodes, e, E)
    BY <1>6, SameLevels DEF Likewise
  <1>8. CASE map' = Forget(v, Held) \/ map' = Forget(e, Held)
    BY <1>7, <1>8, ForgetLevels
  <1>9. CASE map' = Forget(y, Held)
    <2>1. k \in Int
      BY <1>5, KeysAre, MapIsWhole DEF MapInv
    <2>2. y = SetValue(z, k, v.value[x]) /\ v.value[x] \in Values
      <3>1. v.value \in [Nodes -> Values]
        BY <1>7, WholeType
      <3> QED
        BY <1>5, <3>1 DEF PutBack
    <2> HIDE DEF y
    <2>3. PICK M : Whole(Nodes, Values, z, M)
      BY <1>3, <1>5, <1>7, <2>1, SlotWhole
    <2>4. Levels(Nodes, z, E)
      BY <1>3, <1>5, <1>7, <2>1, SlotLevels
    <2> HIDE DEF z, k
    <2>5. Likewise(y, z, M)
      BY <1>3, <2>2, <2>3, SetValueLike
    <2>6. Whole(Nodes, Values, y, M) /\ Levels(Nodes, y, E)
      BY <2>4, <2>5, SameLevels DEF Likewise
    <2> QED
      BY <1>9, <2>6, ForgetLevels
  <1> QED
    BY <1>1, <1>8, <1>9

LEMMA OrderLevels ==
  ASSUME MapInv, NEW o, NEW E, Levels(Nodes, map, E), MapOrder(o)
  PROVE  Levels(Nodes, map', E)
  <1>1. map' = [map EXCEPT !.order = o]
    BY DEF MapOrder
  <1>2. map \in MapsOf(Nodes, Values)
    BY MapIsWhole, WholeType
  <1>3. SameTree(map', map)
    BY <1>1, <1>2 DEF SameTree, MapsOf
  <1> QED
    BY <1>3, SameLevels

LEMMA CallReturnsLevels ==
  ASSUME MapInv, NEW c \in Callers, NEW E, Levels(Nodes, map, E), CallReturns(c)
  PROVE  Levels(Nodes, map', E)
  <1> DEFINE x == calls[c].node
             h == {calls[d].node : d \in {e \in Callers \ {c} : calls[e].at = "calls"}}
  <1>1. PICK T : Whole(Nodes, Values, map, T)
    BY MapIsWhole
  <1>2. "null" \in Values /\ "value" \in Values
    BY MapIsWhole
  <1>3. PICK fails \in BOOLEAN : map' = Forget([map EXCEPT !.value[x] = Result(c, fails)], h)
    BY DEF CallReturns
  <1>4. map.value \in [Nodes -> Values] /\ x \in Nodes
    <2>1. map.value \in [Nodes -> Values]
      BY <1>1, WholeType
    <2>2. x \in Held /\ Held \subseteq Nodes
      BY DEF CallReturns, Held, MapInv, Sound
    <2> QED
      BY <2>1, <2>2
  <1> DEFINE r == Result(c, fails)
             f == [map.value EXCEPT ![x] = r]
             u == [map EXCEPT !.value = f]
  <1>5. r \in Values
    BY <1>2, <1>4 DEF Result
  <1>6. f \in [Nodes -> Values]
    <2> HIDE DEF r, x
    <2> QED
      BY <1>4, <1>5
  <1>7. map' = Forget(u, h)
    BY <1>3
  <1> HIDE DEF f, h
  <1>8. Whole(Nodes, Values, u, T) /\ SameShape(u, map)
    BY <1>1, <1>6, ValuesWhole
  <1> HIDE DEF u
  <1>9. SameTree(u, map)
    BY <1>8 DEF SameShape, SameTree
  <1>10. Levels(Nodes, u, E)
    BY <1>9, SameLevels
  <1> QED
    BY <1>7, <1>8, <1>10, ForgetLevels

LEMMA LevelStep ==
  ASSUME MapInv, NEW E, Spread(E), Levels(Nodes, map, E), [MapNext]_mapVars
  PROVE  StaysLevel(E)
  <1>1. CASE UNCHANGED mapVars
    <2>1. map' = map
      BY <1>1 DEF mapVars
    <2> QED
      BY <2>1 DEF StaysLevel
  <1>2. CASE MapPop \/ MapPull \/ \E k \in bound.keys : MapDelete(k)
    BY <1>2, DeleteLevels
  <1>3. CASE MapEmpty \/ MapFilter
    BY <1>3, EmptyStepLevels DEF StaysLevel
  <1>4. CASE FilterReturns
    BY <1>4, FilterReturnsLevels DEF StaysLevel
  <1>5. CASE \E k \in bound.keys : \/ MapInsert(k) \/ MapPush(k) \/ MapPut(k)
                                   \/ \E c \in Callers : IndexCall(c, k) \/ MissingCall(c, k)
    BY <1>5, SetLevels DEF StaysLevel
  <1>6. CASE \E k \in bound.keys : MapIndex(k)
    BY <1>6, IndexLevels DEF StaysLevel
  <1>7. CASE \E o \in bound.orders : MapOrder(o)
    BY <1>7, OrderLevels DEF StaysLevel
  <1>8. CASE \E c \in Callers : CallReturns(c)
    BY <1>8, CallReturnsLevels DEF StaysLevel
  <1> QED
    BY <1>1, <1>2, <1>3, <1>4, <1>5, <1>6, <1>7, <1>8 DEF MapNext

\* What ml_map_update_depth leaves alone has the depth that it gives.
LEMMA FitIsTall ==
  ASSUME NEW N, Names(N), NEW W, NEW v, NEW T, Whole(N, W, v, T), NEW x \in N
  PROVE  /\ UpdateDepth(v.n, x) = v.n <=> v.n[x].depth = Tall(v.n, x)
         /\ Balance(v.n, x) \in Int
  <1>1. v.n \in Trees(N) /\ Null \notin N
    BY WholeType, NodesAre
  <1>2. PICK rank : Ranked(N, v.n, rank)
    BY WholeRank
  <1>3. v.n[x].left # x /\ v.n[x].right # x
    <2>1. rank[x] \in Nat /\ x # Null
      BY <1>1, <1>2 DEF Ranked
    <2> QED
      BY <1>2, <2>1 DEF Ranked
  <1> DEFINE m == UpdateDepth(v.n, x)
  <1>4. /\ m \in Trees(N) /\ m[x].left = v.n[x].left /\ m[x].right = v.n[x].right
        /\ m[x].depth = Tall(v.n, x) /\ (\A y \in N \ {x} : m[y] = v.n[y])
        /\ (\A y \in N \union {Null} : y # x => Depth(m, y) = Depth(v.n, y))
        /\ Tall(m, x) = Tall(v.n, x) /\ Balance(m, x) = Balance(v.n, x)
        /\ (v.n[x].depth = Tall(v.n, x) <=> m = v.n)
    BY <1>1, <1>3, UpdateDepthSets
  <1>5. Balance(v.n, x) \in Int
    BY <1>1, SidesNat
  <1> HIDE DEF m
  <1>6. m = v.n <=> v.n[x].depth = Tall(v.n, x)
    BY <1>4
  <1> QED
    BY <1>5, <1>6 DEF m

\* The properties of Maps, in these words.
LEMMA FitIsLevel ==
  MapInv => /\ DepthsFit <=> Levels(Nodes, map, Int)
            /\ DepthsFit => (Balanced <=> Levels(Nodes, map, -1 .. 1))
  <1> SUFFICES ASSUME MapInv
               PROVE  /\ DepthsFit <=> Levels(Nodes, map, Int)
                      /\ DepthsFit => (Balanced <=> Levels(Nodes, map, -1 .. 1))
    OBVIOUS
  <1>1. PICK T : Whole(Nodes, Values, map, T)
    BY MapIsWhole
  <1>2. Names(Nodes)
    BY MapIsWhole
  <1>3. \A x \in Nodes : /\ UpdateDepth(map.n, x) = map.n <=> map.n[x].depth = Tall(map.n, x)
                         /\ Balance(map.n, x) \in Int
    BY <1>1, <1>2, FitIsTall
  <1>4. DepthsFit <=> Levels(Nodes, map, Int)
    BY <1>3 DEF DepthsFit, Levels
  <1>5. DepthsFit => (Balanced <=> Levels(Nodes, map, -1 .. 1))
    BY <1>3 DEF DepthsFit, Balanced, Levels
  <1> QED
    BY <1>4, <1>5

LEMMA MapInvStep ==
  ASSUME MapInv, [MapNext]_mapVars
  PROVE  MapInv' /\ Nodes' = Nodes
  <1>1. MapInv'
    BY MapStep
  <1>2. bound' = bound
    BY DEF MapNext, mapVars, MapPop, MapPull, MapEmpty, MapFilter, FilterReturns, MapInsert,
           MapIndex, MapPush, MapPut, MapDelete, IndexCall, MissingCall, MapOrder, CallReturns,
           Does
  <1> QED
    BY <1>1, <1>2 DEF Nodes

LEMMA BalanceStep ==
  ASSUME MapInv, DepthsFit, [MapNext]_mapVars
  PROVE  DepthsFit' /\ (Balanced /\ ~ Balanced' => Lost)
  <1>1. MapInv' /\ Nodes' = Nodes
    BY MapInvStep
  <1>2. /\ DepthsFit <=> Levels(Nodes, map, Int)
        /\ DepthsFit => (Balanced <=> Levels(Nodes, map, -1 .. 1))
    BY FitIsLevel
  <1>3. /\ DepthsFit' <=> Levels(Nodes, map', Int)
        /\ DepthsFit' => (Balanced' <=> Levels(Nodes, map', -1 .. 1))
    <2>1. (/\ DepthsFit <=> Levels(Nodes, map, Int)
           /\ DepthsFit => (Balanced <=> Levels(Nodes, map, -1 .. 1)))'
      BY <1>1, FitIsLevel, PTL
    <2> QED
      BY <1>1, <2>1
  <1>4. Spread(Int) /\ Spread(-1 .. 1) /\ Int # -1 .. 1
    BY DEF Spread
  <1>5. StaysLevel(Int)
    BY <1>2, <1>4, LevelStep
  <1>6. DepthsFit'
    BY <1>3, <1>4, <1>5 DEF StaysLevel
  <1>7. ASSUME Balanced
        PROVE  Balanced' \/ Lost
    <2>1. StaysLevel(-1 .. 1)
      BY <1>2, <1>4, <1>7, LevelStep
    <2> QED
      BY <1>3, <1>6, <2>1 DEF StaysLevel
  <1> QED
    BY <1>6, <1>7

\* In every map, through every method of ml_map.c: below the root every node has the depth
\* of its taller side and one, whatever rotations the insertions and the deletions make, and
\* a step after which two sides differ by more than one, as none did before, deletes a node
\* with two children.
THEOREM MapsKeepBalance == MapSpec => BalanceKept
  <1>1. MapInit => DepthsFit
    <2> SUFFICES ASSUME MapInit
                 PROVE  DepthsFit
      OBVIOUS
    <2> DEFINE K == [x \in Nodes |-> Blank]
               L == [x \in Nodes |-> Unlinked]
               V == [x \in Nodes |-> "null"]
    <2>0. PICK o \in bound.orders :
            map = [root |-> Null, head |-> Null, tail |-> Null, size |-> 0, order |-> o,
                   n |-> K, links |-> L, value |-> V, pending |-> <<>>]
      BY DEF MapInit
    <2> HIDE DEF L, V
    <2>1. \A x \in Nodes : map.n[x] = Blank
      <3>1. map.n = K
        <4> HIDE DEF K
        <4> QED
          BY <2>0
      <3> QED
        BY <3>1
    <2> QED
      BY <2>1 DEF DepthsFit, InMap, Blank
  <1>2. MapInv /\ DepthsFit /\ [MapNext]_mapVars
          => DepthsFit' /\ (Balanced /\ ~ Balanced' =>
                \E x \in Nodes : InMap(map, x) /\ ~ InMap(map', x) /\ HasTwoChildren(x))
    BY BalanceStep DEF Lost
  <1> QED
    BY <1>1, <1>2, MapInvHolds, PTL DEF MapSpec, BalanceKept
==============================================================================
