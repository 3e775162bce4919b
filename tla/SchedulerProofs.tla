-------------------------- MODULE SchedulerProofs ---------------------------
(***************************************************************************)
(* Theorems about the scheduler: its queue (module SchedulerQueue), for     *)
(* every block size, every supply of blocks and every set of states and     *)
(* threads; the host threads that run it (module HostThreads), for all      *)
(* finite sets of jobs and threads and any number of idle threads to keep;  *)
(* and parallel, whose handlers it runs when slices end (module Parallel).  *)
(*                                                                         *)
(* TypeOK /\ QueueInv is inductive for the queue.  The heart of it is that  *)
(* the write position can only catch up with the read position when the    *)
(* ring is full: the occupied slots would be closed under Succ, and the     *)
(* ring is one cycle (lemma ClosedSlots).                                   *)
(*                                                                         *)
(* For parallel: NumRunning counts what is on its way, and its caller is    *)
(* continued once, for sequences of every length, all limits, and however   *)
(* slices end.                                                             *)
(***************************************************************************)
EXTENDS SchedulerQueue, HostThreads, Parallel, TLAPS, FiniteSetTheorems, FunctionTheorems,
        SequenceTheorems, WellFoundedInduction

------------------------------------------------------------------------------
(* Descending indices.                                                       *)

\* A non-empty set of indices has a least element.
LEMMA LeastIndex ==
  ASSUME NEW n \in Nat, NEW T \in SUBSET (0 .. n), T # {}
  PROVE  \E m \in T : \A k \in T : m <= k
<1> DEFINE D == {0 .. k : k \in T}
           R == StrictSubsetOrdering(0 .. n)
           F == FiniteSubsetsOf(0 .. n)
<1>1. IsWellFoundedOn(R, F)
  BY FS_StrictSubsetOrderingWellFounded
<1>2. D \subseteq F
  <2>1. \A k \in T : IsFiniteSet(0 .. k) /\ (0 .. k) \subseteq (0 .. n)
    BY FS_Interval
  <2> QED BY <2>1 DEF FiniteSubsetsOf
<1>3. PICK x \in D : \A y \in D : ~ (<<y, x>> \in R)
  <2>1. D # {}
    OBVIOUS
  <2> HIDE DEF R, D, F
  <2> QED BY <1>1, <1>2, <2>1, WFMin
<1>4. PICK m \in T : x = 0 .. m
  OBVIOUS
<1>5. ASSUME NEW k \in T, k < m PROVE FALSE
  <2>1. /\ 0 .. k \in D
        /\ (0 .. k) \subseteq (0 .. m) /\ (0 .. m) \subseteq (0 .. n)
        /\ m \notin 0 .. k /\ m \in 0 .. m
    BY <1>5
  <2>2. <<0 .. k, 0 .. m>> \in R
    BY <2>1 DEF StrictSubsetOrdering
  <2> QED BY <1>3, <1>4, <2>1, <2>2
<1> QED BY <1>5

\* A set of indices that contains the predecessor of each of its members
\* contains 0 unless it is empty, and contains everything if it contains n.
LEMMA DownClosed ==
  ASSUME NEW n \in Nat, NEW T \in SUBSET (0 .. n),
         \A i \in T : i > 0 => i - 1 \in T
  PROVE  /\ T # {} => 0 \in T
         /\ n \in T => T = 0 .. n
<1>1. ASSUME T # {} PROVE 0 \in T
  <2>1. PICK m \in T : \A k \in T : m <= k
    BY <1>1, LeastIndex
  <2> QED BY <2>1
<1>2. ASSUME n \in T, T # 0 .. n PROVE FALSE
  <2> DEFINE U == {u \in 0 .. n : n - u \notin T}
  <2>1. U # {}
    <3>1. PICK j \in 0 .. n : j \notin T
      BY <1>2
    <3>2. n - j \in 0 .. n /\ n - (n - j) = j
      OBVIOUS
    <3> QED BY <3>1, <3>2
  <2>2. PICK u \in U : \A k \in U : u <= k
    BY <2>1, LeastIndex
  <2>3. u # 0
    BY <1>2
  <2>4. n - (u - 1) \in T
    BY <2>2, <2>3
  <2>5. (n - (u - 1)) - 1 = n - u /\ n - (u - 1) > 0
    OBVIOUS
  <2> QED BY <2>4, <2>5
<1> QED BY <1>1, <1>2

------------------------------------------------------------------------------
(* The ring.                                                                 *)

\* The successor of a slot of the ring is a slot of the ring.
LEMMA SuccInRing ==
  ASSUME TypeOK, RingOK, NEW s \in RingSlots
  PROVE  Succ(s) \in RingSlots
BY QueueAssumption DEF TypeOK, RingOK, RingSlots, Succ, SuccIn, Index

\* No two slots of the ring have the same successor.
LEMMA SuccInjective ==
  ASSUME TypeOK, RingOK, NEW s \in RingSlots, NEW t \in RingSlots,
         Succ(s) = Succ(t)
  PROVE  s = t
<1>1. /\ s = <<s[1], s[2]>> /\ s[1] \in Ring /\ s[2] \in 0 .. BlockSize - 1
      /\ t = <<t[1], t[2]>> /\ t[1] \in Ring /\ t[2] \in 0 .. BlockSize - 1
  BY DEF RingSlots, Index
<1>2. /\ Succ(s)[1] = IF s[2] = 0 THEN BlockNext[s[1]] ELSE s[1]
      /\ Succ(s)[2] = IF s[2] = 0 THEN BlockSize - 1 ELSE s[2] - 1
      /\ Succ(t)[1] = IF t[2] = 0 THEN BlockNext[t[1]] ELSE t[1]
      /\ Succ(t)[2] = IF t[2] = 0 THEN BlockSize - 1 ELSE t[2] - 1
  BY DEF Succ, SuccIn
<1>3. s[2] = t[2]
  BY <1>1, <1>2, QueueAssumption
<1>4. s[1] = t[1]
  BY <1>1, <1>2, <1>3 DEF RingOK
<1> QED BY <1>1, <1>3, <1>4

\* Whatever is closed under Succ is everything: the ring is one cycle.
LEMMA ClosedSlots ==
  ASSUME TypeOK, RingOK,
         NEW O \in SUBSET RingSlots, O # {}, \A s \in O : Succ(s) \in O
  PROVE  O = RingSlots
<1> DEFINE At(b) == {i \in Index : <<b, i>> \in O}
           S == {b \in Ring : At(b) # {}}
<1>0. BlockSize - 1 \in Nat /\ Index = 0 .. BlockSize - 1
  BY QueueAssumption DEF Index
<1>1. ASSUME NEW b \in Ring
      PROVE  /\ At(b) # {} => 0 \in At(b)
             /\ BlockSize - 1 \in At(b) => At(b) = Index
  <2>1. ASSUME NEW i \in At(b), i > 0 PROVE i - 1 \in At(b)
    <3>1. Succ(<<b, i>>) = <<b, i - 1>>
      BY <2>1 DEF Succ, SuccIn, Index
    <3>2. i - 1 \in Index
      BY <2>1, QueueAssumption DEF Index
    <3> QED BY <3>1, <3>2, <2>1
  <2> DEFINE T == At(b)
             n == BlockSize - 1
  <2>2. n \in Nat /\ T \in SUBSET (0 .. n) /\ \A i \in T : i > 0 => i - 1 \in T
    BY <1>0, <2>1
  <2>3. (T # {} => 0 \in T) /\ (n \in T => T = 0 .. n)
    <3> HIDE DEF T, n
    <3> QED BY <2>2, DownClosed
  <2> QED BY <1>0, <2>3
<1>2. ASSUME NEW b \in S PROVE BlockSize - 1 \in At(BlockNext[b])
  <2>1. 0 \in At(b)
    BY <1>1
  <2>2. Succ(<<b, 0>>) = <<BlockNext[b], BlockSize - 1>>
    BY DEF Succ, SuccIn
  <2> QED BY <1>0, <2>1, <2>2
<1>3. \A b \in S : BlockNext[b] \in S
  BY <1>2 DEF RingOK
<1>4. S # {}
  <2>1. PICK s \in O : TRUE
    OBVIOUS
  <2>2. s = <<s[1], s[2]>> /\ s[1] \in Ring /\ s[2] \in Index
    BY DEF RingSlots
  <2> QED BY <2>2
<1>5. S = Ring
  <2> HIDE DEF S
  <2>1. S \in SUBSET Ring
    BY DEF S
  <2> QED BY <1>3, <1>4, <2>1 DEF RingOK, SingleCycle
<1>6. ASSUME NEW c \in Ring PROVE At(c) = Index
  <2> DEFINE N == {BlockNext[b] : b \in Ring}
  <2>1. N \in SUBSET Ring /\ N # {} /\ \A b \in N : BlockNext[b] \in N
    BY DEF RingOK
  <2>2. N = Ring
    <3> HIDE DEF N
    <3> QED BY <2>1 DEF RingOK, SingleCycle
  <2>3. PICK b \in Ring : c = BlockNext[b]
    BY <2>2
  <2> QED BY <1>1, <1>2, <1>5, <2>3
<1>7. ASSUME NEW s \in RingSlots PROVE s \in O
  <2>1. s = <<s[1], s[2]>> /\ s[1] \in Ring /\ s[2] \in Index
    BY DEF RingSlots
  <2> QED BY <1>6, <2>1
<1> QED BY <1>7

------------------------------------------------------------------------------
(* The read and the write position.                                          *)

\* Only a full ring has something in its write slot, and then the oldest state
\* is the one in it.
LEMMA OccupiedWriteSlot ==
  ASSUME TypeOK, QueueInv, Mem[WriteSlot] # Null
  PROVE  ReadSlot = WriteSlot /\ Space = 0
<1>1. /\ ReadSlot \in RingSlots /\ WriteSlot \in RingSlots
      /\ RingSlots \subseteq Slots
  BY DEF TypeOK, ReadSlot, WriteSlot, RingSlots, Slots
<1>2. PICK k \in 1 .. Fill : order[k] = WriteSlot
  BY <1>1 DEF QueueInv, OrderOK
<1>3. Fill \in Nat /\ Fill > 0
  BY <1>2 DEF TypeOK
<1>4. k = 1
  <2> SUFFICES ASSUME k # 1 PROVE FALSE
    OBVIOUS
  <2>1. k - 1 \in 1 .. Fill - 1 /\ k - 1 \in 1 .. Fill /\ Fill \in 1 .. Fill
    BY <1>2, <1>3
  <2>2. Succ(order[k - 1]) = Succ(order[Fill])
    BY <1>2, <1>3, <2>1 DEF QueueInv, OrderOK
  <2>3. order[k - 1] \in RingSlots /\ order[Fill] \in RingSlots
    BY <2>1 DEF QueueInv, OrderOK
  <2>4. order[k - 1] = order[Fill]
    BY <2>2, <2>3, SuccInjective DEF QueueInv
  <2>5. k - 1 = Fill
    BY <2>1, <2>4 DEF QueueInv, OrderOK
  <2> QED BY <1>3, <2>5
<1>5. ReadSlot = WriteSlot
  BY <1>2, <1>3, <1>4 DEF QueueInv, OrderOK
<1>6. Space = 0
  <2> DEFINE O == {order[j] : j \in 1 .. Fill}
  <2>1. O \in SUBSET RingSlots /\ O # {}
    BY <1>3 DEF QueueInv, OrderOK
  <2>2. ASSUME NEW s \in O PROVE Succ(s) \in O
    <3>1. PICK j \in 1 .. Fill : s = order[j]
      OBVIOUS
    <3>2. CASE j = Fill
      <4>1. Succ(s) = order[1]
        BY <1>3, <1>5, <3>1, <3>2 DEF QueueInv, OrderOK
      <4> QED BY <1>3, <4>1
    <3>3. CASE j # Fill
      <4>1. j \in 1 .. Fill - 1 /\ j + 1 \in 1 .. Fill
        BY <1>3, <3>3
      <4>2. Succ(s) = order[j + 1]
        BY <3>1, <4>1 DEF QueueInv, OrderOK
      <4> QED BY <4>1, <4>2
    <3> QED BY <3>2, <3>3
  <2>3. O = RingSlots
    <3> HIDE DEF O
    <3> QED BY <2>1, <2>2, ClosedSlots DEF QueueInv
  <2>4. EmptySlots = {}
    BY <2>3 DEF EmptySlots, QueueInv, OrderOK
  <2> QED BY <2>4, FS_EmptySet DEF QueueInv, SpaceCounts
<1> QED BY <1>5, <1>6

\* The free slots are finitely many.
LEMMA EmptySlotsFinite ==
  ASSUME TypeOK, RingOK
  PROVE  IsFiniteSet(EmptySlots)
<1>1. IsFiniteSet(Index)
  BY QueueAssumption, FS_Interval DEF Index
<1>2. IsFiniteSet(RingSlots)
  BY <1>1, FS_Product DEF RingOK, RingSlots
<1>3. EmptySlots \in SUBSET RingSlots
  BY DEF EmptySlots
<1> QED BY <1>2, <1>3, FS_Subset

\* A ring without space has something in every slot, and its positions meet.
LEMMA FullRing ==
  ASSUME TypeOK, QueueInv, Space = 0
  PROVE  /\ \A s \in RingSlots : Mem[s] # Null
         /\ ReadBlock = WriteBlock /\ ReadIndex = WriteIndex
         /\ Fill > 0
<1>1. EmptySlots = {}
  BY EmptySlotsFinite, FS_EmptySet DEF QueueInv, SpaceCounts
<1>2. \A s \in RingSlots : Mem[s] # Null
  BY <1>1 DEF EmptySlots
<1>3. WriteSlot \in RingSlots /\ RingSlots \subseteq Slots
  BY DEF TypeOK, WriteSlot, RingSlots, Slots
<1>4. ReadSlot = WriteSlot
  BY <1>2, <1>3, OccupiedWriteSlot
<1>5. Fill > 0
  BY <1>2, <1>3 DEF QueueInv, OrderOK, TypeOK
<1> QED BY <1>2, <1>4, <1>5 DEF ReadSlot, WriteSlot

------------------------------------------------------------------------------
(* Types.                                                                    *)

\* Writing keeps the types of the queue's fields.
LEMMA WriteType ==
  ASSUME TypeOK, NEW e \in States, Write(e)
  PROVE  /\ Ring' \in SUBSET Blocks /\ BlockNext' \in [Blocks -> Blocks]
         /\ Mem' \in [Slots -> States \union {Null}]
         /\ WriteBlock' \in Blocks /\ ReadBlock' \in Ring'
         /\ WriteIndex' \in Index /\ ReadIndex' \in Index
         /\ Space' \in Nat /\ Fill' \in Nat /\ order' \in Seq(Slots)
<1>1. WriteSlot \in Slots /\ BlockSize - 1 \in Index /\ BlockSize \in Nat
  BY QueueAssumption DEF TypeOK, WriteSlot, Slots, Index
<1>2. CASE WriteInSpace(e)
  <2>1. order' \in Seq(Slots)
    BY <1>1, <1>2, AppendProperties DEF WriteInSpace, TypeOK
  <2>2. Mem' \in [Slots -> States \union {Null}]
    BY <1>1, <1>2 DEF WriteInSpace, Store, TypeOK
  <2>3. WriteBlock' \in Blocks /\ WriteIndex' \in Index
    BY <1>1, <1>2 DEF WriteInSpace, Store, TypeOK, SuccIn, WriteSlot, Index
  <2> QED BY <1>2, <2>1, <2>2, <2>3 DEF WriteInSpace, Store, TypeOK
<1>3. CASE WriteGrowing(e)
  <2>1. PICK b \in Blocks \ Ring :
          /\ Store(e, GrownMem(b), GrownNext(b))
          /\ BlockNext' = GrownNext(b) /\ Ring' = Ring \union {b}
          /\ ReadBlock' = b /\ Space' = BlockSize - 1
          /\ order' = Append(GrownOrder(b), WriteSlot) /\ ReadIndex' = ReadIndex
    BY <1>3 DEF WriteGrowing
  <2>2. GrownNext(b) \in [Blocks -> Blocks]
    BY DEF GrownNext, TypeOK
  <2>3. GrownMem(b) \in [Slots -> States \union {Null}]
    <3>1. ASSUME NEW s \in Slots, s[1] = b, s[2] <= ReadIndex
          PROVE  <<WriteBlock, s[2]>> \in Slots
      BY DEF Slots, TypeOK
    <3> QED BY <3>1 DEF GrownMem, TypeOK
  <2>4. GrownOrder(b) \in Seq(Slots)
    <3>1. ASSUME NEW k \in DOMAIN order PROVE <<b, order[k][2]>> \in Slots /\ order[k] \in Slots
      BY LenProperties DEF TypeOK, Slots
    <3>2. /\ GrownOrder(b) \in [1 .. Len(order) -> Slots] /\ Len(order) \in Nat
      BY <3>1, LenProperties DEF GrownOrder, TypeOK
    <3> QED BY <3>2
  <2>5. order' \in Seq(Slots)
    BY <1>1, <2>1, <2>4, AppendProperties
  <2>6. Mem' \in [Slots -> States \union {Null}] /\ Fill' \in Nat
    BY <1>1, <2>1, <2>3 DEF Store, TypeOK
  <2>7. WriteBlock' \in Blocks /\ WriteIndex' \in Index
    BY <1>1, <2>1, <2>2 DEF Store, TypeOK, SuccIn, WriteSlot, Index
  <2> QED BY <1>1, <2>1, <2>2, <2>5, <2>6, <2>7 DEF TypeOK, Index
<1> QED BY <1>2, <1>3 DEF Write

------------------------------------------------------------------------------
(* The three operations preserve QueueInv.                                   *)

\* A read frees the slot of the oldest state and moves on to the next one.
LEMMA ReadStep ==
  ASSUME TypeOK, QueueInv, Fill > 0, Read
  PROVE  /\ QueueInv' /\ ReadBlock' \in Ring' /\ ReadIndex' \in Index
         /\ order' \in Seq(Slots) /\ ReadSlot = order[1]
         /\ \A k \in 1 .. Fill - 1 : order'[k] = order[k + 1] /\ order[k + 1] # ReadSlot
<1>1. /\ Fill \in Nat /\ Len(order) = Fill /\ order # <<>>
      /\ ReadSlot \in RingSlots /\ RingSlots \subseteq Slots
  <2>1. Len(order) = Fill /\ Fill \in Nat
    BY DEF TypeOK, QueueInv, OrderOK
  <2>2. order # <<>>
    BY <2>1, EmptySeq
  <2> QED BY <2>1, <2>2 DEF TypeOK, ReadSlot, RingSlots, Slots
<1>2. /\ ReadSlot = order[1] /\ Succ(order[Fill]) = WriteSlot
  BY DEF QueueInv, OrderOK
<1>3. /\ order' \in Seq(Slots) /\ Len(order') = Fill - 1 /\ Fill' = Fill - 1
      /\ \A k \in 1 .. Fill - 1 : order'[k] = order[k + 1]
  BY <1>1, HeadTailProperties DEF Read, TypeOK
<1>4. /\ Mem' = [Mem EXCEPT ![ReadSlot] = Null]
      /\ Mem' = [s \in Slots |-> IF s = ReadSlot THEN Null ELSE Mem[s]]
  BY DEF Read, TypeOK
<1>5. \A k \in 1 .. Fill - 1 : order[k + 1] # ReadSlot
  BY <1>1, <1>2 DEF QueueInv, OrderOK
<1>6. ReadSlot' = Succ(ReadSlot) /\ ReadSlot' \in RingSlots
  <2>1. Succ(ReadSlot) \in RingSlots
    BY <1>1, SuccInRing DEF QueueInv
  <2> QED BY <2>1 DEF Read, ReadSlot, RingSlots
<1>7. /\ RingSlots' = RingSlots /\ WriteSlot' = WriteSlot
      /\ \A s : Succ(s)' = Succ(s)
  BY DEF Read, RingSlots, WriteSlot, Succ, SuccIn
<1>8. OrderOK'
  <2>1. \A k \in 1 .. Fill' : order'[k] \in RingSlots' /\ Mem'[order'[k]] # Null
    BY <1>1, <1>3, <1>4, <1>5, <1>7 DEF QueueInv, OrderOK
  <2>2. \A j, k \in 1 .. Fill' : order'[j] = order'[k] => j = k
    <3>1. ASSUME NEW j \in 1 .. Fill', NEW k \in 1 .. Fill', order'[j] = order'[k]
          PROVE  j = k
      <4>1. j + 1 \in 1 .. Fill /\ k + 1 \in 1 .. Fill /\ order[j + 1] = order[k + 1]
        BY <1>1, <1>3, <3>1
      <4>2. j + 1 = k + 1
        BY <4>1 DEF QueueInv, OrderOK
      <4> QED BY <4>2
    <3> QED BY <3>1
  <2>3. \A k \in 1 .. Fill' - 1 : Succ(order'[k]) = order'[k + 1]
    BY <1>1, <1>3 DEF QueueInv, OrderOK
  <2>4. Fill' > 0 => order'[1] = ReadSlot' /\ Succ(order'[Fill']) = WriteSlot
    <3> SUFFICES ASSUME Fill' > 0 PROVE order'[1] = ReadSlot' /\ Succ(order'[Fill']) = WriteSlot
      OBVIOUS
    <3>1. order'[1] = order[2] /\ Succ(order[1]) = order[2]
      BY <1>1, <1>3 DEF QueueInv, OrderOK
    <3>2. order'[Fill'] = order[Fill]
      BY <1>1, <1>3
    <3> QED BY <1>2, <1>6, <3>1, <3>2
  <2>5. Fill' = 0 => ReadSlot' = WriteSlot
    <3> SUFFICES ASSUME Fill' = 0 PROVE ReadSlot' = WriteSlot
      OBVIOUS
    <3>1. Fill = 1
      BY <1>1, <1>3
    <3> QED BY <1>2, <1>6, <3>1
  <2>6. \A s \in Slots : Mem'[s] # Null => \E k \in 1 .. Fill' : order'[k] = s
    <3>1. ASSUME NEW s \in Slots, Mem'[s] # Null
          PROVE  \E k \in 1 .. Fill' : order'[k] = s
      <4>1. s # ReadSlot /\ Mem[s] # Null
        BY <1>4, <3>1
      <4>2. PICK k \in 1 .. Fill : order[k] = s
        BY <4>1 DEF QueueInv, OrderOK
      <4>3. k # 1
        BY <1>2, <4>1, <4>2
      <4>4. k - 1 \in 1 .. Fill' /\ order'[k - 1] = order[k]
        BY <1>1, <1>3, <4>3
      <4> QED BY <4>2, <4>4
    <3> QED BY <3>1
  <2>7. Len(order') = Fill'
    BY <1>3
  <2> QED BY <1>7, <2>1, <2>2, <2>3, <2>4, <2>5, <2>6, <2>7 DEF OrderOK
<1>9. SpaceCounts'
  <2>1. Mem[ReadSlot] # Null
    BY <1>1, <1>2 DEF QueueInv, OrderOK
  <2>2. EmptySlots' = EmptySlots \union {ReadSlot} /\ ReadSlot \notin EmptySlots
    BY <1>1, <1>4, <1>7, <2>1 DEF EmptySlots
  <2> QED BY <2>2, EmptySlotsFinite, FS_AddElement DEF SpaceCounts, QueueInv, Read
<1>10. RingOK'
  BY DEF Read, QueueInv, RingOK, SingleCycle
<1>11. ReadBlock' \in Ring' /\ ReadIndex' \in Index
  BY <1>6 DEF ReadSlot, RingSlots, Read
<1> QED BY <1>2, <1>3, <1>5, <1>8, <1>9, <1>10, <1>11 DEF QueueInv

\* A write into a ring with space fills a free slot behind the newest state.
LEMMA WriteInSpaceStep ==
  ASSUME TypeOK, QueueInv, NEW e \in States, WriteInSpace(e)
  PROVE  /\ QueueInv' /\ WriteBlock' \in Ring'
         /\ Len(order') = Fill + 1 /\ order'[Fill + 1] = WriteSlot
         /\ Mem'[WriteSlot] = e
         /\ \A k \in 1 .. Fill : order'[k] = order[k] /\ Mem'[order[k]] = Mem[order[k]]
<1>1. /\ Fill \in Nat /\ Len(order) = Fill /\ Fill' = Fill + 1
      /\ WriteSlot \in RingSlots /\ RingSlots \subseteq Slots
  BY DEF TypeOK, QueueInv, OrderOK, WriteSlot, RingSlots, Slots, WriteInSpace, Store
<1>2. Mem[WriteSlot] = Null
  BY OccupiedWriteSlot DEF WriteInSpace, TypeOK
<1>3. /\ Len(order') = Fill + 1 /\ order'[Fill + 1] = WriteSlot
      /\ \A k \in 1 .. Fill : order'[k] = order[k]
  BY <1>1, AppendProperties DEF WriteInSpace, TypeOK
<1>4. /\ Mem' = [s \in Slots |-> IF s = WriteSlot THEN e ELSE Mem[s]]
      /\ Mem'[WriteSlot] = e /\ e # Null
  BY <1>1, QueueAssumption DEF WriteInSpace, Store, TypeOK
<1>5. \A k \in 1 .. Fill : order[k] # WriteSlot /\ order[k] \in RingSlots
  BY <1>2 DEF QueueInv, OrderOK
<1>6. WriteSlot' = Succ(WriteSlot) /\ WriteSlot' \in RingSlots
  <2>1. Succ(WriteSlot) \in RingSlots
    BY <1>1, SuccInRing DEF QueueInv
  <2> QED BY <2>1 DEF WriteInSpace, Store, WriteSlot, Succ, SuccIn, RingSlots
<1>7. /\ RingSlots' = RingSlots /\ ReadSlot' = ReadSlot
      /\ \A s : Succ(s)' = Succ(s)
  BY DEF WriteInSpace, RingSlots, ReadSlot, Succ, SuccIn
<1>8. OrderOK'
  <2>1. \A k \in 1 .. Fill' : order'[k] \in RingSlots' /\ Mem'[order'[k]] # Null
    BY <1>1, <1>3, <1>4, <1>5, <1>7 DEF QueueInv, OrderOK
  <2>2. \A j, k \in 1 .. Fill' : order'[j] = order'[k] => j = k
    BY <1>1, <1>3, <1>5 DEF QueueInv, OrderOK
  <2>3. \A k \in 1 .. Fill' - 1 : Succ(order'[k]) = order'[k + 1]
    <3>1. ASSUME NEW k \in 1 .. Fill' - 1 PROVE Succ(order'[k]) = order'[k + 1]
      <4>1. CASE k = Fill
        BY <1>1, <1>3, <4>1 DEF QueueInv, OrderOK
      <4>2. CASE k # Fill
        <5>1. k \in 1 .. Fill - 1 /\ k \in 1 .. Fill /\ k + 1 \in 1 .. Fill
          BY <1>1, <4>2
        <5> QED BY <1>3, <5>1 DEF QueueInv, OrderOK
      <4> QED BY <4>1, <4>2
    <3> QED BY <3>1
  <2>4. order'[1] = ReadSlot' /\ Succ(order'[Fill']) = WriteSlot'
    <3>1. CASE Fill = 0
      BY <1>1, <1>3, <1>6, <1>7, <3>1 DEF QueueInv, OrderOK
    <3>2. CASE Fill > 0
      BY <1>1, <1>3, <1>6, <1>7, <3>2 DEF QueueInv, OrderOK
    <3> QED BY <1>1, <3>1, <3>2
  <2>5. \A s \in Slots : Mem'[s] # Null => \E k \in 1 .. Fill' : order'[k] = s
    <3>1. ASSUME NEW s \in Slots, Mem'[s] # Null
          PROVE  \E k \in 1 .. Fill' : order'[k] = s
      <4>1. CASE s = WriteSlot
        BY <1>1, <1>3, <4>1
      <4>2. CASE s # WriteSlot
        <5>1. PICK k \in 1 .. Fill : order[k] = s
          BY <1>4, <3>1, <4>2 DEF QueueInv, OrderOK
        <5> QED BY <1>1, <1>3, <5>1
      <4> QED BY <4>1, <4>2
    <3> QED BY <3>1
  <2>6. Len(order') = Fill' /\ Fill' # 0
    BY <1>1, <1>3
  <2>7. BlockNext' = BlockNext
    BY DEF WriteInSpace
  <2> QED BY <2>1, <2>2, <2>3, <2>4, <2>5, <2>6, <2>7 DEF OrderOK, Succ
<1>9. SpaceCounts'
  <2>1. EmptySlots' = EmptySlots \ {WriteSlot} /\ WriteSlot \in EmptySlots
    BY <1>1, <1>2, <1>4, <1>7 DEF EmptySlots
  <2> QED BY <2>1, EmptySlotsFinite, FS_RemoveElement
          DEF SpaceCounts, QueueInv, WriteInSpace
<1>10. RingOK'
  BY DEF WriteInSpace, QueueInv, RingOK, SingleCycle
<1>11. WriteBlock' \in Ring'
  BY <1>6 DEF WriteSlot, RingSlots, WriteInSpace
<1>12. \A k \in 1 .. Fill : Mem'[order[k]] = Mem[order[k]]
  BY <1>1, <1>4, <1>5
<1> QED BY <1>3, <1>4, <1>8, <1>9, <1>10, <1>11, <1>12 DEF QueueInv

\* Growing inserts the new block between the write block and its successor.
LEMMA GrowRing ==
  ASSUME TypeOK, RingOK, NEW b \in Blocks \ Ring,
         BlockNext' = GrownNext(b), Ring' = Ring \union {b}
  PROVE  RingOK'
<1>1. /\ WriteBlock \in Ring /\ Ring \subseteq Blocks /\ b \notin Ring
      /\ BlockNext'[b] = BlockNext[WriteBlock] /\ BlockNext'[WriteBlock] = b
      /\ \A c \in Ring \ {WriteBlock} : BlockNext'[c] = BlockNext[c]
  BY DEF GrownNext, TypeOK
<1>2. IsFiniteSet(Ring')
  BY FS_AddElement DEF RingOK
<1>3. \A c \in Ring' : BlockNext'[c] \in Ring'
  BY <1>1 DEF RingOK
<1>4. \A c, d \in Ring' : BlockNext'[c] = BlockNext'[d] => c = d
  BY <1>1 DEF RingOK
<1>5. SingleCycle'
  <2>1. ASSUME NEW T \in SUBSET Ring', T # {}, \A c \in T : BlockNext'[c] \in T
        PROVE  T = Ring'
    <3> DEFINE S == T \ {b}
    <3>1. S \in SUBSET Ring
      OBVIOUS
    <3>2. S # {}
      <4>1. PICK c \in T : TRUE
        BY <2>1
      <4>2. CASE c = b
        <5>1. BlockNext[WriteBlock] \in T /\ BlockNext[WriteBlock] # b
          BY <1>1, <2>1, <4>2 DEF RingOK
        <5> QED BY <5>1
      <4>3. CASE c # b
        BY <4>3
      <4> QED BY <4>2, <4>3
    <3>3. ASSUME NEW c \in S PROVE BlockNext[c] \in S
      <4>1. c \in T /\ c \in Ring /\ BlockNext[c] # b
        BY <1>1, <3>1 DEF RingOK
      <4>2. CASE c = WriteBlock
        <5>1. b \in T
          BY <1>1, <2>1, <4>1, <4>2
        <5>2. BlockNext[WriteBlock] \in T
          BY <1>1, <2>1, <5>1
        <5> QED BY <4>1, <4>2, <5>2
      <4>3. CASE c # WriteBlock
        BY <1>1, <2>1, <4>1, <4>3
      <4> QED BY <4>2, <4>3
    <3>4. S = Ring
      <4> HIDE DEF S
      <4> QED BY <3>1, <3>2, <3>3 DEF RingOK, SingleCycle
    <3>5. WriteBlock \in T
      BY <1>1, <3>4
    <3>6. b \in T
      BY <1>1, <2>1, <3>5
    <3> QED BY <3>4, <3>6
  <2> QED BY <2>1 DEF SingleCycle
<1> QED BY <1>2, <1>3, <1>4, <1>5 DEF RingOK

\* Where a queued state is after the growth: moved to the new block, or where
\* it was.
Moved(b, s) == IF Moves(s) THEN <<b, s[2]>> ELSE s

\* The growth keeps every queued state, in its place in the order.
LEMMA GrownContents ==
  ASSUME TypeOK, QueueInv, Space = 0, NEW b \in Blocks \ Ring
  PROVE  /\ GrownOrder(b) \in Seq(Slots) /\ Len(GrownOrder(b)) = Fill
         /\ \A k \in 1 .. Fill :
               /\ GrownOrder(b)[k] = Moved(b, order[k])
               /\ GrownOrder(b)[k] \in (Ring \union {b}) \X Index
               /\ GrownOrder(b)[k] # WriteSlot
               /\ GrownMem(b)[GrownOrder(b)[k]] = Mem[order[k]]
<1>1. /\ Len(order) = Fill /\ Fill \in Nat /\ DOMAIN order = 1 .. Fill
      /\ \A k \in 1 .. Fill : order[k] \in RingSlots
      /\ ReadIndex = WriteIndex /\ ReadIndex \in Index /\ WriteBlock \in Ring
      /\ RingSlots \subseteq Slots
  BY FullRing, LenProperties DEF TypeOK, QueueInv, OrderOK, RingSlots, Slots
<1>2. ASSUME NEW k \in 1 .. Fill
      PROVE  /\ GrownOrder(b)[k] = Moved(b, order[k])
             /\ GrownOrder(b)[k] \in (Ring \union {b}) \X Index
             /\ GrownOrder(b)[k] \in Slots
             /\ GrownOrder(b)[k] # WriteSlot
             /\ GrownMem(b)[GrownOrder(b)[k]] = Mem[order[k]]
  <2>1. PICK c \in Ring, i \in Index : order[k] = <<c, i>>
    BY <1>1 DEF RingSlots
  <2>2. GrownOrder(b)[k] = Moved(b, order[k])
    BY <1>1 DEF GrownOrder, Moved
  <2>3. CASE c = WriteBlock /\ i <= ReadIndex
    <3>1. GrownOrder(b)[k] = <<b, i>>
      BY <2>1, <2>2, <2>3 DEF Moved, Moves
    <3>2. <<b, i>> \in Slots /\ <<b, i>> # WriteSlot
      BY <1>1 DEF Slots, WriteSlot
    <3>3. GrownMem(b)[<<b, i>>] = Mem[order[k]]
      BY <2>1, <2>3, <3>2 DEF GrownMem
    <3> QED BY <2>2, <3>1, <3>2, <3>3
  <2>4. CASE ~ (c = WriteBlock /\ i <= ReadIndex)
    <3>1. GrownOrder(b)[k] = <<c, i>> /\ ~ Moves(<<c, i>>)
      BY <2>1, <2>2, <2>4 DEF Moved, Moves
    <3>2. <<c, i>> \in Slots /\ <<c, i>> # WriteSlot /\ c # b
      BY <1>1, <2>4 DEF Slots, WriteSlot, TypeOK, Index
    <3>3. GrownMem(b)[<<c, i>>] = Mem[order[k]]
      BY <2>1, <3>1, <3>2 DEF GrownMem
    <3> QED BY <2>1, <2>2, <3>1, <3>2, <3>3
  <2> QED BY <2>3, <2>4
<1>3. GrownOrder(b) \in [1 .. Fill -> Slots]
  BY <1>1, <1>2 DEF GrownOrder
<1>4. GrownOrder(b) \in Seq(Slots) /\ Len(GrownOrder(b)) = Fill
  BY <1>1, <1>3
<1> QED BY <1>2, <1>4

\* The growth keeps every slot's successor, except that the slot before the
\* read position now leads to the write position.
LEMMA GrownSucc ==
  ASSUME TypeOK, RingOK, ReadIndex = WriteIndex,
         NEW b \in Blocks \ Ring, NEW s \in RingSlots
  PROVE  SuccIn(GrownNext(b), Moved(b, s))
           = IF Succ(s) = WriteSlot THEN WriteSlot ELSE Moved(b, Succ(s))
<1> DEFINE L == GrownNext(b)
           r == ReadIndex
<1>1. PICK c \in Ring, i \in 0 .. BlockSize - 1 : s = <<c, i>>
  BY DEF RingSlots, Index
<1>2. /\ L[b] = BlockNext[WriteBlock] /\ L[WriteBlock] = b
      /\ \A d \in Ring \ {WriteBlock} : L[d] = BlockNext[d]
  BY DEF GrownNext, TypeOK
<1>3. r \in 0 .. BlockSize - 1 /\ BlockSize \in Nat \ {0} /\ WriteSlot = <<WriteBlock, r>>
  BY QueueAssumption DEF TypeOK, Index, WriteSlot
<1>4. CASE i = 0
  <2>1. Succ(s) = <<BlockNext[c], BlockSize - 1>>
    BY <1>1, <1>4 DEF Succ, SuccIn
  <2>2. SuccIn(L, Moved(b, s)) = <<BlockNext[c], BlockSize - 1>>
    <3>1. CASE c = WriteBlock
      <4>1. Moved(b, s) = <<b, 0>>
        BY <1>1, <1>3, <1>4, <3>1 DEF Moved, Moves
      <4> QED BY <1>2, <3>1, <4>1 DEF SuccIn
    <3>2. CASE c # WriteBlock
      <4>1. Moved(b, s) = <<c, 0>>
        BY <1>1, <1>4, <3>2 DEF Moved, Moves
      <4> QED BY <1>2, <3>2, <4>1 DEF SuccIn
    <3> QED BY <3>1, <3>2
  <2>3. CASE BlockNext[c] = WriteBlock /\ BlockSize - 1 <= r
    BY <1>3, <2>1, <2>2, <2>3
  <2>4. CASE ~ (BlockNext[c] = WriteBlock /\ BlockSize - 1 <= r)
    <3>1. Moved(b, <<BlockNext[c], BlockSize - 1>>) = <<BlockNext[c], BlockSize - 1>>
      BY <2>4 DEF Moved, Moves
    <3> QED BY <2>1, <2>2, <3>1
  <2> QED BY <2>3, <2>4
<1>5. CASE i > 0
  <2>1. Succ(s) = <<c, i - 1>>
    BY <1>1, <1>5 DEF Succ, SuccIn
  <2>2. CASE c = WriteBlock /\ i <= r
    <3>1. Moved(b, s) = <<b, i>> /\ Moved(b, Succ(s)) = <<b, i - 1>>
      BY <1>1, <1>3, <2>1, <2>2 DEF Moved, Moves
    <3>2. SuccIn(L, <<b, i>>) = <<b, i - 1>>
      BY <1>5 DEF SuccIn
    <3>3. Succ(s) # WriteSlot
      BY <1>3, <2>1, <2>2
    <3> QED BY <3>1, <3>2, <3>3
  <2>3. CASE ~ (c = WriteBlock /\ i <= r)
    <3>1. Moved(b, s) = <<c, i>>
      BY <1>1, <2>3 DEF Moved, Moves
    <3>2. SuccIn(L, <<c, i>>) = <<c, i - 1>>
      BY <1>5 DEF SuccIn
    <3>3. Succ(s) = WriteSlot \/ Moved(b, Succ(s)) = Succ(s)
      BY <1>3, <2>1, <2>3 DEF Moved, Moves
    <3> QED BY <2>1, <3>1, <3>2, <3>3
  <2> QED BY <2>2, <2>3
<1> QED BY <1>1, <1>4, <1>5

\* Two slots of the ring do not move to the same slot.
LEMMA MovedInjective ==
  ASSUME TypeOK, NEW b \in Blocks \ Ring,
         NEW s \in RingSlots, NEW t \in RingSlots, Moved(b, s) = Moved(b, t)
  PROVE  s = t
<1>1. /\ s = <<s[1], s[2]>> /\ s[1] \in Ring
      /\ t = <<t[1], t[2]>> /\ t[1] \in Ring
  BY DEF RingSlots
<1> QED BY <1>1 DEF Moved, Moves

\* The free slots after a growth and its store: all but one of a block's worth.
LEMMA GrownSpace ==
  ASSUME TypeOK, QueueInv, Space = 0, NEW b \in Blocks \ Ring, NEW e \in States,
         Mem' = [GrownMem(b) EXCEPT ![WriteSlot] = e], Ring' = Ring \union {b}
  PROVE  Cardinality(EmptySlots') = BlockSize - 1
<1> DEFINE r == ReadIndex
           J == Index \ {r}
           f == [i \in J |-> IF i > r THEN <<b, i>> ELSE <<WriteBlock, i>>]
<1>1. /\ r \in Index /\ WriteSlot = <<WriteBlock, r>> /\ WriteBlock \in Ring
      /\ \A s \in RingSlots : Mem[s] # Null
      /\ Ring \subseteq Blocks /\ e # Null
  BY FullRing, QueueAssumption DEF TypeOK, WriteSlot
<1>2. IsFiniteSet(J) /\ Cardinality(J) = BlockSize - 1
  <2>1. IsFiniteSet(Index) /\ Cardinality(Index) = BlockSize
    BY QueueAssumption, FS_Interval DEF Index
  <2> QED BY <1>1, <2>1, FS_RemoveElement
<1>3. \A s \in Slots : Mem'[s] = IF s = WriteSlot THEN e ELSE GrownMem(b)[s]
  BY DEF GrownMem
<1>4. \A s \in RingSlots' : s \in Slots
  BY <1>1 DEF RingSlots, Slots
<1>5. \A i \in Index : Mem[<<b, i>>] = Null
  <2>1. \A s \in Slots : Mem[s] # Null => s \in RingSlots
    BY DEF QueueInv, OrderOK
  <2> QED BY <2>1 DEF RingSlots, Slots
<1>6. ASSUME NEW i \in J PROVE f[i] \in EmptySlots'
  <2>1. CASE i > r
    <3>1. f[i] = <<b, i>> /\ <<b, i>> \in RingSlots' /\ <<b, i>> # WriteSlot
      BY <1>1, <2>1 DEF RingSlots
    <3>2. <<b, i>> \in Slots /\ ~ (i <= r)
      BY <1>1, <2>1 DEF Slots, Index
    <3>3. GrownMem(b)[<<b, i>>] = Null
      BY <1>1, <1>5, <3>2 DEF GrownMem, Moves
    <3> QED BY <1>3, <3>1, <3>2, <3>3 DEF EmptySlots
  <2>2. CASE ~ (i > r)
    <3>1. /\ f[i] = <<WriteBlock, i>> /\ <<WriteBlock, i>> \in RingSlots'
          /\ <<WriteBlock, i>> # WriteSlot /\ <<WriteBlock, i>> \in Slots
      BY <1>1, <2>2 DEF RingSlots, Slots
    <3>2. i <= r /\ WriteBlock # b
      BY <1>1, <2>2 DEF Index
    <3>3. GrownMem(b)[<<WriteBlock, i>>] = Null
      BY <3>1, <3>2 DEF GrownMem, Moves
    <3> QED BY <1>3, <3>1, <3>3 DEF EmptySlots
  <2> QED BY <2>1, <2>2
<1>7. ASSUME NEW s \in EmptySlots' PROVE \E i \in J : f[i] = s
  <2>1. PICK c \in Ring \union {b}, i \in Index : s = <<c, i>>
    BY DEF EmptySlots, RingSlots
  <2>2. s \in Slots /\ Mem'[s] = Null /\ s # WriteSlot
    BY <1>1, <1>3, <1>4 DEF EmptySlots
  <2>3. GrownMem(b)[s] = Null
    BY <1>3, <2>2
  <2>4. CASE c = b
    <3>1. ~ (i <= r)
      <4>1. <<WriteBlock, i>> \in RingSlots
        BY <1>1 DEF RingSlots
      <4>2. i <= r => GrownMem(b)[s] = Mem[<<WriteBlock, i>>]
        BY <2>1, <2>2, <2>4 DEF GrownMem
      <4> QED BY <1>1, <2>3, <4>1, <4>2
    <3>2. i > r /\ i \in J
      BY <1>1, <3>1 DEF Index
    <3> QED BY <2>1, <2>4, <3>2
  <2>5. CASE c # b
    <3>1. Moves(s)
      <4>1. ~ Moves(s) => GrownMem(b)[s] = Mem[s]
        BY <2>1, <2>2, <2>5 DEF GrownMem
      <4> QED BY <1>1, <2>1, <2>3, <2>5, <4>1 DEF RingSlots
    <3>2. c = WriteBlock /\ i <= r /\ i # r
      BY <1>1, <2>1, <2>2, <3>1 DEF Moves
    <3>3. ~ (i > r) /\ i \in J
      BY <1>1, <3>2 DEF Index
    <3> QED BY <2>1, <3>2, <3>3
  <2> QED BY <2>4, <2>5
<1>8. \A i, j \in J : f[i] = f[j] => i = j
  BY <1>1
<1>9. f \in Bijection(J, EmptySlots')
  <2>1. f \in [J -> EmptySlots'] /\ DOMAIN f = J
    BY <1>6
  <2>2. \A t \in EmptySlots' : \E i \in J : f[i] = t
    BY <1>7
  <2> HIDE DEF f, J
  <2> QED BY <1>8, <2>1, <2>2 DEF Bijection, Injection, Surjection, IsInjective
<1> HIDE DEF f, J
<1> QED BY <1>2, <1>9, FS_Bijection DEF ExistsBijection

\* A write that grows the ring keeps every queued state and its place.
LEMMA WriteGrowingStep ==
  ASSUME TypeOK, QueueInv, NEW e \in States, WriteGrowing(e)
  PROVE  /\ QueueInv' /\ WriteBlock' \in Ring'
         /\ Len(order') = Fill + 1 /\ Mem'[order'[Fill + 1]] = e
         /\ \A k \in 1 .. Fill : Mem'[order'[k]] = Mem[order[k]]
<1>1. PICK b \in Blocks \ Ring :
        /\ Store(e, GrownMem(b), GrownNext(b))
        /\ BlockNext' = GrownNext(b) /\ Ring' = Ring \union {b}
        /\ ReadBlock' = b /\ Space' = BlockSize - 1
        /\ order' = Append(GrownOrder(b), WriteSlot) /\ ReadIndex' = ReadIndex
  BY DEF WriteGrowing
<1>2. Space = 0
  BY DEF WriteGrowing
<1>3. /\ \A s \in RingSlots : Mem[s] # Null
      /\ ReadIndex = WriteIndex /\ ReadSlot = WriteSlot
      /\ Fill > 0 /\ Fill \in Nat /\ Fill' = Fill + 1
  BY <1>1, <1>2, FullRing DEF ReadSlot, WriteSlot, Store, TypeOK
<1>4. /\ WriteSlot \in RingSlots /\ RingSlots \subseteq Slots
      /\ RingSlots' = (Ring \union {b}) \X Index /\ RingSlots \subseteq RingSlots'
      /\ RingSlots' \subseteq Slots
  BY <1>1 DEF TypeOK, WriteSlot, RingSlots, Slots
<1>5. /\ Len(GrownOrder(b)) = Fill /\ GrownOrder(b) \in Seq(Slots)
      /\ \A k \in 1 .. Fill :
            /\ GrownOrder(b)[k] = Moved(b, order[k])
            /\ GrownOrder(b)[k] \in RingSlots'
            /\ GrownOrder(b)[k] # WriteSlot
            /\ GrownMem(b)[GrownOrder(b)[k]] = Mem[order[k]]
  BY <1>2, <1>4, GrownContents
<1>6. /\ Len(order') = Fill + 1 /\ order'[Fill + 1] = WriteSlot
      /\ \A k \in 1 .. Fill : order'[k] = GrownOrder(b)[k]
  BY <1>1, <1>3, <1>4, <1>5, AppendProperties
<1>7. /\ \A s \in Slots : Mem'[s] = IF s = WriteSlot THEN e ELSE GrownMem(b)[s]
      /\ Mem'[WriteSlot] = e /\ e # Null
  BY <1>1, <1>4, QueueAssumption DEF Store, GrownMem
<1>8. \A k \in 1 .. Fill : Mem'[order'[k]] = Mem[order[k]]
  BY <1>4, <1>5, <1>6, <1>7
<1>9. RingOK'
  BY <1>1, GrowRing DEF QueueInv
<1>10. /\ WriteSlot' = SuccIn(GrownNext(b), WriteSlot)
       /\ ReadSlot' = <<b, ReadIndex>>
       /\ \A k \in 1 .. Fill : order[k] \in RingSlots
  BY <1>1 DEF Store, WriteSlot, ReadSlot, SuccIn, QueueInv, OrderOK
<1>11. OrderOK'
  <2>1. \A k \in 1 .. Fill' : order'[k] \in RingSlots' /\ Mem'[order'[k]] # Null
    <3>1. \A k \in 1 .. Fill : Mem[order[k]] # Null
      BY DEF QueueInv, OrderOK
    <3>2. ASSUME NEW k \in 1 .. Fill
          PROVE  order'[k] \in RingSlots' /\ Mem'[order'[k]] # Null
      <4>1. order'[k] \in RingSlots'
        BY <1>5, <1>6
      <4> QED BY <1>8, <3>1, <4>1
    <3>3. WriteSlot \in RingSlots' /\ Mem'[WriteSlot] # Null
      BY <1>4, <1>7
    <3>4. order'[Fill + 1] \in RingSlots' /\ Mem'[order'[Fill + 1]] # Null
      BY <1>6, <3>3
    <3>5. \A k \in 1 .. Fill' : k \in 1 .. Fill \/ k = Fill + 1
      BY <1>3
    <3> QED BY <3>2, <3>4, <3>5
  <2>2. \A j, k \in 1 .. Fill' : order'[j] = order'[k] => j = k
    <3>1. ASSUME NEW j \in 1 .. Fill, NEW k \in 1 .. Fill, order'[j] = order'[k]
          PROVE  j = k
      <4>1. order[j] = order[k]
        BY <1>5, <1>6, <1>10, <3>1, MovedInjective
      <4> QED BY <4>1 DEF QueueInv, OrderOK
    <3> QED BY <1>3, <1>5, <1>6, <3>1
  <2>3. ASSUME NEW k \in 1 .. Fill' - 1
        PROVE  SuccIn(GrownNext(b), order'[k]) = order'[k + 1]
    <3>1. k \in 1 .. Fill /\ order'[k] = Moved(b, order[k]) /\ order[k] \in RingSlots
      BY <1>3, <1>5, <1>6, <1>10
    <3>2. SuccIn(GrownNext(b), order'[k])
            = IF Succ(order[k]) = WriteSlot THEN WriteSlot ELSE Moved(b, Succ(order[k]))
      BY <1>3, <3>1, GrownSucc DEF QueueInv
    <3>3. CASE k = Fill
      BY <1>3, <1>6, <3>2, <3>3 DEF QueueInv, OrderOK
    <3>4. CASE k # Fill
      <4>1. k \in 1 .. Fill - 1 /\ k + 1 \in 1 .. Fill /\ 1 \in 1 .. Fill /\ k + 1 # 1
        BY <1>3, <3>1, <3>4
      <4>2. Succ(order[k]) = order[k + 1] /\ order[k + 1] # order[1]
        BY <4>1 DEF QueueInv, OrderOK
      <4>3. order[1] = WriteSlot
        BY <1>3 DEF QueueInv, OrderOK
      <4> QED BY <1>5, <1>6, <3>2, <4>1, <4>2, <4>3
    <3> QED BY <3>3, <3>4
  <2>4. order'[1] = ReadSlot'
    <3>1. order[1] = WriteSlot /\ 1 \in 1 .. Fill
      BY <1>3 DEF QueueInv, OrderOK
    <3>2. Moved(b, WriteSlot) = <<b, ReadIndex>>
      BY <1>3, <1>4 DEF Moved, Moves, WriteSlot, RingSlots, Index
    <3> QED BY <1>5, <1>6, <1>10, <3>1, <3>2
  <2>5. SuccIn(GrownNext(b), order'[Fill']) = WriteSlot'
    BY <1>3, <1>6, <1>10
  <2>6. ASSUME NEW s \in Slots, Mem'[s] # Null
        PROVE  \E k \in 1 .. Fill' : order'[k] = s
    <3>1. CASE s = WriteSlot
      BY <1>3, <1>6, <3>1
    <3>2. CASE s # WriteSlot
      <4> DEFINE from == IF s[1] = b /\ s[2] <= ReadIndex THEN <<WriteBlock, s[2]>> ELSE s
      <4>1. GrownMem(b)[s] # Null
        BY <1>7, <2>6, <3>2
      <4>2. s = <<s[1], s[2]>> /\ s[1] \in Blocks /\ s[2] \in Index
        BY DEF Slots
      <4>3. from \in Slots /\ Mem[from] # Null /\ Moved(b, from) = s
        <5>1. CASE s[1] = b /\ s[2] <= ReadIndex
          <6>1. <<WriteBlock, s[2]>> \in Slots
            BY <4>2 DEF TypeOK, Slots
          <6> QED BY <4>1, <4>2, <5>1, <6>1 DEF GrownMem, Moved, Moves
        <5>2. CASE ~ (s[1] = b /\ s[2] <= ReadIndex)
          BY <4>1, <4>2, <5>2 DEF GrownMem, Moved, Moves
        <5> QED BY <5>1, <5>2
      <4>4. PICK k \in 1 .. Fill : order[k] = from
        BY <4>3 DEF QueueInv, OrderOK
      <4> QED BY <1>3, <1>5, <1>6, <4>3, <4>4
    <3> QED BY <3>1, <3>2
  <2>7. Len(order') = Fill' /\ Fill' # 0
    BY <1>3, <1>6
  <2>8. BlockNext' = GrownNext(b)
    BY <1>1
  <2> QED BY <2>1, <2>2, <2>3, <2>4, <2>5, <2>6, <2>7, <2>8 DEF OrderOK, Succ
<1>12. SpaceCounts'
  <2>1. Mem' = [GrownMem(b) EXCEPT ![WriteSlot] = e]
    BY <1>1 DEF Store
  <2>2. Cardinality(EmptySlots') = BlockSize - 1
    BY <1>1, <1>2, <2>1, GrownSpace
  <2> QED BY <1>1, <2>2 DEF SpaceCounts
<1>13. WriteBlock' \in Ring'
  <2>1. BlockNext'[WriteBlock] = b
    BY <1>1 DEF GrownNext, TypeOK
  <2> QED BY <1>1, <2>1 DEF Store, SuccIn, WriteSlot, TypeOK
<1> QED BY <1>6, <1>7, <1>8, <1>9, <1>11, <1>12, <1>13 DEF QueueInv

------------------------------------------------------------------------------
(* The inductive invariant.                                                  *)

IInv == TypeOK /\ QueueInv

LEMMA InitInv == Init => IInv
<1> SUFFICES ASSUME Init PROVE TypeOK /\ QueueInv
  BY DEF IInv
<1>1. BlockSize \in Nat \ {0} /\ BlockSize - 1 \in Index /\ FirstBlock \in Blocks
  BY QueueAssumption DEF Index
<1>2. order \in Seq(Slots) /\ Len(order) = 0
  BY EmptySeq DEF Init
<1>3. TypeOK
  BY <1>1, <1>2, QueueAssumption DEF Init, TypeOK, Slots
<1>4. RingOK
  <2>1. IsFiniteSet({FirstBlock})
    BY FS_Singleton
  <2>2. SingleCycle
    BY DEF Init, SingleCycle
  <2> QED BY <1>1, <2>1, <2>2 DEF Init, RingOK
<1>5. OrderOK
  BY <1>1, <1>2 DEF Init, OrderOK, ReadSlot, WriteSlot
<1>6. SpaceCounts
  <2>1. EmptySlots = {FirstBlock} \X Index
    BY <1>1 DEF Init, EmptySlots, RingSlots, Slots
  <2>2. IsFiniteSet(Index) /\ Cardinality(Index) = BlockSize
    BY <1>1, FS_Interval DEF Index
  <2>3. IsFiniteSet({FirstBlock}) /\ Cardinality({FirstBlock}) = 1
    BY FS_Singleton
  <2>4. Cardinality({FirstBlock} \X Index) = 1 * BlockSize
    BY <2>2, <2>3, FS_Product
  <2> QED BY <1>1, <2>1, <2>4 DEF SpaceCounts, Init
<1> QED BY <1>3, <1>4, <1>5, <1>6 DEF QueueInv

\* Any write, whether or not it grows the ring.
LEMMA WriteStep ==
  ASSUME IInv, NEW e \in States, Write(e)
  PROVE  /\ QueueInv' /\ WriteBlock' \in Ring'
         /\ Len(order') = Fill + 1 /\ Mem'[order'[Fill + 1]] = e
         /\ \A k \in 1 .. Fill : Mem'[order'[k]] = Mem[order[k]]
<1>1. CASE WriteInSpace(e)
  BY <1>1, WriteInSpaceStep DEF IInv
<1>2. CASE WriteGrowing(e)
  BY <1>2, WriteGrowingStep DEF IInv
<1> QED BY <1>1, <1>2 DEF Write

\* The thread steps do not touch the queue.
LEMMA DataUnchanged ==
  ASSUME QueueInv, UNCHANGED data
  PROVE  QueueInv'
<1>1. RingOK'
  BY DEF data, QueueInv, RingOK, SingleCycle
<1>2. OrderOK'
  <2>1. \A s : Succ(s)' = Succ(s)
    BY DEF data, Succ, SuccIn
  <2>2. ReadSlot' = ReadSlot /\ WriteSlot' = WriteSlot /\ RingSlots' = RingSlots
    BY DEF data, ReadSlot, WriteSlot, RingSlots
  <2>3. order' = order /\ Fill' = Fill /\ Mem' = Mem
    BY DEF data
  <2> QED BY <2>1, <2>2, <2>3 DEF QueueInv, OrderOK
<1>3. SpaceCounts'
  BY DEF data, QueueInv, SpaceCounts, EmptySlots, RingSlots, Slots, Index
<1> QED BY <1>1, <1>2, <1>3 DEF QueueInv

LEMMA NextInv == IInv /\ [Next]_vars => IInv'
<1> SUFFICES ASSUME IInv, [Next]_vars PROVE TypeOK' /\ QueueInv'
  BY DEF IInv
<1> USE DEF IInv
<1>1. ASSUME NEW a \in Adders, NEW e \in States, Add(a, e) PROVE TypeOK' /\ QueueInv'
  BY <1>1, WriteType, WriteStep DEF Add, TypeOK
<1>2. ASSUME NEW a \in Adders, Signal(a) PROVE TypeOK' /\ QueueInv'
  BY <1>2, DataUnchanged DEF Signal, data, TypeOK
<1>3. ASSUME NEW e \in States, AddFromRun(e) PROVE TypeOK' /\ QueueInv'
  BY <1>3, WriteType, WriteStep DEF AddFromRun, threads, TypeOK
<1>4. CASE NextWait
  <2>1. /\ QueueInv' /\ ReadBlock' \in Ring' /\ ReadIndex' \in Index
        /\ order' \in Seq(Slots) /\ ReadSlot = order[1]
    BY <1>4, ReadStep DEF NextWait
  <2>2. Mem[ReadSlot] \in States
    <3>1. Mem[ReadSlot] # Null
      <4>1. 1 \in 1 .. Fill
        BY <1>4 DEF NextWait, TypeOK
      <4> QED BY <2>1, <4>1 DEF QueueInv, OrderOK
    <3>2. ReadSlot \in Slots
      BY DEF ReadSlot, TypeOK, Slots
    <3> QED BY <3>1, <3>2 DEF TypeOK
  <2>3. TypeOK'
    BY <1>4, <2>1, <2>2, QueueAssumption DEF NextWait, Read, TypeOK
  <2> QED BY <2>1, <2>3
<1>5. CASE WaitForAdd
  BY <1>5, DataUnchanged DEF WaitForAdd, data, TypeOK
<1>6. CASE SpuriousWakeup
  BY <1>6, DataUnchanged DEF SpuriousWakeup, data, TypeOK
<1>7. CASE RunReturns
  BY <1>7, DataUnchanged, QueueAssumption DEF RunReturns, data, TypeOK
<1>8. CASE UNCHANGED vars
  BY <1>8, DataUnchanged DEF vars, data, TypeOK
<1> QED BY <1>1, <1>2, <1>3, <1>4, <1>5, <1>6, <1>7, <1>8 DEF Next

\* The queue's fields have their types, whatever the threads do.
THEOREM TypeCorrect == Spec => []TypeOK
<1>1. IInv => TypeOK
  BY DEF IInv
<1> QED BY <1>1, InitInv, NextInv, PTL DEF Spec

\* The ring is one cycle, its free slots are counted by Space, and reading it
\* from the read position meets the queued states in the order they were added.
THEOREM QueueCorrect == Spec => []QueueInv
<1>1. IInv => QueueInv
  BY DEF IInv
<1> QED BY <1>1, InitInv, NextInv, PTL DEF Spec

\* The assertion in the comment at the growth in ml_scheduler_queue_write.
THEOREM GrowthIsSafe == Spec => []FullRingMeets
<1>1. IInv => FullRingMeets
  BY FullRing DEF IInv, FullRingMeets
<1> QED BY <1>1, InitInv, NextInv, PTL DEF Spec

\* ml_scheduler_queue_write never overwrites a queued state.
THEOREM NoOverwrite == Spec => []WriteSlotFree
<1>1. IInv => WriteSlotFree
  BY OccupiedWriteSlot DEF IInv, WriteSlotFree, TypeOK
<1> QED BY <1>1, InitInv, NextInv, PTL DEF Spec

\* Signalling only when the queue stops being empty, and only after the unlock,
\* never leaves the one runner asleep with a state queued.
THEOREM WakeupNotLost == Spec => []NoLostWakeup
<1>1. Init => NoLostWakeup
  BY DEF Init, NoLostWakeup
<1>2. IInv /\ NoLostWakeup /\ [Next]_vars => NoLostWakeup'
  <2> SUFFICES ASSUME IInv, NoLostWakeup, [Next]_vars, runner' = "waiting", Fill' > 0
               PROVE  \E a \in Adders : adder'[a] = "signal"
    BY DEF NoLostWakeup
  <2>0. Fill \in Nat /\ adder \in [Adders -> {"idle", "signal"}]
    BY DEF IInv, TypeOK
  <2>1. ASSUME NEW a \in Adders, NEW e \in States, Add(a, e)
        PROVE  \E c \in Adders : adder'[c] = "signal"
    <3>1. Fill' = Fill + 1
      BY <2>1 DEF Add, Write, WriteInSpace, WriteGrowing, Store
    <3>2. CASE Fill = 0
      BY <2>0, <2>1, <3>1, <3>2 DEF Add
    <3>3. CASE Fill > 0
      BY <2>0, <2>1, <3>1, <3>3 DEF Add, NoLostWakeup
    <3> QED BY <2>0, <3>2, <3>3
  <2>2. ASSUME NEW a \in Adders, Signal(a) PROVE FALSE
    BY <2>2 DEF Signal
  <2>3. ASSUME NEW e \in States, AddFromRun(e) PROVE FALSE
    BY <2>3 DEF AddFromRun, threads
  <2>4. CASE NextWait
    BY <2>4 DEF NextWait
  <2>5. CASE WaitForAdd
    BY <2>5 DEF WaitForAdd, data
  <2>6. CASE SpuriousWakeup
    BY <2>6 DEF SpuriousWakeup
  <2>7. CASE RunReturns
    BY <2>7 DEF RunReturns
  <2>8. CASE UNCHANGED vars
    BY <2>8 DEF vars, NoLostWakeup
  <2> QED BY <2>1, <2>2, <2>3, <2>4, <2>5, <2>6, <2>7, <2>8 DEF Next
<1> QED BY <1>1, <1>2, InitInv, NextInv, PTL DEF Spec

------------------------------------------------------------------------------
(* The ring implements the FIFO queue.                                       *)

\* A write appends to the contents.
LEMMA WriteAppends ==
  ASSUME IInv, NEW e \in States, Write(e)
  PROVE  Contents' = Append(Contents, e)
<1>1. /\ Len(order') = Fill + 1 /\ Mem'[order'[Fill + 1]] = e
      /\ \A k \in 1 .. Fill : Mem'[order'[k]] = Mem[order[k]]
      /\ Fill \in Nat /\ Len(order) = Fill
  BY WriteStep DEF IInv, TypeOK, QueueInv, OrderOK
<1>2. /\ Contents = [k \in 1 .. Fill |-> Mem[order[k]]]
      /\ Contents' = [k \in 1 .. Fill + 1 |-> Mem'[order'[k]]]
  BY <1>1 DEF Contents
<1>3. \A k \in 1 .. Fill : order[k] \in Slots
  BY <1>1, ElementOfSeq DEF IInv, TypeOK
<1>4. Contents \in [1 .. Fill -> States \union {Null}]
  BY <1>2, <1>3 DEF IInv, TypeOK
<1>5. Contents \in Seq(States \union {Null}) /\ Len(Contents) = Fill
  BY <1>1, <1>4
<1>6. /\ Contents' \in [1 .. Fill + 1 -> States \union {Null}]
  BY <1>1, <1>2, <1>4
<1>7. Contents' \in Seq(States \union {Null}) /\ Len(Contents') = Fill + 1
  BY <1>1, <1>6
<1>8. /\ Append(Contents, e) \in Seq(States \union {Null})
      /\ Len(Append(Contents, e)) = Fill + 1
      /\ Append(Contents, e)[Fill + 1] = e
      /\ \A k \in 1 .. Fill : Append(Contents, e)[k] = Contents[k]
  BY <1>1, <1>5, AppendProperties
<1>9. \A k \in 1 .. Fill + 1 : Contents'[k] = Append(Contents, e)[k]
  BY <1>1, <1>2, <1>8
<1> QED BY <1>7, <1>8, <1>9, SeqEqual

\* A read takes the head of the contents.
LEMMA ReadTakesHead ==
  ASSUME IInv, Fill > 0, Read
  PROVE  /\ Contents # <<>> /\ Mem[ReadSlot] = Head(Contents)
         /\ Contents' = Tail(Contents)
<1>1. /\ ReadSlot = order[1] /\ order' \in Seq(Slots)
      /\ \A k \in 1 .. Fill - 1 : order'[k] = order[k + 1] /\ order[k + 1] # ReadSlot
      /\ Fill \in Nat /\ Len(order) = Fill /\ Len(order') = Fill - 1
  BY ReadStep DEF IInv, TypeOK, QueueInv, OrderOK, Read
<1>2. /\ Contents = [k \in 1 .. Fill |-> Mem[order[k]]]
      /\ Contents' = [k \in 1 .. Fill - 1 |-> Mem'[order'[k]]]
  BY <1>1 DEF Contents
<1>3. \A k \in 1 .. Fill : order[k] \in Slots
  BY <1>1, ElementOfSeq DEF IInv, TypeOK
<1>4. Contents \in [1 .. Fill -> States \union {Null}]
  BY <1>2, <1>3 DEF IInv, TypeOK
<1>5. Contents \in Seq(States \union {Null}) /\ Len(Contents) = Fill /\ Contents # <<>>
  BY <1>1, <1>4
<1>6. /\ Tail(Contents) \in Seq(States \union {Null}) /\ Len(Tail(Contents)) = Fill - 1
      /\ \A k \in 1 .. Fill - 1 : Tail(Contents)[k] = Contents[k + 1]
  BY <1>1, <1>5, HeadTailProperties
<1>7. ASSUME NEW k \in 1 .. Fill - 1 PROVE Contents'[k] = Contents[k + 1]
  <2>1. k + 1 \in 1 .. Fill
    BY <1>1
  <2>2. Mem'[order'[k]] = Mem[order[k + 1]]
    BY <1>1, <1>3, <2>1 DEF Read, IInv, TypeOK
  <2> QED BY <1>2, <2>1, <2>2
<1>8. Contents' \in [1 .. Fill - 1 -> States \union {Null}]
  <2>1. \A k \in 1 .. Fill - 1 : k + 1 \in 1 .. Fill
    BY <1>1
  <2>2. \A k \in 1 .. Fill - 1 : Contents'[k] \in States \union {Null}
    BY <1>4, <1>7, <2>1
  <2>3. Contents' = [k \in 1 .. Fill - 1 |-> Contents'[k]]
    BY <1>2
  <2> QED BY <2>2, <2>3
<1>9. Contents' \in Seq(States \union {Null}) /\ Len(Contents') = Fill - 1
  BY <1>1, <1>8
<1>10. Contents' = Tail(Contents)
  BY <1>6, <1>7, <1>9, SeqEqual
<1>11. Head(Contents) = Mem[order[1]]
  BY <1>1, <1>2, <1>5
<1> QED BY <1>1, <1>5, <1>10, <1>11

\* Steps that leave the queue alone leave its contents alone.
LEMMA ContentsUnchanged == UNCHANGED data => UNCHANGED Contents
BY DEF data, Contents

\* The scheduler queue implements FifoQueue: each state that is added is run
\* once, in the order of the adds, whatever the threads and the growths do.
THEOREM QueueRefinesFifo == Spec => ImplementsFifo
<1>1. Init => Fifo!Init
  BY DEF Init, Fifo!Init, Contents
<1>2. IInv /\ [Next]_vars => [Fifo!Next]_(Fifo!vars)
  <2> SUFFICES ASSUME IInv, [Next]_vars PROVE [Fifo!Next]_(Fifo!vars)
    OBVIOUS
  <2> USE DEF Fifo!Next, Fifo!vars
  <2>1. ASSUME NEW a \in Adders, NEW e \in States, Add(a, e) PROVE Fifo!Next
    BY <2>1, WriteAppends DEF Add, Fifo!Put
  <2>2. ASSUME NEW a \in Adders, Signal(a) PROVE UNCHANGED <<Contents, running>>
    BY <2>2, ContentsUnchanged DEF Signal
  <2>3. ASSUME NEW e \in States, AddFromRun(e) PROVE Fifo!Next
    BY <2>3, WriteAppends DEF AddFromRun, threads, Fifo!Put
  <2>4. CASE NextWait
    <3>1. running = Null
      BY <2>4 DEF NextWait, IInv, TypeOK
    <3> QED BY <2>4, <3>1, ReadTakesHead DEF NextWait, Read, Fifo!Take
  <2>5. CASE WaitForAdd
    BY <2>5, ContentsUnchanged DEF WaitForAdd
  <2>6. CASE SpuriousWakeup
    BY <2>6, ContentsUnchanged DEF SpuriousWakeup
  <2>7. CASE RunReturns
    <3>1. running # Null
      BY <2>7 DEF RunReturns, IInv, TypeOK
    <3> QED BY <2>7, <3>1, ContentsUnchanged DEF RunReturns, Fifo!Done
  <2>8. CASE UNCHANGED vars
    BY <2>8, ContentsUnchanged DEF vars, data
  <2> QED BY <2>1, <2>2, <2>3, <2>4, <2>5, <2>6, <2>7, <2>8 DEF Next
<1> QED BY <1>1, <1>2, InitInv, NextInv, PTL DEF Spec, ImplementsFifo, Fifo!Spec
------------------------------------------------------------------------------
(* The host threads.                                                         *)

\* What a sequence holds, and that it holds nothing twice.
Elems(q) == {q[i] : i \in 1 .. Len(q)}
Distinct(q) == \A i, k \in 1 .. Len(q) : q[i] = q[k] => i = k

LEMMA ElemsOfAppend ==
  ASSUME NEW S, NEW q \in Seq(S), NEW e \in S
  PROVE  /\ Append(q, e) \in Seq(S)
         /\ Elems(Append(q, e)) = Elems(q) \union {e}
         /\ Distinct(q) /\ e \notin Elems(q) => Distinct(Append(q, e))
  <1> DEFINE r == Append(q, e)
  <1>1. /\ r \in Seq(S) /\ Len(r) = Len(q) + 1 /\ Len(q) \in Nat
        /\ \A i \in 1 .. Len(q) : r[i] = q[i]
        /\ r[Len(q) + 1] = e
    OBVIOUS
  <1>2. \A i \in 1 .. Len(r) : i \in 1 .. Len(q) \/ i = Len(q) + 1
    BY <1>1
  <1>3. \A i \in 1 .. Len(q) : i \in 1 .. Len(r)
    BY <1>1
  <1>4. Len(q) + 1 \in 1 .. Len(r)
    BY <1>1
  <1> HIDE DEF r
  <1>5. Elems(r) = Elems(q) \union {e}
    BY <1>1, <1>2, <1>3, <1>4 DEF Elems
  <1>6. Distinct(q) /\ e \notin Elems(q) => Distinct(r)
    BY <1>1, <1>2 DEF Elems, Distinct
  <1> QED
    BY <1>1, <1>5, <1>6 DEF r

LEMMA ElemsOfTail ==
  ASSUME NEW S, NEW q \in Seq(S), q # <<>>, Distinct(q)
  PROVE  /\ Tail(q) \in Seq(S) /\ Distinct(Tail(q))
         /\ Elems(Tail(q)) = Elems(q) \ {Head(q)}
         /\ Head(q) \in Elems(q) /\ Head(q) \in S
  <1> DEFINE r == Tail(q)
  <1>1. /\ r \in Seq(S) /\ Len(r) = Len(q) - 1 /\ Len(q) \in Nat \ {0}
        /\ \A i \in 1 .. Len(r) : r[i] = q[i + 1]
        /\ Head(q) = q[1] /\ q[1] \in S
    OBVIOUS
  <1>2. /\ 1 \in 1 .. Len(q)
        /\ \A i \in 1 .. Len(r) : i + 1 \in 1 .. Len(q) /\ i + 1 # 1
        /\ \A i \in 1 .. Len(q) : i # 1 => i - 1 \in 1 .. Len(r) /\ (i - 1) + 1 = i
        /\ \A i, k \in 1 .. Len(r) : i + 1 = k + 1 => i = k
    BY <1>1
  <1> HIDE DEF r
  <1>3. Elems(r) = Elems(q) \ {q[1]}
    <2>1. \A i \in 1 .. Len(r) : r[i] \in Elems(q) /\ r[i] # q[1]
      <3> TAKE i \in 1 .. Len(r)
      <3>1. r[i] = q[i + 1] /\ i + 1 \in 1 .. Len(q) /\ i + 1 # 1
        BY <1>1, <1>2
      <3>2. q[i + 1] \in Elems(q)
        BY <3>1 DEF Elems
      <3>3. q[i + 1] # q[1]
        BY <1>2, <3>1 DEF Distinct
      <3> QED
        BY <3>1, <3>2, <3>3
    <2>2. \A i \in 1 .. Len(q) : q[i] # q[1] => q[i] \in Elems(r)
      <3> SUFFICES ASSUME NEW i \in 1 .. Len(q), i # 1 PROVE q[i] \in Elems(r)
        OBVIOUS
      <3>1. i - 1 \in 1 .. Len(r) /\ r[i - 1] = q[i]
        BY <1>1, <1>2
      <3> QED
        BY <3>1 DEF Elems
    <2> QED
      BY <2>1, <2>2 DEF Elems
  <1>4. Distinct(r)
    BY <1>1, <1>2 DEF Distinct
  <1>5. q[1] \in Elems(q)
    BY <1>2 DEF Elems
  <1> QED
    BY <1>1, <1>3, <1>4, <1>5 DEF r

LEMMA ElemsOfPush ==
  ASSUME NEW S, NEW q \in Seq(S), NEW e \in S, Distinct(q), e \notin Elems(q)
  PROVE  /\ <<e>> \o q \in Seq(S) /\ Distinct(<<e>> \o q)
         /\ Elems(<<e>> \o q) = Elems(q) \union {e}
  <1> DEFINE r == <<e>> \o q
  <1>1. /\ r \in Seq(S) /\ Len(r) = Len(q) + 1 /\ Len(q) \in Nat
        /\ r[1] = e /\ \A i \in 2 .. Len(r) : r[i] = q[i - 1]
    OBVIOUS
  <1>2. /\ 1 \in 1 .. Len(r)
        /\ \A i \in 1 .. Len(r) : i = 1 \/ (i \in 2 .. Len(r) /\ i - 1 \in 1 .. Len(q))
        /\ \A i \in 1 .. Len(q) : i + 1 \in 2 .. Len(r) /\ (i + 1) - 1 = i
        /\ \A i \in 2 .. Len(r) : i \in 1 .. Len(r)
        /\ \A i, k \in 2 .. Len(r) : i - 1 = k - 1 => i = k
    BY <1>1
  <1> HIDE DEF r
  <1>3. Elems(r) = Elems(q) \union {e}
    <2>1. \A i \in 1 .. Len(r) : r[i] = e \/ r[i] \in Elems(q)
      BY <1>1, <1>2 DEF Elems
    <2>2. \A i \in 1 .. Len(q) : q[i] \in Elems(r)
      <3> TAKE i \in 1 .. Len(q)
      <3>1. r[i + 1] = q[i] /\ i + 1 \in 1 .. Len(r)
        BY <1>1, <1>2
      <3> QED
        BY <3>1 DEF Elems
    <2>3. e \in Elems(r)
      BY <1>1, <1>2 DEF Elems
    <2> QED
      BY <2>1, <2>2, <2>3 DEF Elems
  <1>4. Distinct(r)
    <2>1. \A i \in 2 .. Len(r) : r[i] # e
      BY <1>1, <1>2 DEF Elems
    <2>2. \A i, k \in 2 .. Len(r) : r[i] = r[k] => i = k
      BY <1>1, <1>2 DEF Distinct
    <2> QED
      BY <1>1, <1>2, <2>1, <2>2 DEF Distinct
  <1> QED
    BY <1>1, <1>3, <1>4 DEF r
------------------------------------------------------------------------------
\* The threads that hold a job.
Busy == {"running", "blocked", "joined", "posted"}

\* A job is queued once or in the hands of one thread, never both: the same as
\* JobsConserved without counting.
JobsPlaced ==
  /\ Distinct(queue)
  /\ \A t, u \in Threads : job[t] = job[u] /\ job[t] # None => t = u
  /\ \A t \in Threads : job[t] \notin Elems(queue)
  /\ \A j \in Jobs : j \in Elems(queue) \/ \E t \in Threads : job[t] = j
  /\ \A t \in Threads : job[t] # None <=> pc[t] \in Busy

\* The blocks in the queue and in Resume are those of threads that wait for them.
BlocksAwaited ==
  /\ resume # None => pc[resume] = "joined"
  /\ \A t \in Threads : t \in Elems(queue) => pc[t] = "joined" /\ t # resume

\* The threads that wait on the stack or have been taken off it.
Counted == {t \in Threads : pc[t] \in {"idle", "signalled"}}

StackHoldsIdle ==
  /\ Distinct(idle) /\ Elems(idle) = {t \in Threads : pc[t] = "idle"}
  /\ numIdle = Cardinality(Counted) /\ numIdle <= MaxIdle

HInv == HostTypeOK /\ OneRunner /\ StackHoldsIdle /\ JobsPlaced /\ BlocksAwaited
------------------------------------------------------------------------------
\* A sequence that names every job names each once.
LEMMA OrdersAreInjective ==
  ASSUME NEW place \in [1 .. Cardinality(Jobs) -> Jobs],
         \A j \in Jobs : \E i \in DOMAIN place : place[i] = j
  PROVE  \A i, k \in 1 .. Cardinality(Jobs) : place[i] = place[k] => i = k
  <1>1. IsFiniteSet(Jobs) /\ Cardinality(Jobs) \in Nat
    BY HostAssumption, FS_CardinalityType
  <1>2. /\ IsFiniteSet(1 .. Cardinality(Jobs))
        /\ Cardinality(1 .. Cardinality(Jobs)) = Cardinality(Jobs)
    BY <1>1, FS_Interval
  <1>3. place \in Surjection(1 .. Cardinality(Jobs), Jobs)
    BY DEF Surjection
  <1>4. place \in Injection(1 .. Cardinality(Jobs), Jobs)
    <2> DEFINE S == 1 .. Cardinality(Jobs)
    <2>1. IsFiniteSet(S) /\ Cardinality(S) = Cardinality(Jobs) /\ place \in Surjection(S, Jobs)
      BY <1>2, <1>3
    <2> HIDE DEF S
    <2>2. place \in Injection(S, Jobs)
      BY ONLY <2>1, FS_SurjSameCardinalityImpliesInj
    <2> QED
      BY <2>2 DEF S
  <1> QED
    BY <1>4 DEF Injection, IsInjective

LEMMA NamesDiffer ==
  /\ \A j \in Jobs : j \notin Threads /\ j # None
  /\ \A t \in Threads : t # None /\ t \notin Jobs
  /\ None \notin Jobs /\ None \notin Threads
  BY HostAssumption

LEMMA CountedIsFinite ==
  IsFiniteSet(Counted) /\ Cardinality(Counted) \in Nat
  BY HostAssumption, FS_Subset, FS_CardinalityType DEF Counted

LEMMA InitH == HostInit => HInv
  <1> SUFFICES ASSUME HostInit PROVE HInv
    OBVIOUS
  <1>1. Cardinality(Jobs) \in Nat
    BY HostAssumption, FS_CardinalityType
  <1>2. PICK place \in [1 .. Cardinality(Jobs) -> Jobs] :
          (\A j \in Jobs : \E i \in DOMAIN place : place[i] = j) /\ queue = place
    BY DEF HostInit
  <1>3. queue \in Seq(Jobs) /\ Len(queue) = Cardinality(Jobs)
    BY <1>1, <1>2
  <1>4. HostTypeOK
    BY <1>3, HostAssumption DEF HostInit, HostTypeOK, Locations
  <1>5. OneRunner
    BY HostAssumption DEF HostInit, OneRunner, Owns
  <1>6. StackHoldsIdle
    <2>1. Counted = {}
      BY DEF HostInit, Counted
    <2>2. Cardinality(Counted) = 0
      BY <2>1, FS_EmptySet
    <2> QED
      BY <2>2, HostAssumption DEF HostInit, StackHoldsIdle, Elems, Distinct
  <1>7. JobsPlaced
    <2>1. Elems(queue) = Jobs /\ Distinct(queue)
      BY <1>2, <1>3, OrdersAreInjective DEF Elems, Distinct
    <2> QED
      BY <2>1, NamesDiffer DEF HostInit, JobsPlaced, Busy
  <1>8. BlocksAwaited
    BY <1>2, <1>3, NamesDiffer DEF HostInit, BlocksAwaited, Elems
  <1> QED
    BY <1>4, <1>5, <1>6, <1>7, <1>8 DEF HInv
------------------------------------------------------------------------------
\* The parts of the invariant, and the values of functions.
LEMMA Parts ==
  ASSUME HInv
  PROVE  /\ HostTypeOK /\ OneRunner /\ StackHoldsIdle /\ JobsPlaced /\ BlocksAwaited
         /\ queue \in Seq(Jobs \union Threads) /\ idle \in Seq(Threads)
         /\ Distinct(queue) /\ Distinct(idle) /\ Elems(queue) \subseteq Jobs \union Threads
         /\ numIdle \in Nat /\ resume \in Threads \union {None}
         /\ pc \in [Threads -> Locations] /\ job \in [Threads -> Jobs \union {None}]
         /\ call \in [Threads -> BOOLEAN]
  <1>1. queue \in Seq(Jobs \union Threads)
    BY DEF HInv, HostTypeOK
  <1>2. Elems(queue) \subseteq Jobs \union Threads
    BY <1>1 DEF Elems
  <1> QED
    BY <1>1, <1>2 DEF HInv, HostTypeOK, StackHoldsIdle, JobsPlaced

\* A step that takes no thread to or from the idle stack.
LEMMA IdleStays ==
  ASSUME HInv, idle' = idle, numIdle' = numIdle,
         \A u \in Threads : /\ (pc'[u] = "idle") <=> (pc[u] = "idle")
                            /\ (pc'[u] = "signalled") <=> (pc[u] = "signalled")
  PROVE  StackHoldsIdle'
  <1>1. Counted' = Counted
    BY DEF Counted
  <1> QED
    BY <1>1, Parts DEF StackHoldsIdle

LEMMA RunStep ==
  ASSUME HInv, NEW t \in Threads, Run(t)
  PROVE  HInv'
  <1>1. /\ queue # <<>> /\ queue' = Tail(queue) /\ pc[t] = "loop"
        /\ idle' = idle /\ numIdle' = numIdle /\ call' = call
    BY DEF Run
  <1>2. /\ queue' \in Seq(Jobs \union Threads) /\ Distinct(queue')
        /\ Elems(queue') = Elems(queue) \ {Head(queue)}
        /\ Head(queue) \in Elems(queue)
    BY <1>1, Parts, ElemsOfTail
  <1>3. \/ /\ Head(queue) \in Jobs /\ job' = [job EXCEPT ![t] = Head(queue)]
           /\ pc' = [pc EXCEPT ![t] = "running"] /\ resume' = resume
        \/ /\ Head(queue) \in Threads /\ job' = job
           /\ pc' = [pc EXCEPT ![t] = "check"] /\ resume' = Head(queue)
    BY DEF Run
  <1>4. HostTypeOK'
    BY <1>1, <1>2, <1>3, Parts DEF HostTypeOK, Locations
  <1>5. OneRunner'
    BY <1>1, <1>3, Parts DEF OneRunner, Owns
  <1>6. StackHoldsIdle'
    BY <1>1, <1>3, Parts, IdleStays
  <1>7. JobsPlaced'
    <2>1. job[t] = None
      BY <1>1, Parts DEF JobsPlaced, Busy
    <2>2. CASE Head(queue) \in Jobs
      <3>1. /\ pc' = [pc EXCEPT ![t] = "running"]
            /\ \A u \in Threads : job'[u] = IF u = t THEN Head(queue) ELSE job[u]
        BY <1>3, <2>2, Parts, NamesDiffer
      <3> QED
        BY <1>1, <1>2, <2>1, <2>2, <3>1, Parts, NamesDiffer DEF JobsPlaced, Busy
    <2>3. CASE Head(queue) \in Threads
      <3>1. job' = job /\ pc' = [pc EXCEPT ![t] = "check"]
        BY <1>3, <2>3, NamesDiffer
      <3> QED
        BY <1>1, <1>2, <2>3, <3>1, Parts, NamesDiffer DEF JobsPlaced, Busy
    <2> QED
      BY <1>3, <2>2, <2>3
  <1>8. BlocksAwaited'
    BY <1>1, <1>2, <1>3, Parts, NamesDiffer DEF BlocksAwaited
  <1> QED
    BY <1>4, <1>5, <1>6, <1>7, <1>8 DEF HInv

LEMMA YieldStep ==
  ASSUME HInv, NEW t \in Threads, Yield(t)
  PROVE  HInv'
  <1>1. /\ queue' = Append(queue, job[t]) /\ pc[t] = "running" /\ resume' = resume
        /\ job' = [job EXCEPT ![t] = None] /\ pc' = [pc EXCEPT ![t] = "check"]
        /\ idle' = idle /\ numIdle' = numIdle /\ call' = call
    BY DEF Yield
  <1>2. job[t] \in Jobs /\ job[t] \notin Elems(queue)
    BY <1>1, Parts DEF JobsPlaced, Busy
  <1>3. /\ queue' \in Seq(Jobs \union Threads) /\ Distinct(queue')
        /\ Elems(queue') = Elems(queue) \union {job[t]}
    BY <1>1, <1>2, Parts, ElemsOfAppend
  <1>4. HostTypeOK'
    BY <1>1, <1>3, Parts DEF HostTypeOK, Locations
  <1>5. OneRunner'
    BY <1>1, Parts DEF OneRunner, Owns
  <1>6. StackHoldsIdle'
    BY <1>1, Parts, IdleStays
  <1>7. JobsPlaced'
    BY <1>1, <1>2, <1>3, Parts, NamesDiffer DEF JobsPlaced, Busy
  <1>8. BlocksAwaited'
    BY <1>1, <1>2, <1>3, Parts, NamesDiffer DEF BlocksAwaited
  <1> QED
    BY <1>4, <1>5, <1>6, <1>7, <1>8 DEF HInv
------------------------------------------------------------------------------
\* What a split does when the thread goes on waiting, whatever it waits for.
LEMMA SplitStep ==
  ASSUME HInv, NEW t \in Threads, NEW next \in {"blocked", "joined"}, Split(t, next),
         pc[t] = "running", numIdle' = numIdle
  PROVE  /\ pc' \in [Threads -> Locations] /\ idle' \in Seq(Threads)
         /\ pc'[t] = next /\ OneRunner' /\ StackHoldsIdle'
         /\ \A u \in Threads : /\ pc[u] = "joined" => pc'[u] = "joined"
                               /\ pc[u] \in Busy <=> pc'[u] \in Busy
  <1>1. CASE idle # <<>>
    <2>1. /\ idle' = Tail(idle) /\ pc' = [pc EXCEPT ![t] = next, ![Head(idle)] = "signalled"]
      BY <1>1 DEF Split
    <2>2. /\ idle' \in Seq(Threads) /\ Distinct(idle')
          /\ Elems(idle') = Elems(idle) \ {Head(idle)}
          /\ Head(idle) \in Elems(idle) /\ Head(idle) \in Threads
      BY <1>1, <2>1, Parts, ElemsOfTail
    <2>3. pc[Head(idle)] = "idle"
      BY <2>2, Parts DEF StackHoldsIdle
    <2>4. \A u \in Threads : pc'[u] = IF u = Head(idle) THEN "signalled"
                                      ELSE IF u = t THEN next ELSE pc[u]
      BY <2>1, <2>2, <2>3, Parts
    <2>5. pc' \in [Threads -> Locations]
      BY <2>1, <2>2, Parts DEF Locations
    <2>6. OneRunner'
      BY <2>2, <2>3, <2>4, Parts DEF OneRunner, Owns
    <2>7. Counted' = Counted
      BY <2>2, <2>3, <2>4 DEF Counted
    <2>8. Elems(idle') = {u \in Threads : pc'[u] = "idle"}
      BY <2>2, <2>4, Parts DEF StackHoldsIdle
    <2>9. StackHoldsIdle'
      BY <2>2, <2>7, <2>8, Parts DEF StackHoldsIdle
    <2> QED
      BY <2>2, <2>3, <2>4, <2>5, <2>6, <2>9 DEF Busy
  <1>2. CASE idle = <<>>
    <2>1. PICK w \in Threads : pc[w] = "unborn" /\ pc' = [pc EXCEPT ![t] = next, ![w] = "loop"]
      BY <1>2 DEF Split
    <2>2. idle' = idle
      BY <1>2 DEF Split
    <2>3. \A u \in Threads : pc'[u] = IF u = w THEN "loop" ELSE IF u = t THEN next ELSE pc[u]
      BY <2>1, Parts
    <2>4. pc' \in [Threads -> Locations]
      BY <2>1, Parts DEF Locations
    <2>5. OneRunner'
      BY <2>1, <2>3, Parts DEF OneRunner, Owns
    <2>6. StackHoldsIdle'
      BY <2>1, <2>2, <2>3, Parts, IdleStays
    <2> QED
      BY <2>1, <2>2, <2>3, <2>4, <2>5, <2>6, Parts DEF Busy
  <1> QED
    BY <1>1, <1>2

LEMMA SleepStep ==
  ASSUME HInv, NEW t \in Threads, Sleep(t)
  PROVE  HInv'
  <1>1. /\ pc[t] = "running" /\ Split(t, "blocked")
        /\ UNCHANGED <<queue, resume, numIdle, job, call>>
    BY DEF Sleep
  <1>2. /\ pc' \in [Threads -> Locations] /\ idle' \in Seq(Threads)
        /\ OneRunner' /\ StackHoldsIdle'
        /\ \A u \in Threads : /\ pc[u] = "joined" => pc'[u] = "joined"
                              /\ pc[u] \in Busy <=> pc'[u] \in Busy
    BY <1>1, SplitStep
  <1>3. HostTypeOK'
    BY <1>1, <1>2, Parts DEF HostTypeOK
  <1>4. JobsPlaced'
    BY <1>1, <1>2, Parts DEF JobsPlaced
  <1>5. BlocksAwaited'
    BY <1>1, <1>2, Parts, NamesDiffer DEF BlocksAwaited
  <1> QED
    BY <1>2, <1>3, <1>4, <1>5 DEF HInv

LEMMA CallWaitStep ==
  ASSUME HInv, NEW t \in Threads, CallWait(t)
  PROVE  HInv'
  <1>1. /\ pc[t] = "running" /\ Split(t, "joined") /\ queue' = Append(queue, t)
        /\ call' = [call EXCEPT ![t] = TRUE]
        /\ resume' = resume /\ numIdle' = numIdle /\ job' = job
    BY DEF CallWait
  <1>2. /\ pc' \in [Threads -> Locations] /\ idle' \in Seq(Threads)
        /\ pc'[t] = "joined" /\ OneRunner' /\ StackHoldsIdle'
        /\ \A u \in Threads : /\ pc[u] = "joined" => pc'[u] = "joined"
                              /\ pc[u] \in Busy <=> pc'[u] \in Busy
    BY <1>1, SplitStep
  <1>3. t \notin Elems(queue) /\ t # resume
    BY <1>1, Parts, NamesDiffer DEF BlocksAwaited
  <1>4. /\ queue' \in Seq(Jobs \union Threads) /\ Distinct(queue')
        /\ Elems(queue') = Elems(queue) \union {t}
    BY <1>1, <1>3, Parts, ElemsOfAppend
  <1>5. HostTypeOK'
    BY <1>1, <1>2, <1>4, Parts DEF HostTypeOK
  <1>6. JobsPlaced'
    BY <1>1, <1>2, <1>4, Parts, NamesDiffer DEF JobsPlaced
  <1>7. BlocksAwaited'
    BY <1>1, <1>2, <1>3, <1>4, Parts, NamesDiffer DEF BlocksAwaited
  <1> QED
    BY <1>2, <1>5, <1>6, <1>7 DEF HInv

LEMMA JoinStep ==
  ASSUME HInv, NEW t \in Threads, Join(t)
  PROVE  HInv'
  <1>1. /\ pc[t] = "blocked" /\ queue' = Append(queue, t)
        /\ pc' = [pc EXCEPT ![t] = "joined"]
        /\ UNCHANGED <<resume, idle, numIdle, job, call>>
    BY DEF Join
  <1>2. t \notin Elems(queue) /\ t # resume
    BY <1>1, Parts, NamesDiffer DEF BlocksAwaited
  <1>3. /\ queue' \in Seq(Jobs \union Threads) /\ Distinct(queue')
        /\ Elems(queue') = Elems(queue) \union {t}
    BY <1>1, <1>2, Parts, ElemsOfAppend
  <1>4. HostTypeOK'
    BY <1>1, <1>3, Parts DEF HostTypeOK, Locations
  <1>5. OneRunner'
    BY <1>1, Parts DEF OneRunner, Owns
  <1>6. StackHoldsIdle'
    BY <1>1, Parts, IdleStays
  <1>7. JobsPlaced'
    BY <1>1, <1>3, Parts, NamesDiffer DEF JobsPlaced, Busy
  <1>8. BlocksAwaited'
    BY <1>1, <1>2, <1>3, Parts, NamesDiffer DEF BlocksAwaited
  <1> QED
    BY <1>4, <1>5, <1>6, <1>7, <1>8 DEF HInv

LEMMA ResumedStep ==
  ASSUME HInv, NEW t \in Threads, Resumed(t)
  PROVE  HInv'
  <1>1. /\ pc[t] = "posted" /\ call' = [call EXCEPT ![t] = FALSE]
        /\ UNCHANGED <<resume, idle, numIdle>>
    BY DEF Resumed
  <1>2. pc' = [pc EXCEPT ![t] = "check"] \/ pc' = [pc EXCEPT ![t] = "running"]
    BY DEF Resumed
  <1>3. OneRunner'
    BY <1>1, <1>2, Parts DEF OneRunner, Owns
  <1>4. StackHoldsIdle'
    BY <1>1, <1>2, Parts, IdleStays
  <1>5. CASE ~ call[t]
    <2>1. /\ queue' = Append(queue, job[t]) /\ job' = [job EXCEPT ![t] = None]
          /\ pc' = [pc EXCEPT ![t] = "check"]
      BY <1>5 DEF Resumed
    <2>2. job[t] \in Jobs /\ job[t] \notin Elems(queue)
      BY <1>1, Parts DEF JobsPlaced, Busy
    <2>3. /\ queue' \in Seq(Jobs \union Threads) /\ Distinct(queue')
          /\ Elems(queue') = Elems(queue) \union {job[t]}
      BY <2>1, <2>2, Parts, ElemsOfAppend
    <2>4. HostTypeOK'
      BY <1>1, <2>1, <2>3, Parts DEF HostTypeOK, Locations
    <2>5. JobsPlaced'
      BY <1>1, <2>1, <2>2, <2>3, Parts, NamesDiffer DEF JobsPlaced, Busy
    <2>6. BlocksAwaited'
      BY <1>1, <2>1, <2>2, <2>3, Parts, NamesDiffer DEF BlocksAwaited
    <2> QED
      BY <1>3, <1>4, <2>4, <2>5, <2>6 DEF HInv
  <1>6. CASE call[t]
    <2>1. queue' = queue /\ job' = job /\ pc' = [pc EXCEPT ![t] = "running"]
      BY <1>6 DEF Resumed
    <2>2. HostTypeOK'
      BY <1>1, <2>1, Parts DEF HostTypeOK, Locations
    <2>3. JobsPlaced'
      BY <1>1, <2>1, Parts DEF JobsPlaced, Busy
    <2>4. BlocksAwaited'
      BY <1>1, <2>1, Parts, NamesDiffer DEF BlocksAwaited
    <2> QED
      BY <1>3, <1>4, <2>2, <2>3, <2>4 DEF HInv
  <1> QED
    BY <1>5, <1>6

LEMMA CheckResumeStep ==
  ASSUME HInv, NEW t \in Threads, CheckResume(t)
  PROVE  HInv'
  <1>1. /\ pc[t] = "check" /\ UNCHANGED <<queue, idle, numIdle, job, call>>
    BY DEF CheckResume
  <1>2. CASE resume # None
    <2>1. /\ pc' = [pc EXCEPT ![t] = "park", ![resume] = "posted"] /\ resume' = None
      BY <1>2 DEF CheckResume
    <2>2. resume \in Threads /\ pc[resume] = "joined" /\ resume \notin Elems(queue)
      BY <1>2, Parts DEF BlocksAwaited
    <2>3. \A u \in Threads : pc'[u] = IF u = resume THEN "posted"
                                      ELSE IF u = t THEN "park" ELSE pc[u]
      BY <1>1, <2>1, <2>2, Parts
    <2>4. HostTypeOK'
      BY <1>1, <2>1, <2>2, Parts DEF HostTypeOK, Locations
    <2>5. OneRunner'
      BY <1>1, <2>2, <2>3, Parts DEF OneRunner, Owns
    <2>6. StackHoldsIdle'
      BY <1>1, <2>2, <2>3, Parts, IdleStays
    <2>7. JobsPlaced'
      BY <1>1, <2>2, <2>3, Parts DEF JobsPlaced, Busy
    <2>8. BlocksAwaited'
      BY <1>1, <2>1, <2>2, <2>3, Parts, NamesDiffer DEF BlocksAwaited
    <2> QED
      BY <2>4, <2>5, <2>6, <2>7, <2>8 DEF HInv
  <1>3. CASE resume = None
    <2>1. pc' = [pc EXCEPT ![t] = "loop"] /\ resume' = resume
      BY <1>3 DEF CheckResume
    <2>2. HostTypeOK'
      BY <1>1, <2>1, Parts DEF HostTypeOK, Locations
    <2>3. OneRunner'
      BY <1>1, <2>1, Parts DEF OneRunner, Owns
    <2>4. StackHoldsIdle'
      BY <1>1, <2>1, Parts, IdleStays
    <2>5. JobsPlaced'
      BY <1>1, <2>1, Parts DEF JobsPlaced, Busy
    <2>6. BlocksAwaited'
      BY <1>1, <1>3, <2>1, Parts, NamesDiffer DEF BlocksAwaited
    <2> QED
      BY <2>2, <2>3, <2>4, <2>5, <2>6 DEF HInv
  <1> QED
    BY <1>2, <1>3

LEMMA MainLoopsStep ==
  ASSUME HInv, MainLoops
  PROVE  HInv'
  <1>1. /\ Main \in Threads /\ pc[Main] = "check" /\ pc' = [pc EXCEPT ![Main] = "loop"]
        /\ UNCHANGED <<queue, resume, idle, numIdle, job, call>>
    BY HostAssumption DEF MainLoops
  <1>2. HostTypeOK'
    BY <1>1, Parts DEF HostTypeOK, Locations
  <1>3. OneRunner'
    BY <1>1, Parts DEF OneRunner, Owns
  <1>4. StackHoldsIdle'
    BY <1>1, Parts, IdleStays
  <1>5. JobsPlaced'
    BY <1>1, Parts DEF JobsPlaced, Busy
  <1>6. BlocksAwaited'
    BY <1>1, Parts, NamesDiffer DEF BlocksAwaited
  <1> QED
    BY <1>2, <1>3, <1>4, <1>5, <1>6 DEF HInv

LEMMA ParkStep ==
  ASSUME HInv, NEW t \in Threads, Park(t)
  PROVE  HInv'
  <1>1. /\ pc[t] = "park" /\ UNCHANGED <<queue, resume, job, call>>
    BY DEF Park
  <1>2. pc' = [pc EXCEPT ![t] = "unborn"] \/ pc' = [pc EXCEPT ![t] = "idle"]
    BY DEF Park
  <1>3. OneRunner'
    BY <1>1, <1>2, Parts DEF OneRunner, Owns
  <1>4. JobsPlaced'
    BY <1>1, <1>2, Parts DEF JobsPlaced, Busy
  <1>5. BlocksAwaited'
    BY <1>1, <1>2, Parts, NamesDiffer DEF BlocksAwaited
  <1>6. MaxIdle \in Nat
    BY HostAssumption
  <1>7. CASE numIdle >= MaxIdle
    <2>1. pc' = [pc EXCEPT ![t] = "unborn"] /\ idle' = idle /\ numIdle' = numIdle
      BY <1>6, <1>7, Parts DEF Park
    <2>2. HostTypeOK'
      BY <1>1, <2>1, Parts DEF HostTypeOK, Locations
    <2>3. StackHoldsIdle'
      BY <1>1, <2>1, Parts, IdleStays
    <2> QED
      BY <1>3, <1>4, <1>5, <2>2, <2>3 DEF HInv
  <1>8. CASE ~ (numIdle >= MaxIdle)
    <2>1. /\ numIdle < MaxIdle /\ pc' = [pc EXCEPT ![t] = "idle"]
          /\ idle' = <<t>> \o idle /\ numIdle' = numIdle + 1
      BY <1>8 DEF Park
    <2>2. t \notin Elems(idle)
      BY <1>1, Parts DEF StackHoldsIdle
    <2>3. /\ idle' \in Seq(Threads) /\ Distinct(idle')
          /\ Elems(idle') = Elems(idle) \union {t}
      BY <2>1, <2>2, Parts, ElemsOfPush
    <2>4. HostTypeOK'
      BY <1>1, <2>1, <2>3, Parts DEF HostTypeOK, Locations
    <2>5. Elems(idle') = {u \in Threads : pc'[u] = "idle"}
      BY <2>1, <2>3, Parts DEF StackHoldsIdle
    <2>6. Counted' = Counted \union {t} /\ t \notin Counted
      BY <1>1, <2>1, Parts DEF Counted
    <2>7. Cardinality(Counted \union {t}) = Cardinality(Counted) + 1
      BY <2>6, CountedIsFinite, FS_AddElement
    <2>8. numIdle' <= MaxIdle
      BY <1>6, <2>1, Parts
    <2>9. StackHoldsIdle'
      BY <2>1, <2>3, <2>5, <2>6, <2>7, <2>8, Parts DEF StackHoldsIdle
    <2> QED
      BY <1>3, <1>4, <1>5, <2>4, <2>9 DEF HInv
  <1> QED
    BY <1>7, <1>8

LEMMA WakeStep ==
  ASSUME HInv, NEW t \in Threads, Wake(t)
  PROVE  HInv'
  <1>1. /\ pc[t] = "signalled" /\ pc' = [pc EXCEPT ![t] = "loop"]
        /\ numIdle' = numIdle - 1 /\ UNCHANGED <<queue, resume, idle, job, call>>
    BY DEF Wake
  <1>2. t \in Counted /\ Counted' = Counted \ {t}
    BY <1>1, Parts DEF Counted
  <1>3. /\ Cardinality(Counted \ {t}) = Cardinality(Counted) - 1
        /\ Cardinality(Counted \ {t}) \in Nat
    BY <1>2, CountedIsFinite, FS_RemoveElement, FS_CardinalityType
  <1>4. numIdle = Cardinality(Counted) /\ numIdle <= MaxIdle /\ MaxIdle \in Nat
    BY Parts, HostAssumption DEF StackHoldsIdle
  <1>5. numIdle' = Cardinality(Counted \ {t}) /\ numIdle' \in Nat /\ numIdle' <= MaxIdle
    BY <1>1, <1>3, <1>4, CountedIsFinite
  <1>6. HostTypeOK'
    BY <1>1, <1>5, Parts DEF HostTypeOK, Locations
  <1>7. OneRunner'
    BY <1>1, Parts DEF OneRunner, Owns
  <1>8. Elems(idle') = {u \in Threads : pc'[u] = "idle"}
    BY <1>1, Parts DEF StackHoldsIdle
  <1>9. StackHoldsIdle'
    BY <1>1, <1>2, <1>5, <1>8, Parts DEF StackHoldsIdle
  <1>10. JobsPlaced'
    BY <1>1, Parts DEF JobsPlaced, Busy
  <1>11. BlocksAwaited'
    BY <1>1, Parts, NamesDiffer DEF BlocksAwaited
  <1> QED
    BY <1>6, <1>7, <1>9, <1>10, <1>11 DEF HInv

LEMMA NextH == HInv /\ [HostNext]_hostVars => HInv'
  <1> SUFFICES ASSUME HInv, [HostNext]_hostVars PROVE HInv'
    OBVIOUS
  <1>1. CASE HostNext
    <2>1. ASSUME NEW t \in Threads, Run(t) \/ Yield(t) \/ Sleep(t) \/ Join(t) \/ CallWait(t)
                 \/ Resumed(t) \/ CheckResume(t) \/ Park(t) \/ Wake(t)
          PROVE  HInv'
      BY <2>1, RunStep, YieldStep, SleepStep, JoinStep, CallWaitStep, ResumedStep,
         CheckResumeStep, ParkStep, WakeStep
    <2> QED
      BY <1>1, <2>1, MainLoopsStep DEF HostNext
  <1>2. CASE UNCHANGED hostVars
    <2>1. Counted' = Counted
      BY <1>2 DEF hostVars, Counted
    <2> QED
      BY <1>2, <2>1 DEF hostVars, HInv, HostTypeOK, OneRunner, Owns, StackHoldsIdle, JobsPlaced,
         BlocksAwaited
  <1> QED
    BY <1>1, <1>2

LEMMA HInvHolds == HostSpec => []HInv
  BY InitH, NextH, PTL DEF HostSpec
------------------------------------------------------------------------------
\* Each variable of HostThreads keeps its type.
THEOREM HostTypes == HostSpec => []HostTypeOK
  BY HInvHolds, PTL DEF HInv

\* However splits, joins and the end of main's loop interleave, exactly one thread
\* owns the scheduler.
THEOREM OneThreadRuns == HostSpec => []OneRunner
  BY HInvHolds, PTL DEF HInv

\* The stack of idle threads and NumIdle agree with what the threads do, and no
\* more than MaxIdle are kept.
THEOREM IdleThreadsAreKept == HostSpec => []IdleThreads
  <1>1. HInv => IdleThreads
    <2> SUFFICES ASSUME HInv PROVE IdleThreads
      OBVIOUS
    <2>1. \A i \in 1 .. Len(idle) : idle[i] \in Elems(idle)
      BY DEF Elems
    <2>2. \A t \in Elems(idle) : \E i \in 1 .. Len(idle) : idle[i] = t
      BY DEF Elems
    <2> QED
      BY <2>1, <2>2, Parts DEF StackHoldsIdle, Distinct, IdleThreads, Counted
  <1> QED
    BY <1>1, HInvHolds, PTL

\* A job is never lost, doubled or run by two threads.
THEOREM JobsAreConserved == HostSpec => []JobsConserved
  <1>1. HInv => JobsConserved
    <2> SUFFICES ASSUME HInv PROVE JobsConserved
      OBVIOUS
    <2>1. ASSUME NEW j \in Jobs PROVE Cardinality(Places(j)) = 1
      <3>1. CASE j \in Elems(queue)
        <4>1. PICK i \in 1 .. Len(queue) : queue[i] = j
          BY <3>1 DEF Elems
        <4>2. \A k \in 1 .. Len(queue) : queue[k] = j => k = i
          BY <4>1, Parts DEF Distinct
        <4>3. \A t \in Threads : job[t] # j
          BY <3>1, Parts DEF JobsPlaced
        <4>4. Places(j) = { <<"queue", i>> }
          BY <4>1, <4>2, <4>3 DEF Places
        <4> QED
          BY <4>4, FS_Singleton
      <3>2. CASE j \notin Elems(queue)
        <4>1. PICK t \in Threads : job[t] = j
          BY <3>2, Parts DEF JobsPlaced
        <4>2. \A u \in Threads : job[u] = j => u = t
          BY <4>1, Parts, NamesDiffer DEF JobsPlaced
        <4>3. \A k \in 1 .. Len(queue) : queue[k] # j
          BY <3>2 DEF Elems
        <4>4. Places(j) = { <<"thread", t>> }
          BY <4>1, <4>2, <4>3 DEF Places
        <4> QED
          BY <4>4, FS_Singleton
      <3> QED
        BY <3>1, <3>2
    <2> QED
      BY <2>1, Parts DEF JobsConserved, JobsPlaced, Busy
  <1> QED
    BY <1>1, HInvHolds, PTL

\* A block is queued once, and handed the scheduler only while its thread waits
\* for it.
THEOREM BlocksAreAwaited == HostSpec => []BlocksAreJoined
  <1>1. HInv => BlocksAreJoined
    <2> SUFFICES ASSUME HInv PROVE BlocksAreJoined
      OBVIOUS
    <2>1. \A i \in 1 .. Len(queue) : queue[i] \in Elems(queue)
      BY DEF Elems
    <2> QED
      BY <2>1, Parts DEF BlocksAreJoined, BlocksAwaited, Distinct
  <1> QED
    BY <1>1, HInvHolds, PTL
------------------------------------------------------------------------------
(* parallel.                                                                 *)

Continuing(s) == {i \in DOMAIN s : s[i][1] # "rest"}
One(f) == IF f[1] = "rest" THEN 0 ELSE 1

LEMMA PlacesFinite ==
  ASSUME NEW s \in Seq(Frames)
  PROVE  /\ IsFiniteSet(Continuing(s)) /\ OnTheWay(s) = Cardinality(Continuing(s))
         /\ OnTheWay(s) \in Nat /\ OnTheWay(<<>>) = 0
  <1>1. Continuing(s) \in SUBSET (1 .. Len(s)) /\ IsFiniteSet(1 .. Len(s))
    <2>1. Len(s) \in Nat /\ DOMAIN s = 1 .. Len(s)
      BY LenProperties
    <2>2. IsFiniteSet(1 .. Len(s))
      BY <2>1, FS_Interval
    <2> QED
      BY <2>1, <2>2 DEF Continuing
  <1>2. Continuing(<<>>) = {}
    BY DEF Continuing
  <1> QED
    BY <1>1, <1>2, FS_Subset, FS_CardinalityType, FS_EmptySet
    DEF Continuing, OnTheWay

\* A handler is added behind the others.
LEMMA AppendOnTheWay ==
  ASSUME NEW s \in Seq(Frames), NEW f \in Frames
  PROVE  /\ Append(s, f) \in Seq(Frames)
         /\ OnTheWay(Append(s, f)) = OnTheWay(s) + One(f)
  <1> DEFINE t == Append(s, f)
  <1>1. /\ t \in Seq(Frames) /\ Len(t) = Len(s) + 1 /\ t[Len(s) + 1] = f
        /\ \A i \in 1 .. Len(s) : t[i] = s[i]
        /\ DOMAIN t = 1 .. Len(s) + 1 /\ DOMAIN s = 1 .. Len(s) /\ Len(s) \in Nat
    BY LenProperties
  <1>2. Continuing(t) = IF f[1] = "rest" THEN Continuing(s)
                    ELSE Continuing(s) \union {Len(s) + 1}
    BY <1>1 DEF Continuing
  <1>3. Len(s) + 1 \notin Continuing(s)
    BY <1>1 DEF Continuing
  <1>4. IsFiniteSet(Continuing(s)) /\ OnTheWay(s) = Cardinality(Continuing(s))
        /\ OnTheWay(s) \in Nat
    BY PlacesFinite
  <1>5. OnTheWay(t) = Cardinality(Continuing(t))
    BY <1>1, PlacesFinite
  <1> QED
    <2>1. CASE f[1] = "rest"
      BY <2>1, <1>1, <1>2, <1>4, <1>5 DEF One
    <2>2. CASE f[1] # "rest"
      <3>1. Cardinality(Continuing(s) \union {Len(s) + 1}) = Cardinality(Continuing(s)) + 1
        BY <1>3, <1>4, FS_AddElement
      <3> QED
        BY <2>2, <3>1, <1>1, <1>2, <1>4, <1>5 DEF One
    <2> QED
      BY <2>1, <2>2

\* A handler is taken from the front.
LEMMA TailOnTheWay ==
  ASSUME NEW s \in Seq(Frames), s # <<>>
  PROVE  /\ s[1] \in Frames /\ Head(s) = s[1] /\ Tail(s) \in Seq(Frames)
         /\ OnTheWay(s) = OnTheWay(Tail(s)) + One(s[1])
  <1> DEFINE t == Tail(s)
             P == Continuing(s) \ {1}
             shift == [i \in Continuing(t) |-> i + 1]
  <1>1. /\ t \in Seq(Frames) /\ Len(t) = Len(s) - 1 /\ Len(s) \in Nat \ {0}
        /\ \A i \in 1 .. Len(t) : t[i] = s[i + 1]
        /\ DOMAIN t = 1 .. Len(t) /\ DOMAIN s = 1 .. Len(s)
    BY HeadTailProperties, LenProperties, EmptySeq
  <1>2. s[1] \in Frames /\ Head(s) = s[1]
    BY <1>1
  <1>3. \A i \in 1 .. Len(t) : i \in Continuing(t) <=> i + 1 \in Continuing(s)
    BY <1>1 DEF Continuing
  <1>4. Continuing(t) \subseteq 1 .. Len(t) /\ P \subseteq 2 .. Len(s)
    BY <1>1 DEF Continuing
  <1>5. shift \in Bijection(Continuing(t), P)
    <2>1. shift \in [Continuing(t) -> P]
      BY <1>1, <1>3, <1>4
    <2>2. \A i, j \in Continuing(t) : shift[i] = shift[j] => i = j
      BY <1>1, <1>4
    <2>3. \A j \in P : j - 1 \in Continuing(t) /\ shift[j - 1] = j
      BY <1>1, <1>3, <1>4
    <2> QED
      BY <2>1, <2>2, <2>3 DEF Bijection, Injection, IsInjective, Surjection
  <1>6. /\ IsFiniteSet(Continuing(t)) /\ OnTheWay(t) = Cardinality(Continuing(t))
        /\ OnTheWay(t) \in Nat
        /\ IsFiniteSet(Continuing(s)) /\ OnTheWay(s) = Cardinality(Continuing(s))
        /\ OnTheWay(s) \in Nat
    BY <1>1, PlacesFinite
  <1>7. Cardinality(P) = Cardinality(Continuing(t))
    BY <1>5, <1>6, FS_Bijection DEF ExistsBijection
  <1>8. 1 \in Continuing(s) <=> s[1][1] # "rest"
    BY <1>1 DEF Continuing
  <1> QED
    <2>1. Cardinality(P) = IF 1 \in Continuing(s) THEN Cardinality(Continuing(s)) - 1
                           ELSE Cardinality(Continuing(s))
      BY <1>6, FS_RemoveElement
    <2>2. One(s[1]) = IF 1 \in Continuing(s) THEN 1 ELSE 0
      BY <1>8 DEF One
    <2>3. OnTheWay(s) = OnTheWay(t) + One(s[1])
      BY <2>1, <2>2, <1>6, <1>7
    <2> QED
      BY <2>3, <1>1, <1>2

Front(f, s) == <<f>> \o s

\* A handler is put in front of the others.
LEMMA FrontOnTheWay ==
  ASSUME NEW s \in Seq(Frames), NEW f \in Frames
  PROVE  /\ Front(f, s) \in Seq(Frames)
         /\ OnTheWay(Front(f, s)) = OnTheWay(s) + One(f)
  <1> DEFINE t == <<f>> \o s
  <1>1. /\ t \in Seq(Frames) /\ Len(t) = Len(s) + 1 /\ t[1] = f /\ t # <<>>
        /\ \A i \in 1 .. Len(s) : t[i + 1] = s[i]
        /\ Len(s) \in Nat
    <2>1. <<f>> \in Seq(Frames) /\ Len(<<f>>) = 1 /\ <<f>>[1] = f
      OBVIOUS
    <2>2. /\ t \in Seq(Frames) /\ Len(t) = 1 + Len(s) /\ Len(s) \in Nat
          /\ \A i \in 1 .. 1 + Len(s) :
               t[i] = IF i <= 1 THEN <<f>>[i] ELSE s[i - 1]
      BY <2>1, ConcatProperties, LenProperties
    <2>3. \A i \in 1 .. Len(s) : t[i + 1] = s[i]
      BY <2>2
    <2> QED
      BY <2>1, <2>2, <2>3, EmptySeq
  <1>2. Tail(t) = s
    <2>1. /\ Tail(t) \in Seq(Frames) /\ Len(Tail(t)) = Len(s)
          /\ \A i \in 1 .. Len(s) : Tail(t)[i] = s[i]
      BY <1>1, HeadTailProperties
    <2> QED
      BY <2>1, SeqEqual
  <1> QED
    BY <1>1, <1>2, TailOnTheWay DEF Front
------------------------------------------------------------------------------
(* The inductive invariant.                                                 *)

Total == Cardinality(open) + OnTheWay(stack) + OnTheWay(sched)

Answered ==
  /\ error => answers = <<"error">>
  /\ ~ error => answers = <<>> \/ (answers = <<"nil">> /\ ~ iter /\ Total = 0)

ParallelInv == ParallelTypeOK /\ RunningCounted /\ Answered

LEMMA TotalFinite ==
  ASSUME ParallelTypeOK
  PROVE  /\ IsFiniteSet(open) /\ Cardinality(open) \in Nat
         /\ OnTheWay(stack) \in Nat /\ OnTheWay(sched) \in Nat
         /\ Total \in Nat
  <1>1. IsFiniteSet(1 .. Len(called)) /\ open \in SUBSET (1 .. Len(called))
    BY FS_Interval, LenProperties DEF ParallelTypeOK
  <1>2. IsFiniteSet(open) /\ Cardinality(open) \in Nat
    BY <1>1, FS_Subset, FS_CardinalityType
  <1>3. OnTheWay(stack) \in Nat /\ OnTheWay(sched) \in Nat
    BY PlacesFinite DEF ParallelTypeOK
  <1> QED
    BY <1>2, <1>3 DEF Total

\* The handler that runs, and the ones below it.
LEMMA Running ==
  ASSUME ParallelTypeOK, stack # <<>>
  PROVE  /\ stack[1] \in Frames /\ Tail(stack) \in Seq(Frames)
         /\ OnTheWay(Tail(stack)) \in Nat
         /\ OnTheWay(stack) = OnTheWay(Tail(stack)) + One(stack[1])
  BY TailOnTheWay, PlacesFinite DEF ParallelTypeOK

LEMMA TotalPositive ==
  ASSUME ParallelTypeOK, stack # <<>>, One(stack[1]) = 1
  PROVE  Total \in Nat /\ Total > 0
  BY Running, TotalFinite DEF Total

\* One handler takes the place of another.
LEMMA TotalKept ==
  ASSUME ParallelTypeOK, stack # <<>>, One(stack[1]) = 1, open' = open,
         OnTheWay(stack)' \in Nat, OnTheWay(sched)' \in Nat,
         OnTheWay(stack)' + OnTheWay(sched)'
           = OnTheWay(Tail(stack)) + OnTheWay(sched) + 1
  PROVE  Total' = Total
  <1>1. Cardinality(open)' = Cardinality(open)
    OBVIOUS
  <1>2. Total' = Cardinality(open)' + OnTheWay(stack)' + OnTheWay(sched)'
    BY DEF Total
  <1>3. /\ OnTheWay(Tail(stack)) \in Nat
        /\ OnTheWay(stack) = OnTheWay(Tail(stack)) + 1
    BY Running
  <1>4. /\ Cardinality(open) \in Nat /\ OnTheWay(sched) \in Nat
        /\ Total = Cardinality(open) + OnTheWay(stack) + OnTheWay(sched)
    BY TotalFinite DEF Total
  <1> QED
    BY <1>1, <1>2, <1>3, <1>4

LEMMA ReturnsStep ==
  ASSUME ParallelTypeOK, stack # <<>>, Returns
  PROVE  /\ stack' \in Seq(Frames) /\ sched' \in Seq(Frames)
         /\ OnTheWay(stack)' \in Nat /\ OnTheWay(sched)' \in Nat
         /\ OnTheWay(stack)' + OnTheWay(sched)'
              = OnTheWay(stack) + OnTheWay(sched) - One(stack[1])
  <1>1. stack' = Tail(stack) /\ sched' = sched
    BY DEF Returns
  <1>2. OnTheWay(stack)' = OnTheWay(Tail(stack)) /\ OnTheWay(sched)' = OnTheWay(sched)
    BY <1>1 DEF OnTheWay
  <1>3. One(stack[1]) \in {0, 1}
    BY DEF One
  <1> QED
    BY <1>1, <1>2, <1>3, Running, TotalFinite DEF ParallelTypeOK

LEMMA ContinueStep ==
  ASSUME ParallelTypeOK, NEW f \in Frames, NEW rest \in Seq(Frames), Continue(f, rest)
  PROVE  /\ stack' \in Seq(Frames) /\ sched' \in Seq(Frames)
         /\ OnTheWay(stack)' \in Nat /\ OnTheWay(sched)' \in Nat
         /\ OnTheWay(stack)' + OnTheWay(sched)'
              = OnTheWay(rest) + OnTheWay(sched) + One(f)
  <1>1. OnTheWay(rest) \in Nat /\ OnTheWay(sched) \in Nat /\ One(f) \in {0, 1}
    BY PlacesFinite, TotalFinite DEF One
  <1>2. CASE preempt
    <2>1. stack' = rest /\ sched' = Append(sched, f)
      BY <1>2 DEF Continue
    <2>2. /\ OnTheWay(stack)' = OnTheWay(rest)
          /\ OnTheWay(sched)' = OnTheWay(Append(sched, f))
      BY <2>1 DEF OnTheWay
    <2>3. sched \in Seq(Frames)
      BY DEF ParallelTypeOK
    <2>4. /\ Append(sched, f) \in Seq(Frames)
          /\ OnTheWay(Append(sched, f)) = OnTheWay(sched) + One(f)
      BY <2>3, AppendOnTheWay
    <2> QED
      BY <2>1, <2>2, <2>4, <1>1
  <1>3. CASE ~ preempt
    <2>1. stack' = Front(f, rest) /\ sched' = sched
      BY <1>3 DEF Continue, Front
    <2>2. /\ OnTheWay(stack)' = OnTheWay(Front(f, rest))
          /\ OnTheWay(sched)' = OnTheWay(sched)
      BY <2>1 DEF OnTheWay
    <2>3. /\ Front(f, rest) \in Seq(Frames)
          /\ OnTheWay(Front(f, rest)) = OnTheWay(rest) + One(f)
      BY FrontOnTheWay
    <2>4. sched \in Seq(Frames)
      BY DEF ParallelTypeOK
    <2> QED
      BY <2>1, <2>2, <2>3, <2>4, <1>1
  <1> QED
    BY <1>2, <1>3

LEMMA AskNextStep ==
  ASSUME ParallelTypeOK, stack # <<>>, AskNext
  PROVE  /\ stack' \in Seq(Frames) /\ sched' \in Seq(Frames) /\ position' \in Nat
         /\ OnTheWay(stack)' \in Nat /\ OnTheWay(sched)' \in Nat
         /\ OnTheWay(stack)' + OnTheWay(sched)'
              = OnTheWay(stack) + OnTheWay(sched) + 1 - One(stack[1])
  <1>1. position' \in Nat
    BY DEF AskNext, ParallelTypeOK
  <1>2. PICK x \in {"iter", "nil", "error"} : Continue(<<"next", x>>, Tail(stack))
    BY DEF AskNext
  <1>3. <<"next", x>> \in Frames /\ One(<<"next", x>>) = 1
    BY DEF Frames, One
  <1>4. /\ stack' \in Seq(Frames) /\ sched' \in Seq(Frames)
        /\ OnTheWay(stack)' + OnTheWay(sched)'
             = OnTheWay(Tail(stack)) + OnTheWay(sched) + 1
    BY <1>2, <1>3, Running, ContinueStep
  <1>6. OnTheWay(stack)' \in Nat /\ OnTheWay(sched)' \in Nat
    BY <1>2, <1>3, Running, ContinueStep
  <1>5. One(stack[1]) \in {0, 1}
    BY DEF One
  <1> QED
    BY <1>1, <1>4, <1>5, <1>6, Running, TotalFinite
------------------------------------------------------------------------------
(* Every step keeps the invariant.                                          *)

\* The invariant of the next state in terms of the count.
LEMMA InvOfTotal ==
  /\ ParallelTypeOK' /\ Answered'
  /\ ~ error' /\ ~ crashed' => numRunning' = Total'
  => ParallelInv'
  BY DEF ParallelInv, RunningCounted, Total

\* What handlers have as their arguments.
LEMMA Arguments ==
  ASSUME NEW f \in Frames
  PROVE  /\ f[1] \in {"key", "value"} => f[2] \in Nat
         /\ f[1] = "next" => f[2] \in {"iter", "nil", "error"}
         /\ f[1] = "continue" => f[2] \in {"nil", "error"}
  BY DEF Frames

LEMMA ParallelStarts == ParallelInit => ParallelInv
  <1> SUFFICES ASSUME ParallelInit PROVE ParallelInv
    OBVIOUS
  <1>1. /\ <<>> \in Seq(Frames) /\ <<"iterate", 0>> \in Frames
        /\ One(<<"iterate", 0>>) = 1
    BY DEF Frames, One
  <1>2. OnTheWay(<<>>) = 0
    BY <1>1, PlacesFinite
  <1>3. stack \in Seq(Frames) /\ OnTheWay(stack) = 1
    <2>1. stack = Append(<<>>, <<"iterate", 0>>)
      BY DEF ParallelInit
    <2>2. /\ Append(<<>>, <<"iterate", 0>>) \in Seq(Frames)
          /\ OnTheWay(Append(<<>>, <<"iterate", 0>>)) = 0 + 1
      BY <1>1, <1>2, AppendOnTheWay
    <2> QED
      BY <2>1, <2>2
  <1>4. sched = <<>> /\ OnTheWay(sched) = 0
    BY <1>2 DEF ParallelInit
  <1>5. open = {} /\ Cardinality(open) = 0
    BY FS_EmptySet DEF ParallelInit
  <1>6. ParallelTypeOK
    <2>1. length \in Nat /\ sliced \in BOOLEAN
      BY ParallelAssumption DEF ParallelInit
    <2>2. maxRunning \in Nat /\ burst \in Nat
      BY ParallelAssumption DEF ParallelInit
    <2>3. /\ sched \in Seq(Frames) /\ called \in Seq(Nat \X Nat)
          /\ answers \in Seq({"nil", "error"}) /\ open \subseteq 1 .. Len(called)
      BY DEF ParallelInit
    <2> QED
      BY <2>1, <2>2, <2>3, <1>3 DEF ParallelInit, ParallelTypeOK
  <1>7. RunningCounted
    BY <1>3, <1>4, <1>5 DEF ParallelInit, RunningCounted
  <1>8. ~ error /\ answers = <<>>
    BY DEF ParallelInit
  <1>9. Answered
    BY <1>8 DEF Answered
  <1> QED
    BY <1>6, <1>7, <1>9 DEF ParallelInv

LEMMA IterateInv == ParallelInv /\ Iterate => ParallelInv'
  <1> SUFFICES ASSUME ParallelInv, Iterate PROVE ParallelInv'
    OBVIOUS
  <1>1. ParallelTypeOK /\ stack # <<>> /\ One(stack[1]) = 1
    BY DEF ParallelInv, Iterate, Runs, One
  <1>2. AskNext
    BY DEF Iterate
  <1>3. ParallelTypeOK'
    BY <1>1, <1>2, AskNextStep DEF Iterate, ParallelTypeOK, fixed
  <1>4. Total' = Total
    <2>1. open' = open
      BY DEF Iterate
    <2> QED
      BY <2>1, <1>1, <1>2, AskNextStep, Running, TotalFinite, TotalKept
  <1> QED
    BY <1>3, <1>4, InvOfTotal DEF Iterate, ParallelInv, RunningCounted, Answered, Total

LEMMA NextHandlerInv == ParallelInv /\ ParallelIterNext => ParallelInv'
  <1> SUFFICES ASSUME ParallelInv, ParallelIterNext PROVE ParallelInv'
    OBVIOUS
  <1>1. /\ ParallelTypeOK /\ stack # <<>> /\ One(stack[1]) = 1
        /\ position \in Nat /\ Total \in Nat /\ Total > 0
    <2>1. ParallelTypeOK /\ stack # <<>> /\ One(stack[1]) = 1
      BY DEF ParallelInv, ParallelIterNext, Runs, One
    <2> QED
      BY <2>1, TotalPositive DEF ParallelTypeOK
  <1>2. ~ error => answers = <<>>
    BY <1>1 DEF ParallelInv, Answered
  <1>3. CASE Stopped
    <2>1. Returns /\ error /\ UNCHANGED <<iter, error, answers>>
      BY <1>3 DEF ParallelIterNext, Stopped
    <2>2. ParallelTypeOK'
      BY <2>1, <1>1, ReturnsStep DEF ParallelIterNext, ParallelTypeOK, fixed
    <2> QED
      BY <2>1, <2>2, InvOfTotal DEF ParallelInv, Answered
  <1>4. CASE ~ Stopped /\ stack[1][2] = "nil"
    <2>1. /\ iter' = FALSE /\ UNCHANGED <<error, answers>>
          /\ Continue(<<"continue", "nil">>, Tail(stack))
      BY <1>4 DEF ParallelIterNext
    <2>2. <<"continue", "nil">> \in Frames /\ One(<<"continue", "nil">>) = 1
      BY DEF Frames, One
    <2>3. /\ stack' \in Seq(Frames) /\ sched' \in Seq(Frames)
          /\ OnTheWay(stack)' \in Nat /\ OnTheWay(sched)' \in Nat
          /\ OnTheWay(stack)' + OnTheWay(sched)'
               = OnTheWay(Tail(stack)) + OnTheWay(sched) + 1
      BY <1>1, <2>1, <2>2, Running, ContinueStep
    <2>4. ParallelTypeOK'
      BY <2>1, <2>3, <1>1 DEF ParallelIterNext, ParallelTypeOK, fixed
    <2>6. open' = open
      BY DEF ParallelIterNext
    <2>5. Total' = Total
      BY <2>3, <2>6, <1>1, TotalKept
    <2> QED
      BY <1>2, <2>1, <2>4, <2>5, InvOfTotal
      DEF ParallelIterNext, ParallelInv, RunningCounted, Answered, Total
  <1>5. CASE ~ Stopped /\ stack[1][2] = "error"
    <2>1. /\ error' = TRUE /\ answers' = Append(answers, "error") /\ Returns
          /\ UNCHANGED iter /\ ~ error
      BY <1>5 DEF ParallelIterNext, Stopped
    <2>2. answers' = <<"error">>
      BY <2>1, <1>2
    <2>3. ParallelTypeOK'
      BY <2>1, <2>2, <1>1, ReturnsStep DEF ParallelIterNext, ParallelTypeOK, fixed
    <2> QED
      BY <2>1, <2>2, <2>3, InvOfTotal DEF Answered
  <1>6. CASE ~ Stopped /\ stack[1][2] = "iter"
    <2>1. /\ iter' = TRUE /\ UNCHANGED <<error, answers>> /\ ~ error
          /\ Continue(<<"key", position>>, Tail(stack))
      BY <1>6 DEF ParallelIterNext, Stopped
    <2>2. <<"key", position>> \in Frames /\ One(<<"key", position>>) = 1
      BY <1>1 DEF Frames, One
    <2>3. /\ stack' \in Seq(Frames) /\ sched' \in Seq(Frames)
          /\ OnTheWay(stack)' \in Nat /\ OnTheWay(sched)' \in Nat
          /\ OnTheWay(stack)' + OnTheWay(sched)'
               = OnTheWay(Tail(stack)) + OnTheWay(sched) + 1
      BY <1>1, <2>1, <2>2, Running, ContinueStep
    <2>4. ParallelTypeOK'
      BY <2>1, <2>3, <1>1 DEF ParallelIterNext, ParallelTypeOK, fixed
    <2>6. open' = open
      BY DEF ParallelIterNext
    <2>5. Total' = Total
      BY <2>3, <2>6, <1>1, TotalKept
    <2> QED
      BY <1>2, <2>1, <2>4, <2>5, InvOfTotal
      DEF ParallelIterNext, ParallelInv, RunningCounted, Answered, Total
  <1> QED
    BY <1>3, <1>4, <1>5, <1>6 DEF ParallelIterNext

LEMMA KeyHandlerInv == ParallelInv /\ ParallelIterKey => ParallelInv'
  <1> SUFFICES ASSUME ParallelInv, ParallelIterKey PROVE ParallelInv'
    OBVIOUS
  <1>1. /\ ParallelTypeOK /\ stack # <<>> /\ One(stack[1]) = 1 /\ stack[1][2] \in Nat
        /\ position \in Nat /\ Total \in Nat /\ Total > 0
    <2>1. ParallelTypeOK /\ stack # <<>> /\ One(stack[1]) = 1 /\ stack[1][1] = "key"
      BY DEF ParallelInv, ParallelIterKey, Runs, One
    <2> QED
      BY <2>1, TotalPositive, Running, Arguments DEF ParallelTypeOK
  <1>2. ~ error => answers = <<>>
    BY <1>1 DEF ParallelInv, Answered
  <1>3. CASE Stopped
    <2>1. Returns /\ error /\ UNCHANGED <<key, crashed>>
      BY <1>3 DEF ParallelIterKey, Stopped
    <2>2. ParallelTypeOK'
      BY <2>1, <1>1, ReturnsStep DEF ParallelIterKey, ParallelTypeOK, fixed
    <2> QED
      BY <2>1, <2>2, InvOfTotal
      DEF ParallelIterKey, ParallelInv, RunningCounted, Answered, Total
  <1>4. CASE ~ Stopped /\ iter
    <2>1. /\ key' = stack[1][2] /\ UNCHANGED crashed
          /\ Continue(<<"value", position>>, Tail(stack))
      BY <1>4 DEF ParallelIterKey
    <2>2. <<"value", position>> \in Frames /\ One(<<"value", position>>) = 1
      BY <1>1 DEF Frames, One
    <2>3. /\ stack' \in Seq(Frames) /\ sched' \in Seq(Frames)
          /\ OnTheWay(stack)' \in Nat /\ OnTheWay(sched)' \in Nat
          /\ OnTheWay(stack)' + OnTheWay(sched)'
               = OnTheWay(Tail(stack)) + OnTheWay(sched) + 1
      BY <1>1, <2>1, <2>2, Running, ContinueStep
    <2>4. ParallelTypeOK'
      BY <2>1, <2>3, <1>1 DEF ParallelIterKey, ParallelTypeOK, fixed
    <2>6. open' = open
      BY DEF ParallelIterKey
    <2>5. Total' = Total
      BY <2>3, <2>6, <1>1, TotalKept
    <2> QED
      BY <1>2, <2>1, <2>4, <2>5, InvOfTotal
      DEF ParallelIterKey, ParallelInv, RunningCounted, Answered, Total
  <1>5. CASE ~ Stopped /\ ~ iter
    <2>1. key' = stack[1][2] /\ crashed' = TRUE /\ crashed' /\ Returns
      BY <1>5 DEF ParallelIterKey
    <2>2. ParallelTypeOK'
      BY <2>1, <1>1, ReturnsStep DEF ParallelIterKey, ParallelTypeOK, fixed
    <2> QED
      BY <1>2, <2>1, <2>2, InvOfTotal
      DEF ParallelIterKey, ParallelInv, RunningCounted, Answered, Total
  <1> QED
    BY <1>3, <1>4, <1>5

LEMMA ValueHandlerInv == ParallelInv /\ ParallelIterValue => ParallelInv'
  <1> SUFFICES ASSUME ParallelInv, ParallelIterValue PROVE ParallelInv'
    OBVIOUS
  <1> DEFINE rest == Front(<<"rest", 0>>, Tail(stack))
  <1>1. ParallelTypeOK /\ stack # <<>> /\ One(stack[1]) = 1 /\ stack[1][1] = "value"
    BY DEF ParallelInv, ParallelIterValue, Runs, One
  <1>2. /\ stack[1][2] \in Nat /\ Total \in Nat /\ Total > 0
        /\ key \in Nat /\ called \in Seq(Nat \X Nat) /\ open \subseteq 1 .. Len(called)
    BY <1>1, TotalPositive, Running, Arguments DEF ParallelTypeOK
  <1>3. ~ error => answers = <<>>
    BY <1>2 DEF ParallelInv, Answered
  <1>4. /\ rest \in Seq(Frames) /\ OnTheWay(rest) = OnTheWay(Tail(stack))
    <2>1. <<"rest", 0>> \in Frames /\ One(<<"rest", 0>>) = 0
      BY DEF Frames, One
    <2>2. Tail(stack) \in Seq(Frames) /\ OnTheWay(Tail(stack)) \in Nat
      BY <1>1, Running
    <2>3. /\ rest \in Seq(Frames)
          /\ OnTheWay(rest) = OnTheWay(Tail(stack)) + One(<<"rest", 0>>)
      BY <2>1, <2>2, FrontOnTheWay
    <2> HIDE DEF rest
    <2> QED
      BY <2>1, <2>2, <2>3
  <1> HIDE DEF rest
  <1>5. CASE Stopped /\ Returns /\ UNCHANGED <<called, open>>
    <2>1. error
      BY <1>5 DEF Stopped
    <2>2. ParallelTypeOK'
      BY <1>1, <1>5, ReturnsStep DEF ParallelIterValue, ParallelTypeOK, fixed
    <2> QED
      BY <2>1, <2>2, InvOfTotal DEF ParallelIterValue, ParallelInv, Answered
  <1>6. CASE ~ Stopped /\ called' = Append(called, <<key, stack[1][2]>>)
    <2>1. /\ called' \in Seq(Nat \X Nat) /\ Len(called') = Len(called) + 1
          /\ Len(called) \in Nat
      BY <1>2, <1>6
    <2>2. ~ error /\ UNCHANGED <<iter, error, answers, numRunning, crashed>>
      BY <1>6 DEF Stopped, ParallelIterValue
    <2>3. CASE /\ \E x \in {"nil", "error"} : Continue(<<"continue", x>>, rest)
               /\ UNCHANGED open
      <3>1. PICK x \in {"nil", "error"} : Continue(<<"continue", x>>, rest)
        BY <2>3
      <3>2. <<"continue", x>> \in Frames /\ One(<<"continue", x>>) = 1
        BY DEF Frames, One
      <3>3. /\ stack' \in Seq(Frames) /\ sched' \in Seq(Frames)
            /\ OnTheWay(stack)' \in Nat /\ OnTheWay(sched)' \in Nat
            /\ OnTheWay(stack)' + OnTheWay(sched)'
                 = OnTheWay(Tail(stack)) + OnTheWay(sched) + 1
        BY <1>1, <1>4, <3>1, <3>2, ContinueStep
      <3>4. open' = open /\ open' \subseteq 1 .. Len(called')
        BY <1>2, <2>1, <2>3
      <3>5. ParallelTypeOK'
        BY <1>1, <2>1, <3>3, <3>4 DEF ParallelIterValue, ParallelTypeOK, fixed
      <3>6. Total' = Total
        BY <1>1, <3>3, <3>4, TotalKept
      <3> QED
        BY <1>3, <2>2, <3>5, <3>6, InvOfTotal
        DEF ParallelInv, RunningCounted, Answered, Total
    <2>4. CASE /\ open' = open \union {Len(called) + 1}
               /\ stack' = rest /\ UNCHANGED sched
      <3>1. /\ stack' \in Seq(Frames) /\ sched' \in Seq(Frames)
            /\ OnTheWay(stack)' = OnTheWay(Tail(stack))
            /\ OnTheWay(sched)' = OnTheWay(sched)
        <4>1. OnTheWay(stack)' = OnTheWay(rest) /\ OnTheWay(sched)' = OnTheWay(sched)
          BY <2>4 DEF OnTheWay
        <4> QED
          BY <4>1, <2>4, <1>1, <1>4 DEF ParallelTypeOK
      <3>2. open' \subseteq 1 .. Len(called')
        <4>1. ASSUME NEW i \in open' PROVE i \in 1 .. Len(called) + 1
          BY <1>2, <2>1, <2>4
        <4> QED
          BY <2>1, <4>1
      <3>3. ParallelTypeOK'
        BY <1>1, <2>1, <3>1, <3>2 DEF ParallelIterValue, ParallelTypeOK, fixed
      <3>4. Cardinality(open)' = Cardinality(open) + 1
        <4>1. Len(called) + 1 \notin open
          BY <1>2, <2>1
        <4> QED
          BY <4>1, <2>4, <1>1, TotalFinite, FS_AddElement
      <3>5. Total' = Cardinality(open)' + OnTheWay(stack)' + OnTheWay(sched)'
        BY DEF Total
      <3>6. Total = Cardinality(open) + OnTheWay(stack) + OnTheWay(sched)
        BY DEF Total
      <3>7. Total' = Total
        BY <1>1, <3>1, <3>4, <3>5, <3>6, Running, TotalFinite
      <3> QED
        BY <1>3, <2>2, <3>3, <3>7, InvOfTotal
        DEF ParallelInv, RunningCounted, Answered, Total
    <2> QED
      BY <1>6, <2>3, <2>4 DEF ParallelIterValue, rest, Front
  <1> QED
    BY <1>5, <1>6 DEF ParallelIterValue

LEMMA RestHandlerInv == ParallelInv /\ ParallelIterRest => ParallelInv'
  <1> SUFFICES ASSUME ParallelInv, ParallelIterRest PROVE ParallelInv'
    OBVIOUS
  <1>1. /\ ParallelTypeOK /\ stack # <<>> /\ One(stack[1]) = 0
        /\ UNCHANGED <<open, iter, error, answers, crashed>>
    BY DEF ParallelInv, ParallelIterRest, Runs, One
  <1>2. /\ Cardinality(open)' = Cardinality(open) /\ Cardinality(open) \in Nat
        /\ OnTheWay(stack) \in Nat /\ OnTheWay(sched) \in Nat
        /\ Total = Cardinality(open) + OnTheWay(stack) + OnTheWay(sched)
        /\ Total' = Cardinality(open)' + OnTheWay(stack)' + OnTheWay(sched)'
    BY <1>1, TotalFinite DEF Total
  <1>3. CASE iter /\ ~ Paused
    <2>1. AskNext /\ numRunning' = numRunning + 1
      BY <1>3 DEF ParallelIterRest
    <2>2. ParallelTypeOK'
      BY <1>1, <2>1, AskNextStep DEF ParallelIterRest, ParallelTypeOK, fixed
    <2>3. Total' = Total + 1
      <3>1. /\ OnTheWay(stack)' \in Nat /\ OnTheWay(sched)' \in Nat
            /\ OnTheWay(stack)' + OnTheWay(sched)'
                 = OnTheWay(stack) + OnTheWay(sched) + 1 - One(stack[1])
        BY <1>1, <2>1, AskNextStep
      <3> QED
        BY <1>1, <1>2, <3>1
    <2> QED
      BY <1>1, <1>3, <2>1, <2>2, <2>3, InvOfTotal
      DEF ParallelInv, RunningCounted, Answered, Total
  <1>4. CASE ~ (iter /\ ~ Paused)
    <2>1. Returns /\ UNCHANGED <<position, numRunning>>
      BY <1>4 DEF ParallelIterRest
    <2>2. ParallelTypeOK'
      BY <1>1, <2>1, ReturnsStep DEF ParallelIterRest, ParallelTypeOK, fixed
    <2>3. Total' = Total
      BY <1>1, <1>2, <2>1, ReturnsStep
    <2> QED
      BY <1>1, <2>1, <2>2, <2>3, InvOfTotal
      DEF ParallelInv, RunningCounted, Answered, Total
  <1> QED
    BY <1>3, <1>4

LEMMA ContinueHandlerInv == ParallelInv /\ ParallelContinue => ParallelInv'
  <1> SUFFICES ASSUME ParallelInv, ParallelContinue PROVE ParallelInv'
    OBVIOUS
  <1> DEFINE n == numRunning - 1
  <1>1. /\ ParallelTypeOK /\ stack # <<>> /\ One(stack[1]) = 1 /\ ~ crashed
        /\ UNCHANGED <<open, iter, crashed>>
    BY DEF ParallelInv, ParallelContinue, Runs, One
  <1>2. /\ Cardinality(open)' = Cardinality(open) /\ Cardinality(open) \in Nat
        /\ OnTheWay(stack) \in Nat /\ OnTheWay(sched) \in Nat
        /\ Total = Cardinality(open) + OnTheWay(stack) + OnTheWay(sched)
        /\ Total' = Cardinality(open)' + OnTheWay(stack)' + OnTheWay(sched)'
        /\ Total \in Nat /\ Total > 0
    BY <1>1, TotalFinite, TotalPositive DEF Total
  <1>3. ~ error => answers = <<>> /\ numRunning = Total
    BY <1>1, <1>2 DEF ParallelInv, Answered, RunningCounted, Total
  <1>4. CASE Stopped /\ Returns /\ UNCHANGED <<position, numRunning, error, answers>>
    <2>1. error
      BY <1>4 DEF Stopped
    <2>2. ParallelTypeOK'
      BY <1>1, <1>4, ReturnsStep DEF ParallelContinue, ParallelTypeOK, fixed
    <2> QED
      BY <2>1, <2>2, <1>4, InvOfTotal DEF ParallelInv, Answered
  <1>5. CASE /\ ~ Stopped /\ error' = TRUE /\ answers' = Append(answers, "error")
             /\ Returns /\ UNCHANGED <<position, numRunning>>
    <2>1. error' /\ answers' = <<"error">>
      BY <1>3, <1>5 DEF Stopped
    <2>2. ParallelTypeOK'
      BY <1>1, <1>5, <2>1, ReturnsStep DEF ParallelContinue, ParallelTypeOK, fixed
    <2> QED
      BY <2>1, <2>2, InvOfTotal DEF Answered
  <1>6. CASE ~ Stopped /\ AskNext /\ UNCHANGED <<numRunning, error, answers>>
    <2>1. ParallelTypeOK'
      BY <1>1, <1>6, AskNextStep DEF ParallelContinue, ParallelTypeOK, fixed
    <2>2. Total' = Total
      BY <1>1, <1>2, <1>6, AskNextStep
    <2> QED
      BY <1>1, <1>3, <1>6, <2>1, <2>2, InvOfTotal DEF Stopped, Answered
  <1>7. CASE /\ ~ Stopped /\ Returns /\ numRunning' = n
             /\ UNCHANGED <<position, error>>
             /\ \/ UNCHANGED answers
                \/ ~ iter /\ n = 0 /\ answers' = Append(answers, "nil")
    <2>1. ~ error /\ ~ error' /\ n \in Nat
      BY <1>2, <1>3, <1>7 DEF Stopped
    <2>2. answers' \in {<<>>, <<"nil">>}
      BY <1>3, <1>7, <2>1
    <2>3. ParallelTypeOK'
      BY <1>1, <1>7, <2>1, <2>2, ReturnsStep DEF ParallelContinue, ParallelTypeOK, fixed
    <2>4. Total' = Total - 1
      <3>1. /\ OnTheWay(stack)' \in Nat /\ OnTheWay(sched)' \in Nat
            /\ OnTheWay(stack)' + OnTheWay(sched)'
                 = OnTheWay(stack) + OnTheWay(sched) - One(stack[1])
        BY <1>1, <1>7, ReturnsStep
      <3>2. OnTheWay(stack)' + OnTheWay(sched)' = OnTheWay(stack) + OnTheWay(sched) - 1
        BY <1>1, <3>1
      <3>3. Total' = Cardinality(open) + OnTheWay(stack)' + OnTheWay(sched)'
        BY <1>2
      <3>4. Total = Cardinality(open) + OnTheWay(stack) + OnTheWay(sched)
        BY <1>2
      <3>5. /\ Cardinality(open) \in Nat /\ OnTheWay(stack) \in Nat
            /\ OnTheWay(sched) \in Nat
        BY <1>2
      <3> QED
        BY <3>1, <3>2, <3>3, <3>4, <3>5
    <2>5. answers' = <<>> \/ (answers' = <<"nil">> /\ ~ iter' /\ Total' = 0)
      BY <1>1, <1>2, <1>3, <1>7, <2>1, <2>4
    <2> QED
      BY <1>2, <1>3, <1>7, <2>1, <2>3, <2>4, <2>5, InvOfTotal DEF Answered
  <1> QED
    <2>1. \/ Stopped /\ Returns /\ UNCHANGED <<position, numRunning, error, answers>>
          \/ /\ ~ Stopped /\ error' = TRUE /\ answers' = Append(answers, "error")
             /\ Returns /\ UNCHANGED <<position, numRunning>>
          \/ ~ Stopped /\ AskNext /\ UNCHANGED <<numRunning, error, answers>>
          \/ /\ ~ Stopped /\ Returns /\ numRunning' = n
             /\ UNCHANGED <<position, error>>
             /\ UNCHANGED answers
          \/ /\ ~ Stopped /\ ~ iter /\ Returns /\ numRunning' = n
             /\ UNCHANGED <<position, error>>
             /\ answers' = IF n = 0 THEN Append(answers, "nil") ELSE answers
      BY DEF ParallelContinue
    <2> QED
      BY <2>1, <1>4, <1>5, <1>6, <1>7

LEMMA ResumeInv == ParallelInv /\ (\E i \in open : Resume(i)) => ParallelInv'
  <1> SUFFICES ASSUME ParallelInv, NEW i \in open, Resume(i) PROVE ParallelInv'
    OBVIOUS
  <1>1. /\ ParallelTypeOK /\ stack = <<>> /\ open' = open \ {i}
        /\ UNCHANGED <<iter, error, answers, numRunning, called, crashed>>
    BY DEF ParallelInv, Resume
  <1>2. PICK x \in {"nil", "error"} : Continue(<<"continue", x>>, <<>>)
    BY DEF Resume
  <1>3. /\ <<"continue", x>> \in Frames /\ One(<<"continue", x>>) = 1
        /\ <<>> \in Seq(Frames) /\ OnTheWay(<<>>) = 0 /\ OnTheWay(stack) = 0
    <2>1. <<>> \in Seq(Frames)
      OBVIOUS
    <2>2. OnTheWay(<<>>) = 0
      BY <2>1, PlacesFinite
    <2> QED
      BY <2>1, <2>2, <1>1 DEF Frames, One
  <1>4. /\ stack' \in Seq(Frames) /\ sched' \in Seq(Frames)
        /\ OnTheWay(stack)' \in Nat /\ OnTheWay(sched)' \in Nat
        /\ OnTheWay(stack)' + OnTheWay(sched)'
             = OnTheWay(<<>>) + OnTheWay(sched) + One(<<"continue", x>>)
    BY <1>1, <1>2, <1>3, ContinueStep
  <1>5. Cardinality(open)' = Cardinality(open) - 1
    BY <1>1, TotalFinite, FS_RemoveElement
  <1>6. ParallelTypeOK'
    BY <1>1, <1>4 DEF Resume, ParallelTypeOK, fixed
  <1>7. Total' = Cardinality(open)' + OnTheWay(stack)' + OnTheWay(sched)'
    BY DEF Total
  <1>8. /\ Total = Cardinality(open) + OnTheWay(stack) + OnTheWay(sched)
        /\ Cardinality(open) \in Nat /\ OnTheWay(sched) \in Nat
    BY <1>1, TotalFinite DEF Total
  <1>9. Total' = Total
    BY <1>3, <1>4, <1>5, <1>7, <1>8
  <1> QED
    BY <1>1, <1>6, <1>9, InvOfTotal
    DEF ParallelInv, RunningCounted, Answered, Total

LEMMA RunNextInv == ParallelInv /\ RunNext => ParallelInv'
  <1> SUFFICES ASSUME ParallelInv, RunNext PROVE ParallelInv'
    OBVIOUS
  <1>1. /\ ParallelTypeOK /\ stack = <<>> /\ sched # <<>> /\ stack' = <<Head(sched)>>
        /\ sched' = Tail(sched) /\ preempt' = FALSE
        /\ UNCHANGED <<iter, error, answers, numRunning, open, crashed>>
    BY DEF ParallelInv, RunNext
  <1>2. sched \in Seq(Frames)
    BY <1>1 DEF ParallelTypeOK
  <1>3. /\ Head(sched) \in Frames /\ Tail(sched) \in Seq(Frames)
        /\ OnTheWay(sched) = OnTheWay(Tail(sched)) + One(Head(sched))
    BY <1>1, <1>2, TailOnTheWay
  <1>4. <<>> \in Seq(Frames) /\ OnTheWay(<<>>) = 0 /\ OnTheWay(stack) = 0
    <2>1. <<>> \in Seq(Frames)
      OBVIOUS
    <2> QED
      BY <2>1, <1>1, PlacesFinite
  <1>5. stack' \in Seq(Frames) /\ OnTheWay(stack)' = One(Head(sched))
    <2>1. stack' = Append(<<>>, Head(sched))
      BY <1>1
    <2>2. /\ Append(<<>>, Head(sched)) \in Seq(Frames)
          /\ OnTheWay(Append(<<>>, Head(sched))) = 0 + One(Head(sched))
      BY <1>3, <1>4, AppendOnTheWay
    <2>3. OnTheWay(stack)' = OnTheWay(Append(<<>>, Head(sched)))
      BY <2>1 DEF OnTheWay
    <2> QED
      BY <2>1, <2>2, <2>3 DEF One
  <1>6. OnTheWay(sched)' = OnTheWay(Tail(sched))
    BY <1>1 DEF OnTheWay
  <1>7. ParallelTypeOK'
    BY <1>1, <1>3, <1>5 DEF RunNext, ParallelTypeOK, fixed
  <1>8. Cardinality(open)' = Cardinality(open) /\ Cardinality(open) \in Nat
    BY <1>1, TotalFinite
  <1>9. OnTheWay(Tail(sched)) \in Nat /\ One(Head(sched)) \in Nat
    BY <1>3, PlacesFinite DEF One
  <1>10. /\ Total' = Cardinality(open)' + OnTheWay(stack)' + OnTheWay(sched)'
         /\ Total = Cardinality(open) + OnTheWay(stack) + OnTheWay(sched)
    BY DEF Total
  <1>11. Total' = Total
    BY <1>3, <1>4, <1>5, <1>6, <1>8, <1>9, <1>10
  <1> QED
    BY <1>1, <1>7, <1>11, InvOfTotal
    DEF ParallelInv, RunningCounted, Answered, Total

LEMMA PreemptInv ==
  ParallelInv /\ (Preempt \/ UNCHANGED parallelVars) => ParallelInv'
  <1> SUFFICES ASSUME ParallelInv, Preempt \/ UNCHANGED parallelVars PROVE ParallelInv'
    OBVIOUS
  <1>1. /\ UNCHANGED <<fixed, stack, sched, position, iter, key, numRunning, error,
                       called, open, answers, crashed>>
        /\ preempt' \in BOOLEAN
    BY DEF Preempt, parallelVars, ParallelInv, ParallelTypeOK
  <1>2. ParallelTypeOK'
    BY <1>1 DEF ParallelInv, ParallelTypeOK, fixed
  <1>3. Total' = Total
    BY <1>1 DEF Total
  <1> QED
    BY <1>1, <1>2, <1>3, InvOfTotal DEF ParallelInv, RunningCounted, Answered, Total

\* The invariant holds in every state.
THEOREM Invariance == ParallelSpec => []ParallelInv
  <1>1. ParallelInit => ParallelInv
    BY ParallelStarts
  <1>2. ParallelInv /\ [ParallelNext]_parallelVars => ParallelInv'
    <2> SUFFICES ASSUME ParallelInv, [ParallelNext]_parallelVars PROVE ParallelInv'
      OBVIOUS
    <2>1. CASE Iterate
      BY <2>1, IterateInv
    <2>2. CASE ParallelIterNext
      BY <2>2, NextHandlerInv
    <2>3. CASE ParallelIterKey
      BY <2>3, KeyHandlerInv
    <2>4. CASE ParallelIterValue
      BY <2>4, ValueHandlerInv
    <2>5. CASE ParallelIterRest
      BY <2>5, RestHandlerInv
    <2>6. CASE ParallelContinue
      BY <2>6, ContinueHandlerInv
    <2>7. CASE RunNext
      BY <2>7, RunNextInv
    <2>8. CASE Preempt \/ UNCHANGED parallelVars
      BY <2>8, PreemptInv
    <2>9. CASE \E i \in open : Resume(i)
      BY <2>9, ResumeInv
    <2> QED
      BY <2>1, <2>2, <2>3, <2>4, <2>5, <2>6, <2>7, <2>8, <2>9 DEF ParallelNext, Step
  <1> QED
    BY <1>1, <1>2, PTL DEF ParallelSpec

\* Every variable keeps its type: NumRunning, which is a size_t, never goes below 0.
THEOREM ParallelTypes == ParallelSpec => []ParallelTypeOK
  <1>1. ParallelInv => ParallelTypeOK
    BY DEF ParallelInv
  <1> QED
    BY <1>1, Invariance, PTL

\* NumRunning is the number of calls and answers that are on their way, wherever
\* slices end.
THEOREM CallsAreCounted == ParallelSpec => []RunningCounted
  <1>1. ParallelInv => RunningCounted
    BY DEF ParallelInv
  <1> QED
    BY <1>1, Invariance, PTL

\* The caller of parallel is continued at most once, and with nil only when
\* nothing can continue parallel any more.
THEOREM CallerContinuedOnce == ParallelSpec => []AnsweredOnce
  <1>1. ParallelInv => AnsweredOnce
    <2> SUFFICES ASSUME ParallelInv PROVE AnsweredOnce
      OBVIOUS
    <2>1. /\ IsFiniteSet(open) /\ Cardinality(open) \in Nat
          /\ OnTheWay(stack) \in Nat /\ OnTheWay(sched) \in Nat
      BY TotalFinite DEF ParallelInv
    <2>2. CASE error
      BY <2>2 DEF ParallelInv, Answered, AnsweredOnce
    <2>3. CASE ~ error /\ answers = <<>>
      BY <2>3 DEF AnsweredOnce
    <2>4. CASE ~ error /\ answers = <<"nil">> /\ ~ iter /\ Total = 0
      <3>1. /\ Cardinality(open) = 0 /\ OnTheWay(stack) = 0 /\ OnTheWay(sched) = 0
        BY <2>1, <2>4 DEF Total
      <3>2. open = {}
        BY <2>1, <3>1, FS_EmptySet
      <3> QED
        BY <2>4, <3>1, <3>2 DEF AnsweredOnce
    <2> QED
      BY <2>2, <2>3, <2>4 DEF ParallelInv, Answered
  <1> QED
    BY <1>1, Invariance, PTL
------------------------------------------------------------------------------
(* Without slices handlers nest and nothing waits in the scheduler's queue, so *)
(* one answer at most is on its way and the iterator's position tells how many *)
(* calls there were.                                                          *)

RestsOnly(s) == \A i \in 1 .. Len(s) : s[i][1] = "rest"

Top == IF stack = <<>> THEN <<"none", 0>> ELSE stack[1]

\* The position against the number of calls, for the handler that runs.
InTurn ==
  /\ Top[1] = "iterate" => position = 0 /\ called = <<>>
  /\ Top[1] = "next" =>
       /\ position = Len(called) + 1
       /\ Top[2] = "iter" => position <= length
       /\ Top[2] = "nil" => position = length + 1
  /\ Top[1] \in {"key", "value"} =>
       position = Len(called) + 1 /\ position <= length /\ Top[2] = position /\ iter
  /\ Top[1] = "value" => key = position
  /\ Top[1] \in {"none", "rest", "continue"} =>
       IF iter THEN position = Len(called) ELSE Len(called) = length

\* The part of the invariant about the handlers that have been entered.
Nested ==
  sched = <<>> /\ ~ preempt /\ \A i \in 2 .. Len(stack) : stack[i][1] = "rest"

PairsInOrder ==
  Len(called) <= length /\ \A i \in 1 .. Len(called) : called[i] = <<i, i>>

PairsInv ==
  ~ sliced =>
    /\ Nested /\ PairsInOrder
    /\ ~ error => InTurn
    /\ answers = <<"nil">> => Len(called) = length

\* What is left below the handler that runs.
LEMMA BelowTop ==
  ASSUME ParallelTypeOK, Nested, stack # <<>>
  PROVE  RestsOnly(Tail(stack)) /\ Tail(stack) \in Seq(Frames)
  <1>1. /\ Tail(stack) \in Seq(Frames) /\ Len(Tail(stack)) = Len(stack) - 1
        /\ \A i \in 1 .. Len(Tail(stack)) : Tail(stack)[i] = stack[i + 1]
        /\ Len(stack) \in Nat \ {0}
    BY HeadTailProperties, LenProperties, EmptySeq DEF ParallelTypeOK
  <1> QED
    BY <1>1 DEF Nested, RestsOnly

\* A handler is entered at once.
LEMMA Enters ==
  ASSUME ParallelTypeOK, Nested, NEW f \in Frames, NEW rest \in Seq(Frames), RestsOnly(rest),
         Continue(f, rest), UNCHANGED preempt
  PROVE  Nested' /\ Top' = f
  <1>1. stack' = <<f>> \o rest /\ sched' = <<>> /\ ~ preempt'
    BY DEF Continue, Nested
  <1>2. /\ Len(stack') = 1 + Len(rest) /\ Len(rest) \in Nat
        /\ \A i \in 1 .. 1 + Len(rest) :
             stack'[i] = IF i <= 1 THEN <<f>>[i] ELSE rest[i - 1]
    <2>1. <<f>> \in Seq(Frames) /\ Len(<<f>>) = 1
      OBVIOUS
    <2> QED
      BY <1>1, <2>1, ConcatProperties, LenProperties
  <1>3. stack' # <<>> /\ stack'[1] = f
    BY <1>2
  <1>4. \A i \in 2 .. Len(stack') : stack'[i][1] = "rest"
    BY <1>2 DEF RestsOnly
  <1> QED
    BY <1>1, <1>3, <1>4 DEF Nested, Top

\* A handler returns to one that rests, or to the scheduler.
LEMMA Leaves ==
  ASSUME ParallelTypeOK, Nested, NEW rest \in Seq(Frames), RestsOnly(rest),
         stack' = rest, UNCHANGED <<sched, preempt>>
  PROVE  Nested' /\ Top'[1] \in {"none", "rest"}
  <1>1. rest # <<>> => Len(rest) \in Nat \ {0}
    BY LenProperties, EmptySeq
  <1>2. Len(rest) \in Nat
    BY LenProperties
  <1>3. \A i \in 2 .. Len(stack') : stack'[i][1] = "rest"
    BY <1>2 DEF RestsOnly
  <1>4. Top'[1] \in {"none", "rest"}
    BY <1>1 DEF Top, RestsOnly
  <1> QED
    BY <1>3, <1>4 DEF Nested

\* The iterator is asked when its position is the number of calls.
LEMMA AsksInTurn ==
  ASSUME ParallelTypeOK, Nested, PairsInOrder, stack # <<>>, AskNext,
         UNCHANGED <<fixed, preempt, called>>, ~ error => position = Len(called)
  PROVE  Nested' /\ (~ error => InTurn') /\ Top'[1] = "next"
  <1>1. PICK x \in {IF position < length THEN "iter" ELSE "nil", "error"} :
          Continue(<<"next", x>>, Tail(stack))
    BY DEF AskNext
  <1>2. <<"next", x>> \in Frames
    BY <1>1 DEF Frames
  <1>3. Nested' /\ Top' = <<"next", x>>
    BY <1>1, <1>2, BelowTop, Enters
  <1>4. /\ position \in Nat /\ length \in Nat /\ Len(called) \in Nat
        /\ position' = position + 1 /\ length' = length
    BY LenProperties DEF ParallelTypeOK, AskNext, fixed
  <1>5. ~ error => InTurn'
    BY <1>1, <1>3, <1>4 DEF InTurn, PairsInOrder
  <1> QED
    BY <1>3, <1>5

\* Nothing changes but the handlers, and none has the iterator's position.
LEMMA PairsAfterReturn ==
  ASSUME ParallelTypeOK, Nested, PairsInOrder, stack # <<>>, Returns,
         UNCHANGED <<fixed, preempt, position, iter, called>>,
         ~ error' => IF iter THEN position = Len(called) ELSE Len(called) = length
  PROVE  Nested' /\ PairsInOrder' /\ (~ error' => InTurn')
  <1>1. Nested' /\ Top'[1] \in {"none", "rest"}
    BY BelowTop, Leaves DEF Returns
  <1> QED
    BY <1>1 DEF InTurn, PairsInOrder, fixed

LEMMA PairsInit == ParallelInit => PairsInv
  <1> SUFFICES ASSUME ParallelInit PROVE PairsInv
    OBVIOUS
  <1>1. /\ stack = << <<"iterate", 0>> >> /\ sched = <<>> /\ ~ preempt
        /\ position = 0 /\ called = <<>> /\ answers = <<>> /\ length \in Nat
    BY ParallelAssumption DEF ParallelInit
  <1>2. Len(stack) = 1 /\ Top = <<"iterate", 0>> /\ Len(called) = 0
    BY <1>1 DEF Top
  <1> QED
    BY <1>1, <1>2 DEF PairsInv, Nested, PairsInOrder, InTurn

\* After nil was given there is nothing that could ask for a value.
LEMMA NothingAfterNil ==
  ASSUME ParallelInv, answers = <<"nil">>
  PROVE  ~ error /\ ~ iter /\ open = {} /\ (stack # <<>> => One(stack[1]) = 0)
  <1>1. ~ error /\ ~ iter /\ Total = 0
    BY DEF ParallelInv, Answered
  <1>2. /\ IsFiniteSet(open) /\ Cardinality(open) = 0
        /\ OnTheWay(stack) = 0
    BY <1>1, TotalFinite DEF ParallelInv, Total
  <1>3. stack # <<>> => One(stack[1]) = 0
    <2>1. stack # <<>> => OnTheWay(stack) = OnTheWay(Tail(stack)) + One(stack[1])
                          /\ OnTheWay(Tail(stack)) \in Nat
      BY Running DEF ParallelInv
    <2> QED
      BY <1>2, <2>1 DEF One
  <1> QED
    BY <1>1, <1>2, <1>3, FS_EmptySet

LEMMA PairsNextHandler ==
  ASSUME ParallelInv, PairsInv, ~ sliced, ParallelIterNext
  PROVE  PairsInv'
  <1>1. /\ ParallelTypeOK /\ Nested /\ PairsInOrder /\ stack # <<>> /\ Top = stack[1]
        /\ Top[1] = "next" /\ (~ error => InTurn)
        /\ UNCHANGED <<fixed, preempt, position, key, called>>
    BY DEF ParallelInv, PairsInv, ParallelIterNext, Runs, Top
  <1>2. PairsInOrder' /\ length' = length
    BY <1>1 DEF PairsInOrder, fixed
  <1>3. ~ error => answers = <<>>
    <2>1. One(stack[1]) = 1
      BY <1>1 DEF One
    <2> QED
      BY <2>1, <1>1, NothingAfterNil DEF ParallelInv, Answered
  <1>4. Tail(stack) \in Seq(Frames) /\ RestsOnly(Tail(stack))
    BY <1>1, BelowTop
  <1>5. CASE Stopped /\ Returns /\ UNCHANGED <<iter, error, answers>>
    <2>1. error /\ error'
      BY <1>5 DEF Stopped
    <2> QED
      BY <1>1, <1>5, <2>1, PairsAfterReturn DEF PairsInv, ParallelInv, Answered
  <1>6. CASE /\ ~ Stopped /\ stack[1][2] = "nil" /\ iter' = FALSE
             /\ Continue(<<"continue", "nil">>, Tail(stack))
             /\ UNCHANGED <<error, answers>>
    <2>1. <<"continue", "nil">> \in Frames
      BY DEF Frames
    <2>2. Nested' /\ Top' = <<"continue", "nil">>
      BY <1>1, <1>4, <1>6, <2>1, Enters
    <2>3. Len(called) = length
      BY <1>1, <1>6, LenProperties DEF InTurn, Stopped, ParallelTypeOK
    <2>4. InTurn'
      BY <1>1, <1>2, <1>6, <2>2, <2>3 DEF InTurn
    <2> QED
      BY <1>2, <1>3, <1>6, <2>2, <2>4 DEF PairsInv, Stopped
  <1>7. CASE /\ ~ Stopped /\ error' = TRUE /\ answers' = Append(answers, "error")
             /\ Returns /\ UNCHANGED iter
    <2>1. answers' = <<"error">>
      BY <1>3, <1>7 DEF Stopped
    <2>2. answers'[1] # "nil"
      BY <2>1
    <2>3. Nested' /\ PairsInOrder' /\ error'
      BY <1>1, <1>7, PairsAfterReturn
    <2> QED
      BY <2>2, <2>3 DEF PairsInv
  <1>8. CASE /\ ~ Stopped /\ stack[1][2] = "iter" /\ iter' = TRUE
             /\ Continue(<<"key", position>>, Tail(stack))
             /\ UNCHANGED <<error, answers>>
    <2>1. <<"key", position>> \in Frames /\ position \in Nat
      BY <1>1 DEF Frames, ParallelTypeOK
    <2>2. Nested' /\ Top' = <<"key", position>>
      BY <1>1, <1>4, <1>8, <2>1, Enters
    <2>3. InTurn'
      BY <1>1, <1>2, <1>8, <2>2 DEF InTurn, Stopped
    <2> QED
      BY <1>2, <1>3, <1>8, <2>2, <2>3 DEF PairsInv, Stopped
  <1> QED
    BY <1>5, <1>6, <1>7, <1>8 DEF ParallelIterNext

LEMMA PairsKeyHandler ==
  ASSUME ParallelInv, PairsInv, ~ sliced, ParallelIterKey
  PROVE  PairsInv'
  <1>1. /\ ParallelTypeOK /\ Nested /\ PairsInOrder /\ stack # <<>> /\ Top = stack[1]
        /\ Top[1] = "key" /\ (~ error => InTurn)
        /\ UNCHANGED <<fixed, preempt, position, iter, error, called, answers>>
    BY DEF ParallelInv, PairsInv, ParallelIterKey, Runs, Top
  <1>2. PairsInOrder' /\ length' = length
    BY <1>1 DEF PairsInOrder, fixed
  <1>3. ~ error => iter /\ answers = <<>>
    BY <1>1 DEF InTurn, ParallelInv, Answered
  <1>4. CASE Stopped /\ Returns
    BY <1>1, <1>4, PairsAfterReturn DEF PairsInv, Stopped, ParallelInv, Answered
  <1>5. CASE /\ ~ Stopped /\ key' = stack[1][2] /\ iter
             /\ Continue(<<"value", position>>, Tail(stack))
    <2>1. <<"value", position>> \in Frames /\ position \in Nat
      BY <1>1 DEF Frames, ParallelTypeOK
    <2>2. Nested' /\ Top' = <<"value", position>>
      BY <1>1, <1>5, <2>1, BelowTop, Enters
    <2>3. InTurn'
      BY <1>1, <1>2, <1>5, <2>2 DEF InTurn, Stopped
    <2> QED
      BY <1>1, <1>2, <1>3, <1>5, <2>2, <2>3 DEF PairsInv, Stopped
  <1> QED
    BY <1>3, <1>4, <1>5 DEF ParallelIterKey, Stopped

LEMMA PairsValueHandler ==
  ASSUME ParallelInv, PairsInv, ~ sliced, ParallelIterValue
  PROVE  PairsInv'
  <1> DEFINE rest == << <<"rest", 0>> >> \o Tail(stack)
  <1>1. /\ ParallelTypeOK /\ Nested /\ PairsInOrder /\ stack # <<>> /\ Top = stack[1]
        /\ Top[1] = "value" /\ (~ error => InTurn)
        /\ UNCHANGED <<fixed, preempt, position, iter, key, error, answers>>
    BY DEF ParallelInv, PairsInv, ParallelIterValue, Runs, Top
  <1>2. Tail(stack) \in Seq(Frames) /\ RestsOnly(Tail(stack))
    BY <1>1, BelowTop
  <1>3. rest \in Seq(Frames) /\ RestsOnly(rest)
    <2>1. << <<"rest", 0>> >> \in Seq(Frames) /\ Len(<< <<"rest", 0>> >>) = 1
      BY DEF Frames
    <2>2. /\ rest \in Seq(Frames) /\ Len(rest) = 1 + Len(Tail(stack))
          /\ Len(Tail(stack)) \in Nat
          /\ \A i \in 1 .. 1 + Len(Tail(stack)) :
               rest[i] = IF i <= 1 THEN << <<"rest", 0>> >>[i] ELSE Tail(stack)[i - 1]
      BY <1>2, <2>1, ConcatProperties, LenProperties
    <2>3. \A i \in 1 .. 1 + Len(Tail(stack)) : rest[i][1] = "rest"
      <3> TAKE i \in 1 .. 1 + Len(Tail(stack))
      <3>1. CASE i = 1
        BY <2>2, <3>1
      <3>2. CASE i # 1
        <4>1. i - 1 \in 1 .. Len(Tail(stack)) /\ rest[i] = Tail(stack)[i - 1]
          BY <2>2, <3>2
        <4> QED
          BY <1>2, <4>1 DEF RestsOnly
      <3> QED
        BY <3>1, <3>2
    <2> QED
      BY <2>2, <2>3 DEF RestsOnly
  <1>4. ~ error => /\ iter /\ answers = <<>> /\ position = Len(called) + 1
                   /\ position <= length /\ key = position /\ stack[1][2] = position
    BY <1>1 DEF InTurn, ParallelInv, Answered
  <1>5. CASE Stopped /\ Returns /\ UNCHANGED called
    BY <1>1, <1>5, PairsAfterReturn DEF PairsInv, Stopped, ParallelInv, Answered
  <1>6. CASE ~ Stopped /\ called' = Append(called, <<key, stack[1][2]>>)
    <2>1. /\ ~ error /\ called' = Append(called, <<position, position>>)
          /\ called \in Seq(Nat \X Nat) /\ Len(called) \in Nat /\ length \in Nat
          /\ length' = length /\ position \in Nat
      BY <1>1, <1>4, <1>6, LenProperties DEF Stopped, ParallelTypeOK, fixed
    <2>2. /\ Len(called') = position /\ position = Len(called) + 1
          /\ \A i \in 1 .. Len(called) : called'[i] = called[i]
          /\ called'[position] = <<position, position>>
      BY <1>4, <2>1
    <2>3. PairsInOrder'
      BY <1>1, <1>4, <2>1, <2>2 DEF PairsInOrder
    <2>4. Nested' /\ Top'[1] \in {"none", "rest", "continue"}
      <3>1. CASE \E x \in {"nil", "error"} : Continue(<<"continue", x>>, rest)
        <4>1. PICK x \in {"nil", "error"} : Continue(<<"continue", x>>, rest)
          BY <3>1
        <4>2. <<"continue", x>> \in Frames
          BY DEF Frames
        <4>3. Nested' /\ Top' = <<"continue", x>>
          BY <1>1, <1>3, <4>1, <4>2, Enters
        <4> QED
          BY <4>3
      <3>2. CASE stack' = rest /\ UNCHANGED sched
        BY <1>1, <1>3, <3>2, Leaves
      <3> QED
        BY <1>6, <3>1, <3>2 DEF ParallelIterValue, Stopped
    <2>5. InTurn'
      BY <1>1, <1>4, <2>1, <2>2, <2>4 DEF InTurn
    <2> QED
      BY <1>1, <1>4, <2>1, <2>3, <2>4, <2>5 DEF PairsInv
  <1> QED
    BY <1>5, <1>6 DEF ParallelIterValue

LEMMA PairsRestHandler ==
  ASSUME ParallelInv, PairsInv, ~ sliced, ParallelIterRest
  PROVE  PairsInv'
  <1>1. /\ ParallelTypeOK /\ Nested /\ PairsInOrder /\ stack # <<>> /\ Top = stack[1]
        /\ Top[1] = "rest" /\ (~ error => InTurn)
        /\ UNCHANGED <<fixed, preempt, iter, error, called, answers>>
    BY DEF ParallelInv, PairsInv, ParallelIterRest, Runs, Top
  <1>2. ~ error => IF iter THEN position = Len(called) ELSE Len(called) = length
    BY <1>1 DEF InTurn
  <1>3. /\ answers' = <<"nil">> => Len(called') = length'
        /\ PairsInOrder'
    BY <1>1 DEF PairsInv, PairsInOrder, fixed
  <1>4. CASE iter /\ AskNext
    BY <1>1, <1>2, <1>3, <1>4, AsksInTurn DEF PairsInv
  <1>5. CASE Returns /\ UNCHANGED position
    BY <1>1, <1>2, <1>3, <1>5, PairsAfterReturn DEF PairsInv
  <1> QED
    BY <1>4, <1>5 DEF ParallelIterRest

LEMMA PairsContinueHandler ==
  ASSUME ParallelInv, PairsInv, ~ sliced, ParallelContinue
  PROVE  PairsInv'
  <1>1. /\ ParallelTypeOK /\ Nested /\ PairsInOrder /\ stack # <<>> /\ Top = stack[1]
        /\ Top[1] = "continue" /\ (~ error => InTurn)
        /\ UNCHANGED <<fixed, preempt, iter, called>>
    BY DEF ParallelInv, PairsInv, ParallelContinue, Runs, Top
  <1>2. ~ error => IF iter THEN position = Len(called) ELSE Len(called) = length
    BY <1>1 DEF InTurn
  <1>3. PairsInOrder' /\ length' = length
    BY <1>1 DEF PairsInOrder, fixed
  <1>4. ~ error => answers = <<>>
    <2>1. One(stack[1]) = 1
      BY <1>1 DEF One
    <2> QED
      BY <2>1, <1>1, NothingAfterNil DEF ParallelInv, Answered
  <1>5. CASE Stopped /\ Returns /\ UNCHANGED <<position, error, answers>>
    BY <1>1, <1>5, PairsAfterReturn DEF PairsInv, Stopped, ParallelInv, Answered
  <1>6. CASE /\ ~ Stopped /\ error' = TRUE /\ answers' = Append(answers, "error")
             /\ Returns /\ UNCHANGED position
    <2>1. answers' = <<"error">>
      BY <1>4, <1>6 DEF Stopped
    <2>2. answers'[1] # "nil"
      BY <2>1
    <2>3. Nested' /\ PairsInOrder' /\ error'
      BY <1>1, <1>6, PairsAfterReturn
    <2> QED
      BY <2>2, <2>3 DEF PairsInv
  <1>7. CASE ~ Stopped /\ iter /\ AskNext /\ UNCHANGED <<error, answers>>
    <2>1. Nested' /\ InTurn'
      BY <1>1, <1>2, <1>7, AsksInTurn DEF Stopped
    <2> QED
      BY <1>3, <1>4, <1>7, <2>1 DEF PairsInv, Stopped
  <1>8. CASE /\ ~ Stopped /\ Returns /\ UNCHANGED <<position, error>>
             /\ answers' = answers \/ ~ iter
    <2>1. Nested' /\ InTurn'
      BY <1>1, <1>2, <1>8, PairsAfterReturn DEF Stopped
    <2> QED
      BY <1>1, <1>2, <1>3, <1>4, <1>8, <2>1 DEF PairsInv, Stopped
  <1> QED
    BY <1>5, <1>6, <1>7, <1>8 DEF ParallelContinue

LEMMA PairsIterate ==
  ASSUME ParallelInv, PairsInv, ~ sliced, Iterate
  PROVE  PairsInv'
  <1>1. /\ ParallelTypeOK /\ Nested /\ PairsInOrder /\ stack # <<>> /\ Top[1] = "iterate"
        /\ AskNext /\ (~ error => InTurn)
        /\ UNCHANGED <<fixed, preempt, error, called, answers>>
    BY DEF ParallelInv, PairsInv, Iterate, Runs, Top
  <1>2. ~ error => position = Len(called)
    BY <1>1 DEF InTurn
  <1>3. Nested' /\ (~ error => InTurn')
    BY <1>1, <1>2, AsksInTurn
  <1> QED
    BY <1>1, <1>3 DEF PairsInv, PairsInOrder, fixed

LEMMA PairsResume ==
  ASSUME ParallelInv, PairsInv, ~ sliced, NEW i \in open, Resume(i)
  PROVE  PairsInv'
  <1>1. /\ ParallelTypeOK /\ Nested /\ PairsInOrder /\ Top = <<"none", 0>>
        /\ (~ error => InTurn)
        /\ UNCHANGED <<fixed, preempt, position, iter, error, called, answers>>
    BY DEF ParallelInv, PairsInv, Resume, Top
  <1>2. PICK x \in {"nil", "error"} : Continue(<<"continue", x>>, <<>>)
    BY DEF Resume
  <1>3. <<"continue", x>> \in Frames /\ <<>> \in Seq(Frames) /\ RestsOnly(<<>>)
    BY DEF Frames, RestsOnly
  <1>4. Nested' /\ Top' = <<"continue", x>>
    BY <1>1, <1>2, <1>3, Enters
  <1>5. ~ error' => InTurn'
    BY <1>1, <1>4 DEF InTurn, fixed
  <1> QED
    BY <1>1, <1>4, <1>5 DEF PairsInv, PairsInOrder, fixed

\* Without slices the function is called with each pair of the sequence once and in
\* order, and with all of them before parallel gives nil, for every length of the
\* sequence and all limits, and whichever calls return at once.
THEOREM EachPairIsCalledOnce == ParallelSpec => []EachPairOnce
  <1>1. ParallelInit => PairsInv
    BY PairsInit
  <1>2. ParallelInv /\ PairsInv /\ [ParallelNext]_parallelVars => PairsInv'
    <2> SUFFICES ASSUME ParallelInv, PairsInv, [ParallelNext]_parallelVars, ~ sliced'
                 PROVE  PairsInv'
      BY DEF PairsInv
    <2>1. ~ sliced
      BY DEF ParallelNext, Step, Iterate, ParallelIterNext, ParallelIterKey, ParallelIterValue,
             ParallelIterRest, ParallelContinue, RunNext, Preempt, Resume, fixed, parallelVars
    <2>2. CASE Iterate
      BY <2>1, <2>2, PairsIterate
    <2>3. CASE ParallelIterNext
      BY <2>1, <2>3, PairsNextHandler
    <2>4. CASE ParallelIterKey
      BY <2>1, <2>4, PairsKeyHandler
    <2>5. CASE ParallelIterValue
      BY <2>1, <2>5, PairsValueHandler
    <2>6. CASE ParallelIterRest
      BY <2>1, <2>6, PairsRestHandler
    <2>7. CASE ParallelContinue
      BY <2>1, <2>7, PairsContinueHandler
    <2>8. CASE \E i \in open : Resume(i)
      BY <2>1, <2>8, PairsResume
    <2>9. CASE RunNext \/ Preempt
      BY <2>1, <2>9 DEF PairsInv, Nested, RunNext, Preempt
    <2>10. CASE UNCHANGED parallelVars
      BY <2>10 DEF parallelVars, fixed, PairsInv, Nested, PairsInOrder, InTurn, Top
    <2> QED
      BY <2>2, <2>3, <2>4, <2>5, <2>6, <2>7, <2>8, <2>9, <2>10 DEF ParallelNext, Step
  <1>3. PairsInv => EachPairOnce
    BY DEF PairsInv, PairsInOrder, EachPairOnce
  <1> QED
    BY <1>1, <1>2, <1>3, Invariance, PTL DEF ParallelSpec
==============================================================================
