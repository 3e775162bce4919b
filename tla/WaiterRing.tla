----------------------------- MODULE WaiterRing -----------------------------
(***************************************************************************)
(* The ring of waiting states that ml_semaphore_t and ml_rw_lock_t each    *)
(* carry (ml_runtime.c): Size slots, of which the Fill slots from Read up  *)
(* to Write, cyclically, hold a waiter.  A full ring is copied to one of   *)
(* twice the size, slot for slot, and read from slot 0 from then on.       *)
(* Operators on a ring value r: slots, size, fill, write and read are the  *)
(* fields of the C structs.                                                *)
(***************************************************************************)
EXTENDS Integers

CONSTANT None  \* NULL, an empty slot

NewRing(size) ==
  [slots |-> [i \in 0 .. size - 1 |-> None],
   size |-> size, fill |-> 0, write |-> 0, read |-> 0]

\* mutant: the copy is read from where the old ring was
GrowKeepingRead(r) ==
  [slots |-> [i \in 0 .. 2 * r.size - 1 |->
                IF i < r.size THEN r.slots[i] ELSE None],
   size |-> 2 * r.size, fill |-> r.fill, write |-> r.size, read |-> r.read]

\* The full ring r in an array of twice the size.
Grow(r) ==
  [slots |-> [i \in 0 .. 2 * r.size - 1 |->
                IF i < r.size THEN r.slots[i] ELSE None],
   size |-> 2 * r.size, fill |-> r.fill, write |-> r.size, read |-> 0]

Store(r, e) ==
  [slots |-> [r.slots EXCEPT ![r.write] = e],
   size |-> r.size, fill |-> r.fill + 1,
   write |-> (r.write + 1) % r.size, read |-> r.read]

\* mutant: the ring grows one waiter too late
PushOverwriting(r, e) == Store(IF r.fill > r.size THEN Grow(r) ELSE r, e)

Push(r, e) == Store(IF r.fill = r.size THEN Grow(r) ELSE r, e)

Front(r) == r.slots[r.read]

\* Only used when r.fill > 0.
Pop(r) ==
  [slots |-> [r.slots EXCEPT ![r.read] = None],
   size |-> r.size, fill |-> r.fill - 1,
   write |-> r.write, read |-> (r.read + 1) % r.size]
------------------------------------------------------------------------------
(* What a ring must satisfy for nobody to be lost. *)

IsRing(r, E) ==
  r \in [slots : [0 .. r.size - 1 -> E \union {None}],
        size : Nat \ {0}, fill : Nat, write : Nat, read : Nat]

\* Slot i holds a waiter.
InWindow(r, i) ==
  IF r.read < r.write THEN r.read <= i /\ i < r.write
  ELSE r.fill > 0 /\ (r.read <= i \/ i < r.write)

\* The window has fill slots, holds a waiter in each, each waiter once, and
\* nothing lies outside of it.
RingOK(r, E) ==
  /\ IsRing(r, E)
  /\ r.write < r.size /\ r.read < r.size
  /\ IF r.read < r.write THEN r.fill = r.write - r.read
     ELSE \/ r.fill = r.write + r.size - r.read
          \/ r.fill = 0 /\ r.read = r.write
  /\ \A i \in 0 .. r.size - 1 : r.slots[i] # None <=> InWindow(r, i)
  /\ \A i, j \in 0 .. r.size - 1 :
       r.slots[i] # None /\ r.slots[i] = r.slots[j] => i = j

\* The waiters in ring r.
Waiting(r) == {r.slots[i] : i \in 0 .. r.size - 1} \ {None}
==============================================================================
