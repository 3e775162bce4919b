----------------------------- MODULE OrderedMap -----------------------------
(***************************************************************************)
(* What the methods of a map do to its keys, in the order in which they are   *)
(* iterated: one action for each method, by the map's order.                 *)
(*                                                                         *)
(* Under "lru" new keys and those that are looked up go to the end, under    *)
(* "mru" to the start, so that pop gives the one that was used the longest    *)
(* ago, or last.  The comments on the order type (ml_map.c:51-52) say the     *)
(* opposite.                                                               *)
(***************************************************************************)
EXTENDS Integers, Sequences

CONSTANTS
  Keys,     \* the keys, which are ordered
  Orders    \* the orders that maps are given

VARIABLES entries, order   \* the keys as they are iterated, and the order

vars == <<entries, order>>

Init == entries = <<>> /\ order \in Orders
------------------------------------------------------------------------------
Holds(k) == \E i \in DOMAIN entries : entries[i] = k

\* The keys without k, which is there once.
Others(k) ==
  IF ~ Holds(k) THEN entries
  ELSE LET i == CHOOSE j \in DOMAIN entries : entries[j] = k
       IN  SubSeq(entries, 1, i - 1) \o SubSeq(entries, i + 1, Len(entries))

Before(k, x) == IF order = "ascending" THEN k < x ELSE k > x

\* In a sorted order a key is next to one of its neighbours; this is its place
\* only if the other keys are in that order.
Neighbour(i, k) ==
  LET x == entries[i]
  IN  ~ \E j \in DOMAIN entries : (Before(k, entries[j]) /\ Before(entries[j], x))
                                   \/ (Before(entries[j], k) /\ Before(x, entries[j]))

Placed(k) ==
  CASE order \in {"insert", "lru"} -> {Append(entries, k)}
    [] order = "mru" -> {<<k>> \o entries}
    [] OTHER -> IF entries = <<>> THEN {<<k>>}
                ELSE {SubSeq(entries, 1, p) \o <<k>> \o SubSeq(entries, p + 1, Len(entries)) :
                       p \in {i \in 0 .. Len(entries) :
                                \/ i > 0 /\ Neighbour(i, k) /\ Before(entries[i], k)
                                \/ i < Len(entries) /\ Neighbour(i + 1, k)
                                     /\ Before(k, entries[i + 1])}}

Insert(k) ==
  /\ entries' \in IF Holds(k) THEN {entries} ELSE Placed(k)
  /\ UNCHANGED order

ToFront(k) == entries' = <<k>> \o Others(k)

ToBack(k) == entries' = Append(Others(k), k)

\* A key that is there is looked up.
Access(k) ==
  /\ Holds(k)
  /\ CASE order = "lru" -> ToBack(k)
       [] order = "mru" -> ToFront(k)
       [] OTHER -> entries' = entries
  /\ UNCHANGED order

\* A key is inserted, or moved, whatever the order: at the start, or at the end.
Push(k) == ToFront(k) /\ UNCHANGED order

Put(k) == ToBack(k) /\ UNCHANGED order

Delete(k) == entries' = Others(k) /\ UNCHANGED order

\* The first key, or the last one, is taken out.
Pop == entries # <<>> /\ entries' = Tail(entries) /\ UNCHANGED order

Pull ==
  entries # <<>> /\ entries' = SubSeq(entries, 1, Len(entries) - 1) /\ UNCHANGED order

Empty == entries' = <<>> /\ UNCHANGED order

SetOrder(o) == order' = o /\ UNCHANGED entries

Next ==
  \/ Pop \/ Pull \/ Empty
  \/ \E o \in Orders : SetOrder(o)
  \/ \E k \in Keys : Insert(k) \/ Access(k) \/ Push(k) \/ Put(k) \/ Delete(k)

Spec == Init /\ [][Next]_vars
==============================================================================
