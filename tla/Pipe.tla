-------------------------------- MODULE Pipe --------------------------------
(***************************************************************************)
(* What buffered and diffused promise (the comments on them in ml_tasks.c): *)
(* the pairs of a sequence, each with the result of a function that is      *)
(* called with it; at most Size calls at a time; in order, or in any order. *)
(***************************************************************************)
EXTENDS Integers, Sequences, FiniteSets

VARIABLES
  size,       \* the bound on calls
  length,     \* the number of pairs of the sequence
  ordered,    \* pairs are given in their order
  running,    \* the pairs whose calls have not returned
  held,       \* the pairs whose results wait for the consumer
  given,      \* the pairs that the consumer got, in order
  final       \* how the consumer's iteration ended: "none" for not yet

vars == <<size, length, ordered, running, held, given, final>>

Given == {given[i] : i \in DOMAIN given}
Started == running \union held \union Given

Init == running = {} /\ held = {} /\ given = <<>> /\ final = "none"

\* The function is called with the next pair.
Start(p) ==
  /\ p <= length /\ Started = 1 .. (p - 1)
  /\ Cardinality(running) < size /\ Cardinality(running \union held) <= size
  /\ running' = running \union {p} /\ UNCHANGED <<held, given, final>>

Return(p) ==
  /\ p \in running /\ running' = running \ {p} /\ held' = held \union {p}
  /\ UNCHANGED <<given, final>>

Give(p) ==
  /\ p \in held /\ final = "none"
  /\ ordered => \A q \in running \union held : p <= q
  /\ held' = held \ {p} /\ given' = Append(given, p)
  /\ UNCHANGED <<running, final>>

\* With nil only after every pair; after an error nothing more is given.
End(x) ==
  /\ final = "none" /\ final' = x
  /\ x = "nil" => Given = 1 .. length
  /\ UNCHANGED <<running, held, given>>

Next ==
  /\ \/ \E p \in 1 .. length : Start(p) \/ Return(p) \/ Give(p)
     \/ \E x \in {"nil", "error"} : End(x)
  /\ UNCHANGED <<size, length, ordered>>

Spec == Init /\ [][Next]_vars
==============================================================================
