------------------------------- MODULE MCMaps -------------------------------
(* Maps of three or four keys under the methods that change one key or all, in   *)
(* every order; of seven under insertions and deletions; of three under changes *)
(* of the order and under filter; one key with three callers and two with two.  *)
EXTENDS Maps

CONSTANTS c1, c2, c3

MCMethods == {"insert", "index", "push", "put", "delete", "pop", "pull", "empty"}

MCBounds ==
  {[keys |-> 1 .. 4, callers |-> {}, orders |-> {o}, operations |-> MCMethods] :
     o \in {"lru", "ascending"}}
  \union
  {[keys |-> 1 .. 3, callers |-> {}, orders |-> {o}, operations |-> MCMethods] :
     o \in {"insert", "mru", "descending"}}
  \union
  {[keys |-> 1 .. 3, callers |-> {}, operations |-> {"insert", "filter"},
    orders |-> {"insert", "descending"}],
   [keys |-> 1 .. 1, callers |-> {c1, c2}, operations |-> {"insert", "call", "filter"},
    orders |-> {"insert"}],
   [keys |-> 1 .. 3, callers |-> {}, operations |-> {"insert", "delete", "order"},
    orders |-> {"insert", "mru", "ascending", "descending"}],
   [keys |-> 1 .. 7, callers |-> {}, orders |-> {"descending"},
    operations |-> {"insert", "delete"}],
   [keys |-> 1 .. 1, callers |-> Callers, orders |-> {"insert"},
    operations |-> {"insert", "delete", "empty", "call", "missing"}],
   [keys |-> 1 .. 2, callers |-> {c1, c2}, orders |-> {"lru"},
    operations |-> {"insert", "index", "delete", "call", "missing"}]}
==============================================================================
