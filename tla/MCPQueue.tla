------------------------------ MODULE MCPQueue ------------------------------
EXTENDS PQueue, TLC

CONSTANTS e1, e2, e3, e4

MCAll == {"insert", "entry", "next", "keep", "requeue", "adjust", "raise", "lower", "remove"}

\* All operations, one after the other; and some that overlap.
MCOverlap(n, p, operations) ==
  [entries |-> n, priorities |-> 1 .. p, open |-> 2, operations |-> operations]

MCBounds ==
  {[entries |-> 4, priorities |-> 1 .. 3, open |-> 1, operations |-> MCAll],
   MCOverlap(3, 2, {"insert", "next", "keep", "remove"}),
   MCOverlap(3, 2, {"insert", "keep", "raise", "remove"}),
   MCOverlap(2, 2, {"insert", "next", "keep", "requeue", "raise", "remove"}),
   MCOverlap(2, 1, MCAll)}

MCSymmetry == Permutations(Entries)
==============================================================================
