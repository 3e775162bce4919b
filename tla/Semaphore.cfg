CONSTANTS
  Users = {p1, p2, p3, p4, p5}
  Initial = 1
  FirstSize = 1
  None = None
SPECIFICATION FairSemSpec
INVARIANT UnitsConserved
INVARIANT NoIdleUnit
INVARIANT BlockedAreQueued
PROPERTY BlockedEnter
CHECK_DEADLOCK FALSE
