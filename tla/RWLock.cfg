CONSTANTS
  Procs = {p1, p2, p3, p4}
  InitSize = 1
  MaxCalls = 1
  None = None
SPECIFICATION FairSpec
INVARIANT Exclusion
INVARIANT WaitersAreQueued
INVARIANT SomebodyUnlocks
PROPERTY WaitersEnter
