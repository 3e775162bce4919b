CONSTANTS
  t1 = t1
  t2 = t2
  t3 = t3
  Procs = {p1}
  Tasks = {t1, t2, t3}
  KindsOf <- MCKinds
  Handlers = {{"then"}, {"on"}}
  Subs <- MCSubs
  External = {"manual", "function"}
  Timed = {"any"}
  MaxRunning = 1
  Queue = Queue
  None = None
SPECIFICATION FairSpec
INVARIANT WaitersListed
INVARIANT SlotsConserved
PROPERTY WaitersResume
CHECK_DEADLOCK FALSE
