CONSTANTS
  t1 = t1
  t2 = t2
  t3 = t3
  Procs = {p1}
  Tasks = {t1, t2, t3}
  KindsOf <- MCAllKinds
  Handlers = {{"then"}, {"on"}}
  Subs <- MCSubs
  External = {"manual", "function"}
  Timed = {"any"}
  MaxRunning = 1
  Queue = Queue
  None = None
SPECIFICATION Spec
INVARIANT AllComplete
CHECK_DEADLOCK FALSE
