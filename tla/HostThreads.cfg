CONSTANTS
  Jobs = {j1, j2, j3}
  Sleepers = {j1, j2}
  Callers = {j3}
  Threads = {main, w1, w2, w3, w4}
  Main = main
  MaxIdle = 1
  None = None
SPECIFICATION FairHostSpec
INVARIANT OneRunner
INVARIANT JobsConserved
INVARIANT BlocksAreJoined
PROPERTY QueueIsServed
