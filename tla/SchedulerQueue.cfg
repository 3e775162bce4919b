CONSTANTS
  Blocks = {b1, b2, b3}
  FirstBlock = b1
  BlockSize = 2
  States = {s1, s2}
  Null = Null
  Adders = {t1, t2}
SPECIFICATION FairSpec
INVARIANT NoLostWakeup
PROPERTY ImplementsFifo
PROPERTY EveryStateRuns
