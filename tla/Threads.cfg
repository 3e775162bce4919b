CONSTANTS
  t1 = t1
  t2 = t2
  t3 = t3
  c1 = c1
  c2 = c2
  ThreadIds = {t1, t2, t3}
  First = t1
  Channels = {c1, c2}
  Size <- MCSize
  Roles <- MCRoles
  MaxCalls = 3
SPECIFICATION FairSpec
INVARIANT CallsConserved
INVARIANT OwnThread
PROPERTY ImplementsMailboxes
PROPERTY ReceiversWake
CHECK_DEADLOCK FALSE
