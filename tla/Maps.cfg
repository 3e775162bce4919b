CONSTANTS
  c1 = c1
  c2 = c2
  c3 = c3
  Null = Null
  Callers = {c1, c2, c3}
  Bounds <- MCBounds
  Generations = 3
SPECIFICATION FairMapSpec
INVARIANT TreeFitsList
INVARIANT SharedCall
PROPERTY BalanceKept
PROPERTY ImplementsMap
PROPERTY JoinersAnswered
