CONSTANTS
  h1 = h1
  h2 = h2
  Receiver = Receiver
  Function = Function
  Channel = Channel
  Helpers = {h1, h2}
  MaxSends = 2
SPECIFICATION FairSpec
INVARIANT ContinuedOnce
INVARIANT InOrder
INVARIANT NextHasMessage
PROPERTY SendersAnswered
CHECK_DEADLOCK FALSE
