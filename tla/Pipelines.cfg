CONSTANTS
  Cases <- MCCases
SPECIFICATION FairSpec
INVARIANT OneRequest
PROPERTY ImplementsPipe
PROPERTY ConsumerAnswered
CHECK_DEADLOCK FALSE
