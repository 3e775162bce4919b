CONSTANTS
  Cases <- MCCases
  Limits <- MCLimits
SPECIFICATION FairParallelSpec
INVARIANT RunningCounted
INVARIANT AnsweredOnce
INVARIANT EachPairOnce
PROPERTY CallerAnswered
CHECK_DEADLOCK FALSE
