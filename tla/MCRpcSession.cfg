SPECIFICATION FairSpec
CONSTANTS
  MaxCalls = 3
  MsgIdSpan = 4
  Timeouts <- MCTimeouts
  BadArg = BadArg
  MaxLine = 0
  ClockSpan = 1
  MaxTime = 0
  UserCalls <- MCUserCalls
  ReadMax = 2
  MaxShorts = 1
  NoId = NoId
INVARIANT TypeOK
INVARIANT AnswersMatch
INVARIANT AttachedIsBacked
PROPERTY CallsAreCalls
PROPERTY EveryWaitEnds
CHECK_DEADLOCK FALSE
