SPECIFICATION RebuildSpec
CONSTANTS
  MaxCalls = 4
  MsgIdSpan = 5
  Timeouts <- MCTimeouts
  BadArg = BadArg
  MaxLine = 0
  ClockSpan = 1
  MaxTime = 0
  UserCalls <- MCUserCalls
  ReadMax = 2
  MaxShorts = 1
  NoId = NoId
INVARIANT AnswersMatch
CHECK_DEADLOCK FALSE
