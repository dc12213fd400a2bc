SPECIFICATION TimeoutSpec
CONSTANTS
  MaxCalls = 1
  MsgIdSpan = 2
  Timeouts <- MCTimeouts
  BadArg = BadArg
  MaxLine = 1
  ClockSpan = 4
  MaxTime = 7
  Frames <- MCFrames
PROPERTY TimedDetachIsDue
PROPERTY SilenceDetaches
