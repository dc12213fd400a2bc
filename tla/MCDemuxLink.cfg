SPECIFICATION LSpec
CONSTANTS
  Frames = 4
  Byte <- MCByte
  Block <- MCBlock
  Validate <- MCValidate
  NUL = 0
  LF = 1
  CR = 2
  FrameMax = 3
  LineMax = 40
  CounterSpan = 1
  TextByte0 = 4
  Noise = {0, 1, 3}
  MaxText = 2
  MaxEnds = 1
  MaxFaults = 2
INVARIANTS FramesInOrder ResyncWithinOneFrame TextIsConserved
CHECK_DEADLOCK FALSE
