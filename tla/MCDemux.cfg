SPECIFICATION TSpec
CONSTANTS
  Byte = {0, 1, 2, 3}
  NUL = 0
  LF = 1
  CR = 2
  FrameMax = 4
  LineMax = 3
  CounterSpan = 2
  MaxStream = 8
  Validate <- MCValidate
INVARIANTS TypeOK FrameIsDelimited EventsMatchReference
PROPERTY FramesAsWithoutText
