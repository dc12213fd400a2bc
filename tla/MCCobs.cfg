\* 2-bit bytes: groups of 2 data bytes, 4-bit CRC x^4 + x + 1.
SPECIFICATION Spec
CONSTANTS
  MaxCode  = 3
  ByteBits = 2
  CrcPoly  = 3
  CrcInit  = 15
  MaxMsg   = 5
  MaxBlock = 5
INVARIANTS TypeOK EncodesTheWholeMessage RoundTrip InPlaceIsSafe FrameRoundTrip
CHECK_DEADLOCK FALSE
