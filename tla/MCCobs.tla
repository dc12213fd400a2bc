------------------------------- MODULE MCCobs -------------------------------
(***************************************************************************)
(* Model checking of Cobs with 2-bit bytes.  The assumption is the check   *)
(* value that framing.h documents for the CRC, at the code's own width.    *)
(***************************************************************************)
EXTENDS CobsReference

Wide == INSTANCE Framing WITH ByteBits <- 8, MaxCode <- 255, CrcPoly <- 4129, CrcInit <- 65535

\* CRC-16/CCITT-FALSE of "123456789" is 0x29B1.
ASSUME CrcCheckValue ==
  Wide!crc16_ccitt(<<49, 50, 51, 52, 53, 54, 55, 56, 57>>, 65535) = 10673
=============================================================================
