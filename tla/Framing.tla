------------------------------ MODULE Framing ------------------------------
(***************************************************************************)
(* The byte codec of serial_rpc/framing.h: CRC-16, the COBS block encoder  *)
(* and decoder, and the frame built from them,                             *)
(*                                                                         *)
(*       00 . COBS(payload || CRC) . 00                                    *)
(*                                                                         *)
(* Everything is parameterised by the width of a byte, so that the code's  *)
(* constants keep their mutual relations at a size TLC can enumerate: with *)
(* ByteBits = 8 the largest code byte is 0xff, a group holds 254 data      *)
(* bytes and the CRC has 16 bits (the code); with ByteBits = 2 they are 3, *)
(* 2 and 4 bits.  A buffer index of the code is the same number here (from *)
(* 0); an output buffer is a function on 0 .. cap - 1.                     *)
(***************************************************************************)
EXTENDS CobsCodec, SequencesExt, Bitwise

CONSTANTS
  ByteBits,   \* bits of a byte: 8 in the code
  CrcPoly,    \* the CRC polynomial: 0x1021 in the code
  CrcInit     \* its initial value: 0xFFFF in the code

ASSUME FramingAssumption ==
  /\ ByteBits \in Nat \ {0} /\ MaxCode = 2^ByteBits - 1
  /\ CrcPoly \in 0 .. 2^(2 * ByteBits) - 1
  /\ CrcInit \in 0 .. 2^(2 * ByteBits) - 1

ByteSpan == 2^ByteBits
CrcSpan  == 2^(2 * ByteBits)

-----------------------------------------------------------------------------
(* CRC *)

CrcShift(crc) ==
  IF crc >= CrcSpan \div 2 THEN ((2 * crc) % CrcSpan) ^^ CrcPoly ELSE 2 * crc

CrcByte(crc, b) ==
  LET shifted[bit \in 0 .. ByteBits] ==
        IF bit = 0 THEN crc ^^ (b * ByteSpan) ELSE CrcShift(shifted[bit - 1])
  IN  shifted[ByteBits]

crc16_ccitt(data, init) == FoldLeft(CrcByte, init, data)

\* The two CRC bytes of a frame, most significant first.
CrcBytes(payload) ==
  LET crc == crc16_ccitt(payload, CrcInit)
  IN  <<crc \div ByteSpan, crc % ByteSpan>>

-----------------------------------------------------------------------------
(* The block and the frame, from the codec's steps.                        *)

feed(e, data, more_follows) ==
  FoldLeftDomain(LAMBDA acc, i :
                   IF acc.ok
                   THEN put_one(acc, data[i], more_follows \/ i < Len(data))
                   ELSE acc,
                 e, data)

cobs_encode(data, cap) == finish(feed(Encoder(cap), data, FALSE))

frame_max_size(n) == cobs_max_encoded_size(n + 2) + 2

\* Mutant: the payload is fed as if nothing followed it.
FrameEncodePayloadLast(payload, cap) ==
  IF cap < 2 THEN << >>
  ELSE LET block == finish(feed(feed(Encoder(cap - 2), payload, FALSE),
                                CrcBytes(payload), FALSE))
       IN  IF block = << >> THEN << >> ELSE <<0>> \o block \o <<0>>

frame_encode(payload, cap) ==
  IF cap < 2 THEN << >>
  ELSE LET block == finish(feed(feed(Encoder(cap - 2), payload, TRUE),
                                CrcBytes(payload), FALSE))
       IN  IF block = << >> THEN << >> ELSE <<0>> \o block \o <<0>>

RECURSIVE DecodeRun(_)
DecodeRun(d) == IF d.st \in {"done", "error"} THEN d ELSE DecodeRun(DecodeStep(d))

cobs_decode(data, cap) == DecodeRun(Decoder(data, cap))

\* decode_and_validate_frame: the outcome, and the bytes buf[0, *out_len).
decode_and_validate_frame(block, cap) ==
  LET d       == cobs_decode(block, cap)
      decoded == SubSeq(d.buf, 1, d.write)
      payload == SubSeq(decoded, 1, d.write - 2)
  IN  IF block = << >> THEN [outcome |-> "empty", out |-> << >>]
      ELSE IF d.st = "error" THEN [outcome |-> "cobs_error", out |-> d.buf]
      ELSE IF d.write < 2 THEN [outcome |-> "crc_error", out |-> decoded]
      ELSE IF CrcBytes(payload) # SubSeq(decoded, d.write - 1, d.write)
      THEN [outcome |-> "crc_error", out |-> decoded]
      ELSE [outcome |-> "ready", out |-> payload]
=============================================================================
