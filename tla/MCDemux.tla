------------------------------ MODULE MCDemux ------------------------------
(***************************************************************************)
(* The demultiplexer over the real codec with 2-bit bytes: every stream of *)
(* the four bytes up to the bound, hence every mix of delimiters, line     *)
(* ends, valid frames, rejected frames and overlong blocks it can hold.    *)
(***************************************************************************)
EXTENDS DemuxReference

Codec == INSTANCE Framing WITH ByteBits <- 2, MaxCode <- 3, CrcPoly <- 3, CrcInit <- 15

MCValidate(block) == Codec!decode_and_validate_frame(block, FrameMax)
=============================================================================
