---------------------------- MODULE MCDemuxLink ----------------------------
(***************************************************************************)
(* Frames of two bytes, each with bytes of its own; NUL = 0, LF = 1,       *)
(* CR = 2, text bytes 5 and up, frame bytes 10 and up; 3 is plain noise.   *)
(***************************************************************************)
EXTENDS DemuxLink

CONSTANT Frames

MCBlock == [k \in 1 .. Frames |-> <<10 + 2 * k, 11 + 2 * k>>]

MCByte == {0, 1, 2, 3} \cup {TextByte0 + n : n \in 1 .. MaxText}
                       \cup {10 + i : i \in 2 .. 2 * Frames + 1}

MCValidate(block) ==
  [outcome |-> IF Contains(MCBlock, block) THEN "ready" ELSE "cobs_error", out |-> block]
=============================================================================
