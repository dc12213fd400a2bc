--------------------------- MODULE CobsReference ---------------------------
(***************************************************************************)
(* What the codec has to compute, defined on the whole message or block    *)
(* and independently of the streaming code, and the frame functions of     *)
(* framing.h against it.                                                   *)
(***************************************************************************)
EXTENDS Cobs, Framing

\* Length of the group that starts a message: its leading non-zero bytes, at
\* most MaxCode - 1 of them.
GroupLength(m) ==
  CHOOSE k \in 0 .. Len(m) :
    /\ k < MaxCode
    /\ \A i \in 1 .. k : m[i] # 0
    /\ k = Len(m) \/ k = MaxCode - 1 \/ m[k + 1] = 0

RECURSIVE RefEncode(_)
RefEncode(m) ==
  LET k     == GroupLength(m)
      group == <<k + 1>> \o SubSeq(m, 1, k)
  IN  IF k = Len(m) THEN group
      ELSE group \o RefEncode(SubSeq(m, IF k = MaxCode - 1 THEN k + 1 ELSE k + 2, Len(m)))

\* The message a block stands for, or the failure.
RECURSIVE RefDecode(_)
RefDecode(b) ==
  IF b = << >> THEN [ok |-> TRUE, out |-> << >>]
  ELSE LET code == b[1]
           data == SubSeq(b, 2, code)
           rest == RefDecode(SubSeq(b, code + 1, Len(b)))
       IN  IF code = 0 \/ code > Len(b) \/ 0 \in ToSet(data) \/ ~rest.ok
           THEN [ok |-> FALSE, out |-> << >>]
           ELSE [ok |-> TRUE,
                 out |-> data \o (IF code < MaxCode /\ code < Len(b) THEN <<0>> ELSE << >>)
                              \o rest.out]

\* However the message is cut into feed() calls, finish() yields the COBS
\* encoding of the whole message, and refuses exactly when it does not fit the
\* buffer (framing.h CobsStreamEncoder: the group that fills up at the very end
\* of the message is the case the more_follows flag is for).
EncodesTheWholeMessage ==
  ours /\ phase \in {"decode", "failed"} =>
    given = (IF Len(RefEncode(msg)) <= enc.cap THEN RefEncode(msg) ELSE << >>)

\* Decoding in place, for every block a line can deliver: no byte is touched
\* before it is read, and the outcome is the one of a decoder with a buffer of
\* its own (framing.h, comment on cobs_decode).
InPlaceIsSafe ==
  /\ UnreadIsIntact
  /\ phase = "decode" =>
       /\ dec.st = "done"  => RefDecode(given) = [ok |-> TRUE, out |-> SubSeq(dec.buf, 1, dec.write)]
       /\ dec.st = "error" => ~RefDecode(given).ok

\* A frame is refused exactly when it does not fit, never exceeds
\* frame_max_size(), has no delimiter inside, and its block validates to the
\* payload (framing.h frame_encode and decode_and_validate_frame together).
FrameRoundTrip ==
  phase = "flush" =>
    LET whole == frame_encode(msg, frame_max_size(Len(msg)))
        block == SubSeq(whole, 2, Len(whole) - 1)
    IN  /\ whole # << >>
        /\ whole[1] = 0 /\ whole[Len(whole)] = 0 /\ 0 \notin ToSet(block)
        /\ decode_and_validate_frame(block, Len(block)) = [outcome |-> "ready", out |-> msg]
        /\ \A cap \in 0 .. Len(whole) :
             frame_encode(msg, cap) = (IF cap < Len(whole) THEN << >> ELSE whole)
=============================================================================
