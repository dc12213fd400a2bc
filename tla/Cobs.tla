-------------------------------- MODULE Cobs --------------------------------
(***************************************************************************)
(* The codec of framing.h at work.  A sender streams a message into a      *)
(* CobsStreamEncoder over a buffer of some capacity and flushes it; a      *)
(* receiver decodes, in place, either the resulting block or whatever the  *)
(* line made of one.  Encoder and decoder are taken one loop turn at a     *)
(* time: where one feed() call ends and the next begins makes no           *)
(* difference to the encoder, and the overlap of the decoder's read and    *)
(* write cursors is visible.                                               *)
(***************************************************************************)
EXTENDS CobsCodec, SequencesExt

CONSTANTS
  MaxMsg,     \* bound: length of a message
  MaxBlock    \* bound: length of a received block that is not ours

ASSUME CobsBounds == MaxMsg \in Nat /\ MaxBlock \in Nat

VARIABLES
  phase,      \* "feed", "flush", "failed" (finish() returned 0), "decode"
  ours,       \* the block in decoding is one this encoder produced
  msg,        \* the bytes fed so far
  enc,        \* the CobsStreamEncoder
  given,      \* the block handed to the decoder
  dec         \* the decoder's buffer and cursors

vars == <<phase, ours, msg, enc, given, dec>>

Init ==
  /\ msg = << >>
  /\ \/ /\ phase = "feed" /\ ours = TRUE
        /\ given = << >>
        /\ enc \in {Encoder(cap) : cap \in 0 .. cobs_max_encoded_size(MaxMsg)}
     \/ /\ phase = "decode" /\ ours = FALSE
        /\ given \in BoundedSeq(Octet, MaxBlock)
        /\ enc = Encoder(0)
  /\ dec = Decoder(given, Len(given))

\* One turn of feed()'s loop: only the message's last byte has none after it.
Feed(b, more_remaining) ==
  /\ phase = "feed"
  /\ Len(msg) < MaxMsg
  /\ msg' = Append(msg, b)
  /\ enc' = IF enc.ok THEN put_one(enc, b, more_remaining) ELSE enc
  /\ phase' = IF more_remaining THEN "feed" ELSE "flush"
  /\ UNCHANGED <<ours, given, dec>>

\* feed() with no bytes, for the message without any.
FeedNothing ==
  /\ phase = "feed"
  /\ msg = << >>
  /\ phase' = "flush"
  /\ UNCHANGED <<ours, msg, enc, given, dec>>

Finish ==
  /\ phase = "flush"
  /\ given' = finish(enc)
  /\ dec' = Decoder(given', Len(given'))
  /\ phase' = IF given' = << >> THEN "failed" ELSE "decode"
  /\ UNCHANGED <<ours, msg, enc>>

Decode ==
  /\ phase = "decode"
  /\ dec.st \in {"code", "data"}
  /\ dec' = DecodeStep(dec)
  /\ UNCHANGED <<phase, ours, msg, enc, given>>

Next ==
  \/ \E b \in Octet, more_remaining \in BOOLEAN : Feed(b, more_remaining)
  \/ FeedNothing
  \/ Finish
  \/ Decode

Spec == Init /\ [][Next]_vars

-----------------------------------------------------------------------------
(* Properties *)

TypeOK ==
  /\ phase \in {"feed", "flush", "failed", "decode"}
  /\ ours \in BOOLEAN
  /\ msg \in BoundedSeq(Octet, MaxMsg)
  /\ enc.encode \in 1 .. enc.cap + 1 /\ enc.codep \in 0 .. enc.cap
  /\ enc.code \in 1 .. MaxCode
  /\ enc.out \in [0 .. enc.cap - 1 -> Octet]
  /\ given \in Seq(Octet)
  /\ dec.buf \in [1 .. Len(given) -> Octet]
  /\ dec.st \in {"code", "data", "done", "error"}
  /\ dec.write \in 0 .. dec.cap /\ dec.read \in 0 .. Len(given)

\* The encoder's own block decodes to the message.
RoundTrip ==
  /\ ours /\ phase = "decode" => dec.st # "error"
  /\ ours /\ dec.st = "done" /\ phase = "decode" => SubSeq(dec.buf, 1, dec.write) = msg

\* Decoding in place, for every block a line can deliver: the write cursor has
\* not touched a byte that is still to be read (framing.h, comment on
\* cobs_decode).
UnreadIsIntact ==
  phase = "decode" =>
    \A i \in 1 .. Len(given) : i > dec.read => dec.buf[i] = given[i]
=============================================================================
