----------------------------- MODULE DemuxTrace -----------------------------
(***************************************************************************)
(* The demultiplexer with its history: the bytes fed since construction or *)
(* reset() and the events they completed.  The history is what the class   *)
(* comment of Demux talks about: which streams yield which events.         *)
(***************************************************************************)
EXTENDS Demux

CONSTANT MaxStream   \* bound: bytes fed between two resets

VARIABLES
  stream,     \* bytes fed since construction or reset()
  events      \* events returned since then, in order

vars == <<demuxVars, stream, events>>

TInit == Init /\ stream = << >> /\ events = << >>

TFeed(b) ==
  /\ Len(stream) < MaxStream
  /\ Feed(b)
  /\ stream' = Append(stream, b)
  /\ events' = IF event'.kind = "none" THEN events ELSE Append(events, event')

TReset == Reset /\ stream' = << >> /\ events' = << >>

TNext == (\E b \in Byte : TFeed(b)) \/ TReset

TSpec == TInit /\ [][TNext]_vars

-----------------------------------------------------------------------------
\* The last event is a frame only if the last byte closed a block of bytes that
\* some delimiter opened, with no delimiter and nothing else in between, and the
\* payload is the one the codec finds in exactly that block.
FrameIsDelimited ==
  event.kind = "frame" =>
    \E i, j \in 1 .. Len(stream) :
      /\ i < j /\ j = Len(stream)
      /\ stream[i] = NUL /\ stream[j] = NUL
      /\ \A k \in i + 1 .. j - 1 : stream[k] # NUL
      /\ Validate(SubSeq(stream, i + 1, j - 1)).outcome = "ready"
      /\ Validate(SubSeq(stream, i + 1, j - 1)).out = event.data

\* What the class comment says of a lone CR: a byte other than LF disarms the
\* flag, so an LF is swallowed only right after a CR (framing.h:318-323).
LoneCrExpires ==
  [][stream' = Append(stream, LF) /\ state = "text" /\ event'.kind = "none"
       => stream # << >> /\ stream[Len(stream)] = CR]_vars

\* Text changes nothing for frames: with its lines left out, the demultiplexer
\* behaves as the specialisation without a line buffer, which framing.h writes
\* out a second time, whatever text, garbage or overlong block comes between.
FramesAlone == INSTANCE FrameDemux WITH
  event <- IF event.kind = "frame" THEN [kind |-> "frame", data |-> event.data]
                                   ELSE [kind |-> "none", data |-> << >>]
FramesAsWithoutText == FramesAlone!Spec
=============================================================================
