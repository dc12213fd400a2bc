------------------------------- MODULE Demux -------------------------------
(***************************************************************************)
(* serial_rpc::Demux<FrameMax, LineMax> (framing.h): the byte-at-a-time    *)
(* state machine that both ends of the wire use to tell text lines from    *)
(* frames.  The frame codec is a parameter: Validate(block) is what        *)
(* decode_and_validate_frame() makes of the bytes collected between two    *)
(* delimiters.                                                             *)
(***************************************************************************)
EXTENDS Naturals, Sequences

CONSTANTS
  Byte,         \* the bytes of the wire
  NUL, CR, LF,  \* 0x00, '\r' and '\n'
  FrameMax,     \* capacity of the frame buffer
  LineMax,      \* capacity of the line buffer, its terminating NUL included
  Validate(_),  \* the codec's verdict on a non-empty block
  CounterSpan   \* the error counters count modulo this: 2^32 in the code

Body == Byte \ {NUL}   \* the bytes a frame collects

ASSUME DemuxAssumption ==
  /\ {NUL, CR, LF} \subseteq Byte
  /\ NUL # CR /\ NUL # LF /\ CR # LF
  /\ FrameMax \in Nat \ {0} /\ LineMax \in Nat \ {0}
  /\ CounterSpan \in Nat \ {0}

\* Decoding never yields more bytes than it is given.
ASSUME ValidateAssumption ==
  \A n \in 1 .. FrameMax : \A block \in [1 .. n -> Body] :
    /\ Validate(block).outcome \in {"ready", "cobs_error", "crc_error"}
    /\ Validate(block).out \in Seq(Byte)
    /\ Len(Validate(block).out) <= n

VARIABLES
  state,        \* "text" or "frame"
  frame_buf,    \* the bytes collected in state "frame"
  line,         \* the pending line: its text and whether bytes were dropped
  pending_cr,   \* a CR has ended a line and its LF may follow
  errors,       \* the three error counters
  event         \* what the last feed() returned, with what data() shows

demuxVars == <<state, frame_buf, line, pending_cr, errors, event>>

ErrorKinds  == {"crc", "cobs", "overflow"}
NoEvent     == [kind |-> "none", data |-> << >>, truncated |-> FALSE]
EmptyLine   == [text |-> << >>, truncated |-> FALSE]
FrameEvent(payload) == [kind |-> "frame", data |-> payload, truncated |-> FALSE]
LineEvent(l)        == [kind |-> "text_line", data |-> l.text, truncated |-> l.truncated]

Init ==
  /\ state = "text"
  /\ frame_buf = << >>
  /\ line = EmptyLine
  /\ pending_cr = FALSE
  /\ errors = [kind \in ErrorKinds |-> 0]
  /\ event = NoEvent

-----------------------------------------------------------------------------
(* The pending line *)

\* Mutant: the room of the terminating NUL is given away.
ClipWithoutNul(s) == IF Len(s) <= LineMax THEN s ELSE SubSeq(s, 1, LineMax)

Clip(s) == IF Len(s) < LineMax THEN s ELSE SubSeq(s, 1, LineMax - 1)

\* append_line_byte_ for each byte of s in turn.
Appended(l, s) ==
  [text      |-> Clip(l.text \o s),
   truncated |-> l.truncated \/ Len(l.text \o s) >= LineMax]

EmitLine(l) ==
  /\ event' = LineEvent(l)
  /\ line' = EmptyLine

-----------------------------------------------------------------------------
(* feed_text_: one byte in state "text", with pending line l.               *)

\* Mutant: what the last frame left in the collector is not discarded.
TextOpenStale(b, l) ==
  /\ b = NUL
  /\ state' = "frame" /\ UNCHANGED frame_buf
  /\ event' = NoEvent
  /\ line' = l
  /\ UNCHANGED pending_cr

TextOpen(b, l) ==
  /\ b = NUL
  /\ state' = "frame" /\ frame_buf' = << >>
  /\ event' = NoEvent
  /\ line' = l
  /\ UNCHANGED pending_cr

TextCR(b, l) ==
  /\ b = CR
  /\ EmitLine(l)
  /\ pending_cr' = TRUE
  /\ state' = "text"

TextLF(b, l) ==
  /\ b = LF
  /\ IF pending_cr
     THEN event' = NoEvent /\ line' = l
     ELSE EmitLine(l)
  /\ pending_cr' = FALSE
  /\ state' = "text"

TextByte(b, l) ==
  /\ b \notin {NUL, CR, LF}
  /\ line' = Appended(l, <<b>>)
  /\ event' = NoEvent
  /\ pending_cr' = FALSE
  /\ state' = "text"

FeedText(b) ==
  /\ state = "text"
  /\ \/ TextOpen(b, line)
     \/ (TextCR(b, line) \/ TextLF(b, line) \/ TextByte(b, line)) /\ UNCHANGED frame_buf
  /\ UNCHANGED errors

-----------------------------------------------------------------------------
(* feed_frame_: one byte in state "frame".                                  *)

Counted(kind) == [errors EXCEPT ![kind] = (@ + 1) % CounterSpan]

FrameCollect(b) ==
  /\ b # NUL /\ Len(frame_buf) < FrameMax
  /\ frame_buf' = Append(frame_buf, b)
  /\ event' = NoEvent
  /\ UNCHANGED <<state, line, pending_cr, errors>>

\* Mutant: an overlong block is dropped instead of going back as text.
FrameOverflowDrops(b) ==
  /\ b # NUL /\ Len(frame_buf) >= FrameMax
  /\ errors' = Counted("overflow")
  /\ frame_buf' = << >>
  /\ TextCR(b, line) \/ TextLF(b, line) \/ TextByte(b, line)

\* The collector is full: its bytes go back as text, and the byte that did not
\* fit is an ordinary byte of the text.
FrameOverflow(b) ==
  /\ b # NUL /\ Len(frame_buf) >= FrameMax
  /\ errors' = Counted("overflow")
  /\ frame_buf' = << >>
  /\ LET l == Appended(line, frame_buf)
     IN  TextCR(b, l) \/ TextLF(b, l) \/ TextByte(b, l)

FrameEmpty(b) ==
  /\ b = NUL /\ frame_buf = << >>
  /\ event' = NoEvent
  /\ UNCHANGED <<state, frame_buf, line, pending_cr, errors>>

FrameReady(b) ==
  /\ b = NUL /\ frame_buf # << >>
  /\ Validate(frame_buf).outcome = "ready"
  /\ event' = FrameEvent(Validate(frame_buf).out)
  /\ state' = "text"
  /\ UNCHANGED <<frame_buf, line, pending_cr, errors>>

\* Mutant: the delimiter that ends a rejected frame opens none.
FrameRejectToText(b) ==
  /\ b = NUL /\ frame_buf # << >>
  /\ Validate(frame_buf).outcome # "ready"
  /\ line' = Appended(line, Validate(frame_buf).out)
  /\ frame_buf' = << >>
  /\ event' = NoEvent
  /\ state' = "text"
  /\ UNCHANGED <<pending_cr, errors>>

\* A rejected block goes back as text; the delimiter that ended it may open a
\* frame.
FrameReject(b) ==
  /\ b = NUL /\ frame_buf # << >>
  /\ LET v == Validate(frame_buf)
     IN  /\ v.outcome # "ready"
         /\ line' = Appended(line, v.out)
         /\ errors' = Counted(IF v.outcome = "crc_error" THEN "crc" ELSE "cobs")
  /\ frame_buf' = << >>
  /\ event' = NoEvent
  /\ UNCHANGED <<state, pending_cr>>

FeedFrame(b) ==
  /\ state = "frame"
  /\ \/ FrameCollect(b)
     \/ FrameOverflow(b)
     \/ FrameEmpty(b)
     \/ FrameReady(b)
     \/ FrameReject(b)

Feed(b) == FeedText(b) \/ FeedFrame(b)

Reset ==
  /\ state' = "text" /\ frame_buf' = << >> /\ line' = EmptyLine
  /\ pending_cr' = FALSE
  /\ event' = NoEvent
  /\ UNCHANGED errors

Next == (\E b \in Byte : Feed(b)) \/ Reset

Spec == Init /\ [][Next]_demuxVars

-----------------------------------------------------------------------------
LineType(l) ==
  /\ l \in [text : Seq(Byte), truncated : BOOLEAN]
  /\ Len(l.text) < LineMax

EventType(e) ==
  e \in [kind : {"none", "text_line", "frame"}, data : Seq(Byte), truncated : BOOLEAN]

\* No byte is ever stored outside frame_buf[FrameMax] or line_buf[LineMax], the
\* terminating NUL of a line included, and a frame never collects a delimiter.
TypeOK ==
  /\ state \in {"text", "frame"}
  /\ frame_buf \in Seq(Body) /\ Len(frame_buf) <= FrameMax
  /\ LineType(line)
  /\ pending_cr \in BOOLEAN
  /\ errors \in [ErrorKinds -> 0 .. CounterSpan - 1]
  /\ EventType(event)
=============================================================================
