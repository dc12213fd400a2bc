----------------------------- MODULE FrameDemux -----------------------------
(***************************************************************************)
(* serial_rpc::Demux<FrameMax, 0> (framing.h): the specialisation for a    *)
(* receiver without text, which has no line buffer and repeats the frame   *)
(* handling of the primary template in code of its own.  It is also what   *)
(* the primary template promises of frames alone: Demux implements it.     *)
(***************************************************************************)
EXTENDS Naturals, Sequences

CONSTANTS Byte, NUL, FrameMax, Validate(_), CounterSpan   \* those of Demux

VARIABLES state, frame_buf, errors, event

vars == <<state, frame_buf, errors, event>>

NoEvent == [kind |-> "none", data |-> << >>]

Init ==
  /\ state = "text"
  /\ frame_buf = << >>
  /\ errors = [kind \in {"crc", "cobs", "overflow"} |-> 0]
  /\ event = NoEvent

Open ==
  /\ state = "text"
  /\ state' = "frame" /\ frame_buf' = << >>
  /\ event' = NoEvent
  /\ UNCHANGED errors

DropText ==
  /\ state = "text"
  /\ event' = NoEvent
  /\ UNCHANGED <<state, frame_buf, errors>>

Counted(kind) == [errors EXCEPT ![kind] = (@ + 1) % CounterSpan]

Collect(b) ==
  /\ state = "frame" /\ Len(frame_buf) < FrameMax
  /\ frame_buf' = Append(frame_buf, b)
  /\ event' = NoEvent
  /\ UNCHANGED <<state, errors>>

\* Mutant: the byte that did not fit is taken for the first of a new frame.
OverflowKeepsFrame ==
  /\ state = "frame" /\ Len(frame_buf) >= FrameMax
  /\ errors' = Counted("overflow")
  /\ frame_buf' = << >>
  /\ event' = NoEvent
  /\ UNCHANGED state

\* The byte that did not fit is text, and dropped.
Overflow ==
  /\ state = "frame" /\ Len(frame_buf) >= FrameMax
  /\ errors' = Counted("overflow")
  /\ frame_buf' = << >>
  /\ event' = NoEvent
  /\ state' = "text"

Empty ==
  /\ state = "frame" /\ frame_buf = << >>
  /\ event' = NoEvent
  /\ UNCHANGED <<state, frame_buf, errors>>

Ready ==
  /\ state = "frame" /\ frame_buf # << >>
  /\ Validate(frame_buf).outcome = "ready"
  /\ event' = [kind |-> "frame", data |-> Validate(frame_buf).out]
  /\ state' = "text"
  /\ UNCHANGED <<frame_buf, errors>>

Reject ==
  /\ state = "frame" /\ frame_buf # << >>
  /\ Validate(frame_buf).outcome # "ready"
  /\ errors' = Counted(IF Validate(frame_buf).outcome = "crc_error" THEN "crc" ELSE "cobs")
  /\ frame_buf' = << >>
  /\ event' = NoEvent
  /\ UNCHANGED state

Feed(b) == IF b = NUL THEN Open \/ Empty \/ Ready \/ Reject
                      ELSE DropText \/ Collect(b) \/ Overflow

Reset ==
  /\ state' = "text" /\ frame_buf' = << >>
  /\ event' = NoEvent
  /\ UNCHANGED errors

Next == (\E b \in Byte : Feed(b)) \/ Reset

Spec == Init /\ [][Next]_vars
=============================================================================
