---------------------------- MODULE DemuxProofs ----------------------------
(***************************************************************************)
(* Proofs about the demultiplexer, for every size of its buffers, every    *)
(* byte alphabet and every codec that satisfies ValidateAssumption.        *)
(***************************************************************************)
EXTENDS DemuxReference, SequenceTheorems, WellFoundedInduction, TLAPS

\* What the codec returns for a block the collector can hold.
LEMMA ValidateType ==
  ASSUME NEW block \in Seq(Body), block # << >>, Len(block) <= FrameMax
  PROVE  /\ Validate(block).outcome \in {"ready", "cobs_error", "crc_error"}
         /\ Validate(block).out \in Seq(Byte)
<1>1. Len(block) \in 1 .. FrameMax
  BY DemuxAssumption
<1>2. block \in [1 .. Len(block) -> Body]
  OBVIOUS
<1> QED
  BY <1>1, <1>2, ValidateAssumption

-----------------------------------------------------------------------------
(* Lines and events *)

LEMMA EmptyLineType == LineType(EmptyLine)
BY DemuxAssumption DEF LineType, EmptyLine

LEMMA NoEventType == EventType(NoEvent)
BY DEF EventType, NoEvent

LEMMA LineEventType ==
  ASSUME NEW l, LineType(l)
  PROVE  EventType(LineEvent(l))
BY DEF LineType, EventType, LineEvent

LEMMA FrameEventType ==
  ASSUME NEW payload \in Seq(Byte)
  PROVE  EventType(FrameEvent(payload))
BY DEF EventType, FrameEvent

\* Appending, whatever is appended, leaves room for the terminating NUL.
LEMMA AppendedType ==
  ASSUME NEW l, LineType(l), NEW s \in Seq(Byte)
  PROVE  LineType(Appended(l, s))
<1>1. l.text \o s \in Seq(Byte)
  BY DEF LineType
<1>2. ASSUME NEW t \in Seq(Byte)
      PROVE  Clip(t) \in Seq(Byte) /\ Len(Clip(t)) < LineMax
  BY <1>2, DemuxAssumption DEF Clip
<1>3. (l.truncated \/ Len(l.text \o s) >= LineMax) \in BOOLEAN
  OBVIOUS
<1> QED
  BY <1>1, <1>2, <1>3 DEF LineType, Appended

-----------------------------------------------------------------------------
(* Type correctness *)

LEMMA InitType == Init => TypeOK
<1> SUFFICES ASSUME Init PROVE TypeOK
  OBVIOUS
<1>1. frame_buf \in Seq(Body) /\ Len(frame_buf) <= FrameMax
  BY DemuxAssumption DEF Init
<1>2. errors \in [ErrorKinds -> 0 .. CounterSpan - 1]
  BY DemuxAssumption DEF Init
<1> QED
  BY <1>1, <1>2, EmptyLineType, NoEventType, Zenon DEF Init, TypeOK

\* feed_text_ and the byte that overflows a frame share these steps: from a
\* well-typed pending line they leave a well-typed line and event.
LEMMA TextStepType ==
  ASSUME NEW b \in Byte, NEW l, LineType(l),
         TextCR(b, l) \/ TextLF(b, l) \/ TextByte(b, l)
  PROVE  /\ state' = "text"
         /\ LineType(line')
         /\ pending_cr' \in BOOLEAN
         /\ EventType(event')
<1> USE EmptyLineType, NoEventType, LineEventType
<1>1. CASE TextCR(b, l)
  BY <1>1, Zenon DEF TextCR, EmitLine
<1>2. CASE TextLF(b, l)
  BY <1>2, Zenon DEF TextLF, EmitLine
<1>3. CASE TextByte(b, l)
  <2>1. <<b>> \in Seq(Byte)
    OBVIOUS
  <2>2. LineType(Appended(l, <<b>>))
    BY <2>1, AppendedType
  <2> QED
    BY <1>3, <2>2, Zenon DEF TextByte
<1> QED
  BY <1>1, <1>2, <1>3

LEMMA FeedTextType ==
  ASSUME TypeOK, NEW b \in Byte, FeedText(b)
  PROVE  TypeOK'
<1>1. LineType(line)
  BY DEF TypeOK
<1>2. CASE TextOpen(b, line)
  <2>1. << >> \in Seq(Body) /\ Len(<< >>) <= FrameMax
    BY DemuxAssumption
  <2> QED
    BY <1>1, <1>2, <2>1, NoEventType, Zenon DEF FeedText, TextOpen, TypeOK
<1>3. CASE /\ TextCR(b, line) \/ TextLF(b, line) \/ TextByte(b, line)
           /\ UNCHANGED frame_buf
  <2>1. /\ state' = "text"
        /\ LineType(line')
        /\ pending_cr' \in BOOLEAN
        /\ EventType(event')
    BY <1>1, <1>3, TextStepType
  <2> QED
    BY <1>3, <2>1, Zenon DEF FeedText, TypeOK
<1> QED
  BY <1>2, <1>3 DEF FeedText

LEMMA FeedFrameType ==
  ASSUME TypeOK, NEW b \in Byte, FeedFrame(b)
  PROVE  TypeOK'
<1>1. LineType(line)
  BY DEF TypeOK
<1>2. frame_buf \in Seq(Body) /\ Len(frame_buf) <= FrameMax /\ frame_buf \in Seq(Byte)
  BY DEF TypeOK, Body
<1>3. << >> \in Seq(Body) /\ Len(<< >>) <= FrameMax
  BY DemuxAssumption
<1>4. \A k \in ErrorKinds : Counted(k) \in [ErrorKinds -> 0 .. CounterSpan - 1]
  <2>1. \A n \in 0 .. CounterSpan - 1 : (n + 1) % CounterSpan \in 0 .. CounterSpan - 1
    BY DemuxAssumption
  <2>2. errors \in [ErrorKinds -> 0 .. CounterSpan - 1]
    BY DEF TypeOK
  <2> QED
    BY <2>1, <2>2 DEF Counted
<1>5. CASE FrameCollect(b)
  <2>1. b \in Body /\ Len(frame_buf) < FrameMax
    BY <1>5 DEF FrameCollect, Body
  <2>2. /\ Append(frame_buf, b) \in Seq(Body)
        /\ Len(Append(frame_buf, b)) <= FrameMax
    BY <1>2, <2>1, DemuxAssumption
  <2> QED
    BY <1>5, <2>2, NoEventType, Zenon DEF FrameCollect, TypeOK
<1>6. CASE FrameOverflow(b)
  <2> DEFINE l == Appended(line, frame_buf)
  <2>1. LineType(l)
    BY <1>1, <1>2, AppendedType
  <2>2. TextCR(b, l) \/ TextLF(b, l) \/ TextByte(b, l)
    BY <1>6, Zenon DEF FrameOverflow
  <2> HIDE DEF l
  <2>3. /\ state' = "text"
        /\ LineType(line')
        /\ pending_cr' \in BOOLEAN
        /\ EventType(event')
    BY <2>1, <2>2, TextStepType
  <2>4. errors' \in [ErrorKinds -> 0 .. CounterSpan - 1]
    BY <1>4, <1>6, Zenon DEF FrameOverflow, ErrorKinds
  <2>5. frame_buf' = << >>
    BY <1>6, Zenon DEF FrameOverflow
  <2> QED
    BY <1>3, <2>3, <2>4, <2>5, Zenon DEF TypeOK
<1>7. CASE FrameEmpty(b)
  BY <1>7, NoEventType, Zenon DEF FrameEmpty, TypeOK
<1>8. CASE FrameReady(b)
  <2>1. Validate(frame_buf).out \in Seq(Byte)
    BY <1>2, <1>8, ValidateType DEF FrameReady
  <2> QED
    BY <1>8, <2>1, FrameEventType, Zenon DEF FrameReady, TypeOK
<1>9. CASE FrameReject(b)
  <2>1. Validate(frame_buf).out \in Seq(Byte)
    BY <1>2, <1>9, ValidateType DEF FrameReject
  <2>2. LineType(Appended(line, Validate(frame_buf).out))
    BY <1>1, <2>1, AppendedType
  <2>3. errors' \in [ErrorKinds -> 0 .. CounterSpan - 1]
    BY <1>4, <1>9, Zenon DEF FrameReject, ErrorKinds
  <2> QED
    BY <1>3, <1>9, <2>2, <2>3, NoEventType, Zenon DEF FrameReject, TypeOK
<1> QED
  BY <1>5, <1>6, <1>7, <1>8, <1>9 DEF FeedFrame

LEMMA NextType == TypeOK /\ [Next]_demuxVars => TypeOK'
<1> SUFFICES ASSUME TypeOK, [Next]_demuxVars PROVE TypeOK'
  OBVIOUS
<1>1. ASSUME NEW b \in Byte, Feed(b) PROVE TypeOK'
  BY <1>1, FeedTextType, FeedFrameType DEF Feed
<1>2. CASE Reset
  <2>1. << >> \in Seq(Body) /\ Len(<< >>) <= FrameMax
    BY DemuxAssumption
  <2> QED
    BY <1>2, <2>1, EmptyLineType, NoEventType, Zenon DEF Reset, TypeOK
<1>3. CASE UNCHANGED demuxVars
  BY <1>3, Zenon DEF demuxVars, TypeOK
<1> QED
  BY <1>1, <1>2, <1>3 DEF Next

\* The buffers of the demultiplexer are never written outside their bounds, for
\* every FrameMax and LineMax: the pending line always has room for its NUL, and
\* the collector holds at most FrameMax bytes, none of them a delimiter.
THEOREM TypeCorrect == Spec => []TypeOK
<1> QED
  BY InitType, NextType, PTL DEF Spec

-----------------------------------------------------------------------------
(* Frames are delimited.  The property itself says nothing of the steps in   *)
(* which a block is still being collected; the strengthening does.           *)

\* While a frame is collected, the collector holds exactly the bytes fed since
\* the last delimiter.
CollectsSinceDelimiter ==
  state = "frame" =>
    \E i \in 1 .. Len(stream) :
      /\ stream[i] = NUL
      /\ \A k \in i + 1 .. Len(stream) : stream[k] # NUL
      /\ frame_buf = SubSeq(stream, i + 1, Len(stream))

IInv ==
  /\ TypeOK
  /\ stream \in Seq(Byte)
  /\ CollectsSinceDelimiter
  /\ FrameIsDelimited

LEMMA SubSeqOfAppend ==
  ASSUME NEW s \in Seq(Byte), NEW b \in Byte, NEW i \in 0 .. Len(s)
  PROVE  /\ SubSeq(Append(s, b), i + 1, Len(s)) = SubSeq(s, i + 1, Len(s))
         /\ SubSeq(Append(s, b), i + 1, Len(s) + 1) = Append(SubSeq(s, i + 1, Len(s)), b)
<1> DEFINE t == Append(s, b)
           u == SubSeq(s, i + 1, Len(s))
<1>1. t \in Seq(Byte) /\ Len(t) = Len(s) + 1 /\ \A k \in 1 .. Len(s) : t[k] = s[k]
  OBVIOUS
<1>2. t[Len(s) + 1] = b
  OBVIOUS
<1>3. /\ u \in Seq(Byte) /\ Len(u) = Len(s) - i
      /\ \A k \in 1 .. Len(s) - i : u[k] = s[i + k]
  OBVIOUS
<1> HIDE DEF t, u
<1>4. /\ SubSeq(t, i + 1, Len(s)) \in Seq(Byte)
      /\ Len(SubSeq(t, i + 1, Len(s))) = Len(s) - i
      /\ \A k \in 1 .. Len(s) - i : SubSeq(t, i + 1, Len(s))[k] = t[i + k]
  BY <1>1
<1>5. SubSeq(t, i + 1, Len(s)) = u
  <2>1. \A k \in 1 .. Len(u) : SubSeq(t, i + 1, Len(s))[k] = u[k]
    BY <1>1, <1>3, <1>4
  <2> QED
    BY <1>3, <1>4, <2>1, SeqEqual
<1>6. /\ SubSeq(t, i + 1, Len(s) + 1) \in Seq(Byte)
      /\ Len(SubSeq(t, i + 1, Len(s) + 1)) = Len(s) - i + 1
      /\ \A k \in 1 .. Len(s) - i + 1 : SubSeq(t, i + 1, Len(s) + 1)[k] = t[i + k]
  <2>1. \A k \in i + 1 .. Len(s) + 1 : t[k] \in Byte
    BY <1>1
  <2>2. i + 1 \in Int /\ Len(s) + 1 \in Int /\ i + 1 <= Len(s) + 1
    OBVIOUS
  <2> QED
    BY <2>1, <2>2, SubSeqProperties
<1>7. SubSeq(t, i + 1, Len(s) + 1) = Append(u, b)
  <2>1. Append(u, b) \in Seq(Byte) /\ Len(Append(u, b)) = Len(u) + 1
    BY <1>3
  <2>2. \A k \in 1 .. Len(u) + 1 : SubSeq(t, i + 1, Len(s) + 1)[k] = Append(u, b)[k]
    <3> SUFFICES ASSUME NEW k \in 1 .. Len(u) + 1 PROVE t[i + k] = Append(u, b)[k]
      BY <1>3, <1>6
    <3>1. CASE k \in 1 .. Len(u)
      <4>1. i + k \in 1 .. Len(s) /\ Append(u, b)[k] = u[k]
        BY <1>3, <3>1, AppendProperties
      <4> QED
        BY <1>1, <1>3, <3>1, <4>1
    <3>2. CASE k = Len(u) + 1
      <4>1. i + k = Len(s) + 1 /\ Append(u, b)[k] = b
        BY <1>3, <3>2, AppendProperties
      <4> QED
        BY <1>2, <4>1
    <3>3. Len(u) \in Nat
      BY <1>3
    <3>4. k \in 1 .. Len(u) \/ k = Len(u) + 1
      BY <3>3
    <3> QED
      BY <3>1, <3>2, <3>4
  <2> QED
    BY <1>3, <1>6, <2>1, <2>2, SeqEqual
<1> QED
  BY <1>5, <1>7 DEF t, u

\* Every way of opening a block: the byte just fed is the delimiter.
LEMMA OpensBlock ==
  ASSUME stream \in Seq(Byte), stream' = Append(stream, NUL), frame_buf' = << >>
  PROVE  CollectsSinceDelimiter'
<1>1. NUL \in Byte
  BY DemuxAssumption
<1>2. /\ Len(stream') = Len(stream) + 1
      /\ stream'[Len(stream) + 1] = NUL
      /\ SubSeq(stream', Len(stream) + 2, Len(stream) + 1) = << >>
  BY <1>1
<1>3. Len(stream) + 1 \in 1 .. Len(stream')
  BY <1>2
<1> QED
  BY <1>2, <1>3 DEF CollectsSinceDelimiter

LEMMA InitDelimited == TInit => IInv
<1> SUFFICES ASSUME TInit PROVE IInv
  OBVIOUS
<1>1. TypeOK
  BY InitType DEF TInit
<1>2. stream \in Seq(Byte) /\ state = "text" /\ event.kind = "none"
  BY DEF TInit, Init, NoEvent
<1> QED
  BY <1>1, <1>2 DEF IInv, CollectsSinceDelimiter, FrameIsDelimited

LEMMA FeedDelimited ==
  ASSUME IInv, NEW b \in Byte, Feed(b), stream' = Append(stream, b)
  PROVE  IInv'
<1>1. TypeOK'
  BY NextType DEF IInv, Next
<1>2. stream \in Seq(Byte) /\ stream' \in Seq(Byte)
  BY DEF IInv
<1> SUFFICES CollectsSinceDelimiter' /\ FrameIsDelimited'
  BY <1>1, <1>2 DEF IInv
<1>3. ASSUME state' = "text", event'.kind # "frame"
      PROVE  CollectsSinceDelimiter' /\ FrameIsDelimited'
  BY <1>3 DEF CollectsSinceDelimiter, FrameIsDelimited
<1>4. ASSUME b = NUL, frame_buf' = << >>, event' = NoEvent
      PROVE  CollectsSinceDelimiter' /\ FrameIsDelimited'
  <2>1. event'.kind # "frame"
    BY <1>4 DEF NoEvent
  <2> QED
    BY <1>2, <1>4, <2>1, OpensBlock DEF FrameIsDelimited
<1>5. ASSUME NEW l, TextCR(b, l) \/ TextLF(b, l) \/ TextByte(b, l)
      PROVE  state' = "text" /\ event'.kind # "frame"
  BY <1>5 DEF TextCR, TextLF, TextByte, EmitLine, LineEvent, NoEvent
<1>6. CASE FeedText(b)
  <2>1. CASE TextOpen(b, line)
    BY <1>4, <2>1, Zenon DEF TextOpen
  <2>2. CASE TextCR(b, line) \/ TextLF(b, line) \/ TextByte(b, line)
    BY <1>3, <1>5, <2>2
  <2> QED
    BY <1>6, <2>1, <2>2 DEF FeedText
<1>7. /\ Len(stream') = Len(stream) + 1
      /\ stream'[Len(stream) + 1] = b
      /\ \A k \in 1 .. Len(stream) : stream'[k] = stream[k]
  BY <1>2, AppendProperties
<1>8. CASE FeedFrame(b)
  <2>1. PICK i \in 1 .. Len(stream) :
          /\ stream[i] = NUL
          /\ \A k \in i + 1 .. Len(stream) : stream[k] # NUL
          /\ frame_buf = SubSeq(stream, i + 1, Len(stream))
    BY <1>8 DEF FeedFrame, IInv, CollectsSinceDelimiter
  <2>2. CASE FrameCollect(b)
    <3>1. event'.kind # "frame" /\ b # NUL /\ frame_buf' = Append(frame_buf, b)
      BY <2>2 DEF FrameCollect, NoEvent
    <3>2. frame_buf' = SubSeq(stream', i + 1, Len(stream'))
      <4>1. i \in 0 .. Len(stream)
        OBVIOUS
      <4>2. SubSeq(Append(stream, b), i + 1, Len(stream) + 1)
              = Append(SubSeq(stream, i + 1, Len(stream)), b)
        BY <1>2, <4>1, SubSeqOfAppend
      <4> QED
        BY <1>7, <2>1, <3>1, <4>2
    <3>3. /\ i \in 1 .. Len(stream') /\ stream'[i] = NUL
          /\ \A k \in i + 1 .. Len(stream') : stream'[k] # NUL
      BY <1>2, <1>7, <2>1, <3>1
    <3> QED
      BY <3>1, <3>2, <3>3 DEF CollectsSinceDelimiter, FrameIsDelimited
  <2>3. CASE FrameOverflow(b)
    <3>1. state' = "text" /\ event'.kind # "frame"
      BY <1>5, <2>3, Zenon DEF FrameOverflow
    <3> QED
      BY <1>3, <3>1
  <2>4. CASE FrameEmpty(b)
    BY <1>4, <2>4, Zenon DEF FrameEmpty
  <2>5. CASE FrameReady(b)
    <3>1. /\ b = NUL /\ state' = "text"
          /\ Validate(frame_buf).outcome = "ready"
          /\ event'.data = Validate(frame_buf).out
      BY <2>5 DEF FrameReady, FrameEvent
    <3>2. SubSeq(stream', i + 1, Len(stream)) = frame_buf
      BY <1>2, <2>1, SubSeqOfAppend
    <3>3. /\ i \in 1 .. Len(stream') /\ Len(stream) + 1 \in 1 .. Len(stream')
          /\ Len(stream') = Len(stream) + 1
          /\ stream'[i] = NUL /\ stream'[Len(stream) + 1] = NUL
          /\ \A k \in i + 1 .. Len(stream) : stream'[k] # NUL
      BY <1>2, <1>7, <2>1, <3>1
    <3>4. FrameIsDelimited'
      <4> DEFINE j == Len(stream) + 1
      <4>1. /\ i < j /\ j = Len(stream') /\ j - 1 = Len(stream)
            /\ i \in 1 .. Len(stream') /\ j \in 1 .. Len(stream')
        BY <1>2, <3>3
      <4>2. /\ stream'[i] = NUL /\ stream'[j] = NUL
            /\ \A k \in i + 1 .. j - 1 : stream'[k] # NUL
            /\ Validate(SubSeq(stream', i + 1, j - 1)).outcome = "ready"
            /\ Validate(SubSeq(stream', i + 1, j - 1)).out = event'.data
        BY <3>1, <3>2, <3>3, <4>1
      <4> HIDE DEF j
      <4> QED
        BY <4>1, <4>2 DEF FrameIsDelimited
    <3> QED
      BY <3>1, <3>4 DEF CollectsSinceDelimiter
  <2>6. CASE FrameReject(b)
    BY <1>4, <2>6, Zenon DEF FrameReject
  <2> QED
    BY <1>8, <2>2, <2>3, <2>4, <2>5, <2>6 DEF FeedFrame
<1> QED
  BY <1>6, <1>8 DEF Feed

LEMMA NextDelimited == IInv /\ [TNext]_vars => IInv'
<1> SUFFICES ASSUME IInv, [TNext]_vars PROVE IInv'
  OBVIOUS
<1>1. ASSUME NEW b \in Byte, TFeed(b) PROVE IInv'
  BY <1>1, FeedDelimited DEF TFeed
<1>2. CASE TReset
  <2>1. TypeOK'
    BY <1>2, NextType DEF TReset, Next, IInv
  <2>2. stream' \in Seq(Byte) /\ state' = "text" /\ event'.kind = "none"
    BY <1>2 DEF TReset, Reset, NoEvent
  <2> QED
    BY <2>1, <2>2 DEF IInv, CollectsSinceDelimiter, FrameIsDelimited
<1>3. CASE UNCHANGED vars
  BY <1>3, Zenon DEF vars, demuxVars, IInv, TypeOK, CollectsSinceDelimiter, FrameIsDelimited
<1> QED
  BY <1>1, <1>2, <1>3 DEF TNext

\* A frame is reported only for a complete block between two delimiters that
\* the codec accepts as it stands: no byte of an earlier frame, of a rejected
\* block or of text is ever part of a payload.
THEOREM FramesDelimited == TSpec => []FrameIsDelimited
<1>1. IInv => FrameIsDelimited
  BY DEF IInv
<1> QED
  BY <1>1, InitDelimited, NextDelimited, PTL DEF TSpec

-----------------------------------------------------------------------------
(* Frames do not depend on the text between them.                           *)

\* A byte of text completes no frame, wherever it is fed.
LEMMA TextStepIsSilent ==
  ASSUME NEW b, NEW l, TextCR(b, l) \/ TextLF(b, l) \/ TextByte(b, l)
  PROVE  /\ state' = "text"
         /\ event'.kind # "frame"
BY DEF TextCR, TextLF, TextByte, EmitLine, LineEvent, NoEvent

LEMMA InitFrames == TInit => FramesAlone!Init
BY DEF TInit, Init, NoEvent, ErrorKinds, FramesAlone!Init, FramesAlone!NoEvent

LEMMA FeedTextFrames ==
  ASSUME NEW b \in Byte, FeedText(b)
  PROVE  FramesAlone!Feed(b)
<1>1. CASE TextOpen(b, line)
  <2>1. FramesAlone!Open
    BY <1>1 DEF FeedText, TextOpen, NoEvent, FramesAlone!Open, FramesAlone!NoEvent
  <2> QED
    BY <1>1, <2>1 DEF TextOpen, FramesAlone!Feed
<1>2. CASE /\ TextCR(b, line) \/ TextLF(b, line) \/ TextByte(b, line)
           /\ UNCHANGED frame_buf
  <2>1. b # NUL
    BY <1>2, DemuxAssumption DEF TextCR, TextLF, TextByte
  <2>2. state' = "text" /\ event'.kind # "frame"
    BY <1>2, TextStepIsSilent
  <2>3. FramesAlone!DropText
    BY <1>2, <2>2 DEF FeedText, FramesAlone!DropText, FramesAlone!NoEvent
  <2> QED
    BY <2>1, <2>3 DEF FramesAlone!Feed
<1> QED
  BY <1>1, <1>2 DEF FeedText

LEMMA FeedFrameFrames ==
  ASSUME NEW b \in Byte, FeedFrame(b)
  PROVE  FramesAlone!Feed(b)
<1> USE DEF NoEvent, FramesAlone!NoEvent, FramesAlone!Feed
<1>1. CASE FrameCollect(b)
  BY <1>1 DEF FeedFrame, FrameCollect, FramesAlone!Collect
<1>2. CASE FrameOverflow(b)
  <2>1. state' = "text" /\ event'.kind # "frame"
    BY <1>2, TextStepIsSilent DEF FrameOverflow
  <2>2. FramesAlone!Overflow
    BY <1>2, <2>1
    DEF FeedFrame, FrameOverflow, Counted, FramesAlone!Overflow, FramesAlone!Counted
  <2> QED
    BY <1>2, <2>2 DEF FrameOverflow
<1>3. CASE FrameEmpty(b)
  BY <1>3 DEF FeedFrame, FrameEmpty, FramesAlone!Empty
<1>4. CASE FrameReady(b)
  BY <1>4 DEF FeedFrame, FrameReady, FrameEvent, FramesAlone!Ready
<1>5. CASE FrameReject(b)
  <2>1. FramesAlone!Reject
    BY <1>5 DEF FeedFrame, FrameReject, Counted, FramesAlone!Reject, FramesAlone!Counted
  <2> QED
    BY <1>5, <2>1 DEF FrameReject
<1> QED
  BY <1>1, <1>2, <1>3, <1>4, <1>5 DEF FeedFrame

LEMMA NextFrames == [TNext]_vars => [FramesAlone!Next]_(FramesAlone!vars)
<1> SUFFICES ASSUME [TNext]_vars PROVE [FramesAlone!Next]_(FramesAlone!vars)
  OBVIOUS
<1>1. ASSUME NEW b \in Byte, Feed(b) PROVE FramesAlone!Next
  <2>1. FramesAlone!Feed(b)
    BY <1>1, FeedTextFrames, FeedFrameFrames DEF Feed
  <2> QED
    BY <2>1 DEF FramesAlone!Next
<1>2. CASE Reset
  BY <1>2 DEF Reset, NoEvent, FramesAlone!Next, FramesAlone!Reset, FramesAlone!NoEvent
<1>3. CASE UNCHANGED vars
  BY <1>3 DEF vars, demuxVars, FramesAlone!vars
<1> QED
  BY <1>1, <1>2, <1>3 DEF TNext, TFeed, TReset

\* For every buffer size, byte set and codec, and with resets at any time: with
\* its lines left out, the demultiplexer is the one framing.h writes for
\* LineMax == 0, so text, garbage and recovery never add, drop or alter a frame.
THEOREM TextLeavesFramesAlone == TSpec => FramesAsWithoutText
<1> QED
  BY InitFrames, NextFrames, PTL DEF TSpec, FramesAsWithoutText, FramesAlone!Spec

-----------------------------------------------------------------------------
(* Induction, and functions defined by recursion.                          *)

\* A set of numbers has a least one.
LEMMA LeastNumber ==
  ASSUME NEW T \in SUBSET Nat, T # {}
  PROVE  \E x \in T : \A y \in T : x <= y
<1>1. PICK x \in T : \A y \in T : ~(<<y, x>> \in OpToRel(<, Nat))
  BY NatLessThanWellFounded, WFMin
<1>2. ASSUME NEW y \in T PROVE x <= y
  <2>1. ~(y < x)
    BY <1>1 DEF OpToRel
  <2> QED
    BY <2>1
<1> QED
  BY <1>2

\* A set of numbers with 0 and every successor is all of them.
LEMMA Induction ==
  ASSUME NEW T \in SUBSET Nat, 0 \in T, \A n \in T : n + 1 \in T
  PROVE  T = Nat
<1> SUFFICES ASSUME Nat \ T # {} PROVE FALSE
  OBVIOUS
<1>1. PICK x \in Nat \ T : \A y \in Nat \ T : x <= y
  BY LeastNumber
<1>2. x # 0 /\ x - 1 \in Nat
  BY <1>1
<1>3. x - 1 \in T
  BY <1>1, <1>2
<1> QED
  BY <1>1, <1>3


\* A set that holds each point whose predecessors in rank it holds is everything.
LEMMA ByRank ==
  ASSUME NEW P, NEW N \in Nat, NEW rank \in [P -> 0 .. N], NEW Q \in SUBSET P,
         \A p \in P : (\A q \in P : rank[q] < rank[p] => q \in Q) => p \in Q
  PROVE  Q = P
<1> DEFINE T == {k \in Nat : \A p \in P : rank[p] < k => p \in Q}
<1>1. 0 \in T
  OBVIOUS
<1>2. ASSUME NEW k \in T PROVE k + 1 \in T
  <2> SUFFICES ASSUME NEW p \in P, rank[p] < k + 1 PROVE p \in Q
    OBVIOUS
  <2>1. \A q \in P : rank[q] < rank[p] => rank[q] < k
    OBVIOUS
  <2> QED
    BY <2>1
<1>3. T = Nat
  <2> HIDE DEF T
  <2>1. T \in SUBSET Nat
    BY DEF T
  <2> QED
    BY <1>1, <1>2, <2>1, Induction
<1>4. N + 1 \in T
  BY <1>3
<1>5. \A p \in P : rank[p] < N + 1
  OBVIOUS
<1> QED
  BY <1>4, <1>5

\* The value at a point depends on those at the points of lower rank only.
FollowsRank(F, P, V, rank) ==
  \A t \in [P -> V], u \in [P -> V], p \in P :
    (\A q \in P : rank[q] < rank[p] => t[q] = u[q]) => F[t][p] = F[u][p]

HasFixedPoint(F, P, V) == \E t \in [P -> V] : t = F[t]

\* A recursive function exists if its value at each point depends on those at
\* points of lower rank only.
LEMMA FixedPoint ==
  ASSUME NEW P, NEW N \in Nat, NEW rank \in [P -> 0 .. N], NEW V, V # {},
         NEW F \in [[P -> V] -> [P -> V]], FollowsRank(F, P, V, rank)
  PROVE  HasFixedPoint(F, P, V)
<1> DEFINE Fixed(t, k) == \A p \in P : rank[p] < k => F[t][p] = t[p]
           T == {k \in Nat : \E t \in [P -> V] : Fixed(t, k)}
<1>1. 0 \in T
  <2> PICK v \in V : TRUE
    OBVIOUS
  <2>1. [p \in P |-> v] \in [P -> V]
    OBVIOUS
  <2>2. \A t : Fixed(t, 0)
    OBVIOUS
  <2> HIDE DEF Fixed
  <2> QED
    BY <2>1, <2>2
<1>2. ASSUME NEW k \in T PROVE k + 1 \in T
  <2>1. PICK t \in [P -> V] : Fixed(t, k)
    OBVIOUS
  <2>2. F[t] \in [P -> V]
    OBVIOUS
  <2>3. ASSUME NEW p \in P, rank[p] < k + 1 PROVE F[F[t]][p] = F[t][p]
    <3>1. \A q \in P : rank[q] < rank[p] => rank[q] < k
      BY <2>3
    <3>2. \A q \in P : rank[q] < rank[p] => F[t][q] = t[q]
      BY <2>1, <3>1
    <3> QED
      BY <2>2, <3>2 DEF FollowsRank
  <2>4. Fixed(F[t], k + 1)
    BY <2>3
  <2> HIDE DEF Fixed
  <2>5. k + 1 \in Nat
    OBVIOUS
  <2> QED
    BY <2>2, <2>4, <2>5
<1>3. T = Nat
  <2> HIDE DEF T
  <2>1. T \in SUBSET Nat
    BY DEF T
  <2> QED
    BY <1>1, <1>2, <2>1, Induction
<1>4. PICK t \in [P -> V] : Fixed(t, N + 1)
  <2>1. N + 1 \in T
    <3> HIDE DEF T
    <3> QED
      BY <1>3
  <2> QED
    BY <2>1
<1>5. \A p \in P : rank[p] < N + 1
  OBVIOUS
<1>6. \A p \in P : F[t][p] = t[p]
  BY <1>4, <1>5
<1>7. F[t] \in [P -> V]
  OBVIOUS
<1> QED
  BY <1>6, <1>7 DEF HasFixedPoint

-----------------------------------------------------------------------------
(* The reference: blocks and cells.                                         *)

Modes == {"text", "frame"}
Cell == [kind : {"text", "literal", "frame"}, val : Seq(Byte)]

\* A block ends at the first delimiter behind it, or at the end of the stream.
LEMMA BlockEnds ==
  ASSUME NEW s \in Seq(Byte), NEW p \in 0 .. Len(s)
  PROVE  /\ BlockEnd(s, p) \in p + 1 .. Len(s) + 1
         /\ BlockEnd(s, p) <= Len(s) => s[BlockEnd(s, p)] = NUL
         /\ \A i \in p + 1 .. BlockEnd(s, p) - 1 : s[i] # NUL
<1> DEFINE S == {i \in p + 1 .. Len(s) : s[i] = NUL} \cup {Len(s) + 1}
           Least(x) == x \in S /\ \A y \in S : x <= y
<1>1. S \in SUBSET Nat /\ S # {}
  OBVIOUS
<1> HIDE DEF S
<1>2. \E x : Least(x)
  BY <1>1, LeastNumber
<1>3. BlockEnd(s, p) = CHOOSE x \in S : \A y \in S : x <= y
  BY DEF BlockEnd, Min, S
<1>4. Least(BlockEnd(s, p))
  BY <1>2, <1>3
<1> QED
  BY <1>4 DEF S

\* The block ends at the first delimiter behind its beginning.
LEMMA BlockEndAt ==
  ASSUME NEW s \in Seq(Byte), NEW p \in 0 .. Len(s), NEW n \in p .. Len(s),
         \A i \in p + 1 .. n : s[i] # NUL
  PROVE  /\ n = Len(s) \/ s[n + 1] = NUL => BlockEnd(s, p) = n + 1
         /\ n < Len(s) /\ s[n + 1] # NUL => BlockEnd(s, p) > n + 1
<1> DEFINE end == BlockEnd(s, p)
<1>1. /\ end \in p + 1 .. Len(s) + 1
      /\ end <= Len(s) => s[end] = NUL
      /\ \A i \in p + 1 .. end - 1 : s[i] # NUL
  BY BlockEnds
<1> HIDE DEF end
<1>2. end >= n + 1
  BY <1>1
<1>3. n < Len(s) /\ s[n + 1] = NUL => end <= n + 1
  BY <1>1
<1>4. n = Len(s) => end <= n + 1
  BY <1>1
<1>5. n < Len(s) /\ s[n + 1] # NUL => end # n + 1
  BY <1>1
<1> QED
  BY <1>1, <1>2, <1>3, <1>4, <1>5 DEF end

LEMMA Blocks ==
  ASSUME NEW s \in Seq(Byte), NEW p \in 0 .. Len(s), NEW n \in p .. Len(s)
  PROVE  /\ SubSeq(s, p + 1, n) \in Seq(Byte)
         /\ Len(SubSeq(s, p + 1, n)) = n - p
         /\ \A i \in 1 .. n - p : SubSeq(s, p + 1, n)[i] = s[p + i]
         /\ (\A i \in p + 1 .. n : s[i] # NUL) => SubSeq(s, p + 1, n) \in Seq(Body)
<1> DEFINE b == SubSeq(s, p + 1, n)
<1>1. /\ b \in Seq(Byte) /\ Len(b) = n - p /\ \A i \in 1 .. n - p : b[i] = s[p + 1 + i - 1]
  <2>1. \A i \in p + 1 .. n : s[i] \in Byte
    OBVIOUS
  <2> QED
    BY <2>1, SubSeqProperties
<1>2. \A i \in 1 .. n - p : p + 1 + i - 1 = p + i /\ p + i \in p + 1 .. n
  OBVIOUS
<1> HIDE DEF b
<1>3. (\A i \in p + 1 .. n : s[i] # NUL) => b \in Seq(Body)
  <2> SUFFICES ASSUME \A i \in p + 1 .. n : s[i] # NUL PROVE b \in Seq(Body)
    OBVIOUS
  <2>1. \A i \in 1 .. Len(b) : b[i] \in Body
    BY <1>1, <1>2 DEF Body
  <2> QED
    BY <1>1, <2>1
<1> QED
  BY <1>1, <1>2, <1>3 DEF b

LEMMA TextCellsType ==
  ASSUME NEW block \in Seq(Byte)
  PROVE  /\ TextCells(block) \in Seq(Cell)
         /\ Len(TextCells(block)) = Len(block)
         /\ \A i \in 1 .. Len(block) : TextCells(block)[i] = TextCell(block[i])
<1>1. DOMAIN block = 1 .. Len(block) /\ Len(block) \in Nat
  OBVIOUS
<1>2. \A i \in 1 .. Len(block) : TextCell(block[i]) \in Cell
  <2> SUFFICES ASSUME NEW i \in 1 .. Len(block) PROVE TextCell(block[i]) \in Cell
    OBVIOUS
  <2>1. block[i] \in Byte
    OBVIOUS
  <2>2. <<block[i]>> \in Seq(Byte)
    BY <2>1
  <2> QED
    BY <2>2 DEF TextCell, Cell
<1>3. TextCells(block) = [i \in 1 .. Len(block) |-> TextCell(block[i])]
  BY <1>1 DEF TextCells
<1> QED
  BY <1>1, <1>2, <1>3

\* The cells from one position are well typed if those from the later ones are,
LEMMA CellsTyped ==
  ASSUME NEW s \in Seq(Byte), NEW p \in 0 .. Len(s), NEW mode \in Modes, NEW cells,
         \A q \in 0 .. Len(s) : q > p => cells[q] \in [Modes -> Seq(Cell)]
  PROVE  CellsFrom(s, p, mode, cells) \in Seq(Cell)
<1> DEFINE end == BlockEnd(s, p)
           block == SubSeq(s, p + 1, end - 1)
<1>1. end \in p + 1 .. Len(s) + 1 /\ \A i \in p + 1 .. end - 1 : s[i] # NUL
  BY BlockEnds
<1>2. end - 1 \in p .. Len(s)
  BY <1>1
<1>3. block \in Seq(Byte) /\ Len(block) = end - 1 - p /\ block \in Seq(Body)
  BY <1>1, <1>2, Blocks
<1>4. ~(end > Len(s)) => \A m \in Modes : cells[end][m] \in Seq(Cell)
  BY <1>1
<1>5. Len(block) > FrameMax => cells[p + FrameMax]["text"] \in Seq(Cell)
  <2> HIDE DEF end, block
  <2> SUFFICES ASSUME Len(block) > FrameMax PROVE cells[p + FrameMax]["text"] \in Seq(Cell)
    OBVIOUS
  <2>1. FrameMax \in Nat \ {0} /\ Len(s) \in Nat
    BY DemuxAssumption
  <2>2. p + FrameMax < end - 1
    BY <1>1, <1>3, <2>1
  <2>3. p + FrameMax \in 0 .. Len(s) /\ p + FrameMax > p
    BY <1>1, <2>1, <2>2
  <2> QED
    BY <2>3 DEF Modes
<1>6. Len(block) > FrameMax => SubSeq(block, 1, FrameMax) \in Seq(Byte)
  BY <1>3, DemuxAssumption
<1>7. Len(block) <= FrameMax /\ block # << >> => Validate(block).out \in Seq(Byte)
  BY <1>3, ValidateType
<1>8. TextCells(block) \in Seq(Cell)
  BY <1>3, TextCellsType
<1>9. \A x \in Seq(Byte) : <<LiteralCell(x)>> \in Seq(Cell) /\ <<FrameCell(x)>> \in Seq(Cell)
  <2>1. \A x \in Seq(Byte) : LiteralCell(x) \in Cell /\ FrameCell(x) \in Cell
    BY DEF LiteralCell, FrameCell, Cell
  <2>2. \A c \in Cell : <<c>> \in Seq(Cell)
    OBVIOUS
  <2> QED
    BY <2>1, <2>2, Zenon
<1>10. << >> \in Seq(Cell) /\ \A x, y \in Seq(Cell) : x \o y \in Seq(Cell)
  OBVIOUS
<1> HIDE DEF end, block
<1>11. "text" \in Modes /\ "frame" \in Modes
  BY DEF Modes
<1>12. CASE mode = "text"
  <2>1. CellsFrom(s, p, mode, cells)
          = TextCells(block) \o (IF end > Len(s) THEN << >> ELSE cells[end]["frame"])
    BY <1>12 DEF CellsFrom, end, block
  <2> QED
    BY <1>4, <1>8, <1>10, <1>11, <2>1
<1>13. CASE mode = "frame" /\ Len(block) > FrameMax
  <2>1. ~(Len(block) <= FrameMax)
    BY <1>3, <1>13, DemuxAssumption
  <2>2. CellsFrom(s, p, mode, cells)
          = <<LiteralCell(SubSeq(block, 1, FrameMax))>> \o cells[p + FrameMax]["text"]
    BY <1>13, <2>1, Zenon DEF CellsFrom, end, block
  <2> QED
    BY <1>5, <1>6, <1>9, <1>10, <1>13, <2>2
<1>14. CASE mode = "frame" /\ ~(Len(block) > FrameMax)
  <2>1. Len(block) <= FrameMax
    BY <1>3, <1>14, DemuxAssumption
  <2>2. CellsFrom(s, p, mode, cells)
          = IF end > Len(s) THEN << >>
            ELSE IF block = << >> THEN cells[end]["frame"]
            ELSE IF Validate(block).outcome = "ready"
                 THEN <<FrameCell(Validate(block).out)>> \o cells[end]["text"]
            ELSE <<LiteralCell(Validate(block).out)>> \o cells[end]["frame"]
    BY <1>14, <2>1, Zenon DEF CellsFrom, end, block
  <2> QED
    BY <1>4, <1>7, <1>9, <1>10, <1>11, <2>1, <2>2
<1> QED
  BY <1>12, <1>13, <1>14 DEF Modes

\* and depend on nothing else: the table of RefCells is well founded.
LEMMA CellsLater ==
  ASSUME NEW s \in Seq(Byte), NEW p \in 0 .. Len(s), NEW mode \in Modes, NEW t, NEW u,
         \A q \in 0 .. Len(s) : q > p => t[q] = u[q]
  PROVE  CellsFrom(s, p, mode, t) = CellsFrom(s, p, mode, u)
<1> DEFINE end == BlockEnd(s, p)
           block == SubSeq(s, p + 1, end - 1)
<1>1. end \in p + 1 .. Len(s) + 1
  BY BlockEnds
<1>2. end - 1 \in p .. Len(s)
  BY <1>1
<1>3. Len(block) = end - 1 - p
  BY <1>2, Blocks
<1>4. ~(end > Len(s)) => t[end] = u[end]
  BY <1>1
<1>5. Len(block) > FrameMax => t[p + FrameMax] = u[p + FrameMax]
  <2> HIDE DEF end, block
  <2> SUFFICES ASSUME Len(block) > FrameMax PROVE t[p + FrameMax] = u[p + FrameMax]
    OBVIOUS
  <2>1. FrameMax \in Nat \ {0} /\ Len(s) \in Nat
    BY DemuxAssumption
  <2>2. p + FrameMax < end - 1
    BY <1>1, <1>3, <2>1
  <2>3. p + FrameMax \in 0 .. Len(s) /\ p + FrameMax > p
    BY <1>1, <2>1, <2>2
  <2> QED
    BY <2>3
<1> HIDE DEF end, block
<1>6. CASE mode = "text"
  <2>1. \A c : CellsFrom(s, p, mode, c)
          = TextCells(block) \o (IF end > Len(s) THEN << >> ELSE c[end]["frame"])
    BY <1>6 DEF CellsFrom, end, block
  <2> QED
    BY <1>4, <2>1
<1>7. CASE mode = "frame" /\ Len(block) > FrameMax
  <2>1. ~(Len(block) <= FrameMax)
    BY <1>1, <1>3, <1>7, DemuxAssumption
  <2>2. \A c : CellsFrom(s, p, mode, c)
          = <<LiteralCell(SubSeq(block, 1, FrameMax))>> \o c[p + FrameMax]["text"]
    BY <1>7, <2>1, Zenon DEF CellsFrom, end, block
  <2> QED
    BY <1>5, <1>7, <2>2
<1>8. CASE mode = "frame" /\ ~(Len(block) > FrameMax)
  <2>1. Len(block) <= FrameMax
    BY <1>1, <1>3, <1>8, DemuxAssumption
  <2>2. \A c : CellsFrom(s, p, mode, c)
          = IF end > Len(s) THEN << >>
            ELSE IF block = << >> THEN c[end]["frame"]
            ELSE IF Validate(block).outcome = "ready"
                 THEN <<FrameCell(Validate(block).out)>> \o c[end]["text"]
            ELSE <<LiteralCell(Validate(block).out)>> \o c[end]["frame"]
    BY <1>8, <2>1, Zenon DEF CellsFrom, end, block
  <2> QED
    BY <1>4, <2>2
<1> QED
  BY <1>6, <1>7, <1>8 DEF Modes

\* The table of the reference is what its definition says.
LEMMA CellsUnfold ==
  ASSUME NEW s \in Seq(Byte)
  PROVE  /\ RefCells(s) \in [0 .. Len(s) -> [Modes -> Seq(Cell)]]
         /\ \A p \in 0 .. Len(s), mode \in Modes :
              RefCells(s)[p][mode] = CellsFrom(s, p, mode, RefCells(s))
<1> DEFINE P == 0 .. Len(s)
           V == [Modes -> Seq(Cell)]
           Table(t) == [p \in P |-> [mode \in Modes |-> CellsFrom(s, p, mode, t)]]
           F == [t \in [P -> V] |-> Table(t)]
           rank == [p \in P |-> Len(s) - p]
<1>1. Len(s) \in Nat /\ rank \in [P -> 0 .. Len(s)]
  OBVIOUS
<1>2. \A p \in P, q \in P : rank[q] < rank[p] <=> q > p
  OBVIOUS
<1>3. ASSUME NEW t, NEW p \in P, \A q \in P : rank[q] < rank[p] => t[q] \in V
      PROVE  Table(t)[p] \in V
  <2>1. \A q \in P : q > p => t[q] \in V
    BY <1>2, <1>3
  <2>2. \A mode \in Modes : CellsFrom(s, p, mode, t) \in Seq(Cell)
    BY <2>1, CellsTyped
  <2> QED
    BY <2>2
<1>4. \E t : t = Table(t)
  <2>1. F \in [[P -> V] -> [P -> V]]
    <3> SUFFICES ASSUME NEW t \in [P -> V] PROVE Table(t) \in [P -> V]
      BY Zenon
    <3>1. \A p \in P : Table(t)[p] \in V
      <4> HIDE DEF V, P, rank, Table
      <4> QED
        BY <1>3
    <3> QED
      BY <3>1
  <2>2. ASSUME NEW t \in [P -> V], NEW u \in [P -> V], NEW p \in P,
               \A q \in P : rank[q] < rank[p] => t[q] = u[q]
        PROVE  F[t][p] = F[u][p]
    <3>1. \A q \in P : q > p => t[q] = u[q]
      BY <1>2, <2>2
    <3>2. \A mode \in Modes : CellsFrom(s, p, mode, t) = CellsFrom(s, p, mode, u)
      BY <3>1, CellsLater
    <3> QED
      BY <3>2
  <2>3. FollowsRank(F, P, V, rank)
    <3> HIDE DEF P, V, F, rank
    <3> QED
      BY <2>2, Zenon DEF FollowsRank
  <2>4. V # {}
    <3>1. [mode \in Modes |-> << >>] \in V
      OBVIOUS
    <3> QED
      BY <3>1, Zenon
  <2>5. HasFixedPoint(F, P, V)
    <3> HIDE DEF P, V, F, rank, Table
    <3> QED
      BY <1>1, <2>1, <2>3, <2>4, FixedPoint, Zenon
  <2>6. PICK t \in [P -> V] : t = F[t]
    BY <2>5 DEF HasFixedPoint
  <2> QED
    BY <2>6
<1>5. RefCells(s) = CHOOSE t : t = Table(t)
  BY DEF RefCells, Modes
<1>6. RefCells(s) = Table(RefCells(s))
  <2> HIDE DEF Table
  <2> QED
    BY <1>4, <1>5
<1> DEFINE c == RefCells(s)
<1> HIDE DEF c
<1>7. c = Table(c)
  BY <1>6 DEF c
<1>8. \A p \in P : c[p] \in V
  <2> DEFINE Q == {p \in P : c[p] \in V}
  <2>1. ASSUME NEW p \in P, \A q \in P : rank[q] < rank[p] => q \in Q
        PROVE  p \in Q
    <3>1. \A q \in P : rank[q] < rank[p] => c[q] \in V
      BY <2>1
    <3>2. Table(c)[p] \in V
      <4> HIDE DEF V, P, rank, Table
      <4> QED
        BY <1>3, <3>1
    <3>3. c[p] \in V
      <4> HIDE DEF V, P, rank, Table
      <4> QED
        BY <1>7, <3>2
    <3> QED
      BY <3>3
  <2>2. Q \in SUBSET P
    OBVIOUS
  <2>3. Q = P
    <3> HIDE DEF P, Q, rank
    <3> QED
      BY <1>1, <2>1, <2>2, ByRank
  <2> QED
    BY <2>3
<1>9. c \in [P -> V]
  <2> HIDE DEF V
  <2> QED
    BY <1>7, <1>8
<1>10. \A p \in P, mode \in Modes : c[p][mode] = CellsFrom(s, p, mode, c)
  BY <1>7
<1> QED
  BY <1>9, <1>10 DEF c

-----------------------------------------------------------------------------
(* Reading the cells.                                                       *)

\* The reading is a pair: the characters since the last line end, and the events.
Event == [kind : {"none", "text_line", "frame"}, data : Seq(Byte), truncated : BOOLEAN]
Read  == [chars : Seq(Byte), events : Seq(Event)]

NothingRead == [chars |-> << >>, events |-> << >>]

LEMMA RefLineType ==
  ASSUME NEW chars \in Seq(Byte)
  PROVE  RefLine(chars) \in Event
<1> DEFINE kept == IF Len(chars) < LineMax THEN Len(chars) ELSE LineMax - 1
<1>1. kept \in 0 .. Len(chars)
  BY DemuxAssumption
<1>2. SubSeq(chars, 1, kept) \in Seq(Byte)
  <2> HIDE DEF kept
  <2> QED
    BY <1>1
<1>3. (kept < Len(chars)) \in BOOLEAN
  OBVIOUS
<1>4. RefLine(chars) = [kind |-> "text_line", data |-> SubSeq(chars, 1, kept),
                        truncated |-> kept < Len(chars)]
  BY DEF RefLine
<1> HIDE DEF kept
<1> QED
  BY <1>2, <1>3, <1>4 DEF Event

LEMMA ReadCellType ==
  ASSUME NEW c \in Seq(Cell), NEW i \in 1 .. Len(c), NEW r \in Read
  PROVE  ReadCell(c, i, r) \in Read
<1>1. c[i] \in Cell
  OBVIOUS
<1>2. c[i].val \in Seq(Byte) /\ r.chars \in Seq(Byte) /\ r.events \in Seq(Event)
  BY <1>1 DEF Cell, Read
<1>3. FrameEvent(c[i].val) \in Event
  BY <1>2 DEF FrameEvent, Event
<1>4. RefLine(r.chars) \in Event
  BY <1>2, RefLineType
<1>5. /\ Append(r.events, FrameEvent(c[i].val)) \in Seq(Event)
      /\ Append(r.events, RefLine(r.chars)) \in Seq(Event)
      /\ r.chars \o c[i].val \in Seq(Byte)
  BY <1>2, <1>3, <1>4
<1>6. /\ [r EXCEPT !.events = Append(@, FrameEvent(c[i].val))] \in Read
      /\ [chars |-> << >>, events |-> Append(r.events, RefLine(r.chars))] \in Read
      /\ [r EXCEPT !.chars = @ \o c[i].val] \in Read
  <2>1. \A e \in Seq(Event) : [r EXCEPT !.events = e] \in Read
    BY DEF Read
  <2>2. \A s \in Seq(Byte) : [r EXCEPT !.chars = s] \in Read
    BY DEF Read
  <2>3. \A e \in Seq(Event) : [chars |-> << >>, events |-> e] \in Read
    BY DEF Read
  <2> QED
    BY <1>5, <2>1, <2>2, <2>3, Zenon
<1>7. CASE c[i].kind = "frame"
  BY <1>6, <1>7, Zenon DEF ReadCell
<1>8. CASE c[i].kind # "frame"
  <2>1. ~(EndsLine(c, i) /\ IsChars(c[i]))
    BY DEF EndsLine, IsChars, TextCell
  <2>2. CASE EndsLine(c, i)
    <3>1. ReadCell(c, i, r) = [chars |-> << >>, events |-> Append(r.events, RefLine(r.chars))]
      BY <1>8, <2>1, <2>2, Zenon DEF ReadCell
    <3> QED
      BY <1>6, <3>1
  <2>3. CASE ~EndsLine(c, i) /\ IsChars(c[i])
    <3>1. ReadCell(c, i, r) = [r EXCEPT !.chars = @ \o c[i].val]
      BY <1>8, <2>3, Zenon DEF ReadCell
    <3> QED
      BY <1>6, <3>1
  <2>4. CASE ~EndsLine(c, i) /\ ~IsChars(c[i])
    <3>1. ReadCell(c, i, r) = r
      BY <1>8, <2>4, Zenon DEF ReadCell
    <3> QED
      BY <3>1
  <2> QED
    BY <2>2, <2>3, <2>4
<1> QED
  BY <1>7, <1>8

\* The reading of the cells is what its definition says.
LEMMA ReadingUnfold ==
  ASSUME NEW c \in Seq(Cell)
  PROVE  /\ Reading(c) \in [0 .. Len(c) -> Read]
         /\ Reading(c)[0] = NothingRead
         /\ \A i \in 1 .. Len(c) : Reading(c)[i] = ReadCell(c, i, Reading(c)[i - 1])
<1> DEFINE P == 0 .. Len(c)
           At(i, t) == IF i = 0 THEN NothingRead ELSE ReadCell(c, i, t[i - 1])
           Table(t) == [i \in P |-> At(i, t)]
           F == [t \in [P -> Read] |-> Table(t)]
           rank == [i \in P |-> i]
<1>1. Len(c) \in Nat /\ rank \in [P -> 0 .. Len(c)]
  OBVIOUS
<1>2. NothingRead \in Read
  BY DEF NothingRead, Read
<1>3. ASSUME NEW t, NEW i \in P, \A j \in P : rank[j] < rank[i] => t[j] \in Read
      PROVE  At(i, t) \in Read
  <2>1. CASE i = 0
    BY <1>2, <2>1
  <2>2. CASE i # 0
    <3>1. i \in 1 .. Len(c) /\ i - 1 \in P /\ rank[i - 1] < rank[i]
      BY <2>2
    <3>2. t[i - 1] \in Read
      BY <1>3, <3>1
    <3> QED
      BY <2>2, <3>1, <3>2, ReadCellType
  <2> QED
    BY <2>1, <2>2
<1>4. \E t : t = Table(t)
  <2>1. F \in [[P -> Read] -> [P -> Read]]
    <3> SUFFICES ASSUME NEW t \in [P -> Read] PROVE Table(t) \in [P -> Read]
      BY Zenon
    <3>1. \A i \in P : At(i, t) \in Read
      <4> HIDE DEF At, P, rank
      <4> QED
        BY <1>3
    <3> HIDE DEF At
    <3> QED
      BY <3>1
  <2>2. ASSUME NEW t \in [P -> Read], NEW u \in [P -> Read], NEW i \in P,
               \A j \in P : rank[j] < rank[i] => t[j] = u[j]
        PROVE  F[t][i] = F[u][i]
    <3>1. i # 0 => t[i - 1] = u[i - 1]
      <4> SUFFICES ASSUME i # 0 PROVE t[i - 1] = u[i - 1]
        OBVIOUS
      <4>1. i - 1 \in P /\ rank[i - 1] < rank[i]
        OBVIOUS
      <4> QED
        BY <2>2, <4>1
    <3>2. At(i, t) = At(i, u)
      BY <3>1
    <3> HIDE DEF At
    <3> QED
      BY <3>2
  <2>3. FollowsRank(F, P, Read, rank)
    <3> HIDE DEF P, F, rank
    <3> QED
      BY <2>2, Zenon DEF FollowsRank
  <2>4. Read # {}
    BY <1>2
  <2>5. HasFixedPoint(F, P, Read)
    <3> HIDE DEF P, F, rank, Table
    <3> QED
      BY <1>1, <2>1, <2>3, <2>4, FixedPoint, Zenon
  <2>6. PICK t \in [P -> Read] : t = F[t]
    BY <2>5 DEF HasFixedPoint
  <2> HIDE DEF At
  <2> QED
    BY <2>6
<1>5. Reading(c) = CHOOSE t : t = Table(t)
  BY DEF Reading, NothingRead
<1>6. Reading(c) = Table(Reading(c))
  <2> HIDE DEF Table
  <2> QED
    BY <1>4, <1>5
<1> DEFINE d == Reading(c)
<1> HIDE DEF d
<1>7. d = Table(d)
  BY <1>6 DEF d
<1>8. \A i \in P : d[i] = At(i, d)
  <2> HIDE DEF At
  <2> QED
    BY <1>7
<1>9. \A i \in P : d[i] \in Read
  <2> DEFINE Q == {i \in P : d[i] \in Read}
  <2>1. ASSUME NEW i \in P, \A j \in P : rank[j] < rank[i] => j \in Q
        PROVE  i \in Q
    <3>1. \A j \in P : rank[j] < rank[i] => d[j] \in Read
      BY <2>1
    <3>2. At(i, d) \in Read
      <4> HIDE DEF P, rank, At
      <4> QED
        BY <1>3, <3>1
    <3> HIDE DEF At
    <3> QED
      BY <1>8, <3>2
  <2>2. Q \in SUBSET P
    OBVIOUS
  <2>3. Q = P
    <3> HIDE DEF P, Q, rank
    <3> QED
      BY <1>1, <2>1, <2>2, ByRank
  <2> QED
    BY <2>3
<1>10. d \in [P -> Read]
  <2> HIDE DEF At
  <2> QED
    BY <1>7, <1>9
<1>11. d[0] = NothingRead /\ \A i \in 1 .. Len(c) : d[i] = ReadCell(c, i, d[i - 1])
  BY <1>8
<1> QED
  BY <1>10, <1>11 DEF d

\* What has been read of the cells c.
Result(c) == Reading(c)[Len(c)]

\* The last byte of text was a CR.
PendingCR(c) == AfterCR(c, Len(c) + 1)

\* What has been read does not depend on the cells that follow.
LEMMA ReadingPrefix ==
  ASSUME NEW c \in Seq(Cell), NEW x \in Cell
  PROVE  Reading(Append(c, x))[Len(c)] = Result(c)
<1> DEFINE d == Append(c, x)
<1>1. d \in Seq(Cell) /\ Len(d) = Len(c) + 1 /\ \A i \in 1 .. Len(c) : d[i] = c[i]
  OBVIOUS
<1> HIDE DEF d
<1>2. ASSUME NEW i \in 1 .. Len(c), NEW r PROVE ReadCell(d, i, r) = ReadCell(c, i, r)
  <2>1. d[i] = c[i]
    BY <1>1
  <2>2. AfterCR(d, i) <=> AfterCR(c, i)
    <3>1. \A k \in 1 .. i - 1 : d[k] = c[k]
      BY <1>1
    <3>2. \A k \in 1 .. i - 1 : \A m \in k + 1 .. i - 1 : d[m] = c[m]
      BY <1>1
    <3> QED
      BY <3>1, <3>2 DEF AfterCR
  <2>3. EndsLine(d, i) <=> EndsLine(c, i)
    BY <2>1, <2>2 DEF EndsLine
  <2> QED
    BY <2>1, <2>3 DEF ReadCell
<1> DEFINE T == {i \in Nat : i <= Len(c) => Reading(d)[i] = Reading(c)[i]}
<1>3. 0 \in T
  BY <1>1, ReadingUnfold
<1>4. ASSUME NEW i \in T PROVE i + 1 \in T
  <2> SUFFICES ASSUME i + 1 <= Len(c) PROVE Reading(d)[i + 1] = Reading(c)[i + 1]
    OBVIOUS
  <2>1. i + 1 \in 1 .. Len(c) /\ i + 1 \in 1 .. Len(d) /\ i <= Len(c) /\ (i + 1) - 1 = i
    BY <1>1
  <2>2. Reading(d)[i + 1] = ReadCell(d, i + 1, Reading(d)[i])
    BY <1>1, <2>1, ReadingUnfold
  <2>3. Reading(c)[i + 1] = ReadCell(c, i + 1, Reading(c)[i])
    BY <2>1, ReadingUnfold
  <2> QED
    BY <1>2, <2>1, <2>2, <2>3
<1>5. T = Nat
  <2> HIDE DEF T
  <2>1. T \in SUBSET Nat
    BY DEF T
  <2> QED
    BY <1>3, <1>4, <2>1, Induction
<1>6. Len(c) \in T
  <2> HIDE DEF T
  <2> QED
    BY <1>5
<1> QED
  BY <1>6 DEF d, Result

\* What one more cell does.
LEMMA ReadNext ==
  ASSUME NEW c \in Seq(Cell), NEW x \in Cell
  PROVE  /\ Append(c, x)[Len(c) + 1] = x
         /\ Result(Append(c, x)) = ReadCell(Append(c, x), Len(c) + 1, Result(c))
         /\ EndsLine(Append(c, x), Len(c) + 1)
              <=> x = TextCell(CR) \/ (x = TextCell(LF) /\ ~PendingCR(c))
         /\ PendingCR(Append(c, x))
              <=> x = TextCell(CR) \/ (x.kind # "text" /\ PendingCR(c))
<1> DEFINE d == Append(c, x)
           n == Len(c)
<1>1. /\ d \in Seq(Cell) /\ Len(d) = n + 1 /\ n \in Nat /\ d[n + 1] = x
      /\ \A i \in 1 .. n : d[i] = c[i]
  OBVIOUS
<1>2. Reading(d)[n] = Result(c)
  BY ReadingPrefix
<1> HIDE DEF d, n
<1>3. Result(d) = ReadCell(d, n + 1, Result(c))
  <2>1. n + 1 \in 1 .. Len(d) /\ (n + 1) - 1 = n
    BY <1>1
  <2> QED
    BY <1>1, <1>2, <2>1, ReadingUnfold DEF Result
<1>4. AfterCR(d, n + 1) <=> PendingCR(c)
  <2>1. \A k \in 1 .. n : d[k] = c[k] /\ \A m \in k + 1 .. n : d[m] = c[m]
    BY <1>1
  <2>2. (n + 1) - 1 = n
    BY <1>1
  <2> QED
    BY <2>1, <2>2 DEF AfterCR, PendingCR, n
<1>5. PendingCR(d) <=> x = TextCell(CR) \/ (x.kind # "text" /\ PendingCR(c))
  <2>1. (n + 1) + 1 - 1 = n + 1 /\ (n + 1) - 1 = n
    BY <1>1
  <2>2. PendingCR(d) <=> \E k \in 1 .. n + 1 : /\ d[k] = TextCell(CR)
                                               /\ \A m \in k + 1 .. n + 1 : d[m].kind # "text"
    BY <1>1, <2>1 DEF PendingCR, AfterCR
  <2>3. AfterCR(d, n + 1) <=> \E k \in 1 .. n : /\ d[k] = TextCell(CR)
                                                /\ \A m \in k + 1 .. n : d[m].kind # "text"
    BY <2>1 DEF AfterCR
  <2>4. CASE x = TextCell(CR)
    <3>1. \A m \in (n + 1) + 1 .. n + 1 : d[m].kind # "text"
      BY <1>1
    <3> QED
      BY <1>1, <2>2, <2>4, <3>1
  <2>5. CASE x # TextCell(CR) /\ x.kind # "text"
    <3>1. \A k \in 1 .. n : (\A m \in k + 1 .. n + 1 : d[m].kind # "text")
                              <=> (\A m \in k + 1 .. n : d[m].kind # "text")
      BY <1>1, <2>5
    <3> QED
      BY <1>1, <1>4, <2>2, <2>3, <2>5, <3>1
  <2>6. CASE x # TextCell(CR) /\ x.kind = "text"
    <3>1. \A k \in 1 .. n : n + 1 \in k + 1 .. n + 1
      BY <1>1
    <3> QED
      BY <1>1, <2>2, <2>6, <3>1
  <2> QED
    BY <2>4, <2>5, <2>6
<1>6. EndsLine(d, n + 1) <=> x = TextCell(CR) \/ (x = TextCell(LF) /\ ~PendingCR(c))
  BY <1>1, <1>4 DEF EndsLine
<1> QED
  BY <1>1, <1>3, <1>5, <1>6 DEF d, n

-----------------------------------------------------------------------------
(* The pending line is the reading's characters, cut to the line buffer.    *)

\* The line buffer, when these characters have come since the last line end.
Cut(chars) == [text |-> Clip(chars), truncated |-> Len(chars) >= LineMax]

LEMMA CutEmpty == Cut(<< >>) = EmptyLine
<1>1. Clip(<< >>) = << >> /\ (Len(<< >>) >= LineMax) = FALSE
  BY DemuxAssumption DEF Clip
<1> QED
  BY <1>1, Zenon DEF Cut, EmptyLine

LEMMA CutLine ==
  ASSUME NEW chars \in Seq(Byte)
  PROVE  LineEvent(Cut(chars)) = RefLine(chars)
<1>1. CASE Len(chars) < LineMax
  <2>1. SubSeq(chars, 1, Len(chars)) = chars
    <3>1. /\ SubSeq(chars, 1, Len(chars)) \in Seq(Byte)
          /\ Len(SubSeq(chars, 1, Len(chars))) = Len(chars)
          /\ \A i \in 1 .. Len(chars) : SubSeq(chars, 1, Len(chars))[i] = chars[i]
      OBVIOUS
    <3> QED
      BY <3>1, SeqEqual
  <2>2. ~(Len(chars) >= LineMax) /\ ~(Len(chars) < Len(chars))
    BY <1>1, DemuxAssumption
  <2> QED
    BY <1>1, <2>1, <2>2 DEF LineEvent, Cut, Clip, RefLine
<1>2. CASE ~(Len(chars) < LineMax)
  <2>1. Len(chars) >= LineMax /\ LineMax - 1 < Len(chars)
    BY <1>2, DemuxAssumption
  <2> QED
    BY <1>2, <2>1 DEF LineEvent, Cut, Clip, RefLine
<1> QED
  BY <1>1, <1>2

\* Cutting byte by byte, or once at the end, is the same.
LEMMA CutAppended ==
  ASSUME NEW chars \in Seq(Byte), NEW s \in Seq(Byte)
  PROVE  Appended(Cut(chars), s) = Cut(chars \o s)
<1>1. /\ Len(chars) \in Nat /\ Len(s) \in Nat /\ LineMax \in Nat \ {0}
      /\ chars \o s \in Seq(Byte) /\ Len(chars \o s) = Len(chars) + Len(s)
  BY DemuxAssumption
<1>2. CASE Len(chars) < LineMax
  <2>1. Clip(chars) = chars /\ (Len(chars) >= LineMax) = FALSE
    BY <1>1, <1>2 DEF Clip
  <2>2. Cut(chars) = [text |-> chars, truncated |-> FALSE]
    BY <2>1, Zenon DEF Cut
  <2>3. (FALSE \/ Len(chars \o s) >= LineMax) = (Len(chars \o s) >= LineMax)
    OBVIOUS
  <2> QED
    BY <2>2, <2>3 DEF Appended, Cut
<1>3. CASE ~(Len(chars) < LineMax)
  <2> DEFINE kept == SubSeq(chars, 1, LineMax - 1)
  <2>1. /\ kept \in Seq(Byte) /\ Len(kept) = LineMax - 1
        /\ \A i \in 1 .. LineMax - 1 : kept[i] = chars[i]
    BY <1>1, <1>3
  <2>2. Clip(chars) = kept /\ Len(chars) >= LineMax /\ Len(chars \o s) >= LineMax
    BY <1>1, <1>3 DEF Clip
  <2>3. Clip(chars \o s) = SubSeq(chars \o s, 1, LineMax - 1)
    BY <1>1, <2>2 DEF Clip
  <2>4. /\ SubSeq(chars \o s, 1, LineMax - 1) \in Seq(Byte)
        /\ Len(SubSeq(chars \o s, 1, LineMax - 1)) = LineMax - 1
        /\ \A i \in 1 .. LineMax - 1 : SubSeq(chars \o s, 1, LineMax - 1)[i] = (chars \o s)[i]
    BY <1>1, <2>2
  <2>5. \A i \in 1 .. LineMax - 1 : (chars \o s)[i] = chars[i]
    BY <1>1, <1>3
  <2> HIDE DEF kept
  <2>6. Clip(chars \o s) = kept
    <3>1. \A i \in 1 .. LineMax - 1 : Clip(chars \o s)[i] = kept[i]
      BY <2>1, <2>3, <2>4, <2>5
    <3> QED
      BY <2>1, <2>3, <2>4, <3>1, SeqEqual
  <2>7. Clip(kept \o s) = kept
    <3>1. kept \o s \in Seq(Byte) /\ Len(kept \o s) = LineMax - 1 + Len(s)
      BY <1>1, <2>1
    <3>2. CASE s = << >>
      <4>1. kept \o s = kept
        BY <2>1, <3>2
      <4> QED
        BY <1>1, <2>1, <4>1 DEF Clip
    <3>3. CASE s # << >>
      <4>1. Len(s) >= 1
        BY <3>3
      <4>2. Len(kept \o s) >= LineMax
        BY <1>1, <3>1, <4>1
      <4>3. Clip(kept \o s) = SubSeq(kept \o s, 1, LineMax - 1)
        BY <1>1, <3>1, <4>2 DEF Clip
      <4>4. /\ SubSeq(kept \o s, 1, LineMax - 1) \in Seq(Byte)
            /\ Len(SubSeq(kept \o s, 1, LineMax - 1)) = LineMax - 1
            /\ \A i \in 1 .. LineMax - 1 : SubSeq(kept \o s, 1, LineMax - 1)[i] = (kept \o s)[i]
        BY <1>1, <3>1, <4>2
      <4>5. \A i \in 1 .. LineMax - 1 : (kept \o s)[i] = kept[i]
        BY <1>1, <2>1
      <4>6. \A i \in 1 .. LineMax - 1 : SubSeq(kept \o s, 1, LineMax - 1)[i] = kept[i]
        BY <4>4, <4>5
      <4> QED
        BY <2>1, <4>3, <4>4, <4>6, SeqEqual
    <3> QED
      BY <3>2, <3>3
  <2>8. (Len(chars) >= LineMax) = TRUE /\ (Len(chars \o s) >= LineMax) = TRUE
    BY <2>2
  <2>9. Cut(chars) = [text |-> kept, truncated |-> TRUE]
    BY <2>2, <2>8, Zenon DEF Cut
  <2>10. Cut(chars \o s) = [text |-> kept, truncated |-> TRUE]
    BY <2>6, <2>8, Zenon DEF Cut
  <2>11. (TRUE \/ Len(kept \o s) >= LineMax) = TRUE
    OBVIOUS
  <2>12. Appended([text |-> kept, truncated |-> TRUE], s) = [text |-> kept, truncated |-> TRUE]
    BY <2>7, <2>11 DEF Appended
  <2> QED
    BY <2>9, <2>10, <2>12
<1> QED
  BY <1>2, <1>3

-----------------------------------------------------------------------------
(* What the demultiplexer has read, in step with the reading of the cells.  *)

\* A reading, named so that the provers need not look into it.
Got(chars, evs) == [chars |-> chars, events |-> evs]

\* The events evs, the pending line l and the flag cr are what the cells c give.
InStep(c, chars, evs, l, cr) ==
  /\ Result(c) = Got(chars, evs)
  /\ cr = PendingCR(c)
  /\ l = Cut(chars)

LEMMA ReadFrame ==
  ASSUME NEW d, NEW i, NEW chars, NEW evs, d[i].kind = "frame"
  PROVE  ReadCell(d, i, Got(chars, evs)) = Got(chars, Append(evs, FrameEvent(d[i].val)))
<1> DEFINE r == Got(chars, evs)
<1>1. r.chars = chars /\ r.events = evs
  BY DEF Got
<1>2. \A e : [r EXCEPT !.events = e] = Got(chars, e)
  BY DEF Got
<1> HIDE DEF r
<1>3. ~EndsLine(d, i) /\ ~IsChars(d[i])
  BY DEF EndsLine, IsChars, TextCell
<1>4. ReadCell(d, i, r) = [r EXCEPT !.events = Append(r.events, FrameEvent(d[i].val))]
  BY <1>3, Zenon DEF ReadCell
<1> QED
  BY <1>1, <1>2, <1>4 DEF r

LEMMA ReadLineEnd ==
  ASSUME NEW d, NEW i, NEW chars, NEW evs, d[i].kind # "frame", EndsLine(d, i)
  PROVE  ReadCell(d, i, Got(chars, evs)) = Got(<< >>, Append(evs, RefLine(chars)))
<1> DEFINE r == Got(chars, evs)
<1>1. r.chars = chars /\ r.events = evs
  BY DEF Got
<1> HIDE DEF r
<1>2. ~IsChars(d[i])
  BY DEF EndsLine, IsChars, TextCell
<1>3. ReadCell(d, i, r) = Got(<< >>, Append(r.events, RefLine(r.chars)))
  BY <1>2, Zenon DEF ReadCell, Got
<1> QED
  BY <1>1, <1>3 DEF r

LEMMA ReadChars ==
  ASSUME NEW d, NEW i, NEW chars, NEW evs,
         d[i].kind # "frame", ~EndsLine(d, i), IsChars(d[i])
  PROVE  ReadCell(d, i, Got(chars, evs)) = Got(chars \o d[i].val, evs)
<1> DEFINE r == Got(chars, evs)
<1>1. r.chars = chars /\ r.events = evs
  BY DEF Got
<1>2. \A s : [r EXCEPT !.chars = s] = Got(s, evs)
  BY DEF Got
<1> HIDE DEF r
<1>3. ReadCell(d, i, r) = [r EXCEPT !.chars = r.chars \o d[i].val]
  BY Zenon DEF ReadCell
<1> QED
  BY <1>1, <1>2, <1>3 DEF r

LEMMA ReadNothing ==
  ASSUME NEW d, NEW i, NEW r, d[i].kind # "frame", ~EndsLine(d, i), ~IsChars(d[i])
  PROVE  ReadCell(d, i, r) = r
BY Zenon DEF ReadCell

\* One more cell keeps them in step: a frame, the bytes of a rejected block,
LEMMA AfterFrame ==
  ASSUME NEW c \in Seq(Cell), NEW chars \in Seq(Byte), NEW evs, NEW l, NEW cr,
         InStep(c, chars, evs, l, cr), NEW out \in Seq(Byte)
  PROVE  InStep(Append(c, FrameCell(out)), chars, Append(evs, FrameEvent(out)), l, cr)
<1> DEFINE x == FrameCell(out)
           d == Append(c, x)
           i == Len(c) + 1
<1>1. x \in Cell /\ x.kind = "frame" /\ x.val = out /\ x # TextCell(CR)
  BY DEF FrameCell, TextCell, Cell
<1> HIDE DEF x
<1>2. d[i] = x /\ Result(d) = ReadCell(d, i, Result(c)) /\ (PendingCR(d) <=> PendingCR(c))
  BY <1>1, ReadNext
<1> HIDE DEF d, i
<1>3. /\ d[i].kind = "frame" /\ d[i].val = out
      /\ Result(d) = ReadCell(d, i, Got(chars, evs))
  BY <1>1, <1>2 DEF InStep
<1>4. Result(d) = Got(chars, Append(evs, FrameEvent(out)))
  <2>1. ReadCell(d, i, Got(chars, evs))
          = Got(chars, Append(evs, FrameEvent(d[i].val)))
    BY <1>3, ReadFrame, Zenon
  <2> QED
    BY <1>3, <2>1
<1>5. PendingCR(d) = PendingCR(c)
  BY <1>2, Zenon DEF PendingCR, AfterCR
<1> QED
  BY <1>4, <1>5, Zenon DEF InStep, d, x

LEMMA AfterLiteral ==
  ASSUME NEW c \in Seq(Cell), NEW chars \in Seq(Byte), NEW evs, NEW l, NEW cr,
         InStep(c, chars, evs, l, cr), NEW out \in Seq(Byte)
  PROVE  InStep(Append(c, LiteralCell(out)), chars \o out, evs, Appended(l, out), cr)
<1> DEFINE x == LiteralCell(out)
           d == Append(c, x)
           i == Len(c) + 1
<1>1. /\ x \in Cell /\ x.kind = "literal" /\ x.val = out
      /\ x # TextCell(CR) /\ x # TextCell(LF)
  BY DEF LiteralCell, TextCell, Cell
<1> HIDE DEF x
<1>2. /\ d[i] = x /\ Result(d) = ReadCell(d, i, Result(c)) /\ (PendingCR(d) <=> PendingCR(c))
      /\ ~EndsLine(d, i)
  BY <1>1, ReadNext
<1> HIDE DEF d, i
<1>3. /\ IsChars(d[i]) /\ d[i].kind # "frame" /\ d[i].val = out
      /\ Result(d) = ReadCell(d, i, Got(chars, evs))
  BY <1>1, <1>2 DEF IsChars, InStep
<1>4. Result(d) = Got(chars \o out, evs)
  <2>1. ReadCell(d, i, Got(chars, evs))
          = Got(chars \o d[i].val, evs)
    BY <1>2, <1>3, ReadChars
  <2> QED
    BY <1>3, <2>1
<1>5. PendingCR(d) = PendingCR(c)
  BY <1>2, Zenon DEF PendingCR, AfterCR
<1>6. Appended(l, out) = Cut(chars \o out)
  BY CutAppended DEF InStep
<1> QED
  BY <1>4, <1>5, <1>6, Zenon DEF InStep, d, x

\* and a byte of text, fed to a demultiplexer in step with the cells c.
LEMMA AfterText ==
  ASSUME NEW c \in Seq(Cell), NEW chars \in Seq(Byte), NEW l,
         InStep(c, chars, events, l, pending_cr),
         NEW b \in Byte, TextCR(b, l) \/ TextLF(b, l) \/ TextByte(b, l),
         events' = IF event'.kind = "none" THEN events ELSE Append(events, event')
  PROVE  \E more \in Seq(Byte) :
           InStep(Append(c, TextCell(b)), more, events', line', pending_cr')
<1> DEFINE x == TextCell(b)
           d == Append(c, x)
           i == Len(c) + 1
<1>1. /\ x \in Cell /\ x.kind = "text" /\ x.val = <<b>>
      /\ (x = TextCell(CR) <=> b = CR) /\ (x = TextCell(LF) <=> b = LF)
  BY DEF TextCell, Cell
<1> HIDE DEF x
<1>2. /\ d[i] = x /\ Result(d) = ReadCell(d, i, Result(c))
      /\ (PendingCR(d) <=> b = CR)
      /\ (EndsLine(d, i) <=> b = CR \/ (b = LF /\ ~PendingCR(c)))
  BY <1>1, ReadNext
<1> HIDE DEF d, i
<1>3. /\ d[i].kind # "frame" /\ d[i].val = <<b>>
      /\ IsChars(d[i]) <=> b \notin {CR, LF}
  BY <1>1, <1>2 DEF IsChars
<1>4. /\ Result(c) = Got(chars, events)
      /\ pending_cr = PendingCR(c) /\ l = Cut(chars)
  BY DEF InStep
<1>5. PendingCR(d) = (b = CR)
  BY <1>2, Zenon DEF PendingCR, AfterCR
<1>6. CASE EndsLine(d, i) /\ event' = LineEvent(l) /\ line' = EmptyLine
  <2>1. ReadCell(d, i, Result(c)) = Got(<< >>, Append(events, RefLine(chars)))
    <3>1. ReadCell(d, i, Got(chars, events))
            = Got(<< >>, Append(events, RefLine(chars)))
      BY <1>3, <1>6, ReadLineEnd
    <3> QED
      BY <1>4, <3>1
  <2>2. RefLine(chars) = LineEvent(l) /\ LineEvent(l).kind = "text_line"
    BY <1>4, CutLine DEF LineEvent
  <2>3. Result(d) = Got(<< >>, events')
    BY <1>2, <1>4, <1>6, <2>1, <2>2
  <2>4. line' = Cut(<< >>)
    BY <1>6, CutEmpty
  <2>5. pending_cr' = (b = CR)
    <3>1. CR # LF
      BY DemuxAssumption
    <3> QED
      BY <1>2, <1>6, <3>1, Zenon DEF TextCR, TextLF, TextByte
  <2>6. InStep(d, << >>, events', line', pending_cr')
    BY <1>5, <2>3, <2>4, <2>5, Zenon DEF InStep
  <2>7. << >> \in Seq(Byte)
    OBVIOUS
  <2> QED
    BY <2>6, <2>7, Zenon DEF d, x
<1>7. CASE ~EndsLine(d, i) /\ b = LF
  <2>1. pending_cr /\ b # CR
    BY <1>2, <1>4, <1>7, Zenon
  <2>2. event' = NoEvent /\ line' = l /\ pending_cr' = FALSE
    BY <1>7, <2>1, Zenon DEF TextCR, TextLF, TextByte
  <2>3. ReadCell(d, i, Result(c)) = Result(c)
    BY <1>3, <1>7, Zenon DEF ReadCell
  <2>4. events' = events
    BY <2>2 DEF NoEvent
  <2>5. pending_cr' = PendingCR(d)
    BY <1>5, <2>1, <2>2, Zenon
  <2>6. InStep(d, chars, events', line', pending_cr')
    BY <1>2, <1>4, <2>2, <2>3, <2>4, <2>5, Zenon DEF InStep
  <2> QED
    BY <2>6, Zenon DEF d, x
<1>8. CASE ~EndsLine(d, i) /\ b \notin {CR, LF}
  <2>1. line' = Appended(l, <<b>>) /\ event' = NoEvent /\ pending_cr' = FALSE
    BY <1>8, Zenon DEF TextCR, TextLF, TextByte
  <2>2. ReadCell(d, i, Result(c)) = Got(chars \o <<b>>, events)
    <3>1. ReadCell(d, i, Got(chars, events))
            = Got(chars \o d[i].val, events)
      BY <1>3, <1>8, ReadChars
    <3> QED
      BY <1>3, <1>4, <3>1
  <2>3. events' = events
    BY <2>1 DEF NoEvent
  <2>4. <<b>> \in Seq(Byte) /\ chars \o <<b>> \in Seq(Byte)
    OBVIOUS
  <2>5. Result(d) = Got(chars \o <<b>>, events')
    BY <1>2, <1>4, <2>2, <2>3
  <2>6. line' = Cut(chars \o <<b>>)
    BY <1>4, <2>1, <2>4, CutAppended
  <2>7. pending_cr' = PendingCR(d)
    BY <1>5, <1>8, <2>1, Zenon
  <2>8. InStep(d, chars \o <<b>>, events', line', pending_cr')
    BY <2>5, <2>6, <2>7, Zenon DEF InStep
  <2> QED
    BY <2>4, <2>8, Zenon DEF d, x
<1>9. EndsLine(d, i) => event' = LineEvent(l) /\ line' = EmptyLine
  <2>1. CASE b = CR
    <3>1. CR # LF
      BY DemuxAssumption
    <3> QED
      BY <2>1, <3>1, Zenon DEF TextCR, TextLF, TextByte, EmitLine
  <2>2. CASE b = LF /\ ~PendingCR(c)
    <3>1. CR # LF /\ ~pending_cr
      BY <1>4, <2>2, DemuxAssumption
    <3> QED
      BY <2>2, <3>1, Zenon DEF TextCR, TextLF, TextByte, EmitLine
  <2> QED
    BY <1>2, <2>1, <2>2
<1> QED
  BY <1>2, <1>6, <1>7, <1>8, <1>9

-----------------------------------------------------------------------------
(* Blocks of the stream, whatever follows it.                               *)

\* Stream t is s with more bytes behind it.
Begins(s, t) == Len(s) <= Len(t) /\ \A i \in 1 .. Len(s) : t[i] = s[i]

\* Bytes p + 1 .. n of s are one block so far: there is no delimiter in them.
NoDelimiter(s, p, n) == \A i \in p + 1 .. n : s[i] # NUL

LEMMA SameBlock ==
  ASSUME NEW s \in Seq(Byte), NEW t \in Seq(Byte), Begins(s, t),
         NEW p \in 0 .. Len(s), NEW n \in p .. Len(s)
  PROVE  /\ SubSeq(t, p + 1, n) = SubSeq(s, p + 1, n)
         /\ NoDelimiter(s, p, n) => NoDelimiter(t, p, n)
<1>1. /\ Len(s) <= Len(t) /\ \A i \in 1 .. Len(s) : t[i] = s[i]
      /\ p \in 0 .. Len(t) /\ n \in p .. Len(t)
  BY DEF Begins
<1> DEFINE a == SubSeq(s, p + 1, n)
           b == SubSeq(t, p + 1, n)
<1>2. a \in Seq(Byte) /\ Len(a) = n - p /\ \A i \in 1 .. n - p : a[i] = s[p + i]
  BY Blocks
<1>3. b \in Seq(Byte) /\ Len(b) = n - p /\ \A i \in 1 .. n - p : b[i] = t[p + i]
  BY <1>1, Blocks
<1> HIDE DEF a, b
<1>4. \A i \in 1 .. n - p : p + i \in 1 .. Len(s)
  OBVIOUS
<1>5. \A i \in 1 .. Len(a) : a[i] = b[i]
  BY <1>1, <1>2, <1>3, <1>4
<1>6. a = b
  BY <1>2, <1>3, <1>5, SeqEqual
<1>7. NoDelimiter(s, p, n) => NoDelimiter(t, p, n)
  BY <1>1 DEF NoDelimiter
<1> QED
  BY <1>6, <1>7 DEF a, b

LEMMA BeginsAppend ==
  ASSUME NEW s \in Seq(Byte), NEW b \in Byte, NEW t \in Seq(Byte), Begins(Append(s, b), t)
  PROVE  /\ Begins(s, t)
         /\ Len(s) < Len(t) /\ t[Len(s) + 1] = b
<1> DEFINE u == Append(s, b)
<1>1. /\ u \in Seq(Byte) /\ Len(u) = Len(s) + 1 /\ u[Len(s) + 1] = b
      /\ \A i \in 1 .. Len(s) : u[i] = s[i]
  OBVIOUS
<1> HIDE DEF u
<1>2. Len(u) <= Len(t) /\ \A i \in 1 .. Len(u) : t[i] = u[i]
  BY DEF Begins, u
<1>3. Len(s) + 1 \in 1 .. Len(u) /\ \A i \in 1 .. Len(s) : i \in 1 .. Len(u)
  BY <1>1
<1> QED
  BY <1>1, <1>2, <1>3 DEF Begins

\* The cells of a block of text.
LEMMA TextBlock ==
  ASSUME NEW s \in Seq(Byte), NEW p \in 0 .. Len(s), NEW n \in p .. Len(s), NoDelimiter(s, p, n)
  PROVE  /\ n = Len(s) => RefCells(s)[p]["text"] = TextCells(SubSeq(s, p + 1, n))
         /\ n < Len(s) /\ s[n + 1] = NUL
              => RefCells(s)[p]["text"] = TextCells(SubSeq(s, p + 1, n)) \o RefCells(s)[n + 1]["frame"]
<1> SUFFICES ASSUME n = Len(s) \/ s[n + 1] = NUL PROVE
         /\ n = Len(s) => RefCells(s)[p]["text"] = TextCells(SubSeq(s, p + 1, n))
         /\ n < Len(s) /\ s[n + 1] = NUL
              => RefCells(s)[p]["text"] = TextCells(SubSeq(s, p + 1, n)) \o RefCells(s)[n + 1]["frame"]
  OBVIOUS
<1>1. BlockEnd(s, p) = n + 1
  BY BlockEndAt DEF NoDelimiter
<1>2. (n + 1) - 1 = n
  OBVIOUS
<1>3. RefCells(s)[p]["text"] = CellsFrom(s, p, "text", RefCells(s))
  BY CellsUnfold DEF Modes
<1>4. CellsFrom(s, p, "text", RefCells(s))
        = TextCells(SubSeq(s, p + 1, n))
            \o (IF n + 1 > Len(s) THEN << >> ELSE RefCells(s)[n + 1]["frame"])
  BY <1>1, <1>2 DEF CellsFrom
<1>5. TextCells(SubSeq(s, p + 1, n)) \in Seq(Cell)
  BY Blocks, TextCellsType
<1>6. n = Len(s) => n + 1 > Len(s)
  OBVIOUS
<1>7. n < Len(s) => ~(n + 1 > Len(s))
  OBVIOUS
<1>8. \A x \in Seq(Cell) : x \o << >> = x
  OBVIOUS
<1> QED
  BY <1>3, <1>4, <1>5, <1>6, <1>7, <1>8

\* A block that fits the collector and is still open has no cells.
LEMMA OpenBlock ==
  ASSUME NEW s \in Seq(Byte), NEW p \in 0 .. Len(s), NoDelimiter(s, p, Len(s)), Len(s) - p <= FrameMax
  PROVE  RefCells(s)[p]["frame"] = << >>
<1> DEFINE n == Len(s)
           block == SubSeq(s, p + 1, n)
<1>1. n \in p .. Len(s) /\ (n + 1) - 1 = n /\ n + 1 > Len(s)
  OBVIOUS
<1>2. BlockEnd(s, p) = n + 1
  BY <1>1, BlockEndAt DEF NoDelimiter
<1>3. RefCells(s)[p]["frame"] = CellsFrom(s, p, "frame", RefCells(s))
  BY CellsUnfold DEF Modes
<1>4. Len(block) <= FrameMax /\ ~(Len(block) > FrameMax)
  BY <1>1, Blocks, DemuxAssumption
<1> HIDE DEF n
<1> QED
  BY <1>1, <1>2, <1>3, <1>4, Zenon DEF CellsFrom, block

\* The cells of a block that fits the collector, once its delimiter has come.
LEMMA FrameBlock ==
  ASSUME NEW s \in Seq(Byte), NEW p \in 0 .. Len(s), NEW n \in p .. Len(s), NoDelimiter(s, p, n),
         n - p <= FrameMax, n < Len(s), s[n + 1] = NUL
  PROVE  LET block == SubSeq(s, p + 1, n)
         IN  RefCells(s)[p]["frame"]
               = IF block = << >> THEN RefCells(s)[n + 1]["frame"]
                 ELSE IF Validate(block).outcome = "ready"
                      THEN <<FrameCell(Validate(block).out)>> \o RefCells(s)[n + 1]["text"]
                 ELSE <<LiteralCell(Validate(block).out)>> \o RefCells(s)[n + 1]["frame"]
<1> DEFINE block == SubSeq(s, p + 1, n)
<1>1. BlockEnd(s, p) = n + 1 /\ (n + 1) - 1 = n /\ ~(n + 1 > Len(s))
  BY BlockEndAt DEF NoDelimiter
<1>2. RefCells(s)[p]["frame"] = CellsFrom(s, p, "frame", RefCells(s))
  BY CellsUnfold DEF Modes
<1>3. Len(block) <= FrameMax /\ ~(Len(block) > FrameMax)
  BY Blocks, DemuxAssumption
<1>4. CellsFrom(s, p, "frame", RefCells(s))
        = IF block = << >> THEN RefCells(s)[n + 1]["frame"]
          ELSE IF Validate(block).outcome = "ready"
               THEN <<FrameCell(Validate(block).out)>> \o RefCells(s)[n + 1]["text"]
          ELSE <<LiteralCell(Validate(block).out)>> \o RefCells(s)[n + 1]["frame"]
  BY <1>1, <1>3, Zenon DEF CellsFrom
<1> QED
  BY <1>2, <1>4, Zenon

\* The cells of a block that does not.
LEMMA LongBlock ==
  ASSUME NEW s \in Seq(Byte), NEW p \in 0 .. Len(s), p + FrameMax < Len(s),
         NoDelimiter(s, p, p + FrameMax + 1)
  PROVE  RefCells(s)[p]["frame"]
           = <<LiteralCell(SubSeq(s, p + 1, p + FrameMax))>> \o RefCells(s)[p + FrameMax]["text"]
<1> DEFINE end == BlockEnd(s, p)
           block == SubSeq(s, p + 1, end - 1)
           head == SubSeq(s, p + 1, p + FrameMax)
           first == SubSeq(block, 1, FrameMax)
<1>1. /\ FrameMax \in Nat \ {0} /\ p + FrameMax \in p .. Len(s) /\ p + FrameMax + 1 \in p .. Len(s)
      /\ p + FrameMax \in 0 .. Len(s)
  BY DemuxAssumption
<1>2. end \in p + 1 .. Len(s) + 1 /\ (end <= Len(s) => s[end] = NUL)
  BY BlockEnds
<1>3. end > p + FrameMax + 1
  BY <1>1, <1>2 DEF NoDelimiter
<1>4. end - 1 \in p .. Len(s) /\ end - 1 - p >= FrameMax + 1
  BY <1>1, <1>2, <1>3
<1>5. block \in Seq(Byte) /\ Len(block) = end - 1 - p /\ \A i \in 1 .. end - 1 - p : block[i] = s[p + i]
  BY <1>4, Blocks
<1>6. head \in Seq(Byte) /\ Len(head) = FrameMax /\ \A i \in 1 .. FrameMax : head[i] = s[p + i]
  <2>1. (p + FrameMax) - p = FrameMax
    BY <1>1
  <2> QED
    BY <1>1, <2>1, Blocks
<1> HIDE DEF end, block, head
<1>7. Len(block) >= FrameMax + 1 /\ Len(block) \in Nat
  BY <1>4, <1>5
<1>8. first \in Seq(Byte) /\ Len(first) = FrameMax /\ \A i \in 1 .. FrameMax : first[i] = block[i]
  BY <1>1, <1>5, <1>7
<1>9. first = head
  <2> HIDE DEF first
  <2>1. \A i \in 1 .. FrameMax : i \in 1 .. end - 1 - p
    BY <1>1, <1>2, <1>4
  <2>2. \A i \in 1 .. FrameMax : first[i] = head[i]
    BY <1>5, <1>6, <1>8, <2>1
  <2> QED
    BY <1>6, <1>8, <2>2, SeqEqual
<1>10. RefCells(s)[p]["frame"] = CellsFrom(s, p, "frame", RefCells(s))
  BY CellsUnfold DEF Modes
<1>11. Len(block) > FrameMax /\ ~(Len(block) <= FrameMax)
  BY <1>1, <1>7
<1>12. CellsFrom(s, p, "frame", RefCells(s))
         = <<LiteralCell(first)>> \o RefCells(s)[p + FrameMax]["text"]
  BY <1>11, Zenon DEF CellsFrom, end, block
<1> QED
  BY <1>9, <1>10, <1>12 DEF head

-----------------------------------------------------------------------------
(* The demultiplexer follows the reference.                                 *)

\* The cells of the stream so far, when those before position q are `done` and
\* the block after it is still open.
Consumed(q, done) ==
  IF state = "text" THEN done \o TextCells(SubSeq(stream, q + 1, Len(stream))) ELSE done

\* The open block begins after position q, in the mode that `state` names, the
\* cells before it are `done` whatever bytes follow, and the line and the events
\* are those of the cells read so far.
Standing(q, done, chars) ==
  /\ NoDelimiter(stream, q, Len(stream))
  /\ \A s \in Seq(Byte) :
       Begins(stream, s) => RefCells(s)[0]["text"] = done \o RefCells(s)[q][state]
  /\ state = "frame" => frame_buf = SubSeq(stream, q + 1, Len(stream))
  /\ InStep(Consumed(q, done), chars, events, line, pending_cr)

Follows ==
  \E q \in 0 .. Len(stream), done \in Seq(Cell), chars \in Seq(Byte) : Standing(q, done, chars)

LEMMA StandsNext ==
  ASSUME NEW q \in 0 .. Len(stream'), NEW done \in Seq(Cell), NEW chars \in Seq(Byte), NEW c,
         NoDelimiter(stream', q, Len(stream')),
         \A s \in Seq(Byte) :
           Begins(stream', s) => RefCells(s)[0]["text"] = done \o RefCells(s)[q][state'],
         state' = "frame" => frame_buf' = SubSeq(stream', q + 1, Len(stream')),
         c = IF state' = "text" THEN done \o TextCells(SubSeq(stream', q + 1, Len(stream'))) ELSE done,
         InStep(c, chars, events', line', pending_cr')
  PROVE  Follows'
<1>1. Standing(q, done, chars)'
  BY DEF Standing, Consumed
<1> QED
  BY <1>1, Zenon DEF Follows

LEMMA ConcatAppend ==
  ASSUME NEW S, NEW s \in Seq(S), NEW t \in Seq(S), NEW x \in S
  PROVE  s \o Append(t, x) = Append(s \o t, x)
<1> DEFINE a == s \o Append(t, x)
           b == Append(s \o t, x)
           st == s \o t
           tx == Append(t, x)
<1>1. tx \in Seq(S) /\ Len(tx) = Len(t) + 1 /\ (\A i \in 1 .. Len(t) : tx[i] = t[i]) /\ tx[Len(t) + 1] = x
  OBVIOUS
<1>0. Len(s) \in Nat /\ Len(t) \in Nat
  OBVIOUS
<1>2. /\ st \in Seq(S) /\ Len(st) = Len(s) + Len(t)
      /\ \A i \in 1 .. Len(s) + Len(t) : st[i] = IF i <= Len(s) THEN s[i] ELSE t[i - Len(s)]
  BY ConcatProperties
<1> HIDE DEF tx, st
<1>3. /\ a \in Seq(S) /\ Len(a) = Len(s) + Len(t) + 1
      /\ \A i \in 1 .. Len(s) + Len(t) + 1 : a[i] = IF i <= Len(s) THEN s[i] ELSE tx[i - Len(s)]
  <2>1. a = s \o tx
    BY DEF tx
  <2>2. /\ a \in Seq(S) /\ Len(a) = Len(s) + Len(tx)
        /\ \A i \in 1 .. Len(s) + Len(tx) : a[i] = IF i <= Len(s) THEN s[i] ELSE tx[i - Len(s)]
    BY <1>1, <2>1, ConcatProperties
  <2>3. Len(s) + Len(tx) = Len(s) + Len(t) + 1
    BY <1>0, <1>1
  <2> QED
    BY <2>2, <2>3
<1>4. /\ b \in Seq(S) /\ Len(b) = Len(s) + Len(t) + 1
      /\ \A i \in 1 .. Len(s) + Len(t) : b[i] = st[i]
      /\ b[Len(s) + Len(t) + 1] = x
  BY <1>2 DEF st
<1> HIDE DEF a, b
<1>5. ASSUME NEW i \in 1 .. Len(s) + Len(t) + 1 PROVE a[i] = b[i]
  <2> DEFINE m == Len(s)
             n == Len(t)
             k == i - m
  <2>0. m \in Nat /\ n \in Nat /\ i \in 1 .. m + n + 1
    OBVIOUS
  <2> HIDE DEF m, n
  <2>1. CASE i <= m
    <3>1. i \in 1 .. m + n
      BY <2>0, <2>1
    <3>2. a[i] = s[i]
      BY <1>3, <2>0, <2>1 DEF m, n
    <3>3. b[i] = st[i] /\ st[i] = s[i]
      BY <1>2, <1>4, <2>1, <3>1 DEF m, n
    <3> QED
      BY <3>2, <3>3
  <2>2. CASE i > m /\ i <= m + n
    <3>1. i \in 1 .. m + n /\ k \in 1 .. n /\ ~(i <= m)
      BY <2>0, <2>2
    <3>2. a[i] = tx[k]
      BY <1>3, <2>0, <3>1 DEF m, n
    <3>3. b[i] = st[i] /\ st[i] = t[k]
      BY <1>2, <1>4, <3>1 DEF m, n
    <3>4. tx[k] = t[k]
      BY <1>1, <3>1 DEF n
    <3> QED
      BY <3>2, <3>3, <3>4
  <2>3. CASE i = m + n + 1
    <3>1. k = n + 1 /\ ~(i <= m)
      BY <2>0, <2>3
    <3>2. a[i] = tx[k]
      BY <1>3, <2>0, <3>1 DEF m, n
    <3>3. b[i] = x
      BY <1>4, <2>3 DEF m, n
    <3> QED
      BY <1>1, <3>1, <3>2, <3>3 DEF n
  <2> QED
    BY <2>0, <2>1, <2>2, <2>3
<1> QED
  BY <1>3, <1>4, <1>5, SeqEqual DEF a, b, st, tx

LEMMA TextCellsAppend ==
  ASSUME NEW block \in Seq(Byte), NEW b \in Byte
  PROVE  TextCells(Append(block, b)) = Append(TextCells(block), TextCell(b))
<1> DEFINE x == Append(block, b)
           u == TextCells(x)
           v == Append(TextCells(block), TextCell(b))
<1>1. x \in Seq(Byte) /\ Len(x) = Len(block) + 1 /\ (\A i \in 1 .. Len(block) : x[i] = block[i]) /\ x[Len(block) + 1] = b
  OBVIOUS
<1> HIDE DEF x
<1>2. u \in Seq(Cell) /\ Len(u) = Len(block) + 1 /\ \A i \in 1 .. Len(block) + 1 : u[i] = TextCell(x[i])
  BY <1>1, TextCellsType
<1>3. /\ TextCells(block) \in Seq(Cell) /\ Len(TextCells(block)) = Len(block)
      /\ \A i \in 1 .. Len(block) : TextCells(block)[i] = TextCell(block[i])
  BY TextCellsType
<1>4. TextCell(b) \in Cell
  BY DEF TextCell, Cell
<1>5. /\ v \in Seq(Cell) /\ Len(v) = Len(block) + 1 /\ v[Len(block) + 1] = TextCell(b)
      /\ \A i \in 1 .. Len(block) : v[i] = TextCells(block)[i]
  <2>1. \A w \in Seq(Cell), y \in Cell :
          /\ Append(w, y) \in Seq(Cell) /\ Len(Append(w, y)) = Len(w) + 1
          /\ Append(w, y)[Len(w) + 1] = y
          /\ \A i \in 1 .. Len(w) : Append(w, y)[i] = w[i]
    OBVIOUS
  <2> QED
    BY <1>3, <1>4, <2>1
<1> HIDE DEF u, v
<1>6. \A i \in 1 .. Len(block) + 1 : u[i] = v[i]
  <2> SUFFICES ASSUME NEW i \in 1 .. Len(block) + 1 PROVE u[i] = v[i]
    OBVIOUS
  <2>1. i \in 1 .. Len(block) \/ i = Len(block) + 1
    OBVIOUS
  <2> QED
    BY <1>1, <1>2, <1>3, <1>5, <2>1
<1> QED
  BY <1>2, <1>5, <1>6, SeqEqual DEF u, v, x

\* The cells read, when one byte of text more has come.
LEMMA ConsumedText ==
  ASSUME stream \in Seq(Byte), NEW q \in 0 .. Len(stream), NEW done \in Seq(Cell),
         NEW b \in Byte
  PROVE  done \o TextCells(SubSeq(Append(stream, b), q + 1, Len(Append(stream, b))))
           = Append(done \o TextCells(SubSeq(stream, q + 1, Len(stream))), TextCell(b))
<1> DEFINE block == SubSeq(stream, q + 1, Len(stream))
<1>1. Len(Append(stream, b)) = Len(stream) + 1
  OBVIOUS
<1>2. SubSeq(Append(stream, b), q + 1, Len(stream) + 1) = Append(block, b)
  BY SubSeqOfAppend
<1>3. block \in Seq(Byte)
  <2>1. Len(stream) \in q .. Len(stream)
    OBVIOUS
  <2> QED
    BY <2>1, Blocks
<1> HIDE DEF block
<1>4. TextCells(block) \in Seq(Cell) /\ TextCell(b) \in Cell
  <2>1. TextCell(b) \in Cell
    BY DEF TextCell, Cell
  <2> QED
    BY <1>3, <2>1, TextCellsType
<1>5. TextCells(Append(block, b)) = Append(TextCells(block), TextCell(b))
  BY <1>3, TextCellsAppend
<1>6. done \o Append(TextCells(block), TextCell(b)) = Append(done \o TextCells(block), TextCell(b))
  BY <1>4, ConcatAppend
<1> QED
  BY <1>1, <1>2, <1>5, <1>6 DEF block

LEMMA EmptyTextCells == TextCells(<< >>) = << >>
BY DEF TextCells

\* One more byte of text.
LEMMA TextFollows ==
  ASSUME stream \in Seq(Byte),
         NEW q \in 0 .. Len(stream), NEW done \in Seq(Cell), NEW chars \in Seq(Byte),
         Standing(q, done, chars), state = "text",
         NEW b \in Byte, TextCR(b, line) \/ TextLF(b, line) \/ TextByte(b, line),
         stream' = Append(stream, b),
         events' = IF event'.kind = "none" THEN events ELSE Append(events, event')
  PROVE  Follows'
<1> DEFINE n == Len(stream)
           c == done \o TextCells(SubSeq(stream, q + 1, n))
<1>1. /\ stream' \in Seq(Byte) /\ Len(stream') = n + 1 /\ stream'[n + 1] = b
      /\ \A i \in 1 .. n : stream'[i] = stream[i]
      /\ n \in Nat /\ n \in q .. n /\ q \in 0 .. Len(stream')
  OBVIOUS
<1>2. state' = "text" /\ b # NUL
  BY DemuxAssumption, Zenon DEF TextCR, TextLF, TextByte
<1>3. c \in Seq(Cell)
  <2>1. TextCells(SubSeq(stream, q + 1, n)) \in Seq(Cell)
    BY <1>1, Blocks, TextCellsType
  <2> QED
    BY <2>1
<1>4. InStep(c, chars, events, line, pending_cr)
  BY DEF Standing, Consumed
<1> DEFINE d == done \o TextCells(SubSeq(stream', q + 1, Len(stream')))
<1>5. d = Append(c, TextCell(b))
  BY ConsumedText
<1> HIDE DEF c, d, n
<1>6. PICK more \in Seq(Byte) : InStep(d, more, events', line', pending_cr')
  BY <1>3, <1>4, <1>5, AfterText
<1>7. NoDelimiter(stream', q, Len(stream'))
  <2>1. NoDelimiter(stream, q, n)
    BY DEF Standing, n
  <2> QED
    BY <1>1, <1>2, <2>1 DEF NoDelimiter
<1>8. ASSUME NEW s \in Seq(Byte), Begins(stream', s)
      PROVE  RefCells(s)[0]["text"] = done \o RefCells(s)[q][state']
  <2>1. Begins(stream, s)
    BY <1>8, BeginsAppend
  <2> QED
    BY <1>2, <2>1 DEF Standing
<1>9. d = IF state' = "text" THEN done \o TextCells(SubSeq(stream', q + 1, Len(stream'))) ELSE done
  BY <1>2 DEF d
<1>10. state' = "frame" => frame_buf' = SubSeq(stream', q + 1, Len(stream'))
  BY <1>2
<1> QED
  BY <1>1, <1>6, <1>7, <1>8, <1>9, <1>10, StandsNext

\* A delimiter ends the block: what is left to show is what the block was.
LEMMA DelimiterFollows ==
  ASSUME stream \in Seq(Byte), NEW done \in Seq(Cell), NEW chars \in Seq(Byte),
         stream' = Append(stream, NUL), state' \in {"text", "frame"},
         state' = "frame" => frame_buf' = << >>,
         \A s \in Seq(Byte) :
           Begins(stream', s) => RefCells(s)[0]["text"] = done \o RefCells(s)[Len(stream) + 1][state'],
         InStep(done, chars, events', line', pending_cr')
  PROVE  Follows'
<1> DEFINE n == Len(stream)
<1>1. NUL \in Byte
  BY DemuxAssumption
<1>2. stream' \in Seq(Byte) /\ Len(stream') = n + 1 /\ n \in Nat /\ n + 1 \in 0 .. Len(stream')
  BY <1>1
<1>3. SubSeq(stream', (n + 1) + 1, Len(stream')) = << >>
  BY <1>2
<1> HIDE DEF n
<1>4. NoDelimiter(stream', n + 1, Len(stream'))
  BY <1>2 DEF NoDelimiter
<1>5. done = IF state' = "text" THEN done \o TextCells(SubSeq(stream', (n + 1) + 1, Len(stream'))) ELSE done
  <2>1. done \o << >> = done
    OBVIOUS
  <2> QED
    BY <1>3, <2>1, EmptyTextCells
<1>6. state' = "frame" => frame_buf' = SubSeq(stream', (n + 1) + 1, Len(stream'))
  BY <1>3
<1>7. \A s \in Seq(Byte) :
        Begins(stream', s) => RefCells(s)[0]["text"] = done \o RefCells(s)[n + 1][state']
  BY DEF n
<1> QED
  BY <1>2, <1>4, <1>5, <1>6, <1>7, StandsNext

LEMMA CellsAssociate ==
  ASSUME NEW c \in Seq(Cell), NEW x \in Seq(Cell), NEW r \in Seq(Cell)
  PROVE  c \o (x \o r) = (c \o x) \o r
BY ConcatAssociative

\* Prefixing a cell.
LEMMA OneCell ==
  ASSUME NEW c \in Seq(Cell), NEW x \in Cell, NEW r \in Seq(Cell)
  PROVE  c \o (<<x>> \o r) = Append(c, x) \o r
<1>1. <<x>> \in Seq(Cell) /\ c \o <<x>> = Append(c, x)
  OBVIOUS
<1>2. c \o (<<x>> \o r) = (c \o <<x>>) \o r
  BY <1>1, CellsAssociate
<1> QED
  BY <1>1, <1>2

LEMMA CellsType ==
  ASSUME NEW s \in Seq(Byte), NEW p \in 0 .. Len(s), NEW mode \in {"text", "frame"}
  PROVE  RefCells(s)[p][mode] \in Seq(Cell)
BY CellsUnfold DEF Modes

LEMMA PayloadCells ==
  ASSUME NEW out \in Seq(Byte)
  PROVE  FrameCell(out) \in Cell /\ LiteralCell(out) \in Cell
BY DEF FrameCell, LiteralCell, Cell

LEMMA FeedTextFollows ==
  ASSUME stream \in Seq(Byte),
         NEW q \in 0 .. Len(stream), NEW done \in Seq(Cell), NEW chars \in Seq(Byte),
         Standing(q, done, chars), NEW b \in Byte, FeedText(b),
         stream' = Append(stream, b),
         events' = IF event'.kind = "none" THEN events ELSE Append(events, event')
  PROVE  Follows'
<1>1. state = "text"
  BY DEF FeedText
<1>2. CASE TextCR(b, line) \/ TextLF(b, line) \/ TextByte(b, line)
  BY <1>1, <1>2, TextFollows
<1>3. CASE TextOpen(b, line)
  <2> DEFINE n == Len(stream)
             c == done \o TextCells(SubSeq(stream, q + 1, n))
  <2>1. /\ b = NUL /\ state' = "frame" /\ frame_buf' = << >> /\ event' = NoEvent
        /\ line' = line /\ pending_cr' = pending_cr
    BY <1>3, Zenon DEF TextOpen
  <2>2. events' = events
    BY <2>1 DEF NoEvent
  <2>3. n \in Nat /\ n \in q .. n /\ NoDelimiter(stream, q, n)
    BY DEF Standing
  <2>4. TextCells(SubSeq(stream, q + 1, n)) \in Seq(Cell)
    BY <2>3, Blocks, TextCellsType
  <2>5. c \in Seq(Cell)
    BY <2>4
  <2>6. InStep(c, chars, events', line', pending_cr')
    BY <1>1, <2>1, <2>2 DEF Standing, Consumed
  <2>7. ASSUME NEW s \in Seq(Byte), Begins(stream', s)
        PROVE  RefCells(s)[0]["text"] = c \o RefCells(s)[n + 1]["frame"]
    <3>1. Begins(stream, s) /\ n < Len(s) /\ s[n + 1] = NUL
      BY <2>1, <2>7, BeginsAppend
    <3>2. RefCells(s)[0]["text"] = done \o RefCells(s)[q]["text"]
      BY <1>1, <3>1 DEF Standing
    <3>3. /\ SubSeq(s, q + 1, n) = SubSeq(stream, q + 1, n) /\ NoDelimiter(s, q, n)
      BY <2>3, <3>1, SameBlock
    <3>4. q \in 0 .. Len(s) /\ n \in q .. Len(s) /\ n + 1 \in 0 .. Len(s)
      BY <2>3, <3>1
    <3>5. RefCells(s)[q]["text"] = TextCells(SubSeq(stream, q + 1, n)) \o RefCells(s)[n + 1]["frame"]
      <4> HIDE DEF n
      <4>1. RefCells(s)[q]["text"] = TextCells(SubSeq(s, q + 1, n)) \o RefCells(s)[n + 1]["frame"]
        BY <3>1, <3>3, <3>4, TextBlock
      <4> QED
        BY <3>3, <4>1
    <3>6. RefCells(s)[n + 1]["frame"] \in Seq(Cell)
      BY <3>4, CellsType
    <3> HIDE DEF n
    <3>7. c \o RefCells(s)[n + 1]["frame"]
            = done \o (TextCells(SubSeq(stream, q + 1, n)) \o RefCells(s)[n + 1]["frame"])
      BY <2>4, <3>6, CellsAssociate
    <3> HIDE DEF c
    <3> QED
      BY <3>2, <3>5, <3>7
  <2> HIDE DEF c
  <2> QED
    BY <2>1, <2>5, <2>6, <2>7, DelimiterFollows
<1> QED
  BY <1>2, <1>3 DEF FeedText

LEMMA FeedFrameFollows ==
  ASSUME TypeOK, stream \in Seq(Byte),
         NEW q \in 0 .. Len(stream), NEW done \in Seq(Cell), NEW chars \in Seq(Byte),
         Standing(q, done, chars), NEW b \in Byte, FeedFrame(b),
         stream' = Append(stream, b),
         events' = IF event'.kind = "none" THEN events ELSE Append(events, event')
  PROVE  Follows'
<1> DEFINE n == Len(stream)
           block == SubSeq(stream, q + 1, n)
           v == Validate(block)
<1>1. state = "frame" /\ frame_buf = block /\ Len(block) <= FrameMax /\ block \in Seq(Body)
  BY DEF FeedFrame, Standing, TypeOK
<1>2. n \in Nat /\ n \in q .. n /\ NoDelimiter(stream, q, n)
  BY DEF Standing
<1>3. block \in Seq(Byte) /\ Len(block) = n - q
  BY <1>2, Blocks
<1>4. n - q <= FrameMax
  BY <1>1, <1>3
<1>5. InStep(done, chars, events, line, pending_cr)
  BY <1>1 DEF Standing, Consumed
<1>6. ASSUME NEW s \in Seq(Byte), Begins(stream', s)
      PROVE  /\ Begins(stream, s) /\ n < Len(s) /\ s[n + 1] = b
             /\ RefCells(s)[0]["text"] = done \o RefCells(s)[q]["frame"]
             /\ block = SubSeq(s, q + 1, n) /\ NoDelimiter(s, q, n)
             /\ q \in 0 .. Len(s) /\ n \in q .. Len(s) /\ n + 1 \in 0 .. Len(s)
  <2>1. Begins(stream, s) /\ n < Len(s) /\ s[n + 1] = b
    BY <1>6, BeginsAppend
  <2>2. RefCells(s)[0]["text"] = done \o RefCells(s)[q]["frame"]
    BY <1>1, <2>1 DEF Standing
  <2>3. SubSeq(s, q + 1, n) = SubSeq(stream, q + 1, n) /\ NoDelimiter(s, q, n)
    BY <1>2, <2>1, SameBlock
  <2>4. q \in 0 .. Len(s) /\ n \in q .. Len(s) /\ n + 1 \in 0 .. Len(s)
    BY <1>2, <2>1
  <2> QED
    BY <2>1, <2>2, <2>3, <2>4
<1> DEFINE Delimited(s) ==
             RefCells(s)[q]["frame"]
               = IF block = << >> THEN RefCells(s)[n + 1]["frame"]
                 ELSE IF v.outcome = "ready"
                      THEN <<FrameCell(v.out)>> \o RefCells(s)[n + 1]["text"]
                 ELSE <<LiteralCell(v.out)>> \o RefCells(s)[n + 1]["frame"]
<1>7. ASSUME b = NUL, NEW s \in Seq(Byte), Begins(stream', s) PROVE Delimited(s)
  <2> HIDE DEF n, block
  <2>1. /\ n < Len(s) /\ s[n + 1] = NUL /\ block = SubSeq(s, q + 1, n) /\ NoDelimiter(s, q, n)
        /\ q \in 0 .. Len(s) /\ n \in q .. Len(s)
    BY <1>6, <1>7
  <2>2. LET x == SubSeq(s, q + 1, n)
        IN  RefCells(s)[q]["frame"]
              = IF x = << >> THEN RefCells(s)[n + 1]["frame"]
                ELSE IF Validate(x).outcome = "ready"
                     THEN <<FrameCell(Validate(x).out)>> \o RefCells(s)[n + 1]["text"]
                ELSE <<LiteralCell(Validate(x).out)>> \o RefCells(s)[n + 1]["frame"]
    BY <1>4, <2>1, FrameBlock
  <2> QED
    BY <2>1, <2>2
<1>8. block # << >> => v.out \in Seq(Byte)
  BY <1>1, ValidateType
<1>9. ASSUME NEW s \in Seq(Byte), Begins(stream', s), NEW mode \in {"text", "frame"}
      PROVE  RefCells(s)[n + 1][mode] \in Seq(Cell)
  BY <1>6, <1>9, CellsType
<1> HIDE DEF n, block, v, Delimited
<1>10. CASE FrameCollect(b)
  <2>1. /\ b # NUL /\ frame_buf' = Append(frame_buf, b) /\ event' = NoEvent
        /\ state' = "frame" /\ line' = line /\ pending_cr' = pending_cr
    BY <1>1, <1>10, Zenon DEF FrameCollect
  <2>2. events' = events
    BY <2>1 DEF NoEvent
  <2>3. /\ Len(stream') = n + 1 /\ stream'[n + 1] = b /\ \A i \in 1 .. n : stream'[i] = stream[i]
        /\ q \in 0 .. Len(stream')
    BY DEF n
  <2>4. NoDelimiter(stream', q, Len(stream'))
    BY <1>2, <2>1, <2>3 DEF NoDelimiter
  <2>5. frame_buf' = SubSeq(stream', q + 1, Len(stream'))
    <3>1. SubSeq(stream', q + 1, n + 1) = Append(block, b)
      BY SubSeqOfAppend DEF n, block
    <3> QED
      BY <1>1, <2>1, <2>3, <3>1
  <2>6. InStep(done, chars, events', line', pending_cr')
    BY <1>5, <2>1, <2>2
  <2>7. \A s \in Seq(Byte) :
          Begins(stream', s) => RefCells(s)[0]["text"] = done \o RefCells(s)[q][state']
    BY <1>6, <2>1
  <2>8. done = IF state' = "text" THEN done \o TextCells(SubSeq(stream', q + 1, Len(stream'))) ELSE done
    BY <2>1
  <2> QED
    BY <2>3, <2>4, <2>5, <2>6, <2>7, <2>8, StandsNext
<1>11. CASE FrameOverflow(b)
  <2> DEFINE l == Appended(line, block)
             d == Append(done, LiteralCell(block))
             e == Append(d, TextCell(b))
  <2>1. /\ b # NUL /\ Len(block) >= FrameMax /\ (TextCR(b, l) \/ TextLF(b, l) \/ TextByte(b, l))
    BY <1>1, <1>11, Zenon DEF FrameOverflow
  <2>2. n = q + FrameMax
    BY <1>1, <1>2, <1>3, <2>1, DemuxAssumption
  <2>3. LiteralCell(block) \in Cell /\ d \in Seq(Cell)
    BY <1>3, PayloadCells
  <2>4. InStep(d, chars \o block, events, l, pending_cr)
    BY <1>3, <1>5, AfterLiteral
  <2>5. chars \o block \in Seq(Byte)
    BY <1>3
  <2> HIDE DEF l, d
  <2>6. PICK more \in Seq(Byte) : InStep(e, more, events', line', pending_cr')
    BY <2>1, <2>3, <2>4, <2>5, AfterText
  <2>7. state' = "text"
    BY <2>1, Zenon DEF TextCR, TextLF, TextByte
  <2>8. /\ stream' \in Seq(Byte) /\ Len(stream') = n + 1 /\ stream'[n + 1] = b
        /\ \A i \in 1 .. n : stream'[i] = stream[i]
        /\ n \in 0 .. Len(stream')
    BY DEF n
  <2>9. NoDelimiter(stream', n, Len(stream'))
    BY <1>2, <2>1, <2>8 DEF NoDelimiter
  <2>10. e = IF state' = "text" THEN d \o TextCells(SubSeq(stream', n + 1, Len(stream'))) ELSE d
    <3>1. SubSeq(stream, n + 1, n) = << >> /\ n \in 0 .. n /\ d \o << >> = d
      BY <1>2, <2>3 DEF n
    <3>2. d \o TextCells(SubSeq(stream', n + 1, Len(stream')))
            = Append(d \o TextCells(SubSeq(stream, n + 1, n)), TextCell(b))
      BY <2>3, <3>1, ConsumedText DEF n
    <3> QED
      BY <2>7, <3>1, <3>2, EmptyTextCells
  <2>11. ASSUME NEW s \in Seq(Byte), Begins(stream', s)
         PROVE  RefCells(s)[0]["text"] = d \o RefCells(s)[n][state']
    <3>1. /\ n < Len(s) /\ s[n + 1] = b /\ NoDelimiter(s, q, n)
          /\ RefCells(s)[0]["text"] = done \o RefCells(s)[q]["frame"]
          /\ block = SubSeq(s, q + 1, n) /\ q \in 0 .. Len(s)
      BY <1>6, <2>11
    <3>2. q + FrameMax < Len(s) /\ NoDelimiter(s, q, q + FrameMax + 1)
      <4>1. \A i \in q + 1 .. n + 1 : i \in q + 1 .. n \/ i = n + 1
        BY <1>2
      <4> QED
        BY <2>1, <2>2, <3>1, <4>1 DEF NoDelimiter
    <3>3. RefCells(s)[q]["frame"] = <<LiteralCell(block)>> \o RefCells(s)[n]["text"]
      BY <2>2, <3>1, <3>2, LongBlock
    <3>4. RefCells(s)[n]["text"] \in Seq(Cell)
      <4>1. n \in 0 .. Len(s)
        BY <1>2, <3>1
      <4> QED
        BY <4>1, CellsType
    <3>5. done \o (<<LiteralCell(block)>> \o RefCells(s)[n]["text"]) = d \o RefCells(s)[n]["text"]
      BY <2>3, <3>4, OneCell DEF d
    <3> QED
      BY <2>7, <3>1, <3>3, <3>5
  <2>12. state' = "frame" => frame_buf' = SubSeq(stream', n + 1, Len(stream'))
    BY <2>7
  <2> HIDE DEF e
  <2> QED
    BY <2>3, <2>6, <2>8, <2>9, <2>10, <2>11, <2>12, StandsNext
<1>12. CASE FrameEmpty(b)
  <2>1. /\ b = NUL /\ block = << >> /\ event' = NoEvent /\ state' = "frame"
        /\ frame_buf' = << >> /\ line' = line /\ pending_cr' = pending_cr
    BY <1>1, <1>12, Zenon DEF FrameEmpty
  <2>2. events' = events
    BY <2>1 DEF NoEvent
  <2>3. InStep(done, chars, events', line', pending_cr')
    BY <1>5, <2>1, <2>2
  <2>4. \A s \in Seq(Byte) :
          Begins(stream', s) => RefCells(s)[0]["text"] = done \o RefCells(s)[n + 1][state']
    BY <1>6, <1>7, <2>1 DEF Delimited
  <2> QED
    BY <2>1, <2>3, <2>4, DelimiterFollows DEF n
<1>13. CASE FrameReady(b)
  <2> DEFINE d == Append(done, FrameCell(v.out))
  <2>1. /\ b = NUL /\ block # << >> /\ v.outcome = "ready" /\ event' = FrameEvent(v.out)
        /\ state' = "text" /\ line' = line /\ pending_cr' = pending_cr
    BY <1>1, <1>13, Zenon DEF FrameReady, v
  <2>2. events' = Append(events, FrameEvent(v.out))
    BY <2>1 DEF FrameEvent
  <2>3. v.out \in Seq(Byte) /\ FrameCell(v.out) \in Cell /\ d \in Seq(Cell)
    BY <1>8, <2>1, PayloadCells
  <2>4. InStep(d, chars, events', line', pending_cr')
    BY <1>5, <2>1, <2>2, <2>3, AfterFrame
  <2>5. ASSUME NEW s \in Seq(Byte), Begins(stream', s)
        PROVE  RefCells(s)[0]["text"] = d \o RefCells(s)[n + 1][state']
    <3>1. RefCells(s)[q]["frame"] = <<FrameCell(v.out)>> \o RefCells(s)[n + 1]["text"]
      BY <1>7, <2>1, <2>5 DEF Delimited
    <3>2. RefCells(s)[n + 1]["text"] \in Seq(Cell)
      BY <1>9, <2>5
    <3>3. done \o (<<FrameCell(v.out)>> \o RefCells(s)[n + 1]["text"]) = d \o RefCells(s)[n + 1]["text"]
      BY <2>3, <3>2, OneCell
    <3> QED
      BY <1>6, <2>1, <2>5, <3>1, <3>3
  <2> HIDE DEF d
  <2> QED
    BY <2>1, <2>3, <2>4, <2>5, DelimiterFollows DEF n
<1>14. CASE FrameReject(b)
  <2> DEFINE d == Append(done, LiteralCell(v.out))
  <2>1. /\ b = NUL /\ block # << >> /\ v.outcome # "ready" /\ event' = NoEvent
        /\ line' = Appended(line, v.out) /\ frame_buf' = << >>
        /\ state' = "frame" /\ pending_cr' = pending_cr
    BY <1>1, <1>14, Zenon DEF FrameReject, v
  <2>2. events' = events
    BY <2>1 DEF NoEvent
  <2>3. v.out \in Seq(Byte) /\ LiteralCell(v.out) \in Cell /\ d \in Seq(Cell)
    BY <1>8, <2>1, PayloadCells
  <2>4. InStep(d, chars \o v.out, events', line', pending_cr') /\ chars \o v.out \in Seq(Byte)
    BY <1>5, <2>1, <2>2, <2>3, AfterLiteral
  <2>5. ASSUME NEW s \in Seq(Byte), Begins(stream', s)
        PROVE  RefCells(s)[0]["text"] = d \o RefCells(s)[n + 1][state']
    <3>1. RefCells(s)[q]["frame"] = <<LiteralCell(v.out)>> \o RefCells(s)[n + 1]["frame"]
      BY <1>7, <2>1, <2>5 DEF Delimited
    <3>2. RefCells(s)[n + 1]["frame"] \in Seq(Cell)
      BY <1>9, <2>5
    <3>3. done \o (<<LiteralCell(v.out)>> \o RefCells(s)[n + 1]["frame"]) = d \o RefCells(s)[n + 1]["frame"]
      BY <2>3, <3>2, OneCell
    <3> QED
      BY <1>6, <2>1, <2>5, <3>1, <3>3
  <2> HIDE DEF d
  <2> QED
    BY <2>1, <2>3, <2>4, <2>5, DelimiterFollows DEF n
<1> QED
  BY <1>10, <1>11, <1>12, <1>13, <1>14 DEF FeedFrame

\* Before the first byte, and after a reset.
Fresh ==
  stream = << >> /\ events = << >> /\ state = "text" /\ line = EmptyLine /\ pending_cr = FALSE

LEMMA NothingFollows == Fresh => Follows
<1> SUFFICES ASSUME Fresh PROVE Follows
  OBVIOUS
<1> USE DEF Fresh
<1>1. /\ stream \in Seq(Byte) /\ Len(stream) = 0 /\ 0 \in 0 .. Len(stream)
      /\ SubSeq(stream, 0 + 1, Len(stream)) = << >>
      /\ << >> \in Seq(Cell) /\ << >> \in Seq(Byte)
  <2>1. stream = << >> /\ Len(stream) = 0 /\ stream \in Seq(Byte)
    OBVIOUS
  <2>2. SubSeq(stream, 0 + 1, Len(stream)) = << >>
    BY <2>1
  <2> QED
    BY <2>1, <2>2
<1>2. Consumed(0, << >>) = << >>
  <2>1. << >> \o << >> = << >>
    OBVIOUS
  <2> QED
    BY <1>1, <2>1, EmptyTextCells, Zenon DEF Consumed
<1>3. InStep(<< >>, << >>, events, line, pending_cr)
  <2>1. Result(<< >>) = Got(<< >>, << >>)
    <3>1. Len(<< >>) = 0
      OBVIOUS
    <3> QED
      BY <1>1, <3>1, ReadingUnfold DEF Result, NothingRead, Got
  <2>2. PendingCR(<< >>) = FALSE
    BY DEF PendingCR, AfterCR
  <2> QED
    BY <2>1, <2>2, CutEmpty DEF InStep
<1>4. NoDelimiter(stream, 0, Len(stream))
  BY <1>1 DEF NoDelimiter
<1>5. ASSUME NEW s \in Seq(Byte)
      PROVE  RefCells(s)[0]["text"] = << >> \o RefCells(s)[0][state]
  <2>1. RefCells(s)[0]["text"] \in Seq(Cell)
    BY CellsType
  <2> QED
    BY <2>1
<1>6. Standing(0, << >>, << >>)
  BY <1>2, <1>3, <1>4, <1>5 DEF Standing
<1> QED
  BY <1>1, <1>6 DEF Follows

\* The cells of the stream as it stands are those read so far.
LEMMA FollowsMatches ==
  ASSUME TypeOK, stream \in Seq(Byte), Follows
  PROVE  EventsMatchReference
<1>1. PICK q \in 0 .. Len(stream), done \in Seq(Cell), chars \in Seq(Byte) : Standing(q, done, chars)
  BY DEF Follows
<1> DEFINE n == Len(stream)
           cells == RefCells(stream)[0]["text"]
<1>2. Begins(stream, stream) /\ n \in q .. n
  BY DEF Begins
<1>3. cells = done \o RefCells(stream)[q][state] /\ NoDelimiter(stream, q, n)
  BY <1>1, <1>2 DEF Standing
<1>4. cells = Consumed(q, done)
  <2>1. CASE state = "text"
    <3>1. RefCells(stream)[q]["text"] = TextCells(SubSeq(stream, q + 1, n))
      BY <1>2, <1>3, TextBlock
    <3> QED
      BY <1>3, <2>1, <3>1 DEF Consumed
  <2>2. CASE state = "frame"
    <3>1. Len(SubSeq(stream, q + 1, n)) <= FrameMax /\ Len(SubSeq(stream, q + 1, n)) = n - q
      <4>1. Len(SubSeq(stream, q + 1, n)) <= FrameMax
        BY <1>1, <2>2 DEF Standing, TypeOK
      <4> QED
        BY <1>2, <4>1, Blocks
    <3>2. RefCells(stream)[q]["frame"] = << >>
      BY <1>2, <1>3, <3>1, OpenBlock
    <3> QED
      BY <1>3, <2>2, <3>2 DEF Consumed
  <2> QED
    BY <2>1, <2>2 DEF TypeOK
<1>5. Result(cells) = Got(chars, events)
  BY <1>1, <1>4 DEF Standing, InStep
<1>6. Reading(cells)[Len(cells)].events = events
  BY <1>5 DEF Result, Got
<1> QED
  BY <1>6, Zenon DEF EventsMatchReference, RefEvents

FollowsInv == TypeOK /\ stream \in Seq(Byte) /\ Follows

LEMMA InitFollows == TInit => FollowsInv
<1> SUFFICES ASSUME TInit PROVE FollowsInv
  OBVIOUS
<1>1. TypeOK
  BY InitType DEF TInit
<1>2. stream \in Seq(Byte)
  BY DEF TInit
<1>3. Follows
  BY NothingFollows DEF TInit, Init, Fresh
<1> QED
  BY <1>1, <1>2, <1>3 DEF FollowsInv

LEMMA NextFollows == FollowsInv /\ [TNext]_vars => FollowsInv'
<1> SUFFICES ASSUME FollowsInv, [TNext]_vars PROVE FollowsInv'
  OBVIOUS
<1>1. TypeOK /\ stream \in Seq(Byte)
  BY DEF FollowsInv
<1>2. TypeOK'
  BY <1>1, NextType DEF TNext, TFeed, TReset, Next, vars
<1>3. ASSUME NEW b \in Byte, TFeed(b) PROVE stream' \in Seq(Byte) /\ Follows'
  <2>1. PICK q \in 0 .. Len(stream), done \in Seq(Cell), chars \in Seq(Byte) : Standing(q, done, chars)
    BY DEF FollowsInv, Follows
  <2>2. /\ Feed(b) /\ stream' = Append(stream, b)
        /\ events' = IF event'.kind = "none" THEN events ELSE Append(events, event')
    BY <1>3, Zenon DEF TFeed
  <2>3. CASE FeedText(b)
    BY <1>1, <2>1, <2>2, <2>3, FeedTextFollows
  <2>4. CASE FeedFrame(b)
    BY <1>1, <2>1, <2>2, <2>4, FeedFrameFollows
  <2>5. stream' \in Seq(Byte)
    BY <1>1, <2>2
  <2> QED
    BY <2>2, <2>3, <2>4, <2>5 DEF Feed
<1>4. CASE TReset
  <2>1. /\ stream' = << >> /\ events' = << >> /\ state' = "text" /\ line' = EmptyLine
        /\ pending_cr' = FALSE
    BY <1>4, Zenon DEF TReset, Reset
  <2>2. Follows'
    <3>1. Fresh'
      BY <2>1 DEF Fresh
    <3> QED
      BY <3>1, NothingFollows, PTL
  <2> QED
    BY <1>2, <2>1, <2>2 DEF FollowsInv
<1>5. CASE UNCHANGED vars
  <2>1. Follows'
    BY <1>5, Zenon DEF FollowsInv, vars, demuxVars, Follows, Standing, Consumed
  <2> QED
    BY <1>1, <1>2, <1>5, <2>1 DEF FollowsInv, vars
<1> QED
  BY <1>2, <1>3, <1>4, <1>5 DEF TNext, FollowsInv

\* For every stream, buffer size, byte set and codec, and with resets at any
\* time: the events of the byte machine are those of the declarative reading.
\* No line, frame or pushed-back byte is lost, doubled or put in another order by
\* a rejected block, an overflow or an abandoned frame.
THEOREM EventsAreTheReading == TSpec => []EventsMatchReference
<1>1. FollowsInv => EventsMatchReference
  BY FollowsMatches DEF FollowsInv
<1> QED
  BY <1>1, InitFollows, NextFollows, PTL DEF TSpec
=============================================================================
