-------------------------- MODULE DemuxLinkProofs --------------------------
(***************************************************************************)
(* Proofs about the demultiplexer at the end of an unreliable line, for    *)
(* any number of frames of any size, any text between them and any number  *)
(* of faults anywhere.                                                     *)
(***************************************************************************)
EXTENDS DemuxLink, SequenceTheorems, TLAPS

Frames == DOMAIN Block
Lies(b, s) == \E i \in DOMAIN s : s[i] = b

\* The byte that tells the k-th block from all else on the line.
Marker(k) == CHOOSE b : Lies(b, Block[k]) /\ Distinctive(k, b)

\* The i-th byte of the k-th frame, delimiters included.
FrameByte(k, i) == IF i \in 2 .. Len(Block[k]) + 1 THEN Block[k][i - 1] ELSE NUL

LEMMA Blocks ==
  ASSUME NEW k \in Frames
  PROVE  /\ Block[k] \in Seq(Body) /\ Len(Block[k]) \in Nat \ {0} /\ Len(Block[k]) <= FrameMax
         /\ DOMAIN Block[k] = 1 .. Len(Block[k]) /\ Block[k] # << >>
         /\ FrameMax \in Nat /\ k \in Nat \ {0} /\ k <= Len(Block)
BY LineAssumption, DemuxAssumption DEF Frames

LEMMA Markers ==
  ASSUME NEW k \in Frames
  PROVE  /\ Lies(Marker(k), Block[k]) /\ Distinctive(k, Marker(k))
         /\ Marker(k) # NUL
         /\ \A j \in Frames : Lies(Marker(k), Block[j]) => j = k
<1>1. PICK i \in DOMAIN Block[k] : Distinctive(k, Block[k][i])
  BY LineAssumption DEF Frames
<1>2. \E b : Lies(b, Block[k]) /\ Distinctive(k, b)
  BY <1>1 DEF Lies
<1>3. Lies(Marker(k), Block[k]) /\ Distinctive(k, Marker(k))
  BY <1>2 DEF Marker
<1>4. \A l \in DOMAIN Block[k] : Block[k][l] # NUL
  BY Blocks DEF Body
<1>5. Marker(k) # NUL
  BY <1>3, <1>4 DEF Lies
<1>6. \A j \in Frames : Lies(Marker(k), Block[j]) => j = k
  BY <1>3 DEF Lies, Distinctive, Frames
<1> QED
  BY <1>3, <1>5, <1>6

\* A block tells which frame it is.
LEMMA BlocksDiffer ==
  ASSUME NEW k \in Frames
  PROVE  FrameNo(Block[k]) = k /\ \A j \in Frames : Block[j] = Block[k] => j = k
<1>1. \A j \in Frames : Block[j] = Block[k] => j = k
  BY Markers
<1>2. Frames = 1 .. Len(Block)
  BY LineAssumption DEF Frames
<1> QED
  BY <1>1, <1>2 DEF FrameNo

-----------------------------------------------------------------------------
(* What the demultiplexer makes of a byte.                                  *)

IsBlock(s) == \E k \in Frames : s = Block[k]

Collector == /\ state \in {"text", "frame"}
             /\ frame_buf \in Seq(Body) /\ Len(frame_buf) <= FrameMax

LEMMA BlockValid ==
  ASSUME NEW s \in Seq(Body), s # << >>, Len(s) <= FrameMax
  PROVE  /\ Validate(s).outcome = "ready" <=> IsBlock(s)
         /\ IsBlock(s) => Validate(s).out = s
<1>1. Len(s) \in 1 .. FrameMax /\ s \in [1 .. Len(s) -> Body]
  BY DemuxAssumption
<1> QED
  BY <1>1, ChecksumAssumption DEF IsBlock, Frames

Collects(b) ==
  /\ b # NUL /\ state = "frame" /\ Len(frame_buf) < FrameMax
  /\ state' = "frame" /\ frame_buf' = Append(frame_buf, b) /\ got' = got

Opens(b) ==
  /\ b = NUL /\ (state = "frame" => ~IsBlock(frame_buf))
  /\ state' = "frame" /\ frame_buf' = << >> /\ got' = got

Reports(b) ==
  /\ b = NUL /\ state = "frame" /\ IsBlock(frame_buf)
  /\ state' = "text" /\ got' = Append(got, frame_buf)

Texts(b) ==
  /\ b # NUL /\ (state = "frame" => Len(frame_buf) >= FrameMax)
  /\ state' = "text" /\ got' = got

LEMMA ReceiveSteps ==
  ASSUME Collector, NEW b \in Byte, Receive(b)
  PROVE  Collector' /\ (Collects(b) \/ Opens(b) \/ Reports(b) \/ Texts(b))
<1>1. Feed(b) /\ got' = IF event'.kind = "frame" THEN Append(got, event'.data) ELSE got
  BY DEF Receive
<1>2. << >> \in Seq(Body) /\ Len(<< >>) <= FrameMax /\ FrameMax \in Nat
  BY DemuxAssumption
<1>3. ASSUME NEW l, TextCR(b, l) \/ TextLF(b, l) \/ TextByte(b, l)
      PROVE  state' = "text" /\ event'.kind # "frame" /\ b # NUL
  BY <1>3, DemuxAssumption DEF TextCR, TextLF, TextByte, EmitLine, LineEvent, NoEvent
<1>4. CASE FeedText(b)
  <2>1. CASE TextOpen(b, line)
    BY <1>1, <1>2, <1>4, <2>1 DEF FeedText, TextOpen, Collector, Opens, NoEvent
  <2>2. CASE (TextCR(b, line) \/ TextLF(b, line) \/ TextByte(b, line)) /\ UNCHANGED frame_buf
    BY <1>1, <1>3, <1>4, <2>2 DEF FeedText, Collector, Texts
  <2> QED
    BY <1>4, <2>1, <2>2 DEF FeedText
<1>5. CASE FeedFrame(b)
  <2>1. CASE FrameCollect(b)
    <3>1. b \in Body /\ Len(frame_buf) < FrameMax /\ frame_buf \in Seq(Body)
      BY <2>1 DEF FrameCollect, Body, Collector
    <3>2. Append(frame_buf, b) \in Seq(Body) /\ Len(Append(frame_buf, b)) <= FrameMax
      BY <1>2, <3>1
    <3>3. got' = got
      BY <1>1, <2>1 DEF FrameCollect, NoEvent
    <3> QED
      BY <1>5, <2>1, <3>2, <3>3 DEF FeedFrame, FrameCollect, Collector, Collects
  <2>2. CASE FrameOverflow(b)
    <3>1. /\ b # NUL /\ Len(frame_buf) >= FrameMax /\ frame_buf' = << >>
          /\ state' = "text" /\ event'.kind # "frame"
      BY <1>3, <2>2 DEF FrameOverflow
    <3> QED
      BY <1>1, <1>2, <3>1 DEF Collector, Texts
  <2>3. CASE FrameEmpty(b)
    <3>1. ~IsBlock(<< >>)
      BY Blocks DEF IsBlock
    <3> QED
      BY <1>1, <1>5, <2>3, <3>1 DEF FeedFrame, FrameEmpty, NoEvent, Collector, Opens
  <2>4. CASE FrameReady(b)
    <3>1. IsBlock(frame_buf) /\ Validate(frame_buf).out = frame_buf
      BY <2>4, BlockValid DEF FrameReady, Collector
    <3>2. got' = Append(got, frame_buf)
      BY <1>1, <2>4, <3>1 DEF FrameReady, FrameEvent
    <3> QED
      BY <1>5, <2>4, <3>1, <3>2 DEF FeedFrame, FrameReady, Collector, Reports
  <2>5. CASE FrameReject(b)
    <3>1. ~IsBlock(frame_buf)
      BY <2>5, BlockValid DEF FrameReject, Collector
    <3>2. b = NUL /\ frame_buf' = << >> /\ state' = state /\ got' = got
      BY <1>1, <2>5 DEF FrameReject, NoEvent
    <3> QED
      BY <1>2, <1>5, <3>1, <3>2 DEF FeedFrame, Collector, Opens
  <2> QED
    BY <1>5, <2>1, <2>2, <2>3, <2>4, <2>5 DEF FeedFrame
<1> QED
  BY <1>1, <1>4, <1>5 DEF Feed
-----------------------------------------------------------------------------
(* What is on the line.                                                     *)

\* All but the first i bytes of the last frame written.
OnWire(i) ==
  /\ sent \in Frames /\ i \in 0 .. Len(Block[sent]) + 1
  /\ Len(wire) = Len(Block[sent]) + 2 - i
  /\ \A j \in 1 .. Len(wire) : wire[j] = FrameByte(sent, i + j)

\* No frame: text, an end of line or nothing.
IsPlain(b) == b \in {CR, LF} \/ IsText(b)
PlainWire  == \A j \in 1 .. Len(wire) : IsPlain(wire[j])

Typed ==
  /\ Collector
  /\ wire \in Seq(Byte) /\ (PlainWire \/ \E i : OnWire(i))
  /\ sent \in 0 .. Len(Block) /\ texts \in 0 .. MaxText
  /\ faults \in Nat /\ faultAt \in 0 .. sent
  /\ got \in Seq(Seq(Body))

LEMMA PlainBytes ==
  ASSUME NEW b, IsPlain(b)
  PROVE  b \in Body /\ b # NUL /\ \A k \in Frames : b # Marker(k)
<1>1. b \in Body
  <2>1. CASE b \in {CR, LF}
    BY <2>1, DemuxAssumption DEF Body
  <2>2. CASE IsText(b)
    <3>1. PICK n \in 1 .. MaxText : b = TextByte0 + n
      <4>1. TextByte0 \in Nat /\ MaxText \in Nat
        BY LineAssumption
      <4>2. b - TextByte0 \in 1 .. MaxText /\ b = TextByte0 + (b - TextByte0)
        BY <2>2, <4>1 DEF IsText
      <4> QED
        BY <4>2
    <3> QED
      BY <3>1, LineAssumption
  <2> QED
    BY <2>1, <2>2 DEF IsPlain
<1>2. \A k \in Frames : b # Marker(k)
  BY Markers DEF Distinctive, IsPlain
<1> QED
  BY <1>1, <1>2 DEF Body

LEMMA FrameBytes ==
  ASSUME NEW k \in Frames, NEW i \in 1 .. Len(Block[k]) + 2
  PROVE  /\ FrameByte(k, i) \in Byte
         /\ i = 1 \/ i = Len(Block[k]) + 2 => FrameByte(k, i) = NUL
         /\ i \in 2 .. Len(Block[k]) + 1 =>
              /\ i - 1 \in DOMAIN Block[k] /\ FrameByte(k, i) = Block[k][i - 1]
              /\ FrameByte(k, i) # NUL
<1>1. CASE i \in 2 .. Len(Block[k]) + 1
  <2>1. i - 1 \in 1 .. Len(Block[k]) /\ i # 1 /\ i # Len(Block[k]) + 2
    BY <1>1, Blocks
  <2>2. Block[k][i - 1] \in Body
    BY <2>1, Blocks
  <2> QED
    BY <1>1, <2>1, <2>2, Blocks DEF FrameByte, Body
<1>2. CASE i \notin 2 .. Len(Block[k]) + 1
  BY <1>2, DemuxAssumption DEF FrameByte
<1> QED
  BY <1>1, <1>2

\* The marker of a block is in it once.
LEMMA MarkerOnce ==
  ASSUME NEW k \in Frames, NEW j \in Frames, NEW i \in 1 .. Len(Block[j]) + 2,
         FrameByte(j, i) = Marker(k)
  PROVE  /\ j = k
         /\ \A l \in 1 .. Len(Block[j]) + 2 : FrameByte(j, l) = Marker(k) => l = i
<1>1. i \in 2 .. Len(Block[j]) + 1 /\ i - 1 \in DOMAIN Block[j] /\ Block[j][i - 1] = Marker(k)
  BY Markers, FrameBytes DEF FrameByte
<1>2. j = k
  BY <1>1, Markers DEF Lies
<1>3. ASSUME NEW l \in 1 .. Len(Block[j]) + 2, FrameByte(j, l) = Marker(k)
      PROVE  l = i
  <2>1. l \in 2 .. Len(Block[j]) + 1 /\ l - 1 \in DOMAIN Block[j] /\ Block[j][l - 1] = Marker(k)
    BY <1>3, Markers, FrameBytes DEF FrameByte
  <2>2. l - 1 = i - 1
    BY <1>1, <1>2, <2>1, Markers DEF Distinctive, Frames
  <2> QED
    BY <1>1, <2>1, <2>2
<1> QED
  BY <1>2, <1>3

\* A byte leaves the line.
LEMMA WireMoves ==
  ASSUME Typed, wire # << >>, wire' = Tail(wire), sent' = sent
  PROVE  /\ wire' \in Seq(Byte) /\ Len(wire') = Len(wire) - 1 /\ Head(wire) = wire[1]
         /\ Head(wire) \in Byte /\ Len(wire) \in Nat \ {0}
         /\ \A j \in 1 .. Len(wire') : wire'[j] = wire[j + 1]
BY HeadTailProperties DEF Typed

LEMMA FrameMoves ==
  ASSUME Typed, wire # << >>, wire' = Tail(wire), sent' = sent, NEW i, OnWire(i)
  PROVE  /\ Head(wire) = FrameByte(sent, i + 1) /\ i + 1 \in 1 .. Len(Block[sent]) + 2
         /\ i <= Len(Block[sent]) => OnWire(i + 1)'
         /\ i = Len(Block[sent]) + 1 => wire' = << >>
<1>1. /\ sent \in Frames /\ i \in 0 .. Len(Block[sent]) + 1 /\ Len(Block[sent]) \in Nat
      /\ Len(wire) = Len(Block[sent]) + 2 - i
      /\ \A j \in 1 .. Len(wire) : wire[j] = FrameByte(sent, i + j)
  BY Blocks DEF OnWire
<1>2. /\ Head(wire) = FrameByte(sent, i + 1) /\ i + 1 \in 1 .. Len(Block[sent]) + 2
  BY <1>1, WireMoves
<1>3. ASSUME i <= Len(Block[sent])
      PROVE  OnWire(i + 1)'
  <2>1. i + 1 \in 0 .. Len(Block[sent]) + 1 /\ Len(wire') = Len(Block[sent]) + 2 - (i + 1)
    BY <1>1, <1>3, WireMoves
  <2>2. ASSUME NEW j \in 1 .. Len(wire')
        PROVE  wire'[j] = FrameByte(sent, i + 1 + j)
    <3>1. j + 1 \in 1 .. Len(wire) /\ i + (j + 1) = i + 1 + j
      BY <1>1, <2>1
    <3>2. wire'[j] = wire[j + 1] /\ wire[j + 1] = FrameByte(sent, i + (j + 1))
      BY <1>1, <3>1, WireMoves
    <3> QED
      BY <3>1, <3>2
  <2> QED
    BY <1>1, <2>1, <2>2 DEF OnWire
<1>4. ASSUME i = Len(Block[sent]) + 1
      PROVE  wire' = << >>
  BY <1>1, <1>4, WireMoves
<1> QED
  BY <1>2, <1>3, <1>4

LEMMA PlainMoves ==
  ASSUME Typed, wire # << >>, wire' = Tail(wire), sent' = sent, PlainWire
  PROVE  IsPlain(Head(wire)) /\ PlainWire'
<1>1. IsPlain(wire[1])
  BY WireMoves DEF PlainWire
<1>2. ASSUME NEW j \in 1 .. Len(wire')
      PROVE  IsPlain(wire'[j])
  <2>1. j + 1 \in 1 .. Len(wire) /\ wire'[j] = wire[j + 1]
    BY WireMoves
  <2> QED
    BY <2>1 DEF PlainWire
<1> QED
  BY <1>1, <1>2, WireMoves DEF PlainWire

LEMMA WireStays ==
  ASSUME Typed, wire # << >>, wire' = Tail(wire), sent' = sent
  PROVE  PlainWire' \/ \E i : OnWire(i)'
<1>1. CASE PlainWire
  BY <1>1, PlainMoves
<1>2. ASSUME NEW i, OnWire(i)
      PROVE  PlainWire' \/ OnWire(i + 1)'
  <2>1. i \in Nat /\ Len(Block[sent]) \in Nat /\ i <= Len(Block[sent]) + 1
    BY <1>2, Blocks DEF OnWire
  <2>2. CASE i <= Len(Block[sent])
    BY <1>2, <2>2, FrameMoves
  <2>3. CASE i = Len(Block[sent]) + 1
    <3>1. wire' = << >>
      BY <1>2, <2>3, FrameMoves
    <3> QED
      BY <3>1, SMTT(30) DEF PlainWire
  <2> QED
    BY <2>1, <2>2, <2>3
<1> QED
  BY <1>1, <1>2 DEF Typed

\* The last frame written has its marker on the line once, and no other frame
\* has one there.
LEMMA MarkerLeaves ==
  ASSUME Typed, wire # << >>, wire' = Tail(wire), sent' = sent, NEW k \in Frames
  PROVE  /\ Lies(Marker(k), wire') => Lies(Marker(k), wire)
         /\ Lies(Marker(k), wire) => k = sent
         /\ Head(wire) = Marker(k) => Lies(Marker(k), wire) /\ ~Lies(Marker(k), wire')
<1>1. /\ DOMAIN wire = 1 .. Len(wire) /\ DOMAIN wire' = 1 .. Len(wire') /\ Len(wire) \in Nat
      /\ Len(wire') = Len(wire) - 1
  BY WireMoves DEF Typed
<1>2. Lies(Marker(k), wire') => Lies(Marker(k), wire)
  <2> SUFFICES ASSUME NEW j \in DOMAIN wire', wire'[j] = Marker(k) PROVE Lies(Marker(k), wire)
    BY DEF Lies
  <2>1. j + 1 \in DOMAIN wire /\ wire[j + 1] = Marker(k)
    BY <1>1, WireMoves
  <2> QED
    BY <2>1 DEF Lies
<1>3. Head(wire) = Marker(k) => Lies(Marker(k), wire)
  BY <1>1, WireMoves DEF Lies
<1>4. ASSUME Lies(Marker(k), wire)
      PROVE  k = sent /\ (Head(wire) = Marker(k) => ~Lies(Marker(k), wire'))
  <2>1. PICK j \in 1 .. Len(wire) : wire[j] = Marker(k)
    BY <1>1, <1>4 DEF Lies
  <2>2. ~PlainWire
    BY <2>1, PlainBytes DEF PlainWire
  <2>3. PICK i : OnWire(i)
    BY <2>2 DEF Typed
  <2>4. /\ sent \in Frames /\ i \in Nat /\ Len(Block[sent]) \in Nat
        /\ Len(wire) = Len(Block[sent]) + 2 - i
        /\ \A l \in 1 .. Len(wire) : wire[l] = FrameByte(sent, i + l)
    BY <2>3, Blocks DEF OnWire
  <2>5. i + j \in 1 .. Len(Block[sent]) + 2 /\ FrameByte(sent, i + j) = Marker(k)
    BY <2>1, <2>4
  <2>6. k = sent
    BY <2>4, <2>5, MarkerOnce
  <2>7. ASSUME Head(wire) = Marker(k), NEW l \in DOMAIN wire', wire'[l] = Marker(k)
        PROVE  FALSE
    <3>1. l + 1 \in 1 .. Len(wire) /\ 1 \in 1 .. Len(wire) /\ wire[l + 1] = Marker(k)
      BY <1>1, <2>7, WireMoves
    <3>2. /\ i + 1 \in 1 .. Len(Block[sent]) + 2 /\ i + (l + 1) \in 1 .. Len(Block[sent]) + 2
          /\ i + 1 # i + (l + 1)
      BY <1>1, <2>4, <2>7, <3>1
    <3>3. FrameByte(sent, i + 1) = Marker(k) /\ FrameByte(sent, i + (l + 1)) = Marker(k)
      BY <2>3, <2>4, <2>7, <3>1, FrameMoves
    <3> QED
      BY <2>4, <3>2, <3>3, MarkerOnce
  <2> QED
    BY <2>6, <2>7 DEF Lies
<1> QED
  BY <1>2, <1>3, <1>4

-----------------------------------------------------------------------------
(* Types.                                                                   *)

\* The writer puts a whole frame on an idle line, or text, or an end of line.
LEMMA Writes ==
  ASSUME Typed, WriteFrame \/ WriteText \/ WriteEnd
  PROVE  /\ Typed' /\ wire = << >>
         /\ IF WriteFrame THEN sent' = sent + 1 /\ sent' \in Frames /\ OnWire(0)'
                          ELSE sent' = sent /\ PlainWire'
<1>1. /\ wire = << >> /\ UNCHANGED <<state, frame_buf, faults, faultAt, got>>
      /\ sent \in 0 .. Len(Block) /\ Len(Block) \in Nat
  BY LineAssumption DEF WriteFrame, WriteText, WriteEnd, Quiet, demuxVars, Typed
<1>2. CASE WriteFrame
  <2>1. /\ sent' = sent + 1 /\ sent' \in 1 .. Len(Block) /\ sent' \in Frames
        /\ wire' = <<NUL>> \o Block[sent'] \o <<NUL>> /\ texts' = texts
    BY <1>1, <1>2, LineAssumption DEF WriteFrame, Frames
  <2>2. PICK block : block = Block[sent']
    OBVIOUS
  <2>3. /\ block \in Seq(Byte) /\ Len(block) \in Nat /\ NUL \in Byte
        /\ \A l \in 1 .. Len(block) : block[l] = Block[sent'][l]
    BY <2>1, <2>2, Blocks, DemuxAssumption DEF Body
  <2>4. PICK opened : opened = <<NUL>> \o block
    OBVIOUS
  <2>5. /\ opened \in Seq(Byte) /\ Len(opened) = Len(block) + 1
        /\ \A j \in 1 .. Len(block) + 1 : opened[j] = IF j = 1 THEN NUL ELSE block[j - 1]
    BY <2>3, <2>4
  <2>6. /\ opened \o <<NUL>> \in Seq(Byte) /\ Len(opened \o <<NUL>>) = Len(block) + 2
        /\ \A j \in 1 .. Len(block) + 2 :
             (opened \o <<NUL>>)[j] = IF j = Len(block) + 2 THEN NUL ELSE opened[j]
    BY <2>3, <2>5
  <2>7. wire' = opened \o <<NUL>>
    BY <2>1, <2>2, <2>4
  <2>8. OnWire(0)'
    <3>1. 0 \in 0 .. Len(Block[sent']) + 1 /\ Len(wire') = Len(Block[sent']) + 2 - 0
      BY <2>2, <2>3, <2>6, <2>7
    <3>2. ASSUME NEW j \in 1 .. Len(wire')
          PROVE  wire'[j] = FrameByte(sent', 0 + j)
      <4>1. j \in 1 .. Len(block) + 2
        BY <2>2, <2>3, <3>1
      <4>2. wire'[j] = IF j = 1 \/ j = Len(block) + 2 THEN NUL ELSE block[j - 1]
        BY <2>3, <2>5, <2>6, <2>7, <4>1
      <4>3. CASE j = 1 \/ j = Len(block) + 2
        BY <2>1, <2>2, <2>3, <4>1, <4>2, <4>3, FrameBytes
      <4>4. CASE j # 1 /\ j # Len(block) + 2
        <5>1. j \in 2 .. Len(block) + 1 /\ 0 + j = j
          BY <2>3, <4>1, <4>4
        <5>2. FrameByte(sent', j) = Block[sent'][j - 1]
          BY <2>2, <5>1 DEF FrameByte
        <5> QED
          BY <2>2, <4>2, <4>4, <5>1, <5>2
      <4> QED
        BY <4>3, <4>4
    <3> QED
      BY <2>1, <3>1, <3>2 DEF OnWire
  <2>9. /\ wire' \in Seq(Byte) /\ Collector' /\ sent' \in 0 .. Len(Block) /\ faultAt' \in 0 .. sent'
    <3>1. wire' \in Seq(Byte)
      BY <2>6, <2>7
    <3>2. faultAt' \in 0 .. sent' /\ sent' \in 0 .. Len(Block)
      BY <1>1, <2>1 DEF Typed
    <3> QED
      BY <1>1, <3>1, <3>2 DEF Typed, Collector
  <2> QED
    BY <1>1, <1>2, <2>1, <2>8, <2>9 DEF Typed
<1>3. CASE ~WriteFrame
  <2>1. /\ sent' = sent /\ texts' \in 0 .. MaxText
        /\ \/ wire' = <<CR, LF>> \/ wire' = <<LF>>
           \/ \E n \in 1 .. MaxText : wire' = <<TextByte0 + n>>
    BY <1>3, LineAssumption DEF WriteText, WriteEnd, Typed
  <2>2. PlainWire'
    <3>1. TextByte0 \in Nat /\ MaxText \in Nat
      BY LineAssumption
    <3> QED
      BY <2>1, <3>1 DEF PlainWire, IsPlain, IsText
  <2>3. wire' \in Seq(Byte)
    <3>1. CR \in Byte /\ LF \in Byte /\ \A n \in 1 .. MaxText : TextByte0 + n \in Byte
      BY LineAssumption, DemuxAssumption DEF Body
    <3>2. ASSUME NEW n \in 1 .. MaxText, wire' = <<TextByte0 + n>>
          PROVE  wire' \in Seq(Byte)
      <4>1. PICK b \in Byte : b = TextByte0 + n
        BY <3>1
      <4> QED
        BY <3>2, <4>1
    <3>3. ASSUME wire' = <<CR, LF>> \/ wire' = <<LF>>
          PROVE  wire' \in Seq(Byte)
      <4>1. PICK cr \in Byte, lf \in Byte : cr = CR /\ lf = LF
        BY <3>1
      <4>2. <<cr, lf>> \in Seq(Byte) /\ <<lf>> \in Seq(Byte)
        OBVIOUS
      <4> QED
        BY <3>3, <4>1, <4>2
    <3> QED
      BY <2>1, <3>2, <3>3
  <2> QED
    BY <1>1, <1>3, <2>1, <2>2, <2>3 DEF Typed, Collector
<1> QED
  BY <1>2, <1>3

\* The byte that is heard, and what is made of it.
Heard(b) == (Deliver /\ b = Head(wire)) \/ (Alter /\ b \in Noise)
Taken(b) == Collects(b) \/ Opens(b) \/ Reports(b) \/ Texts(b)

\* The line gives the demultiplexer the next byte, or another, or none.
LEMMA Arrives ==
  ASSUME Typed, Deliver \/ Lose \/ Alter
  PROVE  /\ Typed' /\ wire # << >> /\ wire' = Tail(wire) /\ sent' = sent
         /\ \/ Lose /\ UNCHANGED <<state, frame_buf, got>>
            \/ \E b \in Byte : Taken(b) /\ Heard(b)
         /\ Deliver => faults' = faults /\ faultAt' = faultAt
         /\ ~Deliver => faults' = faults + 1 /\ faultAt' = sent
<1>1. wire # << >> /\ wire' = Tail(wire) /\ sent' = sent /\ texts' = texts
  BY DEF Deliver, Lose, Alter
<1>2. /\ Deliver => faults' = faults /\ faultAt' = faultAt
      /\ ~Deliver => faults' = faults + 1 /\ faultAt' = sent
  BY DEF Deliver, Lose, Alter, Fault
<1>3. \/ Lose /\ UNCHANGED <<state, frame_buf, got>>
      \/ \E b \in Byte : Receive(b) /\ Heard(b)
  <2>1. CASE Deliver
    <3>1. Receive(Head(wire)) /\ Head(wire) \in Byte
      BY <1>1, <2>1, WireMoves DEF Deliver
    <3> QED
      BY <2>1, <3>1 DEF Heard
  <2>2. CASE Alter
    <3>1. PICK b \in Noise : Receive(b)
      BY <2>2 DEF Alter
    <3>2. b \in Byte
      BY LineAssumption
    <3> QED
      BY <2>2, <3>1, <3>2 DEF Heard
  <2>3. CASE Lose
    BY <2>3 DEF Lose, demuxVars
  <2> QED
    BY <2>1, <2>2, <2>3
<1>4. Collector /\ got \in Seq(Seq(Body)) /\ sent \in Nat /\ faults \in Nat
  BY LineAssumption DEF Typed
<1>5. /\ Collector' /\ got' \in Seq(Seq(Body))
      /\ \/ Lose /\ UNCHANGED <<state, frame_buf, got>>
         \/ \E b \in Byte : Taken(b) /\ Heard(b)
  <2>1. CASE Lose /\ UNCHANGED <<state, frame_buf, got>>
    BY <1>4, <2>1 DEF Collector
  <2>2. ASSUME NEW b \in Byte, Receive(b)
        PROVE  Collector' /\ Taken(b) /\ got' \in Seq(Seq(Body))
    <3>1. Collector' /\ Taken(b)
      BY <1>4, <2>2, ReceiveSteps DEF Taken
    <3>2. got' = got \/ got' = Append(got, frame_buf)
      BY <3>1 DEF Taken, Collects, Opens, Reports, Texts
    <3>3. PICK block \in Seq(Body) : block = frame_buf
      BY <1>4 DEF Collector
    <3>4. Append(got, block) \in Seq(Seq(Body))
      BY <1>4, AppendProperties
    <3>5. got' \in Seq(Seq(Body))
      BY <1>4, <3>2, <3>3, <3>4
    <3> QED
      BY <3>1, <3>5
  <2> QED
    BY <1>3, <2>1, <2>2
<1>6. /\ wire' \in Seq(Byte) /\ (PlainWire' \/ \E i : OnWire(i)')
  BY <1>1, WireMoves, WireStays
<1>7. faults' \in Nat /\ faultAt' \in 0 .. sent' /\ sent' \in 0 .. Len(Block)
      /\ texts' \in 0 .. MaxText
  BY <1>1, <1>2, <1>4 DEF Typed
<1> QED
  BY <1>1, <1>2, <1>5, <1>6, <1>7 DEF Typed

-----------------------------------------------------------------------------
(* Frames in order.                                                         *)

\* The marker of the k-th frame is in the collector.
Held(k) == state = "frame" /\ Lies(Marker(k), frame_buf)

\* Every frame reported so far comes before the k-th.
Past(k) == \A n \in DOMAIN got : \A j \in Frames : got[n] = Block[j] => j < k

\* A frame is reported when its marker leaves the collector, which it does once;
\* and markers come to the collector, and to the line, in order.
Ordered ==
  /\ \A n \in DOMAIN got : \E k \in Frames : k <= sent /\ got[n] = Block[k]
  /\ \A m, n \in DOMAIN got : \A j, k \in Frames :
       m < n /\ got[m] = Block[j] /\ got[n] = Block[k] => j < k
  /\ \A k \in Frames : Held(k) => k <= sent /\ Past(k)
  /\ \A k \in Frames : Lies(Marker(k), wire) => Past(k) /\ ~Held(k)

LEMMA HeldBlock ==
  ASSUME Collector, state = "frame", NEW k \in Frames, frame_buf = Block[k]
  PROVE  Held(k)
BY Markers DEF Held

\* What is made of the byte b changes who is held and what is past.
LEMMA TakenHolds ==
  ASSUME Typed, Typed', NEW b \in Byte, Taken(b), NEW k \in Frames
  PROVE  Held(k)' => Held(k) \/ b = Marker(k)
<1>1. CASE Collects(b)
  <2>1. frame_buf \in Seq(Body) /\ b \in Body
    BY <1>1 DEF Collects, Typed, Collector, Body
  <2>2. PICK buf : buf = Append(frame_buf, b)
    OBVIOUS
  <2>3. /\ DOMAIN buf = 1 .. Len(frame_buf) + 1 /\ DOMAIN frame_buf = 1 .. Len(frame_buf)
        /\ buf[Len(frame_buf) + 1] = b /\ \A i \in 1 .. Len(frame_buf) : buf[i] = frame_buf[i]
    BY <2>1, <2>2, AppendProperties
  <2>4. Lies(Marker(k), buf) => Lies(Marker(k), frame_buf) \/ b = Marker(k)
    BY <2>3 DEF Lies
  <2> QED
    BY <1>1, <2>2, <2>4 DEF Collects, Held
<1>2. CASE Opens(b) \/ Reports(b) \/ Texts(b)
  BY <1>2 DEF Opens, Reports, Texts, Held, Lies
<1> QED
  BY <1>1, <1>2 DEF Taken

LEMMA TakenGot ==
  ASSUME Typed, NEW b \in Byte, Taken(b)
  PROVE  \/ got' = got
         \/ /\ b = NUL /\ state' = "text" /\ \E k \in Frames : Held(k) /\ frame_buf = Block[k]
            /\ Len(got') = Len(got) + 1 /\ DOMAIN got' = 1 .. Len(got) + 1
            /\ got'[Len(got) + 1] = frame_buf /\ \A n \in 1 .. Len(got) : got'[n] = got[n]
<1>1. CASE Reports(b)
  <2>1. \E k \in Frames : Held(k) /\ frame_buf = Block[k]
    BY <1>1, HeldBlock DEF Reports, IsBlock, Typed
  <2>2. got \in Seq(Seq(Body)) /\ frame_buf \in Seq(Body)
    BY DEF Typed, Collector
  <2>3. PICK more : more = Append(got, frame_buf)
    OBVIOUS
  <2>4. /\ Len(more) = Len(got) + 1 /\ DOMAIN more = 1 .. Len(got) + 1
        /\ more[Len(got) + 1] = frame_buf /\ \A n \in 1 .. Len(got) : more[n] = got[n]
    BY <2>2, <2>3, AppendProperties
  <2> QED
    BY <1>1, <2>1, <2>3, <2>4 DEF Reports
<1>2. CASE Collects(b) \/ Opens(b) \/ Texts(b)
  BY <1>2 DEF Collects, Opens, Texts
<1> QED
  BY <1>1, <1>2 DEF Taken

LEMMA WritesInOrder ==
  ASSUME Typed, Ordered, WriteFrame \/ WriteText \/ WriteEnd
  PROVE  Ordered'
<1>1. /\ UNCHANGED <<state, frame_buf, got>>
      /\ \A k \in Frames : (Held(k)' <=> Held(k)) /\ (Past(k)' <=> Past(k))
  BY DEF WriteFrame, WriteText, WriteEnd, Quiet, demuxVars, Held, Past
<1>2. sent \in Nat /\ sent' \in Nat /\ sent <= sent' /\ Frames \subseteq Nat
  <2>1. sent \in Nat
    BY LineAssumption DEF Typed
  <2>2. sent' = sent \/ sent' = sent + 1
    BY Writes
  <2>3. Frames \subseteq Nat
    BY Blocks
  <2> QED
    BY <2>1, <2>2, <2>3
<1>3. ASSUME NEW k \in Frames, Lies(Marker(k), wire')
      PROVE  Past(k)' /\ ~Held(k)'
  <2>1. DOMAIN wire' = 1 .. Len(wire')
    BY Writes DEF Typed
  <2>2. WriteFrame
    <3>1. ~PlainWire'
      BY <1>3, <2>1, PlainBytes DEF PlainWire, Lies
    <3> QED
      BY <3>1, Writes
  <2>3. sent' = sent + 1 /\ sent' \in Frames /\ OnWire(0)'
    BY <2>2, Writes
  <2>4. k = sent'
    <3>1. PICK j \in 1 .. Len(wire') : wire'[j] = Marker(k)
      BY <1>3, <2>1 DEF Lies
    <3>2. FrameByte(sent', 0 + j) = Marker(k) /\ 0 + j \in 1 .. Len(Block[sent']) + 2
      BY <2>3, <3>1, Blocks DEF OnWire
    <3> QED
      BY <2>3, <3>2, MarkerOnce
  <2>5. Past(k)
    BY <1>2, <2>3, <2>4, BlocksDiffer DEF Ordered, Past
  <2>6. ~Held(k)
    BY <1>2, <2>3, <2>4 DEF Ordered
  <2> QED
    BY <1>1, <2>5, <2>6
<1>4. \A k \in Frames : Held(k)' => k <= sent' /\ Past(k)'
  BY <1>1, <1>2 DEF Ordered
<1>5. \A n \in DOMAIN got' : \E k \in Frames : k <= sent' /\ got'[n] = Block[k]
  BY <1>1, <1>2 DEF Ordered
<1>6. \A m, n \in DOMAIN got' : \A j, k \in Frames :
        m < n /\ got'[m] = Block[j] /\ got'[n] = Block[k] => j < k
  BY <1>1 DEF Ordered
<1> QED
  BY <1>3, <1>4, <1>5, <1>6 DEF Ordered

LEMMA ArrivesInOrder ==
  ASSUME Typed, Ordered, Deliver \/ Lose \/ Alter
  PROVE  Ordered'
<1>1. /\ Typed' /\ wire # << >> /\ wire' = Tail(wire) /\ sent' = sent
      /\ \/ Lose /\ UNCHANGED <<state, frame_buf, got>>
         \/ \E b \in Byte : Taken(b) /\ Heard(b)
  BY Arrives
<1>2. CASE Lose /\ UNCHANGED <<state, frame_buf, got>>
  <2>1. \A k \in Frames : /\ Held(k)' <=> Held(k)
                          /\ Past(k)' <=> Past(k)
                          /\ Lies(Marker(k), wire') => Lies(Marker(k), wire)
    BY <1>1, <1>2, MarkerLeaves DEF Held, Past
  <2> QED
    BY <1>1, <1>2, <2>1 DEF Ordered
<1>3. ASSUME NEW b \in Byte, Taken(b), Heard(b)
      PROVE  Ordered'
  <2>1. ASSUME NEW k \in Frames, b = Marker(k)
        PROVE  /\ Lies(Marker(k), wire) /\ ~Lies(Marker(k), wire')
               /\ k = sent /\ ~(b = NUL) /\ Past(k)
    <3>1. Head(wire) = Marker(k)
      BY <1>3, <2>1, Markers DEF Heard, Distinctive
    <3> QED
      BY <1>1, <2>1, <3>1, MarkerLeaves, Markers DEF Ordered
  <2>2. \A k \in Frames : Held(k)' => Held(k) \/ b = Marker(k)
    BY <1>1, <1>3, TakenHolds
  <2>3. \A k \in Frames : Lies(Marker(k), wire') => Lies(Marker(k), wire)
    BY <1>1, MarkerLeaves
  <2>4. sent \in Nat /\ Frames \subseteq Nat /\ got \in Seq(Seq(Body)) /\ Len(got) \in Nat
        /\ DOMAIN got = 1 .. Len(got)
    BY Blocks, LineAssumption DEF Typed
  <2>5. CASE got' = got
    <3>1. \A k \in Frames : Past(k)' <=> Past(k)
      BY <2>5 DEF Past
    <3>2. \A k \in Frames : Held(k)' => k <= sent' /\ Past(k)'
      BY <1>1, <2>1, <2>2, <2>4, <3>1 DEF Ordered
    <3>3. \A k \in Frames : Lies(Marker(k), wire') => Past(k)' /\ ~Held(k)'
      BY <2>1, <2>2, <2>3, <3>1 DEF Ordered
    <3> QED
      BY <1>1, <2>5, <3>2, <3>3 DEF Ordered
  <2>6. CASE \E k \in Frames :
             /\ Held(k) /\ frame_buf = Block[k] /\ b = NUL /\ state' = "text"
             /\ Len(got') = Len(got) + 1 /\ DOMAIN got' = 1 .. Len(got) + 1
             /\ got'[Len(got) + 1] = frame_buf /\ \A n \in 1 .. Len(got) : got'[n] = got[n]
    <3>1. PICK k \in Frames :
             /\ Held(k) /\ frame_buf = Block[k] /\ b = NUL /\ state' = "text"
             /\ Len(got') = Len(got) + 1 /\ DOMAIN got' = 1 .. Len(got) + 1
             /\ got'[Len(got) + 1] = Block[k] /\ \A n \in 1 .. Len(got) : got'[n] = got[n]
      BY <2>6
    <3>2. k <= sent /\ Past(k)
      BY <3>1 DEF Ordered
    <3>3. \A j \in Frames : ~Held(j)'
      BY <3>1 DEF Held
    <3>4. \A n \in DOMAIN got' : \E j \in Frames : j <= sent' /\ got'[n] = Block[j]
      <4> TAKE n \in DOMAIN got'
      <4>1. CASE n = Len(got) + 1
        BY <1>1, <3>1, <3>2, <4>1
      <4>2. CASE n # Len(got) + 1
        <5>1. n \in 1 .. Len(got) /\ got'[n] = got[n]
          BY <2>4, <3>1, <4>2
        <5> QED
          BY <1>1, <2>4, <5>1 DEF Ordered
      <4> QED
        BY <4>1, <4>2
    <3>5. ASSUME NEW m \in DOMAIN got', NEW n \in DOMAIN got', NEW i \in Frames, NEW j \in Frames,
                 m < n, got'[m] = Block[i], got'[n] = Block[j]
          PROVE  i < j
      <4>1. m \in 1 .. Len(got) /\ got'[m] = got[m]
        BY <2>4, <3>1, <3>5
      <4>2. CASE n = Len(got) + 1
        <5>1. j = k
          BY <3>1, <3>5, <4>2, BlocksDiffer
        <5> QED
          BY <2>4, <3>2, <3>5, <4>1, <5>1 DEF Past
      <4>3. CASE n # Len(got) + 1
        <5>1. n \in 1 .. Len(got) /\ got'[n] = got[n]
          BY <2>4, <3>1, <4>3
        <5> QED
          BY <2>4, <3>5, <4>1, <5>1 DEF Ordered
      <4> QED
        BY <4>2, <4>3
    <3>6. ASSUME NEW j \in Frames, Lies(Marker(j), wire')
          PROVE  Past(j)'
      <4>1. j = sent /\ Past(j) /\ ~Held(j)
        BY <1>1, <2>3, <3>6, MarkerLeaves DEF Ordered
      <4>2. k < j
        BY <2>4, <3>1, <3>2, <4>1
      <4>3. ASSUME NEW n \in DOMAIN got', NEW i \in Frames, got'[n] = Block[i]
            PROVE  i < j
        <5>1. CASE n = Len(got) + 1
          BY <3>1, <4>2, <4>3, <5>1, BlocksDiffer
        <5>2. CASE n # Len(got) + 1
          <6>1. n \in DOMAIN got /\ got[n] = Block[i]
            BY <2>4, <3>1, <4>3, <5>2
          <6> QED
            BY <4>1, <6>1 DEF Past
        <5> QED
          BY <5>1, <5>2
      <4> QED
        BY <4>3 DEF Past
    <3> QED
      BY <3>3, <3>4, <3>5, <3>6 DEF Ordered
  <2> QED
    BY <1>3, <2>5, <2>6, TakenGot
<1> QED
  BY <1>1, <1>2, <1>3

-----------------------------------------------------------------------------
(* Resynchronisation.                                                       *)

\* No fault since the last frame was begun; the last fault was so early that
\* the k-th frame is owed; the collector holds nothing of a frame.
Intact   == faults = 0 \/ sent > faultAt
Due(k)   == faults = 0 \/ k >= faultAt + 2
Settled  == \A k \in Frames : ~Held(k)
Reported(k) == \E n \in DOMAIN got : got[n] = Block[k]

\* A frame that comes whole after a frame that came whole finds a collector that
\* holds no frame, is collected byte by byte, and is reported at its end.  One
\* that comes whole after a fault may be taken for text, but its last delimiter
\* opens the next one.
Synced ==
  /\ \A k \in 1 .. sent : Due(k) => Reported(k) \/ (k = sent /\ \E i : OnWire(i))
  /\ Intact /\ PlainWire => Settled
  /\ \A i : OnWire(i) /\ Intact =>
       IF i = 0 THEN Due(sent) => Settled
       ELSE \/ state = "text" /\ ~Due(sent)
            \/ state = "frame" /\ frame_buf = SubSeq(Block[sent], 1, i - 1)

\* Which byte of the frame is next is told by the length of what is left.
Indexed ==
  \A i : OnWire(i) =>
    /\ i \in Nat /\ i <= Len(Block[sent]) + 1 /\ Len(Block[sent]) \in Nat \ {0}
    /\ sent \in Frames /\ wire # << >> /\ ~PlainWire
    /\ \A j : OnWire(j) => j = i

LEMMA WireIndex == Indexed
<1> SUFFICES ASSUME NEW i, OnWire(i)
             PROVE  /\ i \in Nat /\ i <= Len(Block[sent]) + 1 /\ Len(Block[sent]) \in Nat \ {0}
                    /\ sent \in Frames /\ wire # << >> /\ ~PlainWire
                    /\ \A j : OnWire(j) => j = i
  BY DEF Indexed
<1>1. /\ sent \in Frames /\ Len(Block[sent]) \in Nat \ {0} /\ i \in Nat
      /\ i <= Len(Block[sent]) + 1 /\ Len(wire) = Len(Block[sent]) + 2 - i
      /\ \A l \in 1 .. Len(wire) : wire[l] = FrameByte(sent, i + l)
  BY Blocks DEF OnWire
<1>2. Len(wire) \in 1 .. Len(wire) /\ i + Len(wire) = Len(Block[sent]) + 2
  BY <1>1
<1>3. wire[Len(wire)] = NUL
  BY <1>1, <1>2, FrameBytes
<1>4. ~PlainWire
  BY <1>2, <1>3, PlainBytes DEF PlainWire
<1>5. \A j : OnWire(j) => j = i
  BY <1>1, Blocks DEF OnWire
<1>6. wire # << >>
  BY <1>2
<1> QED
  BY <1>1, <1>4, <1>5, <1>6

LEMMA SettledFree == Settled /\ Collector => ~(state = "frame" /\ IsBlock(frame_buf))
BY HeldBlock DEF Settled, IsBlock

LEMMA WritesSynced ==
  ASSUME Typed, Synced, WriteFrame \/ WriteText \/ WriteEnd
  PROVE  Synced'
<1>1. /\ UNCHANGED <<state, frame_buf, got, faults, faultAt>> /\ wire = << >>
      /\ (Settled' <=> Settled) /\ \A k : Reported(k)' <=> Reported(k)
      /\ \A k : Due(k)' <=> Due(k)
  BY DEF WriteFrame, WriteText, WriteEnd, Quiet, demuxVars, Settled, Held, Reported, Due
<1>2. PlainWire /\ ~\E i : OnWire(i)
  BY <1>1, WireIndex DEF PlainWire, Indexed
<1>3. \A k \in 1 .. sent : Due(k) => Reported(k)
  BY <1>2 DEF Synced
<1>4. sent \in Nat /\ faultAt \in Nat /\ faultAt <= sent
  BY LineAssumption DEF Typed
<1>5. Indexed'
  BY WireIndex, PTL
<1>6. CASE WriteFrame
  <2>1. sent' = sent + 1 /\ OnWire(0)'
    BY <1>6, Writes
  <2>2. \A i : OnWire(i)' => i = 0
    BY <1>5, <2>1 DEF Indexed
  <2>3. ~PlainWire'
    BY <1>5, <2>1 DEF Indexed
  <2>4. Due(sent)' => Intact
    BY <1>1, <1>4, <2>1 DEF Due, Intact
  <2>5. Due(sent)' => Settled'
    BY <1>1, <1>2, <2>4 DEF Synced
  <2>6. ASSUME NEW k \in 1 .. sent', Due(k)'
        PROVE  Reported(k)' \/ (k = sent' /\ \E i : OnWire(i)')
    <3>1. CASE k = sent'
      BY <2>1, <3>1
    <3>2. CASE k # sent'
      <4>1. k \in 1 .. sent
        BY <1>4, <2>1, <3>2
      <4> QED
        BY <1>1, <1>3, <2>6, <4>1
    <3> QED
      BY <3>1, <3>2
  <2> QED
    BY <2>2, <2>3, <2>5, <2>6 DEF Synced
<1>7. CASE ~WriteFrame
  <2>1. sent' = sent /\ PlainWire' /\ (Intact' <=> Intact)
    BY <1>1, <1>7, Writes DEF Intact
  <2>2. ~\E i : OnWire(i)'
    BY <1>5, <2>1 DEF Indexed
  <2> QED
    BY <1>1, <1>2, <1>3, <2>1, <2>2 DEF Synced
<1> QED
  BY <1>6, <1>7

\* A fault: nothing is owed for a while.
LEMMA FaultSynced ==
  ASSUME Typed, Lose \/ Alter
  PROVE  Synced'
<1>1. sent' = sent /\ faults' = faults + 1 /\ faultAt' = sent
  BY DEF Lose, Alter, Fault
<1>2. sent \in Nat /\ faults \in Nat
  BY LineAssumption DEF Typed
<1>3. ~Intact' /\ \A k \in 1 .. sent' : ~Due(k)'
  BY <1>1, <1>2 DEF Intact, Due
<1> QED
  BY <1>3 DEF Synced

LEMMA DeliverSynced ==
  ASSUME Typed, Synced, Deliver
  PROVE  Synced'
<1>1. /\ Typed' /\ wire # << >> /\ wire' = Tail(wire) /\ sent' = sent
      /\ faults' = faults /\ faultAt' = faultAt
  BY Arrives
<1>2. PICK b \in Byte : Taken(b) /\ b = Head(wire)
  <2>1. ~Lose /\ ~Alter
    BY <1>1 DEF Lose, Alter, Fault, Typed
  <2> QED
    BY <2>1, Arrives DEF Heard
<1>3. /\ Intact' <=> Intact
      /\ \A k : Due(k)' <=> Due(k)
  BY <1>1 DEF Intact, Due
<1>4. \A k : Reported(k) => Reported(k)'
  <2>1. got \in Seq(Seq(Body)) /\ DOMAIN got = 1 .. Len(got) /\ Len(got) \in Nat
    BY DEF Typed
  <2>2. CASE got' = got
    BY <2>2 DEF Reported
  <2>3. CASE /\ DOMAIN got' = 1 .. Len(got) + 1
             /\ \A n \in 1 .. Len(got) : got'[n] = got[n]
    BY <2>1, <2>3 DEF Reported
  <2> QED
    BY <1>2, <2>2, <2>3, TakenGot
<1>5. Indexed /\ Indexed'
  BY WireIndex, PTL
<1>6. Collector /\ Collector'
  BY <1>1 DEF Typed
<1>7. CASE PlainWire
  <2>1. IsPlain(b) /\ PlainWire' /\ b # NUL /\ \A k \in Frames : b # Marker(k)
    BY <1>1, <1>2, <1>7, PlainMoves, PlainBytes
  <2>2. (~\E i : OnWire(i)) /\ (~\E i : OnWire(i)')
    BY <1>5, <1>7, <2>1 DEF Indexed
  <2>3. Settled => Settled'
    BY <1>1, <1>2, <2>1, TakenHolds DEF Settled
  <2>4. \A k \in 1 .. sent' : Due(k)' => Reported(k)'
    BY <1>1, <1>3, <1>4, <2>2 DEF Synced
  <2>5. Intact' => Settled'
    BY <1>3, <1>7, <2>3 DEF Synced
  <2> QED
    BY <2>2, <2>4, <2>5 DEF Synced
<1>8. ASSUME NEW i, OnWire(i)
      PROVE  Synced'
  <2>1. /\ i \in Nat /\ i <= Len(Block[sent]) + 1 /\ Len(Block[sent]) \in Nat \ {0}
        /\ sent \in Frames /\ ~PlainWire /\ \A j : OnWire(j) => j = i
        /\ sent \in Nat
    BY <1>5, <1>8, LineAssumption DEF Indexed, Typed
  <2>2. /\ b = FrameByte(sent, i + 1) /\ i + 1 \in 1 .. Len(Block[sent]) + 2
        /\ i <= Len(Block[sent]) => OnWire(i + 1)'
        /\ i = Len(Block[sent]) + 1 => wire' = << >>
    BY <1>1, <1>2, <1>8, FrameMoves
  <2>3. \A k \in 1 .. sent : Due(k)' /\ k # sent => Reported(k)'
    BY <1>3, <1>4 DEF Synced
  <2>4. PICK block : block = Block[sent]
    OBVIOUS
  <2>5. /\ block \in Seq(Body) /\ Len(block) <= FrameMax /\ FrameMax \in Nat
        /\ Len(block) \in Nat \ {0}
    BY <2>1, <2>4, Blocks
  <2>6. Intact => IF i = 0 THEN Due(sent) => Settled
                  ELSE \/ state = "text" /\ ~Due(sent)
                       \/ state = "frame" /\ frame_buf = SubSeq(block, 1, i - 1)
    BY <1>8, <2>4 DEF Synced
  <2>7. CASE i <= Len(block)
    <3>1. OnWire(i + 1)' /\ (\A j : OnWire(j)' => j = i + 1) /\ ~PlainWire'
      BY <1>5, <2>2, <2>4, <2>7 DEF Indexed
    <3>2. Intact => \/ state' = "text" /\ ~Due(sent)
                    \/ state' = "frame" /\ frame_buf' = SubSeq(block, 1, i)
      <4> SUFFICES ASSUME Intact
                   PROVE  \/ state' = "text" /\ ~Due(sent)
                          \/ state' = "frame" /\ frame_buf' = SubSeq(block, 1, i)
        OBVIOUS
      <4>1. CASE i = 0
        <5>1. b = NUL /\ SubSeq(block, 1, 0) = << >>
          BY <2>1, <2>2, <2>5, <4>1, FrameBytes
        <5>2. Opens(b) \/ Reports(b)
          BY <1>2, <5>1 DEF Taken, Collects, Texts
        <5>3. CASE Opens(b)
          BY <4>1, <5>1, <5>3 DEF Opens
        <5>4. CASE Reports(b)
          BY <1>6, <2>6, <4>1, <5>4, SettledFree DEF Reports
        <5> QED
          BY <5>2, <5>3, <5>4
      <4>2. CASE i # 0
        <5>1. i \in 1 .. Len(block) /\ i + 1 \in 2 .. Len(block) + 1 /\ (i + 1) - 1 = i
          BY <2>1, <2>7, <4>2
        <5>2. b = block[i] /\ b # NUL
          BY <2>1, <2>2, <2>4, <5>1, FrameBytes
        <5>3. CASE state = "text" /\ ~Due(sent)
          BY <1>2, <5>2, <5>3 DEF Taken, Collects, Opens, Reports, Texts
        <5>4. CASE state = "frame" /\ frame_buf = SubSeq(block, 1, i - 1)
          <6>1. Len(frame_buf) = i - 1 /\ ~(Len(frame_buf) >= FrameMax)
            BY <2>5, <5>1, <5>4
          <6>2. Collects(b)
            <7>1. ~Opens(b) /\ ~Reports(b)
              BY <5>2 DEF Opens, Reports
            <7>2. ~Texts(b)
              BY <5>4, <6>1 DEF Texts
            <7> QED
              BY <1>2, <7>1, <7>2 DEF Taken
          <6>3. Append(SubSeq(block, 1, i - 1), block[i]) = SubSeq(block, 1, i)
            <7>1. /\ SubSeq(block, 1, i - 1) \in Seq(Body) /\ Len(SubSeq(block, 1, i - 1)) = i - 1
                  /\ \A l \in 1 .. i - 1 : SubSeq(block, 1, i - 1)[l] = block[l]
              BY <2>5, <5>1
            <7>2. /\ SubSeq(block, 1, i) \in Seq(Body) /\ Len(SubSeq(block, 1, i)) = i
                  /\ \A l \in 1 .. i : SubSeq(block, 1, i)[l] = block[l]
              BY <2>5, <5>1
            <7>3. block[i] \in Body
              BY <2>5, <5>1
            <7>4. PICK less, more : /\ less = SubSeq(block, 1, i - 1) /\ more = SubSeq(block, 1, i)
              OBVIOUS
            <7>5. /\ Append(less, block[i]) \in Seq(Body) /\ Len(Append(less, block[i])) = i
                  /\ \A l \in 1 .. i : Append(less, block[i])[l] = block[l]
              BY <5>1, <7>1, <7>3, <7>4, AppendProperties
            <7> QED
              BY <7>2, <7>4, <7>5, SeqEqual
          <6> QED
            BY <5>2, <5>4, <6>2, <6>3 DEF Collects
        <5> QED
          BY <2>6, <4>2, <5>3, <5>4
      <4> QED
        BY <4>1, <4>2
    <3>3. \A k \in 1 .. sent' : Due(k)' => Reported(k)' \/ (k = sent' /\ \E j : OnWire(j)')
      BY <1>1, <2>3, <3>1
    <3>4. \A j : OnWire(j)' /\ Intact' =>
            IF j = 0 THEN Due(sent)' => Settled'
            ELSE \/ state' = "text" /\ ~Due(sent)'
                 \/ state' = "frame" /\ frame_buf' = SubSeq(Block[sent'], 1, j - 1)
      <4> SUFFICES ASSUME NEW j, OnWire(j)', Intact'
                   PROVE  /\ j # 0
                          /\ \/ state' = "text" /\ ~Due(sent)'
                             \/ state' = "frame" /\ frame_buf' = SubSeq(Block[sent'], 1, j - 1)
        OBVIOUS
      <4>1. j = i + 1 /\ j # 0 /\ j - 1 = i
        BY <2>1, <3>1
      <4>2. Due(sent)' <=> Due(sent)
        BY <1>1 DEF Due
      <4> QED
        BY <1>1, <1>3, <2>4, <3>2, <4>1, <4>2
    <3> QED
      BY <3>1, <3>3, <3>4 DEF Synced
  <2>8. CASE i = Len(block) + 1
    <3>1. wire' = << >> /\ b = NUL /\ i # 0 /\ i - 1 = Len(block)
      BY <2>1, <2>2, <2>4, <2>5, <2>8, FrameBytes
    <3>2. PlainWire' /\ ~\E j : OnWire(j)'
      BY <1>5, <3>1 DEF PlainWire, Indexed
    <3>3. SubSeq(block, 1, Len(block)) = block
      BY <2>5
    <3>4. Intact => \/ state = "text" /\ ~Due(sent)
                    \/ state = "frame" /\ frame_buf = block
      BY <2>6, <3>1, <3>3
    <3>5. Opens(b) \/ Reports(b)
      BY <1>2, <3>1 DEF Taken, Collects, Texts
    <3>6. Settled'
      BY <3>5 DEF Opens, Reports, Settled, Held, Lies
    <3>7. Intact /\ Due(sent) => Reported(sent)'
      <4> SUFFICES ASSUME Intact, Due(sent) PROVE Reported(sent)'
        OBVIOUS
      <4>1. state = "frame" /\ frame_buf = block /\ IsBlock(frame_buf)
        BY <2>1, <2>4, <3>4 DEF IsBlock
      <4>2. Reports(b)
        BY <3>5, <4>1 DEF Opens
      <4>3. got' = Append(got, block) /\ got \in Seq(Seq(Body))
        BY <4>1, <4>2 DEF Reports, Typed
      <4>4. Len(got) + 1 \in DOMAIN got' /\ got'[Len(got) + 1] = block
        BY <2>5, <4>3, AppendProperties
      <4> QED
        BY <1>1, <2>4, <4>4 DEF Reported
    <3>8. Due(sent) => Intact
      <4>1. faultAt \in Nat
        BY <2>1 DEF Typed
      <4> QED
        BY <2>1, <4>1 DEF Due, Intact
    <3>9. \A k \in 1 .. sent' : Due(k)' => Reported(k)'
      BY <1>1, <1>3, <2>3, <3>7, <3>8
    <3> QED
      BY <3>2, <3>6, <3>9 DEF Synced
  <2> QED
    BY <2>1, <2>4, <2>7, <2>8
<1> QED
  BY <1>7, <1>8 DEF Typed

-----------------------------------------------------------------------------
(* The invariant.                                                           *)

IInv == Typed /\ Ordered /\ Synced

LEMMA InitLink == LInit => IInv
<1> SUFFICES ASSUME LInit PROVE IInv
  OBVIOUS
<1>1. /\ state = "text" /\ frame_buf = << >> /\ wire = << >> /\ sent = 0 /\ texts = 0
      /\ faults = 0 /\ faultAt = 0 /\ got = << >>
  BY DEF LInit, Init
<1>2. PlainWire /\ Collector
  BY <1>1, DemuxAssumption DEF PlainWire, Collector
<1>3. Typed
  BY <1>1, <1>2, LineAssumption DEF Typed
<1>4. Ordered
  BY <1>1 DEF Ordered, Held, Lies
<1>5. ~\E i : OnWire(i)
  BY <1>2, WireIndex DEF Indexed
<1>6. Synced
  BY <1>1, <1>5 DEF Synced, Settled, Held
<1> QED
  BY <1>3, <1>4, <1>6 DEF IInv

LEMMA NextLink == IInv /\ [LNext]_vars => IInv'
<1> SUFFICES ASSUME IInv, [LNext]_vars PROVE IInv'
  OBVIOUS
<1> USE DEF IInv
<1>1. CASE WriteFrame \/ WriteText \/ WriteEnd
  BY <1>1, Writes, WritesInOrder, WritesSynced
<1>2. CASE Deliver \/ Lose \/ Alter
  BY <1>2, Arrives, ArrivesInOrder, DeliverSynced, FaultSynced
<1>3. CASE UNCHANGED vars
  <2>1. UNCHANGED <<state, frame_buf, wire, sent, texts, faults, faultAt, got>>
    BY <1>3 DEF vars, demuxVars, lineVars
  <2>2. Typed'
    BY <2>1 DEF Typed, Collector, PlainWire, OnWire
  <2>3. Ordered'
    BY <2>1 DEF Ordered, Held, Past
  <2>4. Synced'
    BY <2>1 DEF Synced, Settled, Held, Reported, Due, Intact, PlainWire, OnWire
  <2> QED
    BY <2>2, <2>3, <2>4
<1> QED
  BY <1>1, <1>2, <1>3 DEF LNext

LEMMA LinkHolds == LSpec => []IInv
BY InitLink, NextLink, PTL DEF LSpec

\* Whatever bytes the line loses or alters, and whatever text lies between the
\* frames, the frames that feed() reports are frames that were written, in their
\* order and none of them twice.
THEOREM FramesComeInOrder == LSpec => []FramesInOrder
<1>1. IInv => FramesInOrder
  <2> SUFFICES ASSUME IInv PROVE FramesInOrder
    OBVIOUS
  <2>1. DOMAIN got = 1 .. Len(got) /\ sent \in 0 .. Len(Block) /\ Len(Block) \in Nat
    BY LineAssumption DEF IInv, Typed
  <2>2. ASSUME NEW n \in 1 .. Len(got)
        PROVE  \E k \in 1 .. sent : got[n] = Block[k]
    BY <2>1, Blocks DEF IInv, Ordered
  <2>3. ASSUME NEW m \in 1 .. Len(got), NEW n \in 1 .. Len(got), m < n
        PROVE  FrameNo(got[m]) < FrameNo(got[n])
    <3>1. PICK j \in Frames, k \in Frames : got[m] = Block[j] /\ got[n] = Block[k]
      BY <2>1 DEF IInv, Ordered
    <3>2. j < k
      BY <2>1, <2>3, <3>1 DEF IInv, Ordered
    <3> QED
      BY <3>1, <3>2, BlocksDiffer
  <2> QED
    BY <2>2, <2>3 DEF FramesInOrder
<1> QED
  BY <1>1, LinkHolds, PTL

\* A fault costs the frame it hits and at most the next: every frame from the
\* second one written after the last fault is reported, and all of them when
\* there is no fault, whatever text lies between them.
THEOREM LinkResyncs == LSpec => []ResyncWithinOneFrame
<1>1. IInv => ResyncWithinOneFrame
  <2> SUFFICES ASSUME IInv, wire = << >>, NEW k \in 1 .. sent, Due(k)
               PROVE  Contains(got, Block[k])
    BY DEF ResyncWithinOneFrame, Due
  <2>1. ~\E i : OnWire(i)
    BY WireIndex DEF Indexed
  <2>2. Reported(k)
    BY <2>1 DEF IInv, Synced
  <2>3. DOMAIN got = 1 .. Len(got)
    BY DEF IInv, Typed
  <2> QED
    BY <2>2, <2>3 DEF Reported, Contains
<1> QED
  BY <1>1, LinkHolds, PTL
=============================================================================
