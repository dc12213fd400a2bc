----------------------------- MODULE DemuxLink -----------------------------
(***************************************************************************)
(* The demultiplexer at the end of an unreliable line.  The writer sends   *)
(* whole frames, pieces of text and line ends, in any order; each byte is  *)
(* delivered, lost, or turned into another one.  Writer and line are not   *)
(* code of the repository: they are what framing.h promises to survive.    *)
(* The checksum is taken as perfect here: a block that is not exactly one  *)
(* the writer sent does not validate (Cobs and MCDemux use the real one),  *)
(* and the line does not forge one, for each block has a byte of its own.  *)
(***************************************************************************)
EXTENDS Demux, SequencesExt, FiniteSets

CONSTANTS
  Block,       \* Block[k]: the COBS block of the k-th frame
  TextByte0,   \* TextByte0 + n is the n-th byte of text printed
  Noise,       \* what a byte may be turned into
  MaxText,     \* bound: bytes of text printed
  MaxEnds,     \* bound: line ends printed
  MaxFaults    \* bound: bytes lost or altered

IsText(b) == b \in TextByte0 + 1 .. TextByte0 + MaxText

\* A byte of the k-th block that is nowhere else on the line.
Distinctive(k, b) ==
  /\ \A j \in DOMAIN Block : \A i \in DOMAIN Block[j] :
       Block[j][i] = b => j = k /\ \A l \in DOMAIN Block[k] : Block[k][l] = b => l = i
  /\ b \notin Noise \cup {CR, LF} /\ ~IsText(b)

ASSUME LineAssumption ==
  /\ {TextByte0, MaxText, MaxEnds, MaxFaults} \subseteq Nat /\ Noise \subseteq Byte
  /\ \A n \in 1 .. MaxText : TextByte0 + n \in Body \ {CR, LF}
  /\ Block \in Seq(Seq(Body))
  /\ \A k \in DOMAIN Block : /\ Len(Block[k]) \in 1 .. FrameMax
                             /\ \E i \in DOMAIN Block[k] : Distinctive(k, Block[k][i])

ASSUME ChecksumAssumption ==
  \A n \in 1 .. FrameMax : \A block \in [1 .. n -> Body] :
    /\ Validate(block).outcome = "ready" <=> \E k \in DOMAIN Block : Block[k] = block
    /\ Validate(block).outcome = "ready" => Validate(block).out = block

VARIABLES
  wire,        \* bytes written and not yet received
  sent,        \* frames written
  texts,       \* bytes of text written
  ends,        \* line ends written
  faults,      \* bytes lost or altered
  faultAt,     \* how many frames had been written at the last fault
  got,         \* frames reported, in order
  lines,       \* lines reported, in order
  received     \* bytes of text that reached the demultiplexer, in order

lineVars == <<wire, sent, texts, ends>>
vars == <<demuxVars, lineVars, faults, faultAt, got, lines, received>>

LInit ==
  /\ Init
  /\ wire = << >> /\ sent = 0 /\ texts = 0 /\ ends = 0
  /\ faults = 0 /\ faultAt = 0
  /\ got = << >> /\ lines = << >> /\ received = << >>

-----------------------------------------------------------------------------
(* The writer: a frame, a byte of print(), the line end of println() or a   *)
(* bare LF.  Only the order of the bytes matters, so it writes when the     *)
(* previous item is through.                                                *)

Quiet == UNCHANGED <<demuxVars, faults, faultAt, got, lines, received>>

WriteFrame ==
  /\ wire = << >> /\ sent < Len(Block)
  /\ sent' = sent + 1
  /\ wire' = <<NUL>> \o Block[sent'] \o <<NUL>>
  /\ UNCHANGED <<texts, ends>> /\ Quiet

WriteText ==
  /\ wire = << >> /\ texts < MaxText
  /\ texts' = texts + 1
  /\ wire' = <<TextByte0 + texts'>>
  /\ UNCHANGED <<sent, ends>> /\ Quiet

WriteEnd ==
  /\ wire = << >> /\ ends < MaxEnds
  /\ ends' = ends + 1
  /\ wire' \in {<<CR, LF>>, <<LF>>}
  /\ UNCHANGED <<sent, texts>> /\ Quiet

-----------------------------------------------------------------------------
(* The line and the receiver                                                *)

Receive(b) ==
  /\ Feed(b)
  /\ got' = IF event'.kind = "frame" THEN Append(got, event'.data) ELSE got
  /\ lines' = IF event'.kind = "text_line" THEN Append(lines, event'.data) ELSE lines
  /\ received' = IF IsText(b) THEN Append(received, b) ELSE received

Fault ==
  /\ faults < MaxFaults
  /\ faults' = faults + 1
  /\ faultAt' = sent

Deliver ==
  /\ wire # << >>
  /\ wire' = Tail(wire)
  /\ Receive(Head(wire))
  /\ UNCHANGED <<sent, texts, ends, faults, faultAt>>

Lose ==
  /\ wire # << >> /\ Fault
  /\ wire' = Tail(wire)
  /\ UNCHANGED <<demuxVars, sent, texts, ends, got, lines, received>>

Alter ==
  /\ wire # << >> /\ Fault
  /\ wire' = Tail(wire)
  /\ \E b \in Noise \ {Head(wire)} : Receive(b)
  /\ UNCHANGED <<sent, texts, ends>>

LNext ==
  \/ WriteFrame \/ WriteText \/ WriteEnd
  \/ Deliver \/ Lose \/ Alter

LSpec == LInit /\ [][LNext]_vars

-----------------------------------------------------------------------------
\* The frame a payload belongs to (the payload is the block itself here).
FrameNo(payload) == CHOOSE k \in 1 .. Len(Block) : Block[k] = payload

\* Frames are reported in the order they were written, none twice and none that
\* was not written, whatever the line does.
FramesInOrder ==
  /\ \A n \in 1 .. Len(got) : \E k \in 1 .. sent : got[n] = Block[k]
  /\ \A m, n \in 1 .. Len(got) : m < n => FrameNo(got[m]) < FrameNo(got[n])

\* Resynchronisation (framing.h, class comment; docs/PLAN.md "Wire protocol"):
\* a fault costs the frame it hits and at most the next one.  Every frame from
\* the second one written after the last fault is reported, and without a fault
\* all are, whatever text lies between them.
ResyncWithinOneFrame ==
  wire = << >> =>
    \A k \in 1 .. sent :
      faults = 0 \/ k >= faultAt + 2 => Contains(got, Block[k])

\* No error recovery swallows text: the bytes of text that arrived are, in
\* order, in the reported lines, the pending line and the frame collector.
TextIsConserved ==
  SelectSeq(FlattenSeq(lines) \o line.text
              \o (IF state = "frame" THEN frame_buf ELSE << >>), IsText)
    = received
=============================================================================
