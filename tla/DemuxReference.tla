--------------------------- MODULE DemuxReference ---------------------------
(***************************************************************************)
(* A declarative account of the same stream: cut at its delimiters, block  *)
(* by block, into cells (a byte of text, the bytes pushed back by a        *)
(* rejected frame, a frame), and then cut into lines.  The byte machine of *)
(* Demux has to produce exactly these events.                              *)
(***************************************************************************)
EXTENDS DemuxTrace, FiniteSetsExt

TextCell(b)    == [kind |-> "text", val |-> <<b>>]
LiteralCell(s) == [kind |-> "literal", val |-> s]
FrameCell(s)   == [kind |-> "frame", val |-> s]

TextCells(block) == [i \in DOMAIN block |-> TextCell(block[i])]

\* The delimiter that ends the block after position p, or the end of the stream.
BlockEnd(s, p) == Min({i \in p + 1 .. Len(s) : s[i] = NUL} \cup {Len(s) + 1})

\* The cells of stream s after position p, where a block begins that is read in
\* the given mode; `cells` has those of the later positions.
CellsFrom(s, p, mode, cells) ==
  LET end   == BlockEnd(s, p)
      open  == end > Len(s)
      block == SubSeq(s, p + 1, end - 1)
      v     == Validate(block)
  IN  CASE mode = "text" ->
             TextCells(block) \o (IF open THEN << >> ELSE cells[end]["frame"])
        [] mode = "frame" /\ Len(block) > FrameMax ->
             <<LiteralCell(SubSeq(block, 1, FrameMax))>> \o cells[p + FrameMax]["text"]
        [] mode = "frame" /\ Len(block) <= FrameMax ->
             IF open THEN << >>
             ELSE IF block = << >> THEN cells[end]["frame"]
             ELSE IF v.outcome = "ready" THEN <<FrameCell(v.out)>> \o cells[end]["text"]
             ELSE <<LiteralCell(v.out)>> \o cells[end]["frame"]

RefCells(s) ==
  LET cells[p \in 0 .. Len(s)] == [mode \in {"text", "frame"} |-> CellsFrom(s, p, mode, cells)]
  IN  cells

\* The byte of text before the i-th cell, whatever frames and pushed-back bytes
\* lie between, is a CR.
AfterCR(cells, i) ==
  \E k \in 1 .. i - 1 : /\ cells[k] = TextCell(CR)
                        /\ \A m \in k + 1 .. i - 1 : cells[m].kind # "text"

EndsLine(cells, i) ==
  cells[i] = TextCell(CR) \/ (cells[i] = TextCell(LF) /\ ~AfterCR(cells, i))

IsChars(c) == c.kind = "literal" \/ (c.kind = "text" /\ c \notin {TextCell(CR), TextCell(LF)})

\* The line of these characters, cut to the room of the line buffer.
RefLine(chars) ==
  LET kept == IF Len(chars) < LineMax THEN Len(chars) ELSE LineMax - 1
  IN  [kind |-> "text_line", data |-> SubSeq(chars, 1, kept), truncated |-> kept < Len(chars)]

\* What the i-th cell adds to what has been read: the characters since the last
\* line end, and the events.
ReadCell(cells, i, read) ==
  CASE cells[i].kind = "frame" ->
         [read EXCEPT !.events = Append(@, FrameEvent(cells[i].val))]
    [] EndsLine(cells, i) ->
         [chars |-> << >>, events |-> Append(read.events, RefLine(read.chars))]
    [] IsChars(cells[i]) -> [read EXCEPT !.chars = @ \o cells[i].val]
    [] OTHER -> read

Reading(cells) ==
  LET read[i \in 0 .. Len(cells)] ==
        IF i = 0 THEN [chars |-> << >>, events |-> << >>] ELSE ReadCell(cells, i, read[i - 1])
  IN  read

RefEvents(s) == LET cells == RefCells(s)[0]["text"] IN Reading(cells)[Len(cells)].events

\* Whatever bytes arrive, in whatever order of text, delimiters, good frames,
\* garbage and overlong blocks, the events are those of the declarative reading:
\* no completed line and no valid frame is lost, duplicated or reordered by an
\* error recovery, and reset() leaves nothing behind that changes what follows.
EventsMatchReference == events = RefEvents(stream)
=============================================================================
