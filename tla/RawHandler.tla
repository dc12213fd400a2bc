------------------------------ MODULE RawHandler -------------------------------
(***************************************************************************)
(* A handler bound with bind_raw: it reads the parameters of its call      *)
(* through args.reader(), in whatever order and with whatever types it     *)
(* likes, with an error() check only when it sees fit.  A read is one      *)
(* step; skip() is a loop, one step per turn.  `last` is the last read     *)
(* that ended: what was asked, where it began, and what came of it.        *)
(***************************************************************************)
EXTENDS MsgpackReference

CONSTANTS
  SizeWidth,        \* bytes of the device's size_t
  DoubleIsFloat,    \* a double has 32 bits (avr-gcc)
  IntWidths,        \* widths of the integer types a handler reads
  Capacities        \* sizes of the buffers a handler copies strings into

ASSUME HandlerAssumption ==
  /\ SizeWidth \in Nat /\ SizeWidth >= W16 /\ DoubleIsFloat \in BOOLEAN
  /\ IntWidths \subseteq Nat \ {0} /\ Capacities \subseteq 0 .. Span(SizeWidth) - 1

VARIABLES
  reader,   \* Args::_reader
  owed,     \* remaining_objects of a skip() in progress, 0 when there is none
  saved,    \* where that skip() began
  last      \* the last read that ended

rawVars == << reader, owed, saved, last >>

NoRead == [op |-> [name |-> "none"], from |-> 0, ok |-> FALSE, yields |-> 0]

Ops ==
  {[name |-> n] : n \in {"nil", "bool", "float", "double", "str", "bin", "array", "map"}}
    \cup [name : {"signed", "unsigned"}, w : IntWidths] \cup [name : {"str_into"}, cap : Capacities]

Apply(op, r) == Read(op, r, SizeWidth, DoubleIsFloat)

RawInit == reader = Reader(<< >>) /\ owed = 0 /\ saved = 0 /\ last = NoRead

\* The handler is called with a reader positioned at the first parameter.
Called(r) == reader' = r /\ owed' = 0 /\ saved' = 0 /\ last' = NoRead

ReadOne(op) ==
  /\ owed = 0
  /\ \E x \in {Apply(op, reader)} :
        /\ reader' = x.r
        /\ last' = [op |-> op, from |-> reader.pos, ok |-> x.ok, yields |-> x.out]
  /\ UNCHANGED << owed, saved >>

\* skip() does nothing after an error.
BeginSkip ==
  /\ owed = 0 /\ ~reader.error
  /\ owed' = 1 /\ saved' = reader.pos
  /\ UNCHANGED << reader, last >>

Skip ==
  /\ owed > 0
  /\ \E turn \in {SkipTurn(reader, owed, saved, SizeWidth)} :
        /\ reader' = turn.r
        /\ owed' = turn.owed
        /\ last' = IF turn.owed > 0 THEN last
                   ELSE [op |-> [name |-> "skip"], from |-> saved, ok |-> ~turn.r.error, yields |-> 0]
  /\ UNCHANGED saved

HandlerReads == (\E op \in Ops : ReadOne(op)) \/ BeginSkip \/ Skip

\* What a handler may rely on when it is called: its reader is somewhere in the
\* payload, and no read has failed yet.
Readers == {r \in [buf : Bytes, pos : Nat, error : BOOLEAN] : r.pos <= Len(r.buf)}
GetsReader == reader' \in Readers /\ ~reader'.error /\ Called(reader')

RawNext == GetsReader \/ HandlerReads

RawSpec == RawInit /\ [][RawNext]_rawVars

(***************************************************************************)
(* Properties.                                                             *)
(***************************************************************************)
RawTypeOK ==
  /\ reader.buf \in Bytes /\ reader.pos \in 0 .. Len(reader.buf) /\ reader.error \in BOOLEAN
  /\ owed \in 0 .. Span(SizeWidth) - 1 /\ saved \in 0 .. reader.pos
  /\ last.ok \in BOOLEAN /\ last.from \in 0 .. Len(reader.buf)

\* What the object at p, with header h, is to a read of one of the kinds: whether the read may
\* have it, what it yields and where it ends.
Expected(op, buf, p, h) ==
  LET Having(ok, out, end) == [ok |-> ok, out |-> out, end |-> end]
      None == Having(FALSE, 0, p)
      Content(max) == IF h.n <= max /\ h.next + h.n <= Len(buf) THEN Having(TRUE, SubSeq(buf, h.next + 1, h.next + h.n), h.next + h.n) ELSE None
      Number(lo, hi) == IF h.n \in lo .. hi THEN Having(TRUE, h.n, h.next) ELSE None
      Floating(narrows) ==
        CASE h.kind \in {"int", "uint"} -> Having(TRUE, FromInteger(h.n), h.next)
          [] h.format = "float32" -> Having(TRUE, Pattern32(h.n), h.next)
          [] h.format = "float64" -> Having(TRUE, IF narrows THEN Pattern32(RoundTowardZero(h.n)) ELSE Pattern64(h.n), h.next)
          [] OTHER -> None
  IN IF ~h.complete THEN None
     ELSE CASE op.name = "nil" /\ h.kind = "nil" -> Having(TRUE, 0, h.next)
            [] op.name = "bool" /\ h.kind = "boolean" -> Having(TRUE, h.n = 1, h.next)
            [] op.name = "signed" /\ h.kind \in {"int", "uint"} -> Number(-(Span(op.w) \div 2), Span(op.w) \div 2 - 1)
            [] op.name = "unsigned" /\ h.kind \in {"int", "uint"} -> Number(0, Span(op.w) - 1)
            [] op.name = "float" -> Floating(TRUE)
            [] op.name = "double" -> Floating(DoubleIsFloat)
            [] op.name \in {"str", "bin"} /\ h.kind = op.name -> Content(Span(SizeWidth) - 1)
            [] op.name = "str_into" /\ h.kind = "str" -> Content(op.cap - 1)
            [] op.name \in {"array", "map"} /\ h.kind = op.name /\ h.n < Span(SizeWidth) -> Having(TRUE, h.n, h.next)
            [] OTHER -> None

\* A read yields the object the received bytes hold at its position, and moves past
\* it, when the object is complete, of the kind asked for and in the range of the
\* type; any other read changes nothing but the error flag, also in the middle of an
\* object that is cut short and after earlier errors.
ReadsWhatIsThere ==
  (last.op.name \notin {"none", "skip"} /\ owed = 0) =>
    \E h \in {HeaderAt(reader.buf, last.from)} :
    \E expected \in {Expected(last.op, reader.buf, last.from, h)} :
       /\ last.ok = expected.ok /\ reader.pos = expected.end
       /\ last.ok => last.yields = expected.out
       /\ ~last.ok => reader.error

\* skip() ends exactly behind the object it began at, however deeply nested, or, if
\* that object is not complete, where it began, with the error flag set.
SkipTakesOneObject ==
  last.op.name = "skip" /\ owed = 0 =>
    LET end == ObjectEnd(reader.buf, last.from)
    IN /\ last.ok = (end # -1)
       /\ reader.pos = IF last.ok THEN end ELSE last.from

================================================================================
