-------------------------------- MODULE Msgpack --------------------------------
(***************************************************************************)
(* The MessagePack subset of msgpack_lite.h: a Writer that packs into a    *)
(* buffer of fixed capacity and a Reader that is a cursor over received    *)
(* bytes.  A byte is a number below Octets and the layout of the format    *)
(* bytes is the one of FormatByte, with the spans of the embedded values   *)
(* (fixint, fixmap, fixarray, fixstr) and the widths of the multi-byte     *)
(* fields as constants: 128, 16, 32, 32 and 2, 4, 8 in the code, smaller   *)
(* in a run.  A floating-point value is the number its bits stand for.     *)
(***************************************************************************)
EXTENDS Integers, Sequences, SequencesExt

CONSTANTS
  PosFixints,       \* positive fixints 0 .. PosFixints - 1
  FixCounts,        \* elements a fixarray or fixmap can announce: 0 .. FixCounts - 1
  FixLengths,       \* lengths of a fixstr: 0 .. FixLengths - 1
  NegFixints,       \* negative fixints -NegFixints .. -1
  W16, W32, W64,    \* bytes of a 16-, 32- and 64-bit field
  Mantissa32, Exponents32, Mantissa64, Exponents64  \* spans of the fields of a float and a double

FormatNames ==
  << "nil", "reserved", "false", "true", "bin8", "bin16", "bin32", "ext8", "ext16", "ext32",
     "float32", "float64", "uint8", "uint16", "uint32", "uint64", "int8", "int16", "int32", "int64",
     "fixext1", "fixext2", "fixext4", "fixext8", "fixext16", "str8", "str16", "str32",
     "array16", "array32", "map16", "map32" >>

kFixmapPrefix == PosFixints
kFixarrayPrefix == kFixmapPrefix + FixCounts
kFixstrPrefix == kFixarrayPrefix + FixCounts
kNil == kFixstrPrefix + FixLengths
kNegativeFixintMin == kNil + Len(FormatNames)
Octets == kNegativeFixintMin + NegFixints

Byte == 0 .. Octets - 1
Bytes == Seq(Byte)

ASSUME LayoutAssumption ==
  /\ {PosFixints, FixCounts, FixLengths, NegFixints} \subseteq Nat \ {0}
  /\ W16 \in Nat /\ W32 \in Nat /\ W64 \in Nat /\ 1 < W16 /\ W16 < W32 /\ W32 < W64
  /\ Octets % 2 = 0 /\ PosFixints <= Octets \div 2 /\ NegFixints <= Octets \div 2
  /\ {Mantissa32, Exponents32, Mantissa64, Exponents64} \subseteq Nat \ {0}
  /\ Mantissa64 % Mantissa32 = 0 /\ 2 < Exponents32 /\ Exponents32 <= Exponents64

\* The format byte of a name, and the name of a format byte.
FormatByte == [name \in ToSet(FormatNames) |-> kNil + (CHOOSE i \in DOMAIN FormatNames : FormatNames[i] = name) - 1]

FormatOf(b) ==
  IF b < kFixmapPrefix THEN "posfixint"
  ELSE IF b < kFixarrayPrefix THEN "fixmap"
  ELSE IF b < kFixstrPrefix THEN "fixarray"
  ELSE IF b < kNil THEN "fixstr"
  ELSE IF b < kNegativeFixintMin THEN FormatNames[b - kNil + 1]
  ELSE "negfixint"

\* Width of the number or length that follows a format byte.
UnsignedWidth == [uint8 |-> 1, uint16 |-> W16, uint32 |-> W32, uint64 |-> W64]
SignedWidth == [int8 |-> 1, int16 |-> W16, int32 |-> W32, int64 |-> W64]
FloatWidth == [float32 |-> W32, float64 |-> W64]
LengthWidth ==
  [str8 |-> 1, str16 |-> W16, str32 |-> W32, bin8 |-> 1, bin16 |-> W16, bin32 |-> W32,
   ext8 |-> 1, ext16 |-> W16, ext32 |-> W32, array16 |-> W16, array32 |-> W32,
   map16 |-> W16, map32 |-> W32]
FixextLength == [fixext1 |-> 1, fixext2 |-> 2, fixext4 |-> 4, fixext8 |-> 8, fixext16 |-> 16]

\* The numbers that w bytes hold are those below Span(w).
Power(base, n) ==
  LET power[i \in Nat] == IF i = 0 THEN 1 ELSE base * power[i - 1] IN power[n]

Span(w) == Power(Octets, w)

\* In(value), evaluating value once.
Let(value, In(_)) == CHOOSE x \in {In(v) : v \in {value}} : TRUE

\* The w big-endian bytes of v, in two's complement when v is negative.
Digits(v, w) == [i \in 1 .. w |-> ((v % Span(w)) \div Span(w - i)) % Octets]

BigEndian(bytes) ==
  LET number[n \in 0 .. Len(bytes)] == IF n = 0 THEN 0 ELSE number[n - 1] * Octets + bytes[n]
  IN  number[Len(bytes)]

(***************************************************************************)
(* Floating-point bits: sign, biased exponent, mantissa.                   *)
(***************************************************************************)
Bits32(sign, exponent, mantissa) == (sign * Exponents32 + exponent) * Mantissa32 + mantissa

narrow_f64_bits_to_f32_bits(bits) ==
  LET mantissa == bits % Mantissa64
      biased == (bits \div Mantissa64) % Exponents64
      sign == (bits \div (Mantissa64 * Exponents64)) % 2
      exponent == biased - Exponents64 \div 2 + Exponents32 \div 2
      infinity == Bits32(sign, Exponents32 - 1, 0)
  IN CASE biased = Exponents64 - 1 -> infinity + (IF mantissa # 0 THEN Mantissa32 \div 2 ELSE 0)
       [] biased = 0 -> Bits32(sign, 0, 0)
       [] biased \in 1 .. Exponents64 - 2 /\ exponent >= Exponents32 - 1 -> infinity
       [] biased \in 1 .. Exponents64 - 2 /\ exponent <= 0 -> Bits32(sign, 0, 0)
       [] OTHER -> Bits32(sign, exponent, mantissa \div (Mantissa64 \div Mantissa32))

(***************************************************************************)
(* Writer.  A byte that does not fit is dropped and overflow is sticky, so *)
(* what is written is always a prefix of what should have been.            *)
(***************************************************************************)
Writer(cap) == [out |-> << >>, cap |-> cap, overflow |-> FALSE]

Put(w, bytes) ==
  LET room == w.cap - Len(w.out)
  IN IF Len(bytes) <= room THEN [w EXCEPT !.out = @ \o bytes]
     ELSE [w EXCEPT !.out = @ \o SubSeq(bytes, 1, room), !.overflow = TRUE]

pack_nil(w) == Put(w, << FormatByte["nil"] >>)
pack_bool(w, v) == Put(w, << FormatByte[IF v THEN "true" ELSE "false"] >>)

pack_uint_(w, v) ==
  IF v < PosFixints THEN Put(w, << v >>)
  ELSE LET name == IF v < Octets THEN "uint8" ELSE IF v < Span(W16) THEN "uint16"
                   ELSE IF v < Span(W32) THEN "uint32" ELSE "uint64"
       IN Put(w, << FormatByte[name] >> \o Digits(v, UnsignedWidth[name]))

pack_int_(w, v) ==
  IF v >= 0 THEN pack_uint_(w, v)
  ELSE IF v >= -NegFixints THEN Put(w, Digits(v, 1))
  ELSE LET name == IF v >= -(Octets \div 2) THEN "int8" ELSE IF v >= -(Span(W16) \div 2) THEN "int16"
                   ELSE IF v >= -(Span(W32) \div 2) THEN "int32" ELSE "int64"
       IN Put(w, << FormatByte[name] >> \o Digits(v, SignedWidth[name]))

pack_float(w, bits) == Put(w, << FormatByte["float32"] >> \o Digits(bits, W32))

\* On AVR a double is a float and bits are its 32-bit pattern.
pack_double(w, bits, doubleIsFloat) ==
  IF doubleIsFloat THEN pack_float(w, bits) ELSE Put(w, << FormatByte["float64"] >> \o Digits(bits, W64))

\* The *32 header exists only where size_t, of sizeWidth bytes, is wider than 16 bits.
Header16(n, name16, name32, sizeWidth) ==
  IF n < Span(W16) \/ sizeWidth <= W16
  THEN << FormatByte[name16] >> \o Digits(n, W16)
  ELSE << FormatByte[name32] >> \o Digits(n, W32)

pack_str(w, s, sizeWidth) ==
  LET header == IF Len(s) < FixLengths THEN << kFixstrPrefix + Len(s) >>
                ELSE IF Len(s) < Octets THEN << FormatByte["str8"], Len(s) >>
                ELSE Header16(Len(s), "str16", "str32", sizeWidth)
  IN Put(w, header \o s)

pack_bin(w, s, sizeWidth) ==
  LET header == IF Len(s) < Octets THEN << FormatByte["bin8"], Len(s) >>
                ELSE Header16(Len(s), "bin16", "bin32", sizeWidth)
  IN Put(w, header \o s)

pack_array(w, n, sizeWidth) ==
  Put(w, IF n < FixCounts THEN << kFixarrayPrefix + n >> ELSE Header16(n, "array16", "array32", sizeWidth))

pack_map(w, n, sizeWidth) ==
  Put(w, IF n < FixCounts THEN << kFixmapPrefix + n >> ELSE Header16(n, "map16", "map32", sizeWidth))

(***************************************************************************)
(* Reader.  A read yields the reader it leaves, whether it succeeded, and  *)
(* what it wrote to its output parameter.  Of all the reads only type()    *)
(* and skip() look at an error of an earlier one.                          *)
(***************************************************************************)
Reader(bytes) == [buf |-> bytes, pos |-> 0, error |-> FALSE]

Remaining(r) == Len(r.buf) - r.pos
Peek(r) == FormatOf(r.buf[r.pos + 1])
fail_(r, saved) == [r EXCEPT !.error = TRUE, !.pos = saved]

Failed(r, saved) == [r |-> fail_(r, saved), ok |-> FALSE, out |-> 0]
Got(r, value) == [r |-> r, ok |-> TRUE, out |-> value]

get_bytes_(r, n) ==
  IF Remaining(r) < n THEN Failed(r, r.pos)
  ELSE Got([r EXCEPT !.pos = @ + n], SubSeq(r.buf, r.pos + 1, r.pos + n))

\* The number in the next w bytes, read by the read that began at saved.
get_number_(r, w, saved, Meaning(_)) ==
  IF Remaining(r) < w THEN Failed(r, saved)
  ELSE Got([r EXCEPT !.pos = @ + w], Meaning(BigEndian(SubSeq(r.buf, r.pos + 1, r.pos + w))))

Unsigned(v) == v
TwosComplement(v, w) == IF v >= Span(w) \div 2 THEN v - Span(w) ELSE v

\* Past the format byte.
Past(r) == [r EXCEPT !.pos = @ + 1]

TypeOf(format) ==
  CASE format = "posfixint" \/ format \in DOMAIN UnsignedWidth -> "uint"
    [] format = "negfixint" \/ format \in DOMAIN SignedWidth -> "int"
    [] format \in DOMAIN FloatWidth -> "float"
    [] format \in {"true", "false"} -> "boolean"
    [] format \in {"fixstr", "str8", "str16", "str32"} -> "str"
    [] format \in {"bin8", "bin16", "bin32"} -> "bin"
    [] format \in {"fixarray", "array16", "array32"} -> "array"
    [] format \in {"fixmap", "map16", "map32"} -> "map"
    [] format \in {"ext8", "ext16", "ext32"} \cup DOMAIN FixextLength -> "ext"
    [] format = "nil" -> "nil"
    [] format = "reserved" -> "invalid"

type(r) == IF r.error \/ Remaining(r) = 0 THEN "invalid" ELSE TypeOf(Peek(r))

read_nil(r) ==
  IF Remaining(r) = 0 \/ Peek(r) # "nil" THEN Failed(r, r.pos) ELSE Got(Past(r), 0)

read_bool(r) ==
  IF Remaining(r) = 0 \/ Peek(r) \notin {"true", "false"} THEN Failed(r, r.pos)
  ELSE Got(Past(r), Peek(r) = "true")

\* Sign and magnitude of the next object, which must be an integer, as one number.
read_raw_magnitude_(r) ==
  IF Remaining(r) = 0 \/ TypeOf(Peek(r)) \notin {"uint", "int"} THEN Failed(r, r.pos)
  ELSE IF Peek(r) = "posfixint" THEN Got(Past(r), r.buf[r.pos + 1])
  ELSE IF Peek(r) = "negfixint" THEN Got(Past(r), r.buf[r.pos + 1] - Octets)
  ELSE IF Peek(r) \in DOMAIN UnsignedWidth THEN get_number_(Past(r), UnsignedWidth[Peek(r)], r.pos, Unsigned)
  ELSE LET w == SignedWidth[Peek(r)] IN get_number_(Past(r), w, r.pos, LAMBDA v : TwosComplement(v, w))

\* Mutant: a number out of range is consumed.
InRangeOrConsumed(number, range, saved) ==
  IF number.ok /\ number.out \notin range THEN Failed(number.r, number.r.pos) ELSE number

InRange(number, range, saved) == IF number.ok /\ number.out \notin range THEN Failed(number.r, saved) ELSE number

read_signed_(r, w) == InRange(read_raw_magnitude_(r), -(Span(w) \div 2) .. (Span(w) \div 2) - 1, r.pos)
read_unsigned_(r, w) == InRange(read_raw_magnitude_(r), 0 .. Span(w) - 1, r.pos)

\* A float holds a bit pattern, or the integer it was converted from.
Pattern32(bits) == [from |-> "float32", v |-> bits]
Pattern64(bits) == [from |-> "float64", v |-> bits]
FromInteger(v) == [from |-> "integer", v |-> v]

Pattern(format, bits, narrows) ==
  IF format = "float32" THEN Pattern32(bits)
  ELSE IF narrows THEN Pattern32(narrow_f64_bits_to_f32_bits(bits)) ELSE Pattern64(bits)

read_floating_(r, narrows) ==
  IF Remaining(r) = 0 THEN Failed(r, r.pos)
  ELSE IF Peek(r) \in DOMAIN FloatWidth
  THEN get_number_(Past(r), FloatWidth[Peek(r)], r.pos, LAMBDA bits : Pattern(Peek(r), bits, narrows))
  ELSE LET number == read_raw_magnitude_(r)
       IN IF number.ok THEN [number EXCEPT !.out = FromInteger(@)] ELSE number

read_float(r) == read_floating_(r, TRUE)
read_double(r, doubleIsFloat) == read_floating_(r, doubleIsFloat)

\* The announced length of an object of one of the formats, read past its header.
read_header_(r, formats, fixPrefix, sizeWidth) ==
  IF Remaining(r) = 0 \/ Peek(r) \notin formats THEN Failed(r, r.pos)
  ELSE IF Peek(r) \notin DOMAIN LengthWidth THEN Got(Past(r), r.buf[r.pos + 1] - fixPrefix)
  ELSE InRange(get_number_(Past(r), LengthWidth[Peek(r)], r.pos, Unsigned), 0 .. Span(sizeWidth) - 1, r.pos)

read_str_header_(r, sizeWidth) == read_header_(r, {"fixstr", "str8", "str16", "str32"}, kFixstrPrefix, sizeWidth)
read_bin_header_(r, sizeWidth) == read_header_(r, {"bin8", "bin16", "bin32"}, 0, sizeWidth)
read_array(r, sizeWidth) == read_header_(r, {"fixarray", "array16", "array32"}, kFixarrayPrefix, sizeWidth)
read_map(r, sizeWidth) == read_header_(r, {"fixmap", "map16", "map32"}, kFixmapPrefix, sizeWidth)

\* The payload a header announced, of at most max bytes, of the read that began at saved.
Payload(header, max, saved) ==
  IF header.ok /\ (header.out > max \/ header.out > Remaining(header.r)) THEN Failed(header.r, saved)
  ELSE IF header.ok THEN get_bytes_(header.r, header.out) ELSE header

read_str(r, sizeWidth) == Payload(read_str_header_(r, sizeWidth), Span(sizeWidth), r.pos)
read_bin(r, sizeWidth) == Payload(read_bin_header_(r, sizeWidth), Span(sizeWidth), r.pos)

\* The copying read_str: the string and its NUL must fit in cap bytes.
read_str_into(r, cap, sizeWidth) == Payload(read_str_header_(r, sizeWidth), cap - 1, r.pos)

\* One of the reads: by kind, and width or capacity.
Read(op, r, sizeWidth, doubleIsFloat) ==
  CASE op.name = "nil" -> read_nil(r)
    [] op.name = "bool" -> read_bool(r)
    [] op.name = "float" -> read_float(r)
    [] op.name = "double" -> read_double(r, doubleIsFloat)
    [] op.name = "str" -> read_str(r, sizeWidth)
    [] op.name = "bin" -> read_bin(r, sizeWidth)
    [] op.name = "array" -> read_array(r, sizeWidth)
    [] op.name = "map" -> read_map(r, sizeWidth)
    [] op.name = "signed" -> read_signed_(r, op.w)
    [] op.name = "unsigned" -> read_unsigned_(r, op.w)
    [] op.name = "str_into" -> read_str_into(r, op.cap, sizeWidth)

(***************************************************************************)
(* One turn of the loop of skip(), which owes `owed` objects and began at  *)
(* saved.  It computes lengths and the count in size_t, without a check    *)
(* but for the 32-bit lengths of strings, binaries and exts.               *)
(***************************************************************************)
Skipping(r, owed) == [r |-> r, owed |-> owed]
\* Mutant: the cursor stays where the skip failed.
SkipFailsInPlace(r, saved) == Skipping(fail_(r, r.pos), 0)

SkipFails(r, saved) == Skipping(fail_(r, saved), 0)

\* An object of n bytes, of which the first `seen` must be there to compute n.
SkipBytes(r, owed, saved, seen, n, fits) ==
  IF Remaining(r) < seen \/ ~fits \/ Remaining(r) < n THEN SkipFails(r, saved)
  ELSE Skipping([r EXCEPT !.pos = @ + n], owed - 1)

\* A container whose header is n bytes long and announces `more` objects.
SkipHeader(r, owed, saved, n, more, sizeWidth) ==
  IF Remaining(r) < n THEN SkipFails(r, saved)
  ELSE Skipping([r EXCEPT !.pos = @ + n], (owed + more - 1) % Span(sizeWidth))

\* The length in the bytes after the format byte, or 0 if they are not there.
LengthAt(r, w) ==
  IF Remaining(r) < 1 + w THEN 0 ELSE BigEndian(SubSeq(r.buf, r.pos + 2, r.pos + 1 + w))

SkipTurn(r, owed, saved, sizeWidth) ==
  IF Remaining(r) = 0 THEN SkipFails(r, saved)
  ELSE LET format == Peek(r)
           kind == TypeOf(format)
           w == IF format \in DOMAIN LengthWidth THEN LengthWidth[format] ELSE 0
           n == IF w > 0 THEN LengthAt(r, w)
                ELSE CASE format = "fixmap" -> r.buf[r.pos + 1] - kFixmapPrefix
                       [] format = "fixarray" -> r.buf[r.pos + 1] - kFixarrayPrefix
                       [] format = "fixstr" -> r.buf[r.pos + 1] - kFixstrPrefix
                       [] format \in DOMAIN FixextLength -> FixextLength[format]
                       [] OTHER -> 0
           head == 1 + w + (IF kind = "ext" THEN 1 ELSE 0)
           fits == w # W32 \/ n < Span(sizeWidth) - head
       IN CASE kind = "invalid" -> SkipFails(r, saved)
            [] format \in DOMAIN UnsignedWidth -> SkipBytes(r, owed, saved, 1, 1 + UnsignedWidth[format], TRUE)
            [] format \in DOMAIN SignedWidth -> SkipBytes(r, owed, saved, 1, 1 + SignedWidth[format], TRUE)
            [] kind = "float" -> SkipBytes(r, owed, saved, 1, 1 + FloatWidth[format], TRUE)
            [] kind \in {"str", "bin", "ext"} ->
                 SkipBytes(r, owed, saved, 1 + w, (head + n) % Span(sizeWidth), fits)
            [] kind = "array" -> SkipHeader(r, owed, saved, head, n, sizeWidth)
            [] kind = "map" -> SkipHeader(r, owed, saved, head, 2 * n, sizeWidth)
            [] OTHER -> SkipBytes(r, owed, saved, 1, 1, TRUE)

================================================================================
