--------------------------- MODULE MsgpackReference ----------------------------
(***************************************************************************)
(* What MessagePack says of a byte string, independent of Reader and       *)
(* Writer: the object that begins at a position (counted from 0), and      *)
(* where it ends.                                                          *)
(***************************************************************************)
EXTENDS Msgpack

NoObject == [complete |-> FALSE]

\* The unsigned number in the w bytes from position p on.
NumberAt(buf, p, w) == BigEndian(SubSeq(buf, p + 1, p + w))

\* The bytes of the number or length after a format byte.
NumberWidth(format) ==
  CASE format \in DOMAIN LengthWidth -> LengthWidth[format]
    [] format \in DOMAIN UnsignedWidth -> UnsignedWidth[format]
    [] format \in DOMAIN SignedWidth -> SignedWidth[format]
    [] format \in DOMAIN FloatWidth -> FloatWidth[format]
    [] OTHER -> 0

\* The number a format byte holds by itself.
Inline(b) ==
  CASE FormatOf(b) = "fixmap" -> b - PosFixints
    [] FormatOf(b) = "fixarray" -> b - PosFixints - FixCounts
    [] FormatOf(b) = "fixstr" -> b - PosFixints - 2 * FixCounts
    [] FormatOf(b) = "posfixint" -> b
    [] FormatOf(b) = "negfixint" -> b - Octets
    [] FormatOf(b) = "true" -> 1
    [] FormatOf(b) \in DOMAIN FixextLength -> FixextLength[FormatOf(b)]
    [] OTHER -> 0

\* Header of the object at p: its kind, the position after the header, and
\* the number it holds or announces; NoObject if it is not all there.
HeaderAt(buf, p) ==
  IF p >= Len(buf) THEN NoObject
  ELSE LET b == buf[p + 1]
           format == FormatOf(b)
           w == NumberWidth(format)
           raw == NumberAt(buf, p + 1, w)
           n == IF w = 0 THEN Inline(b)
                ELSE IF format \in DOMAIN SignedWidth /\ 2 * raw >= Span(w) THEN raw - Span(w) ELSE raw
       IN IF format = "reserved" \/ p + 1 + w > Len(buf) THEN NoObject
          ELSE [complete |-> TRUE, kind |-> TypeOf(format), format |-> format, next |-> p + 1 + w, n |-> n]

\* The bytes behind a header that belong to its object, and the objects in it.
PayloadLength(h) == CASE h.kind \in {"str", "bin"} -> h.n [] h.kind = "ext" -> h.n + 1 [] OTHER -> 0
ObjectsInside(h) == CASE h.kind = "array" -> h.n [] h.kind = "map" -> 2 * h.n [] OTHER -> 0

\* The position after `owed` objects from p on, or -1 if they are not all there.
ObjectsEnd(buf) ==
  LET end[p \in 0 .. Len(buf)] ==
        [owed \in Nat |->
           IF owed = 0 THEN p
           ELSE LET h == HeaderAt(buf, p)
                IN  IF ~h.complete THEN -1
                    ELSE IF h.next + PayloadLength(h) > Len(buf) THEN -1
                    ELSE end[h.next + PayloadLength(h)][owed - 1 + ObjectsInside(h)]]
  IN  end

ObjectEnd(buf, p) == ObjectsEnd(buf)[p][1]

(***************************************************************************)
(* Rounding a double toward zero: the largest normal float that does not   *)
(* exceed it in magnitude, zero below the normal floats, infinity from the *)
(* first power of two beyond them.                                         *)
(***************************************************************************)
Scale == Exponents64 \div 2 - Exponents32 \div 2
Magnitude64(exponent, mantissa) == (Mantissa64 + mantissa) * Power(2, exponent - 1)
Magnitude32(exponent, mantissa) == (Mantissa32 + mantissa) * (Mantissa64 \div Mantissa32) * Power(2, exponent + Scale - 1)

RoundTowardZero(bits) ==
  LET mantissa == bits % Mantissa64
      exponent == (bits \div Mantissa64) % Exponents64
      sign == (bits \div (Mantissa64 * Exponents64)) % 2
      Normal == {<< e, m >> : e \in 1 .. Exponents32 - 2, m \in 0 .. Mantissa32 - 1}
      Below == {x \in Normal : Magnitude32(x[1], x[2]) <= Magnitude64(exponent, mantissa)}
      nearest == CHOOSE x \in Below : \A y \in Below : Magnitude32(y[1], y[2]) <= Magnitude32(x[1], x[2])
      Float(e, m) == sign * Exponents32 * Mantissa32 + e * Mantissa32 + m
  IN CASE exponent = Exponents64 - 1 /\ mantissa # 0 -> Float(Exponents32 - 1, Mantissa32 \div 2)
       [] exponent = Exponents64 - 1 /\ mantissa = 0 -> Float(Exponents32 - 1, 0)
       [] exponent = 0 -> Float(0, 0)
       [] exponent \in 1 .. Exponents64 - 2 /\ Magnitude64(exponent, mantissa) >= Magnitude32(Exponents32 - 1, 0) ->
            Float(Exponents32 - 1, 0)
       [] exponent \in 1 .. Exponents64 - 2 /\ Below = {} -> Float(0, 0)
       [] OTHER -> Float(nearest[1], nearest[2])

================================================================================
