--------------------------- MODULE MsgpackProofs ---------------------------
(***************************************************************************)
(* Proofs about RawHandler, and so about each read of msgpack::Reader, for *)
(* every payload, every order of reads, with or without checks of error(), *)
(* and every width of size_t: a read gives what the bytes hold at its      *)
(* position, and skip() takes exactly one object where the counts it adds  *)
(* up fit in a size_t.                                                     *)
(***************************************************************************)
EXTENDS RawHandler, SequenceTheorems, WellFoundedInduction, TLAPS

-----------------------------------------------------------------------------
(* Induction and recursion over the naturals, with sets and functions in    *)
(* the place of the operators of the library's theorems.                    *)

LEMMA LeastNumber ==
  ASSUME NEW T \in SUBSET Nat, T # {}
  PROVE  \E x \in T : \A y \in T : x <= y
<1>1. PICK x \in T : \A y \in T : ~(<<y, x>> \in OpToRel(<, Nat))
  BY NatLessThanWellFounded, WFMin
<1>2. ASSUME NEW y \in T PROVE x <= y
  <2>1. ~(y < x)
    BY <1>1 DEF OpToRel
  <2> QED
    BY <2>1
<1> QED
  BY <1>2

LEMMA Induction ==
  ASSUME NEW T \in SUBSET Nat, 0 \in T, \A n \in T : n + 1 \in T
  PROVE  T = Nat
<1> SUFFICES ASSUME Nat \ T # {} PROVE FALSE
  OBVIOUS
<1>1. PICK x \in Nat \ T : \A y \in Nat \ T : x <= y
  BY LeastNumber
<1>2. x # 0 /\ x - 1 \in Nat
  BY <1>1
<1>3. x - 1 \in T
  BY <1>1, <1>2
<1> QED
  BY <1>1, <1>3

\* Repeating step from first on: the n-th step may depend on n.
Steps(S) == [Nat -> [S -> S]]
Iteration(S, first, step, g) == /\ g \in [Nat -> S] /\ g[0] = first
                                /\ \A n \in Nat : g[n + 1] = step[n][g[n]]

LEMMA Iterates ==
  ASSUME NEW S, NEW first \in S, NEW step \in Steps(S)
  PROVE  \E g : Iteration(S, first, step, g)
<1> USE DEF Steps
<1> DEFINE From(g, n) == /\ g \in [0 .. n -> S] /\ g[0] = first
                         /\ \A i \in 0 .. n - 1 : g[i + 1] = step[i][g[i]]
           T == {n \in Nat : \E g : From(g, n)}
<1>1. 0 \in T
  <2>1. From([i \in 0 .. 0 |-> first], 0)
    OBVIOUS
  <2> QED
    BY <2>1
<1>2. ASSUME NEW n \in T PROVE n + 1 \in T
  <2>1. PICK g : From(g, n)
    OBVIOUS
  <2>2. DEFINE h == [i \in 0 .. n + 1 |-> IF i = n + 1 THEN step[n][g[n]] ELSE g[i]]
  <2>3. step[n][g[n]] \in S
    BY <2>1
  <2>4. h \in [0 .. n + 1 -> S] /\ h[0] = first
    BY <2>1, <2>3
  <2>5. ASSUME NEW i \in 0 .. n PROVE h[i + 1] = step[i][h[i]]
    BY <2>1
  <2> HIDE DEF h
  <2>6. n + 1 \in Nat /\ (n + 1) - 1 = n
    OBVIOUS
  <2>7. From(h, n + 1)
    BY <2>4, <2>5, <2>6
  <2> QED
    BY <2>6, <2>7
<1>3. T = Nat
  <2> HIDE DEF T
  <2>1. T \in SUBSET Nat
    BY DEF T
  <2> QED
    BY <1>1, <1>2, <2>1, Induction
<1>4. ASSUME NEW n \in Nat, NEW k \in Nat, n <= k, NEW g, NEW h, From(g, n), From(h, k)
      PROVE  \A i \in 0 .. n : g[i] = h[i]
  <2> DEFINE U == {i \in Nat : i <= n => g[i] = h[i]}
  <2>1. 0 \in U
    BY <1>4
  <2>2. ASSUME NEW i \in U PROVE i + 1 \in U
    BY <1>4
  <2>3. U = Nat
    <3> HIDE DEF U
    <3>1. U \in SUBSET Nat
      BY DEF U
    <3> QED
      BY <2>1, <2>2, <3>1, Induction
  <2> QED
    BY <2>3
<1> DEFINE G(n) == CHOOSE g : From(g, n)
           f == [n \in Nat |-> G(n)[n]]
<1>5. \A n \in Nat : From(G(n), n)
  BY <1>3
<1> HIDE DEF G
<1>6. f \in [Nat -> S]
  BY <1>5
<1>7. f[0] = first
  BY <1>5
<1>8. ASSUME NEW n \in Nat PROVE f[n + 1] = step[n][f[n]]
  <2>1. G(n + 1)[n + 1] = step[n][G(n + 1)[n]]
    BY <1>5
  <2>2. G(n)[n] = G(n + 1)[n]
    <3> HIDE DEF From
    <3>1. From(G(n), n) /\ From(G(n + 1), n + 1) /\ n \in 0 .. n /\ n <= n + 1 /\ n + 1 \in Nat
      BY <1>5
    <3> QED
      BY <1>4, <3>1
  <2> QED
    BY <2>1, <2>2
<1> HIDE DEF f
<1> QED
  BY <1>6, <1>7, <1>8 DEF Iteration

-----------------------------------------------------------------------------
(* Powers, and the spans of the fields.                                     *)

LEMMA Powers ==
  ASSUME NEW b \in Nat
  PROVE  /\ \A n \in Nat : Power(b, n) \in Nat
         /\ Power(b, 0) = 1
         /\ \A n \in Nat : Power(b, n + 1) = b * Power(b, n)
<1> DEFINE step == [n \in Nat |-> [v \in Nat |-> b * v]]
           Is(p) == p = [i \in Nat |-> IF i = 0 THEN 1 ELSE b * p[i - 1]]
           power == CHOOSE p : Is(p)
<1>1. step \in [Nat -> [Nat -> Nat]]
  OBVIOUS
<1>2. PICK g : Iteration(Nat, 1, step, g)
  <2>1. step \in Steps(Nat) /\ 1 \in Nat
    BY <1>1 DEF Steps
  <2> HIDE DEF step
  <2> QED
    BY <2>1, Iterates
<1>3. \A n \in Nat : g[n + 1] = b * g[n]
  BY <1>2 DEF Iteration
<1>4. Is(g)
  <2>1. ASSUME NEW i \in Nat, i # 0 PROVE g[i] = b * g[i - 1]
    <3>1. i - 1 \in Nat /\ (i - 1) + 1 = i
      BY <2>1
    <3> QED
      BY <1>3, <3>1
  <2> QED
    BY <1>2, <2>1 DEF Iteration
<1>5. Is(power)
  BY <1>4
<1>6. \A n \in Nat : Power(b, n) = power[n]
  BY DEF Power
<1> HIDE DEF power
<1>7. power[0] = 1 /\ \A n \in Nat : power[n + 1] = b * power[n]
  BY <1>5
<1>8. \A n \in Nat : power[n] \in Nat
  <2> DEFINE T == {n \in Nat : power[n] \in Nat}
  <2>1. 0 \in T /\ \A n \in T : n + 1 \in T
    BY <1>7
  <2>2. T = Nat
    <3> HIDE DEF T
    <3>1. T \in SUBSET Nat
      BY DEF T
    <3> QED
      BY <2>1, <3>1, Induction
  <2> QED
    BY <2>2
<1> QED
  BY <1>6, <1>7, <1>8

-----------------------------------------------------------------------------
(* The layout of the format bytes.                                          *)

Layout ==
  /\ PosFixints \in Nat /\ FixCounts \in Nat /\ FixLengths \in Nat /\ NegFixints \in Nat
  /\ PosFixints > 0 /\ FixCounts > 0 /\ FixLengths > 0 /\ NegFixints > 0
  /\ kFixmapPrefix = PosFixints /\ kFixarrayPrefix = PosFixints + FixCounts
  /\ kFixstrPrefix = PosFixints + 2 * FixCounts /\ kNil = PosFixints + 2 * FixCounts + FixLengths
  /\ kNegativeFixintMin = kNil + 32 /\ Octets = kNegativeFixintMin + NegFixints

LEMMA LayoutHolds == Layout
<1>1. Len(FormatNames) = 32
  BY DEF FormatNames
<1> QED
  BY <1>1, LayoutAssumption
     DEF Layout, kFixmapPrefix, kFixarrayPrefix, kFixstrPrefix, kNil, kNegativeFixintMin, Octets

Named ==
  {"nil", "reserved", "false", "true", "bin8", "bin16", "bin32", "ext8", "ext16", "ext32",
   "float32", "float64", "uint8", "uint16", "uint32", "uint64", "int8", "int16", "int32", "int64",
   "fixext1", "fixext2", "fixext4", "fixext8", "fixext16", "str8", "str16", "str32",
   "array16", "array32", "map16", "map32"}
Formats == Named \cup {"posfixint", "fixmap", "fixarray", "fixstr", "negfixint"}

LEMMA NamesAreNamed == \A i \in 1 .. 32 : FormatNames[i] \in Named
  BY DEF FormatNames, Named

\* Every byte is a format byte, and one with an embedded value says which it can be.
LEMMA FormatsOfBytes ==
  ASSUME NEW b \in Byte
  PROVE  /\ FormatOf(b) \in Formats
         /\ FormatOf(b) = "posfixint" => b \in 0 .. PosFixints - 1
         /\ FormatOf(b) = "fixmap" => b - kFixmapPrefix \in 0 .. FixCounts - 1
         /\ FormatOf(b) = "fixarray" => b - kFixarrayPrefix \in 0 .. FixCounts - 1
         /\ FormatOf(b) = "fixstr" => b - kFixstrPrefix \in 0 .. FixLengths - 1
<1>1. b \in 0 .. Octets - 1
  BY DEF Byte
<1> USE LayoutHolds DEF Layout
<1>2. CASE b < kNil
  BY <1>1, <1>2 DEF FormatOf, Formats, Named
<1>3. CASE b >= kNil /\ b < kNegativeFixintMin
  <2>1. b - kNil + 1 \in 1 .. 32 /\ FormatOf(b) = FormatNames[b - kNil + 1]
    BY <1>1, <1>3 DEF FormatOf
  <2>2. FormatOf(b) \in Named
    BY <2>1, NamesAreNamed
  <2> QED
    BY <2>2 DEF Formats, Named
<1>4. CASE b >= kNegativeFixintMin
  BY <1>1, <1>4 DEF FormatOf, Formats, Named
<1> QED
  BY <1>1, <1>2, <1>3, <1>4

LEMMA Domains ==
  /\ DOMAIN UnsignedWidth = {"uint8", "uint16", "uint32", "uint64"}
  /\ DOMAIN SignedWidth = {"int8", "int16", "int32", "int64"}
  /\ DOMAIN FloatWidth = {"float32", "float64"}
  /\ DOMAIN LengthWidth = {"str8", "str16", "str32", "bin8", "bin16", "bin32", "ext8", "ext16", "ext32",
                           "array16", "array32", "map16", "map32"}
  /\ DOMAIN FixextLength = {"fixext1", "fixext2", "fixext4", "fixext8", "fixext16"}
  BY DEF UnsignedWidth, SignedWidth, FloatWidth, LengthWidth, FixextLength

\* The type of each format.
LEMMA Types ==
  ASSUME NEW f \in Formats
  PROVE  /\ TypeOf(f) = "uint" <=> f \in {"posfixint"} \cup DOMAIN UnsignedWidth
         /\ TypeOf(f) = "int" <=> f \in {"negfixint"} \cup DOMAIN SignedWidth
         /\ TypeOf(f) = "float" <=> f \in DOMAIN FloatWidth
         /\ TypeOf(f) = "boolean" <=> f \in {"true", "false"}
         /\ TypeOf(f) = "str" <=> f \in {"fixstr", "str8", "str16", "str32"}
         /\ TypeOf(f) = "bin" <=> f \in {"bin8", "bin16", "bin32"}
         /\ TypeOf(f) = "array" <=> f \in {"fixarray", "array16", "array32"}
         /\ TypeOf(f) = "map" <=> f \in {"fixmap", "map16", "map32"}
         /\ TypeOf(f) = "ext" <=> f \in {"ext8", "ext16", "ext32"} \cup DOMAIN FixextLength
         /\ TypeOf(f) = "nil" <=> f = "nil"
         /\ TypeOf(f) = "invalid" <=> f = "reserved"
<1> USE Domains
<1>1. \/ f \in {"posfixint"} \cup DOMAIN UnsignedWidth
      \/ f \in {"negfixint"} \cup DOMAIN SignedWidth
      \/ f \in DOMAIN FloatWidth
      \/ f \in {"true", "false"}
      \/ f \in {"fixstr", "str8", "str16", "str32"}
      \/ f \in {"bin8", "bin16", "bin32"}
      \/ f \in {"fixarray", "array16", "array32"}
      \/ f \in {"fixmap", "map16", "map32"}
      \/ f \in {"ext8", "ext16", "ext32"} \cup DOMAIN FixextLength
      \/ f \in {"nil", "reserved"}
  BY DEF Formats, Named
<1>2. CASE f \in {"posfixint"} \cup DOMAIN UnsignedWidth
  BY <1>2 DEF TypeOf
<1>3. CASE f \in {"negfixint"} \cup DOMAIN SignedWidth
  BY <1>3 DEF TypeOf
<1>4. CASE f \in DOMAIN FloatWidth
  BY <1>4 DEF TypeOf
<1>5. CASE f \in {"true", "false"}
  BY <1>5 DEF TypeOf
<1>6. CASE f \in {"fixstr", "str8", "str16", "str32"}
  BY <1>6 DEF TypeOf
<1>7. CASE f \in {"bin8", "bin16", "bin32"}
  BY <1>7 DEF TypeOf
<1>8. CASE f \in {"fixarray", "array16", "array32"}
  BY <1>8 DEF TypeOf
<1>9. CASE f \in {"fixmap", "map16", "map32"}
  BY <1>9 DEF TypeOf
<1>10. CASE f \in {"ext8", "ext16", "ext32"} \cup DOMAIN FixextLength
  BY <1>10 DEF TypeOf
<1>11. CASE f \in {"nil", "reserved"}
  BY <1>11 DEF TypeOf
<1> QED
  BY ONLY <1>1, <1>2, <1>3, <1>4, <1>5, <1>6, <1>7, <1>8, <1>9, <1>10, <1>11

LEMMA WidthsOfNumbers ==
  ASSUME NEW f \in Formats
  PROVE  /\ NumberWidth(f) \in Nat
         /\ f \in DOMAIN LengthWidth => NumberWidth(f) = LengthWidth[f] /\ NumberWidth(f) > 0
         /\ f \in DOMAIN UnsignedWidth => NumberWidth(f) = UnsignedWidth[f] /\ NumberWidth(f) > 0
         /\ f \in DOMAIN SignedWidth => NumberWidth(f) = SignedWidth[f] /\ NumberWidth(f) > 0
         /\ f \in DOMAIN FloatWidth => NumberWidth(f) = FloatWidth[f] /\ NumberWidth(f) > 0
         /\ f \notin DOMAIN LengthWidth \cup DOMAIN UnsignedWidth \cup DOMAIN SignedWidth \cup DOMAIN FloatWidth
              => NumberWidth(f) = 0
<1>1. /\ f \in DOMAIN LengthWidth => LengthWidth[f] \in Nat /\ LengthWidth[f] > 0
      /\ f \in DOMAIN UnsignedWidth => UnsignedWidth[f] \in Nat /\ UnsignedWidth[f] > 0
      /\ f \in DOMAIN SignedWidth => SignedWidth[f] \in Nat /\ SignedWidth[f] > 0
      /\ f \in DOMAIN FloatWidth => FloatWidth[f] \in Nat /\ FloatWidth[f] > 0
  BY LayoutAssumption, Domains DEF UnsignedWidth, SignedWidth, FloatWidth, LengthWidth
<1> QED
  BY <1>1, Domains DEF NumberWidth

\* The header at a position, without its local definitions.
LEMMA HeaderOf ==
  ASSUME NEW buf, NEW p, NEW b, NEW f, NEW w, NEW raw,
         b = buf[p + 1], f = FormatOf(b), w = NumberWidth(f), raw = NumberAt(buf, p + 1, w)
  PROVE  HeaderAt(buf, p) =
           IF p >= Len(buf) \/ f = "reserved" \/ p + 1 + w > Len(buf) THEN NoObject
           ELSE [complete |-> TRUE, kind |-> TypeOf(f), format |-> f, next |-> p + 1 + w,
                 n |-> IF w = 0 THEN Inline(b)
                       ELSE IF f \in DOMAIN SignedWidth /\ 2 * raw >= Span(w) THEN raw - Span(w) ELSE raw]
  BY DEF HeaderAt

-----------------------------------------------------------------------------
(* Numbers.                                                                 *)

LEMMA Scaled ==
  ASSUME NEW a \in Nat, NEW b \in Nat, NEW c \in Nat, a <= b
  PROVE  a * c <= b * c
  OBVIOUS

LEMMA NextDigit ==
  ASSUME NEW v \in Nat, NEW s \in Nat, NEW d \in Nat, NEW o \in Nat, v + 1 <= s, d <= o - 1
  PROVE  v * o + d + 1 <= o * s
<1>1. (v + 1) * o <= s * o
  BY Scaled
<1>2. (v + 1) * o = v * o + o /\ v * o \in Nat /\ s * o = o * s
  OBVIOUS
<1> QED
  BY <1>1, <1>2

LEMMA Spans ==
  ASSUME NEW w \in Nat
  PROVE  /\ Span(w) \in Nat /\ Span(w) > 0
         /\ Span(0) = 1 /\ Span(w + 1) = Octets * Span(w)
<1>1. Octets \in Nat /\ Octets > 0
  BY LayoutHolds DEF Layout
<1>2. \A v \in Nat : Span(v) \in Nat /\ Span(v + 1) = Octets * Span(v)
  BY <1>1, Powers DEF Span
<1>3. Span(0) = 1
  BY <1>1, Powers DEF Span
<1> DEFINE T == {v \in Nat : Span(v) > 0}
<1>4. 0 \in T /\ \A v \in T : v + 1 \in T
  <2>1. ASSUME NEW v \in T PROVE v + 1 \in T
    <3>1. Span(v) \in Nat /\ Span(v) > 0 /\ Span(v + 1) = Octets * Span(v)
      BY <1>2
    <3>2. 1 * Span(v) <= Octets * Span(v)
      BY <1>1, <3>1, Scaled
    <3>3. Span(v + 1) > 0 /\ v + 1 \in Nat
      BY <1>1, <3>1, <3>2
    <3> QED
      BY <3>3
  <2> QED
    BY <1>3, <2>1
<1>5. T = Nat
  <2> HIDE DEF T
  <2>1. T \in SUBSET Nat
    BY DEF T
  <2> QED
    BY <1>4, <2>1, Induction
<1> QED
  BY <1>2, <1>3, <1>5

\* A field of one byte and more has an even span of at least Octets.
LEMMA SpansOfFields ==
  ASSUME NEW w \in Nat, w > 0
  PROVE  Span(w) % 2 = 0 /\ Octets <= Span(w)
<1> DEFINE s == Span(w - 1)
<1>1. w - 1 \in Nat /\ (w - 1) + 1 = w
  OBVIOUS
<1>2. s \in Nat /\ s > 0 /\ Span(w) = Octets * s
  BY <1>1, Spans
<1>3. Octets \in Nat /\ Octets % 2 = 0
  BY LayoutHolds, LayoutAssumption DEF Layout
<1> HIDE DEF s
<1>4. Octets <= Octets * s
  <2>1. 1 * Octets <= s * Octets
    BY <1>2, <1>3, Scaled
  <2> QED
    BY <1>2, <1>3, <2>1
<1>5. (Octets * s) % 2 = 0
  <2>1. PICK k \in Nat : Octets = 2 * k
    BY <1>3
  <2>2. k * s \in Nat /\ Octets * s = 2 * (k * s)
    BY <1>2, <2>1
  <2> QED
    BY <2>2
<1> QED
  BY <1>2, <1>4, <1>5

LEMMA BytesAreBytes ==
  ASSUME NEW bytes \in Bytes
  PROVE  /\ Len(bytes) \in Nat /\ Octets \in Nat
         /\ \A n \in 1 .. Len(bytes) : bytes[n] \in 0 .. Octets - 1 /\ bytes[n] \in Byte /\ bytes[n] \in Nat
<1>1. Octets \in Nat
  BY LayoutHolds DEF Layout
<1>2. bytes \in Seq(Byte)
  BY DEF Bytes
<1>3. Len(bytes) \in Nat /\ \A n \in 1 .. Len(bytes) : bytes[n] \in Byte
  BY <1>2
<1> QED
  BY <1>1, <1>3 DEF Byte

\* The digits of a number, one by one.
LEMMA BigEndianDigits ==
  ASSUME NEW bytes \in Bytes
  PROVE  \E v \in [Nat -> Nat] :
           /\ v[0] = 0 /\ BigEndian(bytes) = v[Len(bytes)]
           /\ \A n \in 0 .. Len(bytes) - 1 : v[n + 1] = v[n] * Octets + bytes[n + 1]
<1> DEFINE L == Len(bytes)
           digit == [n \in Nat |-> IF n < L THEN bytes[n + 1] ELSE 0]
           step == [n \in Nat |-> [x \in Nat |-> x * Octets + digit[n]]]
           Is(f) == f = [n \in 0 .. L |-> IF n = 0 THEN 0 ELSE f[n - 1] * Octets + bytes[n]]
           number == CHOOSE f : Is(f)
<1>1. L \in Nat /\ Octets \in Nat /\ \A n \in 1 .. L : bytes[n] \in Nat
  BY BytesAreBytes
<1>2. digit \in [Nat -> Nat]
  BY <1>1
<1>3. PICK v : Iteration(Nat, 0, step, v)
  <2> HIDE DEF digit
  <2>1. \A n \in Nat, x \in Nat : x * Octets + digit[n] \in Nat
    <3> HIDE DEF digit
    <3>1. \A n \in Nat : digit[n] \in Nat
      BY <1>2
    <3>2. \A x \in Nat : x * Octets \in Nat
      BY <1>1
    <3> QED
      BY <3>1, <3>2
  <2>2. step \in Steps(Nat) /\ 0 \in Nat
    BY <2>1 DEF Steps
  <2> HIDE DEF step
  <2> QED
    BY <2>2, Iterates
<1>4. v \in [Nat -> Nat] /\ v[0] = 0 /\ \A n \in 0 .. L - 1 : v[n + 1] = v[n] * Octets + bytes[n + 1]
  <2>1. v \in [Nat -> Nat] /\ v[0] = 0 /\ \A n \in Nat : v[n + 1] = step[n][v[n]]
    BY <1>3 DEF Iteration
  <2>2. \A n \in Nat : v[n + 1] = v[n] * Octets + digit[n]
    BY <2>1
  <2>3. \A n \in 0 .. L - 1 : n \in Nat /\ digit[n] = bytes[n + 1]
    BY <1>1
  <2> QED
    BY <2>1, <2>2, <2>3
<1> HIDE DEF L
<1>5. Is([n \in 0 .. L |-> v[n]])
  <2>1. ASSUME NEW n \in 0 .. L, n # 0 PROVE v[n] = v[n - 1] * Octets + bytes[n] /\ n - 1 \in 0 .. L
    <3>1. n - 1 \in 0 .. L - 1 /\ (n - 1) + 1 = n
      BY <1>1, <2>1
    <3> QED
      BY <1>1, <1>4, <3>1
  <2> QED
    BY <1>1, <1>4, <2>1
<1>6. Is(number)
  BY <1>5
<1> HIDE DEF number
<1>7. \A n \in 0 .. L : number[n] = v[n]
  <2> DEFINE T == {n \in Nat : n <= L => number[n] = v[n]}
  <2>1. 0 \in T
    BY <1>1, <1>4, <1>6
  <2>2. ASSUME NEW n \in T PROVE n + 1 \in T
    <3> SUFFICES ASSUME n + 1 <= L PROVE number[n + 1] = v[n + 1]
      OBVIOUS
    <3>1. n \in 0 .. L - 1 /\ n + 1 \in 0 .. L /\ (n + 1) - 1 = n /\ n + 1 # 0 /\ n <= L
      BY <1>1
    <3>2. number[n + 1] = number[n] * Octets + bytes[n + 1]
      BY <1>6, <3>1
    <3> QED
      BY <1>4, <3>1, <3>2
  <2>3. T = Nat
    <3> HIDE DEF T
    <3>1. T \in SUBSET Nat
      BY DEF T
    <3> QED
      BY <2>1, <2>2, <3>1, Induction
  <2> QED
    BY <1>1, <2>3
<1>8. BigEndian(bytes) = number[L]
  BY DEF BigEndian, number, L
<1>9. BigEndian(bytes) = v[L]
  BY <1>1, <1>7, <1>8
<1> QED
  BY <1>4, <1>9 DEF L

LEMMA BigEndianBound ==
  ASSUME NEW bytes \in Bytes
  PROVE  BigEndian(bytes) \in 0 .. Span(Len(bytes)) - 1
<1>1. PICK v \in [Nat -> Nat] :
         /\ v[0] = 0 /\ BigEndian(bytes) = v[Len(bytes)]
         /\ \A n \in 0 .. Len(bytes) - 1 : v[n + 1] = v[n] * Octets + bytes[n + 1]
  BY BigEndianDigits
<1>2. Len(bytes) \in Nat /\ Octets \in Nat /\ \A n \in 1 .. Len(bytes) : bytes[n] \in 0 .. Octets - 1
  BY BytesAreBytes
<1> DEFINE T == {n \in Nat : n <= Len(bytes) => v[n] + 1 <= Span(n)}
<1>3. 0 \in T
  BY <1>1, Spans
<1>4. ASSUME NEW n \in T PROVE n + 1 \in T
  <2> SUFFICES ASSUME n + 1 <= Len(bytes) PROVE v[n + 1] + 1 <= Span(n + 1)
    OBVIOUS
  <2>0. n \in Nat /\ n + 1 \in Nat /\ n \in 0 .. Len(bytes) - 1 /\ n + 1 \in 1 .. Len(bytes)
    BY <1>2
  <2>1. v[n] + 1 <= Span(n) /\ v[n] \in Nat /\ Span(n) \in Nat /\ Span(n + 1) = Octets * Span(n)
    <3>1. n <= Len(bytes) /\ v[n] + 1 <= Span(n)
      <4>1. n <= Len(bytes)
        BY ONLY <2>0, <1>2
      <4> QED
        BY <4>1
    <3>2. v[n] \in Nat
      BY <1>1, <2>0
    <3>3. Span(n) \in Nat /\ Span(n + 1) = Octets * Span(n)
      BY <2>0, Spans
    <3> QED
      BY <3>1, <3>2, <3>3
  <2>2. v[n + 1] = v[n] * Octets + bytes[n + 1] /\ bytes[n + 1] <= Octets - 1 /\ bytes[n + 1] \in Nat
    BY <1>1, <1>2
  <2> QED
    BY ONLY <1>2, <2>1, <2>2, NextDigit
<1>5. T = Nat
  <2> HIDE DEF T
  <2>1. T \in SUBSET Nat
    BY DEF T
  <2> QED
    BY <1>3, <1>4, <2>1, Induction
<1>6. v[Len(bytes)] + 1 <= Span(Len(bytes)) /\ v[Len(bytes)] \in Nat /\ Span(Len(bytes)) \in Nat
  <2>1. Len(bytes) \in T
    BY <1>2, <1>5
  <2>2. v[Len(bytes)] \in Nat
    BY <1>1, <1>2
  <2>3. Span(Len(bytes)) \in Nat
    BY <1>2, Spans
  <2> QED
    BY <1>2, <2>1, <2>2, <2>3
<1> QED
  BY <1>1, <1>6

\* The number in the w bytes behind a position.
LEMMA NumbersAt ==
  ASSUME NEW buf \in Bytes, NEW p \in Nat, NEW w \in Nat, p + w <= Len(buf)
  PROVE  NumberAt(buf, p, w) \in 0 .. Span(w) - 1
<1>1. SubSeq(buf, p + 1, p + w) \in Bytes /\ Len(SubSeq(buf, p + 1, p + w)) = w
  BY SubSeqProperties DEF Bytes
<1> QED
  BY <1>1, BigEndianBound DEF NumberAt

-----------------------------------------------------------------------------
(* Headers.                                                                 *)

\* What a complete header says, and where it leaves a reader.
LEMMA HeaderTypes ==
  ASSUME NEW buf \in Bytes, NEW p \in Nat, HeaderAt(buf, p).complete
  PROVE  LET h == HeaderAt(buf, p) IN
         /\ p < Len(buf) /\ h.next \in p + 1 .. Len(buf) /\ h.n \in Int
         /\ h.format = FormatOf(buf[p + 1]) /\ h.format \in Formats /\ h.format # "reserved"
         /\ h.kind = TypeOf(h.format) /\ h.next = p + 1 + NumberWidth(h.format)
         /\ h.kind \notin {"int"} => h.n \in Nat
<1> DEFINE b == buf[p + 1]
           f == FormatOf(b)
           w == NumberWidth(f)
           raw == NumberAt(buf, p + 1, w)
           h == HeaderAt(buf, p)
<1> HIDE DEF b, f, w, raw, h
<1>1. h = IF p >= Len(buf) \/ f = "reserved" \/ p + 1 + w > Len(buf) THEN NoObject
          ELSE [complete |-> TRUE, kind |-> TypeOf(f), format |-> f, next |-> p + 1 + w,
                n |-> IF w = 0 THEN Inline(b)
                      ELSE IF f \in DOMAIN SignedWidth /\ 2 * raw >= Span(w) THEN raw - Span(w) ELSE raw]
  BY HeaderOf DEF b, f, w, raw, h
<1>2. h.complete
  BY DEF h
<1>3. /\ p < Len(buf) /\ f # "reserved" /\ p + 1 + w <= Len(buf)
      /\ h = [complete |-> TRUE, kind |-> TypeOf(f), format |-> f, next |-> p + 1 + w,
              n |-> IF w = 0 THEN Inline(b)
                    ELSE IF f \in DOMAIN SignedWidth /\ 2 * raw >= Span(w) THEN raw - Span(w) ELSE raw]
  <2>1. Len(buf) \in Nat
    BY BytesAreBytes
  <2>2. ~NoObject.complete
    BY DEF NoObject
  <2>3. ~(p >= Len(buf) \/ f = "reserved" \/ p + 1 + w > Len(buf))
    BY <1>1, <1>2, <2>2
  <2>4. b \in Byte
    BY <2>1, <2>3, BytesAreBytes DEF b
  <2>5. w \in Nat
    BY <2>4, FormatsOfBytes, WidthsOfNumbers DEF f, w
  <2> QED
    BY <1>1, <2>1, <2>3, <2>5
<1>4. b \in Byte /\ b \in 0 .. Octets - 1 /\ Len(buf) \in Nat
  BY <1>3, BytesAreBytes DEF b
<1>5. f \in Formats /\ w \in Nat
  BY <1>4, FormatsOfBytes, WidthsOfNumbers DEF f, w
<1>6. raw \in Nat /\ Span(w) \in Nat
  <2>1. (p + 1) + w <= Len(buf) /\ p + 1 \in Nat
    BY <1>3
  <2>2. raw \in 0 .. Span(w) - 1
    BY <1>5, <2>1, NumbersAt DEF raw
  <2> QED
    BY <1>5, <2>2, Spans
<1>7. Inline(b) \in Int /\ (TypeOf(f) # "int" => Inline(b) \in Nat)
  <2>1. f = "negfixint" => TypeOf(f) = "int"
    BY Types, <1>5
  <2>2. f \in DOMAIN FixextLength => FixextLength[f] \in Nat
    BY DEF FixextLength
  <2>3. /\ f = "fixmap" => b - kFixmapPrefix \in Nat
        /\ f = "fixarray" => b - kFixarrayPrefix \in Nat
        /\ f = "fixstr" => b - kFixstrPrefix \in Nat
    BY <1>4, FormatsOfBytes, LayoutHolds DEF f, Layout
  <2>4. /\ f = "fixmap" => Inline(b) = b - PosFixints
        /\ f = "fixarray" => Inline(b) = b - PosFixints - FixCounts
        /\ f = "fixstr" => Inline(b) = b - PosFixints - 2 * FixCounts
        /\ f = "posfixint" => Inline(b) = b
        /\ f = "negfixint" => Inline(b) = b - Octets
        /\ f = "true" => Inline(b) = 1
        /\ f \in DOMAIN FixextLength => Inline(b) = FixextLength[f]
        /\ f \notin {"fixmap", "fixarray", "fixstr", "posfixint", "negfixint", "true"} \cup DOMAIN FixextLength
             => Inline(b) = 0
    BY Domains DEF Inline, f
  <2> QED
    BY <1>4, <2>1, <2>2, <2>3, <2>4, LayoutHolds DEF Layout
<1>8. h.n \in Int /\ (TypeOf(f) # "int" => h.n \in Nat)
  <2>1. f \in DOMAIN SignedWidth => TypeOf(f) = "int"
    BY Types, <1>5
  <2> QED
    BY <1>3, <1>6, <1>7, <2>1
<1> QED
  BY <1>3, <1>4, <1>5, <1>8 DEF f, b, h, w

-----------------------------------------------------------------------------
(* The reads.                                                               *)

At(r, p) == [buf |-> r.buf, pos |-> p, error |-> r.error]
Bad(r) == [buf |-> r.buf, pos |-> r.pos, error |-> TRUE]
Refused(r) == [r |-> Bad(r), ok |-> FALSE, out |-> 0]
Taken(r, p, v) == [r |-> At(r, p), ok |-> TRUE, out |-> v]

LEMMA Moved ==
  ASSUME NEW b, NEW p, NEW e, NEW q
  PROVE  [[buf |-> b, pos |-> p, error |-> e] EXCEPT !.pos = q] = [buf |-> b, pos |-> q, error |-> e]
<1> DEFINE r == [buf |-> b, pos |-> p, error |-> e]
<1>1. [r EXCEPT !.pos = q] \in [buf : {b}, pos : {q}, error : {e}]
  OBVIOUS
<1> QED
  BY <1>1

LEMMA Flagged ==
  ASSUME NEW b, NEW p, NEW e, NEW f
  PROVE  [[buf |-> b, pos |-> p, error |-> e] EXCEPT !.error = f] = [buf |-> b, pos |-> p, error |-> f]
<1> DEFINE r == [buf |-> b, pos |-> p, error |-> e]
<1>1. [r EXCEPT !.error = f] \in [buf : {b}, pos : {p}, error : {f}]
  OBVIOUS
<1> QED
  BY <1>1

LEMMA FailedAt ==
  ASSUME NEW b, NEW p, NEW e, NEW q
  PROVE  fail_([buf |-> b, pos |-> p, error |-> e], q) = [buf |-> b, pos |-> q, error |-> TRUE]
<1>1. fail_([buf |-> b, pos |-> p, error |-> e], q)
        = [[[buf |-> b, pos |-> p, error |-> e] EXCEPT !.error = TRUE] EXCEPT !.pos = q]
  BY DEF fail_
<1>2. [[buf |-> b, pos |-> p, error |-> e] EXCEPT !.error = TRUE] = [buf |-> b, pos |-> p, error |-> TRUE]
  BY Flagged, Zenon
<1> QED
  BY <1>1, <1>2, Moved, Zenon

LEMMA Cursors ==
  ASSUME NEW r \in Readers
  PROVE  /\ r.buf \in Bytes /\ r.pos \in Nat /\ r.error \in BOOLEAN /\ Len(r.buf) \in Nat /\ r.pos <= Len(r.buf)
         /\ r = At(r, r.pos)
         /\ Remaining(r) = Len(r.buf) - r.pos /\ (Remaining(r) = 0 <=> r.pos >= Len(r.buf))
         /\ Past(r) = At(r, r.pos + 1)
         /\ Failed(r, r.pos) = Refused(r)
         /\ \A p \in Nat : /\ Remaining(At(r, p)) = Len(r.buf) - p
                           /\ Failed(At(r, p), r.pos) = Refused(r)
                           /\ \A n \in Nat : [At(r, p) EXCEPT !.pos = @ + n] = At(r, p + n)
         /\ \A p, v : Got(At(r, p), v) = Taken(r, p, v)
<1>1. r \in [buf : Bytes, pos : Nat, error : BOOLEAN] /\ r.pos <= Len(r.buf)
  BY DEF Readers
<1>2. Len(r.buf) \in Nat
  BY <1>1, BytesAreBytes
<1> DEFINE rec == [buf |-> r.buf, pos |-> r.pos, error |-> r.error]
<1>0. r = rec
  BY <1>1
<1>3. r = At(r, r.pos) /\ Past(r) = At(r, r.pos + 1) /\ Failed(r, r.pos) = Refused(r)
  <2>1. Past(rec) = [buf |-> r.buf, pos |-> r.pos + 1, error |-> r.error]
    BY Moved DEF Past
  <2>2. fail_(rec, r.pos) = Bad(r)
    BY FailedAt DEF Bad
  <2> HIDE DEF rec
  <2> QED
    BY <1>0, <2>1, <2>2 DEF At, Failed, Refused, rec
<1>4. ASSUME NEW p \in Nat
      PROVE  /\ Remaining(At(r, p)) = Len(r.buf) - p /\ Failed(At(r, p), r.pos) = Refused(r)
             /\ \A n \in Nat : [At(r, p) EXCEPT !.pos = @ + n] = At(r, p + n)
  <2> DEFINE q == [buf |-> r.buf, pos |-> p, error |-> r.error]
  <2>1. At(r, p) = q
    BY DEF At
  <2>2. fail_(q, r.pos) = Bad(r)
    BY FailedAt DEF Bad
  <2>3. Remaining(q) = Len(r.buf) - p
    BY DEF Remaining
  <2>4. ASSUME NEW n \in Nat PROVE [q EXCEPT !.pos = @ + n] = At(r, p + n)
    BY Moved DEF At
  <2> HIDE DEF q
  <2> QED
    BY <2>1, <2>2, <2>3, <2>4 DEF Failed, Refused
<1>5. \A p, v : Got(At(r, p), v) = Taken(r, p, v)
  BY DEF Got, Taken
<1> QED
  BY <1>1, <1>2, <1>3, <1>4, <1>5 DEF Remaining

\* The header at a reader's position and what the reader sees of it.
LEMMA Peeks ==
  ASSUME NEW r \in Readers
  PROVE  LET h == HeaderAt(r.buf, r.pos)
             f == Peek(r)
             b == r.buf[r.pos + 1]
             w == NumberWidth(f)
             raw == NumberAt(r.buf, r.pos + 1, w)
         IN /\ Remaining(r) = 0 => h = NoObject
            /\ Remaining(r) # 0 =>
                 /\ b \in Byte /\ b \in 0 .. Octets - 1 /\ f = FormatOf(b) /\ f \in Formats /\ w \in Nat
                 /\ f = "reserved" \/ r.pos + 1 + w > Len(r.buf) => h = NoObject
                 /\ f # "reserved" /\ r.pos + 1 + w <= Len(r.buf) =>
                      /\ h = [complete |-> TRUE, kind |-> TypeOf(f), format |-> f, next |-> r.pos + 1 + w,
                              n |-> IF w = 0 THEN Inline(b)
                                    ELSE IF f \in DOMAIN SignedWidth /\ 2 * raw >= Span(w) THEN raw - Span(w)
                                    ELSE raw]
                      /\ raw \in 0 .. Span(w) - 1
<1> DEFINE h == HeaderAt(r.buf, r.pos)
           f == Peek(r)
           b == r.buf[r.pos + 1]
           w == NumberWidth(f)
           raw == NumberAt(r.buf, r.pos + 1, w)
<1>1. /\ r.buf \in Bytes /\ r.pos \in Nat /\ Len(r.buf) \in Nat /\ r.pos <= Len(r.buf)
      /\ Remaining(r) = 0 <=> r.pos >= Len(r.buf)
  BY Cursors
<1>2. f = FormatOf(b)
  BY DEF Peek
<1> DEFINE whole == [complete |-> TRUE, kind |-> TypeOf(f), format |-> f, next |-> r.pos + 1 + w,
                     n |-> IF w = 0 THEN Inline(b)
                           ELSE IF f \in DOMAIN SignedWidth /\ 2 * raw >= Span(w) THEN raw - Span(w) ELSE raw]
<1>3. h = IF r.pos >= Len(r.buf) \/ f = "reserved" \/ r.pos + 1 + w > Len(r.buf) THEN NoObject ELSE whole
  <2> DEFINE buf == r.buf
             p == r.pos
  <2>1. b = buf[p + 1] /\ f = FormatOf(b) /\ w = NumberWidth(f) /\ raw = NumberAt(buf, p + 1, w)
    BY <1>2
  <2> HIDE DEF f, b, w, raw, buf, p
  <2>2. HeaderAt(buf, p) = IF p >= Len(buf) \/ f = "reserved" \/ p + 1 + w > Len(buf) THEN NoObject
          ELSE [complete |-> TRUE, kind |-> TypeOf(f), format |-> f, next |-> p + 1 + w,
                n |-> IF w = 0 THEN Inline(b)
                      ELSE IF f \in DOMAIN SignedWidth /\ 2 * raw >= Span(w) THEN raw - Span(w) ELSE raw]
    BY <2>1, HeaderOf
  <2> QED
    BY <2>2, Zenon DEF buf, p
<1> HIDE DEF h, f, b
<1>4. Remaining(r) = 0 => h = NoObject
  BY <1>1, <1>3
<1>5. ASSUME Remaining(r) # 0 PROVE b \in Byte /\ b \in 0 .. Octets - 1 /\ f \in Formats /\ w \in Nat
  <2>1. b \in Byte /\ b \in 0 .. Octets - 1
    BY <1>1, <1>5, BytesAreBytes DEF b
  <2>2. f \in Formats
    BY <1>2, <2>1, FormatsOfBytes
  <2> QED
    BY <2>1, <2>2, WidthsOfNumbers
<1>6. ASSUME Remaining(r) # 0, f # "reserved", r.pos + 1 + w <= Len(r.buf)
      PROVE  raw \in 0 .. Span(w) - 1
  <2>1. r.pos + 1 \in Nat /\ (r.pos + 1) + w <= Len(r.buf) /\ w \in Nat
    BY <1>1, <1>5, <1>6
  <2> QED
    BY <1>1, <2>1, NumbersAt
<1>7. ASSUME Remaining(r) # 0, f # "reserved", r.pos + 1 + w <= Len(r.buf)
      PROVE  h = whole
  <2>1. ~(r.pos >= Len(r.buf) \/ f = "reserved" \/ r.pos + 1 + w > Len(r.buf))
    BY <1>1, <1>5, <1>7
  <2> HIDE DEF whole
  <2> QED
    BY <1>3, <2>1, Zenon
<1>8. f = "reserved" \/ r.pos + 1 + w > Len(r.buf) => h = NoObject
  BY <1>3
<1> QED
  BY <1>2, <1>4, <1>5, <1>6, <1>7, <1>8, Zenon DEF h, f, b

\* A number behind a format byte.
LEMMA NumberBehind ==
  ASSUME NEW r \in Readers, NEW w \in Nat
  PROVE  /\ (Remaining(Past(r)) < w) <=> (r.pos + 1 + w > Len(r.buf))
         /\ Failed(Past(r), r.pos) = Refused(r)
         /\ \A v : Got([Past(r) EXCEPT !.pos = @ + w], v) = Taken(r, r.pos + 1 + w, v)
         /\ BigEndian(SubSeq(Past(r).buf, Past(r).pos + 1, Past(r).pos + w)) = NumberAt(r.buf, r.pos + 1, w)
<1>1. r.pos + 1 \in Nat /\ r.pos \in Nat /\ Past(r) = At(r, r.pos + 1) /\ Len(r.buf) \in Nat
  BY Cursors
<1>2. /\ Remaining(At(r, r.pos + 1)) = Len(r.buf) - (r.pos + 1)
      /\ Failed(At(r, r.pos + 1), r.pos) = Refused(r)
      /\ [At(r, r.pos + 1) EXCEPT !.pos = @ + w] = At(r, r.pos + 1 + w)
      /\ \A v : Got(At(r, r.pos + 1 + w), v) = Taken(r, r.pos + 1 + w, v)
  BY <1>1, Cursors
<1>3. At(r, r.pos + 1).buf = r.buf /\ At(r, r.pos + 1).pos = r.pos + 1
  BY DEF At
<1>4. (Len(r.buf) - (r.pos + 1) < w) <=> (r.pos + 1 + w > Len(r.buf))
  BY <1>1
<1>5. NumberAt(r.buf, r.pos + 1, w) = BigEndian(SubSeq(r.buf, (r.pos + 1) + 1, (r.pos + 1) + w))
  BY DEF NumberAt
<1> QED
  BY <1>1, <1>2, <1>3, <1>4, <1>5

\* Sign and magnitude of an integer.
IsInteger(h) == h.complete /\ h.kind \in {"int", "uint"}

LEMMA Magnitudes ==
  ASSUME NEW r \in Readers
  PROVE  LET h == HeaderAt(r.buf, r.pos)
         IN read_raw_magnitude_(r) = IF IsInteger(h) THEN Taken(r, h.next, h.n) ELSE Refused(r)
<1> DEFINE h == HeaderAt(r.buf, r.pos)
           f == Peek(r)
           b == r.buf[r.pos + 1]
           w == NumberWidth(f)
           raw == NumberAt(r.buf, r.pos + 1, w)
           x == read_raw_magnitude_(r)
<1>1. Failed(r, r.pos) = Refused(r) /\ r.pos \in Nat /\ Len(r.buf) \in Nat
      /\ \A v : Got(Past(r), v) = Taken(r, r.pos + 1, v)
  BY Cursors
<1>2. CASE Remaining(r) = 0
  <2>1. x = Refused(r)
    BY <1>1, <1>2 DEF read_raw_magnitude_
  <2>2. h = NoObject
    BY <1>2, Peeks
  <2> QED
    BY <2>1, <2>2 DEF IsInteger, NoObject
<1>3. CASE Remaining(r) # 0
  <2>1. /\ b \in Byte /\ b \in 0 .. Octets - 1 /\ f = FormatOf(b) /\ f \in Formats /\ w \in Nat
        /\ f = "reserved" \/ r.pos + 1 + w > Len(r.buf) => h = NoObject
        /\ f # "reserved" /\ r.pos + 1 + w <= Len(r.buf) =>
             /\ h = [complete |-> TRUE, kind |-> TypeOf(f), format |-> f, next |-> r.pos + 1 + w,
                     n |-> IF w = 0 THEN Inline(b)
                           ELSE IF f \in DOMAIN SignedWidth /\ 2 * raw >= Span(w) THEN raw - Span(w) ELSE raw]
             /\ raw \in 0 .. Span(w) - 1
    BY <1>3, Peeks, Zenon
  <2> HIDE DEF h, f, b, w, raw
  <2>2. CASE TypeOf(f) \notin {"uint", "int"}
    <3>1. x = Refused(r)
      BY <1>1, <1>3, <2>2 DEF read_raw_magnitude_, f
    <3>2. ~IsInteger(h)
      <4>1. CASE h = NoObject
        BY <4>1 DEF IsInteger, NoObject
      <4>2. CASE h.kind = TypeOf(f)
        BY <4>2, <2>2 DEF IsInteger
      <4> QED
        BY <1>1, <2>1, <4>1, <4>2
    <3> QED
      BY <3>1, <3>2 DEF h
  <2>3. CASE f \in {"posfixint", "negfixint"}
    <3>1. w = 0 /\ f # "reserved" /\ TypeOf(f) \in {"uint", "int"} /\ r.pos + 1 <= Len(r.buf)
      <4>1. f \notin DOMAIN LengthWidth \cup DOMAIN UnsignedWidth \cup DOMAIN SignedWidth \cup DOMAIN FloatWidth
            /\ f # "reserved"
        BY <2>3, Domains
      <4>2. w = 0
        BY <2>1, <4>1, WidthsOfNumbers DEF w
      <4>3. TypeOf(f) \in {"uint", "int"}
        BY <2>1, <2>3, Types
      <4>4. r.pos + 1 <= Len(r.buf)
        BY <1>1, <1>3, Cursors
      <4> QED
        BY <4>1, <4>2, <4>3, <4>4
    <3>2. Inline(b) = IF f = "posfixint" THEN b ELSE b - Octets
      BY <2>1, <2>3, Domains DEF Inline
    <3>3. x = Taken(r, r.pos + 1, Inline(b))
      BY <1>1, <1>3, <2>3, <3>1, <3>2 DEF read_raw_magnitude_, f, b
    <3>4. IsInteger(h) /\ h.next = r.pos + 1 /\ h.n = Inline(b)
      BY <1>1, <2>1, <3>1 DEF IsInteger
    <3> QED
      BY <3>3, <3>4 DEF h
  <2>4. CASE f \in DOMAIN UnsignedWidth \cup DOMAIN SignedWidth
    <3>1. /\ w > 0 /\ TypeOf(f) \in {"uint", "int"} /\ f \notin {"posfixint", "negfixint", "reserved"}
          /\ f \in DOMAIN UnsignedWidth => w = UnsignedWidth[f] /\ f \notin DOMAIN SignedWidth
          /\ f \notin DOMAIN UnsignedWidth => w = SignedWidth[f]
      BY <2>1, <2>4, Domains, Types, WidthsOfNumbers DEF w
    <3>2. /\ (Remaining(Past(r)) < w) <=> (r.pos + 1 + w > Len(r.buf))
          /\ Failed(Past(r), r.pos) = Refused(r)
          /\ \A v : Got([Past(r) EXCEPT !.pos = @ + w], v) = Taken(r, r.pos + 1 + w, v)
          /\ BigEndian(SubSeq(Past(r).buf, Past(r).pos + 1, Past(r).pos + w)) = raw
      BY <2>1, NumberBehind DEF raw
    <3> DEFINE v == IF f \in DOMAIN SignedWidth /\ 2 * raw >= Span(w) THEN raw - Span(w) ELSE raw
    <3>3. x = IF r.pos + 1 + w > Len(r.buf) THEN Refused(r) ELSE Taken(r, r.pos + 1 + w, v)
      <4>1. CASE f \in DOMAIN UnsignedWidth
        <5>1. x = get_number_(Past(r), w, r.pos, Unsigned)
          BY <1>3, <3>1, <4>1 DEF read_raw_magnitude_, f
        <5>2. v = raw
          BY <3>1, <4>1
        <5> HIDE DEF v, x
        <5> QED
          BY <3>2, <5>1, <5>2 DEF get_number_, Unsigned
      <4>2. CASE f \notin DOMAIN UnsignedWidth
        <5>1. x = IF Remaining(Past(r)) < w THEN Failed(Past(r), r.pos)
                  ELSE Got([Past(r) EXCEPT !.pos = @ + w],
                           TwosComplement(BigEndian(SubSeq(Past(r).buf, Past(r).pos + 1, Past(r).pos + w)), w))
          <6>1. /\ Remaining(r) # 0 /\ TypeOf(f) \in {"uint", "int"} /\ f \notin {"posfixint", "negfixint"}
                /\ f \notin DOMAIN UnsignedWidth /\ SignedWidth[f] = w
            BY <1>3, <3>1, <4>2
          <6> QED
            BY ONLY <6>1, Zenon DEF x, read_raw_magnitude_, get_number_, f
        <5>2. CASE r.pos + 1 + w > Len(r.buf)
          BY <3>2, <5>1, <5>2
        <5>3. CASE ~(r.pos + 1 + w > Len(r.buf))
          <6>1. TwosComplement(raw, w) = v
            <7>1. raw \in Nat /\ Span(w) \in Nat /\ Span(w) % 2 = 0 /\ f \in DOMAIN SignedWidth
              <8>1. r.pos + 1 + w <= Len(r.buf)
                BY <1>1, <2>1, <5>3
              <8>2. raw \in 0 .. Span(w) - 1
                BY <2>1, <3>1, <8>1
              <8>3. Span(w) \in Nat /\ Span(w) % 2 = 0
                BY <2>1, <3>1, Spans, SpansOfFields
              <8> QED
                BY <2>4, <4>2, <8>2, <8>3
            <7>2. (raw >= Span(w) \div 2) <=> (2 * raw >= Span(w))
              BY <7>1
            <7> QED
              BY <7>1, <7>2 DEF TwosComplement
          <6> HIDE DEF v, x
          <6>2. x = Taken(r, r.pos + 1 + w, TwosComplement(raw, w))
            BY <3>2, <5>1, <5>3
          <6> QED
            BY <5>3, <6>1, <6>2
        <5> QED
          BY <5>2, <5>3
      <4> QED
        BY <4>1, <4>2
    <3>4. CASE r.pos + 1 + w > Len(r.buf)
      <4>1. h = NoObject
        BY <2>1, <3>4
      <4> QED
        BY <3>3, <3>4, <4>1 DEF IsInteger, NoObject, h
    <3>5. CASE ~(r.pos + 1 + w > Len(r.buf))
      <4>1. r.pos + 1 + w <= Len(r.buf) /\ w # 0
        BY <1>1, <2>1, <3>1, <3>5
      <4>2. h.complete /\ h.kind = TypeOf(f) /\ h.next = r.pos + 1 + w /\ h.n = v
        BY <2>1, <3>1, <4>1
      <4> HIDE DEF v, x
      <4>3. IsInteger(h)
        BY <3>1, <4>2 DEF IsInteger
      <4>4. x = Taken(r, h.next, h.n)
        BY <3>3, <3>5, <4>2
      <4> QED
        BY <4>3, <4>4 DEF h, x
    <3> QED
      BY <3>4, <3>5
  <2>5. TypeOf(f) \in {"uint", "int"} => f \in {"posfixint", "negfixint"} \cup DOMAIN UnsignedWidth \cup DOMAIN SignedWidth
    BY <2>1, Types
  <2> QED
    BY <2>2, <2>3, <2>4, <2>5
<1> QED
  BY <1>2, <1>3

\* What a read may find.
Nothing(p) == [ok |-> FALSE, out |-> 0, end |-> p]
Something(v, end) == [ok |-> TRUE, out |-> v, end |-> end]

FloatingOf(h, narrows, p) ==
  IF h.kind \in {"int", "uint"} THEN Something(FromInteger(h.n), h.next)
  ELSE IF h.format = "float32" THEN Something(Pattern32(h.n), h.next)
  ELSE IF h.format = "float64"
  THEN Something(IF narrows THEN Pattern32(RoundTowardZero(h.n)) ELSE Pattern64(h.n), h.next)
  ELSE Nothing(p)

ContentOf(h, kind, max, buf, p) ==
  IF h.kind = kind /\ h.n <= max /\ h.next + h.n <= Len(buf)
  THEN Something(SubSeq(buf, h.next + 1, h.next + h.n), h.next + h.n) ELSE Nothing(p)

NumberOf(h, lo, hi, p) ==
  IF h.kind \in {"int", "uint"} /\ h.n \in lo .. hi THEN Something(h.n, h.next) ELSE Nothing(p)

\* The table of Expected, an entry for each read.
Table(op, buf, p, h, e) ==
  /\ ~h.complete => e = Nothing(p)
  /\ h.complete =>
       /\ op.name = "nil" => e = IF h.kind = "nil" THEN Something(0, h.next) ELSE Nothing(p)
       /\ op.name = "bool" => e = IF h.kind = "boolean" THEN Something(h.n = 1, h.next) ELSE Nothing(p)
       /\ op.name = "signed" => e = NumberOf(h, -(Span(op.w) \div 2), Span(op.w) \div 2 - 1, p)
       /\ op.name = "unsigned" => e = NumberOf(h, 0, Span(op.w) - 1, p)
       /\ op.name = "float" => e = FloatingOf(h, TRUE, p)
       /\ op.name = "double" => e = FloatingOf(h, DoubleIsFloat, p)
       /\ op.name = "str" => e = ContentOf(h, "str", Span(SizeWidth) - 1, buf, p)
       /\ op.name = "bin" => e = ContentOf(h, "bin", Span(SizeWidth) - 1, buf, p)
       /\ op.name = "str_into" => e = ContentOf(h, "str", op.cap - 1, buf, p)
       /\ op.name \in {"array", "map"} =>
            e = IF h.kind = op.name /\ h.n < Span(SizeWidth) THEN Something(h.n, h.next) ELSE Nothing(p)

LEMMA Expectations ==
  ASSUME NEW op, NEW buf, NEW p, NEW h,
         h.complete /\ h.kind \in {"int", "uint"} => h.format \notin {"float32", "float64"}
  PROVE  Table(op, buf, p, h, Expected(op, buf, p, h))
<1> DEFINE e == Expected(op, buf, p, h)
<1>1. ~h.complete => e = Nothing(p)
  BY DEF Expected, Nothing
<1> SUFFICES ASSUME h.complete
             PROVE  /\ op.name = "nil" => e = IF h.kind = "nil" THEN Something(0, h.next) ELSE Nothing(p)
                    /\ op.name = "bool" => e = IF h.kind = "boolean" THEN Something(h.n = 1, h.next) ELSE Nothing(p)
                    /\ op.name = "signed" => e = NumberOf(h, -(Span(op.w) \div 2), Span(op.w) \div 2 - 1, p)
                    /\ op.name = "unsigned" => e = NumberOf(h, 0, Span(op.w) - 1, p)
                    /\ op.name = "float" => e = FloatingOf(h, TRUE, p)
                    /\ op.name = "double" => e = FloatingOf(h, DoubleIsFloat, p)
                    /\ op.name = "str" => e = ContentOf(h, "str", Span(SizeWidth) - 1, buf, p)
                    /\ op.name = "bin" => e = ContentOf(h, "bin", Span(SizeWidth) - 1, buf, p)
                    /\ op.name = "str_into" => e = ContentOf(h, "str", op.cap - 1, buf, p)
                    /\ op.name \in {"array", "map"} =>
                         e = IF h.kind = op.name /\ h.n < Span(SizeWidth) THEN Something(h.n, h.next) ELSE Nothing(p)
  <2> HIDE DEF e
  <2> QED
    BY <1>1 DEF Table, e
<1>2. op.name = "nil" => e = IF h.kind = "nil" THEN Something(0, h.next) ELSE Nothing(p)
  BY DEF Expected, Nothing, Something
<1>3. op.name = "bool" => e = IF h.kind = "boolean" THEN Something(h.n = 1, h.next) ELSE Nothing(p)
  BY DEF Expected, Nothing, Something
<1>4. op.name = "signed" => e = NumberOf(h, -(Span(op.w) \div 2), Span(op.w) \div 2 - 1, p)
  BY DEF Expected, Nothing, Something, NumberOf
<1>5. op.name = "unsigned" => e = NumberOf(h, 0, Span(op.w) - 1, p)
  BY DEF Expected, Nothing, Something, NumberOf
<1>6. op.name = "float" => e = FloatingOf(h, TRUE, p)
  BY DEF Expected, Nothing, Something, FloatingOf
<1>7. op.name = "double" => e = FloatingOf(h, DoubleIsFloat, p)
  BY DEF Expected, Nothing, Something, FloatingOf
<1>8. op.name = "str" => e = ContentOf(h, "str", Span(SizeWidth) - 1, buf, p)
  BY DEF Expected, Nothing, Something, ContentOf
<1>9. op.name = "bin" => e = ContentOf(h, "bin", Span(SizeWidth) - 1, buf, p)
  BY DEF Expected, Nothing, Something, ContentOf
<1>10. op.name = "str_into" => e = ContentOf(h, "str", op.cap - 1, buf, p)
  BY DEF Expected, Nothing, Something, ContentOf
<1>11. op.name \in {"array", "map"} =>
         e = IF h.kind = op.name /\ h.n < Span(SizeWidth) THEN Something(h.n, h.next) ELSE Nothing(p)
  BY DEF Expected, Nothing, Something
<1> QED
  BY <1>2, <1>3, <1>4, <1>5, <1>6, <1>7, <1>8, <1>9, <1>10, <1>11

\* A read that does what is expected of it.
Matches(r, x, e) ==
  \/ e.ok /\ x = Taken(r, e.end, e.out) /\ e.end \in r.pos .. Len(r.buf)
  \/ ~e.ok /\ x = Refused(r) /\ e.end = r.pos

LEMMA Refusals ==
  ASSUME NEW r PROVE Matches(r, Refused(r), Nothing(r.pos))
  BY DEF Matches, Nothing

LEMMA Takings ==
  ASSUME NEW r, NEW v, NEW p \in r.pos .. Len(r.buf)
  PROVE  Matches(r, Taken(r, p, v), Something(v, p))
  BY DEF Matches, Something

\* A header as a reader sees it.
LEMMA Incomplete ==
  ASSUME NEW r \in Readers
  PROVE  Remaining(r) = 0 \/ Peek(r) = "reserved" \/ r.pos + 1 + NumberWidth(Peek(r)) > Len(r.buf)
           => ~HeaderAt(r.buf, r.pos).complete
<1>1. ~NoObject.complete
  BY DEF NoObject
<1>2. Remaining(r) = 0 \/ Peek(r) = "reserved" \/ r.pos + 1 + NumberWidth(Peek(r)) > Len(r.buf)
        => HeaderAt(r.buf, r.pos) = NoObject
  BY Peeks, Zenon
<1> QED
  BY <1>1, <1>2

LEMMA Complete ==
  ASSUME NEW r \in Readers, Remaining(r) # 0, Peek(r) # "reserved",
         r.pos + 1 + NumberWidth(Peek(r)) <= Len(r.buf)
  PROVE  LET h == HeaderAt(r.buf, r.pos)
         IN /\ h.complete /\ h.kind = TypeOf(Peek(r)) /\ h.format = Peek(r)
            /\ h.next = r.pos + 1 + NumberWidth(Peek(r)) /\ h.next \in r.pos .. Len(r.buf)
            /\ NumberWidth(Peek(r)) = 0 => h.n = Inline(r.buf[r.pos + 1])
            /\ NumberWidth(Peek(r)) # 0 /\ Peek(r) \notin DOMAIN SignedWidth =>
                 h.n = NumberAt(r.buf, r.pos + 1, NumberWidth(Peek(r))) /\ h.n \in 0 .. Span(NumberWidth(Peek(r))) - 1
<1> DEFINE h == HeaderAt(r.buf, r.pos)
           f == Peek(r)
           b == r.buf[r.pos + 1]
           w == NumberWidth(f)
           raw == NumberAt(r.buf, r.pos + 1, w)
<1>1. /\ h = [complete |-> TRUE, kind |-> TypeOf(f), format |-> f, next |-> r.pos + 1 + w,
              n |-> IF w = 0 THEN Inline(b)
                    ELSE IF f \in DOMAIN SignedWidth /\ 2 * raw >= Span(w) THEN raw - Span(w) ELSE raw]
      /\ raw \in 0 .. Span(w) - 1 /\ w \in Nat
  BY Peeks, Zenon
<1>2. r.pos \in Nat /\ Len(r.buf) \in Nat
  BY Cursors
<1> HIDE DEF h, f, b, w, raw
<1>3. h.complete /\ h.kind = TypeOf(f) /\ h.format = f /\ h.next = r.pos + 1 + w
  BY <1>1
<1>4. h.next \in r.pos .. Len(r.buf)
  BY <1>1, <1>2, <1>3 DEF w, f
<1>5. w = 0 => h.n = Inline(b)
  BY <1>1
<1>6. w # 0 /\ f \notin DOMAIN SignedWidth => h.n = raw /\ h.n \in 0 .. Span(w) - 1
  BY <1>1
<1> QED
  BY <1>3, <1>4, <1>5, <1>6, Zenon DEF h, f, b, w, raw

\* What a header that is there says of the byte the reader is at.
LEMMA SeenFrom ==
  ASSUME NEW r \in Readers, HeaderAt(r.buf, r.pos).complete
  PROVE  LET h == HeaderAt(r.buf, r.pos)
         IN /\ Remaining(r) # 0 /\ Peek(r) \in Formats /\ Peek(r) # "reserved"
            /\ h.format = Peek(r) /\ h.kind = TypeOf(Peek(r))
            /\ h.next = r.pos + 1 + NumberWidth(Peek(r)) /\ h.next \in r.pos + 1 .. Len(r.buf) /\ h.n \in Int
            /\ h.kind \in {"int", "uint"} => h.format \notin {"float32", "float64"}
            /\ h.kind # "int" => h.n \in Nat
<1> DEFINE h == HeaderAt(r.buf, r.pos)
<1>1. r.buf \in Bytes /\ r.pos \in Nat
  BY Cursors
<1>2. /\ h.next \in r.pos + 1 .. Len(r.buf) /\ h.n \in Int
      /\ h.format = FormatOf(r.buf[r.pos + 1]) /\ h.format \in Formats /\ h.format # "reserved"
      /\ h.kind = TypeOf(h.format) /\ h.next = r.pos + 1 + NumberWidth(h.format)
      /\ h.kind \notin {"int"} => h.n \in Nat
  BY <1>1, HeaderTypes, Zenon
<1>3. Remaining(r) # 0
  BY Incomplete
<1>4. h.format = Peek(r)
  BY <1>2 DEF Peek
<1>5. h.kind \in {"int", "uint"} => h.format \notin {"float32", "float64"}
  BY <1>2, Types, Domains
<1> QED
  BY <1>2, <1>3, <1>4, <1>5

\* What is expected of a read where a header is.
LEMMA ExpectedThere ==
  ASSUME NEW r \in Readers, NEW op
  PROVE  LET h == HeaderAt(r.buf, r.pos) IN Table(op, r.buf, r.pos, h, Expected(op, r.buf, r.pos, h))
<1> DEFINE h == HeaderAt(r.buf, r.pos)
           buf == r.buf
           p == r.pos
<1>1. h.complete /\ h.kind \in {"int", "uint"} => h.format \notin {"float32", "float64"}
  BY SeenFrom
<1> HIDE DEF h, buf, p
<1>2. Table(op, buf, p, h, Expected(op, buf, p, h))
  BY <1>1, Expectations
<1> QED
  BY <1>2, Zenon DEF h, buf, p

Does(op, r) == Matches(r, Read(op, r, SizeWidth, DoubleIsFloat), Expected(op, r.buf, r.pos, HeaderAt(r.buf, r.pos)))

LEMMA ReadsNil ==
  ASSUME NEW r \in Readers, NEW op, op.name = "nil"
  PROVE  Does(op, r)
<1> DEFINE h == HeaderAt(r.buf, r.pos)
           e == Expected(op, r.buf, r.pos, h)
           x == Read(op, r, SizeWidth, DoubleIsFloat)
<1>1. x = read_nil(r)
  BY DEF Read
<1>2. /\ ~h.complete => e = Nothing(r.pos)
      /\ h.complete => e = IF h.kind = "nil" THEN Something(0, h.next) ELSE Nothing(r.pos)
  <2>1. Table(op, r.buf, r.pos, h, e)
    BY ExpectedThere, Zenon
  <2> HIDE DEF h, e
  <2> QED
    BY <2>1 DEF Table
<1>3. Failed(r, r.pos) = Refused(r) /\ r.pos \in Nat /\ Len(r.buf) \in Nat
      /\ \A v : Got(Past(r), v) = Taken(r, r.pos + 1, v)
  BY Cursors
<1> HIDE DEF h, e, x
<1>4. CASE Remaining(r) = 0 \/ Peek(r) # "nil"
  <2>1. x = Refused(r)
    BY <1>1, <1>3, <1>4 DEF read_nil
  <2>2. e = Nothing(r.pos)
    <3>1. CASE h.complete
      <4>1. h.kind # "nil"
        BY <1>4, <3>1, SeenFrom, Types DEF h
      <4> QED
        BY <1>2, <3>1, <4>1
    <3> QED
      BY <1>2, <3>1
  <2> QED
    BY <2>1, <2>2, Refusals DEF Does, x, e, h
<1>5. CASE Remaining(r) # 0 /\ Peek(r) = "nil"
  <2>1. x = Taken(r, r.pos + 1, 0)
    BY <1>1, <1>3, <1>5 DEF read_nil
  <2>2. "nil" \in Formats /\ NumberWidth("nil") = 0
    BY Domains, WidthsOfNumbers DEF Formats, Named
  <2>3. TypeOf("nil") = "nil"
    BY <2>2, Types
  <2>4. r.pos + 1 <= Len(r.buf)
    BY <1>3, <1>5, Cursors
  <2>5. h.complete /\ h.kind = "nil" /\ h.next = r.pos + 1 /\ h.next \in r.pos .. Len(r.buf)
    BY <1>3, <1>5, <2>2, <2>3, <2>4, Complete DEF h
  <2>6. e = Something(0, r.pos + 1)
    BY <1>2, <2>5
  <2> QED
    BY <2>1, <2>5, <2>6, Takings DEF Does, x, e, h
<1> QED
  BY <1>4, <1>5

LEMMA ReadsBool ==
  ASSUME NEW r \in Readers, NEW op, op.name = "bool"
  PROVE  Does(op, r)
<1> DEFINE h == HeaderAt(r.buf, r.pos)
           e == Expected(op, r.buf, r.pos, h)
           x == Read(op, r, SizeWidth, DoubleIsFloat)
           f == Peek(r)
<1>1. x = read_bool(r)
  BY DEF Read
<1>2. /\ ~h.complete => e = Nothing(r.pos)
      /\ h.complete => e = IF h.kind = "boolean" THEN Something(h.n = 1, h.next) ELSE Nothing(r.pos)
  <2>1. Table(op, r.buf, r.pos, h, e)
    BY ExpectedThere, Zenon
  <2> HIDE DEF h, e
  <2> QED
    BY <2>1 DEF Table
<1>3. Failed(r, r.pos) = Refused(r) /\ r.pos \in Nat /\ Len(r.buf) \in Nat
      /\ \A v : Got(Past(r), v) = Taken(r, r.pos + 1, v)
  BY Cursors
<1> HIDE DEF h, e, x
<1>4. CASE Remaining(r) = 0 \/ f \notin {"true", "false"}
  <2>1. x = Refused(r)
    BY <1>1, <1>3, <1>4 DEF read_bool
  <2>2. e = Nothing(r.pos)
    <3>1. CASE h.complete
      <4>1. h.kind # "boolean"
        BY <1>4, <3>1, SeenFrom, Types DEF h
      <4> QED
        BY <1>2, <3>1, <4>1
    <3> QED
      BY <1>2, <3>1
  <2> QED
    BY <2>1, <2>2, Refusals DEF Does, x, e, h
<1>5. CASE Remaining(r) # 0 /\ f \in {"true", "false"}
  <2>1. x = Taken(r, r.pos + 1, f = "true")
    <3>1. x = Got(Past(r), f = "true")
      BY <1>1, <1>5 DEF read_bool
    <3> QED
      BY <1>3, <3>1
  <2>2. f \in Formats /\ NumberWidth(f) = 0 /\ f # "reserved"
    BY <1>5, Domains, WidthsOfNumbers DEF Formats, Named
  <2>3. TypeOf(f) = "boolean"
    BY <1>5, <2>2, Types
  <2>4. r.pos + 1 <= Len(r.buf)
    BY <1>3, <1>5, Cursors
  <2>5. h.complete /\ h.kind = "boolean" /\ h.next = r.pos + 1 /\ h.next \in r.pos .. Len(r.buf)
        /\ h.n = Inline(r.buf[r.pos + 1])
    BY <1>3, <1>5, <2>2, <2>3, <2>4, Complete DEF h
  <2>6. f = FormatOf(r.buf[r.pos + 1])
    BY DEF Peek
  <2>7. (h.n = 1) = (f = "true")
    <3>1. f = "true" => Inline(r.buf[r.pos + 1]) = 1
      BY <2>6, Domains DEF Inline
    <3>2. f = "false" => Inline(r.buf[r.pos + 1]) = 0
      BY <2>6, Domains DEF Inline
    <3> QED
      BY <1>5, <2>5, <3>1, <3>2
  <2>8. e = Something(f = "true", r.pos + 1)
    BY <1>2, <2>5, <2>7
  <2> HIDE DEF f
  <2>9. r.pos + 1 \in r.pos .. Len(r.buf)
    BY <2>5
  <2> QED
    BY <2>1, <2>8, <2>9, Takings DEF Does, x, e, h
<1> QED
  BY <1>4, <1>5

LEMMA Ranges ==
  ASSUME NEW r \in Readers, NEW p \in Nat, NEW v, NEW range
  PROVE  /\ InRange(Taken(r, p, v), range, r.pos) = IF v \in range THEN Taken(r, p, v) ELSE Refused(r)
         /\ InRange(Refused(r), range, r.pos) = Refused(r)
<1>1. Failed(At(r, p), r.pos) = Refused(r)
  BY Cursors
<1>2. Taken(r, p, v).ok /\ Taken(r, p, v).out = v /\ Taken(r, p, v).r = At(r, p) /\ ~Refused(r).ok
  BY DEF Taken, Refused
<1> QED
  BY <1>1, <1>2 DEF InRange

LEMMA ReadsNumbers ==
  ASSUME NEW r \in Readers, NEW op, op.name \in {"signed", "unsigned"}
  PROVE  Does(op, r)
<1> DEFINE h == HeaderAt(r.buf, r.pos)
           e == Expected(op, r.buf, r.pos, h)
           x == Read(op, r, SizeWidth, DoubleIsFloat)
           lo == IF op.name = "signed" THEN -(Span(op.w) \div 2) ELSE 0
           hi == IF op.name = "signed" THEN (Span(op.w) \div 2) - 1 ELSE Span(op.w) - 1
<1>1. x = InRange(read_raw_magnitude_(r), lo .. hi, r.pos)
  <2>1. CASE op.name = "signed"
    BY <2>1 DEF Read, read_signed_
  <2>2. CASE op.name = "unsigned"
    BY <2>2 DEF Read, read_unsigned_
  <2> QED
    BY <2>1, <2>2
<1>2. /\ ~h.complete => e = Nothing(r.pos)
      /\ h.complete => e = NumberOf(h, lo, hi, r.pos)
  <2>1. Table(op, r.buf, r.pos, h, e)
    BY ExpectedThere, Zenon
  <2> HIDE DEF h, e
  <2>2. CASE op.name = "signed"
    BY <2>1, <2>2 DEF Table
  <2>3. CASE op.name = "unsigned"
    BY <2>1, <2>3 DEF Table
  <2> QED
    BY <2>2, <2>3
<1>3. read_raw_magnitude_(r) = IF IsInteger(h) THEN Taken(r, h.next, h.n) ELSE Refused(r)
  BY Magnitudes, Zenon
<1> HIDE DEF h, e, x, lo, hi
<1>4. CASE ~IsInteger(h)
  <2>1. x = Refused(r)
    BY <1>1, <1>3, <1>4, Ranges
  <2>2. e = Nothing(r.pos)
    BY <1>2, <1>4 DEF IsInteger, NumberOf
  <2> QED
    BY <2>1, <2>2, Refusals DEF Does, x, e, h
<1>5. CASE IsInteger(h)
  <2>1. h.complete /\ h.next \in r.pos .. Len(r.buf) /\ h.next \in Nat
    BY <1>5, SeenFrom, Cursors DEF IsInteger, h
  <2>2. x = IF h.n \in lo .. hi THEN Taken(r, h.next, h.n) ELSE Refused(r)
    <3> DEFINE range == lo .. hi
    <3> HIDE DEF range
    <3>1. InRange(Taken(r, h.next, h.n), range, r.pos)
            = IF h.n \in range THEN Taken(r, h.next, h.n) ELSE Refused(r)
      BY <2>1, Ranges
    <3>2. x = InRange(Taken(r, h.next, h.n), lo .. hi, r.pos)
      BY <1>1, <1>3, <1>5
    <3> QED
      BY <3>1, <3>2 DEF range
  <2>3. e = IF h.n \in lo .. hi THEN Something(h.n, h.next) ELSE Nothing(r.pos)
    BY <1>2, <1>5, <2>1 DEF IsInteger, NumberOf
  <2> QED
    BY <2>1, <2>2, <2>3, Refusals, Takings DEF Does, x, e, h
<1> QED
  BY <1>4, <1>5

\* The length an object announces, to a reader whose size_t holds it.
Announced(r, kind) ==
  LET h == HeaderAt(r.buf, r.pos)
  IN IF h.complete /\ h.kind = kind /\ h.n < Span(SizeWidth) THEN Taken(r, h.next, h.n) ELSE Refused(r)

LEMMA Announcements ==
  ASSUME NEW r \in Readers, NEW formats, NEW prefix, NEW kind,
         \A f \in Formats : f \in formats <=> TypeOf(f) = kind,
         formats \cap ({"reserved"} \cup DOMAIN UnsignedWidth \cup DOMAIN SignedWidth \cup DOMAIN FloatWidth) = {},
         \A b \in Byte : FormatOf(b) \in formats \ DOMAIN LengthWidth
                           => Inline(b) = b - prefix /\ Inline(b) \in 0 .. Octets - 1
  PROVE  read_header_(r, formats, prefix, SizeWidth) = Announced(r, kind)
<1> DEFINE h == HeaderAt(r.buf, r.pos)
           x == read_header_(r, formats, prefix, SizeWidth)
           f == Peek(r)
           b == r.buf[r.pos + 1]
           w == NumberWidth(f)
           raw == NumberAt(r.buf, r.pos + 1, w)
<1>1. Failed(r, r.pos) = Refused(r) /\ r.pos \in Nat /\ Len(r.buf) \in Nat
      /\ \A v : Got(Past(r), v) = Taken(r, r.pos + 1, v)
  BY Cursors
<1>2. CASE Remaining(r) = 0 \/ f \notin formats
  <2>1. x = Refused(r)
    BY <1>1, <1>2 DEF read_header_
  <2>2. h.complete => h.kind # kind
    <3> HIDE DEF h, f
    <3>1. h.complete => Remaining(r) # 0 /\ f \in Formats /\ h.kind = TypeOf(f)
      BY SeenFrom, Zenon DEF h, f
    <3> QED
      BY <1>2, <3>1
  <2> QED
    BY <2>1, <2>2 DEF Announced
<1>3. CASE Remaining(r) # 0 /\ f \in formats
  <2>1. b \in Byte /\ f = FormatOf(b) /\ f \in Formats /\ w \in Nat
    BY <1>3, Peeks, Zenon
  <2>2. f # "reserved" /\ TypeOf(f) = kind
        /\ f \notin DOMAIN UnsignedWidth \cup DOMAIN SignedWidth \cup DOMAIN FloatWidth
    BY <1>3, <2>1
  <2>3. SizeWidth \in Nat /\ SizeWidth > 0 /\ Span(SizeWidth) \in Nat /\ Octets <= Span(SizeWidth)
    <3>1. SizeWidth \in Nat /\ SizeWidth > 0
      BY HandlerAssumption, LayoutAssumption
    <3> QED
      BY <3>1, Spans, SpansOfFields
  <2> HIDE DEF h, f, b, w, raw
  <2>4. CASE f \notin DOMAIN LengthWidth
    <3>1. w = 0
      BY <2>1, <2>2, <2>4, WidthsOfNumbers DEF w
    <3>2. r.pos + 1 <= Len(r.buf)
      BY <1>1, <1>3, Cursors
    <3>3. h.complete /\ h.kind = kind /\ h.next = r.pos + 1 /\ h.n = Inline(b)
      BY <1>1, <1>3, <2>2, <3>1, <3>2, Complete DEF h, f, w, b
    <3>4. Inline(b) = b - prefix /\ Inline(b) \in 0 .. Octets - 1
      BY <1>3, <2>1, <2>4
    <3>5. h.n < Span(SizeWidth)
      BY <2>3, <3>3, <3>4, LayoutHolds DEF Layout
    <3>6. x = Taken(r, r.pos + 1, b - prefix)
      BY <1>1, <1>3, <2>4 DEF read_header_, f, b
    <3> QED
      BY <3>3, <3>4, <3>5, <3>6 DEF Announced, h
  <2>5. CASE f \in DOMAIN LengthWidth
    <3>1. w = LengthWidth[f] /\ w # 0
      BY <2>1, <2>5, WidthsOfNumbers DEF w
    <3>2. /\ (Remaining(Past(r)) < w) <=> (r.pos + 1 + w > Len(r.buf))
          /\ Failed(Past(r), r.pos) = Refused(r)
          /\ \A v : Got([Past(r) EXCEPT !.pos = @ + w], v) = Taken(r, r.pos + 1 + w, v)
          /\ BigEndian(SubSeq(Past(r).buf, Past(r).pos + 1, Past(r).pos + w)) = raw
      BY <2>1, NumberBehind DEF raw
    <3>3. get_number_(Past(r), w, r.pos, Unsigned)
            = IF r.pos + 1 + w > Len(r.buf) THEN Refused(r) ELSE Taken(r, r.pos + 1 + w, raw)
      BY <3>2 DEF get_number_, Unsigned
    <3>4. x = InRange(get_number_(Past(r), w, r.pos, Unsigned), 0 .. Span(SizeWidth) - 1, r.pos)
      BY <1>3, <2>5, <3>1 DEF read_header_, f
    <3>5. CASE r.pos + 1 + w > Len(r.buf)
      <4>1. ~h.complete
        BY <3>5, Incomplete DEF h, w, f
      <4>2. x = InRange(Refused(r), 0 .. Span(SizeWidth) - 1, r.pos)
        BY <3>3, <3>4, <3>5
      <4>3. x = Refused(r)
        BY <1>1, <4>2, Ranges
      <4> QED
        BY <4>1, <4>3 DEF Announced, h
    <3>6. CASE ~(r.pos + 1 + w > Len(r.buf))
      <4>1. r.pos + 1 + w <= Len(r.buf) /\ r.pos + 1 + w \in Nat
        BY <1>1, <2>1, <3>6
      <4>2. h.complete /\ h.kind = kind /\ h.next = r.pos + 1 + w /\ h.n = raw /\ h.n \in 0 .. Span(w) - 1
        BY <1>3, <2>2, <3>1, <4>1, Complete DEF h, f, w, raw
      <4>3. x = InRange(Taken(r, r.pos + 1 + w, raw), 0 .. Span(SizeWidth) - 1, r.pos)
        BY <3>3, <3>4, <3>6
      <4>4. x = IF raw \in 0 .. Span(SizeWidth) - 1 THEN Taken(r, r.pos + 1 + w, raw) ELSE Refused(r)
        <5> DEFINE range == 0 .. Span(SizeWidth) - 1
        <5> HIDE DEF range
        <5>1. InRange(Taken(r, r.pos + 1 + w, raw), range, r.pos)
                = IF raw \in range THEN Taken(r, r.pos + 1 + w, raw) ELSE Refused(r)
          BY <4>1, Ranges
        <5> QED
          BY <4>3, <5>1 DEF range
      <4>5. raw \in 0 .. Span(SizeWidth) - 1 <=> h.n < Span(SizeWidth)
        BY <2>1, <2>3, <4>2, Spans
      <4> QED
        BY <4>2, <4>4, <4>5 DEF Announced, h
    <3> QED
      BY <3>5, <3>6
  <2> QED
    BY <2>4, <2>5
<1> QED
  BY <1>2, <1>3

LEMMA HeaderReads ==
  ASSUME NEW r \in Readers
  PROVE  /\ read_str_header_(r, SizeWidth) = Announced(r, "str")
         /\ read_bin_header_(r, SizeWidth) = Announced(r, "bin")
         /\ read_array(r, SizeWidth) = Announced(r, "array")
         /\ read_map(r, SizeWidth) = Announced(r, "map")
<1>1. \A f \in Formats : /\ f \in {"fixstr", "str8", "str16", "str32"} <=> TypeOf(f) = "str"
                         /\ f \in {"bin8", "bin16", "bin32"} <=> TypeOf(f) = "bin"
                         /\ f \in {"fixarray", "array16", "array32"} <=> TypeOf(f) = "array"
                         /\ f \in {"fixmap", "map16", "map32"} <=> TypeOf(f) = "map"
  BY Types
<1> DEFINE Others == {"reserved"} \cup DOMAIN UnsignedWidth \cup DOMAIN SignedWidth \cup DOMAIN FloatWidth
<1>2. /\ {"fixstr", "str8", "str16", "str32"} \cap Others = {}
      /\ {"bin8", "bin16", "bin32"} \cap Others = {}
      /\ {"fixarray", "array16", "array32"} \cap Others = {}
      /\ {"fixmap", "map16", "map32"} \cap Others = {}
  BY Domains
<1>3. ASSUME NEW b \in Byte
      PROVE  /\ FormatOf(b) = "fixstr" => Inline(b) = b - kFixstrPrefix /\ Inline(b) \in 0 .. Octets - 1
             /\ FormatOf(b) = "fixarray" => Inline(b) = b - kFixarrayPrefix /\ Inline(b) \in 0 .. Octets - 1
             /\ FormatOf(b) = "fixmap" => Inline(b) = b - kFixmapPrefix /\ Inline(b) \in 0 .. Octets - 1
  <2>1. /\ FormatOf(b) = "fixmap" => Inline(b) = b - PosFixints
        /\ FormatOf(b) = "fixarray" => Inline(b) = b - PosFixints - FixCounts
        /\ FormatOf(b) = "fixstr" => Inline(b) = b - PosFixints - 2 * FixCounts
    BY Domains DEF Inline
  <2>2. b \in 0 .. Octets - 1
    BY DEF Byte
  <2> QED
    BY <2>1, <2>2, FormatsOfBytes, LayoutHolds DEF Layout
<1>4. /\ {"fixstr", "str8", "str16", "str32"} \ DOMAIN LengthWidth = {"fixstr"}
      /\ {"bin8", "bin16", "bin32"} \ DOMAIN LengthWidth = {}
      /\ {"fixarray", "array16", "array32"} \ DOMAIN LengthWidth = {"fixarray"}
      /\ {"fixmap", "map16", "map32"} \ DOMAIN LengthWidth = {"fixmap"}
  BY Domains
<1> HIDE DEF Others
<1>5. read_str_header_(r, SizeWidth) = Announced(r, "str")
  <2> DEFINE formats == {"fixstr", "str8", "str16", "str32"}
  <2>1. \A b \in Byte : FormatOf(b) \in formats \ DOMAIN LengthWidth
                          => Inline(b) = b - kFixstrPrefix /\ Inline(b) \in 0 .. Octets - 1
    BY <1>3, <1>4
  <2>2. formats \cap Others = {} /\ \A f \in Formats : f \in formats <=> TypeOf(f) = "str"
    BY <1>1, <1>2
  <2>3. read_str_header_(r, SizeWidth) = read_header_(r, formats, kFixstrPrefix, SizeWidth)
    BY DEF read_str_header_
  <2> HIDE DEF formats
  <2>4. read_header_(r, formats, kFixstrPrefix, SizeWidth) = Announced(r, "str")
    BY <2>1, <2>2, Announcements DEF Others
  <2> QED
    BY <2>3, <2>4
<1>6. read_bin_header_(r, SizeWidth) = Announced(r, "bin")
  <2> DEFINE formats == {"bin8", "bin16", "bin32"}
  <2>1. \A b \in Byte : FormatOf(b) \in formats \ DOMAIN LengthWidth
                          => Inline(b) = b - 0 /\ Inline(b) \in 0 .. Octets - 1
    BY <1>4
  <2>2. formats \cap Others = {} /\ \A f \in Formats : f \in formats <=> TypeOf(f) = "bin"
    BY <1>1, <1>2
  <2>3. read_bin_header_(r, SizeWidth) = read_header_(r, formats, 0, SizeWidth)
    BY DEF read_bin_header_
  <2> HIDE DEF formats
  <2>4. read_header_(r, formats, 0, SizeWidth) = Announced(r, "bin")
    BY <2>1, <2>2, Announcements DEF Others
  <2> QED
    BY <2>3, <2>4
<1>7. read_array(r, SizeWidth) = Announced(r, "array")
  <2> DEFINE formats == {"fixarray", "array16", "array32"}
  <2>1. \A b \in Byte : FormatOf(b) \in formats \ DOMAIN LengthWidth
                          => Inline(b) = b - kFixarrayPrefix /\ Inline(b) \in 0 .. Octets - 1
    BY <1>3, <1>4
  <2>2. formats \cap Others = {} /\ \A f \in Formats : f \in formats <=> TypeOf(f) = "array"
    BY <1>1, <1>2
  <2>3. read_array(r, SizeWidth) = read_header_(r, formats, kFixarrayPrefix, SizeWidth)
    BY DEF read_array
  <2> HIDE DEF formats
  <2>4. read_header_(r, formats, kFixarrayPrefix, SizeWidth) = Announced(r, "array")
    BY <2>1, <2>2, Announcements DEF Others
  <2> QED
    BY <2>3, <2>4
<1>8. read_map(r, SizeWidth) = Announced(r, "map")
  <2> DEFINE formats == {"fixmap", "map16", "map32"}
  <2>1. \A b \in Byte : FormatOf(b) \in formats \ DOMAIN LengthWidth
                          => Inline(b) = b - kFixmapPrefix /\ Inline(b) \in 0 .. Octets - 1
    BY <1>3, <1>4
  <2>2. formats \cap Others = {} /\ \A f \in Formats : f \in formats <=> TypeOf(f) = "map"
    BY <1>1, <1>2
  <2>3. read_map(r, SizeWidth) = read_header_(r, formats, kFixmapPrefix, SizeWidth)
    BY DEF read_map
  <2> HIDE DEF formats
  <2>4. read_header_(r, formats, kFixmapPrefix, SizeWidth) = Announced(r, "map")
    BY <2>1, <2>2, Announcements DEF Others
  <2> QED
    BY <2>3, <2>4
<1> QED
  BY <1>5, <1>6, <1>7, <1>8, Zenon

\* The bytes of a string or binary behind its header.
LEMMA Contents ==
  ASSUME NEW r \in Readers, NEW kind \in {"str", "bin"}, NEW max \in Int, NEW bound \in Int,
         \A n \in Nat : n < Span(SizeWidth) /\ n <= max <=> n <= bound
  PROVE  Matches(r, Payload(Announced(r, kind), max, r.pos),
                 IF HeaderAt(r.buf, r.pos).complete
                 THEN ContentOf(HeaderAt(r.buf, r.pos), kind, bound, r.buf, r.pos) ELSE Nothing(r.pos))
<1> DEFINE h == HeaderAt(r.buf, r.pos)
           x == Payload(Announced(r, kind), max, r.pos)
           e == IF h.complete THEN ContentOf(h, kind, bound, r.buf, r.pos) ELSE Nothing(r.pos)
<1> HIDE DEF h, x, e
<1>1. Announced(r, kind) = IF h.complete /\ h.kind = kind /\ h.n < Span(SizeWidth)
                           THEN Taken(r, h.next, h.n) ELSE Refused(r)
  BY DEF Announced, h
<1>2. CASE ~(h.complete /\ h.kind = kind /\ h.n < Span(SizeWidth))
  <2>1. x = Refused(r)
    <3>1. Announced(r, kind) = Refused(r) /\ ~Refused(r).ok
      BY <1>1, <1>2 DEF Refused
    <3> QED
      BY <3>1 DEF x, Payload
  <2>2. e = Nothing(r.pos)
    <3>1. CASE h.complete /\ h.kind = kind
      <4>1. h.n \in Nat
        BY <3>1, SeenFrom DEF h
      <4>2. ~(h.n <= bound)
        BY <1>2, <3>1, <4>1
      <4> QED
        BY <3>1, <4>2 DEF e, ContentOf
    <3>2. CASE ~(h.complete /\ h.kind = kind)
      BY <3>2 DEF e, ContentOf
    <3> QED
      BY <3>1, <3>2
  <2> QED
    BY <2>1, <2>2, Refusals DEF x, e, h
<1>3. CASE h.complete /\ h.kind = kind /\ h.n < Span(SizeWidth)
  <2>1. h.n \in Nat /\ h.next \in r.pos .. Len(r.buf) /\ h.next \in Nat /\ r.pos \in Nat /\ Len(r.buf) \in Nat
    BY <1>3, SeenFrom, Cursors DEF h
  <2>2. Announced(r, kind) = Taken(r, h.next, h.n)
    BY <1>1, <1>3
  <2>3. Taken(r, h.next, h.n).ok /\ Taken(r, h.next, h.n).out = h.n /\ Taken(r, h.next, h.n).r = At(r, h.next)
    BY DEF Taken
  <2>4. /\ Remaining(At(r, h.next)) = Len(r.buf) - h.next /\ Failed(At(r, h.next), r.pos) = Refused(r)
        /\ [At(r, h.next) EXCEPT !.pos = @ + h.n] = At(r, h.next + h.n)
        /\ \A v : Got(At(r, h.next + h.n), v) = Taken(r, h.next + h.n, v)
    BY <2>1, Cursors
  <2>5. CASE h.n > max \/ h.n > Len(r.buf) - h.next
    <3>1. x = Refused(r)
      BY <2>2, <2>3, <2>4, <2>5 DEF x, Payload
    <3>2. ~(h.n <= bound /\ h.next + h.n <= Len(r.buf))
      BY <1>3, <2>1, <2>5
    <3>3. e = Nothing(r.pos)
      BY <1>3, <3>2 DEF e, ContentOf
    <3> QED
      BY <3>1, <3>3, Refusals DEF x, e, h
  <2>6. CASE ~(h.n > max \/ h.n > Len(r.buf) - h.next)
    <3> DEFINE s == SubSeq(r.buf, h.next + 1, h.next + h.n)
    <3>1. x = get_bytes_(At(r, h.next), h.n)
      BY <2>2, <2>3, <2>4, <2>6 DEF x, Payload
    <3>2. ~(Remaining(At(r, h.next)) < h.n)
      BY <2>1, <2>4, <2>6
    <3>3. At(r, h.next).buf = r.buf /\ At(r, h.next).pos = h.next
      BY DEF At
    <3>4. get_bytes_(At(r, h.next), h.n) = Got(At(r, h.next + h.n), s)
      BY <2>4, <3>2, <3>3 DEF get_bytes_
    <3>5. h.n <= bound /\ h.next + h.n <= Len(r.buf) /\ h.next + h.n \in r.pos .. Len(r.buf)
      BY <1>3, <2>1, <2>6
    <3>6. e = Something(s, h.next + h.n)
      BY <1>3, <3>5 DEF e, ContentOf
    <3> HIDE DEF s
    <3>7. x = Taken(r, h.next + h.n, s)
      BY <2>4, <3>1, <3>4
    <3> QED
      BY <3>5, <3>6, <3>7, Takings DEF x, e, h
  <2> QED
    BY <2>5, <2>6
<1> QED
  BY <1>2, <1>3

LEMMA ReadsContents ==
  ASSUME NEW r \in Readers, NEW op, op.name \in {"str", "bin"} \/ (op.name = "str_into" /\ op.cap \in Capacities)
  PROVE  Does(op, r)
<1> DEFINE h == HeaderAt(r.buf, r.pos)
           e == Expected(op, r.buf, r.pos, h)
           x == Read(op, r, SizeWidth, DoubleIsFloat)
           kind == IF op.name = "bin" THEN "bin" ELSE "str"
           max == IF op.name = "str_into" THEN op.cap - 1 ELSE Span(SizeWidth)
           bound == IF op.name = "str_into" THEN op.cap - 1 ELSE Span(SizeWidth) - 1
<1>1. Span(SizeWidth) \in Nat
  BY HandlerAssumption, Spans
<1>2. op.name = "str_into" => op.cap \in 0 .. Span(SizeWidth) - 1
  BY HandlerAssumption
<1>3. kind \in {"str", "bin"} /\ max \in Int /\ bound \in Int
      /\ \A n \in Nat : n < Span(SizeWidth) /\ n <= max <=> n <= bound
  BY <1>1, <1>2
<1>4. x = Payload(Announced(r, kind), max, r.pos)
  <2>1. read_str_header_(r, SizeWidth) = Announced(r, "str") /\ read_bin_header_(r, SizeWidth) = Announced(r, "bin")
    BY HeaderReads
  <2>2. CASE op.name = "str"
    BY <2>1, <2>2 DEF Read, read_str
  <2>3. CASE op.name = "bin"
    BY <2>1, <2>3 DEF Read, read_bin
  <2>4. CASE op.name = "str_into"
    BY <2>1, <2>4 DEF Read, read_str_into
  <2> QED
    BY <2>2, <2>3, <2>4
<1>5. e = IF h.complete THEN ContentOf(h, kind, bound, r.buf, r.pos) ELSE Nothing(r.pos)
  <2>1. Table(op, r.buf, r.pos, h, e)
    BY ExpectedThere, Zenon
  <2> HIDE DEF h, e
  <2>2. CASE op.name = "str"
    BY <2>1, <2>2 DEF Table
  <2>3. CASE op.name = "bin"
    BY <2>1, <2>3 DEF Table
  <2>4. CASE op.name = "str_into"
    BY <2>1, <2>4 DEF Table
  <2> QED
    BY <2>2, <2>3, <2>4
<1> HIDE DEF kind, max, bound
<1>6. Matches(r, Payload(Announced(r, kind), max, r.pos),
              IF HeaderAt(r.buf, r.pos).complete
              THEN ContentOf(HeaderAt(r.buf, r.pos), kind, bound, r.buf, r.pos) ELSE Nothing(r.pos))
  BY <1>3, Contents
<1> QED
  BY <1>4, <1>5, <1>6, Zenon DEF Does

LEMMA ReadsCounts ==
  ASSUME NEW r \in Readers, NEW op, op.name \in {"array", "map"}
  PROVE  Does(op, r)
<1> DEFINE h == HeaderAt(r.buf, r.pos)
           e == Expected(op, r.buf, r.pos, h)
           x == Read(op, r, SizeWidth, DoubleIsFloat)
<1>1. x = Announced(r, op.name)
  BY HeaderReads DEF Read
<1>2. /\ ~h.complete => e = Nothing(r.pos)
      /\ h.complete => e = IF h.kind = op.name /\ h.n < Span(SizeWidth) THEN Something(h.n, h.next) ELSE Nothing(r.pos)
  <2>1. Table(op, r.buf, r.pos, h, e)
    BY ExpectedThere, Zenon
  <2> HIDE DEF h, e
  <2> QED
    BY <2>1 DEF Table
<1>3. x = IF h.complete /\ h.kind = op.name /\ h.n < Span(SizeWidth) THEN Taken(r, h.next, h.n) ELSE Refused(r)
  BY <1>1 DEF Announced
<1>4. h.complete => h.next \in r.pos .. Len(r.buf)
  BY SeenFrom, Cursors
<1> HIDE DEF h, e, x
<1> QED
  BY <1>2, <1>3, <1>4, Refusals, Takings DEF Does, h, e, x

-----------------------------------------------------------------------------
(* A float64 read as a float.                                               *)

\* Powers of two, and the numbers they scale.
LEMMA PowersOfTwo ==
  /\ \A n \in Nat : Power(2, n) \in Nat /\ Power(2, n) > 0
  /\ \A n \in Nat, k \in Nat : n < k => 2 * Power(2, n) <= Power(2, k)
<1> DEFINE P == [n \in Nat |-> Power(2, n)]
<1>1. P \in [Nat -> Nat] /\ P[0] = 1 /\ \A n \in Nat : P[n + 1] = 2 * P[n]
  BY Powers
<1>2. \A n \in Nat : P[n] = Power(2, n)
  OBVIOUS
<1> HIDE DEF P
<1>3. \A n \in Nat : P[n] > 0
  <2> DEFINE T == {n \in Nat : P[n] > 0}
  <2>1. 0 \in T /\ \A n \in T : n + 1 \in T
    BY <1>1
  <2>2. T = Nat
    <3> HIDE DEF T
    <3>1. T \in SUBSET Nat
      BY DEF T
    <3> QED
      BY <2>1, <3>1, Induction
  <2> QED
    BY <2>2
<1>4. ASSUME NEW n \in Nat PROVE \A k \in Nat : n < k => 2 * P[n] <= P[k]
  <2> DEFINE T == {k \in Nat : n < k => 2 * P[n] <= P[k]}
  <2>1. 0 \in T
    OBVIOUS
  <2>2. ASSUME NEW k \in T PROVE k + 1 \in T
    <3> SUFFICES ASSUME n < k + 1 PROVE 2 * P[n] <= P[k + 1]
      OBVIOUS
    <3>1. k \in Nat /\ P[k + 1] = 2 * P[k] /\ P[k] \in Nat /\ P[n] \in Nat
      BY <1>1
    <3>2. CASE n = k
      BY <3>1, <3>2
    <3>3. CASE n < k
      BY <3>1, <3>3
    <3> QED
      BY <3>2, <3>3
  <2>3. T = Nat
    <3> HIDE DEF T
    <3>1. T \in SUBSET Nat
      BY DEF T
    <3> QED
      BY <2>1, <2>2, <3>1, Induction
  <2> QED
    BY <2>3
<1> QED
  BY <1>1, <1>2, <1>3, <1>4

\* A mantissa at a scale; the order of two such numbers is that of their scales first.
Scaled64(scale, m) == (Mantissa64 + m) * Power(2, scale)

LEMMA ScalesFirst ==
  ASSUME NEW a \in Nat, NEW b \in Nat, NEW m \in 0 .. Mantissa64 - 1, NEW n \in 0 .. Mantissa64 - 1
  PROVE  /\ Scaled64(a, m) \in Nat
         /\ a < b => Scaled64(a, m) < Scaled64(b, n)
         /\ a = b => (Scaled64(a, m) <= Scaled64(b, n) <=> m <= n)
<1>1. Mantissa64 \in Nat
  BY LayoutAssumption
<1> DEFINE P == Power(2, a)
           Q == Power(2, b)
<1>2. P \in Nat /\ P > 0 /\ Q \in Nat /\ (a < b => 2 * P <= Q)
  BY PowersOfTwo
<1> HIDE DEF P, Q
<1>3. Mantissa64 + m \in Nat /\ Mantissa64 + n \in Nat
  BY <1>1
<1>4. (Mantissa64 + m) * P \in Nat /\ (Mantissa64 + n) * Q \in Nat
  BY <1>2, <1>3
<1>5. ASSUME a < b PROVE (Mantissa64 + m) * P < (Mantissa64 + n) * Q
  <2>1. (Mantissa64 + m + 1) * P <= (2 * Mantissa64) * P
    <3>1. Mantissa64 + m + 1 <= 2 * Mantissa64 /\ Mantissa64 + m + 1 \in Nat /\ 2 * Mantissa64 \in Nat
      BY <1>1
    <3> QED
      BY <1>2, <3>1, Scaled
  <2>2. (Mantissa64 + m + 1) * P = (Mantissa64 + m) * P + P
    BY <1>1, <1>2, <1>3
  <2>3. (2 * P) * Mantissa64 <= Q * Mantissa64
    <3>1. 2 * P \in Nat /\ 2 * P <= Q
      BY <1>2, <1>5
    <3> QED
      BY <1>1, <1>2, <3>1, Scaled
  <2>4. Mantissa64 * Q <= (Mantissa64 + n) * Q
    <3>1. Mantissa64 <= Mantissa64 + n
      BY <1>1
    <3> QED
      BY <1>1, <1>2, <1>3, <3>1, Scaled
  <2>5. (2 * P) * Mantissa64 = (2 * Mantissa64) * P /\ Q * Mantissa64 = Mantissa64 * Q
    BY <1>1, <1>2
  <2>6. (2 * Mantissa64) * P \in Nat /\ Mantissa64 * Q \in Nat
    BY <1>1, <1>2
  <2> HIDE DEF P
  <2> QED
    BY <1>2, <1>4, <2>1, <2>2, <2>3, <2>4, <2>5, <2>6
<1>6. (Mantissa64 + m) * P <= (Mantissa64 + n) * P <=> m <= n
  <2>1. m <= n => (Mantissa64 + m) * P <= (Mantissa64 + n) * P
    <3>1. m <= n => Mantissa64 + m <= Mantissa64 + n
      BY <1>1
    <3> QED
      BY <1>2, <1>3, <3>1, Scaled
  <2>2. ASSUME n < m PROVE (Mantissa64 + n) * P < (Mantissa64 + m) * P
    <3>1. Mantissa64 + n + 1 <= Mantissa64 + m /\ Mantissa64 + n + 1 \in Nat
      BY <1>1, <2>2
    <3>2. (Mantissa64 + n + 1) * P <= (Mantissa64 + m) * P
      BY <1>2, <1>3, <3>1, Scaled
    <3>3. (Mantissa64 + n + 1) * P = (Mantissa64 + n) * P + P /\ (Mantissa64 + n) * P \in Nat
      BY <1>1, <1>2, <1>3
    <3> QED
      BY <1>2, <1>4, <3>2, <3>3
  <2>3. (Mantissa64 + n) * P \in Nat
    BY <1>2, <1>3
  <2>4. m <= n \/ n < m
    BY <1>1
  <2> QED
    BY <1>4, <2>1, <2>2, <2>3, <2>4
<1> QED
  BY <1>4, <1>5, <1>6 DEF Scaled64, P, Q

\* The magnitudes of floats, as scaled mantissas.
Coarse == Mantissa64 \div Mantissa32

LEMMA Coarseness ==
  /\ Coarse \in Nat /\ Coarse > 0 /\ Mantissa32 \in Nat /\ Mantissa32 > 0
  /\ Mantissa64 \in Nat /\ Mantissa64 = Mantissa32 * Coarse
  /\ \A q \in 0 .. Mantissa32 - 1 : q * Coarse \in 0 .. Mantissa64 - 1
  /\ \A m \in 0 .. Mantissa64 - 1 : m \div Coarse \in 0 .. Mantissa32 - 1
  /\ \A m \in 0 .. Mantissa64 - 1, q \in 0 .. Mantissa32 - 1 : q * Coarse <= m <=> q <= m \div Coarse
<1>1. Mantissa32 \in Nat /\ Mantissa32 > 0 /\ Mantissa64 \in Nat /\ Mantissa64 > 0 /\ Mantissa64 % Mantissa32 = 0
  BY LayoutAssumption
<1>2. Coarse \in Nat /\ Mantissa64 = Mantissa32 * Coarse
  BY <1>1 DEF Coarse
<1>3. Coarse > 0
  BY <1>1, <1>2
<1>4. ASSUME NEW q \in 0 .. Mantissa32 - 1 PROVE q * Coarse \in 0 .. Mantissa64 - 1
  <2>1. q + 1 <= Mantissa32 /\ q + 1 \in Nat
    BY <1>1
  <2>2. (q + 1) * Coarse <= Mantissa32 * Coarse
    BY <1>1, <1>2, <2>1, Scaled
  <2>3. (q + 1) * Coarse = q * Coarse + Coarse /\ q * Coarse \in Nat
    BY <1>2
  <2> QED
    BY <1>1, <1>2, <1>3, <2>2, <2>3
<1>5. ASSUME NEW m \in 0 .. Mantissa64 - 1, NEW q \in Nat PROVE q * Coarse <= m <=> q <= m \div Coarse
  <2> DEFINE d == m \div Coarse
             e == m % Coarse
  <2>1. d \in Nat /\ e \in 0 .. Coarse - 1 /\ m = d * Coarse + e /\ m \in Nat
    BY <1>1, <1>2, <1>3
  <2> HIDE DEF d, e
  <2>2. q <= d => q * Coarse <= d * Coarse
    BY <1>2, <2>1, Scaled
  <2>3. d + 1 <= q => (d + 1) * Coarse <= q * Coarse
    BY <1>2, <2>1, Scaled
  <2>4. (d + 1) * Coarse = d * Coarse + Coarse /\ d * Coarse \in Nat /\ q * Coarse \in Nat
    BY <1>2, <2>1
  <2>5. q * Coarse <= m <=> q <= d
    BY <1>2, <1>3, <2>1, <2>2, <2>3, <2>4
  <2> QED
    BY <2>5 DEF d
<1>6. ASSUME NEW m \in 0 .. Mantissa64 - 1 PROVE m \div Coarse \in 0 .. Mantissa32 - 1
  <2>1. m \div Coarse \in Nat
    BY <1>2, <1>3
  <2>2. ~(Mantissa32 * Coarse <= m)
    BY <1>1, <1>2
  <2> QED
    BY <1>1, <1>5, <2>1, <2>2
<1>7. \A q \in 0 .. Mantissa32 - 1 : q \in Nat
  BY <1>1
<1> QED
  BY <1>1, <1>2, <1>3, <1>4, <1>5, <1>6, <1>7

LEMMA MagnitudesScaled ==
  /\ Scale \in Nat
  /\ \A e, m : Magnitude64(e, m) = Scaled64(e - 1, m)
  /\ \A e \in Nat \ {0}, q \in Nat : Magnitude32(e, q) = Scaled64(e + Scale - 1, q * Coarse)
<1>1. Scale \in Nat
  BY LayoutAssumption DEF Scale
<1>2. ASSUME NEW e \in Nat \ {0}, NEW q \in Nat PROVE Magnitude32(e, q) = Scaled64(e + Scale - 1, q * Coarse)
  <2>1. (Mantissa32 + q) * Coarse = Mantissa64 + q * Coarse
    BY Coarseness
  <2> QED
    BY <2>1 DEF Magnitude32, Scaled64, Coarse
<1> QED
  BY <1>1, <1>2 DEF Magnitude64, Scaled64

Normals == {<< e, q >> : e \in 1 .. Exponents32 - 2, q \in 0 .. Mantissa32 - 1}
NormalsBelow(E, m) == {x \in Normals : Magnitude32(x[1], x[2]) <= Magnitude64(E, m)}
NearestNormal(E, m) ==
  CHOOSE x \in NormalsBelow(E, m) : \A y \in NormalsBelow(E, m) : Magnitude32(y[1], y[2]) <= Magnitude32(x[1], x[2])

\* The float whose magnitude is the largest not above that of a double in their common range.
LEMMA NearestBelow ==
  ASSUME NEW E \in 1 .. Exponents64 - 2, NEW m \in 0 .. Mantissa64 - 1
  PROVE  /\ Magnitude64(E, m) >= Magnitude32(Exponents32 - 1, 0) <=> E - Scale >= Exponents32 - 1
         /\ E - Scale <= 0 => NormalsBelow(E, m) = {}
         /\ E - Scale > 0 => NormalsBelow(E, m) # {}
         /\ E - Scale \in 1 .. Exponents32 - 2 => NearestNormal(E, m) = << E - Scale, m \div Coarse >>
<1> DEFINE Normal == {<< e, q >> : e \in 1 .. Exponents32 - 2, q \in 0 .. Mantissa32 - 1}
           Below == {x \in Normal : Magnitude32(x[1], x[2]) <= Magnitude64(E, m)}
           Best(x) == \A y \in Below : Magnitude32(y[1], y[2]) <= Magnitude32(x[1], x[2])
           nearest == CHOOSE x \in Below : Best(x)
           M == Magnitude64(E, m)
<1>1. /\ Exponents32 \in Nat /\ Exponents32 > 2 /\ Exponents64 \in Nat /\ Scale \in Nat
      /\ Mantissa32 \in Nat /\ Mantissa32 > 0 /\ Coarse \in Nat /\ E \in Nat /\ E > 0
      /\ Mantissa64 \in Nat /\ m \in Nat
  BY LayoutAssumption, Coarseness, MagnitudesScaled
<1>2. M = Scaled64(E - 1, m)
  BY MagnitudesScaled
<1>3. ASSUME NEW e \in Nat \ {0}, NEW q \in 0 .. Mantissa32 - 1
      PROVE  /\ Magnitude32(e, q) \in Nat /\ M \in Nat
             /\ Magnitude32(e, q) <= M <=> e < E - Scale \/ (e = E - Scale /\ q <= m \div Coarse)
  <2>1. Magnitude32(e, q) = Scaled64(e + Scale - 1, q * Coarse)
    BY <1>1, MagnitudesScaled
  <2>2. q * Coarse \in 0 .. Mantissa64 - 1 /\ (q * Coarse <= m <=> q <= m \div Coarse)
    BY Coarseness
  <2>3. e + Scale - 1 \in Nat /\ E - 1 \in Nat
    BY <1>1
  <2>4. /\ e + Scale - 1 < E - 1 => Scaled64(e + Scale - 1, q * Coarse) < Scaled64(E - 1, m)
        /\ E - 1 < e + Scale - 1 => Scaled64(E - 1, m) < Scaled64(e + Scale - 1, q * Coarse)
        /\ e + Scale - 1 = E - 1 => (Scaled64(e + Scale - 1, q * Coarse) <= Scaled64(E - 1, m) <=> q * Coarse <= m)
        /\ Scaled64(e + Scale - 1, q * Coarse) \in Nat /\ Scaled64(E - 1, m) \in Nat
    <3> DEFINE s == e + Scale - 1
               t == E - 1
               n == q * Coarse
    <3>1. s \in Nat /\ t \in Nat /\ n \in 0 .. Mantissa64 - 1
      BY <2>2, <2>3
    <3> HIDE DEF s, t, n
    <3>2. /\ s < t => Scaled64(s, n) < Scaled64(t, m)
          /\ t < s => Scaled64(t, m) < Scaled64(s, n)
          /\ s = t => (Scaled64(s, n) <= Scaled64(t, m) <=> n <= m)
          /\ Scaled64(s, n) \in Nat /\ Scaled64(t, m) \in Nat
      BY <3>1, ScalesFirst
    <3> QED
      BY <3>2 DEF s, t, n
  <2> DEFINE d == m \div Coarse
             X == Magnitude32(e, q)
             n == q * Coarse
  <2> HIDE DEF d, X, n, M
  <2>5. /\ e + Scale - 1 < E - 1 => X < M
        /\ E - 1 < e + Scale - 1 => M < X
        /\ e + Scale - 1 = E - 1 => (X <= M <=> q <= d)
        /\ X \in Nat /\ M \in Nat
    BY <1>2, <2>1, <2>2, <2>4 DEF X, d, n
  <2>6. e \in Nat /\ q \in Nat
    BY <1>1
  <2>7. X \in Nat /\ M \in Nat /\ (X <= M <=> e < E - Scale \/ (e = E - Scale /\ q <= d))
    BY <1>1, <2>5, <2>6
  <2> QED
    BY <2>7 DEF X, d
<1>4. M >= Magnitude32(Exponents32 - 1, 0) <=> E - Scale >= Exponents32 - 1
  <2> DEFINE d == m \div Coarse
             X == Magnitude32(Exponents32 - 1, 0)
  <2>1. d \in Nat
    BY Coarseness
  <2>2. Exponents32 - 1 \in Nat \ {0} /\ 0 \in 0 .. Mantissa32 - 1
    BY <1>1
  <2>3. X \in Nat /\ M \in Nat
        /\ (X <= M <=> Exponents32 - 1 < E - Scale \/ (Exponents32 - 1 = E - Scale /\ 0 <= d))
    BY <1>3, <2>2
  <2> HIDE DEF d, X, M
  <2>4. M >= X <=> E - Scale >= Exponents32 - 1
    BY <1>1, <2>1, <2>3
  <2> QED
    BY <2>4 DEF X
<1> DEFINE d == m \div Coarse
<1>5. d \in 0 .. Mantissa32 - 1
  BY Coarseness
<1> HIDE DEF d, M
<1> DEFINE Within(x) == x[1] < E - Scale \/ (x[1] = E - Scale /\ x[2] <= d)
<1>6a. ASSUME NEW x PROVE x \in Below <=> x \in Normal /\ Magnitude32(x[1], x[2]) <= M
  <2> HIDE DEF Normal
  <2> QED
    BY DEF M
<1>6. ASSUME NEW x PROVE x \in Below <=> x \in Normal /\ Within(x)
  <2> SUFFICES ASSUME x \in Normal
               PROVE  Magnitude32(x[1], x[2]) <= M <=> Within(x)
    <3> HIDE DEF Within, Normal, Below
    <3> QED
      BY <1>6a
  <2>1. x[1] \in 1 .. Exponents32 - 2 /\ x[2] \in 0 .. Mantissa32 - 1
    OBVIOUS
  <2>2. x[1] \in Nat \ {0}
    BY <1>1, <2>1
  <2> HIDE DEF Normal
  <2> QED
    BY <1>3, <2>1, <2>2 DEF d
<1>7. \A x \in Normal : x = << x[1], x[2] >> /\ x[1] \in 1 .. Exponents32 - 2 /\ x[2] \in 0 .. Mantissa32 - 1
  OBVIOUS
<1>8. \A e \in 1 .. Exponents32 - 2, q \in 0 .. Mantissa32 - 1 : << e, q >> \in Normal
  OBVIOUS
<1> HIDE DEF Normal, Below
<1>6b. \A x \in Below : x \in Normal
  <2> HIDE DEF Within
  <2> QED
    BY <1>6
<1>9. E - Scale <= 0 => Below = {}
  <2> SUFFICES ASSUME E - Scale <= 0, NEW x \in Below PROVE FALSE
    OBVIOUS
  <2>1. x[1] \in 1 .. Exponents32 - 2
    BY <1>6b, <1>7
  <2>2. x[1] < E - Scale \/ x[1] = E - Scale
    BY <1>6
  <2> QED
    BY <1>1, <2>1, <2>2
<1>10. E - Scale > 0 => Below # {}
  <2> SUFFICES ASSUME E - Scale > 0 PROVE << 1, 0 >> \in Below
    OBVIOUS
  <2>1. << 1, 0 >> \in Normal
    BY <1>1, <1>8
  <2>2. 1 < E - Scale \/ (1 = E - Scale /\ 0 <= d)
    BY <1>1, <1>5
  <2> QED
    BY <1>6, <2>1, <2>2
<1>11. ASSUME E - Scale \in 1 .. Exponents32 - 2 PROVE nearest = << E - Scale, d >>
  <2> DEFINE best == << E - Scale, d >>
  <2>1. best \in Below
    BY <1>5, <1>6, <1>8, <1>11
  <2>2. best[1] = E - Scale /\ best[2] = d
    OBVIOUS
  <2> HIDE DEF best
  <2>3. ASSUME NEW y \in Below
        PROVE  /\ Magnitude32(y[1], y[2]) <= Magnitude32(best[1], best[2])
               /\ y # best => Magnitude32(y[1], y[2]) < Magnitude32(best[1], best[2])
    <3> DEFINE a == y[1] + Scale - 1
               b == best[1] + Scale - 1
               n == y[2] * Coarse
               k == best[2] * Coarse
    <3>1. /\ y \in Normal /\ y = << y[1], y[2] >> /\ y[1] \in 1 .. Exponents32 - 2 /\ y[2] \in 0 .. Mantissa32 - 1
          /\ best \in Normal /\ best = << best[1], best[2] >>
          /\ best[1] \in 1 .. Exponents32 - 2 /\ best[2] \in 0 .. Mantissa32 - 1
      BY <1>6b, <1>7, <2>1, <2>3
    <3>2. y[1] < best[1] \/ (y[1] = best[1] /\ y[2] <= best[2])
      BY <1>6, <2>2, <2>3
    <3>3. Magnitude32(y[1], y[2]) = Scaled64(a, n) /\ Magnitude32(best[1], best[2]) = Scaled64(b, k)
      <4>1. y[1] \in Nat \ {0} /\ y[2] \in Nat /\ best[1] \in Nat \ {0} /\ best[2] \in Nat
        BY <1>1, <3>1
      <4> QED
        BY <4>1, MagnitudesScaled
    <3>4. n \in 0 .. Mantissa64 - 1 /\ k \in 0 .. Mantissa64 - 1 /\ a \in Nat /\ b \in Nat
      BY <1>1, <3>1, Coarseness
    <3>5. y[2] < best[2] => n < k
      <4>1. ASSUME y[2] < best[2] PROVE n < k
        <5>1. y[2] + 1 \in Nat /\ y[2] + 1 <= best[2] /\ best[2] \in Nat /\ y[2] \in Nat
          BY <1>1, <3>1, <4>1
        <5>2. (y[2] + 1) * Coarse <= best[2] * Coarse
          BY <1>1, <5>1, Scaled
        <5>3. (y[2] + 1) * Coarse = n + Coarse
          BY <1>1, <5>1
        <5> HIDE DEF n, k
        <5>4. n + Coarse <= k
          BY <5>2, <5>3 DEF k
        <5> QED
          BY <1>1, <3>4, <5>4, Coarseness
      <4> QED
        BY <4>1
    <3>6. /\ y[1] < best[1] => a < b
          /\ y[1] = best[1] => a = b
          /\ y[2] = best[2] => n = k
      BY <1>1, <3>1
    <3>7. Scaled64(a, n) \in Nat /\ Scaled64(b, k) \in Nat
          /\ (a < b => Scaled64(a, n) < Scaled64(b, k))
          /\ (a = b => (Scaled64(a, n) <= Scaled64(b, k) <=> n <= k))
          /\ (b = a => (Scaled64(b, k) <= Scaled64(a, n) <=> k <= n))
      <4> HIDE DEF a, b, n, k
      <4> QED
        BY <3>4, ScalesFirst
    <3>8. CASE y[1] < best[1]
      BY <3>3, <3>6, <3>7, <3>8
    <3>9. CASE y[1] = best[1] /\ y[2] < best[2]
      <4> HIDE DEF a, b, n, k
      <4>1. a = b /\ n < k
        BY <3>5, <3>6, <3>9
      <4>2. n <= k /\ ~(k <= n)
        BY <3>4, <4>1
      <4>3. Scaled64(a, n) <= Scaled64(b, k) /\ ~(Scaled64(b, k) <= Scaled64(a, n))
        BY <3>7, <4>1, <4>2
      <4> QED
        BY <3>3, <3>7, <4>3
    <3>10. CASE y[1] = best[1] /\ y[2] = best[2]
      <4>1. y = best
        BY <3>1, <3>10
      <4> QED
        BY <3>3, <3>7, <4>1
    <3>11. y[2] \in Nat /\ best[2] \in Nat
      BY <1>1, <3>1
    <3>12. y[1] < best[1] \/ (y[1] = best[1] /\ y[2] < best[2]) \/ (y[1] = best[1] /\ y[2] = best[2])
      BY <3>2, <3>11
    <3> QED
      BY <3>8, <3>9, <3>10, <3>12
  <2>4. Best(best)
    BY <2>3
  <2>5. ASSUME NEW x \in Below, Best(x) PROVE x = best
    <3> SUFFICES ASSUME x # best PROVE FALSE
      OBVIOUS
    <3> DEFINE X == Magnitude32(x[1], x[2])
               B == Magnitude32(best[1], best[2])
    <3>1. X < B
      BY <2>3
    <3>2. B <= X
      BY <2>1, <2>5
    <3>3. X \in Nat /\ B \in Nat
      <4>1. /\ x[1] \in 1 .. Exponents32 - 2 /\ x[2] \in 0 .. Mantissa32 - 1
            /\ best[1] \in 1 .. Exponents32 - 2 /\ best[2] \in 0 .. Mantissa32 - 1
        BY <1>6b, <1>7, <2>1, <2>5
      <4>2. x[1] \in Nat \ {0} /\ best[1] \in Nat \ {0}
        BY <1>1, <4>1
      <4> QED
        BY <1>3, <4>1, <4>2
    <3> HIDE DEF X, B
    <3> QED
      BY <3>1, <3>2, <3>3
  <2> HIDE DEF Best
  <2> QED
    BY <2>1, <2>4, <2>5 DEF best
<1> HIDE DEF nearest
<1>12. /\ M >= Magnitude32(Exponents32 - 1, 0) <=> E - Scale >= Exponents32 - 1
       /\ E - Scale <= 0 => Below = {}
       /\ E - Scale > 0 => Below # {}
       /\ E - Scale \in 1 .. Exponents32 - 2 => nearest = << E - Scale, d >>
  BY <1>4, <1>9, <1>10, <1>11, Zenon
<1>13. NormalsBelow(E, m) = Below
  BY DEF Normal, Below, Normals, NormalsBelow, M
<1>14. NearestNormal(E, m) = nearest
  BY <1>13, Zenon DEF Best, nearest, NearestNormal
<1> QED
  BY <1>12, <1>13, <1>14, Zenon DEF M, d

\* A float64 on the wire, read as a float or by a board without doubles, is the
\* nearest float towards zero: infinite beyond the largest, 0 below the smallest
\* normal one, still no number when it was none (narrow_f64_bits_to_f32_bits,
\* msgpack_lite.h).
THEOREM NarrowsTowardZero ==
  ASSUME NEW bits \in Nat
  PROVE  narrow_f64_bits_to_f32_bits(bits) = RoundTowardZero(bits)
<1> DEFINE m == bits % Mantissa64
           E == (bits \div Mantissa64) % Exponents64
           sign == (bits \div (Mantissa64 * Exponents64)) % 2
           Float(e, q) == sign * Exponents32 * Mantissa32 + e * Mantissa32 + q
           nearest == NearestNormal(E, m)
           exponent == E - Exponents64 \div 2 + Exponents32 \div 2
           infinity == Bits32(sign, Exponents32 - 1, 0)
<1>1. /\ Exponents32 \in Nat /\ Exponents32 > 2 /\ Exponents64 \in Nat /\ Exponents64 > 2
      /\ Mantissa32 \in Nat /\ Mantissa64 \in Nat /\ Mantissa64 > 0
  BY LayoutAssumption
<1>2. m \in 0 .. Mantissa64 - 1 /\ E \in 0 .. Exponents64 - 1
  <2>1. bits \div Mantissa64 \in Nat
    BY <1>1
  <2> QED
    BY <1>1, <2>1
<1>3. sign \in Nat
  <2>1. Mantissa64 * Exponents64 \in Nat /\ Mantissa64 * Exponents64 > 0
    BY <1>1
  <2>2. bits \div (Mantissa64 * Exponents64) \in Nat
    BY <2>1
  <2> QED
    BY <2>2
<1>4. exponent = E - Scale /\ exponent \in Int
  BY <1>1, <1>2 DEF Scale
<1>5. narrow_f64_bits_to_f32_bits(bits)
        = CASE E = Exponents64 - 1 -> infinity + (IF m # 0 THEN Mantissa32 \div 2 ELSE 0)
            [] E = 0 -> Bits32(sign, 0, 0)
            [] E \in 1 .. Exponents64 - 2 /\ exponent >= Exponents32 - 1 -> infinity
            [] E \in 1 .. Exponents64 - 2 /\ exponent <= 0 -> Bits32(sign, 0, 0)
            [] OTHER -> Bits32(sign, exponent, m \div Coarse)
  BY Zenon DEF narrow_f64_bits_to_f32_bits, Coarse
<1>6. RoundTowardZero(bits)
        = CASE E = Exponents64 - 1 /\ m # 0 -> Float(Exponents32 - 1, Mantissa32 \div 2)
            [] E = Exponents64 - 1 /\ m = 0 -> Float(Exponents32 - 1, 0)
            [] E = 0 -> Float(0, 0)
            [] E \in 1 .. Exponents64 - 2 /\ Magnitude64(E, m) >= Magnitude32(Exponents32 - 1, 0) -> Float(Exponents32 - 1, 0)
            [] E \in 1 .. Exponents64 - 2 /\ NormalsBelow(E, m) = {} -> Float(0, 0)
            [] OTHER -> Float(nearest[1], nearest[2])
  BY DEF RoundTowardZero, Normals, NormalsBelow, NearestNormal
<1> HIDE DEF m, E, sign, exponent, nearest
<1>7. \A e \in Nat, q \in Nat : Float(e, q) \in Nat /\ Bits32(sign, e, 0) + q = Float(e, q) /\ Bits32(sign, e, q) = Float(e, q)
  <2> SUFFICES ASSUME NEW e \in Nat, NEW q \in Nat
               PROVE  /\ Float(e, q) \in Nat
                      /\ (sign * Exponents32 + e) * Mantissa32 + 0 + q = Float(e, q)
                      /\ (sign * Exponents32 + e) * Mantissa32 + q = Float(e, q)
    BY DEF Bits32
  <2>1. sign * Exponents32 \in Nat
    BY <1>1, <1>3
  <2>2. (sign * Exponents32 + e) * Mantissa32 = (sign * Exponents32) * Mantissa32 + e * Mantissa32
    BY <1>1, <2>1
  <2>3. (sign * Exponents32) * Mantissa32 \in Nat /\ e * Mantissa32 \in Nat
    BY <1>1, <2>1
  <2> QED
    BY <2>2, <2>3
<1> HIDE DEF Float, infinity
<1>8. Mantissa32 \div 2 \in Nat /\ Exponents32 - 1 \in Nat
  BY <1>1
<1>9. infinity = Float(Exponents32 - 1, 0) /\ infinity \in Nat /\ infinity + Mantissa32 \div 2 = Float(Exponents32 - 1, Mantissa32 \div 2)
      /\ Bits32(sign, 0, 0) = Float(0, 0)
  BY <1>7, <1>8 DEF infinity
<1>10. CASE E = Exponents64 - 1
  <2>3. E # 0 /\ E \notin 1 .. Exponents64 - 2
    BY <1>1, <1>10
  <2>4. narrow_f64_bits_to_f32_bits(bits) = infinity + (IF m # 0 THEN Mantissa32 \div 2 ELSE 0)
    BY <1>5, <1>10, <2>3
  <2>5. /\ m # 0 => RoundTowardZero(bits) = Float(Exponents32 - 1, Mantissa32 \div 2)
        /\ m = 0 => RoundTowardZero(bits) = Float(Exponents32 - 1, 0)
    BY <1>6, <1>10, <2>3
  <2>1. CASE m # 0
    BY <1>9, <2>1, <2>4, <2>5
  <2>2. CASE m = 0
    <3>1. infinity + 0 = infinity
      BY <1>9
    <3> QED
      BY <1>9, <2>2, <2>4, <2>5, <3>1
  <2> QED
    BY <2>1, <2>2
<1>11. CASE E = 0
  BY <1>1, <1>5, <1>6, <1>9, <1>11
<1>12. CASE E \in 1 .. Exponents64 - 2
  <2> DEFINE below == NormalsBelow(E, m)
             high == Magnitude64(E, m) >= Magnitude32(Exponents32 - 1, 0)
  <2>1. /\ high <=> exponent >= Exponents32 - 1
        /\ exponent <= 0 => below = {}
        /\ exponent > 0 => below # {}
        /\ exponent \in 1 .. Exponents32 - 2 => nearest = << exponent, m \div Coarse >>
    BY <1>2, <1>4, <1>12, NearestBelow DEF nearest
  <2> HIDE DEF below, high
  <2>2. E # Exponents64 - 1 /\ E # 0
    BY <1>1, <1>12
  <2>3. /\ exponent >= Exponents32 - 1 => narrow_f64_bits_to_f32_bits(bits) = infinity
        /\ ~(exponent >= Exponents32 - 1) /\ exponent <= 0 => narrow_f64_bits_to_f32_bits(bits) = Bits32(sign, 0, 0)
        /\ ~(exponent >= Exponents32 - 1) /\ ~(exponent <= 0)
             => narrow_f64_bits_to_f32_bits(bits) = Bits32(sign, exponent, m \div Coarse)
    BY <1>1, <1>4, <1>5, <1>12, <2>2
  <2>4. /\ high => RoundTowardZero(bits) = Float(Exponents32 - 1, 0)
        /\ ~high /\ below = {} => RoundTowardZero(bits) = Float(0, 0)
        /\ ~high /\ below # {} => RoundTowardZero(bits) = Float(nearest[1], nearest[2])
    <3>1. RoundTowardZero(bits)
            = CASE E \in 1 .. Exponents64 - 2 /\ high -> Float(Exponents32 - 1, 0)
                [] E \in 1 .. Exponents64 - 2 /\ below = {} -> Float(0, 0)
                [] OTHER -> Float(nearest[1], nearest[2])
      BY <1>6, <1>12, <2>2 DEF high, below
    <3> DEFINE in == E \in 1 .. Exponents64 - 2
    <3>2. in
      BY <1>12
    <3> HIDE DEF in
    <3>3. RoundTowardZero(bits)
            = CASE in /\ high -> Float(Exponents32 - 1, 0)
                [] in /\ below = {} -> Float(0, 0)
                [] OTHER -> Float(nearest[1], nearest[2])
      BY <3>1, Zenon DEF in
    <3>4. ~(high /\ below = {})
      BY <1>1, <1>4, <2>1
    <3> QED
      BY <3>2, <3>3, <3>4
  <2>5. CASE exponent >= Exponents32 - 1
    BY <1>9, <2>1, <2>3, <2>4, <2>5
  <2>6. CASE ~(exponent >= Exponents32 - 1) /\ exponent <= 0
    BY <1>9, <2>1, <2>3, <2>4, <2>6
  <2>7. CASE ~(exponent >= Exponents32 - 1) /\ ~(exponent <= 0)
    <3>1. exponent \in 1 .. Exponents32 - 2 /\ exponent \in Nat /\ exponent > 0
      BY <1>1, <1>4, <2>7
    <3>2. nearest[1] = exponent /\ nearest[2] = m \div Coarse /\ m \div Coarse \in Nat
      BY <1>2, <2>1, <3>1, Coarseness
    <3>3. Bits32(sign, exponent, m \div Coarse) = Float(exponent, m \div Coarse)
      BY <1>7, <3>1, <3>2
    <3> QED
      BY <2>1, <2>3, <2>4, <2>7, <3>1, <3>2, <3>3
  <2> QED
    BY <2>5, <2>6, <2>7
<1> QED
  BY <1>1, <1>2, <1>10, <1>11, <1>12

LEMMA Reworded ==
  ASSUME NEW r, NEW p, NEW v, NEW u
  PROVE  [Taken(r, p, v) EXCEPT !.out = u] = Taken(r, p, u)
<1>1. ASSUME NEW a, NEW y
      PROVE  [[r |-> a, ok |-> y, out |-> v] EXCEPT !.out = u] = [r |-> a, ok |-> y, out |-> u]
  <2>1. [[r |-> a, ok |-> y, out |-> v] EXCEPT !.out = u] \in [r : {a}, ok : {y}, out : {u}]
    OBVIOUS
  <2> QED
    BY <2>1
<1>2. [[r |-> At(r, p), ok |-> TRUE, out |-> v] EXCEPT !.out = u] = [r |-> At(r, p), ok |-> TRUE, out |-> u]
  BY <1>1, Zenon
<1> QED
  BY <1>2, Zenon DEF Taken

LEMMA ReadsFloats ==
  ASSUME NEW r \in Readers, NEW op, op.name \in {"float", "double"}
  PROVE  Does(op, r)
<1> DEFINE h == HeaderAt(r.buf, r.pos)
           e == Expected(op, r.buf, r.pos, h)
           x == Read(op, r, SizeWidth, DoubleIsFloat)
           f == Peek(r)
           w == NumberWidth(f)
           raw == NumberAt(r.buf, r.pos + 1, w)
           narrows == IF op.name = "float" THEN TRUE ELSE DoubleIsFloat
           pattern == Pattern(f, raw, narrows)
<1>1. x = read_floating_(r, narrows)
  <2>1. CASE op.name = "float"
    BY <2>1 DEF Read, read_float
  <2>2. CASE op.name = "double"
    BY <2>2 DEF Read, read_double
  <2> QED
    BY <2>1, <2>2
<1>2. /\ ~h.complete => e = Nothing(r.pos)
      /\ h.complete => e = FloatingOf(h, narrows, r.pos)
  <2>1. Table(op, r.buf, r.pos, h, e)
    BY ExpectedThere, Zenon
  <2> HIDE DEF h, e
  <2>2. CASE op.name = "float"
    BY <2>1, <2>2 DEF Table
  <2>3. CASE op.name = "double"
    BY <2>1, <2>3 DEF Table
  <2> QED
    BY <2>2, <2>3
<1>3. Failed(r, r.pos) = Refused(r) /\ r.pos \in Nat /\ Len(r.buf) \in Nat
  BY Cursors
<1>4. CASE Remaining(r) = 0
  <2>1. x = Refused(r)
    BY <1>1, <1>3, <1>4 DEF read_floating_
  <2>2. ~h.complete
    BY <1>4, Incomplete
  <2> HIDE DEF h, e, x
  <2> QED
    BY <1>2, <2>1, <2>2, Refusals DEF Does, h, e, x
<1>5. CASE Remaining(r) # 0 /\ f \in DOMAIN FloatWidth
  <2>1. f \in Formats /\ w \in Nat
    BY <1>5, Peeks, Zenon
  <2>2. /\ w = FloatWidth[f] /\ w # 0 /\ f # "reserved" /\ f \notin DOMAIN SignedWidth
        /\ f \in {"float32", "float64"} /\ TypeOf(f) \notin {"int", "uint"}
    <3>1. f \in {"float32", "float64"} /\ f # "reserved" /\ f \notin DOMAIN SignedWidth
      BY <1>5, Domains
    <3> QED
      BY <1>5, <2>1, <3>1, Types, Domains, WidthsOfNumbers
  <2>3. /\ (Remaining(Past(r)) < w) <=> (r.pos + 1 + w > Len(r.buf))
        /\ Failed(Past(r), r.pos) = Refused(r)
        /\ \A v : Got([Past(r) EXCEPT !.pos = @ + w], v) = Taken(r, r.pos + 1 + w, v)
        /\ BigEndian(SubSeq(Past(r).buf, Past(r).pos + 1, Past(r).pos + w)) = raw
    BY <2>1, NumberBehind
  <2>4. x = IF Remaining(Past(r)) < w THEN Failed(Past(r), r.pos)
            ELSE Got([Past(r) EXCEPT !.pos = @ + w],
                     Pattern(f, BigEndian(SubSeq(Past(r).buf, Past(r).pos + 1, Past(r).pos + w)), narrows))
    <3>1. Remaining(r) # 0 /\ f \in DOMAIN FloatWidth /\ FloatWidth[f] = w
      BY <1>5, <2>2
    <3> HIDE DEF narrows, x, w
    <3> QED
      BY ONLY <1>1, <3>1, Zenon DEF read_floating_, get_number_, f
  <2> HIDE DEF pattern, raw, w, f, narrows, x
  <2>5. x = IF r.pos + 1 + w > Len(r.buf) THEN Refused(r) ELSE Taken(r, r.pos + 1 + w, pattern)
    BY <2>3, <2>4 DEF pattern
  <2>6. CASE r.pos + 1 + w > Len(r.buf)
    <3>1. ~h.complete
      BY <2>6, Incomplete DEF w, f
    <3> HIDE DEF h, e
    <3> QED
      BY <1>2, <2>5, <2>6, <3>1, Refusals DEF Does, h, e, x
  <2>7. CASE ~(r.pos + 1 + w > Len(r.buf))
    <3>1. r.pos + 1 + w <= Len(r.buf)
      BY <1>3, <2>1, <2>7
    <3>2. h.complete /\ h.kind = TypeOf(f) /\ h.format = f /\ h.next = r.pos + 1 + w /\ h.next \in r.pos .. Len(r.buf)
          /\ h.n = raw /\ raw \in Nat
      <4>1. h.n \in 0 .. Span(w) - 1
        BY <1>5, <2>2, <3>1, Complete DEF f, w
      <4> QED
        BY <1>5, <2>2, <3>1, <4>1, Complete DEF f, w, raw
    <3> HIDE DEF h, e
    <3>3. e = FloatingOf(h, narrows, r.pos)
      BY <1>2, <3>2
    <3>4. e = Something(pattern, h.next)
      <4>1. CASE f = "float32"
        BY <2>2, <3>2, <3>3, <4>1 DEF FloatingOf, pattern, Pattern
      <4>2. CASE f = "float64"
        BY <2>2, <3>2, <3>3, <4>2, NarrowsTowardZero DEF FloatingOf, pattern, Pattern
      <4> QED
        BY <2>2, <4>1, <4>2
    <3>5. x = Taken(r, h.next, pattern)
      BY <2>5, <2>7, <3>2
    <3> QED
      BY <3>2, <3>4, <3>5, Takings DEF Does, h, e, x
  <2> QED
    BY <2>6, <2>7
<1>6. CASE Remaining(r) # 0 /\ f \notin DOMAIN FloatWidth
  <2>1. x = IF IsInteger(h) THEN Taken(r, h.next, FromInteger(h.n)) ELSE Refused(r)
    <3> DEFINE number == read_raw_magnitude_(r)
    <3>1. x = IF number.ok THEN [number EXCEPT !.out = FromInteger(@)] ELSE number
      BY <1>1, <1>6 DEF read_floating_
    <3>2. number = IF IsInteger(h) THEN Taken(r, h.next, h.n) ELSE Refused(r)
      BY Magnitudes, Zenon
    <3> HIDE DEF number, x, h
    <3>3. CASE IsInteger(h)
      <4>1. number.ok /\ number.out = h.n
        BY <3>2, <3>3 DEF Taken
      <4>2. x = [number EXCEPT !.out = FromInteger(h.n)]
        BY <3>1, <4>1
      <4> QED
        BY <3>2, <3>3, <4>2, Reworded
    <3>4. CASE ~IsInteger(h)
      BY <3>1, <3>2, <3>4 DEF Refused
    <3> QED
      BY <3>3, <3>4
  <2>2. h.complete => h.format \notin {"float32", "float64"} /\ h.next \in r.pos .. Len(r.buf)
    BY <1>3, <1>6, SeenFrom, Domains
  <2> HIDE DEF h, e, x
  <2>3. e = IF IsInteger(h) THEN Something(FromInteger(h.n), h.next) ELSE Nothing(r.pos)
    BY <1>2, <2>2 DEF IsInteger, FloatingOf
  <2>4. IsInteger(h) => h.next \in r.pos .. Len(r.buf)
    BY <2>2 DEF IsInteger
  <2> QED
    BY <2>1, <2>3, <2>4, Refusals, Takings DEF Does, h, e, x
<1> QED
  BY <1>4, <1>5, <1>6

-----------------------------------------------------------------------------
(* The raw handler.                                                         *)

\* Every read a handler can make yields what it should.
LEMMA ReadsAsExpected ==
  ASSUME NEW r \in Readers, NEW op \in Ops
  PROVE  Does(op, r)
<1>1. CASE op \in [name : {"signed", "unsigned"}, w : IntWidths]
  BY <1>1, ReadsNumbers
<1>2. CASE op \in [name : {"str_into"}, cap : Capacities]
  BY <1>2, ReadsContents
<1>3. CASE op \in {[name |-> n] : n \in {"nil", "bool", "float", "double", "str", "bin", "array", "map"}}
  <2>1. op.name \in {"nil", "bool", "float", "double", "str", "bin", "array", "map"}
    BY <1>3
  <2> QED
    BY <2>1, ReadsNil, ReadsBool, ReadsFloats, ReadsContents, ReadsCounts
<1> QED
  BY <1>1, <1>2, <1>3 DEF Ops

\* What a read leaves: the same bytes, a cursor no further back, and an error if it failed.
LEMMA ReadsKeepTheBytes ==
  ASSUME NEW r \in Readers, NEW op \in Ops
  PROVE  LET x == Apply(op, r)
         IN /\ x.r \in Readers /\ x.r.buf = r.buf /\ x.r.pos >= r.pos /\ x.ok \in BOOLEAN
            /\ ~x.ok => x.r.error
<1> DEFINE e == Expected(op, r.buf, r.pos, HeaderAt(r.buf, r.pos))
           x == Apply(op, r)
<1>1. Matches(r, x, e)
  BY ReadsAsExpected DEF Does, Apply
<1>2. r.buf \in Bytes /\ r.pos \in Nat /\ r.error \in BOOLEAN /\ Len(r.buf) \in Nat /\ r.pos <= Len(r.buf)
  BY Cursors
<1> HIDE DEF e, x
<1> DEFINE Kept == x.r \in Readers /\ x.r.buf = r.buf /\ x.r.pos >= r.pos
<1>3. ASSUME x = Taken(r, e.end, e.out), e.end \in r.pos .. Len(r.buf)
      PROVE  Kept /\ x.ok
  <2>1. x.ok /\ x.r = At(r, e.end)
    BY <1>3 DEF Taken
  <2>2. At(r, e.end) \in Readers /\ At(r, e.end).buf = r.buf /\ At(r, e.end).pos = e.end
    BY <1>2, <1>3 DEF At, Readers
  <2> QED
    BY <1>2, <1>3, <2>1, <2>2
<1>4. ASSUME x = Refused(r)
      PROVE  Kept /\ x.ok = FALSE /\ x.r.error
  <2>1. x.ok = FALSE /\ x.r = Bad(r)
    BY <1>4 DEF Refused
  <2>2. Bad(r) \in Readers /\ Bad(r).buf = r.buf /\ Bad(r).pos = r.pos /\ Bad(r).error
    BY <1>2 DEF Bad, Readers
  <2>3. Kept
    BY <1>2, <2>1, <2>2
  <2> QED
    BY <2>1, <2>2, <2>3
<1>5. x = Taken(r, e.end, e.out) => x.ok = TRUE
  BY DEF Taken
<1>6. Kept /\ x.ok \in BOOLEAN /\ (~x.ok => x.r.error)
  <2>1. CASE x = Taken(r, e.end, e.out) /\ e.end \in r.pos .. Len(r.buf)
    BY <1>3, <1>5, <2>1
  <2>2. CASE x = Refused(r)
    BY <1>4, <2>2
  <2> QED
    BY <1>1, <2>1, <2>2 DEF Matches
<1> QED
  BY <1>6, Zenon DEF x

-----------------------------------------------------------------------------
(* skip().                                                                  *)

SkipWidth(f) == IF f \in DOMAIN LengthWidth THEN LengthWidth[f] ELSE 0
SkipCount(r) ==
  LET f == Peek(r)
      w == SkipWidth(f)
  IN IF w > 0 THEN LengthAt(r, w)
     ELSE CASE f = "fixmap" -> r.buf[r.pos + 1] - kFixmapPrefix
            [] f = "fixarray" -> r.buf[r.pos + 1] - kFixarrayPrefix
            [] f = "fixstr" -> r.buf[r.pos + 1] - kFixstrPrefix
            [] f \in DOMAIN FixextLength -> FixextLength[f]
            [] OTHER -> 0
SkipHead(f) == 1 + SkipWidth(f) + (IF TypeOf(f) = "ext" THEN 1 ELSE 0)
SkipFits(r) == SkipWidth(Peek(r)) # W32 \/ SkipCount(r) < Span(SizeWidth) - SkipHead(Peek(r))

\* A turn by the kind of the object.
LEMMA TurnsByKind ==
  ASSUME NEW r \in Readers, Remaining(r) # 0, NEW owe, NEW s
  PROVE  LET f == Peek(r)
             kind == TypeOf(f)
             turn == SkipTurn(r, owe, s, SizeWidth)
         IN /\ kind = "invalid" => turn = SkipFails(r, s)
            /\ kind \in {"uint", "int", "float", "nil", "boolean"}
                 => turn = SkipBytes(r, owe, s, 1, 1 + NumberWidth(f), TRUE)
            /\ kind \in {"str", "bin", "ext"}
                 => turn = SkipBytes(r, owe, s, 1 + SkipWidth(f), (SkipHead(f) + SkipCount(r)) % Span(SizeWidth), SkipFits(r))
            /\ kind = "array" => turn = SkipHeader(r, owe, s, SkipHead(f), SkipCount(r), SizeWidth)
            /\ kind = "map" => turn = SkipHeader(r, owe, s, SkipHead(f), 2 * SkipCount(r), SizeWidth)
<1> DEFINE f == Peek(r)
           kind == TypeOf(f)
           turn == SkipTurn(r, owe, s, SizeWidth)
           w == SkipWidth(f)
           n == SkipCount(r)
           head == SkipHead(f)
           fits == SkipFits(r)
           mine == CASE kind = "invalid" -> SkipFails(r, s)
                     [] f \in DOMAIN UnsignedWidth -> SkipBytes(r, owe, s, 1, 1 + UnsignedWidth[f], TRUE)
                     [] f \in DOMAIN SignedWidth -> SkipBytes(r, owe, s, 1, 1 + SignedWidth[f], TRUE)
                     [] kind = "float" -> SkipBytes(r, owe, s, 1, 1 + FloatWidth[f], TRUE)
                     [] kind \in {"str", "bin", "ext"} ->
                          SkipBytes(r, owe, s, 1 + w, (head + n) % Span(SizeWidth), fits)
                     [] kind = "array" -> SkipHeader(r, owe, s, head, n, SizeWidth)
                     [] kind = "map" -> SkipHeader(r, owe, s, head, 2 * n, SizeWidth)
                     [] OTHER -> SkipBytes(r, owe, s, 1, 1, TRUE)
<1>1. turn = mine
  BY Zenon DEF SkipTurn, SkipWidth, SkipCount, SkipHead, SkipFits
<1>2. f \in Formats
  BY Peeks, Zenon
<1>3. /\ kind = "invalid" <=> f = "reserved"
      /\ kind = "uint" <=> f \in {"posfixint"} \cup DOMAIN UnsignedWidth
      /\ kind = "int" <=> f \in {"negfixint"} \cup DOMAIN SignedWidth
      /\ kind = "float" <=> f \in DOMAIN FloatWidth
      /\ kind = "boolean" <=> f \in {"true", "false"}
      /\ kind = "nil" <=> f = "nil"
  BY <1>2, Types
<1>4. /\ f \in DOMAIN UnsignedWidth => NumberWidth(f) = UnsignedWidth[f]
      /\ f \in DOMAIN SignedWidth => NumberWidth(f) = SignedWidth[f]
      /\ f \in DOMAIN FloatWidth => NumberWidth(f) = FloatWidth[f]
      /\ f \in {"posfixint", "negfixint", "true", "false", "nil"} => NumberWidth(f) = 0
  BY <1>2, WidthsOfNumbers, Domains
<1> HIDE DEF f, kind, turn, w, n, head, fits
<1>5. kind = "invalid" => mine = SkipFails(r, s)
  BY <1>3, Domains
<1>6. f \in DOMAIN UnsignedWidth => mine = SkipBytes(r, owe, s, 1, 1 + UnsignedWidth[f], TRUE)
  BY <1>3, Domains
<1>7. f \in DOMAIN SignedWidth => mine = SkipBytes(r, owe, s, 1, 1 + SignedWidth[f], TRUE)
  BY <1>3, Domains
<1>8. f \in DOMAIN FloatWidth => mine = SkipBytes(r, owe, s, 1, 1 + FloatWidth[f], TRUE)
  BY <1>3, Domains
<1>9. f \in {"posfixint", "negfixint", "true", "false", "nil"} => mine = SkipBytes(r, owe, s, 1, 1, TRUE)
  BY <1>3, Domains
<1>10. kind \in {"str", "bin", "ext"} => mine = SkipBytes(r, owe, s, 1 + w, (head + n) % Span(SizeWidth), fits)
  BY <1>3
<1>11. kind = "array" => mine = SkipHeader(r, owe, s, head, n, SizeWidth)
  BY <1>3
<1>12. kind = "map" => mine = SkipHeader(r, owe, s, head, 2 * n, SizeWidth)
  BY <1>3
<1> HIDE DEF mine
<1>13. kind \in {"uint", "int", "float", "nil", "boolean"} => mine = SkipBytes(r, owe, s, 1, 1 + NumberWidth(f), TRUE)
  <2> SUFFICES ASSUME kind \in {"uint", "int", "float", "nil", "boolean"}
               PROVE  mine = SkipBytes(r, owe, s, 1, 1 + NumberWidth(f), TRUE)
    OBVIOUS
  <2>1. CASE f \in DOMAIN UnsignedWidth
    BY <1>4, <1>6, <2>1
  <2>2. CASE f \in DOMAIN SignedWidth
    BY <1>4, <1>7, <2>2
  <2>3. CASE f \in DOMAIN FloatWidth
    BY <1>4, <1>8, <2>3
  <2>4. CASE f \in {"posfixint", "negfixint", "true", "false", "nil"}
    <3>1. 1 + NumberWidth(f) = 1
      BY <1>4, <2>4
    <3> QED
      BY <1>9, <2>4, <3>1
  <2>5. f \in DOMAIN UnsignedWidth \cup DOMAIN SignedWidth \cup DOMAIN FloatWidth
             \cup {"posfixint", "negfixint", "true", "false", "nil"}
    BY <1>3
  <2> QED
    BY <2>1, <2>2, <2>3, <2>4, <2>5
<1> QED
  BY <1>1, <1>5, <1>10, <1>11, <1>12, <1>13 DEF f, kind, turn, w, n, head, fits

\* The count a turn goes by.
LEMMA Counts ==
  ASSUME NEW r \in Readers, Remaining(r) # 0
  PROVE  LET f == Peek(r)
         IN /\ f \in Formats /\ SkipWidth(f) \in Nat /\ SkipHead(f) \in Nat /\ SkipCount(r) \in Nat
            /\ SkipHead(f) = 1 + SkipWidth(f) + (IF TypeOf(f) = "ext" THEN 1 ELSE 0)
            /\ TypeOf(f) \in {"str", "bin", "ext", "array", "map"} =>
                 /\ SkipWidth(f) = NumberWidth(f)
                 /\ r.pos + 1 + NumberWidth(f) <= Len(r.buf) => SkipCount(r) = HeaderAt(r.buf, r.pos).n
<1> DEFINE f == Peek(r)
           b == r.buf[r.pos + 1]
           w == SkipWidth(f)
           n == SkipCount(r)
           h == HeaderAt(r.buf, r.pos)
<1>1. b \in Byte /\ f = FormatOf(b) /\ f \in Formats /\ NumberWidth(f) \in Nat
  BY Peeks, Zenon
<1>2. r.buf \in Bytes /\ r.pos \in Nat /\ Len(r.buf) \in Nat /\ r.pos < Len(r.buf)
  BY Cursors
<1> HIDE DEF f, b, w, n, h
<1>3. /\ w \in Nat
      /\ f \in DOMAIN LengthWidth => w = NumberWidth(f) /\ w > 0
      /\ f \notin DOMAIN LengthWidth => w = 0
  BY <1>1, WidthsOfNumbers DEF w, SkipWidth
<1>4. SkipHead(f) \in Nat /\ SkipHead(f) = 1 + w + (IF TypeOf(f) = "ext" THEN 1 ELSE 0)
  BY <1>3 DEF SkipHead, w
<1>5. ASSUME w > 0, r.pos + 1 + w <= Len(r.buf)
      PROVE  n = NumberAt(r.buf, r.pos + 1, w) /\ n \in Nat
  <2>1. ~(Remaining(r) < 1 + w)
    BY <1>2, <1>3, <1>5, Cursors
  <2>2. n = BigEndian(SubSeq(r.buf, r.pos + 2, r.pos + 1 + w))
    BY <1>5, <2>1 DEF n, SkipCount, LengthAt, w, f
  <2>3. r.pos + 2 = (r.pos + 1) + 1 /\ r.pos + 1 \in Nat /\ (r.pos + 1) + w <= Len(r.buf)
    BY <1>2, <1>5
  <2>4. n = NumberAt(r.buf, r.pos + 1, w)
    BY <2>2, <2>3 DEF NumberAt
  <2>5. NumberAt(r.buf, r.pos + 1, w) \in 0 .. Span(w) - 1
    BY <1>2, <1>3, <2>3, NumbersAt
  <2> QED
    BY <2>4, <2>5
<1>6. ASSUME w > 0, ~(r.pos + 1 + w <= Len(r.buf))
      PROVE  n = 0
  <2>1. Remaining(r) < 1 + w
    BY <1>2, <1>3, <1>6, Cursors
  <2> QED
    BY <1>6, <2>1 DEF n, SkipCount, LengthAt, w, f
<1>7. ASSUME w = 0
      PROVE  /\ n \in Nat
             /\ f \in {"fixmap", "fixarray", "fixstr"} \cup DOMAIN FixextLength => n = Inline(b)
  <2>1. n = CASE f = "fixmap" -> b - kFixmapPrefix
              [] f = "fixarray" -> b - kFixarrayPrefix
              [] f = "fixstr" -> b - kFixstrPrefix
              [] f \in DOMAIN FixextLength -> FixextLength[f]
              [] OTHER -> 0
    <3>1. ~(SkipWidth(Peek(r)) > 0)
      BY <1>7 DEF w, f
    <3> QED
      BY <3>1, Zenon DEF n, SkipCount, f, b
  <2>2. /\ f = "fixmap" => n = b - kFixmapPrefix
        /\ f = "fixarray" => n = b - kFixarrayPrefix
        /\ f = "fixstr" => n = b - kFixstrPrefix
        /\ f \in DOMAIN FixextLength => n = FixextLength[f] /\ n \in Nat
        /\ f \notin {"fixmap", "fixarray", "fixstr"} \cup DOMAIN FixextLength => n = 0
    <3>1. f \in DOMAIN FixextLength => FixextLength[f] \in Nat
      BY DEF FixextLength
    <3> QED
      BY <2>1, <3>1, Domains
  <2>3. /\ f = "fixmap" => Inline(b) = b - PosFixints
        /\ f = "fixarray" => Inline(b) = b - PosFixints - FixCounts
        /\ f = "fixstr" => Inline(b) = b - PosFixints - 2 * FixCounts
        /\ f \in DOMAIN FixextLength => Inline(b) = FixextLength[f]
    BY <1>1, Domains DEF Inline
  <2>4. b \in 0 .. Octets - 1
    BY <1>1 DEF Byte
  <2> QED
    BY <1>1, <2>2, <2>3, <2>4, FormatsOfBytes, LayoutHolds DEF Layout
<1>8. n \in Nat
  BY <1>3, <1>5, <1>6, <1>7
<1>9. ASSUME TypeOf(f) \in {"str", "bin", "ext", "array", "map"}
      PROVE  /\ w = NumberWidth(f)
             /\ r.pos + 1 + NumberWidth(f) <= Len(r.buf) => n = h.n
  <2>1. f \in {"fixmap", "fixarray", "fixstr"} \cup DOMAIN FixextLength \cup DOMAIN LengthWidth /\ f # "reserved"
    BY <1>1, <1>9, Types, Domains
  <2>2. f \notin DOMAIN SignedWidth
    BY <2>1, Domains
  <2>3. CASE f \in DOMAIN LengthWidth
    <3>1. w = NumberWidth(f) /\ w > 0
      BY <1>3, <2>3
    <3>2. ASSUME r.pos + 1 + NumberWidth(f) <= Len(r.buf) PROVE n = h.n
      <4>1. h.n = NumberAt(r.buf, r.pos + 1, NumberWidth(f))
        BY <2>1, <2>2, <3>1, <3>2, Complete DEF h, f
      <4> QED
        BY <1>5, <3>1, <3>2, <4>1
    <3> QED
      BY <3>1, <3>2
  <2>4. CASE f \notin DOMAIN LengthWidth
    <3>1. w = 0 /\ NumberWidth(f) = 0
      <4>1. f \notin DOMAIN UnsignedWidth \cup DOMAIN SignedWidth \cup DOMAIN FloatWidth
        BY <2>1, <2>4, Domains
      <4> QED
        BY <1>1, <1>3, <2>4, <4>1, WidthsOfNumbers
    <3>2. ASSUME r.pos + 1 + NumberWidth(f) <= Len(r.buf) PROVE n = h.n
      <4>1. h.n = Inline(b)
        BY <2>1, <3>1, <3>2, Complete DEF h, f, b
      <4> QED
        BY <1>7, <2>1, <2>4, <3>1, <4>1
    <3> QED
      BY <3>1, <3>2
  <2> QED
    BY <2>3, <2>4
<1> QED
  BY <1>1, <1>3, <1>4, <1>8, <1>9 DEF f, w, n, h

\* What a turn can be, whatever the sizes.
LEMMA TurnsKeepTheBytes ==
  ASSUME NEW r \in Readers, NEW owe \in Nat \ {0}, NEW s \in 0 .. r.pos, owe < Span(SizeWidth)
  PROVE  LET turn == SkipTurn(r, owe, s, SizeWidth)
         IN /\ turn.r \in Readers /\ turn.r.buf = r.buf /\ turn.r.pos >= s
            /\ turn.owed \in 0 .. Span(SizeWidth) - 1
<1> DEFINE turn == SkipTurn(r, owe, s, SizeWidth)
           Good(t) == /\ t.r \in Readers /\ t.r.buf = r.buf /\ t.r.pos >= s
                      /\ t.owed \in 0 .. Span(SizeWidth) - 1
<1>1. Span(SizeWidth) \in Nat /\ Span(SizeWidth) > 0
  BY HandlerAssumption, Spans
<1>2. r.buf \in Bytes /\ r.pos \in Nat /\ r.error \in BOOLEAN /\ Len(r.buf) \in Nat /\ r.pos <= Len(r.buf)
      /\ r = At(r, r.pos) /\ Remaining(r) = Len(r.buf) - r.pos /\ s \in Nat /\ s <= r.pos
  BY Cursors
<1>3. Good(SkipFails(r, s))
  <2>1. fail_(r, s) = [buf |-> r.buf, pos |-> s, error |-> TRUE]
    <3> DEFINE rec == [buf |-> r.buf, pos |-> r.pos, error |-> r.error]
    <3>1. r = rec
      BY <1>2 DEF At
    <3>2. fail_(rec, s) = [buf |-> r.buf, pos |-> s, error |-> TRUE]
      BY FailedAt, Zenon
    <3> HIDE DEF rec
    <3> QED
      BY <3>1, <3>2, Zenon
  <2>2. [buf |-> r.buf, pos |-> s, error |-> TRUE] \in Readers
    BY <1>2 DEF Readers
  <2>3. SkipFails(r, s).r = [buf |-> r.buf, pos |-> s, error |-> TRUE] /\ SkipFails(r, s).owed = 0
    BY <2>1 DEF SkipFails, Skipping
  <2> QED
    BY <1>1, <1>2, <2>2, <2>3
<1>4. ASSUME NEW n \in Nat, n <= Len(r.buf) - r.pos, NEW m \in 0 .. Span(SizeWidth) - 1
      PROVE  Good(Skipping([r EXCEPT !.pos = @ + n], m))
  <2>1. [r EXCEPT !.pos = @ + n] = At(r, r.pos + n)
    BY <1>2, Cursors
  <2>2. At(r, r.pos + n) \in Readers /\ At(r, r.pos + n).buf = r.buf /\ At(r, r.pos + n).pos = r.pos + n
    BY <1>2, <1>4 DEF At, Readers
  <2>3. Skipping(At(r, r.pos + n), m).r = At(r, r.pos + n) /\ Skipping(At(r, r.pos + n), m).owed = m
    BY DEF Skipping
  <2> QED
    BY <1>2, <2>1, <2>2, <2>3
<1>5. ASSUME NEW n \in Nat, NEW seen, NEW fits PROVE Good(SkipBytes(r, owe, s, seen, n, fits))
  <2>1. owe - 1 \in 0 .. Span(SizeWidth) - 1
    BY <1>1
  <2>2. SkipBytes(r, owe, s, seen, n, fits) = SkipFails(r, s)
        \/ (n <= Len(r.buf) - r.pos /\ SkipBytes(r, owe, s, seen, n, fits) = Skipping([r EXCEPT !.pos = @ + n], owe - 1))
    <3> DEFINE stops == Remaining(r) < seen \/ ~fits \/ Remaining(r) < n
               turn1 == SkipBytes(r, owe, s, seen, n, fits)
               past == Skipping([r EXCEPT !.pos = @ + n], owe - 1)
    <3>1. turn1 = IF stops THEN SkipFails(r, s) ELSE past
      BY Zenon DEF SkipBytes
    <3>2. ~stops => ~(Remaining(r) < n)
      BY Zenon
    <3>3. ~(Remaining(r) < n) => n <= Len(r.buf) - r.pos
      BY <1>2
    <3> HIDE DEF stops, past, turn1
    <3>4. turn1 = SkipFails(r, s) \/ (n <= Len(r.buf) - r.pos /\ turn1 = past)
      <4>1. CASE stops
        BY <3>1, <4>1, Zenon
      <4>2. CASE ~stops
        BY <3>1, <3>2, <3>3, <4>2, Zenon
      <4> QED
        BY <4>1, <4>2, Zenon
    <3> QED
      BY <3>4, Zenon DEF turn1, past
  <2> HIDE DEF Good
  <2> QED
    BY <1>3, <1>4, <2>1, <2>2
<1>6. ASSUME NEW n \in Nat, NEW more \in Nat PROVE Good(SkipHeader(r, owe, s, n, more, SizeWidth))
  <2>1. (owe + more - 1) % Span(SizeWidth) \in 0 .. Span(SizeWidth) - 1
    BY <1>1
  <2>2. SkipHeader(r, owe, s, n, more, SizeWidth) = SkipFails(r, s)
        \/ /\ n <= Len(r.buf) - r.pos
           /\ SkipHeader(r, owe, s, n, more, SizeWidth)
                = Skipping([r EXCEPT !.pos = @ + n], (owe + more - 1) % Span(SizeWidth))
    BY <1>2 DEF SkipHeader
  <2> HIDE DEF Good
  <2> QED
    BY <1>3, <1>4, <2>1, <2>2
<1> HIDE DEF Good
<1>7. Good(turn)
  <2>1. CASE Remaining(r) = 0
    <3>1. turn = SkipFails(r, s)
      BY <2>1 DEF SkipTurn
    <3> QED
      BY <1>3, <3>1
  <2>2. CASE Remaining(r) # 0
    <3> DEFINE f == Peek(r)
               kind == TypeOf(f)
    <3>1. /\ kind = "invalid" => turn = SkipFails(r, s)
          /\ kind \in {"uint", "int", "float", "nil", "boolean"}
               => turn = SkipBytes(r, owe, s, 1, 1 + NumberWidth(f), TRUE)
          /\ kind \in {"str", "bin", "ext"}
               => turn = SkipBytes(r, owe, s, 1 + SkipWidth(f), (SkipHead(f) + SkipCount(r)) % Span(SizeWidth), SkipFits(r))
          /\ kind = "array" => turn = SkipHeader(r, owe, s, SkipHead(f), SkipCount(r), SizeWidth)
          /\ kind = "map" => turn = SkipHeader(r, owe, s, SkipHead(f), 2 * SkipCount(r), SizeWidth)
      BY <2>2, TurnsByKind, Zenon
    <3>2. f \in Formats /\ SkipHead(f) \in Nat /\ SkipCount(r) \in Nat /\ NumberWidth(f) \in Nat
      BY <2>2, Counts, WidthsOfNumbers
    <3>3. kind \in {"invalid", "uint", "int", "float", "nil", "boolean", "str", "bin", "ext", "array", "map"}
      BY <3>2, Domains, Types DEF Formats, Named
    <3>4. 1 + NumberWidth(f) \in Nat /\ (SkipHead(f) + SkipCount(r)) % Span(SizeWidth) \in Nat /\ 2 * SkipCount(r) \in Nat
      BY <1>1, <3>2
    <3> HIDE DEF turn, f, kind
    <3>5. Good(SkipBytes(r, owe, s, 1, 1 + NumberWidth(f), TRUE))
      BY <1>5, <3>4
    <3>6. Good(SkipBytes(r, owe, s, 1 + SkipWidth(f), (SkipHead(f) + SkipCount(r)) % Span(SizeWidth), SkipFits(r)))
      BY <1>5, <3>4
    <3>7. Good(SkipHeader(r, owe, s, SkipHead(f), SkipCount(r), SizeWidth))
      BY <1>6, <3>2
    <3>8. Good(SkipHeader(r, owe, s, SkipHead(f), 2 * SkipCount(r), SizeWidth))
      BY <1>6, <3>2, <3>4
    <3> QED
      BY <1>3, <3>1, <3>3, <3>5, <3>6, <3>7, <3>8
  <2> QED
    BY <2>1, <2>2
<1> QED
  BY <1>7 DEF Good, turn

LEMMA StartsTyped == RawInit => RawTypeOK
<1> SUFFICES ASSUME RawInit PROVE RawTypeOK
  OBVIOUS
<1>1. reader.buf = << >> /\ reader.pos = 0 /\ reader.error = FALSE /\ owed = 0 /\ saved = 0
      /\ last.ok = FALSE /\ last.from = 0
  BY DEF RawInit, Reader, NoRead
<1>2. << >> \in Bytes /\ Len(<< >>) = 0
  BY DEF Bytes
<1>3. Span(SizeWidth) \in Nat /\ Span(SizeWidth) > 0
  BY HandlerAssumption, Spans
<1>4. reader.error \in BOOLEAN /\ last.ok \in BOOLEAN
  BY <1>1, Zenon
<1> QED
  BY <1>1, <1>2, <1>3, <1>4 DEF RawTypeOK

\* The reader is a record, which its type invariant, stated by its fields, does not say.
RawShape == reader \in Readers

LEMMA StartsShaped == RawInit => RawShape
<1>1. << >> \in Bytes /\ Len(<< >>) = 0
  BY DEF Bytes
<1> QED
  BY <1>1 DEF RawInit, Reader, RawShape, Readers

LEMMA StepsTyped == RawTypeOK /\ RawShape /\ [RawNext]_rawVars => RawTypeOK' /\ RawShape'
<1> SUFFICES ASSUME RawTypeOK, RawShape, [RawNext]_rawVars PROVE RawTypeOK' /\ RawShape'
  OBVIOUS
<1>1. /\ reader \in Readers /\ owed \in 0 .. Span(SizeWidth) - 1 /\ saved \in 0 .. reader.pos
      /\ last.ok \in BOOLEAN /\ last.from \in 0 .. Len(reader.buf)
  BY DEF RawTypeOK, RawShape
<1>2. Span(SizeWidth) \in Nat /\ Span(SizeWidth) > 0
  BY HandlerAssumption, Spans
<1>3. /\ reader.pos \in Nat /\ Len(reader.buf) \in Nat /\ reader.pos <= Len(reader.buf)
  BY <1>1, Cursors
<1> DEFINE Good == /\ reader' \in Readers /\ owed' \in 0 .. Span(SizeWidth) - 1 /\ saved' \in 0 .. reader'.pos
                   /\ last'.ok \in BOOLEAN /\ last'.from \in 0 .. Len(reader'.buf)
<1>4. ASSUME Good PROVE RawTypeOK' /\ RawShape'
  <2>1. reader'.buf \in Bytes /\ reader'.pos \in 0 .. Len(reader'.buf) /\ reader'.error \in BOOLEAN
    <3>1. reader' \in Readers
      BY <1>4
    <3>2. reader'.buf \in Bytes /\ reader'.pos \in Nat /\ reader'.error \in BOOLEAN
          /\ Len(reader'.buf) \in Nat /\ reader'.pos <= Len(reader'.buf)
      BY <3>1, Cursors
    <3> QED
      BY <3>2
  <2> QED
    BY <1>4, <2>1 DEF RawTypeOK, RawShape
<1>5. CASE GetsReader
  <2>1. reader' \in Readers /\ owed' = 0 /\ saved' = 0 /\ last' = NoRead
    BY <1>5 DEF GetsReader, Called
  <2>2. reader'.pos \in Nat /\ Len(reader'.buf) \in Nat
    BY <2>1, Cursors
  <2>3. NoRead.ok = FALSE /\ NoRead.from = 0
    BY DEF NoRead
  <2>4. last'.ok \in BOOLEAN
    BY <2>1, <2>3, Zenon
  <2>5. Good
    BY <1>2, <2>1, <2>2, <2>3, <2>4
  <2> QED
    BY <1>4, <2>5
<1>6. ASSUME NEW op \in Ops, ReadOne(op) PROVE RawTypeOK' /\ RawShape'
  <2> DEFINE x == Apply(op, reader)
  <2>1. x.r \in Readers /\ x.r.buf = reader.buf /\ x.r.pos >= reader.pos /\ x.ok \in BOOLEAN
    BY <1>1, ReadsKeepTheBytes, Zenon
  <2>2. /\ reader' = x.r /\ last' = [op |-> op, from |-> reader.pos, ok |-> x.ok, yields |-> x.out]
        /\ owed' = owed /\ saved' = saved
    BY <1>6 DEF ReadOne
  <2> HIDE DEF x
  <2>3. last'.ok \in BOOLEAN /\ last'.from = reader.pos
    BY <2>1, <2>2
  <2>4. reader'.pos \in Nat
    BY <2>1, <2>2, Cursors
  <2>5. Good
    BY <1>1, <1>3, <2>1, <2>2, <2>3, <2>4
  <2> QED
    BY <1>4, <2>5
<1>7. CASE BeginSkip
  <2>1. 1 < Span(SizeWidth)
    <3>1. SizeWidth \in Nat /\ SizeWidth > 0
      BY HandlerAssumption, LayoutAssumption
    <3>2. Octets <= Span(SizeWidth) /\ Octets > 1 /\ Octets \in Nat
      BY <3>1, SpansOfFields, LayoutHolds DEF Layout
    <3> QED
      BY <1>2, <3>2
  <2>2. Good
    BY <1>1, <1>2, <1>3, <1>7, <2>1 DEF BeginSkip
  <2> QED
    BY <1>4, <2>2
<1>8. CASE Skip
  <2> DEFINE turn == SkipTurn(reader, owed, saved, SizeWidth)
  <2>1. owed \in Nat \ {0} /\ owed < Span(SizeWidth)
    BY <1>1, <1>2, <1>8 DEF Skip
  <2>2. turn.r \in Readers /\ turn.r.buf = reader.buf /\ turn.r.pos >= saved
        /\ turn.owed \in 0 .. Span(SizeWidth) - 1
    BY <1>1, <2>1, TurnsKeepTheBytes, Zenon
  <2>3. /\ reader' = turn.r /\ owed' = turn.owed /\ saved' = saved
        /\ last' = IF turn.owed > 0 THEN last
                   ELSE [op |-> [name |-> "skip"], from |-> saved, ok |-> ~turn.r.error, yields |-> 0]
    BY <1>8 DEF Skip
  <2> HIDE DEF turn
  <2>4. saved' \in 0 .. reader'.pos /\ reader'.pos \in Nat /\ saved \in Nat
    BY <1>1, <2>2, <2>3, Cursors
  <2>5. last'.ok \in BOOLEAN /\ last'.from \in 0 .. Len(reader'.buf)
    <3>1. CASE turn.owed > 0
      BY <1>1, <1>3, <2>2, <2>3, <3>1
    <3>2. CASE ~(turn.owed > 0)
      <4>1. last'.ok = ~turn.r.error /\ last'.from = saved
        BY <2>3, <3>2
      <4>2. last'.ok \in BOOLEAN
        BY <4>1, Zenon
      <4> QED
        BY <1>1, <1>3, <2>2, <2>3, <4>1, <4>2
    <3> QED
      BY <3>1, <3>2
  <2>6. Good
    BY <2>2, <2>3, <2>4, <2>5
  <2> QED
    BY <1>4, <2>6
<1>9. CASE UNCHANGED rawVars
  BY <1>9 DEF rawVars, RawTypeOK, RawShape
<1> QED
  BY <1>5, <1>6, <1>7, <1>8, <1>9 DEF RawNext, HandlerReads

\* Whatever a handler reads, and after any errors, its reader stays within the
\* payload, and so does the place where a skip() in progress began (read(),
\* skip() and fail_ of Reader, msgpack_lite.h).
THEOREM RawTyped == RawSpec => []RawTypeOK
<1>1. RawInit => RawTypeOK /\ RawShape
  BY StartsTyped, StartsShaped
<1>2. (RawTypeOK /\ RawShape) /\ [RawNext]_rawVars => (RawTypeOK /\ RawShape)'
  BY StepsTyped
<1> QED
  BY <1>1, <1>2, PTL DEF RawSpec

\* Reads.
LEMMA StepsRead == RawTypeOK /\ RawShape /\ ReadsWhatIsThere /\ [RawNext]_rawVars => ReadsWhatIsThere'
<1> SUFFICES ASSUME RawTypeOK, RawShape, ReadsWhatIsThere, [RawNext]_rawVars PROVE ReadsWhatIsThere'
  OBVIOUS
<1>1. reader \in Readers
  BY DEF RawShape
<1>2. CASE GetsReader
  <2>1. last'.op.name = "none"
    BY <1>2 DEF GetsReader, Called, NoRead
  <2> QED
    BY <2>1 DEF ReadsWhatIsThere
<1>3. ASSUME NEW op \in Ops, ReadOne(op) PROVE ReadsWhatIsThere'
  <2> DEFINE x == Apply(op, reader)
             h == HeaderAt(reader.buf, reader.pos)
             e == Expected(op, reader.buf, reader.pos, h)
  <2>1. Matches(reader, x, e)
    BY <1>1, ReadsAsExpected DEF Does, Apply
  <2>2. x.r.buf = reader.buf
    BY <1>1, ReadsKeepTheBytes, Zenon
  <2>3. /\ reader' = x.r /\ last' = [op |-> op, from |-> reader.pos, ok |-> x.ok, yields |-> x.out]
    BY <1>3 DEF ReadOne
  <2> HIDE DEF x, h, e
  <2>4. x.ok = e.ok /\ x.r.pos = e.end /\ (x.ok => x.out = e.out) /\ (~x.ok => x.r.error)
    <3>1. CASE e.ok /\ x = Taken(reader, e.end, e.out)
      <4>1. x.ok = TRUE /\ x.r.pos = e.end /\ x.out = e.out
        BY <3>1 DEF Taken, At
      <4>2. e.ok = TRUE
        BY <3>1
      <4> QED
        BY <4>1, <4>2
    <3>2. CASE ~e.ok /\ x = Refused(reader) /\ e.end = reader.pos
      <4>1. x.ok = FALSE /\ x.r.pos = reader.pos /\ x.r.error
        BY <3>2 DEF Refused, Bad
      <4>2. e.ok = FALSE
        BY <3>2
      <4> QED
        BY <3>2, <4>1, <4>2
    <3> QED
      BY <2>1, <3>1, <3>2 DEF Matches
  <2>5. /\ last'.op = op /\ last'.from = reader.pos /\ last'.ok = x.ok /\ last'.yields = x.out
        /\ reader'.buf = reader.buf /\ reader'.pos = x.r.pos /\ reader'.error = x.r.error
    BY <2>2, <2>3
  <2>6. h = HeaderAt(reader'.buf, last'.from) /\ e = Expected(last'.op, reader'.buf, last'.from, h)
    BY <2>5 DEF h, e
  <2>7. /\ last'.ok = e.ok /\ reader'.pos = e.end
        /\ last'.ok => last'.yields = e.out
        /\ ~last'.ok => reader'.error
    BY <2>4, <2>5
  <2> QED
    BY <2>6, <2>7, Zenon DEF ReadsWhatIsThere
<1>4. CASE BeginSkip
  <2>1. owed' = 1
    BY <1>4 DEF BeginSkip
  <2> QED
    BY <2>1 DEF ReadsWhatIsThere
<1>5. CASE Skip
  <2> DEFINE turn == SkipTurn(reader, owed, saved, SizeWidth)
  <2>1. owed' = turn.owed /\ (~(turn.owed > 0) => last'.op.name = "skip")
    BY <1>5 DEF Skip
  <2>2. owed \in Nat \ {0} /\ owed < Span(SizeWidth) /\ saved \in 0 .. reader.pos
    <3>1. Span(SizeWidth) \in Nat
      BY HandlerAssumption, Spans
    <3> QED
      BY <1>5, <3>1 DEF Skip, RawTypeOK
  <2>3. turn.owed \in 0 .. Span(SizeWidth) - 1
    BY <1>1, <2>2, TurnsKeepTheBytes, Zenon
  <2> HIDE DEF turn
  <2>4. Span(SizeWidth) \in Nat
    BY HandlerAssumption, Spans
  <2>5. turn.owed = 0 \/ turn.owed > 0
    BY <2>3, <2>4
  <2> QED
    BY <2>1, <2>5 DEF ReadsWhatIsThere
<1>6. CASE UNCHANGED rawVars
  BY <1>6 DEF rawVars, ReadsWhatIsThere
<1> QED
  BY <1>2, <1>3, <1>4, <1>5, <1>6 DEF RawNext, HandlerReads

\* A read of any kind gives the object that is there and moves behind it when it
\* is complete, of the kind asked for and in the range of the type; otherwise it
\* moves nothing and sets the error flag, also after a part of the object has
\* been read (the read functions and read_raw_magnitude_ of Reader,
\* msgpack_lite.h).
THEOREM ReadsRight == RawSpec => []ReadsWhatIsThere
<1>1. RawInit => RawTypeOK /\ RawShape /\ ReadsWhatIsThere
  <2>1. RawInit => ReadsWhatIsThere
    BY DEF RawInit, NoRead, ReadsWhatIsThere
  <2> QED
    BY <2>1, StartsTyped, StartsShaped
<1>2. (RawTypeOK /\ RawShape /\ ReadsWhatIsThere) /\ [RawNext]_rawVars => (RawTypeOK /\ RawShape /\ ReadsWhatIsThere)'
  BY StepsTyped, StepsRead
<1> QED
  BY <1>1, <1>2, PTL DEF RawSpec

-----------------------------------------------------------------------------
(* Where objects end.                                                       *)

\* The objects that begin at p: whether the first is all there, where the next begins, and
\* the objects in it.
Whole(buf, p) == LET h == HeaderAt(buf, p) IN h.complete /\ h.next + PayloadLength(h) <= Len(buf)
NextAfter(buf, p) == LET h == HeaderAt(buf, p) IN h.next + PayloadLength(h)
Within(buf, p) == ObjectsInside(HeaderAt(buf, p))

LEMMA Payloads ==
  ASSUME NEW buf \in Bytes, NEW p \in Nat, HeaderAt(buf, p).complete
  PROVE  LET h == HeaderAt(buf, p)
         IN /\ PayloadLength(h) \in Nat /\ ObjectsInside(h) \in Nat
            /\ h.kind \in {"str", "bin"} => PayloadLength(h) = h.n
            /\ h.kind = "ext" => PayloadLength(h) = h.n + 1
            /\ h.kind \notin {"str", "bin", "ext"} => PayloadLength(h) = 0
            /\ h.kind = "array" => ObjectsInside(h) = h.n
            /\ h.kind = "map" => ObjectsInside(h) = 2 * h.n
            /\ h.kind \notin {"array", "map"} => ObjectsInside(h) = 0
<1> DEFINE h == HeaderAt(buf, p)
<1>1. h.kind # "int" => h.n \in Nat
  BY HeaderTypes
<1> HIDE DEF h
<1>2. /\ h.kind \in {"str", "bin"} => PayloadLength(h) = h.n
      /\ h.kind = "ext" => PayloadLength(h) = h.n + 1
      /\ h.kind \notin {"str", "bin", "ext"} => PayloadLength(h) = 0
  BY DEF PayloadLength
<1>3. /\ h.kind = "array" => ObjectsInside(h) = h.n
      /\ h.kind = "map" => ObjectsInside(h) = 2 * h.n
      /\ h.kind \notin {"array", "map"} => ObjectsInside(h) = 0
  BY DEF ObjectsInside
<1>4. PayloadLength(h) \in Nat /\ ObjectsInside(h) \in Nat
  BY <1>1, <1>2, <1>3
<1> QED
  BY <1>2, <1>3, <1>4 DEF h

LEMMA Onward ==
  ASSUME NEW buf \in Bytes, NEW p \in 0 .. Len(buf), Whole(buf, p)
  PROVE  NextAfter(buf, p) \in p + 1 .. Len(buf) /\ Within(buf, p) \in Nat
<1>1. Len(buf) \in Nat /\ p \in Nat
  BY BytesAreBytes
<1> DEFINE h == HeaderAt(buf, p)
<1>2. h.complete /\ h.next + PayloadLength(h) <= Len(buf)
  BY DEF Whole
<1>3. h.next \in p + 1 .. Len(buf)
  BY <1>1, <1>2, HeaderTypes
<1>4. PayloadLength(h) \in Nat /\ ObjectsInside(h) \in Nat
  BY <1>1, <1>2, Payloads
<1> HIDE DEF h
<1>5. h.next + PayloadLength(h) \in p + 1 .. Len(buf)
  BY <1>1, <1>2, <1>3, <1>4
<1> QED
  BY <1>4, <1>5 DEF h, NextAfter, Within

\* ObjectsEnd is what its definition says: a position depends on later ones only.
EndOf(buf, t, p, owe) ==
  IF owe = 0 THEN p ELSE IF Whole(buf, p) THEN t[NextAfter(buf, p)][owe - 1 + Within(buf, p)] ELSE -1

LEMMA Ends ==
  ASSUME NEW buf \in Bytes
  PROVE  /\ ObjectsEnd(buf) \in [0 .. Len(buf) -> [Nat -> Int]]
         /\ \A p \in 0 .. Len(buf), owe \in Nat : ObjectsEnd(buf)[p][owe] = EndOf(buf, ObjectsEnd(buf), p, owe)
<1> DEFINE L == Len(buf)
           P == 0 .. L
           Tables == [P -> [Nat -> Int]]
           F(t) == [p \in P |-> [owe \in Nat |-> EndOf(buf, t, p, owe)]]
           step == [k \in Nat |-> [t \in Tables |-> F(t)]]
           first == [p \in P |-> [owe \in Nat |-> -1]]
           Is(t) == t = F(t)
<1>1. L \in Nat
  BY BytesAreBytes
<1>2. ASSUME NEW p \in P, Whole(buf, p) PROVE NextAfter(buf, p) \in p + 1 .. L /\ Within(buf, p) \in Nat
  BY <1>2, Onward
<1> HIDE DEF L
<1>3. ASSUME NEW t \in Tables PROVE F(t) \in Tables
  <2>1. ASSUME NEW p \in P, NEW owe \in Nat PROVE EndOf(buf, t, p, owe) \in Int
    <3>1. CASE owe # 0 /\ Whole(buf, p)
      <4>1. NextAfter(buf, p) \in P /\ owe - 1 + Within(buf, p) \in Nat
        <5> DEFINE n == NextAfter(buf, p)
                   i == Within(buf, p)
        <5>1. n \in p + 1 .. L /\ i \in Nat /\ owe # 0
          BY <1>2, <3>1
        <5> HIDE DEF n, i
        <5>2. n \in P /\ owe - 1 + i \in Nat
          BY <1>1, <5>1
        <5> QED
          BY <5>2 DEF n, i
      <4>2. t[NextAfter(buf, p)] \in [Nat -> Int]
        BY <4>1
      <4>3. t[NextAfter(buf, p)][owe - 1 + Within(buf, p)] \in Int
        BY <4>1, <4>2
      <4> QED
        BY <3>1, <4>3 DEF EndOf
    <3>2. CASE owe = 0
      BY <1>1, <3>2 DEF EndOf
    <3>3. CASE owe # 0 /\ ~Whole(buf, p)
      BY <3>3 DEF EndOf
    <3> QED
      BY <3>1, <3>2, <3>3
  <2> QED
    BY <2>1
<1>4. first \in Tables
  OBVIOUS
<1> HIDE DEF F, P, Tables, first
<1>5. PICK g : Iteration(Tables, first, step, g)
  <2>1. step \in Steps(Tables)
    BY <1>3 DEF Steps
  <2> HIDE DEF step
  <2> QED
    BY <1>4, <2>1, Iterates
<1>6. g \in [Nat -> Tables] /\ \A k \in Nat : g[k + 1] = F(g[k])
  BY <1>5 DEF Iteration
<1>7. ASSUME NEW t \in Tables, NEW u \in Tables, NEW p \in P, \A q \in P : q > p => t[q] = u[q]
      PROVE  F(t)[p] = F(u)[p]
  <2>1. ASSUME NEW owe \in Nat PROVE EndOf(buf, t, p, owe) = EndOf(buf, u, p, owe)
    <3>1. CASE Whole(buf, p)
      <4>1. NextAfter(buf, p) \in P /\ NextAfter(buf, p) > p
        BY <1>1, <1>2, <3>1 DEF P
      <4>2. t[NextAfter(buf, p)] = u[NextAfter(buf, p)]
        BY <1>7, <4>1
      <4> QED
        BY <4>2 DEF EndOf
    <3>2. CASE ~Whole(buf, p)
      BY <3>2 DEF EndOf
    <3> QED
      BY <3>1, <3>2
  <2> QED
    BY <2>1 DEF F
<1> DEFINE T == {k \in Nat : \A p \in P : L - p < k => g[k + 1][p] = g[k][p]}
<1>8. 0 \in T
  BY <1>1 DEF P
<1>9. ASSUME NEW k \in T PROVE k + 1 \in T
  <2> SUFFICES ASSUME NEW p \in P, L - p < k + 1 PROVE g[k + 1 + 1][p] = g[k + 1][p]
    OBVIOUS
  <2>1. k \in Nat /\ k + 1 \in Nat /\ g[k] \in Tables /\ g[k + 1] \in Tables
    BY <1>6
  <2>2. \A q \in P : q > p => g[k + 1][q] = g[k][q]
    BY <1>1, <2>1 DEF P
  <2>3. F(g[k + 1])[p] = F(g[k])[p]
    BY <1>7, <2>1, <2>2
  <2> QED
    BY <1>6, <2>1, <2>3
<1>10. T = Nat
  <2> HIDE DEF T
  <2>1. T \in SUBSET Nat
    BY DEF T
  <2> QED
    BY <1>8, <1>9, <2>1, Induction
<1>11. Is(g[L + 1])
  <2>1. L + 1 \in Nat /\ L + 1 \in T
    BY <1>1, <1>10
  <2>2. \A p \in P : L - p < L + 1
    BY <1>1 DEF P
  <2>3. \A p \in P : g[L + 1 + 1][p] = g[L + 1][p]
    BY <2>1, <2>2
  <2>4. g[L + 1 + 1] = F(g[L + 1]) /\ g[L + 1] \in Tables /\ g[L + 1 + 1] \in Tables
    BY <1>6, <2>1
  <2>5. g[L + 1 + 1] = g[L + 1]
    BY <2>3, <2>4 DEF Tables
  <2> QED
    BY <2>4, <2>5
<1> DEFINE end == CHOOSE t : Is(t)
<1>12. Is(end)
  BY <1>11
<1>13. ObjectsEnd(buf) = end
  <2> DEFINE Body(t, p, owe) ==
               IF owe = 0 THEN p
               ELSE LET h == HeaderAt(buf, p)
                    IN  IF ~h.complete THEN -1
                        ELSE IF h.next + PayloadLength(h) > Len(buf) THEN -1
                        ELSE t[h.next + PayloadLength(h)][owe - 1 + ObjectsInside(h)]
             Same(t) == t = [p \in 0 .. Len(buf) |-> [owe \in Nat |-> Body(t, p, owe)]]
  <2>1. ObjectsEnd(buf) = CHOOSE t : Same(t)
    BY Zenon DEF ObjectsEnd
  <2>2. ASSUME NEW t, NEW p \in P, NEW owe \in Nat PROVE Body(t, p, owe) = EndOf(buf, t, p, owe)
    <3> DEFINE h == HeaderAt(buf, p)
    <3>1. h.complete => h.next + PayloadLength(h) \in Int /\ Len(buf) \in Int
      <4>1. p \in Nat
        BY <1>1 DEF P
      <4> QED
        BY <4>1, HeaderTypes, Payloads, BytesAreBytes
    <3> HIDE DEF h
    <3>2. h.complete => (h.next + PayloadLength(h) > Len(buf) <=> ~(h.next + PayloadLength(h) <= Len(buf)))
      BY <3>1
    <3>3. CASE ~h.complete
      BY <3>3 DEF EndOf, Whole, h
    <3>4. CASE h.complete /\ h.next + PayloadLength(h) > Len(buf)
      BY <3>2, <3>4 DEF EndOf, Whole, h
    <3>5. CASE h.complete /\ ~(h.next + PayloadLength(h) > Len(buf))
      BY <3>2, <3>5 DEF EndOf, Whole, NextAfter, Within, h
    <3> QED
      BY <3>3, <3>4, <3>5
  <2> HIDE DEF Body
  <2>3. \A t : [p \in P |-> [owe \in Nat |-> Body(t, p, owe)]] = F(t)
    BY <2>2 DEF F
  <2>4. \A t : Same(t) <=> Is(t)
    BY <2>3 DEF P, L
  <2> HIDE DEF Same, Is
  <2> QED
    BY <2>1, <2>4, Zenon
<1> HIDE DEF end
<1>14. end \in Tables
  <2>1. g[L + 1] \in Tables
    BY <1>1, <1>6
  <2> DEFINE U == {k \in Nat : \A p \in P : L - p < k => end[p] \in [Nat -> Int]}
  <2>2. 0 \in U
    BY <1>1 DEF P
  <2>3. ASSUME NEW k \in U PROVE k + 1 \in U
    <3> SUFFICES ASSUME NEW p \in P, L - p < k + 1 PROVE end[p] \in [Nat -> Int]
      OBVIOUS
    <3>1. end[p] = [owe \in Nat |-> EndOf(buf, end, p, owe)]
      BY <1>12 DEF F
    <3>2. ASSUME NEW owe \in Nat PROVE EndOf(buf, end, p, owe) \in Int
      <4>1. CASE owe # 0 /\ Whole(buf, p)
        <5>1. NextAfter(buf, p) \in P /\ L - NextAfter(buf, p) < k /\ owe - 1 + Within(buf, p) \in Nat
          BY <1>1, <1>2, <4>1 DEF P
        <5>2. end[NextAfter(buf, p)] \in [Nat -> Int]
          BY <5>1
        <5>3. end[NextAfter(buf, p)][owe - 1 + Within(buf, p)] \in Int
          BY <5>1, <5>2
        <5> QED
          BY <4>1, <5>3 DEF EndOf
      <4>2. CASE owe = 0
        BY <1>1, <4>2 DEF EndOf, P
      <4>3. CASE owe # 0 /\ ~Whole(buf, p)
        BY <4>3 DEF EndOf
      <4> QED
        BY <4>1, <4>2, <4>3
    <3> QED
      BY <3>1, <3>2
  <2>4. U = Nat
    <3> HIDE DEF U
    <3>1. U \in SUBSET Nat
      BY DEF U
    <3> QED
      BY <2>2, <2>3, <3>1, Induction
  <2>5. \A p \in P : end[p] \in [Nat -> Int]
    <3>1. L + 1 \in U
      <4>1. L + 1 \in Nat
        BY <1>1
      <4> HIDE DEF U
      <4> QED
        BY <2>4, <4>1
    <3>2. \A p \in P : L - p < L + 1
      BY <1>1 DEF P
    <3> QED
      BY <3>1, <3>2
  <2>6. end = [p \in P |-> end[p]]
    BY <1>12 DEF F
  <2> QED
    BY <2>5, <2>6 DEF Tables
<1>15. \A p \in P, owe \in Nat : end[p][owe] = EndOf(buf, end, p, owe)
  BY <1>12 DEF F
<1> QED
  BY <1>13, <1>14, <1>15 DEF Tables, P, L

-----------------------------------------------------------------------------
(* skip() takes one object.                                                 *)

\* The lengths and counts that skip() adds up fit in a size_t.
Fits(buf, p, owe) ==
  LET h == HeaderAt(buf, p)
  IN /\ Len(buf) < Span(SizeWidth)
     /\ h.complete => /\ owe - 1 + ObjectsInside(h) < Span(SizeWidth)
                      /\ h.kind \in {"str", "bin", "ext"} /\ NumberWidth(h.format) # W32
                           => h.next - p + PayloadLength(h) < Span(SizeWidth)

LEMMA TurnsTakeOneHeader ==
  ASSUME NEW r \in Readers, NEW owe \in Nat \ {0}, NEW s, Fits(r.buf, r.pos, owe)
  PROVE  SkipTurn(r, owe, s, SizeWidth) =
           IF Whole(r.buf, r.pos) THEN Skipping(At(r, NextAfter(r.buf, r.pos)), owe - 1 + Within(r.buf, r.pos))
           ELSE SkipFails(r, s)
<1> DEFINE turn == SkipTurn(r, owe, s, SizeWidth)
           S == Span(SizeWidth)
           L == Len(r.buf)
           p == r.pos
           h == HeaderAt(r.buf, r.pos)
           f == Peek(r)
           w == NumberWidth(f)
           n == SkipCount(r)
           head == SkipHead(f)
           Done == turn = IF h.complete /\ h.next + PayloadLength(h) <= L
                          THEN Skipping(At(r, h.next + PayloadLength(h)), owe - 1 + ObjectsInside(h))
                          ELSE SkipFails(r, s)
<1>1. /\ r.buf \in Bytes /\ p \in Nat /\ L \in Nat /\ p <= L
      /\ Remaining(r) = L - p /\ r = At(r, p)
      /\ \A k \in Nat : [At(r, p) EXCEPT !.pos = @ + k] = At(r, p + k)
  BY Cursors
<1>2. S \in Nat /\ S > 0 /\ L < S
  BY HandlerAssumption, Spans DEF Fits
<1>3. h.complete => /\ owe - 1 + ObjectsInside(h) < S
                    /\ h.kind \in {"str", "bin", "ext"} /\ NumberWidth(h.format) # W32
                         => h.next - p + PayloadLength(h) < S
  BY DEF Fits
<1>4. CASE Remaining(r) = 0
  <2>1. ~h.complete
    BY <1>4, Incomplete
  <2>2. turn = SkipFails(r, s)
    BY <1>4 DEF SkipTurn
  <2> HIDE DEF turn, h
  <2> QED
    BY <2>1, <2>2 DEF turn, h, Whole
<1>5. CASE Remaining(r) # 0
  <2> DEFINE kind == TypeOf(f)
  <2>1. /\ kind = "invalid" => turn = SkipFails(r, s)
        /\ kind \in {"uint", "int", "float", "nil", "boolean"} => turn = SkipBytes(r, owe, s, 1, 1 + w, TRUE)
        /\ kind \in {"str", "bin", "ext"}
             => turn = SkipBytes(r, owe, s, 1 + SkipWidth(f), (head + n) % S, SkipFits(r))
        /\ kind = "array" => turn = SkipHeader(r, owe, s, head, n, SizeWidth)
        /\ kind = "map" => turn = SkipHeader(r, owe, s, head, 2 * n, SizeWidth)
    BY <1>5, TurnsByKind, Zenon
  <2>2. /\ f \in Formats /\ head \in Nat /\ n \in Nat /\ w \in Nat /\ SkipWidth(f) \in Nat
        /\ head = 1 + SkipWidth(f) + (IF kind = "ext" THEN 1 ELSE 0)
        /\ kind \in {"str", "bin", "ext", "array", "map"} =>
             /\ SkipWidth(f) = w
             /\ p + 1 + w <= L => n = h.n
    BY <1>5, Counts, WidthsOfNumbers
  <2>3. /\ kind \in {"invalid", "uint", "int", "float", "nil", "boolean", "str", "bin", "ext", "array", "map"}
        /\ kind = "invalid" <=> f = "reserved"
    BY <2>2, Domains, Types DEF Formats, Named
  <2>4. /\ f = "reserved" \/ p + 1 + w > L => ~h.complete
        /\ f # "reserved" /\ p + 1 + w <= L =>
             /\ h.complete /\ h.kind = kind /\ h.format = f /\ h.next = p + 1 + w
             /\ PayloadLength(h) \in Nat /\ ObjectsInside(h) \in Nat
             /\ kind \in {"str", "bin"} => PayloadLength(h) = h.n
             /\ kind = "ext" => PayloadLength(h) = h.n + 1
             /\ kind \notin {"str", "bin", "ext"} => PayloadLength(h) = 0
             /\ kind = "array" => ObjectsInside(h) = h.n
             /\ kind = "map" => ObjectsInside(h) = 2 * h.n
             /\ kind \notin {"array", "map"} => ObjectsInside(h) = 0
    <3>1. f = "reserved" \/ p + 1 + w > L => ~h.complete
      BY Incomplete
    <3>2. f # "reserved" /\ p + 1 + w <= L => h.complete /\ h.kind = kind /\ h.format = f /\ h.next = p + 1 + w
      BY <1>5, Complete
    <3>3. h.complete => /\ PayloadLength(h) \in Nat /\ ObjectsInside(h) \in Nat
                        /\ h.kind \in {"str", "bin"} => PayloadLength(h) = h.n
                        /\ h.kind = "ext" => PayloadLength(h) = h.n + 1
                        /\ h.kind \notin {"str", "bin", "ext"} => PayloadLength(h) = 0
                        /\ h.kind = "array" => ObjectsInside(h) = h.n
                        /\ h.kind = "map" => ObjectsInside(h) = 2 * h.n
                        /\ h.kind \notin {"array", "map"} => ObjectsInside(h) = 0
      BY <1>1, Payloads
    <3> HIDE DEF h, kind, f, w, p, L
    <3> QED
      BY <3>1, <3>2, <3>3
  <2>5. SkipFits(r) <=> SkipWidth(f) # W32 \/ n < S - head
    BY DEF SkipFits
  <2> DEFINE fits == SkipFits(r)
  <2> HIDE DEF turn, S, L, p, h, f, w, n, head, kind, fits
  <2>6. ASSUME NEW k \in Nat, NEW m
        PROVE  Skipping([r EXCEPT !.pos = @ + k], m) = Skipping(At(r, p + k), m)
    <3>1. [r EXCEPT !.pos = @ + k] = At(r, p + k)
      BY <1>1, Zenon
    <3> QED
      BY <3>1, Zenon
  <2>7. \A seen, k, ok : SkipBytes(r, owe, s, seen, k, ok) =
           IF Remaining(r) < seen \/ ~ok \/ Remaining(r) < k THEN SkipFails(r, s)
           ELSE Skipping([r EXCEPT !.pos = @ + k], owe - 1)
    BY Zenon DEF SkipBytes
  <2>8. \A k, more : SkipHeader(r, owe, s, k, more, SizeWidth) =
           IF Remaining(r) < k THEN SkipFails(r, s)
           ELSE Skipping([r EXCEPT !.pos = @ + k], (owe + more - 1) % S)
    BY Zenon DEF SkipHeader, S
  <2>16. ASSUME turn = SkipFails(r, s), ~h.complete \/ ~(h.next + PayloadLength(h) <= L) PROVE Done
    BY <2>16, Zenon
  <2>17. ASSUME h.complete, h.next + PayloadLength(h) <= L,
                turn = Skipping(At(r, h.next + PayloadLength(h)), owe - 1 + ObjectsInside(h))
         PROVE  Done
    BY <2>17, Zenon
  <2> HIDE DEF Done
  <2> SUFFICES Done
    BY Zenon DEF Done, turn, h, L, Whole, NextAfter, Within
  <2>9. CASE kind = "invalid"
    BY <2>1, <2>3, <2>4, <2>9, <2>16
  <2>10. CASE kind \in {"uint", "int", "float", "nil", "boolean"}
    <3>1. turn = IF Remaining(r) < 1 \/ ~TRUE \/ Remaining(r) < 1 + w THEN SkipFails(r, s)
                 ELSE Skipping([r EXCEPT !.pos = @ + (1 + w)], owe - 1)
      BY <2>1, <2>7, <2>10, Zenon
    <3>2. f # "reserved" /\ 1 + w \in Nat
      BY <2>2, <2>3, <2>10
    <3>3. CASE p + 1 + w > L
      <4>1. Remaining(r) < 1 + w
        BY <1>1, <2>2, <3>3
      <4>2. turn = SkipFails(r, s)
        BY <3>1, <4>1, Zenon
      <4> QED
        BY <2>4, <2>16, <3>3, <4>2
    <3>4. CASE p + 1 + w <= L
      <4>1. ~(Remaining(r) < 1 + w) /\ ~(Remaining(r) < 1)
        BY <1>1, <2>2, <3>4
      <4>2. turn = Skipping([r EXCEPT !.pos = @ + (1 + w)], owe - 1)
        BY <3>1, <4>1, Zenon
      <4>3. turn = Skipping(At(r, p + (1 + w)), owe - 1)
        BY <2>6, <3>2, <4>2
      <4>4. h.next + PayloadLength(h) = p + (1 + w) /\ owe - 1 + ObjectsInside(h) = owe - 1 /\ h.complete
        BY <1>1, <2>2, <2>4, <2>10, <3>2, <3>4
      <4>5. h.next + PayloadLength(h) <= L
        BY <1>1, <2>2, <3>4, <4>4
      <4> QED
        BY <2>17, <4>3, <4>4, <4>5
    <3> QED
      BY <1>1, <2>2, <3>3, <3>4
  <2>11. CASE kind \in {"str", "bin", "ext"}
    <3>1. turn = IF Remaining(r) < 1 + w \/ ~fits \/ Remaining(r) < (head + n) % S THEN SkipFails(r, s)
                 ELSE Skipping([r EXCEPT !.pos = @ + ((head + n) % S)], owe - 1)
      <4>1. turn = SkipBytes(r, owe, s, 1 + w, (head + n) % S, fits)
        BY <2>1, <2>2, <2>11 DEF fits
      <4> QED
        BY <2>7, <4>1, Zenon
    <3>2. f # "reserved" /\ SkipWidth(f) = w
      BY <2>2, <2>3, <2>11
    <3>3. CASE p + 1 + w > L
      <4>1. Remaining(r) < 1 + w
        BY <1>1, <2>2, <3>3
      <4>2. turn = SkipFails(r, s)
        BY <3>1, <4>1, Zenon
      <4> QED
        BY <2>4, <2>16, <3>3, <4>2
    <3>4. CASE p + 1 + w <= L
      <4>1. /\ h.complete /\ h.next + PayloadLength(h) = p + (head + n) /\ h.format = f
            /\ owe - 1 + ObjectsInside(h) = owe - 1
        BY <1>1, <2>2, <2>4, <2>11, <3>2, <3>4
      <4>5. h.kind \in {"str", "bin", "ext"}
        BY <2>4, <2>11, <3>2, <3>4
      <4>2. ~(Remaining(r) < 1 + w)
        BY <1>1, <2>2, <3>4
      <4>3. CASE head + n < S
        <5>1. (head + n) % S = head + n
          BY <1>2, <2>2, <4>3
        <5>2. fits = TRUE \/ fits
          BY <1>2, <2>2, <2>5, <4>3 DEF fits
        <5>3. CASE p + (head + n) <= L
          <6>1. ~(Remaining(r) < head + n) /\ head + n \in Nat
            BY <1>1, <2>2, <5>3
          <6>2. turn = Skipping([r EXCEPT !.pos = @ + (head + n)], owe - 1)
            BY <3>1, <4>2, <5>1, <5>2, <6>1, Zenon
          <6>3. turn = Skipping(At(r, p + (head + n)), owe - 1)
            BY <2>6, <6>1, <6>2
          <6> QED
            BY <2>17, <4>1, <5>3, <6>3
        <5>4. CASE ~(p + (head + n) <= L)
          <6>1. Remaining(r) < head + n
            BY <1>1, <2>2, <5>4
          <6>2. turn = SkipFails(r, s)
            BY <3>1, <5>1, <6>1, Zenon
          <6> QED
            BY <2>16, <4>1, <5>4, <6>2
        <5> QED
          BY <5>3, <5>4
      <4>4. CASE ~(head + n < S)
        <5>1. ~(p + (head + n) <= L)
          BY <1>1, <1>2, <2>2, <4>4
        <5>2. w = W32
          <6> SUFFICES ASSUME w # W32 PROVE FALSE
            OBVIOUS
          <6>1. h.next - p + PayloadLength(h) < S
            BY <1>3, <4>1, <4>5 DEF w
          <6>2. h.next = p + 1 + w /\ PayloadLength(h) \in Nat
            BY <2>4, <3>2, <3>4
          <6> QED
            BY <1>1, <1>2, <2>2, <4>1, <4>4, <6>1, <6>2
        <5>3. ~fits
          <6>1. ~(n < S - head)
            BY <1>2, <2>2, <4>4
          <6> QED
            BY <2>5, <3>2, <5>2, <6>1 DEF fits
        <5>4. turn = SkipFails(r, s)
          BY <3>1, <5>3, Zenon
        <5> QED
          BY <2>16, <4>1, <5>1, <5>4
      <4> QED
        BY <4>3, <4>4
    <3> QED
      BY <1>1, <2>2, <3>3, <3>4
  <2>12. ASSUME NEW more \in Nat, kind \in {"array", "map"}, turn = SkipHeader(r, owe, s, head, more, SizeWidth),
                p + 1 + w <= L => more = ObjectsInside(h)
         PROVE  Done
    <3>1. turn = IF Remaining(r) < head THEN SkipFails(r, s)
                 ELSE Skipping([r EXCEPT !.pos = @ + head], (owe + more - 1) % S)
      BY <2>8, <2>12, Zenon
    <3>2. f # "reserved" /\ head = 1 + w
      BY <2>2, <2>3, <2>12
    <3>3. CASE p + 1 + w > L
      <4>1. Remaining(r) < head
        BY <1>1, <2>2, <3>2, <3>3
      <4>2. turn = SkipFails(r, s)
        BY <3>1, <4>1, Zenon
      <4> QED
        BY <2>4, <2>16, <3>3, <4>2
    <3>4. CASE p + 1 + w <= L
      <4>1. ~(Remaining(r) < head)
        BY <1>1, <2>2, <3>2, <3>4
      <4>2. turn = Skipping([r EXCEPT !.pos = @ + head], (owe + more - 1) % S)
        BY <3>1, <4>1, Zenon
      <4>3. turn = Skipping(At(r, p + head), (owe + more - 1) % S)
        BY <2>2, <2>6, <4>2
      <4>4. h.complete /\ h.next + PayloadLength(h) = p + head /\ p + head <= L /\ more = ObjectsInside(h)
        BY <1>1, <2>2, <2>4, <2>12, <3>2, <3>4
      <4>5. (owe + more - 1) % S = owe - 1 + ObjectsInside(h)
        <5>1. owe + more - 1 \in Nat /\ owe + more - 1 < S /\ owe + more - 1 = owe - 1 + ObjectsInside(h)
          BY <1>2, <1>3, <4>4
        <5> QED
          BY <1>2, <5>1
      <4> QED
        BY <2>17, <4>3, <4>4, <4>5
    <3> QED
      BY <1>1, <2>2, <3>3, <3>4
  <2>13. CASE kind = "array"
    <3>1. turn = SkipHeader(r, owe, s, head, n, SizeWidth)
      BY <2>1, <2>13
    <3>2. p + 1 + w <= L => n = ObjectsInside(h)
      BY <2>2, <2>3, <2>4, <2>13
    <3> QED
      BY <2>2, <2>12, <2>13, <3>1, <3>2
  <2>14. CASE kind = "map"
    <3>1. turn = SkipHeader(r, owe, s, head, 2 * n, SizeWidth) /\ 2 * n \in Nat
      BY <2>1, <2>2, <2>14
    <3>2. p + 1 + w <= L => 2 * n = ObjectsInside(h)
      BY <2>2, <2>3, <2>4, <2>14
    <3> QED
      BY <2>2, <2>12, <2>14, <3>1, <3>2
  <2> QED
    BY <2>3, <2>9, <2>10, <2>11, <2>13, <2>14
<1> QED
  BY <1>4, <1>5

\* What skip() has left to do ends where the object it began at ends.
SkipOnTheWay ==
  owed > 0 =>
    /\ reader.error = FALSE
    /\ ObjectsEnd(reader.buf)[reader.pos][owed] = ObjectsEnd(reader.buf)[saved][1]

\* The step of a skip() in progress forms no sum that wraps.
CountsFit == owed > 0 => Fits(reader.buf, reader.pos, owed)

LEMMA StepsSkip ==
  RawTypeOK /\ RawShape /\ SkipOnTheWay /\ SkipTakesOneObject /\ CountsFit /\ [RawNext]_rawVars
    => SkipOnTheWay' /\ SkipTakesOneObject'
<1> SUFFICES ASSUME RawTypeOK, RawShape, SkipOnTheWay, SkipTakesOneObject, CountsFit, [RawNext]_rawVars
             PROVE  SkipOnTheWay' /\ SkipTakesOneObject'
  OBVIOUS
<1>1. reader \in Readers /\ owed \in Nat /\ saved \in 0 .. reader.pos
  <2>1. Span(SizeWidth) \in Nat
    BY HandlerAssumption, Spans
  <2> QED
    BY <2>1 DEF RawTypeOK, RawShape
<1>2. /\ reader.buf \in Bytes /\ reader.pos \in Nat /\ Len(reader.buf) \in Nat /\ reader.pos <= Len(reader.buf)
      /\ reader.pos \in 0 .. Len(reader.buf) /\ saved \in 0 .. Len(reader.buf) /\ saved \in Nat
  BY <1>1, Cursors
<1>3. CASE GetsReader
  <2>1. owed' = 0 /\ last'.op.name = "none"
    BY <1>3 DEF GetsReader, Called, NoRead
  <2> QED
    BY <2>1 DEF SkipOnTheWay, SkipTakesOneObject
<1>4. ASSUME NEW op \in Ops, ReadOne(op) PROVE SkipOnTheWay' /\ SkipTakesOneObject'
  <2>1. owed' = 0 /\ last'.op = op
    BY <1>4 DEF ReadOne
  <2>2. op.name # "skip"
    BY DEF Ops
  <2> QED
    BY <2>1, <2>2 DEF SkipOnTheWay, SkipTakesOneObject
<1>5. CASE BeginSkip
  <2>1. owed' = 1 /\ saved' = reader.pos /\ reader' = reader
    BY <1>5 DEF BeginSkip
  <2>2. reader.error = FALSE
    BY <1>1, <1>5, Cursors DEF BeginSkip
  <2> QED
    BY <2>1, <2>2 DEF SkipOnTheWay, SkipTakesOneObject
<1>6. CASE Skip
  <2> DEFINE turn == SkipTurn(reader, owed, saved, SizeWidth)
             buf == reader.buf
             p == reader.pos
             end == ObjectsEnd(buf)
  <2>1. owed > 0 /\ owed \in Nat \ {0}
    BY <1>1, <1>6 DEF Skip
  <2>2. reader.error = FALSE /\ end[p][owed] = end[saved][1]
    BY <2>1 DEF SkipOnTheWay
  <2>3. turn = IF Whole(buf, p) THEN Skipping(At(reader, NextAfter(buf, p)), owed - 1 + Within(buf, p))
               ELSE SkipFails(reader, saved)
    <3>1. Fits(buf, p, owed)
      BY <2>1 DEF CountsFit
    <3> QED
      BY <1>1, <2>1, <3>1, TurnsTakeOneHeader
  <2>4. end[p][owed] = IF Whole(buf, p) THEN end[NextAfter(buf, p)][owed - 1 + Within(buf, p)] ELSE -1
    <3>1. end[p][owed] = EndOf(buf, end, p, owed)
      BY <1>2, <2>1, Ends
    <3> HIDE DEF end
    <3> QED
      BY <2>1, <3>1 DEF EndOf
  <2>5. /\ reader' = turn.r /\ owed' = turn.owed /\ saved' = saved
        /\ last' = IF turn.owed > 0 THEN last
                   ELSE [op |-> [name |-> "skip"], from |-> saved, ok |-> ~turn.r.error, yields |-> 0]
    BY <1>6 DEF Skip
  <2>6. end[saved][1] = ObjectEnd(buf, saved)
    BY DEF ObjectEnd
  <2>7. CASE Whole(buf, p)
    <3> DEFINE q == NextAfter(buf, p)
               left == owed - 1 + Within(buf, p)
    <3>1. q \in 0 .. Len(buf) /\ left \in Nat /\ q # -1
      <4>1. NextAfter(buf, p) \in p + 1 .. Len(buf) /\ Within(buf, p) \in Nat
        BY <1>2, <2>7, Onward
      <4> DEFINE i == Within(buf, p)
      <4> HIDE DEF q, i, buf, p
      <4>2. q \in p + 1 .. Len(buf) /\ i \in Nat
        BY <4>1 DEF q, i
      <4>3. owed - 1 + i \in Nat
        BY <2>1, <4>2
      <4>4. q \in 0 .. Len(buf) /\ q # -1
        BY <1>2, <4>2 DEF buf, p
      <4> QED
        BY <4>3, <4>4 DEF i
    <3>2. turn.r = At(reader, q) /\ turn.owed = left
      BY <2>3, <2>7 DEF Skipping
    <3> HIDE DEF turn, q, left
    <3>3. reader'.buf = buf /\ reader'.pos = q /\ reader'.error = FALSE /\ owed' = left
      BY <2>2, <2>5, <3>2 DEF At
    <3>4. end[q][left] = end[saved][1]
      BY <2>2, <2>4, <2>7 DEF q, left
    <3>5. CASE left > 0
      <4>1. SkipOnTheWay'
        BY <2>5, <3>3, <3>4 DEF SkipOnTheWay
      <4>2. SkipTakesOneObject'
        BY <3>3, <3>5 DEF SkipTakesOneObject
      <4> QED
        BY <4>1, <4>2
    <3>6. CASE left = 0
      <4>1. SkipOnTheWay'
        BY <3>3, <3>6 DEF SkipOnTheWay
      <4>2. end[q][0] = q
        <5>1. end[q][0] = EndOf(buf, end, q, 0)
          BY <1>2, <3>1, Ends
        <5> HIDE DEF end
        <5> QED
          BY <5>1 DEF EndOf
      <4>3. ObjectEnd(buf, saved) = q
        BY <2>6, <3>4, <3>6, <4>2
      <4>4. last'.from = saved /\ last'.ok = TRUE
        <5>1. ~(turn.owed > 0)
          BY <3>2, <3>6
        <5>2. last'.from = saved /\ last'.ok = ~turn.r.error
          BY <2>5, <5>1
        <5>3. turn.r.error = FALSE
          BY <2>5, <3>3
        <5> QED
          BY <5>2, <5>3, Zenon
      <4>5. SkipTakesOneObject'
        <5>1. ObjectEnd(reader'.buf, last'.from) = q
          BY <3>3, <4>3, <4>4
        <5> QED
          BY <3>1, <3>3, <4>4, <5>1 DEF SkipTakesOneObject
      <4> QED
        BY <4>1, <4>5
    <3> QED
      BY <3>1, <3>5, <3>6
  <2>8. CASE ~Whole(buf, p)
    <3>1. turn = SkipFails(reader, saved)
      BY <2>3, <2>8
    <3>2. turn.owed = 0 /\ turn.r = [buf |-> buf, pos |-> saved, error |-> TRUE]
      <4> DEFINE rec == [buf |-> reader.buf, pos |-> reader.pos, error |-> reader.error]
      <4>1. reader = rec
        BY <1>1, Cursors DEF At
      <4>2. fail_(rec, saved) = [buf |-> reader.buf, pos |-> saved, error |-> TRUE]
        BY FailedAt, Zenon
      <4> HIDE DEF rec
      <4>3. fail_(reader, saved) = [buf |-> reader.buf, pos |-> saved, error |-> TRUE]
        BY <4>1, <4>2, Zenon
      <4> HIDE DEF turn
      <4>4. turn.owed = 0 /\ turn.r = fail_(reader, saved)
        BY <3>1 DEF SkipFails, Skipping
      <4> QED
        BY <4>3, <4>4
    <3> HIDE DEF turn
    <3>3. owed' = 0 /\ reader'.buf = buf /\ reader'.pos = saved /\ reader'.error = TRUE
      BY <2>5, <3>2
    <3>4. last'.from = saved /\ last'.ok = FALSE
      <4>1. last'.from = saved /\ last'.ok = ~turn.r.error
        BY <2>5, <3>2
      <4>2. turn.r.error = TRUE
        BY <2>5, <3>3
      <4> QED
        BY <4>1, <4>2, Zenon
    <3>5. ObjectEnd(buf, saved) = -1
      BY <2>2, <2>4, <2>6, <2>8
    <3>6. SkipTakesOneObject'
      <4>1. ObjectEnd(reader'.buf, last'.from) = -1
        BY <3>3, <3>4, <3>5
      <4> QED
        BY <3>3, <3>4, <4>1 DEF SkipTakesOneObject
    <3>7. SkipOnTheWay'
      BY <3>3 DEF SkipOnTheWay
    <3> QED
      BY <3>6, <3>7
  <2> QED
    BY <2>7, <2>8
<1>7. CASE UNCHANGED rawVars
  BY <1>7 DEF rawVars, SkipOnTheWay, SkipTakesOneObject
<1> QED
  BY <1>3, <1>4, <1>5, <1>6, <1>7 DEF RawNext, HandlerReads

LEMMA StartsSkip == RawInit => SkipOnTheWay /\ SkipTakesOneObject
<1> SUFFICES ASSUME RawInit PROVE SkipOnTheWay /\ SkipTakesOneObject
  OBVIOUS
<1>1. owed = 0 /\ last.op.name = "none"
  BY DEF RawInit, NoRead
<1> QED
  BY <1>1 DEF SkipOnTheWay, SkipTakesOneObject

\* skip() ends exactly behind the object it began at, however deeply nested, or
\* where it began when that object is not all there, provided that no sum of
\* lengths or counts it forms is beyond a size_t (skip() of Reader,
\* msgpack_lite.h; without the condition the sum wraps and skip() may stop
\* early: an array of 2^32 - 1 elements in another, on a machine of 32 bits).
THEOREM SkipsOneObject == RawSpec /\ []CountsFit => []SkipTakesOneObject
<1> DEFINE Inv == RawTypeOK /\ RawShape /\ SkipOnTheWay /\ SkipTakesOneObject
<1>1. RawInit => Inv
  BY StartsTyped, StartsShaped, StartsSkip
<1>2. Inv /\ CountsFit /\ [RawNext]_rawVars => Inv'
  BY StepsTyped, StepsSkip
<1>3. Inv => SkipTakesOneObject
  OBVIOUS
<1> QED
  BY <1>1, <1>2, <1>3, PTL DEF RawSpec

-----------------------------------------------------------------------------
(* On a machine whose size_t is wide enough for the sum of all the counts a *)
(* buffer can announce, the condition above holds.                          *)

LEMMA SpansGrow ==
  ASSUME NEW w \in Nat
  PROVE  /\ \A v \in Nat : w <= v => Span(w) <= Span(v)
         /\ w + 1 <= Span(w)
<1>1. Octets \in Nat /\ Octets >= 2
  BY LayoutHolds DEF Layout
<1> DEFINE T == {v \in Nat : w <= v => Span(w) <= Span(v)}
           U == {v \in Nat : v + 1 <= Span(v)}
<1>2. ASSUME NEW v \in Nat PROVE 2 * Span(v) <= Span(v + 1) /\ Span(v) \in Nat /\ Span(v) > 0 /\ Span(v + 1) \in Nat
  <2>1. Span(v) \in Nat /\ Span(v) > 0 /\ Span(v + 1) = Octets * Span(v)
    BY Spans
  <2>2. 2 * Span(v) <= Octets * Span(v)
    BY <1>1, <2>1, Scaled
  <2> QED
    BY <1>1, <2>1, <2>2
<1>3. T = Nat
  <2>1. 0 \in T
    <3>1. w <= 0 => w = 0
      OBVIOUS
    <3>2. Span(0) <= Span(0)
      BY <1>2
    <3> QED
      BY <3>1, <3>2
  <2>2. ASSUME NEW v \in T PROVE v + 1 \in T
    <3> SUFFICES ASSUME w <= v + 1 PROVE Span(w) <= Span(v + 1)
      OBVIOUS
    <3>1. v \in Nat /\ Span(w) \in Nat
      BY <1>2
    <3>2. CASE w = v + 1
      BY <1>2, <3>1, <3>2
    <3>3. CASE w <= v
      <4>1. Span(w) <= Span(v)
        BY <3>3
      <4> QED
        BY <1>2, <3>1, <4>1
    <3> QED
      BY <3>1, <3>2, <3>3
  <2> HIDE DEF T
  <2>3. T \in SUBSET Nat
    BY DEF T
  <2> QED
    BY <2>1, <2>2, <2>3, Induction
<1>4. U = Nat
  <2>1. 0 \in U
    BY <1>2
  <2>2. ASSUME NEW v \in U PROVE v + 1 \in U
    <3>1. v \in Nat /\ v + 1 <= Span(v)
      OBVIOUS
    <3> QED
      BY <1>2, <3>1
  <2> HIDE DEF U
  <2>3. U \in SUBSET Nat
    BY DEF U
  <2> QED
    BY <2>1, <2>2, <2>3, Induction
<1> QED
  BY <1>3, <1>4

LEMMA HeadersAreModest ==
  ASSUME NEW r \in Readers, HeaderAt(r.buf, r.pos).complete
  PROVE  LET h == HeaderAt(r.buf, r.pos)
         IN /\ ObjectsInside(h) \in Nat /\ ObjectsInside(h) < 2 * Span(W32)
            /\ h.kind \in {"str", "bin", "ext"} /\ NumberWidth(h.format) # W32
                 => h.next - r.pos + PayloadLength(h) <= 2 * Span(W32)
<1> DEFINE h == HeaderAt(r.buf, r.pos)
           f == Peek(r)
           w == NumberWidth(f)
           b == r.buf[r.pos + 1]
           S == Span(W32)
<1>1. /\ Remaining(r) # 0 /\ f \in Formats /\ f # "reserved"
      /\ h.format = f /\ h.kind = TypeOf(f)
      /\ h.next = r.pos + 1 + w /\ h.next \in r.pos + 1 .. Len(r.buf) /\ h.n \in Int
      /\ h.kind # "int" => h.n \in Nat
  BY SeenFrom
<1>2. /\ r.buf \in Bytes /\ r.pos \in Nat /\ Len(r.buf) \in Nat
      /\ r.pos + 1 + w <= Len(r.buf) /\ w \in Nat
  BY <1>1, Cursors, WidthsOfNumbers
<1>3. /\ w = 0 => h.n = Inline(b)
      /\ w # 0 /\ f \notin DOMAIN SignedWidth => h.n \in 0 .. Span(w) - 1
  BY <1>1, <1>2, Complete
<1>4. S \in Nat /\ Octets <= S /\ Octets \in Nat /\ Octets > 32 /\ W32 \in Nat
      /\ FixCounts < Octets /\ FixLengths < Octets
  <2>1. W32 \in Nat /\ W32 > 0
    BY LayoutAssumption
  <2>2. Octets <= S /\ S \in Nat
    BY <2>1, Spans, SpansOfFields
  <2> QED
    BY <2>1, <2>2, LayoutHolds DEF Layout
<1>5. /\ PayloadLength(h) \in Nat /\ ObjectsInside(h) \in Nat
      /\ h.kind \in {"str", "bin"} => PayloadLength(h) = h.n
      /\ h.kind = "ext" => PayloadLength(h) = h.n + 1
      /\ h.kind = "array" => ObjectsInside(h) = h.n
      /\ h.kind = "map" => ObjectsInside(h) = 2 * h.n
      /\ h.kind \notin {"array", "map"} => ObjectsInside(h) = 0
  BY <1>2, Payloads
<1>6. b \in Byte /\ f = FormatOf(b)
  BY <1>1, Peeks, Zenon
<1> HIDE DEF h, f, w, b, S
<1>7. ASSUME h.kind \in {"str", "bin", "ext", "array", "map"}
      PROVE  /\ f \notin DOMAIN SignedWidth
             /\ w = 0 => h.n < Octets
             /\ w \in {0, 1, W16, W32}
  <2>1. f \in {"fixmap", "fixarray", "fixstr"} \cup DOMAIN FixextLength \cup DOMAIN LengthWidth
    BY <1>1, <1>7, Types, Domains
  <2>2. f \notin DOMAIN SignedWidth \cup DOMAIN UnsignedWidth \cup DOMAIN FloatWidth
    BY <2>1, Domains
  <2>3. f \in DOMAIN LengthWidth => w \in {1, W16, W32} /\ w > 0
    <3>1. f \in DOMAIN LengthWidth => LengthWidth[f] \in {1, W16, W32}
      BY Domains DEF LengthWidth
    <3> QED
      BY <1>1, <3>1, WidthsOfNumbers DEF w
  <2>4. f \notin DOMAIN LengthWidth => w = 0
    BY <1>1, <2>2, WidthsOfNumbers DEF w
  <2>5. ASSUME w = 0 PROVE h.n < Octets
    <3>1. f \in {"fixmap", "fixarray", "fixstr"} \cup DOMAIN FixextLength
      BY <2>1, <2>3, <2>5
    <3>2. /\ f = "fixmap" => Inline(b) = b - PosFixints
          /\ f = "fixarray" => Inline(b) = b - PosFixints - FixCounts
          /\ f = "fixstr" => Inline(b) = b - PosFixints - 2 * FixCounts
          /\ f \in DOMAIN FixextLength => Inline(b) = FixextLength[f]
      BY <1>6, Domains DEF Inline
    <3>3. f \in DOMAIN FixextLength => FixextLength[f] \in Nat /\ FixextLength[f] < 32
      BY Domains DEF FixextLength
    <3>4. b \in 0 .. Octets - 1
      BY <1>6 DEF Byte
    <3>5. PosFixints \in Nat /\ FixCounts \in Nat
      BY LayoutAssumption
    <3> QED
      BY <1>3, <1>4, <2>5, <3>1, <3>2, <3>3, <3>4, <3>5
  <2> QED
    BY <2>2, <2>3, <2>4, <2>5
<1>8. ASSUME h.kind \in {"str", "bin", "ext", "array", "map"}
      PROVE  /\ h.n \in Nat /\ h.n < S
             /\ w # W32 => h.n + w + 1 < 2 * S
  <2>1. h.n \in Nat
    BY <1>1, <1>8
  <2>2. CASE w = 0
    BY <1>4, <1>7, <1>8, <2>1, <2>2
  <2>3. CASE w # 0
    <3>1. W16 \in Nat /\ 1 < W16 /\ W16 < W32 /\ W32 \in Nat
      BY LayoutAssumption
    <3>2. w <= W32
      BY <1>2, <1>7, <1>8, <2>3, <3>1
    <3>3. Span(w) \in Nat /\ Span(w) <= S /\ w + 1 <= Span(w)
      BY <1>2, <1>4, <3>2, Spans, SpansGrow DEF S
    <3>4. h.n + 1 <= Span(w)
      BY <1>3, <1>7, <1>8, <2>1, <2>3, <3>3
    <3> DEFINE v == Span(w)
               n == h.n
    <3>5. v \in Nat /\ v <= S /\ w + 1 <= v /\ n + 1 <= v /\ n \in Nat /\ w \in Nat /\ S \in Nat
      BY <1>2, <1>4, <2>1, <3>3, <3>4
    <3> HIDE DEF v, n
    <3>6. n < S /\ n + w + 1 < 2 * S
      BY ONLY <3>5
    <3> QED
      BY <2>1, <3>6 DEF n
  <2> QED
    BY <2>2, <2>3
<1>9. ObjectsInside(h) < 2 * S
  <2>1. CASE h.kind \in {"array", "map"}
    BY <1>4, <1>5, <1>8, <2>1
  <2>2. CASE h.kind \notin {"array", "map"}
    BY <1>4, <1>5, <2>2
  <2> QED
    BY <2>1, <2>2
<1>10. ASSUME h.kind \in {"str", "bin", "ext"}, w # W32
       PROVE  h.next - r.pos + PayloadLength(h) <= 2 * S
  <2>1. h.n \in Nat /\ h.n + w + 1 < 2 * S
    BY <1>8, <1>10
  <2>2. PayloadLength(h) <= h.n + 1
    BY <1>5, <1>10, <2>1
  <2> DEFINE n == h.n
             l == PayloadLength(h)
             p == r.pos
  <2>3. /\ n \in Nat /\ n + w + 1 < 2 * S /\ l \in Nat /\ l <= n + 1 /\ p \in Nat /\ w \in Nat /\ S \in Nat
        /\ h.next = p + 1 + w
    BY <1>1, <1>2, <1>4, <1>5, <2>1, <2>2
  <2> HIDE DEF n, l, p
  <2>4. (p + 1 + w) - p + l <= 2 * S
    BY ONLY <2>3
  <2> QED
    BY <2>3, <2>4 DEF l, p
<1> QED
  BY <1>1, <1>5, <1>9, <1>10 DEF h, w, S

\* Each byte that skip() has passed announced less than twice 2^32 objects.
SkipOwesLittle == owed > 0 => owed <= 1 + (reader.pos - saved) * (2 * Span(W32))

LEMMA SkipsOweLittle ==
  ASSUME NEW CONSTANT limit \in Nat, limit * (2 * Span(W32)) < Span(SizeWidth)
  PROVE  /\ RawTypeOK /\ RawShape /\ SkipOwesLittle /\ Len(reader.buf) <= limit => CountsFit
         /\ RawTypeOK /\ RawShape /\ SkipOwesLittle /\ CountsFit /\ [RawNext]_rawVars => SkipOwesLittle'
<1> DEFINE K == 2 * Span(W32)
           S == Span(SizeWidth)
<1>1. S \in Nat /\ S > 0 /\ K \in Nat /\ K > 0
  <2>1. W32 \in Nat
    BY LayoutAssumption
  <2> QED
    BY <2>1, HandlerAssumption, Spans
<1>2. limit * K < S
  OBVIOUS
<1> HIDE DEF K, S
<1>3. ASSUME RawTypeOK, RawShape
      PROVE  /\ reader \in Readers /\ owed \in Nat /\ saved \in Nat /\ saved <= reader.pos
             /\ reader.buf \in Bytes /\ reader.pos \in Nat /\ Len(reader.buf) \in Nat /\ reader.pos <= Len(reader.buf)
             /\ reader.pos \in 0 .. Len(reader.buf) /\ saved \in 0 .. reader.pos
  <2>1. reader \in Readers /\ owed \in 0 .. S - 1 /\ saved \in 0 .. reader.pos
    BY <1>3 DEF RawTypeOK, RawShape, S
  <2> QED
    BY <1>1, <2>1, Cursors
<1>4. ASSUME RawTypeOK, RawShape, SkipOwesLittle, Len(reader.buf) <= limit, owed > 0
      PROVE  Fits(reader.buf, reader.pos, owed)
  <2> DEFINE h == HeaderAt(reader.buf, reader.pos)
             L == Len(reader.buf)
  <2>1. L \in Nat /\ L <= limit /\ reader.pos \in Nat /\ saved \in Nat /\ saved <= reader.pos /\ owed \in Nat
    BY <1>3, <1>4
  <2>2. L < S
    <3>1. 1 * limit <= K * limit
      BY <1>1, Scaled
    <3>2. K * limit = limit * K /\ 1 * limit = limit /\ K * limit \in Nat
      BY <1>1
    <3> QED
      BY <1>1, <1>2, <2>1, <3>1, <3>2
  <2>3. ASSUME h.complete
        PROVE  /\ owed - 1 + ObjectsInside(h) < S
               /\ h.kind \in {"str", "bin", "ext"} /\ NumberWidth(h.format) # W32
                    => h.next - reader.pos + PayloadLength(h) < S
    <3>1. ObjectsInside(h) \in Nat /\ ObjectsInside(h) < K
          /\ (h.kind \in {"str", "bin", "ext"} /\ NumberWidth(h.format) # W32
                 => h.next - reader.pos + PayloadLength(h) <= K)
      BY <1>3, <1>4, <2>3, HeadersAreModest DEF K
    <3>2. reader.pos < L
      BY <1>3, <1>4, <2>3, HeaderTypes
    <3>3. h.next \in Nat /\ PayloadLength(h) \in Nat
      <4>1. h.next \in reader.pos + 1 .. L
        BY <1>3, <1>4, <2>3, HeaderTypes
      <4>2. PayloadLength(h) \in Nat
        BY <1>3, <1>4, <2>3, Payloads
      <4> QED
        BY <2>1, <4>1, <4>2
    <3> DEFINE d == reader.pos - saved
               i == ObjectsInside(h)
    <3>4. d \in Nat /\ d + 1 <= limit /\ owed <= 1 + d * K
      <4>1. owed <= 1 + (reader.pos - saved) * K
        BY <1>4 DEF SkipOwesLittle, K
      <4>2. reader.pos - saved \in Nat /\ reader.pos - saved + 1 <= limit
        <5> HIDE DEF h, L
        <5> QED
          BY <2>1, <3>2
      <4> QED
        BY <4>1, <4>2
    <3> HIDE DEF h, L, d, i
    <3>5. (d + 1) * K <= limit * K /\ (d + 1) * K = d * K + K /\ d * K \in Nat /\ limit * K \in Nat
      BY <1>1, <3>4, Scaled
    <3>6. owed - 1 + i < S
      BY <1>1, <1>2, <2>1, <3>1, <3>4, <3>5 DEF i
    <3>7. K < S
      BY <1>1, <1>2, <3>5
    <3>8. h.kind \in {"str", "bin", "ext"} /\ NumberWidth(h.format) # W32
                 => h.next - reader.pos + PayloadLength(h) < S
      BY <1>1, <2>1, <3>1, <3>3, <3>7
    <3> QED
      BY <3>6, <3>8 DEF i
  <2> QED
    BY <2>2, <2>3 DEF Fits, S
<1>5. ASSUME RawTypeOK, RawShape, SkipOwesLittle, CountsFit, [RawNext]_rawVars PROVE SkipOwesLittle'
  <2>1. CASE GetsReader
    <3>1. owed' = 0
      BY <2>1 DEF GetsReader, Called
    <3> QED
      BY <3>1 DEF SkipOwesLittle
  <2>2. ASSUME NEW op \in Ops, ReadOne(op) PROVE SkipOwesLittle'
    <3>1. owed' = 0
      BY <2>2 DEF ReadOne
    <3> QED
      BY <3>1 DEF SkipOwesLittle
  <2>3. CASE BeginSkip
    <3>1. owed' = 1 /\ reader'.pos - saved' = 0
      BY <1>3, <1>5, <2>3 DEF BeginSkip
    <3>2. 0 * K = 0
      BY <1>1
    <3> QED
      BY <3>1, <3>2 DEF SkipOwesLittle, K
  <2>4. CASE Skip
    <3> DEFINE turn == SkipTurn(reader, owed, saved, SizeWidth)
               buf == reader.buf
               p == reader.pos
    <3>1. owed > 0 /\ owed \in Nat \ {0} /\ reader' = turn.r /\ owed' = turn.owed /\ saved' = saved
      BY <1>3, <1>5, <2>4 DEF Skip
    <3>2. turn = IF Whole(buf, p) THEN Skipping(At(reader, NextAfter(buf, p)), owed - 1 + Within(buf, p))
                 ELSE SkipFails(reader, saved)
      <4>1. Fits(buf, p, owed)
        BY <1>5, <3>1 DEF CountsFit
      <4> QED
        BY <1>3, <1>5, <3>1, <4>1, TurnsTakeOneHeader
    <3>3. CASE ~Whole(buf, p)
      <4>1. turn.owed = 0
        BY <3>2, <3>3 DEF SkipFails, Skipping
      <4> QED
        BY <3>1, <4>1 DEF SkipOwesLittle
    <3>4. CASE Whole(buf, p)
      <4> DEFINE q == NextAfter(buf, p)
                 i == Within(buf, p)
      <4>1. q \in p + 1 .. Len(buf) /\ i \in Nat
        BY <1>3, <1>5, <3>4, Onward
      <4>2. i < K
        BY <1>3, <1>5, <3>4, HeadersAreModest DEF Whole, Within, K
      <4>3. turn.r.pos = q /\ turn.owed = owed - 1 + i
        BY <3>2, <3>4 DEF Skipping, At
      <4> HIDE DEF turn, q, i
      <4>4. owed <= 1 + (p - saved) * K
        BY <1>5, <3>1 DEF SkipOwesLittle, K
      <4> DEFINE d == p - saved
                 e == q - saved
      <4>5. d \in Nat /\ e \in Nat /\ d + 1 <= e
        <5>1. p \in Nat /\ saved \in Nat /\ saved <= p /\ Len(buf) \in Nat
          BY <1>3, <1>5
        <5> HIDE DEF p
        <5> QED
          BY <4>1, <5>1
      <4> HIDE DEF d, e
      <4>6. (d + 1) * K <= e * K /\ (d + 1) * K = d * K + K /\ d * K \in Nat /\ e * K \in Nat
        BY <1>1, <4>5, Scaled
      <4>7. owed - 1 + i <= 1 + e * K
        <5> DEFINE dK == d * K
                   eK == e * K
        <5>1. /\ K \in Nat /\ owed \in Nat /\ owed <= 1 + dK /\ i \in Nat /\ i < K
              /\ dK \in Nat /\ eK \in Nat /\ dK + K <= eK
          BY <1>1, <3>1, <4>1, <4>2, <4>4, <4>6 DEF d
        <5> HIDE DEF dK, eK
        <5>2. owed - 1 + i <= 1 + eK
          BY ONLY <5>1
        <5> QED
          BY <5>2 DEF eK
      <4>8. owed' = owed - 1 + i /\ reader'.pos - saved' = e
        BY <3>1, <4>3 DEF e
      <4> QED
        BY <4>7, <4>8 DEF SkipOwesLittle, K
    <3> QED
      BY <3>3, <3>4
  <2>5. CASE UNCHANGED rawVars
    BY <1>5, <2>5 DEF rawVars, SkipOwesLittle
  <2> QED
    BY <1>5, <2>1, <2>2, <2>3, <2>4, <2>5 DEF RawNext, HandlerReads
<1> QED
  BY <1>4, <1>5 DEF CountsFit

\* skip() takes one object, without that condition, where a size_t has room for
\* the objects that a payload within the limit can announce, less than twice 2^32
\* for each byte: on a host of 64 bits, payloads of up to 2^31 - 1 bytes (skip()
\* of Reader, msgpack_lite.h).
THEOREM SkipsOneObjectWhereCountsFit ==
  ASSUME NEW CONSTANT limit \in Nat, limit * (2 * Span(W32)) < Span(SizeWidth)
  PROVE  RawSpec /\ [](Len(reader.buf) <= limit) => []SkipTakesOneObject
<1> DEFINE Short == Len(reader.buf) <= limit
           Inv == RawTypeOK /\ RawShape /\ SkipOwesLittle /\ SkipOnTheWay /\ SkipTakesOneObject
<1>1. RawInit => Inv
  <2>1. RawInit => SkipOwesLittle
    BY DEF RawInit, SkipOwesLittle
  <2> QED
    BY <2>1, StartsTyped, StartsShaped, StartsSkip
<1>2. Inv /\ Short => CountsFit
  BY SkipsOweLittle
<1>3. Inv /\ CountsFit /\ [RawNext]_rawVars => SkipOwesLittle'
  BY SkipsOweLittle
<1>4. Inv /\ CountsFit /\ [RawNext]_rawVars => RawTypeOK' /\ RawShape' /\ SkipOnTheWay' /\ SkipTakesOneObject'
  BY StepsTyped, StepsSkip
<1>5. Inv /\ Short /\ [RawNext]_rawVars => Inv'
  BY <1>2, <1>3, <1>4
<1>6. Inv => SkipTakesOneObject
  OBVIOUS
<1> HIDE DEF Inv
<1> QED
  BY <1>1, <1>5, <1>6, PTL DEF RawSpec
=============================================================================
