------------------------------ MODULE MCTypedCall ------------------------------
\* Values at the edges of every format, and one handler per shape of signature.
EXTENDS TypedCall

I(signed, w) == [t |-> "int", signed |-> signed, w |-> w]
T(name) == [t |-> name]
Vector(of) == [t |-> "vector", of |-> of]
Tuple(of) == [t |-> "tuple", of |-> of]

Edges == {0, 1, PosFixints - 1, PosFixints, Octets \div 2 - 1, Octets \div 2, Octets - 1, Octets,
          Span(W16) \div 2, Span(W16), Span(W32) \div 2, Span(W32), Span(W64) \div 2 - 1}
Text(n) == StringValue([i \in 1 .. n |-> i % 3])
CText(n) == StringValue([i \in 1 .. n |-> 1 + (i % 2)])      \* of a const char*: no NUL
Numbers == {IntValue(n) : n \in Edges \cup {-n : n \in Edges \ {0}}} \cup {UIntValue(Span(W64) - 1)}
Doubles == {DoubleValue(Pattern64(e * Mantissa64 + m)) : e \in 0 .. 2 * Exponents64 - 1, m \in {0, 1, 3, 4, 5, Mantissa64 - 1}}
Strings == {Text(n) : n \in 0 .. 4}
Scalars == {NilValue, BoolValue(TRUE), BinValue(<< 1 >>)} \cup Strings \cup Doubles \cup {IntValue(1), IntValue(-1), IntValue(Octets)}
Pair(a, b) == ArrayValue(<< a, b >>)

MCTyped ==
  { [name |-> << 1 >>, takes |-> << I(FALSE, 1), I(TRUE, W16) >>, gives |-> I(TRUE, W16)],
    [name |-> << 2 >>, takes |-> << T("cstr"), T("cstr") >>, gives |-> T("string")],
    [name |-> << 3 >>, takes |-> << Vector(I(FALSE, 1)) >>, gives |-> Vector(I(TRUE, W32))],
    [name |-> << 1, 2 >>, takes |-> << Tuple(<< T("bool"), T("double") >>), T("float") >>, gives |-> T("double")],
    [name |-> << 2, 2 >>, takes |-> << I(TRUE, W64) >>, gives |-> I(FALSE, W64)],
    [name |-> << 3, 3 >>, takes |-> << T("string") >>, gives |-> T("void")] }
MCRaw == {<< 2, 1 >>}

MCResults(kind) ==
  CASE kind.t = "int" -> {IntValue(n) : n \in {-(Span(W16) \div 2), -1, 0, Octets}}
    [] kind.t = "string" -> {Text(n) : n \in {0, 1, 4, 9, 10, 11, 12}}
    [] kind.t = "vector" -> {ArrayValue([i \in 1 .. n |-> IntValue(k)]) : n \in {0, 1, 3, 5}, k \in {1, Span(W16)}}
    [] kind.t = "double" -> {DoubleValue(Pattern64(100)), [is |-> "float", v |-> Pattern32(9)]}
    [] kind.t = "void" -> {NilValue}
    [] kind.t = "value" -> {UIntValue(Span(W32)), BinValue(<< 0, 1 >>), Text(12)}

Call(name, args, kind) == [name |-> name, args |-> args, as |-> kind]
MCCalls ==
  {Call(<< 1 >>, << a, b >>, t) : a \in Numbers, b \in Numbers, t \in {I(TRUE, W16)}}
  \cup {Call(<< 1 >>, << IntValue(1), IntValue(1) >>, t) : t \in {I(FALSE, 1), I(TRUE, 1), T("bool"), T("value")}}
  \cup {Call(n, << a >>, T("value")) : n \in {<< 1 >>, << 2 >>, << 3, 3 >>, << 0 >>}, a \in Scalars}
  \cup {Call(<< 3, 3 >>, << Text(n) >>, T("value")) : n \in 6 .. 12}
  \cup {Call(<< 2 >>, << a, b >>, T("string")) : a \in Strings, b \in Strings}
  \cup {Call(<< 3 >>, << ArrayValue(s) >>, Vector(I(TRUE, W32))) : s \in UNION {[1 .. k -> {IntValue(0), UIntValue(Octets)}] : k \in 0 .. 3}}
  \cup {Call(<< 1, 2 >>, << ArrayValue(a), b >>, T("double")) :
          a \in {<< BoolValue(TRUE), d >> : d \in Doubles} \cup {<< BoolValue(TRUE) >>, << NilValue, IntValue(1) >>}, b \in {IntValue(-1), DoubleValue(Pattern64(200))}}
  \cup {Call(<< 2, 2 >>, << a >>, I(FALSE, W64)) : a \in Numbers}
  \cup {Call(<< 2, 1 >>, << MapValue(<< << a, b >>, << a, a >> >>) >>, T("value")) : a \in {Text(1), IntValue(3)}, b \in {NilValue, Pair(Text(0), Text(2))}}
  \cup {Call(<< 2, 1 >>, << Pair(DoubleValue(Pattern64(300)), Text(1)), IntValue(-3) >>, Vector(T("bool")))}

MCMsgIds == {1, Span(W32) - 1}
MCEvents ==
  {[name |-> << 3 >>, args |-> << a >>] : a \in {CText(n) : n \in {0, 1, 2, 3, 13, 14, 15}} \cup {BoolValue(FALSE), IntValue(-1), DoubleValue(Pattern64(300))}}
  \cup {[name |-> LogName, args |-> a] : a \in {<< IntValue(2), CText(3) >>, << CText(1), CText(1) >>, << IntValue(1) >>}}

MCBadArgs == << 1, 2 >>
MCUnknownMethod == << 1, 1 >>
MCTooLarge == << 1, 2, 3 >>
MCHandlerError == << 2 >>
MCLogName == << 2, 3 >>

Few == {0, 1, 2, Octets - 1}
Tails == UNION {[1 .. k -> Few] : k \in 0 .. 2}
Params ==
  {<< b >> \o s : b \in Byte, s \in UNION {[1 .. k -> Few] : k \in 0 .. 1}}
  \cup {<< FormatByte[f] >> \o s : f \in {"uint16", "int16", "float64", "uint32", "int64", "str32", "ext16", "map16", "array32"},
                                 s \in UNION {[1 .. k -> {0, Octets - 1}] : k \in 2 .. 4}}
  \cup {<< a, b >> \o s : a \in {kFixarrayPrefix + 2, kFixmapPrefix + 1, FormatByte["fixext2"]}, b \in {kFixarrayPrefix + 3, kFixmapPrefix + 2, kFixstrPrefix + 1, 0},
                          s \in UNION {[1 .. k -> {0, FormatByte["ext8"]}] : k \in 0 .. 3}}
RawRequest == << kFixarrayPrefix + 4, 0, 1, FormatByte["str8"], 2, 2, 1, kFixarrayPrefix + 1 >>
MCForeign == {RawRequest \o p : p \in Params} \cup {SubSeq(RawRequest, 1, n) : n \in 0 .. Len(RawRequest)}
             \cup {<< b >> \o s : b \in {kFixarrayPrefix + 3, kFixarrayPrefix + 4, FormatByte["array16"]}, s \in Tails}

Response == << kFixarrayPrefix + 4, 1, 1, FormatByte["nil"] >>
MCForeignToHost ==
  {Response \o p : p \in Params} \cup {SubSeq(Response, 1, n) : n \in 0 .. Len(Response)}
  \cup {<< kFixarrayPrefix + 3, 2, kFixstrPrefix + 1, 0 >> \o s : s \in Tails}
  \cup {Response \o [i \in 1 .. n |-> kFixarrayPrefix + 1] \o << 0 >> : n \in 0 .. kMaxDepth + 2}

================================================================================
