--------------------------------- MODULE Value ---------------------------------
(***************************************************************************)
(* The host's Value: what to_value makes of an argument, encode() packs,   *)
(* decode() reads, and as<T>() and the device's ArgDecoder<T> convert.     *)
(* A value is its alternative and its content; a string is its bytes.  A   *)
(* type is named by the shape the conversions tell apart: std::array,      *)
(* std::pair and std::tuple are all an array of as many elements as they   *)
(* have, here "tuple".                                                     *)
(***************************************************************************)
EXTENDS Msgpack

CONSTANTS
  HostSize,     \* bytes of the host's size_t
  kMaxDepth     \* deepest nesting decode() accepts

NilValue == [is |-> "nil", v |-> 0]
BoolValue(b) == [is |-> "bool", v |-> b]
IntValue(n) == [is |-> "int", v |-> n]
UIntValue(n) == [is |-> "uint", v |-> n]
DoubleValue(f) == [is |-> "double", v |-> f]
StringValue(s) == [is |-> "string", v |-> s]
BinValue(s) == [is |-> "bin", v |-> s]
ArrayValue(s) == [is |-> "array", v |-> s]
MapValue(s) == [is |-> "map", v |-> s]       \* a sequence of pairs, in the order of the wire

RECURSIVE PackValue(_, _, _, _)
PackValue(w, value, sizeWidth, doubleIsFloat) ==
  LET Add(to, v) == PackValue(to, v, sizeWidth, doubleIsFloat)
  IN CASE value.is = "nil" -> pack_nil(w)
       [] value.is = "bool" -> pack_bool(w, value.v)
       [] value.is = "int" -> pack_int_(w, value.v)
       [] value.is = "uint" -> pack_uint_(w, value.v)
       [] value.is = "double" -> pack_double(w, value.v.v, doubleIsFloat)
       [] value.is = "float" -> pack_float(w, value.v.v)      \* of a device only
       [] value.is = "string" -> pack_str(w, value.v, sizeWidth)
       [] value.is = "bin" -> pack_bin(w, value.v, sizeWidth)
       [] value.is = "array" -> FoldLeft(Add, pack_array(w, Len(value.v), sizeWidth), value.v)
       [] value.is = "map" ->
            FoldLeft(LAMBDA to, pair : Add(Add(to, pair[1]), pair[2]), pack_map(w, Len(value.v), sizeWidth), value.v)

encode(w, value) == PackValue(w, value, HostSize, FALSE)

\* What decode_ reads an object of a type with, and the alternative it makes.
HostRead ==
  [nil |-> [name |-> "nil"], boolean |-> [name |-> "bool"], float |-> [name |-> "double"],
   int |-> [name |-> "signed", w |-> W64], uint |-> [name |-> "unsigned", w |-> W64],
   str |-> [name |-> "str"], bin |-> [name |-> "bin"], array |-> [name |-> "array"], map |-> [name |-> "map"]]

Alternative ==
  [nil |-> "nil", boolean |-> "bool", float |-> "double", int |-> "int", uint |-> "uint",
   str |-> "string", bin |-> "bin", array |-> "array", map |-> "map"]

Made(read, value) == [read EXCEPT !.out = value]
Pairs(flat) == [i \in 1 .. Len(flat) \div 2 |-> << flat[2 * i - 1], flat[2 * i] >>]

RECURSIVE decode_(_, _), Elements(_, _, _), Contents(_, _, _)

\* n further elements at a depth, after those that were read so far.
Elements(sofar, n, depth) ==
  IF n = 0 \/ ~sofar.ok THEN sofar
  ELSE Let(decode_(sofar.r, depth),
           LAMBDA e : Elements(IF e.ok THEN Made(e, Append(sofar.out, e.out)) ELSE e, n - 1, depth))

\* What a read yields for an object of the type: itself, or the elements it announces.
Contents(read, kind, depth) ==
  CASE ~read.ok \/ kind \notin {"array", "map"} -> read
    [] read.ok /\ kind = "array" -> Elements(Made(read, << >>), read.out, depth + 1)
    [] read.ok /\ kind = "map" ->
         Let(Elements(Made(read, << >>), 2 * read.out, depth + 1),
             LAMBDA flat : IF flat.ok THEN Made(flat, Pairs(flat.out)) ELSE flat)

\* What decode_ throws is ok = FALSE.
decode_(r, depth) ==
  IF r.error \/ depth > kMaxDepth \/ type(r) \notin DOMAIN HostRead THEN [r |-> r, ok |-> FALSE, out |-> 0]
  ELSE Let(Let(Read(HostRead[type(r)], r, HostSize, FALSE), LAMBDA read : Contents(read, type(r), depth)),
           LAMBDA read : IF read.ok THEN Made(read, [is |-> Alternative[type(r)], v |-> read.out]) ELSE read)

decode(r) == decode_(r, 0)

(***************************************************************************)
(* Types and as<T>().  A conversion yields whether it succeeded, or threw  *)
(* TypeError, and the C++ value, written as a Value again.                 *)
(***************************************************************************)
Converted(value) == [ok |-> TRUE, out |-> value]
TypeError == [ok |-> FALSE, out |-> NilValue]

as_integral_(T, value) ==
  IF value.is \in {"int", "uint"} /\ T.signed /\ value.v \in -(Span(T.w) \div 2) .. Span(T.w) \div 2 - 1
  THEN Converted(IntValue(value.v))
  ELSE IF value.is \in {"int", "uint"} /\ ~T.signed /\ value.v \in 0 .. Span(T.w) - 1
  THEN Converted(UIntValue(value.v)) ELSE TypeError

as_floating_(value) ==
  CASE value.is = "double" -> Converted(value)
    [] value.is \in {"int", "uint"} -> Converted(DoubleValue(FromInteger(value.v)))
    [] OTHER -> TypeError

\* A std::map keeps the first entry of a key.
FirstEntries(entries) ==
  SelectSeq([i \in DOMAIN entries |->
               [key |-> entries[i], first |-> \A j \in 1 .. i - 1 : entries[j][1] # entries[i][1]]],
            LAMBDA e : e.first)

RECURSIVE as(_, _)
as(T, value) ==
  LET All(Elem, s) ==
        LET converted == [i \in DOMAIN s |-> as(Elem, s[i])]
        IN [ok |-> \A i \in DOMAIN s : converted[i].ok, out |-> [i \in DOMAIN s |-> converted[i].out]]
      AsArray(all) == IF all.ok THEN Converted(ArrayValue(all.out)) ELSE TypeError
  IN CASE T.t = "value" -> Converted(value)
       [] T.t \in {"bool", "string", "bin"} -> IF value.is = T.t THEN Converted(value) ELSE TypeError
       [] T.t = "int" -> as_integral_(T, value)
       [] T.t = "double" -> as_floating_(value)
       [] T.t = "vector" -> IF value.is = "array" THEN AsArray(All(T.of, value.v)) ELSE TypeError
       [] T.t = "map" /\ value.is = "map" ->
            LET keys == All([t |-> "string"], [i \in DOMAIN value.v |-> value.v[i][1]])
                items == All(T.of, [i \in DOMAIN value.v |-> value.v[i][2]])
                entries == FirstEntries([i \in DOMAIN value.v |-> << keys.out[i], items.out[i] >>])
            IN IF keys.ok /\ items.ok THEN Converted(MapValue([i \in DOMAIN entries |-> entries[i].key])) ELSE TypeError
       [] OTHER -> TypeError

================================================================================
