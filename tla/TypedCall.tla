------------------------------- MODULE TypedCall -------------------------------
(***************************************************************************)
(* The contents of one exchange, byte by byte: the host packs a method     *)
(* name and Values, the device decodes them for a typed handler or hands   *)
(* its reader to a raw one, packs the result and splices it into the       *)
(* response, and the host decodes that.  A frame is its payload here; what *)
(* happens to frames on the line is the matter of Demux, and to calls that *)
(* overlap of RpcSession.                                                  *)
(***************************************************************************)
EXTENDS RawHandler, Value

CONSTANTS
  MaxFrame,         \* Options::max_frame, the host's payload buffer
  BufSize,          \* the device's payload buffer
  kStrScratchSize,  \* what all const char* arguments of a call share
  Typed,            \* handlers bound with bind: [name, takes, gives]
  Raw,              \* names bound with bind_raw
  Results(_),       \* what a handler that gives a type may return
  Calls,            \* what the host calls: [name, args, as]
  MsgIds,           \* its msgids
  Events,           \* what the sketch notifies: [name, args]
  Foreign,          \* payloads of other programs on the line, to the device
  ForeignToHost,    \* the same, to the host
  BadArgs, UnknownMethod, TooLarge, HandlerError,   \* texts of the errors
  LogName           \* "log"

kResponseHeaderMax == 1 + 1 + (1 + W32) + 1
kResultScratch == IF BufSize > kResponseHeaderMax THEN BufSize - kResponseHeaderMax ELSE 1

ASSUME CallAssumption ==
  /\ {MaxFrame, BufSize, kStrScratchSize} \subseteq Nat
  /\ MaxFrame <= BufSize                        \* a longer frame overflows the device's Demux
  /\ {BadArgs, UnknownMethod, TooLarge, HandlerError, LogName} \subseteq Bytes
  /\ 5 + W32 + 1 + Len(TooLarge) <= BufSize     \* the smallest error reply fits

VARIABLES
  phase,    \* "idle", "request": at the device, "raw", "response": at the host, "done"
  call,     \* what the host asked for, or NoCall
  msgid,    \* the msgid the device answers, or NoReply for a notification
  payload,  \* the frame on the line
  invoked,  \* the arguments a typed handler was called with, or NotInvoked
  result,   \* what the handler returned, or NotInvoked
  reply,    \* Reply: its writer, and the error or NoError
  outcome   \* what the host made of it

callVars == << phase, call, msgid, payload, invoked, result, reply, outcome >>
vars == << rawVars, callVars >>

NoCall == [name |-> << >>, args |-> << >>, as |-> [t |-> "none"]]
NoReply == -1
NotInvoked == NilValue
NoError == [failed |-> FALSE, text |-> << >>]
Error(text) == [failed |-> TRUE, text |-> text]
Nothing == [is |-> "nothing", v |-> NilValue]
EmptyReply == [w |-> Writer(kResultScratch), error |-> NoError]

Init ==
  /\ RawInit /\ phase = "idle" /\ call = NoCall /\ msgid = NoReply /\ payload = << >>
  /\ invoked = NotInvoked /\ result = NotInvoked /\ reply = EmptyReply /\ outcome = Nothing

(***************************************************************************)
(* The host sends.                                                         *)
(***************************************************************************)
Ends(made) == phase' = "done" /\ outcome' = made

\* name and args after a head of [0, msgid] or [2].
Message(head, name, args) == FoldLeft(encode, pack_array(pack_str(head, name, HostSize), Len(args), HostSize), args)

RequestHead(id) == pack_uint_(pack_int_(pack_array(Writer(MaxFrame), 4, HostSize), 0), id)
NotificationHead(cap, size) == pack_int_(pack_array(Writer(cap), 3, size), 2)

\* Mutant: the message is sent although its buffer was too small.
SendWhatFits(w) ==
  payload' = w.out /\ phase' = "request" /\ UNCHANGED << outcome, invoked, result, reply, rawVars >>

Send(w) ==
  /\ IF w.overflow THEN Ends([is |-> "ProtocolError", v |-> NilValue]) /\ UNCHANGED payload
     ELSE payload' = w.out /\ phase' = "request" /\ UNCHANGED outcome
  /\ UNCHANGED << invoked, result, reply, rawVars >>

send_request_(c, id) ==
  /\ phase = "idle"
  /\ call' = c /\ msgid' = id
  /\ Send(Message(RequestHead(id), c.name, c.args))

notify_values(c) ==
  /\ phase = "idle"
  /\ call' = c /\ msgid' = NoReply
  /\ Send(Message(NotificationHead(MaxFrame, HostSize), c.name, c.args))

\* Another program's frame: its bytes passed the CRC, whatever they are.
ForeignFrame(bytes, at) ==
  /\ phase = "idle"
  /\ payload' = bytes /\ phase' = at
  /\ UNCHANGED << call, msgid, invoked, result, reply, outcome, rawVars >>

(***************************************************************************)
(* The device decodes.  Arguments are [r, used]: the reader and what is    *)
(* used of the string scratch buffer.                                      *)
(***************************************************************************)
anArray == [name |-> "array"]
aString == [name |-> "str"]
anInt == [name |-> "signed", w |-> W32]
aUint32 == [name |-> "unsigned", w |-> W32]

Decoded(args, ok, out) == [args |-> args, ok |-> ok, out |-> out]
Refused(args) == Decoded(args, FALSE, NilValue)

\* What an ArgDecoder of one object reads, and the alternative its value is written as.
ScalarRead(T) ==
  CASE T.t = "int" -> [name |-> IF T.signed THEN "signed" ELSE "unsigned", w |-> T.w]
    [] T.t \in {"string", "cstr"} -> [name |-> "str"]
    [] OTHER -> [name |-> T.t]

ScalarKind(T) ==
  CASE T.t = "int" -> IF T.signed THEN "int" ELSE "uint"
    [] T.t \in {"string", "cstr"} -> "string"
    [] T.t \in {"float", "double"} -> "double"
    [] T.t = "bool" -> "bool"

\* Mutant: the NUL is not counted.
DecodeScalarWithoutNul(args, T, read) ==
  LET used == args.used + (IF T.t = "cstr" /\ read.ok THEN Len(read.out) ELSE 0)
  IN IF read.r.error \/ used > kStrScratchSize THEN Refused([args EXCEPT !.r = read.r])
     ELSE Decoded([r |-> read.r, used |-> used], TRUE, [is |-> ScalarKind(T), v |-> read.out])

\* A const char* points to a copy in the scratch buffer, with a NUL behind it; its
\* value stands for the bytes copied.
DecodeScalar(args, T, read) ==
  LET used == args.used + (IF T.t = "cstr" /\ read.ok THEN Len(read.out) + 1 ELSE 0)
  IN IF read.r.error \/ used > kStrScratchSize THEN Refused([args EXCEPT !.r = read.r])
     ELSE Decoded([r |-> read.r, used |-> used], TRUE, [is |-> ScalarKind(T), v |-> read.out])

RECURSIVE DecodeArg(_, _), DecodeArray(_, _, _), DecodeArgs(_, _)

\* Arguments of the types, in order; the first failure ends it.
DecodeArgs(args, types) ==
  LET AndOne(sofar, T) ==
        Let(DecodeArg(sofar.args, T),
            LAMBDA one : IF one.ok THEN Decoded(one.args, TRUE, ArrayValue(Append(sofar.out.v, one.out))) ELSE one)
  IN FoldLeft(LAMBDA sofar, T : IF sofar.ok THEN AndOne(sofar, T) ELSE sofar,
              Decoded(args, TRUE, ArrayValue(<< >>)), types)

\* An array of the announced number of elements, which is fixed but for a vector.
DecodeArray(args, T, n) ==
  LET inside == [args EXCEPT !.r = n.r]
  IN IF n.r.error \/ (T.t = "tuple" /\ n.out # Len(T.of)) THEN Refused(inside)
     ELSE DecodeArgs(inside, IF T.t = "tuple" THEN T.of ELSE [i \in 1 .. n.out |-> T.of])

DecodeArg(args, T) ==
  IF T.t \in {"vector", "tuple"} THEN Let(Apply(anArray, args.r), LAMBDA n : DecodeArray(args, T, n))
  ELSE Let(Apply(ScalarRead(T), args.r), LAMBDA read : DecodeScalar(args, T, read))

(***************************************************************************)
(* The device dispatches and replies; the built-in methods are in Server.  *)
(***************************************************************************)
\* ValuePacker: each type of the device packs with its own pack().
pack(w, value) == PackValue(w, value, SizeWidth, DoubleIsFloat)

\* TypedThunk: the number of arguments, then the arguments.
DecodeAll(p, T) ==
  LET args == [r |-> p.r, used |-> 0]
  IN IF p.n # Len(T.takes) THEN Refused(args) ELSE DecodeArgs(args, T.takes)

ResponseHead(w, id) == pack_uint_(pack_int_(pack_array(w, 4, SizeWidth), 1), id)
ErrorReply(id, text) == pack_nil(pack_str(ResponseHead(Writer(BufSize), id), text, SizeWidth))

\* Mutant: nobody looks at the overflow of the result's writer.
send_response_unchecked(id, rep) ==
  LET head == pack_nil(ResponseHead(Writer(kResponseHeaderMax), id))
  IN IF rep.error.failed THEN ErrorReply(id, rep.error.text).out ELSE head.out \o rep.w.out

send_response_(id, rep) ==
  LET head == pack_nil(ResponseHead(Writer(kResponseHeaderMax), id))
      spliced == head.out \o (IF rep.w.out = << >> THEN pack_nil(Writer(BufSize)).out ELSE rep.w.out)
      error == ErrorReply(id, rep.error.text)
      tooLarge == ErrorReply(id, TooLarge).out
  IN IF rep.error.failed THEN IF error.overflow THEN tooLarge ELSE error.out
     ELSE IF head.overflow \/ rep.w.overflow \/ Len(spliced) > BufSize THEN tooLarge ELSE spliced

\* A request is answered; a notification is not.
Answers(id, rep) ==
  /\ reply' = rep
  /\ IF id = NoReply THEN Ends(Nothing) /\ UNCHANGED payload
     ELSE payload' = send_response_(id, rep) /\ phase' = "response" /\ UNCHANGED outcome

\* The outputs of reads in a row, none of which looks at the error of another.
Fields(r, ops) ==
  FoldLeft(LAMBDA got, op : Let(Apply(op, got.r), LAMBDA x : [r |-> x.r, out |-> Append(got.out, x.out)]),
           [r |-> r, out |-> << >>], ops)

\* Mutant: the error is looked at before the number of parameters is read.
ParsedTooEarly(bytes) ==
  LET Of(head, request, rest, name, n) ==
        [ok |-> ~head.r.error /\ << head.out[2], head.out[1] >> \in {<< 0, 4 >>, << 2, 3 >>} /\ ~name.r.error,
         id |-> IF request THEN rest.out[1] ELSE NoReply, name |-> rest.out[n - 1], n |-> rest.out[n], r |-> rest.r]
      After(head, request) ==
        Let(Fields(head.r, IF request THEN << aUint32, aString, anArray >> ELSE << aString, anArray >>),
            LAMBDA rest : Of(head, request, rest,
                             Fields(head.r, IF request THEN << aUint32, aString >> ELSE << aString >>), Len(rest.out)))
  IN Let(Fields(Reader(bytes), << anArray, anInt >>), LAMBDA head : After(head, head.out[2] = 0))

\* The head of a message: three or four elements, its type, its msgid, its
\* method and the number of parameters.
Parsed(bytes) ==
  LET Of(head, request, rest, n) ==
        [ok |-> ~head.r.error /\ << head.out[2], head.out[1] >> \in {<< 0, 4 >>, << 2, 3 >>} /\ ~rest.r.error,
         id |-> IF request THEN rest.out[1] ELSE NoReply, name |-> rest.out[n - 1], n |-> rest.out[n], r |-> rest.r]
      After(head, request) ==
        Let(Fields(head.r, IF request THEN << aUint32, aString, anArray >> ELSE << aString, anArray >>),
            LAMBDA rest : Of(head, request, rest, Len(rest.out)))
  IN Let(Fields(Reader(bytes), << anArray, anInt >>), LAMBDA head : After(head, head.out[2] = 0))

\* Malformed: nothing is called and nothing is sent.
HandleMalformed(p) ==
  /\ ~p.ok
  /\ Ends(Nothing)
  /\ UNCHANGED << call, msgid, payload, invoked, result, reply, rawVars >>

HandleTyped(p, T) ==
  /\ p.ok /\ p.name = T.name
  /\ msgid' = p.id
  /\ \E args \in {DecodeAll(p, T)} :
       IF ~args.ok
       THEN /\ Answers(p.id, [EmptyReply EXCEPT !.error = Error(BadArgs)])
            /\ UNCHANGED << invoked, result >>
       ELSE /\ invoked' = args.out
            /\ \E value \in Results(T.gives) :
                 result' = value /\ Answers(p.id, [EmptyReply EXCEPT !.w = pack(@, value)])
  /\ UNCHANGED << call, rawVars >>

HandleUnknown(p) ==
  /\ p.ok /\ p.name \notin Raw \cup {T.name : T \in Typed}
  /\ msgid' = p.id
  /\ Answers(p.id, [EmptyReply EXCEPT !.error = Error(UnknownMethod)])
  /\ UNCHANGED << call, invoked, result, rawVars >>

CallRaw(p) ==
  /\ p.ok /\ p.name \in Raw
  /\ msgid' = p.id /\ phase' = "raw" /\ reply' = EmptyReply
  /\ Called(p.r)
  /\ UNCHANGED << call, payload, invoked, result, outcome >>

\* handle_frame_.
DeviceHandles ==
  /\ phase = "request"
  /\ \E p \in {Parsed(payload)} :
       \/ HandleMalformed(p) \/ HandleUnknown(p) \/ CallRaw(p)
       \/ \E T \in Typed : HandleTyped(p, T)

RawReads == phase = "raw" /\ HandlerReads /\ UNCHANGED callVars

\* It writes one result, or reports an error if a read failed, and returns.
RawReturns ==
  /\ phase = "raw" /\ owed = 0
  /\ \E value \in Results([t |-> "value"]) \cup {NotInvoked} :
       LET w == IF value = NotInvoked THEN EmptyReply.w ELSE pack(EmptyReply.w, value)
           error == IF reader.error THEN Error(HandlerError) ELSE NoError
       IN result' = value /\ Answers(msgid, [w |-> w, error |-> error])
  /\ Called(Reader(<< >>))      \* the reader goes out of scope
  /\ UNCHANGED << call, msgid, invoked >>

\* Server::notify() of an attached device.
Notify(e) ==
  LET w == FoldLeft(pack, pack_array(pack_str(NotificationHead(BufSize, SizeWidth), e.name, SizeWidth),
                                     Len(e.args), SizeWidth), e.args)
  IN /\ phase = "idle"
     /\ call' = [name |-> e.name, args |-> e.args, as |-> [t |-> "none"]]
     /\ IF w.overflow THEN Ends(Nothing) /\ UNCHANGED payload
        ELSE payload' = w.out /\ phase' = "response" /\ UNCHANGED outcome
     /\ UNCHANGED << msgid, invoked, result, reply, rawVars >>

(***************************************************************************)
(* The host decodes.  What Value::decode throws leaves pump_bytes_ and the *)
(* call; a frame that is malformed otherwise is counted and dropped.       *)
(***************************************************************************)
Throws == [is |-> "ProtocolError", v |-> NilValue]
Malformed == [is |-> "malformed", v |-> NilValue]

\* call<R>: the answer to the pending call, converted.
CallReturns(isError, value) ==
  IF isError THEN [is |-> "RemoteError", v |-> value]
  ELSE LET converted == as(call.as, value)
       IN IF converted.ok THEN [is |-> "returned", v |-> converted.out] ELSE [is |-> "TypeError", v |-> value]

\* A response with this id, and an error and a value in the other slots.
Answered(id, isError, error, value) ==
  IF ~(error.ok /\ value.ok) THEN Throws
  ELSE IF call.as.t # "none" /\ msgid # NoReply /\ id = msgid
  THEN CallReturns(isError, IF isError THEN error.out ELSE value.out)
  ELSE [is |-> "stray", v |-> value.out]

FromResponse(r) ==
  LET FromError(id, isError, error) == Let(decode(error.r), LAMBDA value : Answered(id, isError, error, value))
      FromId(id, isError) ==
        Let(IF isError THEN decode(id.r) ELSE Made(read_nil(id.r), NilValue),
            LAMBDA error : FromError(id.out, isError, error))
  IN Let(read_unsigned_(r, W32), LAMBDA id : IF id.ok THEN FromId(id, type(id.r) # "nil") ELSE Malformed)

\* on_log gets a level and a line; a log of another shape is dropped.
dispatch_log_(args) ==
  LET a == as([t |-> "vector", of |-> [t |-> "value"]], args)
      level == as([t |-> "int", signed |-> TRUE, w |-> W32], a.out.v[1])
      line == as([t |-> "string"], a.out.v[2])
  IN IF a.ok /\ Len(a.out.v) >= 2 /\ level.ok /\ line.ok
     THEN [is |-> "log", v |-> ArrayValue(<< level.out, line.out >>)] ELSE Nothing

FromNotification(r) ==
  LET Of(name, args) ==
        IF ~args.ok THEN Throws ELSE IF name.out = LogName THEN dispatch_log_(args.out)
        ELSE [is |-> "notified", v |-> args.out]
  IN Let(read_str(r, HostSize),
         LAMBDA name : IF ~name.ok THEN Malformed ELSE Let(decode(name.r), LAMBDA args : Of(name, args)))

HostHandles ==
  /\ phase = "response"
  /\ \E head \in {Fields(Reader(payload), << anArray, anInt >>)} :
       Ends(CASE ~head.r.error /\ head.out = << 4, 1 >> -> FromResponse(head.r)
              [] ~head.r.error /\ head.out = << 3, 2 >> -> FromNotification(head.r)
              [] OTHER -> Malformed)
  /\ UNCHANGED << call, msgid, payload, invoked, result, reply, rawVars >>

Next ==
  \/ \E c \in Calls : (\E id \in MsgIds : send_request_(c, id)) \/ notify_values(c)
  \/ \E bytes \in Foreign : ForeignFrame(bytes, "request")
  \/ \E bytes \in ForeignToHost : ForeignFrame(bytes, "response")
  \/ \E e \in Events : Notify(e)
  \/ DeviceHandles \/ RawReads \/ RawReturns \/ HostHandles

Spec == Init /\ [][Next]_vars

(***************************************************************************)
(* Properties.                                                             *)
(***************************************************************************)
\* Whatever arrives, a raw handler is called with a reader inside the payload and
\* without an error, and until it returns nobody else moves that reader.
RawHandlersStartClean == RawSpec

\* What a handler's parameter of type T is given of a Value, if it can be.
RECURSIVE Wanted(_, _)
Wanted(T, value) ==
  LET types == IF T.t = "vector" THEN [i \in DOMAIN value.v |-> T.of] ELSE T.of
      each == [i \in DOMAIN value.v |-> Wanted(types[i], value.v[i])]
  IN CASE T.t = "cstr" -> as([t |-> "string"], value)
       [] T.t \in {"float", "double"} /\ value.is = "double" ->
            IF T.t = "double" /\ ~DoubleIsFloat THEN Converted(value)
            ELSE Converted(DoubleValue(Pattern32(RoundTowardZero(value.v.v))))
       [] T.t \in {"float", "double"} /\ value.is # "double" -> as_floating_(value)
       [] T.t \in {"vector", "tuple"} ->
            IF value.is = "array" /\ (T.t = "tuple" => Len(T.of) = Len(value.v)) /\ \A i \in DOMAIN value.v : each[i].ok
            THEN Converted(ArrayValue([i \in DOMAIN value.v |-> each[i].out])) ELSE TypeError
       [] OTHER -> as(T, value)

\* The scratch bytes of the const char* parameters: each its length and a NUL.
RECURSIVE ScratchNeeded(_, _)
ScratchNeeded(T, value) ==
  CASE T.t = "cstr" /\ value.is = "string" -> Len(value.v) + 1
    [] T.t \in {"vector", "tuple"} /\ value.is = "array" ->
         FoldLeft(LAMBDA sum, i : sum + ScratchNeeded(IF T.t = "vector" THEN T.of ELSE T.of[i], value.v[i]),
                  0, [i \in DOMAIN value.v |-> i])
    [] OTHER -> 0

FitsHandler(T) ==
  LET wanted == Wanted([t |-> "tuple", of |-> T.takes], ArrayValue(call.args))
  IN wanted.ok /\ ScratchNeeded([t |-> "tuple", of |-> T.takes], ArrayValue(call.args)) <= kStrScratchSize

Handled == call # NoCall /\ call.as.t # "none" /\ payload # << >> /\ phase \in {"response", "done"}

\* A typed handler runs exactly when the host's arguments are as many as its
\* parameters, of their types and in their ranges, and the strings fit the scratch
\* buffer; it then gets the values the host passed, converted as as<T>() would.
HandlerGetsTheArguments ==
  \A T \in Typed :
    Handled /\ call.name = T.name =>
      invoked = IF FitsHandler(T) THEN Wanted([t |-> "tuple", of |-> T.takes], ArrayValue(call.args)).out
                ELSE NotInvoked

\* A Value as it comes back from the wire: an integer that is not negative is unsigned.
RECURSIVE Received(_)
Received(value) ==
  CASE value.is = "int" /\ value.v >= 0 -> UIntValue(value.v)
    [] value.is = "float" -> DoubleValue(value.v)
    [] value.is = "array" -> ArrayValue([i \in DOMAIN value.v |-> Received(value.v[i])])
    [] OTHER -> value

\* What the host's caller is owed for the call.
Owed ==
  LET Remote(text) == [is |-> "RemoteError", v |-> StringValue(text)]
      size == IF result = NotInvoked /\ call.name \in Raw THEN 1 ELSE Len(pack(Writer(1000), result).out)
  IN CASE call.name \notin Raw \cup {T.name : T \in Typed} -> Remote(UnknownMethod)
       [] \E T \in Typed : T.name = call.name /\ ~FitsHandler(T) -> Remote(BadArgs)
       [] call.name \in Raw /\ reply.error.failed -> Remote(HandlerError)
       [] size > kResultScratch -> Remote(TooLarge)
       [] OTHER -> CallReturns(FALSE, Received(result))

\* A call ends with the handler's result converted to what the caller asked for, or
\* with the error that is due: a result within kResultScratch is never
\* refused, a larger one never cut short, and no reply makes the host throw.
AnswerIsTheResult ==
  Handled /\ msgid # NoReply /\ phase = "done" => outcome = Owed

\* What either side sends is exactly one complete object within its buffer, however
\* full that is; and what the host takes for an answer or a notification was complete.
WholeMessages ==
  /\ call # NoCall /\ payload # << >> => ObjectEnd(payload, 0) = Len(payload)
  /\ call # NoCall /\ phase \in {"request", "raw"} => Len(payload) <= MaxFrame
  /\ call # NoCall /\ phase = "response" => Len(payload) <= BufSize
  /\ Len(reply.w.out) <= kResultScratch
  /\ outcome.is \in {"returned", "RemoteError", "TypeError", "stray", "notified", "log"} => ObjectEnd(payload, 0) # -1

================================================================================
