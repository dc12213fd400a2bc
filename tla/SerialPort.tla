------------------------------ MODULE SerialPort ------------------------------
(***************************************************************************)
(* extras/host/include/serialport.hpp: the SerialPort class of the host,   *)
(* its shared layer and its POSIX layer, over a terminal of the operating  *)
(* system (external: `tty`).  One thread uses the objects, as the class    *)
(* asks; bytes arrive, leave and stop doing so between any two system      *)
(* calls of a method, the deadline of a call may pass at any time, and the *)
(* device may be unplugged.                                                *)
(*                                                                         *)
(* A system call that is retried (EINTR, EAGAIN) changes nothing and is a  *)
(* stuttering step.  The ports are exclusive, as they are by default, so   *)
(* that at most one object holds the terminal.  The variables below        *)
(* `calls` are history: what the caller has been given.                    *)
(***************************************************************************)
EXTENDS Integers, Sequences, FiniteSets

CONSTANTS
    Objects,        \* the SerialPort objects of the program
    First,          \* the one that is constructed; the others are moved into
    BufferSize,     \* _rx_buf.size()
    MaxLineLength,  \* Config::max_line_length
    LineRoom,       \* n_max of read_line(char *, size_t)
    QueueSize,      \* bytes the output queue of the terminal holds
    Rates,          \* baud rates of BaudRates[] that are asked for
    Frames,         \* frame formats (data bits, stop bits, parity) asked for
    Timeouts,       \* whether there is one in the configurations given
    DriverRates,    \* the rates this terminal can be set to
    DriverFrames,   \* the frame formats it can be set to
    Requests,       \* lengths of reads and writes
    MaxTraffic,     \* bound: bytes that arrive while a port is open, and are written
    MaxCalls        \* bound: methods called, the constructor apart

ASSUME PortAssumption ==
    /\ {BufferSize, MaxLineLength, LineRoom, QueueSize} \subseteq Nat \ {0}
    /\ Requests \subseteq Nat \ {0} /\ First \in Objects /\ Timeouts \subseteq BOOLEAN
    /\ MaxTraffic \in Nat /\ MaxCalls \in Nat

VARIABLES
    tty,       \* the terminal: [plugged, settings, exclusive, rx, tx]
    port,      \* the members of each object
    call,      \* the method that is running, and its local variables
    calls,     \* methods called so far
    arrived,   \* bytes the terminal has received and nobody has flushed
    marks,     \* for each byte taken from the port, who took it
    apart,     \* something but read_line() has happened since the last byte taken
    raw,       \* the bytes the caller got from read() and read_some()
    lines,     \* the lines the caller got, [text, cut]
    glue,      \* the beginning of the next one, [text, cut]
    wire,      \* the bytes the terminal has accepted for output
    reported   \* how many of them write() has told the caller of

received == <<arrived, marks, apart, raw, lines, glue>>
sent     == <<wire, reported>>
vars     == <<tty, port, call, calls, received, sent>>

CR == 13
LF == 10
Data(k) == 100 + k

Minimum(a, b) == IF a <= b THEN a ELSE b

(***************************************************************************)
(* The terminal.                                                           *)
(***************************************************************************)
Found == [rate |-> "found", frame |-> "found"]

\* tcsetattr(): it succeeds when it can apply some of the settings
tcsetattr(current, options) ==
    [rate  |-> IF options.rate \in DriverRates THEN options.rate ELSE current.rate,
     frame |-> IF options.frame \in DriverFrames THEN options.frame ELSE current.frame]

Unplug ==
    /\ tty.plugged
    /\ \E lost \in {0, Len(tty.rx)} :
          /\ tty' = [tty EXCEPT !.plugged = FALSE, !.tx = 0,
                                !.rx = SubSeq(@, 1, Len(@) - lost)]
          /\ arrived' = SubSeq(arrived, 1, Len(arrived) - lost)
    /\ UNCHANGED <<port, call, calls, marks, apart, raw, lines, glue, sent>>

Arrive ==
    /\ tty.plugged /\ Len(arrived) + Len(wire) < MaxTraffic
    /\ \E p \in Objects : port[p].open
    /\ \E byte \in {CR, LF, Data(Len(arrived) + 1)} :
          /\ tty' = [tty EXCEPT !.rx = Append(@, byte)]
          /\ arrived' = Append(arrived, byte)
    /\ UNCHANGED <<port, call, calls, marks, apart, raw, lines, glue, sent>>

Transmit ==
    /\ tty.plugged /\ tty.tx > 0
    /\ tty' = [tty EXCEPT !.tx = @ - 1]
    /\ UNCHANGED <<port, call, calls, received, sent>>

(***************************************************************************)
(* The members of an object.                                               *)
(***************************************************************************)
\* An object without a port: it refuses every call, and what its other members
\* still hold is not read again
NoConfig == [rate |-> "found", frame |-> "found", timed |-> FALSE]
Closed == [open |-> FALSE, restore |-> FALSE, original |-> Found, config |-> NoConfig,
           rx_buf |-> [i \in 0 .. BufferSize - 1 |-> 0], head |-> 0, tail |-> 0,
           pending_lf |-> FALSE, timed_out |-> FALSE, error |-> "none"]

Settings(config) == [rate |-> config.rate, frame |-> config.frame]
buffered(o) == o.tail - o.head
begin_operation(o) == [o EXCEPT !.timed_out = FALSE, !.error = "none"]
Emptied(o) == [o EXCEPT !.head = 0, !.tail = 0, !.pending_lf = FALSE]

\* fill_buffer() up to read_native(): room is made at the front, if it can be
Compacted(o) ==
    IF o.head = o.tail
    THEN [o EXCEPT !.head = 0, !.tail = 0]
    ELSE IF o.tail = BufferSize
    THEN [o EXCEPT !.head = 0, !.tail = buffered(o),
                   !.rx_buf = [i \in DOMAIN @ |-> IF i < buffered(o) THEN @[o.head + i] ELSE @[i]]]
    ELSE o

fill_buffer(o, bytes) ==
    [o EXCEPT !.tail = @ + Len(bytes),
              !.rx_buf = [i \in DOMAIN @ |-> IF i \in o.tail .. o.tail + Len(bytes) - 1
                                             THEN bytes[i - o.tail + 1] ELSE @[i]]]

Taken(o, n) == [i \in 1 .. n |-> o.rx_buf[o.head + i - 1]]
take_buffered(o, n) ==
    IF o.head + n = o.tail THEN [o EXCEPT !.head = 0, !.tail = 0]
                           ELSE [o EXCEPT !.head = @ + n]

(***************************************************************************)
(* Construction, close and move.                                           *)
(***************************************************************************)
NoCall == [op |-> "none"]
Idle   == call = NoCall
Starts == Idle /\ calls < MaxCalls /\ calls' = calls + 1

\* Mutant: the terminal is left exclusive
CloseNativeStaysExclusive(t, o) ==
    [t EXCEPT !.settings = IF o.restore /\ t.plugged THEN o.original ELSE @, !.rx = <<>>]

close_native(t, o) ==
    [t EXCEPT !.settings = IF o.restore /\ t.plugged THEN o.original ELSE @,
              !.exclusive = FALSE, !.rx = <<>>]

\* The bytes nobody took are gone with the buffers
Forget ==
    /\ arrived' = SubSeq(arrived, 1, Len(marks))
    /\ apart' = TRUE
    /\ UNCHANGED <<marks, raw, lines, glue>>

\* SerialPort(port, config): what was done before a step that fails is undone by close()
Construct(p) ==
    /\ Idle /\ ~port[p].open /\ tty.plugged /\ ~tty.exclusive
    /\ \E rate \in Rates, frame \in Frames, timed \in Timeouts,
          fails \in {"none", "TIOCEXCL", "tcgetattr"} :
          LET config == [rate |-> rate, frame |-> frame, timed |-> timed]
              asked  == Settings(config)
              opened == [tty EXCEPT !.exclusive = fails # "TIOCEXCL"]
              object == [Closed EXCEPT !.open = TRUE, !.config = config, !.original = tty.settings,
                                       !.restore = fails = "none"]
              applied == [opened EXCEPT !.settings = tcsetattr(@, asked)]
          IN  \/ /\ fails # "none"
                 /\ tty' = close_native(opened, object)
                 /\ port' = [port EXCEPT ![p] = Closed]
              \/ /\ fails = "none" /\ applied.settings # asked
                 /\ tty' = close_native(applied, object)
                 /\ port' = [port EXCEPT ![p] = Closed]
              \/ /\ fails = "none" /\ applied.settings = asked
                 /\ tty' = [applied EXCEPT !.rx = <<>>, !.tx = 0]
                 /\ port' = [port EXCEPT ![p] = object]
    /\ Forget
    /\ UNCHANGED <<call, calls, sent>>

\* SerialPort(SerialPort &&) and operator=(SerialPort &&) into an object without
\* a port; the destructor of the object moved from has nothing left to close
Move(p, q) ==
    /\ Starts /\ port[p].open /\ ~port[q].open
    /\ port' = [port EXCEPT ![q] = port[p], ![p] = Closed]
    /\ UNCHANGED <<tty, call, received, sent>>

\* drain(), and the methods that begin with it: set_baud_rate() and close()
StartDrain(p, op, rate) ==
    /\ Starts /\ port[p].open
    /\ call' = [op |-> op, by |-> p, rate |-> rate]
    /\ UNCHANGED <<tty, port, received, sent>>

\* tcdrain() returns, or fails because the device is gone
DrainEnds(op) == call.op = op /\ (tty.tx = 0 \/ ~tty.plugged) /\ call' = NoCall

Drained ==
    /\ DrainEnds("drain")
    /\ UNCHANGED <<tty, port, calls, received, sent>>

CloseEnds ==
    /\ DrainEnds("close")
    /\ tty' = close_native(tty, port[call.by])
    /\ port' = [port EXCEPT ![call.by] = Closed]
    /\ Forget
    /\ UNCHANGED <<calls, sent>>

\* set_baud_rate(): a rate that the terminal does not take is undone
BaudRateSet ==
    /\ DrainEnds("set_baud_rate") /\ tty.plugged
    /\ LET o       == port[call.by]
           updated == [o.config EXCEPT !.rate = call.rate]
           applied == tcsetattr(tty.settings, Settings(updated))
       IN  \/ /\ applied = Settings(updated)
              /\ tty' = [tty EXCEPT !.settings = applied]
              /\ port' = [port EXCEPT ![call.by].config = updated]
           \/ /\ applied # Settings(updated)
              /\ tty' = [tty EXCEPT !.settings = tcsetattr(applied, Settings(o.config))]
              /\ port' = port
    /\ UNCHANGED <<calls, received, sent>>

\* ... drain() or apply_config() threw
BaudRateThrows ==
    /\ DrainEnds("set_baud_rate") /\ ~tty.plugged
    /\ UNCHANGED <<tty, port, calls, received, sent>>

SetTimeout(p) ==
    /\ Starts /\ port[p].open
    /\ port' = [port EXCEPT ![p].config.timed = ~@]
    /\ UNCHANGED <<tty, call, received, sent>>

\* flush_input() and flush(): the buffer is emptied before the terminal is asked
FlushInput(p, output) ==
    /\ Starts /\ port[p].open
    /\ port' = [port EXCEPT ![p] = Emptied(@)]
    /\ tty' = [tty EXCEPT !.rx = IF tty.plugged THEN <<>> ELSE @,
                          !.tx = IF output THEN 0 ELSE @]
    /\ arrived' = SubSeq(arrived, 1, Len(marks)) \o tty'.rx
    /\ apart' = TRUE
    /\ UNCHANGED <<call, marks, raw, lines, glue, sent>>

FlushOutput(p) ==
    /\ Starts /\ port[p].open
    /\ tty' = [tty EXCEPT !.tx = 0]
    /\ UNCHANGED <<port, call, received, sent>>

(***************************************************************************)
(* Calls with a deadline: read(), read_some(), read_line() and write().    *)
(***************************************************************************)
Deadlined == {"read", "read_some", "read_line", "write"}
InCall(op) == call.op = op
Self == port[call.by]

\* The deadline of the running call passes; without a timeout it has none
Expire ==
    /\ call.op \in Deadlined /\ Self.config.timed /\ ~call.due
    /\ call' = [call EXCEPT !.due = TRUE]
    /\ UNCHANGED <<tty, port, calls, received, sent>>

\* Mutant: the LF of a pair is still awaited after a read that is not by lines
StartReadAwaitingLf(p, op, n) ==
    /\ Starts /\ port[p].open
    /\ port' = [port EXCEPT ![p] = begin_operation(@)]
    /\ call' = [op |-> op, by |-> p, n |-> n, got |-> <<>>, due |-> FALSE]
    /\ apart' = TRUE
    /\ UNCHANGED <<tty, arrived, marks, raw, lines, glue, sent>>

StartRead(p, op, n) ==
    /\ Starts /\ port[p].open
    /\ port' = [port EXCEPT ![p] = [begin_operation(@) EXCEPT !.pending_lf = FALSE]]
    /\ call' = [op |-> op, by |-> p, n |-> n, got |-> <<>>, due |-> FALSE]
    /\ apart' = TRUE
    /\ UNCHANGED <<tty, arrived, marks, raw, lines, glue, sent>>

StartReadLine(p, form) ==
    /\ Starts /\ port[p].open
    /\ port' = [port EXCEPT ![p] = begin_operation(@)]
    /\ call' = [op |-> "read_line", by |-> p, form |-> form, got |-> <<>>, due |-> FALSE]
    /\ UNCHANGED <<tty, received, sent>>

StartWrite(p, n) ==
    /\ Starts /\ port[p].open /\ Len(arrived) + Len(wire) + n <= MaxTraffic
    /\ port' = [port EXCEPT ![p] = begin_operation(@)]
    /\ call' = [op |-> "write", by |-> p, n |-> n, done |-> 0, due |-> FALSE]
    /\ UNCHANGED <<tty, received, sent>>

\* The object that the running call leaves behind when it stops short
Late == [Self EXCEPT !.timed_out = TRUE]
Cut(o, error) == [o EXCEPT !.error = error]
Leaves(o) == port' = [port EXCEPT ![call.by] = o]

\* read_native(): poll() and read() until there are bytes, an error or no time left
Empty      == buffered(Self) = 0
\* Mutant: the deadline counts from the first byte only
WaitsForTheFirstByte == tty.rx = <<>> /\ tty.plugged /\ call.due /\ call.got # <<>>

Waits      == tty.rx = <<>> /\ tty.plugged /\ call.due
Gone       == tty.rx = <<>> /\ ~tty.plugged
Reading    == call.op \in {"read", "read_some", "read_line"} /\ Empty

Fill ==
    /\ Reading /\ tty.rx # <<>>
    /\ LET o == Compacted(Self)
           n == Minimum(BufferSize - o.tail, Len(tty.rx))
       IN  /\ Leaves(fill_buffer(o, SubSeq(tty.rx, 1, n)))
           /\ tty' = [tty EXCEPT !.rx = SubSeq(@, n + 1, Len(@))]
    /\ UNCHANGED <<call, calls, received, sent>>

\* What the caller of read() and read_some() has when the method returns n
ReturnsRaw(n, bytes) ==
    /\ call' = NoCall
    /\ raw' = IF n > 0 THEN raw \o bytes ELSE raw

\* A step of read() or read_some() that takes n bytes of the buffer
Take(n) ==
    /\ Leaves(take_buffered(Self, n))
    /\ marks' = marks \o [i \in 1 .. n |-> "raw"]
    /\ apart' = TRUE
    /\ UNCHANGED <<tty, calls, arrived, lines, glue, sent>>

ReadTakes ==
    /\ InCall("read") /\ ~Empty
    /\ \E n \in {Minimum(buffered(Self), call.n - Len(call.got))} :
       \E got \in {call.got \o Taken(Self, n)} :
          /\ Take(n)
          /\ IF Len(got) = call.n
             THEN ReturnsRaw(Len(got), got)
             ELSE call' = [call EXCEPT !.got = got] /\ raw' = raw

ReadSomeTakes ==
    /\ InCall("read_some") /\ ~Empty
    /\ \E n \in {Minimum(buffered(Self), call.n)} :
          Take(n) /\ ReturnsRaw(n, Taken(Self, n))

ReadTimesOut ==
    /\ call.op \in {"read", "read_some"} /\ Empty /\ Waits
    /\ Leaves(Late)
    /\ ReturnsRaw(Len(call.got), call.got)
    /\ UNCHANGED <<tty, calls, arrived, marks, apart, lines, glue, sent>>

\* Mutant: what was moved before the error is not told
OrErrorAlways(n) == -1

\* What was moved is returned, if anything: the error is then in last_error() only
OrError(n) == IF n > 0 THEN n ELSE -1

ReadFails ==
    /\ call.op \in {"read", "read_some"} /\ Empty /\ Gone
    /\ Leaves(Cut(Self, "native"))
    /\ ReturnsRaw(OrError(Len(call.got)), call.got)
    /\ UNCHANGED <<tty, calls, arrived, marks, apart, lines, glue, sent>>

(***************************************************************************)
(* read_line(std::string &), one step per byte, and what its two other     *)
(* forms make of the line.                                                 *)
(***************************************************************************)
Forms == {"string", "chars", "optional"}

\* read_line(char *, n_max): the line is cut, which is an error of its own
ClippedLine(text, o) ==
    IF call.form = "chars" /\ Len(text) > LineRoom - 1
    THEN [text |-> SubSeq(text, 1, LineRoom - 1), by |-> Cut(o, "message_size")]
    ELSE [text |-> text, by |-> o]

\* The caller joins what it is given to what it has.  It takes a line for
\* complete unless the port says otherwise, and does not trust the text of one
\* that came with an error: last_error() has room for one, so that an I/O error
\* hides that the line was too long.
GetsLine(text, o) ==
    LET whole == [text |-> glue.text \o text, cut |-> glue.cut \/ o.error # "none"]
    IN  IF o.timed_out \/ o.error = "native"
        THEN /\ glue' = IF call.form = "optional" /\ o.timed_out
                        THEN [glue EXCEPT !.cut = TRUE] ELSE whole
             /\ lines' = lines
        ELSE /\ lines' = Append(lines, whole)
             /\ glue' = [text |-> <<>>, cut |-> FALSE]

ReturnsLine(text, o) ==
    \E clipped \in {ClippedLine(text, o)} :
       /\ GetsLine(clipped.text, clipped.by)
       /\ Leaves(clipped.by)
       /\ call' = NoCall

LineByte == Self.rx_buf[Self.head]
Consumed == [Self EXCEPT !.head = @ + 1, !.pending_lf = FALSE]

\* A step of read_line() that takes a byte of the buffer
LineStep ==
    /\ InCall("read_line") /\ ~Empty
    /\ marks' = Append(marks, IF apart THEN "first" ELSE "line")
    /\ apart' = FALSE
    /\ UNCHANGED <<tty, calls, arrived, raw, sent>>

Swallows == Self.pending_lf /\ LineByte = LF

SwallowLf ==
    /\ LineStep /\ Swallows
    /\ Leaves(Consumed)
    /\ UNCHANGED <<call, lines, glue>>

LineEnds ==
    /\ LineStep /\ ~Swallows /\ LineByte \in {CR, LF}
    /\ ReturnsLine(call.got, [Consumed EXCEPT !.pending_lf = LineByte = CR])

\* Mutant: off by one
LineGrowsPast ==
    /\ LineStep /\ LineByte \notin {CR, LF} /\ Len(call.got) <= MaxLineLength
    /\ Leaves(Consumed)
    /\ call' = [call EXCEPT !.got = Append(@, LineByte)]
    /\ UNCHANGED <<lines, glue>>

LineGrows ==
    /\ LineStep /\ LineByte \notin {CR, LF} /\ Len(call.got) < MaxLineLength
    /\ Leaves(Consumed)
    /\ call' = [call EXCEPT !.got = Append(@, LineByte)]
    /\ UNCHANGED <<lines, glue>>

LineOverruns ==
    /\ LineStep /\ LineByte \notin {CR, LF} /\ Len(call.got) >= MaxLineLength
    /\ Leaves(Cut(Consumed, "message_size"))
    /\ UNCHANGED <<call, lines, glue>>

ReadLineTimesOut ==
    /\ InCall("read_line") /\ Empty /\ Waits
    /\ ReturnsLine(call.got, Late)
    /\ UNCHANGED <<tty, calls, arrived, marks, apart, raw, sent>>

ReadLineFails ==
    /\ InCall("read_line") /\ Empty /\ Gone
    /\ ReturnsLine(call.got, Cut(Self, "native"))
    /\ UNCHANGED <<tty, calls, arrived, marks, apart, raw, sent>>

(***************************************************************************)
(* write() and write_native().  The bytes the caller has to send are       *)
(* numbered, and it goes on from where write() says it stopped.            *)
(***************************************************************************)
Room == QueueSize - tty.tx

ReturnsWritten(n) ==
    /\ call' = NoCall
    /\ reported' = IF n > 0 THEN reported + n ELSE reported

Accept ==
    /\ InCall("write") /\ tty.plugged
    /\ \E k \in 1 .. Minimum(Room, call.n - call.done) :
          /\ tty' = [tty EXCEPT !.tx = @ + k]
          /\ wire' = wire \o [i \in 1 .. k |-> reported + call.done + i]
          /\ IF call.done + k = call.n
             THEN ReturnsWritten(call.n)
             ELSE call' = [call EXCEPT !.done = @ + k] /\ reported' = reported
    /\ UNCHANGED <<port, calls, received>>

WriteTimesOut ==
    /\ InCall("write") /\ tty.plugged /\ Room = 0 /\ call.due
    /\ Leaves(Late)
    /\ ReturnsWritten(call.done)
    /\ UNCHANGED <<tty, calls, received, wire>>

WriteFails ==
    /\ InCall("write") /\ ~tty.plugged
    /\ Leaves(Cut(Self, "native"))
    /\ ReturnsWritten(OrError(call.done))
    /\ UNCHANGED <<tty, calls, received, wire>>

-------------------------------------------------------------------------------
Init ==
    /\ tty = [plugged |-> TRUE, settings |-> Found, exclusive |-> FALSE, rx |-> <<>>, tx |-> 0]
    /\ port = [p \in Objects |-> Closed]
    /\ call = NoCall /\ calls = 0
    /\ arrived = <<>> /\ marks = <<>> /\ apart = TRUE /\ raw = <<>>
    /\ lines = <<>> /\ glue = [text |-> <<>>, cut |-> FALSE]
    /\ wire = <<>> /\ reported = 0

\* The caller, which calls what it likes
Caller ==
    \/ Construct(First)
    \/ \E p \in Objects :
       \/ SetTimeout(p) \/ FlushOutput(p)
       \/ StartDrain(p, "drain", "none") \/ StartDrain(p, "close", "none")
       \/ \E q \in Objects : Move(p, q)
       \/ \E rate \in Rates : StartDrain(p, "set_baud_rate", rate)
       \/ \E output \in BOOLEAN : FlushInput(p, output)
       \/ \E n \in Requests : \/ StartRead(p, "read", n)
                              \/ StartRead(p, "read_some", n)
                              \/ StartWrite(p, n)
       \/ \E form \in Forms : StartReadLine(p, form)

\* The steps of the running method
Running ==
    \/ Drained \/ CloseEnds \/ BaudRateSet \/ BaudRateThrows
    \/ Fill \/ ReadTakes \/ ReadSomeTakes \/ ReadTimesOut \/ ReadFails
    \/ SwallowLf \/ LineEnds \/ LineGrows \/ LineOverruns \/ ReadLineTimesOut \/ ReadLineFails
    \/ Accept \/ WriteTimesOut \/ WriteFails

Line == Arrive \/ Transmit \/ Unplug

Next == Caller \/ Running \/ Expire \/ Line
Spec == Init /\ [][Next]_vars

\* The thread runs and time passes; the line owes nothing
FairSpec == Spec /\ WF_vars(Running) /\ WF_vars(Expire)

(***************************************************************************)
(* Properties.                                                             *)
(***************************************************************************)
\* The members and the terminal have their types; the indices stay in the
\* buffer, and no line grows past its limit.
TypeOK ==
    /\ tty.tx \in 0 .. QueueSize
    /\ \A p \in Objects :
          /\ port[p].head \in 0 .. port[p].tail /\ port[p].tail \in 0 .. BufferSize
          /\ port[p].error \in {"none", "native", "message_size"}
          /\ port[p].open => port[p].restore
          /\ {port[p].timed_out, port[p].pending_lf, port[p].config.timed} \subseteq BOOLEAN
    /\ call.op = "read_line" => Len(call.got) <= MaxLineLength
    /\ call.op = "read" => Len(call.got) < call.n
    /\ call.op = "write" => call.done < call.n
    /\ Len(marks) <= Len(arrived) /\ calls <= MaxCalls

\* s has the bytes of a at these positions, in order and no others
BytesAt(s, a, positions) ==
    /\ Len(s) = Cardinality(positions)
    /\ \A i \in positions : s[Cardinality({j \in positions : j <= i})] = a[i]

\* Reference: the CR LF pairs and the ends of line of the bytes that
\* read_line() took, wherever its calls began and ended
EndsPair(i) == /\ i > 1 /\ arrived[i] = LF /\ arrived[i - 1] = CR
               /\ marks[i] = "line" /\ marks[i - 1] # "raw"
EndsLine(i) == marks[i] # "raw" /\ arrived[i] \in {CR, LF} /\ ~EndsPair(i)
InText(i)   == marks[i] # "raw" /\ arrived[i] \notin {CR, LF}

\* The lines are numbered: the one that the i-th byte is in, and the text of the k-th
LineOf(i) == 1 + Cardinality({j \in 1 .. i - 1 : EndsLine(j)})
TextOf(k) == {i \in 1 .. Len(marks) : InText(i) /\ LineOf(i) = k}
RawBytes  == {i \in 1 .. Len(marks) : marks[i] = "raw"}

\* Every byte that arrives and is not flushed waits for its turn in the buffer
\* of the port or, behind those, in the terminal, whatever the methods that take
\* bytes, the refills of the buffer, the timeouts and the moves.
BytesWaitInOrder ==
    \A p \in Objects : port[p].open =>
       LET n == buffered(port[p])
       IN  /\ Len(marks) + n + Len(tty.rx) = Len(arrived)
           /\ \A i \in 1 .. n : port[p].rx_buf[port[p].head + i - 1] = arrived[Len(marks) + i]
           /\ \A i \in DOMAIN tty.rx : tty.rx[i] = arrived[Len(marks) + n + i]

\* Every byte that arrives is read once and in order, and waits for it in
\* order.  The lines the caller joins from what read_line() returns are those of the
\* stream, CR LF counting once, the last of them unfinished, unless the port
\* has said that one was cut.  (When the device goes in the middle of a line
\* that is too long for read_line(char *), the error it reports is the length,
\* and the caller counts a line more.)
ReadsMatchReference ==
    LET joined == Append(lines, glue)
        begun  == LineOf(Len(marks) + 1)
    IN  Idle =>
          /\ BytesWaitInOrder
          /\ BytesAt(raw, arrived, RawBytes)
          /\ Len(joined) - begun \in IF tty.plugged THEN {0} ELSE {0, 1}
          /\ \A k \in 1 .. begun : joined[k].cut \/ BytesAt(joined[k].text, arrived, TextOf(k))

\* A caller that goes on from the count write() returns, after a timeout or
\* an error too, sends each byte once and in order.
WritesAreCounted ==
    /\ \A i \in DOMAIN wire : wire[i] = i
    /\ Idle => reported = Len(wire)

\* While an object has the port the terminal is exclusive and set as config()
\* says, after a rate that was refused and after a move too; when nobody has
\* it, a constructor that failed included, it is as it was found.
TerminalIsOurs ==
    /\ \A p, q \in Objects : port[p].open /\ port[q].open => p = q
    /\ tty.plugged =>
          IF \E p \in Objects : port[p].open
          THEN /\ tty.exclusive
               /\ \A p \in Objects : port[p].open => tty.settings = Settings(port[p].config)
          ELSE ~tty.exclusive /\ tty.settings = Found

\* A call with a timeout comes to its end once the line has fallen silent,
\* with the output queue stuck or not.
Quiet == <>[][Len(tty'.rx) <= Len(tty.rx)]_vars
TimedCall == call.op \in Deadlined /\ Self.config.timed
TimedCallsEnd == Quiet => (TimedCall ~> Idle)
===============================================================================
