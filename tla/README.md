# ArduinoRpc in TLA+

A verification project for ArduinoRpc: MessagePack-RPC and plain text over one
serial line between a host (C++17) and an Arduino sketch.  It holds TLA+ modules
of the framing layer, the MessagePack codec, the device server, the host client,
the serial port and the REPL's I/O thread, the TLC configurations that check them on small instances, and proofs
for the TLA+ proof system of what must hold on every instance.

## 1. The system

    sketch --- Server (server.h) --- Demux --- COBS/CRC ---+
                 |  Log, notify      (framing.h)            |  serial line: loses
                 |  handler table                           |  and alters bytes
    REPL ---- IoWorker ---- RPC<Port> ---- Demux ---- COBS/CRC --- SerialPort
    (repl.hpp) (io_worker.hpp) (serial_rpc.hpp)            (serialport.hpp)

| Component | State | Operations | What is hard |
|---|---|---|---|
| Framing codec, `framing.h` 24-295 | encoder cursors and open group; decoder cursors over one shared buffer | `feed`, `finish`, `cobs_decode`, `frame_encode`, `decode_and_validate_frame` | groups of exactly 254 bytes, decoding in place, buffers one byte too small |
| `Demux`, `framing.h` 304-622 | text/frame state, collector, pending line, CR flag, counters | `feed`, `reset` | recovery after a lost delimiter, overflow of either buffer, CR LF around frames |
| Device `Server`, `server.h` | attached, timeout, time of last frame, handler table, counters | `begin`, `poll`, `bind`, `notify`, built-in methods | clock that wraps, handlers that block, resets at any time |
| Device `Log`, `server.h` 1192-1260 | line buffer, level | `write` | framed or plain depending on attached; buffer full |
| MessagePack, `msgpack_lite.h` | cursors, sticky error | `Reader`, `Writer`, `skip` | nested lengths, 16-bit `size_t` |
| Host `RPC<Port>`, `serial_rpc.hpp` | next msgid, pending msgid and response, attached | `call`, `notify`, `send_text`, `poll`, `connect`, `disconnect`, `list` | late answers, retried probes, timeouts, device resets, writes that fall short |
| `IoWorker`, `io_worker.hpp` | port, RPC object, three atomics, command queue, reopen time | thread loop, ten commands, `stop` | two threads, port that fails anywhere, a good port that takes a write too slowly, reopening |
| `Repl`, `repl.hpp` | prompt, filters, history | line editing, `submit` | prompt made by one thread, refreshed by the other |
| `Value`, `serial_rpc.hpp` 60-560 | none (a tree) | `to_value`, `encode`, `decode`, `as<T>()` | ranges, nesting depth |
| `SerialPort`, `serialport.hpp` | handle, settings found, configuration, read buffer, CR flag, timeout and error flags | constructor, moves, `close`, `set_baud_rate`, flushes, `drain`, `read`, `read_some`, `read_line`, `write` | a deadline or an unplugged device between any two system calls, partial lines and writes, settings half applied |

Interaction.  The host's `RPC` writes whole frames and pumps input only inside
its own blocking functions; every message travels through the peer's `Demux`.
The device does everything inside `loop()`: `poll()` drains the input, calls
handlers and callbacks, which may print, log and notify, and sends the reply
when they return.  The REPL thread and the I/O thread share the command queue
(a mutex) and three atomics; output comes back through callbacks run by the I/O
thread, which also refresh the prompt.

`PROJECT.json` lists every component with its status and every hazard at the
line where it bites, with the properties aimed at it.

## 2. Modules

| Module | Models | Remarks |
|---|---|---|
| `CobsCodec` | `CobsStreamEncoder` and `cobs_decode`, one loop turn at a time | operators only; the largest byte is a constant, so that a group of the maximal length is short |
| `Framing` | crc16, `cobs_encode`, `frame_encode`, `decode_and_validate_frame`, on `CobsCodec` | operators only; uses `Bitwise` |
| `Cobs` | a sender that feeds a message, a receiver that decodes ours or any other block, byte by byte | where a `feed()` ends is not visible in the encoder |
| `CobsReference` | what an encoded block and a decoding should be | independent encoder and decoder by recursion; TLC only |
| `Demux` | `Demux::feed` and `reset`; one operator per branch | buffers, byte set and `Validate` are constants |
| `DemuxTrace` | `Demux` with the stream and the events so far | for properties about histories |
| `FrameDemux` | `Demux<FrameMax, 0>`, the specialisation that drops text | `DemuxTrace` implements it: the code writes its frame handling twice |
| `DemuxReference` | what the class comment of `Demux` says a whole stream means | independent of the byte machine; recursive functions of positions |
| `DemuxLink` | `Demux` behind a line that loses and alters bytes | external writer, perfect checksum |
| `Link` | the line as two queues of whole messages | interface of the two ends; external |
| `Server` | the device: `poll`, dispatch, built-ins, callbacks, timeout, reset | `mode` tells loop, poll, handler apart |
| `ServerTimeout` | `Server` against a host that writes anything | the attach timeout and the clock |
| `HostRpc` | the client: `call_values`, `try_request_`, `connect`, `pump_bytes_` | `activity` is the blocking function being run |
| `RpcCall` | abstract specification: what `call()` promises | no frames, no msgids |
| `RpcSession` | `Server` and `HostRpc` over `Link` | implements `RpcCall` |
| `IoWorker` | the REPL's I/O thread, its commands and its port, and the REPL thread as far as the prompt and `submit` go | `pc` is the place in the I/O thread, `repl` that in the other |
| `ListPaging` | `RPC::list()` against the device's handler table | sizes stand for names and signatures |
| `Msgpack` | `Writer` and `Reader` of `msgpack_lite.h`, each read and `skip()` step by step | operators; the layout of the format bytes is the code's, the spans and widths are constants |
| `MsgpackReference` | what MessagePack says of a byte string: the object at a position and its end | independent of `Reader`; the recursion over nested objects is a recursive function of position and number of objects |
| `RawHandler` | a handler bound with `bind_raw` that reads its parameters in any order and with any types | the `Reader` as a protocol of calls, for any bytes; `TypedCall` implements it |
| `Value` | the host's `Value`: packing, decoding with its depth limit, `as<T>()`; what `to_value` makes of an argument | recursive, TLC only |
| `TypedCall` | one exchange, byte by byte: `send_request_`, `dispatch_` with `Args` and `ArgDecoder`, the result spliced into the response, `handle_frame_` | frames arrive whole; calls do not overlap |
| `SerialPort` | the `SerialPort` class over its POSIX layer and a terminal | one step per system call or byte consumed |
| `MC*` | values of the constants for TLC | |
| `DemuxProofs`, `DemuxLinkProofs`, `CobsProofs`, `RpcSessionProofs`, `MsgpackProofs`, `IoWorkerProofs`, `ListPagingProofs`, `SerialPortProofs` | theorems about the module without `Proofs` in its name | `DemuxProofs`: `Demux`, `DemuxTrace` and `DemuxReference`; `RpcSessionProofs`: `RpcSession` and `ServerTimeout`; `MsgpackProofs`: `RawHandler` with `Msgpack` |

How state and actions correspond to the code:

* `Demux`: `state`, `frame_buf`, `line`, `pending_cr`, `errors` are `_state`,
  `_frame_buf`/`_frame_len`, `_line_buf`/`_line_len`/`_line_truncated`,
  `_pending_cr` and the three counters; `event` is the result of `feed` with
  what `data()`/`line()` show.  `FeedText` and `FeedFrame` are `feed_text_` and
  `feed_frame_`, one disjunct per branch.  `Validate(block)` is
  `decode_and_validate_frame`: in the `demux` run it is `Framing`'s, in
  `DemuxLink` "exactly one of the blocks sent".
* `Server`: an action of `ReceiveCall` takes one message off the input, does
  what `handle_frame_` and `dispatch_` do up to the callback, and leaves the
  thread in mode `handler`, where the sketch may log and notify and time may
  pass; `HandlerReturns` sends the reply.  `PollEnds` is the end of the loop of
  `poll()` with `check_attach_timeout_`.  `now_ms` is the clock modulo its span.
  A request carries a number `call` that stands for its arguments, and the
  answer carries the same number: that is how a property can say whose answer a
  value is.  The code never looks at it.
* `HostRpc`: `Issue` is `next_msgid_`, `send_request_` and the reset of the
  pending response; `Read` is one `read_some`, `Handle...` the loop over what
  was read (a response that came in the same read as later messages is taken
  only after all of them, as in the code); `CallReturns`, `ProbeReturns`,
  `AttachReturns`, `TimesOut`, `PortFails` are the ends of a wait and run the
  scope guard.  `expired` holds the deadlines that have passed.  A write may
  fall short (`WriteFrameShort`, `WriteTextShort`): `write_frame_` throws, and
  what was written is nothing, or a part that the device will reject, or all of
  the frame but its closing delimiter.  The last is kept in `unfinished`: the
  delimiter that begins the next frame closes it, and text spoils it.  Every
  function that writes has a form in which it throws (`CallNotSent`,
  `ProbeNotSent`, `AttachNotSent`, `NotifyNotSent`, `TextNotSent`,
  `DisconnectFails`).  `disconnect()` sends first and clears `_attached` only if
  `notify()` did not throw.
* `IoWorker`: each command is one step up to the next blocking exchange;
  `attach_` takes four steps (`flush_input`, `connect` with the store of
  `_attached`, the line that announces it, `refresh_methods_`) between which the
  port may fail and the REPL thread may act.  The REPL thread reads the flag
  (`ReadFlag`), shows the prompt made of it (`Show`), and submits a command,
  handles the line itself (`Local`) or stops.  A port is `good` until it is
  unplugged, then `broken` until it is closed; a write on a good port may still
  fall short (its timeout is 50 ms), which takes the same path into
  `handle_io_error_`.  `connect()` may end attached, unheard (`AttachUnheard`:
  it threw, but the board has run `rpc.attach` or will), with an `IoError`, or
  with a `RemoteError` or `ProtocolError`, which `attach_` does not catch
  (`AttachRefused`).  `LastWord` is what a
  `disconnect()` on the way out achieves: the board hears it, or the port is
  broken, or the write falls short.  `prompt` is what the REPL shows since the
  last `[sys]` line or `input()`; `missed` remembers that "attached" was announced
  between the making of a prompt and its showing, which overwrites the refresh.
  The look at the queue that finds it empty and
  the poll or open that follows are one step, and so are the line that announces
  a loss and the clearing of the flags after it.
* `Cobs`: `Feed` is one turn of the loop of `feed()` with the flag
  `more_remaining` that `put_one_` gets (the caller says on which call the
  message ends), `FeedNothing` the empty message, `Finish` is `finish()`,
  `Decode` one turn of one of the two loops of `cobs_decode` over one buffer.
* `ListPaging`: `Serve` is `pack_rpc_list_result_`; `Ask`, `CollectEntry` and
  `EndPage` are the parts of the loop of `collect_rpc_list_pages` (a call, the
  loop over the page, the test for having learnt nothing), `Bind` a handler
  bound while the list is read, `Flash` another program on the board.

* `TypedCall`: `payload` is the frame on its way; `Send` packs a request or a
  notification as `send_request_` does and gives up when the writer overflows;
  the device decodes the header, looks the name up and either runs `ArgDecoder`
  over the parameters (`invoked` is what the handler got) or hands the reader to
  `RawHandler`; `send_response_` splices the result in or falls back to
  "response too large".  A format's number of values is a constant, so that the
  edges of all formats lie among a few hundred values; a `float` or `double` is
  the number its bit pattern stands for.
* `SerialPort`: `port[p]` holds the members of an object, `call` the method that
  runs and its locals.  `StartRead`, `StartReadLine`, `StartWrite` are the parts
  before the first wait; `Fill` is a `fill_buffer` that got bytes, `...TimesOut`
  and `...Fails` its other two results; `LineStep` is a turn of the loop of
  `read_line`.  `due` says that the deadline has passed.  `tty` is the terminal
  and its driver, external: `tcsetattr` applies what the driver can do, as POSIX
  allows, and `apply_config` reads it back.  EINTR and EAGAIN are stuttering.
  Since every caller of `fill_buffer` has emptied the buffer, its compaction and
  its `no_buffer_space` exit are never taken, which the model shows.

## 3. Runs

| Run | Bounds | What it shows |
|---|---|---|
| `cobs` | 2-bit bytes (a group holds 2 bytes), messages and blocks up to 5, every capacity | a message crosses two full groups; each of the encoder's and decoder's exits is taken; a full group at the very end is among the messages |
| `demux` | 4 byte values, streams up to 8, collector 4, line 3 | both buffers overflow, and a valid frame fits with text around it |
| `demux_link` | 4 frames, 2 text bytes, 1 line end, 2 faults | two faults, which may hit different frames, and two frames after them |
| `session` | 3 calls, reads of 2 messages, 4 msgids, 1 write that falls short; notifications and text go out on an empty line only, and the sketch's own are left to `server_timeout` | a call that timed out, a probe and an attach; late answers to each; any of the writes completed by a later one; a board that resets and prints for ever; every wait ends; the refinement of `RpcCall` with its liveness (642 thousand states) |
| `server_timeout` | clock of 4 values, 7 ticks | the clock wraps once, before an attach, between it and its timeout, or while a handler runs; timeouts are shorter than a turn |
| `io_worker` | 2 commands, 2 faults: the port is unplugged, a call's write falls short, an attach is refused; `rpc.detach` may fall short and `rpc.attach` go unanswered at any time (531 thousand states) | a command interrupted by a failure and another command after recovery; the REPL thread between any two steps of an attach |
| `codec` | formats of 2 to 5 values, fields of 1 to 4 bytes, buffers of 20 bytes, scratch of 6, depth 3; 6 signatures, 1382 calls, 748 foreign payloads to the device and 709 to the host | every format of both directions, the values at and next to the edges of each, strings and results one byte too long for each buffer, truncations at every byte; a raw handler in any order of reads, `skip()` over nested objects |
| `serial_port` | 2 objects, buffer 2, lines of 2, output queue 1, 3 calls beside the constructor, 3 bytes in or out, two rates and frame formats of which the driver has one | a CR LF split by any other call, a refill within a line, a line one byte too long in each of its forms, a write in two pieces, a rate that is half applied, a move or an unplugged device between any two steps |
| `list_paging` | 3 names, sizes 1, 2, 5 against a page of 2 bytes of entries, 2 handlers, 3 pages | pages of one and two entries, an entry that fits no page, one binding between pages |
| `demux_lone_cr`, `session_rebuild`, `io_worker_unplug` | as above; one fault in `io_worker_unplug` | disagreements, section 6 |

Every property of a passing run has a mutant in `PROJECT.json`: a definition
replaced by one with a plausible mistake (they stand next to the definitions,
marked "Mutant"), under which TLC finds the property violated.

Deadlock is checked where a system always has something to do (`demux`,
`server_timeout`).  It is off where the bounds or the program end: a message
was decoded (`cobs`), the writers are through (`demux_link`), the calls are
used up (`session*`, `codec`, `serial_port`), the thread has exited
(`io_worker*`), the list was returned (`list_paging`).

Symmetry is not used: the longest run takes about two and a half minutes
without it.  The safety properties of `serial_port` were also checked with five calls
(11 million states).

### Fairness

* `HostStep` (weak): the thread in a blocking function goes on; it sleeps in
  `read_some` for at most 100 ms.  `Expire` (weak): its clock moves.  The device
  and the line get no fairness: a board may be dead for good.  What the program
  decides to do (calls, connects) gets none either.
* `WorkerStep` and `ReopenIntervalPasses` (weak): the I/O thread runs in a loop
  that never waits for longer than a timeout.  Users and boards get none.
* `Host` (weak) and the answer or failure of a pending page (weak): a call
  ends, which is `EveryWaitEnds` of `RpcSession`.
* `Running` and `Expire` (weak) of `SerialPort`: the thread runs and its clock
  moves.  The line and the output queue get none.  `TimedCallsEnd` presumes that
  bytes stop arriving at some time: `read`, `read_line` and `write` look at the
  clock only when there is nothing to move (`poll` with a timeout of 0 still
  reports what is there), so that a stream without line ends keeps `read_line`
  past its deadline, although serialport.hpp:92 says that all the I/O methods
  honour `timeout()`.

## 4. What is proved

All proofs are checked by `tlapm` with Z3, Zenon and LS4.

| Theorem | For every |
|---|---|
| `CobsProofs!CobsTyped`: `Spec => []TypeOK`; `MessageComesBack`: `Spec => []RoundTrip`; `NothingUnreadIsLost`: `Spec => []UnreadIsIntact` | width of a byte, so size of a group; length of message and block; capacity |
| `DemuxProofs!TypeCorrect`: `Spec => []TypeOK` | buffer size, byte set and validation |
| `DemuxProofs!FramesDelimited`: `TSpec => []FrameIsDelimited` | the same, and any length of stream |
| `DemuxProofs!TextLeavesFramesAlone`: `TSpec => FramesAsWithoutText` (refinement) | the same |
| `DemuxProofs!EventsAreTheReading`: `TSpec => []EventsMatchReference` | the same, any length of stream |
| `DemuxLinkProofs!FramesComeInOrder`: `LSpec => []FramesInOrder`; `LinkResyncs`: `LSpec => []ResyncWithinOneFrame` | number and length of frames, text, number and kind of faults, within the assumptions below |
| `RpcSessionProofs!TypeCorrect`: `Spec => []TypeOK` | number of calls, spans of msgids and clock |
| `RpcSessionProofs!AnswersBelong`: `Spec => []AnswersMatch` | the same |
| `RpcSessionProofs!CallsAreSafe`: `Spec => Abstract!SafeSpec` (refinement) | the same |
| `RpcSessionProofs!AttachedAlwaysBacked`: `NoUserDetach /\ Spec => []AttachedIsBacked` | the same, any number of writes that fall short |
| `RpcSessionProofs!NoHastyDetach`: `TimeoutSpec => TimedDetachIsDue`; `SilenceIsNoticed`: `TimeoutSpec => SilenceDetaches`; `TimeoutRemembered`, on which they rest | span of the clock, timeouts, frames |
| `IoWorkerProofs!TypeCorrect`, `FlagsAlwaysAgree`, `NeverLeftAttached`, `PromptIsUpToDate` | set of commands, numbers of commands and failures, `auto_attach` on or off |
| `MsgpackProofs!RawTyped`: `RawSpec => []RawTypeOK`; `ReadsRight`: `RawSpec => []ReadsWhatIsThere` | payload, order of reads, number of values of each format, width of a field, of an integer and of `size_t`, size of a buffer |
| `MsgpackProofs!SkipsOneObject`: `RawSpec /\ []CountsFit => []SkipTakesOneObject`; `SkipsOneObjectWhereCountsFit`, for payloads within a limit | the same, within the condition below |
| `MsgpackProofs!NarrowsTowardZero`: `narrow_f64_bits_to_f32_bits` is `RoundTowardZero` | double, split of its bits into exponent and mantissa |
| `ListPagingProofs!ListedOnce`: `Spec => []NoDuplicates`; `ListedAll`: `Spec => []ListIsComplete` | names and sizes, table, size of a page, number of pages and bindings |
| `SerialPortProofs!PortTyped`: `Spec => []TypeOK`; `PortOwnsTerminal`: `Spec => []TerminalIsOurs`; `WritesTellTheirCount`: `Spec => []WritesAreCounted`; `BytesKeepTheirOrder`: `Spec => []BytesWaitInOrder`; `ReadsAreTheStream`: `Spec => []ReadsMatchReference` | objects, rates, buffer and line sizes, queue, calls, data |

The assumptions are the named `ASSUME`s of the modules, which TLC evaluates on
its instances: sizes are natural numbers, delimiter bytes are bytes, there are
fewer calls than msgids (`MaxCalls < MsgIdSpan`: the code has 2^32 of them),
validation yields no more bytes than it was given, a group holds at least one
byte.  Those of `DemuxLink` say more, because what it promises is false without
them: a frame passes the validation exactly if it is one of those sent (a
checksum of 16 bits lets one garbled block in 65536 through), and each frame has
a byte that occurs nowhere else on the line, so that losing or altering bytes
cannot turn one frame into another.

*CobsProofs.*  What it means for a block to encode a message is stated without
recursion, by a map `m` from the positions of the code bytes to the number of
message bytes before their groups: 0 goes to 0, the code at `c` leads to
`c + code`, where the map has `m[c] + code` if the message has a zero there and
`m[c] + code - 1` if the group is full, and the group's data are the bytes of
the message from `m[c]` on (`GroupOf`, `Chain`).  The inductive invariant says
of an encoder that is still `ok` that there is such a map up to its open code
byte, and that the bytes written since are the message's rest (`OpenGroup`), or
that nothing is open because the last group was full (`NoGroup`, only at the end
of a message).  `put_one_` extends the map by at most one group (`ChainGrows`),
`finish()` closes it (`FinishEncodes`).  Of the decoder it says, for every
block, that the write cursor is behind the read cursor and the group ends inside
the block (`Behind`), whence nothing unread is overwritten; and of one of our
blocks, that the decoder stands at a position of the map with exactly as many
bytes written as the map says, all of them the message's (`Follows`).
`RoundTrip` and the type invariant are not inductive by themselves: that a
`0xff` group is never followed by an implied zero, and that one without a slot
can only come last, is in the map.

*FramesDelimited.*  The stream since the last reset and the collector are
related: in state `frame` the collector is exactly the stream after the last
delimiter, and there was one.  `FrameIsDelimited` alone is not inductive: it
speaks of the last event only, and says nothing of the bytes still collected.

*TextLeavesFramesAlone.*  Under the mapping that hides the line, the CR flag and
the text events, each branch of `feed_text_` and `feed_frame_` is the branch of
the specialisation with the same name, or drops text.  No invariant is needed.

*EventsAreTheReading.*  The reference cuts the whole stream at its delimiters, from
the right: the cells from a position on depend on those of later positions only
(`CellsLater`); it then reads the cells from the left, up to a line end or a frame.
That both tables exist is induction by rank (`FixedPoint`), which comes from the
well-ordering of the naturals.  `EventsMatchReference` is not inductive, since what the
bytes of an open block are worth depends on the bytes that come.  The invariant,
`Follows`, names a position `q` where the open block begins, in the mode that
`state` says: the cells before it are `done` *whatever bytes follow* the stream as it
stands; the collector, or the text since `q`, is the block; and events, line and CR
flag are `InStep` with the cells read, where the line is the characters since the last
line end, cut to the line buffer (`CutAppended`: to cut with every byte is to cut
once).  One lemma for each way a block can end says what the reference makes of
it (`TextBlock`, `OpenBlock`, `FrameBlock`, `LongBlock`), and one step of the proof for each
branch of the code that the invariant moves on by exactly those cells.  An overlong
block is the branch where they differ most: the reference goes on with the rest
of it as text, at a position without a delimiter.

*DemuxLinkProofs.*  The byte that tells a frame from all else is its marker.
`Ordered`: a marker is on the line or in the collector, not both; a frame whose
marker is in either has been sent, and nothing reported is of a later one.
`Synced` follows the writer's current frame over the line: if it and the one
before are untouched, then the collector holds no other frame when the first
delimiter comes, and after that exactly the bytes of the frame that have left
the line; the frame after a fault may be taken for text, but then its closing
delimiter opens the next one.

*AnswersBelong.*  What the device will read is the queue with the unfinished
frame behind it (`Wire`).  A write lets the wire grow by one message (`Grows`),
leaves it as it was (`Keeps`), or drops an unfinished frame: with that, finished
and unfinished frames need no cases of their own.  A call that failed to be
written may so be executed later, which `RpcCall` has too (`Fail`, `Execute`).
The inductive invariant says, in the terms of the proof
module: every request on the wire, every answer the device is about to send,
every answer on the line and in the read buffer has the msgid of the call it
carries, that is `msgid = call` (the numbers never wrap, by the assumption);
an answer that exists was recorded in `executed` with the same kind; the
pending msgid is that of the last request issued; a request not yet served has
not been executed.  So an answer that matches the pending msgid is that of the
pending call.  With `Rebuild` the first of these fails, which is the finding
`session_rebuild`.

*CallsAreSafe.*  With that invariant, and that a call is open exactly while it
is waited for, so that no other is (`Opened`), each step of host, device or line is a step of
`RpcCall` or leaves its variables alone: the initial states and the steps of the
refinement are proved, its fairness stays with the run.

*AttachedAlwaysBacked.*  `AttachedIsBacked` needs three facts more: when the
host believes the device attached, no `rpc.detach` is on the wire, unless
`disconnect()` threw since (`NoDetachAhead`: a `disconnect()` that wrote its
frame clears the flag); nothing is on the wire
behind the request that is waited for, and nothing at all once it has been run; and when `connect()` waits for the answer
to `rpc.attach` and the device has run it, the device is attached or was reset
since.  `doubted` remembers that `disconnect()` threw: the flag is
then kept, although the first delimiter of the next frame may complete the
`rpc.detach`.  An answered `rpc.attach` ends the doubt, because it comes behind
whatever was written before.  The hypothesis `NoUserDetach` is that the program does not itself call
or notify the method `rpc.detach`: the library does not stop it, and the host's
flag is then wrong.  In the run, too, no call the user makes is `rpc.detach`.

*NoHastyDetach, SilenceIsNoticed.*  `last_frame` is the clock of the device at the last
frame heard, modulo the clock's span, and `attach_timeout` what the last
`rpc.attach` granted while the device is attached.  What `check_attach_timeout_`
computes is then the silence modulo the span, so never more than the silence
(`NoHastyDetach`), and the silence itself if that is less than a span
(`SilenceIsNoticed`).

*NeverLeftAttached.*  Two facts are added: an open that is under way is not
attached yet (so that an exception caught by `try_open_` abandons nobody the
worker knew of), and a port that is broken is known to have failed.  With them
each way out either says `rpc.detach` over a good port (`LastWordHeard`), or
leaves a `doubt`: the port failed, `rpc.detach` fell short, or `rpc.attach` went
unanswered while the worker believed the board detached (`Unheard`).  These are
the ways in which the code does leave a board attached; section 6 lists them.
Calls of `rpc.attach` and `rpc.detach` that the user types are out of it: `told`
is about `connect()`'s.

*PromptIsUpToDate.*  `PromptNeverHides` needs to know of the prompt that was made
and is not shown yet: it says "attached" if the board is, unless the attach has
not been announced or was announced since it was made (`FreshIsTrue`).  Of the
worker's steps, only the store of the flag and its announcement then count; every
other leaves the flag alone (`FlagStays`), or clears it (`FlagCleared`), and a
detached board is not hidden.

*ReadsRight.*  Three layers.  The format bytes: every byte names one format, and
what the code computes from the byte, by comparing it with the prefixes, is what
the table of formats says (`Layout`, `Types`).  Numbers: the bytes of a field, put
together by shifts, are the number that they spell (`BigEndianDigits`), which is
below the span of its width, and a negative one is that less the span.  Reads: each
read function, branch by branch, is `Taken` when the object at the cursor is
complete and in range and `Refused` otherwise, with the cursor where it was
(`ReadsAsExpected`).  No read looks at the error flag or at earlier reads, so that
the types are all the invariant that is needed.

*SkipsOneObject.*  `ObjectsEnd(buf)[p][k]` is where k objects from p on end, nested
ones included, or -1: taking one header off k objects leaves `k - 1` and those the
header announces.  The invariant `SkipOnTheWay` says that what `skip()` still owes
ends where the object it began at ends.  That this function exists is proved by
induction over the bytes that are left (`Iterates`), since a header takes at least
one.  `CountsFit` says that the sums of `skip()` do not wrap: the length of the
buffer fits in a `size_t`, and so do what is owed with what a header adds, and a
header with its payload where the code has no check for that.  It is no formality:
on a machine of 32 bits an array of 2^32 - 1 elements within another brings what is
owed to 0, and `skip()` ends in the middle (section 6).
`SkipsOneObjectWhereCountsFit` derives it from the length of the payload: a host of
64 bits meets it up to 2^31 - 1 bytes.  A board with a narrower `size_t` meets it as
long as nobody announces what it cannot hold.

`TypedCall` uses the reader by way of `RawHandler`: the property
`RawHandlersStartClean` of the run `codec` says that each of its steps is one of
`RawHandler`, or leaves the reader alone, and that a handler begins with a
reader in the payload and without an error, which is all `RawSpec` asks for.  So
what is proved of any handler holds of those that `dispatch_` calls.

*NarrowsTowardZero.*  The reference chooses the largest normal float whose magnitude
is not beyond the double's.  Exponents order magnitudes, since a mantissa is less
than twice the smallest with its exponent (`PowersOfTwo`), so that the float with the
rebased exponent and the upper bits of the mantissa is that largest one.

*ListPagingProofs.*  While the board is not flashed, the table only grows at its
end and no name changes its place (`TableGrows`); what is collected are the
names of its first entries; the page being read is a piece of the table that
begins where the list ended (or at its beginning, if the device does not page),
and of its entries those read are in the list. A page is empty only from the end
of the table on, since one whose first entry does not fit is an error. That the
length of a page, a maximum, exists and stays within the table is `LeastNumber`:
the well-ordering of the naturals as a statement about sets, and that the
entries of a page are those of the table from its start on is `PieceEntries`.

*SerialPortProofs.*  One object has the port and remembers how it was found, the
others are as `Closed`; the marks of the bytes taken, the read buffer between
its cursors and the terminal's queue are, end to end, what has arrived; what the
running `write()` has sent is added to what was reported.  `Typed` gives the
locals of the running method their types, from which the cursors follow.
That is `IInv`; `RInv` adds what the caller has been given, and is inductive beside
it.  The reference speaks of positions, so that nothing is folded: `BytesAt` puts the
byte of a position at its rank among the positions, `LineOf` numbers a line by
the ends of line before it, and a byte taken adds one position to one of the
sets (`LineTaken`, `RawTaken`) and one byte to one of the texts (`BytesAppended`).
In the middle of a call the equations hold with what the method has already moved:
`Given` is `raw` and the bytes of `read()`, `OpenLine` the beginning of the line and
those of `read_line()`.  That CR LF counts once is `LfAwaited`: an object awaits an LF
exactly if the last byte anybody took was a CR, `read_line()` took it and nothing
happened since, which is how a step of the code agrees with the pair that the
reference sees (`LineByteTaken`).  The caller counts one line more than the stream has
only when nothing is left to read of a device that is gone (`NothingLeft`).

## 5. Only model-checked

* Liveness under fairness (`EveryWaitEnds`, `StopJoins`, `CommandsAreTaken`,
  `Recovers`, `ListEnds`, `TimedCallsEnd`), the fairness in `CallsAreCalls` and
  everything that would need `ENABLED`: out of the prover's reach.
* `EncodesTheWholeMessage`, `FrameRoundTrip` and the outcome in `InPlaceIsSafe`
  compare with references defined by recursion over the data, and the last two
  reach the CRC's `Bitwise`, which a module with theorems cannot use.  What they
  say of the codec itself is in `RoundTrip` and `UnreadIsIntact`, which are
  proved, except that a malformed block is refused when it should be.
* `TextIsConserved` is about the instance: it needs a line buffer that nothing
  overflows, and a rejected block that gives its bytes back as they came, where the
  codec's decoding in place may have written over some of them.  What holds of every
  instance is `EventsMatchReference`, which is proved.
* `HandlerGetsTheArguments`, `AnswerIsTheResult` and `WholeMessages`: `Value` and the
  packing of arguments are recursive operators over nested values, in which the prover loses its SMT backend.  That `TypedCall` uses
  readers as `RawHandler` does (`RawHandlersStartClean`) is checked, not proved,
  for the same reason.
* `auto_attach` off is covered by the theorems of `IoWorkerProofs`; the run has
  it on, which has the longer paths.

## 6. Disagreements met

* `demux_lone_cr`: the "swallow the next LF" flag outlives a frame, although
  the class comment says any byte other than LF disarms it.
* `session_rebuild`: `.timeout` replaces the RPC object on the open port and its
  msgids start at 1 again; an answer to an earlier call that timed out is then
  taken for the answer to a new one.
* `io_worker_unplug`: `set_dtr` and `flush_input` throw `std::system_error`,
  which the commands do not catch; the thread, and with it the process, ends.

Read in the code while modelling, without a run of their own:

* `repl.hpp` 167-168 says the prompt's marker "never lags a command".  `run()`
  makes the prompt of the flag (lines 184 and 203) before `input()` shows it: an
  attach between the two, with its announcement and its `set_prompt`, is
  overwritten, and the prompt of a detached board stays over an attached one
  until the next `[sys]` line or command.  `PromptNeverHides` excepts just this (`missed`).
* `handle_io_error_` prints the line that refreshes the prompt before it
  clears `_attached`, and `execute_reset_` before it closes the port, so that the
  marker of a lost board stays until the next line.
* A board can be left attached, writing frames to a closed port: the answer to
  `rpc.attach` is late or lost (serial_rpc.hpp 918), after which `disconnect()` is
  silent; or `rpc.detach` itself falls short on a port that works, in
  `close_`, `~RPC` or `execute_detach_`.  Nothing asks for the attach timeout
  that would end it.  `NotLeftAttached` says that there is no other way while the
  port works.
* The comment on `close_` (io_worker.hpp 248-253) says `handle_io_error_` does not
  send `rpc.detach`.  It resets the RPC object, whose destructor calls
  `disconnect()` if `_attached`: it does try, and after a write that fell short
  on a good port the board may well hear it.
* A `disconnect()` that throws keeps `_attached` (serial_rpc.hpp 926), although
  its frame may lack nothing but the closing delimiter, which the next frame
  supplies: the host then believes attached a device that it detached.
* `attach_` (io_worker.hpp 220-225) does not catch the `RemoteError` of
  `connect()`, nor the `ProtocolError` of a malformed or too deep value in a
  message that comes meanwhile: from a command either ends the process, from
  `try_open_` it drops the port, with `connected()` still true.
* An exception out of `connect()` between lines 899 and 912 leaves `_on_text`
  bound to its local variables.
* `msgpack_lite.h` 402-410 says that after an error further reads fail too.  Only
  `skip()` and `type()` look at the flag; the others read on from the restored
  cursor and may succeed.  `ReadsWhatIsThere` therefore says of every read,
  before or after an error, that it fails or returns what the bytes say.
* With a `size_t` as narrow as the lengths on the wire, `skip()` may wrap the
  number of objects it still owes, and take less than one object.  The run has
  it wider; nothing in the library but the tests calls `skip()`.
* The error reply "response too large" is built without checking its own
  overflow (server.h 1709-1715): a payload buffer too small for it would send
  part of a message.  `CallAssumption` excludes such a buffer.
* `read_line()` that returns an optional gives an unfinished line for a whole one
  when the port fails in the middle, although its comment (serialport.hpp 265)
  says nullopt, and drops the text it had on a timeout.
* `last_error()` holds one error: `read_line(char *, n)` reports that the line
  was cut over the I/O error that cut it, and an I/O error hides that a string
  was cut.  The caller of `ReadsMatchReference` takes that into account.
* `read()` and `read_some()` forget a pending LF even when they read nothing, so
  that a CR LF around such a call counts twice (the marks "first" of the model).
* An exception of `Value::decode` or of a callback inside `pump_bytes_`
  (serial_rpc.hpp 1035-1045) drops the rest of the bytes just read.

## 7. Not modelled

* `SerialPort`: Windows, the modem lines, `send_break`, `available()`, port
  enumeration, and ports opened without `exclusive`.  `tcdrain` has no timeout:
  with hardware flow control `close()`, `drain()` and `set_baud_rate()` may wait
  for ever, for which the model has only that they wait.
* `Value::to_string` and comparison; signatures as text (`ListPaging` has their
  sizes); the statistics counters of the server; `Log`'s buffering of bytes into
  lines, of which `Server` has the whole lines.
* The allocation a length announces before its elements are there
  (`arr.reserve(n)`, `out.reserve(n)`) and what an allocation failure does.
* The REPL's line editing, completion, history, filters and JSON parser, and the
  command-line options: user interface, without protocol state.
* Callbacks of the host that call back into the RPC object, and the lifetime of
  C++ objects: listed as hazards.

## 8. Plan

Order of work, most important behaviour first.

1. Done: the codec and the demultiplexer with both of its templates; the session
   of host and device with its abstract specification; the attach timeout; the
   I/O worker; list paging; MessagePack, values and typed calls; the serial port.
2. Done: proofs of the codec's round trip, of the demultiplexer's reading of whole
   streams, of the recovery of the line, of the session (its calls, answers and
   attachment), the attach timeout, the I/O worker, list paging, the MessagePack
   reader with `skip()` and the narrowing of doubles, and the serial port's bytes,
   lines and terminal.
3. Prove more: `FrameRoundTrip`, with a CRC that does without `Bitwise`; the typed
   calls, with the recursion of `Value` as functions.
4. Left of the model: the line buffer of `Log`, and the `on_text` callback of
   `connect()` with its exceptions in `HostRpc`.

To run a check: `tlc -config MCDemux.cfg MCDemux.tla`; to check the proofs:
`tlapm DemuxProofs.tla`.
