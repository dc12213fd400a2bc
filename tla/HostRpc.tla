------------------------------ MODULE HostRpc -------------------------------
(***************************************************************************)
(* The host's client: RPC<Port> of serial_rpc.hpp.  One thread owns it, so *)
(* its blocking functions are a program counter, "activity":               *)
(*   idle      in no call; poll() may run                                  *)
(*   call      call_values waits for a response                            *)
(*   search    connect() between two probes                                *)
(*   probe     connect() waits in try_request_("rpc.ping")                 *)
(*   attach    connect() waits in call("rpc.attach")                       *)
(* pump_bytes_ is Read, then Handle... once per message of what was read.  *)
(***************************************************************************)
EXTENDS Link

CONSTANTS
  UserCalls,    \* the calls made from outside connect()
  ReadMax,      \* bound on the messages one read_some() returns
  MaxShorts,    \* bound on the writes that fall short
  NoId          \* _pending_msgid without a value

ASSUME HostAssumption ==
  /\ UserCalls \subseteq [method : Method, arg : Arg]
  /\ ReadMax \in Nat \ {0}
  /\ MaxShorts \in Nat
  /\ NoId \notin Nat

VARIABLES
  unfinished,         \* the frame, if any, written but for its closing delimiter
  shorts,             \* writes that fell short so far
  issued,             \* requests issued so far; the last is the one waited for
  next_msgid, pending_msgid, pending_response,
  host_attached,      \* RPC's own _attached
  activity,
  alive,              \* connect(): saw_ready or got_reply
  expired,            \* the deadlines that have passed
  read_buf,           \* pump_bytes_: read, not yet fed to the Demux
  outcome             \* what the caller of each request sees

lineVars == <<linkVars, unfinished, shorts>>
rpcVars  == <<next_msgid, pending_msgid, pending_response, host_attached>>
hostVars == <<unfinished, shorts, issued, rpcVars, activity, alive, expired, read_buf, outcome>>

NoResponse == [ready |-> FALSE, error |-> FALSE, value |-> 0]
Outcome(state, value) == [state |-> state, value |-> value]

HostInit ==
  /\ unfinished = <<>> /\ shorts = 0
  /\ issued = 0
  /\ next_msgid = 1 /\ pending_msgid = NoId /\ pending_response = NoResponse
  /\ host_attached = FALSE
  /\ activity = "idle" /\ alive = FALSE /\ expired = {}
  /\ read_buf = <<>>
  /\ outcome = [c \in Call |-> Outcome("none", 0)]

Waiting == activity \in {"call", "probe", "attach"}

-----------------------------------------------------------------------------
(* Writing.  A frame begins and ends with a delimiter, so the first byte of *)
(* the next one closes a frame whose own last byte was not written.         *)

WriteFrame(message) == /\ to_device' = Append(to_device \o unfinished, message)
                       /\ unfinished' = <<>>
                       /\ UNCHANGED <<to_host, shorts>>

FallsShort == shorts < MaxShorts /\ shorts' = shorts + 1

\* write_frame_ throws an IoError: no byte was written, or too few of them to be
\* of use, or all but the last.
WriteFrameShort(message) ==
  /\ FallsShort
  /\ \/ UNCHANGED <<to_device, unfinished>>
     \/ /\ to_device' = to_device \o unfinished
        /\ unfinished' \in {<<>>, <<message>>}
  /\ UNCHANGED to_host

\* Text has no delimiter: it spoils an unfinished frame.
WriteText == /\ to_device' = Append(to_device, [type |-> "text"])
             /\ unfinished' = <<>>
             /\ UNCHANGED <<to_host, shorts>>

\* What was written of a line is lost with the rest of it.
WriteTextShort == /\ FallsShort
                  /\ unfinished' \in {unfinished, <<>>}
                  /\ UNCHANGED linkVars

-----------------------------------------------------------------------------
(* Sending.                                                                *)

RequestFrame(method, arg) == [type |-> "request", msgid |-> next_msgid,
                              method |-> method, arg |-> arg, call |-> issued + 1]

\* Mutant: the counter of msgids is wider than the msgids.
IssueUnwrapped(method, arg) ==
  /\ issued' = issued + 1
  /\ next_msgid' = next_msgid + 1
  /\ pending_msgid' = next_msgid
  /\ pending_response' = NoResponse
  /\ WriteFrame(RequestFrame(method, arg))
  /\ outcome' = [outcome EXCEPT ![issued'] = Outcome("open", 0)]
  /\ expired' = {}
  /\ UNCHANGED read_buf

\* next_msgid_, send_request_ and the reset of the pending response.
Issue(method, arg) ==
  /\ issued' = issued + 1
  /\ next_msgid' = (next_msgid + 1) % MsgIdSpan
  /\ pending_msgid' = next_msgid
  /\ pending_response' = NoResponse
  /\ WriteFrame(RequestFrame(method, arg))
  /\ outcome' = [outcome EXCEPT ![issued'] = Outcome("open", 0)]
  /\ expired' = {}
  /\ UNCHANGED read_buf

\* send_request_ throws before anything is waited for, out of connect() too.
NotIssued(method, arg) ==
  /\ issued' = issued + 1
  /\ next_msgid' = (next_msgid + 1) % MsgIdSpan
  /\ WriteFrameShort(RequestFrame(method, arg))
  /\ outcome' = [outcome EXCEPT ![issued'] = Outcome("failed", 0)]
  /\ activity' = "idle"
  /\ UNCHANGED <<pending_msgid, pending_response, host_attached, alive, expired, read_buf>>

\* Between two blocking functions, with nothing left of the last read.
Free == activity = "idle" /\ read_buf = <<>>

MayCall == Free /\ issued < MaxCalls

StartCall == /\ MayCall
             /\ \E c \in UserCalls : Issue(c.method, c.arg)
             /\ activity' = "call"
             /\ UNCHANGED <<host_attached, alive>>

CallNotSent == MayCall /\ \E c \in UserCalls : NotIssued(c.method, c.arg)

\* What is sent with no answer to wait for.
OneWay == UNCHANGED <<issued, next_msgid, pending_msgid, pending_response, activity,
                      alive, expired, read_buf, outcome>>

MayWrite == Free /\ Len(to_device) + Len(to_host) <= MaxLine

SendText == MayWrite /\ WriteText /\ OneWay /\ UNCHANGED host_attached

TextNotSent == MayWrite /\ WriteTextShort /\ OneWay /\ UNCHANGED host_attached

NotifyFrame(method) == [type |-> "notification", method |-> method, arg |-> 0]

NotifyValues == /\ MayWrite
                /\ \E c \in UserCalls : WriteFrame(NotifyFrame(c.method))
                /\ OneWay /\ UNCHANGED host_attached

NotifyNotSent == /\ MayWrite
                 /\ \E c \in UserCalls : WriteFrameShort(NotifyFrame(c.method))
                 /\ OneWay /\ UNCHANGED host_attached

\* Mutant: _attached survives disconnect().
DisconnectStaysAttached == /\ Free
                           /\ host_attached
                           /\ WriteFrame(NotifyFrame("rpc.detach"))
                           /\ OneWay /\ UNCHANGED host_attached

\* The flag is cleared once rpc.detach has been written ...
Disconnect == /\ Free
              /\ host_attached
              /\ WriteFrame(NotifyFrame("rpc.detach"))
              /\ host_attached' = FALSE
              /\ OneWay

\* ... and kept when notify() throws, whatever the device will make of it.
DisconnectFails == /\ Free
                   /\ host_attached
                   /\ WriteFrameShort(NotifyFrame("rpc.detach"))
                   /\ OneWay /\ UNCHANGED host_attached

-----------------------------------------------------------------------------
(* Receiving.                                                              *)

\* poll() when idle; in a wait, only while the deadline has not passed.
Read == /\ read_buf = <<>>
        /\ \/ activity = "idle"
           \/ Waiting /\ ~pending_response.ready /\ expired = {}
        /\ \E n \in 1 .. ReadMax :
             /\ n <= Len(to_host)
             /\ read_buf' = SubSeq(to_host, 1, n)
             /\ to_host' = SubSeq(to_host, n + 1, Len(to_host))
        /\ UNCHANGED <<to_device, unfinished, shorts, issued, rpcVars, activity, alive,
                       expired, outcome>>

\* Mutant: any response answers the pending call.
AnyPending(message) == pending_msgid # NoId

Matches(message) == pending_msgid # NoId /\ message.msgid = pending_msgid

Handle(type) == /\ read_buf # <<>>
                /\ Head(read_buf).type = type
                /\ read_buf' = Tail(read_buf)
                /\ UNCHANGED <<lineVars, issued, next_msgid, pending_msgid,
                               host_attached, activity, expired, outcome>>

\* A response that matches no pending call is a stray one: it is dropped.
HandleResponse ==
  /\ Handle("response")
  /\ pending_response' = IF Matches(Head(read_buf))
                         THEN [ready |-> TRUE, error |-> Head(read_buf).error,
                               value |-> Head(read_buf).call]
                         ELSE pending_response
  /\ UNCHANGED alive

HandleEvent == Handle("event") /\ UNCHANGED <<pending_response, alive>>

\* While connect() looks for the device, on_text watches for a "ready" line.
HandleText ==
  /\ Handle("text")
  /\ alive' = (alive \/ (activity = "probe" /\ Head(read_buf).ready))
  /\ UNCHANGED pending_response

-----------------------------------------------------------------------------
(* The end of a wait: the answer is looked at before the deadline.         *)

\* The scope guard of call_values and try_request_ clears the pending call.  Of
\* the deadlines, only that of a connect() still looking for the device counts on.
Close(state, value) ==
  /\ pending_msgid' = NoId
  /\ pending_response' = NoResponse
  /\ outcome' = [outcome EXCEPT ![issued] = Outcome(state, value)]
  /\ expired' = IF activity = "probe" THEN expired \ {"wait"} ELSE {}
  /\ UNCHANGED <<lineVars, issued, next_msgid, read_buf>>

Answered == read_buf = <<>> /\ pending_response.ready
TakeAnswer == Close(IF pending_response.error THEN "error" ELSE "result",
                    pending_response.value)

CallReturns == /\ activity = "call" /\ Answered
               /\ TakeAnswer
               /\ activity' = "idle"
               /\ UNCHANGED <<host_attached, alive>>

\* An error answered to a probe or to rpc.attach leaves connect() as well.
ProbeReturns == /\ activity = "probe" /\ Answered
                /\ TakeAnswer
                /\ activity' = IF pending_response.error THEN "idle" ELSE "search"
                /\ alive' = (alive \/ ~pending_response.error)
                /\ UNCHANGED host_attached

AttachReturns == /\ activity = "attach" /\ Answered
                 /\ TakeAnswer
                 /\ activity' = "idle"
                 /\ host_attached' = (host_attached \/ ~pending_response.error)
                 /\ UNCHANGED alive

Unanswered == Waiting /\ read_buf = <<>> /\ ~pending_response.ready

\* Mutant: a probe waits for its answer for ever.
TimesOutUnlessProbe == /\ Unanswered
                       /\ expired # {} /\ activity # "probe"
                       /\ Close("timeout", 0)
                       /\ activity' = "idle"
                       /\ UNCHANGED <<host_attached, alive>>

TimesOut == /\ Unanswered
            /\ expired # {}
            /\ Close("timeout", 0)
            /\ activity' = IF activity = "probe" THEN "search" ELSE "idle"
            /\ UNCHANGED <<host_attached, alive>>

\* read_some() fails: an IoError, out of connect() too.
PortFails == /\ Unanswered
             /\ Close("failed", 0)
             /\ activity' = "idle"
             /\ UNCHANGED <<host_attached, alive>>

-----------------------------------------------------------------------------
(* connect().                                                              *)

\* What flush_input() finds is discarded; later bytes are on their way.
Connect == /\ Free
           /\ issued + 2 <= MaxCalls
           /\ \E n \in 0 .. Len(to_host) :
                to_host' = SubSeq(to_host, n + 1, Len(to_host))
           /\ activity' = "search"
           /\ alive' = FALSE
           /\ expired' = {}
           /\ UNCHANGED <<to_device, unfinished, shorts, issued, rpcVars, read_buf, outcome>>

\* MaxCalls keeps one request for rpc.attach.
MayProbe == /\ activity = "search"
            /\ ~alive
            /\ "connect" \notin expired
            /\ issued + 1 < MaxCalls

SendProbe == /\ MayProbe
             /\ Issue("rpc.ping", 0)
             /\ activity' = "probe"
             /\ UNCHANGED <<host_attached, alive>>

ProbeNotSent == MayProbe /\ NotIssued("rpc.ping", 0)

MayAttach == activity = "search" /\ alive

SendAttach == /\ MayAttach
              /\ Issue("rpc.attach", 0)
              /\ activity' = "attach"
              /\ UNCHANGED <<host_attached, alive>>

AttachNotSent == MayAttach /\ NotIssued("rpc.attach", 0)

ConnectTimesOut == /\ activity = "search"
                   /\ ~alive
                   /\ "connect" \in expired
                   /\ activity' = "idle"
                   /\ expired' = {}
                   /\ UNCHANGED <<lineVars, issued, rpcVars, alive, read_buf, outcome>>

\* Time passes: a wait's deadline; that of connect(), which bounds its probes'.
Expire == /\ \/ Waiting /\ expired' = expired \cup {"wait"}
             \/ activity \in {"search", "probe"} /\ expired' = expired \cup {"connect"}
          /\ UNCHANGED <<lineVars, issued, rpcVars, activity, alive, read_buf, outcome>>

-----------------------------------------------------------------------------

\* ~RPC, then a new RPC on the same open port: .timeout of io_worker, which
\* closes the port instead once it has failed.  ~RPC swallows what disconnect()
\* throws.
Rebuild == /\ Free
           /\ \A c \in Call : outcome[c].state # "failed"
           /\ IF host_attached
              THEN \/ WriteFrame(NotifyFrame("rpc.detach"))
                   \/ WriteFrameShort(NotifyFrame("rpc.detach"))
              ELSE UNCHANGED lineVars
           /\ next_msgid' = 1
           /\ host_attached' = FALSE
           /\ UNCHANGED <<issued, pending_msgid, pending_response,
                          activity, alive, expired, read_buf, outcome>>

\* The steps of a blocking function, which the thread keeps taking.
HostStep == \/ Read \/ HandleResponse \/ HandleEvent \/ HandleText
            \/ CallReturns \/ ProbeReturns \/ AttachReturns \/ TimesOut
            \/ SendProbe \/ SendAttach \/ ConnectTimesOut

\* What the program decides and the world does to it.
HostNext == \/ HostStep
            \/ StartCall \/ SendText \/ NotifyValues \/ Disconnect \/ Connect
            \/ CallNotSent \/ TextNotSent \/ NotifyNotSent \/ DisconnectFails
            \/ ProbeNotSent \/ AttachNotSent
            \/ Expire \/ PortFails

PendingResponses == [ready : BOOLEAN, error : BOOLEAN, value : Call \cup {0}]

Outcomes == [Call -> [state : {"none", "open", "result", "error", "timeout", "failed"},
                      value : Call \cup {0}]]

\* Only a frame can be unfinished.
Unfinished == {<<>>} \cup {<<frame>> : frame \in Request \cup Notification}

HostTypeOK ==
  /\ unfinished \in Unfinished /\ shorts \in 0 .. MaxShorts
  /\ issued \in 0 .. MaxCalls
  /\ next_msgid \in MsgId
  /\ pending_msgid \in MsgId \cup {NoId}
  /\ pending_response \in PendingResponses
  /\ host_attached \in BOOLEAN
  /\ activity \in {"idle", "call", "search", "probe", "attach"}
  /\ alive \in BOOLEAN
  /\ expired \in SUBSET {"wait", "connect"}
  /\ read_buf \in Seq(ToHost)
  /\ outcome \in Outcomes
=============================================================================
