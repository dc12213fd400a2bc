------------------------------- MODULE Server -------------------------------
(***************************************************************************)
(* The device: serial_rpc::Server of server.h, one thread that runs the    *)
(* sketch's loop() and, inside it, poll().  Messages come from Link.       *)
(* The sketch's own code (handlers, on_text, on_attach, on_detach, the     *)
(* body of loop()) may write notifications and log lines whenever it runs. *)
(***************************************************************************)
EXTENDS Link

CONSTANTS
  ClockSpan,    \* values of the millisecond clock, 2^32 for uint32_t
  MaxTime       \* bound on the time that passes

ASSUME ServerAssumption ==
  /\ ClockSpan \in Nat \ {0}
  /\ MaxTime \in Nat
  /\ \A t \in Timeouts : t < ClockSpan

VARIABLES
  attached, has_timeout, attach_timeout,
  last_frame,   \* _last_frame_ms
  mode,         \* where the thread is: "loop", "poll" or, in a callback, "handler"
  reply,        \* what handle_frame_ sends once the handler returns
  now,          \* time since boot; the code reads it modulo ClockSpan
  executed      \* history: the answer each request was given when dispatched

sessionVars == <<attached, has_timeout, attach_timeout>>
deviceVars  == <<sessionVars, last_frame, mode, reply, now, executed>>

NoReply == [wanted |-> FALSE, msgid |-> 0, error |-> FALSE, call |-> 1]
Reply   == [wanted : BOOLEAN, msgid : MsgId, error : BOOLEAN, call : Call]

Kind(error) == IF error THEN "error" ELSE "result"

now_ms == now % ClockSpan

ServerInit ==
  /\ attached = FALSE /\ has_timeout = FALSE /\ attach_timeout = 0
  /\ last_frame = 0
  /\ mode = "loop"
  /\ reply = NoReply
  /\ now = 0
  /\ executed = [c \in Call |-> "no"]

-----------------------------------------------------------------------------
(* poll(): everything available is taken, one message at a time.           *)

Poll == /\ mode = "loop"
        /\ mode' = "poll"
        /\ UNCHANGED <<linkVars, sessionVars, last_frame, reply, now, executed>>

\* The next message of the loop of poll(), of one of the given types.
Take(types) == /\ mode = "poll"
               /\ to_device # <<>>
               /\ Head(to_device).type \in types
               /\ to_device' = Tail(to_device)
               /\ UNCHANGED <<to_host, now>>

ReceiveText == /\ Take({"text"})
               /\ mode' = "handler"
               /\ reply' = NoReply
               /\ UNCHANGED <<sessionVars, last_frame, executed>>

ReceiveMalformed == /\ Take({"malformed"})
                    /\ last_frame' = now_ms
                    /\ UNCHANGED <<sessionVars, mode, reply, executed>>

\* dispatch_ has answered m, with a result or an error, and its callback runs
\* (the built-ins that have none leave the sketch as it would be in loop()).
\* A handler's error string and a result too large for the buffer both end as
\* an error reply; a notification's reply is built and thrown away.
Answer(m, error) ==
  /\ last_frame' = now_ms
  /\ mode' = "handler"
  /\ reply' = IF m.type = "request"
              THEN [wanted |-> TRUE, msgid |-> m.msgid, error |-> error, call |-> m.call]
              ELSE NoReply
  /\ executed' = IF m.type = "request"
                 THEN [executed EXCEPT ![m.call] = Kind(error)]
                 ELSE executed

Calls(method) == Take({"request", "notification"}) /\ Head(to_device).method = method

ServePing == /\ Calls("rpc.ping")
             /\ Answer(Head(to_device), FALSE)
             /\ UNCHANGED sessionVars

\* An undecodable start is refused; a page's only entry may be too large.
ServeList == /\ Calls("rpc.list")
             /\ \E error \in BOOLEAN : /\ Head(to_device).arg = BadArg => error
                                      /\ Answer(Head(to_device), error)
             /\ UNCHANGED sessionVars

\* Mutant: an attach without a timeout leaves the flag of the one before.
AttachKeepingTimeout(timeout) ==
  /\ attached' = TRUE
  /\ has_timeout' = (has_timeout \/ timeout > 0)
  /\ attach_timeout' = timeout

Attach(timeout) ==
  /\ attached' = TRUE
  /\ has_timeout' = (timeout > 0)
  /\ attach_timeout' = timeout

ServeAttach ==
  /\ Calls("rpc.attach")
  /\ LET arg == Head(to_device).arg IN
       \/ /\ arg = BadArg
          /\ Answer(Head(to_device), TRUE)
          /\ UNCHANGED sessionVars
       \/ /\ arg # BadArg
          /\ Answer(Head(to_device), FALSE)
          /\ Attach(arg)

Detach == /\ attached' = FALSE
          /\ has_timeout' = FALSE
          /\ UNCHANGED attach_timeout

ServeDetach == /\ Calls("rpc.detach")
               /\ Answer(Head(to_device), FALSE)
               /\ Detach

ServeBound == /\ Calls("bound")
              /\ \E error \in BOOLEAN : Answer(Head(to_device), error)
              /\ UNCHANGED sessionVars

ServeUnknown == /\ Calls("unknown")
                /\ Answer(Head(to_device), TRUE)
                /\ UNCHANGED sessionVars

ReceiveCall == \/ ServePing  \/ ServeList   \/ ServeAttach
               \/ ServeDetach \/ ServeBound \/ ServeUnknown

\* The callback returns; send_response_ answers a request.
HandlerReturns ==
  /\ mode = "handler"
  /\ mode' = "poll"
  /\ reply' = NoReply
  /\ to_host' = IF reply.wanted
                THEN Append(to_host, [type  |-> "response", msgid |-> reply.msgid,
                                      error |-> reply.error, call |-> reply.call])
                ELSE to_host
  /\ UNCHANGED <<to_device, sessionVars, last_frame, now, executed>>

\* Mutant: compares with the wrapped instant of the deadline.
TimeoutPassedNaively == now_ms >= (last_frame + attach_timeout) % ClockSpan

\* now - last_frame in uint32_t arithmetic.
TimeoutPassed == (now_ms + ClockSpan - last_frame) % ClockSpan >= attach_timeout

\* Nothing more is available (what to_device still holds is on its way):
\* check_attach_timeout_, then back to loop().
PollEnds ==
  /\ mode = "poll"
  /\ mode' = "loop"
  /\ IF attached /\ has_timeout /\ TimeoutPassed THEN Detach ELSE UNCHANGED sessionVars
  /\ UNCHANGED <<linkVars, last_frame, reply, now, executed>>

-----------------------------------------------------------------------------
(* The sketch, the clock, the power.                                       *)

SketchRuns == /\ mode \in {"loop", "handler"}
              /\ Len(to_host) < MaxLine
              /\ UNCHANGED <<to_device, sessionVars, last_frame, mode, reply, now, executed>>

\* Server::notify: nothing at all is written while detached.
Notify == /\ SketchRuns
          /\ attached
          /\ to_host' = Append(to_host, [type |-> "event"])

\* emit_log_line_: a frame while attached, plain text otherwise.
LogLine == /\ SketchRuns
           /\ to_host' = Append(to_host, IF attached
                                         THEN [type |-> "event"]
                                         ELSE [type |-> "text", ready |-> FALSE])

\* The board is reset, at any point: all of its state is built anew and
\* setup() calls begin().
Reboot ==
  /\ Len(to_host) <= MaxLine
  /\ attached' = FALSE /\ has_timeout' = FALSE /\ attach_timeout' = 0
  /\ last_frame' = 0 /\ now' = 0
  /\ mode' = "loop"
  /\ reply' = NoReply
  /\ to_host' = Append(to_host, [type |-> "text", ready |-> TRUE])
  /\ UNCHANGED <<to_device, executed>>

Tick == /\ now < MaxTime
        /\ now' = now + 1
        /\ UNCHANGED <<linkVars, sessionVars, last_frame, mode, reply, executed>>

ServerNext == \/ Poll \/ ReceiveText \/ ReceiveMalformed \/ ReceiveCall
              \/ HandlerReturns \/ PollEnds
              \/ Notify \/ LogLine \/ Reboot \/ Tick

ServerTypeOK ==
  /\ attached \in BOOLEAN /\ has_timeout \in BOOLEAN
  /\ attach_timeout \in Nat
  /\ last_frame \in 0 .. ClockSpan - 1
  /\ mode \in {"loop", "poll", "handler"}
  /\ reply \in Reply
  /\ now \in Nat
  /\ executed \in [Call -> {"no", "result", "error"}]
=============================================================================
