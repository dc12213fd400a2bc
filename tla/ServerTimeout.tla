--------------------------- MODULE ServerTimeout ----------------------------
(***************************************************************************)
(* A Server facing a host that writes anything at any time, or nothing     *)
(* more: rpc.attach(timeout_ms) against a clock that wraps around.  The    *)
(* host's side of the line is external; its frames carry any msgid.        *)
(***************************************************************************)
EXTENDS Server

CONSTANT Frames     \* what the host may write

ASSUME FramesAssumption == Frames \subseteq ToDevice

VARIABLES
  heard,      \* history: when the last valid frame since boot was handled
  granted     \* history: the timeout of the last rpc.attach served since boot

timeoutVars == <<linkVars, deviceVars, heard, granted>>

TimeoutInit == LinkInit /\ ServerInit /\ heard = 0 /\ granted = 0

\* It has read all replies first: the device never looks back at them.
HostWrites == /\ Len(to_device) < MaxLine
              /\ to_host = <<>>
              /\ \E m \in Frames : to_device' = Append(to_device, m)
              /\ UNCHANGED <<to_host, deviceVars, heard, granted>>

HostReads == /\ to_host # <<>>
             /\ to_host' = Tail(to_host)
             /\ UNCHANGED <<to_device, deviceVars, heard, granted>>

TimeoutMoves ==
  /\ ServerNext
  /\ heard' = CASE ReceiveCall \/ ReceiveMalformed -> now
                [] Reboot -> 0
                [] OTHER -> heard
  /\ granted' = CASE ServeAttach /\ Head(to_device).arg # BadArg -> Head(to_device).arg
                  [] Reboot -> 0
                  [] OTHER -> granted

TimeoutNext == HostWrites \/ HostReads \/ TimeoutMoves

TimeoutSpec == TimeoutInit /\ [][TimeoutNext]_timeoutVars

-----------------------------------------------------------------------------

Silence == now - heard

\* check_attach_timeout_ detaches only a host that asked for a timeout in its
\* last rpc.attach and has truly sent no frame for that long: neither a wrap of
\* the clock, a handler that takes long, nor a timeout asked for earlier does.
TimedDetachIsDue ==
  [][PollEnds /\ attached /\ ~attached' => granted > 0 /\ Silence >= granted]_timeoutVars

\* A poll() that ends has detached a host that has been silent for the timeout
\* it asked for, before and after a wrap of the clock, as long as the silence
\* is shorter than a whole turn of it.
SilenceDetaches ==
  [][PollEnds /\ attached /\ granted > 0 /\ Silence \in granted .. ClockSpan - 1
       => ~attached']_timeoutVars
=============================================================================
