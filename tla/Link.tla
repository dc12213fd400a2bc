-------------------------------- MODULE Link --------------------------------
(***************************************************************************)
(* The serial line between a host's RPC object (serial_rpc.hpp) and a      *)
(* device's Server (server.h), seen as two queues of whole messages.  The  *)
(* bytes of a message are the business of Framing and Demux, whose runs    *)
(* show what this module takes for granted: a frame arrives intact and in  *)
(* order or not at all, and a damaged one costs at most its neighbour.     *)
(*                                                                         *)
(* A request is told apart from any other by "call", which stands for its  *)
(* arguments; the answer computed from them carries the same "call".       *)
(***************************************************************************)
EXTENDS Naturals, Sequences

CONSTANTS
  MaxCalls,     \* bound on the requests a host issues
  MsgIdSpan,    \* number of msgids, 2^32 for uint32_t
  Timeouts,     \* the timeout_ms arguments rpc.attach may be given
  BadArg,       \* an argument that does not decode; none at all reads as 0
  MaxLine       \* bound on what lies unread when something unsolicited is written

ASSUME LinkAssumption ==
  /\ MaxCalls \in Nat \ {0}
  /\ MsgIdSpan \in Nat
  /\ MaxCalls < MsgIdSpan
  /\ Timeouts \subseteq Nat /\ 0 \in Timeouts
  /\ BadArg \notin Nat
  /\ MaxLine \in Nat

VARIABLES
  to_device,    \* written by the host, not yet read by the device
  to_host       \* written by the device, not yet read by the host

linkVars == <<to_device, to_host>>

Call  == 1 .. MaxCalls
MsgId == 0 .. MsgIdSpan - 1
Arg   == Timeouts \cup {BadArg}

Method == {"rpc.ping", "rpc.list", "rpc.attach", "rpc.detach", "bound", "unknown"}

Request      == [type : {"request"}, msgid : MsgId, method : Method,
                 arg : Arg, call : Call]
Notification == [type : {"notification"}, method : Method, arg : Arg]
Malformed    == [type : {"malformed"}]        \* a valid frame, not a valid message
HostText     == [type : {"text"}]

Response    == [type : {"response"}, msgid : MsgId, error : BOOLEAN, call : Call]
DeviceEvent == [type : {"event"}]             \* a notification or a framed log line
DeviceText  == [type : {"text"}, ready : BOOLEAN]

ToDevice == Request \cup Notification \cup Malformed \cup HostText
ToHost   == Response \cup DeviceEvent \cup DeviceText

LinkInit == to_device = <<>> /\ to_host = <<>>

\* The queue without its i-th message.
Without(queue, i) ==
  [j \in 1 .. Len(queue) - 1 |-> IF j < i THEN queue[j] ELSE queue[j + 1]]

\* A message whose bytes were lost or altered: the checks of Demux drop it.
Lose ==
  \/ \E i \in DOMAIN to_device : /\ to_device' = Without(to_device, i)
                                 /\ UNCHANGED to_host
  \/ \E i \in DOMAIN to_host : /\ to_host' = Without(to_host, i)
                               /\ UNCHANGED to_device

LinkTypeOK == to_device \in Seq(ToDevice) /\ to_host \in Seq(ToHost)
=============================================================================
