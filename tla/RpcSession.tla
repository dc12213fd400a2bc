----------------------------- MODULE RpcSession -----------------------------
(***************************************************************************)
(* One RPC object of a host and one device over a line that loses          *)
(* messages: calls, timeouts, late answers, attach and detach, resets.     *)
(***************************************************************************)
EXTENDS Server, HostRpc

VARIABLES
  severed,    \* history: attached was lost to a reset or a timeout
  doubted     \* history: disconnect() threw since rpc.attach was answered last

vars == <<linkVars, deviceVars, hostVars, severed, doubted>>

Init == LinkInit /\ ServerInit /\ HostInit /\ severed = FALSE /\ doubted = FALSE

AttachAnswered == AttachReturns /\ ~pending_response.error

ByHost == /\ doubted' = (DisconnectFails \/ (doubted /\ ~AttachAnswered))
          /\ UNCHANGED <<deviceVars, severed>>

DeviceMoves == /\ ServerNext
               /\ severed' = (~attached' /\ (severed \/ attached) /\ ~ServeDetach)
               /\ UNCHANGED <<hostVars, doubted>>

LineLoses == Lose /\ UNCHANGED <<deviceVars, hostVars, severed, doubted>>

HostMoves == HostNext /\ ByHost

Next == HostMoves \/ DeviceMoves \/ LineLoses

Spec == Init /\ [][Next]_vars

\* The host's thread runs and its clock moves; a device may be dead for good.
Fairness == /\ WF_vars(HostStep /\ ByHost)
            /\ WF_vars(Expire /\ expired' # expired /\ ByHost)

FairSpec == Spec /\ Fairness

\* The RPC object is now and then replaced by a new one on the same open port.
RebuildNext == Next \/ (Rebuild /\ ByHost)
RebuildSpec == Init /\ [][RebuildNext]_vars

-----------------------------------------------------------------------------

TypeOK == /\ LinkTypeOK /\ ServerTypeOK /\ HostTypeOK
          /\ severed \in BOOLEAN /\ doubted \in BOOLEAN

\* What call_values returns or throws as a RemoteError is the answer that the
\* device gave to this very call: neither the late answer to a call that timed
\* out, nor that to a probe of connect(), is ever taken for another's.
AnswersMatch ==
  \A c \in Call : outcome[c].state \in {"result", "error"} =>
    /\ outcome[c].value = c
    /\ outcome[c].state = executed[c]

\* A host that believes the device attached is right, unless the device was
\* reset (or timed out) since, or disconnect() threw, which leaves the flag set
\* although rpc.detach may yet be carried out: neither a lost or late detach,
\* nor an attach that timed out, nor a retried connect(), nor another write
\* that fell short, or was completed by a later one, leaves the two apart.
AttachedIsBacked == host_attached => attached \/ severed \/ doubted

\* connect(), call() and the probes are the calls of RpcCall.
Abstract == INSTANCE RpcCall

\* Each call is run at most once and ends with its own answer or an exception.
CallsAreCalls == Abstract!Spec

\* Every blocking function of the host returns, whatever the device does.
EveryWaitEnds == (activity # "idle") ~> (activity = "idle")
=============================================================================
