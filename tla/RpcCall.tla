------------------------------ MODULE RpcCall -------------------------------
(***************************************************************************)
(* What call() of serial_rpc.hpp promises, with no frames, msgids or       *)
(* queues: each call is opened once, the device runs it at most once and   *)
(* possibly long after its caller gave up, and it ends either with the     *)
(* very answer the device gave to it or with an exception.                 *)
(***************************************************************************)
EXTENDS Naturals

CONSTANT Call

VARIABLES
  outcome,      \* what the caller of each call sees
  executed      \* the answer each call was given by the device

vars == <<outcome, executed>>

Outcome(state, value) == [state |-> state, value |-> value]

Init == /\ outcome = [c \in Call |-> Outcome("none", 0)]
        /\ executed = [c \in Call |-> "no"]

\* The caller's thread is in one call at a time.
Free == \A c \in Call : outcome[c].state # "open"

Open(c) == /\ Free
           /\ outcome[c].state = "none"
           /\ outcome' = [outcome EXCEPT ![c] = Outcome("open", 0)]
           /\ UNCHANGED executed

\* A call whose request could not be written: a later write may complete it.
Fail(c) == /\ Free
           /\ outcome[c].state = "none"
           /\ outcome' = [outcome EXCEPT ![c] = Outcome("failed", 0)]
           /\ UNCHANGED executed

Execute(c) == /\ outcome[c].state # "none"
              /\ executed[c] = "no"
              /\ \E kind \in {"result", "error"} :
                   executed' = [executed EXCEPT ![c] = kind]
              /\ UNCHANGED outcome

Return(c) == /\ outcome[c].state = "open"
             /\ executed[c] # "no"
             /\ outcome' = [outcome EXCEPT ![c] = Outcome(executed[c], c)]
             /\ UNCHANGED executed

GiveUp(c) == /\ outcome[c].state = "open"
             /\ \E state \in {"timeout", "failed"} :
                  outcome' = [outcome EXCEPT ![c] = Outcome(state, 0)]
             /\ UNCHANGED executed

Next == \E c \in Call : Open(c) \/ Fail(c) \/ Execute(c) \/ Return(c) \/ GiveUp(c)

SafeSpec == Init /\ [][Next]_vars

Spec == /\ SafeSpec
        /\ WF_vars(\E c \in Call : Return(c) \/ GiveUp(c))
=============================================================================
