--------------------------- MODULE IoWorkerProofs ---------------------------
(***************************************************************************)
(* What IoWorker promises, for every set of commands, any number of them   *)
(* of failures of the port, a write or an attach, with and without         *)
(* auto_attach.                                                            *)
(***************************************************************************)
EXTENDS IoWorker, SequenceTheorems, TLAPS

\* attach_ called by try_open_ starts detached, and only attach_ is so called.
OpeningIsDetached == /\ opening => pc \in {"attach", "connect", "announce", "list"}
                     /\ opening /\ pc \in {"attach", "connect"} => ~attached

\* A broken port is remembered until the next answered rpc.attach.
BrokenIsKnown == port = "broken" => doubt

IInv == /\ TypeOK
        /\ FlagsAgree
        /\ OpeningIsDetached
        /\ BrokenIsKnown
        /\ NotLeftAttached

\* A command that can be taken is one of Command.
LEMMA TakenCommand ==
  ASSUME NEW q \in Seq(Command), q # <<>>
  PROVE  /\ Head(q) \in Command
         /\ Tail(q) \in Seq(Command)
         /\ Len(Tail(q)) = Len(q) - 1
         /\ Len(q) \in Nat
  BY HeadTailProperties, LenProperties

\* A command submitted joins a queue of commands.
LEMMA JoinedCommand ==
  ASSUME NEW q \in Seq(Command), NEW c \in Command
  PROVE  /\ Append(q, c) \in Seq(Command)
         /\ Len(Append(q, c)) = Len(q) + 1
         /\ Len(q) \in Nat
  BY AppendProperties, LenProperties

LEMMA InitInvariant == Init => IInv
<1> SUFFICES ASSUME Init PROVE IInv
  OBVIOUS
<1> USE IoWorkerAssumption DEF IoWorkerAssumption
<1>1. queue \in Seq(Command) /\ Len(queue) = 0
  BY EmptySeq, LenProperties DEF Init
<1>2. cmd \in Command \cup {"none"} /\ submitted \in 0 .. MaxCommands /\ breaks \in 0 .. MaxBreaks
  BY DEF Init
<1>3. Len(queue) <= submitted
  BY <1>1 DEF Init
<1>4. TypeOK
  BY <1>1, <1>2, <1>3, Zenon DEF Init, TypeOK
<1> QED
  BY <1>4 DEF Init, IInv, FlagsAgree, OpeningIsDetached, BrokenIsKnown, NotLeftAttached

\* An RPC object that goes leaves a board attached only in doubt.
LEMMA LastWordHeard ==
  ASSUME IInv, LastWord
  PROVE  /\ told' \in BOOLEAN /\ doubt' \in BOOLEAN
         /\ told' => doubt'
         /\ doubt => doubt'
<1> USE DEF IInv, TypeOK, NotLeftAttached, BrokenIsKnown
<1>1. CASE told' = (told /\ ~(rpc_attached /\ port = "good")) /\ doubt' = doubt
  <2>1. ASSUME told, ~(rpc_attached /\ port = "good")
        PROVE  doubt
    <3>1. CASE rpc_attached
      BY <2>1, <3>1
    <3>2. CASE ~rpc_attached
      BY <2>1, <3>2
    <3> QED
      BY <3>1, <3>2
  <2> QED
    BY <1>1, <2>1
<1>2. CASE told' = told /\ doubt' = TRUE
  BY <1>2
<1> QED
  BY <1>1, <1>2 DEF LastWord

\* What is not heard of an rpc.attach leaves a board attached only in doubt.
LEMMA Unheard ==
  ASSUME IInv, AttachUnheard \/ UNCHANGED <<told, doubt>>
  PROVE  /\ told' \in BOOLEAN /\ doubt' \in BOOLEAN
         /\ doubt => doubt'
         /\ told' => rpc_attached \/ doubt'
<1>1. CASE AttachUnheard
  BY <1>1 DEF AttachUnheard, IInv, TypeOK
<1>2. CASE UNCHANGED <<told, doubt>>
  BY <1>2 DEF IInv, TypeOK, NotLeftAttached
<1> QED
  BY <1>1, <1>2

\* An IoError leaves the shared variables alone.
LEMMA IoErrorFrame ==
  ASSUME IInv, IoError
  PROVE  /\ UNCHANGED <<queue, stop, submitted, repl, fresh, missed, present>>
         /\ breaks' \in 0 .. MaxBreaks
<1> USE IoWorkerAssumption DEF IoWorkerAssumption, IInv, TypeOK
<1>1. CASE Worker
  BY <1>1 DEF Worker, shared, world
<1>2. CASE Fault /\ UNCHANGED <<shared, present>>
  BY <1>2 DEF Fault, shared
<1> QED
  BY <1>1, <1>2 DEF IoError

\* handle_io_error_ leaves nothing of the port and of its RPC object.
LEMMA ErrorHandled ==
  ASSUME IInv, HandleIoError,
         UNCHANGED <<queue, stop, submitted, repl, fresh, missed, present>>,
         breaks' \in 0 .. MaxBreaks,
         told' \in BOOLEAN, doubt' \in BOOLEAN, told' => doubt'
  PROVE  IInv'
BY DEF IInv, TypeOK, FlagsAgree, OpeningIsDetached, BrokenIsKnown, NotLeftAttached, HandleIoError

\* What returns to the loop with the port it had, attached or not.
LEMMA LoopAgain ==
  ASSUME IInv,
         UNCHANGED <<queue, stop, submitted, repl, fresh, missed, present, breaks>>,
         UNCHANGED <<connected, cmd, port, last_error>>,
         attached' \in BOOLEAN, rpc_attached' = attached', attached' => port # "none",
         prompt' \in BOOLEAN, may_open' \in BOOLEAN,
         told' \in BOOLEAN, doubt' \in BOOLEAN,
         doubt => doubt', told' => rpc_attached' \/ doubt',
         pc' = "loop", opening' = FALSE
  PROVE  IInv'
<1>1. TypeOK'
  <2>1. (queue \in Seq(Command) /\ Len(queue) <= submitted)'
    BY DEF IInv, TypeOK
  <2>2. (rpc_attached => port # "none")' /\ rpc_attached' \in BOOLEAN
    OBVIOUS
  <2>3. /\ (stop \in BOOLEAN)' /\ (connected \in BOOLEAN)' /\ (opening \in BOOLEAN)'
        /\ (fresh \in BOOLEAN)' /\ (missed \in BOOLEAN)' /\ (present \in BOOLEAN)'
    BY Zenon DEF IInv, TypeOK
  <2>4. /\ (pc \in {"loop", "execute", "attach", "connect", "announce", "list", "exited",
                   "terminated"})'
        /\ (cmd \in Command \cup {"none"})'
        /\ (port \in {"none", "good", "broken"})'
        /\ (last_error \in {"none", "no_port", "flush", "remote", "protocol"})'
        /\ (repl \in {"loop", "asked", "input"})'
        /\ (submitted \in 0 .. MaxCommands)' /\ (breaks \in 0 .. MaxBreaks)'
    BY DEF IInv, TypeOK
  <2> QED
    BY <2>1, <2>2, <2>3, <2>4 DEF TypeOK
<1>2. FlagsAgree'
  BY DEF IInv, FlagsAgree
<1>3. BrokenIsKnown'
  BY DEF IInv, BrokenIsKnown
<1>4. OpeningIsDetached'
  BY DEF OpeningIsDetached
<1> QED
  BY <1>1, <1>2, <1>3, <1>4 DEF IInv, NotLeftAttached

\* What returns to the loop and leaves the connection as it was.
LEMMA BackToLoop ==
  ASSUME IInv,
         UNCHANGED <<queue, stop, submitted, repl, fresh, missed, present, breaks>>,
         UNCHANGED <<attached, connected, cmd, port, rpc_attached, last_error, told, doubt>>,
         prompt' \in BOOLEAN, may_open' \in BOOLEAN,
         pc' = "loop", opening' = FALSE
  PROVE  IInv'
<1>1. /\ attached' \in BOOLEAN /\ rpc_attached' = attached' /\ (attached' => port # "none")
      /\ told' \in BOOLEAN /\ doubt' \in BOOLEAN
  BY Zenon DEF IInv, TypeOK, FlagsAgree
<1>2. (doubt => doubt') /\ (told' => rpc_attached' \/ doubt')
  BY DEF IInv, NotLeftAttached
<1> QED
  BY <1>1, <1>2, LoopAgain

\* No step, of either thread or of the board, breaks the invariant.
LEMMA StepInvariant == IInv /\ [Next]_vars => IInv'
<1> SUFFICES ASSUME IInv, [Next]_vars PROVE IInv'
  OBVIOUS
<1> USE IoWorkerAssumption DEF IoWorkerAssumption, IInv, TypeOK, FlagsAgree, OpeningIsDetached,
                               BrokenIsKnown, NotLeftAttached
<1>1. CASE Submit
  <2>1. PICK c \in Commands : queue' = Append(queue, c)
    BY <1>1 DEF Submit
  <2>2. c \in Command
    BY <2>1
  <2>3. queue' \in Seq(Command) /\ Len(queue') = Len(queue) + 1 /\ Len(queue) \in Nat
    BY <2>1, <2>2, JoinedCommand
  <2>4. /\ UNCHANGED <<stop, fresh, missed, attached, connected, pc, cmd, opening, port,
                       rpc_attached, may_open, last_error, prompt, told, doubt>>
        /\ UNCHANGED <<present, breaks>>
        /\ submitted' = submitted + 1 /\ submitted < MaxCommands /\ repl' = "loop"
    BY <1>1 DEF Submit, world, workerVars
  <2> QED
    BY <2>3, <2>4
<1>2. CASE ReadFlag \/ Show \/ Local \/ Stop
  <2>1. /\ UNCHANGED <<queue, submitted>> /\ UNCHANGED <<present, breaks>>
        /\ UNCHANGED <<attached, connected, pc, cmd, opening, port, rpc_attached,
                       may_open, last_error, told, doubt>>
    BY <1>2 DEF ReadFlag, Show, Local, Stop, world, workerVars
  <2>2. /\ stop' \in BOOLEAN /\ fresh' \in BOOLEAN /\ missed' \in BOOLEAN /\ prompt' \in BOOLEAN
        /\ repl' \in {"loop", "asked", "input"}
    BY <1>2 DEF ReadFlag, Show, Local, Stop, workerVars
  <2> QED
    BY <2>1, <2>2
<1>3. CASE Unplug
  <2>1. /\ UNCHANGED <<queue, stop, submitted, repl, fresh, missed>>
        /\ UNCHANGED <<attached, connected, pc, cmd, opening, rpc_attached,
                       may_open, last_error, prompt, told>>
        /\ present' = FALSE /\ doubt' = TRUE
        /\ breaks' = breaks + 1 /\ breaks < MaxBreaks
        /\ port' = IF port = "good" THEN "broken" ELSE port
    BY <1>3 DEF Unplug, Fault, shared
  <2>2. breaks' \in 0 .. MaxBreaks
    BY <2>1
  <2>3. port' \in {"none", "good", "broken"} /\ (port' = "none" <=> port = "none")
    BY <2>1
  <2>4. TypeOK'
    <3>1. /\ (queue \in Seq(Command) /\ Len(queue) <= submitted)'
          /\ (submitted \in 0 .. MaxCommands)' /\ (cmd \in Command \cup {"none"})'
      BY <2>1
    <3>2. (rpc_attached => port # "none")'
      BY <2>1, <2>3
    <3>3. /\ (stop \in BOOLEAN)' /\ (attached \in BOOLEAN)' /\ (connected \in BOOLEAN)'
          /\ (opening \in BOOLEAN)' /\ (rpc_attached \in BOOLEAN)' /\ (may_open \in BOOLEAN)'
          /\ (fresh \in BOOLEAN)' /\ (missed \in BOOLEAN)' /\ (prompt \in BOOLEAN)' /\ (present \in BOOLEAN)'
          /\ (told \in BOOLEAN)' /\ (doubt \in BOOLEAN)'
      BY <2>1, Zenon
    <3>4. /\ (pc \in {"loop", "execute", "attach", "connect", "announce", "list", "exited",
                     "terminated"})'
          /\ (last_error \in {"none", "no_port", "flush", "remote", "protocol"})'
          /\ (repl \in {"loop", "asked", "input"})'
      BY <2>1
    <3> HIDE DEF IInv
    <3> QED
      BY <2>2, <2>3, <3>1, <3>2, <3>3, <3>4
  <2>5. FlagsAgree' /\ OpeningIsDetached'
    BY <2>1, <2>3
  <2> QED
    BY <2>1, <2>4, <2>5
<1>4. CASE PlugIn
  <2>1. /\ UNCHANGED <<queue, stop, submitted, repl, fresh, missed, breaks>>
        /\ UNCHANGED <<attached, connected, pc, cmd, opening, port, rpc_attached,
                         may_open, last_error, prompt, told, doubt>>
        /\ present' = TRUE
    BY <1>4 DEF PlugIn, shared, workerVars
  <2> QED
    BY <2>1
<1>5. CASE ReopenIntervalPasses
  <2>1. /\ UNCHANGED <<queue, stop, submitted, repl, fresh, missed, present, breaks>>
        /\ UNCHANGED <<attached, connected, pc, cmd, opening, port, rpc_attached,
                       last_error, prompt, told, doubt>>
        /\ may_open' = TRUE
    BY <1>5 DEF ReopenIntervalPasses, shared, world
  <2> QED
    BY <2>1
<1>6. CASE Exit
  BY <1>6, LastWordHeard, ZenonT(120) DEF Exit, Close, Worker, shared, world
<1>7. CASE Take
  <2>1. /\ Head(queue) \in Command /\ Tail(queue) \in Seq(Command)
        /\ Len(Tail(queue)) = Len(queue) - 1 /\ Len(queue) \in Nat
    BY <1>7, TakenCommand DEF Take
  <2>2. queue' = Tail(queue) /\ submitted' = submitted
    BY <1>7 DEF Take
  <2>3. Len(queue') <= submitted'
    BY <2>1, <2>2
  <2> QED
    BY <1>7, <2>1, <2>2, <2>3 DEF Take, Running, world
<1>8. CASE Open
  BY <1>8 DEF Open, MayOpen, Running, Worker, shared, world
<1>9. CASE OpenFails
  BY <1>9 DEF OpenFails, MayOpen, Running, OpenThrows, Worker, shared, world
<1>10. CASE PollFails
  <2>1. UNCHANGED <<queue, stop, submitted, repl, fresh, missed, present, breaks>>
    BY <1>10 DEF PollFails, Worker, shared, world
  <2> QED
    BY <1>10, <2>1, LastWordHeard, ErrorHandled DEF PollFails
<1>28. CASE PollConfused
  <2>1. /\ UNCHANGED <<queue, stop, submitted, repl, fresh, missed, present, breaks>>
        /\ UNCHANGED <<attached, connected, pc, cmd, opening, port, rpc_attached,
                       may_open, last_error, told, doubt>>
        /\ prompt' \in BOOLEAN
    BY <1>28 DEF PollConfused, Worker, shared, world
  <2> QED
    BY <2>1
<1>11. CASE StartAttach
  BY <1>11 DEF StartAttach, Worker, shared, world
<1>12. CASE FlushThrows
  <2>1. CASE opening
    BY <1>12, <2>1 DEF FlushThrows, OpenThrows, Worker, shared, world
  <2>2. CASE ~opening
    BY <1>12, <2>2 DEF FlushThrows, Terminate, Worker, shared, world
  <2> QED
    BY <2>1, <2>2
<1>13. CASE Attached
  BY <1>13, ZenonT(120) DEF Attached, Worker, shared, world
<1>14. CASE AttachTimesOut
  <2>1. told' \in BOOLEAN /\ doubt' \in BOOLEAN /\ (doubt => doubt')
        /\ (told' => rpc_attached \/ doubt')
    BY <1>14, Unheard DEF AttachTimesOut
  <2> QED
    BY <1>14, <2>1, ZenonT(120) DEF AttachTimesOut, Return, Worker, shared, world
<1>15. CASE AttachFails
  <2>1. told' \in BOOLEAN /\ doubt' \in BOOLEAN /\ (told' => doubt')
    <3>1. CASE LastWord
      BY <3>1, LastWordHeard
    <3>2. CASE AttachUnheard /\ (rpc_attached => port = "broken")
      BY <3>2 DEF AttachUnheard
    <3> QED
      BY <1>15, <3>1, <3>2 DEF AttachFails
  <2> QED
    BY <1>15, <2>1, IoErrorFrame, ErrorHandled DEF AttachFails
<1>26. CASE AttachRefused
  <2>1. told' \in BOOLEAN /\ doubt' \in BOOLEAN /\ (doubt => doubt')
        /\ (told' => rpc_attached \/ doubt')
    BY <1>26, Unheard DEF AttachRefused
  <2>2. /\ UNCHANGED <<queue, stop, submitted, repl, fresh, missed, present>>
        /\ breaks' \in 0 .. MaxBreaks
    BY <1>26 DEF AttachRefused, Fault, shared
  <2>3. CASE opening
    BY <1>26, <2>1, <2>2, <2>3 DEF AttachRefused, OpenThrows
  <2>4. CASE ~opening
    BY <1>26, <2>1, <2>2, <2>4 DEF AttachRefused, Terminate
  <2> QED
    BY <2>3, <2>4
<1>27. CASE Announce
  <2>1. /\ UNCHANGED <<queue, stop, submitted, repl, fresh, present, breaks>>
        /\ UNCHANGED <<attached, connected, cmd, opening, port, rpc_attached,
                       may_open, last_error, told, doubt>>
        /\ prompt' \in BOOLEAN /\ missed' \in BOOLEAN
        /\ pc = "announce" /\ pc' = "list"
    BY <1>27 DEF Announce, world
  <2> QED
    BY <2>1
<1>16. CASE Listed
  <2>1. /\ UNCHANGED <<queue, stop, submitted, repl, fresh, missed, present, breaks>>
        /\ UNCHANGED <<attached, connected, cmd, port, rpc_attached, last_error, told, doubt>>
        /\ prompt' \in BOOLEAN /\ may_open' \in BOOLEAN
        /\ pc' = "loop" /\ opening' = FALSE
    BY <1>16 DEF Listed, Return, Worker, shared, world
  <2> QED
    BY <2>1, BackToLoop
<1>17. CASE NotConnected
  BY <1>17, ZenonT(120) DEF NotConnected, Executing, Return, Worker, shared, world
<1>18. CASE Exchange
  <2>1. CASE Return /\ UNCHANGED <<attached, connected, cmd, port, rpc_attached,
                                   last_error, prompt, told, doubt>>
              /\ Worker
    <3>1. /\ UNCHANGED <<queue, stop, submitted, repl, fresh, missed, present, breaks>>
          /\ UNCHANGED <<attached, connected, cmd, port, rpc_attached, last_error,
                         prompt, told, doubt>>
          /\ may_open' \in BOOLEAN
          /\ pc' = "loop" /\ opening' = FALSE
      BY <2>1 DEF Return, Worker, shared, world
    <3>2. prompt' \in BOOLEAN
      BY <3>1
    <3> QED
      BY <3>1, <3>2, BackToLoop
  <2>2. CASE IoError /\ HandleIoError /\ LastWord
    BY <2>2, LastWordHeard, IoErrorFrame, ErrorHandled
  <2> QED
    BY <1>18, <2>1, <2>2 DEF Exchange
<1>19. CASE AttachOrList
  BY <1>19 DEF AttachOrList, Executing, Enter, Worker, shared, world
<1>20. CASE ExecuteDetach
  <2>1. CASE IoError /\ HandleIoError /\ LastWord
    BY <2>1, LastWordHeard, IoErrorFrame, ErrorHandled
  <2>2. CASE /\ told' = (told /\ ~rpc_attached)
             /\ rpc_attached' = FALSE /\ attached' = FALSE /\ prompt' = FALSE
             /\ Return
             /\ UNCHANGED <<connected, cmd, port, last_error, doubt>>
             /\ Worker
    <3>1. /\ UNCHANGED <<queue, stop, submitted, repl, fresh, missed, present, breaks>>
          /\ UNCHANGED <<connected, cmd, port, last_error, doubt>>
          /\ attached' = FALSE /\ rpc_attached' = FALSE /\ prompt' = FALSE
          /\ pc' = "loop" /\ opening' = FALSE
      BY <2>2 DEF Return, Worker, shared, world
    <3>2. may_open' \in BOOLEAN /\ told' \in BOOLEAN /\ (told' => doubt)
      BY <2>2 DEF Return
    <3>3. /\ attached' \in BOOLEAN /\ rpc_attached' = attached' /\ (attached' => port # "none")
          /\ prompt' \in BOOLEAN /\ doubt' \in BOOLEAN
          /\ (doubt => doubt') /\ (told' => rpc_attached' \/ doubt')
      BY <3>1, <3>2
    <3> QED
      BY <3>1, <3>2, <3>3, LoopAgain
  <2> QED
    BY <1>20, <2>1, <2>2 DEF ExecuteDetach
<1>21. CASE ExecuteReset
  <2>1. CASE Terminate /\ UNCHANGED <<told, doubt>>
    BY <1>21, <2>1 DEF ExecuteReset, Executing, Terminate, Worker, shared, world
  <2>2. CASE /\ told' \in {told, FALSE} /\ prompt' = attached
             /\ Enter("attach") \/ Return
             /\ UNCHANGED <<attached, connected, cmd, port, rpc_attached,
                            last_error, doubt>>
    <3>1. told' \in BOOLEAN /\ (told' => told)
      <4>1. CASE told' = told
        BY <4>1
      <4>2. CASE told' = FALSE
        BY <4>2
      <4> QED
        BY <2>2, <4>1, <4>2
    <3>2. CASE Enter("attach")
      BY <1>21, <2>2, <3>1, <3>2
         DEF ExecuteReset, Executing, Enter, Worker, shared, world
    <3>3. CASE Return
      BY <1>21, <2>2, <3>1, <3>3, ZenonT(120)
         DEF ExecuteReset, Executing, Return, Worker, shared, world
    <3> QED
      BY <2>2, <3>2, <3>3
  <2> QED
    BY <1>21, <2>1, <2>2 DEF ExecuteReset
<1>22. CASE ExecuteHardReset
  <2>1. told' \in BOOLEAN /\ doubt' \in BOOLEAN /\ (told' => doubt') /\ prompt' \in BOOLEAN
    BY <1>22, LastWordHeard DEF ExecuteHardReset
  <2> QED
    BY <1>22, <2>1 DEF ExecuteHardReset, Executing, Worker, shared, world
<1>23. CASE ExecuteReconnect
  BY <1>23, LastWordHeard DEF ExecuteReconnect, Executing, Close, Worker, shared, world
<1>24. CASE ExecuteSetTimeout
  <2>1. CASE port = "none"
    BY <1>24, <2>1, ZenonT(120) DEF ExecuteSetTimeout, Executing, Return, Worker, shared, world
  <2>2. CASE port # "none"
    <3>1. told' \in BOOLEAN /\ doubt' \in BOOLEAN /\ (told' => doubt') /\ (doubt => doubt')
      BY <1>24, <2>2, LastWordHeard DEF ExecuteSetTimeout
    <3> QED
      BY <1>24, <2>2, <3>1, ZenonT(120)
      DEF ExecuteSetTimeout, Executing, Enter, Return, Worker, shared, world
  <2> QED
    BY <2>1, <2>2
<1>25. CASE UNCHANGED vars
  <2>1. /\ UNCHANGED <<queue, stop, submitted, repl, fresh, missed, present, breaks>>
        /\ UNCHANGED <<attached, connected, pc, cmd, opening, port, rpc_attached,
                         may_open, last_error, prompt, told, doubt>>
    BY <1>25 DEF vars, shared, world, workerVars
  <2> QED
    BY <2>1
<1> QED
  BY <1>1, <1>2, <1>3, <1>4, <1>5, <1>6, <1>7, <1>8, <1>9, <1>10, <1>11, <1>12, <1>13, <1>14, <1>15, <1>16, <1>17, <1>18, <1>19, <1>20, <1>21, <1>22, <1>23, <1>24, <1>25, <1>26, <1>27, <1>28
     DEF Next, ReplStep, WorkerStep, Execute

\* The worker's variables keep their types, and an RPC object its port.
THEOREM TypeCorrect == Spec => []TypeOK
<1>1. IInv => TypeOK
  BY DEF IInv
<1> QED
  BY <1>1, InitInvariant, StepInvariant, PTL DEF Spec

\* What attached() and connected() tell the REPL thread is true of the RPC object
\* and of the port, whatever command, poll or reopening lost or replaced them;
\* only a port that failed to open all the way leaves connected() set.
THEOREM FlagsAlwaysAgree == Spec => []FlagsAgree
<1>1. IInv => FlagsAgree
  BY DEF IInv
<1> QED
  BY <1>1, InitInvariant, StepInvariant, PTL DEF Spec

\* A board that carried out rpc.attach is told to detach before its port is closed
\* or its RPC object replaced, by stop(), a command or an error, unless the port
\* failed or rpc.detach fell short since, or the worker believed it detached when
\* rpc.attach went unanswered.
THEOREM NeverLeftAttached == Spec => []NotLeftAttached
<1>1. IInv => NotLeftAttached
  BY DEF IInv
<1> QED
  BY <1>1, InitInvariant, StepInvariant, PTL DEF Spec

-----------------------------------------------------------------------------
(* The prompt.                                                             *)

\* What make_prompt_ found holds until it is shown, but for an attach announced
\* meanwhile.
FreshIsTrue == repl = "asked" /\ attached /\ pc # "announce" => fresh \/ missed

PromptInv == PromptNeverHides /\ FreshIsTrue

\* A step that leaves the flag alone leaves or refreshes the prompt.
LEMMA FlagStays ==
  ASSUME PromptInv,
         UNCHANGED <<repl, fresh, missed, attached>>,
         prompt' = prompt \/ prompt' = attached,
         pc # "announce" \/ pc' = "announce"
  PROVE  PromptInv'
BY DEF PromptInv, PromptNeverHides, FreshIsTrue

\* A detached board is never hidden.
LEMMA FlagCleared == ASSUME attached' = FALSE PROVE PromptInv'
BY DEF PromptInv, PromptNeverHides, FreshIsTrue

\* Of the steps of the worker, Attached and Announce alone are more than that.
LEMMA StepPrompt == PromptInv /\ [Next]_vars => PromptInv'
<1> SUFFICES ASSUME PromptInv, [Next]_vars PROVE PromptInv'
  OBVIOUS
<1>1. CASE ReplStep
  <2>1. CASE ReadFlag
    BY <2>1 DEF ReadFlag, workerVars, PromptInv, PromptNeverHides, FreshIsTrue
  <2>2. CASE Show
    BY <2>2 DEF Show, PromptInv, PromptNeverHides, FreshIsTrue
  <2>3. CASE Submit \/ Local
    BY <2>3 DEF Submit, Local, PromptInv, PromptNeverHides, FreshIsTrue
  <2>4. CASE Stop
    BY <2>4 DEF Stop, workerVars, PromptInv, PromptNeverHides, FreshIsTrue
  <2> QED
    BY <1>1, <2>1, <2>2, <2>3, <2>4 DEF ReplStep
<1>2. CASE Unplug \/ PlugIn \/ ReopenIntervalPasses \/ UNCHANGED vars
  <2>1. UNCHANGED <<repl, fresh, missed, attached, prompt, pc>>
    BY <1>2 DEF Unplug, PlugIn, ReopenIntervalPasses, shared, workerVars, vars
  <2> QED
    BY <2>1, FlagStays
<1>3. CASE Exit \/ ExecuteReconnect
  BY <1>3, FlagCleared DEF Exit, ExecuteReconnect, Close
<1>4. CASE Take
  BY <1>4, FlagStays DEF Take, Running
<1>5. CASE Open \/ OpenFails \/ PollConfused
  BY <1>5, FlagStays DEF Open, OpenFails, MayOpen, Running, OpenThrows, PollConfused, Worker,
                         shared
<1>6. CASE PollFails \/ AttachFails
  BY <1>6, FlagCleared DEF PollFails, AttachFails, HandleIoError
<1>7. CASE StartAttach \/ FlushThrows
  BY <1>7, FlagStays DEF StartAttach, FlushThrows, OpenThrows, Terminate, Worker, shared
<1>8. CASE Attached
  BY <1>8 DEF Attached, PromptInv, PromptNeverHides, FreshIsTrue
<1>9. CASE Announce
  <2>1. /\ prompt' = attached /\ missed' = (repl = "asked")
        /\ UNCHANGED <<repl, attached>>
    BY <1>9 DEF Announce
  <2> QED
    BY <2>1 DEF PromptInv, PromptNeverHides, FreshIsTrue
<1>10. CASE AttachTimesOut \/ AttachRefused
  BY <1>10, FlagStays DEF AttachTimesOut, AttachRefused, Return, OpenThrows, Terminate, Worker,
                          shared
<1>11. CASE Listed \/ NotConnected \/ AttachOrList
  BY <1>11, FlagStays DEF Listed, NotConnected, AttachOrList, Executing, Enter, Return, Worker,
                          shared
<1>12. CASE Exchange
  BY <1>12, FlagStays, FlagCleared DEF Exchange, Executing, Return, HandleIoError, Worker, shared
<1>13. CASE ExecuteDetach \/ ExecuteHardReset
  BY <1>13, FlagCleared DEF ExecuteDetach, ExecuteHardReset, HandleIoError
<1>14. CASE ExecuteReset
  BY <1>14, FlagStays DEF ExecuteReset, Executing, Terminate, Worker, shared
<1>15. CASE ExecuteSetTimeout
  <2>1. CASE port = "none"
    BY <1>15, <2>1, FlagStays DEF ExecuteSetTimeout, Executing, Return, Worker, shared
  <2>2. CASE port # "none"
    BY <1>15, <2>2, FlagCleared DEF ExecuteSetTimeout
  <2> QED
    BY <2>1, <2>2
<1> QED
  BY <1>1, <1>2, <1>3, <1>4, <1>5, <1>6, <1>7, <1>8, <1>9, <1>10, <1>11, <1>12, <1>13, <1>14,
     <1>15
  DEF Next, WorkerStep, Execute

\* However attaching, detaching and the loss of the board interleave with the
\* REPL thread, the prompt under which a command to an attached board is given
\* shows it attached, unless "attached" is yet to be announced or was announced
\* between make_prompt_() and the input() that shows what it made.
THEOREM PromptIsUpToDate == Spec => []PromptNeverHides
<1>1. Init => PromptInv
  BY DEF Init, PromptInv, PromptNeverHides, FreshIsTrue
<1>2. PromptInv => PromptNeverHides
  BY DEF PromptInv
<1> QED
  BY <1>1, <1>2, StepPrompt, PTL DEF Spec
=============================================================================
