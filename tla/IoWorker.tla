------------------------------ MODULE IoWorker ------------------------------
(***************************************************************************)
(* rpc_repl's IoWorker (io_worker.hpp): a thread that owns the SerialPort  *)
(* and the RPC object and runs the commands the REPL thread queues, while  *)
(* the board comes and goes.  What an RPC object does inside a blocking    *)
(* call is HostRpc; here a call ends well, times out, or finds the port    *)
(* broken.  Between two steps of the worker the REPL thread may submit or  *)
(* stop, and the board may be unplugged and plugged in again.              *)
(*                                                                         *)
(* A port that fails stays broken until it is closed: reads and writes on  *)
(* it are an IoError of serial_rpc, which the commands catch; flush_input  *)
(* and set_dtr throw std::system_error, which only try_open_ does.  On a   *)
(* good port a write may still fall short (its timeout is 50 ms), which is *)
(* the same IoError.                                                       *)
(***************************************************************************)
EXTENDS Naturals, Sequences

CONSTANTS
  AutoAttach,   \* IoWorkerOptions::auto_attach
  Commands,     \* the commands the user may give
  MaxCommands,  \* bound on the commands submitted
  MaxBreaks     \* bound on what goes wrong: the port, a write, an attach refused

Command == {"call", "notify", "text", "attach", "detach", "list",
            "reset", "hard_reset", "reconnect", "timeout"}

ASSUME IoWorkerAssumption ==
  /\ AutoAttach \in BOOLEAN
  /\ Commands \subseteq Command
  /\ MaxCommands \in Nat /\ MaxBreaks \in Nat

VARIABLES
  queue, stop, attached, connected,     \* shared by the two threads
  pc,             \* of the I/O thread
  cmd,            \* the command being executed
  opening,        \* attach_ was called by try_open_, not by a command
  port,           \* _port: "none", or a SerialPort, "good" or "broken"
  rpc_attached,   \* the _attached of _rpc, which lives as long as the port
  may_open,       \* _next_open_attempt has come
  last_error,     \* _last_open_error, "none" when it is empty
  repl,           \* the REPL thread: in its "loop", "asked" for the flag, at "input"
  fresh,          \* the marker make_prompt_ found, not shown yet
  missed,         \* history: "attached" was last announced between the making of a
                  \* prompt and its showing, and no prompt was made since
  prompt,         \* the attached marker replxx shows
  present,        \* the board is plugged in
  told,           \* history: the board carried out connect()'s rpc.attach, as far
                  \* as can be known, and was not told to detach or reset since
  doubt,          \* history: since rpc.attach was answered last, the port failed,
                  \* rpc.attach went unanswered while the worker believed the board
                  \* detached, or rpc.detach fell short
  submitted, breaks

shared  == <<queue, stop, submitted, repl, fresh, missed>>
world   == <<present, breaks>>
workerVars == <<attached, connected, pc, cmd, opening, port, rpc_attached,
                may_open, last_error, prompt, told, doubt>>
vars == <<shared, world, workerVars>>

Init ==
  /\ queue = <<>> /\ stop = FALSE /\ submitted = 0
  /\ attached = FALSE /\ connected = FALSE
  /\ pc = "loop" /\ cmd = "none" /\ opening = FALSE
  /\ port = "none" /\ rpc_attached = FALSE
  /\ may_open = TRUE /\ last_error = "none"
  /\ repl = "loop" /\ fresh = FALSE /\ missed = FALSE /\ prompt = FALSE
  /\ present \in BOOLEAN /\ breaks = 0
  /\ told = FALSE /\ doubt = FALSE

Ended == pc \in {"exited", "terminated"}

-----------------------------------------------------------------------------
(* The REPL thread, the board and the clock.                               *)

\* make_prompt_ reads the flag ...
ReadFlag == /\ repl = "loop"
            /\ repl' = "asked" /\ fresh' = attached /\ missed' = FALSE
            /\ UNCHANGED <<queue, stop, submitted, world, workerVars>>

\* ... and input() shows what it made of it, whatever set_prompt did since.
Show == /\ repl = "asked"
        /\ repl' = "input" /\ fresh' = FALSE
        /\ prompt' = fresh
        /\ UNCHANGED <<queue, stop, submitted, missed, world, attached, connected, pc, cmd,
                       opening, port, rpc_attached, may_open, last_error, told, doubt>>

Submit == /\ repl = "input" /\ ~stop /\ pc # "terminated"
          /\ submitted < MaxCommands
          /\ \E c \in Commands : queue' = Append(queue, c)
          /\ submitted' = submitted + 1
          /\ repl' = "loop"
          /\ UNCHANGED <<stop, fresh, missed, world, workerVars>>

\* A line the REPL handles by itself.
Local == /\ repl = "input" /\ ~stop
         /\ repl' = "loop"
         /\ UNCHANGED <<queue, stop, submitted, fresh, missed, world, workerVars>>

\* .quit or Ctrl-D: run() returns, and its caller stops the worker.
Stop == /\ repl = "input" /\ ~stop /\ pc # "terminated"
        /\ stop' = TRUE
        /\ UNCHANGED <<queue, submitted, repl, fresh, missed, world, workerVars>>

Fault == breaks < MaxBreaks /\ breaks' = breaks + 1

Unplug == /\ present /\ pc # "terminated"
          /\ Fault
          /\ present' = FALSE
          /\ port' = IF port = "good" THEN "broken" ELSE port
          /\ doubt' = TRUE
          /\ UNCHANGED <<shared, attached, connected, pc, cmd, opening, rpc_attached,
                         may_open, last_error, prompt, told>>

PlugIn == /\ ~present
          /\ present' = TRUE
          /\ UNCHANGED <<shared, breaks, workerVars>>

ReopenIntervalPasses ==
  /\ ~may_open
  /\ may_open' = TRUE
  /\ UNCHANGED <<shared, world, attached, connected, pc, cmd, opening, port,
                 rpc_attached, last_error, prompt, told, doubt>>

-----------------------------------------------------------------------------
(* Closing.                                                                *)

\* disconnect() before the RPC object goes: the board is told to detach, unless
\* the port is broken, or takes rpc.detach too slowly.
LastWord == \/ /\ told' = (told /\ ~(rpc_attached /\ port = "good"))
               /\ UNCHANGED doubt
            \/ /\ rpc_attached /\ port = "good"
               /\ doubt' = TRUE
               /\ UNCHANGED told

\* Mutant: the port is closed without a word to the board.
CloseSilently ==
  /\ port' = "none" /\ rpc_attached' = FALSE
  /\ attached' = FALSE /\ connected' = FALSE
  /\ UNCHANGED <<told, doubt>>

\* Mutant: the RPC object outlives its port.
CloseKeepsRpc ==
  /\ LastWord
  /\ port' = "none"
  /\ attached' = FALSE /\ connected' = FALSE
  /\ UNCHANGED rpc_attached

\* close_(true): disconnect(), whose failure is ignored, then both objects go.
Close ==
  /\ LastWord
  /\ port' = "none" /\ rpc_attached' = FALSE
  /\ attached' = FALSE /\ connected' = FALSE

\* The end of attach_ or of a command; try_open_ is due again in 500 ms.
Return == /\ pc' = "loop"
          /\ opening' = FALSE
          /\ may_open' = (may_open /\ ~opening)

\* handle_io_error_.  Its message refreshes the prompt before attached is reset;
\* ~RPC still says rpc.detach (LastWord), whatever the comment on close_ has it.
HandleIoError ==
  /\ prompt' = attached
  /\ port' = "none" /\ rpc_attached' = FALSE
  /\ attached' = FALSE /\ connected' = FALSE
  /\ last_error' = "none"
  /\ may_open' = FALSE
  /\ pc' = "loop" /\ opening' = FALSE
  /\ UNCHANGED cmd

\* An exception nobody catches leaves thread_main_: std::terminate.
Terminate == /\ pc' = "terminated"
             /\ UNCHANGED <<attached, connected, cmd, opening, port, rpc_attached,
                            may_open, last_error, prompt>>

Worker == UNCHANGED <<shared, world>>

\* Every exchange with a broken port is an IoError, a few with a good one are.
IoError == \/ port = "broken" /\ Worker
           \/ port = "good" /\ Fault /\ UNCHANGED <<shared, present>>

-----------------------------------------------------------------------------
(* thread_main_.  It looks at _stop before it takes a command, after it    *)
(* has run one and before it touches the port: here, whenever at "loop".   *)

\* Mutant: a thread without a port keeps retrying and never looks at _stop.
ExitWithPort == /\ pc = "loop" /\ stop /\ port # "none"
                /\ Close
                /\ pc' = "exited"
                /\ UNCHANGED <<cmd, opening, may_open, last_error, prompt>>
                /\ Worker

Exit == /\ pc = "loop" /\ stop
        /\ Close
        /\ pc' = "exited"
        /\ UNCHANGED <<cmd, opening, may_open, last_error, prompt>>
        /\ Worker

Running == pc = "loop" /\ ~stop

\* Mutant: commands wait for the port.
TakeWithPort == /\ Running /\ queue # <<>> /\ port # "none"
                /\ cmd' = Head(queue)
                /\ queue' = Tail(queue)
                /\ pc' = "execute"
                /\ UNCHANGED <<stop, submitted, repl, fresh, missed, world, attached, connected,
                               opening, port, rpc_attached, may_open, last_error, prompt, told, doubt>>

Take == /\ Running /\ queue # <<>>
        /\ cmd' = Head(queue)
        /\ queue' = Tail(queue)
        /\ pc' = "execute"
        /\ UNCHANGED <<stop, submitted, repl, fresh, missed, world, attached, connected, opening,
                       port, rpc_attached, may_open, last_error, prompt, told, doubt>>

\* What try_open_ catches, with no RPC object attached yet; the same failure is
\* announced only once.
OpenThrows(what) ==
  /\ port' = "none" /\ rpc_attached' = FALSE
  /\ last_error' = what
  /\ prompt' = IF last_error = what THEN prompt ELSE attached
  /\ may_open' = FALSE
  /\ pc' = "loop" /\ opening' = FALSE
  /\ UNCHANGED <<attached, connected, cmd>>

MayOpen == Running /\ queue = <<>> /\ port = "none" /\ may_open

Open == /\ MayOpen /\ present
        /\ port' = "good" /\ rpc_attached' = FALSE
        /\ connected' = TRUE
        /\ last_error' = "none"
        /\ prompt' = attached
        /\ pc' = IF AutoAttach THEN "attach" ELSE "loop"
        /\ opening' = AutoAttach
        /\ may_open' = AutoAttach
        /\ UNCHANGED <<attached, cmd, told, doubt>>
        /\ Worker

OpenFails == /\ MayOpen /\ ~present
             /\ OpenThrows("no_port")
             /\ UNCHANGED <<told, doubt>>
             /\ Worker

\* Mutant: the port is only watched while attached.
PollFailsIfAttached == /\ Running /\ queue = <<>> /\ port = "broken" /\ attached
                       /\ HandleIoError /\ LastWord
                       /\ Worker

PollFails == /\ Running /\ queue = <<>> /\ port = "broken"
             /\ HandleIoError /\ LastWord
             /\ Worker

\* A good port gives messages, which change nothing here, but that a ProtocolError
\* is announced.
PollConfused == /\ Running /\ queue = <<>> /\ port = "good"
                /\ prompt' = attached
                /\ UNCHANGED <<attached, connected, pc, cmd, opening, port, rpc_attached,
                               may_open, last_error, told, doubt>>
                /\ Worker

-----------------------------------------------------------------------------
(* attach_: flush_input, connect(), then the list of methods.              *)

StartAttach == /\ pc = "attach" /\ port = "good"
               /\ pc' = "connect"
               /\ UNCHANGED <<attached, connected, cmd, opening, port, rpc_attached,
                              may_open, last_error, prompt, told, doubt>>
               /\ Worker

FlushThrows == /\ pc = "attach" /\ port = "broken"
               /\ IF opening THEN OpenThrows("flush") ELSE Terminate
               /\ UNCHANGED <<told, doubt>>
               /\ Worker

\* Mutant: "attached" is announced before the flag is stored.
AnnouncedTooSoon == /\ pc = "connect" /\ port = "good"
                    /\ rpc_attached' = TRUE /\ attached' = TRUE
                    /\ told' = TRUE /\ doubt' = FALSE
                    /\ prompt' = attached
                    /\ pc' = "list"
                    /\ UNCHANGED <<connected, cmd, opening, port, may_open, last_error>>
                    /\ Worker

\* The flag is stored ...
Attached == /\ pc = "connect" /\ port = "good"
            /\ rpc_attached' = TRUE /\ attached' = TRUE
            /\ told' = TRUE /\ doubt' = FALSE
            /\ pc' = "announce"
            /\ UNCHANGED <<connected, cmd, opening, port, may_open, last_error, prompt>>
            /\ Worker

\* ... and then announced, which refreshes the prompt.
Announce == /\ pc = "announce"
            /\ prompt' = attached /\ missed' = (repl = "asked")
            /\ pc' = "list"
            /\ UNCHANGED <<queue, stop, submitted, repl, fresh, world, attached, connected, cmd,
                           opening, port, rpc_attached, may_open, last_error, told, doubt>>

\* connect() threw, but the board may have carried out rpc.attach, or will yet; an
\* RPC object that was attached before still says rpc.detach when it goes.
AttachUnheard == told' = TRUE /\ doubt' = (doubt \/ ~rpc_attached)

AttachTimesOut == /\ pc = "connect" /\ port = "good"
                  /\ prompt' = attached
                  /\ Return
                  /\ AttachUnheard \/ UNCHANGED <<told, doubt>>
                  /\ UNCHANGED <<attached, connected, cmd, port, rpc_attached, last_error>>
                  /\ Worker

AttachFails == /\ pc = "connect"
               /\ IoError
               /\ HandleIoError
               /\ LastWord \/ (AttachUnheard /\ (rpc_attached => port = "broken"))

\* A RemoteError, of a probe or of rpc.attach, or the ProtocolError of a message
\* that came meanwhile: attach_ does not catch them.
AttachRefused == /\ pc = "connect" /\ port = "good"
                 /\ Fault /\ UNCHANGED <<shared, present>>
                 /\ IF opening THEN \E what \in {"remote", "protocol"} : OpenThrows(what)
                    ELSE Terminate
                 /\ AttachUnheard \/ UNCHANGED <<told, doubt>>

\* refresh_methods_ reports any failure, that of the port included, and goes on.
Listed == /\ pc = "list"
          /\ \/ prompt' = prompt /\ port = "good"
             \/ prompt' = attached
          /\ Return
          /\ UNCHANGED <<attached, connected, cmd, port, rpc_attached, last_error,
                         told, doubt>>
          /\ Worker

-----------------------------------------------------------------------------
(* execute_.                                                               *)

Executing(commands) == pc = "execute" /\ cmd \in commands

NotConnected ==
  /\ Executing({"call", "notify", "text", "attach", "detach", "list", "reset"})
  /\ port = "none"
  /\ Return
  /\ UNCHANGED <<attached, connected, cmd, port, rpc_attached, last_error, prompt,
                 told, doubt>>
  /\ Worker

\* A result, a remote error and a timeout leave the worker as it was; so does a
\* request too large for max_frame, refused before the port is touched.
Exchange == /\ Executing({"call", "notify", "text"})
            /\ port # "none"
            /\ \/ /\ port = "broken" => cmd # "text"
                  /\ Return
                  /\ UNCHANGED <<attached, connected, cmd, port, rpc_attached,
                                 last_error, prompt, told, doubt>>
                  /\ Worker
               \/ IoError /\ HandleIoError /\ LastWord

\* A step into attach_ or refresh_methods_.
Enter(place) == /\ pc' = place
                /\ UNCHANGED <<opening, may_open>>

AttachOrList == /\ Executing({"attach", "list"})
                /\ port # "none"
                /\ Enter(cmd)
                /\ UNCHANGED <<attached, connected, cmd, port, rpc_attached, last_error,
                               prompt, told, doubt>>
                /\ Worker

ExecuteDetach ==
  /\ Executing({"detach"})
  /\ port # "none"
  /\ \/ rpc_attached /\ IoError /\ HandleIoError /\ LastWord
     \/ /\ rpc_attached => port = "good"
        /\ told' = (told /\ ~rpc_attached)
        /\ rpc_attached' = FALSE /\ attached' = FALSE
        /\ prompt' = FALSE
        /\ Return
        /\ UNCHANGED <<connected, cmd, port, last_error, doubt>>
        /\ Worker

\* DTR: a board without an auto-reset circuit takes no notice.
ExecuteReset ==
  /\ Executing({"reset"})
  /\ \/ port = "broken" /\ Terminate /\ UNCHANGED <<told, doubt>>
     \/ /\ port = "good"
        /\ told' \in {told, FALSE}
        /\ prompt' = attached
        /\ IF AutoAttach THEN Enter("attach") ELSE Return
        /\ UNCHANGED <<attached, connected, cmd, port, rpc_attached, last_error, doubt>>
  /\ Worker

\* The touch at 1200 baud resets a board that watches for it; a failure to open
\* the port for it is announced.
ExecuteHardReset ==
  /\ Executing({"hard_reset"})
  /\ port' = "none" /\ rpc_attached' = FALSE
  /\ attached' = FALSE /\ connected' = FALSE
  /\ LastWord \/ (present /\ told' = FALSE /\ UNCHANGED doubt)
  /\ prompt' = FALSE \/ (present /\ prompt' = attached)
  /\ may_open' = TRUE
  /\ pc' = "loop"
  /\ UNCHANGED <<cmd, opening, last_error>>
  /\ Worker

ExecuteReconnect == /\ Executing({"reconnect"})
                    /\ Close
                    /\ prompt' = FALSE
                    /\ may_open' = TRUE
                    /\ pc' = "loop"
                    /\ UNCHANGED <<cmd, opening, last_error>>
                    /\ Worker

\* Mutant: the atomic flag is forgotten when the RPC object is replaced.
SetTimeoutStaysAttached ==
  /\ Executing({"timeout"})
  /\ IF port = "none"
     THEN Return /\ UNCHANGED <<told, doubt, rpc_attached>>
     ELSE /\ LastWord
          /\ rpc_attached' = FALSE
          /\ IF attached THEN Enter("attach") ELSE Return
  /\ prompt' = attached
  /\ UNCHANGED <<attached, connected, cmd, port, last_error>>
  /\ Worker

\* A new RPC object on the same port; ~RPC says rpc.detach.
ExecuteSetTimeout ==
  /\ Executing({"timeout"})
  /\ IF port = "none"
     THEN Return /\ UNCHANGED <<told, doubt, rpc_attached, attached>>
     ELSE /\ LastWord
          /\ rpc_attached' = FALSE /\ attached' = FALSE
          /\ IF attached THEN Enter("attach") ELSE Return
  /\ prompt' = attached'
  /\ UNCHANGED <<connected, cmd, port, last_error>>
  /\ Worker

Execute == \/ NotConnected \/ Exchange \/ AttachOrList \/ ExecuteDetach
           \/ ExecuteReset \/ ExecuteHardReset \/ ExecuteReconnect \/ ExecuteSetTimeout

WorkerStep == \/ Exit \/ Take \/ Open \/ OpenFails \/ PollFails \/ PollConfused
              \/ StartAttach \/ FlushThrows \/ Attached \/ Announce \/ AttachTimesOut
              \/ AttachFails \/ AttachRefused \/ Listed \/ Execute

ReplStep == ReadFlag \/ Show \/ Submit \/ Local \/ Stop

Next == ReplStep \/ Unplug \/ PlugIn \/ ReopenIntervalPasses \/ WorkerStep

Spec == Init /\ [][Next]_vars

\* The thread runs and its clock moves; calls are bounded by their timeouts.
FairSpec == Spec /\ WF_vars(WorkerStep) /\ WF_vars(ReopenIntervalPasses)

-----------------------------------------------------------------------------

\* An RPC object refers to its port, which must outlive it.
TypeOK ==
  /\ queue \in Seq(Command) /\ Len(queue) <= submitted
  /\ stop \in BOOLEAN /\ attached \in BOOLEAN /\ connected \in BOOLEAN
  /\ pc \in {"loop", "execute", "attach", "connect", "announce", "list", "exited", "terminated"}
  /\ cmd \in Command \cup {"none"}
  /\ opening \in BOOLEAN
  /\ port \in {"none", "good", "broken"}
  /\ rpc_attached \in BOOLEAN /\ (rpc_attached => port # "none")
  /\ may_open \in BOOLEAN
  /\ last_error \in {"none", "no_port", "flush", "remote", "protocol"}
  /\ repl \in {"loop", "asked", "input"} /\ fresh \in BOOLEAN /\ missed \in BOOLEAN
  /\ prompt \in BOOLEAN /\ present \in BOOLEAN
  /\ told \in BOOLEAN /\ doubt \in BOOLEAN
  /\ submitted \in 0 .. MaxCommands /\ breaks \in 0 .. MaxBreaks

\* What attached() tells the REPL thread is what the RPC object believes, and
\* an attached worker has an open port it reports: whichever of a command, a
\* poll or a reopening attempt lost or replaced the port or the object.
FlagsAgree == /\ attached = rpc_attached
              /\ port # "none" => connected

\* A board that carried out rpc.attach is not left behind attached, neither by
\* stop() nor by a command, a failed write or a refused reopening: it was told to
\* detach, or is known to be attached, or its port failed, rpc.detach itself fell
\* short, or it was attached unheard, by a worker that believed it detached.  It
\* would write frames to the port for ever.
NotLeftAttached == told => rpc_attached \/ doubt

\* stop() returns: whatever the thread was doing, it comes to an end.
StopJoins == stop ~> Ended

\* Each command is taken in time, with or without a port, until stop().
CommandsAreTaken ==
  \A n \in 1 .. MaxCommands :
    (submitted >= n) ~> (submitted - Len(queue) >= n \/ stop \/ Ended)

\* A board that is plugged in for good is found again, however often its port
\* failed before.
Recovers == <>[]present => <>[](port = "good" \/ stop \/ Ended)

\* The plan's Resilience: on an I/O error or unplug the I/O thread closes the
\* port and retries.  It never dies of it.
SurvivesUnplug == ~(pc = "terminated" /\ port = "broken")

\* The [sys] line that announces an attach refreshes the prompt: no user is asked
\* under the prompt of a detached board for a command to an attached one, whatever
\* the worker does meanwhile, except before that line is out or when it came
\* between the making of the prompt and its showing.
PromptNeverHides == repl = "input" /\ attached /\ pc # "announce" => prompt \/ missed
=============================================================================
