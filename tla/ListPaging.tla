----------------------------- MODULE ListPaging -----------------------------
(***************************************************************************)
(* rpc.list: RPC::list() of serial_rpc.hpp collects, page by page, the     *)
(* handlers of the device (server.h), which may bind more of them, or bind *)
(* one again, between two pages, and may be flashed with another program.  *)
(* A device may also be of the older kind that ignores "start" and answers *)
(* with everything; the host has to cope with either.                      *)
(***************************************************************************)
EXTENDS Naturals, Sequences, FiniteSetsExt

CONSTANTS
  Name,           \* method names
  Size,           \* encoded sizes of a [name, signature] entry
  MaxHandlers,    \* of the device's table
  ResultScratch,  \* kResultScratch, what a result may take
  HeaderLen,      \* kArrayHeaderLen
  MaxPages,       \* kMaxListPages
  MaxBinds        \* bound on the bindings made after setup()

Entry == [name : Name, size : Size]

ASSUME ListPagingAssumption ==
  /\ Size \subseteq Nat \ {0}
  /\ MaxHandlers \in Nat /\ MaxPages \in Nat /\ MaxBinds \in Nat
  /\ ResultScratch \in Nat /\ HeaderLen \in Nat /\ HeaderLen <= ResultScratch

VARIABLES
  handlers, dropped, pages_everything,  \* the device: table, bindings refused, kind
  out, iter,      \* collect_rpc_list_pages
  phase,          \* of list(): "next", "asked", "answered", "done", "failed"
  answer,         \* the page, the "start" it was asked with, the entries read
  binds,
  bound,          \* history: the table when list() was called
  flashed         \* history: the program was replaced since

deviceVars == <<handlers, dropped, pages_everything>>
hostVars   == <<out, iter, phase, answer>>
vars == <<deviceVars, hostVars, binds, bound, flashed>>

Names(table) == {table[i].name : i \in DOMAIN table}

\* The tables a setup() can leave: add_handler_ keeps the names distinct.
Tables == {t \in UNION {[1 .. n -> Entry] : n \in 0 .. MaxHandlers} :
             \A i, j \in DOMAIN t : t[i].name = t[j].name => i = j}

NoAnswer == [start |-> 0, page |-> <<>>, read |-> 0]

Init == /\ handlers \in Tables /\ dropped = 0 /\ pages_everything \in BOOLEAN
        /\ out = <<>> /\ iter = 0 /\ phase = "next"
        /\ answer = NoAnswer
        /\ binds = 0 /\ bound = handlers /\ flashed = FALSE

-----------------------------------------------------------------------------
(* The device.                                                             *)

\* A name bound again keeps its place; a full table refuses a new one.
add_handler_(table, e) ==
  IF e.name \in Names(table)
  THEN [i \in DOMAIN table |-> IF table[i].name = e.name THEN e ELSE table[i]]
  ELSE IF Len(table) < MaxHandlers THEN Append(table, e) ELSE table

Bind(e) == /\ binds < MaxBinds
           /\ binds' = binds + 1
           /\ handlers' = add_handler_(handlers, e)
           /\ dropped' = IF e.name \notin Names(handlers) /\ Len(handlers) >= MaxHandlers
                         THEN dropped + 1 ELSE dropped
           /\ UNCHANGED <<pages_everything, hostVars, bound, flashed>>

Flash == /\ ~flashed
         /\ handlers' \in Tables
         /\ flashed' = TRUE
         /\ dropped' = 0
         /\ bound' = <<>>
         /\ UNCHANGED <<pages_everything, hostVars, binds>>

\* What the entries first .. last of a table take.
Taken(table, first, last) == MapThenSumSet(LAMBDA i : table[i].size, first .. last)

Fits(table, start, n) ==
  HeaderLen + Taken(table, start + 1, start + n) <= ResultScratch

\* As many entries from start (counted from 0) as fit.
PageLength(table, start) ==
  Max({n \in 0 .. Len(table) - start :
         \A m \in 1 .. n : Fits(table, start, m)})

\* Mutant: what does not fit ends the list.
ServeAndEnd ==
  /\ phase = "asked" /\ ~pages_everything
  /\ LET start == answer.start
         n     == IF start >= Len(handlers) THEN 0 ELSE PageLength(handlers, start)
     IN /\ phase' = "answered"
        /\ answer' = [answer EXCEPT !.page = SubSeq(handlers, start + 1, start + n)]
  /\ UNCHANGED <<deviceVars, out, iter, binds, bound, flashed>>

\* pack_rpc_list_result_; past the end the page is empty, which is no error.
Serve ==
  /\ phase = "asked" /\ ~pages_everything
  /\ LET start == answer.start
         n     == IF start >= Len(handlers) THEN 0 ELSE PageLength(handlers, start)
     IN IF start < Len(handlers) /\ n = 0
        THEN phase' = "failed" /\ UNCHANGED answer    \* "response too large"
        ELSE /\ phase' = "answered"
             /\ answer' = [answer EXCEPT !.page = SubSeq(handlers, start + 1, start + n)]
  /\ UNCHANGED <<deviceVars, out, iter, binds, bound, flashed>>

\* A device that does not page; external.
ServeEverything ==
  /\ phase = "asked" /\ pages_everything
  /\ phase' = "answered"
  /\ answer' = [answer EXCEPT !.page = handlers]
  /\ UNCHANGED <<deviceVars, out, iter, binds, bound, flashed>>

-----------------------------------------------------------------------------
(* collect_rpc_list_pages.                                                 *)

Ask == /\ phase = "next"
       /\ iter < MaxPages
       /\ phase' = "asked"
       /\ answer' = [NoAnswer EXCEPT !.start = Len(out)]
       /\ UNCHANGED <<deviceVars, out, iter, binds, bound, flashed>>

GiveUp == /\ phase = "next"
          /\ iter = MaxPages
          /\ phase' = "done"
          /\ UNCHANGED <<deviceVars, out, iter, answer, binds, bound, flashed>>

\* Mutant: what is already known is not looked for.
KnownAnyway(name) == FALSE

\* already_have
Known(name) == \E i \in DOMAIN out : out[i] = name

\* One turn of the loop over the page.
CollectEntry ==
  /\ phase = "answered"
  /\ answer.read < Len(answer.page)
  /\ LET name == answer.page[answer.read + 1].name
     IN out' = IF Known(name) THEN out ELSE Append(out, name)
  /\ answer' = [answer EXCEPT !.read = @ + 1]
  /\ UNCHANGED <<deviceVars, iter, phase, binds, bound, flashed>>

\* Mutant: only an empty page ends the list, only a useful one is counted.
EndPageUntilEmpty ==
  /\ phase = "answered"
  /\ answer.read = Len(answer.page)
  /\ phase' = IF answer.page = <<>> THEN "done" ELSE "next"
  /\ iter' = IF Len(out) = answer.start THEN iter ELSE iter + 1
  /\ answer' = NoAnswer
  /\ UNCHANGED <<deviceVars, out, binds, bound, flashed>>

\* An empty page, or one that added nothing to what there was when it was
\* asked for, ends the list.
EndPage ==
  /\ phase = "answered"
  /\ answer.read = Len(answer.page)
  /\ IF Len(out) = answer.start
     THEN phase' = "done" /\ UNCHANGED iter
     ELSE phase' = "next" /\ iter' = iter + 1
  /\ answer' = NoAnswer
  /\ UNCHANGED <<deviceVars, out, binds, bound, flashed>>

\* The call times out or the port fails: list() throws.
CallFails == /\ phase = "asked"
             /\ phase' = "failed"
             /\ UNCHANGED <<deviceVars, out, iter, answer, binds, bound, flashed>>

Host == Ask \/ GiveUp \/ CollectEntry \/ EndPage
Next == (\E e \in Entry : Bind(e)) \/ Flash \/ Serve \/ ServeEverything \/ Host \/ CallFails

Spec == Init /\ [][Next]_vars
FairSpec == Spec /\ WF_vars(Host) /\ WF_vars(Serve \/ ServeEverything \/ CallFails)

-----------------------------------------------------------------------------

\* No method is listed twice, whatever kind of device answers, and even if it
\* is flashed between two pages: the number of distinct names is what the next
\* page is asked from.
NoDuplicates == \A i, j \in DOMAIN out : out[i] = out[j] => i = j

\* A list that is returned has every method that was bound when list() was
\* called, in the order of the table, although more may be bound or bound again
\* with a longer signature while it is read; unless kMaxListPages cut it short.
ListIsComplete ==
  phase = "done" /\ ~flashed /\ iter < MaxPages =>
    /\ Len(out) >= Len(bound)
    /\ \A i \in DOMAIN bound : out[i] = bound[i].name

\* list() comes to an end, also with a device that always has a new name.
ListEnds == phase # "failed" ~> phase \in {"done", "failed"}
=============================================================================
