-------------------------- MODULE ListPagingProofs --------------------------
(***************************************************************************)
(* Proofs about ListPaging, for every table, page size and number of       *)
(* pages.  While the program of the device is not replaced its table only  *)
(* grows at the end, and what the host has collected is always the table's *)
(* names from the first one on: entry i of a page is entry off + i of the  *)
(* table, so that the names of it that are known are its first ones.       *)
(***************************************************************************)
EXTENDS ListPaging, SequenceTheorems, WellFoundedInduction, TLAPS

\* The least-number principle, on a set instead of a predicate.
LEMMA LeastNumber ==
  ASSUME NEW T \in SUBSET Nat, T # {}
  PROVE  \E x \in T : \A y \in T : x <= y
<1>1. PICK x \in T : \A y \in T : ~(<<y, x>> \in OpToRel(<, Nat))
  BY NatLessThanWellFounded, WFMin
<1>2. ASSUME NEW y \in T PROVE x <= y
  <2>1. ~(y < x)
    BY <1>1 DEF OpToRel
  <2> QED
    BY <2>1
<1> QED
  BY <1>2

LEMMA Greatest ==
  ASSUME NEW l \in Nat, NEW T \in SUBSET (0 .. l), T # {}
  PROVE  Max(T) \in T
<1> DEFINE D == {l - y : y \in T}
<1>1. \A y \in T : y \in 0 .. l /\ l - y \in Nat
  OBVIOUS
<1>2. D \in SUBSET Nat /\ D # {}
  BY <1>1
<1>3. PICK d \in D : \A e \in D : d <= e
  BY <1>2, LeastNumber
<1>4. PICK x \in T : d = l - x
  OBVIOUS
<1>5. ASSUME NEW y \in T PROVE x >= y
  <2>1. d <= l - y
    BY <1>3
  <2> QED
    BY <1>1, <1>4, <2>1
<1> QED
  BY <1>4, <1>5 DEF Max

\* A page is within the table.
LEMMA PageWithin ==
  ASSUME NEW table \in Seq(Entry), NEW start \in Nat, start < Len(table)
  PROVE  PageLength(table, start) \in 0 .. Len(table) - start
<1> DEFINE l == Len(table) - start
           T == {n \in 0 .. l : \A m \in 1 .. n : Fits(table, start, m)}
<1>1. l \in Nat
  OBVIOUS
<1>2. 0 \in T
  BY <1>1
<1>3. Max(T) \in T
  <2> HIDE DEF l
  <2> QED
    BY <1>1, <1>2, Greatest
<1> QED
  BY <1>3 DEF PageLength

\* The entries of a piece of a table.
LEMMA PieceEntries ==
  ASSUME NEW table \in Seq(Entry), NEW from \in Nat, NEW k \in Nat,
         k = 0 \/ from + k <= Len(table)
  PROVE  /\ SubSeq(table, from + 1, from + k) \in Seq(Entry)
         /\ Len(SubSeq(table, from + 1, from + k)) = k
         /\ \A i \in 1 .. k : /\ from + i \in DOMAIN table
                             /\ SubSeq(table, from + 1, from + k)[i] = table[from + i]
<1>1. Len(table) \in Nat /\ DOMAIN table = 1 .. Len(table)
  OBVIOUS
<1>2. \A j \in from + 1 .. from + k : j \in 1 .. Len(table)
  BY <1>1
<1>3. \A j \in from + 1 .. from + k : table[j] \in Entry
  BY <1>2
<1>4. /\ SubSeq(table, from + 1, from + k) \in Seq(Entry)
      /\ Len(SubSeq(table, from + 1, from + k))
           = IF from + 1 <= from + k THEN from + k - (from + 1) + 1 ELSE 0
      /\ \A i \in 1 .. from + k - (from + 1) + 1 :
           SubSeq(table, from + 1, from + k)[i] = table[from + 1 + i - 1]
  <2>1. from + 1 \in Int /\ from + k \in Int
    OBVIOUS
  <2> QED
    BY <1>3, <2>1, SubSeqProperties
<1>5. Len(SubSeq(table, from + 1, from + k)) = k
  BY <1>4
<1>6. ASSUME NEW i \in 1 .. k
      PROVE  /\ from + i \in DOMAIN table
             /\ SubSeq(table, from + 1, from + k)[i] = table[from + i]
  <2>1. from + i \in from + 1 .. from + k
    OBVIOUS
  <2>2. i \in 1 .. from + k - (from + 1) + 1 /\ from + 1 + i - 1 = from + i
    OBVIOUS
  <2> QED
    BY <1>1, <1>2, <1>4, <2>1, <2>2
<1> QED
  BY <1>4, <1>5, <1>6

-----------------------------------------------------------------------------
(* The inductive invariant.                                                 *)

Typed ==
  /\ handlers \in Seq(Entry) /\ bound \in Seq(Entry)
  /\ pages_everything \in BOOLEAN /\ flashed \in BOOLEAN
  /\ out \in Seq(Name) /\ iter \in 0 .. MaxPages
  /\ phase \in {"next", "asked", "answered", "done", "failed"}
  /\ answer \in [start : Nat, page : Seq(Entry), read : Nat]
  /\ phase \in {"asked", "answered"} => iter < MaxPages

\* Two entries of the table have two names, and the first are those of list().
TableKept ==
  /\ \A i, j \in DOMAIN handlers : handlers[i].name = handlers[j].name => i = j
  /\ \A i \in DOMAIN bound : i \in DOMAIN handlers /\ handlers[i].name = bound[i].name

\* What is collected is the names of the first entries.
OutKept == \A i \in DOMAIN out : i \in DOMAIN handlers /\ out[i] = handlers[i].name

\* Where in the table the page starts.
Offset == IF pages_everything THEN 0 ELSE answer.start

PageKept ==
  /\ phase = "asked" => answer.start = Len(out) /\ answer.read = 0
  /\ phase = "answered" =>
       /\ answer.read <= Len(answer.page)
       /\ \A i \in DOMAIN answer.page :
            /\ Offset + i \in DOMAIN handlers
            /\ answer.page[i].name = handlers[Offset + i].name
       /\ Len(out) = IF answer.start > Offset + answer.read
                     THEN answer.start ELSE Offset + answer.read
       /\ pages_everything => Len(answer.page) >= Len(bound)
       /\ ~pages_everything /\ answer.page = <<>> => answer.start >= Len(bound)

DoneKept == phase = "done" /\ iter < MaxPages => Len(out) >= Len(bound)

Kept == ~flashed => TableKept /\ OutKept /\ PageKept /\ DoneKept

IInv == Typed /\ NoDuplicates /\ Kept

-----------------------------------------------------------------------------

LEMMA TablesAreSequences ==
  ASSUME NEW t \in Tables
  PROVE  t \in Seq(Entry)
<1>1. PICK n \in 0 .. MaxHandlers : t \in [1 .. n -> Entry]
  BY DEF Tables
<1> QED
  BY <1>1, ListPagingAssumption

LEMMA InitKept ==
  ASSUME Init
  PROVE  IInv
<1>1. handlers \in Seq(Entry)
  BY TablesAreSequences DEF Init
<1>2. NoAnswer \in [start : Nat, page : Seq(Entry), read : Nat] /\ 0 \in 0 .. MaxPages
  BY ListPagingAssumption DEF NoAnswer
<1>3. Typed
  <2>1. /\ handlers \in Seq(Entry) /\ bound \in Seq(Entry) /\ out \in Seq(Name)
        /\ answer \in [start : Nat, page : Seq(Entry), read : Nat] /\ iter \in 0 .. MaxPages
    BY <1>1, <1>2 DEF Init
  <2>2. pages_everything \in BOOLEAN /\ flashed \in BOOLEAN /\ phase = "next"
    BY DEF Init
  <2> QED
    BY <2>1, <2>2 DEF Typed
<1>4. TableKept
  BY <1>1 DEF Init, Tables, TableKept
<1>5. NoDuplicates /\ OutKept /\ PageKept /\ DoneKept
  BY DEF Init, NoDuplicates, OutKept, PageKept, DoneKept
<1> QED
  BY <1>3, <1>4, <1>5 DEF IInv, Kept

\* While the program stays, no handler leaves its place.
TableGrows ==
  /\ handlers' \in Seq(Entry)
  /\ \A i \in DOMAIN handlers : i \in DOMAIN handlers' /\ handlers'[i].name = handlers[i].name
  /\ (\A i, j \in DOMAIN handlers : handlers[i].name = handlers[j].name => i = j) =>
       \A i, j \in DOMAIN handlers' : handlers'[i].name = handlers'[j].name => i = j

LEMMA BindGrows ==
  ASSUME Typed, NEW e \in Entry, Bind(e)
  PROVE  TableGrows
<1>1. handlers \in Seq(Entry) /\ handlers' = add_handler_(handlers, e)
  BY DEF Typed, Bind
<1>2. CASE e.name \in Names(handlers)
  <2>1. handlers' = [i \in DOMAIN handlers |->
                       IF handlers[i].name = e.name THEN e ELSE handlers[i]]
    BY <1>1, <1>2 DEF add_handler_
  <2>2. /\ handlers' \in [1 .. Len(handlers) -> Entry]
        /\ \A i \in DOMAIN handlers : handlers'[i].name = handlers[i].name
    BY <1>1, <2>1
  <2> QED
    BY <1>1, <2>2 DEF TableGrows
<1>3. CASE e.name \notin Names(handlers) /\ Len(handlers) < MaxHandlers
  <2>1. handlers' = Append(handlers, e)
    BY <1>1, <1>3 DEF add_handler_
  <2>2. /\ handlers' \in Seq(Entry) /\ Len(handlers') = Len(handlers) + 1
        /\ \A i \in DOMAIN handlers : handlers'[i] = handlers[i]
        /\ handlers'[Len(handlers) + 1] = e
    BY <1>1, <2>1
  <2>3. \A i \in DOMAIN handlers : handlers[i].name # e.name
    BY <1>3 DEF Names
  <2> QED
    BY <1>1, <2>2, <2>3 DEF TableGrows
<1>4. CASE e.name \notin Names(handlers) /\ ~(Len(handlers) < MaxHandlers)
  BY <1>1, <1>4 DEF add_handler_, TableGrows
<1> QED
  BY <1>2, <1>3, <1>4

LEMMA BindKept ==
  ASSUME IInv, NEW e \in Entry, Bind(e)
  PROVE  IInv'
<1>1. TableGrows
  BY BindGrows DEF IInv
<1>2. Typed'
  BY <1>1 DEF IInv, Typed, TableGrows, Bind, hostVars
<1>3. NoDuplicates'
  BY DEF IInv, NoDuplicates, Bind, hostVars
<1>4. Kept'
  <2> SUFFICES ASSUME ~flashed
               PROVE  (TableKept /\ OutKept /\ PageKept /\ DoneKept)'
    BY DEF Kept, Bind
  <2>1. TableKept /\ OutKept /\ PageKept /\ DoneKept
    BY DEF IInv, Kept
  <2>2. TableKept' /\ OutKept'
    BY <1>1, <2>1 DEF TableKept, OutKept, TableGrows, Bind, hostVars
  <2>3. PageKept'
    BY <1>1, <2>1 DEF PageKept, Offset, TableGrows, Bind, hostVars
  <2>4. DoneKept'
    BY <2>1 DEF DoneKept, Bind, hostVars
  <2> QED
    BY <2>2, <2>3, <2>4
<1> QED
  BY <1>2, <1>3, <1>4 DEF IInv

LEMMA FlashKept ==
  ASSUME IInv, Flash
  PROVE  IInv'
<1>1. handlers' \in Seq(Entry)
  BY TablesAreSequences DEF Flash
<1>2. Typed'
  BY <1>1 DEF IInv, Typed, Flash, hostVars
<1>3. NoDuplicates'
  BY DEF IInv, NoDuplicates, Flash, hostVars
<1> QED
  BY <1>2, <1>3 DEF IInv, Kept, Flash

-----------------------------------------------------------------------------
(* The device answers.                                                      *)

LEMMA ServeKept ==
  ASSUME IInv, Serve
  PROVE  IInv'
<1> DEFINE start == answer.start
           n     == IF start >= Len(handlers) THEN 0 ELSE PageLength(handlers, start)
           page  == SubSeq(handlers, start + 1, start + n)
<1>1. handlers \in Seq(Entry) /\ start \in Nat
  BY DEF IInv, Typed
<1>2. n \in Nat /\ (n = 0 \/ start + n <= Len(handlers))
  <2>1. CASE start >= Len(handlers)
    BY <2>1
  <2>2. CASE ~(start >= Len(handlers))
    <3>1. PageLength(handlers, start) \in 0 .. Len(handlers) - start
      BY <1>1, <2>2, PageWithin
    <3> QED
      BY <1>1, <2>2, <3>1
  <2> QED
    BY <2>1, <2>2
<1>3. /\ page \in Seq(Entry) /\ Len(page) = n
      /\ \A i \in 1 .. n : start + i \in DOMAIN handlers /\ page[i] = handlers[start + i]
  <2> HIDE DEF start, n
  <2> QED
    BY <1>1, <1>2, PieceEntries
<1>4. /\ ~pages_everything /\ phase = "asked"
      /\ UNCHANGED <<deviceVars, out, iter, binds, bound, flashed>>
  BY DEF Serve
<1>5. CASE start < Len(handlers) /\ n = 0
  <2>1. phase' = "failed" /\ answer' = answer
    BY <1>5 DEF Serve
  <2> QED
    BY <1>4, <2>1 DEF IInv, Typed, NoDuplicates, Kept, TableKept, OutKept, PageKept, DoneKept,
                      deviceVars
<1>6. CASE ~(start < Len(handlers) /\ n = 0)
  <2>1. phase' = "answered" /\ answer' = [answer EXCEPT !.page = page]
    BY <1>6 DEF Serve
  <2> HIDE DEF page
  <2>2. /\ answer' \in [start : Nat, page : Seq(Entry), read : Nat]
        /\ answer'.start = start /\ answer'.page = page /\ answer'.read = answer.read
    BY <1>3, <2>1 DEF IInv, Typed
  <2>3. Typed'
    BY <1>4, <2>1, <2>2 DEF IInv, Typed, deviceVars
  <2>4. NoDuplicates'
    BY <1>4 DEF IInv, NoDuplicates
  <2>5. ASSUME ~flashed
        PROVE  TableKept' /\ OutKept' /\ PageKept' /\ DoneKept'
    <3>1. TableKept /\ OutKept /\ answer.start = Len(out) /\ answer.read = 0
      BY <1>4, <2>5 DEF IInv, Kept, PageKept
    <3>2. TableKept' /\ OutKept'
      BY <1>4, <3>1 DEF TableKept, OutKept, deviceVars
    <3>3. page = <<>> => start >= Len(bound)
      <4> SUFFICES ASSUME page = <<>> PROVE start >= Len(bound)
        OBVIOUS
      <4>1. n = 0
        BY <1>3
      <4>2. start >= Len(handlers)
        BY <1>1, <1>6, <4>1
      <4>3. Len(bound) <= Len(handlers)
        BY <3>1 DEF TableKept, IInv, Typed
      <4> QED
        BY <1>1, <4>2, <4>3 DEF IInv, Typed
    <3>4. Offset' = start /\ ~pages_everything'
      BY <1>4, <2>2 DEF Offset, deviceVars
    <3>5. PageKept'
      <4> HIDE DEF start, n
      <4>1. phase' = "answered" /\ answer'.read <= Len(answer'.page)
        BY <1>2, <1>3, <2>1, <2>2, <3>1
      <4>2. \A i \in DOMAIN page : /\ start + i \in DOMAIN handlers
                                   /\ page[i].name = handlers[start + i].name
        BY <1>2, <1>3
      <4>3. Len(out) = start /\ start \in Nat
        BY <1>1, <3>1 DEF start
      <4> QED
        BY <1>4, <2>2, <3>1, <3>3, <3>4, <4>1, <4>2, <4>3 DEF PageKept, deviceVars
    <3>6. DoneKept'
      BY <2>1 DEF DoneKept
    <3> QED
      BY <3>2, <3>5, <3>6
  <2> QED
    BY <1>4, <2>3, <2>4, <2>5 DEF IInv, Kept
<1> QED
  BY <1>5, <1>6

LEMMA ServeEverythingKept ==
  ASSUME IInv, ServeEverything
  PROVE  IInv'
<1>1. /\ pages_everything /\ phase = "asked" /\ phase' = "answered"
      /\ UNCHANGED <<deviceVars, out, iter, binds, bound, flashed>>
  BY DEF ServeEverything
<1>2. /\ answer' \in [start : Nat, page : Seq(Entry), read : Nat]
      /\ answer'.start = answer.start /\ answer'.page = handlers /\ answer'.read = answer.read
  BY DEF IInv, Typed, ServeEverything
<1>3. Typed'
  BY <1>1, <1>2 DEF IInv, Typed, deviceVars
<1>4. NoDuplicates'
  BY <1>1 DEF IInv, NoDuplicates
<1>5. ASSUME ~flashed
      PROVE  TableKept' /\ OutKept' /\ PageKept' /\ DoneKept'
  <2>1. TableKept /\ OutKept /\ answer.start = Len(out) /\ answer.read = 0
    BY <1>1, <1>5 DEF IInv, Kept, PageKept
  <2>2. TableKept' /\ OutKept'
    BY <1>1, <2>1 DEF TableKept, OutKept, deviceVars
  <2>3. Len(bound) <= Len(handlers) /\ handlers \in Seq(Entry) /\ Len(out) \in Nat
    BY <2>1 DEF TableKept, IInv, Typed
  <2>4. Offset' = 0 /\ pages_everything'
    BY <1>1 DEF Offset, deviceVars
  <2>5. PageKept'
    BY <1>1, <1>2, <2>1, <2>3, <2>4 DEF PageKept, deviceVars
  <2>6. DoneKept'
    BY <1>1 DEF DoneKept
  <2> QED
    BY <2>2, <2>5, <2>6
<1> QED
  BY <1>1, <1>3, <1>4, <1>5 DEF IInv, Kept

-----------------------------------------------------------------------------
(* The host collects.                                                       *)

\* What does not touch the page and what was collected.
LEMMA HostMoves ==
  ASSUME IInv, Ask \/ GiveUp \/ CallFails
  PROVE  IInv'
<1>1. /\ UNCHANGED <<deviceVars, out, iter, binds, bound, flashed>>
      /\ \/ phase' = "asked" /\ iter < MaxPages /\ answer' = [NoAnswer EXCEPT !.start = Len(out)]
         \/ phase' = "done" /\ iter = MaxPages /\ answer' = answer
         \/ phase' = "failed" /\ answer' = answer
  BY DEF Ask, GiveUp, CallFails
<1>2. [NoAnswer EXCEPT !.start = Len(out)] \in [start : Nat, page : Seq(Entry), read : Nat]
  <2>1. Len(out) \in Nat
    BY DEF IInv, Typed
  <2>2. PICK none \in Seq(Entry) : none = <<>>
    <3>1. <<>> \in Seq(Entry)
      OBVIOUS
    <3> QED
      BY <3>1, Zenon
  <2>3. NoAnswer = [start |-> 0, page |-> none, read |-> 0]
    BY <2>2 DEF NoAnswer
  <2> QED
    BY <2>1, <2>2, <2>3
<1>3. answer' \in [start : Nat, page : Seq(Entry), read : Nat]
  BY <1>1, <1>2 DEF IInv, Typed
<1>4. Typed'
  BY <1>1, <1>3 DEF IInv, Typed, deviceVars
<1>5. NoDuplicates'
  BY <1>1 DEF IInv, NoDuplicates
<1>6. ASSUME ~flashed
      PROVE  TableKept' /\ OutKept' /\ PageKept' /\ DoneKept'
  <2>1. TableKept' /\ OutKept'
    BY <1>1, <1>6 DEF IInv, Kept, TableKept, OutKept, deviceVars
  <2>2. phase' = "asked" => answer'.start = Len(out) /\ answer'.read = 0
    BY <1>1 DEF NoAnswer
  <2>3. PageKept'
    BY <1>1, <2>2 DEF PageKept
  <2>4. DoneKept'
    BY <1>1, ListPagingAssumption DEF DoneKept
  <2> QED
    BY <2>1, <2>3, <2>4
<1> QED
  BY <1>1, <1>4, <1>5, <1>6 DEF IInv, Kept

LEMMA CollectEntryKept ==
  ASSUME IInv, CollectEntry
  PROVE  IInv'
<1> DEFINE at == answer.read + 1
           name == answer.page[at].name
<1>1. /\ phase = "answered" /\ phase' = "answered" /\ answer.read < Len(answer.page)
      /\ out' = IF Known(name) THEN out ELSE Append(out, name)
      /\ UNCHANGED <<deviceVars, iter, binds, bound, flashed>>
  BY DEF CollectEntry
<1>2. /\ answer' \in [start : Nat, page : Seq(Entry), read : Nat]
      /\ answer'.start = answer.start /\ answer'.page = answer.page /\ answer'.read = at
  <2>1. answer \in [start : Nat, page : Seq(Entry), read : Nat]
    BY DEF IInv, Typed
  <2>2. answer' = [answer EXCEPT !.read = answer.read + 1]
    BY DEF CollectEntry
  <2> QED
    BY <2>1, <2>2
<1>3. /\ at \in Nat /\ at \in DOMAIN answer.page /\ name \in Name /\ out \in Seq(Name)
      /\ answer.page \in Seq(Entry)
  <2>1. /\ answer.read \in Nat /\ answer.page \in Seq(Entry) /\ out \in Seq(Name)
    BY DEF IInv, Typed
  <2>2. at \in Nat /\ at \in DOMAIN answer.page
    BY <1>1, <2>1
  <2>3. answer.page[at] \in Entry
    BY <2>1, <2>2
  <2> QED
    BY <2>1, <2>2, <2>3 DEF Entry
<1> HIDE DEF at, name
<1>4. /\ out' \in Seq(Name)
      /\ IF Known(name) THEN out' = out
         ELSE /\ Len(out') = Len(out) + 1 /\ out'[Len(out) + 1] = name
              /\ \A i \in DOMAIN out : out'[i] = out[i]
  BY <1>1, <1>3
<1>5. Typed'
  BY <1>1, <1>2, <1>4 DEF IInv, Typed, deviceVars
<1>6. NoDuplicates'
  <2>1. NoDuplicates
    BY DEF IInv
  <2>2. CASE Known(name)
    BY <1>4, <2>1, <2>2 DEF NoDuplicates
  <2>3. CASE ~Known(name)
    <3>1. /\ DOMAIN out = 1 .. Len(out) /\ DOMAIN out' = 1 .. Len(out) + 1 /\ Len(out) \in Nat
          /\ out'[Len(out) + 1] = name /\ \A i \in DOMAIN out : out'[i] = out[i]
      BY <1>3, <1>4, <2>3
    <3>2. \A i \in DOMAIN out : out[i] # name
      BY <2>3 DEF Known
    <3> QED
      BY <2>1, <3>1, <3>2 DEF NoDuplicates
  <2> QED
    BY <2>2, <2>3
<1>7. ASSUME ~flashed
      PROVE  TableKept' /\ OutKept' /\ PageKept' /\ DoneKept'
  <2>1. TableKept /\ OutKept /\ PageKept
    BY <1>7 DEF IInv, Kept
  <2>2. TableKept'
    BY <1>1, <2>1 DEF TableKept, deviceVars
  <2>3. Offset' = Offset /\ Offset \in Nat /\ answer.start \in Nat
    BY <1>1, <1>2 DEF Offset, deviceVars, IInv, Typed
  <2>4. /\ Offset + at \in DOMAIN handlers /\ handlers[Offset + at].name = name
        /\ DOMAIN handlers = 1 .. Len(handlers) /\ Len(handlers) \in Nat
    BY <1>1, <1>3, <2>1 DEF PageKept, name, IInv, Typed
  <2>5. Len(out) = IF answer.start > Offset + answer.read
                   THEN answer.start ELSE Offset + answer.read
    BY <1>1, <2>1 DEF PageKept
  <2>6. Known(name) <=> Offset + at <= Len(out)
    <3>1. Known(name) => Offset + at <= Len(out)
      <4> SUFFICES ASSUME Known(name) PROVE Offset + at <= Len(out)
        OBVIOUS
      <4>1. PICK i \in DOMAIN out : out[i] = name
        BY DEF Known
      <4>2. i \in DOMAIN handlers /\ handlers[i].name = name
        BY <2>1, <4>1 DEF OutKept
      <4>3. i = Offset + at
        BY <2>1, <2>4, <4>2 DEF TableKept
      <4> QED
        BY <1>3, <4>1, <4>3
    <3>2. Offset + at <= Len(out) => Known(name)
      BY <1>3, <2>1, <2>3, <2>4 DEF OutKept, Known
    <3> QED
      BY <3>1, <3>2
  <2>7. at = answer.read + 1 /\ answer.read \in Nat
    BY DEF at, IInv, Typed
  <2>8. ~Known(name) => Len(out) + 1 = Offset + at
    BY <1>3, <2>3, <2>5, <2>6, <2>7
  <2>9. OutKept'
    BY <1>1, <1>3, <1>4, <2>1, <2>4, <2>8 DEF OutKept, deviceVars
  <2>10. Len(out') = IF answer.start > Offset + at THEN answer.start ELSE Offset + at
    BY <1>3, <1>4, <2>3, <2>5, <2>6, <2>7, SMTT(30)
  <2>11. PageKept'
    <3>1. at <= Len(answer.page)
      BY <1>3
    <3> QED
      BY <1>1, <1>2, <2>1, <2>3, <2>10, <3>1 DEF PageKept, deviceVars
  <2>12. DoneKept'
    BY <1>1 DEF DoneKept
  <2> QED
    BY <2>2, <2>9, <2>11, <2>12
<1> QED
  BY <1>1, <1>5, <1>6, <1>7 DEF IInv, Kept

LEMMA EndPageKept ==
  ASSUME IInv, EndPage
  PROVE  IInv'
<1>1. /\ phase = "answered" /\ answer.read = Len(answer.page) /\ answer' = NoAnswer
      /\ UNCHANGED <<deviceVars, out, binds, bound, flashed>>
      /\ \/ Len(out) = answer.start /\ phase' = "done" /\ iter' = iter
         \/ phase' = "next" /\ iter' = iter + 1
  BY DEF EndPage
<1>2. iter' \in 0 .. MaxPages
  BY <1>1, ListPagingAssumption DEF IInv, Typed
<1>3. Typed'
  <2>1. NoAnswer \in [start : Nat, page : Seq(Entry), read : Nat]
    BY DEF NoAnswer
  <2> QED
    BY <1>1, <1>2, <2>1 DEF IInv, Typed, deviceVars
<1>4. NoDuplicates'
  BY <1>1 DEF IInv, NoDuplicates
<1>5. ASSUME ~flashed
      PROVE  TableKept' /\ OutKept' /\ PageKept' /\ DoneKept'
  <2>1. TableKept /\ OutKept /\ PageKept
    BY <1>5 DEF IInv, Kept
  <2>2. TableKept' /\ OutKept'
    BY <1>1, <2>1 DEF TableKept, OutKept, deviceVars
  <2>3. PageKept'
    BY <1>1 DEF PageKept
  <2>4. Len(out) = answer.start => Len(out) >= Len(bound)
    <3>1. /\ answer.start \in Nat /\ Len(answer.page) \in Nat /\ Len(bound) \in Nat
          /\ answer.page \in Seq(Entry)
      BY DEF IInv, Typed
    <3>2. CASE pages_everything
      BY <1>1, <2>1, <3>1, <3>2 DEF PageKept, Offset
    <3>3. CASE ~pages_everything
      BY <1>1, <2>1, <3>1, <3>3 DEF PageKept, Offset
    <3> QED
      BY <3>2, <3>3
  <2>5. DoneKept'
    BY <1>1, <2>4 DEF DoneKept
  <2> QED
    BY <2>2, <2>3, <2>5
<1> QED
  BY <1>1, <1>3, <1>4, <1>5 DEF IInv, Kept

-----------------------------------------------------------------------------

LEMMA IInvHolds == Spec => []IInv
<1>1. Init => IInv
  BY InitKept
<1>2. IInv /\ [Next]_vars => IInv'
  <2> SUFFICES ASSUME IInv, [Next]_vars
               PROVE  IInv'
    OBVIOUS
  <2>1. ASSUME NEW e \in Entry, Bind(e) PROVE IInv'
    BY <2>1, BindKept
  <2>2. CASE Flash
    BY <2>2, FlashKept
  <2>3. CASE Serve
    BY <2>3, ServeKept
  <2>4. CASE ServeEverything
    BY <2>4, ServeEverythingKept
  <2>5. CASE Ask \/ GiveUp \/ CallFails
    BY <2>5, HostMoves
  <2>6. CASE CollectEntry
    BY <2>6, CollectEntryKept
  <2>7. CASE EndPage
    BY <2>7, EndPageKept
  <2>8. CASE UNCHANGED vars
    BY <2>8 DEF IInv, Typed, NoDuplicates, Kept, TableKept, OutKept, PageKept, DoneKept, Offset,
                vars, deviceVars, hostVars
  <2> QED
    BY <2>1, <2>2, <2>3, <2>4, <2>5, <2>6, <2>7, <2>8 DEF Next, Host
<1> QED
  BY <1>1, <1>2, PTL DEF Spec

\* However list() is answered, it lists no method twice (collect_rpc_list_pages
\* looks each name up before it takes it).
THEOREM ListedOnce == Spec => []NoDuplicates
<1>1. IInv => NoDuplicates
  BY DEF IInv
<1> QED
  BY <1>1, IInvHolds, PTL

\* A list that ends before kMaxListPages has each method bound when list() was
\* called, at its place, for every table, page size and kind of device, and
\* whatever is bound meanwhile.
THEOREM ListedAll == Spec => []ListIsComplete
<1>1. IInv => ListIsComplete
  <2> SUFFICES ASSUME IInv, phase = "done", ~flashed, iter < MaxPages
               PROVE  /\ Len(out) >= Len(bound)
                      /\ \A i \in DOMAIN bound : out[i] = bound[i].name
    BY DEF ListIsComplete
  <2>1. Len(out) >= Len(bound) /\ bound \in Seq(Entry) /\ out \in Seq(Name)
    BY DEF IInv, Typed, Kept, DoneKept
  <2>2. \A i \in DOMAIN bound : i \in DOMAIN out
    BY <2>1
  <2> QED
    BY <2>1, <2>2 DEF IInv, Kept, TableKept, OutKept
<1> QED
  BY <1>1, IInvHolds, PTL

=============================================================================
