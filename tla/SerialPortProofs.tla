-------------------------- MODULE SerialPortProofs ---------------------------
(***************************************************************************)
(* Proofs about SerialPort, for any number of objects, any buffer, queue   *)
(* and line sizes, any terminal, and any calls in any order.               *)
(***************************************************************************)
EXTENDS SerialPort, SequenceTheorems, FiniteSetTheorems, TLAPS

(***************************************************************************)
(* The inductive invariant.                                                *)
(***************************************************************************)
Setting == [rate : Rates \cup {"found"}, frame : Frames \cup {"found"}]
Config  == [rate : Rates \cup {"found"}, frame : Frames \cup {"found"}, timed : BOOLEAN]

Terminal == [plugged : BOOLEAN, settings : Setting, exclusive : BOOLEAN,
             rx : Seq(Int), tx : 0 .. QueueSize]

Member == [open : BOOLEAN, restore : BOOLEAN, original : Setting, config : Config,
           rx_buf : [0 .. BufferSize - 1 -> Int], head : 0 .. BufferSize, tail : 0 .. BufferSize,
           pending_lf : BOOLEAN, timed_out : BOOLEAN, error : {"none", "native", "message_size"}]

Draining == [op : {"drain", "close", "set_baud_rate"}, by : Objects, rate : Rates \cup {"none"}]
Reads    == [op : {"read", "read_some"}, by : Objects, n : Requests, got : Seq(Int), due : BOOLEAN]
LineRead == [op : {"read_line"}, by : Objects, form : Forms, got : Seq(Int), due : BOOLEAN]
Writing  == [op : {"write"}, by : Objects, n : Requests, done : Nat, due : BOOLEAN]

\* The method that runs has not yet done all it was asked to.
UnderWay ==
    \/ Idle
    \/ call \in Draining /\ (call.op = "set_baud_rate" => call.rate \in Rates)
    \/ call \in Reads /\ Len(call.got) < call.n
    \/ call \in LineRead /\ Len(call.got) <= MaxLineLength
    \/ call \in Writing /\ call.done < call.n

Typed ==
    /\ tty \in Terminal /\ UnderWay /\ calls \in 0 .. MaxCalls
    /\ port \in [Objects -> Member] /\ \A p \in Objects : port[p].head <= port[p].tail
    /\ arrived \in Seq(Int) /\ marks \in Seq({"raw", "first", "line"})

\* One object has the port, and what it found there is what it will leave; the
\* others hold nothing.  No method runs on an object without a port.
Owned ==
    /\ \A p \in Objects : IF port[p].open
                          THEN port[p].restore /\ port[p].original = Found
                          ELSE port[p] = Closed
    /\ ~Idle => port[call.by].open
    /\ TerminalIsOurs

\* Nothing is left of the bytes nobody took once the port is closed.
Kept == /\ BytesWaitInOrder
        /\ (\A p \in Objects : ~port[p].open) => tty.rx = <<>> /\ Len(marks) = Len(arrived)

\* What write() will tell of when it returns is what the terminal has accepted.
Counted == /\ wire \in Seq(Nat) /\ reported \in Nat
           /\ \A i \in DOMAIN wire : wire[i] = i
           /\ Len(wire) = reported + (IF call.op = "write" THEN call.done ELSE 0)

IInv == Typed /\ Owned /\ Kept /\ Counted

(***************************************************************************)
(* The members of an object.                                               *)
(***************************************************************************)
Valid(o) == o \in Member /\ o.head <= o.tail

\* What an object has of the port, as its constructor left it.
Holds(o) == o.open /\ o.restore /\ o.original = Found

LEMMA FoundType == Found \in Setting /\ NoConfig \in Config
BY DEF Found, NoConfig, Setting, Config

LEMMA ClosedValid == Valid(Closed) /\ ~Closed.open
BY FoundType, PortAssumption DEF Closed, Valid, Member

LEMMA SettingsType == ASSUME NEW config \in Config PROVE Settings(config) \in Setting
BY DEF Settings, Config, Setting

LEMMA AppliedType ==
    ASSUME NEW current \in Setting, NEW options \in Setting
    PROVE  tcsetattr(current, options) \in Setting
BY DEF tcsetattr, Setting

SameHold(o, o2) == /\ o2.open = o.open /\ o2.restore = o.restore /\ o2.original = o.original
                   /\ Settings(o2.config) = Settings(o.config)
SameBytes(o, o2) == o2.rx_buf = o.rx_buf /\ o2.head = o.head /\ o2.tail = o.tail

\* begin_operation(), a timeout, an error and a new timeout leave the bytes and
\* the settings alone.
LEMMA MarkedValid ==
    ASSUME NEW o, Valid(o), NEW o2,
           \/ o2 = begin_operation(o)
           \/ o2 = [begin_operation(o) EXCEPT !.pending_lf = FALSE]
           \/ o2 = [o EXCEPT !.timed_out = TRUE]
           \/ \E e \in {"native", "message_size"} : o2 = Cut(o, e)
           \/ o2 = [o EXCEPT !.config.timed = ~@]
    PROVE  Valid(o2) /\ SameHold(o, o2) /\ SameBytes(o, o2)
<1> USE DEF Valid, Member, SameHold, SameBytes
<1>1. CASE o2 = begin_operation(o)
    BY <1>1 DEF begin_operation
<1>2. CASE o2 = [begin_operation(o) EXCEPT !.pending_lf = FALSE]
    BY <1>2 DEF begin_operation
<1>3. CASE o2 = [o EXCEPT !.timed_out = TRUE]
    BY <1>3
<1>4. ASSUME NEW e \in {"native", "message_size"}, o2 = Cut(o, e)
      PROVE  Valid(o2) /\ o2 = [o EXCEPT !.error = e]
    BY <1>4 DEF Cut
<1>5. CASE o2 = [o EXCEPT !.config.timed = ~@]
    <2>1. /\ o2.config \in Config /\ Settings(o2.config) = Settings(o.config)
          /\ o2 = [o EXCEPT !.config = o2.config]
        BY <1>5 DEF Config, Settings
    <2> QED
        BY <1>5, <2>1
<1> QED
    BY <1>1, <1>2, <1>3, <1>4, <1>5

LEMMA BufferedType ==
    ASSUME NEW o, Valid(o)
    PROVE  /\ buffered(o) \in Nat /\ o.head \in Nat /\ o.head + buffered(o) = o.tail
           /\ \A i \in 1 .. buffered(o) : o.rx_buf[o.head + i - 1] \in Int
<1>1. /\ o.head \in Nat /\ o.tail \in Nat /\ o.tail <= BufferSize /\ BufferSize \in Nat
      /\ o.head <= o.tail /\ o.rx_buf \in [0 .. BufferSize - 1 -> Int]
    BY PortAssumption DEF Valid, Member
<1>2. buffered(o) \in Nat /\ o.head + buffered(o) = o.tail
    BY <1>1 DEF buffered
<1>3. ASSUME NEW i \in 1 .. buffered(o)
      PROVE  o.rx_buf[o.head + i - 1] \in Int
    <2>1. o.head + i - 1 \in 0 .. BufferSize - 1
        BY <1>1, <1>2
    <2> QED
        BY <1>1, <2>1
<1> QED
    BY <1>1, <1>2, <1>3

LEMMA EmptiedValid ==
    ASSUME NEW o, Valid(o)
    PROVE  /\ Valid(Emptied(o)) /\ SameHold(o, Emptied(o))
           /\ Emptied(o).head = 0 /\ Emptied(o).tail = 0
<1>1. 0 \in 0 .. BufferSize
    BY PortAssumption
<1>2. Emptied(o) \in Member
    BY <1>1 DEF Emptied, Valid, Member
<1>3. Emptied(o).head = 0 /\ Emptied(o).tail = 0
    BY DEF Emptied, Valid, Member
<1>4. SameHold(o, Emptied(o))
    BY DEF Emptied, Valid, Member, SameHold
<1> QED
    BY <1>2, <1>3, <1>4 DEF Valid

(***************************************************************************)
(* The bytes between the terminal and the caller: rx waits behind those    *)
(* that o has buffered, and a has both behind its first m.                 *)
(***************************************************************************)
Waiting(o, rx, a, m) ==
    /\ m + buffered(o) + Len(rx) = Len(a)
    /\ \A i \in 1 .. buffered(o) : o.rx_buf[o.head + i - 1] = a[m + i]
    /\ \A i \in DOMAIN rx : rx[i] = a[m + buffered(o) + i]

\* The same with the two numbers of bytes named.
Spread(o, rx, a, m, b, k) ==
    /\ b \in Nat /\ k \in Nat /\ m \in Nat
    /\ buffered(o) = b /\ Len(rx) = k /\ DOMAIN rx = 1 .. k /\ Len(a) = m + b + k
    /\ \A i \in 1 .. b : o.rx_buf[o.head + i - 1] = a[m + i]
    /\ \A i \in 1 .. k : rx[i] = a[m + b + i]

LEMMA SpreadWaits ==
    ASSUME NEW o, NEW rx, NEW a, NEW m, NEW b, NEW k, Spread(o, rx, a, m, b, k)
    PROVE  Waiting(o, rx, a, m)
BY DEF Waiting, Spread

LEMMA WaitingSpread ==
    ASSUME NEW o, Valid(o), NEW rx \in Seq(Int), NEW a, NEW m \in Nat, Waiting(o, rx, a, m)
    PROVE  \E b, k : Spread(o, rx, a, m, b, k)
<1>1. buffered(o) \in Nat
    BY PortAssumption DEF Valid, Member, buffered
<1>2. Len(rx) \in Nat /\ DOMAIN rx = 1 .. Len(rx)
    OBVIOUS
<1>3. Spread(o, rx, a, m, buffered(o), Len(rx))
    BY <1>1, <1>2 DEF Waiting, Spread
<1> QED
    BY <1>3

LEMMA SameWaiting ==
    ASSUME NEW o, NEW o2, SameBytes(o, o2), NEW rx, NEW a, NEW m, Waiting(o, rx, a, m)
    PROVE  Waiting(o2, rx, a, m)
BY DEF SameBytes, Waiting, buffered

LEMMA ArrivedWaits ==
    ASSUME NEW o, Valid(o), NEW rx \in Seq(Int), NEW a \in Seq(Int), NEW m \in Nat,
           Waiting(o, rx, a, m), NEW byte \in Int
    PROVE  Waiting(o, Append(rx, byte), Append(a, byte), m)
<1>1. PICK b, k : Spread(o, rx, a, m, b, k)
    BY WaitingSpread
<1> DEFINE rx2 == Append(rx, byte)
           a2  == Append(a, byte)
<1>2. /\ Len(rx2) = Len(rx) + 1 /\ DOMAIN rx2 = 1 .. Len(rx) + 1
      /\ rx2[Len(rx) + 1] = byte /\ \A i \in 1 .. Len(rx) : rx2[i] = rx[i]
    BY AppendProperties
<1>3. /\ Len(a2) = Len(a) + 1
      /\ a2[Len(a) + 1] = byte /\ \A i \in 1 .. Len(a) : a2[i] = a[i]
    BY AppendProperties
<1> HIDE DEF rx2, a2
<1>4. Spread(o, rx2, a2, m, b, k + 1)
    <2>1. /\ k + 1 \in Nat /\ Len(rx2) = k + 1 /\ DOMAIN rx2 = 1 .. k + 1
          /\ Len(a2) = m + b + (k + 1)
        BY <1>1, <1>2, <1>3 DEF Spread
    <2>2. ASSUME NEW i \in 1 .. b
          PROVE  o.rx_buf[o.head + i - 1] = a2[m + i]
        BY <1>1, <1>3 DEF Spread
    <2>3. ASSUME NEW i \in 1 .. k + 1
          PROVE  rx2[i] = a2[m + b + i]
        <3>1. CASE i = k + 1
            BY <1>1, <1>2, <1>3, <3>1 DEF Spread
        <3>2. CASE i # k + 1
            <4>1. i \in 1 .. k /\ i \in 1 .. Len(rx) /\ m + b + i \in 1 .. Len(a)
                BY <1>1, <3>2, SMTT(30) DEF Spread
            <4>2. rx2[i] = rx[i] /\ a2[m + b + i] = a[m + b + i] /\ rx[i] = a[m + b + i]
                BY <1>1, <1>2, <1>3, <4>1 DEF Spread
            <4> QED
                BY <4>2
        <3> QED
            BY <3>1, <3>2
    <2> QED
        BY <1>1, <2>1, <2>2, <2>3 DEF Spread
<1> QED
    BY <1>4, SpreadWaits DEF rx2, a2

\* The terminal may lose its last bytes.
LEMMA LostWaits ==
    ASSUME NEW o, Valid(o), NEW rx \in Seq(Int), NEW a \in Seq(Int), NEW m \in Nat,
           Waiting(o, rx, a, m), NEW lost \in 0 .. Len(rx)
    PROVE  /\ SubSeq(rx, 1, Len(rx) - lost) \in Seq(Int)
           /\ SubSeq(a, 1, Len(a) - lost) \in Seq(Int)
           /\ Waiting(o, SubSeq(rx, 1, Len(rx) - lost), SubSeq(a, 1, Len(a) - lost), m)
<1>1. PICK b, k : Spread(o, rx, a, m, b, k)
    BY WaitingSpread
<1> DEFINE rx2 == SubSeq(rx, 1, Len(rx) - lost)
           a2  == SubSeq(a, 1, Len(a) - lost)
<1>2. lost \in 0 .. k /\ lost \in 0 .. Len(a)
    BY <1>1 DEF Spread
<1>3. /\ rx2 \in Seq(Int) /\ Len(rx2) = Len(rx) - lost /\ DOMAIN rx2 = 1 .. Len(rx) - lost
      /\ \A i \in 1 .. Len(rx) - lost : rx2[i] = rx[i]
    BY SubSeqProperties
<1>4. /\ a2 \in Seq(Int) /\ Len(a2) = Len(a) - lost
      /\ \A i \in 1 .. Len(a) - lost : a2[i] = a[i]
    BY <1>2, SubSeqProperties
<1> HIDE DEF rx2, a2
<1>5. Spread(o, rx2, a2, m, b, k - lost)
    <2>1. /\ k - lost \in Nat /\ Len(rx2) = k - lost /\ DOMAIN rx2 = 1 .. k - lost
          /\ Len(a2) = m + b + (k - lost)
        BY <1>1, <1>2, <1>3, <1>4 DEF Spread
    <2>2. ASSUME NEW i \in 1 .. b
          PROVE  o.rx_buf[o.head + i - 1] = a2[m + i]
        <3>1. m + i \in 1 .. Len(a) - lost
            BY <1>1, <1>2 DEF Spread
        <3> QED
            BY <1>1, <1>4, <3>1 DEF Spread
    <2>3. ASSUME NEW i \in 1 .. k - lost
          PROVE  rx2[i] = a2[m + b + i]
        <3>1. /\ i \in 1 .. k /\ i \in 1 .. Len(rx) - lost
              /\ m + b + i \in 1 .. Len(a) - lost
            BY <1>1, <1>2 DEF Spread
        <3>2. rx2[i] = rx[i] /\ a2[m + b + i] = a[m + b + i] /\ rx[i] = a[m + b + i]
            BY <1>1, <1>3, <1>4, <3>1 DEF Spread
        <3> QED
            BY <3>2
    <2> QED
        BY <1>1, <2>1, <2>2, <2>3 DEF Spread
<1> QED
    BY <1>3, <1>4, <1>5, SpreadWaits DEF rx2, a2

\* A flush forgets what waits, but for what the terminal keeps.
LEMMA FlushedWaits ==
    ASSUME NEW o, buffered(o) = 0, NEW rx \in Seq(Int), NEW a \in Seq(Int),
           NEW m \in 0 .. Len(a)
    PROVE  /\ SubSeq(a, 1, m) \o rx \in Seq(Int)
           /\ Waiting(o, rx, SubSeq(a, 1, m) \o rx, m)
<1> DEFINE kept == SubSeq(a, 1, m)
           a2   == kept \o rx
<1>1. kept \in Seq(Int) /\ Len(kept) = m
    BY SubSeqProperties
<1> HIDE DEF kept
<1>2. /\ a2 \in Seq(Int) /\ Len(a2) = Len(kept) + Len(rx)
      /\ \A i \in 1 .. Len(kept) + Len(rx) :
            a2[i] = IF i <= Len(kept) THEN kept[i] ELSE rx[i - Len(kept)]
    BY <1>1, ConcatProperties
<1> HIDE DEF a2
<1>3. Spread(o, rx, a2, m, 0, Len(rx))
    <2>1. Len(rx) \in Nat /\ DOMAIN rx = 1 .. Len(rx) /\ m \in Nat /\ Len(a2) = m + 0 + Len(rx)
        BY <1>1, <1>2
    <2>2. ASSUME NEW i \in 1 .. Len(rx)
          PROVE  rx[i] = a2[m + 0 + i]
        <3>1. PICK j : j = m + 0 + i
            OBVIOUS
        <3>2. j \in 1 .. Len(kept) + Len(rx) /\ ~(j <= Len(kept)) /\ j - Len(kept) = i
            BY <1>1, <2>1, <3>1
        <3>3. a2[j] = rx[j - Len(kept)]
            BY <1>2, <3>2
        <3> QED
            BY <3>1, <3>2, <3>3
    <2> QED
        BY <2>1, <2>2 DEF Spread
<1> QED
    BY <1>2, <1>3, SpreadWaits DEF a2, kept

\* o2 is o without the first n bytes it had buffered.
Taking(o, o2, n) ==
    /\ Valid(o2) /\ SameHold(o, o2) /\ o2.rx_buf = o.rx_buf
    /\ n \in 1 .. buffered(o)
    /\ \/ o2.head = o.head + n /\ o2.tail = o.tail
       \/ o2.head = o2.tail /\ n = buffered(o)

Moved(o, h, t) == [o EXCEPT !.head = h, !.tail = t]

LEMMA MovedValid ==
    ASSUME NEW o, Valid(o), NEW h, NEW t, h \in 0 .. BufferSize, t \in 0 .. BufferSize, h <= t
    PROVE  /\ Valid(Moved(o, h, t)) /\ SameHold(o, Moved(o, h, t))
           /\ Moved(o, h, t).rx_buf = o.rx_buf
           /\ Moved(o, h, t).head = h /\ Moved(o, h, t).tail = t
<1> USE DEF Moved
<1> DEFINE o2 == Moved(o, h, t)
<1>1. o2 \in Member
    BY DEF Valid, Member
<1>2. SameHold(o, o2) /\ o2.rx_buf = o.rx_buf
    BY DEF Valid, Member, SameHold
<1>3. o2.head = h /\ o2.tail = t
    BY DEF Valid, Member
<1> QED
    BY <1>1, <1>2, <1>3 DEF Valid

LEMMA TakenBuffered ==
    ASSUME NEW o, Valid(o), NEW n \in 1 .. buffered(o)
    PROVE  Taking(o, take_buffered(o, n), n)
<1>1. /\ o.head \in 0 .. BufferSize /\ o.tail \in 0 .. BufferSize
      /\ BufferSize \in Nat /\ buffered(o) = o.tail - o.head
    BY PortAssumption DEF Valid, Member, buffered
<1>2. PICK o2 : o2 = take_buffered(o, n)
    OBVIOUS
<1>3. CASE o.head + n = o.tail
    <2>1. o2 = Moved(o, 0, 0) /\ 0 \in 0 .. BufferSize /\ 0 <= 0
        BY <1>1, <1>2, <1>3 DEF take_buffered, Moved
    <2>2. /\ Valid(o2) /\ SameHold(o, o2) /\ o2.rx_buf = o.rx_buf
          /\ o2.head = 0 /\ o2.tail = 0
        BY ONLY Valid(o), <2>1, MovedValid
    <2> QED
        BY <1>1, <1>2, <1>3, <2>2 DEF Taking
<1>4. CASE o.head + n # o.tail
    <2>1. PICK h : h = o.head + n
        OBVIOUS
    <2>2. o2 = Moved(o, h, o.tail)
        BY <1>2, <1>4, <2>1 DEF take_buffered, Valid, Member, Moved
    <2>3. h \in 0 .. BufferSize /\ h <= o.tail
        BY <1>1, <2>1
    <2>4. /\ Valid(o2) /\ SameHold(o, o2) /\ o2.rx_buf = o.rx_buf
          /\ o2.head = h /\ o2.tail = o.tail
        BY <1>1, <2>2, <2>3, MovedValid
    <2> QED
        BY <1>2, <2>1, <2>4 DEF Taking
<1> QED
    BY <1>3, <1>4

LEMMA TakenByte ==
    ASSUME NEW o, Valid(o), buffered(o) # 0, NEW lf \in BOOLEAN
    PROVE  Taking(o, [o EXCEPT !.head = @ + 1, !.pending_lf = lf], 1)
<1> DEFINE o2 == [o EXCEPT !.head = @ + 1, !.pending_lf = lf]
<1>1. o.head + 1 \in 0 .. BufferSize /\ o.head + 1 <= o.tail /\ 1 \in 1 .. buffered(o)
    BY PortAssumption DEF Valid, Member, buffered
<1>2. o2 \in Member
    BY <1>1 DEF Valid, Member
<1>3. SameHold(o, o2) /\ o2.rx_buf = o.rx_buf
    BY DEF Valid, Member, SameHold
<1>4. o2.head = o.head + 1 /\ o2.tail = o.tail
    BY DEF Valid, Member
<1> HIDE DEF o2
<1>5. Taking(o, o2, 1)
    BY <1>1, <1>2, <1>3, <1>4 DEF Valid, Taking
<1> QED
    BY <1>5 DEF o2

LEMMA TakenMarked ==
    ASSUME NEW o, NEW o1, NEW n, Taking(o, o1, n),
           NEW o2, Valid(o2), SameHold(o1, o2), SameBytes(o1, o2)
    PROVE  Taking(o, o2, n)
BY DEF Taking, SameHold, SameBytes

LEMMA TakenWaits ==
    ASSUME NEW o, Valid(o), NEW rx \in Seq(Int), NEW a \in Seq(Int), NEW m \in Nat,
           Waiting(o, rx, a, m), NEW o2, NEW n, Taking(o, o2, n)
    PROVE  Waiting(o2, rx, a, m + n)
<1>1. PICK b, k : Spread(o, rx, a, m, b, k)
    BY WaitingSpread
<1>2. /\ n \in 1 .. b /\ b \in Nat /\ k \in Nat
      /\ o.head \in Nat /\ o.tail \in Nat /\ o2.head \in Nat /\ o2.tail \in Nat
      /\ o.tail - o.head = b
    <2>1. /\ o.head \in Nat /\ o.tail \in Nat /\ o2.head \in Nat /\ o2.tail \in Nat
        BY PortAssumption DEF Taking, Valid, Member
    <2>2. b = o.tail - o.head /\ b \in Nat /\ k \in Nat
        BY <1>1 DEF Spread, buffered
    <2>3. n \in 1 .. b
        BY <1>1 DEF Spread, Taking
    <2> QED
        BY <2>1, <2>2, <2>3
<1>3. buffered(o2) = b - n
    <2>1. buffered(o2) = o2.tail - o2.head
        BY DEF buffered
    <2>2. \/ o2.head = o.head + n /\ o2.tail = o.tail
          \/ o2.head = o2.tail /\ n = b
        BY <1>1 DEF Spread, Taking
    <2>3. CASE o2.head = o.head + n /\ o2.tail = o.tail
        <3>1. buffered(o2) = o.tail - (o.head + n)
            BY <2>1, <2>3
        <3>2. o.tail - (o.head + n) = (o.tail - o.head) - n
            BY <1>2
        <3> QED
            BY <1>2, <3>1, <3>2
    <2>4. CASE o2.head = o2.tail /\ n = b
        BY <1>2, <2>1, <2>4
    <2> QED
        BY <2>2, <2>3, <2>4
<1>4. Spread(o2, rx, a, m + n, b - n, k)
    <2>1. b - n \in Nat /\ m + n \in Nat /\ Len(a) = m + n + (b - n) + k
        BY <1>1, <1>2 DEF Spread
    <2>2. ASSUME NEW i \in 1 .. b - n
          PROVE  o2.rx_buf[o2.head + i - 1] = a[m + n + i]
        <3>1. o2.head = o.head + n
            BY <1>1, <1>2, <2>2 DEF Taking, Spread
        <3>2. PICK j : j = n + i
            OBVIOUS
        <3>3. j \in 1 .. b /\ o2.head + i - 1 = o.head + j - 1 /\ m + n + i = m + j
            BY <1>2, <3>1, <3>2
        <3>4. o.rx_buf[o.head + j - 1] = a[m + j]
            BY <1>1, <3>3 DEF Spread
        <3> QED
            BY <3>3, <3>4 DEF Taking
    <2>3. ASSUME NEW i \in 1 .. k
          PROVE  rx[i] = a[m + n + (b - n) + i]
        <3>1. m + n + (b - n) + i = m + b + i
            BY <1>1, <1>2 DEF Spread
        <3> QED
            BY <1>1, <3>1 DEF Spread
    <2> QED
        BY <1>1, <1>2, <1>3, <2>1, <2>2, <2>3 DEF Spread
<1> QED
    BY <1>4, SpreadWaits

\* fill_buffer() moves the first bytes of the terminal to an empty buffer.
LEMMA FilledWaits ==
    ASSUME NEW o, Valid(o), buffered(o) = 0, NEW rx \in Seq(Int), NEW a \in Seq(Int),
           NEW m \in Nat, Waiting(o, rx, a, m),
           NEW n \in Nat, n = Minimum(BufferSize - Compacted(o).tail, Len(rx)),
           NEW o2, o2 = fill_buffer(Compacted(o), SubSeq(rx, 1, n))
    PROVE  /\ Valid(o2) /\ SameHold(o, o2)
           /\ SubSeq(rx, n + 1, Len(rx)) \in Seq(Int)
           /\ Waiting(o2, SubSeq(rx, n + 1, Len(rx)), a, m)
<1> DEFINE rx1 == SubSeq(rx, 1, n)
           rx2 == SubSeq(rx, n + 1, Len(rx))
<1>1. /\ Compacted(o) = Moved(o, 0, 0)
      /\ BufferSize \in Nat \ {0}
    BY PortAssumption DEF Compacted, buffered, Valid, Member, Moved
<1>2. n <= BufferSize /\ n <= Len(rx) /\ Len(rx) \in Nat
    <2>1. Compacted(o).tail = 0
        BY <1>1 DEF Moved, Valid, Member
    <2>2. Len(rx) \in Nat /\ n = Minimum(BufferSize, Len(rx))
        BY <1>1, <2>1
    <2> QED
        BY <1>1, <2>2 DEF Minimum
<1>3. /\ rx1 \in Seq(Int) /\ Len(rx1) = n
      /\ \A i \in 1 .. n : rx1[i] = rx[i]
    BY <1>2, SubSeqProperties
<1>4. /\ rx2 \in Seq(Int) /\ Len(rx2) = Len(rx) - n /\ DOMAIN rx2 = 1 .. Len(rx) - n
      /\ \A i \in 1 .. Len(rx) - n : rx2[i] = rx[n + i]
    BY <1>2, SubSeqProperties, SMTT(30)
<1> HIDE DEF rx1, rx2
<1> DEFINE o1 == Compacted(o)
           f  == [i \in 0 .. BufferSize - 1 |-> IF i \in 0 .. n - 1 THEN rx1[i + 1] ELSE o.rx_buf[i]]
<1>5. /\ Valid(o1) /\ SameHold(o, o1)
      /\ o1.rx_buf = o.rx_buf /\ o1.head = 0 /\ o1.tail = 0
    <2>1. 0 \in 0 .. BufferSize /\ 0 <= 0
        BY <1>1
    <2> QED
        BY ONLY Valid(o), <1>1, <2>1, MovedValid
<1>6. f \in [0 .. BufferSize - 1 -> Int]
    <2> SUFFICES ASSUME NEW i \in 0 .. BufferSize - 1
                 PROVE  (IF i \in 0 .. n - 1 THEN rx1[i + 1] ELSE o.rx_buf[i]) \in Int
        OBVIOUS
    <2>1. i \in 0 .. n - 1 => rx1[i + 1] \in Int
        BY <1>3
    <2> QED
        BY <2>1 DEF Valid, Member
<1>7. /\ Valid(o2) /\ SameHold(o, o2) /\ o2.head = 0 /\ o2.tail = n
      /\ \A i \in 1 .. n : o2.rx_buf[i - 1] = rx1[i]
    <2>1. [i \in DOMAIN o1.rx_buf |-> IF i \in o1.tail .. o1.tail + Len(rx1) - 1
                                      THEN rx1[i - o1.tail + 1] ELSE o1.rx_buf[i]] = f
        <3>1. DOMAIN o1.rx_buf = 0 .. BufferSize - 1
            BY <1>5 DEF Valid, Member
        <3> HIDE DEF o1
        <3>2. \A i \in 0 .. BufferSize - 1 :
                 /\ i \in o1.tail .. o1.tail + Len(rx1) - 1 <=> i \in 0 .. n - 1
                 /\ i - o1.tail + 1 = i + 1
            BY <1>1, <1>3, <1>5
        <3> QED
            BY <1>5, <3>1, <3>2
    <2>2. o2 = [o1 EXCEPT !.tail = n, !.rx_buf = f]
        <3>1. o2 = fill_buffer(o1, rx1)
            BY DEF rx1
        <3>2. o1.tail + Len(rx1) = n
            BY <1>3, <1>5
        <3> HIDE DEF o1, f
        <3> QED
            BY <2>1, <3>1, <3>2 DEF fill_buffer
    <2> HIDE DEF o1, f
    <2>3. n \in 0 .. BufferSize
        BY <1>1, <1>2
    <2>4. o2 \in Member /\ o2.head = 0 /\ o2.tail = n /\ o2.rx_buf = f
        BY <1>5, <1>6, <2>2, <2>3 DEF Valid, Member
    <2>5. SameHold(o, o2)
        BY <1>5, <2>2 DEF Valid, Member, SameHold
    <2>6. \A i \in 1 .. n : f[i - 1] = rx1[i]
        BY <1>1, <1>2 DEF f
    <2> QED
        BY <2>3, <2>4, <2>5, <2>6 DEF Valid
<1> HIDE DEF o1, f
<1>8. PICK b, k : Spread(o, rx, a, m, b, k)
    BY WaitingSpread
<1>9. Len(a) = m + Len(rx) /\ \A i \in 1 .. Len(rx) : rx[i] = a[m + i]
    <2>1. b = 0 /\ k = Len(rx) /\ Len(a) = m + b + k
        BY <1>8 DEF Spread
    <2>2. ASSUME NEW i \in 1 .. k
          PROVE  rx[i] = a[m + i]
        <3>1. rx[i] = a[m + b + i]
            BY <1>8, <2>2 DEF Spread
        <3>2. m + b + i = m + i
            BY <1>2, <2>1
        <3> QED
            BY <3>1, <3>2
    <2> QED
        BY <1>2, <2>1, <2>2
<1>10. Spread(o2, rx2, a, m, n, Len(rx) - n)
    <2>1. /\ Len(rx) - n \in Nat /\ Len(a) = m + n + (Len(rx) - n) /\ buffered(o2) = n
        BY <1>2, <1>7, <1>9 DEF buffered
    <2>2. ASSUME NEW i \in 1 .. n
          PROVE  o2.rx_buf[o2.head + i - 1] = a[m + i]
        <3>1. i \in 1 .. Len(rx)
            BY <1>2
        <3>2. rx[i] = a[m + i] /\ rx1[i] = rx[i]
            BY <1>3, <1>9, <3>1
        <3>3. o2.head + i - 1 = i - 1
            BY <1>7
        <3> QED
            BY <1>7, <3>2, <3>3
    <2>3. ASSUME NEW i \in 1 .. Len(rx) - n
          PROVE  rx2[i] = a[m + n + i]
        <3>1. n + i \in 1 .. Len(rx) /\ m + n + i = m + (n + i)
            BY <1>2, SMTT(30)
        <3>2. rx[n + i] = a[m + (n + i)]
            BY <1>9, <3>1
        <3> QED
            BY <1>4, <3>1, <3>2
    <2> QED
        BY <1>4, <2>1, <2>2, <2>3 DEF Spread
<1> QED
    BY <1>4, <1>7, <1>10, SpreadWaits DEF rx2

(***************************************************************************)
(* Steps, seen from the object that has the port.                          *)
(***************************************************************************)
Marks == {"raw", "first", "line"}

\* The method that runs is told by its name.
LEMMA CallKinds ==
    ASSUME UnderWay
    PROVE  /\ call.op \in {"drain", "close", "set_baud_rate"} =>
                call \in Draining /\ (call.op = "set_baud_rate" => call.rate \in Rates)
           /\ call.op \in {"read", "read_some"} => call \in Reads /\ Len(call.got) < call.n
           /\ call.op = "read_line" => call \in LineRead /\ Len(call.got) <= MaxLineLength
           /\ call.op = "write" => call \in Writing /\ call.done < call.n
           /\ Idle <=> call.op = "none"
           /\ ~Idle => call.by \in Objects
<1>1. CASE Idle
    BY <1>1 DEF Idle, NoCall
<1>2. CASE call \in Draining /\ (call.op = "set_baud_rate" => call.rate \in Rates)
    BY <1>2 DEF Draining, Idle, NoCall
<1>3. CASE call \in Reads /\ Len(call.got) < call.n
    BY <1>3 DEF Reads, Idle, NoCall
<1>4. CASE call \in LineRead /\ Len(call.got) <= MaxLineLength
    BY <1>4 DEF LineRead, Idle, NoCall
<1>5. CASE call \in Writing /\ call.done < call.n
    BY <1>5 DEF Writing, Idle, NoCall
<1> QED
    BY <1>1, <1>2, <1>3, <1>4, <1>5 DEF UnderWay

LEMMA Owner ==
    ASSUME IInv, NEW p \in Objects, port[p].open
    PROVE  /\ Valid(port[p]) /\ Holds(port[p])
           /\ \A q \in Objects : q # p => port[q] = Closed /\ ~port[q].open
           /\ Waiting(port[p], tty.rx, arrived, Len(marks))
           /\ Len(marks) \in Nat /\ Len(marks) <= Len(arrived)
<1>1. Valid(port[p])
    BY DEF IInv, Typed, Valid
<1>2. Holds(port[p])
    BY DEF IInv, Owned, Holds
<1>3. \A q \in Objects : q # p => port[q] = Closed /\ ~port[q].open
    BY ClosedValid DEF IInv, Owned, TerminalIsOurs
<1>4. Waiting(port[p], tty.rx, arrived, Len(marks))
    BY DEF IInv, Kept, BytesWaitInOrder, Waiting
<1>5. tty.rx \in Seq(Int) /\ Len(marks) \in Nat
    BY LenProperties DEF IInv, Typed, Terminal
<1>6. PICK b, k : Spread(port[p], tty.rx, arrived, Len(marks), b, k)
    BY <1>1, <1>4, <1>5, WaitingSpread
<1>7. Len(marks) <= Len(arrived)
    BY <1>5, <1>6 DEF Spread
<1> QED
    BY <1>1, <1>2, <1>3, <1>4, <1>5, <1>7

SameTerminal == /\ tty'.plugged = tty.plugged
                /\ tty'.settings = tty.settings /\ tty'.exclusive = tty.exclusive

\* Bytes come to the terminal and leave it.
LEMMA TerminalMoves ==
    ASSUME tty \in Terminal, NEW rx \in Seq(Int), NEW tx \in 0 .. QueueSize,
           \/ tty' = [tty EXCEPT !.rx = rx, !.tx = tx]
           \/ tty' = [tty EXCEPT !.rx = rx] /\ tx = tty.tx
           \/ tty' = [tty EXCEPT !.tx = tx] /\ rx = tty.rx
    PROVE  tty' \in Terminal /\ SameTerminal /\ tty'.rx = rx /\ tty'.tx = tx
<1>1. tty' \in Terminal
    BY DEF Terminal
<1>2. SameTerminal
    BY DEF Terminal, SameTerminal
<1>3. tty'.rx = rx /\ tty'.tx = tx
    BY DEF Terminal
<1> QED
    BY <1>1, <1>2, <1>3

\* A step changes nothing but the marks and the bytes of the object p.
LEMMA OwnerSteps ==
    ASSUME IInv, NEW p \in Objects, port[p].open,
           NEW o, Valid(o), SameHold(port[p], o), port' = [port EXCEPT ![p] = o],
           tty' \in Terminal, SameTerminal, UnderWay', calls' \in 0 .. MaxCalls,
           Idle' \/ call'.by = p,
           arrived' \in Seq(Int), marks' \in Seq(Marks),
           Waiting(o, tty'.rx, arrived', Len(marks'))
    PROVE  Typed' /\ Owned' /\ Kept'
<1>1. /\ port'[p] = o /\ o.open
      /\ \A q \in Objects : q # p => port'[q] = Closed /\ ~port'[q].open
    BY Owner DEF IInv, Typed, SameHold
<1>2. port' \in [Objects -> Member] /\ \A q \in Objects : port'[q].head <= port'[q].tail
    BY DEF IInv, Typed, Valid
<1>3. Typed'
    BY <1>2 DEF Typed, Marks
<1>4. TerminalIsOurs'
    BY <1>1 DEF IInv, Owned, TerminalIsOurs, SameTerminal, SameHold
<1>5. Owned'
    <2>1. o.restore /\ o.original = Found
        BY Owner DEF Holds, SameHold
    <2> QED
        BY <1>1, <1>4, <2>1 DEF Owned
<1>6. Kept'
    BY <1>1 DEF Kept, BytesWaitInOrder, Waiting
<1> QED
    BY <1>3, <1>5, <1>6

\* A step changes no object.
LEMMA OwnerStays ==
    ASSUME IInv, port' = port,
           tty' \in Terminal, SameTerminal \/ ~tty'.plugged, UnderWay', calls' \in 0 .. MaxCalls,
           Idle' \/ port[call'.by].open,
           arrived' \in Seq(Int), marks' \in Seq(Marks),
           \A p \in Objects : port[p].open => Waiting(port[p], tty'.rx, arrived', Len(marks')),
           (\A p \in Objects : ~port[p].open) => tty'.rx = <<>> /\ Len(marks') = Len(arrived')
    PROVE  Typed' /\ Owned' /\ Kept'
<1>1. Typed'
    BY DEF IInv, Typed, Marks
<1>2. Owned'
    BY DEF IInv, Owned, TerminalIsOurs, SameTerminal
<1>3. Kept'
    BY DEF Kept, BytesWaitInOrder, Waiting
<1> QED
    BY <1>1, <1>2, <1>3

(***************************************************************************)
(* What the caller does.                                                   *)
(***************************************************************************)
\* A method that changes nothing yet but its flags begins.
LEMMA Begins ==
    ASSUME IInv, NEW p \in Objects, port[p].open, Starts,
           NEW o, Valid(o), SameHold(port[p], o), SameBytes(port[p], o),
           port' = [port EXCEPT ![p] = o],
           UNCHANGED <<tty, arrived, marks>>,
           \/ call' = call
           \/ UnderWay' /\ call'.by = p
    PROVE  Typed' /\ Owned' /\ Kept'
<1>1. calls' \in 0 .. MaxCalls /\ Idle
    BY PortAssumption DEF IInv, Typed, Starts
<1>2. UnderWay' /\ (Idle' \/ call'.by = p)
    BY <1>1 DEF UnderWay, Idle
<1>3. /\ tty' \in Terminal /\ SameTerminal
      /\ arrived' \in Seq(Int) /\ marks' \in Seq(Marks)
    BY DEF IInv, Typed, SameTerminal, Marks
<1>4. Waiting(o, tty'.rx, arrived', Len(marks'))
    BY Owner, SameWaiting
<1> QED
    BY <1>1, <1>2, <1>3, <1>4, OwnerSteps

LEMMA CallerReads ==
    ASSUME IInv, NEW p \in Objects
    PROVE  /\ SetTimeout(p) => Typed' /\ Owned' /\ Kept'
           /\ \A n \in Requests, op \in {"read", "read_some"} :
                 StartRead(p, op, n) => Typed' /\ Owned' /\ Kept'
           /\ \A form \in Forms : StartReadLine(p, form) => Typed' /\ Owned' /\ Kept'
           /\ \A n \in Requests : StartWrite(p, n) => Typed' /\ Owned' /\ Kept'
<1>1. ASSUME SetTimeout(p)
      PROVE  Typed' /\ Owned' /\ Kept'
    <2> DEFINE o == [port[p] EXCEPT !.config.timed = ~@]
    <2>1. port[p].open /\ Starts /\ port' = [port EXCEPT ![p] = o]
          /\ call' = call /\ UNCHANGED <<tty, arrived, marks>>
        BY <1>1 DEF SetTimeout, received
    <2>2. Valid(o) /\ SameHold(port[p], o) /\ SameBytes(port[p], o)
        BY <2>1, Owner, MarkedValid
    <2> HIDE DEF o
    <2> QED
        BY <2>1, <2>2, Begins
<1>2. ASSUME NEW n \in Requests, NEW op \in {"read", "read_some"}, StartRead(p, op, n)
      PROVE  Typed' /\ Owned' /\ Kept'
    <2> DEFINE o == [begin_operation(port[p]) EXCEPT !.pending_lf = FALSE]
    <2>1. port[p].open /\ Starts /\ port' = [port EXCEPT ![p] = o]
          /\ UNCHANGED <<tty, arrived, marks>>
          /\ call' = [op |-> op, by |-> p, n |-> n, got |-> <<>>, due |-> FALSE]
        BY <1>2 DEF StartRead
    <2>2. Valid(o) /\ SameHold(port[p], o) /\ SameBytes(port[p], o)
        BY <2>1, Owner, MarkedValid
    <2>3. UnderWay' /\ call'.by = p
        <3>1. call' \in Reads
            BY <2>1 DEF Reads
        <3>2. Len(call'.got) < call'.n
            BY <2>1, PortAssumption
        <3> QED
            BY <2>1, <3>1, <3>2 DEF UnderWay
    <2> HIDE DEF o
    <2> QED
        BY <2>1, <2>2, <2>3, Begins
<1>3. ASSUME NEW form \in Forms, StartReadLine(p, form)
      PROVE  Typed' /\ Owned' /\ Kept'
    <2> DEFINE o == begin_operation(port[p])
    <2>1. port[p].open /\ Starts /\ port' = [port EXCEPT ![p] = o]
          /\ UNCHANGED <<tty, arrived, marks>>
          /\ call' = [op |-> "read_line", by |-> p, form |-> form, got |-> <<>>, due |-> FALSE]
        BY <1>3 DEF StartReadLine, received
    <2>2. Valid(o) /\ SameHold(port[p], o) /\ SameBytes(port[p], o)
        BY <2>1, Owner, MarkedValid
    <2>3. UnderWay' /\ call'.by = p
        <3>1. call' \in LineRead
            BY <2>1 DEF LineRead
        <3>2. Len(call'.got) <= MaxLineLength
            BY <2>1, PortAssumption
        <3> QED
            BY <2>1, <3>1, <3>2 DEF UnderWay
    <2> HIDE DEF o
    <2> QED
        BY <2>1, <2>2, <2>3, Begins
<1>4. ASSUME NEW n \in Requests, StartWrite(p, n)
      PROVE  Typed' /\ Owned' /\ Kept'
    <2> DEFINE o == begin_operation(port[p])
    <2>1. port[p].open /\ Starts /\ port' = [port EXCEPT ![p] = o]
          /\ UNCHANGED <<tty, arrived, marks>>
          /\ call' = [op |-> "write", by |-> p, n |-> n, done |-> 0, due |-> FALSE]
        BY <1>4 DEF StartWrite, received
    <2>2. Valid(o) /\ SameHold(port[p], o) /\ SameBytes(port[p], o)
        BY <2>1, Owner, MarkedValid
    <2>3. UnderWay' /\ call'.by = p
        <3>1. call' \in Writing
            BY <2>1 DEF Writing
        <3>2. call'.done < call'.n
            BY <2>1, PortAssumption
        <3> QED
            BY <2>1, <3>1, <3>2 DEF UnderWay
    <2> HIDE DEF o
    <2> QED
        BY <2>1, <2>2, <2>3, Begins
<1> QED
    BY <1>1, <1>2, <1>3, <1>4

LEMMA CallerDrains ==
    ASSUME IInv, NEW p \in Objects, NEW op \in {"drain", "close", "set_baud_rate"},
           NEW rate \in Rates \cup {"none"}, op = "set_baud_rate" => rate \in Rates,
           StartDrain(p, op, rate)
    PROVE  Typed' /\ Owned' /\ Kept'
<1>1. port[p].open /\ Starts /\ port' = port /\ UNCHANGED <<tty, arrived, marks>>
      /\ call' = [op |-> op, by |-> p, rate |-> rate]
    BY DEF StartDrain, received
<1>2. call' \in Draining /\ (call'.op = "set_baud_rate" => call'.rate \in Rates)
    BY <1>1 DEF Draining
<1>3. UnderWay' /\ call'.by = p
    BY <1>1, <1>2 DEF UnderWay
<1>4. port' = [port EXCEPT ![p] = port[p]]
    BY <1>1 DEF IInv, Typed
<1>5. Valid(port[p]) /\ SameHold(port[p], port[p]) /\ SameBytes(port[p], port[p])
    BY <1>1, Owner DEF SameHold, SameBytes
<1> QED
    BY <1>1, <1>3, <1>4, <1>5, Begins

LEMMA CallerFlushes ==
    ASSUME IInv, NEW p \in Objects
    PROVE  /\ \A output \in BOOLEAN : FlushInput(p, output) => Typed' /\ Owned' /\ Kept'
           /\ FlushOutput(p) => Typed' /\ Owned' /\ Kept'
<1>1. ASSUME NEW output \in BOOLEAN, FlushInput(p, output)
      PROVE  Typed' /\ Owned' /\ Kept'
    <2> DEFINE o == Emptied(port[p])
    <2>1. /\ port[p].open /\ Starts /\ port' = [port EXCEPT ![p] = o]
          /\ call' = call /\ marks' = marks
          /\ arrived' = SubSeq(arrived, 1, Len(marks)) \o tty'.rx
        BY <1>1 DEF FlushInput
    <2>2. /\ Valid(o) /\ SameHold(port[p], o) /\ buffered(o) = 0
        BY <2>1, Owner, EmptiedValid DEF buffered
    <2>3. tty' \in Terminal /\ SameTerminal
        <3>1. PICK rx, tx : /\ tty' = [tty EXCEPT !.rx = rx, !.tx = tx]
                            /\ rx = IF tty.plugged THEN <<>> ELSE tty.rx
                            /\ tx = IF output THEN 0 ELSE tty.tx
            BY <1>1 DEF FlushInput
        <3>2. tty \in Terminal /\ rx \in Seq(Int) /\ tx \in 0 .. QueueSize
            BY <3>1, PortAssumption DEF IInv, Typed, Terminal
        <3> QED
            BY <3>1, <3>2, TerminalMoves
    <2>4. calls' \in 0 .. MaxCalls /\ UnderWay' /\ Idle'
        BY <2>1, PortAssumption DEF IInv, Typed, Starts, UnderWay, Idle
    <2>5. Len(marks) \in 0 .. Len(arrived) /\ tty'.rx \in Seq(Int) /\ arrived \in Seq(Int)
        BY <2>1, <2>3, Owner DEF IInv, Typed, Terminal
    <2>6. arrived' \in Seq(Int) /\ Waiting(o, tty'.rx, arrived', Len(marks'))
        BY <2>1, <2>2, <2>5, FlushedWaits
    <2>7. marks' \in Seq(Marks)
        BY <2>1 DEF IInv, Typed, Marks
    <2> HIDE DEF o
    <2> QED
        BY <2>1, <2>2, <2>3, <2>4, <2>6, <2>7, OwnerSteps
<1>2. ASSUME FlushOutput(p)
      PROVE  Typed' /\ Owned' /\ Kept'
    <2>1. /\ port[p].open /\ Starts /\ port' = port /\ tty' = [tty EXCEPT !.tx = 0]
          /\ UNCHANGED <<call, arrived, marks>>
        BY <1>2 DEF FlushOutput, received
    <2>2. tty' \in Terminal /\ SameTerminal /\ tty'.rx = tty.rx
        <3>1. tty \in Terminal /\ tty.rx \in Seq(Int) /\ 0 \in 0 .. QueueSize
            BY PortAssumption DEF IInv, Typed, Terminal
        <3> QED
            BY <2>1, <3>1, TerminalMoves
    <2>3. calls' \in 0 .. MaxCalls /\ UnderWay' /\ Idle'
        BY <2>1, PortAssumption DEF IInv, Typed, Starts, UnderWay, Idle
    <2>4. arrived' \in Seq(Int) /\ marks' \in Seq(Marks)
        BY <2>1 DEF IInv, Typed, Marks
    <2>5. \A q \in Objects : port[q].open => Waiting(port[q], tty'.rx, arrived', Len(marks'))
        BY <2>1, <2>2, Owner
    <2> QED
        BY <2>1, <2>2, <2>3, <2>4, <2>5, OwnerStays
<1> QED
    BY <1>1, <1>2

(***************************************************************************)
(* What the line does.                                                     *)
(***************************************************************************)
LEMMA CallStays ==
    ASSUME IInv, UNCHANGED <<call, calls, port>>
    PROVE  UnderWay' /\ calls' \in 0 .. MaxCalls /\ (Idle' \/ port[call'.by].open)
BY DEF IInv, Typed, Owned, UnderWay, Idle

LEMMA LineSteps ==
    ASSUME IInv, Line
    PROVE  Typed' /\ Owned' /\ Kept'
<1>1. /\ tty \in Terminal /\ tty.rx \in Seq(Int) /\ arrived \in Seq(Int) /\ marks \in Seq(Marks)
      /\ tty.tx \in 0 .. QueueSize /\ QueueSize \in Nat
    BY PortAssumption DEF IInv, Typed, Terminal, Marks
<1>2. CASE Arrive
    <2>1. PICK byte \in {CR, LF, Data(Len(arrived) + 1)} :
             tty' = [tty EXCEPT !.rx = Append(@, byte)] /\ arrived' = Append(arrived, byte)
        BY <1>2 DEF Arrive
    <2>2. /\ UNCHANGED <<port, call, calls, marks>>
          /\ \E p \in Objects : port[p].open
        BY <1>2 DEF Arrive
    <2>3. byte \in Int
        BY <1>1, LenProperties DEF CR, LF, Data
    <2>4. Append(tty.rx, byte) \in Seq(Int) /\ arrived' \in Seq(Int)
        BY <1>1, <2>1, <2>3
    <2>5. tty' \in Terminal /\ SameTerminal /\ tty'.rx = Append(tty.rx, byte)
        BY <1>1, <2>1, <2>4, TerminalMoves
    <2>6. \A p \in Objects : port[p].open => Waiting(port[p], tty'.rx, arrived', Len(marks'))
        <3> SUFFICES ASSUME NEW p \in Objects, port[p].open
                     PROVE  Waiting(port[p], Append(tty.rx, byte), Append(arrived, byte), Len(marks))
            BY <2>1, <2>2, <2>5
        <3>1. /\ Valid(port[p]) /\ Waiting(port[p], tty.rx, arrived, Len(marks))
              /\ Len(marks) \in Nat
            BY Owner
        <3> QED
            BY <1>1, <2>3, <3>1, ArrivedWaits
    <2> QED
        BY <1>1, <2>2, <2>4, <2>5, <2>6, CallStays, OwnerStays
<1>3. CASE Transmit
    <2>1. tty' = [tty EXCEPT !.tx = @ - 1] /\ tty.tx > 0 /\ UNCHANGED <<port, call, calls, arrived, marks>>
        BY <1>3 DEF Transmit, received
    <2>2. tty.tx - 1 \in 0 .. QueueSize
        BY <1>1, <2>1
    <2>3. tty' \in Terminal /\ SameTerminal /\ tty'.rx = tty.rx
        BY <1>1, <2>1, <2>2, TerminalMoves
    <2>4. \A p \in Objects : port[p].open => Waiting(port[p], tty'.rx, arrived', Len(marks'))
        BY <2>1, <2>3, Owner
    <2>5. (\A p \in Objects : ~port[p].open) => tty'.rx = <<>> /\ Len(marks') = Len(arrived')
        BY <2>1, <2>3 DEF IInv, Kept
    <2> QED
        BY <1>1, <2>1, <2>3, <2>4, <2>5, CallStays, OwnerStays
<1>4. CASE Unplug
    <2>1. PICK lost \in {0, Len(tty.rx)} :
             /\ tty' = [tty EXCEPT !.plugged = FALSE, !.tx = 0, !.rx = SubSeq(@, 1, Len(@) - lost)]
             /\ arrived' = SubSeq(arrived, 1, Len(arrived) - lost)
        BY <1>4 DEF Unplug
    <2>2. UNCHANGED <<port, call, calls, marks>>
        BY <1>4 DEF Unplug
    <2>3. lost \in 0 .. Len(tty.rx)
        BY <1>1, LenProperties
    <2>4. SubSeq(tty.rx, 1, Len(tty.rx) - lost) \in Seq(Int)
        BY <1>1, <2>3, SubSeqProperties
    <2>5. /\ tty' \in Terminal /\ ~tty'.plugged
          /\ tty'.rx = SubSeq(tty.rx, 1, Len(tty.rx) - lost)
        <3>1. PICK rx : rx = SubSeq(tty.rx, 1, Len(tty.rx) - lost)
            OBVIOUS
        <3>2. tty' = [tty EXCEPT !.plugged = FALSE, !.tx = 0, !.rx = rx] /\ 0 \in 0 .. QueueSize
            BY <1>1, <2>1, <3>1
        <3>3. tty' \in Terminal
            BY <1>1, <2>4, <3>1, <3>2 DEF Terminal
        <3>4. ~tty'.plugged /\ tty'.rx = rx
            BY <1>1, <3>2 DEF Terminal
        <3> QED
            BY <3>1, <3>3, <3>4
    <2>6. \A p \in Objects : port[p].open =>
             arrived' \in Seq(Int) /\ Waiting(port[p], tty'.rx, arrived', Len(marks'))
        <3> SUFFICES ASSUME NEW p \in Objects, port[p].open
                     PROVE  /\ SubSeq(arrived, 1, Len(arrived) - lost) \in Seq(Int)
                            /\ Waiting(port[p], SubSeq(tty.rx, 1, Len(tty.rx) - lost),
                                       SubSeq(arrived, 1, Len(arrived) - lost), Len(marks))
            BY <2>1, <2>2, <2>5
        <3>1. /\ Valid(port[p]) /\ Waiting(port[p], tty.rx, arrived, Len(marks))
              /\ Len(marks) \in Nat
            BY Owner
        <3> QED
            BY <1>1, <2>3, <3>1, LostWaits
    <2>7. ASSUME \A p \in Objects : ~port[p].open
          PROVE  arrived' \in Seq(Int) /\ tty'.rx = <<>> /\ Len(marks') = Len(arrived')
        <3>1. tty.rx = <<>> /\ Len(marks) = Len(arrived) /\ lost = 0
            BY <2>7, <2>3 DEF IInv, Kept
        <3>2. SubSeq(arrived, 1, Len(arrived) - lost) = arrived
            BY <1>1, <3>1, SubSeqFull
        <3>3. SubSeq(tty.rx, 1, Len(tty.rx) - lost) = <<>>
            BY <1>1, <3>1, SubSeqFull
        <3> QED
            BY <1>1, <2>1, <2>2, <2>5, <3>1, <3>2, <3>3
    <2> QED
        BY <1>1, <2>2, <2>5, <2>6, <2>7, CallStays, OwnerStays
<1> QED
    BY <1>2, <1>3, <1>4 DEF Line

(***************************************************************************)
(* What the running method does.                                           *)
(***************************************************************************)
\* The bytes and the object stay as they are.
LEMMA QuietSteps ==
    ASSUME IInv, Drained \/ BaudRateThrows \/ Expire
    PROVE  Typed' /\ Owned' /\ Kept'
<1>1. UNCHANGED <<tty, port, calls, arrived, marks>>
    BY DEF Drained, BaudRateThrows, Expire, received
<1>2. UnderWay' /\ (Idle' \/ port[call'.by].open)
    <2>1. CASE Drained \/ BaudRateThrows
        BY <2>1 DEF Drained, BaudRateThrows, DrainEnds, UnderWay, Idle
    <2>2. CASE Expire
        <3>1. call.op \in Deadlined /\ call' = [call EXCEPT !.due = TRUE]
            BY <2>2 DEF Expire
        <3>2. UnderWay /\ port[call.by].open
            BY <3>1, CallKinds DEF IInv, Typed, Owned, Deadlined
        <3>3. CASE call \in Reads /\ Len(call.got) < call.n
            BY <3>1, <3>2, <3>3 DEF Reads, UnderWay
        <3>4. CASE call \in LineRead /\ Len(call.got) <= MaxLineLength
            BY <3>1, <3>2, <3>4 DEF LineRead, UnderWay
        <3>5. CASE call \in Writing /\ call.done < call.n
            BY <3>1, <3>2, <3>5 DEF Writing, UnderWay
        <3> QED
            BY <3>1, <3>2, <3>3, <3>4, <3>5, CallKinds DEF Deadlined
    <2> QED
        BY <2>1, <2>2
<1>3. tty' \in Terminal /\ SameTerminal /\ calls' \in 0 .. MaxCalls
      /\ arrived' \in Seq(Int) /\ marks' \in Seq(Marks)
    BY <1>1 DEF IInv, Typed, SameTerminal, Marks
<1>4. \A p \in Objects : port[p].open => Waiting(port[p], tty'.rx, arrived', Len(marks'))
    BY <1>1, Owner
<1>5. (\A p \in Objects : ~port[p].open) => tty'.rx = <<>> /\ Len(marks') = Len(arrived')
    BY <1>1 DEF IInv, Kept
<1> QED
    BY <1>1, <1>2, <1>3, <1>4, <1>5, OwnerStays

\* A method runs on the object that has the port.
LEMMA Running1 ==
    ASSUME IInv, ~Idle
    PROVE  /\ call.by \in Objects /\ Self.open
           /\ Valid(Self) /\ Waiting(Self, tty.rx, arrived, Len(marks))
           /\ Len(marks) \in Nat
           /\ tty \in Terminal /\ tty.rx \in Seq(Int)
           /\ arrived \in Seq(Int) /\ marks \in Seq(Marks)
           /\ calls \in 0 .. MaxCalls
<1>1. call.by \in Objects
    BY CallKinds DEF IInv, Typed
<1>2. Self.open
    BY DEF IInv, Owned, Self
<1> QED
    BY <1>1, <1>2, Owner DEF Self, IInv, Typed, Terminal, Marks

\* A step of the method moves bytes and leaves the object o behind.
LEMMA Moves ==
    ASSUME IInv, ~Idle, NEW o, Valid(o), SameHold(Self, o), Leaves(o),
           tty' \in Terminal, SameTerminal, calls' = calls,
           UnderWay', Idle' \/ call'.by = call.by,
           arrived' = arrived, marks' \in Seq(Marks),
           Waiting(o, tty'.rx, arrived, Len(marks'))
    PROVE  Typed' /\ Owned' /\ Kept'
<1>1. PICK p : p = call.by
    OBVIOUS
<1>2. p \in Objects /\ port[p].open /\ SameHold(port[p], o) /\ port' = [port EXCEPT ![p] = o]
    BY <1>1, Running1 DEF Self, Leaves
<1> QED
    BY <1>1, <1>2, Running1, OwnerSteps

LEMMA FillSteps == ASSUME IInv, Fill PROVE Typed' /\ Owned' /\ Kept'
<1>1. ~Idle /\ buffered(Self) = 0
    BY DEF Fill, Reading, Empty, Idle, NoCall
<1> DEFINE n == Minimum(BufferSize - Compacted(Self).tail, Len(tty.rx))
           o == fill_buffer(Compacted(Self), SubSeq(tty.rx, 1, n))
           rx2 == SubSeq(tty.rx, n + 1, Len(tty.rx))
<1>2. Leaves(o) /\ tty' = [tty EXCEPT !.rx = rx2]
    BY DEF Fill
<1>3. UNCHANGED <<call, calls, arrived, marks>>
    BY DEF Fill, received
<1>4. n \in Nat
    <2>1. Compacted(Self) = Moved(Self, 0, 0)
        BY <1>1, Running1 DEF Compacted, buffered, Moved, Valid, Member
    <2>2. Compacted(Self).tail = 0
        BY <1>1, <2>1, Running1 DEF Moved, Valid, Member
    <2>3. Len(tty.rx) \in Nat
        BY <1>1, Running1
    <2> QED
        BY <2>2, <2>3, PortAssumption DEF Minimum
<1>5. /\ Valid(o) /\ SameHold(Self, o) /\ rx2 \in Seq(Int)
      /\ Waiting(o, rx2, arrived, Len(marks))
    BY <1>1, <1>4, Running1, FilledWaits
<1> HIDE DEF n, o, rx2
<1>6. tty' \in Terminal /\ SameTerminal /\ tty'.rx = rx2
    <2>1. tty.tx \in 0 .. QueueSize
        BY <1>1, Running1 DEF Terminal
    <2> QED
        BY <1>1, <1>2, <1>5, <2>1, Running1, TerminalMoves
<1>7. UnderWay'
    BY <1>3 DEF IInv, Typed, UnderWay, Idle
<1> QED
    BY <1>1, <1>2, <1>3, <1>5, <1>6, <1>7, Running1, Moves

\* A step of the method takes n bytes from the buffer.
LEMMA Takes ==
    ASSUME IInv, ~Idle, NEW o, NEW n, Taking(Self, o, n), Leaves(o),
           UNCHANGED <<tty, calls, arrived>>,
           UnderWay', Idle' \/ call'.by = call.by,
           marks' \in Seq(Marks), Len(marks') = Len(marks) + n
    PROVE  Typed' /\ Owned' /\ Kept'
<1>1. Valid(o) /\ SameHold(Self, o)
    BY DEF Taking
<1>2. Waiting(o, tty.rx, arrived, Len(marks'))
    BY Running1, TakenWaits
<1>3. tty' \in Terminal /\ SameTerminal
    BY Running1 DEF SameTerminal
<1> QED
    BY <1>1, <1>2, <1>3, Moves

\* A step of the method moves no byte, and may raise a flag.
LEMMA Flags ==
    ASSUME IInv, ~Idle, NEW o, Valid(o), SameHold(Self, o), SameBytes(Self, o), Leaves(o),
           UNCHANGED <<tty, calls, arrived, marks>>,
           UnderWay', Idle' \/ call'.by = call.by
    PROVE  Typed' /\ Owned' /\ Kept'
<1>1. Waiting(o, tty.rx, arrived, Len(marks))
    BY Running1, SameWaiting
<1>2. tty' \in Terminal /\ SameTerminal /\ marks' \in Seq(Marks)
    BY Running1 DEF SameTerminal
<1> QED
    BY <1>1, <1>2, Moves

LEMMA SelfFlags ==
    ASSUME IInv, ~Idle
    PROVE  /\ Valid(Late) /\ SameHold(Self, Late) /\ SameBytes(Self, Late)
           /\ LET o == Cut(Self, "native")
              IN  Valid(o) /\ SameHold(Self, o) /\ SameBytes(Self, o)
BY Running1, MarkedValid DEF Late

\* A piece of n marks.
LEMMA MarksGrow ==
    ASSUME NEW s \in Seq(Marks), NEW n \in Nat, NEW mark \in Marks
    PROVE  /\ s \o [i \in 1 .. n |-> mark] \in Seq(Marks)
           /\ Len(s \o [i \in 1 .. n |-> mark]) = Len(s) + n
<1>1. [i \in 1 .. n |-> mark] \in Seq(Marks) /\ Len([i \in 1 .. n |-> mark]) = n
    OBVIOUS
<1> QED
    BY <1>1, ConcatProperties

LEMMA ReadSteps ==
    ASSUME IInv, ReadTakes \/ ReadSomeTakes \/ ReadTimesOut \/ ReadFails
    PROVE  Typed' /\ Owned' /\ Kept'
<1>1. ~Idle /\ call \in Reads /\ Len(call.got) < call.n
    BY CallKinds DEF ReadTakes, ReadSomeTakes, ReadTimesOut, ReadFails, InCall,
                     Idle, NoCall, IInv, Typed
<1>2. /\ call.n \in Nat \ {0} /\ call.got \in Seq(Int) /\ Len(call.got) \in Nat
      /\ buffered(Self) \in Nat
    <2>1. call.n \in Requests /\ call.got \in Seq(Int)
        BY <1>1 DEF Reads
    <2>2. buffered(Self) \in Nat
        BY <1>1, Running1, BufferedType
    <2> QED
        BY <2>1, <2>2, PortAssumption, LenProperties
<1>3. call' = NoCall => UnderWay' /\ Idle'
    BY DEF UnderWay, Idle
<1>4. ASSUME NEW n \in 1 .. buffered(Self), Take(n), UnderWay', Idle' \/ call'.by = call.by
      PROVE  Typed' /\ Owned' /\ Kept'
    <2>1. PICK o : o = take_buffered(Self, n)
        OBVIOUS
    <2>2. Taking(Self, o, n) /\ Leaves(o)
        BY <1>1, <1>4, <2>1, Running1, TakenBuffered DEF Take
    <2>3. marks' \in Seq(Marks) /\ Len(marks') = Len(marks) + n
        BY <1>1, <1>4, Running1, MarksGrow DEF Take, Marks
    <2> QED
        BY <1>1, <1>4, <2>2, <2>3, Takes DEF Take
<1>5. CASE ReadTakes
    <2>1. PICK n : /\ n = Minimum(buffered(Self), call.n - Len(call.got)) /\ Take(n)
                   /\ \E got : got = call.got \o Taken(Self, n)
                               /\ IF Len(got) = call.n
                                  THEN ReturnsRaw(Len(got), got)
                                  ELSE call' = [call EXCEPT !.got = got] /\ raw' = raw
        BY <1>5 DEF ReadTakes
    <2>2. /\ n \in 1 .. buffered(Self) /\ n <= call.n - Len(call.got) /\ n \in Nat
        BY <1>1, <1>2, <1>5, <2>1 DEF ReadTakes, Empty, Minimum
    <2>3. Taken(Self, n) \in Seq(Int) /\ Len(Taken(Self, n)) = n
        <3>1. \A i \in 1 .. n : Self.rx_buf[Self.head + i - 1] \in Int
            <4> SUFFICES ASSUME NEW i \in 1 .. n
                         PROVE  Self.rx_buf[Self.head + i - 1] \in Int
                OBVIOUS
            <4>1. i \in 1 .. buffered(Self) /\ Valid(Self)
                BY <1>1, <1>2, <2>2, Running1
            <4> QED
                BY <4>1, BufferedType
        <3>2. Taken(Self, n) \in [1 .. n -> Int]
            BY <3>1 DEF Taken
        <3> QED
            BY <2>2, <3>2
    <2>4. PICK got : /\ got = call.got \o Taken(Self, n)
                     /\ IF Len(got) = call.n
                        THEN ReturnsRaw(Len(got), got)
                        ELSE call' = [call EXCEPT !.got = got] /\ raw' = raw
        BY <2>1
    <2>5. got \in Seq(Int) /\ Len(got) = Len(call.got) + n
        <3>1. PICK bytes : bytes = Taken(Self, n)
            OBVIOUS
        <3> QED
            BY <1>2, <2>3, <2>4, <3>1, ConcatProperties
    <2>6. CASE Len(got) = call.n
        BY <1>3, <1>4, <2>1, <2>2, <2>4, <2>6 DEF ReturnsRaw
    <2>7. CASE Len(got) # call.n
        <3>1. call' = [call EXCEPT !.got = got] /\ Len(got) < call.n
            <4>1. Len(got) <= call.n /\ Len(got) \in Nat
                BY <1>2, <2>2, <2>5
            <4>2. Len(got) < call.n
                BY <1>2, <2>7, <4>1
            <4> QED
                BY <2>4, <2>7, <4>2
        <3>2. call' \in Reads /\ Len(call'.got) < call'.n /\ call'.by = call.by
            BY <1>1, <2>5, <3>1 DEF Reads
        <3> QED
            BY <1>4, <2>1, <2>2, <3>2 DEF UnderWay
    <2> QED
        BY <2>6, <2>7
<1>6. CASE ReadSomeTakes
    <2>1. PICK n : /\ n = Minimum(buffered(Self), call.n) /\ Take(n)
                   /\ ReturnsRaw(n, Taken(Self, n))
        BY <1>6 DEF ReadSomeTakes
    <2>2. n \in 1 .. buffered(Self)
        BY <1>2, <1>6, <2>1 DEF ReadSomeTakes, Empty, Minimum
    <2> QED
        BY <1>3, <1>4, <2>1, <2>2 DEF ReturnsRaw
<1>7. CASE ReadTimesOut
    <2>1. /\ Leaves(Late) /\ call' = NoCall
          /\ UNCHANGED <<tty, calls, arrived, marks>>
        BY <1>7 DEF ReadTimesOut, ReturnsRaw
    <2> QED
        BY <1>1, <1>3, <2>1, SelfFlags, Flags
<1>8. CASE ReadFails
    <2>1. /\ Leaves(Cut(Self, "native")) /\ call' = NoCall
          /\ UNCHANGED <<tty, calls, arrived, marks>>
        BY <1>8 DEF ReadFails, ReturnsRaw
    <2> QED
        BY <1>1, <1>3, <2>1, SelfFlags, Flags
<1> QED
    BY <1>5, <1>6, <1>7, <1>8

\* Whatever becomes of a line, the object it comes with is marked at most.
LEMMA LineReturned ==
    ASSUME NEW text, NEW o, Valid(o), ReturnsLine(text, o)
    PROVE  /\ call' = NoCall
           /\ \E o2 : Leaves(o2) /\ Valid(o2) /\ SameHold(o, o2) /\ SameBytes(o, o2)
<1>1. PICK clipped : /\ clipped = ClippedLine(text, o)
                     /\ Leaves(clipped.by) /\ call' = NoCall
    BY DEF ReturnsLine
<1>2. clipped.by = o \/ clipped.by = Cut(o, "message_size")
    BY <1>1 DEF ClippedLine
<1>3. /\ Valid(clipped.by) /\ SameHold(o, clipped.by) /\ SameBytes(o, clipped.by)
    <2>1. CASE clipped.by = o
        BY <2>1 DEF SameHold, SameBytes
    <2>2. CASE clipped.by = Cut(o, "message_size")
        BY <2>2, MarkedValid
    <2> QED
        BY <1>2, <2>1, <2>2
<1> QED
    BY <1>1, <1>3

LEMMA LineReadSteps ==
    ASSUME IInv, \/ SwallowLf \/ LineEnds \/ LineGrows \/ LineOverruns
                 \/ ReadLineTimesOut \/ ReadLineFails
    PROVE  Typed' /\ Owned' /\ Kept'
<1> USE DEF InCall
<1>1. ~Idle /\ call \in LineRead /\ Len(call.got) <= MaxLineLength
    BY CallKinds DEF SwallowLf, LineEnds, LineGrows, LineOverruns, LineStep,
                     ReadLineTimesOut, ReadLineFails, Idle, NoCall, IInv, Typed
<1>2. call' = NoCall => UnderWay' /\ Idle'
    BY DEF UnderWay, Idle
<1>3. call' = call => UnderWay' /\ call'.by = call.by
    BY DEF IInv, Typed, UnderWay, Idle
<1>4. Valid(Self) /\ marks \in Seq(Marks)
    BY <1>1, Running1
\* A byte is taken, and what is left is marked at most.
<1>5. ASSUME LineStep, NEW lf \in BOOLEAN, NEW o2, Valid(o2), Leaves(o2),
             UnderWay', Idle' \/ call'.by = call.by,
             LET o1 == [Self EXCEPT !.head = @ + 1, !.pending_lf = lf]
             IN  SameHold(o1, o2) /\ SameBytes(o1, o2)
      PROVE  Typed' /\ Owned' /\ Kept'
    <2>1. Taking(Self, o2, 1)
        BY <1>4, <1>5, TakenByte, TakenMarked DEF LineStep, Empty
    <2>2. marks' \in Seq(Marks) /\ Len(marks') = Len(marks) + 1
        <3>1. PICK mark \in Marks : marks' = Append(marks, mark)
            BY <1>5 DEF LineStep, Marks
        <3> QED
            BY <1>4, <3>1, AppendProperties
    <2>3. UNCHANGED <<tty, calls, arrived>>
        BY <1>5 DEF LineStep
    <2> QED
        BY <1>1, <1>5, <2>1, <2>2, <2>3, Takes
<1>6. /\ Consumed = [Self EXCEPT !.head = @ + 1, !.pending_lf = FALSE]
      /\ ~Empty => Valid(Consumed)
    BY <1>4, TakenByte DEF Consumed, Taking, Empty
<1>7. ASSUME LineStep, Leaves(Consumed), UnderWay', Idle' \/ call'.by = call.by
      PROVE  Typed' /\ Owned' /\ Kept'
    <2>1. SameHold(Consumed, Consumed) /\ SameBytes(Consumed, Consumed) /\ Valid(Consumed)
        BY <1>6, <1>7 DEF SameHold, SameBytes, LineStep
    <2> QED
        BY <1>5, <1>6, <1>7, <2>1
<1>8. CASE SwallowLf
    BY <1>3, <1>7, <1>8 DEF SwallowLf
<1>9. CASE LineEnds
    <2>1. PICK lf \in BOOLEAN : lf = (LineByte = CR)
        OBVIOUS
    <2>2. PICK o1 : o1 = [Self EXCEPT !.head = @ + 1, !.pending_lf = lf]
        OBVIOUS
    <2>3. [Consumed EXCEPT !.pending_lf = LineByte = CR] = o1
        BY <1>4, <1>6, <2>1, <2>2 DEF Valid, Member
    <2>4. LineStep /\ ReturnsLine(call.got, o1)
        BY <1>9, <2>3 DEF LineEnds
    <2>5. Valid(o1)
        BY <1>4, <2>2, <2>4, TakenByte DEF Taking, LineStep, Empty
    <2>6. /\ call' = NoCall
          /\ \E o2 : Leaves(o2) /\ Valid(o2) /\ SameHold(o1, o2) /\ SameBytes(o1, o2)
        BY <2>4, <2>5, LineReturned
    <2> QED
        BY <1>2, <1>5, <2>2, <2>4, <2>6
<1>10. CASE LineGrows
    <2>1. /\ LineStep /\ Leaves(Consumed) /\ Len(call.got) < MaxLineLength
          /\ call' = [call EXCEPT !.got = Append(@, LineByte)]
        BY <1>10 DEF LineGrows
    <2>2. LineByte \in Int
        <3>1. buffered(Self) # 0 /\ 1 \in 1 .. buffered(Self) /\ Self.head + 1 - 1 = Self.head
            BY <1>4, <2>1, BufferedType DEF LineStep, Empty
        <3> QED
            BY <1>4, <3>1, BufferedType DEF LineByte
    <2>3. call.got \in Seq(Int)
        BY <1>1 DEF LineRead
    <2>4. PICK got : /\ got = Append(call.got, LineByte)
                     /\ got \in Seq(Int) /\ Len(got) = Len(call.got) + 1
        <3>1. PICK byte, text : byte = LineByte /\ text = call.got
            OBVIOUS
        <3>2. Append(text, byte) \in Seq(Int) /\ Len(Append(text, byte)) = Len(text) + 1
            BY <2>2, <2>3, <3>1, AppendProperties
        <3> QED
            BY <3>1, <3>2
    <2>5. call' = [call EXCEPT !.got = got]
        BY <2>1, <2>4
    <2>6. call' \in LineRead /\ call'.got = got /\ call'.by = call.by
        BY <1>1, <2>4, <2>5 DEF LineRead
    <2>7. Len(call'.got) <= MaxLineLength
        BY <2>1, <2>3, <2>4, <2>6, LenProperties, PortAssumption
    <2> QED
        BY <1>7, <2>1, <2>6, <2>7 DEF UnderWay
<1>11. CASE LineOverruns
    <2>1. LineStep /\ Leaves(Cut(Consumed, "message_size")) /\ call' = call
        BY <1>11 DEF LineOverruns
    <2>2. Valid(Consumed)
        BY <1>6, <2>1 DEF LineStep
    <2>3. LET o2 == Cut(Consumed, "message_size")
          IN  Valid(o2) /\ SameHold(Consumed, o2) /\ SameBytes(Consumed, o2)
        BY <2>2, MarkedValid
    <2> QED
        BY <1>3, <1>5, <1>6, <2>1, <2>3
<1>12. CASE ReadLineTimesOut \/ ReadLineFails
    <2>1. PICK o1 : /\ o1 = Late \/ o1 = Cut(Self, "native")
                    /\ ReturnsLine(call.got, o1)
                    /\ UNCHANGED <<tty, calls, arrived, marks>>
        BY <1>12 DEF ReadLineTimesOut, ReadLineFails
    <2>2. Valid(o1) /\ SameHold(Self, o1) /\ SameBytes(Self, o1)
        BY <1>1, <2>1, SelfFlags
    <2>3. PICK o2 : Leaves(o2) /\ Valid(o2) /\ SameHold(o1, o2) /\ SameBytes(o1, o2)
        BY <2>1, <2>2, LineReturned
    <2>4. SameHold(Self, o2) /\ SameBytes(Self, o2)
        BY <2>2, <2>3 DEF SameHold, SameBytes
    <2>5. call' = NoCall
        BY <2>1, <2>2, LineReturned
    <2> QED
        BY <1>1, <1>2, <2>1, <2>3, <2>4, <2>5, Flags
<1> QED
    BY <1>8, <1>9, <1>10, <1>11, <1>12

LEMMA WriteSteps ==
    ASSUME IInv, Accept \/ WriteTimesOut \/ WriteFails
    PROVE  Typed' /\ Owned' /\ Kept'
<1>1. ~Idle /\ call \in Writing /\ call.done < call.n
    BY CallKinds DEF Accept, WriteTimesOut, WriteFails, InCall, Idle, NoCall, IInv, Typed
<1>2. call.n \in Nat /\ call.done \in Nat
    BY <1>1, PortAssumption DEF Writing
<1>3. call' = NoCall => UnderWay' /\ Idle'
    BY DEF UnderWay, Idle
<1>4. CASE Accept
    <2>1. PICK k \in 1 .. Minimum(Room, call.n - call.done) :
             /\ tty' = [tty EXCEPT !.tx = @ + k]
             /\ IF call.done + k = call.n
                THEN ReturnsWritten(call.n)
                ELSE call' = [call EXCEPT !.done = @ + k] /\ reported' = reported
        BY <1>4 DEF Accept
    <2>2. UNCHANGED <<port, calls, arrived, marks>>
        BY <1>4 DEF Accept, received
    <2>3. tty.tx \in 0 .. QueueSize /\ QueueSize \in Nat /\ tty.rx \in Seq(Int)
        BY <1>1, Running1, PortAssumption DEF Terminal
    <2>4. k <= QueueSize - tty.tx /\ k <= call.n - call.done /\ k \in Nat \ {0}
        BY <1>2, <2>3 DEF Minimum, Room
    <2>5. tty.tx + k \in 0 .. QueueSize
        BY <2>3, <2>4
    <2>6. tty' \in Terminal /\ SameTerminal /\ tty'.rx = tty.rx
        BY <1>1, <2>1, <2>3, <2>5, Running1, TerminalMoves
    <2>7. UnderWay' /\ (Idle' \/ call'.by = call.by)
        <3>1. CASE call.done + k = call.n
            BY <1>3, <2>1, <3>1 DEF ReturnsWritten
        <3>2. CASE call.done + k # call.n
            <4>1. call' = [call EXCEPT !.done = @ + k]
                BY <2>1, <3>2
            <4>2. call' \in Writing /\ call'.by = call.by
                  /\ call'.done = call.done + k /\ call'.n = call.n
                BY <1>1, <1>2, <2>4, <4>1 DEF Writing
            <4>3. call.done + k < call.n
                BY <1>2, <2>4, <3>2
            <4> QED
                BY <4>2, <4>3 DEF UnderWay
        <3> QED
            BY <3>1, <3>2
    <2>8. /\ SameHold(Self, Self) /\ Leaves(Self)
        BY <2>2 DEF SameHold, Leaves, Self, IInv, Typed
    <2> QED
        BY <1>1, <2>2, <2>6, <2>7, <2>8, Running1, Moves
<1>5. CASE WriteTimesOut
    <2>1. Leaves(Late) /\ call' = NoCall /\ UNCHANGED <<tty, calls, arrived, marks>>
        BY <1>5 DEF WriteTimesOut, ReturnsWritten, received
    <2> QED
        BY <1>1, <1>3, <2>1, SelfFlags, Flags
<1>6. CASE WriteFails
    <2>1. Leaves(Cut(Self, "native")) /\ call' = NoCall /\ UNCHANGED <<tty, calls, arrived, marks>>
        BY <1>6 DEF WriteFails, ReturnsWritten, received
    <2> QED
        BY <1>1, <1>3, <2>1, SelfFlags, Flags
<1> QED
    BY <1>4, <1>5, <1>6

(***************************************************************************)
(* The port changes hands.                                                 *)
(***************************************************************************)
\* After the step p has the port, with the members o.
LEMMA PortHeld ==
    ASSUME IInv, NEW p \in Objects, NEW o, Valid(o), Holds(o),
           port' \in [Objects -> Member], port'[p] = o,
           \A q \in Objects : q # p => port'[q] = Closed,
           tty' \in Terminal,
           tty'.plugged => tty'.exclusive /\ tty'.settings = Settings(o.config),
           UnderWay', Idle' \/ call'.by = p, calls' \in 0 .. MaxCalls,
           arrived' \in Seq(Int), marks' \in Seq(Marks),
           Waiting(o, tty'.rx, arrived', Len(marks'))
    PROVE  Typed' /\ Owned' /\ Kept'
<1>1. \A q \in Objects : q # p => ~port'[q].open /\ port'[q].head <= port'[q].tail
    BY ClosedValid DEF Valid
<1>2. Typed'
    BY <1>1 DEF Typed, Marks, Valid
<1>3. TerminalIsOurs'
    BY <1>1 DEF TerminalIsOurs, Holds
<1>4. Owned'
    BY <1>1, <1>3 DEF Owned, Holds
<1>5. Kept'
    BY <1>1 DEF Kept, BytesWaitInOrder, Waiting, Holds
<1> QED
    BY <1>2, <1>4, <1>5

\* After the step nobody has the port, and the terminal is as it was found.
LEMMA PortFree ==
    ASSUME IInv, Len(marks) <= Len(arrived), Forget,
           port' \in [Objects -> Member], \A p \in Objects : port'[p] = Closed,
           tty' \in Terminal, tty'.rx = <<>>,
           tty'.plugged => ~tty'.exclusive /\ tty'.settings = Found,
           call' = NoCall, calls' = calls
    PROVE  Typed' /\ Owned' /\ Kept'
<1>1. /\ arrived \in Seq(Int) /\ marks \in Seq(Marks) /\ marks' = marks
      /\ arrived' = SubSeq(arrived, 1, Len(marks)) /\ Len(marks) \in 0 .. Len(arrived)
    BY LenProperties DEF IInv, Typed, Marks, Forget
<1>2. arrived' \in Seq(Int) /\ Len(arrived') = Len(marks')
    BY <1>1, SubSeqProperties
<1>3. \A p \in Objects : ~port'[p].open /\ port'[p].head <= port'[p].tail
    BY ClosedValid DEF Valid
<1>4. Idle' /\ UnderWay'
    BY DEF Idle, UnderWay
<1>5. Typed'
    BY <1>1, <1>2, <1>3, <1>4 DEF Typed, IInv, Marks
<1>6. Owned'
    BY <1>3, <1>4 DEF Owned, TerminalIsOurs
<1>7. Kept'
    BY <1>2, <1>3 DEF Kept, BytesWaitInOrder
<1> QED
    BY <1>5, <1>6, <1>7

LEMMA MarksFollow == ASSUME IInv PROVE Len(marks) \in Nat /\ Len(marks) <= Len(arrived)
<1>1. CASE \E p \in Objects : port[p].open
    BY <1>1, Owner
<1>2. CASE \A p \in Objects : ~port[p].open
    <2>1. Len(marks) = Len(arrived) /\ Len(marks) \in Nat
        BY <1>2, LenProperties DEF IInv, Kept, Typed
    <2> QED
        BY <2>1
<1> QED
    BY <1>1, <1>2

\* close_native() gives the terminal back.
LEMMA GivenBack ==
    ASSUME NEW t \in Terminal, NEW o,
           t.plugged => IF o.restore THEN o.original = Found ELSE t.settings = Found
    PROVE  LET t2 == close_native(t, o)
           IN  /\ t2 \in Terminal /\ t2.rx = <<>>
               /\ t2.plugged => ~t2.exclusive /\ t2.settings = Found
<1>1. PICK settings : settings = IF o.restore /\ t.plugged THEN o.original ELSE t.settings
    OBVIOUS
<1>2. settings \in Setting /\ (t.plugged => settings = Found)
    BY <1>1, FoundType DEF Terminal
<1>3. PICK rx \in Seq(Int) : rx = <<>>
    BY <<>> \in Seq(Int)
<1>4. close_native(t, o) = [t EXCEPT !.settings = settings, !.exclusive = FALSE, !.rx = rx]
    BY <1>1, <1>3 DEF close_native, Terminal
<1>5. close_native(t, o) \in Terminal
    BY <1>2, <1>3, <1>4 DEF Terminal
<1>6. LET t2 == close_native(t, o)
      IN  t2.rx = <<>> /\ t2.settings = settings /\ t2.exclusive = FALSE /\ t2.plugged = t.plugged
    BY <1>3, <1>4 DEF Terminal
<1> QED
    BY <1>2, <1>5, <1>6


\* What a constructor does with the arguments and the failure that are given.
Constructed(p, rate, frame, timed, fails) ==
    LET config == [rate |-> rate, frame |-> frame, timed |-> timed]
        asked  == Settings(config)
        opened == [tty EXCEPT !.exclusive = fails # "TIOCEXCL"]
        object == [Closed EXCEPT !.open = TRUE, !.config = config, !.original = tty.settings,
                                 !.restore = fails = "none"]
        applied == [opened EXCEPT !.settings = tcsetattr(@, asked)]
    IN  \/ /\ fails # "none"
           /\ tty' = close_native(opened, object)
           /\ port' = [port EXCEPT ![p] = Closed]
        \/ /\ fails = "none" /\ applied.settings # asked
           /\ tty' = close_native(applied, object)
           /\ port' = [port EXCEPT ![p] = Closed]
        \/ /\ fails = "none" /\ applied.settings = asked
           /\ tty' = [applied EXCEPT !.rx = <<>>, !.tx = 0]
           /\ port' = [port EXCEPT ![p] = object]

\* A constructor that fails leaves the terminal as it was; one that does not
\* has the terminal, set as it was asked to.
LEMMA Constructs ==
    ASSUME IInv, NEW p \in Objects, Construct(p)
    PROVE  Typed' /\ Owned' /\ Kept'
<1>1. Idle /\ ~port[p].open /\ tty.plugged /\ ~tty.exclusive /\ Forget /\ call' = call
      /\ calls' = calls
    BY DEF Construct
<1>2. \A q \in Objects : ~port[q].open /\ port[q] = Closed
    BY <1>1 DEF IInv, Owned, TerminalIsOurs
<1>3. tty.settings = Found /\ tty \in Terminal
    BY <1>1, <1>2 DEF IInv, Typed, Owned, TerminalIsOurs
<1>4. call' = NoCall /\ Len(marks) \in Nat /\ Len(marks) <= Len(arrived)
      /\ port \in [Objects -> Member]
    BY <1>1, MarksFollow DEF Idle, IInv, Typed
<1>5. PICK rate \in Rates, frame \in Frames, timed \in Timeouts,
          fails \in {"none", "TIOCEXCL", "tcgetattr"} : Constructed(p, rate, frame, timed, fails)
    BY DEF Construct, Constructed
<1> DEFINE config == [rate |-> rate, frame |-> frame, timed |-> timed]
           asked  == Settings(config)
           opened == [tty EXCEPT !.exclusive = fails # "TIOCEXCL"]
           object == [Closed EXCEPT !.open = TRUE, !.config = config, !.original = tty.settings,
                                    !.restore = fails = "none"]
           applied == [opened EXCEPT !.settings = tcsetattr(@, asked)]
<1>6. /\ config = [rate |-> rate, frame |-> frame, timed |-> timed]
      /\ asked = Settings(config)
      /\ opened = [tty EXCEPT !.exclusive = fails # "TIOCEXCL"]
      /\ object = [Closed EXCEPT !.open = TRUE, !.config = config, !.original = tty.settings,
                                 !.restore = fails = "none"]
      /\ applied = [opened EXCEPT !.settings = tcsetattr(@, asked)]
      /\ \/ /\ fails # "none"
            /\ tty' = close_native(opened, object)
            /\ port' = [port EXCEPT ![p] = Closed]
         \/ /\ fails = "none" /\ applied.settings # asked
            /\ tty' = close_native(applied, object)
            /\ port' = [port EXCEPT ![p] = Closed]
         \/ /\ fails = "none" /\ applied.settings = asked
            /\ tty' = [applied EXCEPT !.rx = <<>>, !.tx = 0]
            /\ port' = [port EXCEPT ![p] = object]
    BY <1>5 DEF Constructed
<1> HIDE DEF config, asked, opened, object, applied
<1>7. config \in Config /\ asked \in Setting
    BY <1>6, SettingsType, PortAssumption DEF Config
<1>8. opened \in Terminal /\ opened.settings = Found /\ opened.plugged
      /\ opened.exclusive = (fails # "TIOCEXCL")
    <2>1. PICK exclusive \in BOOLEAN : exclusive = (fails # "TIOCEXCL")
        OBVIOUS
    <2>2. opened = [tty EXCEPT !.exclusive = exclusive]
        BY <1>6, <2>1
    <2>3. opened \in Terminal
        BY <1>3, <2>2 DEF Terminal
    <2>4. opened.settings = Found /\ opened.plugged /\ opened.exclusive = exclusive
        BY <1>1, <1>3, <2>2 DEF Terminal
    <2> QED
        BY <2>1, <2>3, <2>4
<1>9. applied \in Terminal /\ applied.plugged /\ applied.exclusive = opened.exclusive
    <2>1. PICK settings : settings = tcsetattr(opened.settings, asked)
        OBVIOUS
    <2>2. settings \in Setting
        BY <1>7, <1>8, <2>1, AppliedType DEF Terminal
    <2>3. applied = [opened EXCEPT !.settings = settings]
        BY <1>6, <2>1
    <2>4. applied \in Terminal
        BY <1>8, <2>2, <2>3 DEF Terminal
    <2> QED
        BY <1>8, <2>3, <2>4 DEF Terminal
<1>10. /\ object.open /\ object.original = Found /\ object.config = config
      /\ (object.restore <=> fails = "none") /\ object.head = 0 /\ object.tail = 0
      /\ Valid(object)
    <2>1. PICK restore \in BOOLEAN : restore = (fails = "none")
        OBVIOUS
    <2>2. object = [Closed EXCEPT !.open = TRUE, !.config = config, !.original = Found,
                                  !.restore = restore]
        BY <1>3, <1>6, <2>1
    <2>3. Closed \in Member /\ Closed.head = 0 /\ Closed.tail = 0
        BY ClosedValid DEF Valid, Closed
    <2>4. object \in Member
        BY <1>7, <2>2, <2>3, FoundType DEF Member
    <2>5. /\ object.open /\ object.original = Found /\ object.config = config
          /\ object.restore = restore
        BY <2>2, <2>3 DEF Member
    <2>6. object.head = 0 /\ object.tail = 0
        BY <2>2, <2>3 DEF Member
    <2>7. object.restore <=> fails = "none"
        BY <2>1, <2>5, Zenon
    <2>8. Valid(object)
        BY <2>4, <2>6 DEF Valid
    <2> QED
        BY <2>5, <2>6, <2>7, <2>8
<1>11. ASSUME NEW t \in Terminal,
              t.plugged => IF object.restore THEN object.original = Found ELSE t.settings = Found,
              tty' = close_native(t, object), port' = [port EXCEPT ![p] = Closed]
       PROVE  Typed' /\ Owned' /\ Kept'
    <2>1. port' \in [Objects -> Member] /\ \A q \in Objects : port'[q] = Closed
        BY <1>2, <1>4, <1>11, ClosedValid DEF Valid
    <2>2. /\ tty' \in Terminal /\ tty'.rx = <<>>
          /\ tty'.plugged => ~tty'.exclusive /\ tty'.settings = Found
        BY <1>11, GivenBack
    <2> QED
        BY <1>1, <1>4, <2>1, <2>2, PortFree
<1>12. CASE fails # "none" /\ tty' = close_native(opened, object)
            /\ port' = [port EXCEPT ![p] = Closed]
    BY <1>8, <1>10, <1>11, <1>12
<1>13. CASE fails = "none" /\ tty' = close_native(applied, object)
            /\ port' = [port EXCEPT ![p] = Closed]
    BY <1>9, <1>10, <1>11, <1>13
<1>14. CASE fails = "none" /\ applied.settings = asked
            /\ tty' = [applied EXCEPT !.rx = <<>>, !.tx = 0]
            /\ port' = [port EXCEPT ![p] = object]
    <2>1. Holds(object) /\ Valid(object) /\ buffered(object) = 0
        BY <1>10, <1>14 DEF Holds, buffered
    <2>2. /\ port' \in [Objects -> Member] /\ port'[p] = object
          /\ \A q \in Objects : q # p => port'[q] = Closed
        BY <1>2, <1>4, <1>14, <2>1 DEF Valid
    <2>3. PICK rx \in Seq(Int) : rx = <<>>
        BY <<>> \in Seq(Int)
    <2>4. tty' = [applied EXCEPT !.rx = rx, !.tx = 0] /\ 0 \in 0 .. QueueSize
        BY <1>14, <2>3, PortAssumption
    <2>5. tty' \in Terminal
        BY <1>9, <2>4 DEF Terminal
    <2>6. /\ tty'.rx = rx /\ tty'.exclusive = applied.exclusive
          /\ tty'.settings = applied.settings
        BY <1>9, <2>4 DEF Terminal
    <2>7. tty'.exclusive /\ tty'.settings = Settings(object.config)
        BY <1>6, <1>8, <1>9, <1>10, <1>14, <2>6
    <2>8. UnderWay' /\ Idle' /\ calls' \in 0 .. MaxCalls
        BY <1>1, <1>4 DEF UnderWay, Idle, IInv, Typed
    <2>9. /\ arrived \in Seq(Int) /\ marks' = marks /\ marks' \in Seq(Marks)
          /\ arrived' = SubSeq(arrived, 1, Len(marks))
        BY <1>1 DEF IInv, Typed, Marks, Forget
    <2>10. arrived' \in Seq(Int) /\ Len(arrived') = Len(marks)
        BY <1>4, <2>9, SubSeqProperties
    <2>11. Waiting(object, tty'.rx, arrived', Len(marks'))
        BY <1>4, <2>1, <2>3, <2>6, <2>9, <2>10 DEF Waiting
    <2> QED
        BY <2>1, <2>2, <2>5, <2>7, <2>8, <2>9, <2>10, <2>11, PortHeld
<1> QED
    BY <1>6, <1>12, <1>13, <1>14


\* The object moved into holds what the one moved from held.
LEMMA MoveSteps ==
    ASSUME IInv, NEW p \in Objects, NEW q \in Objects, Move(p, q)
    PROVE  Typed' /\ Owned' /\ Kept'
<1>1. /\ port[p].open /\ ~port[q].open /\ Starts
      /\ port' = [port EXCEPT ![q] = port[p], ![p] = Closed]
      /\ UNCHANGED <<tty, call, arrived, marks>>
    BY DEF Move, received
<1>2. PICK o : o = port[p]
    OBVIOUS
<1>3. /\ p # q /\ Valid(o) /\ Holds(o) /\ Waiting(o, tty.rx, arrived, Len(marks))
      /\ \A r \in Objects : r # p => port[r] = Closed
      /\ port \in [Objects -> Member]
    BY <1>1, <1>2, Owner DEF IInv, Typed
<1>4. port' = [port EXCEPT ![q] = o, ![p] = Closed]
    BY <1>1, <1>2
<1>5. /\ port' \in [Objects -> Member] /\ port'[q] = o
      /\ \A r \in Objects : r # q => port'[r] = Closed
    BY <1>3, <1>4, ClosedValid DEF Valid
<1>6. /\ tty' \in Terminal
      /\ tty'.plugged => tty'.exclusive /\ tty'.settings = Settings(o.config)
    BY <1>1, <1>2 DEF IInv, Typed, Owned, TerminalIsOurs
<1>7. UnderWay' /\ Idle' /\ calls' \in 0 .. MaxCalls
    BY <1>1, PortAssumption DEF IInv, Typed, Starts, UnderWay, Idle
<1>8. arrived' \in Seq(Int) /\ marks' \in Seq(Marks) /\ Waiting(o, tty'.rx, arrived', Len(marks'))
    BY <1>1, <1>3 DEF IInv, Typed, Marks
<1> QED
    BY <1>3, <1>5, <1>6, <1>7, <1>8, PortHeld

LEMMA CloseSteps ==
    ASSUME IInv, CloseEnds
    PROVE  Typed' /\ Owned' /\ Kept'
<1>1. /\ ~Idle /\ call' = NoCall /\ calls' = calls /\ Forget
      /\ tty' = close_native(tty, port[call.by])
      /\ port' = [port EXCEPT ![call.by] = Closed]
    BY DEF CloseEnds, DrainEnds, Idle, NoCall
<1>2. PICK p \in Objects : p = call.by
    BY <1>1, Running1
<1>3. /\ port[p].restore /\ port[p].original = Found
      /\ \A q \in Objects : q # p => port[q] = Closed
      /\ port \in [Objects -> Member] /\ tty \in Terminal
    BY <1>1, <1>2, Running1, Owner DEF Holds, Self, IInv, Typed
<1>4. port' \in [Objects -> Member] /\ \A q \in Objects : port'[q] = Closed
    BY <1>1, <1>2, <1>3, ClosedValid DEF Valid
<1>5. /\ tty' \in Terminal /\ tty'.rx = <<>>
      /\ tty'.plugged => ~tty'.exclusive /\ tty'.settings = Found
    BY <1>1, <1>2, <1>3, GivenBack
<1> QED
    BY <1>1, <1>4, <1>5, MarksFollow, PortFree

\* What a terminal that is set to `current` does not take of a new rate, it
\* leaves as it was, so that the configuration before it is applied again.
LEMMA RateUndone ==
    ASSUME NEW config \in Config, NEW rate \in Rates, NEW updated,
           updated = [config EXCEPT !.rate = rate],
           NEW applied, applied = tcsetattr(Settings(config), Settings(updated)),
           applied # Settings(updated)
    PROVE  tcsetattr(applied, Settings(config)) = Settings(config)
<1>1. updated.rate = rate /\ updated.frame = config.frame
    BY DEF Config
<1>2. applied = [rate |-> IF rate \in DriverRates THEN rate ELSE config.rate,
                 frame |-> config.frame]
    BY <1>1 DEF tcsetattr, Settings
<1>3. applied = Settings(config)
    BY <1>1, <1>2 DEF Settings
<1> QED
    BY <1>3 DEF tcsetattr, Settings

\* set_baud_rate() leaves the terminal and config() in agreement.
LEMMA RateSteps ==
    ASSUME IInv, BaudRateSet
    PROVE  Typed' /\ Owned' /\ Kept'
<1>1. /\ call.op = "set_baud_rate" /\ ~Idle /\ call' = NoCall /\ calls' = calls
      /\ tty.plugged /\ UNCHANGED <<arrived, marks>>
    BY DEF BaudRateSet, DrainEnds, Idle, NoCall, received
<1>2. PICK p, o : p \in Objects /\ p = call.by /\ o = port[p] /\ o = Self
    BY <1>1, Running1 DEF Self
<1>3. /\ Valid(o) /\ Holds(o) /\ Waiting(o, tty.rx, arrived, Len(marks))
      /\ \A q \in Objects : q # p => port[q] = Closed
      /\ tty \in Terminal /\ port \in [Objects -> Member] /\ port[p].open
      /\ tty.exclusive /\ tty.settings = Settings(o.config)
    BY <1>1, <1>2, Running1, Owner, ZenonT(40) DEF IInv, Typed, Owned, TerminalIsOurs
<1>4. call.rate \in Rates
    BY <1>1, CallKinds DEF IInv, Typed
<1>5. PICK rate, updated :
          rate \in Rates /\ rate = call.rate /\ updated = [o.config EXCEPT !.rate = rate]
    BY <1>4
<1>6. o.config \in Config /\ updated \in Config
    BY <1>3, <1>5 DEF Valid, Member, Config
<1>7. PICK applied : applied = tcsetattr(tty.settings, Settings(updated))
    OBVIOUS
<1>8. \/ /\ applied = Settings(updated)
         /\ tty' = [tty EXCEPT !.settings = applied]
         /\ port' = [port EXCEPT ![p].config = updated]
      \/ /\ applied # Settings(updated)
         /\ tty' = [tty EXCEPT !.settings = tcsetattr(applied, Settings(o.config))]
         /\ port' = port
    BY <1>2, <1>5, <1>7 DEF BaudRateSet
<1>9. UnderWay' /\ Idle' /\ calls' \in 0 .. MaxCalls
    BY <1>1 DEF UnderWay, Idle, IInv, Typed
<1>10. arrived' \in Seq(Int) /\ marks' \in Seq(Marks)
    BY <1>1 DEF IInv, Typed, Marks
<1>11. ASSUME NEW o2, Valid(o2), Holds(o2), SameBytes(o, o2), port' = [port EXCEPT ![p] = o2],
              tty' = [tty EXCEPT !.settings = Settings(o2.config)]
       PROVE  Typed' /\ Owned' /\ Kept'
    <2>1. /\ port' \in [Objects -> Member] /\ port'[p] = o2
          /\ \A q \in Objects : q # p => port'[q] = Closed
        BY <1>2, <1>3, <1>11 DEF Valid
    <2>2. PICK settings \in Setting : settings = Settings(o2.config)
        BY <1>11, SettingsType DEF Valid, Member
    <2>3. tty' = [tty EXCEPT !.settings = settings]
        BY <1>11, <2>2
    <2>4. tty' \in Terminal
        BY <1>3, <2>3 DEF Terminal
    <2>5. tty'.exclusive = tty.exclusive /\ tty'.settings = settings /\ tty'.rx = tty.rx
        BY <1>3, <2>3 DEF Terminal
    <2>6. tty'.exclusive /\ tty'.settings = Settings(o2.config)
        BY <1>3, <2>2, <2>5
    <2>7. Waiting(o2, tty'.rx, arrived', Len(marks'))
        BY <1>1, <1>3, <1>11, <2>5, SameWaiting
    <2> QED
        BY <1>2, <1>9, <1>10, <1>11, <2>1, <2>4, <2>6, <2>7, PortHeld
<1>12. CASE /\ applied = Settings(updated)
            /\ tty' = [tty EXCEPT !.settings = applied]
            /\ port' = [port EXCEPT ![p].config = updated]
    <2>1. PICK o2 : o2 = [o EXCEPT !.config = updated]
        OBVIOUS
    <2>2. port' = [port EXCEPT ![p] = o2]
        BY <1>2, <1>3, <1>12, <2>1
    <2>3. o2 \in Member
        BY <1>3, <1>6, <2>1 DEF Valid, Member
    <2>4. o2.head = o.head /\ o2.tail = o.tail /\ o2.rx_buf = o.rx_buf /\ o2.config = updated
        BY <1>3, <2>1 DEF Valid, Member
    <2>5. o2.open = o.open /\ o2.restore = o.restore /\ o2.original = o.original
        BY <1>3, <2>1 DEF Valid, Member
    <2>6. Valid(o2) /\ SameBytes(o, o2)
        BY <1>3, <2>3, <2>4 DEF Valid, SameBytes
    <2>7. Holds(o2)
        BY <1>3, <2>5 DEF Holds
    <2>8. tty' = [tty EXCEPT !.settings = Settings(o2.config)]
        BY <1>12, <2>4
    <2> QED
        BY <1>11, <2>2, <2>6, <2>7, <2>8
<1>13. CASE /\ applied # Settings(updated)
            /\ tty' = [tty EXCEPT !.settings = tcsetattr(applied, Settings(o.config))]
            /\ port' = port
    <2>1. tcsetattr(applied, Settings(o.config)) = Settings(o.config)
        BY <1>3, <1>5, <1>6, <1>7, <1>13, RateUndone
    <2>2. tty' = [tty EXCEPT !.settings = Settings(o.config)]
        BY <1>13, <2>1
    <2>3. port' = [port EXCEPT ![p] = o] /\ SameBytes(o, o)
        BY <1>2, <1>3, <1>13 DEF SameBytes
    <2> QED
        BY <1>3, <1>11, <2>2, <2>3
<1> QED
    BY <1>8, <1>12, <1>13


(***************************************************************************)
(* What write() tells of.                                                  *)
(***************************************************************************)
\* How much of the data of the running call the terminal has accepted.
Done == IF call.op = "write" THEN call.done ELSE 0

LEMMA CountStays ==
    ASSUME IInv, UNCHANGED sent, Done' = Done
    PROVE  Counted'
BY DEF IInv, Counted, sent, Done

LEMMA CallerCounts == ASSUME IInv, Caller PROVE Counted'
<1>1. UNCHANGED sent /\ Idle
    BY DEF Caller, Construct, SetTimeout, FlushOutput, StartDrain, Move, FlushInput, StartRead,
           StartWrite, StartReadLine, Starts, sent
<1>2. Done = 0
    BY <1>1 DEF Done, Idle, NoCall
<1>3. CASE call' = call
    BY <1>1, <1>2, <1>3, CountStays DEF Done
<1>4. CASE \E p \in Objects : \/ StartDrain(p, "drain", "none") \/ StartDrain(p, "close", "none")
                              \/ \E rate \in Rates : StartDrain(p, "set_baud_rate", rate)
    <2>1. Done' = 0
        BY <1>4 DEF StartDrain, Done
    <2> QED
        BY <1>1, <1>2, <2>1, CountStays
<1>5. CASE \E p \in Objects, n \in Requests : \/ StartRead(p, "read", n)
                                              \/ StartRead(p, "read_some", n)
                                              \/ StartWrite(p, n)
    <2>1. Done' = 0
        BY <1>5 DEF StartRead, StartWrite, Done
    <2> QED
        BY <1>1, <1>2, <2>1, CountStays
<1>6. CASE \E p \in Objects, form \in Forms : StartReadLine(p, form)
    <2>1. Done' = 0
        BY <1>6 DEF StartReadLine, Done
    <2> QED
        BY <1>1, <1>2, <2>1, CountStays
<1>7. \/ call' = call
      \/ \E p \in Objects : \/ StartDrain(p, "drain", "none") \/ StartDrain(p, "close", "none")
                            \/ \E rate \in Rates : StartDrain(p, "set_baud_rate", rate)
      \/ \E p \in Objects, n \in Requests : \/ StartRead(p, "read", n)
                                            \/ StartRead(p, "read_some", n)
                                            \/ StartWrite(p, n)
      \/ \E p \in Objects, form \in Forms : StartReadLine(p, form)
    BY DEF Caller, Construct, SetTimeout, FlushOutput, Move, FlushInput
<1> QED
    BY <1>3, <1>4, <1>5, <1>6, <1>7

\* The methods that do not write, and the line, leave the count alone.
LEMMA OthersCount ==
    ASSUME IInv,
           \/ Drained \/ CloseEnds \/ BaudRateSet \/ BaudRateThrows
           \/ Fill \/ ReadTakes \/ ReadSomeTakes \/ ReadTimesOut \/ ReadFails
           \/ SwallowLf \/ LineEnds \/ LineGrows \/ LineOverruns
           \/ ReadLineTimesOut \/ ReadLineFails
           \/ Expire \/ Line
    PROVE  Counted'
<1>1. CASE Drained \/ CloseEnds \/ BaudRateSet \/ BaudRateThrows
    <2>1. UNCHANGED sent /\ call.op # "write" /\ call' = NoCall
        BY <1>1 DEF Drained, CloseEnds, BaudRateSet, BaudRateThrows, DrainEnds
    <2> QED
        BY <2>1, CountStays DEF Done, NoCall
<1>2. CASE ReadTakes \/ ReadSomeTakes \/ ReadTimesOut \/ ReadFails
    <2>1. UNCHANGED sent /\ call.op \in {"read", "read_some"}
        BY <1>2 DEF ReadTakes, ReadSomeTakes, ReadTimesOut, ReadFails, Take, InCall
    <2>2. call' = NoCall \/ \E got : call' = [call EXCEPT !.got = got]
        BY <1>2 DEF ReadTakes, ReadSomeTakes, ReadTimesOut, ReadFails, ReturnsRaw
    <2>3. call \in Reads
        BY <2>1, CallKinds DEF IInv, Typed
    <2>4. call'.op # "write"
        BY <2>1, <2>2, <2>3 DEF Reads, NoCall
    <2> QED
        BY <2>1, <2>4, CountStays DEF Done
<1>3. CASE SwallowLf \/ LineEnds \/ LineGrows \/ LineOverruns \/ ReadLineTimesOut \/ ReadLineFails
    <2>1. UNCHANGED sent /\ call.op = "read_line"
        BY <1>3 DEF SwallowLf, LineEnds, LineGrows, LineOverruns, ReadLineTimesOut, ReadLineFails,
                    LineStep, InCall
    <2>2. call' = call \/ call' = NoCall \/ \E got : call' = [call EXCEPT !.got = got]
        BY <1>3 DEF SwallowLf, LineEnds, LineGrows, LineOverruns, ReadLineTimesOut, ReadLineFails,
                    ReturnsLine
    <2>3. call \in LineRead
        BY <2>1, CallKinds DEF IInv, Typed
    <2>4. call'.op # "write"
        BY <2>1, <2>2, <2>3 DEF LineRead, NoCall
    <2> QED
        BY <2>1, <2>4, CountStays DEF Done
<1>4. CASE Fill \/ Line
    BY <1>4, CountStays DEF Fill, Line, Arrive, Transmit, Unplug, Done
<1>5. CASE Expire
    <2>1. call.op \in Deadlined /\ call' = [call EXCEPT !.due = TRUE] /\ UNCHANGED sent
        BY <1>5 DEF Expire
    <2>2. call \in Reads \/ call \in LineRead \/ call \in Writing
        BY <2>1, CallKinds DEF IInv, Typed, Deadlined
    <2>3. call'.op = call.op /\ (call.op = "write" => call'.done = call.done)
        BY <2>1, <2>2 DEF Reads, LineRead, Writing
    <2> QED
        BY <2>1, <2>3, CountStays DEF Done
<1> QED
    BY <1>1, <1>2, <1>3, <1>4, <1>5

\* write() counts on from what the terminal takes, and tells it all when it
\* returns, for whatever reason.
LEMMA WriteCounts ==
    ASSUME IInv, Accept \/ WriteTimesOut \/ WriteFails
    PROVE  Counted'
<1>1. call.op = "write"
    BY DEF Accept, WriteTimesOut, WriteFails, InCall
<1>2. call \in Writing /\ call.n \in Nat /\ call.done \in Nat /\ call.done < call.n
    BY <1>1, CallKinds, PortAssumption DEF IInv, Typed, Writing
<1>3. /\ wire \in Seq(Nat) /\ reported \in Nat /\ Len(wire) = reported + call.done
      /\ \A i \in DOMAIN wire : wire[i] = i
    BY <1>1 DEF IInv, Counted
<1>4. CASE Accept
    <2>1. PICK k \in 1 .. Minimum(Room, call.n - call.done) :
             /\ wire' = wire \o [i \in 1 .. k |-> reported + call.done + i]
             /\ IF call.done + k = call.n
                THEN ReturnsWritten(call.n)
                ELSE call' = [call EXCEPT !.done = @ + k] /\ reported' = reported
        BY <1>4 DEF Accept
    <2>2. PICK more : more = [i \in 1 .. k |-> reported + call.done + i]
        OBVIOUS
    <2>3. k \in Nat
        OBVIOUS
    <2>4. more \in Seq(Nat) /\ Len(more) = k /\ \A i \in 1 .. k : more[i] = Len(wire) + i
        BY <1>2, <1>3, <2>2, <2>3, SMTT(30)
    <2>5. PICK w : w = wire \o more
        OBVIOUS
    <2>6. /\ w \in Seq(Nat) /\ Len(w) = Len(wire) + k /\ DOMAIN w = 1 .. Len(wire) + k
          /\ \A i \in 1 .. Len(wire) + k :
                w[i] = IF i <= Len(wire) THEN wire[i] ELSE more[i - Len(wire)]
        <3>1. /\ wire \o more \in Seq(Nat) /\ Len(wire \o more) = Len(wire) + Len(more)
              /\ \A i \in 1 .. Len(wire) + Len(more) :
                    (wire \o more)[i] = IF i <= Len(wire) THEN wire[i] ELSE more[i - Len(wire)]
            BY <1>3, <2>4, ConcatProperties
        <3>2. w \in Seq(Nat) /\ Len(w) = Len(wire) + k
            BY <2>4, <2>5, <3>1
        <3>3. DOMAIN w = 1 .. Len(wire) + k
            BY <3>2
        <3> QED
            BY <2>4, <2>5, <3>1, <3>2, <3>3
    <2>7. \A i \in 1 .. Len(wire) + k : w[i] = i
        <3>1. TAKE i \in 1 .. Len(wire) + k
        <3>2. CASE i <= Len(wire)
            BY <1>3, <2>3, <2>5, <2>6, <3>2
        <3>3. CASE ~(i <= Len(wire))
            <4>1. PICK j : j = i - Len(wire)
                OBVIOUS
            <4>2. j \in 1 .. k /\ Len(wire) + j = i
                BY <1>3, <2>3, <3>3, <4>1
            <4>3. w[i] = more[j] /\ more[j] = Len(wire) + j
                BY <2>4, <2>5, <2>6, <3>3, <4>1, <4>2
            <4> QED
                BY <4>2, <4>3
        <3> QED
            BY <3>2, <3>3
    <2>8. wire' \in Seq(Nat) /\ Len(wire') = Len(wire) + k /\ \A i \in DOMAIN wire' : wire'[i] = i
        BY <2>1, <2>2, <2>5, <2>6, <2>7
    <2>9. reported' \in Nat /\ reported' + Done' = reported + call.done + k
        <3>1. CASE call.done + k = call.n
            <4>1. ReturnsWritten(call.n)
                BY <2>1, <3>1
            <4>2. call' = NoCall /\ reported' = reported + call.n
                BY <1>2, <4>1 DEF ReturnsWritten
            <4>3. Done' = 0
                BY <4>2 DEF Done, NoCall
            <4> QED
                BY <1>2, <1>3, <2>3, <3>1, <4>2, <4>3, SMTT(30)
        <3>2. CASE call.done + k # call.n
            <4>1. call' = [call EXCEPT !.done = @ + k] /\ reported' = reported
                BY <2>1, <3>2
            <4>2. call'.op = "write" /\ call'.done = call.done + k
                BY <1>1, <1>2, <4>1 DEF Writing
            <4> QED
                BY <1>2, <1>3, <2>3, <4>1, <4>2 DEF Done
        <3> QED
            BY <3>1, <3>2
    <2> QED
        BY <1>2, <1>3, <2>3, <2>8, <2>9 DEF Counted, Done
<1>5. CASE WriteTimesOut \/ WriteFails
    <2>1. wire' = wire /\ call' = NoCall /\ reported' = reported + call.done
        BY <1>2, <1>3, <1>5 DEF WriteTimesOut, WriteFails, ReturnsWritten, OrError
    <2> QED
        BY <1>2, <1>3, <2>1 DEF Counted, NoCall
<1> QED
    BY <1>4, <1>5


(***************************************************************************)
(* The invariant is inductive, and holds what the class promises.          *)
(***************************************************************************)
LEMMA InitInv == Init => IInv
<1> SUFFICES ASSUME Init PROVE IInv
    OBVIOUS
<1>1. port = [p \in Objects |-> Closed] /\ Closed \in Member /\ ~Closed.open
      /\ Closed.head <= Closed.tail
    BY ClosedValid DEF Init, Valid
<1>2. tty \in Terminal
    BY FoundType, PortAssumption DEF Init, Terminal
<1>3. Typed
    BY <1>1, <1>2, PortAssumption DEF Init, Typed, UnderWay, Idle
<1>4. Owned
    BY <1>1 DEF Init, Owned, TerminalIsOurs, Idle
<1>5. Kept
    BY <1>1 DEF Init, Kept, BytesWaitInOrder
<1>6. Counted
    BY DEF Init, Counted, NoCall
<1> QED
    BY <1>3, <1>4, <1>5, <1>6 DEF IInv

\* No step of the caller, of a method, of the clock or of the line breaks it.
LEMMA NextInv == IInv /\ [Next]_vars => IInv'
<1> SUFFICES ASSUME IInv, [Next]_vars PROVE IInv'
    OBVIOUS
<1>1. CASE Caller
    <2>1. ASSUME NEW p \in Objects,
                 \/ SetTimeout(p) \/ FlushOutput(p)
                 \/ StartDrain(p, "drain", "none") \/ StartDrain(p, "close", "none")
                 \/ \E q \in Objects : Move(p, q)
                 \/ \E rate \in Rates : StartDrain(p, "set_baud_rate", rate)
                 \/ \E output \in BOOLEAN : FlushInput(p, output)
                 \/ \E n \in Requests : \/ StartRead(p, "read", n)
                                        \/ StartRead(p, "read_some", n)
                                        \/ StartWrite(p, n)
                 \/ \E form \in Forms : StartReadLine(p, form)
          PROVE  Typed' /\ Owned' /\ Kept'
        BY <2>1, CallerReads, CallerDrains, CallerFlushes, MoveSteps
    <2>2. Typed' /\ Owned' /\ Kept'
        BY <1>1, <2>1, Constructs, PortAssumption DEF Caller
    <2> QED
        BY <1>1, <2>2, CallerCounts DEF IInv
<1>2. CASE Running
    <2>1. Typed' /\ Owned' /\ Kept'
        BY <1>2, QuietSteps, CloseSteps, RateSteps, FillSteps, ReadSteps, LineReadSteps, WriteSteps
           DEF Running
    <2>2. Counted'
        BY <1>2, OthersCount, WriteCounts DEF Running
    <2> QED
        BY <2>1, <2>2 DEF IInv
<1>3. CASE Expire \/ Line
    BY <1>3, QuietSteps, LineSteps, OthersCount DEF IInv
<1>4. CASE UNCHANGED vars
    <2>1. /\ UNCHANGED <<tty, port, call, calls, arrived, marks, wire, reported>>
        BY <1>4 DEF vars, received, sent
    <2>2. Typed'
        BY <2>1 DEF IInv, Typed, UnderWay, Idle
    <2>3. Owned'
        BY <2>1 DEF IInv, Owned, Idle, TerminalIsOurs
    <2>4. Kept'
        BY <2>1 DEF IInv, Kept, BytesWaitInOrder
    <2>5. Counted'
        BY <2>1 DEF IInv, Counted
    <2> QED
        BY <2>2, <2>3, <2>4, <2>5 DEF IInv
<1> QED
    BY <1>1, <1>2, <1>3, <1>4 DEF Next

LEMMA InvHolds == Spec => []IInv
BY InitInv, NextInv, PTL DEF Spec

\* What every step and every way out of a method leaves behind is well formed:
\* the indices of the buffer never leave it, no line outgrows its limit, and no
\* method runs on after it has done what it was asked for.
THEOREM PortTyped == Spec => []TypeOK
<1>1. IInv => TypeOK
    <2> SUFFICES ASSUME IInv PROVE TypeOK
        OBVIOUS
    <2>1. /\ tty.tx \in 0 .. QueueSize /\ calls <= MaxCalls
        BY PortAssumption DEF IInv, Typed, Terminal
    <2>2. Len(marks) <= Len(arrived)
        BY MarksFollow
    <2>3. ASSUME NEW p \in Objects
          PROVE  /\ port[p].head \in 0 .. port[p].tail /\ port[p].tail \in 0 .. BufferSize
                 /\ port[p].error \in {"none", "native", "message_size"}
                 /\ port[p].open => port[p].restore
                 /\ {port[p].timed_out, port[p].pending_lf, port[p].config.timed} \subseteq BOOLEAN
        <3>1. port[p] \in Member /\ port[p].head <= port[p].tail
            BY DEF IInv, Typed
        <3>2. port[p].head \in 0 .. port[p].tail /\ port[p].tail \in 0 .. BufferSize
            BY <3>1, PortAssumption DEF Member
        <3>3. /\ port[p].error \in {"none", "native", "message_size"}
              /\ {port[p].timed_out, port[p].pending_lf, port[p].config.timed} \subseteq BOOLEAN
            BY <3>1 DEF Member, Config
        <3>4. port[p].open => port[p].restore
            BY DEF IInv, Owned
        <3> QED
            BY <3>2, <3>3, <3>4
    <2>4. /\ call.op = "read_line" => Len(call.got) <= MaxLineLength
          /\ call.op = "read" => Len(call.got) < call.n
          /\ call.op = "write" => call.done < call.n
        BY CallKinds DEF IInv, Typed
    <2> QED
        BY <2>1, <2>2, <2>3, <2>4 DEF TypeOK
<1> QED
    BY <1>1, InvHolds, PTL

\* At most one object has the terminal; it is exclusive and set as config()
\* says while one has it, after a rate that was refused and after a move too,
\* and as it was found when none has it, after a constructor that failed too.
THEOREM PortOwnsTerminal == Spec => []TerminalIsOurs
<1>1. IInv => TerminalIsOurs
    BY DEF IInv, Owned
<1> QED
    BY <1>1, InvHolds, PTL

\* The bytes that nobody has taken or flushed wait in the order of their
\* arrival, those in the buffer of the object before those in the terminal,
\* through every refill, read, timeout, error, flush and move.
THEOREM BytesKeepTheirOrder == Spec => []BytesWaitInOrder
<1>1. IInv => BytesWaitInOrder
    BY DEF IInv, Kept
<1> QED
    BY <1>1, InvHolds, PTL

\* The counts that write() returns, after timeouts and errors too, tell the
\* caller where to go on, so that each byte is sent once and in order.
THEOREM WritesTellTheirCount == Spec => []WritesAreCounted
<1>1. IInv => WritesAreCounted
    BY CallKinds, LenProperties DEF IInv, Typed, Counted, WritesAreCounted
<1> QED
    BY <1>1, InvHolds, PTL

(***************************************************************************)
(* The bytes at some positions.                                            *)
(***************************************************************************)
\* Positions within a bound are finitely many, and no more than the bound.
LEMMA Positions ==
    ASSUME NEW n \in Nat, NEW S, S \subseteq 1 .. n
    PROVE  IsFiniteSet(S) /\ Cardinality(S) \in Nat /\ Cardinality(S) <= n
<1>1. IsFiniteSet(1 .. n) /\ Cardinality(1 .. n) = n
    BY FS_Interval
<1>2. IsFiniteSet(S) /\ Cardinality(S) <= Cardinality(1 .. n)
    BY <1>1, FS_Subset
<1> QED
    BY <1>1, <1>2, FS_CardinalityType

\* A piece of positions that follow adds its length.
LEMMA PieceAdded ==
    ASSUME NEW n \in Nat, NEW S, S \subseteq 1 .. n, NEW k \in Nat
    PROVE  Cardinality(S \cup (n + 1 .. n + k)) = Cardinality(S) + k
<1>1. IsFiniteSet(S) /\ Cardinality(S) \in Nat
    BY Positions
<1>2. IsFiniteSet(n + 1 .. n + k) /\ Cardinality(n + 1 .. n + k) = k
    BY FS_Interval
<1>3. S \cap (n + 1 .. n + k) = {}
    OBVIOUS
<1>4. Cardinality(S \cap (n + 1 .. n + k)) = 0
    BY <1>3, FS_EmptySet
<1> DEFINE T == n + 1 .. n + k
<1> HIDE DEF T
<1>5. Cardinality(S \cup T) = Cardinality(S) + Cardinality(T) - Cardinality(S \cap T)
    BY <1>1, <1>2, FS_Union, Zenon DEF T
<1> QED
    BY <1>1, <1>2, <1>4, <1>5 DEF T

LEMMA JoinedByte ==
    ASSUME NEW s \in Seq(Int), NEW t \in Seq(Int), NEW l \in 1 .. Len(t)
    PROVE  (s \o t)[Len(s) + l] = t[l]
BY ConcatProperties

\* The bytes at the positions so far and at the piece that follows.
LEMMA BytesAppended ==
    ASSUME NEW n \in Nat, NEW S, S \subseteq 1 .. n, NEW a,
           NEW s \in Seq(Int), BytesAt(s, a, S),
           NEW t \in Seq(Int), \A i \in 1 .. Len(t) : t[i] = a[n + i]
    PROVE  BytesAt(s \o t, a, S \cup (n + 1 .. n + Len(t)))
<1> DEFINE k == Len(t)
           T == S \cup (n + 1 .. n + k)
           Rank(i) == Cardinality({j \in T : j <= i})
<1>1. k \in Nat /\ Len(s) \in Nat /\ Len(s) = Cardinality(S) /\ Len(s \o t) = Len(s) + k
    BY LenProperties, ConcatProperties DEF BytesAt
<1>2. Len(s \o t) = Cardinality(T)
    <2>1. k \in Nat
        BY <1>1
    <2>2. Cardinality(T) = Cardinality(S) + k
        BY <2>1, PieceAdded, Zenon
    <2> QED
        BY <1>1, <2>2
<1>3. ASSUME NEW i \in S PROVE (s \o t)[Rank(i)] = a[i]
    <2>1. {j \in T : j <= i} = {j \in S : j <= i}
        BY <1>1
    <2> DEFINE R == {j \in S : j <= i}
    <2>2. R \subseteq S /\ R \subseteq 1 .. n /\ i \in R
        <3>1. i \in 1 .. n
            OBVIOUS
        <3>2. i <= i
            BY <3>1
        <3>3. i \in R
            BY <3>2, Zenon
        <3> QED
            BY <3>3, Zenon
    <2>3. Cardinality(R) \in Nat /\ Cardinality(R) <= Len(s) /\ Cardinality(R) # 0
        <3>1. IsFiniteSet(S) /\ IsFiniteSet(R) /\ Cardinality(R) \in Nat
            BY <2>2, Positions
        <3>2. Cardinality(R) <= Cardinality(S)
            BY <2>2, <3>1, FS_Subset
        <3> QED
            BY <1>1, <2>2, <3>1, <3>2, FS_EmptySet
    <2>4. s[Cardinality(R)] = a[i]
        BY DEF BytesAt
    <2> HIDE DEF R
    <2>5. (s \o t)[Cardinality(R)] = s[Cardinality(R)]
        BY <1>1, <2>3, ConcatProperties
    <2> QED
        BY <2>1, <2>4, <2>5 DEF R
<1>4. ASSUME NEW i \in n + 1 .. n + k PROVE (s \o t)[Rank(i)] = a[i]
    <2>1. PICK l \in 1 .. k : i = n + l
        <3>1. i - n \in 1 .. k /\ i = n + (i - n)
            BY <1>1
        <3> QED
            BY <3>1
    <2>2. {j \in T : j <= i} = S \cup (n + 1 .. n + l)
        <3>1. ASSUME NEW j \in T PROVE j <= i <=> j \in S \cup (n + 1 .. n + l)
            <4>1. CASE j \in S
                <5>1. j \in 1 .. n /\ i \in Int /\ n < i
                    BY <1>1, <2>1, <4>1
                <5> QED
                    BY <4>1, <5>1
            <4>2. CASE j \in n + 1 .. n + k /\ j \notin S
                BY <1>1, <2>1, <4>2
            <4> QED
                BY <4>1, <4>2
        <3>2. S \cup (n + 1 .. n + l) \subseteq T
            BY <1>1, <2>1
        <3> HIDE DEF T
        <3> QED
            BY <3>1, <3>2
    <2>3. Rank(i) = Len(s) + l
        <3>1. Cardinality(S \cup (n + 1 .. n + l)) = Cardinality(S) + l
            <4>1. l \in Nat
                BY <1>1, <2>1
            <4>2. \A j \in Nat : Cardinality(S \cup (n + 1 .. n + j)) = Cardinality(S) + j
                BY PieceAdded, Zenon
            <4> QED
                BY ONLY <4>1, <4>2, Zenon
        <3>2. Rank(i) = Cardinality(S \cup (n + 1 .. n + l))
            BY <2>2, Zenon
        <3>3. Len(s) = Cardinality(S)
            BY DEF BytesAt
        <3> HIDE DEF Rank
        <3> QED
            BY ONLY <3>1, <3>2, <3>3, Zenon
    <2>4. (s \o t)[Len(s) + l] = t[l] /\ t[l] = a[i]
        BY <2>1, JoinedByte
    <2> HIDE DEF Rank
    <2> QED
        BY <2>3, <2>4
<1> HIDE DEF T, Rank
<1>5. \A i \in T : (s \o t)[Rank(i)] = a[i]
    BY <1>3, <1>4 DEF T
<1> QED
    BY <1>2, <1>5 DEF BytesAt, T, Rank

\* ... and where one byte follows.
LEMMA ByteAppended ==
    ASSUME NEW n \in Nat, NEW S, S \subseteq 1 .. n, NEW a,
           NEW s \in Seq(Int), BytesAt(s, a, S), a[n + 1] \in Int
    PROVE  BytesAt(Append(s, a[n + 1]), a, S \cup {n + 1})
<1>1. PICK b \in Int : b = a[n + 1]
    OBVIOUS
<1> DEFINE t == <<b>>
<1>2. t \in Seq(Int) /\ Len(t) = 1 /\ \A i \in 1 .. 1 : t[i] = a[n + i]
    BY <1>1
<1>3. s \o t = Append(s, b)
    BY AppendIsConcat
<1>4. n + 1 .. n + 1 = {n + 1}
    OBVIOUS
<1> HIDE DEF t
<1>5. BytesAt(s \o t, a, S \cup (n + 1 .. n + 1))
    BY <1>2, BytesAppended
<1> QED
    BY <1>1, <1>3, <1>4, <1>5

\* The bytes at the positions so far do not depend on the others.
LEMMA BytesStay ==
    ASSUME NEW n \in Nat, NEW S, S \subseteq 1 .. n, NEW a, NEW s, BytesAt(s, a, S),
           NEW a2, \A i \in 1 .. n : a2[i] = a[i]
    PROVE  BytesAt(s, a2, S)
BY DEF BytesAt

(***************************************************************************)
(* The positions that a step adds.                                         *)
(***************************************************************************)
\* The line that the next byte is in.
Begun == LineOf(Len(marks) + 1)

LEMMA LineOfType ==
    ASSUME NEW i \in Nat \ {0}
    PROVE  LineOf(i) \in Nat \ {0}
<1>1. {j \in 1 .. i - 1 : EndsLine(j)} \subseteq 1 .. i - 1 /\ i - 1 \in Nat
    OBVIOUS
<1>2. Cardinality({j \in 1 .. i - 1 : EndsLine(j)}) \in Nat
    BY <1>1, Positions
<1> QED
    BY <1>2 DEF LineOf

LEMMA LineOfNext ==
    ASSUME NEW i \in Nat \ {0}
    PROVE  LineOf(i + 1) = IF EndsLine(i) THEN LineOf(i) + 1 ELSE LineOf(i)
<1> DEFINE S == {j \in 1 .. i - 1 : EndsLine(j)}
           T == {j \in 1 .. i : EndsLine(j)}
<1>1. LineOf(i) = 1 + Cardinality(S)
    BY DEF LineOf
<1>2. LineOf(i + 1) = 1 + Cardinality(T)
    <2>1. 1 .. (i + 1) - 1 = 1 .. i
        OBVIOUS
    <2> QED
        BY <2>1, Zenon DEF LineOf
<1>3. S \subseteq 1 .. i - 1 /\ i - 1 \in Nat /\ i \notin S
    OBVIOUS
<1>4. IsFiniteSet(S) /\ Cardinality(S) \in Nat
    BY <1>3, Positions
<1>5. T = IF EndsLine(i) THEN S \cup {i} ELSE S
    <2>1. 1 .. i = (1 .. i - 1) \cup {i}
        OBVIOUS
    <2>2. T = S \cup {j \in {i} : EndsLine(j)}
        BY <2>1
    <2> QED
        BY <2>2
<1> HIDE DEF S, T
<1>6. CASE EndsLine(i)
    <2>1. Cardinality(T) = Cardinality(S) + 1
        BY <1>3, <1>4, <1>5, <1>6, FS_AddElement
    <2> QED
        BY <1>1, <1>2, <1>4, <1>6, <2>1
<1>7. CASE ~EndsLine(i)
    BY <1>1, <1>2, <1>5, <1>7
<1> QED
    BY <1>6, <1>7

LEMMA LineOfGrows ==
    ASSUME NEW i \in Nat \ {0}, NEW k \in Nat \ {0}, i <= k
    PROVE  LineOf(i) <= LineOf(k)
<1> DEFINE S == {j \in 1 .. i - 1 : EndsLine(j)}
           T == {j \in 1 .. k - 1 : EndsLine(j)}
<1>1. S \subseteq T
    OBVIOUS
<1>2. S \subseteq 1 .. i - 1 /\ T \subseteq 1 .. k - 1 /\ i - 1 \in Nat /\ k - 1 \in Nat
    OBVIOUS
<1>3. LineOf(i) = 1 + Cardinality(S) /\ LineOf(k) = 1 + Cardinality(T)
    BY DEF LineOf
<1> HIDE DEF S, T
<1>4. IsFiniteSet(T) /\ Cardinality(S) \in Nat /\ Cardinality(T) \in Nat
    BY <1>2, Positions
<1>5. Cardinality(S) <= Cardinality(T)
    BY <1>1, <1>4, FS_Subset
<1> QED
    BY <1>3, <1>4, <1>5

\* What follows the last end of line taken is in the line that has begun.
LEMMA BegunLast ==
    ASSUME Len(marks) \in Nat
    PROVE  /\ Begun \in Nat \ {0}
           /\ \A k : TextOf(k) \subseteq 1 .. Len(marks)
           /\ \A k \in Nat : k > Begun => TextOf(k) = {}
<1>1. Begun \in Nat \ {0}
    BY LineOfType DEF Begun
<1>2. ASSUME NEW i \in 1 .. Len(marks) PROVE LineOf(i) <= Begun /\ LineOf(i) \in Nat
    <2>1. i \in Nat \ {0} /\ Len(marks) + 1 \in Nat \ {0} /\ i <= Len(marks) + 1
        OBVIOUS
    <2> QED
        BY <2>1, LineOfType, LineOfGrows DEF Begun
<1>3. ASSUME NEW k \in Nat, k > Begun PROVE TextOf(k) = {}
    BY <1>1, <1>2, <1>3 DEF TextOf
<1>4. \A k : TextOf(k) \subseteq 1 .. Len(marks)
    BY DEF TextOf
<1> QED
    BY <1>1, <1>3, <1>4

\* A step that leaves what was taken as it is.
Prefix == \A i \in 1 .. Len(marks) : marks'[i] = marks[i] /\ arrived'[i] = arrived[i]

LEMMA SamePositions ==
    ASSUME Len(marks) \in Nat, Prefix
    PROVE  /\ \A i \in 1 .. Len(marks) : /\ (EndsLine(i))' <=> EndsLine(i)
                                         /\ (InText(i))' <=> InText(i)
           /\ \A i \in 1 .. Len(marks) + 1 : (LineOf(i))' = LineOf(i)
<1>1. ASSUME NEW i \in 1 .. Len(marks)
      PROVE  ((EndsLine(i))' <=> EndsLine(i)) /\ ((InText(i))' <=> InText(i))
    <2>1. marks'[i] = marks[i] /\ arrived'[i] = arrived[i]
        BY DEF Prefix
    <2>2. i > 1 => marks'[i - 1] = marks[i - 1] /\ arrived'[i - 1] = arrived[i - 1]
        <3>1. i > 1 => i - 1 \in 1 .. Len(marks)
            OBVIOUS
        <3> QED
            BY <3>1 DEF Prefix
    <2> QED
        BY <2>1, <2>2 DEF EndsLine, EndsPair, InText
<1>2. ASSUME NEW i \in 1 .. Len(marks) + 1
      PROVE  (LineOf(i))' = LineOf(i)
    <2>1. {j \in 1 .. i - 1 : (EndsLine(j))'} = {j \in 1 .. i - 1 : EndsLine(j)}
        <3>1. \A j \in 1 .. i - 1 : j \in 1 .. Len(marks)
            OBVIOUS
        <3> QED
            BY <1>1, <3>1, Zenon
    <2> QED
        BY <2>1, Zenon DEF LineOf
<1> QED
    BY <1>1, <1>2

LEMMA MorePositions ==
    ASSUME Len(marks) \in Nat, Prefix, NEW m \in Nat, Len(marks') = Len(marks) + m
    PROVE  LET new == Len(marks) + 1 .. Len(marks) + m
           IN  /\ \A k : TextOf(k)' =
                           TextOf(k) \cup {i \in new : (InText(i))' /\ (LineOf(i))' = k}
               /\ RawBytes' = RawBytes \cup {i \in new : marks'[i] = "raw"}
<1> DEFINE n == Len(marks)
           new == n + 1 .. n + m
<1>1. 1 .. Len(marks') = (1 .. n) \cup new
    OBVIOUS
<1>2. \A i \in 1 .. n : i \in 1 .. n + 1
    OBVIOUS
<1>3. RawBytes' = RawBytes \cup {i \in new : marks'[i] = "raw"}
    <2> HIDE DEF new
    <2> QED
        BY <1>1 DEF RawBytes, Prefix
<1>4. ASSUME NEW k
      PROVE  TextOf(k)' = TextOf(k) \cup {i \in new : (InText(i))' /\ (LineOf(i))' = k}
    <2>1. TextOf(k)' = {i \in 1 .. Len(marks') : (InText(i))' /\ (LineOf(i))' = k}
        BY DEF TextOf
    <2>2. {i \in 1 .. n : (InText(i))' /\ (LineOf(i))' = k} = TextOf(k)
        BY <1>2, SamePositions, Zenon DEF TextOf
    <2> HIDE DEF new
    <2> QED
        BY <1>1, <2>1, <2>2, Zenon
<1> QED
    BY <1>3, <1>4

\* read() or read_some() takes some.
LEMMA RawTaken ==
    ASSUME Len(marks) \in Nat, Prefix, NEW m \in Nat, Len(marks') = Len(marks) + m,
           \A i \in Len(marks) + 1 .. Len(marks) + m : marks'[i] = "raw"
    PROVE  /\ \A k : TextOf(k)' = TextOf(k)
           /\ RawBytes' = RawBytes \cup (Len(marks) + 1 .. Len(marks) + m)
           /\ Begun' = Begun
<1> DEFINE n == Len(marks)
           new == n + 1 .. n + m
<1>1. \A i \in new : ~(InText(i))' /\ ~(EndsLine(i))'
    BY DEF InText, EndsLine
<1>2. (\A k : TextOf(k)' = TextOf(k)) /\ RawBytes' = RawBytes \cup new
    <2> HIDE DEF new
    <2>1. /\ \A k : TextOf(k)' = TextOf(k) \cup {i \in new : (InText(i))' /\ (LineOf(i))' = k}
          /\ RawBytes' = RawBytes \cup {i \in new : marks'[i] = "raw"}
        BY MorePositions DEF new
    <2>2. {i \in new : marks'[i] = "raw"} = new
        BY DEF new
    <2>3. \A k : {i \in new : (InText(i))' /\ (LineOf(i))' = k} = {}
        BY <1>1
    <2> QED
        BY <2>1, <2>2, <2>3
<1>3. Begun' = Begun
    <2>1. {j \in 1 .. (n + m + 1) - 1 : (EndsLine(j))'} = {j \in 1 .. (n + 1) - 1 : EndsLine(j)}
        <3>1. \A j \in 1 .. (n + m + 1) - 1 : j \in 1 .. n \/ j \in new
            OBVIOUS
        <3>2. \A j \in 1 .. (n + 1) - 1 : j \in 1 .. n /\ j \in 1 .. (n + m + 1) - 1
            OBVIOUS
        <3>3. \A j \in 1 .. n : j \in 1 .. (n + 1) - 1 /\ ((EndsLine(j))' <=> EndsLine(j))
            BY SamePositions
        <3> HIDE DEF new, n
        <3> QED
            BY <1>1, <3>1, <3>2, <3>3
    <2> QED
        BY <2>1, Zenon DEF Begun, LineOf
<1> QED
    BY <1>2, <1>3

\* No byte is taken.
LEMMA NothingTaken ==
    ASSUME Len(marks) \in Nat, Prefix, Len(marks') = Len(marks)
    PROVE  (\A k : TextOf(k)' = TextOf(k)) /\ RawBytes' = RawBytes /\ Begun' = Begun
<1>1. Len(marks) + 1 .. Len(marks) + 0 = {} /\ Len(marks') = Len(marks) + 0
    OBVIOUS
<1> QED
    BY <1>1, RawTaken

LEMMA EveryNext ==
    \A i \in Nat \ {0} :
       LineOf(i + 1) = IF EndsLine(i) THEN LineOf(i) + 1 ELSE LineOf(i)
BY LineOfNext

\* read_line() takes a byte.
LEMMA LineTaken ==
    ASSUME NEW n \in Nat, n = Len(marks), Prefix, Len(marks') = n + 1, marks'[n + 1] # "raw"
    PROVE  /\ RawBytes' = RawBytes
           /\ Begun' = IF (EndsLine(n + 1))' THEN Begun + 1 ELSE Begun
           /\ \A k : TextOf(k)' =
                       TextOf(k) \cup (IF (InText(n + 1))' /\ k = Begun THEN {n + 1} ELSE {})
<1>1. Len(marks) \in Nat /\ n + 1 .. n + 1 = {n + 1} /\ n + 1 \in Nat \ {0}
      /\ n + 1 \in 1 .. Len(marks) + 1
    OBVIOUS
<1>2. /\ \A k : TextOf(k)' =
                  TextOf(k) \cup {i \in {n + 1} : (InText(i))' /\ (LineOf(i))' = k}
      /\ RawBytes' = RawBytes \cup {i \in {n + 1} : marks'[i] = "raw"}
    BY <1>1, MorePositions
<1>3. (LineOf(n + 1))' = Begun
    BY <1>1, SamePositions DEF Begun
<1>4. Begun' = IF (EndsLine(n + 1))' THEN Begun + 1 ELSE Begun
    <2>1. (LineOf((n + 1) + 1))' =
             IF (EndsLine(n + 1))' THEN (LineOf(n + 1))' + 1 ELSE (LineOf(n + 1))'
        <3>1. (\A i \in Nat \ {0} :
                 LineOf(i + 1) = IF EndsLine(i) THEN LineOf(i) + 1 ELSE LineOf(i))'
            BY EveryNext, PTL
        <3> QED
            BY <1>1, <3>1
    <2>2. Begun' = (LineOf((n + 1) + 1))'
        BY DEF Begun, LineOf
    <2> QED
        BY <1>3, <2>1, <2>2
<1> QED
    BY <1>2, <1>3, <1>4

(***************************************************************************)
(* What the caller has, and what the running method is about to give it.   *)
(***************************************************************************)
LineRecord == [text : Seq(Int), cut : BOOLEAN]
ReadOps == {"read", "read_some", "read_line"}

\* The bytes read, with those read() has moved already.
Given == IF call.op \in {"read", "read_some"} THEN raw \o call.got ELSE raw

\* The line the caller joins, with what read_line() has of it already.
OpenLine ==
    IF call.op = "read_line"
    THEN [text |-> glue.text \o call.got, cut |-> glue.cut \/ Self.error # "none"]
    ELSE glue

HistoryTyped == raw \in Seq(Int) /\ lines \in Seq(LineRecord) /\ glue \in LineRecord

RawKept == BytesAt(Given, arrived, RawBytes)

\* The caller counts one line more when the device went in the middle of a line
\* that is too long: there is nothing left to read then.
NothingLeft == /\ ~tty.plugged /\ Len(marks) = Len(arrived)
               /\ call.op = "read_line" => call.got = <<>>
LineTold(k) == LET line == Append(lines, OpenLine)[k]
               IN  line.cut \/ BytesAt(line.text, arrived, TextOf(k))
LinesKept ==
    /\ Len(lines) + 1 = Begun \/ (Len(lines) = Begun /\ NothingLeft)
    /\ \A k \in 1 .. Begun : LineTold(k)

\* The LF of a pair is awaited exactly if the last byte taken was a CR, and
\* read_line() took it, and nothing has happened since.
AfterCR == /\ ~apart /\ Len(marks) > 0
           /\ marks[Len(marks)] # "raw" /\ arrived[Len(marks)] = CR
LfAwaited ==
    /\ apart \in BOOLEAN
    /\ \A p \in Objects : port[p].open => (port[p].pending_lf <=> AfterCR)

CallKept ==
    /\ call.op \in {"read", "read_some"} => apart
    /\ call.op = "read_some" => call.got = <<>>
    /\ call.op = "read_line" => ~Self.timed_out /\ Self.error # "native"

RInv == HistoryTyped /\ RawKept /\ LinesKept /\ LfAwaited /\ CallKept

Bounded == Len(marks) \in Nat /\ Len(marks) <= Len(arrived)

LEMMA MarksBounded == IInv => Bounded
BY MarksFollow DEF Bounded

(***************************************************************************)
(* Steps that take nothing.                                                *)
(***************************************************************************)
LEMMA RawStays ==
    ASSUME Prefix, RawKept, Len(marks) \in Nat, RawBytes' = RawBytes, Given' = Given
    PROVE  RawKept'
<1>1. RawBytes \subseteq 1 .. Len(marks) /\ \A i \in 1 .. Len(marks) : arrived'[i] = arrived[i]
    BY DEF RawBytes, Prefix
<1>2. BytesAt(Given, arrived', RawBytes)
    BY <1>1, BytesStay, Zenon DEF RawKept
<1> QED
    BY <1>2 DEF RawKept

\* The lines told stay told if the next one does, or is known to be cut.
LEMMA LinesStay ==
    ASSUME Len(marks) \in Nat, Prefix, \A k : TextOf(k)' = TextOf(k), Begun' = Begun,
           lines \in Seq(LineRecord), LinesKept, lines' = lines,
           OpenLine' = OpenLine \/ OpenLine'.cut,
           NothingLeft => NothingLeft'
    PROVE  LinesKept'
<1>1. Begun \in Nat \ {0} /\ Len(lines) \in Nat /\ \A k : TextOf(k) \subseteq 1 .. Len(marks)
    BY BegunLast, LenProperties
<1>2. ASSUME NEW k \in 1 .. Begun PROVE LineTold(k)'
    <2>1. LineTold(k)
        BY DEF LinesKept
    <2>2. /\ BytesAt(lines[k].text, arrived, TextOf(k)) => BytesAt(lines[k].text, arrived', TextOf(k))
          /\ BytesAt(OpenLine.text, arrived, TextOf(k)) => BytesAt(OpenLine.text, arrived', TextOf(k))
        BY <1>1, BytesStay DEF Prefix
    <2>3. k \in 1 .. Len(lines) \/ k = Len(lines) + 1
        BY <1>1 DEF LinesKept
    <2>4. CASE k \in 1 .. Len(lines)
        <3>1. \A x : Append(lines, x)[k] = lines[k]
            BY <1>1, <2>4
        <3> QED
            BY <2>1, <2>2, <3>1 DEF LineTold
    <2>5. CASE k = Len(lines) + 1
        <3>1. \A x : Append(lines, x)[k] = x
            BY <1>1, <2>5
        <3> QED
            BY <2>1, <2>2, <3>1 DEF LineTold
    <2> QED
        BY <2>3, <2>4, <2>5
<1> QED
    BY <1>2 DEF LinesKept

\* The object that has the port awaits an LF as the one before did, or the byte
\* that follows is kept apart from what was taken.
LEMMA LfStays ==
    ASSUME LfAwaited, Len(marks) \in Nat, Prefix, Len(marks') = Len(marks), apart' \in BOOLEAN,
           \A p \in Objects : port'[p].open =>
              \/ ~port'[p].pending_lf /\ apart'
              \/ /\ apart' = apart
                 /\ \E q \in Objects : port[q].open /\ port'[p].pending_lf = port[q].pending_lf
    PROVE  LfAwaited'
<1>1. apart' = apart => (AfterCR' <=> AfterCR)
    <2>1. Len(marks) > 0 => Len(marks) \in 1 .. Len(marks)
        OBVIOUS
    <2>2. Len(marks) > 0 => /\ marks'[Len(marks)] = marks[Len(marks)]
                            /\ arrived'[Len(marks)] = arrived[Len(marks)]
        BY <2>1 DEF Prefix
    <2> QED
        BY <2>2 DEF AfterCR
<1>2. apart' => ~AfterCR'
    BY DEF AfterCR
<1> QED
    BY <1>1, <1>2 DEF LfAwaited

\* Nothing is left of what had arrived as long as nothing arrives.
LEMMA NothingLeftStays ==
    ASSUME IInv, IInv', NothingLeft, marks' = marks, ~tty'.plugged,
           Len(arrived') <= Len(arrived),
           call'.op = "read_line" =>
              call'.got = <<>> \/ (call.op = "read_line" /\ call'.got = call.got)
    PROVE  NothingLeft'
<1>1. Len(marks) \in Nat /\ Len(arrived) \in Nat /\ Len(arrived') \in Nat
    BY LenProperties DEF IInv, Typed
<1>2. Len(marks') <= Len(arrived')
    <2>1. Bounded'
        BY MarksBounded, PTL
    <2> QED
        BY <2>1 DEF Bounded
<1> QED
    BY <1>1, <1>2 DEF NothingLeft

LEMMA ReadingStays ==
    ASSUME IInv, IInv', RInv, UNCHANGED <<marks, raw, lines, glue>>, Prefix,
           LfAwaited', CallKept', Given' = Given, OpenLine' = OpenLine,
           tty.plugged \/ (~tty'.plugged /\ Len(arrived') <= Len(arrived)),
           call'.op = "read_line" =>
              call'.got = <<>> \/ (call.op = "read_line" /\ call'.got = call.got)
    PROVE  RInv'
<1>1. Len(marks) \in Nat
    BY MarksFollow
<1>2. HistoryTyped'
    BY DEF RInv, HistoryTyped
<1>3. RawKept'
    BY <1>1, NothingTaken, RawStays DEF RInv
<1>4. NothingLeft => NothingLeft'
    BY NothingLeftStays DEF NothingLeft
<1>5. LinesKept'
    BY <1>1, <1>4, NothingTaken, LinesStay DEF RInv, HistoryTyped
<1> QED
    BY <1>2, <1>3, <1>5 DEF RInv

\* What has arrived and been taken stays, whatever follows it.
LEMMA PrefixStays ==
    ASSUME IInv, IInv', marks' = marks,
           \/ arrived' = arrived
           \/ \E b : arrived' = Append(arrived, b)
           \/ \E m \in 0 .. Len(arrived) : arrived' = SubSeq(arrived, 1, m)
           \/ \E rx \in Seq(Int) : arrived' = SubSeq(arrived, 1, Len(marks)) \o rx
    PROVE  Prefix
<1> DEFINE n == Len(marks)
<1>1. arrived \in Seq(Int) /\ n \in Nat /\ Len(arrived) \in Nat /\ n <= Len(arrived)
    BY MarksFollow, LenProperties DEF IInv, Typed
<1>2. Len(marks') <= Len(arrived')
    <2>1. Bounded'
        BY MarksBounded, PTL
    <2> QED
        BY <2>1 DEF Bounded
<1>3. CASE arrived' = arrived
    BY <1>3 DEF Prefix
<1>4. CASE \E b : arrived' = Append(arrived, b)
    BY <1>1, <1>4 DEF Prefix
<1>5. CASE \E m \in 0 .. Len(arrived) : arrived' = SubSeq(arrived, 1, m)
    <2>1. PICK m \in 0 .. Len(arrived) : arrived' = SubSeq(arrived, 1, m)
        BY <1>5
    <2>2. n <= m
        BY <1>1, <1>2, <2>1
    <2> QED
        BY <1>1, <2>1, <2>2 DEF Prefix
<1>6. CASE \E rx \in Seq(Int) : arrived' = SubSeq(arrived, 1, n) \o rx
    <2>1. PICK rx \in Seq(Int) : arrived' = SubSeq(arrived, 1, n) \o rx
        BY <1>6
    <2>2. PICK s \in Seq(Int) : /\ s = SubSeq(arrived, 1, n) /\ Len(s) = n
                               /\ \A i \in 1 .. n : s[i] = arrived[i]
        <3>1. SubSeq(arrived, 1, n) \in Seq(Int) /\ Len(SubSeq(arrived, 1, n)) = n
            BY <1>1, SubSeqProperties
        <3>2. \A i \in 1 .. n : SubSeq(arrived, 1, n)[i] = arrived[i]
            BY <1>1, SubSeqProperties
        <3> QED
            BY <3>1, <3>2
    <2>3. ASSUME NEW i \in 1 .. n PROVE arrived'[i] = arrived[i]
        <3>1. (s \o rx)[i] = s[i]
            BY <1>1, <2>2, ConcatProperties
        <3> QED
            BY <2>1, <2>2, <3>1
    <2> QED
        BY <2>3 DEF Prefix
<1> QED
    BY <1>3, <1>4, <1>5, <1>6

(***************************************************************************)
(* The flags of an object, of which the bytes it holds are independent.    *)
(***************************************************************************)
SameFlags(o, o2) == /\ o2.pending_lf = o.pending_lf
                    /\ o2.timed_out = o.timed_out /\ o2.error = o.error

LEMMA FlagsSet ==
    ASSUME NEW o \in Member
    PROVE  /\ LET o2 == begin_operation(o)
              IN  o2.pending_lf = o.pending_lf /\ ~o2.timed_out /\ o2.error = "none"
           /\ ~[begin_operation(o) EXCEPT !.pending_lf = FALSE].pending_lf
           /\ ~Emptied(o).pending_lf
           /\ [o EXCEPT !.config.timed = ~@].pending_lf = o.pending_lf
           /\ \A config : [o EXCEPT !.config = config].pending_lf = o.pending_lf
           /\ LET o2 == [o EXCEPT !.timed_out = TRUE]
              IN  o2.pending_lf = o.pending_lf /\ o2.timed_out = TRUE /\ o2.error = o.error
           /\ \A error : LET o2 == Cut(o, error)
                         IN  /\ o2.pending_lf = o.pending_lf
                             /\ o2.timed_out = o.timed_out /\ o2.error = error
<1> USE DEF Member
<1>1. LET o2 == begin_operation(o)
      IN  o2.pending_lf = o.pending_lf /\ ~o2.timed_out /\ o2.error = "none"
    BY DEF begin_operation
<1>2. ~[begin_operation(o) EXCEPT !.pending_lf = FALSE].pending_lf
    BY DEF begin_operation
<1>3. ~Emptied(o).pending_lf
    BY DEF Emptied
<1>4. [o EXCEPT !.config.timed = ~@].pending_lf = o.pending_lf
    OBVIOUS
<1>5. \A config : [o EXCEPT !.config = config].pending_lf = o.pending_lf
    OBVIOUS
<1>6. LET o2 == [o EXCEPT !.timed_out = TRUE]
      IN  o2.pending_lf = o.pending_lf /\ o2.timed_out = TRUE /\ o2.error = o.error
    OBVIOUS
<1>7. \A error : LET o2 == Cut(o, error)
                 IN  /\ o2.pending_lf = o.pending_lf
                     /\ o2.timed_out = o.timed_out /\ o2.error = error
    BY DEF Cut
<1> QED
    BY <1>1, <1>2, <1>3, <1>4, <1>5, <1>6, <1>7

LEMMA FlagsKept ==
    ASSUME NEW o \in Member
    PROVE  /\ \A n : SameFlags(o, take_buffered(o, n))
           /\ \A bytes : SameFlags(o, fill_buffer(Compacted(o), bytes))
           /\ \A lf \in BOOLEAN :
                 LET o2 == [o EXCEPT !.head = @ + 1, !.pending_lf = lf]
                 IN  o2.pending_lf = lf /\ o2.timed_out = o.timed_out /\ o2.error = o.error
<1> USE DEF Member, SameFlags
<1>1. \A n : SameFlags(o, take_buffered(o, n))
    BY DEF take_buffered
<1>2. ASSUME NEW bytes PROVE SameFlags(o, fill_buffer(Compacted(o), bytes))
    <2>1. PICK o1 : o1 = Compacted(o)
        OBVIOUS
    <2>2. SameFlags(o, o1) /\ DOMAIN o1 = DOMAIN o
        BY <2>1 DEF Compacted
    <2>3. SameFlags(o1, fill_buffer(o1, bytes))
        BY <2>2 DEF fill_buffer
    <2> QED
        BY <2>1, <2>2, <2>3
<1>3. \A lf \in BOOLEAN :
         LET o2 == [o EXCEPT !.head = @ + 1, !.pending_lf = lf]
         IN  o2.pending_lf = lf /\ o2.timed_out = o.timed_out /\ o2.error = o.error
    OBVIOUS
<1> QED
    BY <1>1, <1>2, <1>3

\* The step leaves o in the place of the object that has the port.
LEMMA LfOfOwner ==
    ASSUME IInv, LfAwaited, marks' = marks, Prefix, apart' \in BOOLEAN,
           NEW p \in Objects, port[p].open, NEW o, port' = [port EXCEPT ![p] = o],
           o.open => \/ ~o.pending_lf /\ apart'
                     \/ apart' = apart /\ o.pending_lf = port[p].pending_lf
    PROVE  LfAwaited'
<1>1. Len(marks) \in Nat
    BY MarksFollow
<1>2. port'[p] = o /\ \A q \in Objects : q # p => port'[q] = port[q] /\ ~port[q].open
    BY Owner DEF IInv, Typed
<1> QED
    BY <1>1, <1>2, LfStays

(***************************************************************************)
(* The steps that take no byte.                                            *)
(***************************************************************************)
\* No read is under way, before or after.
LEMMA OutsideReading ==
    ASSUME IInv, IInv', RInv, call.op \notin ReadOps, call'.op \notin ReadOps,
           UNCHANGED <<marks, raw, lines, glue>>, Prefix, LfAwaited',
           tty.plugged \/ (~tty'.plugged /\ Len(arrived') <= Len(arrived))
    PROVE  RInv'
<1>1. Given' = Given /\ OpenLine' = OpenLine /\ CallKept'
    BY DEF Given, OpenLine, CallKept, ReadOps
<1>2. call'.op # "read_line"
    BY DEF ReadOps
<1> QED
    BY <1>1, <1>2, ReadingStays

\* The object that has the port is given flags at most.
LEMMA OwnerMarked ==
    ASSUME IInv, IInv', RInv, call.op \notin ReadOps, call'.op \notin ReadOps,
           UNCHANGED <<marks, apart, arrived, raw, lines, glue>>,
           NEW p \in Objects, port[p].open, NEW o, port' = [port EXCEPT ![p] = o],
           o.pending_lf = port[p].pending_lf, tty'.plugged => tty.plugged
    PROVE  RInv'
<1>1. Prefix
    BY DEF Prefix
<1>2. LfAwaited'
    BY <1>1, LfOfOwner DEF RInv, LfAwaited
<1>3. Len(arrived') <= Len(arrived) /\ tty.plugged \in BOOLEAN
    BY LenProperties DEF IInv, Typed, Terminal
<1> QED
    BY <1>1, <1>2, <1>3, OutsideReading

\* No object changes.
LEMMA PortStays ==
    ASSUME IInv, IInv', RInv, call.op \notin ReadOps, call'.op \notin ReadOps,
           UNCHANGED <<port, marks, apart, arrived, raw, lines, glue>>, tty'.plugged => tty.plugged
    PROVE  RInv'
<1>1. Prefix
    BY DEF Prefix
<1>2. LfAwaited'
    BY <1>1, MarksFollow, LfStays DEF RInv, LfAwaited
<1>3. Len(arrived') <= Len(arrived) /\ tty.plugged \in BOOLEAN
    BY LenProperties DEF IInv, Typed, Terminal
<1> QED
    BY <1>1, <1>2, <1>3, OutsideReading

LEMMA IdleOutside == Idle => call.op \notin ReadOps
BY DEF Idle, NoCall, ReadOps

LEMMA CallerKeeps ==
    ASSUME IInv, IInv', RInv, NEW p \in Objects
    PROVE  /\ SetTimeout(p) => RInv'
           /\ FlushOutput(p) => RInv'
           /\ \A op \in {"drain", "close", "set_baud_rate"} : \A rate :
                 StartDrain(p, op, rate) => RInv'
           /\ \A n : StartWrite(p, n) => RInv'
<1>1. port[p] \in Member
    BY DEF IInv, Typed
<1>2. ASSUME SetTimeout(p) PROVE RInv'
    <2> DEFINE o == [port[p] EXCEPT !.config.timed = ~@]
    <2>1. /\ port[p].open /\ Idle /\ port' = [port EXCEPT ![p] = o] /\ call' = call
          /\ UNCHANGED <<tty, marks, apart, arrived, raw, lines, glue>>
        BY <1>2 DEF SetTimeout, Starts, received
    <2>2. o.pending_lf = port[p].pending_lf
        BY <1>1, FlagsSet
    <2> HIDE DEF o
    <2> QED
        BY <2>1, <2>2, IdleOutside, OwnerMarked
<1>3. ASSUME FlushOutput(p) PROVE RInv'
    <2>1. /\ Idle /\ call' = call /\ tty' = [tty EXCEPT !.tx = 0]
          /\ UNCHANGED <<port, marks, apart, arrived, raw, lines, glue>>
        BY <1>3 DEF FlushOutput, Starts, received
    <2>2. tty'.plugged = tty.plugged
        BY <2>1 DEF IInv, Typed, Terminal
    <2> QED
        BY <2>1, <2>2, IdleOutside, PortStays
<1>4. ASSUME NEW op \in {"drain", "close", "set_baud_rate"}, NEW rate, StartDrain(p, op, rate)
      PROVE  RInv'
    <2>1. /\ Idle /\ call'.op = op
          /\ UNCHANGED <<tty, port, marks, apart, arrived, raw, lines, glue>>
        BY <1>4 DEF StartDrain, Starts, received
    <2>2. call'.op \notin ReadOps
        BY <2>1 DEF ReadOps
    <2> QED
        BY <2>1, <2>2, IdleOutside, PortStays
<1>5. ASSUME NEW n, StartWrite(p, n) PROVE RInv'
    <2> DEFINE o == begin_operation(port[p])
    <2>1. /\ port[p].open /\ Idle /\ port' = [port EXCEPT ![p] = o] /\ call'.op = "write"
          /\ UNCHANGED <<tty, marks, apart, arrived, raw, lines, glue>>
        BY <1>5 DEF StartWrite, Starts, received
    <2>2. o.pending_lf = port[p].pending_lf
        BY <1>1, FlagsSet
    <2>3. call'.op \notin ReadOps
        BY <2>1 DEF ReadOps
    <2> HIDE DEF o
    <2> QED
        BY <2>1, <2>2, <2>3, IdleOutside, OwnerMarked
<1> QED
    BY <1>2, <1>3, <1>4, <1>5

LEMMA MoveKeeps ==
    ASSUME IInv, IInv', RInv, NEW p \in Objects, NEW q \in Objects, Move(p, q)
    PROVE  RInv'
<1>1. /\ port[p].open /\ ~port[q].open /\ Idle /\ call' = call
      /\ port' = [port EXCEPT ![q] = port[p], ![p] = Closed]
      /\ UNCHANGED <<tty, marks, apart, arrived, raw, lines, glue>>
    BY DEF Move, Starts, received
<1>2. Prefix
    BY <1>1 DEF Prefix
<1>3. ASSUME NEW r \in Objects, port'[r].open
      PROVE  port'[r].pending_lf = port[p].pending_lf
    <2>1. r # p
        BY <1>1, <1>3, ClosedValid DEF IInv, Typed
    <2>2. r # q => port'[r] = port[r] /\ ~port[r].open
        BY <1>1, <2>1, Owner DEF IInv, Typed
    <2> QED
        BY <1>1, <1>3, <2>1, <2>2 DEF IInv, Typed
<1>4. LfAwaited'
    BY <1>1, <1>2, <1>3, MarksFollow, LfStays DEF RInv, LfAwaited
<1>5. Len(arrived') <= Len(arrived) /\ tty.plugged \in BOOLEAN
    BY <1>1, LenProperties DEF IInv, Typed, Terminal
<1> QED
    BY <1>1, <1>2, <1>4, <1>5, IdleOutside, OutsideReading

\* The bytes nobody took are dropped.
LEMMA Dropped ==
    ASSUME IInv, IInv', RInv, call.op \notin ReadOps, call'.op \notin ReadOps,
           UNCHANGED <<marks, raw, lines, glue>>, apart' = TRUE,
           \E rx \in Seq(Int) : /\ arrived' = SubSeq(arrived, 1, Len(marks)) \o rx
                                /\ tty.plugged \/ (~tty'.plugged /\ Len(rx) <= Len(arrived) - Len(marks)),
           \A p \in Objects : port'[p].open => ~port'[p].pending_lf
    PROVE  RInv'
<1>1. PICK rx \in Seq(Int) : /\ arrived' = SubSeq(arrived, 1, Len(marks)) \o rx
                             /\ tty.plugged \/ (~tty'.plugged /\ Len(rx) <= Len(arrived) - Len(marks))
    OBVIOUS
<1>2. Prefix
    BY <1>1, PrefixStays
<1>3. LfAwaited'
    BY <1>2, MarksFollow, LfStays DEF RInv
<1>4. Len(rx) <= Len(arrived) - Len(marks) => Len(arrived') <= Len(arrived)
    <2>1. /\ arrived \in Seq(Int) /\ Len(arrived) \in Nat /\ Len(rx) \in Nat
          /\ Len(marks) \in Nat /\ Len(marks) <= Len(arrived)
        BY MarksFollow, LenProperties DEF IInv, Typed
    <2>2. /\ SubSeq(arrived, 1, Len(marks)) \in Seq(Int)
          /\ Len(SubSeq(arrived, 1, Len(marks))) = Len(marks)
        BY <2>1, SubSeqProperties
    <2>3. Len(arrived') = Len(marks) + Len(rx)
        <3>1. PICK s \in Seq(Int) : s = SubSeq(arrived, 1, Len(marks)) /\ Len(s) = Len(marks)
            BY <2>2
        <3>2. Len(s \o rx) = Len(s) + Len(rx)
            BY ConcatProperties
        <3> QED
            BY <1>1, <3>1, <3>2
    <2> QED
        BY <2>1, <2>3
<1> QED
    BY <1>1, <1>2, <1>3, <1>4, OutsideReading

LEMMA ForgetKeeps ==
    ASSUME IInv, IInv', RInv, call.op \notin ReadOps, call'.op \notin ReadOps, Forget,
           tty.plugged \/ ~tty'.plugged,
           \A p \in Objects : port'[p].open => ~port'[p].pending_lf
    PROVE  RInv'
<1>1. SubSeq(arrived, 1, Len(marks)) \o <<>> = SubSeq(arrived, 1, Len(marks))
    <2>1. arrived \in Seq(Int) /\ Len(marks) \in Nat /\ Len(marks) <= Len(arrived)
        BY MarksFollow DEF IInv, Typed
    <2>2. SubSeq(arrived, 1, Len(marks)) \in Seq(Int)
        BY <2>1, SubSeqProperties
    <2> QED
        BY <2>2, ConcatEmptySeq
<1>2. PICK rx \in Seq(Int) : rx = <<>> /\ Len(rx) = 0
    <2>1. <<>> \in Seq(Int) /\ Len(<<>>) = 0
        OBVIOUS
    <2> QED
        BY <2>1
<1>3. Len(rx) <= Len(arrived) - Len(marks)
    BY <1>2, MarksFollow, LenProperties DEF IInv, Typed
<1>4. arrived' = SubSeq(arrived, 1, Len(marks)) \o rx
    BY <1>1, <1>2 DEF Forget
<1> QED
    BY <1>3, <1>4, Dropped DEF Forget

LEMMA FlushKeeps ==
    ASSUME IInv, IInv', RInv, NEW p \in Objects, NEW output \in BOOLEAN, FlushInput(p, output)
    PROVE  RInv'
<1>1. /\ port[p].open /\ Idle /\ call' = call /\ apart' = TRUE
      /\ port' = [port EXCEPT ![p] = Emptied(@)]
      /\ UNCHANGED <<marks, raw, lines, glue>>
      /\ arrived' = SubSeq(arrived, 1, Len(marks)) \o tty'.rx
    BY DEF FlushInput, Starts
<1>2. tty'.rx \in Seq(Int)
    BY DEF IInv, Typed, Terminal
<1>3. ~tty.plugged => ~tty'.plugged /\ tty'.rx = tty.rx
    BY DEF FlushInput, IInv, Typed, Terminal
<1>4. Len(tty.rx) <= Len(arrived) - Len(marks)
    <2>1. Waiting(port[p], tty.rx, arrived, Len(marks)) /\ Valid(port[p])
        BY <1>1, Owner
    <2>2. Len(tty.rx) \in Nat /\ Len(arrived) \in Nat /\ Len(marks) \in Nat
        BY LenProperties DEF IInv, Typed, Terminal
    <2>3. buffered(port[p]) \in Nat
        BY <2>1, BufferedType
    <2> QED
        BY <2>1, <2>2, <2>3 DEF Waiting
<1>5. ASSUME NEW q \in Objects, port'[q].open PROVE ~port'[q].pending_lf
    <2>1. q = p
        BY <1>1, <1>5, Owner DEF IInv, Typed
    <2> QED
        BY <1>1, <2>1, FlagsSet DEF IInv, Typed
<1> QED
    BY <1>1, <1>2, <1>3, <1>4, <1>5, IdleOutside, Dropped

LEMMA ConstructKeeps ==
    ASSUME IInv, IInv', RInv, NEW p \in Objects, Construct(p)
    PROVE  RInv'
<1>1. /\ Idle /\ tty.plugged /\ ~tty.exclusive /\ Forget /\ call' = call
      /\ \E o : port' = [port EXCEPT ![p] = o] /\ ~o.pending_lf
    <2>1. Idle /\ tty.plugged /\ ~tty.exclusive /\ Forget /\ call' = call
        BY DEF Construct
    <2>2. PICK rate \in Rates, frame \in Frames, timed \in Timeouts,
               fails \in {"none", "TIOCEXCL", "tcgetattr"} : Constructed(p, rate, frame, timed, fails)
        BY DEF Construct, Constructed
    <2>3. /\ ~Closed.pending_lf
          /\ ~[Closed EXCEPT !.open = TRUE,
                             !.config = [rate |-> rate, frame |-> frame, timed |-> timed],
                             !.original = tty.settings, !.restore = fails = "none"].pending_lf
        BY DEF Closed
    <2> QED
        BY <2>1, <2>2, <2>3 DEF Constructed
<1>2. \A q \in Objects : ~port[q].open
    BY <1>1 DEF IInv, Owned, TerminalIsOurs
<1>3. \A q \in Objects : port'[q].open => ~port'[q].pending_lf
    BY <1>1, <1>2 DEF IInv, Typed
<1> QED
    BY <1>1, <1>3, IdleOutside, ForgetKeeps

\* A deadline or an error leaves its mark, and nothing else.
LEMMA StopFlags ==
    ASSUME Self \in Member
    PROVE  /\ Late.pending_lf = Self.pending_lf /\ Late.timed_out = TRUE
           /\ Late.error = Self.error
           /\ \A error : /\ Cut(Self, error).pending_lf = Self.pending_lf
                         /\ Cut(Self, error).timed_out = Self.timed_out
                         /\ Cut(Self, error).error = error
<1>1. PICK o \in Member : o = Self
    OBVIOUS
<1>2. Late = [o EXCEPT !.timed_out = TRUE]
    BY <1>1 DEF Late
<1> QED
    BY <1>1, <1>2, FlagsSet

\* A method other than a read ends, or goes on.
LEMMA OthersKeep ==
    ASSUME IInv, IInv', RInv,
           \/ Drained \/ CloseEnds \/ BaudRateSet \/ BaudRateThrows
           \/ Accept \/ WriteTimesOut \/ WriteFails
    PROVE  RInv'
<1>1. call.op \in {"drain", "close", "set_baud_rate", "write"}
    BY DEF Drained, CloseEnds, BaudRateSet, BaudRateThrows, DrainEnds,
           Accept, WriteTimesOut, WriteFails, InCall
<1>2. ~Idle /\ call.op \notin ReadOps
    BY <1>1 DEF Idle, NoCall, ReadOps
<1>3. Self \in Member /\ Self.open /\ call.by \in Objects
    BY <1>2, Running1 DEF Valid
<1>4. call'.op \notin ReadOps
    <2>1. call' = NoCall \/ (call.op = "write" /\ call' = [call EXCEPT !.done = call'.done])
        <3>1. CASE Accept
            <4>1. PICK k \in 1 .. Minimum(Room, call.n - call.done) :
                     \/ call' = NoCall
                     \/ call' = [call EXCEPT !.done = @ + k]
                BY <3>1 DEF Accept, ReturnsWritten
            <4>2. call \in Writing
                BY <1>2, <3>1, CallKinds DEF Accept, InCall, IInv, Typed
            <4> QED
                BY <3>1, <4>1, <4>2 DEF Writing, Accept, InCall
        <3> QED
            BY <3>1 DEF Drained, CloseEnds, BaudRateSet, BaudRateThrows, DrainEnds,
                        WriteTimesOut, WriteFails, ReturnsWritten
    <2>2. call.op = "write" => call \in Writing
        BY CallKinds DEF IInv, Typed
    <2>3. call.op = "write" /\ call' = [call EXCEPT !.done = call'.done] => call'.op = "write"
        BY <2>2 DEF Writing
    <2> QED
        BY <2>1, <2>3 DEF NoCall, ReadOps
<1>5. CASE Drained \/ BaudRateThrows
    BY <1>2, <1>4, <1>5, PortStays DEF Drained, BaudRateThrows, received
<1>6. CASE CloseEnds
    <2>1. /\ tty' = close_native(tty, Self) /\ Forget
          /\ port' = [port EXCEPT ![call.by] = Closed]
        BY <1>6 DEF CloseEnds, Self
    <2>2. tty'.plugged = tty.plugged
        BY <2>1 DEF close_native, IInv, Typed, Terminal
    <2>3. \A p \in Objects : ~port'[p].open
        BY <1>3, <2>1, Owner, ClosedValid DEF IInv, Typed, Self
    <2> QED
        BY <1>2, <1>4, <2>1, <2>2, <2>3, ForgetKeeps
<1>7. CASE BaudRateSet
    <2>1. UNCHANGED <<marks, apart, arrived, raw, lines, glue>>
        BY <1>7 DEF BaudRateSet, received
    <2>2. /\ \E settings : tty' = [tty EXCEPT !.settings = settings]
          /\ \/ port' = port
             \/ \E config : port' = [port EXCEPT ![call.by].config = config]
        BY <1>7, Zenon DEF BaudRateSet
    <2>3. tty'.plugged = tty.plugged
        BY <2>2 DEF IInv, Typed, Terminal
    <2>4. CASE port' = port
        BY <1>2, <1>4, <2>1, <2>3, <2>4, PortStays
    <2>5. ASSUME NEW config, port' = [port EXCEPT ![call.by].config = config]
          PROVE  RInv'
        <3>1. PICK o : o = [Self EXCEPT !.config = config]
            OBVIOUS
        <3>2. o.pending_lf = port[call.by].pending_lf
            BY <1>3, <3>1, FlagsSet DEF Self
        <3>3. port' = [port EXCEPT ![call.by] = o]
            BY <1>3, <2>5, <3>1 DEF Self
        <3> QED
            BY <1>2, <1>3, <1>4, <2>1, <2>3, <3>2, <3>3, OwnerMarked DEF Self
    <2> QED
        BY <2>2, <2>4, <2>5
<1>8. CASE Accept
    <2>1. /\ \E tx : tty' = [tty EXCEPT !.tx = tx]
          /\ UNCHANGED <<port, marks, apart, arrived, raw, lines, glue>>
        BY <1>8 DEF Accept, received
    <2>2. tty'.plugged = tty.plugged
        BY <2>1 DEF IInv, Typed, Terminal
    <2> QED
        BY <1>2, <1>4, <2>1, <2>2, PortStays
<1>9. CASE WriteTimesOut \/ WriteFails
    <2>1. PICK o : /\ o = Late \/ o = Cut(Self, "native")
                   /\ Leaves(o)
                   /\ UNCHANGED <<tty, marks, apart, arrived, raw, lines, glue>>
        BY <1>9 DEF WriteTimesOut, WriteFails, received
    <2>2. o.pending_lf = Self.pending_lf
        BY <1>3, <2>1, StopFlags
    <2> QED
        BY <1>2, <1>3, <1>4, <2>1, <2>2, OwnerMarked DEF Leaves, Self
<1> QED
    BY <1>5, <1>6, <1>7, <1>8, <1>9

\* A read begins.
LEMMA StartsKeep ==
    ASSUME IInv, IInv', RInv, NEW p \in Objects
    PROVE  /\ \A op \in {"read", "read_some"} : \A n : StartRead(p, op, n) => RInv'
           /\ \A form : StartReadLine(p, form) => RInv'
<1>1. port[p] \in Member /\ port \in [Objects -> Member]
    BY DEF IInv, Typed
<1>2. raw \in Seq(Int) /\ glue \in LineRecord
    BY DEF RInv, HistoryTyped
<1>3. ASSUME NEW op \in {"read", "read_some"}, NEW n, StartRead(p, op, n)
      PROVE  RInv'
    <2> DEFINE o == [begin_operation(port[p]) EXCEPT !.pending_lf = FALSE]
    <2>1. /\ port[p].open /\ Idle /\ port' = [port EXCEPT ![p] = o] /\ apart' = TRUE
          /\ call' = [op |-> op, by |-> p, n |-> n, got |-> <<>>, due |-> FALSE]
          /\ UNCHANGED <<tty, arrived, marks, raw, lines, glue>>
        BY <1>3 DEF StartRead, Starts
    <2>2. ~o.pending_lf
        BY <1>1, FlagsSet
    <2> HIDE DEF o
    <2>3. Prefix
        BY <2>1 DEF Prefix
    <2>4. LfAwaited'
        BY <2>1, <2>2, <2>3, LfOfOwner DEF RInv
    <2>5. call'.op = op /\ call'.got = <<>> /\ call.op \notin ReadOps
        BY <2>1, IdleOutside
    <2>6. Given' = Given
        <3>1. Given = raw
            BY <2>5 DEF Given, ReadOps
        <3>2. Given' = raw \o <<>>
            BY <2>1, <2>5 DEF Given
        <3> QED
            BY <1>2, <3>1, <3>2, ConcatEmptySeq
    <2>7. OpenLine' = OpenLine /\ CallKept'
        BY <2>1, <2>5 DEF OpenLine, CallKept, ReadOps
    <2>8. Len(arrived') <= Len(arrived) /\ tty.plugged \in BOOLEAN
        BY <2>1, LenProperties DEF IInv, Typed, Terminal
    <2> QED
        BY <2>1, <2>3, <2>4, <2>5, <2>6, <2>7, <2>8, ReadingStays
<1>4. ASSUME NEW form, StartReadLine(p, form)
      PROVE  RInv'
    <2> DEFINE o == begin_operation(port[p])
    <2>1. /\ port[p].open /\ Idle /\ port' = [port EXCEPT ![p] = o]
          /\ call' = [op |-> "read_line", by |-> p, form |-> form, got |-> <<>>, due |-> FALSE]
          /\ UNCHANGED <<tty, arrived, marks, apart, raw, lines, glue>>
        BY <1>4 DEF StartReadLine, Starts, received
    <2>2. o.pending_lf = port[p].pending_lf /\ ~o.timed_out /\ o.error = "none"
        BY <1>1, FlagsSet
    <2> HIDE DEF o
    <2>3. Prefix
        BY <2>1 DEF Prefix
    <2>4. LfAwaited'
        BY <2>1, <2>2, <2>3, LfOfOwner DEF RInv, LfAwaited
    <2>5. call'.op = "read_line" /\ call'.got = <<>> /\ call.op \notin ReadOps
        BY <2>1, IdleOutside
    <2>6. Self' = o
        BY <1>1, <2>1 DEF Self
    <2>7. Given' = Given /\ CallKept'
        BY <2>1, <2>2, <2>5, <2>6 DEF Given, CallKept, ReadOps
    <2>8. OpenLine' = OpenLine
        <3>1. OpenLine = glue
            BY <2>5 DEF OpenLine, ReadOps
        <3>2. glue.text \o <<>> = glue.text
            BY <1>2, ConcatEmptySeq DEF LineRecord
        <3>3. OpenLine' = [text |-> glue.text \o <<>>, cut |-> glue.cut \/ FALSE]
            BY <2>1, <2>2, <2>5, <2>6 DEF OpenLine
        <3>4. (glue.cut \/ FALSE) = glue.cut
            BY <1>2 DEF LineRecord
        <3> QED
            BY <1>2, <3>1, <3>2, <3>3, <3>4 DEF LineRecord
    <2>9. Len(arrived') <= Len(arrived) /\ tty.plugged \in BOOLEAN
        BY <2>1, LenProperties DEF IInv, Typed, Terminal
    <2> QED
        BY <2>1, <2>3, <2>4, <2>5, <2>7, <2>8, <2>9, ReadingStays
<1> QED
    BY <1>3, <1>4

\* The method that runs, if one does, goes on with what it has.
LEMMA GoesOn ==
    ASSUME IInv, IInv', RInv, UNCHANGED <<marks, apart, raw, lines, glue>>, Prefix,
           call'.op = call.op,
           call.op \in ReadOps => /\ call'.got = call.got
                                  /\ (Self').timed_out = Self.timed_out
                                  /\ (Self').error = Self.error,
           LfAwaited', tty.plugged \/ (~tty'.plugged /\ Len(arrived') <= Len(arrived))
    PROVE  RInv'
<1>1. Given' = Given
    BY DEF Given, ReadOps
<1>2. OpenLine' = OpenLine
    BY DEF OpenLine, ReadOps
<1>3. CallKept'
    BY DEF RInv, CallKept, ReadOps
<1>4. call'.op = "read_line" => call.op = "read_line" /\ call'.got = call.got
    BY DEF ReadOps
<1> QED
    BY <1>1, <1>2, <1>3, <1>4, ReadingStays

LEMMA LineKeeps ==
    ASSUME IInv, IInv', RInv, Line
    PROVE  RInv'
<1>1. UNCHANGED <<port, call, marks, apart, raw, lines, glue>>
    BY DEF Line, Arrive, Transmit, Unplug, received
<1>2. tty.plugged
    BY DEF Line, Arrive, Transmit, Unplug
<1>3. Prefix
    <2>1. CASE Arrive
        <3>1. \E b : arrived' = Append(arrived, b)
            BY <2>1 DEF Arrive
        <3> QED
            BY <1>1, <3>1, PrefixStays
    <2>2. CASE Transmit
        BY <2>2 DEF Transmit, received, Prefix
    <2>3. CASE Unplug
        <3>1. PICK lost \in {0, Len(tty.rx)} : arrived' = SubSeq(arrived, 1, Len(arrived) - lost)
            BY <2>3 DEF Unplug
        <3>2. Len(tty.rx) \in Nat /\ Len(arrived) \in Nat
            BY LenProperties DEF IInv, Typed, Terminal
        <3>3. CASE lost <= Len(arrived)
            <4>1. Len(arrived) - lost \in 0 .. Len(arrived)
                BY <3>1, <3>2, <3>3
            <4> QED
                BY <1>1, <3>1, <4>1, PrefixStays
        <3>4. CASE lost > Len(arrived)
            <4>1. arrived' = <<>>
                BY <3>1, <3>2, <3>4, SubSeqEmpty
            <4>2. Len(marks) = 0
                <5>1. Bounded'
                    BY MarksBounded, PTL
                <5> QED
                    BY <1>1, <4>1, <5>1 DEF Bounded
            <4> QED
                BY <4>2 DEF Prefix
        <3> QED
            BY <3>1, <3>2, <3>3, <3>4
    <2> QED
        BY <2>1, <2>2, <2>3 DEF Line
<1>4. LfAwaited'
    BY <1>1, <1>3, MarksFollow, LfStays DEF RInv, LfAwaited
<1>5. Self' = Self
    BY <1>1 DEF Self
<1> QED
    BY <1>1, <1>2, <1>3, <1>4, <1>5, GoesOn

LEMMA ExpireKeeps ==
    ASSUME IInv, IInv', RInv, Expire
    PROVE  RInv'
<1>1. /\ UNCHANGED <<tty, port, arrived, marks, apart, raw, lines, glue>>
      /\ call.op \in Deadlined /\ call' = [call EXCEPT !.due = TRUE]
    BY DEF Expire, received
<1>2. call \in Reads \/ call \in LineRead \/ call \in Writing
    BY <1>1, CallKinds DEF IInv, Typed, Deadlined
<1>3. /\ call'.op = call.op /\ call'.by = call.by
      /\ call.op \in ReadOps => call'.got = call.got
    BY <1>1, <1>2 DEF Reads, LineRead, Writing, ReadOps
<1>4. Self' = Self
    BY <1>1, <1>3 DEF Self
<1>5. Prefix
    BY <1>1 DEF Prefix
<1>6. LfAwaited'
    BY <1>1, <1>5, MarksFollow, LfStays DEF RInv, LfAwaited
<1>7. Len(arrived') <= Len(arrived) /\ tty.plugged \in BOOLEAN
    BY <1>1, LenProperties DEF IInv, Typed, Terminal
<1> QED
    BY <1>1, <1>3, <1>4, <1>5, <1>6, <1>7, GoesOn

LEMMA FillKeeps ==
    ASSUME IInv, IInv', RInv, Fill
    PROVE  RInv'
<1>1. ~Idle /\ UNCHANGED <<call, arrived, marks, apart, raw, lines, glue>>
    BY DEF Fill, Reading, Idle, NoCall, received
<1>2. PICK bytes : Leaves(fill_buffer(Compacted(Self), bytes))
    BY DEF Fill
<1>3. tty'.plugged = tty.plugged /\ tty.plugged \in BOOLEAN
    <2>1. \E rx : tty' = [tty EXCEPT !.rx = rx]
        BY DEF Fill
    <2> QED
        BY <2>1 DEF IInv, Typed, Terminal
<1>4. Self \in Member /\ Self.open /\ call.by \in Objects
    BY <1>1, Running1 DEF Valid
<1>5. PICK o : /\ o = fill_buffer(Compacted(Self), bytes)
               /\ port' = [port EXCEPT ![call.by] = o] /\ SameFlags(Self, o)
    BY <1>2, <1>4, FlagsKept DEF Leaves
<1>6. Self' = o
    BY <1>1, <1>4, <1>5 DEF Self, IInv, Typed
<1>7. Prefix
    BY <1>1 DEF Prefix
<1>8. LfAwaited'
    <2>1. o.pending_lf = port[call.by].pending_lf /\ port[call.by].open
        BY <1>4, <1>5 DEF SameFlags, Self
    <2> QED
        BY <1>1, <1>4, <1>5, <1>7, <2>1, LfOfOwner DEF RInv, LfAwaited
<1>9. Len(arrived') <= Len(arrived)
    BY <1>1, LenProperties DEF IInv, Typed
<1> QED
    BY <1>1, <1>3, <1>5, <1>6, <1>7, <1>8, <1>9, GoesOn DEF SameFlags

(***************************************************************************)
(* The steps of read() and read_some().                                    *)
(***************************************************************************)
\* The bytes of the buffer are those that have arrived and nobody has taken.
LEMMA BufferIsNext ==
    ASSUME IInv, ~Idle
    PROVE  /\ buffered(Self) \in Nat /\ Len(marks) \in Nat /\ Len(arrived) \in Nat
           /\ Len(tty.rx) \in Nat
           /\ Len(marks) + buffered(Self) + Len(tty.rx) = Len(arrived)
           /\ \A i \in 1 .. buffered(Self) :
                 /\ Self.rx_buf[Self.head + i - 1] = arrived[Len(marks) + i]
                 /\ Self.rx_buf[Self.head + i - 1] \in Int
<1>1. Valid(Self) /\ Waiting(Self, tty.rx, arrived, Len(marks))
    BY Running1
<1>2. Len(marks) \in Nat /\ Len(arrived) \in Nat /\ Len(tty.rx) \in Nat
    BY Running1, LenProperties
<1> QED
    BY <1>1, <1>2, BufferedType DEF Waiting

LEMMA TakenType ==
    ASSUME IInv, ~Idle, NEW m \in 1 .. buffered(Self)
    PROVE  /\ Taken(Self, m) \in Seq(Int) /\ Len(Taken(Self, m)) = m
           /\ \A i \in 1 .. m : Taken(Self, m)[i] = arrived[Len(marks) + i]
<1>1. buffered(Self) \in Nat /\ m \in Nat
    BY BufferIsNext
<1>2. \A i \in 1 .. m : i \in 1 .. buffered(Self)
    BY <1>1
<1>3. Taken(Self, m) = [i \in 1 .. m |-> Self.rx_buf[Self.head + i - 1]]
    BY DEF Taken
<1>4. Taken(Self, m) \in [1 .. m -> Int]
    BY <1>2, <1>3, BufferIsNext
<1>5. \A i \in 1 .. m : Taken(Self, m)[i] = arrived[Len(marks) + i]
    BY <1>2, <1>3, BufferIsNext
<1> QED
    BY <1>1, <1>4, <1>5

\* The step gives m bytes of the buffer to the caller.
LEMMA TakesRaw ==
    ASSUME IInv, IInv', RInv, call.op \in {"read", "read_some"},
           NEW m \in 1 .. buffered(Self), Take(m),
           call'.op \notin {"read_some", "read_line"}, raw' \in Seq(Int),
           Given' = Given \o Taken(Self, m)
    PROVE  RInv'
<1>1. ~Idle /\ Self \in Member /\ Self.open /\ call.by \in Objects
    <2>1. ~Idle
        BY DEF Idle, NoCall
    <2> QED
        BY <2>1, Running1 DEF Valid
<1>2. /\ UNCHANGED <<tty, arrived, lines, glue>> /\ apart' = TRUE
      /\ marks' = marks \o [i \in 1 .. m |-> "raw"]
      /\ port' = [port EXCEPT ![call.by] = take_buffered(Self, m)]
    BY DEF Take, Leaves
<1>3. buffered(Self) \in Nat /\ m \in Nat /\ marks \in Seq(Marks) /\ Len(marks) \in Nat
    BY <1>1, Running1, BufferIsNext
<1>4. /\ Len(marks') = Len(marks) + m
      /\ \A i \in 1 .. Len(marks) : marks'[i] = marks[i]
      /\ \A i \in Len(marks) + 1 .. Len(marks) + m : marks'[i] = "raw"
    <2>1. PICK new \in Seq(Marks) : /\ new = [i \in 1 .. m |-> "raw"] /\ Len(new) = m
                                   /\ \A i \in 1 .. m : new[i] = "raw"
        <3>1. PICK mark \in Marks : mark = "raw"
            BY DEF Marks
        <3>2. [i \in 1 .. m |-> mark] \in Seq(Marks) /\ Len([i \in 1 .. m |-> mark]) = m
            BY <1>3
        <3> QED
            BY <3>1, <3>2
    <2>2. marks' = marks \o new
        BY <1>2, <2>1
    <2> QED
        BY <1>3, <2>1, <2>2, ConcatProperties
<1>5. Prefix
    BY <1>2, <1>4 DEF Prefix
<1>6. /\ \A k : TextOf(k)' = TextOf(k)
      /\ RawBytes' = RawBytes \cup (Len(marks) + 1 .. Len(marks) + m)
      /\ Begun' = Begun
    BY <1>3, <1>4, <1>5, RawTaken
<1>7. Given \in Seq(Int)
    <2>1. call.got \in Seq(Int) /\ raw \in Seq(Int)
        BY CallKinds DEF Reads, IInv, Typed, RInv, HistoryTyped
    <2> QED
        BY <2>1, ConcatProperties DEF Given
<1>8. RawKept'
    <2>1. RawBytes \subseteq 1 .. Len(marks)
        BY DEF RawBytes
    <2>2. BytesAt(Given \o Taken(Self, m), arrived, RawBytes \cup (Len(marks) + 1 .. Len(marks) + m))
        <3>1. PICK t \in Seq(Int) : /\ t = Taken(Self, m) /\ Len(t) = m
                                    /\ \A i \in 1 .. m : t[i] = arrived[Len(marks) + i]
            BY <1>1, TakenType
        <3>2. BytesAt(Given, arrived, RawBytes)
            BY DEF RInv, RawKept
        <3> HIDE DEF RawKept
        <3>3. BytesAt(Given \o t, arrived, RawBytes \cup (Len(marks) + 1 .. Len(marks) + Len(t)))
            BY <1>3, <1>7, <2>1, <3>1, <3>2, BytesAppended
        <3> QED
            BY <3>1, <3>3
    <2> QED
        BY <1>2, <1>6, <2>2 DEF RawKept
<1>9. LinesKept'
    <2>1. ~NothingLeft
        BY <1>1, <1>3, BufferIsNext DEF NothingLeft
    <2>2. OpenLine' = OpenLine
        BY <1>2 DEF OpenLine
    <2> QED
        BY <1>2, <1>3, <1>5, <1>6, <2>1, <2>2, LinesStay DEF RInv, HistoryTyped
<1>10. LfAwaited'
    <2>1. ~port[call.by].pending_lf
        BY <1>1 DEF RInv, CallKept, LfAwaited, AfterCR, Self
    <2>2. take_buffered(Self, m).pending_lf = Self.pending_lf
        BY <1>1, FlagsKept DEF SameFlags
    <2>3. ~AfterCR'
        BY <1>2 DEF AfterCR
    <2>4. ASSUME NEW p \in Objects, port'[p].open PROVE ~port'[p].pending_lf
        <3>1. CASE p = call.by
            BY <1>1, <1>2, <2>1, <2>2, <3>1 DEF IInv, Typed, Self
        <3>2. CASE p # call.by
            BY <1>1, <1>2, <2>4, <3>2, Owner DEF IInv, Typed, Self
        <3> QED
            BY <3>1, <3>2
    <2> QED
        BY <1>2, <2>3, <2>4 DEF LfAwaited
<1>11. CallKept' /\ HistoryTyped'
    BY <1>2 DEF CallKept, RInv, HistoryTyped
<1> QED
    BY <1>8, <1>9, <1>10, <1>11 DEF RInv

LEMMA ReadsKeep ==
    ASSUME IInv, IInv', RInv, ReadTakes \/ ReadSomeTakes \/ ReadTimesOut \/ ReadFails
    PROVE  RInv'
<1>1. call.op \in {"read", "read_some"} /\ ~Idle
    <2>1. call.op \in {"read", "read_some"}
        BY DEF ReadTakes, ReadSomeTakes, ReadTimesOut, ReadFails, InCall
    <2> QED
        BY <2>1 DEF Idle, NoCall
<1>2. call \in Reads /\ Len(call.got) < call.n
    BY <1>1, CallKinds DEF IInv, Typed
<1>3. /\ call.n \in Nat \ {0} /\ call.got \in Seq(Int) /\ Len(call.got) \in Nat
      /\ buffered(Self) \in Nat
    BY <1>1, <1>2, BufferIsNext, PortAssumption, LenProperties DEF Reads
<1>4. raw \in Seq(Int) /\ Given = raw \o call.got
    BY <1>1 DEF RInv, HistoryTyped, Given
<1>5. raw \o call.got \in Seq(Int)
    BY <1>3, <1>4, ConcatProperties
<1>6. CASE ReadTakes
    <2>1. PICK n, got :
             /\ n = Minimum(buffered(Self), call.n - Len(call.got)) /\ Take(n)
             /\ got = call.got \o Taken(Self, n)
             /\ IF Len(got) = call.n
                THEN ReturnsRaw(Len(got), got)
                ELSE call' = [call EXCEPT !.got = got] /\ raw' = raw
        BY <1>6 DEF ReadTakes
    <2>2. n \in 1 .. buffered(Self) /\ n \in Nat
        BY <1>2, <1>3, <1>6, <2>1 DEF ReadTakes, Empty, Minimum
    <2>3. PICK t \in Seq(Int) : t = Taken(Self, n)
        BY <1>1, <2>2, TakenType
    <2>4. got \in Seq(Int) /\ raw \o got = Given \o t /\ raw \o got \in Seq(Int)
        <3>1. PICK g \in Seq(Int), r \in Seq(Int) : g = call.got /\ r = raw
            BY <1>3, <1>4
        <3>2. (r \o g) \o t = r \o (g \o t)
            OBVIOUS
        <3>3. g \o t \in Seq(Int) /\ r \o (g \o t) \in Seq(Int)
            BY ConcatProperties
        <3> QED
            BY <1>4, <2>1, <2>3, <3>1, <3>2, <3>3
    <2>5. CASE Len(got) = call.n
        <3>1. call' = NoCall /\ raw' = raw \o got
            <4>1. Len(got) > 0
                BY <1>3, <2>5
            <4> QED
                BY <2>1, <2>5, <4>1 DEF ReturnsRaw
        <3>2. Given' = raw \o got
            BY <3>1 DEF Given, NoCall
        <3> QED
            BY <1>1, <2>1, <2>2, <2>3, <2>4, <3>1, <3>2, TakesRaw DEF NoCall
    <2>6. CASE Len(got) # call.n
        <3>1. call' = [call EXCEPT !.got = got] /\ raw' = raw
            BY <2>1, <2>6
        <3>2. call'.op = "read" /\ call'.got = got
            BY <1>2, <1>6, <3>1 DEF Reads, ReadTakes, InCall
        <3>3. Given' = raw \o got
            BY <3>1, <3>2 DEF Given
        <3> QED
            BY <1>1, <1>4, <2>1, <2>2, <2>3, <2>4, <3>1, <3>2, <3>3, TakesRaw
    <2> QED
        BY <2>5, <2>6
<1>7. CASE ReadSomeTakes
    <2>1. PICK n : /\ n = Minimum(buffered(Self), call.n) /\ Take(n)
                   /\ ReturnsRaw(n, Taken(Self, n))
        BY <1>7 DEF ReadSomeTakes
    <2>2. n \in 1 .. buffered(Self) /\ n \in Nat
        BY <1>3, <1>7, <2>1 DEF ReadSomeTakes, Empty, Minimum
    <2>3. PICK t \in Seq(Int) : t = Taken(Self, n)
        BY <1>1, <2>2, TakenType
    <2>4. call' = NoCall /\ raw' = raw \o t
        BY <2>1, <2>2, <2>3 DEF ReturnsRaw
    <2>5. Given = raw
        <3>1. call.got = <<>>
            BY <1>7 DEF RInv, CallKept, ReadSomeTakes, InCall
        <3> QED
            BY <1>4, <3>1, ConcatEmptySeq
    <2>6. Given' = Given \o t /\ raw' \in Seq(Int)
        BY <1>4, <2>3, <2>4, <2>5, ConcatProperties DEF Given, NoCall
    <2> QED
        BY <1>1, <2>1, <2>2, <2>3, <2>4, <2>6, TakesRaw DEF NoCall
<1>8. CASE ReadTimesOut \/ ReadFails
    <2>1. PICK o : /\ o = Late \/ o = Cut(Self, "native")
                   /\ Leaves(o) /\ UNCHANGED <<tty, arrived, marks, apart, lines, glue>>
                   /\ \/ ReturnsRaw(Len(call.got), call.got)
                      \/ ReturnsRaw(OrError(Len(call.got)), call.got)
        BY <1>8 DEF ReadTimesOut, ReadFails
    <2>2. call' = NoCall /\ raw' = raw \o call.got
        <3>1. call' = NoCall /\ raw' = IF Len(call.got) > 0 THEN raw \o call.got ELSE raw
            BY <1>3, <2>1 DEF ReturnsRaw, OrError
        <3>2. Len(call.got) = 0 => call.got = <<>>
            BY <1>3
        <3> QED
            BY <1>3, <1>4, <3>1, <3>2, ConcatEmptySeq
    <2>3. Given' = Given /\ CallKept' /\ OpenLine' = OpenLine /\ HistoryTyped'
        <3>1. Given' = Given /\ CallKept'
            BY <1>4, <2>2 DEF Given, CallKept, NoCall
        <3>2. OpenLine' = OpenLine
            BY <1>1, <2>1, <2>2 DEF OpenLine, NoCall
        <3>3. HistoryTyped'
            BY <1>5, <2>1, <2>2 DEF RInv, HistoryTyped
        <3> QED
            BY <3>1, <3>2, <3>3
    <2>4. Prefix /\ Len(marks) \in Nat
        BY <2>1, MarksFollow DEF Prefix
    <2>5. RawKept'
        BY <2>1, <2>3, <2>4, NothingTaken, RawStays DEF RInv
    <2>6. LinesKept'
        <3>1. NothingLeft => NothingLeft'
            BY <2>1, <2>2 DEF NothingLeft, NoCall
        <3> QED
            BY <2>1, <2>3, <2>4, <3>1, NothingTaken, LinesStay DEF RInv, HistoryTyped
    <2>7. LfAwaited'
        <3>1. Self \in Member /\ Self.open /\ call.by \in Objects
            BY <1>1, Running1 DEF Valid
        <3>2. o.pending_lf = Self.pending_lf
            BY <2>1, <3>1, StopFlags
        <3> QED
            BY <2>1, <2>4, <3>1, <3>2, LfOfOwner DEF RInv, LfAwaited, Leaves, Self
    <2> QED
        BY <2>3, <2>5, <2>6, <2>7 DEF RInv
<1> QED
    BY <1>6, <1>7, <1>8

(***************************************************************************)
(* The steps of read_line().                                               *)
(***************************************************************************)
\* The byte that a step of read_line() takes, and what the reference makes of
\* it: an LF is the second half of a pair exactly if the object awaits one.
LEMMA LineByteTaken ==
    ASSUME IInv, RInv, LineStep, NEW n \in Nat, n = Len(marks)
    PROVE  /\ ~Idle /\ Self \in Member /\ Self.open /\ call.by \in Objects
           /\ UNCHANGED <<tty, arrived, raw>> /\ ~apart' /\ apart' \in BOOLEAN
           /\ Prefix /\ Len(marks') = n + 1 /\ marks'[n + 1] # "raw"
           /\ LineByte = arrived[n + 1] /\ LineByte \in Int /\ ~NothingLeft
           /\ (EndsLine(n + 1))' <=> LineByte \in {CR, LF} /\ ~Swallows
           /\ (InText(n + 1))' <=> LineByte \notin {CR, LF}
<1>1. call.op = "read_line" /\ buffered(Self) # 0
    BY DEF LineStep, InCall, Empty
<1>2. ~Idle
    BY <1>1 DEF Idle, NoCall
<1>3. Self \in Member /\ Self.open /\ call.by \in Objects /\ Self.head \in Nat
    BY <1>2, Running1, BufferedType DEF Valid
<1>4. /\ UNCHANGED <<tty, arrived, raw>> /\ apart' = FALSE
      /\ marks' = Append(marks, IF apart THEN "first" ELSE "line")
    BY DEF LineStep
<1>5. /\ Len(marks') = n + 1 /\ \A i \in 1 .. n : marks'[i] = marks[i]
      /\ marks'[n + 1] = IF apart THEN "first" ELSE "line"
    <2>1. marks \in Seq(Marks)
        BY <1>2, Running1
    <2> QED
        BY <1>4, <2>1
<1>6. Prefix
    BY <1>4, <1>5 DEF Prefix
<1>7. LineByte = arrived[n + 1] /\ LineByte \in Int
    <2>1. 1 \in 1 .. buffered(Self) /\ Self.head + 1 - 1 = Self.head
        BY <1>1, <1>2, <1>3, BufferIsNext
    <2> QED
        BY <1>2, <2>1, BufferIsNext DEF LineByte
<1>8. ~NothingLeft
    BY <1>1, <1>2, BufferIsNext DEF NothingLeft
<1>9. Self.pending_lf <=> ~apart /\ n > 0 /\ marks[n] # "raw" /\ arrived[n] = CR
    BY <1>3 DEF RInv, LfAwaited, AfterCR, Self
<1>10. (EndsPair(n + 1))' <=> Swallows
    <2>1. n > 0 => marks'[n] = marks[n]
        BY <1>5
    <2>2. (EndsPair(n + 1))' <=> /\ n + 1 > 1 /\ arrived[n + 1] = LF /\ arrived[n] = CR
                                 /\ marks'[n + 1] = "line" /\ marks'[n] # "raw"
        <3>1. (n + 1) - 1 = n
            OBVIOUS
        <3> QED
            BY <1>4, <3>1 DEF EndsPair
    <2>3. marks'[n + 1] = "line" <=> ~apart
        BY <1>5
    <2> QED
        BY <1>7, <1>9, <2>1, <2>2, <2>3 DEF Swallows
<1>11. (EndsLine(n + 1))' <=> LineByte \in {CR, LF} /\ ~Swallows
    BY <1>4, <1>5, <1>7, <1>10 DEF EndsLine
<1>12. (InText(n + 1))' <=> LineByte \notin {CR, LF}
    BY <1>4, <1>5, <1>7 DEF InText
<1> QED
    BY <1>2, <1>3, <1>4, <1>5, <1>6, <1>7, <1>8, <1>11, <1>12

LEMMA LfAfterByte ==
    ASSUME IInv, RInv, LineStep, NEW o, Leaves(o), o.pending_lf <=> LineByte = CR
    PROVE  LfAwaited'
<1>1. PICK n \in Nat : n = Len(marks)
    BY MarksFollow
<1>2. AfterCR' <=> LineByte = CR
    <2>1. /\ ~apart' /\ Len(marks') = n + 1 /\ marks'[n + 1] # "raw"
          /\ arrived' = arrived /\ LineByte = arrived[n + 1]
        BY <1>1, LineByteTaken
    <2> QED
        BY <1>1, <2>1 DEF AfterCR
<1>3. /\ Self.open /\ call.by \in Objects /\ apart' \in BOOLEAN
    BY <1>1, LineByteTaken
<1>4. ASSUME NEW p \in Objects, port'[p].open PROVE port'[p].pending_lf <=> AfterCR'
    <2>1. CASE p = call.by
        BY <1>2, <1>3, <2>1 DEF Leaves, IInv, Typed
    <2>2. CASE p # call.by
        BY <1>3, <1>4, <2>2, Owner DEF Leaves, IInv, Typed, Self
    <2> QED
        BY <2>1, <2>2
<1> QED
    BY <1>3, <1>4 DEF LfAwaited

\* What the step of read_line() does to the bytes given and to the lines.
LEMMA LineStepReads ==
    ASSUME IInv, RInv, LineStep, Given' = raw
    PROVE  /\ RawKept'
           /\ LineByte \in {CR, LF} => \A k : TextOf(k)' = TextOf(k)
           /\ \A k : k # Begun => TextOf(k)' = TextOf(k)
           /\ LineByte \notin {CR, LF} =>
                 \A k : k = Begun => TextOf(k)' = TextOf(k) \cup {Len(marks) + 1}
           /\ Begun' = IF LineByte \in {CR, LF} /\ ~Swallows THEN Begun + 1 ELSE Begun
<1>1. PICK n \in Nat : n = Len(marks)
    BY MarksFollow
<1>2. /\ Prefix /\ Len(marks') = n + 1 /\ marks'[n + 1] # "raw"
      /\ (EndsLine(n + 1))' <=> LineByte \in {CR, LF} /\ ~Swallows
      /\ (InText(n + 1))' <=> LineByte \notin {CR, LF}
    BY <1>1, LineByteTaken
<1>3. /\ RawBytes' = RawBytes
      /\ Begun' = IF (EndsLine(n + 1))' THEN Begun + 1 ELSE Begun
      /\ \A k : TextOf(k)' =
                  TextOf(k) \cup (IF (InText(n + 1))' /\ k = Begun THEN {n + 1} ELSE {})
    BY <1>1, <1>2, LineTaken
<1>4. Given' = Given
    BY DEF Given, LineStep, InCall
<1>5. RawKept'
    BY <1>1, <1>2, <1>3, <1>4, RawStays DEF RInv
<1>6. LineByte \in {CR, LF} => \A k : TextOf(k)' = TextOf(k)
    BY <1>2, <1>3
<1>7. \A k : k # Begun => TextOf(k)' = TextOf(k)
    BY <1>3
<1>8. LineByte \notin {CR, LF} => \A k : k = Begun => TextOf(k)' = TextOf(k) \cup {Len(marks) + 1}
    BY <1>1, <1>2, <1>3
<1> QED
    BY <1>2, <1>3, <1>5, <1>6, <1>7, <1>8

\* The line that has begun grows by a byte, or is cut.
LEMMA LinesGrow ==
    ASSUME Len(marks) \in Nat, Prefix, lines \in Seq(LineRecord), LinesKept, ~NothingLeft,
           lines' = lines, Begun' = Begun, \A k : k # Begun => TextOf(k)' = TextOf(k),
           \/ OpenLine'.cut
           \/ \A k : k = Begun => BytesAt(OpenLine'.text, arrived', TextOf(k)')
    PROVE  LinesKept'
<1>1. /\ Begun \in Nat \ {0} /\ Len(lines) \in Nat /\ Len(lines) + 1 = Begun
      /\ \A k : TextOf(k) \subseteq 1 .. Len(marks)
    BY BegunLast, LenProperties DEF LinesKept
<1>2. ASSUME NEW k \in 1 .. Begun PROVE LineTold(k)'
    <2>1. CASE k = Begun
        <3>1. Append(lines, OpenLine')[k] = OpenLine'
            BY <1>1, <2>1
        <3> QED
            BY <2>1, <3>1 DEF LineTold
    <2>2. CASE k # Begun
        <3>1. \A x : Append(lines, x)[k] = lines[k]
            BY <1>1, <2>2
        <3>2. BytesAt(lines[k].text, arrived, TextOf(k)) => BytesAt(lines[k].text, arrived', TextOf(k))
            BY <1>1, BytesStay DEF Prefix
        <3>3. LineTold(k)
            BY DEF LinesKept
        <3> QED
            BY <2>2, <3>1, <3>2, <3>3 DEF LineTold
    <2> QED
        BY <2>1, <2>2
<1> QED
    BY <1>1, <1>2 DEF LinesKept

LEMMA ConsumedFlags ==
    ASSUME Self \in Member
    PROVE  /\ ~Consumed.pending_lf /\ Consumed.timed_out = Self.timed_out
           /\ Consumed.error = Self.error
           /\ LET o == Cut(Consumed, "message_size")
              IN  ~o.pending_lf /\ o.timed_out = Self.timed_out /\ o.error = "message_size"
           /\ \A lf : LET o == [Consumed EXCEPT !.pending_lf = lf]
                      IN  o.pending_lf = lf /\ o.timed_out = Self.timed_out /\ o.error = Self.error
<1>1. PICK o \in Member : o = Self
    OBVIOUS
<1>2. Consumed = [o EXCEPT !.head = @ + 1, !.pending_lf = FALSE]
    BY <1>1 DEF Consumed
<1> QED
    BY <1>1, <1>2 DEF Member, Cut

\* While a line is being read, the part that is there is what the open line is.
LEMMA LineOpen ==
    ASSUME IInv, RInv, LineStep
    PROVE  /\ call \in LineRead /\ call.op = "read_line" /\ call.got \in Seq(Int)
           /\ OpenLine = [text |-> glue.text \o call.got, cut |-> glue.cut \/ Self.error # "none"]
           /\ OpenLine.text = glue.text \o call.got
           /\ OpenLine.cut = (glue.cut \/ Self.error # "none")
           /\ glue.text \in Seq(Int) /\ glue.cut \in BOOLEAN /\ glue.text \o call.got \in Seq(Int)
           /\ ~Self.timed_out /\ Self.error # "native"
<1>1. call.op = "read_line"
    BY DEF LineStep, InCall
<1>2. call \in LineRead /\ call.got \in Seq(Int)
    BY <1>1, CallKinds DEF LineRead, IInv, Typed
<1>3. glue.text \in Seq(Int) /\ glue.cut \in BOOLEAN
    BY DEF RInv, HistoryTyped, LineRecord
<1>4. ~Self.timed_out /\ Self.error # "native"
    BY <1>1 DEF RInv, CallKept
<1>5. PICK text, cut : /\ text = glue.text \o call.got
                       /\ cut = (glue.cut \/ Self.error # "none")
    OBVIOUS
<1>6. OpenLine = [text |-> text, cut |-> cut]
    BY <1>1, <1>5 DEF OpenLine
<1>7. OpenLine.text = text /\ OpenLine.cut = cut
    BY <1>6
<1>8. glue.text \o call.got \in Seq(Int)
    BY <1>2, <1>3, ConcatProperties
<1> QED
    BY <1>1, <1>2, <1>3, <1>4, <1>5, <1>6, <1>7, <1>8

\* A byte is taken and read_line() goes on.
LEMMA LineGoesOn ==
    ASSUME IInv, RInv, LineStep, UNCHANGED <<lines, glue>>,
           NEW o, Leaves(o), o.pending_lf <=> LineByte = CR,
           o.timed_out = Self.timed_out, o.error # "native",
           call'.op = "read_line", call'.by = call.by, LinesKept'
    PROVE  RInv'
<1>1. PICK n \in Nat : n = Len(marks)
    BY MarksFollow
<1>2. call.by \in Objects /\ raw' = raw
    BY <1>1, LineByteTaken
<1>3. Self' = o
    BY <1>2 DEF Self, Leaves, IInv, Typed
<1>4. Given' = raw
    BY <1>2 DEF Given
<1>5. RawKept' /\ LfAwaited'
    BY <1>4, LineStepReads, LfAfterByte
<1>6. CallKept'
    BY <1>3, LineOpen DEF CallKept
<1>7. HistoryTyped'
    BY <1>2 DEF RInv, HistoryTyped
<1> QED
    BY <1>5, <1>6, <1>7 DEF RInv

LEMMA SwallowKeeps ==
    ASSUME IInv, RInv, SwallowLf
    PROVE  RInv'
<1>1. LineStep /\ Swallows /\ LineByte = LF /\ Leaves(Consumed) /\ UNCHANGED <<call, lines, glue>>
    BY DEF SwallowLf, Swallows
<1>2. PICK n \in Nat : n = Len(marks)
    BY MarksFollow
<1>3. Self \in Member /\ call.by \in Objects /\ Prefix /\ ~NothingLeft /\ raw' = raw
    BY <1>1, <1>2, LineByteTaken
<1>4. Self' = Consumed
    BY <1>1, <1>3 DEF Self, Leaves, IInv, Typed
<1>5. OpenLine' = OpenLine
    BY <1>1, <1>3, <1>4, ConsumedFlags DEF OpenLine
<1>6. Given' = raw
    BY <1>1, <1>3, LineOpen DEF Given
<1>7. (\A k : TextOf(k)' = TextOf(k)) /\ Begun' = Begun
    BY <1>1, <1>6, LineStepReads
<1>8. LinesKept'
    BY <1>1, <1>2, <1>3, <1>5, <1>7, LinesStay DEF RInv, HistoryTyped
<1>9. ~Consumed.pending_lf /\ LineByte # CR /\ Consumed.timed_out = Self.timed_out
      /\ Consumed.error = Self.error
    BY <1>1, <1>3, ConsumedFlags DEF CR, LF
<1> QED
    BY <1>1, <1>8, <1>9, LineGoesOn, LineOpen

LEMMA LineGrowsKeeps ==
    ASSUME IInv, RInv, LineGrows
    PROVE  RInv'
<1>1. /\ LineStep /\ LineByte \notin {CR, LF} /\ Leaves(Consumed)
      /\ call' = [call EXCEPT !.got = Append(@, LineByte)] /\ UNCHANGED <<lines, glue>>
    BY DEF LineGrows
<1>2. PICK n \in Nat : n = Len(marks)
    BY MarksFollow
<1>3. /\ Self \in Member /\ call.by \in Objects /\ Prefix /\ ~NothingLeft
      /\ UNCHANGED <<raw, arrived>> /\ LineByte = arrived[n + 1] /\ LineByte \in Int
    BY <1>1, <1>2, LineByteTaken
<1>4. /\ call'.op = "read_line" /\ call'.by = call.by
      /\ call'.got = Append(call.got, LineByte)
    BY <1>1, LineOpen DEF LineRead
<1>5. Self' = Consumed
    BY <1>1, <1>3, <1>4 DEF Self, Leaves, IInv, Typed
<1>6. Consumed.timed_out = Self.timed_out /\ Consumed.error = Self.error /\ ~Consumed.pending_lf
    BY <1>3, ConsumedFlags
<1>7. OpenLine' = [text |-> Append(OpenLine.text, LineByte), cut |-> OpenLine.cut]
    <2>1. glue.text \o Append(call.got, LineByte) = Append(glue.text \o call.got, LineByte)
        <3>1. PICK s \in Seq(Int), t \in Seq(Int), b \in Int :
                 s = glue.text /\ t = call.got /\ b = LineByte
            BY <1>1, <1>3, LineOpen
        <3>2. s \o Append(t, b) = Append(s \o t, b)
            OBVIOUS
        <3> QED
            BY <3>1, <3>2
    <2>2. /\ OpenLine.text = glue.text \o call.got
          /\ OpenLine.cut = (glue.cut \/ Self.error # "none")
        BY <1>1, LineOpen
    <2>3. OpenLine' = [text |-> glue.text \o Append(call.got, LineByte),
                       cut |-> glue.cut \/ Self.error # "none"]
        BY <1>1, <1>4, <1>5, <1>6 DEF OpenLine
    <2> QED
        BY <2>1, <2>2, <2>3
<1>8. Given' = raw
    BY <1>3, <1>4 DEF Given
<1>9. /\ Begun' = Begun /\ \A k : k # Begun => TextOf(k)' = TextOf(k)
      /\ \A k : k = Begun => TextOf(k)' = TextOf(k) \cup {n + 1}
    BY <1>1, <1>2, <1>8, LineStepReads
<1>10. OpenLine.cut \/ BytesAt(OpenLine.text, arrived, TextOf(Begun))
    <2>1. LineTold(Begun) /\ Len(lines) + 1 = Begun /\ Len(lines) \in Nat
        <3>1. Begun \in 1 .. Begun
            BY <1>2, BegunLast
        <3> QED
            BY <1>3, <3>1, LenProperties DEF RInv, LinesKept, HistoryTyped
    <2>2. Append(lines, OpenLine)[Begun] = OpenLine
        BY <2>1 DEF RInv, HistoryTyped
    <2> QED
        BY <2>1, <2>2 DEF LineTold
<1>11. OpenLine'.cut \/ \A k : k = Begun => BytesAt(OpenLine'.text, arrived', TextOf(k)')
    <2>1. CASE OpenLine.cut
        BY <1>7, <2>1
    <2>2. CASE ~OpenLine.cut
        <3>1. BytesAt(OpenLine.text, arrived, TextOf(Begun)) /\ TextOf(Begun) \subseteq 1 .. n
            BY <1>2, <1>10, <2>2, BegunLast
        <3>2. OpenLine.text \in Seq(Int)
            BY <1>1, LineOpen
        <3>3. BytesAt(Append(OpenLine.text, arrived[n + 1]), arrived, TextOf(Begun) \cup {n + 1})
            BY <1>3, <3>1, <3>2, ByteAppended
        <3>4. OpenLine'.text = Append(OpenLine.text, arrived[n + 1])
            BY <1>3, <1>7
        <3> QED
            BY <1>3, <1>9, <3>3, <3>4
    <2> QED
        BY <2>1, <2>2
<1>12. LinesKept'
    BY <1>1, <1>2, <1>3, <1>9, <1>11, LinesGrow DEF RInv, HistoryTyped
<1>13. Self.error # "native" /\ LineByte # CR
    BY <1>1, LineOpen
<1> QED
    BY <1>1, <1>4, <1>6, <1>12, <1>13, LineGoesOn

LEMMA OverrunKeeps ==
    ASSUME IInv, RInv, LineOverruns
    PROVE  RInv'
<1>1. /\ LineStep /\ LineByte \notin {CR, LF} /\ Leaves(Cut(Consumed, "message_size"))
      /\ UNCHANGED <<call, lines, glue>>
    BY DEF LineOverruns
<1>2. PICK n \in Nat : n = Len(marks)
    BY MarksFollow
<1>3. Self \in Member /\ call.by \in Objects /\ Prefix /\ ~NothingLeft /\ raw' = raw
    BY <1>1, <1>2, LineByteTaken
<1>4. Self' = Cut(Consumed, "message_size")
    BY <1>1, <1>3 DEF Self, Leaves, IInv, Typed
<1>5. LET o == Cut(Consumed, "message_size")
      IN  ~o.pending_lf /\ o.timed_out = Self.timed_out /\ o.error = "message_size"
    BY <1>3, ConsumedFlags
<1>6. OpenLine'.cut
    BY <1>1, <1>4, <1>5, LineOpen DEF OpenLine
<1>7. Given' = raw
    BY <1>1, <1>3, LineOpen DEF Given
<1>8. Begun' = Begun /\ \A k : k # Begun => TextOf(k)' = TextOf(k)
    BY <1>1, <1>7, LineStepReads
<1>9. LinesKept'
    BY <1>1, <1>2, <1>3, <1>6, <1>8, LinesGrow DEF RInv, HistoryTyped
<1> QED
    BY <1>1, <1>5, <1>9, LineGoesOn, LineOpen

\* The caller takes line, which read_line() returns with this text, and the object
\* o is left as by.  What read_line(char *) cuts short is an error, and takes the
\* place of one that there was.
LineGiven(line, by, text, o) ==
    /\ Leaves(by) /\ call' = NoCall
    /\ by.pending_lf = o.pending_lf /\ by.timed_out = o.timed_out
    /\ \/ /\ by.error = o.error
          /\ line = [text |-> glue.text \o text, cut |-> glue.cut \/ o.error # "none"]
       \/ by.error = "message_size" /\ line.cut /\ Len(text) > 0
    /\ IF by.timed_out \/ by.error = "native"
       THEN lines' = lines /\ glue' \in LineRecord /\ (glue' = line \/ glue'.cut)
       ELSE lines' = Append(lines, line) /\ glue' = [text |-> <<>>, cut |-> FALSE]

LEMMA LineReturns ==
    ASSUME glue \in LineRecord, NEW o \in Member, NEW text \in Seq(Int), ReturnsLine(text, o)
    PROVE  \E line \in LineRecord : \E by : LineGiven(line, by, text, o)
<1>1. PICK clipped : /\ clipped = ClippedLine(text, o) /\ GetsLine(clipped.text, clipped.by)
                     /\ Leaves(clipped.by) /\ call' = NoCall
    BY DEF ReturnsLine
<1> DEFINE cutText == SubSeq(text, 1, LineRoom - 1)
           cutBy   == Cut(o, "message_size")
<1>2. PICK given, by : /\ given = clipped.text /\ by = clipped.by
                       /\ \/ given = text /\ by = o
                          \/ given = cutText /\ by = cutBy /\ Len(text) > LineRoom - 1
    BY <1>1 DEF ClippedLine
<1>3. /\ cutBy.pending_lf = o.pending_lf /\ cutBy.timed_out = o.timed_out
      /\ cutBy.error = "message_size"
    BY FlagsSet
<1>4. LineRoom - 1 \in Nat /\ Len(text) \in Nat
    BY PortAssumption, LenProperties
<1>5. Len(text) > LineRoom - 1 => cutText \in Seq(Int) /\ Len(text) > 0
    <2>1. ASSUME Len(text) > LineRoom - 1
          PROVE  cutText \in Seq(Int)
        BY <1>4, <2>1, SubSeqProperties
    <2> QED
        BY <1>4, <2>1
<1> HIDE DEF cutText, cutBy
<1>6. /\ given \in Seq(Int) /\ by.pending_lf = o.pending_lf /\ by.timed_out = o.timed_out
      /\ \/ by.error = o.error /\ given = text
         \/ by.error = "message_size" /\ Len(text) > 0
    BY <1>2, <1>3, <1>5
<1>7. glue.text \in Seq(Int) /\ glue.cut \in BOOLEAN /\ glue.text \o given \in Seq(Int)
    BY <1>6, ConcatProperties DEF LineRecord
<1>8. PICK cut \in BOOLEAN : cut = (glue.cut \/ by.error # "none")
    BY <1>7
<1>9. PICK line \in LineRecord : line = [text |-> glue.text \o given, cut |-> cut]
    BY <1>7 DEF LineRecord
<1>10. IF by.timed_out \/ by.error = "native"
       THEN /\ glue' = IF call.form = "optional" /\ by.timed_out
                       THEN [glue EXCEPT !.cut = TRUE] ELSE line
            /\ lines' = lines
       ELSE lines' = Append(lines, line) /\ glue' = [text |-> <<>>, cut |-> FALSE]
    BY <1>1, <1>2, <1>8, <1>9 DEF GetsLine
<1>11. [glue EXCEPT !.cut = TRUE] \in LineRecord /\ [glue EXCEPT !.cut = TRUE].cut
    BY DEF LineRecord
<1>12. IF by.timed_out \/ by.error = "native"
       THEN lines' = lines /\ glue' \in LineRecord /\ (glue' = line \/ glue'.cut)
       ELSE lines' = Append(lines, line) /\ glue' = [text |-> <<>>, cut |-> FALSE]
    BY <1>10, <1>11
<1>13. \/ /\ by.error = o.error
          /\ line = [text |-> glue.text \o text, cut |-> glue.cut \/ o.error # "none"]
       \/ by.error = "message_size" /\ line.cut /\ Len(text) > 0
    <2>1. line.cut = cut
        BY <1>9
    <2> QED
        BY <1>6, <1>8, <1>9, <2>1
<1> QED
    BY <1>1, <1>2, <1>6, <1>9, <1>12, <1>13 DEF LineGiven

\* The line that has begun ends, and another begins.
LEMMA LineCloses ==
    ASSUME Len(marks) \in Nat, Prefix, lines \in Seq(LineRecord), LinesKept, ~NothingLeft,
           NEW line \in LineRecord, line = OpenLine \/ line.cut, lines' = Append(lines, line),
           OpenLine' = [text |-> <<>>, cut |-> FALSE],
           Begun' = Begun + 1, \A k : TextOf(k)' = TextOf(k)
    PROVE  LinesKept'
<1>1. /\ Begun \in Nat \ {0} /\ Len(lines) \in Nat /\ Len(lines) + 1 = Begun
      /\ \A k : TextOf(k) \subseteq 1 .. Len(marks)
      /\ TextOf(Begun + 1) = {}
    <2>1. Begun \in Nat \ {0} => Begun + 1 \in Nat /\ Begun + 1 > Begun
        OBVIOUS
    <2> QED
        BY <2>1, BegunLast, LenProperties DEF LinesKept
<1>2. Len(lines') = Begun /\ lines' \in Seq(LineRecord) /\ lines'[Begun] = line
      /\ \A k \in 1 .. Len(lines) : lines'[k] = lines[k]
    BY <1>1, AppendProperties
<1>3. ASSUME NEW k \in 1 .. Begun + 1 PROVE LineTold(k)'
    <2>1. BytesAt(Append(lines, OpenLine)[k].text, arrived, TextOf(k)) =>
             BytesAt(Append(lines, OpenLine)[k].text, arrived', TextOf(k))
        BY <1>1, BytesStay DEF Prefix
    <2>2. CASE k = Begun + 1
        <3>1. Append(lines', OpenLine')[k] = OpenLine'
            BY <1>1, <1>2, <2>2
        <3>2. TextOf(k)' = {}
            BY <1>1, <2>2
        <3>3. Len(<<>>) = Cardinality({})
            BY FS_EmptySet
        <3>4. BytesAt(<<>>, arrived', TextOf(k)')
            BY <3>2, <3>3 DEF BytesAt
        <3>5. OpenLine'.text = <<>>
            OBVIOUS
        <3> QED
            BY <3>1, <3>4, <3>5 DEF LineTold
    <2>3. CASE k = Begun
        <3>1. Append(lines', OpenLine')[k] = line /\ Append(lines, OpenLine)[k] = OpenLine
            BY <1>1, <1>2, <2>3
        <3>2. LineTold(k)
            BY <1>1, <2>3 DEF LinesKept
        <3> QED
            BY <2>1, <3>1, <3>2 DEF LineTold
    <2>4. CASE k \in 1 .. Len(lines)
        <3>1. Append(lines', OpenLine')[k] = lines[k] /\ Append(lines, OpenLine)[k] = lines[k]
            BY <1>1, <1>2, <2>4
        <3>2. LineTold(k)
            BY <1>1, <2>4 DEF LinesKept
        <3> QED
            BY <2>1, <3>1, <3>2 DEF LineTold
    <2> QED
        BY <1>1, <2>2, <2>3, <2>4
<1>4. Len(lines') + 1 = Begun'
    BY <1>1, <1>2
<1> QED
    BY <1>3, <1>4 DEF LinesKept

\* The device goes in the middle of a line that is too long: the line that has
\* begun is told as one that was cut, and the caller takes it for complete.
LEMMA LineLost ==
    ASSUME Len(marks) \in Nat, Prefix, lines \in Seq(LineRecord), LinesKept, ~NothingLeft,
           NEW line \in LineRecord, line.cut, lines' = Append(lines, line),
           Begun' = Begun, \A k : TextOf(k)' = TextOf(k), NothingLeft'
    PROVE  LinesKept'
<1>1. /\ Begun \in Nat \ {0} /\ Len(lines) \in Nat /\ Len(lines) + 1 = Begun
      /\ \A k : TextOf(k) \subseteq 1 .. Len(marks)
    BY BegunLast, LenProperties DEF LinesKept
<1>2. Len(lines') = Begun /\ lines' \in Seq(LineRecord) /\ lines'[Begun] = line
      /\ \A k \in 1 .. Len(lines) : lines'[k] = lines[k]
    BY <1>1, AppendProperties
<1>3. ASSUME NEW k \in 1 .. Begun PROVE LineTold(k)'
    <2>1. Append(lines', OpenLine')[k] = lines'[k]
        BY <1>1, <1>2
    <2>2. CASE k = Begun
        BY <1>2, <2>1, <2>2 DEF LineTold
    <2>3. CASE k # Begun
        <3>1. k \in 1 .. Len(lines)
            BY <1>1, <2>3
        <3>2. Append(lines, OpenLine)[k] = lines[k] /\ lines'[k] = lines[k]
            BY <1>1, <1>2, <3>1
        <3>3. LineTold(k)
            BY DEF LinesKept
        <3>4. BytesAt(lines[k].text, arrived, TextOf(k)) => BytesAt(lines[k].text, arrived', TextOf(k))
            BY <1>1, BytesStay DEF Prefix
        <3> QED
            BY <2>1, <3>2, <3>3, <3>4 DEF LineTold
    <2> QED
        BY <2>2, <2>3
<1> QED
    BY <1>1, <1>2, <1>3 DEF LinesKept

LEMMA LineEndsKeep ==
    ASSUME IInv, RInv, LineEnds
    PROVE  RInv'
<1>1. LineStep /\ ~Swallows /\ LineByte \in {CR, LF}
      /\ ReturnsLine(call.got, [Consumed EXCEPT !.pending_lf = LineByte = CR])
    BY DEF LineEnds
<1>2. PICK n \in Nat : n = Len(marks)
    BY MarksFollow
<1>3. /\ ~Idle /\ Self \in Member /\ Prefix /\ ~NothingLeft /\ raw' = raw
    BY <1>1, <1>2, LineByteTaken
<1>4. PICK lf \in BOOLEAN : lf = (LineByte = CR)
    OBVIOUS
<1>5. PICK o \in Member : /\ o = [Consumed EXCEPT !.pending_lf = lf]
                          /\ o.pending_lf = lf /\ o.timed_out = Self.timed_out
                          /\ o.error = Self.error
    <2>1. PICK s \in Member : s = Self /\ s.head + 1 \in 0 .. BufferSize
        <3>1. PICK s \in Member : s = Self
            BY <1>3
        <3>2. s.head <= s.tail /\ s.tail - s.head # 0
            BY <1>1, <1>3, <3>1, Running1 DEF Valid, LineStep, Empty, buffered
        <3>3. s.head + 1 \in 0 .. BufferSize
            BY <3>2, PortAssumption DEF Member
        <3> QED
            BY <3>1, <3>3
    <2>2. Consumed = [s EXCEPT !.head = @ + 1, !.pending_lf = FALSE]
        BY <2>1 DEF Consumed
    <2>3. [Consumed EXCEPT !.pending_lf = lf] \in Member
        BY <2>1, <2>2 DEF Member
    <2> QED
        BY <1>3, <2>3, ConsumedFlags
<1>6. /\ ReturnsLine(call.got, o) /\ call.got \in Seq(Int)
      /\ glue \in LineRecord /\ lines \in Seq(LineRecord) /\ raw \in Seq(Int)
    BY <1>1, <1>4, <1>5, LineOpen DEF RInv, HistoryTyped
<1>7. PICK line \in LineRecord : \E by : LineGiven(line, by, call.got, o)
    BY <1>6, LineReturns
<1>8. PICK by : LineGiven(line, by, call.got, o)
    BY <1>7
<1>9. lines' = Append(lines, line) /\ glue' = [text |-> <<>>, cut |-> FALSE]
      /\ (line = OpenLine \/ line.cut)
    <2>1. ~by.timed_out /\ by.error # "native"
        BY <1>1, <1>5, <1>8, LineOpen DEF LineGiven
    <2>2. line = OpenLine \/ line.cut
        BY <1>1, <1>5, <1>8, LineOpen DEF LineGiven
    <2> QED
        BY <1>8, <2>1, <2>2 DEF LineGiven
<1>10. Given' = raw /\ OpenLine' = glue' /\ CallKept'
    BY <1>3, <1>8 DEF Given, OpenLine, CallKept, NoCall, LineGiven
<1>11. RawKept' /\ Begun' = Begun + 1 /\ \A k : TextOf(k)' = TextOf(k)
    BY <1>1, <1>10, LineStepReads
<1>12. LinesKept'
    BY <1>2, <1>3, <1>6, <1>9, <1>10, <1>11, LineCloses DEF RInv
<1>13. LfAwaited'
    BY <1>1, <1>4, <1>5, <1>8, LfAfterByte DEF LineGiven
<1>14. HistoryTyped'
    <2>1. <<>> \in Seq(Int)
        OBVIOUS
    <2> QED
        BY <1>3, <1>6, <1>9, <2>1, AppendProperties DEF HistoryTyped, LineRecord
<1> QED
    BY <1>10, <1>11, <1>12, <1>13, <1>14 DEF RInv

LEMMA LineStopsKeep ==
    ASSUME IInv, RInv, ReadLineTimesOut \/ ReadLineFails
    PROVE  RInv'
<1>1. /\ call.op = "read_line" /\ ~Idle /\ Empty /\ tty.rx = <<>>
      /\ UNCHANGED <<tty, arrived, marks, apart, raw>>
    BY DEF ReadLineTimesOut, ReadLineFails, InCall, Idle, NoCall, Waits, Gone
<1>2. call.got \in Seq(Int)
    BY <1>1, CallKinds DEF LineRead, IInv, Typed
<1>3. Self \in Member /\ Self.open /\ call.by \in Objects /\ Len(marks) \in Nat
    BY <1>1, Running1 DEF Valid
<1>4. PICK o : /\ ReturnsLine(call.got, o)
               /\ \/ o = Late /\ tty.plugged
                  \/ o = Cut(Self, "native") /\ ~tty.plugged
    BY DEF ReadLineTimesOut, ReadLineFails, Waits, Gone
<1>5. /\ o \in Member /\ o.pending_lf = Self.pending_lf
      /\ \/ o.timed_out /\ o.error = Self.error /\ tty.plugged
         \/ ~o.timed_out /\ o.error = "native" /\ ~tty.plugged
    <2>1. o \in Member
        BY <1>1, <1>4, SelfFlags DEF Valid
    <2>2. ~Self.timed_out
        BY <1>1 DEF RInv, CallKept
    <2>3. /\ Late.pending_lf = Self.pending_lf /\ Late.timed_out /\ Late.error = Self.error
          /\ LET cut == Cut(Self, "native")
             IN  /\ cut.pending_lf = Self.pending_lf
                 /\ cut.timed_out = Self.timed_out /\ cut.error = "native"
        BY <1>3, StopFlags
    <2> QED
        BY <1>4, <2>1, <2>2, <2>3
<1>6. glue \in LineRecord /\ lines \in Seq(LineRecord) /\ raw \in Seq(Int)
    BY DEF RInv, HistoryTyped
<1>7. PICK line \in LineRecord : \E by : LineGiven(line, by, call.got, o)
    BY <1>2, <1>4, <1>5, <1>6, LineReturns
<1>8. PICK by : LineGiven(line, by, call.got, o)
    BY <1>7
<1>9. Given' = Given /\ OpenLine' = glue' /\ CallKept' /\ Prefix
    BY <1>1, <1>8 DEF Given, OpenLine, CallKept, NoCall, Prefix, LineGiven
<1>10. (\A k : TextOf(k)' = TextOf(k)) /\ RawBytes' = RawBytes /\ Begun' = Begun
    BY <1>1, <1>3, <1>9, NothingTaken
<1>11. RawKept'
    BY <1>3, <1>9, <1>10, RawStays DEF RInv
<1>12. line = OpenLine \/ line.cut
    <2>1. PICK cut : cut = (glue.cut \/ o.error # "none")
        OBVIOUS
    <2>2. line = [text |-> glue.text \o call.got, cut |-> cut] => line.cut = cut
        OBVIOUS
    <2>3. o.error = "native" => cut
        BY <2>1
    <2>4. o.error = Self.error => OpenLine = [text |-> glue.text \o call.got, cut |-> cut]
        BY <1>1, <2>1 DEF OpenLine
    <2> QED
        BY <1>5, <1>8, <2>1, <2>2, <2>3, <2>4 DEF LineGiven
<1>13. LinesKept' /\ HistoryTyped'
    <2>1. CASE by.timed_out \/ by.error = "native"
        <3>1. lines' = lines /\ glue' \in LineRecord /\ (OpenLine' = OpenLine \/ OpenLine'.cut)
            BY <1>8, <1>9, <1>12, <2>1 DEF LineGiven
        <3>2. NothingLeft => NothingLeft'
            BY <1>1, <1>8 DEF NothingLeft, NoCall, LineGiven
        <3>3. HistoryTyped'
            BY <1>1, <1>6, <3>1 DEF HistoryTyped
        <3>4. LinesKept'
            BY <1>3, <1>6, <1>9, <1>10, <3>1, <3>2, LinesStay DEF RInv
        <3> QED
            BY <3>3, <3>4
    <2>2. CASE ~by.timed_out /\ by.error # "native"
        <3>1. ~tty.plugged /\ by.error = "message_size" /\ line.cut /\ Len(call.got) > 0
            BY <1>5, <1>8, <2>2 DEF LineGiven
        <3>2. lines' = Append(lines, line) /\ glue' = [text |-> <<>>, cut |-> FALSE]
            BY <1>8, <2>2 DEF LineGiven
        <3>3. ~NothingLeft
            <4>1. Len(<<>>) = 0
                OBVIOUS
            <4> QED
                BY <1>1, <3>1, <4>1 DEF NothingLeft
        <3>4. NothingLeft'
            <4>1. buffered(Self) = 0 /\ Len(tty.rx) = 0
                BY <1>1 DEF Empty
            <4>2. Len(marks) = Len(arrived)
                BY <1>1, <4>1, BufferIsNext
            <4> QED
                BY <1>1, <1>8, <3>1, <4>2 DEF NothingLeft, NoCall, LineGiven
        <3>5. LinesKept'
            BY <1>3, <1>6, <1>9, <1>10, <3>1, <3>2, <3>3, <3>4, LineLost DEF RInv
        <3>6. HistoryTyped'
            <4>1. <<>> \in Seq(Int)
                OBVIOUS
            <4> QED
                BY <1>1, <1>6, <3>2, <4>1, AppendProperties DEF HistoryTyped, LineRecord
        <3> QED
            BY <3>5, <3>6
    <2> QED
        BY <2>1, <2>2
<1>14. LfAwaited'
    BY <1>1, <1>3, <1>5, <1>8, <1>9, LfOfOwner DEF RInv, LfAwaited, Leaves, Self, LineGiven
<1> QED
    BY <1>9, <1>11, <1>13, <1>14 DEF RInv

(***************************************************************************)
(* Every byte is read once and in order.                                   *)
(***************************************************************************)
LEMMA InitReads == Init => RInv
<1> SUFFICES ASSUME Init PROVE RInv
    OBVIOUS
<1>1. /\ marks = <<>> /\ raw = <<>> /\ lines = <<>> /\ arrived = <<>> /\ apart = TRUE
      /\ glue = [text |-> <<>>, cut |-> FALSE] /\ call = NoCall
      /\ \A p \in Objects : ~port[p].open
    BY ClosedValid DEF Init
<1>2. <<>> \in Seq(Int) /\ <<>> \in Seq(LineRecord) /\ Len(<<>>) = 0 /\ Cardinality({}) = 0
    BY FS_EmptySet
<1>3. HistoryTyped
    BY <1>1, <1>2 DEF HistoryTyped, LineRecord
<1>4. Given = <<>> /\ OpenLine = glue
    BY <1>1 DEF Given, OpenLine, NoCall
<1>5. RawBytes = {} /\ (\A k : TextOf(k) = {}) /\ Begun = 1
    <2>1. 1 .. Len(marks) = {} /\ 1 .. (Len(marks) + 1) - 1 = {}
        BY <1>1, <1>2
    <2>2. {j \in 1 .. (Len(marks) + 1) - 1 : EndsLine(j)} = {}
        BY <2>1
    <2>3. Begun = 1 + Cardinality({})
        BY <2>2, Zenon DEF Begun, LineOf
    <2> QED
        BY <1>2, <2>1, <2>3 DEF RawBytes, TextOf
<1>6. BytesAt(<<>>, arrived, {})
    BY <1>2 DEF BytesAt
<1>7. RawKept
    BY <1>4, <1>5, <1>6 DEF RawKept
<1>8. LinesKept
    <2>1. Append(lines, glue)[1] = glue /\ glue.text = <<>>
        BY <1>1
    <2>2. LineTold(1)
        BY <1>4, <1>5, <1>6, <2>1 DEF LineTold
    <2> QED
        BY <1>1, <1>2, <1>5, <2>2 DEF LinesKept
<1>9. LfAwaited /\ CallKept
    BY <1>1 DEF LfAwaited, CallKept, NoCall
<1> QED
    BY <1>3, <1>7, <1>8, <1>9 DEF RInv

LEMMA NextReads == IInv /\ IInv' /\ RInv /\ [Next]_vars => RInv'
<1> SUFFICES ASSUME IInv, IInv', RInv, [Next]_vars PROVE RInv'
    OBVIOUS
<1>1. CASE Caller
    <2>1. ASSUME NEW p \in Objects,
                 \/ SetTimeout(p) \/ FlushOutput(p)
                 \/ StartDrain(p, "drain", "none") \/ StartDrain(p, "close", "none")
                 \/ \E q \in Objects : Move(p, q)
                 \/ \E rate \in Rates : StartDrain(p, "set_baud_rate", rate)
                 \/ \E output \in BOOLEAN : FlushInput(p, output)
                 \/ \E n \in Requests : \/ StartRead(p, "read", n)
                                        \/ StartRead(p, "read_some", n)
                                        \/ StartWrite(p, n)
                 \/ \E form \in Forms : StartReadLine(p, form)
          PROVE  RInv'
        BY <2>1, CallerKeeps, MoveKeeps, FlushKeeps, StartsKeep
    <2> QED
        BY <1>1, <2>1, ConstructKeeps, PortAssumption DEF Caller
<1>2. CASE Running
    BY <1>2, OthersKeep, FillKeeps, ReadsKeep, SwallowKeeps, LineEndsKeep, LineGrowsKeeps,
       OverrunKeeps, LineStopsKeep DEF Running
<1>3. CASE Expire \/ Line
    BY <1>3, ExpireKeeps, LineKeeps
<1>4. CASE UNCHANGED vars
    <2>1. UNCHANGED <<tty, port, call, marks, apart, arrived, raw, lines, glue>>
        BY <1>4 DEF vars, received
    <2>2. Prefix /\ Len(marks) \in Nat
        BY <2>1, MarksFollow DEF Prefix
    <2>3. Given' = Given /\ OpenLine' = OpenLine /\ HistoryTyped' /\ CallKept'
        BY <2>1 DEF RInv, Given, OpenLine, Self, HistoryTyped, CallKept
    <2>4. LfAwaited'
        BY <2>1 DEF RInv, LfAwaited, AfterCR
    <2>5. NothingLeft => NothingLeft'
        BY <2>1 DEF NothingLeft
    <2>6. RawKept' /\ LinesKept'
        BY <2>1, <2>2, <2>3, <2>5, NothingTaken, RawStays, LinesStay DEF RInv, HistoryTyped
    <2> QED
        BY <2>3, <2>4, <2>6 DEF RInv
<1> QED
    BY <1>1, <1>2, <1>3, <1>4 DEF Next

\* Whatever mixture of read(), read_some() and the forms of read_line() takes
\* them, through timeouts, errors, flushes, moves and an unplugged device, the
\* caller gets each byte once and in order: those of read() and read_some() as
\* they came, and as many lines as read_line() took ends of line, CR LF
\* counting once, each with its own text unless the port said it was cut.
THEOREM ReadsAreTheStream == Spec => []ReadsMatchReference
<1>1. IInv /\ RInv => ReadsMatchReference
    <2> SUFFICES ASSUME IInv, RInv, Idle PROVE ReadsMatchReference
        BY DEF ReadsMatchReference
    <2>1. Given = raw /\ OpenLine = glue
        BY DEF Idle, NoCall, Given, OpenLine
    <2>2. BytesWaitInOrder
        BY DEF IInv, Kept
    <2>3. BytesAt(raw, arrived, RawBytes)
        BY <2>1 DEF RInv, RawKept
    <2>4. \A k \in 1 .. Begun :
             Append(lines, glue)[k].cut \/ BytesAt(Append(lines, glue)[k].text, arrived, TextOf(k))
        BY <2>1 DEF RInv, LinesKept, LineTold
    <2>5. Len(Append(lines, glue)) - Begun \in IF tty.plugged THEN {0} ELSE {0, 1}
        <3>1. Begun \in Nat /\ lines \in Seq(LineRecord) /\ Len(lines) \in Nat
            BY MarksFollow, BegunLast, LenProperties DEF RInv, HistoryTyped
        <3>2. Len(Append(lines, glue)) = Len(lines) + 1
            BY <3>1, AppendProperties DEF RInv, HistoryTyped
        <3> QED
            BY <3>1, <3>2 DEF RInv, LinesKept, NothingLeft
    <2> QED
        BY <2>2, <2>3, <2>4, <2>5 DEF ReadsMatchReference, Begun
<1>2. Spec => [](IInv /\ RInv)
    <2>1. Init => IInv /\ RInv
        BY InitInv, InitReads
    <2>2. (IInv /\ RInv) /\ [Next]_vars => (IInv /\ RInv)'
        BY NextInv, NextReads
    <2> QED
        BY <2>1, <2>2, PTL DEF Spec
<1> QED
    BY <1>1, <1>2, PTL

=============================================================================
