-------------------------- MODULE RpcSessionProofs --------------------------
(***************************************************************************)
(* Proofs about the device and its host, for any line capacity, timeouts   *)
(* and clock.  RpcSession: for any number of calls and whatever the user   *)
(* calls, its types, that answers belong to their calls, and, from these,  *)
(* what it promises the program of the host: its calls are those of        *)
(* RpcCall, and what it believes of the device is backed by the device.    *)
(* ServerTimeout: whatever a host writes, poll() detaches one that asked   *)
(* for a timeout exactly when it has been silent that long.                *)
(***************************************************************************)
EXTENDS RpcSession, ServerTimeout, Integers, SequenceTheorems, TLAPS

-----------------------------------------------------------------------------
(* Queues                                                                  *)

LEMMA WithoutProperties ==
  ASSUME NEW S, NEW s \in Seq(S), NEW i \in DOMAIN s
  PROVE  /\ Without(s, i) \in Seq(S)
         /\ Len(Without(s, i)) = Len(s) - 1
         /\ \A j \in 1 .. Len(s) - 1 :
              Without(s, i)[j] = IF j < i THEN s[j] ELSE s[j + 1]
<1>1. Len(s) - 1 \in Nat
  OBVIOUS
<1>2. Without(s, i) \in [1 .. Len(s) - 1 -> S]
  BY <1>1 DEF Without
<1> QED
  BY <1>1, <1>2, IsASeq DEF Without

LEMMA SuffixProperties ==
  ASSUME NEW S, NEW s \in Seq(S), NEW n \in 0 .. Len(s)
  PROVE  /\ SubSeq(s, n + 1, Len(s)) \in Seq(S)
         /\ Len(SubSeq(s, n + 1, Len(s))) = Len(s) - n
         /\ \A j \in 1 .. Len(s) - n : SubSeq(s, n + 1, Len(s))[j] = s[n + j]
BY SubSeqProperties

LEMMA PrefixProperties ==
  ASSUME NEW S, NEW s \in Seq(S), NEW n \in 0 .. Len(s)
  PROVE  /\ SubSeq(s, 1, n) \in Seq(S)
         /\ Len(SubSeq(s, 1, n)) = n
         /\ \A j \in 1 .. n : SubSeq(s, 1, n)[j] = s[j]
BY SubSeqProperties

-----------------------------------------------------------------------------
(* The wire: what the device will be able to take, in order, with the      *)
(* frame that the next one will close.                                      *)

Wire == to_device \o unfinished

LEMMA WireOf ==
  ASSUME NEW q \in Seq(ToDevice), NEW u \in Unfinished
  PROVE  /\ q \o u \in Seq(ToDevice)
         /\ Len(q \o u) = Len(q) + Len(u)
         /\ Len(q) \in Nat
         /\ \/ u = <<>> /\ Len(u) = 0
            \/ Len(u) = 1 /\ u[1] \in Request \cup Notification
         /\ \A i \in 1 .. Len(q) : (q \o u)[i] = q[i]
         /\ Len(u) = 1 => (q \o u)[Len(q) + 1] = u[1]
<1>1. CASE u = <<>>
  <2>1. q \o u = q
    BY <1>1, ConcatEmptySeq
  <2> QED
    BY <1>1, <2>1, LenProperties
<1>2. ASSUME NEW frame \in Request \cup Notification, u = <<frame>>
      PROVE  /\ q \o u \in Seq(ToDevice)
             /\ Len(q \o u) = Len(q) + Len(u)
             /\ Len(q) \in Nat
             /\ Len(u) = 1 /\ u[1] \in Request \cup Notification
             /\ \A i \in 1 .. Len(q) : (q \o u)[i] = q[i]
             /\ (q \o u)[Len(q) + 1] = u[1]
  <2>1. u \in Seq(ToDevice) /\ Len(u) = 1 /\ u[1] = frame
    BY <1>2 DEF ToDevice
  <2>2. Len(q) \in Nat
    BY LenProperties
  <2>3. /\ q \o u \in Seq(ToDevice)
        /\ Len(q \o u) = Len(q) + Len(u)
        /\ \A i \in 1 .. Len(q) + Len(u) :
             (q \o u)[i] = IF i <= Len(q) THEN q[i] ELSE u[i - Len(q)]
    BY <2>1, ConcatProperties
  <2>4. (q \o u)[Len(q) + 1] = u[1]
    BY <2>1, <2>2, <2>3
  <2> QED
    BY <1>2, <2>1, <2>2, <2>3, <2>4
<1> QED
  BY <1>1, <1>2 DEF Unfinished

\* What the steps of the host leave of the wire.
Keeps == /\ Len(Wire') = Len(Wire)
         /\ \A i \in 1 .. Len(Wire) : Wire'[i] = Wire[i]

Grows(m) == /\ Len(Wire') = Len(Wire) + 1
            /\ \A i \in 1 .. Len(Wire) : Wire'[i] = Wire[i]
            /\ Wire'[Len(Wire) + 1] = m

WireTyped == to_device \in Seq(ToDevice) /\ unfinished \in Unfinished

LEMMA WireType ==
  ASSUME WireTyped
  PROVE  Wire \in Seq(ToDevice) /\ Len(Wire) \in Nat /\ DOMAIN Wire = 1 .. Len(Wire)
BY WireOf, LenProperties DEF WireTyped, Wire

LEMMA FrameWritten ==
  ASSUME WireTyped, NEW m \in ToDevice, WriteFrame(m)
  PROVE  WireTyped' /\ Wire' \in Seq(ToDevice) /\ Grows(m) /\ unfinished' = <<>>
<1>1. Wire \in Seq(ToDevice)
  BY WireType
<1>2. to_device' = Append(Wire, m) /\ unfinished' = <<>>
  BY DEF WriteFrame, Wire
<1>3. to_device' \in Seq(ToDevice)
  BY <1>1, <1>2, AppendProperties
<1>4. Wire' = Append(Wire, m)
  BY <1>2, <1>3, ConcatEmptySeq DEF Wire
<1> QED
  BY <1>1, <1>2, <1>3, <1>4, AppendProperties DEF WireTyped, Unfinished, Grows

LEMMA FrameShort ==
  ASSUME WireTyped, NEW m \in Request \cup Notification, WriteFrameShort(m)
  PROVE  WireTyped' /\ Wire' \in Seq(ToDevice) /\ (Keeps \/ Grows(m))
<1>1. Wire \in Seq(ToDevice) /\ Len(Wire) \in Nat
  BY WireType
<1>2. CASE UNCHANGED <<to_device, unfinished>>
  <2>1. Wire' = Wire
    BY <1>2 DEF Wire
  <2> QED
    BY <1>1, <1>2, <2>1 DEF WireTyped, Keeps
<1>3. CASE to_device' = Wire /\ unfinished' = <<>>
  <2>1. Wire' = Wire
    BY <1>1, <1>3, ConcatEmptySeq DEF Wire
  <2> QED
    BY <1>1, <1>3, <2>1 DEF WireTyped, Unfinished, Keeps
<1>4. CASE to_device' = Wire /\ unfinished' = <<m>>
  <2>1. unfinished' \in Unfinished /\ Len(unfinished') = 1 /\ unfinished'[1] = m
    BY <1>4 DEF Unfinished
  <2>2. Wire' = Wire \o unfinished'
    BY <1>4 DEF Wire
  <2> QED
    BY <1>1, <1>4, <2>1, <2>2, WireOf DEF WireTyped, Grows
<1> QED
  BY <1>2, <1>3, <1>4 DEF WriteFrameShort, Wire

\* Text may spoil an unfinished frame.
LEMMA TextWritten ==
  ASSUME WireTyped, WriteText \/ WriteTextShort
  PROVE  /\ WireTyped' /\ Wire' \in Seq(ToDevice)
         /\ \A i \in DOMAIN Wire' :
              Wire'[i].type # "text" => i \in DOMAIN Wire /\ Wire'[i] = Wire[i]
<1>1. /\ Wire \in Seq(ToDevice) /\ Len(Wire) \in Nat /\ to_device \in Seq(ToDevice)
      /\ Len(to_device) \in Nat /\ Len(to_device) <= Len(Wire)
      /\ \A i \in 1 .. Len(to_device) : Wire[i] = to_device[i]
  BY WireType, WireOf DEF WireTyped, Wire
<1>2. [type |-> "text"] \in ToDevice
  BY DEF ToDevice, HostText
<1>3. CASE UNCHANGED <<to_device, unfinished>>
  <2>1. Wire' = Wire
    BY <1>3 DEF Wire
  <2> QED
    BY <1>1, <1>3, <2>1 DEF WireTyped
<1>4. CASE to_device' = to_device /\ unfinished' = <<>>
  <2>1. Wire' = to_device
    BY <1>1, <1>4, ConcatEmptySeq DEF Wire
  <2> QED
    BY <1>1, <1>4, <2>1 DEF WireTyped, Unfinished
<1>5. CASE to_device' = Append(to_device, [type |-> "text"]) /\ unfinished' = <<>>
  <2>1. /\ to_device' \in Seq(ToDevice)
        /\ Len(to_device') = Len(to_device) + 1
        /\ \A i \in 1 .. Len(to_device) : to_device'[i] = to_device[i]
        /\ to_device'[Len(to_device) + 1] = [type |-> "text"]
    BY <1>1, <1>2, <1>5, AppendProperties
  <2>2. Wire' = to_device'
    BY <1>5, <2>1, ConcatEmptySeq DEF Wire
  <2>3. \A i \in DOMAIN Wire' : i \in 1 .. Len(to_device) \/ i = Len(to_device) + 1
    BY <1>1, <2>1, <2>2
  <2> QED
    BY <1>1, <1>5, <2>1, <2>2, <2>3 DEF WireTyped, Unfinished
<1> QED
  BY <1>3, <1>4, <1>5 DEF WriteText, WriteTextShort, linkVars

\* What the device and the line leave of it.
LEMMA LastOrBefore ==
  ASSUME NEW i \in Nat, NEW n \in Nat, NEW u \in {0, 1}, 1 <= i, i <= n + u
  PROVE  i \in 1 .. n \/ (i = n + 1 /\ u = 1)
OBVIOUS

LEMMA WirePopped ==
  ASSUME WireTyped, to_device # <<>>, to_device' = Tail(to_device), unfinished' = unfinished
  PROVE  /\ WireTyped' /\ Wire' \in Seq(ToDevice)
         /\ Len(Wire') = Len(Wire) - 1
         /\ \A i \in 1 .. Len(Wire') : Wire'[i] = Wire[i + 1]
         /\ 1 \in DOMAIN Wire /\ Head(to_device) = Wire[1]
<1>1. /\ to_device' \in Seq(ToDevice) /\ Len(to_device') = Len(to_device) - 1
      /\ \A i \in 1 .. Len(to_device') : to_device'[i] = to_device[i + 1]
      /\ Len(to_device) \in Nat \ {0} /\ Head(to_device) = to_device[1]
  BY HeadTailProperties, LenProperties, EmptySeq DEF WireTyped
<1>2. /\ Len(Wire) = Len(to_device) + Len(unfinished)
      /\ Len(unfinished) \in {0, 1}
      /\ \A i \in 1 .. Len(to_device) : Wire[i] = to_device[i]
      /\ Len(unfinished) = 1 => Wire[Len(to_device) + 1] = unfinished[1]
  BY WireOf DEF WireTyped, Wire
<1>3. /\ Wire' \in Seq(ToDevice)
      /\ Len(Wire') = Len(to_device') + Len(unfinished)
      /\ \A i \in 1 .. Len(to_device') : Wire'[i] = to_device'[i]
      /\ Len(unfinished) = 1 => Wire'[Len(to_device') + 1] = unfinished[1]
  BY <1>1, WireOf DEF WireTyped, Wire
<1>4. Wire[1] = to_device[1] /\ 1 \in DOMAIN Wire
  BY <1>1, <1>2, WireType
<1>5. ASSUME NEW i \in 1 .. Len(Wire')
      PROVE  Wire'[i] = Wire[i + 1]
  <2>1. CASE i \in 1 .. Len(to_device')
    <3>1. i + 1 \in 1 .. Len(to_device)
      BY <1>1, <2>1
    <3> QED
      BY <1>1, <1>2, <1>3, <2>1, <3>1
  <2>2. CASE i = Len(to_device') + 1 /\ Len(unfinished) = 1
    <3>1. i + 1 = Len(to_device) + 1
      BY <1>1, <2>2
    <3> QED
      BY <1>2, <1>3, <2>2, <3>1
  <2>3. Len(to_device') \in Nat /\ i \in Nat /\ 1 <= i /\ i <= Len(to_device') + Len(unfinished)
    BY <1>1, <1>3
  <2>4. i \in 1 .. Len(to_device') \/ (i = Len(to_device') + 1 /\ Len(unfinished) = 1)
    BY <1>2, <2>3, LastOrBefore
  <2> QED
    BY <2>1, <2>2, <2>4
<1> QED
  BY <1>1, <1>2, <1>3, <1>4, <1>5 DEF WireTyped

LEMMA WireLost ==
  ASSUME WireTyped, NEW k \in DOMAIN to_device, to_device' = Without(to_device, k),
         unfinished' = unfinished
  PROVE  /\ WireTyped' /\ Wire' \in Seq(ToDevice)
         /\ Len(Wire') = Len(Wire) - 1 /\ k \in 1 .. Len(Wire)
         /\ \A i \in 1 .. Len(Wire) - 1 :
              Wire'[i] = IF i < k THEN Wire[i] ELSE Wire[i + 1]
<1>1. /\ to_device' \in Seq(ToDevice) /\ Len(to_device') = Len(to_device) - 1
      /\ \A i \in 1 .. Len(to_device) - 1 :
           to_device'[i] = IF i < k THEN to_device[i] ELSE to_device[i + 1]
      /\ Len(to_device) \in Nat /\ k \in 1 .. Len(to_device)
  BY WithoutProperties, LenProperties DEF WireTyped
<1>2. /\ Len(Wire) = Len(to_device) + Len(unfinished)
      /\ Len(unfinished) \in {0, 1}
      /\ \A i \in 1 .. Len(to_device) : Wire[i] = to_device[i]
      /\ Len(unfinished) = 1 => Wire[Len(to_device) + 1] = unfinished[1]
  BY WireOf DEF WireTyped, Wire
<1>3. /\ Wire' \in Seq(ToDevice)
      /\ Len(Wire') = Len(to_device') + Len(unfinished)
      /\ \A i \in 1 .. Len(to_device') : Wire'[i] = to_device'[i]
      /\ Len(unfinished) = 1 => Wire'[Len(to_device') + 1] = unfinished[1]
  BY <1>1, WireOf DEF WireTyped, Wire
<1>4. ASSUME NEW i \in 1 .. Len(Wire) - 1
      PROVE  Wire'[i] = IF i < k THEN Wire[i] ELSE Wire[i + 1]
  <2>1. CASE i \in 1 .. Len(to_device')
    <3>1. i + 1 \in 1 .. Len(to_device) /\ i \in 1 .. Len(to_device)
      BY <1>1, <2>1
    <3> QED
      BY <1>1, <1>2, <1>3, <2>1, <3>1
  <2>2. CASE i = Len(to_device') + 1 /\ Len(unfinished) = 1
    <3>1. ~(i < k) /\ i = Len(to_device)
      BY <1>1, <2>2
    <3> QED
      BY <1>2, <1>3, <2>2, <3>1
  <2>3. Len(to_device') \in Nat /\ i \in Nat /\ 1 <= i /\ i <= Len(to_device') + Len(unfinished)
    BY <1>1, <1>2
  <2>4. i \in 1 .. Len(to_device') \/ (i = Len(to_device') + 1 /\ Len(unfinished) = 1)
    BY <1>2, <2>3, LastOrBefore
  <2> QED
    BY <2>1, <2>2, <2>4
<1> QED
  BY <1>1, <1>2, <1>3, <1>4 DEF WireTyped

-----------------------------------------------------------------------------
(* Type correctness                                                        *)

\* connect() has kept a request for rpc.attach.
Room == activity \in {"search", "probe"} => issued < MaxCalls

Typed == TypeOK /\ Room

\* The client's variables that only some of its steps change.
Rest == /\ issued \in 0 .. MaxCalls
        /\ next_msgid \in MsgId
        /\ outcome \in Outcomes
        /\ unfinished \in Unfinished
        /\ shorts \in 0 .. MaxShorts

LEMMA NoReplyType == NoReply \in Reply
BY LinkAssumption DEF NoReply, Reply, MsgId, Call

LEMMA NoResponseType == NoResponse \in PendingResponses
BY DEF NoResponse, PendingResponses

LEMMA OutcomeUpdate ==
  ASSUME NEW o \in Outcomes, NEW c, NEW value \in Call \cup {0},
         NEW state \in {"none", "open", "result", "error", "timeout", "failed"}
  PROVE  [o EXCEPT ![c] = Outcome(state, value)] \in Outcomes
BY DEF Outcomes, Outcome

LEMMA InitTyped == Init => Typed
<1> SUFFICES ASSUME Init PROVE Typed
  OBVIOUS
<1>1. LinkTypeOK
  BY DEF Init, LinkInit, LinkTypeOK
<1>2. ServerTypeOK
  <2>1. last_frame \in 0 .. ClockSpan - 1
    BY ServerAssumption DEF Init, ServerInit
  <2>2. executed \in [Call -> {"no", "result", "error"}]
    BY DEF Init, ServerInit
  <2> QED
    BY <2>1, <2>2, NoReplyType DEF Init, ServerInit, ServerTypeOK
<1>3. next_msgid \in MsgId /\ issued \in 0 .. MaxCalls
  BY LinkAssumption DEF Init, HostInit, MsgId
<1>4. outcome \in Outcomes
  BY DEF Init, HostInit, Outcomes, Outcome
<1>5. HostTypeOK
  <2>1. expired \in SUBSET {"wait", "connect"} /\ read_buf \in Seq(ToHost)
    BY DEF Init, HostInit
  <2>2. unfinished \in Unfinished /\ shorts \in 0 .. MaxShorts
    BY HostAssumption DEF Init, HostInit, Unfinished
  <2> QED
    BY <1>3, <1>4, <2>1, <2>2, NoResponseType
    DEF Init, HostInit, HostTypeOK
<1> QED
  BY <1>1, <1>2, <1>5 DEF Init, HostInit, Typed, TypeOK, Room

LEMMA TypedWire == Typed => WireTyped
BY DEF Typed, TypeOK, LinkTypeOK, HostTypeOK, WireTyped

LEMMA LoseTyped == LinkTypeOK /\ Lose => LinkTypeOK'
BY WithoutProperties DEF LinkTypeOK, Lose

LEMMA RequestTyped ==
  ASSUME Typed, issued < MaxCalls, NEW method \in Method, NEW arg \in Arg
  PROVE  /\ RequestFrame(method, arg) \in Request
         /\ issued \in Nat /\ issued + 1 \in Call
         /\ (next_msgid + 1) % MsgIdSpan \in MsgId
<1>1. issued \in Nat /\ issued + 1 \in Call
  BY LinkAssumption DEF Typed, TypeOK, HostTypeOK, Call
<1>2. (next_msgid + 1) % MsgIdSpan \in MsgId
  BY LinkAssumption DEF Typed, TypeOK, HostTypeOK, MsgId
<1>3. RequestFrame(method, arg) \in Request
  BY <1>1 DEF RequestFrame, Typed, TypeOK, HostTypeOK, Request
<1> QED
  BY <1>1, <1>2, <1>3

LEMMA IssueTyped ==
  ASSUME Typed, issued < MaxCalls, NEW method \in Method, NEW arg \in Arg,
         Issue(method, arg)
  PROVE  /\ LinkTypeOK'
         /\ issued' \in Call
         /\ issued' = issued + 1
         /\ next_msgid' \in MsgId
         /\ pending_msgid' \in MsgId
         /\ pending_response' = NoResponse
         /\ expired' = {}
         /\ read_buf' = read_buf
         /\ outcome' \in Outcomes
         /\ unfinished' = <<>> /\ unfinished' \in Unfinished
         /\ shorts' = shorts
         /\ Grows(RequestFrame(method, arg))
<1>1. /\ issued' = issued + 1 /\ issued' \in Call
      /\ next_msgid' \in MsgId
      /\ RequestFrame(method, arg) \in ToDevice
  BY RequestTyped DEF Issue, ToDevice
<1>2. WriteFrame(RequestFrame(method, arg))
  BY DEF Issue
<1>3. WireTyped' /\ Grows(RequestFrame(method, arg)) /\ unfinished' = <<>>
  BY <1>1, <1>2, FrameWritten, TypedWire
<1>4. LinkTypeOK'
  BY <1>2, <1>3 DEF WriteFrame, WireTyped, Typed, TypeOK, LinkTypeOK
<1>5. outcome' \in Outcomes
  BY OutcomeUpdate DEF Issue, Typed, TypeOK, HostTypeOK
<1> QED
  BY <1>1, <1>2, <1>3, <1>4, <1>5
  DEF Issue, WriteFrame, WireTyped, Typed, TypeOK, HostTypeOK

LEMMA NotIssuedTyped ==
  ASSUME Typed, issued < MaxCalls, NEW method \in Method, NEW arg \in Arg,
         NotIssued(method, arg)
  PROVE  /\ LinkTypeOK' /\ HostTypeOK' /\ Room'
         /\ Keeps \/ Grows(RequestFrame(method, arg))
<1>1. /\ issued' = issued + 1 /\ issued' \in Call
      /\ next_msgid' \in MsgId
      /\ RequestFrame(method, arg) \in Request
  BY RequestTyped DEF NotIssued
<1>2. WriteFrameShort(RequestFrame(method, arg))
  BY DEF NotIssued
<1>3. WireTyped' /\ (Keeps \/ Grows(RequestFrame(method, arg)))
  BY <1>1, <1>2, FrameShort, TypedWire
<1>4. LinkTypeOK'
  BY <1>2, <1>3 DEF WriteFrameShort, WireTyped, Typed, TypeOK, LinkTypeOK
<1>5. outcome' \in Outcomes
  BY OutcomeUpdate DEF NotIssued, Typed, TypeOK, HostTypeOK
<1>6. shorts' \in 0 .. MaxShorts
  BY <1>2, HostAssumption DEF WriteFrameShort, FallsShort, Typed, TypeOK, HostTypeOK
<1>7. HostTypeOK' /\ Room'
  BY <1>1, <1>3, <1>5, <1>6
  DEF NotIssued, WireTyped, Typed, TypeOK, HostTypeOK, Room, Call
<1> QED
  BY <1>3, <1>4, <1>7

LEMMA CloseTyped ==
  ASSUME Typed, NEW state \in {"result", "error", "timeout", "failed"},
         NEW value \in Call \cup {0}, Close(state, value)
  PROVE  /\ LinkTypeOK'
         /\ Rest'
         /\ issued' = issued
         /\ pending_msgid' \in MsgId \cup {NoId}
         /\ pending_response' \in PendingResponses
         /\ expired' \in SUBSET {"wait", "connect"}
         /\ read_buf' = read_buf
<1>1. outcome' \in Outcomes
  BY OutcomeUpdate DEF Close, Typed, TypeOK, HostTypeOK
<1>2. LinkTypeOK'
  BY DEF Close, Typed, TypeOK, LinkTypeOK, lineVars, linkVars
<1>3. expired' \in SUBSET {"wait", "connect"}
  BY DEF Close, Typed, TypeOK, HostTypeOK
<1> QED
  BY <1>1, <1>2, <1>3, NoResponseType DEF Close, lineVars, Typed, TypeOK, HostTypeOK, Rest

\* A write that asks for no answer, whether it falls short or not.
LEMMA OneWayTyped ==
  ASSUME Typed, OneWay, host_attached' \in BOOLEAN,
         \/ \E m \in Notification : WriteFrame(m) \/ WriteFrameShort(m)
         \/ WriteText \/ WriteTextShort
  PROVE  LinkTypeOK' /\ HostTypeOK' /\ Room'
<1>1. to_host' = to_host /\ shorts' \in 0 .. MaxShorts
  BY HostAssumption DEF WriteFrame, WriteFrameShort, WriteText, WriteTextShort, FallsShort,
                        linkVars, Typed, TypeOK, HostTypeOK
<1>2. WireTyped'
  <2>1. ASSUME NEW m \in Notification, WriteFrame(m) \/ WriteFrameShort(m)
        PROVE  WireTyped'
    BY <2>1, FrameWritten, FrameShort, TypedWire DEF ToDevice
  <2> QED
    BY <2>1, TextWritten, TypedWire
<1> QED
  BY <1>1, <1>2 DEF OneWay, WireTyped, Typed, TypeOK, LinkTypeOK, HostTypeOK, Room

LEMMA HandleTyped ==
  ASSUME Typed, NEW type, Handle(type)
  PROVE  /\ LinkTypeOK'
         /\ Rest'
         /\ read_buf' \in Seq(ToHost)
         /\ Head(read_buf) \in ToHost
BY HeadTailProperties
DEF Handle, lineVars, linkVars, Typed, TypeOK, LinkTypeOK, HostTypeOK, Rest

LEMMA HostTyped ==
  ASSUME Typed, HostNext
  PROVE  LinkTypeOK' /\ HostTypeOK' /\ Room'
<1> USE DEF Typed, TypeOK
<1>1. CASE Read
  <2>1. PICK n \in 1 .. ReadMax : /\ n <= Len(to_host)
                                 /\ read_buf' = SubSeq(to_host, 1, n)
                                 /\ to_host' = SubSeq(to_host, n + 1, Len(to_host))
    BY <1>1 DEF Read
  <2>2. n \in 0 .. Len(to_host) /\ to_host \in Seq(ToHost)
    BY <2>1, HostAssumption DEF LinkTypeOK
  <2>3. read_buf' \in Seq(ToHost) /\ to_host' \in Seq(ToHost)
    BY <2>1, <2>2, PrefixProperties, SuffixProperties
  <2> QED
    BY <1>1, <2>3 DEF Read, LinkTypeOK, HostTypeOK, Room, rpcVars
<1>2. CASE HandleResponse
  <2>1. Handle("response") /\ Head(read_buf).type = "response"
    BY <1>2 DEF HandleResponse, Handle
  <2>2. Head(read_buf) \in Response
    BY <2>1, HandleTyped DEF ToHost, DeviceEvent, DeviceText
  <2>3. pending_response' \in PendingResponses
    BY <1>2, <2>2 DEF HandleResponse, HostTypeOK, Response, PendingResponses
  <2> QED
    BY <1>2, <2>1, <2>3, HandleTyped DEF HandleResponse, Handle, HostTypeOK, Room, Rest
<1>3. CASE HandleEvent
  BY <1>3, HandleTyped DEF HandleEvent, Handle, HostTypeOK, Room, Rest
<1>4. CASE HandleText
  <2>1. Head(read_buf) \in DeviceText
    BY <1>4, HandleTyped DEF HandleText, Handle, ToHost, Response, DeviceEvent, DeviceText
  <2>2. alive' \in BOOLEAN
    BY <1>4, <2>1 DEF HandleText, HostTypeOK, DeviceText
  <2> QED
    BY <1>4, <2>1, <2>2, HandleTyped DEF HandleText, Handle, HostTypeOK, Room, Rest
<1>5. ASSUME Answered
      PROVE  /\ pending_response.value \in Call \cup {0}
             /\ pending_response.error \in BOOLEAN
             /\ (IF pending_response.error THEN "error" ELSE "result")
                  \in {"result", "error", "timeout", "failed"}
  BY <1>5 DEF HostTypeOK, PendingResponses
<1>6. CASE CallReturns
  BY <1>5, <1>6, CloseTyped DEF CallReturns, TakeAnswer, HostTypeOK, Room, Rest
<1>7. CASE ProbeReturns
  <2>1. issued < MaxCalls
    BY <1>7 DEF ProbeReturns, Room
  <2>2. alive' \in BOOLEAN
    BY <1>5, <1>7 DEF ProbeReturns, HostTypeOK
  <2> QED
    BY <1>5, <1>7, <2>1, <2>2, CloseTyped DEF ProbeReturns, TakeAnswer, HostTypeOK, Room, Rest
<1>8. CASE AttachReturns
  <2>1. host_attached' \in BOOLEAN
    BY <1>5, <1>8 DEF AttachReturns, HostTypeOK
  <2> QED
    BY <1>5, <1>8, <2>1, CloseTyped DEF AttachReturns, TakeAnswer, HostTypeOK, Room, Rest
<1>9. CASE TimesOut
  <2>1. Close("timeout", 0)
    BY <1>9 DEF TimesOut
  <2> QED
    BY <1>9, <2>1, CloseTyped DEF TimesOut, HostTypeOK, Room, Rest
<1>10. CASE PortFails
  <2>1. Close("failed", 0)
    BY <1>10 DEF PortFails
  <2> QED
    BY <1>10, <2>1, CloseTyped DEF PortFails, HostTypeOK, Room, Rest
<1>11. "rpc.ping" \in Method /\ "rpc.attach" \in Method /\ 0 \in Arg
  BY LinkAssumption DEF Method, Arg
<1>12. CASE SendProbe
  <2>1. issued < MaxCalls /\ issued + 1 < MaxCalls
    BY <1>12 DEF SendProbe, MayProbe, Room
  <2>2. Issue("rpc.ping", 0)
    BY <1>12 DEF SendProbe
  <2> QED
    BY <1>11, <1>12, <2>1, <2>2, IssueTyped, NoResponseType
    DEF SendProbe, HostTypeOK, Room, Call
<1>13. CASE SendAttach
  <2>1. issued < MaxCalls /\ Issue("rpc.attach", 0)
    BY <1>13 DEF SendAttach, MayAttach, Room
  <2> QED
    BY <1>11, <1>13, <2>1, IssueTyped, NoResponseType DEF SendAttach, HostTypeOK, Room, Call
<1>14. CASE StartCall
  <2>1. PICK c \in UserCalls : Issue(c.method, c.arg)
    BY <1>14 DEF StartCall
  <2>2. c.method \in Method /\ c.arg \in Arg
    BY <2>1, HostAssumption
  <2> QED
    BY <1>14, <2>1, <2>2, IssueTyped, NoResponseType
    DEF StartCall, MayCall, HostTypeOK, Room, Call
<1>15. CASE ConnectTimesOut
  BY <1>15 DEF ConnectTimesOut, lineVars, linkVars, rpcVars, LinkTypeOK, HostTypeOK, Room
<1>16. CASE SendText \/ TextNotSent
  BY <1>16, OneWayTyped DEF SendText, TextNotSent, HostTypeOK
<1>17. ASSUME NEW method \in Method
       PROVE  NotifyFrame(method) \in Notification
  BY <1>11, <1>17 DEF NotifyFrame, Notification
<1>18. CASE NotifyValues \/ NotifyNotSent
  <2>1. PICK c \in UserCalls : \/ WriteFrame(NotifyFrame(c.method))
                              \/ WriteFrameShort(NotifyFrame(c.method))
    BY <1>18 DEF NotifyValues, NotifyNotSent
  <2>2. NotifyFrame(c.method) \in Notification
    BY <1>17, <2>1, HostAssumption
  <2> QED
    BY <1>18, <2>1, <2>2, OneWayTyped DEF NotifyValues, NotifyNotSent, HostTypeOK
<1>19. CASE Disconnect \/ DisconnectFails
  <2>1. NotifyFrame("rpc.detach") \in Notification
    BY <1>17 DEF Method
  <2> QED
    BY <1>19, <2>1, OneWayTyped DEF Disconnect, DisconnectFails, HostTypeOK
<1>22. CASE CallNotSent
  <2>1. PICK c \in UserCalls : NotIssued(c.method, c.arg)
    BY <1>22 DEF CallNotSent
  <2>2. c.method \in Method /\ c.arg \in Arg
    BY <2>1, HostAssumption
  <2> QED
    BY <1>22, <2>1, <2>2, NotIssuedTyped DEF CallNotSent, MayCall
<1>23. CASE ProbeNotSent \/ AttachNotSent
  <2>1. issued < MaxCalls
    BY <1>23 DEF ProbeNotSent, AttachNotSent, MayProbe, MayAttach, Room
  <2> QED
    BY <1>11, <1>23, <2>1, NotIssuedTyped DEF ProbeNotSent, AttachNotSent
<1>20. CASE Connect
  <2>1. PICK n \in 0 .. Len(to_host) : to_host' = SubSeq(to_host, n + 1, Len(to_host))
    BY <1>20 DEF Connect
  <2>2. LinkTypeOK'
    BY <1>20, <2>1, SuffixProperties DEF Connect, LinkTypeOK
  <2>3. issued < MaxCalls
    BY <1>20, LinkAssumption DEF Connect, HostTypeOK
  <2> QED
    BY <1>20, <2>2, <2>3 DEF Connect, rpcVars, HostTypeOK, Room
<1>21. CASE Expire
  <2>1. expired' \in SUBSET {"wait", "connect"}
    BY <1>21 DEF Expire, HostTypeOK
  <2> QED
    BY <1>21, <2>1 DEF Expire, lineVars, linkVars, rpcVars, LinkTypeOK, HostTypeOK, Room
<1> QED
  BY <1>1, <1>2, <1>3, <1>4, <1>6, <1>7, <1>8, <1>9, <1>10, <1>12, <1>13, <1>14,
     <1>15, <1>16, <1>18, <1>19, <1>20, <1>21, <1>22, <1>23
  DEF HostNext, HostStep

\* The message a poll() takes.
LEMMA TakeTyped ==
  ASSUME Typed, NEW types, Take(types)
  PROVE  /\ LinkTypeOK'
         /\ now' = now
         /\ Head(to_device) \in ToDevice
         /\ Head(to_device).type \in types
BY HeadTailProperties DEF Take, Typed, TypeOK, LinkTypeOK

\* What a request or a notification carries.
LEMMA CallsTyped ==
  ASSUME Typed, NEW method, Calls(method)
  PROVE  /\ Head(to_device).arg \in Arg
         /\ Head(to_device).type = "request" =>
              Head(to_device).msgid \in MsgId /\ Head(to_device).call \in Call
<1>1. Head(to_device) \in Request \/ Head(to_device) \in Notification
  BY TakeTyped DEF Calls, ToDevice, Malformed, HostText
<1>2. CASE Head(to_device) \in Request
  BY <1>2 DEF Request
<1>3. CASE Head(to_device) \in Notification
  BY <1>3 DEF Notification
<1> QED
  BY <1>1, <1>2, <1>3

LEMMA NowType == now_ms \in 0 .. ClockSpan - 1 \/ now \notin Nat
BY ServerAssumption DEF now_ms

LEMMA AnswerTyped ==
  ASSUME Typed, NEW method, Calls(method), NEW error \in BOOLEAN,
         Answer(Head(to_device), error)
  PROVE  /\ last_frame' \in 0 .. ClockSpan - 1
         /\ mode' = "handler"
         /\ reply' \in Reply
         /\ executed' \in [Call -> {"no", "result", "error"}]
<1>1. last_frame' \in 0 .. ClockSpan - 1
  BY NowType DEF Answer, Typed, TypeOK, ServerTypeOK
<1>2. reply' \in Reply
  BY CallsTyped, NoReplyType DEF Answer, Reply
<1>3. executed' \in [Call -> {"no", "result", "error"}]
  BY CallsTyped DEF Answer, Kind, Typed, TypeOK, ServerTypeOK
<1> QED
  BY <1>1, <1>2, <1>3 DEF Answer

\* Whatever the method, a call is taken from the line and answered.
LEMMA ReceiveCallAnswers ==
  ASSUME ReceiveCall
  PROVE  \E method \in Method, error \in BOOLEAN :
           Calls(method) /\ Answer(Head(to_device), error)
<1>1. FALSE \in BOOLEAN /\ TRUE \in BOOLEAN
  OBVIOUS
<1> USE DEF Method
<1>2. CASE ServePing
  BY <1>1, <1>2 DEF ServePing
<1>3. CASE ServeList
  BY <1>3 DEF ServeList
<1>4. CASE ServeAttach
  BY <1>1, <1>4 DEF ServeAttach
<1>5. CASE ServeDetach
  BY <1>1, <1>5 DEF ServeDetach
<1>6. CASE ServeBound
  BY <1>6 DEF ServeBound
<1>7. CASE ServeUnknown
  BY <1>1, <1>7 DEF ServeUnknown
<1> QED
  BY <1>2, <1>3, <1>4, <1>5, <1>6, <1>7 DEF ReceiveCall

LEMMA ReceiveCallTyped ==
  ASSUME Typed, ReceiveCall
  PROVE  LinkTypeOK' /\ ServerTypeOK'
<1>1. PICK method \in Method, error \in BOOLEAN :
        Calls(method) /\ Answer(Head(to_device), error)
  BY ReceiveCallAnswers
<1>2. LinkTypeOK' /\ now' = now
  BY <1>1, TakeTyped DEF Calls
<1>3. /\ attached' \in BOOLEAN
      /\ has_timeout' \in BOOLEAN
      /\ attach_timeout' \in Nat
  <2>1. CASE UNCHANGED sessionVars \/ Detach
    BY <2>1 DEF sessionVars, Detach, Typed, TypeOK, ServerTypeOK
  <2>2. CASE ServeAttach /\ Head(to_device).arg # BadArg /\ Attach(Head(to_device).arg)
    <3>1. Head(to_device).arg \in Nat
      BY <1>1, <2>2, CallsTyped, LinkAssumption DEF Arg
    <3> QED
      BY <2>2, <3>1 DEF Attach
  <2> QED
    BY <2>1, <2>2 DEF ReceiveCall, ServePing, ServeList, ServeAttach, ServeDetach,
                      ServeBound, ServeUnknown
<1> QED
  BY <1>1, <1>2, <1>3, AnswerTyped DEF Typed, TypeOK, ServerTypeOK

LEMMA WrittenTyped ==
  ASSUME Typed, NEW m \in ToHost, to_host' = Append(to_host, m), to_device' = to_device
  PROVE  LinkTypeOK'
BY AppendProperties DEF Typed, TypeOK, LinkTypeOK

LEMMA ServerTyped ==
  ASSUME Typed, ServerNext
  PROVE  LinkTypeOK' /\ ServerTypeOK'
<1> USE DEF Typed, TypeOK
<1>1. CASE Poll
  BY <1>1 DEF Poll, linkVars, sessionVars, LinkTypeOK, ServerTypeOK
<1>2. CASE ReceiveText
  BY <1>2, TakeTyped, NoReplyType DEF ReceiveText, Take, sessionVars, ServerTypeOK
<1>3. CASE ReceiveMalformed
  <2>1. last_frame' \in 0 .. ClockSpan - 1
    BY <1>3, NowType DEF ReceiveMalformed, ServerTypeOK
  <2> QED
    BY <1>3, <2>1, TakeTyped DEF ReceiveMalformed, Take, sessionVars, ServerTypeOK
<1>4. CASE ReceiveCall
  BY <1>4, ReceiveCallTyped
<1>5. CASE HandlerReturns
  <2>1. ASSUME reply.wanted
        PROVE  LinkTypeOK'
    <3>1. [type |-> "response", msgid |-> reply.msgid, error |-> reply.error,
           call |-> reply.call] \in ToHost
      BY DEF ServerTypeOK, Reply, ToHost, Response
    <3> QED
      BY <1>5, <2>1, <3>1, WrittenTyped DEF HandlerReturns
  <2>2. LinkTypeOK'
    BY <1>5, <2>1 DEF HandlerReturns, LinkTypeOK
  <2> QED
    BY <1>5, <2>2, NoReplyType DEF HandlerReturns, sessionVars, ServerTypeOK
<1>6. CASE PollEnds
  <2>1. /\ attached' \in BOOLEAN
        /\ has_timeout' \in BOOLEAN
        /\ attach_timeout' \in Nat
    BY <1>6 DEF PollEnds, Detach, sessionVars, ServerTypeOK
  <2> QED
    BY <1>6, <2>1 DEF PollEnds, linkVars, LinkTypeOK, ServerTypeOK
<1>7. [type |-> "event"] \in ToHost /\ [type |-> "text", ready |-> FALSE] \in ToHost
      /\ [type |-> "text", ready |-> TRUE] \in ToHost
  BY DEF ToHost, DeviceEvent, DeviceText
<1>8. CASE Notify
  BY <1>7, <1>8, WrittenTyped DEF Notify, SketchRuns, sessionVars, ServerTypeOK
<1>9. CASE LogLine
  BY <1>7, <1>9, WrittenTyped DEF LogLine, SketchRuns, sessionVars, ServerTypeOK
<1>10. CASE Reboot
  <2>1. LinkTypeOK'
    BY <1>7, <1>10, WrittenTyped DEF Reboot
  <2>2. (last_frame \in 0 .. ClockSpan - 1)'
    BY <1>10, ServerAssumption DEF Reboot
  <2>3. attached' \in BOOLEAN /\ has_timeout' \in BOOLEAN
    BY <1>10 DEF Reboot
  <2> QED
    BY <1>10, <2>1, <2>2, <2>3, NoReplyType DEF Reboot, ServerTypeOK
<1>11. CASE Tick
  BY <1>11 DEF Tick, linkVars, sessionVars, LinkTypeOK, ServerTypeOK
<1> QED
  BY <1>1, <1>2, <1>3, <1>4, <1>5, <1>6, <1>8, <1>9, <1>10, <1>11 DEF ServerNext

LEMMA NextTyped ==
  ASSUME Typed, [Next]_vars
  PROVE  Typed'
<1>1. CASE HostMoves
  BY <1>1, HostTyped
  DEF HostMoves, ByHost, DisconnectFails, deviceVars, sessionVars, Typed, TypeOK, ServerTypeOK
<1>2. CASE DeviceMoves
  <2>1. severed' \in BOOLEAN
    BY <1>2 DEF DeviceMoves
  <2> QED
    BY <1>2, <2>1, ServerTyped
    DEF DeviceMoves, hostVars, rpcVars, Typed, TypeOK, HostTypeOK, Room
<1>3. CASE LineLoses
  BY <1>3, LoseTyped
  DEF LineLoses, deviceVars, sessionVars, hostVars, rpcVars, Typed, TypeOK,
      ServerTypeOK, HostTypeOK, Room
<1>4. CASE UNCHANGED vars
  BY <1>4 DEF vars, linkVars, deviceVars, sessionVars, hostVars, rpcVars, Typed, TypeOK,
              LinkTypeOK, ServerTypeOK, HostTypeOK, Room
<1> QED
  BY <1>1, <1>2, <1>3, <1>4 DEF Next

LEMMA AlwaysTyped == Spec => []Typed
BY InitTyped, NextTyped, PTL DEF Spec

\* Every variable of the host, of the device and of the line between them
\* keeps its type, however many calls are made and lost.
THEOREM TypeCorrect == Spec => []TypeOK
<1>1. Typed => TypeOK
  BY DEF Typed
<1> QED
  BY <1>1, AlwaysTyped, PTL

-----------------------------------------------------------------------------
(* The inductive invariant behind AnswersMatch: what is on its way can     *)
(* only be the answer the device gave to the call its msgid stands for.    *)

\* An RPC object numbers its requests as they are issued.
Numbered == /\ issued < MaxCalls => next_msgid = issued + 1
            /\ pending_msgid # NoId => pending_msgid = issued /\ issued \in Call /\ Waiting

\* A request is on the wire once, in the order of issue, until it is run.
IsRequest(i) == i \in DOMAIN Wire /\ Wire[i].type = "request"

RequestsFresh ==
  /\ \A c \in Call : c > issued => executed[c] = "no"
  /\ \A i : IsRequest(i) => /\ Wire[i].msgid = Wire[i].call
                            /\ Wire[i].call <= issued
                            /\ executed[Wire[i].call] = "no"
  /\ \A i, j : IsRequest(i) /\ IsRequest(j) /\ i < j => Wire[i].call < Wire[j].call

TrueAnswer(m) == m.type = "response" => /\ m.msgid = m.call
                                        /\ executed[m.call] = Kind(m.error)

AnswersTrue ==
  /\ \A i \in DOMAIN to_host : TrueAnswer(to_host[i])
  /\ \A i \in DOMAIN read_buf : TrueAnswer(read_buf[i])
  /\ reply.wanted => /\ reply.msgid = reply.call
                     /\ executed[reply.call] = Kind(reply.error)
  /\ pending_response.ready =>
       /\ pending_response.value = issued /\ issued \in Call /\ Waiting
       /\ executed[issued] = Kind(pending_response.error)

IInv == Typed /\ Numbered /\ RequestsFresh /\ AnswersTrue /\ AnswersMatch

LEMMA InitInv == Init => IInv
<1> SUFFICES ASSUME Init PROVE IInv
  OBVIOUS
<1>1. Numbered
  BY LinkAssumption DEF Init, HostInit, Numbered
<1>2. RequestsFresh
  <2>1. Wire = <<>>
    BY WireOf, EmptySeq, ConcatEmptySeq DEF Init, LinkInit, HostInit, Wire
  <2> QED
    BY <2>1 DEF Init, ServerInit, RequestsFresh, IsRequest
<1>3. AnswersTrue
  BY DEF Init, LinkInit, ServerInit, HostInit, AnswersTrue, NoReply, NoResponse
<1>4. AnswersMatch
  BY DEF Init, HostInit, AnswersMatch, Outcome
<1> QED
  BY <1>1, <1>2, <1>3, <1>4, InitTyped DEF IInv

\* One more request is numbered, and written or not.
LEMMA RequestFresh ==
  ASSUME IInv, issued < MaxCalls, NEW method \in Method, NEW arg \in Arg,
         Keeps \/ Grows(RequestFrame(method, arg)), WireTyped',
         issued' = issued + 1, next_msgid' = (next_msgid + 1) % MsgIdSpan,
         executed' = executed
  PROVE  /\ RequestsFresh'
         /\ issued' < MaxCalls => next_msgid' = issued' + 1
         /\ next_msgid = issued' /\ issued' \in Call
<1> USE DEF IInv
<1> DEFINE m == RequestFrame(method, arg)
<1>1. issued' \in Call /\ issued \in Nat /\ next_msgid = issued'
  BY RequestTyped DEF Numbered
<1>2. ASSUME issued' < MaxCalls
      PROVE  next_msgid' = issued' + 1
  <2>1. issued + 2 \in Nat /\ issued + 2 < MsgIdSpan
    BY <1>1, <1>2, LinkAssumption
  <2>2. (issued + 2) % MsgIdSpan = issued + 2
    BY <2>1, LinkAssumption
  <2>3. next_msgid + 1 = issued + 2
    BY <1>1
  <2> QED
    BY <1>1, <2>2, <2>3
<1>3. RequestsFresh'
  <2>1. m.msgid = issued' /\ m.call = issued'
    BY <1>1 DEF RequestFrame
  <2>10. Keeps \/ Grows(m)
    OBVIOUS
  <2> HIDE DEF m
  <2>11. /\ \A i \in 1 .. Len(Wire) : Wire'[i] = Wire[i]
         /\ \/ Len(Wire') = Len(Wire)
            \/ Len(Wire') = Len(Wire) + 1 /\ Wire'[Len(Wire) + 1] = m
    BY <2>10 DEF Keeps, Grows
  <2>2. /\ Len(Wire) \in Nat /\ DOMAIN Wire = 1 .. Len(Wire) /\ Wire \in Seq(ToDevice)
        /\ Len(Wire') \in Nat /\ DOMAIN Wire' = 1 .. Len(Wire')
    <3>1. \A q \in Seq(ToDevice), u \in Unfinished :
             Len(q \o u) \in Nat /\ DOMAIN (q \o u) = 1 .. Len(q \o u)
      BY WireOf, LenProperties
    <3> QED
      BY <3>1, TypedWire, WireType DEF WireTyped, Wire
  <2>3. \A i : IsRequest(i)' => IsRequest(i) \/ (i = Len(Wire) + 1 /\ Wire'[i] = m)
    <3> SUFFICES ASSUME NEW i, IsRequest(i)'
                 PROVE  IsRequest(i) \/ (i = Len(Wire) + 1 /\ Wire'[i] = m)
      OBVIOUS
    <3>1. i \in 1 .. Len(Wire') /\ Wire'[i].type = "request"
      BY <2>2 DEF IsRequest
    <3>2. CASE i \in 1 .. Len(Wire)
      BY <2>2, <2>11, <3>1, <3>2 DEF IsRequest
    <3>3. CASE i \notin 1 .. Len(Wire)
      <4>1. Len(Wire) \in Nat /\ i \in Nat /\ 1 <= i
        BY <2>2, <3>1
      <4>2. Len(Wire') = Len(Wire) + 1 /\ Wire'[Len(Wire) + 1] = m
        BY <2>11, <3>1, <3>3
      <4>3. i = Len(Wire) + 1
        BY <3>1, <3>3, <4>1, <4>2
      <4> QED
        BY <4>2, <4>3
    <3> QED
      BY <3>2, <3>3
  <2>4. \A i : IsRequest(i) => Wire'[i] = Wire[i] /\ i \in Nat /\ i < Len(Wire) + 1
    <3> SUFFICES ASSUME NEW i, IsRequest(i)
                 PROVE  Wire'[i] = Wire[i] /\ i \in Nat /\ i < Len(Wire) + 1
      OBVIOUS
    <3>1. i \in 1 .. Len(Wire) /\ Len(Wire) \in Nat
      BY <2>2 DEF IsRequest
    <3> QED
      BY <2>11, <3>1
  <2>5. \A i : IsRequest(i) => Wire[i].call \in Call
    BY <2>2 DEF IsRequest, ToDevice, Request, Notification, Malformed, HostText
  <2>6. executed[issued'] = "no"
    BY <1>1 DEF RequestsFresh
  <2>7. \A c \in Call : c > issued' => executed'[c] = "no"
    BY <1>1 DEF RequestsFresh, Call
  <2>8. \A i : IsRequest(i)' => /\ Wire'[i].msgid = Wire'[i].call
                              /\ Wire'[i].call <= issued'
                              /\ executed'[Wire'[i].call] = "no"
    <3> SUFFICES ASSUME NEW i, IsRequest(i)'
                 PROVE  /\ Wire'[i].msgid = Wire'[i].call
                        /\ Wire'[i].call <= issued'
                        /\ executed'[Wire'[i].call] = "no"
      OBVIOUS
    <3>1. issued' = issued + 1 /\ issued \in Nat /\ executed' = executed
      BY <1>1
    <3>2. CASE Wire'[i] = m
      BY <2>1, <2>6, <3>1, <3>2
    <3>3. CASE IsRequest(i)
      <4>1. Wire'[i] = Wire[i] /\ Wire[i].call \in Nat
        BY <2>4, <2>5, <3>3 DEF Call
      <4>2. /\ Wire[i].msgid = Wire[i].call
            /\ Wire[i].call <= issued
            /\ executed[Wire[i].call] = "no"
        BY <1>1, <3>3 DEF RequestsFresh
      <4> QED
        BY <3>1, <4>1, <4>2
    <3> QED
      BY <2>3, <3>2, <3>3
  <2>9. \A i, j : IsRequest(i)' /\ IsRequest(j)' /\ i < j => Wire'[i].call < Wire'[j].call
    <3> SUFFICES ASSUME NEW i, NEW j, IsRequest(i)', IsRequest(j)', i < j
                 PROVE  Wire'[i].call < Wire'[j].call
      OBVIOUS
    <3>1. IsRequest(j) \/ (j = Len(Wire) + 1 /\ Wire'[j] = m)
      BY <2>3
    <3>2. IsRequest(i)
      BY <2>2, <2>3, <2>4, <3>1
    <3>3. CASE IsRequest(j)
      BY <2>4, <3>2, <3>3 DEF RequestsFresh
    <3>4. CASE Wire'[j] = m
      BY <1>1, <2>1, <2>4, <2>5, <3>2, <3>4 DEF RequestsFresh, Call
    <3> QED
      BY <3>1, <3>3, <3>4
  <2> QED
    BY <2>7, <2>8, <2>9 DEF RequestsFresh
<1> QED
  BY <1>1, <1>2, <1>3

\* Issuing forgets the last answer.
LEMMA IssueInv ==
  ASSUME IInv, issued < MaxCalls, NEW method \in Method, NEW arg \in Arg,
         Issue(method, arg), Waiting', executed' = executed, reply' = reply
  PROVE  Numbered' /\ RequestsFresh' /\ AnswersTrue' /\ AnswersMatch'
<1> USE DEF IInv
<1>1. /\ issued' = issued + 1 /\ issued' \in Call
      /\ next_msgid' = (next_msgid + 1) % MsgIdSpan /\ pending_msgid' = next_msgid
      /\ Grows(RequestFrame(method, arg)) /\ WireTyped'
  BY IssueTyped DEF Issue, WireTyped, LinkTypeOK
<1>2. RequestsFresh' /\ Numbered'
  BY <1>1, RequestFresh DEF Numbered
<1>3. AnswersTrue'
  BY DEF Issue, WriteFrame, AnswersTrue, TrueAnswer, NoResponse
<1>4. AnswersMatch'
  BY DEF Issue, AnswersMatch, Outcome, Typed, TypeOK, HostTypeOK, Outcomes
<1> QED
  BY <1>2, <1>3, <1>4

\* A request that could not be written is numbered and waited for by nobody.
LEMMA NotIssuedInv ==
  ASSUME IInv, issued < MaxCalls, NEW method \in Method, NEW arg \in Arg,
         NotIssued(method, arg), ~Waiting, executed' = executed, reply' = reply
  PROVE  Numbered' /\ RequestsFresh' /\ AnswersTrue' /\ AnswersMatch'
<1> USE DEF IInv
<1>1. /\ issued' = issued + 1
      /\ next_msgid' = (next_msgid + 1) % MsgIdSpan
      /\ Keeps \/ Grows(RequestFrame(method, arg))
      /\ WireTyped'
  BY NotIssuedTyped DEF NotIssued, WireTyped, LinkTypeOK, HostTypeOK
<1>2. RequestsFresh' /\ (issued' < MaxCalls => next_msgid' = issued' + 1)
  BY <1>1, RequestFresh
<1>3. Numbered'
  BY <1>2 DEF NotIssued, Numbered
<1>4. AnswersTrue'
  BY DEF NotIssued, WriteFrameShort, AnswersTrue, TrueAnswer
<1>5. AnswersMatch'
  BY DEF NotIssued, AnswersMatch, Outcome, Typed, TypeOK, HostTypeOK, Outcomes
<1> QED
  BY <1>2, <1>3, <1>4, <1>5

LEMMA CloseInv ==
  ASSUME IInv, NEW state, NEW value, Close(state, value),
         executed' = executed, reply' = reply,
         state \in {"result", "error"} => /\ value = issued
                                         /\ executed[issued] = state
  PROVE  Numbered' /\ RequestsFresh' /\ AnswersTrue' /\ AnswersMatch'
<1> USE DEF IInv, Close, lineVars, linkVars
<1>1. Numbered'
  BY HostAssumption DEF Numbered
<1>2. RequestsFresh'
  BY DEF RequestsFresh, IsRequest, Wire
<1>3. AnswersTrue'
  BY DEF AnswersTrue, TrueAnswer, NoResponse
<1>4. AnswersMatch'
  BY DEF AnswersMatch, Outcome, Typed, TypeOK, HostTypeOK, Outcomes
<1> QED
  BY <1>1, <1>2, <1>3, <1>4

\* A wait that ends with an answer ends with the answer to its own call.
LEMMA TakeAnswerInv ==
  ASSUME IInv, Answered, TakeAnswer, executed' = executed, reply' = reply
  PROVE  Numbered' /\ RequestsFresh' /\ AnswersTrue' /\ AnswersMatch'
<1>1. pending_response.value = issued /\ executed[issued] = Kind(pending_response.error)
  BY DEF IInv, AnswersTrue, Answered
<1>2. Close(Kind(pending_response.error), issued)
  BY <1>1 DEF TakeAnswer, Kind
<1> QED
  BY <1>1, <1>2, CloseInv

\* Nothing but requests matters to RequestsFresh.
LEMMA OneWayInv ==
  ASSUME IInv, OneWay, executed' = executed, reply' = reply,
         \/ \E m \in Notification : WriteFrame(m) \/ WriteFrameShort(m)
         \/ WriteText \/ WriteTextShort
  PROVE  Numbered' /\ RequestsFresh' /\ AnswersTrue' /\ AnswersMatch'
<1> USE DEF IInv
<1>1. /\ UNCHANGED <<issued, next_msgid, pending_msgid, pending_response, activity, read_buf,
                     outcome, to_host>>
      /\ Wire \in Seq(ToDevice) /\ Len(Wire) \in Nat /\ WireTyped
  BY TypedWire, WireType
  DEF OneWay, WriteFrame, WriteFrameShort, WriteText, WriteTextShort, linkVars
<1>2. \A i : IsRequest(i)' => IsRequest(i) /\ Wire'[i] = Wire[i]
  <2>1. ASSUME NEW m \in Notification, Wire' \in Seq(ToDevice), Keeps \/ Grows(m)
        PROVE  \A i : IsRequest(i)' => IsRequest(i) /\ Wire'[i] = Wire[i]
    <3>1. m.type # "request"
      BY DEF Notification
    <3> QED
      BY <1>1, <2>1, <3>1 DEF IsRequest, Keeps, Grows
  <2>2. CASE \E m \in Notification : WriteFrame(m) \/ WriteFrameShort(m)
    BY <1>1, <2>1, <2>2, FrameWritten, FrameShort DEF ToDevice
  <2>3. CASE WriteText \/ WriteTextShort
    BY <1>1, <2>3, TextWritten DEF IsRequest
  <2> QED
    BY <2>2, <2>3
<1>3. RequestsFresh'
  <2>1. \A c \in Call : c > issued' => executed'[c] = "no"
    BY <1>1 DEF RequestsFresh
  <2>2. \A i : IsRequest(i)' => /\ Wire'[i].msgid = Wire'[i].call
                              /\ Wire'[i].call <= issued'
                              /\ executed'[Wire'[i].call] = "no"
    BY <1>1, <1>2 DEF RequestsFresh
  <2>3. \A i, j : IsRequest(i)' /\ IsRequest(j)' /\ i < j => Wire'[i].call < Wire'[j].call
    BY <1>2 DEF RequestsFresh
  <2> QED
    BY <2>1, <2>2, <2>3 DEF RequestsFresh
<1>4. Numbered' /\ AnswersMatch'
  BY <1>1 DEF Numbered, AnswersMatch, Waiting
<1>5. AnswersTrue'
  BY <1>1 DEF AnswersTrue, TrueAnswer, Waiting
<1> QED
  BY <1>3, <1>4, <1>5

\* What is read or kept of a queue holds nothing it did not hold before.
LEMMA SuffixAnswers ==
  ASSUME NEW s \in Seq(ToHost), NEW n \in 0 .. Len(s),
         \A i \in DOMAIN s : TrueAnswer(s[i])
  PROVE  \A i \in DOMAIN SubSeq(s, n + 1, Len(s)) :
           TrueAnswer(SubSeq(s, n + 1, Len(s))[i])
<1> DEFINE t == SubSeq(s, n + 1, Len(s))
<1>1. t \in Seq(ToHost) /\ Len(t) = Len(s) - n
      /\ \A j \in 1 .. Len(s) - n : t[j] = s[n + j]
  BY SuffixProperties
<1>2. \A i \in DOMAIN t : n + i \in DOMAIN s /\ t[i] = s[n + i]
  BY <1>1
<1> QED
  BY <1>2

LEMMA PrefixAnswers ==
  ASSUME NEW s \in Seq(ToHost), NEW n \in 0 .. Len(s),
         \A i \in DOMAIN s : TrueAnswer(s[i])
  PROVE  \A i \in DOMAIN SubSeq(s, 1, n) : TrueAnswer(SubSeq(s, 1, n)[i])
<1> DEFINE t == SubSeq(s, 1, n)
<1>1. t \in Seq(ToHost) /\ Len(t) = n /\ \A j \in 1 .. n : t[j] = s[j]
  BY PrefixProperties
<1>2. \A i \in DOMAIN t : i \in DOMAIN s /\ t[i] = s[i]
  BY <1>1
<1> QED
  BY <1>2

LEMMA HostInv ==
  ASSUME IInv, HostNext, ByHost
  PROVE  Numbered' /\ RequestsFresh' /\ AnswersTrue' /\ AnswersMatch'
<1> USE DEF IInv
<1>1. executed' = executed /\ reply' = reply
  BY DEF ByHost, deviceVars
<1>2. to_host \in Seq(ToHost) /\ read_buf \in Seq(ToHost)
  BY DEF Typed, TypeOK, LinkTypeOK, HostTypeOK
\* Steps that issue nothing, write nothing and end no wait.
<1>3. ASSUME UNCHANGED <<to_device, unfinished, issued, next_msgid, pending_msgid, outcome>>,
             Waiting => Waiting'
      PROVE  Numbered' /\ RequestsFresh' /\ AnswersMatch'
  BY <1>1, <1>3 DEF Numbered, RequestsFresh, IsRequest, Wire, AnswersMatch
<1>4. CASE Read
  <2>1. PICK n \in 1 .. ReadMax : /\ n <= Len(to_host)
                                 /\ read_buf' = SubSeq(to_host, 1, n)
                                 /\ to_host' = SubSeq(to_host, n + 1, Len(to_host))
    BY <1>4 DEF Read
  <2>2. n \in 0 .. Len(to_host)
    BY <1>2, <2>1, HostAssumption
  <2>3. /\ executed' = executed /\ issued' = issued /\ pending_response' = pending_response
        /\ (Waiting' <=> Waiting)
    BY <1>1, <1>4 DEF Read, rpcVars, Waiting
  <2>4. /\ \A i \in DOMAIN to_host' : TrueAnswer(to_host'[i])
        /\ \A i \in DOMAIN read_buf' : TrueAnswer(read_buf'[i])
    BY <1>2, <2>1, <2>2, PrefixAnswers, SuffixAnswers DEF AnswersTrue
  <2>5. AnswersTrue'
    BY <1>1, <2>3, <2>4 DEF AnswersTrue, TrueAnswer
  <2> QED
    BY <1>3, <1>4, <2>3, <2>5 DEF Read, rpcVars
<1>5. CASE HandleResponse \/ HandleEvent \/ HandleText
  <2>1. /\ read_buf # <<>>
        /\ read_buf' = Tail(read_buf)
        /\ UNCHANGED <<to_device, unfinished, to_host, issued, next_msgid, pending_msgid,
                       outcome>>
        /\ (Waiting' <=> Waiting)
    BY <1>5 DEF HandleResponse, HandleEvent, HandleText, Handle, lineVars, linkVars, Waiting
  <2>2. TrueAnswer(Head(read_buf)) /\ Head(read_buf) \in ToHost
    BY <1>2, <2>1 DEF AnswersTrue
  <2>3. \A i \in DOMAIN read_buf' : TrueAnswer(read_buf'[i])
    BY <1>2, <2>1, HeadTailProperties DEF AnswersTrue
  <2>4. pending_response'.ready =>
          /\ pending_response'.value = issued /\ issued \in Call /\ Waiting
          /\ executed[issued] = Kind(pending_response'.error)
    <3>1. CASE pending_response' = pending_response
      BY <3>1 DEF AnswersTrue
    <3>2. CASE /\ HandleResponse /\ Matches(Head(read_buf))
               /\ pending_response' = [ready |-> TRUE, error |-> Head(read_buf).error,
                                       value |-> Head(read_buf).call]
      <4>1. Head(read_buf).type = "response"
        BY <3>2 DEF HandleResponse, Handle
      <4>2. Head(read_buf).msgid = issued /\ issued \in Call /\ Waiting
        BY <3>2 DEF Matches, Numbered
      <4> QED
        BY <2>2, <3>2, <4>1, <4>2 DEF TrueAnswer
    <3> QED
      BY <1>5, <3>1, <3>2 DEF HandleResponse, HandleEvent, HandleText
  <2>5. AnswersTrue'
    BY <1>1, <2>1, <2>3, <2>4 DEF AnswersTrue, TrueAnswer
  <2> QED
    BY <1>3, <2>1, <2>5
<1>6. CASE CallReturns \/ ProbeReturns \/ AttachReturns
  BY <1>1, <1>6, TakeAnswerInv DEF CallReturns, ProbeReturns, AttachReturns
<1>7. CASE TimesOut \/ PortFails
  BY <1>1, <1>7, CloseInv DEF TimesOut, PortFails
<1>8. "rpc.ping" \in Method /\ "rpc.attach" \in Method /\ "rpc.detach" \in Method /\ 0 \in Arg
  BY LinkAssumption DEF Method, Arg
<1>9. CASE SendProbe \/ SendAttach
  <2>1. issued < MaxCalls /\ Waiting'
    BY <1>9 DEF SendProbe, SendAttach, MayProbe, MayAttach, Typed, Room, Waiting
  <2> QED
    BY <1>1, <1>8, <1>9, <2>1, IssueInv DEF SendProbe, SendAttach
<1>10. CASE StartCall
  <2>1. PICK c \in UserCalls : Issue(c.method, c.arg)
    BY <1>10 DEF StartCall
  <2>2. c.method \in Method /\ c.arg \in Arg /\ Waiting'
    BY <1>10, <2>1, HostAssumption DEF StartCall, Waiting
  <2> QED
    BY <1>1, <1>10, <2>1, <2>2, IssueInv DEF StartCall, MayCall
<1>11. CASE ProbeNotSent \/ AttachNotSent
  <2>1. issued < MaxCalls /\ ~Waiting
    BY <1>11 DEF ProbeNotSent, AttachNotSent, MayProbe, MayAttach, Typed, Room, Waiting
  <2> QED
    BY <1>1, <1>8, <1>11, <2>1, NotIssuedInv DEF ProbeNotSent, AttachNotSent
<1>12. CASE CallNotSent
  <2>1. PICK c \in UserCalls : NotIssued(c.method, c.arg)
    BY <1>12 DEF CallNotSent
  <2>2. c.method \in Method /\ c.arg \in Arg /\ ~Waiting
    BY <1>12, <2>1, HostAssumption DEF CallNotSent, MayCall, Free, Waiting
  <2> QED
    BY <1>1, <1>12, <2>1, <2>2, NotIssuedInv DEF CallNotSent, MayCall
<1>13. CASE \/ SendText \/ TextNotSent \/ NotifyValues \/ NotifyNotSent
            \/ Disconnect \/ DisconnectFails
  <2>1. \A method \in Method : NotifyFrame(method) \in Notification
    BY <1>8 DEF NotifyFrame, Notification
  <2>2. \A c \in UserCalls : c.method \in Method
    BY HostAssumption
  <2>3. /\ OneWay
        /\ \/ \E m \in Notification : WriteFrame(m) \/ WriteFrameShort(m)
           \/ WriteText \/ WriteTextShort
    BY <1>8, <1>13, <2>1, <2>2
    DEF SendText, TextNotSent, NotifyValues, NotifyNotSent, Disconnect, DisconnectFails
  <2> QED
    BY <1>1, <2>3, OneWayInv
<1>14. CASE Connect
  <2>1. PICK n \in 0 .. Len(to_host) : to_host' = SubSeq(to_host, n + 1, Len(to_host))
    BY <1>14 DEF Connect
  <2>2. \A i \in DOMAIN to_host' : TrueAnswer(to_host'[i])
    BY <1>2, <2>1, SuffixAnswers DEF AnswersTrue
  <2>3. ~Waiting
    BY <1>14 DEF Connect, Free, Waiting
  <2>4. AnswersTrue'
    BY <1>1, <1>14, <2>2, <2>3 DEF Connect, rpcVars, AnswersTrue, TrueAnswer
  <2> QED
    BY <1>3, <1>14, <2>3, <2>4 DEF Connect, rpcVars
<1>15. CASE ConnectTimesOut \/ Expire
  <2>1. Waiting => Waiting'
    BY <1>15 DEF ConnectTimesOut, Expire, Waiting
  <2>2. AnswersTrue'
    BY <1>1, <1>15, <2>1
    DEF ConnectTimesOut, Expire, lineVars, linkVars, rpcVars, AnswersTrue, TrueAnswer
  <2> QED
    BY <1>3, <1>15, <2>1, <2>2 DEF ConnectTimesOut, Expire, lineVars, linkVars, rpcVars
<1> QED
  BY <1>4, <1>5, <1>6, <1>7, <1>9, <1>10, <1>11, <1>12, <1>13, <1>14, <1>15
  DEF HostNext, HostStep

\* Once given, an answer is not given again: what was true of it remains so.
LEMMA AnswersStay ==
  ASSUME IInv, UNCHANGED hostVars,
         \A c \in Call : executed[c] # "no" => executed'[c] = executed[c]
  PROVE  /\ Numbered'
         /\ AnswersMatch'
         /\ \A i \in DOMAIN to_host : to_host[i].type = "response" =>
              /\ to_host[i].msgid = to_host[i].call
              /\ executed'[to_host[i].call] = Kind(to_host[i].error)
         /\ (\A i \in DOMAIN read_buf : TrueAnswer(read_buf[i]))'
         /\ (pending_response.ready => /\ pending_response.value = issued /\ issued \in Call
                                       /\ Waiting
                                       /\ executed[issued] = Kind(pending_response.error))'
<1> USE DEF IInv
<1>1. \A e : Kind(e) # "no"
  BY DEF Kind
<1>2. /\ UNCHANGED <<issued, next_msgid, pending_msgid, pending_response, read_buf, outcome>>
      /\ (Waiting' <=> Waiting)
  BY DEF hostVars, rpcVars, Waiting
<1>3. \A m \in ToHost : m.type = "response" => m.call \in Call
  BY DEF ToHost, Response, DeviceEvent, DeviceText
<1>4. /\ \A i \in DOMAIN to_host : to_host[i] \in ToHost
      /\ \A i \in DOMAIN read_buf : read_buf[i] \in ToHost
  BY DEF Typed, TypeOK, LinkTypeOK, HostTypeOK
<1>5. Numbered'
  BY <1>2 DEF Numbered
<1>6. AnswersMatch'
  BY <1>2 DEF AnswersMatch
<1>7. \A m \in ToHost : TrueAnswer(m) /\ m.type = "response" =>
        m.msgid = m.call /\ executed'[m.call] = Kind(m.error)
  BY <1>1, <1>3 DEF TrueAnswer
<1>8. \A i \in DOMAIN to_host : to_host[i].type = "response" =>
        /\ to_host[i].msgid = to_host[i].call
        /\ executed'[to_host[i].call] = Kind(to_host[i].error)
  BY <1>4, <1>7 DEF AnswersTrue
<1>9. (\A i \in DOMAIN read_buf : TrueAnswer(read_buf[i]))'
  BY <1>2, <1>4, <1>7 DEF AnswersTrue, TrueAnswer
<1>10. (pending_response.ready => /\ pending_response.value = issued /\ issued \in Call
                                 /\ Waiting
                                 /\ executed[issued] = Kind(pending_response.error))'
  BY <1>1, <1>2 DEF AnswersTrue
<1> QED
  BY <1>5, <1>6, <1>8, <1>9, <1>10

\* A poll() that takes a message leaves later requests, none of them run yet.
LEMMA TakeInv ==
  ASSUME IInv, NEW types, Take(types), UNCHANGED hostVars,
         \/ executed' = executed
         \/ /\ Head(to_device).type = "request"
            /\ \A c \in Call : c # Head(to_device).call => executed'[c] = executed[c]
  PROVE  RequestsFresh'
<1> USE DEF IInv
<1>1. /\ WireTyped /\ to_device # <<>> /\ to_device' = Tail(to_device)
      /\ unfinished' = unfinished /\ issued' = issued
  BY TypedWire DEF Take, hostVars
<1>2. /\ Wire' \in Seq(ToDevice) /\ Len(Wire') = Len(Wire) - 1
      /\ \A i \in 1 .. Len(Wire') : Wire'[i] = Wire[i + 1]
      /\ 1 \in DOMAIN Wire /\ Head(to_device) = Wire[1]
      /\ Wire \in Seq(ToDevice) /\ Len(Wire) \in Nat
  BY <1>1, WirePopped, WireType
<1>3. /\ \A i : IsRequest(i) => Wire[i].call \in Call
      /\ \A i : IsRequest(i)' => i \in Nat /\ i > 0 /\ IsRequest(i + 1) /\ Wire'[i] = Wire[i + 1]
  BY <1>2 DEF IsRequest, ToDevice, Request, Notification, Malformed, HostText
<1>4. Head(to_device) = Wire[1] /\ 1 \in DOMAIN Wire
  BY <1>2
<1>5. Head(to_device).type = "request" => IsRequest(1) /\ Head(to_device).call <= issued
  BY <1>4 DEF IsRequest, RequestsFresh
<1>6. \A i : IsRequest(i)' => executed'[Wire'[i].call] = "no"
  <2> SUFFICES ASSUME NEW i, IsRequest(i)'
               PROVE  executed'[Wire'[i].call] = "no"
    OBVIOUS
  <2>1. i \in Nat /\ i > 0 /\ IsRequest(i + 1) /\ Wire'[i] = Wire[i + 1]
    BY <1>3
  <2>2. executed[Wire[i + 1].call] = "no" /\ Wire[i + 1].call \in Call
    BY <1>3, <2>1 DEF RequestsFresh
  <2>3. ASSUME Head(to_device).type = "request"
        PROVE  Wire[i + 1].call # Head(to_device).call
    <3>1. 1 < i + 1
      BY <2>1
    <3>2. Wire[1].call < Wire[i + 1].call
      BY <1>5, <2>1, <2>3, <3>1 DEF RequestsFresh
    <3>3. Wire[1].call \in Nat /\ Wire[i + 1].call \in Nat
      BY <1>3, <1>5, <2>2, <2>3 DEF Call
    <3> QED
      BY <1>4, <3>2, <3>3
  <2> QED
    BY <2>1, <2>2, <2>3
<1>7. \A c \in Call : c > issued' => executed'[c] = "no"
  <2>1. \A c \in Call : Head(to_device).type = "request" /\ c > issued =>
          c # Head(to_device).call
    <3>1. issued \in Nat
      BY DEF Typed, TypeOK, HostTypeOK
    <3> QED
      BY <1>3, <1>4, <1>5, <3>1 DEF Call
  <2> QED
    BY <1>1, <2>1 DEF RequestsFresh
<1>8. \A i : IsRequest(i)' => /\ Wire'[i].msgid = Wire'[i].call
                            /\ Wire'[i].call <= issued'
  <2> SUFFICES ASSUME NEW i, IsRequest(i)'
               PROVE  /\ Wire'[i].msgid = Wire'[i].call
                      /\ Wire'[i].call <= issued'
    OBVIOUS
  <2> QED
    BY <1>1, <1>3 DEF RequestsFresh
<1>9. \A i, j : IsRequest(i)' /\ IsRequest(j)' /\ i < j
                => Wire'[i].call < Wire'[j].call
  <2> SUFFICES ASSUME NEW i, NEW j, IsRequest(i)', IsRequest(j)', i < j
               PROVE  Wire'[i].call < Wire'[j].call
    OBVIOUS
  <2>1. i + 1 < j + 1
    BY <1>3
  <2> QED
    BY <1>3, <2>1 DEF RequestsFresh
<1> QED
  BY <1>6, <1>7, <1>8, <1>9 DEF RequestsFresh

LEMMA ReceiveCallInv ==
  ASSUME IInv, ReceiveCall, UNCHANGED hostVars
  PROVE  Numbered' /\ RequestsFresh' /\ AnswersTrue' /\ AnswersMatch'
<1> USE DEF IInv
<1>1. PICK method \in Method, error \in BOOLEAN :
        Calls(method) /\ Answer(Head(to_device), error)
  BY ReceiveCallAnswers
<1> DEFINE m == Head(to_device)
<1>2. /\ Take({"request", "notification"})
      /\ to_host' = to_host
      /\ issued' = issued
  BY <1>1 DEF Calls, Take, hostVars
<1>3. m.type = "request" => m.call \in Call /\ m.msgid = m.call /\ executed[m.call] = "no"
  <2>1. to_device # <<>> /\ to_device' = Tail(to_device) /\ unfinished' = unfinished
    BY <1>2 DEF Take, hostVars
  <2>2. m = Wire[1] /\ 1 \in DOMAIN Wire
    BY <2>1, TypedWire, WirePopped
  <2>3. ASSUME m.type = "request"
        PROVE  IsRequest(1) /\ m.call \in Call
    BY <1>1, <2>2, <2>3, CallsTyped DEF IsRequest
  <2> QED
    BY <2>2, <2>3 DEF RequestsFresh
<1>4. /\ m.type # "request" => executed' = executed
      /\ m.type = "request" =>
           /\ executed' = [executed EXCEPT ![m.call] = Kind(error)]
           /\ reply'.msgid = m.msgid /\ reply'.call = m.call /\ reply'.error = error
      /\ reply'.wanted = (m.type = "request")
  BY <1>1 DEF Answer, NoReply
<1>5. executed \in [Call -> {"no", "result", "error"}]
  BY DEF Typed, TypeOK, ServerTypeOK
<1>6. RequestsFresh'
  <2>1. CASE m.type # "request"
    BY <1>2, <1>4, <2>1, TakeInv
  <2>2. CASE m.type = "request"
    <3>1. \A c \in Call : c # m.call => executed'[c] = executed[c]
      BY <1>4, <1>5, <2>2
    <3> QED
      BY <1>2, <2>2, <3>1, TakeInv
  <2> QED
    BY <2>1, <2>2
<1>7. \A c \in Call : executed[c] # "no" => executed'[c] = executed[c]
  BY <1>3, <1>4, <1>5
<1>8. reply'.wanted => /\ reply'.msgid = reply'.call
                       /\ executed'[reply'.call] = Kind(reply'.error)
  BY <1>3, <1>4, <1>5, ZenonT(40)
<1>9. AnswersTrue'
  BY <1>2, <1>7, <1>8, AnswersStay DEF AnswersTrue, TrueAnswer
<1> QED
  BY <1>6, <1>7, <1>9, AnswersStay

\* The device writes true answers and messages that are no answer.
LEMMA WrittenInv ==
  ASSUME IInv, UNCHANGED hostVars, executed' = executed, to_device' = to_device,
         NEW m \in ToHost, TrueAnswer(m), to_host' = Append(to_host, m),
         reply' = reply \/ reply' = NoReply
  PROVE  Numbered' /\ RequestsFresh' /\ AnswersTrue' /\ AnswersMatch'
<1> USE DEF IInv
<1>1. /\ Len(to_host') = Len(to_host) + 1
      /\ \A i \in 1 .. Len(to_host) : to_host'[i] = to_host[i]
      /\ to_host'[Len(to_host) + 1] = m
      /\ to_host \in Seq(ToHost) /\ to_host' \in Seq(ToHost)
  BY AppendProperties DEF Typed, TypeOK, LinkTypeOK
<1>2. \A i \in DOMAIN to_host' : TrueAnswer(to_host'[i])
  BY <1>1 DEF AnswersTrue
<1>3. /\ Numbered' /\ AnswersMatch'
      /\ (\A i \in DOMAIN read_buf : TrueAnswer(read_buf[i]))'
      /\ (pending_response.ready => /\ pending_response.value = issued /\ issued \in Call
                                    /\ Waiting
                                    /\ executed[issued] = Kind(pending_response.error))'
  BY AnswersStay
<1>4. reply'.wanted => /\ reply'.msgid = reply'.call
                       /\ executed'[reply'.call] = Kind(reply'.error)
  BY DEF AnswersTrue, NoReply
<1>5. AnswersTrue'
  BY <1>2, <1>3, <1>4 DEF AnswersTrue, TrueAnswer
<1>6. RequestsFresh'
  BY DEF RequestsFresh, IsRequest, Wire, hostVars
<1> QED
  BY <1>3, <1>5, <1>6

LEMMA ServerInv ==
  ASSUME IInv, ServerNext, UNCHANGED hostVars
  PROVE  Numbered' /\ RequestsFresh' /\ AnswersTrue' /\ AnswersMatch'
<1> USE DEF IInv
<1>1. CASE ReceiveCall
  BY <1>1, ReceiveCallInv
\* Steps that neither run a call nor write to the host.
<1>2. ASSUME executed' = executed, to_host' = to_host, reply' = reply \/ reply' = NoReply
      PROVE  Numbered' /\ AnswersTrue' /\ AnswersMatch'
  <2>1. reply'.wanted => /\ reply'.msgid = reply'.call
                         /\ executed'[reply'.call] = Kind(reply'.error)
    BY <1>2 DEF AnswersTrue, NoReply
  <2> QED
    BY <1>2, <2>1, AnswersStay DEF AnswersTrue, TrueAnswer
<1>3. issued' = issued /\ unfinished' = unfinished
  BY DEF hostVars
<1>4. CASE ReceiveText \/ ReceiveMalformed
  <2>1. PICK types \in {{"text"}, {"malformed"}} : Take(types)
    BY <1>4 DEF ReceiveText, ReceiveMalformed
  <2>2. executed' = executed /\ to_host' = to_host /\ (reply' = reply \/ reply' = NoReply)
    BY <1>4, <2>1 DEF ReceiveText, ReceiveMalformed, Take
  <2> QED
    BY <1>2, <1>3, <2>1, <2>2, TakeInv
<1>5. CASE Poll \/ PollEnds \/ Tick
  <2>1. executed' = executed /\ UNCHANGED linkVars /\ reply' = reply
    BY <1>5 DEF Poll, PollEnds, Tick
  <2>2. RequestsFresh'
    BY <1>3, <2>1 DEF RequestsFresh, IsRequest, Wire, linkVars
  <2> QED
    BY <1>2, <2>1, <2>2 DEF linkVars
<1>6. CASE HandlerReturns
  <2> DEFINE m == [type |-> "response", msgid |-> reply.msgid, error |-> reply.error,
                   call |-> reply.call]
  <2>1. executed' = executed /\ to_device' = to_device /\ reply' = NoReply
    BY <1>6 DEF HandlerReturns
  <2>2. CASE reply.wanted
    <3>1. m \in ToHost
      BY DEF Typed, TypeOK, ServerTypeOK, Reply, ToHost, Response
    <3>2. TrueAnswer(m)
      BY <2>2 DEF AnswersTrue, TrueAnswer
    <3>3. to_host' = Append(to_host, m)
      BY <1>6, <2>2 DEF HandlerReturns
    <3> QED
      BY <2>1, <3>1, <3>2, <3>3, WrittenInv
  <2>3. CASE ~reply.wanted
    <3>1. to_host' = to_host
      BY <1>6, <2>3 DEF HandlerReturns
    <3>2. RequestsFresh'
      BY <1>3, <2>1 DEF RequestsFresh, IsRequest, Wire
    <3> QED
      BY <1>2, <2>1, <3>1, <3>2
  <2> QED
    BY <2>2, <2>3
<1>7. CASE Notify \/ LogLine \/ Reboot
  <2>1. PICK m \in DeviceEvent \cup DeviceText : to_host' = Append(to_host, m)
    BY <1>7 DEF Notify, LogLine, Reboot, DeviceEvent, DeviceText
  <2>2. m \in ToHost /\ TrueAnswer(m)
    BY DEF ToHost, DeviceEvent, DeviceText, TrueAnswer
  <2>3. executed' = executed /\ to_device' = to_device /\ (reply' = reply \/ reply' = NoReply)
    BY <1>7 DEF Notify, LogLine, Reboot, SketchRuns
  <2> QED
    BY <2>1, <2>2, <2>3, WrittenInv
<1> QED
  BY <1>1, <1>4, <1>5, <1>6, <1>7 DEF ServerNext

\* Losing a message neither reorders nor repeats the others.
LEMMA LoseInv ==
  ASSUME IInv, LineLoses
  PROVE  Numbered' /\ RequestsFresh' /\ AnswersTrue' /\ AnswersMatch'
<1> USE DEF IInv
<1>1. /\ to_device \in Seq(ToDevice) /\ to_host \in Seq(ToHost)
      /\ UNCHANGED hostVars /\ executed' = executed /\ reply' = reply
      /\ issued' = issued /\ unfinished' = unfinished /\ WireTyped
  BY TypedWire DEF LineLoses, deviceVars, hostVars, Typed, TypeOK, LinkTypeOK
<1>2. Numbered' /\ AnswersMatch'
  BY <1>1, AnswersStay
<1>3. AnswersTrue'
  <2>1. \A i \in DOMAIN to_host' : TrueAnswer(to_host'[i])
    <3>1. CASE to_host' = to_host
      BY <3>1 DEF AnswersTrue
    <3>2. ASSUME NEW k \in DOMAIN to_host, to_host' = Without(to_host, k)
          PROVE  \A i \in DOMAIN to_host' : TrueAnswer(to_host'[i])
      <4>1. /\ to_host' \in Seq(ToHost) /\ Len(to_host') = Len(to_host) - 1
            /\ \A i \in 1 .. Len(to_host) - 1 :
                 to_host'[i] = IF i < k THEN to_host[i] ELSE to_host[i + 1]
        BY <1>1, <3>2, WithoutProperties
      <4>2. \A i \in DOMAIN to_host' : i \in DOMAIN to_host /\ i + 1 \in DOMAIN to_host
                                      /\ i \in 1 .. Len(to_host) - 1
        BY <1>1, <4>1
      <4> QED
        BY <4>1, <4>2 DEF AnswersTrue
    <3> QED
      BY <3>1, <3>2 DEF LineLoses, Lose
  <2> QED
    BY <1>1, <2>1, AnswersStay DEF AnswersTrue, TrueAnswer
<1>4. RequestsFresh'
  <2>1. CASE to_device' = to_device
    BY <1>1, <2>1 DEF RequestsFresh, IsRequest, Wire
  <2>2. ASSUME NEW k \in DOMAIN to_device, to_device' = Without(to_device, k)
        PROVE  RequestsFresh'
    <3> DEFINE from(i) == IF i < k THEN i ELSE i + 1
    <3>1. \A i : IsRequest(i)' => /\ i \in Nat
                                /\ IsRequest(from(i))
                                /\ Wire'[i] = Wire[from(i)]
      <4>1. /\ Wire' \in Seq(ToDevice) /\ Len(Wire') = Len(Wire) - 1
            /\ \A i \in 1 .. Len(Wire) - 1 : Wire'[i] = Wire[from(i)]
            /\ Wire \in Seq(ToDevice) /\ Len(Wire) \in Nat /\ k \in 1 .. Len(Wire)
        BY <1>1, <2>2, WireLost, WireType
      <4> SUFFICES ASSUME NEW i, IsRequest(i)'
                   PROVE  /\ i \in Nat
                          /\ IsRequest(from(i))
                          /\ Wire'[i] = Wire[from(i)]
        OBVIOUS
      <4>2. i \in 1 .. Len(Wire) - 1 /\ Wire'[i].type = "request"
        BY <4>1 DEF IsRequest
      <4>3. from(i) \in 1 .. Len(Wire)
        BY <4>1, <4>2
      <4>4. Wire'[i] = Wire[from(i)]
        BY <4>1, <4>2
      <4> HIDE DEF from
      <4> QED
        BY <4>1, <4>2, <4>3, <4>4 DEF IsRequest
    <3>2. \A c \in Call : c > issued' => executed'[c] = "no"
      BY <1>1 DEF RequestsFresh
    <3>3. \A i : IsRequest(i)' => /\ Wire'[i].msgid = Wire'[i].call
                                /\ Wire'[i].call <= issued'
                                /\ executed'[Wire'[i].call] = "no"
      <4> HIDE DEF from
      <4> SUFFICES ASSUME NEW i, IsRequest(i)'
                   PROVE  /\ Wire'[i].msgid = Wire'[i].call
                          /\ Wire'[i].call <= issued'
                          /\ executed'[Wire'[i].call] = "no"
        OBVIOUS
      <4>1. IsRequest(from(i)) /\ Wire'[i] = Wire[from(i)]
        BY <3>1
      <4> QED
        BY <1>1, <4>1 DEF RequestsFresh
    <3>4. \A i, j : IsRequest(i)' /\ IsRequest(j)' /\ i < j
                    => Wire'[i].call < Wire'[j].call
      <4> SUFFICES ASSUME NEW i, NEW j, IsRequest(i)', IsRequest(j)', i < j
                   PROVE  Wire'[i].call < Wire'[j].call
        OBVIOUS
      <4>1. from(i) < from(j)
        BY <1>1, <2>2, <3>1
      <4> HIDE DEF from
      <4> QED
        BY <3>1, <4>1 DEF RequestsFresh
    <3> QED
      BY <3>2, <3>3, <3>4 DEF RequestsFresh
  <2> QED
    BY <2>1, <2>2 DEF LineLoses, Lose
<1> QED
  BY <1>2, <1>3, <1>4

LEMMA NextInv ==
  ASSUME IInv, [Next]_vars
  PROVE  IInv'
<1>1. Typed'
  BY NextTyped DEF IInv
<1>2. CASE HostMoves
  BY <1>1, <1>2, HostInv DEF HostMoves, IInv
<1>3. CASE DeviceMoves
  BY <1>1, <1>3, ServerInv DEF DeviceMoves, IInv
<1>4. CASE LineLoses
  BY <1>1, <1>4, LoseInv DEF IInv
<1>5. CASE UNCHANGED vars
  BY <1>1, <1>5
  DEF vars, linkVars, deviceVars, hostVars, rpcVars, IInv, Numbered, RequestsFresh,
      IsRequest, Wire, AnswersTrue, TrueAnswer, AnswersMatch, Waiting
<1> QED
  BY <1>2, <1>3, <1>4, <1>5 DEF Next

\* However many calls time out, are retried or lost, and whatever late or stray
\* responses arrive, a call that returns returns the device's answer to it.
THEOREM AnswersBelong == Spec => []AnswersMatch
<1>1. IInv => AnswersMatch
  BY DEF IInv
<1> QED
  BY <1>1, InitInv, NextInv, PTL DEF Spec

-----------------------------------------------------------------------------
(* What a step of the host can be.                                         *)

\* A request is issued, and will be waited for.
Issues == /\ issued < MaxCalls
          /\ ~Waiting /\ Waiting'
          /\ UNCHANGED host_attached
          /\ \E method \in Method, arg \in Arg :
               /\ Issue(method, arg)
               /\ activity' = "attach" => method = "rpc.attach" /\ arg = 0
               /\ method = "rpc.detach" => \E c \in UserCalls : c.method = "rpc.detach"

\* A request cannot be written, and nobody waits.
FailsToIssue == /\ issued < MaxCalls
                /\ ~Waiting /\ ~Waiting'
                /\ UNCHANGED host_attached
                /\ \E method \in Method, arg \in Arg :
                     /\ NotIssued(method, arg)
                     /\ method = "rpc.detach" => \E c \in UserCalls : c.method = "rpc.detach"

\* A wait ends with an answer; only that to rpc.attach makes the host attached.
EndsAnswered == /\ Waiting /\ ~Waiting'
                /\ Answered /\ TakeAnswer
                /\ host_attached' => host_attached \/ AttachAnswered
                /\ AttachAnswered => activity = "attach" /\ ~pending_response.error

\* A wait ends without one.
EndsUnanswered == /\ Waiting /\ ~Waiting'
                  /\ ~pending_response.ready
                  /\ UNCHANGED host_attached
                  /\ \E state \in {"timeout", "failed"} : Close(state, 0)

\* Something is sent that has no answer.  A host that says rpc.detach is detached,
\* unless disconnect() throws.
SendsOneWay == /\ ~Waiting /\ ~Waiting'
               /\ host_attached' => host_attached
               /\ OneWay
               /\ \/ WriteText \/ WriteTextShort
                  \/ \E method \in Method :
                       /\ \/ WriteFrame(NotifyFrame(method))
                          \/ WriteFrameShort(NotifyFrame(method))
                       /\ method = "rpc.detach" =>
                            \/ ~host_attached' \/ DisconnectFails
                            \/ \E c \in UserCalls : c.method = "rpc.detach"

\* Nothing is sent and no wait begins or ends.
StaysQuiet == /\ Waiting' <=> Waiting
              /\ Waiting => activity' = activity
              /\ UNCHANGED <<to_device, unfinished, issued, outcome, host_attached>>

LEMMA HostStepKinds ==
  ASSUME Typed, HostNext
  PROVE  \/ Issues \/ FailsToIssue \/ EndsAnswered \/ EndsUnanswered
         \/ SendsOneWay \/ StaysQuiet
<1> USE DEF Waiting
<1>1. /\ \A c \in UserCalls : c.method \in Method /\ c.arg \in Arg
      /\ {"rpc.ping", "rpc.attach", "rpc.detach"} \subseteq Method /\ 0 \in Arg
  BY HostAssumption, LinkAssumption DEF Method, Arg
<1>2. CASE Read \/ HandleResponse \/ HandleEvent \/ HandleText
  BY <1>2 DEF Read, HandleResponse, HandleEvent, HandleText, Handle, lineVars, linkVars,
              rpcVars, StaysQuiet
<1>3. CASE CallReturns
  BY <1>3 DEF CallReturns, EndsAnswered, AttachAnswered, AttachReturns
<1>4. CASE ProbeReturns
  <2>1. activity' \in {"idle", "search"}
    BY <1>4 DEF ProbeReturns
  <2> QED
    BY <1>4, <2>1 DEF ProbeReturns, EndsAnswered, AttachAnswered, AttachReturns
<1>5. CASE AttachReturns
  BY <1>5 DEF AttachReturns, EndsAnswered, AttachAnswered, Typed, TypeOK, HostTypeOK
<1>6. CASE TimesOut
  <2>1. activity' \in {"idle", "search"}
    BY <1>6 DEF TimesOut
  <2> QED
    BY <1>6, <2>1 DEF TimesOut, Unanswered, EndsUnanswered
<1>7. CASE PortFails
  BY <1>7 DEF PortFails, Unanswered, EndsUnanswered
<1>8. CASE SendProbe
  <2>1. issued < MaxCalls
    BY <1>8 DEF SendProbe, MayProbe, Typed, Room
  <2> QED
    BY <1>1, <1>8, <2>1 DEF SendProbe, MayProbe, Issues
<1>9. CASE SendAttach
  <2>1. issued < MaxCalls
    BY <1>9 DEF SendAttach, MayAttach, Typed, Room
  <2> QED
    BY <1>1, <1>9, <2>1 DEF SendAttach, MayAttach, Issues
<1>10. CASE StartCall
  <2>1. PICK c \in UserCalls : Issue(c.method, c.arg)
    BY <1>10 DEF StartCall
  <2> QED
    BY <1>1, <1>10, <2>1 DEF StartCall, MayCall, Free, Issues
<1>11. CASE ProbeNotSent \/ AttachNotSent
  <2>1. issued < MaxCalls /\ ~Waiting
    BY <1>11 DEF ProbeNotSent, AttachNotSent, MayProbe, MayAttach, Typed, Room
  <2>2. \E method \in {"rpc.ping", "rpc.attach"} : NotIssued(method, 0)
    BY <1>11 DEF ProbeNotSent, AttachNotSent
  <2>3. ~Waiting' /\ UNCHANGED host_attached
    BY <2>2 DEF NotIssued
  <2> QED
    BY <1>1, <2>1, <2>2, <2>3 DEF FailsToIssue
<1>12. CASE CallNotSent
  <2>1. PICK c \in UserCalls : NotIssued(c.method, c.arg)
    BY <1>12 DEF CallNotSent
  <2>2. ~Waiting' /\ UNCHANGED host_attached
    BY <2>1 DEF NotIssued
  <2> QED
    BY <1>1, <1>12, <2>1, <2>2 DEF CallNotSent, MayCall, Free, FailsToIssue
<1>13. CASE SendText \/ TextNotSent
  BY <1>13 DEF SendText, TextNotSent, MayWrite, Free, OneWay, SendsOneWay
<1>14. CASE NotifyValues \/ NotifyNotSent
  <2>1. PICK c \in UserCalls : \/ WriteFrame(NotifyFrame(c.method))
                               \/ WriteFrameShort(NotifyFrame(c.method))
    BY <1>14 DEF NotifyValues, NotifyNotSent
  <2>2. OneWay /\ UNCHANGED host_attached /\ activity = "idle"
    BY <1>14 DEF NotifyValues, NotifyNotSent, MayWrite, Free
  <2> QED
    BY <1>1, <2>1, <2>2 DEF OneWay, SendsOneWay
<1>15. CASE Disconnect
  BY <1>1, <1>15 DEF Disconnect, Free, OneWay, SendsOneWay
<1>16. CASE DisconnectFails
  <2>1. /\ WriteFrameShort(NotifyFrame("rpc.detach"))
        /\ OneWay /\ UNCHANGED host_attached /\ activity = "idle"
    BY <1>16 DEF DisconnectFails, Free
  <2> QED
    BY <1>1, <1>16, <2>1 DEF OneWay, SendsOneWay
<1>17. CASE Connect \/ ConnectTimesOut \/ Expire
  BY <1>17 DEF Connect, ConnectTimesOut, Expire, Free, lineVars, linkVars, rpcVars, StaysQuiet
<1> QED
  BY <1>2, <1>3, <1>4, <1>5, <1>6, <1>7, <1>8, <1>9, <1>10, <1>11, <1>12, <1>13, <1>14,
     <1>15, <1>16, <1>17
  DEF HostNext, HostStep

-----------------------------------------------------------------------------
(* The calls are those of RpcCall.                                         *)

\* A call has an outcome from its issue on; the last one issued has none that is
\* final while it is waited for, and no other call is open.
Opened == /\ \A c \in Call : c <= issued <=> outcome[c].state # "none"
          /\ \A c \in Call : outcome[c].state = "open" => Waiting /\ c = issued
          /\ Waiting => issued \in Call /\ outcome[issued].state = "open"

LEMMA InitOpened == Init => Opened
<1> SUFFICES ASSUME Init PROVE Opened
  OBVIOUS
<1>1. \A c \in Call : ~(c <= 0)
  BY DEF Call
<1> QED
  BY <1>1 DEF Init, HostInit, Opened, Outcome, Waiting

\* The ways a call of RpcCall goes on, when the host moves.
LEMMA HostCalls ==
  ASSUME IInv, Opened, HostNext, ByHost
  PROVE  Opened' /\ [Abstract!Next]_(Abstract!vars)
<1>1. executed' = executed
  BY DEF ByHost, deviceVars
<1>2. issued \in Nat /\ DOMAIN outcome = Call /\ \A c \in Call : c \in Nat
  BY LinkAssumption DEF IInv, Typed, TypeOK, HostTypeOK, Outcomes, Call
<1>3. \A state, value : Outcome(state, value) = Abstract!Outcome(state, value)
                        /\ Outcome(state, value).state = state
  BY DEF Outcome, Abstract!Outcome
<1>4. CASE Issues
  <2>1. /\ issued' = issued + 1 /\ issued' \in Call
        /\ outcome' = [outcome EXCEPT ![issued'] = Outcome("open", 0)]
    BY <1>2, <1>4, LinkAssumption DEF Issues, Issue, Call
  <2>2. outcome[issued'].state = "none" /\ Abstract!Free
    BY <1>2, <1>4, <2>1 DEF Issues, Opened, Abstract!Free
  <2>3. Abstract!Open(issued')
    BY <1>1, <1>3, <2>1, <2>2 DEF Abstract!Open
  <2>4. Opened'
    BY <1>2, <1>3, <1>4, <2>1, <2>2 DEF Issues, Opened, Abstract!Free
  <2> QED
    BY <2>1, <2>3, <2>4 DEF Abstract!Next
<1>5. ASSUME Waiting, ~Waiting', NEW state, state \notin {"none", "open"}, NEW value, Close(state, value)
      PROVE  /\ Opened' /\ issued \in Call
             /\ outcome[issued].state = "open"
             /\ outcome' = [outcome EXCEPT ![issued] = Abstract!Outcome(state, value)]
  <2>1. issued' = issued /\ outcome' = [outcome EXCEPT ![issued] = Outcome(state, value)]
    BY <1>5 DEF Close
  <2> QED
    BY <1>2, <1>3, <1>5, <2>1, ZenonT(40) DEF Opened
<1>6. CASE EndsAnswered
  <2>1. /\ pending_response.value = issued
        /\ executed[issued] = Kind(pending_response.error)
    BY <1>6 DEF EndsAnswered, Answered, IInv, AnswersTrue
  <2>2. Close(executed[issued], issued)
    BY <1>6, <2>1 DEF EndsAnswered, TakeAnswer, Kind
  <2>3. executed[issued] \in {"result", "error"}
    BY <2>1 DEF Kind
  <2>4. /\ Opened' /\ issued \in Call
        /\ outcome[issued].state = "open"
        /\ outcome' = [outcome EXCEPT ![issued] = Abstract!Outcome(executed[issued], issued)]
    BY <1>5, <1>6, <2>2, <2>3 DEF EndsAnswered
  <2>5. Abstract!Return(issued)
    BY <1>1, <2>3, <2>4 DEF Abstract!Return
  <2> QED
    BY <2>4, <2>5 DEF Abstract!Next
<1>7. CASE EndsUnanswered
  <2>1. PICK state \in {"timeout", "failed"} : Close(state, 0)
    BY <1>7 DEF EndsUnanswered
  <2>2. /\ Opened' /\ issued \in Call
        /\ outcome[issued].state = "open"
        /\ outcome' = [outcome EXCEPT ![issued] = Abstract!Outcome(state, 0)]
    BY <1>5, <1>7, <2>1 DEF EndsUnanswered
  <2>3. Abstract!GiveUp(issued)
    BY <1>1, <2>2 DEF Abstract!GiveUp
  <2> QED
    BY <2>2, <2>3 DEF Abstract!Next
<1>8. CASE SendsOneWay \/ StaysQuiet
  <2>1. issued' = issued /\ outcome' = outcome /\ (Waiting' <=> Waiting)
    BY <1>8 DEF SendsOneWay, StaysQuiet, OneWay
  <2> QED
    BY <1>1, <2>1 DEF Opened, Abstract!vars
<1>9. CASE FailsToIssue
  <2>1. /\ issued' = issued + 1 /\ issued' \in Call /\ ~Waiting'
        /\ outcome' = [outcome EXCEPT ![issued'] = Outcome("failed", 0)]
    BY <1>2, <1>9, LinkAssumption DEF FailsToIssue, NotIssued, Call
  <2>2. outcome[issued'].state = "none" /\ Abstract!Free
    BY <1>2, <1>9, <2>1 DEF FailsToIssue, Opened, Abstract!Free
  <2>3. Abstract!Fail(issued')
    BY <1>1, <1>3, <2>1, <2>2 DEF Abstract!Fail
  <2>4. Opened'
    BY <1>2, <1>3, <2>1, <2>2 DEF Opened, Abstract!Free
  <2> QED
    BY <2>1, <2>3, <2>4 DEF Abstract!Next
<1> QED
  BY <1>4, <1>6, <1>7, <1>8, <1>9, HostStepKinds DEF IInv

\* The next message of the line is the first of the wire.
LEMMA HeadOfWire ==
  ASSUME WireTyped, to_device # <<>>
  PROVE  1 \in DOMAIN Wire /\ Head(to_device) = Wire[1]
<1>1. to_device \in Seq(ToDevice) /\ unfinished \in Unfinished
  BY DEF WireTyped
<1>2. /\ Head(to_device) = to_device[1] /\ 1 \in 1 .. Len(to_device)
      /\ Len(to_device) \in Nat
  BY <1>1, HeadTailProperties, EmptySeq, LenProperties
<1>3. /\ Wire[1] = to_device[1] /\ Len(Wire) = Len(to_device) + Len(unfinished)
      /\ Len(unfinished) \in {0, 1}
  BY <1>1, <1>2, WireOf DEF Wire
<1>4. DOMAIN Wire = 1 .. Len(Wire)
  BY WireType
<1> QED
  BY <1>2, <1>3, <1>4

\* A device runs nothing, or a call that was issued and not run before.
LEMMA DeviceRuns ==
  ASSUME IInv, ServerNext
  PROVE  \/ executed' = executed
         \/ /\ ReceiveCall
            /\ Head(to_device).type = "request"
            /\ \E c \in Call, error \in BOOLEAN :
                 /\ c = Head(to_device).call /\ c <= issued
                 /\ executed[c] = "no"
                 /\ executed' = [executed EXCEPT ![c] = Kind(error)]
<1>1. CASE ReceiveCall
  <2>1. PICK method \in Method, error \in BOOLEAN :
          Calls(method) /\ Answer(Head(to_device), error)
    BY <1>1, ReceiveCallAnswers
  <2>2. WireTyped /\ to_device # <<>>
    BY <2>1, TypedWire DEF Calls, Take, IInv
  <2>3. Head(to_device) = Wire[1] /\ 1 \in DOMAIN Wire
    BY <2>2, HeadOfWire
  <2>4. CASE Head(to_device).type = "request"
    <3>1. Head(to_device).call \in Call
      BY <2>1, <2>4, CallsTyped DEF IInv
    <3>2. Head(to_device).call <= issued /\ executed[Head(to_device).call] = "no"
      BY <2>3, <2>4 DEF IInv, RequestsFresh, IsRequest
    <3> QED
      BY <1>1, <2>1, <2>4, <3>1, <3>2 DEF Answer
  <2>5. CASE Head(to_device).type # "request"
    BY <2>1, <2>5 DEF Answer
  <2> QED
    BY <2>4, <2>5
<1>2. CASE ~ReceiveCall
  BY <1>2 DEF ServerNext, Poll, ReceiveText, ReceiveMalformed, HandlerReturns, PollEnds,
              Notify, LogLine, SketchRuns, Reboot, Tick
<1> QED
  BY <1>1, <1>2

LEMMA DeviceCalls ==
  ASSUME IInv, Opened, ServerNext, UNCHANGED hostVars
  PROVE  Opened' /\ [Abstract!Next]_(Abstract!vars)
<1>1. outcome' = outcome /\ issued' = issued /\ activity' = activity
  BY DEF hostVars
<1>2. Opened'
  BY <1>1 DEF Opened, Waiting
<1>3. CASE executed' = executed
  BY <1>1, <1>2, <1>3 DEF Abstract!vars
<1>4. ASSUME NEW c \in Call, NEW error \in BOOLEAN, c <= issued, executed[c] = "no",
             executed' = [executed EXCEPT ![c] = Kind(error)]
      PROVE  Abstract!Next
  <2>1. outcome[c].state # "none"
    BY <1>4 DEF Opened
  <2>2. Kind(error) \in {"result", "error"}
    BY DEF Kind
  <2>3. Abstract!Execute(c)
    BY <1>1, <1>4, <2>1, <2>2 DEF Abstract!Execute
  <2> QED
    BY <2>3 DEF Abstract!Next
<1> QED
  BY <1>2, <1>3, <1>4, DeviceRuns

LEMMA NextCalls ==
  ASSUME IInv, Opened, [Next]_vars
  PROVE  Opened' /\ [Abstract!Next]_(Abstract!vars)
<1>1. CASE HostMoves
  BY <1>1, HostCalls DEF HostMoves
<1>2. CASE DeviceMoves
  BY <1>2, DeviceCalls DEF DeviceMoves
<1>3. CASE LineLoses \/ UNCHANGED vars
  <2>1. UNCHANGED <<issued, activity, outcome, executed>>
    BY <1>3 DEF LineLoses, vars, hostVars, deviceVars
  <2> QED
    BY <2>1 DEF Opened, Waiting, Abstract!vars
<1> QED
  BY <1>1, <1>2, <1>3 DEF Next

LEMMA InitCalls == Init => Abstract!Init
BY DEF Init, HostInit, ServerInit, Abstract!Init, Outcome, Abstract!Outcome

\* The calls of a session are those of RpcCall, for any number of calls, any
\* capacities and whatever the line loses: a call is run at most once, possibly
\* long after it was given up, and it ends once, with the device's answer to it
\* or with an exception.  (That it ends is for the run.)
THEOREM CallsAreSafe == Spec => Abstract!SafeSpec
<1>1. Spec => [](IInv /\ Opened)
  BY InitInv, InitOpened, NextInv, NextCalls, PTL DEF Spec
<1> QED
  BY <1>1, InitCalls, NextCalls, PTL DEF Spec, Abstract!SafeSpec
-----------------------------------------------------------------------------
(* The host's idea of attached is backed by the device.                    *)

\* The program leaves rpc.detach to disconnect(): called by hand, it would end the
\* session behind the back of the RPC object.
NoUserDetach == \A c \in UserCalls : c.method # "rpc.detach"

IsDetach(m) == m.type \in {"request", "notification"} /\ m.method = "rpc.detach"

\* What a host said before it was attached can no longer end the session.
NoDetachAhead == host_attached /\ ~doubted => \A i \in DOMAIN Wire : ~IsDetach(Wire[i])

\* Nothing follows the request that is waited for; once it has been run, nothing
\* is left on the wire.
IssuedIsLast ==
  Waiting => /\ \A i : IsRequest(i) /\ Wire[i].call = issued => i = Len(Wire)
             /\ executed[issued] # "no" => Wire = <<>>

\* The last step of connect() waits for rpc.attach, which leaves the device attached.
AttachUnderWay ==
  activity = "attach" =>
    /\ \A i : IsRequest(i) /\ Wire[i].call = issued =>
                Wire[i].method = "rpc.attach" /\ Wire[i].arg = 0
    /\ executed[issued] # "no" => attached \/ severed

BackedInv == NoDetachAhead /\ IssuedIsLast /\ AttachUnderWay /\ AttachedIsBacked

LEMMA InitBacked == Init => BackedInv
BY DEF Init, HostInit, BackedInv, NoDetachAhead, IssuedIsLast, AttachUnderWay, AttachedIsBacked,
       Waiting

\* Without an answer to rpc.attach the host is not rid of a doubt.
LEMMA DoubtStays ==
  ASSUME ByHost
  PROVE  /\ doubted => doubted' \/ AttachAnswered
         /\ DisconnectFails => doubted'
         /\ AttachAnswered => Waiting /\ ~Waiting' /\ pending_response.ready
BY DEF ByHost, AttachAnswered, AttachReturns, Answered, Waiting

\* What is written may be a detach only if a detach is written.
LEMMA WrittenDetach ==
  ASSUME WireTyped, NEW m \in Request \cup Notification, WriteFrame(m) \/ WriteFrameShort(m),
         NEW i \in DOMAIN Wire', IsDetach(Wire'[i])
  PROVE  IsDetach(m) \/ \E j \in DOMAIN Wire : IsDetach(Wire[j])
<1>1. /\ Wire' \in Seq(ToDevice) /\ Len(Wire) \in Nat /\ DOMAIN Wire = 1 .. Len(Wire)
      /\ Keeps \/ Grows(m)
  BY WireType, FrameWritten, FrameShort DEF ToDevice
<1>2. i \in 1 .. Len(Wire')
  BY <1>1
<1>3. CASE i \in 1 .. Len(Wire)
  <2>1. Wire'[i] = Wire[i]
    BY <1>1, <1>3 DEF Keeps, Grows
  <2> QED
    BY <1>1, <1>3, <2>1
<1>4. CASE i \notin 1 .. Len(Wire)
  <2>1. Grows(m)
    BY <1>1, <1>2, <1>4 DEF Keeps
  <2>2. i = Len(Wire) + 1
    BY <1>1, <1>2, <1>4, <2>1 DEF Grows
  <2> QED
    BY <2>1, <2>2 DEF Grows
<1> QED
  BY <1>3, <1>4

LEMMA HostBacked ==
  ASSUME NoUserDetach, IInv, BackedInv, HostNext, ByHost
  PROVE  BackedInv'
<1> USE DEF BackedInv
<1>1. UNCHANGED <<executed, attached, severed>>
  BY DEF ByHost, deviceVars, sessionVars
<1>2. /\ WireTyped /\ issued \in Nat
      /\ \A c \in Call : c \in Nat
      /\ activity = "attach" => Waiting
      /\ activity' = "attach" => Waiting'
  BY LinkAssumption, TypedWire DEF IInv, Typed, TypeOK, HostTypeOK, Call, Waiting
<1>3. /\ doubted => doubted' \/ AttachAnswered
      /\ DisconnectFails => doubted'
      /\ AttachAnswered => Waiting /\ ~Waiting' /\ pending_response.ready
  BY DoubtStays
\* With no wait under way only what host_attached says is left.
<1>4. ASSUME ~Waiting', NoDetachAhead', AttachedIsBacked'
      PROVE  BackedInv'
  BY <1>2, <1>4 DEF IssuedIsLast, AttachUnderWay
<1>5. ASSUME ~AttachAnswered, host_attached' => host_attached
      PROVE  AttachedIsBacked'
  BY <1>1, <1>3, <1>5 DEF AttachedIsBacked
\* A frame that is not a detach leaves none on the wire.
<1>6. ASSUME NEW m \in Request \cup Notification, WriteFrame(m) \/ WriteFrameShort(m),
             ~AttachAnswered, host_attached' => host_attached,
             IsDetach(m) => ~host_attached' \/ doubted'
      PROVE  NoDetachAhead'
  <2> SUFFICES ASSUME host_attached', ~doubted', NEW i \in DOMAIN Wire', IsDetach(Wire'[i])
               PROVE  FALSE
    BY DEF NoDetachAhead, IsDetach
  <2>1. \E j \in DOMAIN Wire : IsDetach(Wire[j])
    BY <1>2, <1>6, WrittenDetach
  <2> QED
    BY <1>3, <1>6, <2>1 DEF NoDetachAhead
<1>7. CASE Issues
  <2>1. PICK method \in Method, arg \in Arg :
          /\ Issue(method, arg)
          /\ activity' = "attach" => method = "rpc.attach" /\ arg = 0
          /\ method = "rpc.detach" => \E c \in UserCalls : c.method = "rpc.detach"
    BY <1>7 DEF Issues
  <2> DEFINE m == RequestFrame(method, arg)
  <2>2. issued' = issued + 1 /\ issued' \in Call /\ Grows(m)
    BY <1>7, <2>1, IssueTyped DEF Issues, IInv
  <2>3. m \in Request /\ m.call = issued' /\ m.method = method /\ m.arg = arg
    BY <1>7, <2>2, RequestTyped DEF Issues, IInv, RequestFrame
  <2>4. ~IsDetach(m) /\ WriteFrame(m) /\ ~AttachAnswered
    BY <1>3, <1>7, <2>1, <2>3 DEF Issues, Issue, IsDetach, NoUserDetach
  <2> HIDE DEF m
  <2>5. /\ Wire' \in Seq(ToDevice) /\ Len(Wire) \in Nat /\ DOMAIN Wire = 1 .. Len(Wire)
        /\ Len(Wire') = Len(Wire) + 1 /\ Wire'[Len(Wire')] = m
        /\ \A i \in 1 .. Len(Wire) : Wire'[i] = Wire[i]
    BY <1>2, <2>2, <2>3, <2>4, FrameWritten, WireType DEF Grows, ToDevice
  <2>6. \A i \in DOMAIN Wire' : i # Len(Wire') => i \in DOMAIN Wire /\ Wire'[i] = Wire[i]
    BY <2>5
  <2>7. executed'[issued'] = "no"
    BY <1>1, <1>2, <2>2 DEF IInv, RequestsFresh
  <2>8. \A i : IsRequest(i)' /\ Wire'[i].call = issued' => i = Len(Wire')
    <3> SUFFICES ASSUME NEW i, IsRequest(i)', Wire'[i].call = issued', i # Len(Wire')
                 PROVE  FALSE
      OBVIOUS
    <3>1. IsRequest(i) /\ Wire[i].call = issued'
      BY <2>6 DEF IsRequest
    <3> QED
      BY <1>2, <2>2, <3>1 DEF IInv, RequestsFresh
  <2>9. IssuedIsLast' /\ AttachUnderWay'
    BY <2>1, <2>3, <2>5, <2>7, <2>8 DEF IssuedIsLast, AttachUnderWay
  <2>10. NoDetachAhead'
    BY <1>6, <1>7, <2>3, <2>4 DEF Issues
  <2>11. AttachedIsBacked'
    BY <1>5, <1>7, <2>4 DEF Issues
  <2> QED
    BY <2>9, <2>10, <2>11
<1>8. CASE FailsToIssue
  <2>1. PICK method \in Method, arg \in Arg :
          /\ NotIssued(method, arg)
          /\ method = "rpc.detach" => \E c \in UserCalls : c.method = "rpc.detach"
    BY <1>8 DEF FailsToIssue
  <2> DEFINE m == RequestFrame(method, arg)
  <2>2. m \in Request /\ m.method = method
    BY <1>8, RequestTyped DEF FailsToIssue, IInv, RequestFrame
  <2>3. ~IsDetach(m) /\ WriteFrameShort(m) /\ ~AttachAnswered
    BY <1>3, <1>8, <2>1, <2>2 DEF FailsToIssue, NotIssued, IsDetach, NoUserDetach
  <2> HIDE DEF m
  <2>4. NoDetachAhead' /\ AttachedIsBacked'
    BY <1>5, <1>6, <1>8, <2>2, <2>3 DEF FailsToIssue
  <2> QED
    BY <1>4, <1>8, <2>4 DEF FailsToIssue
<1>9. CASE EndsAnswered
  <2>1. Wire' = Wire
    BY <1>9 DEF EndsAnswered, TakeAnswer, Close, lineVars, linkVars, Wire
  <2>2. ASSUME AttachAnswered
        PROVE  Wire = <<>> /\ (attached \/ severed)
    <3>1. executed[issued] # "no"
      BY <1>9, <2>2 DEF EndsAnswered, Answered, IInv, AnswersTrue, Kind
    <3> QED
      BY <1>9, <2>2, <3>1 DEF EndsAnswered, IssuedIsLast, AttachUnderWay
  <2>3. CASE AttachAnswered
    BY <1>1, <1>4, <1>9, <2>1, <2>2, <2>3 DEF EndsAnswered, NoDetachAhead, AttachedIsBacked
  <2>4. CASE ~AttachAnswered
    <3>1. NoDetachAhead'
      BY <1>3, <1>9, <2>1, <2>4 DEF EndsAnswered, NoDetachAhead
    <3> QED
      BY <1>4, <1>5, <1>9, <2>4, <3>1 DEF EndsAnswered
  <2> QED
    BY <2>3, <2>4
<1>10. CASE EndsUnanswered
  <2>1. Wire' = Wire /\ host_attached' = host_attached /\ ~AttachAnswered /\ ~Waiting'
    BY <1>3, <1>10 DEF EndsUnanswered, Close, lineVars, linkVars, Wire
  <2>2. NoDetachAhead'
    BY <1>3, <2>1 DEF NoDetachAhead
  <2> QED
    BY <1>4, <1>5, <2>1, <2>2
<1>11. CASE SendsOneWay
  <2>1. ~AttachAnswered /\ ~Waiting' /\ (host_attached' => host_attached)
    BY <1>3, <1>11 DEF SendsOneWay
  <2>2. CASE WriteText \/ WriteTextShort
    <3>1. \A i \in DOMAIN Wire' :
            Wire'[i].type # "text" => i \in DOMAIN Wire /\ Wire'[i] = Wire[i]
      BY <1>2, <2>2, TextWritten
    <3>2. NoDetachAhead'
      BY <1>3, <2>1, <3>1 DEF NoDetachAhead, IsDetach
    <3> QED
      BY <1>4, <1>5, <2>1, <3>2
  <2>3. ASSUME NEW method \in Method,
               \/ WriteFrame(NotifyFrame(method))
               \/ WriteFrameShort(NotifyFrame(method)),
               method = "rpc.detach" => \/ ~host_attached' \/ DisconnectFails
                                        \/ \E c \in UserCalls : c.method = "rpc.detach"
        PROVE  BackedInv'
    <3>1. NotifyFrame(method) \in Notification /\ NotifyFrame(method).method = method
      BY LinkAssumption DEF NotifyFrame, Notification, Arg
    <3>2. IsDetach(NotifyFrame(method)) => ~host_attached' \/ doubted'
      BY <1>3, <2>3, <3>1 DEF IsDetach, NoUserDetach
    <3>3. NoDetachAhead'
      BY <1>6, <2>1, <2>3, <3>1, <3>2
    <3> QED
      BY <1>4, <1>5, <2>1, <3>3
  <2> QED
    BY <1>11, <2>2, <2>3 DEF SendsOneWay
<1>12. CASE StaysQuiet
  <2>1. /\ Wire' = Wire /\ issued' = issued /\ host_attached' = host_attached
        /\ ~AttachAnswered
        /\ (Waiting' <=> Waiting) /\ (activity' = "attach" => activity = "attach")
    BY <1>2, <1>3, <1>12 DEF StaysQuiet, Wire
  <2>2. NoDetachAhead'
    BY <1>3, <2>1 DEF NoDetachAhead
  <2>3. IssuedIsLast' /\ AttachUnderWay'
    BY <1>1, <2>1 DEF IssuedIsLast, AttachUnderWay, IsRequest
  <2> QED
    BY <1>5, <2>1, <2>2, <2>3
<1> QED
  BY <1>7, <1>8, <1>9, <1>10, <1>11, <1>12, HostStepKinds DEF IInv

\* The device may drop what it held of the session only when told to.
LEMMA StaysBacked ==
  ASSUME DeviceMoves, attached \/ severed, ~ServeDetach
  PROVE  attached' \/ severed'
BY DEF DeviceMoves

\* A device leaves the line alone, or takes its first message.
LEMMA DeviceTakes ==
  ASSUME ServerNext
  PROVE  to_device' = to_device \/ (to_device # <<>> /\ to_device' = Tail(to_device))
<1>1. CASE ReceiveText \/ ReceiveMalformed
  BY <1>1 DEF ReceiveText, ReceiveMalformed, Take
<1>2. CASE ReceiveCall
  <2>1. PICK method \in Method, error \in BOOLEAN : Calls(method)
    BY <1>2, ReceiveCallAnswers
  <2> QED
    BY <2>1 DEF Calls, Take
<1>3. CASE Notify \/ LogLine
  BY <1>3 DEF Notify, LogLine, SketchRuns
<1>4. CASE Poll \/ HandlerReturns \/ PollEnds \/ Reboot \/ Tick
  BY <1>4 DEF Poll, HandlerReturns, PollEnds, Reboot, Tick, linkVars
<1> QED
  BY <1>1, <1>2, <1>3, <1>4 DEF ServerNext

LEMMA DeviceBacked ==
  ASSUME IInv, BackedInv, DeviceMoves
  PROVE  BackedInv'
<1> USE DEF BackedInv
<1>1. /\ UNCHANGED <<issued, activity, host_attached, unfinished, doubted>>
      /\ (Waiting' <=> Waiting)
  BY DEF DeviceMoves, hostVars, rpcVars, Waiting
<1>2. /\ WireTyped /\ Len(Wire) \in Nat /\ DOMAIN Wire = 1 .. Len(Wire)
      /\ Wire \in Seq(ToDevice)
      /\ to_device' = to_device \/ (to_device # <<>> /\ to_device' = Tail(to_device))
  BY TypedWire, WireType, DeviceTakes DEF IInv, DeviceMoves
\* The first message is taken, or none.
<1>3. /\ to_device # <<>> => 1 \in DOMAIN Wire /\ Head(to_device) = Wire[1]
      /\ Wire' = Wire
         \/ /\ Len(Wire') = Len(Wire) - 1 /\ Wire' \in Seq(ToDevice)
            /\ \A i \in DOMAIN Wire' : i + 1 \in DOMAIN Wire /\ i \in Nat
                                      /\ Wire'[i] = Wire[i + 1]
  <2>1. CASE to_device' = to_device
    <3>1. Wire' = Wire
      BY <1>1, <2>1 DEF Wire
    <3>2. to_device # <<>> => 1 \in DOMAIN Wire /\ Head(to_device) = Wire[1]
      BY <1>2, HeadOfWire
    <3> QED
      BY <3>1, <3>2
  <2>2. CASE to_device # <<>> /\ to_device' = Tail(to_device)
    <3>1. /\ Wire' \in Seq(ToDevice) /\ Len(Wire') = Len(Wire) - 1
          /\ \A i \in 1 .. Len(Wire') : Wire'[i] = Wire[i + 1]
          /\ 1 \in DOMAIN Wire /\ Head(to_device) = Wire[1]
      BY <1>1, <1>2, <2>2, WirePopped
    <3>2. \A i \in DOMAIN Wire' : i + 1 \in DOMAIN Wire /\ i \in Nat
      BY <1>2, <3>1
    <3> QED
      BY <3>1, <3>2
  <2> QED
    BY <1>2, <2>1, <2>2
<1>4. ServeDetach => to_device # <<>> /\ IsDetach(Head(to_device))
  BY DEF ServeDetach, Calls, Take, IsDetach
<1>5. NoDetachAhead'
  BY <1>1, <1>3 DEF NoDetachAhead, IsDetach
<1>6. AttachedIsBacked'
  <2>1. host_attached /\ ~doubted => ~ServeDetach
    BY <1>3, <1>4 DEF NoDetachAhead
  <2> QED
    BY <1>1, <2>1, StaysBacked DEF AttachedIsBacked
\* A request that is run now was the last on the wire.
<1>7. ASSUME Waiting, executed'[issued] # "no", executed[issued] = "no"
      PROVE  /\ ReceiveCall
             /\ IsRequest(1) /\ Head(to_device) = Wire[1]
             /\ Wire[1].call = issued /\ Len(Wire) = 1
             /\ to_device # <<>> /\ to_device' = Tail(to_device)
  <2>1. PICK c \in Call, error \in BOOLEAN :
          /\ ReceiveCall /\ Head(to_device).type = "request"
          /\ c = Head(to_device).call /\ executed[c] = "no"
          /\ executed' = [executed EXCEPT ![c] = Kind(error)]
    BY <1>7, DeviceRuns DEF DeviceMoves
  <2>2. c = issued
    BY <1>7, <2>1 DEF IInv, Typed, TypeOK, ServerTypeOK
  <2>3. PICK method \in Method, error1 \in BOOLEAN : Calls(method)
    BY <2>1, ReceiveCallAnswers
  <2>4. to_device # <<>> /\ to_device' = Tail(to_device)
    BY <2>3 DEF Calls, Take
  <2>5. IsRequest(1) /\ Head(to_device) = Wire[1] /\ Wire[1].call = issued
    BY <1>3, <2>1, <2>2, <2>4 DEF IsRequest
  <2> QED
    BY <1>7, <2>1, <2>4, <2>5 DEF IssuedIsLast
<1>8. \A i : IsRequest(i)' =>
        \/ Wire' = Wire /\ IsRequest(i)
        \/ /\ Len(Wire') = Len(Wire) - 1
           /\ i \in Nat /\ IsRequest(i + 1) /\ Wire'[i] = Wire[i + 1]
  BY <1>3 DEF IsRequest
<1>9. ASSUME Waiting, executed[issued] # "no"
      PROVE  Wire = <<>> /\ Wire' = <<>> /\ to_device = <<>>
  <2>1. Wire = <<>>
    BY <1>9 DEF IssuedIsLast
  <2>2. to_device = <<>>
    BY <1>3, <2>1
  <2> QED
    BY <1>1, <1>2, <2>1, <2>2 DEF Wire
<1>10. IssuedIsLast'
  <2> SUFFICES ASSUME Waiting
               PROVE  /\ \A i : IsRequest(i)' /\ Wire'[i].call = issued'
                                  => i = Len(Wire')
                      /\ executed'[issued'] # "no" => Wire' = <<>>
    BY <1>1 DEF IssuedIsLast
  <2>1. \A i : IsRequest(i)' /\ Wire'[i].call = issued' => i = Len(Wire')
    <3> SUFFICES ASSUME NEW i, IsRequest(i)', Wire'[i].call = issued
                 PROVE  i = Len(Wire')
      BY <1>1
    <3>1. CASE Wire' = Wire /\ IsRequest(i)
      BY <3>1 DEF IssuedIsLast
    <3>2. CASE /\ Len(Wire') = Len(Wire) - 1
               /\ i \in Nat /\ IsRequest(i + 1) /\ Wire'[i] = Wire[i + 1]
      <4>1. i + 1 = Len(Wire)
        BY <3>2 DEF IssuedIsLast
      <4>2. Len(Wire) \in Nat /\ i \in Nat /\ Len(Wire') = Len(Wire) - 1
        BY <1>2, <3>2
      <4> QED
        BY <4>1, <4>2
    <3> QED
      BY <1>8, <3>1, <3>2
  <2>2. executed'[issued] # "no" => Wire' = <<>>
    <3>1. ASSUME executed'[issued] # "no", executed[issued] = "no"
          PROVE  Wire' = <<>>
      <4>1. to_device # <<>> /\ to_device' = Tail(to_device) /\ Len(Wire) = 1
        BY <1>7, <3>1
      <4>2. Wire' \in Seq(ToDevice) /\ Len(Wire') = Len(Wire) - 1
        BY <1>1, <1>2, <4>1, WirePopped
      <4> QED
        BY <4>1, <4>2, EmptySeq
    <3> QED
      BY <1>9, <3>1
  <2> QED
    BY <1>1, <2>1, <2>2
<1>11. AttachUnderWay'
  <2> SUFFICES ASSUME activity = "attach"
               PROVE  /\ \A i : IsRequest(i)' /\ Wire'[i].call = issued' =>
                            Wire'[i].method = "rpc.attach" /\ Wire'[i].arg = 0
                      /\ executed'[issued'] # "no" => attached' \/ severed'
    BY <1>1 DEF AttachUnderWay
  <2>1. Waiting
    BY DEF Waiting
  <2>2. \A i : IsRequest(i)' /\ Wire'[i].call = issued =>
                 Wire'[i].method = "rpc.attach" /\ Wire'[i].arg = 0
    BY <1>8 DEF AttachUnderWay
  <2>3. ASSUME executed'[issued] # "no", executed[issued] = "no"
        PROVE  attached' \/ severed'
    <3>1. /\ ReceiveCall /\ IsRequest(1) /\ Head(to_device) = Wire[1]
          /\ Wire[1].call = issued
      BY <1>7, <2>1, <2>3
    <3>2. Head(to_device).method = "rpc.attach" /\ Head(to_device).arg = 0
      BY <3>1 DEF AttachUnderWay
    <3>3. ServeAttach
      BY <3>1, <3>2 DEF ReceiveCall, ServePing, ServeList, ServeDetach, ServeBound,
                        ServeUnknown, Calls
    <3> QED
      BY <3>2, <3>3, LinkAssumption DEF ServeAttach, Attach
  <2>4. ASSUME executed[issued] # "no"
        PROVE  attached' \/ severed'
    <3>1. ~ServeDetach
      BY <1>4, <1>9, <2>1, <2>4
    <3> QED
      BY <2>4, <3>1, StaysBacked DEF AttachUnderWay
  <2> QED
    BY <1>1, <2>2, <2>3, <2>4
<1> QED
  BY <1>5, <1>6, <1>10, <1>11

LEMMA LoseBacked ==
  ASSUME IInv, BackedInv, LineLoses
  PROVE  BackedInv'
<1> USE DEF BackedInv
<1>1. /\ UNCHANGED <<issued, activity, host_attached, executed, attached, severed, doubted,
                     unfinished>>
      /\ (Waiting' <=> Waiting)
  BY DEF LineLoses, hostVars, rpcVars, deviceVars, sessionVars, Waiting
<1>2. WireTyped /\ Len(Wire) \in Nat /\ DOMAIN Wire = 1 .. Len(Wire)
  BY TypedWire, WireType DEF IInv
<1>3. CASE to_device' = to_device
  <2>1. Wire' = Wire
    BY <1>1, <1>3 DEF Wire
  <2> QED
    BY <1>1, <2>1 DEF NoDetachAhead, IssuedIsLast, AttachUnderWay, AttachedIsBacked, IsRequest
<1>4. ASSUME NEW k \in DOMAIN to_device, to_device' = Without(to_device, k)
      PROVE  BackedInv'
  <2>1. /\ Wire' \in Seq(ToDevice) /\ Len(Wire') = Len(Wire) - 1 /\ k \in 1 .. Len(Wire)
        /\ \A i \in 1 .. Len(Wire) - 1 :
             Wire'[i] = IF i < k THEN Wire[i] ELSE Wire[i + 1]
    BY <1>1, <1>2, <1>4, WireLost
  <2>2. \A i \in DOMAIN Wire' :
          \E j \in DOMAIN Wire :
            /\ Wire'[i] = Wire[j]
            /\ j = Len(Wire) => i = Len(Wire')
    <3> SUFFICES ASSUME NEW i \in 1 .. Len(Wire) - 1
                 PROVE  \E j \in DOMAIN Wire :
                          /\ Wire'[i] = Wire[j]
                          /\ j = Len(Wire) => i = Len(Wire')
      BY <2>1
    <3>1. CASE i < k
      <4>1. \A n \in Nat : \A j \in 1 .. n - 1 : j \in 1 .. n /\ j # n
        OBVIOUS
      <4>2. i \in DOMAIN Wire /\ i # Len(Wire)
        BY <1>2, <4>1
      <4>3. Wire'[i] = Wire[i]
        BY <2>1, <3>1
      <4> QED
        BY <4>2, <4>3
    <3>2. CASE ~(i < k)
      <4>1. i + 1 \in DOMAIN Wire /\ Wire'[i] = Wire[i + 1]
        BY <1>2, <2>1, <3>2
      <4> QED
        BY <1>2, <2>1, <4>1
    <3> QED
      BY <3>1, <3>2
  <2>3. \A i : IsRequest(i)' =>
          \E j : /\ IsRequest(j) /\ Wire'[i] = Wire[j]
                 /\ j = Len(Wire) => i = Len(Wire')
    BY <2>2 DEF IsRequest
  <2>4. Wire # <<>>
    BY <1>2, <2>1
  <2>5. NoDetachAhead'
    BY <1>1, <2>2 DEF NoDetachAhead, IsDetach
  <2>6. IssuedIsLast' /\ AttachUnderWay'
    <3>1. Waiting => executed[issued] = "no"
      BY <2>4 DEF IssuedIsLast
    <3>2. activity = "attach" => Waiting
      BY DEF Waiting
    <3> QED
      BY <1>1, <2>3, <3>1, <3>2 DEF IssuedIsLast, AttachUnderWay
  <2> QED
    BY <1>1, <2>5, <2>6 DEF AttachedIsBacked
<1> QED
  BY <1>3, <1>4 DEF LineLoses, Lose

LEMMA NextBacked ==
  ASSUME NoUserDetach, IInv, BackedInv, [Next]_vars
  PROVE  BackedInv'
<1>1. CASE HostMoves
  BY <1>1, HostBacked DEF HostMoves
<1>2. CASE UNCHANGED vars
  BY <1>2 DEF vars, linkVars, deviceVars, sessionVars, hostVars, rpcVars, BackedInv, Wire,
              NoDetachAhead, IssuedIsLast, AttachUnderWay, AttachedIsBacked, IsRequest, Waiting
<1> QED
  BY <1>1, <1>2, DeviceBacked, LoseBacked DEF Next

\* A host that believes the device attached is right, unless the device was reset
\* or timed out since, or disconnect() threw, which leaves the flag as it was:
\* whatever is lost, late or cut short, however often connect() was given up or
\* retried and whatever else the program calls, rpc.detach by hand excepted.
THEOREM AttachedAlwaysBacked == NoUserDetach /\ Spec => []AttachedIsBacked
<1> SUFFICES ASSUME NoUserDetach PROVE Spec => []AttachedIsBacked
  OBVIOUS
<1>1. IInv /\ BackedInv /\ [Next]_vars => IInv' /\ BackedInv'
  BY NextInv, NextBacked
<1>2. BackedInv => AttachedIsBacked
  BY DEF BackedInv
<1> QED
  BY <1>1, <1>2, InitInv, InitBacked, PTL DEF Spec

-----------------------------------------------------------------------------
(* ServerTimeout: the attach timeout, whatever the host writes, for a clock  *)
(* that wraps around after any number of milliseconds.                       *)

(* Arithmetic modulo the span of the clock.                                 *)

Divides(a, c, q, r) == a % c = r /\ q \in Int /\ r \in 0 .. c - 1 /\ a = c * q + r

\* Every integer has a quotient and a remainder.
LEMMA Division ==
  ASSUME NEW c \in Nat \ {0}
  PROVE  \A a \in Int : \E q, r : Divides(a, c, q, r)
<1> TAKE a \in Int
<1>1. a \div c \in Int /\ a % c \in 0 .. c - 1 /\ a = c * (a \div c) + (a % c)
  OBVIOUS
<1> QED
  BY <1>1 DEF Divides

\* The remainder is the only one there is.
LEMMA Remainder ==
  ASSUME NEW c \in Nat \ {0}, NEW q \in Int, NEW r \in 0 .. c - 1
  PROVE  (c * q + r) % c = r
OBVIOUS

\* The uint32_t subtraction of two clock readings is the time between them,
\* modulo the span of the clock, however often it wrapped.
LEMMA WrappedDifference ==
  ASSUME NEW c \in Nat \ {0}, NEW n \in Nat, NEW h \in 0 .. n
  PROVE  ((n % c) + c - (h % c)) % c = (n - h) % c
<1>1. n \in Int /\ h \in Int /\ n - h \in Int
  OBVIOUS
<1>2. PICK p, x : Divides(n, c, p, x)
  BY <1>1, Division
<1>3. PICK q, y : Divides(h, c, q, y)
  BY <1>1, Division
<1>4. PICK d, z : Divides(n - h, c, d, z)
  BY <1>1, Division
<1>5. x + c - y = c * (d + 1 + q - p) + z
  BY <1>2, <1>3, <1>4 DEF Divides
<1>6. (n % c) + c - (h % c) = c * (d + 1 + q - p) + z /\ d + 1 + q - p \in Int
  BY <1>2, <1>3, <1>4, <1>5 DEF Divides
<1>7. (n - h) % c = z /\ z \in 0 .. c - 1
  BY <1>4 DEF Divides
<1> QED
  BY ONLY <1>6, <1>7, Remainder, c \in Nat \ {0}

\* A remainder is at most the number, and is the number when it is small.
LEMMA SmallRemainder ==
  ASSUME NEW c \in Nat \ {0}, NEW d \in Nat
  PROVE  d % c <= d /\ (d < c => d % c = d)
<1>1. PICK q, r : Divides(d, c, q, r)
  BY Division
<1>2. q >= 0
  BY <1>1 DEF Divides
<1>3. c * q >= 0
  BY <1>1, <1>2 DEF Divides
<1> QED
  BY <1>1, <1>3 DEF Divides

LEMMA AtBoot == 0 % ClockSpan = 0
BY SmallRemainder, ServerAssumption

-----------------------------------------------------------------------------
(* The inductive invariant: what the code keeps of the two histories.       *)

SessionTyped ==
  /\ to_device \in Seq(ToDevice)
  /\ has_timeout \in BOOLEAN /\ attach_timeout \in Nat

\* last_frame is the instant of the last frame as the wrapped clock showed it.
HeardInv ==
  /\ now \in Nat /\ heard \in 0 .. now
  /\ last_frame = heard % ClockSpan

\* A session runs with the timeout of the rpc.attach that began it or came last,
\* and with none when that one asked for none.
GrantedInv ==
  /\ granted \in Nat
  /\ attached => attach_timeout = granted /\ (has_timeout <=> granted > 0)

TimeoutInv == SessionTyped /\ HeardInv /\ GrantedInv

LEMMA InitTimeout == TimeoutInit => TimeoutInv
<1> SUFFICES ASSUME TimeoutInit
             PROVE  TimeoutInv
  OBVIOUS
<1>1. SessionTyped
  <2>1. to_device \in Seq(ToDevice)
    BY DEF TimeoutInit, LinkInit
  <2>2. has_timeout = FALSE /\ attach_timeout = 0
    BY DEF TimeoutInit, ServerInit
  <2> QED
    BY <2>1, <2>2 DEF SessionTyped
<1>2. HeardInv
  BY AtBoot DEF TimeoutInit, ServerInit, HeardInv
<1>3. GrantedInv
  BY DEF TimeoutInit, ServerInit, GrantedInv
<1> QED
  BY <1>1, <1>2, <1>3 DEF TimeoutInv

\* The messages of poll() are told apart by their type, and nothing else in the
\* device takes one.
LEMMA TakesOne ==
  ASSUME SessionTyped
  PROVE  /\ Take({"text"}) => ~ReceiveCall /\ ~ReceiveMalformed
         /\ ReceiveMalformed => ~ReceiveCall
         /\ to_device' = to_device => ~ReceiveCall /\ ~ReceiveMalformed
         /\ Reboot => ~ReceiveCall /\ ~ReceiveMalformed
<1> DEFINE Takes == to_device # <<>> /\ to_device' = Tail(to_device)
<1>1. Takes => to_device' # to_device
  BY DEF SessionTyped
<1>2. ReceiveCall => Takes /\ Head(to_device).type \in {"request", "notification"}
  BY DEF ReceiveCall, ServePing, ServeList, ServeAttach, ServeDetach, ServeBound,
         ServeUnknown, Calls, Take
<1>3. ReceiveMalformed => Takes /\ Head(to_device).type \in {"malformed"}
  BY DEF ReceiveMalformed, Take
<1>4. Take({"text"}) => Head(to_device).type \in {"text"}
  BY DEF Take
<1>5. Reboot => to_device' = to_device
  BY DEF Reboot
<1> QED
  BY <1>1, <1>2, <1>3, <1>4, <1>5

\* A frame, valid as a message or not, is heard.
LEMMA FrameHeard ==
  ASSUME TimeoutInv, TimeoutMoves, ReceiveCall \/ ReceiveMalformed
  PROVE  HeardInv'
<1>1. last_frame' = now_ms /\ now' = now
  <2>1. CASE ReceiveMalformed
    BY <2>1 DEF ReceiveMalformed, Take
  <2>2. CASE ReceiveCall
    BY <2>2 DEF ReceiveCall, ServePing, ServeList, ServeAttach, ServeDetach, ServeBound,
                ServeUnknown, Calls, Take, Answer
  <2> QED
    BY <2>1, <2>2
<1>2. heard' = now
  BY TakesOne DEF TimeoutMoves, TimeoutInv
<1> QED
  BY <1>1, <1>2 DEF TimeoutInv, HeardInv, now_ms

\* Calls leave the session as they find it, apart from attach and detach.
LEMMA CallsGranted ==
  ASSUME TimeoutInv, TimeoutMoves, ReceiveCall
  PROVE  SessionTyped' /\ GrantedInv'
<1> USE DEF TimeoutInv
<1>1. to_device # <<>> /\ to_device' = Tail(to_device) /\ ~Reboot
  <2>1. to_device # <<>> /\ to_device' = Tail(to_device)
    BY DEF ReceiveCall, ServePing, ServeList, ServeAttach, ServeDetach, ServeBound,
           ServeUnknown, Calls, Take
  <2> QED
    BY <2>1 DEF Reboot, SessionTyped
<1>2. Head(to_device) \in ToDevice /\ to_device' \in Seq(ToDevice)
  BY <1>1 DEF SessionTyped
<1>3. CASE ServeAttach /\ Head(to_device).arg # BadArg
  <2>1. Head(to_device).type \in {"request", "notification"}
    BY <1>3 DEF ServeAttach, Calls, Take
  <2>2. Head(to_device).arg \in Timeouts
    BY <1>2, <1>3, <2>1 DEF ToDevice, Request, Notification, Malformed, HostText, Arg
  <2>3. granted' = Head(to_device).arg
    BY <1>1, <1>3 DEF TimeoutMoves
  <2>4. granted' \in Nat /\ Attach(granted')
    BY <1>3, <2>2, <2>3, LinkAssumption DEF ServeAttach
  <2>5. has_timeout' \in BOOLEAN
    BY <2>4 DEF Attach
  <2>6. has_timeout' <=> granted' > 0
    BY <2>4 DEF Attach
  <2> QED
    BY <1>2, <2>4, <2>5, <2>6 DEF Attach, SessionTyped, GrantedInv
<1>4. CASE ~(ServeAttach /\ Head(to_device).arg # BadArg)
  <2>1. granted' = granted
    BY <1>1, <1>4 DEF TimeoutMoves
  <2>2. CASE ServeDetach
    BY <1>2, <2>1, <2>2 DEF ServeDetach, Detach, SessionTyped, GrantedInv
  <2>3. CASE ~ServeDetach
    <3>1. UNCHANGED sessionVars
      BY <1>4, <2>3 DEF ReceiveCall, ServePing, ServeList, ServeAttach, ServeBound, ServeUnknown
    <3> QED
      BY <1>2, <2>1, <3>1 DEF sessionVars, SessionTyped, GrantedInv
  <2> QED
    BY <2>2, <2>3
<1> QED
  BY <1>3, <1>4

\* What the device does without a frame; a reset begins both histories anew.
LEMMA DeviceTimeout ==
  ASSUME TimeoutInv, TimeoutMoves
  PROVE  TimeoutInv'
<1> USE DEF TimeoutInv
<1>1. CASE ReceiveCall
  BY <1>1, FrameHeard, CallsGranted
<1>2. CASE ReceiveMalformed
  <2>1. /\ UNCHANGED sessionVars
        /\ to_device # <<>> /\ to_device' = Tail(to_device) /\ ~Reboot
    BY <1>2 DEF ReceiveMalformed, Take, Reboot, SessionTyped
  <2>2. ~ServeAttach
    BY <1>2, TakesOne DEF ReceiveCall
  <2>3. granted' = granted
    BY <2>1, <2>2 DEF TimeoutMoves
  <2> QED
    BY <1>2, <2>1, <2>3, FrameHeard DEF sessionVars, SessionTyped, GrantedInv
<1>3. CASE Reboot
  <2>1. to_device' = to_device /\ ~ReceiveCall /\ ~ReceiveMalformed
    BY <1>3, TakesOne DEF Reboot
  <2>2. heard' = 0 /\ granted' = 0
    BY <1>3, <2>1 DEF TimeoutMoves, ReceiveCall
  <2>3. SessionTyped'
    BY <1>3 DEF Reboot, SessionTyped
  <2>4. HeardInv'
    BY <1>3, <2>2, AtBoot DEF Reboot, HeardInv
  <2>5. GrantedInv'
    BY <1>3, <2>2 DEF Reboot, GrantedInv
  <2> QED
    BY <2>3, <2>4, <2>5
<1>4. ASSUME ~ReceiveCall, ~ReceiveMalformed, ~Reboot
      PROVE  heard' = heard /\ granted' = granted
  BY <1>4 DEF TimeoutMoves, ReceiveCall
<1>5. CASE ReceiveText /\ ~Reboot
  <2>1. ~ReceiveCall /\ ~ReceiveMalformed
    BY <1>5, TakesOne DEF ReceiveText
  <2> QED
    BY <1>4, <1>5, <2>1 DEF ReceiveText, Take, sessionVars, SessionTyped, HeardInv, GrantedInv
<1>6. CASE ~Reboot /\ (Poll \/ HandlerReturns \/ Notify \/ LogLine)
  <2>1. UNCHANGED <<to_device, sessionVars, last_frame, now>>
    BY <1>6 DEF Poll, HandlerReturns, Notify, LogLine, SketchRuns, linkVars
  <2> QED
    BY <1>4, <1>6, <2>1, TakesOne DEF sessionVars, SessionTyped, HeardInv, GrantedInv
<1>7. CASE ~Reboot /\ PollEnds
  <2>1. UNCHANGED <<to_device, last_frame, now>> /\ (UNCHANGED sessionVars \/ Detach)
    BY <1>7 DEF PollEnds, linkVars
  <2>2. heard' = heard /\ granted' = granted
    BY <1>4, <1>7, <2>1, TakesOne
  <2>3. CASE UNCHANGED sessionVars
    BY <2>1, <2>2, <2>3 DEF sessionVars, SessionTyped, HeardInv, GrantedInv
  <2>4. CASE Detach
    BY <2>1, <2>2, <2>4 DEF Detach, SessionTyped, HeardInv, GrantedInv
  <2> QED
    BY <2>1, <2>3, <2>4
<1>8. CASE ~Reboot /\ Tick
  <2>1. UNCHANGED <<to_device, sessionVars, last_frame>> /\ now' = now + 1
    BY <1>8 DEF Tick, linkVars
  <2> QED
    BY <1>4, <1>8, <2>1, TakesOne DEF sessionVars, SessionTyped, HeardInv, GrantedInv
<1> QED
  BY <1>1, <1>2, <1>3, <1>5, <1>6, <1>7, <1>8 DEF TimeoutMoves, ServerNext

LEMMA NextTimeout == TimeoutInv /\ [TimeoutNext]_timeoutVars => TimeoutInv'
<1> SUFFICES ASSUME TimeoutInv, [TimeoutNext]_timeoutVars
             PROVE  TimeoutInv'
  OBVIOUS
<1> USE DEF TimeoutInv, SessionTyped, HeardInv, GrantedInv
<1>1. CASE HostWrites
  <2>1. PICK m \in Frames : to_device' = Append(to_device, m)
    BY <1>1 DEF HostWrites
  <2> QED
    BY <1>1, <2>1, FramesAssumption DEF HostWrites, deviceVars, sessionVars
<1>2. CASE HostReads
  BY <1>2 DEF HostReads, deviceVars, sessionVars
<1>3. CASE TimeoutMoves
  BY <1>3, DeviceTimeout
<1>4. CASE UNCHANGED timeoutVars
  BY <1>4 DEF timeoutVars, linkVars, deviceVars, sessionVars
<1> QED
  BY <1>1, <1>2, <1>3, <1>4 DEF TimeoutNext

\* last_frame, has_timeout and attach_timeout tell, at any time, when the host
\* was last heard and what it asked for in its last rpc.attach (handle_frame_,
\* builtin_attach_ and builtin_detach_ of server.h).
THEOREM TimeoutRemembered == TimeoutSpec => []TimeoutInv
BY InitTimeout, NextTimeout, PTL DEF TimeoutSpec

-----------------------------------------------------------------------------
(* check_attach_timeout_.                                                    *)

\* What the code computes from the two clock readings is the silence, modulo
\* the span of the clock.
LEMMA SilenceMeasured ==
  ASSUME TimeoutInv
  PROVE  /\ Silence \in Nat
         /\ TimeoutPassed <=> Silence % ClockSpan >= attach_timeout
         /\ Silence % ClockSpan <= Silence
         /\ Silence < ClockSpan => Silence % ClockSpan = Silence
<1>1. ClockSpan \in Nat \ {0} /\ now \in Nat /\ heard \in 0 .. now
  BY ServerAssumption DEF TimeoutInv, HeardInv
<1>2. Silence \in Nat
  BY <1>1 DEF Silence
<1>3. (now_ms + ClockSpan - last_frame) % ClockSpan = Silence % ClockSpan
  BY <1>1, WrappedDifference DEF TimeoutInv, HeardInv, Silence, now_ms
<1> QED
  BY <1>1, <1>2, <1>3, SmallRemainder DEF TimeoutPassed

\* poll() detaches only a host that asked for a timeout in its last rpc.attach
\* and has sent no frame for that long, wherever the clock stands
\* (check_attach_timeout_, server.h).
THEOREM NoHastyDetach == TimeoutSpec => TimedDetachIsDue
<1>1. TimeoutInv /\ [TimeoutNext]_timeoutVars
        => [PollEnds /\ attached /\ ~attached' => granted > 0 /\ Silence >= granted]_timeoutVars
  <2> SUFFICES ASSUME TimeoutInv, PollEnds, attached, ~attached'
               PROVE  granted > 0 /\ Silence >= granted
    OBVIOUS
  <2>1. has_timeout /\ TimeoutPassed
    BY DEF PollEnds, sessionVars
  <2>2. granted > 0 /\ attach_timeout = granted /\ granted \in Nat
    BY <2>1 DEF TimeoutInv, GrantedInv
  <2>3. /\ Silence \in Nat /\ Silence % ClockSpan >= attach_timeout
        /\ Silence % ClockSpan <= Silence
    BY <2>1, SilenceMeasured
  <2>4. Silence % ClockSpan \in Nat
    BY <2>3, ServerAssumption
  <2> QED
    BY <2>2, <2>3, <2>4
<1> QED
  BY <1>1, TimeoutRemembered, PTL DEF TimeoutSpec, TimedDetachIsDue

\* A poll() that ends while the host has been silent for the timeout it asked
\* for, and for less than a turn of the clock, detaches it
\* (check_attach_timeout_, server.h).
THEOREM SilenceIsNoticed == TimeoutSpec => SilenceDetaches
<1>1. TimeoutInv /\ [TimeoutNext]_timeoutVars
        => [PollEnds /\ attached /\ granted > 0 /\ Silence \in granted .. ClockSpan - 1
              => ~attached']_timeoutVars
  <2> SUFFICES ASSUME TimeoutInv, PollEnds, attached, granted > 0,
                      Silence \in granted .. ClockSpan - 1
               PROVE  ~attached'
    OBVIOUS
  <2>1. has_timeout /\ attach_timeout = granted /\ granted \in Nat
    BY DEF TimeoutInv, GrantedInv
  <2>2. Silence \in Nat /\ Silence >= granted /\ Silence < ClockSpan
    BY <2>1, SilenceMeasured, ServerAssumption
  <2>3. TimeoutPassed
    BY <2>1, <2>2, SilenceMeasured
  <2> QED
    BY <2>1, <2>3 DEF PollEnds, Detach
<1> QED
  BY <1>1, TimeoutRemembered, PTL DEF TimeoutSpec, SilenceDetaches
=============================================================================
