----------------------------- MODULE CobsProofs -----------------------------
(***************************************************************************)
(* Proofs about the COBS codec, for every width of a byte, length of a     *)
(* message, capacity and block.                                            *)
(*                                                                         *)
(* What makes a block the encoding of a message is stated here without     *)
(* recursion, by a map of the block's code bytes: m has the positions of   *)
(* the code bytes (counted from 0) for its domain and says, for each, how  *)
(* many bytes of the message come before its group.  The encoder extends   *)
(* the map by one group at a time, the decoder follows it.                 *)
(***************************************************************************)
EXTENDS Cobs, SequenceTheorems, TLAPS

-----------------------------------------------------------------------------
(* The encoder                                                              *)

Encoders(cap) == [out : [0 .. cap - 1 -> Octet], cap : {cap}, encode : Nat, codep : Nat,
                  code : Octet, ok : BOOLEAN]

\* What put_one may do to an encoder.
Full(f) == ~f.ok

Copied(e, f, b) ==
  /\ b # 0 /\ e.encode < e.cap /\ e.code + 1 # MaxCode
  /\ f.out = [e.out EXCEPT ![e.encode] = b]
  /\ f.encode = e.encode + 1 /\ f.code = e.code + 1 /\ f.codep = e.codep

Filled(e, f, b, more) ==
  /\ b # 0 /\ e.encode < e.cap /\ e.code + 1 = MaxCode /\ e.codep < e.cap
  /\ f.out = [[e.out EXCEPT ![e.encode] = b] EXCEPT ![e.codep] = MaxCode]
  /\ f.encode = (IF more THEN e.encode + 2 ELSE e.encode + 1)
  /\ f.code = 1 /\ f.codep = e.encode + 1

Closed(e, f, b) ==
  /\ b = 0 /\ e.codep < e.cap
  /\ f.out = [e.out EXCEPT ![e.codep] = e.code]
  /\ f.encode = e.encode + 1 /\ f.code = 1 /\ f.codep = e.encode

\* The fields of an encoder that was written to, and may have moved.
Written(e, i, b, encode, code, codep) ==
  [e EXCEPT !.out[i] = b, !.encode = encode, !.code = code, !.codep = codep]

LEMMA Moved ==
  ASSUME NEW cap \in Nat, NEW e \in Encoders(cap),
         NEW i \in Nat, NEW b \in Octet,
         NEW encode \in Nat, NEW codep \in Nat, NEW code \in Octet,
         NEW f, f = Written(e, i, b, encode, code, codep)
  PROVE  /\ f \in Encoders(cap) /\ (f.ok <=> e.ok)
         /\ f.out = [e.out EXCEPT ![i] = b]
         /\ f.encode = encode /\ f.code = code /\ f.codep = codep
<1>1. PICK out : out = [e.out EXCEPT ![i] = b]
  OBVIOUS
<1>2. out \in [0 .. cap - 1 -> Octet]
  BY <1>1 DEF Encoders
<1>3. f = [e EXCEPT !.out = out, !.encode = encode, !.code = code, !.codep = codep]
  BY <1>1 DEF Written
<1> QED
  BY <1>1, <1>2, <1>3 DEF Encoders

LEMMA Refused ==
  ASSUME NEW cap \in Nat, NEW e \in Encoders(cap), NEW f, f = [e EXCEPT !.ok = FALSE]
  PROVE  /\ f \in Encoders(cap) /\ ~f.ok
         /\ f.encode = e.encode /\ f.code = e.code /\ f.codep = e.codep
BY DEF Encoders

LEMMA PutOneKinds ==
  ASSUME NEW cap \in Nat, NEW e \in Encoders(cap), e.ok, e.code < MaxCode,
         NEW b \in Octet, NEW more \in BOOLEAN,
         NEW f, f = put_one(e, b, more)
  PROVE  /\ f \in Encoders(cap)
         /\ \/ /\ ~f.ok
               /\ f.codep = e.codep
               /\ \/ f.encode = e.encode /\ f.code = e.code
                  \/ f.encode = e.encode + 1 /\ f.code = e.code + 1 /\ e.encode < cap
            \/ f.ok /\ Copied(e, f, b)
            \/ f.ok /\ Filled(e, f, b, more)
            \/ f.ok /\ Closed(e, f, b)
<1>1. /\ e.out \in [0 .. cap - 1 -> Octet] /\ e.cap = cap /\ e.encode \in Nat /\ e.codep \in Nat
      /\ e.code \in Octet /\ e.code \in Nat /\ MaxCode \in Octet /\ 1 \in Octet /\ MaxCode \in Nat
      /\ e.code # MaxCode
  BY CobsAssumption DEF Encoders, Octet
<1>2. PICK d : d = PutData(e, b)
  OBVIOUS
<1>3. CASE b = 0
  <2>1. d = e
    BY <1>2, <1>3 DEF PutData
  <2>2. f = CloseGroup(e, b, more)
    BY <1>2, <2>1 DEF put_one
  <2>3. CASE e.codep >= e.cap
    <3>1. f = [e EXCEPT !.ok = FALSE]
      BY <1>3, <2>2, <2>3 DEF CloseGroup
    <3> QED
      BY <3>1, Refused
  <2>4. CASE ~(e.codep >= e.cap)
    <3>1. f = [e EXCEPT !.out[e.codep] = e.code, !.code = 1, !.codep = e.encode,
                        !.encode = e.encode + 1]
      BY <1>3, <2>2, <2>4 DEF CloseGroup, ReservesSlot
    <3>2. PICK i, x, n, k, p : i = e.codep /\ x = e.code /\ n = e.encode + 1 /\ k = 1 /\ p = e.encode
      OBVIOUS
    <3>3. f = Written(e, i, x, n, k, p)
      BY <3>1, <3>2, Zenon DEF Written
    <3>4. i \in Nat /\ x \in Octet /\ n \in Nat /\ p \in Nat /\ k \in Octet /\ e \in Encoders(cap)
      BY <1>1, <3>2
    <3>5. /\ f \in Encoders(cap) /\ (f.ok <=> e.ok)
          /\ f.out = [e.out EXCEPT ![i] = x] /\ f.encode = n /\ f.code = k /\ f.codep = p
      BY <3>3, <3>4, Moved, SMTT(30)
    <3>6. f.ok /\ Closed(e, f, b)
      BY <1>1, <1>3, <2>4, <3>2, <3>5 DEF Closed
    <3> QED
      BY <3>5, <3>6
  <2> QED
    BY <2>3, <2>4
<1>4. CASE b # 0
  <2>1. CASE e.encode >= e.cap
    <3>1. d = [e EXCEPT !.ok = FALSE]
      BY <1>2, <1>4, <2>1 DEF PutData
    <3>2. f = d
      BY <1>2, <3>1 DEF put_one, Encoders
    <3> QED
      BY <3>1, <3>2, Refused
  <2>2. CASE ~(e.encode >= e.cap)
    <3>1. d = [e EXCEPT !.out[e.encode] = b, !.encode = e.encode + 1, !.code = e.code + 1]
      BY <1>2, <1>4, <2>2 DEF PutData
    <3>2. e.code + 1 \in Octet /\ e.encode \in 0 .. cap - 1
      BY <1>1, <2>2, CobsAssumption DEF Octet
    <3>3. /\ d \in Encoders(cap) /\ d.ok
          /\ d.out = [e.out EXCEPT ![e.encode] = b] /\ d.out \in [0 .. cap - 1 -> Octet]
          /\ d.encode = e.encode + 1 /\ d.code = e.code + 1 /\ d.codep = e.codep /\ d.cap = cap
      <4>1. PICK i, n, k, p : i = e.encode /\ n = e.encode + 1 /\ k = e.code + 1 /\ p = e.codep
        OBVIOUS
      <4>2. i \in Nat /\ n \in Nat /\ k \in Octet /\ p \in Nat
        BY <1>1, <3>2, <4>1
      <4>3. d = Written(e, i, b, n, k, p)
        <5>1. PICK new : new = [e.out EXCEPT ![i] = b]
          OBVIOUS
        <5>2. d = [e EXCEPT !.out = new, !.encode = n, !.code = k]
          BY <3>1, <4>1, <5>1
        <5> QED
          BY <4>1, <5>1, <5>2 DEF Encoders, Written
      <4>4. /\ d \in Encoders(cap) /\ (d.ok <=> e.ok)
            /\ d.out = [e.out EXCEPT ![i] = b] /\ d.encode = n /\ d.code = k /\ d.codep = p
        BY <4>2, <4>3, Moved
      <4>5. d.out \in [0 .. cap - 1 -> Octet] /\ d.cap = cap
        BY <4>4 DEF Encoders
      <4> QED
        BY <4>1, <4>4, <4>5
    <3>4. f = CloseGroup(d, b, more)
      BY <1>2, <3>3 DEF put_one
    <3>5. CASE d.code # MaxCode
      <4>1. f = d
        BY <1>4, <3>4, <3>5 DEF CloseGroup
      <4> QED
        BY <1>1, <1>4, <2>2, <3>3, <3>5, <4>1 DEF Copied
    <3>6. CASE d.code = MaxCode /\ d.codep >= d.cap
      <4>1. f = [d EXCEPT !.ok = FALSE]
        BY <3>4, <3>6 DEF CloseGroup
      <4>2. /\ f \in Encoders(cap) /\ ~f.ok
            /\ f.encode = d.encode /\ f.code = d.code /\ f.codep = d.codep
        BY <3>3, <4>1, Refused
      <4> QED
        BY <1>1, <2>2, <3>3, <4>2
    <3>7. CASE d.code = MaxCode /\ ~(d.codep >= d.cap)
      <4>1. f = [d EXCEPT !.out[d.codep] = d.code, !.code = 1, !.codep = d.encode,
                          !.encode = IF more THEN d.encode + 1 ELSE d.encode]
        BY <1>4, <3>4, <3>7 DEF CloseGroup, ReservesSlot
      <4>2. /\ f \in Encoders(cap) /\ f.ok
            /\ f.out = [d.out EXCEPT ![d.codep] = d.code]
            /\ f.encode = (IF more THEN d.encode + 1 ELSE d.encode)
            /\ f.code = 1 /\ f.codep = d.encode
        <5>1. PICK to : to = IF more THEN d.encode + 1 ELSE d.encode
          OBVIOUS
        <5>2. /\ to \in Nat /\ d.encode \in Nat /\ d.codep \in Nat /\ d.code \in Octet
              /\ 1 \in Octet
          BY <1>1, <3>3, <5>1 DEF Encoders
        <5>3. PICK i, x, k, p : i = d.codep /\ x = d.code /\ k = 1 /\ p = d.encode
          OBVIOUS
        <5>4. f = Written(d, i, x, to, k, p)
          BY <4>1, <5>1, <5>3, Zenon DEF Written
        <5>5. /\ f \in Encoders(cap) /\ (f.ok <=> d.ok)
              /\ f.out = [d.out EXCEPT ![i] = x] /\ f.encode = to /\ f.code = k /\ f.codep = p
          <6>1. i \in Nat /\ x \in Octet /\ p \in Nat /\ to \in Nat /\ k \in Octet /\ d \in Encoders(cap)
            BY <3>3, <5>2, <5>3
          <6> QED
            BY <5>4, <6>1, Moved, SMTT(30)
        <5> QED
          BY <3>3, <5>1, <5>3, <5>5
      <4> QED
        BY <1>1, <1>4, <2>2, <3>3, <3>7, <4>2 DEF Filled
    <3> QED
      BY <3>5, <3>6, <3>7
  <2> QED
    BY <2>1, <2>2
<1> QED
  BY <1>3, <1>4

-----------------------------------------------------------------------------
(* The map of the groups                                                    *)

\* The group at c, of which the code byte and the data are in out, says what
\* the message M has from m[c] on.
GroupOf(m, out, M, c, k) ==
  /\ k \in 1 .. MaxCode /\ c + k \in DOMAIN m
  /\ m[c] + k - 1 <= Len(M)
  /\ \A j \in 1 .. k - 1 : out[c + j] # 0 /\ out[c + j] = M[m[c] + j]
  /\ IF k = MaxCode THEN m[c + k] = m[c] + k - 1
     ELSE m[c + k] = m[c] + k /\ M[m[c] + k] = 0

Group(m, out, M, c) == GroupOf(m, out, M, c, out[c])

\* The groups before p are complete.
Chain(m, out, M, p) ==
  /\ 0 \in DOMAIN m /\ m[0] = 0 /\ p \in DOMAIN m
  /\ \A c \in DOMAIN m : c \in 0 .. p /\ m[c] \in 0 .. Len(M) /\ m[c] <= c
  /\ \A c \in DOMAIN m : c # p => Group(m, out, M, c)

LEMMA ChainKeeps ==
  ASSUME NEW m, NEW out, NEW M \in Seq(Octet), NEW p \in Nat, Chain(m, out, M, p),
         NEW out2, \A i \in 0 .. p - 1 : out2[i] = out[i],
         NEW M2 \in Seq(Octet), Len(M2) >= Len(M), \A i \in 1 .. Len(M) : M2[i] = M[i]
  PROVE  Chain(m, out2, M2, p)
<1>1. \A c \in DOMAIN m : c \in 0 .. p /\ m[c] \in 0 .. Len(M) /\ m[c] <= c
  BY DEF Chain
<1>2. ASSUME NEW c \in DOMAIN m, c # p
      PROVE  Group(m, out2, M2, c)
  <2>1. Group(m, out, M, c) /\ c \in 0 .. p - 1 /\ m[c] \in 0 .. Len(M)
    BY <1>1, <1>2 DEF Chain
  <2>2. PICK k : k = out[c]
    OBVIOUS
  <2>3. /\ k \in 1 .. MaxCode /\ c + k \in DOMAIN m
        /\ m[c] + k - 1 <= Len(M)
        /\ \A j \in 1 .. k - 1 : out[c + j] # 0 /\ out[c + j] = M[m[c] + j]
        /\ IF k = MaxCode THEN m[c + k] = m[c] + k - 1
           ELSE m[c + k] = m[c] + k /\ M[m[c] + k] = 0
    BY <2>1, <2>2 DEF Group, GroupOf
  <2>4. c + k <= p /\ c + k \in Nat /\ m[c + k] <= Len(M) /\ out2[c] = k
    BY <1>1, <2>1, <2>2, <2>3, SMTT(30)
  <2>5. \A j \in 1 .. k - 1 : out2[c + j] = out[c + j] /\ M2[m[c] + j] = M[m[c] + j]
    <3> SUFFICES ASSUME NEW j \in 1 .. k - 1
                 PROVE  out2[c + j] = out[c + j] /\ M2[m[c] + j] = M[m[c] + j]
      OBVIOUS
    <3>1. c + j \in 0 .. p - 1 /\ m[c] + j \in 1 .. Len(M)
      BY <2>1, <2>3, <2>4, CobsAssumption, SMTT(30)
    <3> QED
      BY <3>1
  <2>6. k # MaxCode => M2[m[c] + k] = 0
    <3> SUFFICES ASSUME k # MaxCode PROVE M2[m[c] + k] = 0
      OBVIOUS
    <3>1. m[c] + k \in 1 .. Len(M)
      BY <2>1, <2>3, <2>4, CobsAssumption
    <3> QED
      BY <2>3, <3>1
  <2>7. GroupOf(m, out2, M2, c, k)
    <3>1. m[c] + k - 1 <= Len(M2)
      BY <2>1, <2>3, CobsAssumption
    <3>2. \A j \in 1 .. k - 1 : out2[c + j] # 0 /\ out2[c + j] = M2[m[c] + j]
      BY <2>3, <2>5
    <3> QED
      BY <2>3, <2>6, <3>1, <3>2 DEF GroupOf
  <2> QED
    BY <2>4, <2>7 DEF Group
<1> QED
  BY <1>1, <1>2 DEF Chain

\* The group at p, from q in the message, is completed with the code k.
Completes(m, out, M, p, k, q, v) ==
  /\ k = out[p] /\ k \in 1 .. MaxCode /\ q = m[p]
  /\ v \in 0 .. Len(M) /\ v = IF k = MaxCode THEN q + k - 1 ELSE q + k
  /\ \A j \in 1 .. k - 1 : out[p + j] # 0 /\ out[p + j] = M[q + j]
  /\ k # MaxCode => M[v] = 0

\* Then there is a map with one more group, the only one that ends at p + k.
Grown(out, M, p, k, v) ==
  \E n : /\ Chain(n, out, M, p + k) /\ n[p + k] = v
         /\ \A c \in DOMAIN n : c # p + k /\ c + out[c] = p + k => c = p

LEMMA ChainGrows ==
  ASSUME NEW m, NEW out, NEW M \in Seq(Octet), NEW p \in Nat, Chain(m, out, M, p),
         NEW k, NEW q, NEW v, Completes(m, out, M, p, k, q, v)
  PROVE  Grown(out, M, p, k, v)
<1> DEFINE n == [c \in DOMAIN m \cup {p + k} |-> IF c = p + k THEN v ELSE m[c]]
<1>0. /\ k = out[p] /\ k \in 1 .. MaxCode /\ q = m[p]
      /\ v \in 0 .. Len(M) /\ v = IF k = MaxCode THEN q + k - 1 ELSE q + k
      /\ \A j \in 1 .. k - 1 : out[p + j] # 0 /\ out[p + j] = M[q + j]
      /\ k # MaxCode => M[v] = 0
  BY DEF Completes
<1>1. /\ \A c \in DOMAIN m : c \in 0 .. p /\ m[c] \in 0 .. Len(M) /\ m[c] <= c
      /\ 0 \in DOMAIN m /\ m[0] = 0 /\ p \in DOMAIN m
  BY DEF Chain
<1>2. k \in Nat \ {0} /\ p + k \in Nat /\ p + k \notin DOMAIN m /\ k <= MaxCode
  BY <1>0, <1>1, CobsAssumption, SMTT(30)
<1>3. /\ DOMAIN n = DOMAIN m \cup {p + k} /\ n[p + k] = v
      /\ \A c \in DOMAIN m : n[c] = m[c]
  BY <1>2
<1> HIDE DEF n
<1>4. ASSUME NEW c \in DOMAIN n
      PROVE  c \in 0 .. p + k /\ n[c] \in 0 .. Len(M) /\ n[c] <= c
  <2>1. CASE c = p + k
    <3>1. m[p] \in Nat /\ m[p] <= p /\ v \in Nat
      BY <1>0, <1>1
    <3> QED
      BY <1>0, <1>2, <1>3, <2>1, <3>1, SMTT(30)
  <2>2. CASE c \in DOMAIN m
    BY <1>1, <1>2, <1>3, <2>2
  <2> QED
    BY <1>3, <2>1, <2>2
<1>5. ASSUME NEW c \in DOMAIN m, c # p
      PROVE  Group(n, out, M, c) /\ c + out[c] \in DOMAIN m
  <2>1. Group(m, out, M, c) /\ c + out[c] \in DOMAIN m
    BY <1>5 DEF Chain, Group, GroupOf
  <2>2. n[c] = m[c] /\ n[c + out[c]] = m[c + out[c]] /\ c + out[c] \in DOMAIN n
    BY <1>3, <2>1
  <2> QED
    BY <2>1, <2>2 DEF Group, GroupOf
<1>6. Group(n, out, M, p)
  <2>1. n[p] = m[p] /\ p + k \in DOMAIN n /\ m[p] \in Nat
    BY <1>1, <1>3
  <2>2. m[p] + k - 1 <= Len(M)
    BY <1>0, <1>2, <2>1
  <2>3. GroupOf(n, out, M, p, k)
    BY <1>0, <1>3, <2>1, <2>2 DEF GroupOf
  <2> QED
    BY <1>0, <2>3 DEF Group
<1>7. Chain(n, out, M, p + k)
  <2>1. 0 \in DOMAIN n /\ n[0] = 0 /\ p + k \in DOMAIN n
    BY <1>1, <1>3
  <2>2. \A c \in DOMAIN n : c # p + k => Group(n, out, M, c)
    BY <1>3, <1>5, <1>6
  <2> QED
    BY <1>4, <2>1, <2>2 DEF Chain
<1>8. \A c \in DOMAIN n : c # p + k /\ c + out[c] = p + k => c = p
  BY <1>2, <1>3, <1>5
<1> QED
  BY <1>3, <1>7, <1>8 DEF Grown

-----------------------------------------------------------------------------
(* The encoder's invariant                                                  *)

\* Where the cursors are; only at the end of a message may the slot of the
\* next code byte not be reserved.
Placed(e, ended) ==
  /\ e.encode \in 1 .. e.cap + 1 /\ e.codep \in 0 .. e.cap /\ e.code \in 1 .. MaxCode
  /\ e.ok => /\ e.code < MaxCode
             /\ e.code > 1 => e.encode <= e.cap
             /\ \/ e.encode = e.codep + e.code
                \/ ended /\ e.encode = e.codep /\ e.code = 1

\* The group in the making.
OpenGroup(m, e, M) ==
  /\ e.codep < e.encode /\ m[e.codep] + e.code - 1 = Len(M)
  /\ \A j \in 1 .. e.code - 1 :
       e.out[e.codep + j] # 0 /\ e.out[e.codep + j] = M[m[e.codep] + j]

\* There is none: the last one was full.
NoGroup(m, e, M) ==
  /\ e.codep = e.encode /\ m[e.codep] = Len(M)
  /\ \A c \in DOMAIN m : c # e.codep /\ c + e.out[c] = e.codep => e.out[c] = MaxCode

Coded(e, M) == \E m : /\ Chain(m, e.out, M, e.codep)
                      /\ OpenGroup(m, e, M) \/ NoGroup(m, e, M)

LEMMA PutOnePlaced ==
  ASSUME NEW cap \in Nat, NEW e \in Encoders(cap), e.ok, Placed(e, FALSE),
         NEW b \in Octet, NEW more \in BOOLEAN,
         NEW f, f = put_one(e, b, more)
  PROVE  f \in Encoders(cap) /\ Placed(f, ~more)
<1>1. /\ e.cap = cap /\ e.encode \in Nat /\ e.codep \in Nat /\ e.code \in 1 .. MaxCode
      /\ e.code < MaxCode /\ e.encode = e.codep + e.code
      /\ e.code > 1 => e.encode <= cap
      /\ e.codep <= cap /\ e.encode <= cap + 1 /\ MaxCode \in Nat /\ MaxCode >= 2
  BY CobsAssumption DEF Placed, Encoders
<1>2. /\ f \in Encoders(cap) /\ f.cap = cap
      /\ \/ /\ ~f.ok
            /\ f.codep = e.codep
            /\ \/ f.encode = e.encode /\ f.code = e.code
               \/ f.encode = e.encode + 1 /\ f.code = e.code + 1 /\ e.encode < cap
         \/ f.ok /\ Copied(e, f, b)
         \/ f.ok /\ Filled(e, f, b, more)
         \/ f.ok /\ Closed(e, f, b)
  <2>1. f \in Encoders(cap) => f.cap = cap
    BY DEF Encoders
  <2> QED
    BY <1>1, <2>1, PutOneKinds
<1>3. CASE ~f.ok
  <2>1. /\ f.codep = e.codep
        /\ \/ f.encode = e.encode /\ f.code = e.code
           \/ f.encode = e.encode + 1 /\ f.code = e.code + 1 /\ e.encode < cap
    BY <1>2, <1>3
  <2> QED
    BY <1>1, <1>2, <1>3, <2>1 DEF Placed
<1>4. CASE f.ok /\ Copied(e, f, b)
  BY <1>1, <1>2, <1>4 DEF Placed, Copied
<1>5. CASE f.ok /\ Filled(e, f, b, more)
  BY <1>1, <1>2, <1>5 DEF Placed, Filled
<1>6. CASE f.ok /\ Closed(e, f, b)
  <2>1. e.encode <= cap
    BY <1>1, <1>6 DEF Closed
  <2> QED
    BY <1>1, <1>2, <1>6, <2>1 DEF Placed, Closed
<1> QED
  BY <1>2, <1>3, <1>4, <1>5, <1>6

LEMMA PutOneCodes ==
  ASSUME NEW cap \in Nat, NEW e \in Encoders(cap), e.ok, Placed(e, FALSE),
         NEW M \in Seq(Octet), Coded(e, M),
         NEW b \in Octet, NEW more \in BOOLEAN,
         NEW f, f = put_one(e, b, more), f.ok
  PROVE  Coded(f, Append(M, b))
<1>1. /\ e.out \in [0 .. cap - 1 -> Octet]
      /\ e.cap = cap /\ e.encode \in Nat /\ e.codep \in Nat /\ e.code \in 1 .. MaxCode
      /\ e.code < MaxCode /\ e.encode = e.codep + e.code
      /\ e.code > 1 => e.encode <= cap
      /\ MaxCode \in Nat /\ MaxCode >= 2 /\ e.code \in Nat \ {0}
  BY CobsAssumption DEF Placed, Encoders
<1>2. PICK m : Chain(m, e.out, M, e.codep) /\ OpenGroup(m, e, M)
  BY <1>1 DEF Coded, NoGroup
<1>3. PICK M2 : M2 = Append(M, b)
  OBVIOUS
<1>4. /\ M2 \in Seq(Octet) /\ Len(M2) = Len(M) + 1 /\ Len(M) \in Nat
      /\ \A i \in 1 .. Len(M) : M2[i] = M[i]
      /\ M2[Len(M) + 1] = b
  BY <1>3
<1>5. PICK p, k, o, o2 : p = e.codep /\ k = e.code /\ o = e.out /\ o2 = f.out
  OBVIOUS
<1>6. /\ p \in Nat /\ k \in Nat \ {0} /\ e.encode = p + k /\ k < MaxCode
      /\ k > 1 => p + k <= cap
      /\ o \in [0 .. cap - 1 -> Octet]
  BY <1>1, <1>5
<1>7. PICK q : q = m[p]
  OBVIOUS
<1>8. /\ Chain(m, o, M, p) /\ q \in Nat /\ q + k - 1 = Len(M)
      /\ \A j \in 1 .. k - 1 : o[p + j] # 0 /\ o[p + j] = M[q + j]
  BY <1>2, <1>5, <1>7 DEF OpenGroup, Chain
<1>9. /\ q + k = Len(M) + 1 /\ q + k = Len(M2) /\ q + k \in 0 .. Len(M2)
      /\ q \in Nat /\ M2[q + k] = b
  BY <1>4, <1>6, <1>8
<1>10. ASSUME NEW j \in 1 .. k - 1
       PROVE  o[p + j] # 0 /\ o[p + j] = M2[q + j]
  <2>1. q + j \in 1 .. Len(M)
    BY <1>6, <1>8
  <2> QED
    BY <1>4, <1>8, <2>1
<1>11. \A x : (\A i \in 0 .. p - 1 : x[i] = o[i]) => Chain(m, x, M2, p)
  <2>1. Len(M2) >= Len(M) /\ \A i \in 1 .. Len(M) : M2[i] = M[i]
    BY <1>4
  <2> QED
    BY <1>4, <1>6, <1>8, <2>1, ChainKeeps, Zenon
<1>12. CASE Copied(e, f, b)
  <2>1. /\ b # 0 /\ p + k < cap /\ o2 = [o EXCEPT ![p + k] = b]
        /\ f.encode = p + k + 1 /\ f.code = k + 1 /\ f.codep = p
    BY <1>1, <1>5, <1>6, <1>12 DEF Copied
  <2>2. \A i \in 0 .. cap - 1 : o2[i] = IF i = p + k THEN b ELSE o[i]
    BY <1>6, <2>1
  <2>3. Chain(m, o2, M2, p)
    <3>1. \A i \in 0 .. p - 1 : o2[i] = o[i]
      BY <1>6, <2>1, <2>2
    <3> QED
      BY <3>1, <1>11
  <2>4. \A j \in 1 .. k : o2[p + j] # 0 /\ o2[p + j] = M2[q + j]
    <3> SUFFICES ASSUME NEW j \in 1 .. k
                 PROVE  o2[p + j] # 0 /\ o2[p + j] = M2[q + j]
      OBVIOUS
    <3>1. p + j \in 0 .. cap - 1
      BY <1>6, <2>1
    <3>2. CASE j = k
      BY <1>9, <2>1, <2>2, <3>1, <3>2
    <3>3. CASE j \in 1 .. k - 1
      <4>1. p + j # p + k
        BY <1>6, <3>3
      <4> QED
        BY <1>10, <2>2, <3>1, <3>3, <4>1
    <3> QED
      BY <1>6, <3>2, <3>3
  <2>5. OpenGroup(m, f, M2)
    <3>1. p < p + k + 1 /\ q + (k + 1) - 1 = Len(M2) /\ (k + 1) - 1 = k
      BY <1>6, <1>9
    <3> QED
      BY <1>5, <1>7, <2>1, <2>4, <3>1 DEF OpenGroup
  <2> QED
    BY <1>3, <1>5, <2>1, <2>3, <2>5 DEF Coded
<1>13. CASE Filled(e, f, b, more)
  <2>1. /\ b # 0 /\ p + k < cap /\ k + 1 = MaxCode /\ p < cap
        /\ o2 = [[o EXCEPT ![p + k] = b] EXCEPT ![p] = MaxCode]
        /\ f.encode = (IF more THEN p + k + 2 ELSE p + k + 1)
        /\ f.code = 1 /\ f.codep = p + k + 1
    BY <1>1, <1>5, <1>6, <1>13 DEF Filled
  <2>2. \A i \in 0 .. cap - 1 :
          o2[i] = IF i = p THEN MaxCode ELSE IF i = p + k THEN b ELSE o[i]
    BY <1>6, <2>1
  <2>3. Chain(m, o2, M2, p)
    <3>1. \A i \in 0 .. p - 1 : o2[i] = o[i]
      BY <1>6, <2>1, <2>2
    <3> QED
      BY <3>1, <1>11
  <2>4. \A j \in 1 .. MaxCode - 1 : o2[p + j] # 0 /\ o2[p + j] = M2[q + j]
    <3> SUFFICES ASSUME NEW j \in 1 .. MaxCode - 1
                 PROVE  o2[p + j] # 0 /\ o2[p + j] = M2[q + j]
      OBVIOUS
    <3>1. p + j \in 0 .. cap - 1 /\ p + j # p
      BY <1>1, <1>6, <2>1
    <3>2. CASE j = k
      BY <1>9, <2>1, <2>2, <3>1, <3>2
    <3>3. CASE j \in 1 .. k - 1
      <4>1. p + j # p + k
        BY <1>6, <3>3
      <4> QED
        BY <1>10, <2>2, <3>1, <3>3, <4>1
    <3> QED
      BY <1>1, <1>6, <2>1, <3>2, <3>3
  <2>5. PICK v : v = Len(M2)
    OBVIOUS
  <2>6. v = q + MaxCode - 1 /\ v \in 0 .. Len(M2)
    BY <1>6, <1>9, <2>1, <2>5, SMTT(30)
  <2>7. PICK n : /\ Chain(n, o2, M2, p + MaxCode) /\ n[p + MaxCode] = v
                 /\ \A c \in DOMAIN n : c # p + MaxCode /\ c + o2[c] = p + MaxCode => c = p
    <3>1. PICK x : x = MaxCode
      OBVIOUS
    <3>2. x = o2[p] /\ x \in 1 .. MaxCode /\ x = MaxCode
      BY <1>1, <1>6, <2>1, <2>2, <3>1
    <3>3. v = IF x = MaxCode THEN q + x - 1 ELSE q + x
      BY <2>6, <3>1
    <3>4. \A j \in 1 .. x - 1 : o2[p + j] # 0 /\ o2[p + j] = M2[q + j]
      BY <2>4, <3>1
    <3> QED
      <4>1. x # MaxCode => M2[v] = 0
        BY <3>1
      <4>2. \E n : /\ Chain(n, o2, M2, p + x) /\ n[p + x] = v
                   /\ \A c \in DOMAIN n : c # p + x /\ c + o2[c] = p + x => c = p
        <5>1. Completes(m, o2, M2, p, x, q, v)
          BY <1>7, <2>6, <3>2, <3>3, <3>4, <4>1 DEF Completes
        <5>2. Grown(o2, M2, p, x, v)
          BY <1>4, <1>6, <2>3, <5>1, ChainGrows
        <5> QED
          BY <5>2 DEF Grown
      <4> QED
        BY <3>1, <4>2
  <2>8. f.codep = p + MaxCode /\ o2[p] = MaxCode
    BY <1>1, <1>6, <2>1, <2>2
  <2>9. CASE more
    <3>1. f.codep < f.encode
      BY <1>1, <1>6, <2>1, <2>9
    <3>2. n[f.codep] + f.code - 1 = Len(M2)
      BY <1>4, <2>1, <2>5, <2>7, <2>8
    <3>3. OpenGroup(n, f, M2)
      BY <2>1, <3>1, <3>2 DEF OpenGroup
    <3> QED
      BY <1>3, <1>5, <2>7, <2>8, <3>3 DEF Coded
  <2>10. CASE ~more
    <3>1. f.codep = f.encode
      BY <1>1, <1>6, <2>1, <2>10
    <3>2. NoGroup(n, f, M2)
      BY <1>5, <2>5, <2>7, <2>8, <3>1 DEF NoGroup
    <3> QED
      BY <1>3, <1>5, <2>7, <2>8, <3>2 DEF Coded
  <2> QED
    BY <2>9, <2>10
<1>14. CASE Closed(e, f, b)
  <2>1. /\ b = 0 /\ p < cap /\ o2 = [o EXCEPT ![p] = k]
        /\ f.encode = p + k + 1 /\ f.code = 1 /\ f.codep = p + k
    BY <1>1, <1>5, <1>6, <1>14 DEF Closed
  <2>2. \A i \in 0 .. cap - 1 : i # p => o2[i] = o[i]
    BY <1>6, <2>1
  <2>3. o2[p] = k
    BY <1>6, <2>1
  <2>4. Chain(m, o2, M2, p)
    <3>1. \A i \in 0 .. p - 1 : o2[i] = o[i]
      BY <1>6, <2>1, <2>2
    <3> QED
      BY <3>1, <1>11
  <2>5. \A j \in 1 .. k - 1 : o2[p + j] # 0 /\ o2[p + j] = M2[q + j]
    <3> SUFFICES ASSUME NEW j \in 1 .. k - 1
                 PROVE  o2[p + j] # 0 /\ o2[p + j] = M2[q + j]
      OBVIOUS
    <3>1. p + j \in 0 .. cap - 1 /\ p + j # p
      BY <1>6
    <3> QED
      BY <1>7, <1>8, <1>10, <2>2, <3>1
  <2>6. PICK v : v = Len(M2)
    OBVIOUS
  <2>7. v = q + k /\ v \in 0 .. Len(M2) /\ M2[v] = 0
    BY <1>4, <1>9, <2>1, <2>6
  <2>8. PICK n : Chain(n, o2, M2, p + k) /\ n[p + k] = v
    <3>1. k = o2[p] /\ k \in 1 .. MaxCode /\ k # MaxCode
          /\ (k # MaxCode => M2[v] = 0)
      BY <1>1, <1>6, <2>3, <2>7
    <3>2. v = IF k = MaxCode THEN q + k - 1 ELSE q + k
      BY <2>7, <3>1
    <3> QED
      <4>1. Completes(m, o2, M2, p, k, q, v)
        BY <1>7, <2>5, <2>7, <3>1, <3>2 DEF Completes
      <4>2. Grown(o2, M2, p, k, v)
        BY <1>4, <1>6, <2>4, <4>1, ChainGrows
      <4> QED
        BY <4>2 DEF Grown
  <2>9. OpenGroup(n, f, M2)
    <3>1. f.codep < f.encode
      BY <1>6, <2>1
    <3>2. n[f.codep] + f.code - 1 = Len(M2)
      BY <1>4, <2>1, <2>6, <2>8
    <3> QED
      BY <2>1, <3>1, <3>2 DEF OpenGroup
  <2> QED
    BY <1>3, <1>5, <2>1, <2>8, <2>9 DEF Coded
<1> QED
  BY <1>1, <1>12, <1>13, <1>14, PutOneKinds

-----------------------------------------------------------------------------
(* finish()                                                                 *)

\* The group of the block B at c, in the message from m[c] on; only between
\* two groups can a zero be implied.
BlockGroup(m, B, M, c, k) ==
  /\ k = B[c + 1] /\ k \in 1 .. MaxCode /\ c + k <= Len(B)
  /\ m[c] + k - 1 <= Len(M)
  /\ \A j \in 1 .. k - 1 : B[c + j + 1] # 0 /\ B[c + j + 1] = M[m[c] + j]
  /\ c + k = Len(B) => m[c] + k - 1 = Len(M)
  /\ c + k # Len(B) =>
       /\ c + k \in DOMAIN m
       /\ IF k = MaxCode THEN m[c + k] = m[c] + k - 1
          ELSE m[c + k] = m[c] + k /\ M[m[c] + k] = 0

Encodes(m, B, M) ==
  /\ 0 \in DOMAIN m /\ m[0] = 0
  /\ \A c \in DOMAIN m : /\ c \in 0 .. Len(B) - 1 /\ m[c] \in 0 .. Len(M) /\ m[c] <= c
                         /\ \E k : BlockGroup(m, B, M, c, k)

\* A block of the first bytes of the buffer and the code of the group pending.
Yielded(e, B) ==
  /\ e.ok /\ Len(B) = e.encode /\ e.encode <= e.cap
  /\ (e.codep = e.encode \/ e.encode = e.codep + e.code)
  /\ \E g : /\ \A i \in 1 .. e.encode : B[i] = g[i - 1]
           /\ \A i \in 0 .. e.encode - 1 : (i # e.codep => g[i] = e.out[i])
           /\ (e.codep # e.encode => g[e.codep] = e.code)

\* The bytes finish() returns.
LEMMA FinishYields ==
  ASSUME NEW cap \in Nat, NEW e \in Encoders(cap), Placed(e, TRUE),
         NEW B, B = finish(e)
  PROVE  B \in Seq(Octet) /\ (B = << >> \/ Yielded(e, B))
<1>1. /\ e.out \in [0 .. cap - 1 -> Octet] /\ e.cap = cap /\ e.encode \in Nat \ {0}
      /\ e.codep \in 0 .. cap /\ e.code \in 1 .. MaxCode /\ e.code \in Octet
      /\ e.encode <= cap + 1
  BY CobsAssumption DEF Placed, Encoders
<1>2. CASE ~e.ok \/ (e.codep < e.encode /\ e.codep >= e.cap)
  <2>1. B = << >>
    BY <1>2 DEF finish
  <2> QED
    BY <2>1
<1>3. CASE e.ok /\ ~(e.codep < e.encode /\ e.codep >= e.cap)
  <2> DEFINE flushed == IF e.codep < e.encode THEN [e EXCEPT !.out[e.codep] = e.code] ELSE e
             g       == flushed.out
  <2>1. B = [i \in 1 .. e.encode |-> g[i - 1]]
    BY <1>3 DEF finish
  <2>2. /\ e.codep = e.encode \/ e.encode = e.codep + e.code
        /\ e.encode <= cap
    BY <1>1, <1>3 DEF Placed
  <2>3. /\ g \in [0 .. cap - 1 -> Octet]
        /\ \A i \in 0 .. e.encode - 1 : (i # e.codep => g[i] = e.out[i])
        /\ (e.codep # e.encode => g[e.codep] = e.code)
    <3>1. CASE e.codep < e.encode
      <4>1. g = [e.out EXCEPT ![e.codep] = e.code]
        BY <3>1 DEF Encoders
      <4>2. PICK x, i, k : x = e.out /\ i = e.codep /\ k = e.code
        OBVIOUS
      <4>3. g = [x EXCEPT ![i] = k] /\ x \in [0 .. cap - 1 -> Octet] /\ i \in 0 .. cap - 1
            /\ k \in Octet
        BY <1>1, <1>3, <3>1, <4>1, <4>2
      <4> HIDE DEF g
      <4>4. /\ g \in [0 .. cap - 1 -> Octet] /\ g[i] = k
            /\ \A l \in 0 .. cap - 1 : l # i => g[l] = x[l]
        BY <4>3
      <4> QED
        BY <1>1, <2>2, <4>2, <4>4
    <3>2. CASE ~(e.codep < e.encode)
      <4>1. g = e.out /\ e.codep = e.encode
        BY <1>1, <2>2, <3>2
      <4> QED
        BY <1>1, <4>1
    <3> QED
      BY <3>1, <3>2
  <2> HIDE DEF g
  <2>4. B \in Seq(Octet) /\ Len(B) = e.encode /\ \A i \in 1 .. e.encode : B[i] = g[i - 1]
    <3>1. \A i \in 1 .. e.encode : g[i - 1] \in Octet
      BY <1>1, <2>2, <2>3
    <3> QED
      BY <1>1, <2>1, <3>1
  <2> QED
    <3>1. e.codep # e.encode => g[e.codep] = e.code
      BY <2>3
    <3> QED
      BY <1>1, <1>3, <2>2, <2>3, <2>4, <3>1 DEF Yielded
<1> QED
  BY <1>2, <1>3

LEMMA FinishEncodes ==
  ASSUME NEW cap \in Nat, NEW e \in Encoders(cap), Placed(e, TRUE),
         NEW M \in Seq(Octet), e.ok => Coded(e, M),
         NEW B, B = finish(e), B # << >>
  PROVE  \E m : Encodes(m, B, M)
<1>0. B \in Seq(Octet) /\ Yielded(e, B)
  BY FinishYields
<1>1. /\ B \in Seq(Octet) /\ e.ok /\ Len(B) = e.encode
      /\ (e.codep = e.encode \/ e.encode = e.codep + e.code)
  BY <1>0 DEF Yielded
<1>2. PICK g : /\ \A i \in 1 .. e.encode : B[i] = g[i - 1]
               /\ \A i \in 0 .. e.encode - 1 : (i # e.codep => g[i] = e.out[i])
               /\ (e.codep # e.encode => g[e.codep] = e.code)
  BY <1>0, SMTT(30) DEF Yielded
<1>3. PICK m : Chain(m, e.out, M, e.codep) /\ (OpenGroup(m, e, M) \/ NoGroup(m, e, M))
  BY <1>1 DEF Coded
<1>4. PICK p, k, l, o : p = e.codep /\ k = e.code /\ l = e.encode /\ o = e.out
  OBVIOUS
<1>5. /\ p \in Nat /\ l \in Nat /\ Len(B) = l /\ p <= l /\ k \in 1 .. MaxCode /\ k < MaxCode
      /\ l > 0 /\ MaxCode \in Nat
  BY <1>1, <1>4, CobsAssumption DEF Placed, Encoders
<1>6. /\ \A i \in 0 .. l - 1 : B[i + 1] = g[i]
      /\ \A i \in 0 .. p - 1 : g[i] = o[i]
  <2>1. \A i \in 0 .. l - 1 : i + 1 \in 1 .. l /\ (i + 1) - 1 = i
    BY <1>5
  <2>2. \A i \in 0 .. l - 1 : B[i + 1] = g[i]
    BY <1>2, <1>4, <2>1
  <2>3. \A i \in 0 .. p - 1 : i \in 0 .. l - 1 /\ i # p
    BY <1>5
  <2> QED
    BY <1>2, <1>4, <2>2, <2>3
<1>7. Chain(m, g, M, p)
  <2>1. Chain(m, o, M, p) /\ Len(M) >= Len(M) /\ \A i \in 1 .. Len(M) : M[i] = M[i]
    BY <1>3, <1>4
  <2> QED
    BY <1>5, <1>6, <2>1, ChainKeeps
<1>8. /\ 0 \in DOMAIN m /\ m[0] = 0 /\ p \in DOMAIN m
      /\ \A c \in DOMAIN m : c \in 0 .. p /\ m[c] \in 0 .. Len(M) /\ m[c] <= c
  BY <1>7 DEF Chain
\* A group that is followed by another.
<1>9. ASSUME NEW c \in DOMAIN m, c # p, c + g[c] # l
      PROVE  BlockGroup(m, B, M, c, g[c])
  <2>1. PICK x : x = g[c]
    OBVIOUS
  <2>2. GroupOf(m, g, M, c, x)
    BY <1>7, <1>9, <2>1 DEF Chain, Group
  <2>3. /\ x \in 1 .. MaxCode /\ c + x \in DOMAIN m
        /\ m[c] + x - 1 <= Len(M)
        /\ \A j \in 1 .. x - 1 : g[c + j] # 0 /\ g[c + j] = M[m[c] + j]
        /\ IF x = MaxCode THEN m[c + x] = m[c] + x - 1
           ELSE m[c + x] = m[c] + x /\ M[m[c] + x] = 0
    BY <2>2 DEF GroupOf
  <2>4. c \in Nat /\ c + x <= p /\ c + x <= l /\ x \in Nat \ {0} /\ c + x # l
    <3>1. c \in 0 .. p /\ c + x \in 0 .. p
      BY <1>8, <2>3
    <3> QED
      BY <1>5, <1>9, <2>1, <2>3, <3>1
  <2>5. x = B[c + 1]
    BY <1>5, <1>6, <2>1, <2>4
  <2>6. ASSUME NEW j \in 1 .. x - 1
        PROVE  B[c + j + 1] # 0 /\ B[c + j + 1] = M[m[c] + j]
    <3>1. c + j \in 0 .. l - 1
      <4>1. j \in Nat /\ j < x
        BY <2>4
      <4> QED
        BY <1>5, <2>4, <4>1
    <3>2. B[c + j + 1] = g[c + j]
      BY <1>6, <3>1
    <3> QED
      BY <2>3, <3>2
  <2>7. BlockGroup(m, B, M, c, x)
    BY <1>5, <2>3, <2>4, <2>5, <2>6 DEF BlockGroup
  <2> QED
    BY <2>1, <2>7
\* The pending group is the last one.
<1>10. CASE OpenGroup(m, e, M)
  <2>1. /\ p < l /\ l = p + k /\ m[p] + k - 1 = Len(M)
        /\ \A j \in 1 .. k - 1 : o[p + j] # 0 /\ o[p + j] = M[m[p] + j]
    BY <1>1, <1>4, <1>5, <1>10 DEF OpenGroup
  <2>2. g[p] = k
    <3>1. p # l
      BY <1>5, <2>1
    <3> QED
      BY <1>2, <1>4, <3>1
  <2>3. BlockGroup(m, B, M, p, k)
    <3>1. k = B[p + 1]
      BY <1>5, <1>6, <2>1, <2>2
    <3>2. ASSUME NEW j \in 1 .. k - 1
          PROVE  B[p + j + 1] # 0 /\ B[p + j + 1] = M[m[p] + j]
      <4>1. p + j \in 0 .. l - 1 /\ p + j # p
        BY <1>5, <2>1
      <4>2. g[p + j] = o[p + j] /\ B[p + j + 1] = g[p + j]
        BY <1>2, <1>4, <1>6, <4>1
      <4> QED
        BY <2>1, <4>2
    <3>3. m[p] + k - 1 <= Len(M) /\ p + k = Len(B)
      BY <1>5, <2>1
    <3> QED
      BY <1>5, <2>1, <3>1, <3>2, <3>3 DEF BlockGroup
  <2>4. ASSUME NEW c \in DOMAIN m
        PROVE  /\ c \in 0 .. Len(B) - 1
               /\ \E x : BlockGroup(m, B, M, c, x)
    <3>1. c \in 0 .. Len(B) - 1
      BY <1>5, <1>8, <2>1
    <3>2. CASE c # p
      <4>1. c + g[c] \in DOMAIN m
        BY <1>7, <3>2 DEF Chain, Group, GroupOf
      <4>2. c + g[c] # l
        BY <1>5, <1>8, <2>1, <4>1
      <4> QED
        BY <1>9, <3>1, <3>2, <4>2
    <3> QED
      BY <2>3, <3>1, <3>2
  <2>5. Encodes(m, B, M)
    BY <1>8, <2>4 DEF Encodes
  <2> QED
    BY <2>5
\* There is none pending: the last one is full.
<1>11. CASE NoGroup(m, e, M)
  <2>1. /\ p = l /\ m[p] = Len(M)
        /\ \A c \in DOMAIN m : c # p /\ c + o[c] = p => o[c] = MaxCode
    BY <1>4, <1>11 DEF NoGroup
  <2> DEFINE n == [c \in DOMAIN m \ {p} |-> m[c]]
  <2>2. DOMAIN n = DOMAIN m \ {p} /\ \A c \in DOMAIN n : n[c] = m[c]
    OBVIOUS
  <2> HIDE DEF n
  <2>3. 0 \in DOMAIN n /\ n[0] = 0
    BY <1>5, <1>8, <2>1, <2>2
  <2>4. ASSUME NEW c \in DOMAIN n
        PROVE  /\ c \in 0 .. Len(B) - 1 /\ n[c] \in 0 .. Len(M) /\ n[c] <= c
               /\ \E x : BlockGroup(n, B, M, c, x)
    <3>1. c \in DOMAIN m /\ c # p /\ n[c] = m[c]
      BY <2>2
    <3>2. c \in 0 .. Len(B) - 1 /\ n[c] \in 0 .. Len(M) /\ n[c] <= c
      BY <1>5, <1>8, <2>1, <3>1
    <3>3. PICK x : x = g[c]
      OBVIOUS
    <3>4. CASE c + x # l
      <4>1. BlockGroup(m, B, M, c, x)
        BY <1>9, <3>1, <3>3, <3>4
      <4>2. c + x \in DOMAIN m /\ c + x # p
        BY <1>5, <2>1, <3>4, <4>1 DEF BlockGroup
      <4>3. c + x \in DOMAIN n /\ n[c + x] = m[c + x]
        BY <2>2, <4>2
      <4>4. BlockGroup(n, B, M, c, x)
        BY <3>1, <4>1, <4>3 DEF BlockGroup
      <4> QED
        BY <3>2, <4>4
    <3>5. CASE c + x = l
      <4>1. GroupOf(m, g, M, c, x)
        BY <1>7, <3>1, <3>3 DEF Chain, Group
      <4>2. /\ x \in 1 .. MaxCode /\ c + x \in DOMAIN m
            /\ m[c] + x - 1 <= Len(M)
            /\ \A j \in 1 .. x - 1 : g[c + j] # 0 /\ g[c + j] = M[m[c] + j]
            /\ x = MaxCode => m[c + x] = m[c] + x - 1
        BY <4>1 DEF GroupOf
      <4>3. g[c] = o[c] /\ c \in 0 .. l - 1 /\ B[c + 1] = g[c]
        BY <1>5, <1>6, <2>1, <3>2
      <4>4. x = MaxCode
        BY <2>1, <3>1, <3>3, <3>5, <4>3
      <4>5. m[c] + x - 1 = Len(M)
        BY <2>1, <3>5, <4>2, <4>4
      <4>6. ASSUME NEW j \in 1 .. x - 1
            PROVE  B[c + j + 1] # 0 /\ B[c + j + 1] = M[m[c] + j]
        <5>1. c + j \in 0 .. l - 1
          BY <1>5, <3>5, <4>3, <4>4
        <5>2. B[c + j + 1] = g[c + j]
          BY <1>6, <5>1
        <5> QED
          BY <4>2, <5>2
      <4>7. BlockGroup(n, B, M, c, x)
        <5>1. c + x = Len(B) /\ x = B[c + 1] /\ n[c] + x - 1 = Len(M) /\ n[c] + x - 1 <= Len(M)
          BY <1>5, <3>1, <3>3, <3>5, <4>2, <4>3, <4>5
        <5>2. \A j \in 1 .. x - 1 : B[c + j + 1] # 0 /\ B[c + j + 1] = M[n[c] + j]
          BY <3>1, <4>6
        <5>3. c + x <= Len(B)
          BY <1>5, <3>5
        <5> QED
          BY <4>2, <5>1, <5>2, <5>3 DEF BlockGroup
      <4> QED
        BY <3>2, <4>7
    <3> QED
      BY <3>4, <3>5
  <2>5. Encodes(n, B, M)
    BY <2>3, <2>4 DEF Encodes
  <2> QED
    BY <2>5
<1> QED
  BY <1>3, <1>10, <1>11

-----------------------------------------------------------------------------
(* The decoder                                                              *)

Decoders(n) == [buf : [1 .. n -> Octet], cap : {n}, read : 0 .. n, write : 0 .. n,
                code : Octet, left : Nat, st : {"code", "data", "done", "error"}]

\* The write cursor is behind the read cursor, and the group ends in the block.
Behind(d, n) ==
  /\ d.st = "code" => d.write <= d.read
  /\ d.st = "data" => /\ d.write + 1 <= d.read
                      /\ d.read + d.left <= n

SameData(d, f) == f.buf = d.buf /\ f.read = d.read /\ f.write = d.write

\* What DecodeStep may do, x being the byte under the read cursor.
Ended(d, f, n) == d.st = "code" /\ d.read = n /\ f.st = "done" /\ SameData(d, f)

BadCode(d, f, n, x) ==
  /\ d.st = "code" /\ d.read < n /\ (x = 0 \/ x - 1 > n - (d.read + 1))
  /\ f.st = "error" /\ SameData(d, f)

Starts(d, f, n, x) ==
  /\ d.st = "code" /\ d.read < n /\ x # 0 /\ x - 1 <= n - (d.read + 1)
  /\ f.st = "data" /\ f.buf = d.buf /\ f.write = d.write
  /\ f.read = d.read + 1 /\ f.code = x /\ f.left = x - 1

BadData(d, f, x) ==
  d.st = "data" /\ d.left > 0 /\ x = 0 /\ f.st = "error" /\ SameData(d, f)

Copies(d, f, x) ==
  /\ d.st = "data" /\ d.left > 0 /\ x # 0
  /\ f.st = "data" /\ f.buf = [d.buf EXCEPT ![d.write + 1] = x]
  /\ f.write = d.write + 1 /\ f.read = d.read + 1
  /\ f.code = d.code /\ f.left = d.left - 1

Implies(d, f, n) ==
  /\ d.st = "data" /\ d.left = 0 /\ d.code # MaxCode /\ d.read < n
  /\ f.st = "code" /\ f.buf = [d.buf EXCEPT ![d.write + 1] = 0]
  /\ f.write = d.write + 1 /\ f.read = d.read

Closes(d, f, n) ==
  /\ d.st = "data" /\ d.left = 0 /\ (d.code = MaxCode \/ d.read = n)
  /\ f.st = "code" /\ SameData(d, f)

DecodeKind(d, f, n, x) ==
  \/ Ended(d, f, n)
  \/ BadCode(d, f, n, x)
  \/ Starts(d, f, n, x)
  \/ BadData(d, f, x)
  \/ Copies(d, f, x)
  \/ Implies(d, f, n)
  \/ Closes(d, f, n)

LEMMA LengthOf ==
  ASSUME NEW S, NEW n \in Nat, NEW s \in [1 .. n -> S]
  PROVE  s \in Seq(S) /\ Len(s) = n
OBVIOUS

LEMMA Stored ==
  ASSUME NEW n \in Nat, NEW d \in Decoders(n), NEW b \in Octet, d.write < n,
         NEW f, f = Write(d, b)
  PROVE  /\ f.buf = [d.buf EXCEPT ![d.write + 1] = b] /\ f.write = d.write + 1
         /\ f.buf \in [1 .. n -> Octet]
         /\ f.cap = d.cap /\ f.read = d.read /\ f.code = d.code /\ f.left = d.left
         /\ f.st = d.st
         /\ f \in Decoders(n)
<1>1. /\ d.write + 1 \in 0 .. n /\ d.cap = n /\ d.buf \in [1 .. n -> Octet]
      /\ d.write \in Nat
  BY DEF Decoders
<1>2. f = [d EXCEPT !.buf[d.write + 1] = b, !.write = d.write + 1]
  BY <1>1 DEF Write
<1>3. PICK i, buf : i = d.write + 1 /\ buf = [d.buf EXCEPT ![i] = b]
  OBVIOUS
<1>4. buf \in [1 .. n -> Octet]
  BY <1>1, <1>3
<1>5. f = [d EXCEPT !.buf = buf, !.write = i]
  BY <1>2, <1>3
<1> QED
  BY <1>1, <1>3, <1>4, <1>5 DEF Decoders

LEMMA DecodeKinds ==
  ASSUME NEW n \in Nat, NEW d \in Decoders(n), d.st \in {"code", "data"}, Behind(d, n),
         NEW x, x = d.buf[d.read + 1],
         NEW f, f = DecodeStep(d)
  PROVE  f \in Decoders(n) /\ DecodeKind(d, f, n, x)
<1>1. /\ Len(d.buf) = n /\ d.read \in 0 .. n /\ d.write \in 0 .. n /\ d.left \in Nat
      /\ d.code \in Octet /\ MaxCode \in Nat /\ 0 \in Octet
      /\ d.read < n => x \in Octet
  <2>1. d.buf \in [1 .. n -> Octet]
    BY DEF Decoders
  <2>2. d.read \in 0 .. n
    BY DEF Decoders
  <2>3. d.read < n => d.read + 1 \in 1 .. n
    BY <2>2
  <2> QED
    BY <2>1, <2>3, LengthOf, CobsAssumption DEF Decoders, Octet
<1>2. \A st \in {"code", "done", "error"} :
        LET g == [d EXCEPT !.st = st] IN g \in Decoders(n) /\ SameData(d, g) /\ g.st = st
  BY DEF Decoders, SameData
<1>3. CASE d.st = "code"
  <2>1. f = DecodeCode(d)
    BY <1>3 DEF DecodeStep
  <2>2. CASE d.read = n
    <3>1. f = [d EXCEPT !.st = "done"]
      BY <1>1, <2>1, <2>2 DEF DecodeCode
    <3> QED
      BY <1>2, <1>3, <2>2, <3>1 DEF DecodeKind, Ended
  <2>3. CASE d.read # n /\ (x = 0 \/ x - 1 > n - (d.read + 1))
    <3>1. f = [d EXCEPT !.st = "error"]
      BY <1>1, <2>1, <2>3 DEF DecodeCode
    <3>2. BadCode(d, f, n, x)
      BY <1>1, <1>2, <1>3, <2>3, <3>1 DEF BadCode
    <3> QED
      BY <1>2, <3>1, <3>2 DEF DecodeKind
  <2>4. CASE d.read # n /\ ~(x = 0 \/ x - 1 > n - (d.read + 1))
    <3>1. f = [d EXCEPT !.read = d.read + 1, !.code = x, !.left = x - 1, !.st = "data"]
      BY <1>1, <2>1, <2>4 DEF DecodeCode
    <3>2. d.read + 1 \in 0 .. n /\ x \in Octet /\ x - 1 \in Nat
      <4>1. d.read < n
        BY <1>1, <2>4
      <4>2. x \in Octet /\ x # 0
        BY <1>1, <2>4, <4>1
      <4> QED
        BY <1>1, <4>1, <4>2, SMTT(30) DEF Octet
    <3>3. f \in Decoders(n)
      BY <3>1, <3>2 DEF Decoders
    <3>4. Starts(d, f, n, x)
      BY <1>1, <1>3, <2>4, <3>1, <3>2 DEF Starts, Decoders
    <3> QED
      BY <3>3, <3>4 DEF DecodeKind
  <2> QED
    BY <2>2, <2>3, <2>4
<1>4. CASE d.st = "data" /\ d.left > 0
  <2>1. f = DecodeData(d)
    BY <1>4 DEF DecodeStep
  <2>2. d.read < n /\ d.write < n /\ x \in Octet
    BY <1>1, <1>4 DEF Behind
  <2>3. CASE x = 0
    <3>1. f = [d EXCEPT !.st = "error"]
      BY <2>1, <2>3 DEF DecodeData
    <3> QED
      BY <1>2, <1>4, <2>3, <3>1 DEF DecodeKind, BadData
  <2>4. CASE x # 0
    <3>1. PICK w : w = Write(d, x)
      OBVIOUS
    <3>2. /\ w.buf = [d.buf EXCEPT ![d.write + 1] = x] /\ w.write = d.write + 1
          /\ w.read = d.read /\ w.code = d.code /\ w.left = d.left /\ w.st = d.st
          /\ w \in Decoders(n)
      BY <2>2, <3>1, Stored
    <3>3. f = [w EXCEPT !.read = d.read + 1, !.left = d.left - 1]
      BY <2>1, <2>4, <3>1, <3>2 DEF DecodeData
    <3>4. d.read + 1 \in 0 .. n /\ d.left - 1 \in Nat
      BY <1>1, <1>4, <2>2
    <3>5. f \in Decoders(n)
      BY <3>2, <3>3, <3>4 DEF Decoders
    <3>6. /\ f.buf = w.buf /\ f.write = w.write /\ f.read = d.read + 1
          /\ f.code = w.code /\ f.left = d.left - 1 /\ f.st = w.st
      BY <3>2, <3>3 DEF Decoders
    <3>7. Copies(d, f, x)
      BY <1>4, <2>4, <3>2, <3>6 DEF Copies
    <3> QED
      BY <3>5, <3>7 DEF DecodeKind
  <2> QED
    BY <2>3, <2>4
<1>5. CASE d.st = "data" /\ d.left = 0
  <2>1. f = DecodeEndGroup(d)
    BY <1>1, <1>5 DEF DecodeStep
  <2>2. CASE d.code # MaxCode /\ d.read < n
    <3>1. PICK w, z : w = Write(d, z) /\ z = 0
      OBVIOUS
    <3>2. d.write < n /\ z \in Octet
      BY <1>1, <1>5, <2>2, <3>1 DEF Behind
    <3>3. /\ w.buf = [d.buf EXCEPT ![d.write + 1] = z] /\ w.write = d.write + 1
          /\ w.read = d.read /\ w.st = d.st
          /\ w \in Decoders(n)
      BY <3>1, <3>2, Stored
    <3>4. f = [w EXCEPT !.st = "code"]
      BY <1>1, <1>5, <2>1, <2>2, <3>1, <3>3 DEF DecodeEndGroup, ImpliesZero
    <3>5. /\ f \in Decoders(n) /\ f.buf = w.buf /\ f.write = w.write /\ f.read = w.read
          /\ f.st = "code"
      BY <3>3, <3>4 DEF Decoders
    <3>6. Implies(d, f, n)
      BY <1>5, <2>2, <3>1, <3>3, <3>5 DEF Implies
    <3> QED
      BY <3>5, <3>6 DEF DecodeKind
  <2>3. CASE ~(d.code # MaxCode /\ d.read < n)
    <3>1. f = [d EXCEPT !.st = "code"]
      BY <1>1, <1>5, <2>1, <2>3 DEF DecodeEndGroup, ImpliesZero
    <3>2. Closes(d, f, n)
      BY <1>1, <1>2, <1>5, <2>3, <3>1 DEF Closes
    <3> QED
      BY <1>2, <3>1, <3>2 DEF DecodeKind
  <2> QED
    BY <2>2, <2>3
<1> QED
  BY <1>1, <1>3, <1>4, <1>5

-----------------------------------------------------------------------------
(* Decoding in place                                                        *)

Unread(d, B) == \A i \in 1 .. Len(B) : i > d.read => d.buf[i] = B[i]

\* What holds of the decoding of any block.
Decoding(d, B) == d \in Decoders(Len(B)) /\ Behind(d, Len(B)) /\ Unread(d, B)

LEMMA DecodingGoesOn ==
  ASSUME NEW B \in Seq(Octet), NEW d, Decoding(d, B), d.st \in {"code", "data"},
         NEW f, f = DecodeStep(d)
  PROVE  Decoding(f, B)
<1>1. PICK n, x : n = Len(B) /\ x = d.buf[d.read + 1]
  OBVIOUS
<1>2. /\ n \in Nat /\ d \in Decoders(n) /\ Behind(d, n)
      /\ d.read \in 0 .. n /\ d.write \in 0 .. n /\ d.left \in Nat
      /\ d.buf \in [1 .. n -> Octet]
      /\ \A i \in 1 .. n : i > d.read => d.buf[i] = B[i]
  BY <1>1 DEF Decoding, Decoders, Unread
<1>3. f \in Decoders(n) /\ DecodeKind(d, f, n, x)
  BY <1>1, <1>2, DecodeKinds
<1>4. ASSUME SameData(d, f) PROVE Unread(f, B)
  BY <1>1, <1>2, <1>4 DEF SameData, Unread
<1>5. CASE Ended(d, f, n) \/ BadCode(d, f, n, x) \/ BadData(d, f, x)
  BY <1>1, <1>3, <1>4, <1>5 DEF Decoding, Behind, Ended, BadCode, BadData
<1>6. CASE Starts(d, f, n, x)
  <2>1. Behind(f, n)
    <3>1. /\ f.st = "data" /\ f.write = d.write /\ f.read = d.read + 1 /\ f.left = x - 1
          /\ x - 1 <= n - (d.read + 1) /\ d.write <= d.read
      BY <1>2, <1>6 DEF Starts, Behind
    <3>2. f.left \in Nat
      BY <1>3 DEF Decoders
    <3> QED
      BY <1>2, <3>1, <3>2 DEF Behind
  <2>2. Unread(f, B)
    BY <1>1, <1>2, <1>6 DEF Starts, Unread
  <2> QED
    BY <1>1, <1>3, <2>1, <2>2 DEF Decoding
<1>7. CASE Copies(d, f, x)
  <2>1. /\ f.st = "data" /\ f.buf = [d.buf EXCEPT ![d.write + 1] = x]
        /\ f.write = d.write + 1 /\ f.read = d.read + 1 /\ f.left = d.left - 1
        /\ d.write + 1 <= d.read /\ d.read + d.left <= n /\ d.left > 0
    BY <1>2, <1>7 DEF Copies, Behind
  <2>2. Behind(f, n)
    BY <1>2, <2>1, SMTT(30) DEF Behind
  <2>3. ASSUME NEW i \in 1 .. n, i > f.read PROVE f.buf[i] = B[i]
    <3>1. i # d.write + 1 /\ i > d.read
      BY <1>2, <2>1, <2>3
    <3> QED
      BY <1>2, <2>1, <3>1
  <2> QED
    BY <1>1, <1>3, <2>2, <2>3 DEF Decoding, Unread
<1>8. CASE Implies(d, f, n)
  <2>1. /\ f.st = "code" /\ f.buf = [d.buf EXCEPT ![d.write + 1] = 0]
        /\ f.write = d.write + 1 /\ f.read = d.read /\ d.write + 1 <= d.read
    BY <1>2, <1>8 DEF Implies, Behind
  <2>2. Behind(f, n)
    BY <1>2, <2>1 DEF Behind
  <2>3. ASSUME NEW i \in 1 .. n, i > f.read PROVE f.buf[i] = B[i]
    <3>1. i # d.write + 1 /\ i > d.read
      BY <1>2, <2>1, <2>3
    <3> QED
      BY <1>2, <2>1, <3>1
  <2> QED
    BY <1>1, <1>3, <2>2, <2>3 DEF Decoding, Unread
<1>9. CASE Closes(d, f, n)
  <2>1. Behind(f, n)
    BY <1>2, <1>9 DEF Behind, Closes, SameData
  <2> QED
    BY <1>1, <1>3, <1>4, <1>9, <2>1 DEF Decoding, Closes
<1> QED
  BY <1>3, <1>5, <1>6, <1>7, <1>8, <1>9 DEF DecodeKind

\* The map leads the decoder of a block that encodes the message M: what has
\* been written is the beginning of M.
Follows(m, d, B, M) ==
  /\ d.st # "error"
  /\ d.write <= Len(M)
  /\ \A i \in 1 .. d.write : d.buf[i] = M[i]
  /\ d.st = "code" => \/ d.read \in DOMAIN m /\ d.write = m[d.read]
                      \/ d.read = Len(B) /\ d.write = Len(M)
  /\ d.st = "data" => \E c \in DOMAIN m : /\ d.code = B[c + 1] /\ d.left <= d.code - 1
                                          /\ d.read = c + d.code - d.left
                                          /\ d.write = m[c] + d.code - 1 - d.left
  /\ d.st = "done" => d.write = Len(M)

Decodes(m, d, B, M) == Encodes(m, B, M) /\ Follows(m, d, B, M)

LEMMA FollowsOn ==
  ASSUME NEW B \in Seq(Octet), NEW M \in Seq(Octet), NEW m, NEW d,
         Decoding(d, B), Decodes(m, d, B, M), d.st \in {"code", "data"},
         NEW f, f = DecodeStep(d)
  PROVE  Decodes(m, f, B, M)
<1>1. PICK n, x : n = Len(B) /\ x = d.buf[d.read + 1]
  OBVIOUS
<1>2. /\ n \in Nat /\ d \in Decoders(n) /\ Behind(d, n) /\ Len(M) \in Nat
      /\ d.read \in 0 .. n /\ d.write \in 0 .. n /\ d.left \in Nat /\ d.code \in Octet
      /\ d.buf \in [1 .. n -> Octet] /\ MaxCode \in Nat
      /\ \A i \in 1 .. n : i > d.read => d.buf[i] = B[i]
  BY <1>1, CobsAssumption DEF Decoding, Decoders, Unread
<1>3. f \in Decoders(n) /\ DecodeKind(d, f, n, x)
  BY <1>1, <1>2, DecodeKinds
<1>4. d.read < n => x = B[d.read + 1]
  <2> SUFFICES ASSUME d.read < n PROVE x = B[d.read + 1]
    OBVIOUS
  <2>1. d.read + 1 \in 1 .. n /\ d.read + 1 > d.read
    BY <1>2
  <2> QED
    BY <1>1, <1>2, <2>1
<1>5. /\ d.write <= Len(M)
      /\ \A i \in 1 .. d.write : d.buf[i] = M[i]
      /\ d.st = "code" => \/ d.read \in DOMAIN m /\ d.write = m[d.read]
                          \/ d.read = n /\ d.write = Len(M)
  BY <1>1 DEF Decodes, Follows
<1>6. \A c \in DOMAIN m : /\ c \in 0 .. n - 1 /\ m[c] \in 0 .. Len(M) /\ m[c] <= c
                          /\ \E k : BlockGroup(m, B, M, c, k)
  BY <1>1 DEF Decodes, Encodes
<1>7. ASSUME NEW c \in DOMAIN m, NEW k, k = B[c + 1]
      PROVE  /\ BlockGroup(m, B, M, c, k) /\ k \in 1 .. MaxCode /\ c + k <= n
             /\ c \in Nat /\ m[c] \in Nat /\ k \in Nat
  <2>1. PICK l : BlockGroup(m, B, M, c, l)
    BY <1>6
  <2>2. l = k /\ l \in 1 .. MaxCode /\ c + l <= n
    BY <1>1, <1>7, <2>1 DEF BlockGroup
  <2> QED
    BY <1>2, <1>6, <2>1, <2>2
\* The group whose data are being copied.
<1>8. ASSUME d.st = "data"
      PROVE  \E c \in DOMAIN m :
               /\ BlockGroup(m, B, M, c, d.code) /\ d.code = B[c + 1]
               /\ c \in Nat /\ m[c] \in Nat /\ c + d.code <= n /\ d.code \in 1 .. MaxCode
               /\ d.left <= d.code - 1 /\ d.read = c + d.code - d.left
               /\ d.write = m[c] + d.code - 1 - d.left
  <2>1. PICK c \in DOMAIN m : /\ d.code = B[c + 1] /\ d.left <= d.code - 1
                              /\ d.read = c + d.code - d.left
                              /\ d.write = m[c] + d.code - 1 - d.left
    BY <1>8 DEF Decodes, Follows
  <2>2. PICK k : k = d.code
    OBVIOUS
  <2>3. /\ BlockGroup(m, B, M, c, k) /\ k \in 1 .. MaxCode /\ c + k <= n
        /\ c \in Nat /\ m[c] \in Nat
    BY <1>7, <2>1, <2>2
  <2> QED
    BY <2>1, <2>2, <2>3
<1>9. CASE Ended(d, f, n)
  <2>1. d.write = Len(M)
    BY <1>2, <1>5, <1>6, <1>9 DEF Ended
  <2>2. Follows(m, f, B, M)
    BY <1>5, <1>9, <2>1 DEF Follows, Ended, SameData
  <2> QED
    BY <2>2 DEF Decodes
<1>10. CASE BadCode(d, f, n, x)
  <2>1. d.read \in DOMAIN m /\ d.read < n /\ x = B[d.read + 1]
    BY <1>2, <1>4, <1>5, <1>10 DEF BadCode
  <2>2. x \in 1 .. MaxCode /\ d.read + x <= n
    BY <1>7, <2>1
  <2> QED
    BY <1>2, <1>10, <2>2 DEF BadCode
<1>11. CASE Starts(d, f, n, x)
  <2>1. /\ d.st = "code" /\ d.read < n /\ f.st = "data" /\ f.buf = d.buf /\ f.write = d.write
        /\ f.read = d.read + 1 /\ f.code = x /\ f.left = x - 1
    BY <1>11 DEF Starts
  <2>2. d.read \in DOMAIN m /\ d.write = m[d.read] /\ x = B[d.read + 1]
    BY <1>2, <1>4, <1>5, <2>1
  <2>3. x \in Nat /\ m[d.read] \in Nat
    BY <1>7, <2>2
  <2>4. \E c \in DOMAIN m : /\ f.code = B[c + 1] /\ f.left <= f.code - 1
                            /\ f.read = c + f.code - f.left
                            /\ f.write = m[c] + f.code - 1 - f.left
    <3>1. /\ f.code = B[d.read + 1] /\ f.left <= f.code - 1
          /\ f.read = d.read + f.code - f.left
          /\ f.write = m[d.read] + f.code - 1 - f.left
      BY <1>2, <2>1, <2>2, <2>3
    <3> QED
      BY <2>2, <3>1
  <2>5. Follows(m, f, B, M)
    BY <1>5, <2>1, <2>4 DEF Follows
  <2> QED
    BY <2>5 DEF Decodes
<1>12. CASE d.st = "data" /\ d.left > 0
  <2>1. PICK c \in DOMAIN m :
               /\ BlockGroup(m, B, M, c, d.code) /\ d.code = B[c + 1]
               /\ c \in Nat /\ m[c] \in Nat /\ c + d.code <= n /\ d.code \in 1 .. MaxCode
               /\ d.left <= d.code - 1 /\ d.read = c + d.code - d.left
               /\ d.write = m[c] + d.code - 1 - d.left
    BY <1>8, <1>12
  <2>2. PICK k, j, l, q : k = d.code /\ l = d.left /\ j = k - l /\ q = m[c]
    OBVIOUS
  <2>3. /\ k \in Nat /\ j \in 1 .. k - 1 /\ d.read = c + j /\ d.read < n
        /\ d.write = m[c] + j - 1
    <3>1. k \in Nat /\ l \in Nat /\ q \in Nat /\ l > 0 /\ l <= k - 1 /\ c + k <= n
      BY <1>2, <1>12, <2>1, <2>2, SMTT(30)
    <3>2. d.read = c + k - l /\ d.write = q + k - 1 - l /\ c \in Nat
      BY <2>1, <2>2
    <3>3. j = k - l /\ j \in Nat /\ j <= k - 1 /\ j >= 1
      BY <2>2, <3>1
    <3>4. d.read = c + j /\ d.write = q + j - 1
      BY <3>1, <3>2, <3>3
    <3>5. j \in 1 .. k - 1 /\ d.read < n
      BY ONLY <1>2, <3>1, <3>3, <3>4, SMTT(30)
    <3> QED
      BY <2>2, <3>1, <3>4, <3>5
  <2>4. /\ \A i \in 1 .. k - 1 : B[c + i + 1] # 0 /\ B[c + i + 1] = M[m[c] + i]
        /\ m[c] + k - 1 <= Len(M)
    BY <2>1, <2>2 DEF BlockGroup
  <2>5. x # 0 /\ x = M[d.write + 1] /\ d.write + 1 <= Len(M)
    <3>1. x = B[c + j + 1]
      BY <1>4, <2>3
    <3>2. x # 0 /\ x = M[m[c] + j]
      BY <2>3, <2>4, <3>1
    <3>3. d.write + 1 = m[c] + j /\ j <= k - 1
      BY <2>1, <2>3
    <3> QED
      BY <1>2, <2>1, <2>3, <2>4, <3>2, <3>3, SMTT(30)
  <2>6. Copies(d, f, x)
    BY <1>3, <1>12, <2>5 DEF DecodeKind, Ended, BadCode, Starts, BadData, Implies, Closes
  <2>7. /\ f.st = "data" /\ f.buf = [d.buf EXCEPT ![d.write + 1] = x]
        /\ f.write = d.write + 1 /\ f.read = d.read + 1
        /\ f.code = d.code /\ f.left = d.left - 1
    BY <2>6 DEF Copies
  <2>8. ASSUME NEW i \in 1 .. f.write PROVE f.buf[i] = M[i]
    <3>1. i \in 1 .. n
      BY <1>2, <1>3, <2>7, <2>8 DEF Decoders
    <3>2. CASE i = d.write + 1
      BY <1>2, <2>5, <2>7, <3>1, <3>2
    <3>3. CASE i # d.write + 1
      <4>1. i \in 1 .. d.write
        BY <1>2, <2>7, <3>3
      <4> QED
        BY <1>2, <1>5, <2>7, <3>1, <3>3, <4>1
    <3> QED
      BY <3>2, <3>3
  <2>9. \E b \in DOMAIN m : /\ f.code = B[b + 1] /\ f.left <= f.code - 1
                            /\ f.read = b + f.code - f.left
                            /\ f.write = m[b] + f.code - 1 - f.left
    <3>1. /\ f.code = B[c + 1] /\ f.left <= f.code - 1
          /\ f.read = c + f.code - f.left
          /\ f.write = m[c] + f.code - 1 - f.left
      <4>1. f.code = k /\ f.left = l - 1 /\ k \in Nat /\ l \in Nat /\ q \in Nat
        BY <1>2, <2>1, <2>2, <2>3, <2>7
      <4>2. f.read = c + k - l + 1 /\ f.write = q + k - 1 - l + 1 /\ l <= k - 1 /\ c \in Nat
        BY <2>1, <2>2, <2>7
      <4>3. f.read = c + k - (l - 1) /\ f.write = q + k - 1 - (l - 1) /\ l - 1 <= k - 1
        BY ONLY <4>1, <4>2
      <4>4. k = B[c + 1] /\ q = m[c]
        BY <2>1, <2>2
      <4> QED
        BY ONLY <4>1, <4>3, <4>4
    <3> QED
      BY <3>1
  <2>10. Follows(m, f, B, M)
    BY <2>5, <2>7, <2>8, <2>9 DEF Follows
  <2> QED
    BY <2>10 DEF Decodes
<1>13. CASE d.st = "data" /\ d.left = 0
  <2>1. PICK c \in DOMAIN m :
               /\ BlockGroup(m, B, M, c, d.code) /\ d.code = B[c + 1]
               /\ c \in Nat /\ m[c] \in Nat /\ c + d.code <= n /\ d.code \in 1 .. MaxCode
               /\ d.left <= d.code - 1 /\ d.read = c + d.code - d.left
               /\ d.write = m[c] + d.code - 1 - d.left
    BY <1>8, <1>13
  <2>2. d.read = c + d.code /\ d.write = m[c] + d.code - 1
    BY <1>2, <1>13, <2>1
  <2>3. d.read = n => d.write = Len(M)
    BY <1>1, <2>1, <2>2 DEF BlockGroup
  <2>4. d.read # n => /\ d.read \in DOMAIN m
                      /\ IF d.code = MaxCode THEN m[d.read] = d.write
                         ELSE m[d.read] = d.write + 1 /\ M[d.write + 1] = 0
    <3> SUFFICES ASSUME d.read # n
                 PROVE  /\ d.read \in DOMAIN m
                        /\ IF d.code = MaxCode THEN m[d.read] = d.write
                           ELSE m[d.read] = d.write + 1 /\ M[d.write + 1] = 0
      OBVIOUS
    <3>1. /\ c + d.code \in DOMAIN m
          /\ IF d.code = MaxCode THEN m[c + d.code] = m[c] + d.code - 1
             ELSE m[c + d.code] = m[c] + d.code /\ M[m[c] + d.code] = 0
      BY <1>1, <2>1, <2>2 DEF BlockGroup
    <3>2. d.write + 1 = m[c] + d.code
      BY <1>2, <2>1, <2>2, SMTT(30)
    <3> QED
      BY <2>2, <3>1, <3>2
  <2>5. CASE Implies(d, f, n)
    <3>1. /\ d.code # MaxCode /\ d.read < n
          /\ f.st = "code" /\ f.buf = [d.buf EXCEPT ![d.write + 1] = 0]
          /\ f.write = d.write + 1 /\ f.read = d.read
      BY <2>5 DEF Implies
    <3>2. f.read \in DOMAIN m /\ m[f.read] = f.write /\ M[f.write] = 0 /\ f.write <= Len(M)
      BY <1>2, <1>6, <2>4, <3>1
    <3>3. ASSUME NEW i \in 1 .. f.write PROVE f.buf[i] = M[i]
      <4>1. i \in 1 .. n
        BY <1>2, <1>3, <3>1, <3>3 DEF Decoders
      <4>2. CASE i = d.write + 1
        BY <1>2, <3>1, <3>2, <4>1, <4>2
      <4>3. CASE i # d.write + 1
        <5>1. i \in 1 .. d.write
          BY <1>2, <3>1, <4>3
        <5> QED
          BY <1>2, <1>5, <3>1, <4>1, <4>3, <5>1
      <4> QED
        BY <4>2, <4>3
    <3>4. Follows(m, f, B, M)
      BY <3>1, <3>2, <3>3 DEF Follows
    <3> QED
      BY <3>4 DEF Decodes
  <2>6. CASE Closes(d, f, n)
    <3>1. /\ (d.code = MaxCode \/ d.read = n) /\ f.st = "code"
          /\ f.buf = d.buf /\ f.write = d.write /\ f.read = d.read
      BY <2>6 DEF Closes, SameData
    <3>2. \/ f.read \in DOMAIN m /\ f.write = m[f.read]
          \/ f.read = Len(B) /\ f.write = Len(M)
      BY <1>1, <2>3, <2>4, <3>1
    <3>3. Follows(m, f, B, M)
      BY <1>5, <3>1, <3>2 DEF Follows
    <3> QED
      BY <3>3 DEF Decodes
  <2> QED
    BY <1>2, <1>3, <1>13, <2>5, <2>6
       DEF DecodeKind, Ended, BadCode, Starts, BadData, Copies
<1> QED
  BY <1>2, <1>3, <1>9, <1>10, <1>11, <1>12, <1>13
     DEF DecodeKind, Ended, BadCode, Starts, BadData, Copies, Implies, Closes

LEMMA DecoderStarts ==
  ASSUME NEW B \in Seq(Octet), NEW d, d = Decoder(B, Len(B))
  PROVE  /\ Decoding(d, B)
         /\ \A m, M : Encodes(m, B, M) /\ M \in Seq(Octet) => Decodes(m, d, B, M)
<1>1. PICK n : n = Len(B)
  OBVIOUS
<1>2. n \in Nat /\ B \in [1 .. n -> Octet] /\ 0 \in Octet /\ 0 \in 0 .. n
  BY <1>1, CobsAssumption DEF Octet
<1>3. d = [buf |-> B, cap |-> n, read |-> 0, write |-> 0, code |-> 0, left |-> 0, st |-> "code"]
  BY <1>1 DEF Decoder
<1>4. d \in Decoders(n)
  BY <1>2, <1>3 DEF Decoders
<1>5. Decoding(d, B)
  BY <1>1, <1>2, <1>3, <1>4 DEF Decoding, Behind, Unread
<1>6. ASSUME NEW m, NEW M \in Seq(Octet), Encodes(m, B, M)
      PROVE  Decodes(m, d, B, M)
  <2>1. 0 \in DOMAIN m /\ m[0] = 0 /\ Len(M) \in Nat
    BY <1>6 DEF Encodes
  <2>2. Follows(m, d, B, M)
    BY <1>3, <2>1 DEF Follows
  <2> QED
    BY <1>6, <2>2 DEF Decodes
<1> QED
  BY <1>5, <1>6

LEMMA EncoderStarts ==
  ASSUME NEW cap \in Nat, NEW e, e = Encoder(cap)
  PROVE  e.cap = cap /\ e \in Encoders(cap) /\ Placed(e, FALSE) /\ Coded(e, << >>)
<1>1. 0 \in Octet /\ 1 \in Octet /\ MaxCode \in Nat /\ MaxCode >= 2
  BY CobsAssumption DEF Octet
<1>2. PICK out : out = [i \in 0 .. cap - 1 |-> 0]
  OBVIOUS
<1>3. out \in [0 .. cap - 1 -> Octet]
  BY <1>1, <1>2
<1>4. e = [out |-> out, cap |-> cap, encode |-> 1, codep |-> 0, code |-> 1, ok |-> TRUE]
  BY <1>2 DEF Encoder
<1>5. e \in Encoders(cap)
  BY <1>1, <1>3, <1>4 DEF Encoders
<1>6. Placed(e, FALSE)
  BY <1>1, <1>4 DEF Placed
<1>7. Coded(e, << >>)
  <2>1. PICK none : none = << >> /\ Len(none) = 0
    OBVIOUS
  <2>2. PICK m : m = [c \in {0} |-> 0]
    OBVIOUS
  <2>3. Chain(m, e.out, none, e.codep)
    BY <1>4, <2>1, <2>2 DEF Chain
  <2>4. OpenGroup(m, e, none)
    BY <1>4, <2>1, <2>2 DEF OpenGroup
  <2> QED
    BY <2>1, <2>3, <2>4 DEF Coded
<1>8. e.cap = cap
  BY <1>4
<1> QED
  BY <1>5, <1>6, <1>7, <1>8, Zenon

-----------------------------------------------------------------------------
(* The inductive invariant                                                  *)

Values ==
  /\ phase \in {"feed", "flush", "failed", "decode"}
  /\ ours \in BOOLEAN
  /\ msg \in Seq(Octet) /\ Len(msg) <= MaxMsg
  /\ given \in Seq(Octet)

EncoderIsPlaced ==
  enc.cap \in Nat /\ enc \in Encoders(enc.cap) /\ Placed(enc, phase # "feed")

\* The encoder holds what has been fed.
EncoderIsCoded == phase \in {"feed", "flush"} /\ enc.ok => Coded(enc, msg)

DecoderIsBehind == Decoding(dec, given)

\* The decoder of the encoder's block has written the beginning of the message.
DecoderFollows ==
  phase = "decode" /\ ours => \E m : Decodes(m, dec, given, msg)

IInv == Values /\ EncoderIsPlaced /\ EncoderIsCoded /\ DecoderIsBehind /\ DecoderFollows

LEMMA InitIInv == Init => IInv
<1> SUFFICES ASSUME Init PROVE IInv
  OBVIOUS
<1>1. << >> \in Seq(Octet) /\ Len(<< >>) = 0 /\ MaxMsg \in Nat /\ MaxBlock \in Nat
  BY CobsBounds
<1>2. PICK none \in Seq(Octet) : none = << >> /\ Len(none) = 0
  BY <1>1, Zenon
<1>3. msg = none /\ dec = Decoder(given, Len(given)) /\ Len(msg) <= MaxMsg
  BY <1>1, <1>2 DEF Init
<1>4. CASE phase = "feed"
  <2>1. /\ ours = TRUE /\ given = none
        /\ \E cap \in 0 .. cobs_max_encoded_size(MaxMsg) : enc = Encoder(cap)
    BY <1>2, <1>4 DEF Init
  <2>2. PICK cap \in Nat : enc = Encoder(cap)
    BY <2>1
  <2>3. enc.cap = cap /\ enc \in Encoders(cap) /\ Placed(enc, FALSE) /\ Coded(enc, << >>)
    BY <2>2, EncoderStarts
  <2>4. Decoding(dec, given)
    BY <1>3, <2>1, DecoderStarts
  <2>5. EncoderIsPlaced
    BY <1>4, <2>3 DEF EncoderIsPlaced, Placed
  <2> QED
    BY <1>2, <1>3, <1>4, <2>1, <2>3, <2>4, <2>5
       DEF IInv, Values, EncoderIsCoded, DecoderIsBehind, DecoderFollows
<1>5. CASE phase = "decode"
  <2>1. ours = FALSE /\ given \in BoundedSeq(Octet, MaxBlock) /\ enc = Encoder(0)
    BY <1>5 DEF Init
  <2>2. given \in Seq(Octet)
    BY <1>1, <2>1 DEF BoundedSeq, SeqOf
  <2>3. PICK cap \in Nat : enc = Encoder(cap)
    BY <2>1
  <2>4. enc.cap = cap /\ enc \in Encoders(cap) /\ Placed(enc, FALSE)
    BY <2>3, EncoderStarts
  <2>5. Decoding(dec, given)
    BY <1>3, <2>2, DecoderStarts
  <2>6. EncoderIsPlaced
    BY <1>5, <2>4 DEF EncoderIsPlaced, Placed
  <2> QED
    BY <1>3, <1>5, <2>1, <2>2, <2>5, <2>6
       DEF IInv, Values, EncoderIsCoded, DecoderIsBehind, DecoderFollows
<1> QED
  BY <1>4, <1>5 DEF Init

LEMMA FeedIInv ==
  ASSUME IInv, NEW b \in Octet, NEW more_remaining \in BOOLEAN, Feed(b, more_remaining)
  PROVE  IInv'
<1>1. /\ phase = "feed" /\ msg' = Append(msg, b) /\ Len(msg) < MaxMsg
      /\ enc' = (IF enc.ok THEN put_one(enc, b, more_remaining) ELSE enc)
      /\ phase' = (IF more_remaining THEN "feed" ELSE "flush")
      /\ ours' = ours /\ given' = given /\ dec' = dec
  BY DEF Feed
<1>2. PICK cap \in Nat : enc.cap = cap /\ enc \in Encoders(cap) /\ Placed(enc, FALSE)
  BY <1>1 DEF IInv, EncoderIsPlaced
<1>3. msg \in Seq(Octet) /\ msg' \in Seq(Octet) /\ Len(msg') = Len(msg) + 1
  BY <1>1 DEF IInv, Values
<1>4. Values'
  BY <1>1, <1>3, CobsBounds DEF IInv, Values
<1>5. enc.ok => Coded(enc, msg)
  BY <1>1 DEF IInv, EncoderIsCoded
<1>6. (phase' # "feed") = ~more_remaining
  BY <1>1
<1>7. enc'.cap = cap /\ enc' \in Encoders(cap) /\ Placed(enc', ~more_remaining)
      /\ (enc'.ok => Coded(enc', msg'))
  <2>1. CASE enc.ok
    <3>1. enc' = put_one(enc, b, more_remaining)
      BY <1>1, <2>1
    <3>2. enc' \in Encoders(cap) /\ Placed(enc', ~more_remaining)
      BY <1>2, <2>1, <3>1, PutOnePlaced
    <3>3. enc'.ok => Coded(enc', Append(msg, b))
      BY <1>2, <1>3, <1>5, <2>1, <3>1, PutOneCodes
    <3>4. enc'.cap = cap
      BY <3>2 DEF Encoders
    <3> QED
      BY <1>1, <3>2, <3>3, <3>4
  <2>2. CASE ~enc.ok
    BY <1>1, <1>2, <2>2 DEF Placed
  <2> QED
    BY <2>1, <2>2
<1>8. EncoderIsPlaced'
  BY <1>6, <1>7 DEF EncoderIsPlaced
<1>9. EncoderIsCoded'
  BY <1>7 DEF EncoderIsCoded
<1>10. DecoderIsBehind'
  BY <1>1 DEF IInv, DecoderIsBehind
<1>11. DecoderFollows'
  BY <1>1 DEF DecoderFollows
<1> QED
  BY <1>4, <1>8, <1>9, <1>10, <1>11 DEF IInv

LEMMA FeedNothingIInv == ASSUME IInv, FeedNothing PROVE IInv'
<1>1. /\ phase = "feed" /\ phase' = "flush"
      /\ ours' = ours /\ msg' = msg /\ enc' = enc /\ given' = given /\ dec' = dec
  BY DEF FeedNothing
<1>2. EncoderIsPlaced'
  BY <1>1 DEF IInv, EncoderIsPlaced, Placed
<1>3. EncoderIsCoded'
  BY <1>1 DEF IInv, EncoderIsCoded
<1> QED
  BY <1>1, <1>2, <1>3 DEF IInv, Values, DecoderIsBehind, DecoderFollows

LEMMA FinishIInv == ASSUME IInv, Finish PROVE IInv'
<1>1. /\ phase = "flush" /\ given' = finish(enc) /\ dec' = Decoder(given', Len(given'))
      /\ phase' = (IF given' = << >> THEN "failed" ELSE "decode")
      /\ ours' = ours /\ msg' = msg /\ enc' = enc
  BY DEF Finish
<1>2. PICK cap \in Nat : enc.cap = cap /\ enc \in Encoders(cap) /\ Placed(enc, TRUE)
  BY <1>1 DEF IInv, EncoderIsPlaced
<1>3. given' \in Seq(Octet)
  BY <1>1, <1>2, FinishYields
<1>4. msg \in Seq(Octet) /\ (enc.ok => Coded(enc, msg))
  BY <1>1 DEF IInv, Values, EncoderIsCoded
<1>5. Decoding(dec', given')
  BY <1>1, <1>3, DecoderStarts
<1>6. ASSUME phase' = "decode" PROVE \E m : Decodes(m, dec', given', msg)
  <2>1. given' # << >>
    BY <1>1, <1>6
  <2>2. PICK m : Encodes(m, given', msg)
    BY <1>1, <1>2, <1>4, <2>1, FinishEncodes
  <2>3. Decodes(m, dec', given', msg)
    BY <1>1, <1>3, <1>4, <2>2, DecoderStarts
  <2> QED
    BY <2>3
<1>7. EncoderIsPlaced'
  BY <1>1, <1>2 DEF EncoderIsPlaced
<1>8. EncoderIsCoded'
  BY <1>1 DEF EncoderIsCoded
<1>9. Values'
  BY <1>1, <1>3 DEF IInv, Values
<1>10. DecoderIsBehind' /\ DecoderFollows'
  BY <1>1, <1>5, <1>6 DEF DecoderIsBehind, DecoderFollows
<1> QED
  BY <1>7, <1>8, <1>9, <1>10 DEF IInv

LEMMA DecodeIInv == ASSUME IInv, Decode PROVE IInv'
<1>1. /\ phase = "decode" /\ dec.st \in {"code", "data"} /\ dec' = DecodeStep(dec)
      /\ phase' = phase /\ ours' = ours /\ msg' = msg /\ enc' = enc /\ given' = given
  BY DEF Decode
<1>2. given \in Seq(Octet) /\ msg \in Seq(Octet) /\ Decoding(dec, given)
  BY DEF IInv, Values, DecoderIsBehind
<1>3. Decoding(dec', given)
  BY <1>1, <1>2, DecodingGoesOn
<1>4. ASSUME ours PROVE \E m : Decodes(m, dec', given, msg)
  <2>1. PICK m : Decodes(m, dec, given, msg)
    BY <1>1, <1>4 DEF IInv, DecoderFollows
  <2>2. Decodes(m, dec', given, msg)
    BY <1>1, <1>2, <2>1, FollowsOn
  <2> QED
    BY <2>2
<1>5. Values' /\ EncoderIsPlaced' /\ EncoderIsCoded'
  BY <1>1 DEF IInv, Values, EncoderIsPlaced, EncoderIsCoded
<1>6. DecoderIsBehind' /\ DecoderFollows'
  BY <1>1, <1>3, <1>4 DEF DecoderIsBehind, DecoderFollows
<1> QED
  BY <1>5, <1>6 DEF IInv

LEMMA NextIInv == ASSUME IInv, [Next]_vars PROVE IInv'
<1>1. CASE Next
  BY <1>1, FeedIInv, FeedNothingIInv, FinishIInv, DecodeIInv DEF Next
<1>2. CASE UNCHANGED vars
  BY <1>2 DEF vars, IInv, Values, EncoderIsPlaced, EncoderIsCoded, DecoderIsBehind, DecoderFollows
<1> QED
  BY <1>1, <1>2

LEMMA InvariantHolds == Spec => []IInv
<1>1. Init => IInv
  BY InitIInv
<1>2. IInv /\ [Next]_vars => IInv'
  BY NextIInv
<1> QED
  BY <1>1, <1>2, PTL DEF Spec

-----------------------------------------------------------------------------
(* What follows from it                                                     *)

LEMMA IInvTyped == IInv => TypeOK
<1> SUFFICES ASSUME IInv PROVE TypeOK
  OBVIOUS
<1>1. msg \in BoundedSeq(Octet, MaxMsg)
  <2>1. PICK n : n = Len(msg)
    OBVIOUS
  <2>2. n \in 0 .. MaxMsg /\ msg \in [1 .. n -> Octet]
    BY <2>1, CobsBounds DEF IInv, Values
  <2> QED
    BY <2>2 DEF BoundedSeq, SeqOf
<1>2. /\ enc.encode \in 1 .. enc.cap + 1 /\ enc.codep \in 0 .. enc.cap
      /\ enc.code \in 1 .. MaxCode
      /\ enc.out \in [0 .. enc.cap - 1 -> Octet]
  BY DEF IInv, EncoderIsPlaced, Placed, Encoders
<1>3. /\ dec.buf \in [1 .. Len(given) -> Octet]
      /\ dec.st \in {"code", "data", "done", "error"}
      /\ dec.write \in 0 .. dec.cap /\ dec.read \in 0 .. Len(given)
  BY DEF IInv, DecoderIsBehind, Decoding, Decoders
<1> QED
  BY <1>1, <1>2, <1>3 DEF TypeOK, IInv, Values

LEMMA IInvRoundTrip == IInv => RoundTrip
<1> SUFFICES ASSUME IInv, ours, phase = "decode"
             PROVE  dec.st # "error" /\ (dec.st = "done" => SubSeq(dec.buf, 1, dec.write) = msg)
  BY DEF RoundTrip
<1>1. PICK m : Follows(m, dec, given, msg)
  BY DEF IInv, DecoderFollows, Decodes
<1>2. dec.st # "error"
  BY <1>1 DEF Follows
<1>3. ASSUME dec.st = "done" PROVE SubSeq(dec.buf, 1, dec.write) = msg
  <2>1. PICK w, buf : w = dec.write /\ buf = dec.buf
    OBVIOUS
  <2>2. w = Len(msg) /\ msg \in Seq(Octet) /\ \A i \in 1 .. w : buf[i] = msg[i]
    BY <1>1, <1>3, <2>1 DEF Follows, IInv, Values
  <2>3. w \in Nat /\ \A i \in 1 .. w : buf[i] \in Octet
    BY <2>2
  <2>4. PICK t : t = SubSeq(buf, 1, w)
    OBVIOUS
  <2>5. t \in Seq(Octet) /\ Len(t) = w /\ \A i \in 1 .. w : t[i] = buf[i]
    BY <2>3, <2>4
  <2>6. t = msg
    BY <2>2, <2>5, SeqEqual
  <2> QED
    BY <2>1, <2>4, <2>6
<1> QED
  BY <1>2, <1>3

\* The codec's cursors, counters and bytes stay in range, whatever is fed to the
\* encoder and whatever block comes to the decoder: the encoder's never go
\* beyond its buffer's end, the decoder's never beyond its block's.
THEOREM CobsTyped == Spec => []TypeOK
<1>1. IInv => TypeOK
  BY IInvTyped
<1> QED
  BY <1>1, InvariantHolds, PTL

\* Decoding what CobsStreamEncoder made of a message gives the message back,
\* when finish() did not report that the buffer was too small: for messages of
\* any length and groups of any size, so at the edges at 254 data bytes too.
THEOREM MessageComesBack == Spec => []RoundTrip
<1>1. IInv => RoundTrip
  BY IInvRoundTrip
<1> QED
  BY <1>1, InvariantHolds, PTL

\* cobs_decode in place never writes over a byte it has yet to read, for every
\* block, well formed or not (framing.h, comment on cobs_decode).
THEOREM NothingUnreadIsLost == Spec => []UnreadIsIntact
<1>1. IInv => UnreadIsIntact
  BY DEF IInv, DecoderIsBehind, Decoding, Unread, UnreadIsIntact
<1> QED
  BY <1>1, InvariantHolds, PTL
=============================================================================
