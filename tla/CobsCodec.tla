----------------------------- MODULE CobsCodec -----------------------------
(***************************************************************************)
(* The COBS block encoder and decoder of serial_rpc/framing.h.  A buffer   *)
(* index of the code is the same number here (from 0); an output buffer is *)
(* a function on 0 .. cap - 1.  The width of a byte is a parameter, so     *)
(* that a group of the maximal length, 254 data bytes in the code, can be  *)
(* short enough for TLC to enumerate.                                      *)
(***************************************************************************)
EXTENDS Naturals, Sequences

CONSTANT MaxCode  \* the largest byte, which is the code of a full group

ASSUME CobsAssumption == MaxCode \in Nat /\ MaxCode >= 2

Octet == 0 .. MaxCode

-----------------------------------------------------------------------------
(* COBS encoding: class CobsStreamEncoder, a record with the object's       *)
(* members.  'ok' is the sticky capacity flag.                              *)

Encoder(cap) ==
  [out |-> [i \in 0 .. cap - 1 |-> 0], cap |-> cap,
   encode |-> 1, codep |-> 0, code |-> 1, ok |-> TRUE]

\* Mutant: the data byte is stored without asking for room.
PutDataUnchecked(e, b) ==
  IF b = 0 THEN e ELSE [e EXCEPT !.out[e.encode] = b, !.encode = @ + 1, !.code = @ + 1]

\* First half of put_one_: a non-zero byte is copied and counted.
PutData(e, b) ==
  IF b = 0 THEN e
  ELSE IF e.encode >= e.cap THEN [e EXCEPT !.ok = FALSE]
  ELSE [e EXCEPT !.out[e.encode] = b, !.encode = @ + 1, !.code = @ + 1]

\* Mutant: a slot is reserved after every group.
AlwaysReserves(b, more_remaining) == TRUE

\* The slot of the next code byte is not reserved when a full group ends the
\* message: finish() then has nothing to flush.
ReservesSlot(b, more_remaining) == b = 0 \/ more_remaining

\* Second half of put_one_: a zero, or a full group, closes the group.
CloseGroup(e, b, more_remaining) ==
  IF ~(b = 0 \/ e.code = MaxCode) THEN e
  ELSE IF e.codep >= e.cap THEN [e EXCEPT !.ok = FALSE]
  ELSE [e EXCEPT !.out[e.codep] = e.code,
                 !.code = 1,
                 !.codep = e.encode,
                 !.encode = IF ReservesSlot(b, more_remaining) THEN @ + 1 ELSE @]

put_one(e, b, more_remaining) ==
  LET d == PutData(e, b)
  IN  IF d.ok THEN CloseGroup(d, b, more_remaining) ELSE d

\* What finish() leaves in the buffer, as the sequence of its first
\* 'returned length' bytes; the empty sequence stands for the result 0.
finish(e) ==
  LET flushed == IF e.codep < e.encode
                 THEN [e EXCEPT !.out[e.codep] = e.code]
                 ELSE e
  IN  IF ~e.ok \/ (e.codep < e.encode /\ e.codep >= e.cap)
      THEN << >>
      ELSE [i \in 1 .. e.encode |-> flushed.out[i - 1]]

cobs_max_encoded_size(n) == n + n \div (MaxCode - 1) + 1

-----------------------------------------------------------------------------
(* COBS decoding in place: cobs_decode(buf, len, buf, cap).  One step per   *)
(* turn of the code's loops; 'left' counts the data bytes of the group that *)
(* are still to be copied.                                                  *)

Decoder(data, cap) ==
  [buf |-> data, cap |-> cap, read |-> 0, write |-> 0, code |-> 0,
   left |-> 0, st |-> "code"]

DecodeCode(d) ==
  LET code == d.buf[d.read + 1]
  IN  IF d.read = Len(d.buf) THEN [d EXCEPT !.st = "done"]
      ELSE IF code = 0 \/ code - 1 > Len(d.buf) - (d.read + 1)
      THEN [d EXCEPT !.st = "error"]
      ELSE [d EXCEPT !.read = @ + 1, !.code = code, !.left = code - 1, !.st = "data"]

Write(d, b) ==
  IF d.write >= d.cap THEN [d EXCEPT !.st = "error"]
  ELSE [d EXCEPT !.buf[d.write + 1] = b, !.write = @ + 1]

DecodeData(d) ==
  LET b == d.buf[d.read + 1]
  IN  IF b = 0 THEN [d EXCEPT !.st = "error"]
      ELSE [Write(d, b) EXCEPT !.read = @ + 1, !.left = @ - 1]

\* Mutant: a zero is implied after a full group too.
ImpliesZeroAfterFull(d) == d.read < Len(d.buf)

\* Mutant: a zero is implied after the last group too.
ImpliesZeroAtEnd(d) == d.code # MaxCode

\* A zero is implied between groups, except after one split by the size limit.
ImpliesZero(d) == d.code # MaxCode /\ d.read < Len(d.buf)

DecodeEndGroup(d) ==
  LET w == IF ImpliesZero(d) THEN Write(d, 0) ELSE d
  IN  IF w.st = "error" THEN w ELSE [w EXCEPT !.st = "code"]

DecodeStep(d) ==
  IF d.st = "code" THEN DecodeCode(d)
  ELSE IF d.left > 0 THEN DecodeData(d)
  ELSE DecodeEndGroup(d)
=============================================================================
