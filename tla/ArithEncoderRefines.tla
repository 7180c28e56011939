------------------------ MODULE ArithEncoderRefines ------------------------
(***************************************************************************)
(* The fixed-point encoder implements the exact CodeInterval.  The bytes   *)
(* stored, the byte held back, the 0xFF run and base, read as one number,  *)
(* are the bottom of the exact free zone.                                  *)
(***************************************************************************)
EXTENDS ArithEncoder

Power[n \in Nat] == IF n = 0 THEN 1 ELSE Radix * Power[n - 1]

(* A sequence of bytes as a number.                                        *)
Value(bytes) ==
  LET value[n \in 0 .. Len(bytes)] ==
        IF n = 0 THEN 0 ELSE value[n - 1] * Radix + bytes[n]
  IN  value[Len(bytes)]

(* The carry bit stored above queued_byte went to the bytes before it.     *)
Queued(a) ==
  (Value(a.out) * Radix + (a.queued_byte % Radix)) * Power[a.queued_ff_bytes]
    + Power[a.queued_ff_bytes] - 1

(* The bottom of the exact free zone.                                      *)
Bottom(a) == Queued(a) * One + a.base

Exact ==
  INSTANCE CodeInterval WITH
    MaxDigits <- 2,
    low    <- IF phase = "coding" THEN Bottom(arith) ELSE 0,
    width  <- IF phase = "coding" THEN arith.wide ELSE 0,
    digits <- IF phase = "coding" THEN Produced ELSE 0,
    code   <- IF phase = "coding" THEN [value |-> 0, digits |-> 0]
              ELSE [value |-> Value(arith.out), digits |-> Len(arith.out)]

(* Every call keeps a nonempty part of the exact free zone, whatever       *)
(* rounding, renormalisation and the queued carry do to it, and the bytes  *)
(* arith_Finish_Encoding leaves are a number of the last zone.             *)
ImplementsCodeInterval == Exact!Spec
=============================================================================
