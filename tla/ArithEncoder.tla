---------------------------- MODULE ArithEncoder ----------------------------
(***************************************************************************)
(* The encoding half of arithmetic-encoding.c: a fixed-point free zone     *)
(* (base, wide), the renormalisation that ships the top byte of base, and  *)
(* the output queue that holds back one byte and a run of 0xFF bytes until *)
(* it is known whether a carry will reach them.                            *)
(*                                                                         *)
(* The machine word is 2 * One (u32: bit 31 is the carry), a byte is a     *)
(* digit of base Radix, and out is what was stored from out_buf[-1] on.    *)
(***************************************************************************)
EXTENDS Integers, Sequences

CONSTANTS
  Radix,        \* values of a byte: 256
  MinWide,      \* MIN_WIDE: 2^23
  MaxTotal,     \* CUMULATIVE_PROBABILITY_MAX: 2^14
  Totals,       \* the totals callers pass, at most MaxTotal
  PowersOfTwo,  \* the powers of two of a machine word
  OutLimit      \* bound: bytes a message may have produced or queued

One  == Radix * MinWide       \* ONE: the width of the initial free zone
Word == 2 * One               \* values of a u32

ASSUME RadixAssumption == Radix \in Nat /\ Radix > 1
ASSUME MinWideAssumption == MinWide \in Nat /\ MinWide > 0
ASSUME TotalsAssumption ==
  /\ MaxTotal \in Nat /\ MaxTotal > 0
  /\ Totals \subseteq 1 .. MaxTotal
  /\ OutLimit \in Nat
(* Two renormalisations always suffice: the narrowest zone a call leaves   *)
(* is one share of MIN_WIDE / CUMULATIVE_PROBABILITY_MAX.                  *)
ASSUME ShareAssumption ==
  /\ MaxTotal <= MinWide
  /\ Radix * Radix * (MinWide \div MaxTotal) > MinWide
ASSUME PowersAssumption ==
  /\ PowersOfTwo \subseteq Nat \ {0}
  /\ MinWide \in PowersOfTwo /\ One \in PowersOfTwo
  /\ \A w \in 1 .. One : \E m \in PowersOfTwo : m <= w /\ w < 2 * m
  /\ \A m, n \in PowersOfTwo : m <= n => n % m = 0

VARIABLES
  arith,   \* struct Arith and the bytes behind out_ptr
  phase    \* "coding", then "done"

vars == <<arith, phase>>

Byte == 0 .. Radix - 1

(* struct Arith.  base carries into bit 31; queued_byte is stored with     *)
(* that carry bit still above the byte.                                    *)
ArithType ==
  [base : 0 .. Word - 1, wide : 1 .. One, queued_byte : 0 .. 2 * Radix - 1,
   queued_ff_bytes : Nat, out : Seq(Byte)]

-----------------------------------------------------------------------------
(* Mutant: the run of 0xFF bytes is sent as it is, whatever the carry.      *)
FlushWithoutRunCarry(a, carry) ==
  [a EXCEPT
     !.out = (@ \o <<(a.queued_byte + carry) % Radix>>)
                \o [i \in 1 .. a.queued_ff_bytes |-> Radix - 1],
     !.queued_ff_bytes = 0]

(* Mutant: the run of 0xFF bytes is forgotten.                             *)
FlushWithoutRun(a, carry) ==
  [a EXCEPT !.out = @ \o <<(a.queued_byte + carry) % Radix>>,
            !.queued_ff_bytes = 0]

(* flush_output_queue: the queued byte with its carry, then the 0xFF run,  *)
(* which a carry turns into zeros.  A store keeps the low byte.            *)
FlushOutputQueue(a, carry) ==
  [a EXCEPT
     !.out = (@ \o <<(a.queued_byte + carry) % Radix>>)
                \o [i \in 1 .. a.queued_ff_bytes |-> (Radix - 1 + carry) % Radix],
     !.queued_ff_bytes = 0]

(* Mutant: a 0xFF byte is held back like any other.                        *)
QueueAnyByte(a) ==
  [FlushOutputQueue(a, a.base \div One) EXCEPT !.queued_byte = a.base \div MinWide]

(* The body of the renormalisation loop.                                   *)
QueueTopByte(a) ==
  LET byte == a.base \div MinWide
  IN  IF byte = Radix - 1
      THEN [a EXCEPT !.queued_ff_bytes = @ + 1]
      ELSE [FlushOutputQueue(a, a.base \div One) EXCEPT !.queued_byte = byte]

(* Mutant: base is not masked after the shift.                             *)
ShiftUnmasked(a) ==
  [QueueTopByte(a) EXCEPT !.base = @ * Radix, !.wide = @ * Radix]

ShiftByte(a) ==
  [QueueTopByte(a) EXCEPT !.base = (@ * Radix) % One, !.wide = @ * Radix]

(* Mutant: the loop stops one unit early.                                  *)
RenormalizeBelow(a) == IF a.wide < MinWide THEN ShiftByte(a) ELSE a

RenormalizeOnce(a) == IF a.wide <= MinWide THEN ShiftByte(a) ELSE a

(* renormalize_and_write_if_needed; ShareAssumption bounds the loop.       *)
Renormalize(a) == RenormalizeOnce(RenormalizeOnce(a))

Zone(base, wide) ==
  Renormalize([arith EXCEPT !.base = base % Word, !.wide = wide])

(* Bytes the file would have if the message ended here.                    *)
Produced == Len(arith.out) + 1 + arith.queued_ff_bytes
-----------------------------------------------------------------------------
(* Mutant: queued_byte keeps what an earlier message left there.           *)
InitStaleQueue ==
  /\ \E byte \in Byte :
       arith = [base |-> 0, wide |-> One, queued_byte |-> byte,
                queued_ff_bytes |-> 0, out |-> <<>>]
  /\ phase = "coding"

(* arith_Start_Encoding.                                                   *)
Init ==
  /\ arith = [base |-> 0, wide |-> One, queued_byte |-> 0,
              queued_ff_bytes |-> 0, out |-> <<>>]
  /\ phase = "coding"

(* arith_Encode_Bit: a zero takes the lower mid parts of total.            *)
EncodeBit(mid, total, bit) ==
  /\ phase = "coding"
  /\ Produced <= OutLimit
  /\ LET r == (arith.wide \div total) * mid
     IN  arith' = IF bit THEN Zone(arith.base + r, arith.wide - r)
                         ELSE Zone(arith.base, r)
  /\ UNCHANGED phase

(* arith_Encode_1_Of_N: parts low .. high-1 of total, the top partition    *)
(* taking what the division rounded off.                                   *)
Encode1OfN(low, high, total) ==
  /\ phase = "coding"
  /\ Produced <= OutLimit
  /\ LET ratio == arith.wide \div total
         base_increment == ratio * low
     IN  arith' = Zone(arith.base + base_increment,
                       IF high = total THEN arith.wide - base_increment
                                       ELSE ratio * (high - low))
  /\ UNCHANGED phase

(* arith_Finish_Encoding's tail loop: bytes of base until it is zero.      *)
EmitTopByte(a) ==
  IF a.base = 0 THEN a
  ELSE [a EXCEPT !.out = Append(@, (a.base \div MinWide) % Radix),
                 !.base = (@ * Radix) % One]

EmitTail(a) == EmitTopByte(EmitTopByte(EmitTopByte(EmitTopByte(a))))

(* The top bit of wide.                                                    *)
WideMsb == CHOOSE m \in PowersOfTwo : m <= arith.wide /\ arith.wide < 2 * m

(* Mutant: base is not cleared below the top bit of wide.                  *)
FinishUncleared ==
  LET top     == (arith.base + arith.wide - 1) % Word
      flushed == FlushOutputQueue(arith, top \div One)
  IN  /\ phase = "coding"
      /\ phase' = "done"
      /\ arith' = EmitTail([flushed EXCEPT !.base = top % One])

(* arith_Finish_Encoding: the largest number of the zone, cleared below    *)
(* the top bit of wide, with its trailing zero bytes left out.             *)
Finish ==
  LET top     == (arith.base + arith.wide - 1) % Word
      flushed == FlushOutputQueue(arith, top \div One)
  IN  /\ phase = "coding"
      /\ phase' = "done"
      /\ arith' = EmitTail([flushed EXCEPT
                              !.base = (top - (top % WideMsb)) % One])

Encode1OfNCall ==
  \E total \in Totals : \E high \in 1 .. total : \E low \in 0 .. high - 1 :
    Encode1OfN(low, high, total)

EncodeBitCall ==
  \E total \in Totals : \E mid \in 1 .. total - 1 : \E bit \in BOOLEAN :
    EncodeBit(mid, total, bit)

Next == Encode1OfNCall \/ EncodeBitCall \/ Finish

Spec == Init /\ [][Next]_vars
-----------------------------------------------------------------------------
(* The types of struct Arith, wide's bounds included (assert f.wide <=     *)
(* ONE of renormalize_and_write_if_needed).                                *)
TypeOK == arith \in ArithType /\ phase \in {"coding", "done"}

(* Between calls the zone keeps more than MIN_WIDE units, so that every    *)
(* ratio wide / total a later call computes is at least one and each of    *)
(* its partitions is not empty: the reason for CUMULATIVE_PROBABILITY_MAX. *)
NormalisedWide == phase = "coding" => MinWide < arith.wide /\ arith.wide <= One

(* The zone never reaches a second carry, and while it can still reach the *)
(* first one the byte held back can take it.                               *)
Room(a) ==
  /\ a.base + a.wide <= Word
  /\ a.base + a.wide > One => a.queued_byte % Radix # Radix - 1

(* The output queue absorbs every carry: flush_output_queue's queued_byte  *)
(* + carry never carries into a byte already stored, although the queue    *)
(* lets a 0x1FF pass as an ordinary byte.                                  *)
CarryRoom == phase = "coding" => Room(arith)

(* arith_Start_Encoding aims out_ptr one byte before the buffer, and       *)
(* pzip_Encode restores the byte there afterwards ("The arithc has stuffed *)
(* 1 byte; put it back").  A decoder never sees that byte: it must be a    *)
(* zero, which no carry may have reached.                                  *)
StuffedByteIsZero == arith.out # <<>> => arith.out[1] = 0

(* arith_Finish_Encoding's comment: "we almost always write just 1 byte    *)
(* (in fact, I think we might *always* write 1 byte)".  Ending the message *)
(* stores the bytes that were queued and at most one more.                 *)
FinishWritesOneByte ==
  [][ phase' = "done" => Len(arith'.out) <= Produced + 1 ]_vars
=============================================================================
