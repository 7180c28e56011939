----------------------------- MODULE ArithCodec -----------------------------
(***************************************************************************)
(* A message from arith_Start_Encoding to the last decoded symbol.  The    *)
(* encoder codes some calls and finishes; pzip_Encode drops the stuffed    *)
(* byte; the decoding half of arithmetic-encoding.c then reads the file    *)
(* byte by byte and, past its end, whatever the buffer holds there.        *)
(*                                                                         *)
(* sent is the list of calls: what the decoder's model of the data asks    *)
(* for next, as long as all its answers so far were right.                 *)
(***************************************************************************)
EXTENDS ArithEncoder

CONSTANTS
  TailRadix,   \* 1 << TAIL_EXTRA_BITS: 2, Radix is EXTRA_BITS more
  Slop,        \* bytes a buffer may hold past the end of the file
  Padding,     \* zeros arith_Finish_Encoding stores behind the code: 6
  MaxCalls     \* bound: calls of a message

VARIABLES
  sent,   \* the calls that were coded
  slop,   \* the byte behind the end of the file
  dec,    \* struct Arith of the decoder, next: how many bytes it has read
  heard,  \* how many calls were decoded
  garbled \* the decoder gave a wrong answer

codecVars == <<arith, phase, sent, slop, dec, heard, garbled>>

ExtraRadix == Radix \div TailRadix    \* 1 << EXTRA_BITS
File == Tail(arith.out)
FileByte(i) == IF i <= Len(File) THEN File[i] ELSE slop

(* A byte splits at EXTRA_BITS, and MIN_WIDE is a byte without its tail    *)
(* followed by at most two whole bytes, so that the decoder's word fills   *)
(* to exactly ONE.  Padding has room for the bytes of that word.           *)
ASSUME DecoderAssumption ==
  /\ TailRadix \in Nat /\ TailRadix > 0
  /\ Radix % TailRadix = 0
  /\ Slop \subseteq Byte
  /\ Padding \in Nat /\ MaxCalls \in Nat
  /\ \/ MinWide = ExtraRadix /\ 2 <= Padding
     \/ MinWide = ExtraRadix * Radix /\ 3 <= Padding
     \/ MinWide = ExtraRadix * Radix * Radix /\ 4 <= Padding

Idle == [base |-> 0, wide |-> 1, queued_byte |-> 0, next |-> 0]

-----------------------------------------------------------------------------
(* arith_Start_Decoding: the first byte without its lowest bit.            *)
StartDecoding(first) ==
  [base |-> first \div TailRadix, wide |-> ExtraRadix,
   queued_byte |-> first, next |-> 1]

(* Mutant: the bit left in the queued byte is lost.                        *)
ReadWithoutQueue(d) ==
  LET byte == FileByte(d.next + 1)
  IN  [base |-> (d.base * Radix + (byte \div TailRadix)) % Word,
       wide |-> d.wide * Radix, queued_byte |-> byte, next |-> d.next + 1]

(* The body of the loop: the bit left in the queued byte, then all but the *)
(* last bit of the next byte.                                              *)
ReadByte(d) ==
  LET byte == FileByte(d.next + 1)
  IN  [base |-> (d.base * Radix + ((d.queued_byte * ExtraRadix) % Radix)
                   + (byte \div TailRadix)) % Word,
       wide |-> d.wide * Radix, queued_byte |-> byte, next |-> d.next + 1]

ReadOnce(d) == IF d.wide <= MinWide THEN ReadByte(d) ELSE d

(* renormalize_and_read_if_needed: three turns fill the initial word, two  *)
(* suffice after a call.                                                   *)
Refill(d) == ReadOnce(ReadOnce(ReadOnce(d)))

(* arith_Get_1_Of_N: the part of total that base falls into, the rounding  *)
(* leftover counting as the last part.                                     *)
Get1OfN(d, total) ==
  LET part == d.base \div (d.wide \div total)
  IN  IF part >= total THEN total - 1 ELSE part

(* Mutant: the last part does not get the rounding leftover.               *)
DecodeRounded(d, low, high, total) ==
  LET ratio == d.wide \div total
  IN  [d EXCEPT !.base = (@ - ratio * low) % Word,
                !.wide = ratio * (high - low)]

(* arith_Decode_1_Of_N.                                                    *)
Decode1OfN(d, low, high, total) ==
  LET ratio == d.wide \div total
      base_decrement == ratio * low
  IN  [d EXCEPT !.base = (@ - base_decrement) % Word,
                !.wide = IF high = total THEN @ - base_decrement
                                         ELSE ratio * (high - low)]

(* arith_Decode_Bit's answer and what it leaves.                           *)
BitOf(d, mid, total) == d.base >= (d.wide \div total) * mid

DecodeBit(d, mid, total) ==
  LET r == (d.wide \div total) * mid
  IN  IF BitOf(d, mid, total) THEN [d EXCEPT !.base = @ - r, !.wide = @ - r]
                              ELSE [d EXCEPT !.wide = r]
-----------------------------------------------------------------------------
CodecInit ==
  /\ Init
  /\ sent = <<>>
  /\ slop = 0
  /\ dec = Idle
  /\ heard = 0
  /\ garbled = FALSE

Send1OfN ==
  \E total \in Totals : \E high \in 1 .. total : \E low \in 0 .. high - 1 :
    /\ Len(sent) < MaxCalls
    /\ Encode1OfN(low, high, total)
    /\ sent' = Append(sent, [of |-> "range", low |-> low, high |-> high,
                             total |-> total])
    /\ UNCHANGED <<slop, dec, heard, garbled>>

SendBit ==
  \E total \in Totals : \E mid \in 1 .. total - 1 : \E bit \in BOOLEAN :
    /\ Len(sent) < MaxCalls
    /\ EncodeBit(mid, total, bit)
    /\ sent' = Append(sent, [of |-> "bit", mid |-> mid, total |-> total,
                             bit |-> bit])
    /\ UNCHANGED <<slop, dec, heard, garbled>>

(* The end of coding; the decoder opens the file.                          *)
Close ==
  /\ Finish
  /\ slop' \in Slop
  /\ dec' = StartDecoding(FileByte(1)')
  /\ UNCHANGED <<sent, heard, garbled>>

(* Whether the decoder's answer is the call that was coded: its model of   *)
(* the data then goes on as the encoder's did.                             *)
Recognised(d, call) ==
  IF call.of = "range"
  THEN Get1OfN(d, call.total) \in call.low .. call.high - 1
  ELSE BitOf(d, call.mid, call.total) = call.bit

Decoded(d, call) ==
  IF call.of = "range" THEN Decode1OfN(d, call.low, call.high, call.total)
                       ELSE DecodeBit(d, call.mid, call.total)

(* The decoder's turn at the next call.  Once an answer was wrong its model *)
(* of the data is not the encoder's, and the rest is garbage.              *)
Hear ==
  /\ phase = "done"
  /\ ~garbled
  /\ heard < Len(sent)
  /\ LET call == sent[heard + 1]
         d == Refill(dec)
     IN  IF Recognised(d, call)
         THEN dec' = Decoded(d, call) /\ heard' = heard + 1 /\ UNCHANGED garbled
         ELSE dec' = d /\ garbled' = TRUE /\ UNCHANGED heard
  /\ UNCHANGED <<arith, phase, sent, slop>>

CodecNext == Send1OfN \/ SendBit \/ Close \/ Hear

CodecSpec == CodecInit /\ [][CodecNext]_codecVars
-----------------------------------------------------------------------------
(* "Set 'base' to the maximum that won't change how it decodes": whatever  *)
(* was coded, with whatever carries, 0xFF runs and dropped zero bytes, the *)
(* decoder gets the same answers in the same order.                        *)
RoundTrip == ~garbled

(* The number the decoder holds lies in the decoder's zone, so that none   *)
(* of its subtractions wraps and no answer exceeds its total.              *)
DecoderInZone == phase = "done" /\ ~garbled => dec.base < dec.wide

(* The decoder runs ahead of the calls it has answered by the bytes of its *)
(* word.  The zeros that arith_Finish_Encoding stores behind the code are  *)
(* enough for a decoder that shares its buffer.                            *)
ReadsStayInPadding == phase = "done" => dec.next <= Len(File) + Padding
=============================================================================
