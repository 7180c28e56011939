------------------------------ MODULE DetEscape ------------------------------
(***************************************************************************)
(* det_escape.c: how likely the prediction of a deterministic context is   *)
(* to fail, learnt from the calls that were in the same situation before.  *)
(* The situations are partitioned in three ways, and a bin of each         *)
(* partition counts its calls and their escapes.                           *)
(***************************************************************************)
EXTENDS DetEscapeConstants, FiniteSets

VARIABLE bins   \* self->esc and self->tot, by partition and index

vars == <<bins>>

-----------------------------------------------------------------------------
AtMost(n, limit) == IF n <= limit THEN n ELSE limit
AtLeast(n, limit) == IF n >= limit THEN n ELSE limit

(* total_code: the eight codes of a total.                                 *)
TotalCode(total) ==
  IF total >= 15 THEN 7 ELSE <<0, 1, 2, 3, 3, 4, 4, 5, 5, 5, 6, 6, 6>>[total - 1]

(* Bins are allocated for one to three escapes only.                       *)
HasBins(u) == u.escape_count < 4

(* pick_bins: the five bits all three partitions begin with, and what each *)
(* of them adds.                                                           *)
Counts(u) ==
  u.escape_count - 1 + 4 * TotalCode(u.escape_count + u.total_symbol_count)
Size(u) == AtMost(u.followset_size, 3)
Bin(u, partition) ==
  LET rest == <<Size(u),
                u.key[1] + 4 * u.key[2] + 16 * u.key[3] + 64 * u.key[4]
                  + 256 * Size(u),
                u.low + 32 * u.key[1] + 128 * u.key[2] + 512 * Size(u)>>
  IN  <<partition, Counts(u) + 32 * rest[partition + 1]>>

Partitions == 0 .. 2
BinsOf(u) == {Bin(u, partition) : partition \in Partitions}
Bins == UNION {BinsOf(u) : u \in {v \in Situations : HasBins(v)}}

(* escape_Create: the guess a bin is seeded with.                          *)
SeedOf(bin) ==
  [esc |-> 1 + InitScale * (bin[2] % 4) + InitEsc,
   tot |-> 2 + InitScale * ((bin[2] \div 4) % 8) + InitTot + InitEsc]

(* update_escape_statistics on one bin, before it is scaled.               *)
Told(b, escape) ==
  IF escape THEN [esc |-> b.esc + EscInc, tot |-> b.tot + EscInc + EscTotInc]
            ELSE [b EXCEPT !.tot = @ + TotInc]

(* Half of both, as soon as the total is above the limit; an escape stays  *)
(* possible.                                                               *)
Halved(b) ==
  IF b.tot > HalveAbove
  THEN [esc |-> AtLeast(b.esc \div 2, 1), tot |-> b.tot \div 2]
  ELSE b

(* escape_Encode and escape_Decode, beside the bit they code: the bins of  *)
(* the situation learn whether it was an escape.                           *)
Learn(u, escape) ==
  IF HasBins(u)
  THEN bins' = [bins EXCEPT ![Bin(u, 0)] = Halved(Told(@, escape)),
                            ![Bin(u, 1)] = Halved(Told(@, escape)),
                            ![Bin(u, 2)] = Halved(Told(@, escape))]
  ELSE UNCHANGED bins

Init == bins = [b \in Bins |-> SeedOf(b)]

Next == \E u \in Situations : \E escape \in BOOLEAN : Learn(u, escape)

Spec == Init /\ [][Next]_vars
-----------------------------------------------------------------------------
(* intlog2r of numbers of at most 16 bits: rbits of the highest byte, which *)
(* is rounded up from the numbers listed.                                  *)
RBits(n) ==
  Cardinality({i \in 1 .. 8 : <<2, 3, 6, 12, 23, 46, 91, 182>>[i] <= n})
IntLog2(n) == IF n \div 256 > 0 THEN 8 + RBits(n \div 256) ELSE RBits(n)

(* Mutant: the logarithm of the symbols is that of the total.              *)
EntropyOfTotal(b) ==
  b.tot * IntLog2(b.tot) - b.esc * IntLog2(b.esc) - b.tot * IntLog2(b.tot - b.esc)

Entropy(b) ==
  b.tot * IntLog2(b.tot) - b.esc * IntLog2(b.esc)
    - (b.tot - b.esc) * IntLog2(b.tot - b.esc)

(* The relative weight of a bin's prediction.                              *)
Weight(b) == WeightOne \div (Entropy(b) + 1)

Odds(escape, total) == [escape |-> escape, total |-> total]

Blend(u) ==
  LET b0 == bins[Bin(u, 0)]  w0 == Weight(b0)
      b1 == bins[Bin(u, 1)]  w1 == Weight(b1)
      b2 == bins[Bin(u, 2)]  w2 == Weight(b2)
  IN  Odds(w0 * b0.esc + w1 * b1.esc + w2 * b2.esc,
           w0 * b0.tot + w1 * b1.tot + w2 * b2.tot)

(* Division of both counts, as long as the total is too large.             *)
Shift(o, limit, by) ==
  IF o.total >= limit THEN Odds(o.escape \div by, o.total \div by) ELSE o

(* Mutant: the last of the shifts is missing.                              *)
ScaledOnceLess(o) ==
  LET two == Shift(Shift(o, 128 * MaxTotal, 256), 128 * MaxTotal, 256)
  IN  Shift(Shift(two, 8 * MaxTotal, 16), 2 * MaxTotal, 4)

(* "Scale our final answer to avoid overflow in the arithmetic encoder":   *)
(* the while is entered at most twice.                                     *)
Scaled(o) ==
  LET two == Shift(Shift(o, 128 * MaxTotal, 256), 128 * MaxTotal, 256)
  IN  Shift(Shift(Shift(two, 8 * MaxTotal, 16), 2 * MaxTotal, 4), MaxTotal, 2)

(* "If our prediction is insane -- change it!"                             *)
BothPossible(o) ==
  LET escape == AtLeast(o.escape, 1)
  IN  Odds(escape, AtLeast(o.total, escape + 1))

(* estimated_escape_probability.                                           *)
Estimate(u) ==
  IF HasBins(u) THEN BothPossible(Scaled(Blend(u)))
  ELSE Odds(u.escape_count, u.escape_count + u.total_symbol_count)
-----------------------------------------------------------------------------
(* Whatever the bins were told, and however their halvings fall: every bin *)
(* expects an escape and a match, and its total stays where one halving    *)
(* suffices, in its sixteen bits and in those of the logarithm.            *)
BinsSane ==
  \A b \in Bins :
    /\ 1 <= bins[b].esc
    /\ bins[b].esc < bins[b].tot
    /\ bins[b].tot <= HalveAbove

(* Every partition's index is one of its array.                            *)
BinsInRange ==
  \A b \in Bins : 0 <= b[2] /\ b[2] < <<128, 32768, 65536>>[b[1] + 1]

(* The divisors of the weights are positive although intlog2r does not     *)
(* tell every number from its double, and the weighted sums stay in an int. *)
BlendFits ==
  /\ \A b \in DOMAIN bins : Entropy(bins[b]) >= 0
  /\ \A u \in Situations : HasBins(u) => Blend(u).total <= IntMax

(* The coder can take every estimate the bins give: an escape and a match  *)
(* both keep a part of the zone, and the total is one of its totals.       *)
OddsCodable ==
  \A u \in Situations : HasBins(u) =>
    LET odds == Estimate(u)
    IN  1 <= odds.escape /\ odds.escape < odds.total /\ odds.total <= MaxTotal
=============================================================================
