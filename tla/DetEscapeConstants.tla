------------------------- MODULE DetEscapeConstants -------------------------
(***************************************************************************)
(* det_escape.h and the numbers in det_escape.c: what the bins are seeded  *)
(* with, how they grow, and the ints they are blended in.                  *)
(***************************************************************************)
EXTENDS Integers

CONSTANTS
  Situations,   \* what escape_Encode and escape_Decode are called with
  InitEsc,      \* ZEsc_INIT_ESC: 8
  InitTot,      \* ZEsc_INIT_TOT: 12
  InitScale,    \* ZEsc_INIT_SCALE: 7
  EscInc,       \* ZEsc_ESC_INC: 17
  EscTotInc,    \* ZEsc_ESCTOT_INC: 1
  TotInc,       \* ZEsc_TOT_INC: 17
  HalveAbove,   \* the total a bin is halved above: 16000
  WeightOne,    \* the numerator of a weight: 2^16
  MaxTotal,     \* CUMULATIVE_PROBABILITY_MAX: 2^14
  IntMax        \* INT_MAX: 2^31 - 1

(* A situation: of the last four bytes, newest first, the two bits that    *)
(* the partitions tell apart, the low five bits of the newest, and the     *)
(* statistics of the contexts.                                             *)
SituationType ==
  [key : [1 .. 4 -> 0 .. 3], low : 0 .. 31, escape_count : Nat \ {0},
   total_symbol_count : Nat \ {0}, followset_size : Nat]

(* The increments that keep escapes below the total through a halving, and *)
(* totals that leave a u16, here up to HalveAbove plus one increment, and  *)
(* the logarithms' sixteen bits alone.                                     *)
ASSUME SituationsAssumption == Situations \subseteq SituationType
ASSUME SeedsAssumption == InitEsc \in Nat /\ InitTot \in Nat /\ InitScale \in Nat
ASSUME ScalesAssumption ==
  /\ EscInc \in Nat /\ EscTotInc \in Nat \ {0} /\ TotInc \in Nat \ {0}
  /\ HalveAbove \in Nat /\ 3 <= HalveAbove
  /\ 2 + 7 * InitScale + InitTot + InitEsc <= HalveAbove
  /\ TotInc <= HalveAbove /\ EscInc + EscTotInc <= HalveAbove
  /\ HalveAbove < 32768
(* What the blend of three predictions needs to stay in an int.            *)
ASSUME OddsAssumption ==
  /\ WeightOne \in Nat /\ MaxTotal \in Nat \ {0, 1} /\ IntMax \in Nat
  /\ 3 * 512 * WeightOne <= IntMax
  /\ 3 * (WeightOne \div 2) * HalveAbove <= IntMax
  /\ IntMax \div 65536 < 128 * MaxTotal
=============================================================================
