------------------------------ MODULE SeeStates ------------------------------
(***************************************************************************)
(* see.c: how likely a context of some statistics is to escape, learnt     *)
(* from the contexts that were in the same situation before.  A situation  *)
(* is hashed to a state of order2, whose parent in order1 is named by the  *)
(* upper bits of the hash, and whose parent in order0 by its uppermost.    *)
(***************************************************************************)
EXTENDS Integers, Sequences, FiniteSetsExt

CONSTANTS
  Situations,      \* what see_Get_State is called with
  MaxEscapes,      \* MAX_SEE_ESCC: 3
  MaxSymbols,      \* MAX_SEE_TOTC: 64
  InitScale,       \* SEE_INIT_SCALE: 7
  InitEsc,         \* SEE_INIT_ESC: 8
  InitTot,         \* SEE_INIT_TOT: 18
  Inc,             \* SEE_INC: 17
  EscExtraInc,     \* SEE_ESC_TOT_EXTRA_INC: 1
  ScaleDown,       \* SEE_SCALE_DOWN: 8000
  EscScaleDown,    \* SEE_ESC_SCALE_DOWN: 500
  Log2Table,       \* ilog2round_tab
  WeightOne,       \* the numerator of a weight: 2^16
  OddsLimit,       \* what get_stats' totals are shifted below: 16000
  MaxTotal,        \* CUMULATIVE_PROBABILITY_MAX: 2^14
  Word             \* values of a uint: 2^32

(* A situation as see_Get_State hashes it: escapes and total as they are   *)
(* after "total -= escapes; -- escapes", the order of the context, the     *)
(* size of its parent's followset, whether its own has one symbol, and of  *)
(* key two bits of each of the last four bytes and the low five bits.      *)
SituationType ==
  [order : Nat, escapes : 0 .. MaxEscapes, total : 0 .. MaxSymbols - 1,
   parent_size : Nat, det : BOOLEAN, key : [1 .. 4 -> 0 .. 3], low : 0 .. 31]

LogSize == Len(Log2Table) + 1

(* The total a context brings along: escapes, total_symbol_count and what  *)
(* is in both.                                                             *)
LargestOwnTotal == 2 * (MaxEscapes + 1) + MaxSymbols

ASSUME SituationsAssumption ==
  /\ MaxEscapes \in 0 .. 3 /\ MaxSymbols \in Nat
  /\ Situations \subseteq SituationType
ASSUME SeedsAssumption ==
  /\ InitScale \in Nat /\ InitEsc \in Nat /\ InitTot \in Nat
  /\ InitEsc > 0 /\ InitTot > InitEsc
ASSUME ScalesAssumption ==
  /\ Inc \in Nat \ {0} /\ EscExtraInc \in Nat
  /\ ScaleDown \in Nat /\ EscScaleDown \in Nat
  /\ Inc + EscExtraInc + 5 < ScaleDown
ASSUME OddsAssumption ==
  /\ WeightOne \in Nat /\ OddsLimit \in Nat \ {0}
  /\ MaxTotal \in Nat /\ OddsLimit < MaxTotal
  /\ Word \div 2^30 < OddsLimit
(* The logarithms are those of numbers up to the totals, rounded in any    *)
(* way that keeps their order and tells a number from its double.          *)
ASSUME LogAssumption ==
  /\ Log2Table \in Seq(Nat)
  /\ ScaleDown <= LogSize /\ LargestOwnTotal < LogSize
  /\ \A m, n \in 1 .. LogSize - 1 : m <= n => Log2Table[m] <= Log2Table[n]
  /\ \A n \in 1 .. LogSize - 1 : 2 * n < LogSize => Log2Table[n] < Log2Table[2 * n]
(* A weight is at most 2 * WeightOne, as no divisor is below 2.            *)
ASSUME WordAssumption ==
  /\ Word \in Nat
  /\ 6 * WeightOne * ScaleDown + WeightOne * LargestOwnTotal < Word

-----------------------------------------------------------------------------
(* The eight codes of a total, and the totals they are seeded with.        *)
CodeOfTotal(total) ==
  IF total <= 13 THEN <<0, 1, 2, 3, 3, 4, 4, 5, 5, 5, 6, 6, 6, 6>>[total + 1] ELSE 7
TotalOfCode(code) == <<0, 1, 2, 3, 5, 8, 11, 20>>[code + 1]

(* Two bits of each byte of key that matters to the order, below h.        *)
TwoBits(u, h, i, used) == IF used THEN h * 4 + u.key[i] ELSE h
Keyed(u, h) ==
  LET two  == TwoBits(u, TwoBits(u, h, 1, u.order > 0), 2, u.order > 1)
      few  == u.escapes <= 1
  IN  TwoBits(u, TwoBits(u, two, 3, u.order > 2 /\ few), 4, u.order > 3 /\ few)

(* The hash of see_Get_State, field by field from the top.                 *)
Hash(u) ==
  LET order_code  == IF u.escapes >= 1 THEN (IF u.order >= 3 THEN 1 ELSE 0)
                     ELSE Min({u.order \div 2, 3})
      stats       == ((u.escapes * 8 + CodeOfTotal(u.total)) * 4 + order_code) * 4
      surrounding == (stats + Min({u.parent_size, 3})) * 2 + (IF u.det THEN 1 ELSE 0)
  IN  Keyed(u, surrounding) * 32 + u.low

(* The states of a situation by table and index: that of order2 and its    *)
(* parents.  An index of order2 has 23 bits, of order1 16, of order0 9.    *)
Order2(u) == <<2, Hash(u)>>
Order1(u) == <<1, Hash(u) \div 2^7>>
Order0(u) == <<0, Hash(u) \div 2^14>>
Chain(u) == {Order2(u), Order1(u), Order0(u)}
Nodes == UNION {Chain(u) : u \in Situations}

(* initialize and stats_from_hash: the upper five bits of an index are     *)
(* taken for the escapes and the code of the total.                        *)
FiveBits(node) ==
  node[2] \div (CASE node[1] = 2 -> 2^18 [] node[1] = 1 -> 2^11 [] node[1] = 0 -> 2^4)
Seed(escapes, total) ==
  [seen    |-> FALSE,
   escapes |-> (escapes + 1) * InitScale + InitEsc,
   total   |-> (escapes + 1 + total + escapes + 1) * InitScale + InitTot]
SeedOf(node) == Seed(FiveBits(node) \div 8, TotalOfCode(FiveBits(node) % 8))

(* With the values of config.c a seed's total is at most 214.              *)
ASSUME SeedTotalsAssumption == \A node \in Nodes : SeedOf(node).total < ScaleDown

VARIABLE states   \* struct See_State by node; of seen, whether it is not zero

vars == <<states>>

(* Mutant: an escape adds to escapes what it adds to no total.             *)
ToldEscapesOnly(s, escape) ==
  IF escape
  THEN [s EXCEPT !.seen = TRUE, !.escapes = @ + Inc, !.total = @ + EscExtraInc]
  ELSE [s EXCEPT !.seen = TRUE, !.total = @ + Inc]

(* The counts of see_Adjust_State, before they are scaled.                 *)
Told(s, escape) ==
  IF escape
  THEN [s EXCEPT !.seen = TRUE, !.escapes = @ + Inc, !.total = @ + Inc + EscExtraInc]
  ELSE [s EXCEPT !.seen = TRUE, !.total = @ + Inc]

Halved(s) == [s EXCEPT !.escapes = (@ \div 2) + 1, !.total = (@ \div 2) + 2]

(* see_Adjust_State on one state: many escapes are forgotten at the first  *)
(* call without one, and every state when its total grows too large.       *)
Adjusted(s, escape) ==
  LET recent == IF ~escape /\ s.escapes >= EscScaleDown THEN Halved(s) ELSE s
      told   == Told(recent, escape)
  IN  IF told.total >= ScaleDown THEN Halved(told) ELSE told
-----------------------------------------------------------------------------
Init == states = [node \in Nodes |-> SeedOf(node)]

(* see_Encode_Escape, see_Decode_Escape and context_Update: what a context *)
(* did goes to the state of its situation and to the parents of that.      *)
AdjustState(u, escape) ==
  states' = [node \in Nodes |->
               IF node \in Chain(u) THEN Adjusted(states[node], escape)
                                    ELSE states[node]]

Next == \E u \in Situations : \E escape \in BOOLEAN : AdjustState(u, escape)

Spec == Init /\ [][Next]_vars
-----------------------------------------------------------------------------
(* ilog2roundtab.                                                          *)
Log2(n) == IF n = 0 THEN 0 ELSE Log2Table[n]

(* Mutant: the logarithm of the smaller part is rounded up.                *)
EntropyRoundedUp(escapes, total) ==
  total * Log2(total) - escapes * (Log2(escapes) + 1)
    - (total - escapes) * Log2(total - escapes)

(* The divisor of a weight, in get_stats' unsigned arithmetic.             *)
Entropy(escapes, total) ==
  total * Log2(total) - escapes * Log2(escapes)
    - (total - escapes) * Log2(total - escapes)

(* Mutant: a state that was told something counts sixteenfold.             *)
WeightSixteen(s) ==
  (WeightOne \div (Entropy(s.escapes, s.total) + 1)) * (IF s.seen THEN 16 ELSE 1)

Weight(s) ==
  (WeightOne \div (Entropy(s.escapes, s.total) + 1)) * (IF s.seen THEN 4 ELSE 1)

(* What get_stats blends: the states of the chain, and the counts of the   *)
(* context itself.                                                         *)
Own(u) ==
  [seen |-> FALSE, escapes |-> u.escapes + 1,
   total |-> u.escapes + 1 + u.total + u.escapes + 1]
Blend(u) ==
  LET s0  == states[Order0(u)]
      s1  == states[Order1(u)]
      s2  == states[Order2(u)]
      own == Own(u)
  IN  [total   |-> Weight(s0) * s0.total + Weight(s1) * s1.total
                     + Weight(s2) * s2.total + Weight(own) * own.total,
       escapes |-> Weight(s0) * s0.escapes + Weight(s1) * s1.escapes
                     + Weight(s2) * s2.escapes + Weight(own) * own.escapes]

(* "If our prediction is insane -- change it!"                             *)
Possible(escapes, total) ==
  LET some == Max({escapes, 1})
  IN  [escapes |-> some, total |-> IF total <= some THEN some + 1 ELSE total]

(* Mutant: the blend is given to the coder as it is.                       *)
OddsUnshifted(u) == Possible(Blend(u).escapes, Blend(u).total)

(* get_stats: the blend, halved until the coder can take it, which 30      *)
(* halvings of a uint always do.                                           *)
Odds(u) ==
  LET blend  == Blend(u)
      shifts == Min({s \in 0 .. 30 : blend.total \div 2^s < OddsLimit})
  IN  Possible(blend.escapes \div 2^shifts, blend.total \div 2^shifts)
-----------------------------------------------------------------------------
(* The types of the states, and see_Get_State's assertion that a hash is   *)
(* one of order2.                                                          *)
TypeOK ==
  /\ states \in [Nodes -> [seen : BOOLEAN, escapes : Nat, total : Nat]]
  /\ \A u \in Situations : Hash(u) \in 0 .. 2^23 - 1

(* Whatever is told to whatever states, sharing parents or not, and however *)
(* the two rules of scaling meet: a state expects an escape and a symbol,  *)
(* its total stays where one halving always suffices ("assert( ss->total < *)
(* SEE_SCALE_DOWN )") and within the table of logarithms.                  *)
StatesSane ==
  \A node \in Nodes :
    /\ 1 <= states[node].escapes
    /\ states[node].escapes < states[node].total
    /\ states[node].total < ScaleDown

(* get_stats never divides by zero or by a difference that wrapped around, *)
(* and no weight is the whole of 2^16, although the logarithms are rounded. *)
EntropiesPositive ==
  /\ \A u \in Situations : 1 <= Entropy(Own(u).escapes, Own(u).total)
  /\ \A node \in Nodes : 1 <= Entropy(states[node].escapes, states[node].total)

(* Its sums of weighted counts stay in a uint.                             *)
BlendFits == \A u \in Situations : Blend(u).total < Word

(* The coder can take every estimate: an escape and a symbol both keep a   *)
(* part of the zone, and the total is one of its totals.                   *)
OddsCodable ==
  \A u \in Situations :
    /\ 1 <= Odds(u).escapes
    /\ Odds(u).escapes < Odds(u).total
    /\ Odds(u).total <= MaxTotal
=============================================================================
