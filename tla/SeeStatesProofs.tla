-------------------------- MODULE SeeStatesProofs --------------------------
(***************************************************************************)
(* Proofs about SeeStates, for all situations, seeds, increments and       *)
(* thresholds that satisfy its assumptions.                                *)
(***************************************************************************)
EXTENDS SeeStates, WellFoundedInduction, TLAPS

State == [seen : BOOLEAN, escapes : Nat, total : Nat]

(* What StatesSane says of one state.                                      *)
Sane(s) == 1 <= s.escapes /\ s.escapes < s.total /\ s.total < ScaleDown

(* The inductive invariant.                                                *)
IInv ==
  /\ states \in [Nodes -> State]
  /\ \A node \in Nodes : Sane(states[node])

-----------------------------------------------------------------------------
(* The hash of a situation has 23 bits.                                    *)
LEMMA HashRange == ASSUME NEW u \in Situations PROVE Hash(u) \in 0 .. 2^23 - 1
<1>1. /\ u \in SituationType
      /\ u.escapes \in 0 .. 3 /\ u.total \in Nat /\ u.order \in Nat
      /\ u.parent_size \in Nat /\ u.low \in 0 .. 31
      /\ \A i \in 1 .. 4 : u.key[i] \in 0 .. 3
  BY SituationsAssumption DEF SituationType
<1>2. CodeOfTotal(u.total) \in 0 .. 7
  <2>1. CASE u.total <= 13
    BY <1>1, <2>1 DEF CodeOfTotal
  <2>2. CASE ~(u.total <= 13)
    BY <2>2 DEF CodeOfTotal
  <2> QED
    BY <2>1, <2>2
<1>3. \A m \in Nat : Min({m, 3}) \in 0 .. 3
  <2> SUFFICES ASSUME NEW m \in Nat PROVE Min({m, 3}) \in 0 .. 3
    OBVIOUS
  <2>1. \E x \in {m, 3} : \A y \in {m, 3} : x <= y
    OBVIOUS
  <2>2. /\ Min({m, 3}) \in {m, 3}
        /\ \A y \in {m, 3} : Min({m, 3}) <= y
    BY <2>1, Zenon DEF Min
  <2> QED
    BY <2>2
<1>4. ASSUME NEW n \in Nat, NEW h \in Nat, h < n, NEW k \in 0 .. 3,
             NEW g \in {h, h * 4 + k}
      PROVE  g \in Nat /\ g < 4 * n
  BY <1>4
<1>5. \A n, h \in Nat : h < n => Keyed(u, h) \in Nat /\ Keyed(u, h) < 256 * n
  <2> SUFFICES ASSUME NEW n \in Nat, NEW h \in Nat, h < n
               PROVE  Keyed(u, h) \in Nat /\ Keyed(u, h) < 256 * n
    OBVIOUS
  <2> DEFINE few   == u.escapes <= 1
             one   == TwoBits(u, h, 1, u.order > 0)
             two   == TwoBits(u, one, 2, u.order > 1)
             three == TwoBits(u, two, 3, u.order > 2 /\ few)
             four  == TwoBits(u, three, 4, u.order > 3 /\ few)
  <2>1. Keyed(u, h) = four
    BY DEF Keyed
  <2>2. one \in {h, h * 4 + u.key[1]} /\ u.key[1] \in 0 .. 3
    BY <1>1 DEF TwoBits
  <2> HIDE DEF one
  <2>3. one \in Nat /\ one < 4 * n
    BY <1>4, <2>2
  <2>4. two \in {one, one * 4 + u.key[2]} /\ u.key[2] \in 0 .. 3
    BY <1>1 DEF TwoBits
  <2> HIDE DEF two
  <2>5. two \in Nat /\ two < 16 * n
    <3>1. 4 * n \in Nat /\ 16 * n = 4 * (4 * n)
      OBVIOUS
    <3> QED
      BY <1>4, <2>3, <2>4, <3>1
  <2>6. three \in {two, two * 4 + u.key[3]} /\ u.key[3] \in 0 .. 3
    BY <1>1 DEF TwoBits
  <2> HIDE DEF three
  <2>7. three \in Nat /\ three < 64 * n
    <3>1. 16 * n \in Nat /\ 64 * n = 4 * (16 * n)
      OBVIOUS
    <3> QED
      BY <1>4, <2>5, <2>6, <3>1
  <2>8. four \in {three, three * 4 + u.key[4]} /\ u.key[4] \in 0 .. 3
    BY <1>1 DEF TwoBits
  <2> HIDE DEF four
  <2>9. four \in Nat /\ four < 256 * n
    <3>1. 64 * n \in Nat /\ 256 * n = 4 * (64 * n)
      OBVIOUS
    <3> QED
      BY <1>4, <2>7, <2>8, <3>1
  <2> QED
    BY <2>1, <2>9
<1> DEFINE order_code == IF u.escapes >= 1 THEN (IF u.order >= 3 THEN 1 ELSE 0)
                         ELSE Min({u.order \div 2, 3})
           stats == ((u.escapes * 8 + CodeOfTotal(u.total)) * 4 + order_code) * 4
           surrounding == (stats + Min({u.parent_size, 3})) * 2 + (IF u.det THEN 1 ELSE 0)
<1>6. order_code \in 0 .. 3
  <2>1. u.order \div 2 \in Nat
    BY <1>1
  <2> QED
    BY <1>3, <2>1
<1> HIDE DEF order_code
<1>7. stats \in Nat /\ stats <= 508
  BY <1>1, <1>2, <1>6
<1> HIDE DEF stats
<1>8. surrounding \in Nat /\ surrounding < 1024
  <2>1. Min({u.parent_size, 3}) \in 0 .. 3
    BY <1>1, <1>3
  <2> QED
    BY <1>7, <2>1
<1>9. Hash(u) = Keyed(u, surrounding) * 32 + u.low
  BY DEF Hash, surrounding, stats, order_code
<1> HIDE DEF surrounding
<1>10. Keyed(u, surrounding) \in Nat /\ Keyed(u, surrounding) < 256 * 1024
  BY <1>5, <1>8
<1>11. Hash(u) \in Nat /\ Hash(u) < 32 * 256 * 1024
  BY <1>1, <1>9, <1>10
<1>12. 2^23 = 32 * 256 * 1024
  BY SMT
<1> QED
  BY <1>11, <1>12, SMT

LEMMA NodeNat ==
  ASSUME NEW node \in Nodes
  PROVE  node[1] \in {0, 1, 2} /\ node[2] \in Nat
<1>1. PICK u \in Situations : node \in Chain(u)
  BY DEF Nodes
<1>2. Hash(u) \in Nat
  <2>1. 2^23 \in Nat
    OBVIOUS
  <2> QED
    BY <2>1, HashRange
<1>3. /\ 2^7 \in Nat /\ 2^7 > 0
      /\ 2^14 \in Nat /\ 2^14 > 0
  OBVIOUS
<1>4. Hash(u) \div 2^7 \in Nat /\ Hash(u) \div 2^14 \in Nat
  BY <1>2, <1>3
<1> QED
  BY <1>1, <1>2, <1>4 DEF Chain, Order0, Order1, Order2

(* A seed expects an escape and a symbol.                                  *)
LEMMA SeedSane ==
  ASSUME NEW node \in Nodes
  PROVE  SeedOf(node) \in State /\ Sane(SeedOf(node))
<1> DEFINE five == FiveBits(node)
           e == five \div 8
           t == TotalOfCode(five % 8)
<1>1. five \in Nat
  <2>1. /\ 2^18 \in Nat /\ 2^18 > 0
        /\ 2^11 \in Nat /\ 2^11 > 0
        /\ 2^4 \in Nat /\ 2^4 > 0
    OBVIOUS
  <2>2. \A d \in Nat : d > 0 => node[2] \div d \in Nat
    BY NodeNat
  <2> QED
    BY <2>1, <2>2, NodeNat DEF FiveBits
<1>2. e \in Nat
  BY <1>1
<1>3. t \in Nat
  <2>1. five % 8 \in 0 .. 7
    BY <1>1
  <2>2. \A code \in 0 .. 7 : TotalOfCode(code) \in Nat
    BY DEF TotalOfCode
  <2> QED
    BY <2>1, <2>2
<1>4. SeedOf(node) = [seen |-> FALSE, escapes |-> (e + 1) * InitScale + InitEsc,
                      total |-> (e + 1 + t + e + 1) * InitScale + InitTot]
  BY DEF SeedOf, Seed
<1> HIDE DEF e, t
<1>5. /\ (e + 1) * InitScale \in Nat
      /\ (e + 1 + t + e + 1) * InitScale \in Nat
      /\ (e + 1) * InitScale <= (e + 1 + t + e + 1) * InitScale
  <2>1. \A m, n \in Nat : /\ m * InitScale \in Nat
                         /\ (m + n) * InitScale = m * InitScale + n * InitScale
    BY SeedsAssumption
  <2>2. /\ e + 1 \in Nat /\ t + e + 1 \in Nat
        /\ e + 1 + t + e + 1 = (e + 1) + (t + e + 1)
    BY <1>2, <1>3
  <2>3. /\ (e + 1 + t + e + 1) * InitScale
             = (e + 1) * InitScale + (t + e + 1) * InitScale
        /\ (e + 1) * InitScale \in Nat /\ (t + e + 1) * InitScale \in Nat
    BY <2>1, <2>2
  <2> QED
    BY <2>3
<1>6. SeedOf(node) \in State /\ 1 <= SeedOf(node).escapes
        /\ SeedOf(node).escapes < SeedOf(node).total
  BY <1>4, <1>5, SeedsAssumption DEF State
<1> QED
  BY <1>6, SeedTotalsAssumption DEF Sane

LEMMA HalvedSane ==
  ASSUME NEW s \in State, 1 <= s.escapes, s.escapes < s.total
  PROVE  /\ Halved(s) \in State
         /\ 1 <= Halved(s).escapes /\ Halved(s).escapes < Halved(s).total
         /\ Halved(s).total = (s.total \div 2) + 2
<1>1. s.escapes \in Nat /\ s.total \in Nat
  BY DEF State
<1>2. /\ (s.escapes \div 2) + 1 \in Nat /\ 1 <= (s.escapes \div 2) + 1
      /\ (s.total \div 2) + 2 \in Nat
      /\ (s.escapes \div 2) + 1 < (s.total \div 2) + 2
  BY <1>1
<1>3. /\ Halved(s) \in State
      /\ Halved(s).escapes = (s.escapes \div 2) + 1
      /\ Halved(s).total = (s.total \div 2) + 2
  BY <1>2 DEF Halved, State
<1> QED
  BY <1>2, <1>3

(* One halving suffices: it brings a state that one adjustment took over   *)
(* the threshold below it.                                                 *)
LEMMA AdjustedSane ==
  ASSUME NEW s \in State, Sane(s), NEW escape \in BOOLEAN
  PROVE  Adjusted(s, escape) \in State /\ Sane(Adjusted(s, escape))
<1> DEFINE recent == IF ~escape /\ s.escapes >= EscScaleDown THEN Halved(s) ELSE s
           told   == Told(recent, escape)
<1> USE ScalesAssumption
<1>1. /\ recent \in State
      /\ 1 <= recent.escapes /\ recent.escapes < recent.total
      /\ recent.total < ScaleDown + 2
  <2>1. CASE ~escape /\ s.escapes >= EscScaleDown
    <3>1. /\ Halved(s) \in State
          /\ 1 <= Halved(s).escapes /\ Halved(s).escapes < Halved(s).total
          /\ Halved(s).total = (s.total \div 2) + 2
      BY HalvedSane DEF Sane
    <3>2. s.total \in Nat /\ s.total < ScaleDown
      BY DEF State, Sane
    <3>3. (s.total \div 2) + 2 < ScaleDown + 2
      BY <3>2
    <3> QED
      BY <2>1, <3>1, <3>3
  <2>2. CASE ~(~escape /\ s.escapes >= EscScaleDown)
    BY <2>2 DEF Sane, State
  <2> QED
    BY <2>1, <2>2
<1>2. /\ told \in State
      /\ 1 <= told.escapes /\ told.escapes < told.total
      /\ told.total < ScaleDown + 2 + Inc + EscExtraInc
  <2> HIDE DEF recent
  <2>1. /\ recent.escapes \in Nat /\ recent.total \in Nat /\ recent.seen \in BOOLEAN
    BY <1>1 DEF State
  <2>2. CASE escape
    <3>1. told = [seen |-> TRUE, escapes |-> recent.escapes + Inc,
                  total |-> recent.total + Inc + EscExtraInc]
      BY <1>1, <2>2 DEF Told, State
    <3> QED
      BY <1>1, <2>1, <3>1 DEF State
  <2>3. CASE ~escape
    <3>1. told = [seen |-> TRUE, escapes |-> recent.escapes,
                  total |-> recent.total + Inc]
      BY <1>1, <2>3 DEF Told, State
    <3> QED
      BY <1>1, <2>1, <3>1 DEF State
  <2> QED
    BY <2>2, <2>3
<1>3. Adjusted(s, escape) = IF told.total >= ScaleDown THEN Halved(told) ELSE told
  BY DEF Adjusted
<1> HIDE DEF told
<1>4. CASE told.total >= ScaleDown
  <2>1. /\ Halved(told) \in State
        /\ 1 <= Halved(told).escapes /\ Halved(told).escapes < Halved(told).total
        /\ Halved(told).total = (told.total \div 2) + 2
    BY <1>2, HalvedSane
  <2>2. told.total \in Nat
    BY <1>2 DEF State
  <2>3. (told.total \div 2) + 2 < ScaleDown
    BY <1>2, <2>2
  <2> QED
    BY <1>3, <1>4, <2>1, <2>3 DEF Sane
<1>5. CASE ~(told.total >= ScaleDown)
  <2>1. told.total \in Nat
    BY <1>2 DEF State
  <2> QED
    BY <1>2, <1>3, <1>5, <2>1 DEF Sane
<1> QED
  BY <1>4, <1>5
-----------------------------------------------------------------------------
LEMMA InitIInv == Init => IInv
  BY SeedSane DEF Init, IInv

LEMMA NextIInv == IInv /\ [Next]_vars => IInv'
<1> SUFFICES ASSUME IInv, [Next]_vars PROVE IInv'
  OBVIOUS
<1>1. CASE Next
  <2>1. PICK u \in Situations, escape \in BOOLEAN : AdjustState(u, escape)
    BY <1>1 DEF Next
  <2>2. \A node \in Nodes :
          LET s == IF node \in Chain(u) THEN Adjusted(states[node], escape)
                                        ELSE states[node]
          IN  s \in State /\ Sane(s)
    BY AdjustedSane DEF IInv
  <2> QED
    BY <2>1, <2>2 DEF AdjustState, IInv
<1>2. CASE UNCHANGED vars
  BY <1>2 DEF IInv, vars
<1> QED
  BY <1>1, <1>2

LEMMA Invariant == Spec => []IInv
  BY InitIInv, NextIInv, PTL DEF Spec

(* The states have their types and every hash is an index of order2.       *)
THEOREM TypeCorrect == Spec => []TypeOK
<1>1. IInv => TypeOK
  BY HashRange DEF IInv, TypeOK, State
<1> QED
  BY <1>1, Invariant, PTL

(* The assertion of see_Adjust_State, and what get_stats needs of a state. *)
THEOREM AlwaysSane == Spec => []StatesSane
<1>1. IInv => StatesSane
  BY DEF IInv, StatesSane, Sane
<1> QED
  BY <1>1, Invariant, PTL
-----------------------------------------------------------------------------
(* Rounded logarithms keep an entropy positive: the smaller part is at     *)
(* most half of the total, so its logarithm is less by one at least.       *)
LEMMA EntropyPositive ==
  ASSUME NEW e \in Nat, NEW t \in Nat, 1 <= e, e < t, t < LogSize
  PROVE  Entropy(e, t) \in Nat /\ 1 <= Entropy(e, t)
<1> DEFINE r == t - e
<1>1. r \in Nat /\ 1 <= r /\ r < t /\ e + r = t
  OBVIOUS
<1>2. LogSize \in Nat /\ LogSize = Len(Log2Table) + 1
  BY LogAssumption DEF LogSize
<1>3. \A n \in 1 .. LogSize - 1 : Log2Table[n] \in Nat /\ Log2(n) = Log2Table[n]
  BY <1>2, LogAssumption DEF Log2
<1>4. \A n \in 1 .. t : n \in 1 .. LogSize - 1
  BY <1>2
<1>5. /\ Log2(e) \in Nat /\ Log2(r) \in Nat /\ Log2(t) \in Nat
      /\ Log2(e) <= Log2(t) /\ Log2(r) <= Log2(t)
  <2>1. \A n \in 1 .. LogSize - 1 : \A m \in 1 .. LogSize - 1 :
          m <= n => Log2Table[m] <= Log2Table[n]
    BY LogAssumption
  <2>2. /\ e \in 1 .. LogSize - 1 /\ r \in 1 .. LogSize - 1
        /\ t \in 1 .. LogSize - 1 /\ e <= t /\ r <= t
    <3> HIDE DEF r
    <3> QED
      BY <1>1, <1>4
  <2> HIDE DEF r
  <2> QED
    BY <1>3, <2>1, <2>2, Zenon
<1>6. \A n \in Nat : 1 <= n /\ 2 * n <= t => Log2(n) + 1 <= Log2(t)
  <2> SUFFICES ASSUME NEW n \in Nat, 1 <= n, 2 * n <= t
               PROVE  Log2(n) + 1 <= Log2(t)
    OBVIOUS
  <2>1. n \in 1 .. LogSize - 1 /\ 2 * n \in 1 .. LogSize - 1 /\ t \in 1 .. LogSize - 1
    BY <1>2
  <2>2. 2 * n < LogSize
    BY <1>2, <2>1
  <2>3. Log2Table[n] < Log2Table[2 * n]
    BY <2>1, <2>2, LogAssumption
  <2> DEFINE double == 2 * n
  <2>4. Log2Table[double] <= Log2Table[t]
    <3>1. double \in 1 .. LogSize - 1 /\ double <= t
      BY <2>1
    <3> HIDE DEF double
    <3> QED
      BY <2>1, <3>1, LogAssumption
  <2> QED
    BY <1>3, <2>1, <2>3, <2>4
<1>7. Log2(e) + 1 <= Log2(t) \/ Log2(r) + 1 <= Log2(t)
  <2>1. 2 * e <= t \/ 2 * r <= t
    BY <1>1
  <2> QED
    BY <1>1, <1>6, <2>1
<1> DEFINE gain(n) == Log2(t) - Log2(n)
<1>8. /\ gain(e) \in Nat /\ gain(r) \in Nat
      /\ 1 <= gain(e) \/ 1 <= gain(r)
  BY <1>5, <1>7
<1>9. Entropy(e, t) = e * gain(e) + r * gain(r)
  <2>1. Entropy(e, t) = t * Log2(t) - e * Log2(e) - r * Log2(r)
    BY DEF Entropy
  <2>2. t * Log2(t) = e * Log2(t) + r * Log2(t)
    BY <1>1, <1>5
  <2>3. /\ e * gain(e) = e * Log2(t) - e * Log2(e)
        /\ r * gain(r) = r * Log2(t) - r * Log2(r)
    BY <1>1, <1>5
  <2>4. /\ e * Log2(t) \in Int /\ r * Log2(t) \in Int
        /\ e * Log2(e) \in Int /\ r * Log2(r) \in Int
    BY <1>1, <1>5
  <2> QED
    BY <2>1, <2>2, <2>3, <2>4
<1> HIDE DEF gain, r
<1>10. \A m, g \in Nat : m * g \in Nat /\ (1 <= m /\ 1 <= g => 1 <= m * g)
  OBVIOUS
<1> QED
  BY <1>1, <1>8, <1>9, <1>10

(* The counts a context brings along are sane too.                         *)
LEMMA OwnSane ==
  ASSUME NEW u \in Situations
  PROVE  /\ Own(u) \in State
         /\ 1 <= Own(u).escapes /\ Own(u).escapes < Own(u).total
         /\ Own(u).total <= LargestOwnTotal /\ Own(u).total < LogSize
         /\ ~Own(u).seen
<1>1. /\ u.escapes \in 0 .. MaxEscapes /\ u.total \in 0 .. MaxSymbols - 1
      /\ MaxEscapes \in Nat /\ MaxSymbols \in Nat
  BY SituationsAssumption DEF SituationType
<1>2. /\ Own(u).seen = FALSE
      /\ Own(u).escapes = u.escapes + 1
      /\ Own(u).total = u.escapes + 1 + u.total + u.escapes + 1
      /\ Own(u) = [seen |-> FALSE, escapes |-> u.escapes + 1,
                   total |-> u.escapes + 1 + u.total + u.escapes + 1]
  BY DEF Own
<1>3. u.escapes + 1 + u.total + u.escapes + 1 <= LargestOwnTotal
  BY <1>1 DEF LargestOwnTotal
<1>4. LargestOwnTotal \in Nat /\ LargestOwnTotal < LogSize /\ LogSize \in Nat
  BY <1>1, LogAssumption DEF LargestOwnTotal, LogSize
<1> QED
  BY <1>1, <1>2, <1>3, <1>4 DEF State

(* get_stats never divides by zero or by a wrapped difference.             *)
THEOREM DivisorsPositive == Spec => []EntropiesPositive
<1>1. ASSUME IInv PROVE EntropiesPositive
  <2>1. \A u \in Situations : 1 <= Entropy(Own(u).escapes, Own(u).total)
    BY OwnSane, EntropyPositive DEF State
  <2>2. \A node \in Nodes : 1 <= Entropy(states[node].escapes, states[node].total)
    <3> TAKE node \in Nodes
    <3>1. /\ states[node].escapes \in Nat /\ states[node].total \in Nat
          /\ Sane(states[node])
      BY <1>1 DEF IInv, State
    <3>2. states[node].total < LogSize
      BY <3>1, LogAssumption, ScalesAssumption DEF Sane, LogSize
    <3> QED
      BY <3>1, <3>2, EntropyPositive DEF Sane
  <2> QED
    BY <2>1, <2>2 DEF EntropiesPositive
<1> QED
  BY <1>1, Invariant, PTL
-----------------------------------------------------------------------------
(* The states of a situation, as the invariant leaves them.                *)
LEMMA ChainSane ==
  ASSUME IInv, NEW u \in Situations, NEW node \in Chain(u)
  PROVE  /\ states[node] \in State
         /\ 1 <= states[node].escapes
         /\ states[node].escapes < states[node].total
         /\ states[node].total <= ScaleDown
         /\ states[node].total < LogSize
<1>1. node \in Nodes
  BY DEF Nodes
<1>2. states[node] \in State /\ Sane(states[node])
  BY <1>1 DEF IInv
<1>3. LogSize \in Nat /\ ScaleDown \in Nat /\ ScaleDown <= LogSize
  BY LogAssumption, ScalesAssumption DEF LogSize
<1> QED
  BY <1>2, <1>3 DEF Sane, State

(* No divisor is below two, so a weight is at most twice WeightOne, and    *)
(* half of it for a state that was told nothing.                           *)
LEMMA WeightBound ==
  ASSUME NEW s \in State, 1 <= s.escapes, s.escapes < s.total, s.total < LogSize
  PROVE  /\ Weight(s) \in 0 .. 2 * WeightOne
         /\ ~s.seen => Weight(s) <= WeightOne
<1> DEFINE d == Entropy(s.escapes, s.total) + 1
           w == WeightOne \div d
<1>1. d \in Nat /\ d >= 2
  BY EntropyPositive DEF State
<1> HIDE DEF d
<1>2. WeightOne \in Nat
  BY OddsAssumption
<1>3. w \in Nat /\ 2 * w <= WeightOne
  <2>1. w \in Nat /\ d * w <= WeightOne
    BY <1>1, <1>2
  <2> HIDE DEF w
  <2>2. 2 * w <= d * w
    BY <1>1, <2>1
  <2>3. d * w \in Nat
    BY <1>1, <2>1
  <2> QED
    BY <1>2, <2>1, <2>2, <2>3
<1>4. Weight(s) = w * (IF s.seen THEN 4 ELSE 1)
  BY DEF Weight, w, d
<1> HIDE DEF w
<1> QED
  BY <1>2, <1>3, <1>4

(* The sums of get_stats, and that no blend has more escapes than calls.   *)
LEMMA BlendBound ==
  ASSUME IInv, NEW u \in Situations
  PROVE  /\ Blend(u).total \in Nat /\ Blend(u).escapes \in Nat
         /\ Blend(u).escapes <= Blend(u).total
         /\ Blend(u).total < Word
<1> DEFINE s0 == states[Order0(u)]
           s1 == states[Order1(u)]
           s2 == states[Order2(u)]
           own == Own(u)
<1>1. /\ Order0(u) \in Chain(u) /\ Order1(u) \in Chain(u) /\ Order2(u) \in Chain(u)
  BY DEF Chain
<1>2. \A s \in {s0, s1, s2} :
        /\ s \in State /\ s.escapes \in Nat /\ s.total \in Nat
        /\ s.escapes <= s.total /\ s.total <= ScaleDown
        /\ Weight(s) \in 0 .. 2 * WeightOne
  <2> SUFFICES ASSUME NEW node \in Chain(u)
               PROVE  LET s == states[node] IN
                      /\ s \in State /\ s.escapes \in Nat /\ s.total \in Nat
                      /\ s.escapes <= s.total /\ s.total <= ScaleDown
                      /\ Weight(s) \in 0 .. 2 * WeightOne
    BY <1>1
  <2>1. /\ states[node] \in State
        /\ 1 <= states[node].escapes /\ states[node].escapes < states[node].total
        /\ states[node].total <= ScaleDown /\ states[node].total < LogSize
    BY ChainSane
  <2>2. states[node].escapes \in Nat /\ states[node].total \in Nat
    BY <2>1 DEF State
  <2>3. Weight(states[node]) \in 0 .. 2 * WeightOne
    BY <2>1, WeightBound
  <2> QED
    BY <2>1, <2>2, <2>3
<1>3. /\ own.escapes \in Nat /\ own.total \in Nat
      /\ own.escapes <= own.total /\ own.total <= LargestOwnTotal
      /\ Weight(own) \in 0 .. WeightOne
  <2>1. /\ own \in State /\ 1 <= own.escapes /\ own.escapes < own.total
        /\ own.total <= LargestOwnTotal /\ own.total < LogSize /\ ~own.seen
    BY OwnSane
  <2>2. own.escapes \in Nat /\ own.total \in Nat
    BY <2>1 DEF State
  <2>3. Weight(own) \in 0 .. 2 * WeightOne /\ Weight(own) <= WeightOne
    BY <2>1, WeightBound
  <2> QED
    BY <2>1, <2>2, <2>3
<1>4. /\ Blend(u).total = Weight(s0) * s0.total + Weight(s1) * s1.total
                             + Weight(s2) * s2.total + Weight(own) * own.total
      /\ Blend(u).escapes = Weight(s0) * s0.escapes + Weight(s1) * s1.escapes
                             + Weight(s2) * s2.escapes + Weight(own) * own.escapes
  BY DEF Blend
<1> HIDE DEF s0, s1, s2, own
<1>5. /\ WeightOne \in Nat /\ ScaleDown \in Nat /\ Word \in Nat
      /\ LargestOwnTotal \in Nat
  BY OddsAssumption, ScalesAssumption, WordAssumption, SituationsAssumption
     DEF LargestOwnTotal
(* One term of a sum.                                                      *)
<1>6. ASSUME NEW w \in Nat, NEW limit \in Nat, w <= limit,
             NEW n \in Nat, NEW most \in Nat, n <= most, NEW e \in Nat, e <= n
      PROVE  /\ w * n \in Nat /\ w * e \in Nat
             /\ w * e <= w * n /\ w * n <= limit * most
  <2>1. w * n <= limit * n
    BY <1>6
  <2>2. limit * n <= limit * most
    BY <1>6
  <2>3. w * e <= w * n
    BY <1>6
  <2>4. /\ w * n \in Nat /\ w * e \in Nat /\ limit * n \in Nat
        /\ limit * most \in Nat
    BY <1>6
  <2> QED
    BY <2>1, <2>2, <2>3, <2>4
<1>7. \A s \in {s0, s1, s2} :
        /\ Weight(s) * s.total \in Nat /\ Weight(s) * s.escapes \in Nat
        /\ Weight(s) * s.escapes <= Weight(s) * s.total
        /\ Weight(s) * s.total <= (2 * WeightOne) * ScaleDown
  BY <1>2, <1>5, <1>6
<1>8. /\ Weight(own) * own.total \in Nat /\ Weight(own) * own.escapes \in Nat
      /\ Weight(own) * own.escapes <= Weight(own) * own.total
      /\ Weight(own) * own.total <= WeightOne * LargestOwnTotal
  BY <1>3, <1>5, <1>6
<1>9. /\ (2 * WeightOne) * ScaleDown \in Nat /\ WeightOne * LargestOwnTotal \in Nat
      /\ 6 * WeightOne * ScaleDown = 3 * ((2 * WeightOne) * ScaleDown)
  BY <1>5
<1>10. 3 * ((2 * WeightOne) * ScaleDown) + WeightOne * LargestOwnTotal < Word
  BY <1>9, WordAssumption
<1> QED
  BY <1>4, <1>5, <1>7, <1>8, <1>9, <1>10

(* The weighted sums of get_stats stay in a uint.                          *)
THEOREM SumsFit == Spec => []BlendFits
<1>1. IInv => BlendFits
  BY BlendBound DEF BlendFits
<1> QED
  BY <1>1, Invariant, PTL
-----------------------------------------------------------------------------
(* The divisors of thirty halvings.                                        *)
LEMMA PowerPositive == ASSUME NEW s \in 0 .. 30 PROVE 2^s \in Nat \ {0}
<1>1. CASE s \in 0 .. 10
  <2>1. /\ 2^0 \in Nat \ {0} /\ 2^1 \in Nat \ {0} /\ 2^2 \in Nat \ {0}
        /\ 2^3 \in Nat \ {0} /\ 2^4 \in Nat \ {0} /\ 2^5 \in Nat \ {0}
        /\ 2^6 \in Nat \ {0} /\ 2^7 \in Nat \ {0} /\ 2^8 \in Nat \ {0}
        /\ 2^9 \in Nat \ {0} /\ 2^10 \in Nat \ {0}
    OBVIOUS
  <2>2. \/ s = 0 \/ s = 1 \/ s = 2 \/ s = 3 \/ s = 4 \/ s = 5
        \/ s = 6 \/ s = 7 \/ s = 8 \/ s = 9 \/ s = 10
    BY <1>1
  <2> QED
    BY <2>1, <2>2
<1>2. CASE s \in 11 .. 20
  <2>1. /\ 2^11 \in Nat \ {0} /\ 2^12 \in Nat \ {0} /\ 2^13 \in Nat \ {0}
        /\ 2^14 \in Nat \ {0} /\ 2^15 \in Nat \ {0} /\ 2^16 \in Nat \ {0}
        /\ 2^17 \in Nat \ {0} /\ 2^18 \in Nat \ {0} /\ 2^19 \in Nat \ {0}
        /\ 2^20 \in Nat \ {0}
    OBVIOUS
  <2>2. \/ s = 11 \/ s = 12 \/ s = 13 \/ s = 14 \/ s = 15 \/ s = 16
        \/ s = 17 \/ s = 18 \/ s = 19 \/ s = 20
    BY <1>2
  <2> QED
    BY <2>1, <2>2
<1>3. CASE s \in 21 .. 30
  <2>1. /\ 2^21 \in Nat \ {0} /\ 2^22 \in Nat \ {0} /\ 2^23 \in Nat \ {0}
        /\ 2^24 \in Nat \ {0} /\ 2^25 \in Nat \ {0} /\ 2^26 \in Nat \ {0}
        /\ 2^27 \in Nat \ {0} /\ 2^28 \in Nat \ {0} /\ 2^29 \in Nat \ {0}
        /\ 2^30 \in Nat \ {0}
    OBVIOUS
  <2>2. \/ s = 21 \/ s = 22 \/ s = 23 \/ s = 24 \/ s = 25 \/ s = 26
        \/ s = 27 \/ s = 28 \/ s = 29 \/ s = 30
    BY <1>3
  <2> QED
    BY <2>1, <2>2
<1> QED
  BY <1>1, <1>2, <1>3

(* The least of some numbers is one of them.                               *)
LEMMA MinMember ==
  ASSUME NEW S \in SUBSET Nat, S # {}
  PROVE  Min(S) \in S
<1>1. PICK n \in S : TRUE
  OBVIOUS
<1>2. \E x \in S : \A y \in S : x <= y
  <2>1. IsWellFoundedOn(OpToRel(<, Nat), Nat)
    BY NatLessThanWellFounded
  <2>2. PICK x \in S : \A y \in S : ~ (<<y, x>> \in OpToRel(<, Nat))
    BY <1>1, <2>1, WFMin
  <2>3. \A y \in S : ~ (y < x)
    BY <2>2 DEF OpToRel
  <2> QED
    BY <2>3
<1> QED
  BY <1>2, Zenon DEF Min

(* What is left of the blend after its halvings is made possible within    *)
(* the totals of the coder.                                                *)
LEMMA PossibleCodable ==
  ASSUME NEW e \in Nat, NEW t \in Nat, e <= t, t < OddsLimit
  PROVE  /\ 1 <= Possible(e, t).escapes
         /\ Possible(e, t).escapes < Possible(e, t).total
         /\ Possible(e, t).total <= MaxTotal
<1> DEFINE some == Max({e, 1})
<1>1. \E x \in {e, 1} : \A y \in {e, 1} : x >= y
  OBVIOUS
<1>2. some \in {e, 1} /\ \A y \in {e, 1} : some >= y
  BY <1>1, Zenon DEF Max
<1>3. /\ Possible(e, t).escapes = some
      /\ Possible(e, t).total = IF t <= some THEN some + 1 ELSE t
  BY DEF Possible
<1> HIDE DEF some
<1> QED
  BY <1>2, <1>3, OddsAssumption

(* The coder can take every estimate: no uint survives thirty halvings.    *)
THEOREM EstimatesCodable == Spec => []OddsCodable
<1>1. ASSUME IInv PROVE OddsCodable
  <2> SUFFICES ASSUME NEW u \in Situations
               PROVE  /\ 1 <= Odds(u).escapes
                      /\ Odds(u).escapes < Odds(u).total
                      /\ Odds(u).total <= MaxTotal
    BY DEF OddsCodable
  <2> DEFINE e == Blend(u).escapes
             t == Blend(u).total
             enough == {s \in 0 .. 30 : t \div 2^s < OddsLimit}
             shifts == Min(enough)
             d == 2^shifts
  <2>1. e \in Nat /\ t \in Nat /\ e <= t /\ t < Word
    BY <1>1, BlendBound
  <2>2. Odds(u) = Possible(e \div d, t \div d)
    BY DEF Odds
  <2> HIDE DEF e, t
  <2>3. 30 \in enough
    <3> DEFINE most == 2^30
    <3>1. most \in Nat \ {0}
      BY PowerPositive
    <3>2. Word \div most < OddsLimit
      BY OddsAssumption
    <3> HIDE DEF most
    <3>3. t \div most <= Word \div most
      BY <2>1, <3>1, WordAssumption
    <3>4. t \div most < OddsLimit
      <4>1. t \div most \in Nat /\ Word \div most \in Nat /\ OddsLimit \in Nat
        BY <2>1, <3>1, WordAssumption, OddsAssumption
      <4> QED
        BY <3>2, <3>3, <4>1
    <3>5. t \div 2^30 < OddsLimit
      BY <3>4 DEF most
    <3> QED
      BY <3>5
  <2>4. shifts \in enough
    <3>1. enough \in SUBSET Nat
      OBVIOUS
    <3> HIDE DEF enough
    <3> QED
      BY <2>3, <3>1, MinMember
  <2>5. t \div d < OddsLimit /\ shifts \in 0 .. 30
    BY <2>4
  <2> HIDE DEF shifts
  <2>6. d \in Nat \ {0}
    BY <2>5, PowerPositive
  <2> HIDE DEF d
  <2>7. e \div d \in Nat /\ t \div d \in Nat /\ e \div d <= t \div d
    BY <2>1, <2>6
  <2> QED
    BY <2>2, <2>5, <2>7, PossibleCodable
<1> QED
  BY <1>1, Invariant, PTL
=============================================================================
