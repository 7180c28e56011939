-------------------------- MODULE DetEscapeProofs --------------------------
(***************************************************************************)
(* Proofs about DetEscape, for all situations, seeds, increments and       *)
(* limits that satisfy its assumptions.                                    *)
(***************************************************************************)
EXTENDS DetEscape, FiniteSetTheorems, TLAPS

Counter == [esc : Nat, tot : Nat]

IInv == bins \in [Bins -> Counter] /\ BinsSane

(* A bin while it is legal.                                                *)
Legal(b) == b \in Counter /\ 1 <= b.esc /\ b.esc < b.tot /\ b.tot <= HalveAbove
-----------------------------------------------------------------------------
(* The eight codes of a total.                                             *)
LEMMA TotalCodeRange ==
  ASSUME NEW total \in Nat, total >= 2
  PROVE  /\ TotalCode(total) \in 0 .. 7
         /\ (total >= 3 => TotalCode(total) >= 1)
         /\ (total >= 4 => TotalCode(total) >= 2)
<1>1. CASE total >= 15
  BY <1>1 DEF TotalCode
<1>2. CASE total < 15
  <2>1. total \in 2 .. 14
    BY <1>2
  <2>2. /\ TotalCode(2) = 0 /\ TotalCode(3) = 1 /\ TotalCode(4) = 2
        /\ TotalCode(5) = 3 /\ TotalCode(6) = 3 /\ TotalCode(7) = 4
        /\ TotalCode(8) = 4 /\ TotalCode(9) = 5 /\ TotalCode(10) = 5
        /\ TotalCode(11) = 5 /\ TotalCode(12) = 6 /\ TotalCode(13) = 6
        /\ TotalCode(14) = 6
    BY DEF TotalCode
  <2>3. \/ total = 2 \/ total = 3 \/ total = 4 \/ total = 5 \/ total = 6
        \/ total = 7 \/ total = 8 \/ total = 9 \/ total = 10 \/ total = 11
        \/ total = 12 \/ total = 13 \/ total = 14
    BY <2>1
  <2> QED
    BY <2>2, <2>3
<1> QED
  BY <1>1, <1>2

(* The low five bits of an index: the escapes less one, and a code of the  *)
(* total, which is no less.                                                *)
LEMMA CountsRange ==
  ASSUME NEW u \in Situations, HasBins(u)
  PROVE  \E e \in 0 .. 2, c \in 0 .. 7 : e <= c /\ Counts(u) = e + 4 * c
<1> DEFINE total == u.escape_count + u.total_symbol_count
           e == u.escape_count - 1
           c == TotalCode(total)
<1>1. u.escape_count \in 1 .. 3 /\ u.total_symbol_count \in Nat \ {0}
  BY SituationsAssumption DEF SituationType, HasBins
<1>2. total \in Nat /\ total >= e + 2 /\ e \in 0 .. 2
  BY <1>1
<1>3. Counts(u) = e + 4 * c
  BY DEF Counts
<1> HIDE DEF total, e
<1>4. c \in 0 .. 7 /\ (total >= 3 => c >= 1) /\ (total >= 4 => c >= 2)
  BY <1>2, TotalCodeRange
<1> HIDE DEF c
<1>5. e <= c
  BY <1>2, <1>4
<1> QED
  BY <1>2, <1>3, <1>4, <1>5

(* What a partition adds to them, each within its array.                   *)
LEMMA BinForm ==
  ASSUME NEW u \in Situations, NEW partition \in Partitions
  PROVE  \E rest \in Nat :
           /\ Bin(u, partition) = <<partition, Counts(u) + 32 * rest>>
           /\ partition = 0 => rest <= 3
           /\ partition = 1 => rest <= 1023
           /\ partition = 2 => rest <= 2047
<1>1. /\ u.key[1] \in 0 .. 3 /\ u.key[2] \in 0 .. 3 /\ u.key[3] \in 0 .. 3
      /\ u.key[4] \in 0 .. 3 /\ u.low \in 0 .. 31 /\ u.followset_size \in Nat
  BY SituationsAssumption DEF SituationType
<1>2. Size(u) \in 0 .. 3
  BY <1>1 DEF Size, AtMost
<1> DEFINE r0 == Size(u)
           r1 == u.key[1] + 4 * u.key[2] + 16 * u.key[3] + 64 * u.key[4]
                   + 256 * Size(u)
           r2 == u.low + 32 * u.key[1] + 128 * u.key[2] + 512 * Size(u)
<1>3. r0 \in Nat /\ r0 <= 3 /\ r1 \in Nat /\ r1 <= 1023 /\ r2 \in Nat /\ r2 <= 2047
  <2> DEFINE i == u.key[1]
             j == u.key[2]
             k == u.key[3]
             l == u.key[4]
             low == u.low
             size == Size(u)
  <2>1. /\ i \in Nat /\ i <= 3 /\ j \in Nat /\ j <= 3 /\ k \in Nat /\ k <= 3
        /\ l \in Nat /\ l <= 3 /\ low \in Nat /\ low <= 31
        /\ size \in Nat /\ size <= 3
    BY <1>1, <1>2
  <2>2. /\ r0 = size
        /\ r1 = i + 4 * j + 16 * k + 64 * l + 256 * size
        /\ r2 = low + 32 * i + 128 * j + 512 * size
    OBVIOUS
  <2> HIDE DEF i, j, k, l, low, size, r0, r1, r2
  <2> QED
    BY <2>1, <2>2
<1>4. Bin(u, partition) = <<partition, Counts(u) + 32 * <<r0, r1, r2>>[partition + 1]>>
  BY DEF Bin
<1> HIDE DEF r0, r1, r2
<1>5. partition = 0 \/ partition = 1 \/ partition = 2
  BY DEF Partitions
<1> QED
  BY <1>3, <1>4, <1>5

(* Every bin belongs to a situation.                                       *)
LEMMA BinOfSituation ==
  ASSUME NEW b \in Bins
  PROVE  \E u \in Situations, partition \in Partitions :
           HasBins(u) /\ b = Bin(u, partition)
BY DEF Bins, BinsOf

LEMMA BinsOfSituation ==
  ASSUME NEW u \in Situations, HasBins(u), NEW partition \in Partitions
  PROVE  Bin(u, partition) \in Bins
BY DEF Bins, BinsOf

(* Every partition's index is one of its array, which escape_Create made   *)
(* of 2^7, 2^15 and 2^16 bins.                                             *)
THEOREM IndexesFit == BinsInRange
<1> SUFFICES ASSUME NEW b \in Bins
             PROVE  0 <= b[2] /\ b[2] < <<128, 32768, 65536>>[b[1] + 1]
  BY DEF BinsInRange
<1>1. PICK u \in Situations, partition \in Partitions :
        HasBins(u) /\ b = Bin(u, partition)
  BY BinOfSituation
<1>2. PICK e \in 0 .. 2, c \in 0 .. 7 : e <= c /\ Counts(u) = e + 4 * c
  BY <1>1, CountsRange
<1>3. PICK rest \in Nat : /\ Bin(u, partition) = <<partition, Counts(u) + 32 * rest>>
                          /\ partition = 0 => rest <= 3
                          /\ partition = 1 => rest <= 1023
                          /\ partition = 2 => rest <= 2047
  BY BinForm
<1>4. b[1] = partition /\ b[2] = e + 4 * c + 32 * rest
  BY <1>1, <1>2, <1>3
<1>5. partition = 0 \/ partition = 1 \/ partition = 2
  BY DEF Partitions
<1> QED
  BY <1>2, <1>3, <1>4, <1>5

(* A seed expects less escapes than calls.                                 *)
LEMMA SeedLegal == ASSUME NEW b \in Bins PROVE Legal(SeedOf(b))
<1>1. PICK u \in Situations, partition \in Partitions :
        HasBins(u) /\ b = Bin(u, partition)
  BY BinOfSituation
<1>2. PICK e \in 0 .. 2, c \in 0 .. 7 : e <= c /\ Counts(u) = e + 4 * c
  BY <1>1, CountsRange
<1>3. PICK rest \in Nat : Bin(u, partition) = <<partition, Counts(u) + 32 * rest>>
  BY BinForm
<1>4. b[2] = e + 4 * c + 32 * rest
  BY <1>1, <1>2, <1>3
<1>5. b[2] % 4 = e /\ (b[2] \div 4) % 8 = c
  <2>1. b[2] \div 4 = c + 8 * rest /\ b[2] % 4 = e
    BY <1>2, <1>4
  <2>2. (c + 8 * rest) % 8 = c
    BY <1>2
  <2> QED
    BY <2>1, <2>2
<1>6. /\ SeedOf(b).esc = 1 + InitScale * e + InitEsc
      /\ SeedOf(b).tot = 2 + InitScale * c + InitTot + InitEsc
      /\ SeedOf(b) = [esc |-> 1 + InitScale * e + InitEsc,
                      tot |-> 2 + InitScale * c + InitTot + InitEsc]
  BY <1>5 DEF SeedOf
<1>7. /\ InitScale * e \in Nat /\ InitScale * c \in Nat
      /\ InitScale * e <= InitScale * c /\ InitScale * c <= 7 * InitScale
  <2>1. \A s \in Nat : /\ s * e \in Nat /\ s * c \in Nat
                       /\ s * e <= s * c /\ s * c <= 7 * s
    BY <1>2
  <2> QED
    BY <2>1, SeedsAssumption
<1> QED
  BY <1>6, <1>7, SeedsAssumption, ScalesAssumption DEF Legal, Counter

(* One halving suffices, and leaves the escapes below the total, which the *)
(* calls before it raised by one more than the escapes at least.           *)
LEMMA ToldLegal ==
  ASSUME NEW b, Legal(b), NEW escape \in BOOLEAN
  PROVE  Legal(Halved(Told(b, escape)))
<1> DEFINE t == Told(b, escape)
<1>1. /\ t \in Counter /\ 1 <= t.esc /\ t.esc + 2 <= t.tot
      /\ t.tot <= 2 * HalveAbove
  <2>1. CASE escape
    <3>1. t = [esc |-> b.esc + EscInc, tot |-> b.tot + EscInc + EscTotInc]
      BY <2>1 DEF Told
    <3> HIDE DEF t
    <3> QED
      BY <3>1, ScalesAssumption DEF Legal, Counter
  <2>2. CASE ~escape
    <3>1. t = [b EXCEPT !.tot = @ + TotInc]
      BY <2>2 DEF Told
    <3>2. b \in Counter
      BY DEF Legal
    <3>3. t = [esc |-> b.esc, tot |-> b.tot + TotInc]
      BY <3>1, <3>2 DEF Counter
    <3> HIDE DEF t
    <3> QED
      BY <3>3, ScalesAssumption DEF Legal, Counter
  <2> QED
    BY <2>1, <2>2
<1> SUFFICES Legal(Halved(t))
  OBVIOUS
<1> HIDE DEF t
<1>2. t.esc \in Nat /\ t.tot \in Nat
  BY <1>1 DEF Counter
<1>3. CASE t.tot <= HalveAbove
  <2>1. Halved(t) = t
    BY <1>2, <1>3, ScalesAssumption DEF Halved
  <2> QED
    BY <1>1, <1>2, <1>3, <2>1 DEF Legal
<1>4. CASE t.tot > HalveAbove
  <2>1. Halved(t) = [esc |-> AtLeast(t.esc \div 2, 1), tot |-> t.tot \div 2]
    BY <1>4 DEF Halved
  <2>2. AtLeast(t.esc \div 2, 1) \in Nat /\ t.tot \div 2 \in Nat
    BY <1>2 DEF AtLeast
  <2>3. /\ 1 <= AtLeast(t.esc \div 2, 1)
        /\ AtLeast(t.esc \div 2, 1) < t.tot \div 2
        /\ t.tot \div 2 <= HalveAbove
    BY <1>1, <1>2, <1>4, ScalesAssumption DEF AtLeast
  <2> QED
    BY <2>1, <2>2, <2>3 DEF Legal, Counter
<1>5. t.tot <= HalveAbove \/ t.tot > HalveAbove
  BY <1>2, ScalesAssumption
<1> QED
  BY <1>3, <1>4, <1>5

LEMMA IInvIsLegal ==
  IInv <=> bins \in [Bins -> Counter] /\ \A b \in Bins : Legal(bins[b])
BY DEF IInv, BinsSane, Legal

LEMMA InitIInv == Init => IInv
<1> SUFFICES ASSUME Init PROVE IInv
  OBVIOUS
<1>1. bins = [b \in Bins |-> SeedOf(b)]
  BY DEF Init
<1>2. \A b \in Bins : Legal(bins[b]) /\ bins[b] \in Counter
  BY <1>1, SeedLegal DEF Legal
<1> QED
  BY <1>1, <1>2, IInvIsLegal

LEMMA NextIInv == IInv /\ [Next]_vars => IInv'
<1> SUFFICES ASSUME IInv, [Next]_vars PROVE IInv'
  OBVIOUS
<1>1. bins \in [Bins -> Counter] /\ \A b \in Bins : Legal(bins[b])
  BY IInvIsLegal
<1>2. CASE UNCHANGED vars
  BY <1>2 DEF IInv, BinsSane, vars
<1>3. ASSUME NEW u \in Situations, NEW escape \in BOOLEAN, Learn(u, escape)
      PROVE  IInv'
  <2>1. CASE ~HasBins(u)
    BY <1>3, <2>1 DEF Learn, IInv, BinsSane
  <2>2. CASE HasBins(u)
    <3> DEFINE New(b) == Halved(Told(b, escape))
    <3>1. \A b \in Bins : New(bins[b]) \in Counter /\ Legal(New(bins[b]))
      BY <1>1, ToldLegal DEF Legal
    <3>2. /\ Bin(u, 0) \in Bins /\ Bin(u, 1) \in Bins /\ Bin(u, 2) \in Bins
          /\ Bin(u, 0) # Bin(u, 1) /\ Bin(u, 0) # Bin(u, 2) /\ Bin(u, 1) # Bin(u, 2)
      BY <2>2, BinsOfSituation DEF Partitions, Bin
    <3>3. bins' = [bins EXCEPT ![Bin(u, 0)] = New(@), ![Bin(u, 1)] = New(@),
                               ![Bin(u, 2)] = New(@)]
      BY <1>3, <2>2 DEF Learn
    <3> HIDE DEF New
    <3>4. /\ bins' \in [Bins -> Counter]
          /\ \A b \in Bins : bins'[b] = bins[b] \/ bins'[b] = New(bins[b])
      BY <1>1, <3>1, <3>2, <3>3
    <3>5. \A b \in Bins : Legal(bins'[b])
      BY <1>1, <3>1, <3>4
    <3> QED
      BY <3>4, <3>5 DEF IInv, BinsSane, Legal
  <2> QED
    BY <2>1, <2>2
<1> QED
  BY <1>2, <1>3 DEF Next

LEMMA Invariant == Spec => []IInv
BY InitIInv, NextIInv, PTL DEF Spec

(* Whatever the bins were told, every one expects an escape and a match.   *)
THEOREM AlwaysSane == Spec => []BinsSane
<1>1. IInv => BinsSane
  BY DEF IInv
<1> QED
  BY <1>1, Invariant, PTL
-----------------------------------------------------------------------------
(* What intlog2r rounds up from, as a set that grows with the number.      *)
Steps(n) == {i \in 1 .. 8 : <<2, 3, 6, 12, 23, 46, 91, 182>>[i] <= n}

LEMMA RBitsSteps ==
  ASSUME NEW n \in Nat
  PROVE  /\ RBits(n) = Cardinality(Steps(n))
         /\ IsFiniteSet(Steps(n))
         /\ RBits(n) \in 0 .. 8
<1>1. RBits(n) = Cardinality(Steps(n))
  BY DEF RBits, Steps
<1>2. IsFiniteSet(1 .. 8) /\ Cardinality(1 .. 8) = 8
  <2>1. \A a, b \in Int : /\ IsFiniteSet(a .. b)
                          /\ Cardinality(a .. b) = IF a > b THEN 0 ELSE b - a + 1
    BY FS_Interval
  <2>2. 1 \in Int /\ 8 \in Int /\ ~ (1 > 8) /\ 8 - 1 + 1 = 8
    OBVIOUS
  <2> QED
    BY <2>1, <2>2, Zenon
<1>3. Steps(n) \in SUBSET (1 .. 8)
  BY DEF Steps
<1>4. IsFiniteSet(Steps(n)) /\ Cardinality(Steps(n)) <= 8
  BY <1>2, <1>3, FS_Subset
<1>5. Cardinality(Steps(n)) \in Nat
  BY <1>4, FS_CardinalityType
<1> QED
  BY <1>1, <1>4, <1>5

(* The thresholds of a byte keep the order.                                *)
LEMMA RBitsMonotone ==
  ASSUME NEW m \in Nat, NEW n \in Nat, m <= n
  PROVE  RBits(m) <= RBits(n)
<1>1. Steps(m) \in SUBSET Steps(n)
  <2> SUFFICES ASSUME NEW i \in Steps(m) PROVE i \in Steps(n)
    OBVIOUS
  <2>1. i \in 1 .. 8 /\ <<2, 3, 6, 12, 23, 46, 91, 182>>[i] <= m
    BY DEF Steps
  <2>2. <<2, 3, 6, 12, 23, 46, 91, 182>>[i] \in Nat
    BY <2>1
  <2>3. <<2, 3, 6, 12, 23, 46, 91, 182>>[i] <= n
    BY <2>1, <2>2
  <2> QED
    BY <2>1, <2>3 DEF Steps
<1> QED
  BY <1>1, RBitsSteps, FS_Subset

(* Every byte from two on is told from its half by one of them.            *)
LEMMA RBitsDouble ==
  ASSUME NEW m \in Nat, 2 <= m, m < 256
  PROVE  RBits(m \div 2) < RBits(m)
<1> DEFINE h == m \div 2
<1>1. h \in Nat /\ h <= m
  OBVIOUS
<1>2. \E i \in 1 .. 8 : /\ <<2, 3, 6, 12, 23, 46, 91, 182>>[i] <= m
                        /\ ~(<<2, 3, 6, 12, 23, 46, 91, 182>>[i] <= h)
  <2> DEFINE T == <<2, 3, 6, 12, 23, 46, 91, 182>>
  <2>1. /\ T[1] = 2 /\ T[2] = 3 /\ T[3] = 6 /\ T[4] = 12 /\ T[5] = 23
        /\ T[6] = 46 /\ T[7] = 91 /\ T[8] = 182
    OBVIOUS
  <2> HIDE DEF T
  <2>2. \/ (2 <= m /\ h < 2) \/ (3 <= m /\ h < 3) \/ (6 <= m /\ h < 6)
        \/ (12 <= m /\ h < 12) \/ (23 <= m /\ h < 23) \/ (46 <= m /\ h < 46)
        \/ (91 <= m /\ h < 91) \/ (182 <= m /\ h < 182)
    OBVIOUS
  <2> HIDE DEF h
  <2>3. \E i \in 1 .. 8 : T[i] <= m /\ ~(T[i] <= h)
    BY <1>1, <2>1, <2>2
  <2> QED
    BY <2>3 DEF T
<1> HIDE DEF h
<1>3. Steps(h) # Steps(m)
  BY <1>2 DEF Steps
<1>4. Steps(h) \in SUBSET Steps(m)
  <2> SUFFICES ASSUME NEW i \in Steps(h) PROVE i \in Steps(m)
    OBVIOUS
  <2>1. i \in 1 .. 8 /\ <<2, 3, 6, 12, 23, 46, 91, 182>>[i] <= h
    BY DEF Steps
  <2>2. <<2, 3, 6, 12, 23, 46, 91, 182>>[i] \in Nat
    BY <2>1
  <2>3. <<2, 3, 6, 12, 23, 46, 91, 182>>[i] <= m
    BY <1>1, <2>1, <2>2
  <2> QED
    BY <2>1, <2>3 DEF Steps
<1>5. /\ Cardinality(Steps(h)) <= Cardinality(Steps(m))
      /\ Cardinality(Steps(m)) = Cardinality(Steps(h)) => Steps(m) = Steps(h)
  BY <1>4, RBitsSteps, FS_Subset
<1>6. /\ RBits(h) = Cardinality(Steps(h)) /\ RBits(m) = Cardinality(Steps(m))
      /\ RBits(h) \in 0 .. 8 /\ RBits(m) \in 0 .. 8
  BY <1>1, RBitsSteps
<1>7. RBits(h) < RBits(m)
  BY <1>3, <1>5, <1>6
<1> QED
  BY <1>7 DEF h

(* The logarithm keeps the order of sixteen-bit numbers, and tells all     *)
(* from 512 on from their halves.                                          *)
LEMMA IntLog2Monotone ==
  ASSUME NEW m \in Nat, NEW n \in Nat, m <= n
  PROVE  IntLog2(m) \in Nat /\ IntLog2(n) \in Nat /\ IntLog2(m) <= IntLog2(n)
<1> DEFINE a == m \div 256
           c == n \div 256
<1>1. a \in Nat /\ c \in Nat /\ a <= c
  OBVIOUS
<1>2. /\ IntLog2(m) = IF a > 0 THEN 8 + RBits(a) ELSE RBits(m)
      /\ IntLog2(n) = IF c > 0 THEN 8 + RBits(c) ELSE RBits(n)
  BY DEF IntLog2
<1> HIDE DEF a, c
<1>3. /\ RBits(a) \in 0 .. 8 /\ RBits(c) \in 0 .. 8
      /\ RBits(m) \in 0 .. 8 /\ RBits(n) \in 0 .. 8
      /\ RBits(a) <= RBits(c) /\ RBits(m) <= RBits(n)
  BY <1>1, RBitsSteps, RBitsMonotone
<1> QED
  BY <1>1, <1>2, <1>3

LEMMA IntLog2Double ==
  ASSUME NEW t \in Nat, 512 <= t, t < 65536
  PROVE  IntLog2(t \div 2) + 1 <= IntLog2(t)
<1> DEFINE m == t \div 256
<1>1. m \in Nat /\ 2 <= m /\ m < 256 /\ (t \div 2) \div 256 = m \div 2 /\ m \div 2 > 0
  OBVIOUS
<1>2. /\ IntLog2(t) = 8 + RBits(m)
      /\ IntLog2(t \div 2) = 8 + RBits(m \div 2)
  BY <1>1 DEF IntLog2
<1> HIDE DEF m
<1>3. RBits(m \div 2) < RBits(m)
  BY <1>1, RBitsDouble
<1>4. RBits(m) \in 0 .. 8 /\ RBits(m \div 2) \in 0 .. 8
  <2>1. m \div 2 \in Nat
    BY <1>1
  <2> QED
    BY <1>1, <2>1, RBitsSteps
<1> QED
  BY <1>2, <1>3, <1>4
-----------------------------------------------------------------------------
(* The divisor of a weight: never negative, and positive from 512 calls on *)
(* since the smaller part is at most half of them.                         *)
LEMMA EntropyBounds ==
  ASSUME NEW b, Legal(b)
  PROVE  Entropy(b) \in Nat /\ (512 <= b.tot => 1 <= Entropy(b))
<1> DEFINE t == b.tot
           e == b.esc
           r == t - e
<1>1. /\ e \in Nat /\ t \in Nat /\ r \in Nat /\ 1 <= e /\ 1 <= r
      /\ e <= t /\ r <= t /\ e + r = t /\ t < 65536
  BY ScalesAssumption DEF Legal, Counter
<1>2. Entropy(b) = t * IntLog2(t) - e * IntLog2(e) - r * IntLog2(r)
  BY DEF Entropy
<1> HIDE DEF e, t, r
<1>3. /\ IntLog2(t) \in Nat /\ IntLog2(e) \in Nat /\ IntLog2(r) \in Nat
      /\ IntLog2(e) <= IntLog2(t) /\ IntLog2(r) <= IntLog2(t)
  BY <1>1, IntLog2Monotone
<1> DEFINE gain(n) == IntLog2(t) - IntLog2(n)
<1>4. gain(e) \in Nat /\ gain(r) \in Nat
  BY <1>3
<1>5. 512 <= t => 1 <= gain(e) \/ 1 <= gain(r)
  <2> SUFFICES ASSUME 512 <= t PROVE 1 <= gain(e) \/ 1 <= gain(r)
    OBVIOUS
  <2> DEFINE h == t \div 2
  <2>1. h \in Nat /\ (e <= h \/ r <= h)
    BY <1>1
  <2>2. IntLog2(h) + 1 <= IntLog2(t)
    BY <1>1, IntLog2Double
  <2> HIDE DEF h
  <2>3. CASE e <= h
    <3>1. IntLog2(e) <= IntLog2(h) /\ IntLog2(h) \in Nat
      BY <1>1, <2>1, <2>3, IntLog2Monotone
    <3> QED
      BY <1>3, <2>2, <3>1
  <2>4. CASE r <= h
    <3>1. IntLog2(r) <= IntLog2(h) /\ IntLog2(h) \in Nat
      BY <1>1, <2>1, <2>4, IntLog2Monotone
    <3> QED
      BY <1>3, <2>2, <3>1
  <2> QED
    BY <2>1, <2>3, <2>4
<1>6. Entropy(b) = e * gain(e) + r * gain(r)
  <2>1. t * IntLog2(t) = e * IntLog2(t) + r * IntLog2(t)
    BY <1>1, <1>3
  <2>2. /\ e * gain(e) = e * IntLog2(t) - e * IntLog2(e)
        /\ r * gain(r) = r * IntLog2(t) - r * IntLog2(r)
    BY <1>1, <1>3
  <2>3. /\ e * IntLog2(t) \in Int /\ r * IntLog2(t) \in Int
        /\ e * IntLog2(e) \in Int /\ r * IntLog2(r) \in Int
    BY <1>1, <1>3
  <2> QED
    BY <1>2, <2>1, <2>2, <2>3
<1> HIDE DEF gain
<1>7. \A n, g \in Nat : n * g \in Nat /\ (1 <= n /\ 1 <= g => 1 <= n * g)
  OBVIOUS
<1>8. Entropy(b) \in Nat /\ (512 <= t => 1 <= Entropy(b))
  BY <1>1, <1>4, <1>5, <1>6, <1>7
<1> QED
  BY <1>8 DEF t

(* One term of the blend: a small total or a small weight.                 *)
LEMMA TermBounds ==
  ASSUME NEW b, Legal(b)
  PROVE  /\ Weight(b) * b.tot \in Nat /\ Weight(b) * b.esc \in Nat
         /\ Weight(b) * b.esc <= Weight(b) * b.tot
         /\ 3 * (Weight(b) * b.tot) <= IntMax
<1> DEFINE w == Weight(b)
           t == b.tot
           d == Entropy(b) + 1
           half == WeightOne \div 2
<1>1. t \in Nat /\ b.esc \in Nat /\ b.esc <= t /\ t <= HalveAbove
  BY ScalesAssumption DEF Legal, Counter
<1>2. d \in Nat /\ 1 <= d /\ (512 <= t => 2 <= d)
  BY EntropyBounds
<1>3. w = WeightOne \div d
  BY DEF Weight
<1>4. /\ WeightOne \in Nat /\ IntMax \in Nat /\ HalveAbove \in Nat
      /\ half \in Nat /\ 3 * 512 * WeightOne <= IntMax
      /\ 3 * half * HalveAbove <= IntMax
  BY OddsAssumption, ScalesAssumption
<1> HIDE DEF t, d, w
<1>5. w \in Nat /\ w <= WeightOne /\ (2 <= d => w <= half)
  <2>1. w \in Nat /\ d * w <= WeightOne
    BY <1>2, <1>3, <1>4
  <2>2. w <= d * w
    BY <1>2, <2>1
  <2>3. 2 <= d => 2 * w <= d * w
    BY <1>2, <2>1
  <2>4. d * w \in Nat
    BY <1>2, <2>1
  <2> HIDE DEF half
  <2>5. 2 * w <= WeightOne => w <= half
    BY <1>4, <2>1 DEF half
  <2> QED
    BY <1>4, <2>1, <2>2, <2>3, <2>4, <2>5
<1> HIDE DEF half
<1>6. w * t \in Nat /\ w * b.esc \in Nat /\ w * b.esc <= w * t
  BY <1>1, <1>5
<1>7. CASE t < 512
  <2>1. w * t <= w * 512
    BY <1>1, <1>5, <1>7
  <2>2. w * 512 <= WeightOne * 512
    BY <1>4, <1>5
  <2>3. w * 512 \in Nat /\ WeightOne * 512 \in Nat
        /\ 3 * 512 * WeightOne = 3 * (WeightOne * 512)
    BY <1>4, <1>5
  <2>4. 3 * (w * t) <= IntMax
    BY <1>4, <1>6, <2>1, <2>2, <2>3
  <2> QED
    BY <1>6, <2>4 DEF w, t
<1>8. CASE 512 <= t
  <2>1. w <= half
    BY <1>2, <1>5, <1>8
  <2>2. w * t <= half * t
    BY <1>1, <1>4, <1>5, <2>1
  <2>3. half * t <= half * HalveAbove
    BY <1>1, <1>4
  <2>4. half * t \in Nat /\ half * HalveAbove \in Nat
        /\ 3 * half * HalveAbove = 3 * (half * HalveAbove)
    BY <1>1, <1>4
  <2>5. 3 * (w * t) <= IntMax
    BY <1>4, <1>6, <2>2, <2>3, <2>4
  <2> QED
    BY <1>6, <2>5 DEF w, t
<1> QED
  BY <1>1, <1>7, <1>8

(* The sums of estimated_escape_probability.                               *)
LEMMA BlendBounds ==
  ASSUME IInv, NEW u \in Situations, HasBins(u)
  PROVE  /\ Blend(u).escape \in Nat /\ Blend(u).total \in Nat
         /\ Blend(u).escape <= Blend(u).total
         /\ Blend(u).total <= IntMax
<1> DEFINE b0 == bins[Bin(u, 0)]
           b1 == bins[Bin(u, 1)]
           b2 == bins[Bin(u, 2)]
<1>1. Legal(b0) /\ Legal(b1) /\ Legal(b2)
  BY BinsOfSituation, IInvIsLegal DEF Partitions
<1>2. /\ Blend(u).escape = Weight(b0) * b0.esc + Weight(b1) * b1.esc + Weight(b2) * b2.esc
      /\ Blend(u).total = Weight(b0) * b0.tot + Weight(b1) * b1.tot + Weight(b2) * b2.tot
  BY DEF Blend, Odds
<1> HIDE DEF b0, b1, b2
<1>3. \A b \in {b0, b1, b2} :
        /\ Weight(b) * b.tot \in Nat /\ Weight(b) * b.esc \in Nat
        /\ Weight(b) * b.esc <= Weight(b) * b.tot
        /\ 3 * (Weight(b) * b.tot) <= IntMax
  BY <1>1, TermBounds
<1> QED
  BY <1>2, <1>3, OddsAssumption

(* No entropy is negative, whatever intlog2r rounds, and no sum overflows. *)
THEOREM SumsFit == Spec => []BlendFits
<1>1. ASSUME IInv PROVE BlendFits
  <2>1. ASSUME NEW b \in DOMAIN bins PROVE Entropy(bins[b]) >= 0
    <3>1. Legal(bins[b])
      BY <1>1, IInvIsLegal
    <3> QED
      BY <3>1, EntropyBounds
  <2>2. ASSUME NEW u \in Situations, HasBins(u) PROVE Blend(u).total <= IntMax
    BY <1>1, <2>2, BlendBounds
  <2> QED
    BY <2>1, <2>2 DEF BlendFits
<1> QED
  BY <1>1, Invariant, PTL
-----------------------------------------------------------------------------
(* Odds before anything is made possible.                                  *)
Fair(o) ==
  /\ o = Odds(o.escape, o.total)
  /\ o.escape \in Nat /\ o.total \in Nat /\ o.escape <= o.total

LEMMA ShiftBounds ==
  ASSUME NEW o, Fair(o), NEW limit \in Nat, NEW by \in Nat \ {0}
  PROVE  /\ Fair(Shift(o, limit, by))
         /\ o.total < limit => Shift(o, limit, by).total = o.total
         /\ limit <= o.total => Shift(o, limit, by).total = o.total \div by
<1>1. o.escape \in Nat /\ o.total \in Nat /\ o.escape <= o.total
  BY DEF Fair
<1>2. CASE o.total < limit
  <2>1. Shift(o, limit, by) = o
    BY <1>1, <1>2 DEF Shift
  <2> QED
    BY <1>1, <1>2, <2>1
<1>3. CASE limit <= o.total
  <2>1. Shift(o, limit, by) = Odds(o.escape \div by, o.total \div by)
    BY <1>1, <1>3 DEF Shift
  <2>2. \A e, t \in Nat : e <= t => /\ e \div by \in Nat /\ t \div by \in Nat
                                    /\ e \div by <= t \div by
    OBVIOUS
  <2>3. /\ o.escape \div by \in Nat /\ o.total \div by \in Nat
        /\ o.escape \div by <= o.total \div by
    BY <1>1, <2>2
  <2>4. /\ Shift(o, limit, by).escape = o.escape \div by
        /\ Shift(o, limit, by).total = o.total \div by
    BY <2>1 DEF Odds
  <2> QED
    BY <1>1, <1>3, <2>1, <2>3, <2>4 DEF Fair
<1> QED
  BY <1>1, <1>2, <1>3

(* The five shifts bring any int below the totals of the coder.            *)
LEMMA ScaledBounds ==
  ASSUME NEW o, Fair(o), o.total <= IntMax
  PROVE  Fair(Scaled(o)) /\ Scaled(o).total < MaxTotal
<1> DEFINE l128 == 128 * MaxTotal
           l8 == 8 * MaxTotal
           l2 == 2 * MaxTotal
           one == Shift(o, l128, 256)
           two == Shift(one, l128, 256)
           three == Shift(two, l8, 16)
           four == Shift(three, l2, 4)
           five == Shift(four, MaxTotal, 2)
<1>1. /\ MaxTotal \in Nat /\ IntMax \in Nat
      /\ l128 \in Nat /\ l8 \in Nat /\ l2 \in Nat
      /\ IntMax \div 65536 < l128
      /\ l128 = 16 * l8 /\ l8 = 4 * l2 /\ l2 = 2 * MaxTotal
  BY OddsAssumption
<1>2. Scaled(o) = five
  BY DEF Scaled
<1> HIDE DEF l128, l8, l2
<1>3. /\ Fair(one)
      /\ o.total < l128 => one.total = o.total
      /\ l128 <= o.total => one.total = o.total \div 256
  BY <1>1, ShiftBounds
<1> HIDE DEF one
<1>4. /\ Fair(two)
      /\ one.total < l128 => two.total = one.total
      /\ l128 <= one.total => two.total = one.total \div 256
  BY <1>1, <1>3, ShiftBounds
<1> HIDE DEF two
<1>5. /\ Fair(three)
      /\ two.total < l8 => three.total = two.total
      /\ l8 <= two.total => three.total = two.total \div 16
  BY <1>1, <1>4, ShiftBounds
<1> HIDE DEF three
<1>6. /\ Fair(four)
      /\ three.total < l2 => four.total = three.total
      /\ l2 <= three.total => four.total = three.total \div 4
  BY <1>1, <1>5, ShiftBounds
<1> HIDE DEF four
<1>7. /\ Fair(five)
      /\ four.total < MaxTotal => five.total = four.total
      /\ MaxTotal <= four.total => five.total = four.total \div 2
  BY <1>1, <1>6, ShiftBounds
<1> HIDE DEF five
<1>8. /\ o.total \in Nat /\ one.total \in Nat /\ two.total \in Nat
      /\ three.total \in Nat /\ four.total \in Nat /\ five.total \in Nat
  BY <1>3, <1>4, <1>5, <1>6, <1>7 DEF Fair
<1>9. two.total < l128
  <2> DEFINE t == o.total
  <2>1. t \div 65536 <= IntMax \div 65536
    BY <1>1, <1>8
  <2>2. (t \div 256) \div 256 = t \div 65536
    BY <1>8
  <2>3. (t \div 256) \div 256 < l128
    BY <1>1, <1>8, <2>1, <2>2
  <2> QED
    BY <1>1, <1>3, <1>4, <1>8, <2>3
<1>10. three.total < l8
  BY <1>1, <1>5, <1>8, <1>9
<1>11. four.total < l2
  BY <1>1, <1>6, <1>8, <1>10
<1>12. five.total < MaxTotal
  BY <1>1, <1>7, <1>8, <1>11
<1> QED
  BY <1>2, <1>7, <1>12

(* The coder can take every estimate made from the bins.                   *)
THEOREM EstimatesCodable == Spec => []OddsCodable
<1>1. ASSUME IInv PROVE OddsCodable
  <2> SUFFICES ASSUME NEW u \in Situations, HasBins(u)
               PROVE  LET odds == Estimate(u)
                      IN  /\ 1 <= odds.escape /\ odds.escape < odds.total
                          /\ odds.total <= MaxTotal
    BY DEF OddsCodable
  <2> DEFINE blend == Blend(u)
             o == Scaled(blend)
             odds == Estimate(u)
  <2>1. Fair(blend) /\ blend.total <= IntMax
    <3>1. blend = Odds(blend.escape, blend.total)
      BY DEF Blend, Odds
    <3> QED
      BY <1>1, <3>1, BlendBounds DEF Fair
  <2>2. odds = BothPossible(o)
    BY DEF Estimate
  <2> HIDE DEF blend, odds
  <2>3. /\ o.escape \in Nat /\ o.total \in Nat
        /\ o.escape <= o.total /\ o.total < MaxTotal
    BY <2>1, ScaledBounds DEF Fair
  <2> HIDE DEF o
  <2> DEFINE some == AtLeast(o.escape, 1)
  <2>4. odds.escape = some /\ odds.total = AtLeast(o.total, some + 1)
    BY <2>2 DEF BothPossible, Odds
  <2>5. some \in Nat /\ 1 <= some /\ (some = o.escape \/ some = 1)
    BY <2>3 DEF AtLeast
  <2> HIDE DEF some
  <2>6. /\ 1 <= odds.escape /\ odds.escape < odds.total /\ odds.total <= MaxTotal
    BY <2>3, <2>4, <2>5, OddsAssumption DEF AtLeast
  <2> QED
    BY <2>6 DEF odds
<1> QED
  BY <1>1, Invariant, PTL
=============================================================================
