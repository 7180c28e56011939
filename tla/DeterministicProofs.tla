------------------------ MODULE DeterministicProofs ------------------------
(***************************************************************************)
(* Proofs about Deterministic, for inputs, rings and lengths of any size.  *)
(***************************************************************************)
EXTENDS Deterministic, FiniteSetTheorems, SequenceTheorems,
        WellFoundedInduction, TLAPS

Node == [input_ptr : Nat, min_len : Nat, home : Int]
Statistics == [matches_seen : Nat, escapes_seen : Nat]
Found == [dc : Int, node : Slots \union {NULL}, match_len : Nat, longest : Nat]

(* The slot of the node that stands for a place of the input.              *)
Slot(p) == (p - SeedBytes) % NodeArraySize
Used(s) == node[s].home # NULL

TypeInv ==
  /\ input \in Seq(Symbols) /\ SeedBytes <= Here
  /\ step \in {"encode", "update"}
  /\ step = "update" => Here < MaxInput
  /\ symbol \in Symbols
  /\ det \in [Suffixes -> Int]
  /\ seen \in Seq(Statistics)
  /\ node \in [Slots -> Node]
  /\ node_cursor \in Slots
  /\ next_node \in Slots \union {NULL}
  /\ cached \in Found

(* A suffix has one Deterministic_Context, and that counts no more matches *)
(* than there are bytes.                                                   *)
ContextsInv ==
  /\ \A x \in Suffixes : det[x] # NULL => det[x] \in DOMAIN seen
  /\ \A x, y \in Suffixes : det[x] # NULL /\ det[x] = det[y] => x = y
  /\ \A d \in DOMAIN seen : 1 <= seen[d].matches_seen /\ seen[d].matches_seen <= Here

(* The slots in use stand for the last bytes.                              *)
RingInv ==
  /\ node_cursor = Slot(Here)
  /\ \A p \in Nat :
       SeedBytes <= p /\ p < Here /\ Here - NodeArraySize <= p =>
         node[Slot(p)].input_ptr = p /\ Used(Slot(p))
  /\ \A s \in Slots : Used(s) =>
       LET p == node[s].input_ptr
       IN  /\ SeedBytes <= p /\ p < Here /\ Here - NodeArraySize <= p
           /\ s = Slot(p)

(* A node found through a context follows that context's suffix.           *)
HomesInv ==
  \A s \in Slots : Used(s) =>
    /\ node[s].home \in DOMAIN seen
    /\ \A x \in Suffixes : det[x] = node[s].home =>
         \A i \in 1 .. SuffixLen : x[i] = Byte(node[s].input_ptr - i)

(* What was found is in use, matches, and follows the suffix of the active *)
(* context, whose counts were taken; so does what will be followed.        *)
FoundInv ==
  step = "update" /\ cached.node # NULL =>
    /\ Used(cached.node)
    /\ Shares(Here, node[cached.node].input_ptr, cached.match_len)
    /\ Shares(Here, node[cached.node].input_ptr, SuffixLen)
    /\ cached.dc = det[Suffix]
NextInv ==
  step = "encode" /\ next_node # NULL =>
    /\ Used(next_node)
    /\ Shares(Here, node[next_node].input_ptr, cached.match_len + 1)
    /\ Shares(Here, node[next_node].input_ptr, SuffixLen)

IInv == TypeInv /\ ContextsInv /\ RingInv /\ HomesInv /\ FoundInv /\ NextInv
-----------------------------------------------------------------------------
(* The extreme elements of sets of integers.                               *)
LEMMA MinMember ==
  ASSUME NEW S \in SUBSET Nat, S # {}
  PROVE  Min(S) \in S /\ \A y \in S : Min(S) <= y
<1>1. \E x \in S : \A y \in S : x <= y
  <2>1. IsWellFoundedOn(OpToRel(<, Nat), Nat)
    BY NatLessThanWellFounded
  <2>2. PICK x \in S : \A y \in S : ~ (<<y, x>> \in OpToRel(<, Nat))
    BY <2>1, WFMin
  <2>3. \A y \in S : ~ (y < x)
    BY <2>2 DEF OpToRel
  <2> QED
    BY <2>3
<1> QED
  BY <1>1, Zenon DEF Min

LEMMA MaxMember ==
  ASSUME NEW S \in SUBSET Nat, S # {}, NEW bound \in Nat, \A y \in S : y <= bound
  PROVE  Max(S) \in S /\ \A y \in S : Max(S) >= y
<1> DEFINE T == {bound - y : y \in S}
<1>1. T \in SUBSET Nat /\ T # {}
  <2>1. \A y \in S : bound - y \in Nat
    OBVIOUS
  <2> QED
    BY <2>1
<1>2. Min(T) \in T /\ \A y \in T : Min(T) <= y
  BY <1>1, MinMember
<1>3. PICK x \in S : Min(T) = bound - x
  BY <1>2
<1>4. \A y \in S : bound - x <= bound - y
  BY <1>2, <1>3
<1>5. \A y \in S : x >= y
  BY <1>4
<1>6. \E z \in S : \A y \in S : z >= y
  BY <1>5
<1> QED
  BY <1>6, Zenon DEF Max

LEMMA MaxOfTwo ==
  ASSUME NEW a \in Int, NEW b \in Int
  PROVE  /\ Max({a, b}) \in {a, b}
         /\ Max({a, b}) >= a /\ Max({a, b}) >= b
<1>1. \E x \in {a, b} : \A y \in {a, b} : x >= y
  OBVIOUS
<1>2. Max({a, b}) \in {a, b} /\ \A y \in {a, b} : Max({a, b}) >= y
  BY <1>1, Zenon DEF Max
<1> QED
  BY <1>2

LEMMA MinOfTwo ==
  ASSUME NEW a \in Int, NEW b \in Int
  PROVE  /\ Min({a, b}) \in {a, b}
         /\ Min({a, b}) <= a /\ Min({a, b}) <= b
<1>1. \E x \in {a, b} : \A y \in {a, b} : x <= y
  OBVIOUS
<1>2. Min({a, b}) \in {a, b} /\ \A y \in {a, b} : Min({a, b}) <= y
  BY <1>1, Zenon DEF Min
<1> QED
  BY <1>2

LEMMA MinOfThree ==
  ASSUME NEW a \in Int, NEW b \in Int, NEW c \in Int
  PROVE  /\ Min({a, b, c}) \in {a, b, c} /\ Min({a, b, c}) <= c
<1>1. \E x \in {a, b, c} : \A y \in {a, b, c} : x <= y
  OBVIOUS
<1>2. /\ Min({a, b, c}) \in {a, b, c}
      /\ \A y \in {a, b, c} : Min({a, b, c}) <= y
  BY <1>1, Zenon DEF Min
<1> QED
  BY <1>2
-----------------------------------------------------------------------------
(* Slots, whatever the size of the ring.                                   *)
LEMMA Remainder ==
  ASSUME NEW n \in Nat \ {0}, NEW q \in Int, NEW r \in Nat, r < n
  PROVE  (n * q + r) % n = r
<1> DEFINE a == n * q + r
           k == a \div n
           m == a % n
<1>1. a \in Int /\ k \in Int /\ m \in Nat /\ m < n /\ a = n * k + m
  OBVIOUS
<1>2. n * q + r = n * k + m
  BY <1>1
<1> HIDE DEF k, m
<1>3. n * (q - k) = m - r
  <2>1. n * (q - k) = n * q - n * k
    BY <1>1
  <2>2. n * q \in Int /\ n * k \in Int
    BY <1>1
  <2> QED
    BY <1>1, <1>2, <2>1, <2>2
<1>4. q - k = 0
  <2> DEFINE j == q - k
  <2>1. j \in Int /\ n * j < n /\ n * j > 0 - n
    BY <1>1, <1>3
  <2> HIDE DEF j
  <2>2. CASE j >= 1
    <3>1. n * j >= n
      BY <2>1, <2>2
    <3> QED
      BY <2>1, <3>1
  <2>3. CASE j <= -1
    <3>1. n * j <= 0 - n
      BY <2>1, <2>3
    <3> QED
      BY <2>1, <3>1
  <2>4. j = 0
    BY <2>1, <2>2, <2>3
  <2> QED
    BY <2>4 DEF j
<1>5. m = r
  BY <1>1, <1>3, <1>4
<1> QED
  BY <1>5 DEF m

LEMMA SlotFacts ==
  ASSUME NEW p \in Nat, SeedBytes <= p
  PROVE  /\ Slot(p) \in Slots
         /\ NextSlot(Slot(p)) = Slot(p + 1)
<1> DEFINE n == NodeArraySize
           a == p - SeedBytes
           q == a \div n
           r == a % n
<1>1. n \in Nat \ {0} /\ a \in Nat
  BY RingAssumption, LengthsAssumption
<1>2. q \in Int /\ r \in Nat /\ r < n /\ a = n * q + r
  BY <1>1
<1>3. Slot(p) = r /\ Slot(p + 1) = (a + 1) % n /\ NextSlot(Slot(p)) = (r + 1) % n
  BY LengthsAssumption DEF Slot, NextSlot
<1> HIDE DEF q, r, a, n
<1>4. (r + 1) % n = (a + 1) % n
  <2>1. CASE r + 1 < n
    <3>1. a + 1 = n * q + (r + 1) /\ r + 1 = n * 0 + (r + 1)
      BY <1>1, <1>2
    <3>2. (n * q + (r + 1)) % n = r + 1 /\ (n * 0 + (r + 1)) % n = r + 1
      BY <1>1, <1>2, <2>1, Remainder
    <3> QED
      BY <3>1, <3>2
  <2>2. CASE r + 1 = n
    <3>1. n * (q + 1) = n * q + n /\ n * q \in Int
      BY <1>1, <1>2
    <3>2. a + 1 = n * (q + 1) + 0 /\ r + 1 = n * 1 + 0
      BY <1>1, <1>2, <2>2, <3>1
    <3>3. (n * (q + 1) + 0) % n = 0 /\ (n * 1 + 0) % n = 0
      BY <1>1, <1>2, Remainder
    <3> QED
      BY <3>2, <3>3
  <2> QED
    BY <1>1, <1>2, <2>1, <2>2
<1>5. r \in 0 .. n - 1
  BY <1>1, <1>2
<1> QED
  BY <1>3, <1>4, <1>5 DEF Slots, n

(* Two places share a slot when they are a whole ring apart, not less.     *)
LEMMA SlotsApart ==
  ASSUME NEW p \in Nat, NEW o \in Nat, SeedBytes <= p, SeedBytes <= o,
         p < o, o - p < NodeArraySize
  PROVE  Slot(p) # Slot(o)
<1> DEFINE n == NodeArraySize
           a == p - SeedBytes
           b == o - SeedBytes
           k == a \div n
           l == b \div n
           r == a % n
<1>1. n \in Nat \ {0} /\ a \in Nat /\ b \in Nat /\ a < b /\ b - a < n
  BY RingAssumption, LengthsAssumption
<1> SUFFICES ASSUME Slot(p) = Slot(o) PROVE FALSE
  OBVIOUS
<1>2. b % n = r
  BY DEF Slot
<1>3. /\ k \in Int /\ l \in Int /\ r \in Nat /\ r < n
      /\ a = n * k + r /\ b = n * l + r
  BY <1>1, <1>2
<1> HIDE DEF k, l, r, a, b, n
<1> DEFINE j == l - k
<1>4. n * j = b - a
  <2>1. n * j = n * l - n * k
    BY <1>1, <1>3
  <2>2. n * l \in Int /\ n * k \in Int
    BY <1>1, <1>3
  <2> QED
    BY <1>1, <1>3, <2>1, <2>2
<1>5. j \in Int /\ 0 < n * j /\ n * j < n
  BY <1>1, <1>3, <1>4
<1> HIDE DEF j
<1>6. CASE j <= 0
  <2>1. n * j <= 0
    BY <1>1, <1>5, <1>6
  <2> QED
    BY <1>1, <1>5, <2>1
<1>7. CASE j >= 1
  <2>1. n * j >= n
    BY <1>1, <1>5, <1>7
  <2> QED
    BY <1>1, <1>5, <2>1
<1> QED
  BY <1>5, <1>6, <1>7

LEMMA SlotWraps ==
  ASSUME NEW p \in Nat, SeedBytes <= p
  PROVE  Slot(p) = Slot(p + NodeArraySize)
<1> DEFINE n == NodeArraySize
           a == p - SeedBytes
           q == a \div n
           r == a % n
<1>1. n \in Nat \ {0} /\ a \in Nat
  BY RingAssumption, LengthsAssumption
<1>2. q \in Int /\ r \in Nat /\ r < n /\ a = n * q + r
  BY <1>1
<1>3. Slot(p) = r /\ Slot(p + n) = (a + n) % n
  <2>1. (p + n) - SeedBytes = a + n
    BY <1>1, LengthsAssumption
  <2> QED
    BY <2>1 DEF Slot
<1> HIDE DEF q, r, a, n
<1>4. n * (q + 1) = n * q + n /\ n * q \in Int
  BY <1>1, <1>2
<1>5. a + n = n * (q + 1) + r
  BY <1>1, <1>2, <1>4
<1>6. (n * (q + 1) + r) % n = r
  BY <1>1, <1>2, Remainder
<1> QED
  BY <1>3, <1>5, <1>6 DEF n
-----------------------------------------------------------------------------
(* The input and the contexts' suffixes.                                   *)
LEMMA BytesKnown ==
  ASSUME input \in Seq(Symbols), NEW i \in Int, i < Here
  PROVE  Byte(i) \in Bytes
<1>1. CASE i < 0
  BY <1>1 DEF Byte, Bytes
<1>2. CASE i >= 0
  <2>1. i + 1 \in 1 .. Len(input)
    BY <1>2 DEF Here
  <2>2. input[i + 1] \in Symbols
    BY <2>1
  <2> QED
    BY <1>2, <2>2 DEF Byte, Bytes
<1> QED
  BY <1>1, <1>2

LEMMA SuffixKnown ==
  ASSUME TypeInv
  PROVE  /\ Suffix \in Suffixes
         /\ \A i \in 1 .. SuffixLen : Suffix[i] = Byte(Here - i)
<1>1. input \in Seq(Symbols) /\ Here \in Nat /\ SuffixLen \in Nat
  BY LengthsAssumption DEF TypeInv, Here
<1>2. \A i \in 1 .. SuffixLen : Byte(Here - i) \in Bytes
  <2> TAKE i \in 1 .. SuffixLen
  <2>1. Here - i \in Int /\ Here - i < Here
    BY <1>1
  <2> QED
    BY <1>1, <2>1, BytesKnown
<1> QED
  BY <1>2 DEF Suffix, Suffixes

LEMMA InputGrows ==
  ASSUME input \in Seq(Symbols), symbol \in Symbols, input' = Append(input, symbol)
  PROVE  /\ input' \in Seq(Symbols) /\ Here \in Nat /\ Here' = Here + 1
         /\ \A i \in Int : i < Here => Byte(i)' = Byte(i)
         /\ \A i \in Int : i = Here => Byte(i)' = symbol
<1>1. /\ input' \in Seq(Symbols) /\ Here \in Nat /\ Here' = Here + 1
      /\ \A k \in 1 .. Len(input) : input'[k] = input[k]
      /\ input'[Len(input) + 1] = symbol
  BY DEF Here
<1>2. ASSUME NEW i \in Int, i < Here PROVE Byte(i)' = Byte(i)
  <2>1. CASE i < 0
    BY <2>1 DEF Byte
  <2>2. CASE i >= 0
    <3>1. i + 1 \in 1 .. Len(input)
      BY <1>2, <2>2 DEF Here
    <3> QED
      BY <1>1, <2>2, <3>1 DEF Byte
  <2> QED
    BY <2>1, <2>2
<1>3. \A i \in Int : i = Here => Byte(i)' = symbol
  BY <1>1 DEF Byte, Here
<1> QED
  BY <1>1, <1>2, <1>3
-----------------------------------------------------------------------------
(* longest_common_suffix finds what is common, given the bytes it does not *)
(* compare.                                                                *)
LEMMA CommonSuffixReal ==
  ASSUME TypeInv, NEW q \in Nat, q < Here, Shares(Here, q, KnownLen)
  PROVE  /\ CommonSuffix(q) \in Nat
         /\ CommonSuffix(q) <= KnownLen + MaxMatchLen
         /\ Shares(Here, q, CommonSuffix(q))
<1> DEFINE a == Here - KnownLen - 1
           b == q - KnownLen - 1
           least == Min({a, b, MaxMatchLen})
           reach == Max({1, least})
           differ == {k \in 0 .. reach - 1 : Byte(a - k) # Byte(b - k)}
           len == CommonSuffix(q)
<1>1. /\ KnownLen \in Nat \ {0} /\ MaxMatchLen \in Nat \ {0}
      /\ Here \in Nat /\ a \in Int /\ b \in Int
  BY LengthsAssumption DEF TypeInv, Here
<1>2. least \in Int /\ least <= MaxMatchLen
  BY <1>1, MinOfThree
<1>3. reach \in Nat \ {0} /\ reach <= MaxMatchLen
  <2> HIDE DEF least
  <2>1. 1 \in Int
    OBVIOUS
  <2>2. reach \in {1, least} /\ reach >= 1
    BY <1>2, <2>1, MaxOfTwo
  <2> HIDE DEF reach
  <2> QED
    BY <1>1, <1>2, <2>2
<1>4. len = KnownLen + (IF differ = {} THEN reach ELSE Min(differ))
  BY DEF CommonSuffix
<1> HIDE DEF len, reach, least
<1>5. /\ differ \in SUBSET Nat
      /\ \A k \in 0 .. reach - 1 : k \notin differ => Byte(a - k) = Byte(b - k)
      /\ \A k \in differ : k < reach
  BY <1>3
<1> HIDE DEF differ
<1> DEFINE same == len - KnownLen
<1>6. /\ same \in Nat /\ same <= reach
      /\ \A k \in Nat : k < same => k \in 0 .. reach - 1 /\ k \notin differ
  <2>1. CASE differ = {}
    BY <1>1, <1>3, <1>4, <2>1
  <2>2. CASE differ # {}
    <3>1. Min(differ) \in differ /\ \A y \in differ : Min(differ) <= y
      BY <1>5, <2>2, MinMember
    <3>2. Min(differ) \in Nat /\ Min(differ) < reach
      BY <1>5, <3>1
    <3>3. same = Min(differ)
      BY <1>1, <1>4, <2>2, <3>2
    <3>4. \A k \in Nat : k < same => k \in 0 .. reach - 1 /\ k \notin differ
      <4> HIDE DEF same
      <4> TAKE k \in Nat
      <4> HAVE k < same
      <4>1. k \notin differ
        BY <3>1, <3>2, <3>3
      <4>2. k < reach
        BY <1>3, <3>2, <3>3
      <4> QED
        BY <1>3, <4>1, <4>2
    <3> QED
      BY <1>3, <3>2, <3>3, <3>4
  <2> QED
    BY <2>1, <2>2
<1>7. \A k \in Nat : k < same => Byte(a - k) = Byte(b - k)
  BY <1>5, <1>6
<1>8. len \in Nat /\ len = KnownLen + same /\ len <= KnownLen + MaxMatchLen
  <2>1. len \in Int
    BY <1>1, <1>3, <1>4, <1>5, MinMember
  <2> HIDE DEF len
  <2> QED
    BY <1>1, <1>3, <1>6, <2>1
<1> HIDE DEF same
<1>9. Shares(Here, q, len)
  <2> SUFFICES ASSUME NEW i \in 1 .. len PROVE Byte(Here - i) = Byte(q - i)
    BY DEF Shares
  <2>1. CASE i <= KnownLen
    <3>1. i \in 1 .. KnownLen
      BY <1>1, <1>8, <2>1
    <3> QED
      BY <3>1 DEF Shares
  <2>2. CASE i > KnownLen
    <3> DEFINE k == i - KnownLen - 1
    <3>1. k \in Nat /\ k < same /\ a - k = Here - i /\ b - k = q - i
      BY <1>1, <1>6, <1>8, <2>2
    <3> HIDE DEF k, a, b
    <3> QED
      BY <1>7, <3>1
  <2> QED
    BY <1>1, <2>1, <2>2
<1> QED
  BY <1>8, <1>9 DEF len
-----------------------------------------------------------------------------
(* A node in a context's list follows the same suffix.                     *)
LEMMA VisitedShare ==
  ASSUME TypeInv, RingInv, HomesInv,
         det[Suffix] # NULL, NEW s \in Visited(det[Suffix])
  PROVE  /\ s \in Slots /\ Used(s) /\ node[s].input_ptr \in Nat
         /\ node[s].input_ptr < Here
         /\ Shares(Here, node[s].input_ptr, KnownLen)
         /\ Shares(Here, node[s].input_ptr, SuffixLen)
<1>1. s \in Slots /\ node[s].home = det[Suffix]
  BY DEF Visited
<1>2. Used(s)
  BY <1>1 DEF Used
<1>3. node[s].input_ptr \in Nat /\ node[s].input_ptr < Here
  BY <1>1, <1>2 DEF TypeInv, Node, RingInv
<1>4. \A i \in 1 .. SuffixLen : Suffix[i] = Byte(node[s].input_ptr - i)
  BY <1>1, <1>2, SuffixKnown DEF HomesInv
<1>5. \A i \in 1 .. SuffixLen : Byte(Here - i) = Byte(node[s].input_ptr - i)
  BY <1>4, SuffixKnown
<1>6. \A i \in 1 .. KnownLen : i \in 1 .. SuffixLen
  BY LengthsAssumption
<1> QED
  BY <1>1, <1>2, <1>3, <1>5, <1>6 DEF Shares

Limit == KnownLen + MaxMatchLen

(* What find_best_node's loop answers.                                     *)
LEMMA BestNodeReal ==
  ASSUME TypeInv, RingInv, HomesInv, det[Suffix] # NULL
  PROVE  LET m == BestNode(det[Suffix])
         IN  /\ m.dc = det[Suffix] /\ m \in Found
             /\ m.match_len <= Limit /\ m.longest <= Limit
             /\ m.node # NULL =>
                  /\ m.node \in Slots /\ Used(m.node)
                  /\ Shares(Here, node[m.node].input_ptr, m.match_len)
                  /\ Shares(Here, node[m.node].input_ptr, SuffixLen)
                  /\ m.match_len >= node[m.node].min_len
<1> DEFINE dc == det[Suffix]
           visited == Visited(dc)
           len == [s \in visited |-> CommonSuffix(node[s].input_ptr)]
           good == {s \in visited : Acceptable(s, len[s])}
           goodlens == {0} \union {len[s] : s \in good}
           best_len == Max(goodlens)
           best == {s \in good : len[s] = best_len}
           lens == {0} \union {len[s] : s \in visited}
           longest == Max(lens)
           newest == CHOOSE s \in best : \A t \in best : ~Newer(t, s)
           m == BestNode(dc)
<1>1. /\ Limit \in Nat
      /\ \A s \in visited :
           /\ s \in Slots /\ Used(s) /\ node[s].input_ptr \in Nat
           /\ node[s].input_ptr < Here
           /\ len[s] \in Nat /\ len[s] <= Limit
           /\ Shares(Here, node[s].input_ptr, len[s])
           /\ Shares(Here, node[s].input_ptr, SuffixLen)
  BY VisitedShare, CommonSuffixReal, LengthsAssumption DEF Limit
<1>2. m = IF good = {} THEN Match(dc, NULL, 0, longest)
          ELSE Match(dc, newest, best_len, longest)
  BY DEF BestNode
<1>3. dc \in Int
  BY SuffixKnown DEF TypeInv
<1>4. \A s \in good : s \in visited /\ len[s] >= node[s].min_len
  BY DEF Acceptable
<1>5. Here \in Nat
  BY DEF TypeInv, Here
<1> HIDE DEF m, visited, good, len, dc
<1>6. longest \in Nat /\ longest <= Limit
  <2>1. lens \in SUBSET Nat /\ lens # {} /\ \A n \in lens : n <= Limit
    BY <1>1
  <2>2. longest \in lens
    BY <1>1, <2>1, MaxMember
  <2> QED
    BY <2>1, <2>2
<1>7. /\ goodlens \in SUBSET Nat /\ goodlens # {}
      /\ \A n \in goodlens : n <= Limit
  BY <1>1, <1>4
<1>8. best_len \in goodlens /\ \A n \in goodlens : best_len >= n
  BY <1>1, <1>7, MaxMember
<1> HIDE DEF longest, best_len
<1>9. best_len \in Nat /\ best_len <= Limit
  BY <1>7, <1>8
<1>10. ASSUME good # {} PROVE newest \in best
  <2>1. best # {}
    <3>1. CASE best_len = 0
      <4>1. PICK s \in good : TRUE
        BY <1>10
      <4>2. len[s] \in Nat /\ len[s] <= best_len
        BY <1>1, <1>4, <1>8
      <4>3. len[s] = best_len
        BY <3>1, <4>2
      <4> QED
        BY <4>3
    <3>2. CASE best_len # 0
      BY <1>8, <3>2
    <3> QED
      BY <3>1, <3>2
  <2> DEFINE places == {node[s].input_ptr : s \in best}
             last == Max(places)
  <2>2. places \in SUBSET Nat /\ places # {} /\ \A p \in places : p <= Here
    BY <1>1, <1>4, <1>5, <2>1
  <2>3. last \in places /\ \A p \in places : last >= p
    BY <1>5, <2>2, MaxMember
  <2> HIDE DEF last
  <2>4. PICK s \in best : node[s].input_ptr = last
    BY <2>3
  <2>5. \A t \in best : ~Newer(t, s)
    <3> TAKE t \in best
    <3>1. node[t].input_ptr \in Nat /\ last \in Nat /\ node[t].input_ptr <= last
      BY <2>2, <2>3
    <3> QED
      BY <2>4, <3>1 DEF Newer
  <2> QED
    BY <2>4, <2>5
<1> HIDE DEF newest
<1>11. CASE good = {}
  <2>1. /\ m.dc = dc /\ m.node = NULL /\ m.match_len = 0 /\ m.longest = longest
        /\ m = [dc |-> dc, node |-> NULL, match_len |-> 0, longest |-> longest]
    BY <1>2, <1>11 DEF Match
  <2>2. m \in Found
    BY <1>3, <1>6, <2>1 DEF Found
  <2> QED
    BY <1>1, <1>6, <2>1, <2>2 DEF m, dc
<1>12. CASE good # {}
  <2>1. /\ m.dc = dc /\ m.node = newest /\ m.match_len = best_len
        /\ m.longest = longest
        /\ m = [dc |-> dc, node |-> newest, match_len |-> best_len,
                longest |-> longest]
    BY <1>2, <1>12 DEF Match
  <2>2. newest \in good /\ len[newest] = best_len
    BY <1>10, <1>12
  <2>3. /\ newest \in Slots /\ Used(newest) /\ best_len >= node[newest].min_len
        /\ Shares(Here, node[newest].input_ptr, best_len)
        /\ Shares(Here, node[newest].input_ptr, SuffixLen)
    BY <1>1, <1>4, <2>2
  <2>4. m \in Found
    BY <1>3, <1>6, <1>9, <2>1, <2>3 DEF Found
  <2> QED
    BY <1>6, <1>9, <2>1, <2>3, <2>4 DEF m, dc
<1> QED
  BY <1>11, <1>12

(* What find_match answers: nothing, or a node in use that matches.        *)
LEMMA FindMatchReal ==
  ASSUME IInv, step = "encode"
  PROVE  /\ FindMatch \in Found
         /\ FindMatch.node # NULL =>
              /\ FindMatch.dc = det[Suffix] /\ det[Suffix] # NULL
              /\ FindMatch.node \in Slots /\ Used(FindMatch.node)
              /\ Shares(Here, node[FindMatch.node].input_ptr, FindMatch.match_len)
              /\ Shares(Here, node[FindMatch.node].input_ptr, SuffixLen)
<1> DEFINE dc == det[Suffix]
           none == [cached EXCEPT !.dc = NULL, !.node = NULL]
           Good(m) == /\ m \in Found
                      /\ m.node # NULL =>
                           /\ m.dc = det[Suffix] /\ det[Suffix] # NULL
                           /\ m.node \in Slots /\ Used(m.node)
                           /\ Shares(Here, node[m.node].input_ptr, m.match_len)
                           /\ Shares(Here, node[m.node].input_ptr, SuffixLen)
<1>1. /\ dc \in Int /\ cached \in Found /\ next_node \in Slots \union {NULL}
      /\ TypeInv /\ RingInv /\ HomesInv /\ NextInv
  BY SuffixKnown DEF IInv, TypeInv
<1>2. Good(none)
  <2>1. NULL \in Int /\ NULL \in Slots \union {NULL}
    BY DEF NULL
  <2>2. none \in Found
    BY <1>1, <2>1 DEF Found
  <2>3. none.node = NULL
    BY <1>1 DEF Found
  <2> QED
    BY <2>2, <2>3
<1>3. Following => Good(Followed)
  <2> SUFFICES ASSUME Following PROVE Good(Followed)
    OBVIOUS
  <2>1. next_node # NULL /\ dc # NULL /\ next_node \in Slots
    BY <1>1 DEF Following
  <2>2. /\ Used(next_node) /\ Shares(Here, node[next_node].input_ptr, cached.match_len + 1)
        /\ Shares(Here, node[next_node].input_ptr, SuffixLen)
    BY <1>1, <2>1 DEF NextInv
  <2>3. cached.match_len \in Nat /\ cached.longest \in Nat
    BY <1>1 DEF Found
  <2> DEFINE most == Max({cached.longest, cached.match_len + 1})
  <2>4. most \in Nat
    <3>1. cached.longest \in Int /\ cached.match_len + 1 \in Int
      BY <2>3
    <3>2. most \in {cached.longest, cached.match_len + 1}
      BY <3>1, MaxOfTwo
    <3> QED
      BY <2>3, <3>2
  <2>5. Followed = [dc |-> dc, node |-> next_node,
                    match_len |-> cached.match_len + 1, longest |-> most]
    BY DEF Followed, Match
  <2> HIDE DEF most, dc
  <2>6. Followed \in Found
    BY <1>1, <2>1, <2>3, <2>4, <2>5 DEF Found
  <2>7. Followed.node = next_node /\ Followed.dc = dc /\ Followed.match_len = cached.match_len + 1
    BY <2>5
  <2> QED
    BY <2>1, <2>2, <2>6, <2>7 DEF dc
<1>4. ASSUME NEW kept, Good(kept) PROVE Good(FindBest(dc, kept))
  <2>1. CASE dc = NULL
    <3>1. FindBest(dc, kept) = [dc |-> NULL, node |-> NULL, match_len |-> 0,
                                longest |-> 0]
      BY <2>1 DEF FindBest, NoMatch, Match
    <3>2. NULL \in Int
      BY DEF NULL
    <3> QED
      BY <3>1, <3>2 DEF Found
  <2>2. CASE dc # NULL /\ Here < MinOrder
    BY <1>4, <2>2 DEF FindBest
  <2>3. CASE dc # NULL /\ ~ (Here < MinOrder)
    <3>1. FindBest(dc, kept) = BestNode(dc)
      BY <2>3 DEF FindBest
    <3> QED
      BY <1>1, <2>3, <3>1, BestNodeReal
  <2> QED
    BY <2>1, <2>2, <2>3
<1>5. \/ FindMatch = FindBest(dc, none)
      \/ Following /\ FindMatch = Followed
      \/ Following /\ FindMatch = FindBest(dc, Followed)
  BY DEF FindMatch
<1> HIDE DEF Good
<1>6. Good(FindMatch)
  BY <1>2, <1>3, <1>4, <1>5
<1> QED
  BY <1>6 DEF Good
-----------------------------------------------------------------------------
LEMMA InitIInv == Init => IInv
<1> SUFFICES ASSUME Init PROVE IInv
  OBVIOUS
<1>1. input \in Seq(Symbols) /\ Here = SeedBytes /\ input[SeedBytes] \in Symbols
  BY LengthsAssumption DEF Init, Here
<1>2. NULL \in Int /\ \A s \in Slots : node[s].home = NULL /\ ~Used(s)
  BY DEF Init, NULL, Used
<1>3. TypeInv
  <2>1. det \in [Suffixes -> Int] /\ seen \in Seq(Statistics)
    BY <1>2 DEF Init
  <2>2. node \in [Slots -> Node]
    BY <1>2 DEF Init, Node
  <2>3. node_cursor \in Slots /\ next_node \in Slots \union {NULL}
    BY RingAssumption DEF Init, Slots
  <2>4. cached \in Found
    BY <1>2 DEF Init, NoMatch, Match, Found
  <2> QED
    BY <1>1, <2>1, <2>2, <2>3, <2>4, LengthsAssumption DEF Init, TypeInv
<1>4. ContextsInv
  BY DEF Init, ContextsInv
<1>5. RingInv
  <2>1. Slot(Here) = 0
    BY <1>1, RingAssumption, LengthsAssumption DEF Slot
  <2>2. \A p \in Nat : ~ (SeedBytes <= p /\ p < Here)
    BY <1>1, LengthsAssumption
  <2> QED
    BY <1>2, <2>1, <2>2 DEF Init, RingInv
<1> QED
  BY <1>2, <1>3, <1>4, <1>5 DEF Init, IInv, HomesInv, FoundInv, NextInv

(* Forcing a match changes no node but for the length it asks for.         *)
LEMMA ForceKeeps ==
  ASSUME TypeInv
  PROVE  /\ ForceMinLen \in [Slots -> Node]
         /\ \A s \in Slots : /\ ForceMinLen[s].input_ptr = node[s].input_ptr
                             /\ ForceMinLen[s].home = node[s].home
<1>1. CASE ~Forced
  BY <1>1 DEF ForceMinLen, TypeInv
<1>2. CASE Forced
  <2> DEFINE len == Followed.match_len
             least == Min({node[next_node].min_len, len})
  <2>1. next_node \in Slots /\ node \in [Slots -> Node] /\ cached \in Found
    BY <1>2 DEF Forced, Following, TypeInv
  <2>2. len \in Nat
    BY <2>1 DEF Followed, Match, Found
  <2>3. node[next_node].min_len \in Nat
    BY <2>1 DEF Node
  <2> HIDE DEF len
  <2>4. least \in Nat
    <3>1. node[next_node].min_len \in Int /\ len \in Int
      BY <2>2, <2>3
    <3>2. least \in {node[next_node].min_len, len}
      BY <3>1, MinOfTwo
    <3> QED
      BY <2>2, <2>3, <3>2
  <2>5. ForceMinLen = [node EXCEPT ![next_node].min_len = least]
    BY <1>2 DEF ForceMinLen, len
  <2> HIDE DEF least
  <2> QED
    BY <2>1, <2>4, <2>5 DEF Node
<1> QED
  BY <1>1, <1>2

LEMMA CodeIInv == IInv /\ Code => IInv'
<1> SUFFICES ASSUME IInv, Code PROVE IInv'
  OBVIOUS
<1>1. /\ step = "encode" /\ step' = "update" /\ Here < MaxInput
      /\ cached' = FindMatch /\ node' = ForceMinLen /\ symbol' \in Symbols
      /\ input' = input /\ det' = det /\ seen' = seen
      /\ node_cursor' = node_cursor /\ next_node' = next_node
  BY DEF Code
<1>2. TypeInv /\ ContextsInv /\ RingInv /\ HomesInv /\ Here' = Here
  BY <1>1 DEF IInv, Here
<1>3. /\ node' \in [Slots -> Node]
      /\ \A s \in Slots : /\ node'[s].input_ptr = node[s].input_ptr
                          /\ node'[s].home = node[s].home
                          /\ Used(s)' <=> Used(s)
  BY <1>1, <1>2, ForceKeeps DEF Used
<1>4. \A i \in Int : Byte(i)' = Byte(i)
  BY <1>1 DEF Byte
<1>5. TypeInv'
  BY <1>1, <1>2, <1>3, FindMatchReal DEF TypeInv
<1>6. ContextsInv'
  BY <1>1, <1>2 DEF ContextsInv
<1>7. RingInv'
  <2>1. \A p \in Nat : SeedBytes <= p => Slot(p) \in Slots
    BY SlotFacts
  <2> QED
    BY <1>1, <1>2, <1>3, <2>1 DEF RingInv
<1>8. HomesInv'
  <2> SUFFICES ASSUME NEW s \in Slots, Used(s)
               PROVE  /\ node[s].home \in DOMAIN seen
                      /\ \A x \in Suffixes : det[x] = node[s].home =>
                           \A i \in 1 .. SuffixLen :
                             x[i] = Byte(node[s].input_ptr - i)'
    BY <1>1, <1>3 DEF HomesInv
  <2>1. node[s].input_ptr \in Nat
    BY <1>2 DEF TypeInv, Node
  <2>2. \A i \in 1 .. SuffixLen : node[s].input_ptr - i \in Int
    BY <2>1
  <2> QED
    BY <1>1, <1>2, <1>3, <1>4, <2>2 DEF HomesInv, Byte
<1>9. FoundInv'
  <2> DEFINE m == FindMatch
  <2>1. /\ cached' = m
        /\ m.node # NULL =>
             /\ m.node \in Slots /\ Used(m.node) /\ m.dc = det[Suffix]
             /\ Shares(Here, node[m.node].input_ptr, m.match_len)
             /\ Shares(Here, node[m.node].input_ptr, SuffixLen)
    BY <1>1, FindMatchReal
  <2> HIDE DEF m
  <2>2. Suffix' = Suffix
    BY <1>1 DEF Suffix, Byte, Here
  <2>3. det'[Suffix'] = det[Suffix]
    BY <1>1, <2>2
  <2> QED
    BY <1>1, <1>2, <1>3, <2>1, <2>3 DEF FoundInv, Used, Shares, Byte
<1>10. NextInv'
  BY <1>1 DEF NextInv
<1> QED
  BY <1>5, <1>6, <1>7, <1>8, <1>9, <1>10 DEF IInv
-----------------------------------------------------------------------------
(* The Deterministic_Context deterministic_Update learns in.               *)
ThisContext == IF det[Suffix] = NULL THEN Len(seen) + 1 ELSE det[Suffix]

(* deterministic_Update, as far as the invariant looks: the node at the    *)
(* cursor is new, the others keep their places, and the contexts keep      *)
(* their counts or one is added.                                           *)
LEMMA UpdateEffect ==
  ASSUME IInv, Update
  PROVE  /\ node' \in [Slots -> Node]
         /\ node'[node_cursor].input_ptr = Here
         /\ node'[node_cursor].home = ThisContext
         /\ \A s \in Slots : s # node_cursor =>
              /\ node'[s].input_ptr = node[s].input_ptr
              /\ node'[s].home = node[s].home
         /\ ThisContext \in DOMAIN seen' /\ ThisContext # NULL
         /\ seen' \in Seq(Statistics) /\ DOMAIN seen \subseteq DOMAIN seen'
         /\ \A d \in DOMAIN seen' : /\ 1 <= seen'[d].matches_seen
                                    /\ seen'[d].matches_seen <= Here + 1
         /\ det' = [det EXCEPT ![Suffix] = ThisContext]
<1>1. /\ TypeInv /\ ContextsInv /\ Suffix \in Suffixes /\ Here \in Nat
      /\ node \in [Slots -> Node] /\ node_cursor \in Slots
      /\ cached \in Found /\ seen \in Seq(Statistics) /\ det \in [Suffixes -> Int]
  BY SuffixKnown DEF IInv, TypeInv, Here
<1> DEFINE counted == [d \in DOMAIN seen |->
                         IF d = cached.dc
                         THEN [matches_seen |-> seen[d].matches_seen
                                                  + (IF Matched THEN 1 ELSE 0),
                               escapes_seen |-> seen[d].escapes_seen
                                                  + (IF Missed THEN 1 ELSE 0)]
                         ELSE seen[d]]
<1>2. /\ seen' = IF det[Suffix] = NULL
                 THEN Append(counted, [matches_seen |-> 1, escapes_seen |-> 1])
                 ELSE counted
      /\ det' = [det EXCEPT ![Suffix] = ThisContext]
      /\ node' = [Learnt EXCEPT ![node_cursor] =
                    [input_ptr |-> Here, min_len |-> NewMinLen,
                     home |-> ThisContext]]
  BY DEF Update, ThisContext
<1>3. /\ counted \in Seq(Statistics) /\ Len(counted) = Len(seen)
      /\ \A d \in DOMAIN seen : /\ 1 <= counted[d].matches_seen
                                /\ counted[d].matches_seen <= Here + 1
  <2>1. \A d \in DOMAIN seen :
          /\ seen[d] \in Statistics
          /\ 1 <= seen[d].matches_seen /\ seen[d].matches_seen <= Here
    BY <1>1 DEF ContextsInv
  <2>2. \A d \in DOMAIN seen :
          /\ counted[d] \in Statistics
          /\ 1 <= counted[d].matches_seen /\ counted[d].matches_seen <= Here + 1
    BY <1>1, <2>1 DEF Statistics
  <2>3. DOMAIN seen = 1 .. Len(seen) /\ Len(seen) \in Nat
    BY <1>1
  <2>4. counted \in [1 .. Len(seen) -> Statistics]
    BY <2>2, <2>3
  <2> HIDE DEF counted
  <2>5. counted \in Seq(Statistics) /\ Len(counted) = Len(seen)
    BY <2>3, <2>4
  <2> QED
    BY <2>2, <2>5
<1> HIDE DEF counted
<1>4. /\ seen' \in Seq(Statistics) /\ DOMAIN seen \subseteq DOMAIN seen'
      /\ ThisContext \in DOMAIN seen' /\ ThisContext # NULL
      /\ \A d \in DOMAIN seen' : /\ 1 <= seen'[d].matches_seen
                                 /\ seen'[d].matches_seen <= Here + 1
  <2>1. [matches_seen |-> 1, escapes_seen |-> 1] \in Statistics
    BY DEF Statistics
  <2>2. CASE det[Suffix] = NULL
    <3> DEFINE new == [matches_seen |-> 1, escapes_seen |-> 1]
    <3>1. seen' = Append(counted, new) /\ ThisContext = Len(counted) + 1
      BY <1>2, <1>3, <2>2 DEF ThisContext
    <3>2. new.matches_seen = 1 /\ new \in Statistics
      BY <2>1
    <3> HIDE DEF new
    <3>3. /\ seen' \in Seq(Statistics) /\ DOMAIN seen' = 1 .. Len(counted) + 1
          /\ DOMAIN seen = 1 .. Len(counted) /\ Len(counted) \in Nat
          /\ seen'[Len(counted) + 1] = new
          /\ \A d \in DOMAIN seen : seen'[d] = counted[d]
      BY <1>1, <1>3, <3>1, <3>2
    <3>4. \A d \in DOMAIN seen' : d \in DOMAIN seen \/ d = Len(counted) + 1
      BY <3>3
    <3>5. NULL < 0
      BY DEF NULL
    <3> QED
      BY <1>1, <1>3, <3>1, <3>2, <3>3, <3>4, <3>5
  <2>3. CASE det[Suffix] # NULL
    <3>1. seen' = counted /\ ThisContext = det[Suffix]
      BY <1>2, <2>3 DEF ThisContext
    <3>2. det[Suffix] \in DOMAIN seen
      BY <1>1, <2>3 DEF ContextsInv
    <3>3. DOMAIN counted = DOMAIN seen
      BY <1>1, <1>3
    <3> QED
      BY <1>3, <2>3, <3>1, <3>2, <3>3
  <2> QED
    BY <2>2, <2>3
<1>5. /\ Learnt \in [Slots -> Node]
      /\ \A s \in Slots : /\ Learnt[s].input_ptr = node[s].input_ptr
                          /\ Learnt[s].home = node[s].home
  <2>1. CASE ~Missed
    BY <1>1, <2>1 DEF Learnt
  <2>2. CASE Missed
    <3> DEFINE len == (cached.match_len + MinLenInc) % MinLenRange
    <3>1. cached.node \in Slots /\ cached.match_len \in Nat
      BY <1>1, <2>2 DEF Missed, Found
    <3>2. len \in Nat
      BY <3>1, LengthsAssumption, RingAssumption
    <3>3. Learnt = [node EXCEPT ![cached.node].min_len = len]
      BY <2>2 DEF Learnt
    <3> HIDE DEF len
    <3> QED
      BY <1>1, <3>1, <3>2, <3>3 DEF Node
  <2> QED
    BY <2>1, <2>2
<1>6. NewMinLen \in Nat
  <2>1. cached.longest + 1 \in Int /\ MinOrder \in Int /\ cached.longest \in Nat
    BY <1>1, LengthsAssumption DEF Found
  <2> DEFINE most == Max({cached.longest + 1, MinOrder})
  <2>2. most \in {cached.longest + 1, MinOrder}
    BY <2>1, MaxOfTwo
  <2>3. most \in Nat
    BY <2>1, <2>2, LengthsAssumption
  <2>4. NewMinLen = most % MinLenRange
    BY DEF NewMinLen
  <2> HIDE DEF most
  <2> QED
    BY <2>3, <2>4, RingAssumption
<1>7. ThisContext \in Int
  BY <1>1 DEF ThisContext
<1> DEFINE new == [input_ptr |-> Here, min_len |-> NewMinLen, home |-> ThisContext]
<1>8. new \in Node /\ new.input_ptr = Here /\ new.home = ThisContext
  BY <1>1, <1>6, <1>7 DEF Node
<1>9. node' = [Learnt EXCEPT ![node_cursor] = new]
  BY <1>2
<1> HIDE DEF new
<1> QED
  BY <1>1, <1>2, <1>4, <1>5, <1>8, <1>9

LEMMA UpdateIInv == IInv /\ Update => IInv'
<1> SUFFICES ASSUME IInv, Update PROVE IInv'
  OBVIOUS
<1>1. /\ TypeInv /\ ContextsInv /\ RingInv /\ HomesInv /\ FoundInv
      /\ Suffix \in Suffixes
      /\ \A i \in 1 .. SuffixLen : Suffix[i] = Byte(Here - i)
  BY SuffixKnown DEF IInv
<1>2. /\ step = "update" /\ step' = "encode" /\ symbol \in Symbols
      /\ input' = Append(input, symbol) /\ symbol' = symbol /\ cached' = cached
      /\ node_cursor' = NextSlot(node_cursor)
      /\ next_node' = IF Matched THEN NextSlot(cached.node) ELSE NULL
      /\ input \in Seq(Symbols) /\ SeedBytes <= Here /\ cached \in Found
      /\ node \in [Slots -> Node] /\ node_cursor \in Slots
      /\ det \in [Suffixes -> Int]
  BY <1>1 DEF Update, TypeInv
<1>3. /\ node' \in [Slots -> Node]
      /\ node'[node_cursor].input_ptr = Here
      /\ node'[node_cursor].home = ThisContext
      /\ \A s \in Slots : s # node_cursor =>
           /\ node'[s].input_ptr = node[s].input_ptr
           /\ node'[s].home = node[s].home
      /\ ThisContext \in DOMAIN seen' /\ ThisContext # NULL
      /\ seen' \in Seq(Statistics) /\ DOMAIN seen \subseteq DOMAIN seen'
      /\ \A d \in DOMAIN seen' : /\ 1 <= seen'[d].matches_seen
                                 /\ seen'[d].matches_seen <= Here + 1
      /\ det' = [det EXCEPT ![Suffix] = ThisContext]
  BY UpdateEffect
<1>4. /\ input' \in Seq(Symbols) /\ Here \in Nat /\ Here' = Here + 1
      /\ \A i \in Int : i < Here => Byte(i)' = Byte(i)
      /\ \A i \in Int : i = Here => Byte(i)' = symbol
  BY <1>2, InputGrows
<1>5. /\ SeedBytes \in Nat /\ NodeArraySize \in Nat \ {0}
      /\ node_cursor = Slot(Here) /\ Slot(Here + 1) \in Slots
      /\ NextSlot(Slot(Here)) = Slot(Here + 1)
  <2>1. Here + 1 \in Nat /\ SeedBytes <= Here + 1
    BY <1>2, <1>4, LengthsAssumption
  <2> QED
    BY <1>1, <1>2, <1>4, <2>1, SlotFacts, LengthsAssumption, RingAssumption
       DEF RingInv
<1>6. TypeInv'
  <2>1. \A s \in Slots : NextSlot(s) \in Slots
    BY <1>5 DEF NextSlot, Slots
  <2>2. DOMAIN seen' \subseteq Int
    BY <1>3
  <2>3. det' \in [Suffixes -> Int]
    BY <1>2, <1>3, <2>2
  <2>4. Matched => cached.node \in Slots
    BY <1>2 DEF Matched, Found
  <2>5. next_node' \in Slots \union {NULL}
    BY <1>2, <2>1, <2>4
  <2>6. SeedBytes <= Here'
    BY <1>2, <1>4, <1>5
  <2> QED
    BY <1>2, <1>3, <1>4, <2>1, <2>3, <2>5, <2>6 DEF TypeInv
<1>7. ContextsInv'
  <2>1. \A x \in Suffixes : det'[x] = IF x = Suffix THEN ThisContext ELSE det[x]
    BY <1>1, <1>2, <1>3
  <2>2. \A x \in Suffixes : det'[x] # NULL => det'[x] \in DOMAIN seen'
    BY <1>1, <1>3, <2>1 DEF ContextsInv
  <2>3. ASSUME NEW x \in Suffixes, x # Suffix, det[x] # NULL
        PROVE  det[x] # ThisContext
    <3>1. CASE det[Suffix] = NULL
      <4>1. ThisContext = Len(seen) + 1 /\ det[x] \in DOMAIN seen
        BY <1>1, <2>3, <3>1 DEF ThisContext, ContextsInv
      <4>2. seen \in Seq(Statistics)
        BY <1>1 DEF TypeInv
      <4> QED
        BY <4>1, <4>2
    <3>2. CASE det[Suffix] # NULL
      BY <1>1, <2>3, <3>2 DEF ThisContext, ContextsInv
    <3> QED
      BY <3>1, <3>2
  <2>4. \A x, y \in Suffixes : det'[x] # NULL /\ det'[x] = det'[y] => x = y
    BY <1>1, <2>1, <2>3 DEF ContextsInv
  <2> QED
    BY <1>3, <1>4, <2>2, <2>4 DEF ContextsInv
<1>8. RingInv'
  <2>1. node_cursor' = Slot(Here')
    BY <1>2, <1>4, <1>5
  <2>2. ASSUME NEW p \in Nat, SeedBytes <= p, p < Here + 1,
               Here + 1 - NodeArraySize <= p
        PROVE  node'[Slot(p)].input_ptr = p /\ node'[Slot(p)].home # NULL
    <3>1. CASE p = Here
      BY <1>3, <1>5, <3>1
    <3>2. CASE p < Here
      <4>1. Here - p < NodeArraySize
        BY <1>4, <1>5, <2>2
      <4>2. Slot(p) # Slot(Here) /\ Slot(p) \in Slots
        BY <1>2, <1>4, <2>2, <3>2, <4>1, SlotsApart, SlotFacts
      <4>3. Here - NodeArraySize <= p
        BY <1>4, <1>5, <2>2
      <4>4. node[Slot(p)].input_ptr = p /\ node[Slot(p)].home # NULL
        BY <1>1, <2>2, <3>2, <4>3 DEF RingInv, Used
      <4> QED
        BY <1>3, <1>5, <4>2, <4>4
    <3> QED
      BY <1>4, <2>2, <3>1, <3>2
  <2>3. ASSUME NEW s \in Slots, node'[s].home # NULL
        PROVE  /\ SeedBytes <= node'[s].input_ptr /\ node'[s].input_ptr < Here + 1
               /\ Here + 1 - NodeArraySize <= node'[s].input_ptr
               /\ s = Slot(node'[s].input_ptr)
    <3>1. CASE s = node_cursor
      BY <1>2, <1>3, <1>4, <1>5, <3>1
    <3>2. CASE s # node_cursor
      <4> DEFINE p == node[s].input_ptr
      <4>1. node'[s].input_ptr = p /\ Used(s) /\ p \in Nat
        BY <1>2, <1>3, <2>3, <3>2 DEF Used, Node
      <4>2. SeedBytes <= p /\ p < Here /\ Here - NodeArraySize <= p /\ s = Slot(p)
        BY <1>1, <4>1 DEF RingInv
      <4> HIDE DEF p
      <4>3. Here # p + NodeArraySize
        <5> SUFFICES ASSUME Here = p + NodeArraySize PROVE FALSE
          OBVIOUS
        <5>1. Slot(p) = Slot(p + NodeArraySize)
          BY <4>1, <4>2, SlotWraps
        <5> QED
          BY <1>5, <3>2, <4>2, <5>1
      <4> QED
        BY <1>4, <1>5, <4>1, <4>2, <4>3
    <3> QED
      BY <3>1, <3>2
  <2>4. \A p \in Nat :
          SeedBytes <= p /\ p < Here' /\ Here' - NodeArraySize <= p =>
            node'[Slot(p)].input_ptr = p /\ node'[Slot(p)].home # NULL
    <3>1. Here' = Here + 1 /\ Here \in Nat
      BY <1>4
    <3>2. SeedBytes \in Nat /\ NodeArraySize \in Nat
      BY <1>5
    <3> TAKE p \in Nat
    <3> HAVE SeedBytes <= p /\ p < Here' /\ Here' - NodeArraySize <= p
    <3>3. p < Here + 1 /\ Here + 1 - NodeArraySize <= p
      BY <3>1, <3>2
    <3> QED
      BY <2>2, <3>3
  <2>5. \A s \in Slots : node'[s].home # NULL =>
          /\ SeedBytes <= node'[s].input_ptr /\ node'[s].input_ptr < Here'
          /\ Here' - NodeArraySize <= node'[s].input_ptr
          /\ s = Slot(node'[s].input_ptr)
    <3>1. Here' = Here + 1 /\ Here \in Nat
      BY <1>4
    <3> TAKE s \in Slots
    <3> HAVE node'[s].home # NULL
    <3>2. /\ SeedBytes <= node'[s].input_ptr /\ node'[s].input_ptr < Here + 1
          /\ Here + 1 - NodeArraySize <= node'[s].input_ptr
          /\ s = Slot(node'[s].input_ptr)
      BY <2>3
    <3>3. node'[s].input_ptr \in Nat /\ SeedBytes \in Nat /\ NodeArraySize \in Nat
      BY <1>3, <1>5 DEF Node
    <3> QED
      BY <3>1, <3>2, <3>3
  <2> QED
    BY <2>1, <2>4, <2>5 DEF RingInv, Used
<1>9. HomesInv'
  <2>1. ASSUME NEW s \in Slots, node'[s].home # NULL
        PROVE  node'[s].home \in DOMAIN seen'
    BY <1>1, <1>3, <2>1 DEF HomesInv, Used
  <2>2. ASSUME NEW s \in Slots, node'[s].home # NULL,
               NEW x \in Suffixes, det'[x] = node'[s].home,
               NEW i \in 1 .. SuffixLen, NEW k \in Int,
               k = node'[s].input_ptr - i
        PROVE  x[i] = Byte(k)'
    <3>1. i \in Nat \ {0}
      BY LengthsAssumption
    <3>2. CASE s = node_cursor
      <4>1. det'[Suffix] = ThisContext
        BY <1>1, <1>2, <1>3
      <4>2. x = Suffix
        <5>1. \A y \in Suffixes : det'[y] = det'[x] => x = y
          BY <1>3, <1>7, <2>2 DEF ContextsInv
        <5> QED
          BY <1>1, <1>3, <2>2, <3>2, <4>1, <5>1
      <4>3. k = Here - i /\ k < Here
        BY <1>3, <1>4, <2>2, <3>1, <3>2
      <4> QED
        BY <1>1, <1>4, <4>2, <4>3
    <3>3. CASE s # node_cursor
      <4>1. /\ Used(s) /\ node[s].home = node'[s].home
            /\ node'[s].input_ptr = node[s].input_ptr
            /\ node[s].input_ptr \in Nat /\ node[s].input_ptr < Here
        BY <1>1, <1>2, <1>3, <2>2, <3>3 DEF Used, RingInv, Node
      <4>2. node[s].home \in DOMAIN seen
        BY <1>1, <4>1 DEF HomesInv
      <4>3. det[x] = node[s].home
        <5>1. CASE x # Suffix
          BY <1>1, <1>2, <1>3, <2>2, <4>1, <5>1
        <5>2. CASE x = Suffix
          <6>1. ThisContext = node[s].home
            BY <1>1, <1>2, <1>3, <2>2, <4>1, <5>2
          <6>2. det[Suffix] # NULL
            <7>1. seen \in Seq(Statistics)
              BY <1>1 DEF TypeInv
            <7> QED
              BY <4>2, <6>1, <7>1 DEF ThisContext
          <6> QED
            BY <5>2, <6>1, <6>2 DEF ThisContext
        <5> QED
          BY <5>1, <5>2
      <4>4. x[i] = Byte(node[s].input_ptr - i)
        BY <1>1, <2>2, <4>1, <4>3 DEF HomesInv
      <4>5. k = node[s].input_ptr - i /\ k < Here
        BY <1>4, <2>2, <3>1, <4>1
      <4> QED
        BY <1>4, <2>2, <4>4, <4>5
    <3> QED
      BY <3>2, <3>3
  <2>3. \A s \in Slots, i \in 1 .. SuffixLen : node'[s].input_ptr - i \in Int
    BY <1>3, LengthsAssumption DEF Node
  <2> QED
    BY <2>1, <2>2, <2>3 DEF HomesInv, Used
<1>10. FoundInv'
  BY <1>2 DEF FoundInv
<1>11. NextInv'
  <2> SUFFICES ASSUME Matched
               PROVE  NextInv'
    BY <1>2 DEF NextInv
  <2> DEFINE s == cached.node
             q == node[s].input_ptr
             len == cached.match_len
             r == NextSlot(s)
  <2>1. s \in Slots /\ s # NULL /\ Byte(q) = symbol /\ len \in Nat
    BY <1>2 DEF Matched, Found
  <2>2. Used(s) /\ Shares(Here, q, len) /\ Shares(Here, q, SuffixLen)
    BY <1>1, <1>2, <2>1 DEF FoundInv
  <2>3. q \in Nat /\ SeedBytes <= q /\ q < Here /\ Here - NodeArraySize <= q /\ s = Slot(q)
    BY <1>1, <1>2, <2>1, <2>2 DEF RingInv, Node
  <2>4. next_node' = r /\ cached'.match_len = len
    BY <1>2
  <2>5. r = Slot(q + 1)
    BY <1>5, <2>3, SlotFacts
  <2> HIDE DEF q, len
  <2>6. node'[r].input_ptr = q + 1 /\ node'[r].home # NULL
    <3>1. /\ q + 1 \in Nat /\ SeedBytes <= q + 1 /\ q + 1 < Here'
          /\ Here' - NodeArraySize <= q + 1
      BY <1>4, <1>5, <2>3
    <3> QED
      BY <1>8, <2>5, <3>1 DEF RingInv, Used
  <2> HIDE DEF r, s
  <2>7. ASSUME NEW l \in Int, l = q PROVE Byte(l)' = symbol
    <3>1. Byte(l) = symbol /\ l < Here
      BY <2>1, <2>3, <2>7 DEF q
    <3> QED
      BY <1>4, <3>1
  <2>8. ASSUME NEW n \in Nat, Shares(Here, q, n)
        PROVE  \A i \in 1 .. n + 1 :
                 Byte(Here - i)' = Byte(node[next_node].input_ptr - i)'
    <3> TAKE i \in 1 .. n + 1
    <3>1. Here \in Nat /\ q \in Nat /\ i \in Int
      BY <1>4, <2>3
    <3>2. PICK k \in Int : k = Here + 1 - i
      BY <3>1
    <3>3. PICK l \in Int : l = q + 1 - i
      BY <3>1
    <3>4. Byte(k)' = Byte(l)'
      <4>1. CASE i = 1
        <5>1. k = Here /\ l = q
          BY <3>1, <3>2, <3>3, <4>1
        <5> QED
          BY <1>4, <2>7, <5>1
      <4>2. CASE i # 1
        <5>1. /\ i - 1 \in 1 .. n /\ k = Here - (i - 1) /\ l = q - (i - 1)
              /\ k < Here /\ l < Here
          BY <2>3, <3>1, <3>2, <3>3, <4>2
        <5>2. Byte(k) = Byte(l)
          BY <2>8, <5>1 DEF Shares
        <5> QED
          BY <1>4, <5>1, <5>2
      <4> QED
        BY <4>1, <4>2
    <3>5. k = Here' - i /\ l = node'[next_node'].input_ptr - i
      BY <1>4, <2>4, <2>6, <3>1, <3>2, <3>3
    <3> QED
      BY <3>4, <3>5 DEF Byte
  <2>9. /\ Shares(Here, node[next_node].input_ptr, cached.match_len + 1)'
        /\ Shares(Here, node[next_node].input_ptr, SuffixLen)'
    <3>1. \A i \in 1 .. len + 1 :
            Byte(Here - i)' = Byte(node[next_node].input_ptr - i)'
      BY <2>1, <2>2, <2>8 DEF len
    <3>2. \A i \in 1 .. SuffixLen + 1 :
            Byte(Here - i)' = Byte(node[next_node].input_ptr - i)'
      BY <2>2, <2>8, LengthsAssumption
    <3>3. \A i \in 1 .. SuffixLen : i \in 1 .. SuffixLen + 1
      BY LengthsAssumption
    <3> QED
      BY <2>4, <3>1, <3>2, <3>3 DEF Shares
  <2> QED
    BY <2>4, <2>6, <2>9 DEF NextInv, Used
<1> QED
  BY <1>6, <1>7, <1>8, <1>9, <1>10, <1>11 DEF IInv

(* Recycling forgets a context and touches no node.                        *)
LEMMA RecycleIInv ==
  ASSUME IInv, NEW x \in Suffixes, Recycle(x)
  PROVE  IInv'
<1>1. /\ det' = [det EXCEPT ![x] = NULL]
      /\ input' = input /\ step' = step /\ symbol' = symbol /\ seen' = seen
      /\ node' = node /\ node_cursor' = node_cursor /\ next_node' = next_node
      /\ cached' = cached
  BY DEF Recycle
<1>2. det \in [Suffixes -> Int] /\ NULL \in Int
  BY DEF IInv, TypeInv, NULL
<1>3. /\ det' \in [Suffixes -> Int]
      /\ \A y \in Suffixes : det'[y] # NULL => det'[y] = det[y]
  BY <1>1, <1>2
<1>4. TypeInv'
  BY <1>1, <1>3 DEF IInv, TypeInv, Here
<1>5. ContextsInv'
  BY <1>1, <1>3 DEF IInv, ContextsInv, Here
<1>6. RingInv'
  BY <1>1 DEF IInv, RingInv, Here, Used
<1>7. HomesInv'
  BY <1>1, <1>3 DEF IInv, HomesInv, Used, Byte
<1>8. FoundInv'
  <2>1. x # Suffix /\ Suffix \in Suffixes
    BY SuffixKnown DEF Recycle, IInv
  <2>2. Suffix' = Suffix
    BY <1>1 DEF Suffix, Byte, Here
  <2>3. det'[Suffix'] = det[Suffix]
    BY <1>1, <1>2, <2>1, <2>2
  <2> QED
    BY <1>1, <2>3 DEF IInv, FoundInv, Used, Shares, Byte, Here
<1>9. NextInv'
  BY <1>1 DEF IInv, NextInv, Used, Shares, Byte, Here
<1> QED
  BY <1>4, <1>5, <1>6, <1>7, <1>8, <1>9 DEF IInv

LEMMA NextIInv == IInv /\ [Next]_vars => IInv'
<1>1. ASSUME IInv, UNCHANGED vars PROVE IInv'
  BY <1>1 DEF vars, IInv, TypeInv, ContextsInv, RingInv, HomesInv, FoundInv,
              NextInv, Used, Shares, Byte, Here, Suffix
<1> QED
  BY <1>1, CodeIInv, UpdateIInv, RecycleIInv DEF Next

LEMMA Invariant == Spec => []IInv
BY InitIInv, NextIInv, PTL DEF Spec
-----------------------------------------------------------------------------
(* A prediction rests on bytes before this one that were followed by the   *)
(* byte predicted, as many as the match counts.                            *)
THEOREM MatchesAreReal == Spec => []MatchIsReal
<1>1. ASSUME IInv PROVE MatchIsReal
  <2> SUFFICES ASSUME Predicting
               PROVE  LET q == node[cached.node].input_ptr
                      IN  /\ SeedBytes <= q /\ q < Here
                          /\ Shares(Here, q, cached.match_len)
    BY DEF MatchIsReal
  <2>1. cached.node \in Slots /\ step = "update" /\ cached.node # NULL
    BY <1>1 DEF Predicting, IInv, TypeInv, Found
  <2>2. Used(cached.node) /\ Shares(Here, node[cached.node].input_ptr, cached.match_len)
    BY <1>1, <2>1 DEF IInv, FoundInv
  <2> QED
    BY <1>1, <2>1, <2>2 DEF IInv, RingInv
<1> QED
  BY <1>1, Invariant, PTL

(* Node and counts of a prediction are of one list, or the node's has no   *)
(* context any more: a living context with the node's list has the suffix  *)
(* before the node, which is the suffix before this byte.                  *)
THEOREM CountsMatchList == Spec => []CountsOfItsList
<1>1. ASSUME IInv PROVE CountsOfItsList
  <2> DEFINE s == cached.node
             q == node[s].input_ptr
  <2> SUFFICES ASSUME Predicting, NEW x \in Suffixes, det[x] = node[s].home
               PROVE  node[s].home = cached.dc
    BY DEF CountsOfItsList
  <2>1. s \in Slots /\ step = "update" /\ s # NULL
    BY <1>1 DEF Predicting, IInv, TypeInv, Found
  <2>2. Used(s) /\ Shares(Here, q, SuffixLen) /\ cached.dc = det[Suffix]
    BY <1>1, <2>1 DEF IInv, FoundInv
  <2>3. \A i \in 1 .. SuffixLen : x[i] = Byte(q - i)
    BY <1>1, <2>1, <2>2 DEF IInv, HomesInv
  <2>4. \A i \in 1 .. SuffixLen : x[i] = Suffix[i]
    BY <1>1, <2>2, <2>3, SuffixKnown DEF IInv, Shares
  <2>5. x = Suffix
    <3>1. Suffix \in Suffixes
      BY <1>1, SuffixKnown DEF IInv
    <3>2. PICK y \in Suffixes : y = Suffix
      BY <3>1
    <3>3. x = y
      <4>1. \A i \in 1 .. SuffixLen : x[i] = y[i]
        BY <2>4, <3>2
      <4>2. /\ x = [i \in 1 .. SuffixLen |-> x[i]]
            /\ y = [i \in 1 .. SuffixLen |-> y[i]]
        BY DEF Suffixes
      <4>3. [i \in 1 .. SuffixLen |-> x[i]] = [i \in 1 .. SuffixLen |-> y[i]]
        BY <4>1
      <4> QED
        BY <4>2, <4>3, Zenon
    <3> QED
      BY <3>2, <3>3
  <2> QED
    BY <2>2, <2>5
<1> QED
  BY <1>1, Invariant, PTL

(* The ring is the end of the input, in order.                             *)
THEOREM RingHoldsInput == Spec => []RingIsInput
<1>1. ASSUME IInv PROVE RingIsInput
  <2> SUFFICES ASSUME NEW p \in SeedBytes .. Here - 1, p >= Here - NodeArraySize
               PROVE  /\ node[Slot(p)].input_ptr = p
                      /\ \A x \in Suffixes : node[Slot(p)].home = det[x] =>
                           \A i \in 1 .. SuffixLen : x[i] = Byte(p - i)
    BY DEF RingIsInput, Slot
  <2>1. p \in Nat /\ SeedBytes <= p /\ p < Here /\ Here - NodeArraySize <= p
    BY <1>1, LengthsAssumption, RingAssumption DEF IInv, TypeInv, Here
  <2>2. node[Slot(p)].input_ptr = p /\ Used(Slot(p)) /\ Slot(p) \in Slots
    BY <1>1, <2>1, SlotFacts DEF IInv, RingInv
  <2> QED
    BY <1>1, <2>2 DEF IInv, HomesInv
<1> QED
  BY <1>1, Invariant, PTL
-----------------------------------------------------------------------------
(* Two bits of a byte, and five.                                           *)
LEMMA CallIsSituation ==
  ASSUME IInv, NEW size \in FollowsetSizes,
         NEW count \in 1 .. MaxInput \union {SureCount}
  PROVE  Situation(Key, Low, count, size) \in Situations
<1>1. /\ input \in Seq(Symbols) /\ Here \in Nat
  BY DEF IInv, TypeInv, Here
<1>2. \A i \in Nat \ {0} : Byte(Here - i) \in Bytes
  <2> TAKE i \in Nat \ {0}
  <2>1. Here - i \in Int /\ Here - i < Here
    BY <1>1
  <2> QED
    BY <1>1, <2>1, BytesKnown
<1>3. Key \in [1 .. 4 -> {TwoBits(byte) : byte \in Bytes}]
  BY <1>2 DEF Key
<1>4. Low \in {byte % 32 : byte \in Bytes}
  BY <1>2 DEF Low
<1>5. Situation(Key, Low, count, size) \in Calls
  BY <1>3, <1>4 DEF Calls
<1> QED
  BY <1>5, CallsAssumption

(* What the escapes of deterministic contexts see of deterministic.c: they *)
(* are called in the situations they were made for, and by nothing else.   *)
THEOREM CallsImplementDetEscape == Spec => ImplementsDetEscape
<1>1. Init => Escape!Init
  BY DEF Init
<1>2. ASSUME IInv, [Next]_vars PROVE [Escape!Next]_(Escape!vars)
  <2>1. ASSUME Code PROVE Escape!Next \/ UNCHANGED bins
    <3>1. step = "encode" /\ cached' = FindMatch /\ Here < MaxInput
      BY <2>1 DEF Code
    <3>2. CASE cached'.node = NULL
      BY <2>1, <3>2 DEF Code
    <3>3. CASE cached'.node # NULL
      <4> DEFINE count == IF cached'.match_len >= ForceLen THEN SureCount
                          ELSE seen[cached'.dc].matches_seen
      <4>1. PICK size \in FollowsetSizes :
              Escape!Learn(Situation(Key, Low, count, size), symbol' # Prediction)
        BY <2>1, <3>3 DEF Code
      <4>2. count \in 1 .. MaxInput \union {SureCount}
        <5>1. cached'.dc = det[Suffix] /\ det[Suffix] # NULL
          BY <1>2, <3>1, <3>3, FindMatchReal
        <5>2. cached'.dc \in DOMAIN seen /\ seen \in Seq(Statistics) /\ Here \in Nat
          BY <1>2, <5>1, SuffixKnown DEF IInv, ContextsInv, TypeInv, Here
        <5>3. /\ 1 <= seen[cached'.dc].matches_seen
              /\ seen[cached'.dc].matches_seen <= Here
              /\ seen[cached'.dc].matches_seen \in Nat
          <6>1. PICK d \in DOMAIN seen : d = cached'.dc
            BY <5>2
          <6>2. seen[d] \in Statistics
            BY <5>2
          <6>3. 1 <= seen[d].matches_seen /\ seen[d].matches_seen <= Here
            BY <1>2 DEF IInv, ContextsInv
          <6> QED
            BY <6>1, <6>2, <6>3 DEF Statistics
        <5> QED
          BY <3>1, <5>2, <5>3, BoundsAssumption
      <4>3. PICK n \in 1 .. MaxInput \union {SureCount} : n = count
        BY <4>2
      <4>4. Situation(Key, Low, n, size) \in Situations
        BY <1>2, CallIsSituation
      <4>5. PICK escape \in BOOLEAN : escape = (symbol' # Prediction)
        OBVIOUS
      <4> HIDE DEF count
      <4>6. Escape!Learn(Situation(Key, Low, n, size), escape)
        BY <4>1, <4>3, <4>5
      <4> QED
        BY <4>4, <4>6 DEF Escape!Next
    <3> QED
      BY <3>2, <3>3
  <2>2. ASSUME Update \/ (\E x \in Suffixes : Recycle(x)) \/ UNCHANGED vars
        PROVE  UNCHANGED bins
    BY <2>2 DEF Update, Recycle, vars
  <2> QED
    BY <1>2, <2>1, <2>2 DEF Next, Escape!vars
<1> QED
  BY <1>1, <1>2, Invariant, PTL DEF Spec, Escape!Spec, ImplementsDetEscape
-----------------------------------------------------------------------------
(* Inputs for which min_len cannot wrap: those below 64 KB, about.         *)
ShortInput ==
  Limit + MaxInput + MinLenInc < MinLenRange /\ MinOrder < MinLenRange

(* Lengths stay in min_len, no node asks for less than MinOrder, and what  *)
(* was found is as long as its node asks.                                  *)
LengthInv ==
  /\ \A s \in Slots : node[s].input_ptr < Here
  /\ \A s \in Slots : Used(s) => MinOrder <= node[s].min_len
  /\ step = "encode" => /\ cached.match_len < Limit + Here
                        /\ cached.longest < Limit + Here
                        /\ next_node # NULL => MinOrder <= Here
  /\ step = "update" => /\ cached.match_len <= Limit + Here
                        /\ cached.longest <= Limit + Here
                        /\ cached.node # NULL =>
                             /\ MinOrder <= Here
                             /\ cached.match_len >= node[cached.node].min_len

LEMMA LimitIsNat == Limit \in Nat
BY LengthsAssumption DEF Limit

LEMMA InitLength == Init => LengthInv
<1> SUFFICES ASSUME Init PROVE LengthInv
  OBVIOUS
<1>1. Here = SeedBytes /\ SeedBytes \in Nat \ {0} /\ Limit \in Nat
  BY LengthsAssumption, LimitIsNat DEF Init, Here
<1> QED
  BY <1>1 DEF Init, LengthInv, Used, NoMatch, Match

(* What find_match answers is as long as its node asks once a forced match *)
(* lowered that.                                                           *)
LEMMA FindMatchLong ==
  ASSUME IInv, LengthInv, step = "encode"
  PROVE  /\ FindMatch.match_len <= Limit + Here /\ FindMatch.longest <= Limit + Here
         /\ FindMatch.node # NULL =>
              /\ MinOrder <= Here
              /\ FindMatch.match_len >= ForceMinLen[FindMatch.node].min_len
         /\ Forced => FindMatch.match_len >= ForceLen
         /\ \A s \in Slots : ForceMinLen[s].min_len < node[s].min_len =>
              /\ Forced /\ s = FindMatch.node
              /\ ForceMinLen[s].min_len = FindMatch.match_len
         /\ \A s \in Slots : Used(s) => MinOrder <= ForceMinLen[s].min_len
<1>1. /\ TypeInv /\ RingInv /\ HomesInv /\ Here \in Nat /\ Limit \in Nat
      /\ cached \in Found /\ cached.match_len \in Nat /\ cached.longest \in Nat
      /\ next_node \in Slots \union {NULL} /\ node \in [Slots -> Node]
      /\ MinOrder \in Nat /\ ForceLen \in Nat /\ MinOrder <= ForceLen
  BY LengthsAssumption, LimitIsNat DEF IInv, TypeInv, Here, Found
<1>2. /\ cached.match_len < Limit + Here /\ cached.longest < Limit + Here
      /\ next_node # NULL => MinOrder <= Here
      /\ \A s \in Slots : Used(s) => MinOrder <= node[s].min_len
  BY DEF LengthInv
<1>3. \A s \in Slots : node[s].min_len \in Nat
  BY <1>1 DEF Node
<1> DEFINE dc == det[Suffix]
           none == [cached EXCEPT !.dc = NULL, !.node = NULL]
           best == BestNode(dc)
<1>4. CASE Forced
  <2> DEFINE len == Followed.match_len
             n == next_node
             least == Min({node[n].min_len, len})
             most == Max({cached.longest, cached.match_len + 1})
  <2>1. n \in Slots /\ n # NULL /\ len >= ForceLen
    BY <1>1, <1>4 DEF Forced, Following
  <2>2. len = cached.match_len + 1 /\ Followed.node = n /\ Followed.longest = most
    BY DEF Followed, Match
  <2>3. most \in {cached.longest, cached.match_len + 1}
    <3>1. cached.longest \in Int /\ cached.match_len + 1 \in Int
      BY <1>1
    <3> QED
      BY <3>1, MaxOfTwo
  <2>4. FindMatch = Followed
    BY <1>4 DEF FindMatch, Forced
  <2>5. ForceMinLen = [node EXCEPT ![n].min_len = least]
    BY <1>4 DEF ForceMinLen
  <2> HIDE DEF len, n, most
  <2>6. least \in {node[n].min_len, len} /\ least <= len
    <3>1. node[n].min_len \in Int /\ len \in Int
      BY <1>1, <1>3, <2>1, <2>2
    <3> QED
      BY <3>1, MinOfTwo
  <2> HIDE DEF least
  <2>7. /\ ForceMinLen[n].min_len = least
        /\ \A s \in Slots : s # n => ForceMinLen[s].min_len = node[s].min_len
    BY <1>1, <2>1, <2>5 DEF Node
  <2>8. MinOrder <= Here
    BY <1>2, <2>1 DEF n
  <2>9. \A s \in Slots : Used(s) => MinOrder <= ForceMinLen[s].min_len
    BY <1>1, <1>2, <1>3, <2>1, <2>2, <2>6, <2>7
  <2>10. most <= Limit + Here /\ len <= Limit + Here
    BY <1>1, <1>2, <2>2, <2>3
  <2>11. \A s \in Slots : ForceMinLen[s].min_len < node[s].min_len =>
           s = n /\ ForceMinLen[s].min_len = len
    BY <1>3, <2>1, <2>6, <2>7
  <2> QED
    BY <1>4, <2>1, <2>2, <2>4, <2>6, <2>7, <2>8, <2>9, <2>10, <2>11 DEF len
<1>5. CASE ~Forced
  <2>1. ForceMinLen = node
    BY <1>5 DEF ForceMinLen
  <2> DEFINE Fine(m) == /\ m.match_len <= Limit + Here /\ m.longest <= Limit + Here
                        /\ m.node # NULL =>
                             /\ MinOrder <= Here
                             /\ m.match_len >= node[m.node].min_len
             Short(m) == m.match_len <= Limit + Here /\ m.longest <= Limit + Here
  <2>2. Short(Followed)
    <3>1. /\ Followed.match_len = cached.match_len + 1
          /\ Followed.longest = Max({cached.longest, cached.match_len + 1})
      BY DEF Followed, Match
    <3> DEFINE most == Max({cached.longest, cached.match_len + 1})
    <3>2. most \in {cached.longest, cached.match_len + 1}
      <4>1. cached.longest \in Int /\ cached.match_len + 1 \in Int
        BY <1>1
      <4> QED
        BY <4>1, MaxOfTwo
    <3> HIDE DEF most
    <3>3. Followed.longest = most
      BY <3>1 DEF most
    <3> QED
      BY <1>1, <1>2, <3>1, <3>2, <3>3
  <2>3. Short(none) /\ none.node = NULL
    <3>1. none.match_len = cached.match_len /\ none.longest = cached.longest
          /\ none.node = NULL
      BY <1>1 DEF Found
    <3> QED
      BY <1>1, <1>2, <3>1
  <2>4. ASSUME NEW kept, Short(kept), kept.node # NULL => MinOrder <= Here
        PROVE  Fine(FindBest(dc, kept))
    <3>1. CASE dc = NULL
      <4>1. FindBest(dc, kept) = [dc |-> NULL, node |-> NULL, match_len |-> 0,
                                  longest |-> 0]
        BY <3>1 DEF FindBest, NoMatch, Match
      <4> QED
        BY <1>1, <4>1
    <3>2. CASE dc # NULL /\ Here < MinOrder
      <4>1. FindBest(dc, kept) = kept /\ kept.node = NULL
        BY <1>1, <2>4, <3>2 DEF FindBest
      <4> QED
        BY <2>4, <4>1
    <3>3. CASE dc # NULL /\ ~ (Here < MinOrder)
      <4>1. FindBest(dc, kept) = best
        BY <3>3 DEF FindBest
      <4>2. /\ best \in Found /\ best.match_len <= Limit /\ best.longest <= Limit
            /\ best.node # NULL => best.match_len >= node[best.node].min_len
        BY <1>1, <3>3, BestNodeReal
      <4> HIDE DEF best
      <4>3. best.match_len \in Nat /\ best.longest \in Nat
        BY <4>2 DEF Found
      <4> QED
        BY <1>1, <3>3, <4>1, <4>2, <4>3
    <3> QED
      BY <3>1, <3>2, <3>3
  <2>5. Fine(FindMatch)
    <3>1. CASE ~Following
      <4>1. FindMatch = FindBest(dc, none)
        BY <3>1 DEF FindMatch
      <4> HIDE DEF none, Fine
      <4> QED
        BY <2>3, <2>4, <4>1
    <3>2. CASE Following /\ Followed.match_len >= node[next_node].min_len
      <4>1. FindMatch = Followed /\ Followed.node = next_node /\ next_node # NULL
        BY <3>2 DEF FindMatch, Following, Followed, Match
      <4> QED
        BY <1>2, <2>2, <3>2, <4>1
    <3>3. CASE Following /\ ~ (Followed.match_len >= node[next_node].min_len)
      <4>1. FindMatch = FindBest(dc, Followed)
        BY <1>5, <3>3 DEF FindMatch
      <4>2. MinOrder <= Here
        BY <1>2, <3>3 DEF Following
      <4> HIDE DEF Fine
      <4> QED
        BY <2>2, <2>4, <4>1, <4>2
    <3> QED
      BY <3>1, <3>2, <3>3
  <2>6. \A s \in Slots : ~ (node[s].min_len < node[s].min_len)
    BY <1>3
  <2> QED
    BY <1>2, <1>5, <2>1, <2>5, <2>6
<1> QED
  BY <1>4, <1>5

LEMMA CodeLength ==
  ASSUME IInv, LengthInv, Code
  PROVE  LengthInv'
<1>1. /\ step = "encode" /\ step' = "update" /\ cached' = FindMatch
      /\ node' = ForceMinLen /\ input' = input /\ Here' = Here
  BY DEF Code, Here
<1>2. /\ \A s \in Slots : /\ ForceMinLen[s].input_ptr = node[s].input_ptr
                          /\ ForceMinLen[s].home = node[s].home
  BY ForceKeeps DEF IInv
<1> DEFINE m == FindMatch
<1>3. /\ m.match_len <= Limit + Here /\ m.longest <= Limit + Here
      /\ m.node # NULL =>
           MinOrder <= Here /\ m.match_len >= ForceMinLen[m.node].min_len
      /\ \A s \in Slots : Used(s) => MinOrder <= ForceMinLen[s].min_len
  BY <1>1, FindMatchLong
<1>4. cached' = m
  BY <1>1
<1> HIDE DEF m
<1> QED
  BY <1>1, <1>2, <1>3, <1>4 DEF LengthInv, Used

(* What deterministic_Update stores as the least length of a match.        *)
LEMMA UpdateMinLen ==
  ASSUME ShortInput, IInv, LengthInv, Update
  PROVE  /\ \A s \in Slots : Used(s) => Learnt[s].min_len >= node[s].min_len
         /\ MinOrder <= NewMinLen
         /\ node' = [Learnt EXCEPT ![node_cursor] =
                       [input_ptr |-> Here, min_len |-> NewMinLen,
                        home |-> ThisContext]]
<1>1. /\ step = "update" /\ Here \in Nat /\ Here < MaxInput /\ Limit \in Nat
      /\ cached \in Found /\ cached.match_len \in Nat /\ cached.longest \in Nat
      /\ node \in [Slots -> Node]
      /\ MinOrder \in Nat /\ MinLenInc \in Nat /\ MaxInput \in Nat
      /\ MinLenRange \in Nat
      /\ Limit + MaxInput + MinLenInc < MinLenRange /\ MinOrder < MinLenRange
  BY LengthsAssumption, LimitIsNat, BoundsAssumption, RingAssumption
     DEF Update, IInv, TypeInv, Here, Found, ShortInput
<1>2. /\ cached.match_len <= Limit + Here /\ cached.longest <= Limit + Here
      /\ cached.node # NULL => cached.match_len >= node[cached.node].min_len
  BY <1>1 DEF LengthInv
<1>3. \A n \in Nat : n < MinLenRange => n % MinLenRange = n
  BY <1>1
<1>4. \A s \in Slots : node[s].min_len \in Nat
  BY <1>1 DEF Node
<1>5. \A s \in Slots : Learnt[s].min_len >= node[s].min_len
  <2>1. CASE ~Missed
    BY <1>4, <2>1 DEF Learnt
  <2>2. CASE Missed
    <3> DEFINE len == cached.match_len + MinLenInc
    <3>1. cached.node \in Slots /\ cached.node # NULL
      BY <1>1, <2>2 DEF Missed, Found
    <3>2. len \in Nat /\ len < MinLenRange /\ len >= cached.match_len
      BY <1>1, <1>2
    <3>3. Learnt = [node EXCEPT ![cached.node].min_len = len % MinLenRange]
      BY <2>2 DEF Learnt
    <3> HIDE DEF len
    <3>4. Learnt = [node EXCEPT ![cached.node].min_len = len]
      BY <1>3, <3>2, <3>3
    <3>5. len >= node[cached.node].min_len
      BY <1>1, <1>2, <1>4, <3>1, <3>2
    <3> QED
      BY <1>1, <1>4, <3>1, <3>4, <3>5 DEF Node
  <2> QED
    BY <2>1, <2>2
<1>6. MinOrder <= NewMinLen
  <2> DEFINE most == Max({cached.longest + 1, MinOrder})
  <2>1. cached.longest + 1 \in Int /\ MinOrder \in Int
    BY <1>1
  <2>2. most \in {cached.longest + 1, MinOrder} /\ most >= MinOrder
    BY <2>1, MaxOfTwo
  <2>3. most \in Nat /\ most < MinLenRange
    BY <1>1, <1>2, <2>2
  <2>4. NewMinLen = most % MinLenRange
    BY DEF NewMinLen
  <2> HIDE DEF most
  <2> QED
    BY <1>3, <2>2, <2>3, <2>4
<1> QED
  BY <1>5, <1>6 DEF Update, ThisContext

LEMMA UpdateLength ==
  ASSUME ShortInput, IInv, LengthInv, Update
  PROVE  LengthInv'
<1>1. /\ step = "update" /\ step' = "encode" /\ Here \in Nat /\ Here' = Here + 1
      /\ Limit \in Nat /\ MinOrder \in Nat /\ cached' = cached
      /\ cached.match_len \in Nat /\ cached.longest \in Nat
      /\ node \in [Slots -> Node] /\ node_cursor \in Slots
      /\ next_node' = IF Matched THEN NextSlot(cached.node) ELSE NULL
  BY LimitIsNat, LengthsAssumption, InputGrows
     DEF Update, IInv, TypeInv, Here, Found
<1>2. /\ \A s \in Slots : node[s].input_ptr < Here
      /\ \A s \in Slots : Used(s) => MinOrder <= node[s].min_len
      /\ cached.match_len <= Limit + Here /\ cached.longest <= Limit + Here
      /\ cached.node # NULL => MinOrder <= Here
  BY <1>1 DEF LengthInv
<1>3. /\ node' \in [Slots -> Node]
      /\ node'[node_cursor].input_ptr = Here
      /\ \A s \in Slots : s # node_cursor =>
           /\ node'[s].input_ptr = node[s].input_ptr
           /\ node'[s].home = node[s].home
  BY UpdateEffect
<1> DEFINE new == [input_ptr |-> Here, min_len |-> NewMinLen, home |-> ThisContext]
<1>4. /\ \A s \in Slots : Used(s) => Learnt[s].min_len >= node[s].min_len
      /\ MinOrder <= new.min_len
      /\ node' = [Learnt EXCEPT ![node_cursor] = new]
  BY UpdateMinLen
<1> HIDE DEF new
<1>5. DOMAIN Learnt = Slots
  BY <1>1 DEF Learnt
<1>6. \A s \in Slots : node'[s] = IF s = node_cursor THEN new ELSE Learnt[s]
  BY <1>4, <1>5
<1>7. \A s \in Slots : node'[s].input_ptr < Here + 1
  <2> TAKE s \in Slots
  <2>1. node'[s].input_ptr \in Nat /\ node[s].input_ptr \in Nat
    BY <1>1, <1>3 DEF Node
  <2> QED
    BY <1>1, <1>2, <1>3, <2>1
<1>8. ASSUME NEW s \in Slots, node'[s].home # NULL PROVE MinOrder <= node'[s].min_len
  <2>1. CASE s = node_cursor
    BY <1>4, <1>6, <2>1
  <2>2. CASE s # node_cursor
    <3>1. Used(s) /\ node'[s] = Learnt[s]
      BY <1>3, <1>6, <1>8, <2>2 DEF Used
    <3>2. node[s].min_len \in Nat /\ node'[s].min_len \in Nat
      BY <1>1, <1>3 DEF Node
    <3> QED
      BY <1>1, <1>2, <1>4, <3>1, <3>2
  <2> QED
    BY <2>1, <2>2
<1>9. next_node' # NULL => MinOrder <= Here + 1
  BY <1>1, <1>2 DEF Matched
<1>10. cached'.match_len < Limit + Here' /\ cached'.longest < Limit + Here'
  BY <1>1, <1>2
<1> QED
  BY <1>1, <1>7, <1>8, <1>9, <1>10 DEF LengthInv, Used

LEMMA NextLength == ShortInput => (IInv /\ LengthInv /\ [Next]_vars => LengthInv')
<1> SUFFICES ASSUME ShortInput, IInv, LengthInv, [Next]_vars PROVE LengthInv'
  OBVIOUS
<1>1. ASSUME NEW x \in Suffixes, Recycle(x) PROVE LengthInv'
  BY <1>1 DEF Recycle, LengthInv, Used, Here
<1>2. ASSUME UNCHANGED vars PROVE LengthInv'
  BY <1>2 DEF vars, LengthInv, Used, Here
<1> QED
  BY <1>1, <1>2, CodeLength, UpdateLength DEF Next

LEMMA LengthInvariant == ShortInput => (Spec => []LengthInv)
<1>1. ASSUME ShortInput PROVE Spec => []LengthInv
  <2>1. IInv /\ LengthInv /\ [Next]_vars => LengthInv'
    BY <1>1, NextLength
  <2> QED
    BY <2>1, InitLength, Invariant, PTL DEF Spec
<1> QED
  BY <1>1

(* The assertions of find_best_node and deterministic_Update hold in every *)
(* input too short for min_len to wrap.                                    *)
THEOREM LongEnough == ShortInput => (Spec => []MatchLongEnough)
<1>1. ASSUME IInv, LengthInv PROVE MatchLongEnough
  <2> SUFFICES ASSUME Predicting
               PROVE  /\ cached.match_len >= node[cached.node].min_len
                      /\ cached.match_len >= MinOrder
    BY DEF MatchLongEnough
  <2>1. step = "update" /\ cached.node # NULL /\ cached.node \in Slots
    BY <1>1 DEF Predicting, IInv, TypeInv, Found
  <2>2. Used(cached.node) /\ cached.match_len >= node[cached.node].min_len
    BY <1>1, <2>1 DEF IInv, FoundInv, LengthInv
  <2>3. MinOrder <= node[cached.node].min_len
    BY <1>1, <2>1, <2>2 DEF LengthInv
  <2>4. /\ MinOrder \in Nat /\ cached.match_len \in Nat
        /\ node[cached.node].min_len \in Nat
    BY <1>1, <2>1, LengthsAssumption DEF IInv, TypeInv, Found, Node
  <2> QED
    BY <2>2, <2>3, <2>4
<1>2. ASSUME ShortInput PROVE Spec => []MatchLongEnough
  BY <1>1, <1>2, Invariant, LengthInvariant, PTL
<1> QED
  BY <1>2

(* In such inputs a node's least length goes down only when a match is     *)
(* forced on it, and to the length of that match.                          *)
THEOREM TrustShrinks == ShortInput => (Spec => TrustOnlyShrinks)
<1> DEFINE Down == \A s \in Slots :
             node'[s].input_ptr = node[s].input_ptr /\ node'[s].min_len < node[s].min_len
               => /\ s = cached'.node /\ node'[s].min_len = cached'.match_len
                  /\ node'[s].min_len >= ForceLen
<1>1. ASSUME ShortInput, IInv, LengthInv, [Next]_vars PROVE [Down]_vars
  <2>1. ASSUME Code PROVE Down
    <3>1. step = "encode" /\ cached' = FindMatch /\ node' = ForceMinLen
      BY <2>1 DEF Code
    <3>2. /\ Forced => FindMatch.match_len >= ForceLen
          /\ \A s \in Slots : ForceMinLen[s].min_len < node[s].min_len =>
               /\ Forced /\ s = FindMatch.node
               /\ ForceMinLen[s].min_len = FindMatch.match_len
      BY <1>1, <3>1, FindMatchLong
    <3> QED
      BY <3>1, <3>2
  <2>2. ASSUME Update PROVE Down
    <3> SUFFICES ASSUME NEW s \in Slots, node'[s].input_ptr = node[s].input_ptr
                 PROVE  ~ (node'[s].min_len < node[s].min_len)
      OBVIOUS
    <3>1. /\ node \in [Slots -> Node] /\ Here \in Nat
          /\ node[s].input_ptr \in Nat /\ node[s].min_len \in Nat
      BY <1>1 DEF IInv, TypeInv, Node, Here
    <3>2. node[s].input_ptr < Here
      BY <1>1 DEF LengthInv
    <3>3. s # node_cursor
      BY <1>1, <2>2, <3>1, <3>2, UpdateEffect
    <3>4. /\ Used(s) => Learnt[s].min_len >= node[s].min_len
          /\ node' = [Learnt EXCEPT ![node_cursor] =
                        [input_ptr |-> Here, min_len |-> NewMinLen,
                         home |-> ThisContext]]
      BY <1>1, <2>2, UpdateMinLen
    <3>5. node'[s] = Learnt[s]
      BY <3>1, <3>3, <3>4 DEF Learnt
    <3>6. Learnt[s].min_len >= node[s].min_len
      <4>1. CASE Used(s)
        BY <3>4, <4>1
      <4>2. CASE ~Used(s)
        <5>1. Missed => cached.node # s
          <6>1. step = "update"
            BY <2>2 DEF Update
          <6> QED
            BY <1>1, <4>2, <6>1 DEF Missed, IInv, FoundInv
        <5>2. Learnt[s].min_len = node[s].min_len
          BY <3>1, <5>1 DEF Learnt
        <5> QED
          BY <3>1, <5>2
      <4> QED
        BY <4>1, <4>2
    <3>7. node'[s].min_len \in Nat
      BY <1>1, <2>2, UpdateEffect DEF Node
    <3> QED
      BY <3>1, <3>5, <3>6, <3>7
  <2>3. ASSUME NEW x \in Suffixes, Recycle(x) PROVE Down
    <3>1. node' = node /\ \A s \in Slots : node[s].min_len \in Nat
      BY <1>1, <2>3 DEF Recycle, IInv, TypeInv, Node
    <3> QED
      BY <3>1
  <2> HIDE DEF Down
  <2> QED
    BY <1>1, <2>1, <2>2, <2>3 DEF Next
<1>2. ASSUME ShortInput PROVE Spec => [][Down]_vars
  <2>1. IInv /\ LengthInv /\ [Next]_vars => [Down]_vars
    BY <1>1, <1>2
  <2>2. Spec => []LengthInv
    BY <1>2, LengthInvariant
  <2> QED
    BY <2>1, <2>2, Invariant, PTL DEF Spec
<1> QED
  BY <1>2 DEF TrustOnlyShrinks
-----------------------------------------------------------------------------
(* What is proved of det_escape.c for all calls holds under this caller:   *)
(* the bins of the two instances are the same definitions.                 *)
Proved == INSTANCE DetEscapeProofs

LEMMA SameInit == Escape!Init => Proved!Init
BY DEF Escape!Init, Proved!Init, Escape!Bins, Proved!Bins, Escape!SeedOf,
  Proved!SeedOf, Escape!BinsOf, Proved!BinsOf, Escape!Bin, Proved!Bin,
  Escape!Counts, Proved!Counts, Escape!Size, Proved!Size, Escape!TotalCode,
  Proved!TotalCode, Escape!HasBins, Proved!HasBins, Escape!Partitions,
  Proved!Partitions, Escape!AtMost, Proved!AtMost

LEMMA SameNext == [Escape!Next]_(Escape!vars) => [Proved!Next]_(Proved!vars)
BY DEF Escape!Next, Proved!Next, Escape!vars, Proved!vars, Escape!Learn,
  Proved!Learn, Escape!Bin, Proved!Bin, Escape!Counts, Proved!Counts,
  Escape!Size, Proved!Size, Escape!TotalCode, Proved!TotalCode,
  Escape!HasBins, Proved!HasBins, Escape!AtMost, Proved!AtMost,
  Escape!Halved, Proved!Halved, Escape!Told, Proved!Told, Escape!AtLeast,
  Proved!AtLeast

LEMMA SameEntropy == \A b : Escape!Entropy(b) = Proved!Entropy(b)
<1>1. \A n : Escape!RBits(n) = Proved!RBits(n)
  BY Zenon DEF Escape!RBits, Proved!RBits, Escape!Cardinality, Proved!Cardinality
<1>2. \A n : Escape!IntLog2(n) = Proved!IntLog2(n)
  BY <1>1 DEF Escape!IntLog2, Proved!IntLog2
<1> QED
  BY <1>2 DEF Escape!Entropy, Proved!Entropy

LEMMA SameBlend ==
  /\ \A u : Escape!HasBins(u) <=> Proved!HasBins(u)
  /\ \A u : Escape!Blend(u) = Proved!Blend(u)
<1>1. \A u : Escape!HasBins(u) <=> Proved!HasBins(u)
  BY DEF Escape!HasBins, Proved!HasBins
<1>2. ASSUME NEW u PROVE Escape!Blend(u) = Proved!Blend(u)
  <2>1. \A b : Escape!Weight(b) = Proved!Weight(b)
    BY SameEntropy DEF Escape!Weight, Proved!Weight
  <2>2. \A p : Escape!Bin(u, p) = Proved!Bin(u, p)
    BY DEF Escape!Bin, Proved!Bin, Escape!Counts, Proved!Counts, Escape!Size,
      Proved!Size, Escape!TotalCode, Proved!TotalCode, Escape!AtMost, Proved!AtMost
  <2>3. \A p : Escape!Weight(bins[Escape!Bin(u, p)])
                 = Proved!Weight(bins[Proved!Bin(u, p)])
    BY <2>1, <2>2
  <2>4. \A e, t : Escape!Odds(e, t) = Proved!Odds(e, t)
    BY DEF Escape!Odds, Proved!Odds
  <2> QED
    BY <2>2, <2>3, <2>4 DEF Escape!Blend, Proved!Blend
<1> QED
  BY <1>1, <1>2

LEMMA SameEstimate == \A u : Escape!Estimate(u) = Proved!Estimate(u)
<1>1. \A e, t : Escape!Odds(e, t) = Proved!Odds(e, t)
  BY DEF Escape!Odds, Proved!Odds
<1>2. \A o, l, b : Escape!Shift(o, l, b) = Proved!Shift(o, l, b)
  BY <1>1 DEF Escape!Shift, Proved!Shift
<1>3. \A o : Escape!Scaled(o) = Proved!Scaled(o)
  BY <1>2 DEF Escape!Scaled, Proved!Scaled
<1>4. \A o : Escape!BothPossible(o) = Proved!BothPossible(o)
  BY <1>1 DEF Escape!BothPossible, Proved!BothPossible, Escape!AtLeast, Proved!AtLeast
<1> QED
  BY <1>1, <1>3, <1>4, SameBlend DEF Escape!Estimate, Proved!Estimate

LEMMA SameSpec == Spec => Proved!Spec
<1>1. Spec => Escape!Spec
  BY CallsImplementDetEscape DEF ImplementsDetEscape
<1>2. Escape!Spec => Proved!Spec
  BY SameInit, SameNext, PTL DEF Escape!Spec, Proved!Spec
<1> QED
  BY <1>1, <1>2

(* The assumptions the instance's theorems are proved under are this       *)
(* module's own.                                                           *)
LEMMA SameSituations == Situations \subseteq Proved!SituationType
BY SituationsAssumption DEF SituationType, Proved!SituationType

(* Whatever was coded before, the odds find_best_node's caller gets for an *)
(* escape are ones the coder can take.                                     *)
THEOREM OddsAlwaysCodable == Spec => []OddsCodable
<1>1. Proved!Spec => []Proved!OddsCodable
  BY Proved!EstimatesCodable, SameSituations, SeedsAssumption,
     ScalesAssumption, OddsAssumption, SMT
<1>2. Proved!OddsCodable => OddsCodable
  BY SameEstimate, SameBlend, Zenon
  DEF OddsCodable, Escape!OddsCodable, Proved!OddsCodable
<1> QED
  BY <1>1, <1>2, SameSpec, PTL

(* No bin's entropy turns negative and no weighted sum leaves an int,      *)
(* whatever was coded before.                                              *)
THEOREM BlendAlwaysFits == Spec => []BlendFits
<1>1. Proved!Spec => []Proved!BlendFits
  BY Proved!SumsFit, SameSituations, SeedsAssumption, ScalesAssumption,
     OddsAssumption, SMT
<1>2. Proved!BlendFits => BlendFits
  BY SameEntropy, SameBlend, Zenon
  DEF BlendFits, Escape!BlendFits, Proved!BlendFits
<1> QED
  BY <1>1, <1>2, SameSpec, PTL
=============================================================================
