------------------------- MODULE ContextTrieProofs -------------------------
(***************************************************************************)
(* Proofs about ContextTrie, for tries, orders and tables of any size, and *)
(* one pass over the input: a second one finds stale contexts.             *)
(***************************************************************************)
EXTENDS ContextTrie, FiniteSetTheorems, SequenceTheorems, TLAPS

OnePass == MaxSessions = 1

(* Lists that hold nothing twice.                                          *)
Distinct(s) == \A i, j \in 1 .. Len(s) : s[i] = s[j] => i = j
-----------------------------------------------------------------------------
LEMMA MinMember ==
  ASSUME NEW S \in SUBSET Nat, S # {}
  PROVE  Min(S) \in S /\ \A y \in S : Min(S) <= y
<1>1. \E x \in S : \A y \in S : x <= y
  <2>1. IsWellFoundedOn(OpToRel(<, Nat), Nat)
    BY NatLessThanWellFounded
  <2>2. PICK x \in S : \A y \in S : ~ (<<y, x>> \in OpToRel(<, Nat))
    BY <2>1, WFMin
  <2>3. \A y \in S : ~ (y < x)
    BY <2>2 DEF OpToRel
  <2> QED
    BY <2>3
<1> QED
  BY <1>1, Zenon DEF Min

LEMMA MaxMember ==
  ASSUME NEW S \in SUBSET Nat, S # {}, NEW bound \in Nat, \A y \in S : y <= bound
  PROVE  Max(S) \in S /\ \A y \in S : Max(S) >= y
<1> DEFINE T == {bound - y : y \in S}
<1>1. T \in SUBSET Nat /\ T # {}
  <2>1. \A y \in S : bound - y \in Nat
    OBVIOUS
  <2> QED
    BY <2>1
<1>2. Min(T) \in T /\ \A y \in T : Min(T) <= y
  BY <1>1, MinMember
<1>3. PICK x \in S : Min(T) = bound - x
  BY <1>2
<1>4. \A y \in S : bound - x <= bound - y
  BY <1>2, <1>3
<1>5. \A y \in S : x >= y
  BY <1>4
<1>6. \E z \in S : \A y \in S : z >= y
  BY <1>5
<1> QED
  BY <1>6, Zenon DEF Max

LEMMA ToSetMembers ==
  ASSUME NEW s \in Seq(Nat)
  PROVE  ToSet(s) = {s[i] : i \in 1 .. Len(s)} /\ ToSet(s) \subseteq Nat
BY DEF ToSet

(* A list with another element in front.                                   *)
LEMMA Prepended ==
  ASSUME NEW s \in Seq(Nat), Distinct(s), NEW c \in Nat, c \notin ToSet(s)
  PROVE  /\ <<c>> \o s \in Seq(Nat)
         /\ Len(<<c>> \o s) = Len(s) + 1
         /\ (<<c>> \o s)[1] = c
         /\ \A i \in 1 .. Len(s) : (<<c>> \o s)[i + 1] = s[i]
         /\ Distinct(<<c>> \o s)
         /\ ToSet(<<c>> \o s) = ToSet(s) \union {c}
<1> DEFINE t == <<c>> \o s
<1>1. t \in Seq(Nat) /\ Len(t) = Len(s) + 1 /\ t[1] = c
      /\ \A i \in 1 .. Len(s) : t[i + 1] = s[i]
  OBVIOUS
<1>2. \A i \in 2 .. Len(t) : i - 1 \in 1 .. Len(s) /\ t[i] = s[i - 1]
  BY <1>1
<1> HIDE DEF t
<1>3. \A i \in 1 .. Len(t) : i = 1 \/ i \in 2 .. Len(t)
  BY <1>1
<1>4. \A i \in 1 .. Len(s) : s[i] # c
  BY ToSetMembers
<1>5. Distinct(t)
  <2> SUFFICES ASSUME NEW i \in 1 .. Len(t), NEW j \in 1 .. Len(t), t[i] = t[j]
               PROVE  i = j
    BY DEF Distinct
  <2>1. CASE i = 1 \/ j = 1
    BY <2>1, <1>1, <1>2, <1>3, <1>4
  <2>2. CASE i \in 2 .. Len(t) /\ j \in 2 .. Len(t)
    <3>1. s[i - 1] = s[j - 1] /\ i - 1 \in 1 .. Len(s) /\ j - 1 \in 1 .. Len(s)
      BY <2>2, <1>2
    <3>2. i - 1 = j - 1
      BY <3>1 DEF Distinct
    <3> QED
      BY <3>2
  <2> QED
    BY <2>1, <2>2, <1>3
<1>6. ToSet(t) = ToSet(s) \union {c}
  <2>1. \A i \in 1 .. Len(t) : t[i] \in ToSet(s) \union {c}
    <3>1. \A i \in 1 .. Len(s) : s[i] \in ToSet(s)
      BY ToSetMembers
    <3> QED
      BY <1>1, <1>2, <1>3, <3>1
  <2>2. ToSet(s) \subseteq ToSet(t)
    <3> SUFFICES ASSUME NEW i \in 1 .. Len(s) PROVE s[i] \in ToSet(t)
      BY ToSetMembers
    <3>1. t[i + 1] = s[i] /\ i + 1 \in 1 .. Len(t)
      BY <1>1
    <3> QED
      BY <3>1, <1>1, ToSetMembers
  <2>3. c \in ToSet(t)
    BY <1>1, ToSetMembers
  <2>4. ToSet(t) = {t[i] : i \in 1 .. Len(t)}
    BY <1>1, ToSetMembers
  <2> QED
    BY <2>1, <2>2, <2>3, <2>4
<1> QED
  BY <1>1, <1>5, <1>6 DEF t

(* A list without one of its elements.                                     *)
LEMMA RemovedAt ==
  ASSUME NEW s \in Seq(Nat), Distinct(s), NEW n \in 1 .. Len(s)
  PROVE  /\ RemoveAt(s, n) \in Seq(Nat)
         /\ Len(RemoveAt(s, n)) = Len(s) - 1
         /\ Distinct(RemoveAt(s, n))
         /\ ToSet(RemoveAt(s, n)) = ToSet(s) \ {s[n]}
<1> DEFINE t == RemoveAt(s, n)
           a == SubSeq(s, 1, n - 1)
           b == SubSeq(s, n + 1, Len(s))
           Place(i) == IF i < n THEN i ELSE i + 1
<1>a. /\ a \in Seq(Nat) /\ Len(a) = n - 1
      /\ \A j \in 1 .. n - 1 : a[j] = s[j]
  OBVIOUS
<1>b. /\ b \in Seq(Nat) /\ Len(b) = Len(s) - n
      /\ \A j \in 1 .. Len(s) - n : b[j] = s[n + j]
  OBVIOUS
<1>c. t = a \o b
  BY DEF RemoveAt
<1> HIDE DEF a, b
<1>1. /\ t \in Seq(Nat) /\ Len(t) = Len(s) - 1
      /\ \A i \in 1 .. Len(t) : t[i] = IF i <= Len(a) THEN a[i] ELSE b[i - Len(a)]
  BY <1>a, <1>b, <1>c
<1> HIDE DEF t
<1>2. \A i \in 1 .. Len(t) : t[i] = s[Place(i)] /\ Place(i) \in 1 .. Len(s) \ {n}
  <2> SUFFICES ASSUME NEW i \in 1 .. Len(t)
               PROVE  t[i] = s[Place(i)] /\ Place(i) \in 1 .. Len(s) \ {n}
    OBVIOUS
  <2>3. t[i] = IF i <= Len(a) THEN a[i] ELSE b[i - Len(a)]
    BY <1>1
  <2>4. CASE i < n
    BY <1>1, <1>a, <2>3, <2>4
  <2>5. CASE i >= n
    <3>0. i \in Nat /\ i <= Len(s) - 1 /\ Len(s) \in Nat /\ ~ (i <= Len(a))
      BY <1>1, <1>a, <2>5
    <3>1. t[i] = b[i - (n - 1)] /\ i - (n - 1) \in 1 .. Len(s) - n
      BY <3>0, <1>a, <2>3, <2>5
    <3>2. b[i - (n - 1)] = s[n + (i - (n - 1))] /\ n + (i - (n - 1)) = i + 1
      BY <1>b, <3>1
    <3> QED
      BY <1>1, <2>5, <3>1, <3>2
  <2> QED
    BY <2>4, <2>5
<1>3. Distinct(t)
  <2> SUFFICES ASSUME NEW i \in 1 .. Len(t), NEW j \in 1 .. Len(t), t[i] = t[j]
               PROVE  i = j
    BY DEF Distinct
  <2>1. /\ t[i] = s[Place(i)] /\ Place(i) \in 1 .. Len(s)
        /\ t[j] = s[Place(j)] /\ Place(j) \in 1 .. Len(s)
    BY <1>2
  <2>2. Place(i) = Place(j)
    <3>1. s[Place(i)] = s[Place(j)]
      BY <2>1
    <3> HIDE DEF Place, t
    <3>2. \A k, l \in 1 .. Len(s) : s[k] = s[l] => k = l
      BY DEF Distinct
    <3> QED
      BY <2>1, <3>1, <3>2, Zenon
  <2>3. i \in Nat /\ j \in Nat /\ n \in Nat
    <3> HIDE DEF Place, t
    <3> QED
      BY <1>1
  <2>4. (IF i < n THEN i ELSE i + 1) = (IF j < n THEN j ELSE j + 1)
    BY <2>2
  <2> HIDE DEF Place, t
  <2> QED
    BY <2>3, <2>4
<1>4. ToSet(t) \subseteq ToSet(s) \ {s[n]}
  <2> SUFFICES ASSUME NEW i \in 1 .. Len(t)
               PROVE  t[i] \in ToSet(s) /\ t[i] # s[n]
    BY <1>1, ToSetMembers
  <2>1. t[i] = s[Place(i)] /\ Place(i) \in 1 .. Len(s) /\ Place(i) # n
    BY <1>2
  <2> HIDE DEF Place
  <2> QED
    BY <2>1, ToSetMembers DEF Distinct
<1>5. ToSet(s) \ {s[n]} \subseteq ToSet(t)
  <2> SUFFICES ASSUME NEW i \in 1 .. Len(s), i # n PROVE s[i] \in ToSet(t)
    BY ToSetMembers
  <2>1. PICK j \in 1 .. Len(t) : Place(j) = i
    <3>1. CASE i < n
      <4>1. i \in 1 .. Len(t) /\ Place(i) = i
        BY <3>1, <1>1
      <4> QED
        BY <4>1
    <3>2. CASE i > n
      <4>1. i - 1 \in 1 .. Len(t) /\ Place(i - 1) = i
        BY <3>2, <1>1
      <4> QED
        BY <4>1
    <3> QED
      BY <3>1, <3>2
  <2>2. s[i] = t[j]
    BY <1>2, <2>1
  <2> QED
    BY <1>1, <2>2, ToSetMembers
<1> QED
  BY <1>1, <1>3, <1>4, <1>5 DEF t

LEMMA CutMember ==
  ASSUME NEW s \in Seq(Nat), Distinct(s), NEW c \in ToSet(s)
  PROVE  /\ Cut(s, c) \in Seq(Nat)
         /\ Len(Cut(s, c)) = Len(s) - 1
         /\ Distinct(Cut(s, c))
         /\ ToSet(Cut(s, c)) = ToSet(s) \ {c}
<1> DEFINE I == {i \in 1 .. Len(s) : s[i] = c}
<1>1. I \in SUBSET Nat /\ I # {}
  BY ToSetMembers
<1>2. Min(I) \in I
  BY <1>1, MinMember
<1>3. PICK n \in 1 .. Len(s) : n = Min(I) /\ s[n] = c
  BY <1>2
<1>4. SelectInSeq(s, LAMBDA v : v = c) = n
  BY <1>1, <1>3 DEF SelectInSeq
<1>5. Cut(s, c) = RemoveAt(s, n)
  BY <1>3, <1>4 DEF Cut, RemoveFirst
<1> QED
  BY <1>3, <1>5, RemovedAt

(* A list is as long as it has elements.                                   *)
LEMMA LengthCounts ==
  ASSUME NEW s \in Seq(Nat), Distinct(s)
  PROVE  IsFiniteSet(ToSet(s)) /\ Cardinality(ToSet(s)) = Len(s)
<1>1. s \in Surjection(1 .. Len(s), ToSet(s))
  BY ToSetMembers DEF Surjection
<1>2. s \in Injection(1 .. Len(s), ToSet(s))
  <2>1. s \in [1 .. Len(s) -> ToSet(s)]
    BY ToSetMembers
  <2> QED
    BY <2>1 DEF Injection, IsInjective, Distinct
<1>3. IsFiniteSet(1 .. Len(s)) /\ Cardinality(1 .. Len(s)) = Len(s)
  <2>1. PICK n \in Nat : n = Len(s)
    OBVIOUS
  <2>2. IsFiniteSet(1 .. n) /\ Cardinality(1 .. n) = IF 1 > n THEN 0 ELSE n - 1 + 1
    BY FS_Interval
  <2> QED
    BY <2>1, <2>2
<1> QED
  BY <1>1, <1>2, <1>3, FS_Surjection
-----------------------------------------------------------------------------
(* The parts of the invariant, of contexts, tables and lists in general.   *)
SuffixLength(k) == IF k < 2 THEN k ELSE SuffixLen[k]
ContextType ==
  [order : 0 .. TopOrder, suffix : Seq(Symbols), parent : Nat, kids : Nat]

Typed(cs) ==
  /\ cs \in [DOMAIN cs -> ContextType]
  /\ IsFiniteSet(DOMAIN cs) /\ DOMAIN cs \subseteq Nat \ {NULL}
  /\ \A c \in DOMAIN cs : Len(cs[c].suffix) = SuffixLength(cs[c].order)

KidsOf(cs, c) == {d \in DOMAIN cs : cs[d].parent = c}

(* Parents live, are one order lower, match a part of what their kids      *)
(* match, and count them.                                                  *)
Linked(cs) ==
  \A c \in DOMAIN cs :
    /\ cs[c].kids = Cardinality(KidsOf(cs, c))
    /\ cs[c].order = 0 => cs[c].parent = NULL
    /\ cs[c].order > 0 =>
         /\ cs[c].parent \in DOMAIN cs
         /\ cs[cs[c].parent].order = cs[c].order - 1
         /\ cs[cs[c].parent].suffix =
              SubSeq(cs[c].suffix, 1, SuffixLength(cs[c].order - 1))

Unique(cs) ==
  \A c, d \in DOMAIN cs :
    cs[c].order = cs[d].order /\ cs[c].suffix = cs[d].suffix => c = d

(* The contexts of orders 0 and 1 that trie_Create made.                   *)
Rooted(cs) ==
  /\ order0 \in DOMAIN cs /\ cs[order0].order = 0
  /\ \A i \in Symbols :
       /\ order1[i] \in DOMAIN cs
       /\ cs[order1[i]].order = 1 /\ cs[order1[i]].suffix = <<i>>

InSlot(cs, k, i) == {c \in DOMAIN cs : cs[c].order = k /\ Hash(k, cs[c].suffix) = i}
Tabled(cs, tab) ==
  /\ tab \in [Orders -> [Slots -> Seq(Nat)]]
  /\ \A k \in Orders, i \in Slots :
       Distinct(tab[k][i]) /\ ToSet(tab[k][i]) = InSlot(cs, k, i)

Recyclable(cs) == {c \in DOMAIN cs : cs[c].order >= 2}
ListOf(cs, list) ==
  list \in Seq(Nat) /\ Distinct(list) /\ ToSet(list) = Recyclable(cs)

Pooled(live, stack, unused) ==
  /\ stack \in Seq(Nat) /\ Distinct(stack) /\ unused \in Nat \ {0}
  /\ ToSet(stack) \intersect live = {}
  /\ ToSet(stack) \union live = 1 .. unused - 1

Good(cs, tab, list) ==
  /\ Typed(cs) /\ Linked(cs) /\ Unique(cs) /\ Rooted(cs)
  /\ Tabled(cs, tab) /\ ListOf(cs, list)

(* The active contexts up to an order, and that there is none of an order. *)
ChainTo(cs, chain, n) ==
  \A k \in 0 .. n :
    /\ chain[k] \in DOMAIN cs
    /\ cs[chain[k]].order = k
    /\ cs[chain[k]].suffix = Suffix(k)
    /\ cs[chain[k]].parent = IF k = 0 THEN NULL ELSE chain[k - 1]
NoneOf(cs, k) ==
  \A c \in DOMAIN cs : ~ (cs[c].order = k /\ cs[c].suffix = Suffix(k))

TypeInv ==
  /\ history \in SuffixesOf(TopOrder)
  /\ step \in {"locate", "create", "mark", "coded"}
  /\ session = 1 /\ next \in 2 .. TopOrder + 1
  /\ active \in [0 .. TopOrder -> Nat]
  /\ lru \in [1 .. 1 -> Seq(Nat)]
  /\ lru_context_count = Len(lru[1]) /\ lru_context_count < MaxLru
  /\ order0 \in Nat /\ order1 \in [Symbols -> Nat]

StepInv ==
  /\ step = "create" =>
       /\ next \in 2 .. TopOrder
       /\ ChainTo(ctx, active, next - 1)
       /\ NoneOf(ctx, next)
  /\ step = "mark" => next \in 2 .. TopOrder
  /\ step \in {"mark", "coded"} => ChainTo(ctx, active, TopOrder)

IInv ==
  /\ TypeInv
  /\ Good(ctx, hashtab, lru[1])
  /\ Pooled(DOMAIN ctx, freed, fresh)
  /\ StepInv
-----------------------------------------------------------------------------
(* Suffixes: what a context of an order is known by.                       *)
LEMMA OrdersFacts ==
  /\ TopOrder \in Nat /\ 2 <= TopOrder /\ MidOrder \in 2 .. TopOrder
  /\ SymbolCount \in Nat /\ Symbols \subseteq Nat
  /\ \A k \in 0 .. TopOrder : SuffixLength(k) \in Nat
  /\ \A k \in 0 .. TopOrder : k >= 1 => SuffixLength(k - 1) <= SuffixLength(k)
  /\ \A k \in 0 .. TopOrder : SuffixLength(k) <= SuffixLen[TopOrder]
  /\ SuffixLen[TopOrder] \in Nat
<1>1. /\ TopOrder \in Nat /\ MidOrder \in 2 .. TopOrder
      /\ SuffixLen \in [2 .. TopOrder -> Nat]
      /\ \A k \in 2 .. TopOrder : SuffixLen[k] >= k
      /\ \A k, l \in 2 .. TopOrder : k < l => SuffixLen[k] < SuffixLen[l]
  BY OrdersAssumption DEF Orders
<1>2. SymbolCount \in Nat /\ Symbols \subseteq Nat
  BY SeedAssumption DEF Symbols
<1>3. \A k \in 0 .. TopOrder : SuffixLength(k) \in Nat
  BY <1>1 DEF SuffixLength
<1>4. ASSUME NEW k \in 0 .. TopOrder, k >= 1
      PROVE  SuffixLength(k - 1) <= SuffixLength(k)
  <2>1. CASE k = 1
    BY <2>1 DEF SuffixLength
  <2>2. CASE k = 2
    <3>1. SuffixLen[2] >= 2 /\ SuffixLen[2] \in Nat
      BY <1>1
    <3> QED
      BY <3>1, <2>2 DEF SuffixLength
  <2>3. CASE k > 2
    <3>1. k - 1 \in 2 .. TopOrder /\ k \in 2 .. TopOrder /\ k - 1 < k
      BY <1>1, <2>3
    <3>2. SuffixLen[k - 1] < SuffixLen[k] /\ SuffixLen[k - 1] \in Nat
          /\ SuffixLen[k] \in Nat
      BY <1>1, <3>1
    <3> QED
      BY <3>1, <3>2 DEF SuffixLength
  <2> QED
    BY <1>4, <2>1, <2>2, <2>3
<1>5. ASSUME NEW k \in 0 .. TopOrder
      PROVE  SuffixLength(k) <= SuffixLen[TopOrder]
  <2>1. SuffixLen[TopOrder] \in Nat /\ SuffixLen[TopOrder] >= TopOrder
    BY <1>1
  <2>2. CASE k < 2
    BY <1>1, <2>1, <2>2 DEF SuffixLength
  <2>3. CASE k >= 2
    <3>1. k \in 2 .. TopOrder /\ TopOrder \in 2 .. TopOrder
      BY <1>1, <2>3
    <3>2. k = TopOrder \/ SuffixLen[k] < SuffixLen[TopOrder]
      BY <1>1, <3>1
    <3>3. SuffixLen[k] \in Nat
      BY <1>1, <3>1
    <3> QED
      BY <2>1, <2>3, <3>2, <3>3 DEF SuffixLength
  <2> QED
    BY <2>2, <2>3
<1>6. SuffixLen[TopOrder] \in Nat /\ 2 <= TopOrder
  BY <1>1
<1> QED
  BY <1>1, <1>2, <1>3, <1>4, <1>5, <1>6

LEMMA SuffixFacts ==
  ASSUME history \in SuffixesOf(TopOrder)
  PROVE  /\ \A k \in 0 .. TopOrder :
              Suffix(k) \in Seq(Symbols) /\ Len(Suffix(k)) = SuffixLength(k)
         /\ \A k \in 0 .. TopOrder : k >= 1 =>
              SubSeq(Suffix(k), 1, SuffixLength(k - 1)) = Suffix(k - 1)
         /\ Suffix(0) = <<>> /\ history[1] \in Symbols /\ Suffix(1) = <<history[1]>>
<1>1. PICK n \in Nat : n = SuffixLen[TopOrder]
  BY OrdersFacts
<1>2. history \in [1 .. n -> Symbols]
  BY <1>1 DEF SuffixesOf
<1>3. history \in Seq(Symbols) /\ Len(history) = n
  BY <1>2
<1>4. \A k \in 0 .. TopOrder : Suffix(k) = SubSeq(history, 1, SuffixLength(k))
  BY DEF Suffix, SuffixLength
<1>5. ASSUME NEW k \in 0 .. TopOrder
      PROVE  /\ Suffix(k) \in Seq(Symbols) /\ Len(Suffix(k)) = SuffixLength(k)
             /\ \A i \in 1 .. SuffixLength(k) : Suffix(k)[i] = history[i]
  <2>1. PICK m \in Nat : m = SuffixLength(k) /\ m <= n
    BY <1>1, OrdersFacts
  <2>2. Suffix(k) = SubSeq(history, 1, m)
    BY <1>4, <2>1
  <2>3. \A i \in 1 .. m : history[i] \in Symbols
    BY <1>2, <2>1
  <2>4. /\ SubSeq(history, 1, m) \in Seq(Symbols)
        /\ Len(SubSeq(history, 1, m)) = IF 1 <= m THEN m - 1 + 1 ELSE 0
        /\ \A i \in 1 .. m - 1 + 1 : SubSeq(history, 1, m)[i] = history[1 + i - 1]
    BY <2>3, SubSeqProperties
  <2>5. m - 1 + 1 = m /\ \A i \in 1 .. m : 1 + i - 1 = i
    BY <2>1
  <2> QED
    BY <2>1, <2>2, <2>4, <2>5
<1>6. ASSUME NEW k \in 0 .. TopOrder, k >= 1
      PROVE  SubSeq(Suffix(k), 1, SuffixLength(k - 1)) = Suffix(k - 1)
  <2>1. k - 1 \in 0 .. TopOrder
    BY <1>6, OrdersFacts
  <2>2. PICK a \in Nat, b \in Nat :
          a = SuffixLength(k - 1) /\ b = SuffixLength(k) /\ a <= b
    BY <1>6, <2>1, OrdersFacts
  <2> DEFINE x == Suffix(k)
             y == Suffix(k - 1)
  <2>3. /\ x \in Seq(Symbols) /\ Len(x) = b /\ \A i \in 1 .. b : x[i] = history[i]
        /\ y \in Seq(Symbols) /\ Len(y) = a /\ \A i \in 1 .. a : y[i] = history[i]
    BY <1>5, <2>1, <2>2
  <2> HIDE DEF x, y
  <2>4. SubSeq(x, 1, a) \in Seq(Symbols) /\ Len(SubSeq(x, 1, a)) = a
        /\ \A i \in 1 .. a : SubSeq(x, 1, a)[i] = x[i]
    BY <2>2, <2>3
  <2>5. \A i \in 1 .. a : SubSeq(x, 1, a)[i] = y[i]
    BY <2>2, <2>3, <2>4
  <2>6. SubSeq(x, 1, a) = y
    BY <2>3, <2>4, <2>5, SeqEqual
  <2> QED
    BY <2>2, <2>6 DEF x, y
<1>7. Suffix(0) = <<>>
  <2>1. Suffix(0) \in Seq(Symbols) /\ Len(Suffix(0)) = 0
    BY <1>5, OrdersFacts DEF SuffixLength
  <2> QED
    BY <2>1
<1>8. history[1] \in Symbols /\ Suffix(1) = <<history[1]>>
  <2>0. 1 \in 0 .. TopOrder /\ SuffixLength(1) = 1
    BY OrdersFacts DEF SuffixLength
  <2>a. PICK k \in 0 .. TopOrder : k = 1 /\ SuffixLength(k) = 1
    BY <2>0
  <2>b. /\ Suffix(k) \in Seq(Symbols) /\ Len(Suffix(k)) = SuffixLength(k)
        /\ \A i \in 1 .. SuffixLength(k) : Suffix(k)[i] = history[i]
    BY <1>5
  <2>1. Suffix(1) \in Seq(Symbols) /\ Len(Suffix(1)) = 1 /\ Suffix(1)[1] = history[1]
    <3>1. 1 \in 1 .. SuffixLength(k)
      BY <2>a
    <3>2. Suffix(k)[1] = history[1]
      BY <2>b, <3>1
    <3> QED
      BY <2>a, <2>b, <3>2
  <2>2. history[1] \in Symbols
    BY <2>1
  <2>3. <<history[1]>> \in Seq(Symbols) /\ Len(<<history[1]>>) = 1
    BY <2>2
  <2> QED
    BY <2>1, <2>2, <2>3, SeqEqual
<1> QED
  BY <1>5, <1>6, <1>7, <1>8

LEMMA SuffixOfType ==
  ASSUME NEW k \in Orders, NEW x \in Seq(Symbols), Len(x) = SuffixLength(k)
  PROVE  x \in SuffixesOf(k)
<1>1. SuffixLength(k) = SuffixLen[k]
  BY OrdersAssumption DEF SuffixLength, Orders
<1> QED
  BY <1>1 DEF SuffixesOf
-----------------------------------------------------------------------------
(* The tables find the one context of a suffix, if there is one.           *)
LEMMA SlotOf ==
  ASSUME NEW cs, Typed(cs), NEW c \in DOMAIN cs, cs[c].order \in Orders
  PROVE  /\ cs[c].suffix \in SuffixesOf(cs[c].order)
         /\ Hash(cs[c].order, cs[c].suffix) \in Slots
<1>1. cs[c] \in ContextType /\ Len(cs[c].suffix) = SuffixLength(cs[c].order)
  BY DEF Typed
<1>2. cs[c].suffix \in SuffixesOf(cs[c].order)
  BY <1>1, SuffixOfType DEF ContextType
<1> QED
  BY <1>2, HashAssumption

LEMMA FindExact ==
  ASSUME Typed(ctx), Tabled(ctx, hashtab),
         NEW k \in Orders, NEW x \in SuffixesOf(k)
  PROVE  \/ /\ Find(k, x) = NULL
            /\ \A c \in DOMAIN ctx : ~ (ctx[c].order = k /\ ctx[c].suffix = x)
         \/ /\ Find(k, x) \in DOMAIN ctx
            /\ ctx[Find(k, x)].order = k /\ ctx[Find(k, x)].suffix = x
<1> DEFINE chain == hashtab[k][Hash(k, x)]
           I == {i \in 1 .. Len(chain) : k = 2 \/ ctx[chain[i]].suffix = x}
           n == IF I # {} THEN Min(I) ELSE 0
<1>1. Hash(k, x) \in Slots
  BY HashAssumption
<1>2. chain \in Seq(Nat) /\ ToSet(chain) = InSlot(ctx, k, Hash(k, x))
  BY <1>1 DEF Tabled
<1>3. SelectInSeq(chain, LAMBDA c : k = 2 \/ ctx[c].suffix = x) = n
  BY DEF SelectInSeq
<1>4. Find(k, x) = IF n = 0 THEN NULL ELSE chain[n]
  BY <1>3 DEF Find
<1> HIDE DEF chain
<1>5. ToSet(chain) = {chain[i] : i \in 1 .. Len(chain)}
  BY <1>2, ToSetMembers
<1>6. CASE I = {}
  <2>1. Find(k, x) = NULL
    BY <1>4, <1>6
  <2>2. ASSUME NEW c \in DOMAIN ctx, ctx[c].order = k, ctx[c].suffix = x
        PROVE  FALSE
    <3>1. c \in ToSet(chain)
      BY <1>2, <2>2 DEF InSlot
    <3>2. PICK i \in 1 .. Len(chain) : chain[i] = c
      BY <1>5, <3>1
    <3> QED
      BY <3>2, <2>2, <1>6
  <2> QED
    BY <2>1, <2>2
<1>7. CASE I # {}
  <2>1. I \in SUBSET Nat
    OBVIOUS
  <2>2. Min(I) \in I
    BY <1>7, <2>1, MinMember
  <2>3. PICK i \in I : i = n
    BY <1>7, <2>2
  <2>a. i \in 1 .. Len(chain) /\ n # 0
    BY <2>3
  <2>4. Find(k, x) = chain[i] /\ chain[i] \in ToSet(chain)
    BY <1>4, <1>5, <2>3, <2>a
  <2>5. PICK c \in DOMAIN ctx : c = chain[i]
    BY <1>2, <2>4 DEF InSlot
  <2>6. ctx[c].order = k /\ Hash(k, ctx[c].suffix) = Hash(k, x)
    BY <1>2, <2>4, <2>5 DEF InSlot
  <2>7. ctx[c].suffix \in SuffixesOf(k)
    BY <2>6, SlotOf
  <2>8. ctx[c].suffix = x
    <3>1. CASE k = 2
      BY <3>1, <2>6, <2>7, HashAssumption
    <3>2. CASE k # 2
      BY <3>2, <2>3, <2>5
    <3> QED
      BY <3>1, <3>2
  <2> QED
    BY <2>4, <2>5, <2>6, <2>8
<1> QED
  BY <1>6, <1>7
-----------------------------------------------------------------------------
(* create_kid.                                                             *)
LEMMA KidsAdded ==
  ASSUME NEW cs, Typed(cs), Linked(cs), NEW kid, kid \notin DOMAIN cs, kid # NULL,
         NEW k, NEW x, NEW parent \in DOMAIN cs,
         NEW new, new = WithKid(cs, kid, k, x, parent)
  PROVE  /\ KidsOf(new, kid) = {}
         /\ KidsOf(new, parent) = KidsOf(cs, parent) \union {kid}
         /\ kid \notin KidsOf(cs, parent)
         /\ \A c \in DOMAIN cs : c # parent => KidsOf(new, c) = KidsOf(cs, c)
<1>0. \A c \in DOMAIN cs : cs[c] \in ContextType
  BY DEF Typed
<1>1. /\ DOMAIN new = DOMAIN cs \union {kid} /\ new[kid].parent = parent
      /\ \A c \in DOMAIN cs : new[c].parent = cs[c].parent
  BY <1>0 DEF WithKid, NewContext, ContextType
<1>2. \A c \in DOMAIN cs : cs[c].parent # kid
  <2> SUFFICES ASSUME NEW c \in DOMAIN cs PROVE cs[c].parent # kid
    OBVIOUS
  <2>1. cs[c].order \in 0 .. TopOrder
    BY DEF Typed, ContextType
  <2>2. cs[c].parent = NULL \/ cs[c].parent \in DOMAIN cs
    BY <2>1, OrdersFacts DEF Linked
  <2> QED
    BY <2>2
<1> QED
  BY <1>1, <1>2 DEF KidsOf

LEMMA AddKid ==
  ASSUME NEW cs, NEW tab, NEW list, Good(cs, tab, list),
         NEW kid \in Nat \ {NULL}, kid \notin DOMAIN cs,
         NEW k \in Orders, NEW x \in Seq(Symbols), Len(x) = SuffixLength(k),
         NEW parent \in DOMAIN cs, cs[parent].order = k - 1,
         cs[parent].suffix = SubSeq(x, 1, SuffixLength(k - 1)),
         \A c \in DOMAIN cs : ~ (cs[c].order = k /\ cs[c].suffix = x)
  PROVE  Good(WithKid(cs, kid, k, x, parent), Note(tab, kid, k, x), <<kid>> \o list)
<1> DEFINE new == WithKid(cs, kid, k, x, parent)
<1>1. Typed(cs) /\ Linked(cs) /\ Unique(cs) /\ Rooted(cs)
      /\ Tabled(cs, tab) /\ ListOf(cs, list)
  BY DEF Good
<1>2. k \in 2 .. TopOrder /\ TopOrder \in Nat
  BY OrdersFacts DEF Orders
<1>a. \A c \in DOMAIN cs : cs[c] \in ContextType
  BY <1>1 DEF Typed
<1>3. /\ DOMAIN new = DOMAIN cs \union {kid}
      /\ new[kid] = [order |-> k, suffix |-> x, parent |-> parent, kids |-> 0]
      /\ \A c \in DOMAIN cs :
           /\ new[c] \in ContextType
           /\ new[c].order = cs[c].order
           /\ new[c].suffix = cs[c].suffix
           /\ new[c].parent = cs[c].parent
           /\ new[c].kids = IF c = parent THEN cs[c].kids + 1 ELSE cs[c].kids
  BY <1>a DEF WithKid, NewContext, ContextType
<1>4. /\ KidsOf(new, kid) = {}
      /\ KidsOf(new, parent) = KidsOf(cs, parent) \union {kid}
      /\ kid \notin KidsOf(cs, parent)
      /\ \A c \in DOMAIN cs : c # parent => KidsOf(new, c) = KidsOf(cs, c)
  BY <1>1, KidsAdded
<1>5. new = [c \in DOMAIN new |-> new[c]]
  BY DEF WithKid
<1> HIDE DEF new
<1>6. Typed(new)
  <2>1. parent \in Nat /\ IsFiniteSet(DOMAIN cs) /\ DOMAIN cs \subseteq Nat \ {NULL}
    BY <1>1 DEF Typed
  <2>2. new[kid] \in ContextType
    BY <1>2, <1>3, <2>1 DEF ContextType
  <2>3. new \in [DOMAIN new -> ContextType]
    BY <1>3, <1>5, <2>2
  <2>4. IsFiniteSet(DOMAIN new)
    BY <1>3, <2>1, FS_AddElement
  <2>5. \A c \in DOMAIN new : Len(new[c].suffix) = SuffixLength(new[c].order)
    BY <1>1, <1>3 DEF Typed
  <2> QED
    BY <1>3, <2>1, <2>3, <2>4, <2>5 DEF Typed
<1>7. Linked(new)
  <2>1. ASSUME NEW c \in DOMAIN cs PROVE new[c].kids = Cardinality(KidsOf(new, c))
    <3>1. cs[c].kids = Cardinality(KidsOf(cs, c)) /\ IsFiniteSet(KidsOf(cs, c))
      <4>1. KidsOf(cs, c) \in SUBSET DOMAIN cs /\ IsFiniteSet(DOMAIN cs)
        BY <1>1 DEF KidsOf, Typed
      <4> QED
        BY <1>1, <4>1, FS_Subset DEF Linked
    <3>2. CASE c = parent
      BY <1>3, <1>4, <3>1, <3>2, FS_AddElement
    <3>3. CASE c # parent
      BY <1>3, <1>4, <3>1, <3>3
    <3> QED
      BY <3>2, <3>3
  <2>2. new[kid].kids = Cardinality(KidsOf(new, kid))
    BY <1>3, <1>4, FS_EmptySet
  <2>3. ASSUME NEW c \in DOMAIN cs
        PROVE  /\ new[c].order = 0 => new[c].parent = NULL
               /\ new[c].order > 0 =>
                    /\ new[c].parent \in DOMAIN new
                    /\ new[new[c].parent].order = new[c].order - 1
                    /\ new[new[c].parent].suffix =
                         SubSeq(new[c].suffix, 1, SuffixLength(new[c].order - 1))
    BY <1>1, <1>3 DEF Linked
  <2>4. /\ new[kid].order > 0 /\ new[kid].order # 0
        /\ new[kid].parent \in DOMAIN new
        /\ new[new[kid].parent].order = new[kid].order - 1
        /\ new[new[kid].parent].suffix =
             SubSeq(new[kid].suffix, 1, SuffixLength(new[kid].order - 1))
    BY <1>2, <1>3
  <2>5. \A c \in DOMAIN new : c = kid \/ c \in DOMAIN cs
    BY <1>3
  <2> QED
    BY <2>1, <2>2, <2>3, <2>4, <2>5 DEF Linked
<1>8. Unique(new)
  <2> SUFFICES ASSUME NEW c \in DOMAIN new, NEW d \in DOMAIN new,
                      new[c].order = new[d].order, new[c].suffix = new[d].suffix
               PROVE  c = d
    BY DEF Unique
  <2>1. CASE c \in DOMAIN cs /\ d \in DOMAIN cs
    BY <1>1, <1>3, <2>1 DEF Unique
  <2>2. CASE c = kid /\ d \in DOMAIN cs
    BY <1>3, <2>2
  <2>3. CASE d = kid /\ c \in DOMAIN cs
    BY <1>3, <2>3
  <2> QED
    BY <1>3, <2>1, <2>2, <2>3
<1>9. Rooted(new)
  BY <1>1, <1>3 DEF Rooted
<1>10. Tabled(new, Note(tab, kid, k, x))
  <2> DEFINE h == Hash(k, x)
             old == tab[k][h]
             more == IF k = 2 THEN <<kid>> ELSE <<kid>> \o old
  <2>1. x \in SuffixesOf(k) /\ h \in Slots
    BY SuffixOfType, HashAssumption
  <2>2. /\ tab \in [Orders -> [Slots -> Seq(Nat)]]
        /\ \A l \in Orders, i \in Slots :
             Distinct(tab[l][i]) /\ ToSet(tab[l][i]) = InSlot(cs, l, i)
    BY <1>1 DEF Tabled
  <2>3. Note(tab, kid, k, x) = [tab EXCEPT ![k] = [tab[k] EXCEPT ![h] = more]]
    BY <2>1, <2>2 DEF Note
  <2> HIDE DEF h
  <2>4. old \in Seq(Nat) /\ Distinct(old) /\ ToSet(old) = InSlot(cs, k, h)
    BY <2>1, <2>2
  <2>5. kid \notin ToSet(old)
    BY <2>4 DEF InSlot
  <2>6. more \in Seq(Nat) /\ Distinct(more) /\ ToSet(more) = InSlot(cs, k, h) \union {kid}
    <3>1. CASE k # 2
      BY <2>4, <2>5, <3>1, Prepended
    <3>2. CASE k = 2
      <4>1. InSlot(cs, k, h) = {}
        <5> SUFFICES ASSUME NEW c \in DOMAIN cs, cs[c].order = k,
                            Hash(k, cs[c].suffix) = h
                     PROVE  FALSE
          BY DEF InSlot
        <5>1. cs[c].suffix \in SuffixesOf(k)
          BY <1>1, SlotOf
        <5>2. cs[c].suffix = x
          BY <2>1, <3>2, <5>1, HashAssumption DEF h
        <5> QED
          BY <5>2
      <4>2. <<kid>> \in Seq(Nat) /\ Len(<<kid>>) = 1 /\ <<kid>>[1] = kid
        OBVIOUS
      <4>3. PICK one : one = <<kid>>
        OBVIOUS
      <4>4. \A i \in 1 .. Len(one) : i = 1
        BY <4>2, <4>3
      <4>5. Distinct(one)
        BY <4>4 DEF Distinct
      <4>6. ToSet(one) = {one[i] : i \in 1 .. Len(one)}
        BY <4>2, <4>3, ToSetMembers
      <4>7. ToSet(one) = {kid}
        BY <4>2, <4>3, <4>4, <4>6
      <4> QED
        BY <3>2, <4>1, <4>2, <4>3, <4>5, <4>7
    <3> QED
      BY <3>1, <3>2
  <2>7. ASSUME NEW l \in Orders, NEW i \in Slots
        PROVE  InSlot(new, l, i) = IF l = k /\ i = h THEN InSlot(cs, l, i) \union {kid}
                                   ELSE InSlot(cs, l, i)
    <3>1. \A c \in DOMAIN cs :
            new[c].order = cs[c].order /\ new[c].suffix = cs[c].suffix
      BY <1>3
    <3>2. new[kid].order = k /\ new[kid].suffix = x /\ Hash(k, x) = h
      BY <1>3 DEF h
    <3>3. kid \in InSlot(new, l, i) <=> l = k /\ i = h
      BY <1>3, <3>2 DEF InSlot
    <3>4. \A c \in DOMAIN cs : c \in InSlot(new, l, i) <=> c \in InSlot(cs, l, i)
      BY <1>3, <3>1 DEF InSlot
    <3>5. InSlot(new, l, i) \subseteq DOMAIN cs \union {kid}
          /\ InSlot(cs, l, i) \subseteq DOMAIN cs
      BY <1>3 DEF InSlot
    <3>6. CASE l = k /\ i = h
      <4>1. kid \in InSlot(new, l, i)
        BY <3>3, <3>6
      <4> QED
        BY <3>4, <3>5, <3>6, <4>1
    <3>7. CASE ~ (l = k /\ i = h)
      <4>1. kid \notin InSlot(new, l, i)
        BY <3>3, <3>7
      <4>2. InSlot(new, l, i) = InSlot(cs, l, i)
        BY <3>4, <3>5, <4>1
      <4> QED
        BY <3>7, <4>2
    <3> QED
      BY <3>6, <3>7
  <2> HIDE DEF more, old
  <2>8. PICK after : after = Note(tab, kid, k, x)
    OBVIOUS
  <2>9. after \in [Orders -> [Slots -> Seq(Nat)]]
    BY <2>1, <2>2, <2>3, <2>6, <2>8
  <2>10. \A l \in Orders, i \in Slots :
           after[l][i] = IF l = k /\ i = h THEN more ELSE tab[l][i]
    BY <2>1, <2>2, <2>3, <2>8
  <2>11. ASSUME NEW l \in Orders, NEW i \in Slots
         PROVE  Distinct(after[l][i]) /\ ToSet(after[l][i]) = InSlot(new, l, i)
    <3>1. CASE l = k /\ i = h
      BY <2>6, <2>7, <2>10, <3>1
    <3>2. CASE ~ (l = k /\ i = h)
      BY <2>2, <2>7, <2>10, <3>2
    <3> QED
      BY <3>1, <3>2
  <2> QED
    BY <2>8, <2>9, <2>11 DEF Tabled
<1>11. ListOf(new, <<kid>> \o list)
  <2>1. list \in Seq(Nat) /\ Distinct(list) /\ ToSet(list) = Recyclable(cs)
    BY <1>1 DEF ListOf
  <2>2. kid \notin ToSet(list)
    BY <2>1 DEF Recyclable
  <2>3. Recyclable(new) = Recyclable(cs) \union {kid}
    BY <1>2, <1>3 DEF Recyclable
  <2> QED
    BY <2>1, <2>2, <2>3, Prepended DEF ListOf
<1> QED
  BY <1>6, <1>7, <1>8, <1>9, <1>10, <1>11 DEF Good, new
-----------------------------------------------------------------------------
(* context_delete of a leaf.                                               *)
LEMMA KidsTaken ==
  ASSUME NEW cs, Typed(cs), Linked(cs), NEW victim \in DOMAIN cs,
         cs[victim].kids = 0, cs[victim].order > 0,
         NEW new, new = Without(cs, victim)
  PROVE  /\ KidsOf(cs, victim) = {}
         /\ victim \in KidsOf(cs, cs[victim].parent)
         /\ cs[victim].parent \in DOMAIN new
         /\ \A c \in DOMAIN new : KidsOf(new, c) = KidsOf(cs, c) \ {victim}
         /\ \A c \in DOMAIN new :
              /\ new[c] \in ContextType
              /\ new[c].kids = Cardinality(KidsOf(new, c))
<1>0. \A c \in DOMAIN cs : cs[c] \in ContextType
  BY DEF Typed
<1> DEFINE p == cs[victim].parent
<1>1. p \in DOMAIN cs /\ cs[p].order = cs[victim].order - 1 /\ p # victim
  <2>1. cs[victim].order \in Nat
    BY <1>0, OrdersFacts DEF ContextType
  <2> QED
    BY <2>1 DEF Linked
<1>2. \A c \in DOMAIN cs :
        KidsOf(cs, c) \in SUBSET DOMAIN cs /\ IsFiniteSet(KidsOf(cs, c))
        /\ cs[c].kids = Cardinality(KidsOf(cs, c))
  <2>1. \A c \in DOMAIN cs : KidsOf(cs, c) \in SUBSET DOMAIN cs
    BY DEF KidsOf
  <2>2. IsFiniteSet(DOMAIN cs)
    BY DEF Typed
  <2> QED
    BY <2>1, <2>2, FS_Subset DEF Linked
<1>3. KidsOf(cs, victim) = {}
  BY <1>2, FS_EmptySet
<1>4. victim \in KidsOf(cs, p)
  BY DEF KidsOf
<1>5. /\ DOMAIN new = DOMAIN cs \ {victim}
      /\ \A c \in DOMAIN new : new[c] = IF c = p THEN [cs[c] EXCEPT !.kids = @ - 1] ELSE cs[c]
  BY DEF Without
<1>6. \A c \in DOMAIN new :
        /\ new[c].parent = cs[c].parent
        /\ new[c].kids = IF c = p THEN cs[c].kids - 1 ELSE cs[c].kids
  BY <1>0, <1>5 DEF ContextType
<1>7. \A c \in DOMAIN new : KidsOf(new, c) = KidsOf(cs, c) \ {victim}
  BY <1>5, <1>6 DEF KidsOf
<1>8. ASSUME NEW c \in DOMAIN new
      PROVE  /\ new[c] \in ContextType
             /\ new[c].kids = Cardinality(KidsOf(new, c))
  <2>1. /\ IsFiniteSet(KidsOf(cs, c)) /\ cs[c].kids = Cardinality(KidsOf(cs, c))
        /\ cs[c] \in ContextType
    BY <1>0, <1>2, <1>5
  <2>2. Cardinality(KidsOf(new, c)) =
          IF victim \in KidsOf(cs, c) THEN Cardinality(KidsOf(cs, c)) - 1
          ELSE Cardinality(KidsOf(cs, c))
    BY <1>7, <2>1, FS_RemoveElement
  <2>3. victim \in KidsOf(cs, c) <=> c = p
    BY <1>1, <1>5 DEF KidsOf
  <2>4. new[c].kids = Cardinality(KidsOf(new, c))
    BY <1>6, <2>1, <2>2, <2>3
  <2>5. new[c].kids \in Nat
    <3>1. IsFiniteSet(KidsOf(new, c))
      BY <1>7, <2>1, FS_RemoveElement
    <3> QED
      BY <2>4, <3>1, FS_CardinalityType
  <2>6. new[c] \in ContextType
    <3>1. CASE c = p
      BY <1>5, <2>1, <2>5, <3>1 DEF ContextType
    <3>2. CASE c # p
      BY <1>5, <2>1, <3>2
    <3> QED
      BY <3>1, <3>2
  <2> QED
    BY <2>4, <2>6
<1> QED
  BY <1>1, <1>3, <1>4, <1>5, <1>7, <1>8

LEMMA DropEntry ==
  ASSUME NEW cs, Typed(cs), Unique(cs), NEW tab, Tabled(cs, tab),
         NEW victim \in DOMAIN cs, cs[victim].order \in Orders,
         NEW after, after = Drop(tab, cs, victim)
  PROVE  /\ after \in [Orders -> [Slots -> Seq(Nat)]]
         /\ \A l \in Orders, i \in Slots :
              /\ Distinct(after[l][i])
              /\ ToSet(after[l][i]) = InSlot(cs, l, i) \ {victim}
<1> DEFINE k == cs[victim].order
           x == cs[victim].suffix
           h == Hash(k, x)
           chain == tab[k][h]
           rest == IF k = 2 THEN <<>>
                   ELSE RemoveFirstMatch(chain, LAMBDA d : cs[d].suffix = x)
<1>1. x \in SuffixesOf(k) /\ h \in Slots
  BY SlotOf
<1>2. /\ tab \in [Orders -> [Slots -> Seq(Nat)]]
      /\ \A l \in Orders, i \in Slots :
           Distinct(tab[l][i]) /\ ToSet(tab[l][i]) = InSlot(cs, l, i)
  BY DEF Tabled
<1>3. after = [tab EXCEPT ![k] = [tab[k] EXCEPT ![h] = rest]]
  BY <1>1, <1>2 DEF Drop
<1>4. chain \in Seq(Nat) /\ Distinct(chain) /\ ToSet(chain) = InSlot(cs, k, h)
  BY <1>1, <1>2
<1>5. victim \in InSlot(cs, k, h)
  BY DEF InSlot
<1>6. rest \in Seq(Nat) /\ Distinct(rest) /\ ToSet(rest) = InSlot(cs, k, h) \ {victim}
  <2>1. CASE k = 2
    <3>1. InSlot(cs, k, h) \subseteq {victim}
      <4> SUFFICES ASSUME NEW c \in DOMAIN cs, cs[c].order = k,
                          Hash(k, cs[c].suffix) = h
                   PROVE  c = victim
        BY DEF InSlot
      <4>1. cs[c].suffix \in SuffixesOf(k)
        BY SlotOf
      <4>2. cs[c].suffix = x
        BY <1>1, <2>1, <4>1, HashAssumption
      <4> QED
        BY <4>2 DEF Unique
    <3>2. <<>> \in Seq(Nat) /\ Len(<<>>) = 0
      OBVIOUS
    <3>3. PICK none : none = <<>>
      OBVIOUS
    <3>4. ToSet(none) = {none[i] : i \in 1 .. Len(none)}
      BY <3>2, <3>3, ToSetMembers
    <3>5. ToSet(none) = {} /\ Distinct(none)
      BY <3>2, <3>3, <3>4 DEF Distinct
    <3> QED
      BY <2>1, <3>1, <3>2, <3>3, <3>5
  <2>2. CASE k # 2
    <3> DEFINE I == {i \in 1 .. Len(chain) : cs[chain[i]].suffix = x}
    <3>1. PICK n \in 1 .. Len(chain) : chain[n] = victim
      BY <1>4, <1>5, ToSetMembers
    <3>2. n \in I /\ I \in SUBSET Nat /\ I # {}
      BY <3>1
    <3>3. \A i \in I : i = n
      <4> SUFFICES ASSUME NEW i \in I PROVE i = n
        OBVIOUS
      <4>1. chain[i] \in InSlot(cs, k, h)
        BY <1>4, ToSetMembers
      <4>2. chain[i] = victim
        BY <4>1 DEF InSlot, Unique
      <4> QED
        BY <1>4, <3>1, <4>2 DEF Distinct
    <3>4. Min(I) = n
      BY <3>2, <3>3, MinMember
    <3>5. SelectInSeq(chain, LAMBDA d : cs[d].suffix = x) = n
      BY <3>2, <3>4 DEF SelectInSeq
    <3>6. \E i \in 1 .. Len(chain) : cs[chain[i]].suffix = x
      BY <3>2
    <3>7. rest = RemoveAt(chain, n)
      BY <2>2, <3>5, <3>6 DEF RemoveFirstMatch
    <3> HIDE DEF chain, rest
    <3> QED
      BY <1>4, <3>1, <3>7, RemovedAt
  <2> QED
    BY <2>1, <2>2
<1> HIDE DEF rest, h
<1>7. after \in [Orders -> [Slots -> Seq(Nat)]]
  BY <1>1, <1>2, <1>3, <1>6
<1>8. \A l \in Orders, i \in Slots :
        after[l][i] = IF l = k /\ i = h THEN rest ELSE tab[l][i]
  BY <1>1, <1>2, <1>3
<1>9. ASSUME NEW l \in Orders, NEW i \in Slots
      PROVE  Distinct(after[l][i]) /\ ToSet(after[l][i]) = InSlot(cs, l, i) \ {victim}
  <2>1. CASE l = k /\ i = h
    BY <1>6, <1>8, <2>1
  <2>2. CASE ~ (l = k /\ i = h)
    <3>1. victim \notin InSlot(cs, l, i)
      BY <2>2 DEF InSlot, h
    <3> QED
      BY <1>2, <1>8, <2>2, <3>1
  <2> QED
    BY <2>1, <2>2
<1> QED
  BY <1>7, <1>9

LEMMA DropLeaf ==
  ASSUME NEW cs, NEW tab, NEW list, Good(cs, tab, list),
         NEW victim \in ToSet(list), cs[victim].kids = 0
  PROVE  Good(Without(cs, victim), Drop(tab, cs, victim), Cut(list, victim))
<1>1. Typed(cs) /\ Linked(cs) /\ Unique(cs) /\ Rooted(cs)
      /\ Tabled(cs, tab) /\ ListOf(cs, list)
  BY DEF Good
<1>2. PICK new : new = Without(cs, victim)
  OBVIOUS
<1>3. PICK after : after = Drop(tab, cs, victim)
  OBVIOUS
<1>4. /\ victim \in DOMAIN cs /\ cs[victim].order \in 2 .. TopOrder
      /\ cs[victim].order > 0 /\ cs[victim].order \in Orders
  <2>1. victim \in DOMAIN cs /\ cs[victim].order >= 2
    BY <1>1 DEF ListOf, Recyclable
  <2>2. cs[victim].order \in 0 .. TopOrder
    BY <1>1, <2>1 DEF Typed, ContextType
  <2> QED
    BY <2>1, <2>2, OrdersFacts DEF Orders
<1>5. /\ KidsOf(cs, victim) = {}
      /\ cs[victim].parent \in DOMAIN new
      /\ \A c \in DOMAIN new :
           /\ new[c] \in ContextType
           /\ new[c].kids = Cardinality(KidsOf(new, c))
  BY <1>1, <1>2, <1>4, KidsTaken
<1>6. /\ DOMAIN new = DOMAIN cs \ {victim}
      /\ new = [c \in DOMAIN new |-> new[c]]
      /\ \A c \in DOMAIN new :
           /\ new[c].order = cs[c].order
           /\ new[c].suffix = cs[c].suffix
           /\ new[c].parent = cs[c].parent
  <2>1. \A c \in DOMAIN cs : cs[c] \in ContextType
    BY <1>1 DEF Typed
  <2> QED
    BY <1>2, <2>1 DEF Without, ContextType
<1>7. Typed(new)
  <2>1. IsFiniteSet(DOMAIN cs) /\ DOMAIN cs \subseteq Nat \ {NULL}
    BY <1>1 DEF Typed
  <2>2. IsFiniteSet(DOMAIN new)
    BY <1>6, <2>1, FS_RemoveElement
  <2>3. new \in [DOMAIN new -> ContextType]
    BY <1>5, <1>6
  <2>4. \A c \in DOMAIN new : Len(new[c].suffix) = SuffixLength(new[c].order)
    BY <1>1, <1>6 DEF Typed
  <2> QED
    BY <1>6, <2>1, <2>2, <2>3, <2>4 DEF Typed
<1>8. Linked(new)
  <2> SUFFICES ASSUME NEW c \in DOMAIN new
               PROVE  /\ new[c].kids = Cardinality(KidsOf(new, c))
                      /\ new[c].order = 0 => new[c].parent = NULL
                      /\ new[c].order > 0 =>
                           /\ new[c].parent \in DOMAIN new
                           /\ new[new[c].parent].order = new[c].order - 1
                           /\ new[new[c].parent].suffix =
                                SubSeq(new[c].suffix, 1, SuffixLength(new[c].order - 1))
    BY DEF Linked
  <2>1. c \in DOMAIN cs /\ c \notin KidsOf(cs, victim)
    BY <1>5, <1>6
  <2>2. cs[c].parent # victim
    BY <2>1 DEF KidsOf
  <2>3. /\ cs[c].order = 0 => cs[c].parent = NULL
        /\ cs[c].order > 0 =>
             /\ cs[c].parent \in DOMAIN cs
             /\ cs[cs[c].parent].order = cs[c].order - 1
             /\ cs[cs[c].parent].suffix =
                  SubSeq(cs[c].suffix, 1, SuffixLength(cs[c].order - 1))
    BY <1>1, <2>1 DEF Linked
  <2> QED
    BY <1>5, <1>6, <2>2, <2>3
<1>9. Unique(new)
  BY <1>1, <1>6 DEF Unique
<1>10. Rooted(new)
  <2>1. victim # order0 /\ \A i \in Symbols : victim # order1[i]
    BY <1>1, <1>4 DEF Rooted
  <2> QED
    BY <1>1, <1>6, <2>1 DEF Rooted
<1>11. Tabled(new, after)
  <2>1. /\ after \in [Orders -> [Slots -> Seq(Nat)]]
        /\ \A l \in Orders, i \in Slots :
             /\ Distinct(after[l][i])
             /\ ToSet(after[l][i]) = InSlot(cs, l, i) \ {victim}
    BY <1>1, <1>3, <1>4, DropEntry
  <2>2. \A l \in Orders, i \in Slots :
          InSlot(new, l, i) = InSlot(cs, l, i) \ {victim}
    BY <1>6 DEF InSlot
  <2> QED
    BY <2>1, <2>2 DEF Tabled
<1>12. ListOf(new, Cut(list, victim))
  <2>1. list \in Seq(Nat) /\ Distinct(list) /\ ToSet(list) = Recyclable(cs)
    BY <1>1 DEF ListOf
  <2>2. Recyclable(new) = Recyclable(cs) \ {victim}
    BY <1>6 DEF Recyclable
  <2> QED
    BY <2>1, <2>2, CutMember DEF ListOf
<1> QED
  BY <1>2, <1>3, <1>7, <1>8, <1>9, <1>10, <1>11, <1>12 DEF Good
-----------------------------------------------------------------------------
(* The pool: the hunk given out, and the one taken back.                   *)
LEMMA HunkTaken ==
  ASSUME NEW live, NEW stack, NEW unused, Pooled(live, stack, unused),
         NEW kid, kid = IF stack = <<>> THEN unused ELSE stack[1]
  PROVE  /\ kid \in Nat \ {NULL} /\ kid \notin live
         /\ Pooled(live \union {kid}, IF stack = <<>> THEN <<>> ELSE Tail(stack),
                   IF stack = <<>> THEN unused + 1 ELSE unused)
<1>1. /\ stack \in Seq(Nat) /\ Distinct(stack) /\ unused \in Nat \ {0}
      /\ ToSet(stack) \intersect live = {}
      /\ ToSet(stack) \union live = 1 .. unused - 1
      /\ ToSet(stack) = {stack[i] : i \in 1 .. Len(stack)}
  BY ToSetMembers DEF Pooled
<1>2. CASE stack = <<>>
  <2>1. ToSet(stack) = {}
    BY <1>1, <1>2
  <2>2. live = 1 .. unused - 1 /\ kid = unused
    BY <1>1, <1>2, <2>1
  <2>3. kid \in Nat \ {NULL} /\ kid \notin live
    BY <1>1, <2>2 DEF NULL
  <2>4. (live \union {kid}) = 1 .. unused
    BY <1>1, <2>2
  <2>5. Pooled(live \union {kid}, stack, unused + 1)
    <3>0. PICK above \in Nat \ {0} : above = unused + 1
      BY <1>1
    <3>1. ToSet(stack) \intersect (live \union {kid}) = {}
          /\ ToSet(stack) \union (live \union {kid}) = 1 .. above - 1
      <4>1. (live \union {kid}) = 1 .. above - 1
        <5>1. above - 1 = unused
          BY <1>1, <3>0
        <5> QED
          BY <2>4, <5>1
      <4>2. {} \union (live \union {kid}) = (live \union {kid}) /\ {} \intersect (live \union {kid}) = {}
        OBVIOUS
      <4> QED
        BY <2>1, <4>1, <4>2, Zenon
    <3>2. Pooled(live \union {kid}, stack, above)
      BY <1>1, <3>1, Zenon DEF Pooled
    <3> QED
      BY <3>0, <3>2
  <2> QED
    BY <1>2, <2>3, <2>5
<1>3. CASE stack # <<>>
  <2>1. /\ 1 \in 1 .. Len(stack) /\ kid = stack[1]
        /\ kid \in ToSet(stack)
    BY <1>1, <1>3
  <2>2. kid \in Nat \ {NULL} /\ kid \notin live
    BY <1>1, <2>1 DEF NULL
  <2>3. PICK rest : rest = Tail(stack)
    OBVIOUS
  <2>4. /\ rest \in Seq(Nat) /\ Len(rest) = Len(stack) - 1
        /\ \A i \in 1 .. Len(rest) : rest[i] = stack[i + 1] /\ i + 1 \in 1 .. Len(stack)
    BY <1>1, <1>3, <2>3
  <2>5. Distinct(rest)
    <3> SUFFICES ASSUME NEW i \in 1 .. Len(rest), NEW j \in 1 .. Len(rest),
                        rest[i] = rest[j]
                 PROVE  i = j
      BY DEF Distinct
    <3>1. /\ i + 1 \in 1 .. Len(stack) /\ j + 1 \in 1 .. Len(stack)
          /\ stack[i + 1] = stack[j + 1]
      BY <2>4
    <3>2. i + 1 = j + 1
      BY <1>1, <3>1 DEF Distinct
    <3> QED
      BY <3>2
  <2>6. ToSet(rest) = {rest[i] : i \in 1 .. Len(rest)}
    BY <2>4, ToSetMembers
  <2>7. ToSet(rest) \subseteq ToSet(stack) \ {kid}
    <3> SUFFICES ASSUME NEW i \in 1 .. Len(rest)
                 PROVE  rest[i] \in ToSet(stack) /\ rest[i] # kid
      BY <2>6
    <3>1. rest[i] = stack[i + 1] /\ i + 1 \in 1 .. Len(stack) /\ i + 1 # 1
      BY <2>4
    <3>2. stack[i + 1] # stack[1]
      BY <1>1, <2>1, <3>1 DEF Distinct
    <3> QED
      BY <1>1, <2>1, <3>1, <3>2
  <2>8. ToSet(stack) \ {kid} \subseteq ToSet(rest)
    <3> SUFFICES ASSUME NEW i \in 1 .. Len(stack), stack[i] # kid
                 PROVE  stack[i] \in ToSet(rest)
      BY <1>1
    <3>1. i - 1 \in 1 .. Len(rest) /\ i - 1 + 1 = i
      BY <1>1, <2>1, <2>4
    <3>2. rest[i - 1] = stack[i]
      BY <2>4, <3>1
    <3> QED
      BY <2>6, <3>1, <3>2
  <2>9. Pooled(live \union {kid}, rest, unused)
    <3>1. ToSet(rest) \intersect (live \union {kid}) = {}
      BY <1>1, <2>7
    <3>2. ToSet(rest) \union (live \union {kid}) = ToSet(stack) \union live
      BY <2>1, <2>7, <2>8
    <3> QED
      BY <1>1, <2>4, <2>5, <3>1, <3>2 DEF Pooled
  <2> QED
    BY <1>3, <2>2, <2>3, <2>9
<1> QED
  BY <1>2, <1>3

LEMMA HunkReturned ==
  ASSUME NEW live, NEW stack, NEW unused, Pooled(live, stack, unused),
         NEW victim \in live
  PROVE  Pooled(live \ {victim}, <<victim>> \o stack, unused)
<1>1. /\ stack \in Seq(Nat) /\ Distinct(stack) /\ unused \in Nat \ {0}
      /\ ToSet(stack) \intersect live = {}
      /\ ToSet(stack) \union live = 1 .. unused - 1
  BY DEF Pooled
<1>2. victim \in Nat /\ victim \notin ToSet(stack)
  BY <1>1
<1>3. PICK more : more = <<victim>> \o stack
  OBVIOUS
<1>4. more \in Seq(Nat) /\ Distinct(more) /\ ToSet(more) = ToSet(stack) \union {victim}
  BY <1>1, <1>2, <1>3, Prepended
<1>5. ToSet(more) \intersect (live \ {victim}) = {}
  BY <1>1, <1>4
<1>6. ToSet(more) \union (live \ {victim}) = 1 .. unused - 1
  BY <1>1, <1>4
<1> QED
  BY <1>1, <1>3, <1>4, <1>5, <1>6 DEF Pooled
-----------------------------------------------------------------------------
(* The victim is a leaf that is not in the chain being built: the trie is  *)
(* larger than the chain, and the kid just made is the newest of all.      *)
LEMMA SpareLeaf ==
  ASSUME NEW cs, NEW tab, NEW list, Good(cs, tab, list),
         NEW n \in Orders, NEW chain, ChainTo(cs, chain, n),
         Len(list) >= MaxLru
  PROVE  \E c \in ToSet(list) : cs[c].kids = 0 /\ c # chain[n]
<1>1. Typed(cs) /\ Linked(cs) /\ ListOf(cs, list)
  BY DEF Good
<1>2. n \in 2 .. TopOrder /\ TopOrder \in Nat /\ MaxLru \in Nat /\ MaxLru >= TopOrder
  BY OrdersFacts, LruAssumption DEF Orders
<1>3. list \in Seq(Nat) /\ Distinct(list) /\ ToSet(list) = Recyclable(cs)
  BY <1>1 DEF ListOf
<1> DEFINE A == {chain[k] : k \in 2 .. n}
           X == ToSet(list) \ A
<1>4. IsFiniteSet(A) /\ Cardinality(A) <= n - 1
  <2>1. PICK m \in Nat : m = n
    BY <1>2
  <2>2. IsFiniteSet(2 .. m) /\ Cardinality(2 .. m) = IF 2 > m THEN 0 ELSE m - 2 + 1
    BY FS_Interval
  <2>3. [k \in 2 .. m |-> chain[k]] \in Surjection(2 .. m, A)
    BY <2>1 DEF Surjection
  <2>4. IsFiniteSet(A) /\ Cardinality(A) <= Cardinality(2 .. m)
    BY <2>2, <2>3, FS_Surjection
  <2> QED
    BY <1>2, <2>1, <2>2, <2>4
<1>5. X # {}
  <2> SUFFICES ASSUME X = {} PROVE FALSE
    OBVIOUS
  <2>1. ToSet(list) \in SUBSET A
    OBVIOUS
  <2>2. Cardinality(ToSet(list)) <= Cardinality(A)
    BY <1>4, <2>1, FS_Subset
  <2>3. Cardinality(ToSet(list)) = Len(list) /\ Len(list) \in Nat
    BY <1>3, LengthCounts
  <2>4. Cardinality(A) \in Nat
    BY <1>4, FS_CardinalityType
  <2> HIDE DEF A
  <2> QED
    BY <1>2, <1>4, <2>2, <2>3, <2>4
<1>6. \A c \in ToSet(list) : c \in DOMAIN cs /\ cs[c].order \in 2 .. TopOrder
  <2>1. \A c \in DOMAIN cs : cs[c].order \in 0 .. TopOrder
    BY <1>1 DEF Typed, ContextType
  <2> QED
    BY <1>2, <1>3, <2>1 DEF Recyclable
<1> DEFINE O == {cs[c].order : c \in X}
<1>7. O \in SUBSET Nat /\ O # {} /\ \A o \in O : o <= TopOrder
  BY <1>2, <1>5, <1>6
<1>8. Max(O) \in O /\ \A o \in O : Max(O) >= o
  BY <1>2, <1>7, MaxMember
<1>9. PICK c \in X : \A d \in X : cs[c].order >= cs[d].order
  BY <1>8
<1>10. KidsOf(cs, c) = {}
  <2> SUFFICES ASSUME NEW d \in DOMAIN cs, cs[d].parent = c PROVE FALSE
    BY DEF KidsOf
  <2>1. cs[d].order \in Nat /\ cs[c].order \in 2 .. TopOrder /\ c \in DOMAIN cs /\ c # NULL
    BY <1>1, <1>6, OrdersFacts DEF Typed, ContextType
  <2>2. cs[d].order > 0 /\ cs[c].order = cs[d].order - 1
    <3>1. cs[d].order # 0
      BY <1>1, <2>1 DEF Linked
    <3> QED
      BY <1>1, <2>1, <3>1 DEF Linked
  <2>3. d \in ToSet(list) /\ cs[d].order \in 3 .. TopOrder
    <3>1. d \in ToSet(list)
      BY <1>2, <1>3, <2>1, <2>2 DEF Recyclable
    <3> QED
      BY <1>2, <1>6, <2>1, <2>2, <3>1
  <2>4. CASE d \in A
    <3>1. PICK k \in 2 .. n : d = chain[k]
      BY <2>4
    <3>2. k \in 0 .. n /\ k # 0
      BY <1>2, <3>1
    <3>3. cs[d].order = k /\ cs[d].parent = chain[k - 1]
      BY <3>1, <3>2 DEF ChainTo
    <3>4. k - 1 \in 2 .. n
      BY <1>2, <2>3, <3>1, <3>3
    <3>5. c \in A
      BY <3>3, <3>4
    <3> QED
      BY <3>5
  <2>5. CASE d \notin A
    <3>1. cs[c].order >= cs[d].order
      BY <1>9, <2>3, <2>5
    <3> QED
      BY <2>1, <2>2, <3>1
  <2> QED
    BY <2>4, <2>5
<1>11. cs[c].kids = 0
  BY <1>1, <1>6, <1>10, FS_EmptySet DEF Linked
<1>12. c # chain[n]
  BY <1>2
<1> QED
  BY <1>11, <1>12

LEMMA VictimSpare ==
  ASSUME NEW cs, NEW tab, NEW list, Good(cs, tab, list),
         NEW n \in Orders, NEW chain, ChainTo(cs, chain, n),
         Len(list) >= MaxLru, list[1] = chain[n],
         NEW victim, victim = Victim(cs, list)
  PROVE  /\ victim \in ToSet(list) /\ cs[victim].kids = 0
         /\ \A k \in 0 .. n : victim # chain[k]
<1>1. Typed(cs) /\ Linked(cs) /\ ListOf(cs, list)
  BY DEF Good
<1>2. n \in 2 .. TopOrder /\ TopOrder \in Nat /\ MaxLru \in Nat /\ MaxLru >= TopOrder
  BY OrdersFacts, LruAssumption DEF Orders
<1>3. list \in Seq(Nat) /\ Distinct(list) /\ Len(list) \in Nat /\ Len(list) >= 2
  BY <1>1, <1>2 DEF ListOf
<1>4. PICK c \in ToSet(list) : cs[c].kids = 0 /\ c # chain[n]
  BY SpareLeaf
<1> DEFINE I == {i \in 1 .. Len(list) : cs[list[i]].kids = 0}
<1>5. PICK j \in 1 .. Len(list) : list[j] = c
  BY <1>3, ToSetMembers
<1>6. j \in I /\ I # {} /\ I \in SUBSET Nat /\ \A i \in I : i <= Len(list)
  BY <1>3, <1>4, <1>5
<1>7. Max(I) \in I /\ \A i \in I : Max(I) >= i
  BY <1>3, <1>6, MaxMember
<1>8. PICK m \in I : m = Max(I) /\ m >= j
  BY <1>6, <1>7
<1>9. SelectLastInSeq(list, LAMBDA d : cs[d].kids = 0) = m
  BY <1>6, <1>8 DEF SelectLastInSeq
<1>10. victim = list[m]
  BY <1>9 DEF Victim
<1>11. victim \in ToSet(list) /\ cs[victim].kids = 0
  BY <1>3, <1>8, <1>10, ToSetMembers
<1>12. victim # chain[n]
  <2>1. j # 1 /\ m # 1
    BY <1>3, <1>4, <1>5, <1>8
  <2>2. list[m] # list[1]
    BY <1>3, <1>8, <2>1 DEF Distinct
  <2> QED
    BY <1>10, <2>2
<1>13. ASSUME NEW k \in 0 .. n, k < n PROVE victim # chain[k]
  <2>1. k + 1 \in 0 .. n /\ k + 1 # 0 /\ k + 1 - 1 = k
    BY <1>2, <1>13
  <2>2. chain[k + 1] \in DOMAIN cs /\ cs[chain[k + 1]].parent = chain[k]
    BY <2>1 DEF ChainTo
  <2>3. chain[k + 1] \in KidsOf(cs, chain[k]) /\ chain[k] \in DOMAIN cs
    BY <2>2 DEF KidsOf, ChainTo
  <2>4. KidsOf(cs, chain[k]) \in SUBSET DOMAIN cs /\ IsFiniteSet(DOMAIN cs)
    BY <1>1 DEF KidsOf, Typed
  <2>5. Cardinality(KidsOf(cs, chain[k])) # 0
    BY <2>3, <2>4, FS_Subset, FS_EmptySet
  <2> QED
    BY <1>1, <1>11, <2>3, <2>5 DEF Linked
<1> QED
  BY <1>2, <1>11, <1>12, <1>13
-----------------------------------------------------------------------------
(* Chains: a context known by the suffix of its order.                     *)
Found(cs, c, k) ==
  c \in DOMAIN cs /\ cs[c].order = k /\ cs[c].suffix = Suffix(k)

LEMMA ParentFound ==
  ASSUME history \in SuffixesOf(TopOrder), NEW cs, Typed(cs), Linked(cs),
         NEW k \in 1 .. TopOrder, NEW c, Found(cs, c, k)
  PROVE  Found(cs, cs[c].parent, k - 1)
<1>1. k \in 0 .. TopOrder /\ k >= 1 /\ k > 0
  BY OrdersFacts
<1>2. /\ cs[c].parent \in DOMAIN cs
      /\ cs[cs[c].parent].order = k - 1
      /\ cs[cs[c].parent].suffix = SubSeq(Suffix(k), 1, SuffixLength(k - 1))
  BY <1>1 DEF Found, Linked
<1>3. SubSeq(Suffix(k), 1, SuffixLength(k - 1)) = Suffix(k - 1)
  BY <1>1, SuffixFacts
<1> QED
  BY <1>2, <1>3 DEF Found

LEMMA FoundChain ==
  ASSUME history \in SuffixesOf(TopOrder), NEW cs, Typed(cs), Linked(cs), Unique(cs),
         NEW n \in 0 .. TopOrder, NEW chain,
         \A k \in 0 .. n : Found(cs, chain[k], k)
  PROVE  ChainTo(cs, chain, n)
<1> SUFFICES ASSUME NEW k \in 0 .. n
             PROVE  cs[chain[k]].parent = IF k = 0 THEN NULL ELSE chain[k - 1]
  BY DEF ChainTo, Found
<1>1. TopOrder \in Nat /\ k \in 0 .. TopOrder
  BY OrdersFacts
<1>2. CASE k = 0
  BY <1>2 DEF Found, Linked
<1>3. CASE k # 0
  <2>1. k \in 1 .. TopOrder /\ k - 1 \in 0 .. n
    BY <1>1, <1>3
  <2>2. Found(cs, cs[chain[k]].parent, k - 1)
    BY <2>1, ParentFound
  <2>3. Found(cs, chain[k - 1], k - 1)
    BY <2>1
  <2>4. cs[chain[k]].parent = chain[k - 1]
    BY <2>2, <2>3 DEF Found, Unique
  <2> QED
    BY <1>3, <2>4
<1> QED
  BY <1>2, <1>3

(* A context without kids is one nothing of the next order extends.        *)
LEMMA NoneAbove ==
  ASSUME history \in SuffixesOf(TopOrder), NEW cs, Typed(cs), Linked(cs), Unique(cs),
         NEW k \in 1 .. TopOrder, NEW c, Found(cs, c, k - 1), cs[c].kids = 0
  PROVE  NoneOf(cs, k)
<1> SUFFICES ASSUME NEW d \in DOMAIN cs, cs[d].order = k, cs[d].suffix = Suffix(k)
             PROVE  FALSE
  BY DEF NoneOf
<1>1. Found(cs, d, k)
  BY DEF Found
<1>2. Found(cs, cs[d].parent, k - 1)
  BY <1>1, ParentFound
<1>3. cs[d].parent = c
  BY <1>2 DEF Found, Unique
<1>4. d \in KidsOf(cs, c) /\ c \in DOMAIN cs
  BY <1>3 DEF KidsOf, Found
<1>5. IsFiniteSet(KidsOf(cs, c))
  <2>1. KidsOf(cs, c) \in SUBSET DOMAIN cs /\ IsFiniteSet(DOMAIN cs)
    BY DEF KidsOf, Typed
  <2> QED
    BY <2>1, FS_Subset
<1>6. Cardinality(KidsOf(cs, c)) = 0
  BY <1>4 DEF Linked
<1> QED
  BY <1>4, <1>5, <1>6, FS_EmptySet
-----------------------------------------------------------------------------
(* Phase one.                                                              *)
LEMMA HitExact ==
  ASSUME IInv, NEW k \in Orders
  PROVE  \/ Hit[k] = NULL /\ NoneOf(ctx, k)
         \/ Hit[k] # NULL /\ Found(ctx, Hit[k], k)
<1>1. history \in SuffixesOf(TopOrder) /\ Typed(ctx) /\ Tabled(ctx, hashtab)
  BY DEF IInv, TypeInv, Good
<1>2. Suffix(k) \in SuffixesOf(k)
  <2>1. k \in 0 .. TopOrder
    BY OrdersFacts DEF Orders
  <2>2. Suffix(k) \in Seq(Symbols) /\ Len(Suffix(k)) = SuffixLength(k)
    BY <1>1, <2>1, SuffixFacts
  <2> QED
    BY <2>2, SuffixOfType
<1>3. Hit[k] = Find(k, Suffix(k))
  BY DEF Hit
<1>4. \/ /\ Hit[k] = NULL
         /\ \A c \in DOMAIN ctx : ~ (ctx[c].order = k /\ ctx[c].suffix = Suffix(k))
      \/ /\ Hit[k] \in DOMAIN ctx
         /\ ctx[Hit[k]].order = k /\ ctx[Hit[k]].suffix = Suffix(k)
  BY <1>1, <1>2, <1>3, FindExact
<1>5. NULL \notin DOMAIN ctx
  BY <1>1 DEF Typed
<1> QED
  BY <1>4, <1>5 DEF NoneOf, Found

LEMMA FromExact ==
  ASSUME IInv, NEW from, from = From(Hit)
  PROVE  /\ from \in 1 .. MidOrder
         /\ from >= 2 => Found(ctx, Hit[from], from)
         /\ from < MidOrder => NoneOf(ctx, from + 1)
<1> DEFINE known == {k \in 2 .. MidOrder : Hit[k] # NULL}
<1>1. MidOrder \in Nat /\ MidOrder >= 2 /\ 2 .. MidOrder \subseteq Orders
  BY OrdersFacts DEF Orders
<1>2. CASE known = {}
  <2>1. from = 1
    BY <1>2 DEF From
  <2>2. 2 \in 2 .. MidOrder /\ 2 \in Orders
    BY <1>1
  <2>3. Hit[2] = NULL
    BY <1>2, <2>2
  <2>4. NoneOf(ctx, 2)
    BY <2>2, <2>3, HitExact
  <2> QED
    BY <1>1, <2>1, <2>4
<1>3. CASE known # {}
  <2>1. known \in SUBSET Nat /\ \A k \in known : k <= MidOrder
    BY <1>1
  <2>2. Max(known) \in known /\ \A k \in known : Max(known) >= k
    BY <1>1, <1>3, <2>1, MaxMember
  <2>3. from = Max(known)
    BY <1>3 DEF From
  <2>4. from \in 2 .. MidOrder /\ Hit[from] # NULL /\ \A k \in known : from >= k
    BY <2>2, <2>3
  <2>5. Found(ctx, Hit[from], from)
    BY <1>1, <2>4, HitExact
  <2>6. ASSUME from < MidOrder PROVE NoneOf(ctx, from + 1)
    <3>1. PICK k \in 2 .. MidOrder : k = from + 1
      BY <1>1, <2>4, <2>6
    <3>2. k \notin known
      BY <2>4, <3>1
    <3>3. Hit[k] = NULL /\ k \in Orders
      BY <1>1, <3>2
    <3>4. NoneOf(ctx, k)
      BY <3>3, HitExact
    <3> QED
      BY <3>1, <3>4
  <2> QED
    BY <1>1, <2>4, <2>5, <2>6
<1> QED
  BY <1>2, <1>3

LEMMA BelowFound ==
  ASSUME IInv, NEW from \in 2 .. TopOrder, NEW top, Found(ctx, top, from),
         NEW k \in 2 .. from
  PROVE  \E c \in DOMAIN ctx : Found(ctx, c, k)
<1> SUFFICES ASSUME ~ \E c \in DOMAIN ctx : Found(ctx, c, k) PROVE FALSE
  OBVIOUS
<1> DEFINE B == {j \in 2 .. from : ~ \E c \in DOMAIN ctx : Found(ctx, c, j)}
<1>1. TopOrder \in Nat /\ from \in Nat /\ from <= TopOrder
  BY OrdersFacts
<1>2. B \in SUBSET Nat /\ B # {} /\ \A j \in B : j <= from
  BY <1>1
<1>3. PICK m \in B : \A j \in B : m >= j
  BY <1>1, <1>2, MaxMember
<1>4. m # from
  BY DEF Found
<1>5. m + 1 \in 2 .. from /\ m + 1 \notin B /\ m + 1 \in 1 .. TopOrder
  BY <1>1, <1>3, <1>4
<1>6. PICK c \in DOMAIN ctx : Found(ctx, c, m + 1)
  BY <1>5
<1>7. Found(ctx, ctx[c].parent, m + 1 - 1)
  BY <1>5, <1>6, ParentFound DEF IInv, TypeInv, Good
<1>8. m + 1 - 1 = m
  BY <1>1
<1>9. Found(ctx, ctx[c].parent, m) /\ ctx[c].parent \in DOMAIN ctx
  BY <1>7, <1>8 DEF Found
<1> QED
  BY <1>3, <1>9

LEMMA UpExact ==
  ASSUME IInv, NEW hit, NEW from \in 2 .. TopOrder, Found(ctx, hit[from], from)
  PROVE  \A k \in 2 .. from : Found(ctx, Up(hit, from)[k], k)
<1> DEFINE R(f) == f = [k \in 2 .. from |->
                          IF k = from THEN hit[k] ELSE ctx[f[k + 1]].parent]
           up == Up(hit, from)
           g == [k \in 2 .. from |-> CHOOSE c \in DOMAIN ctx : Found(ctx, c, k)]
<1>1. history \in SuffixesOf(TopOrder) /\ Typed(ctx) /\ Linked(ctx) /\ Unique(ctx)
  BY DEF IInv, TypeInv, Good
<1>2. TopOrder \in Nat /\ from \in Nat /\ from <= TopOrder
  BY OrdersFacts
<1>3. \A k \in 2 .. from : Found(ctx, g[k], k)
  BY BelowFound
<1> HIDE DEF g
<1>4. g[from] = hit[from]
  <2>1. from \in 2 .. from
    BY <1>2
  <2> QED
    BY <1>1, <1>3, <2>1 DEF Found, Unique
<1>5. ASSUME NEW k \in 2 .. from, k # from PROVE g[k] = ctx[g[k + 1]].parent
  <2>1. PICK m \in 2 .. from : m = k + 1
    BY <1>2, <1>5
  <2>2. m \in 1 .. TopOrder /\ m - 1 = k
    BY <1>2, <2>1
  <2>3. Found(ctx, ctx[g[m]].parent, m - 1)
    BY <1>1, <1>3, <2>2, ParentFound
  <2>4. Found(ctx, g[k], k)
    BY <1>3
  <2>5. g[k] = ctx[g[m]].parent
    BY <1>1, <2>2, <2>3, <2>4 DEF Found, Unique
  <2> QED
    BY <2>1, <2>5
<1>6. R(g)
  <2>1. g = [k \in 2 .. from |-> g[k]]
    BY DEF g
  <2>2. \A k \in 2 .. from :
          g[k] = IF k = from THEN hit[k] ELSE ctx[g[k + 1]].parent
    BY <1>4, <1>5
  <2> QED
    BY <2>1, <2>2
<1>7. up = CHOOSE f : R(f)
  BY Zenon DEF Up
<1>8. R(up)
  <2> HIDE DEF R
  <2> QED
    BY <1>6, <1>7, Zenon
<1>9. \A k \in 2 .. from : up[k] = IF k = from THEN hit[k] ELSE ctx[up[k + 1]].parent
  BY <1>8
<1> HIDE DEF up, R
<1> SUFFICES ASSUME NEW j \in 2 .. from, ~ Found(ctx, up[j], j) PROVE FALSE
  BY DEF up
<1> DEFINE B == {k \in 2 .. from : ~ Found(ctx, up[k], k)}
<1>10. B \in SUBSET Nat /\ B # {} /\ \A k \in B : k <= from
  BY <1>2
<1>11. PICK m \in B : \A k \in B : m >= k
  BY <1>2, <1>10, MaxMember
<1>12. m # from
  BY <1>9, <1>11
<1>13. PICK n \in 2 .. from : n = m + 1
  BY <1>2, <1>11, <1>12
<1>14. n \in 1 .. TopOrder /\ n - 1 = m /\ n \notin B
  BY <1>2, <1>11, <1>13
<1>15. Found(ctx, ctx[up[n]].parent, m)
  BY <1>1, <1>14, ParentFound
<1>16. up[m] = ctx[up[n]].parent
  BY <1>9, <1>11, <1>12, <1>13
<1> QED
  BY <1>11, <1>15, <1>16

LEMMA HighestExact ==
  ASSUME IInv, NEW from, from = From(Hit), NEW last, last = Highest(Hit, from)
  PROVE  /\ last \in from .. TopOrder
         /\ \A k \in 2 .. last : k >= from => Found(ctx, Hit[k], k)
         /\ last < TopOrder => NoneOf(ctx, last + 1)
<1> DEFINE reach == {k \in MidOrder .. TopOrder :
                       \A j \in MidOrder + 1 .. k : HasKids(Hit[j - 1]) /\ Hit[j] # NULL}
<1>1. /\ from \in 1 .. MidOrder
      /\ from >= 2 => Found(ctx, Hit[from], from)
      /\ from < MidOrder => NoneOf(ctx, from + 1)
  BY FromExact
<1>2. TopOrder \in Nat /\ MidOrder \in Nat /\ 2 <= MidOrder /\ MidOrder <= TopOrder
  BY OrdersFacts
<1>3. CASE from # MidOrder
  <2>1. last = from
    BY <1>3 DEF Highest
  <2>2. last \in Nat /\ \A k \in 2 .. last : k >= from => k = from
    BY <1>1, <1>2, <2>1
  <2> QED
    BY <1>1, <1>2, <1>3, <2>1, <2>2
<1>4. CASE from = MidOrder
  <2>1. last = Max(reach)
    BY <1>4 DEF Highest
  <2>2. MidOrder \in reach
    BY <1>2
  <2>3. reach \in SUBSET Nat /\ reach # {} /\ \A k \in reach : k <= TopOrder
    BY <1>2, <2>2
  <2>4. last \in reach /\ \A k \in reach : last >= k
    BY <1>2, <2>1, <2>3, MaxMember
  <2> HIDE DEF reach
  <2>5. /\ last \in MidOrder .. TopOrder
        /\ \A j \in MidOrder + 1 .. last : HasKids(Hit[j - 1]) /\ Hit[j] # NULL
    BY <2>4 DEF reach
  <2>6. ASSUME NEW k \in 2 .. last, k >= from PROVE Found(ctx, Hit[k], k)
    <3>1. k \in Orders /\ (k = from \/ k \in MidOrder + 1 .. last)
      BY <1>2, <1>4, <2>5, <2>6 DEF Orders
    <3> QED
      BY <1>1, <2>5, <2>6, <3>1, HitExact
  <2>7. ASSUME last < TopOrder PROVE NoneOf(ctx, last + 1)
    <3>1. PICK n \in MidOrder .. TopOrder : n = last + 1
      BY <1>2, <2>5, <2>7
    <3>2. n \notin reach /\ n \in Orders /\ n - 1 = last /\ n \in 1 .. TopOrder
      BY <1>2, <2>4, <2>5, <3>1 DEF Orders
    <3>3. PICK j \in MidOrder + 1 .. n : ~ (HasKids(Hit[j - 1]) /\ Hit[j] # NULL)
      BY <3>2 DEF reach
    <3>4. j = n
      BY <1>2, <2>5, <3>1, <3>3
    <3>5. CASE Hit[n] = NULL
      BY <3>1, <3>2, <3>5, HitExact
    <3>6. CASE ~ HasKids(Hit[last])
      <4>1. Found(ctx, Hit[last], last)
        BY <1>2, <1>4, <2>5, <2>6
      <4>2. ctx[Hit[last]].kids = 0
        <5>1. ctx[Hit[last]].kids \in Nat
          BY <4>1 DEF IInv, Good, Typed, ContextType, Found
        <5> QED
          BY <3>6, <5>1 DEF HasKids
      <4>3. NoneOf(ctx, n)
        BY <3>2, <4>1, <4>2, NoneAbove DEF IInv, TypeInv, Good
      <4> QED
        BY <3>1, <4>3
    <3> QED
      BY <3>2, <3>3, <3>4, <3>5, <3>6
  <2> QED
    BY <1>4, <2>5, <2>6, <2>7
<1> QED
  BY <1>3, <1>4

(* A step that leaves the contexts, the tables and the pool alone.         *)
LEMMA SameContexts ==
  ASSUME IInv, UNCHANGED <<ctx, hashtab, freed, fresh, order0, order1>>,
         NEW list, list = lru'[1], ListOf(ctx, list)
  PROVE  Good(ctx, hashtab, lru[1])' /\ Pooled(DOMAIN ctx, freed, fresh)'
<1>1. PICK cs : cs = ctx'
  OBVIOUS
<1>2. Good(cs, hashtab', list) /\ Pooled(DOMAIN cs, freed', fresh')
  BY <1>1 DEF IInv, Good
<1>3. Good(ctx, hashtab, lru[1])'
  BY <1>1, <1>2 DEF Good, Rooted
<1>4. Pooled(DOMAIN ctx, freed, fresh)'
  BY <1>1, <1>2
<1> QED
  BY <1>3, <1>4

LEMMA LocateStep ==
  ASSUME IInv, Locate
  PROVE  IInv'
<1> DEFINE from == From(Hit)
           last == Highest(Hit, from)
           up == Up(Hit, from)
           chain == active'
<1>1. /\ history \in SuffixesOf(TopOrder) /\ Typed(ctx) /\ Linked(ctx) /\ Unique(ctx)
      /\ Rooted(ctx) /\ active \in [0 .. TopOrder -> Nat]
      /\ TopOrder \in Nat /\ MidOrder \in 2 .. TopOrder
  BY OrdersFacts DEF IInv, TypeInv, Good
<1>2. /\ from \in 1 .. MidOrder
      /\ from >= 2 => Found(ctx, Hit[from], from)
  BY FromExact
<1>3. /\ last \in from .. TopOrder
      /\ \A k \in 2 .. last : k >= from => Found(ctx, Hit[k], k)
      /\ last < TopOrder => NoneOf(ctx, last + 1)
  BY HighestExact
<1>4. \A k \in 2 .. from : Found(ctx, up[k], k)
  <2>1. CASE from >= 2
    <3>1. from \in 2 .. TopOrder
      BY <1>1, <1>2, <2>1
    <3> QED
      BY <1>2, <2>1, <3>1, UpExact
  <2>2. CASE from < 2
    BY <1>2, <2>2
  <2> QED
    BY <1>2, <2>1, <2>2
<1>5. /\ chain = [k \in 0 .. TopOrder |->
                    IF k = 0 THEN order0
                    ELSE IF k = 1 THEN order1[history[1]]
                    ELSE IF k <= from THEN up[k]
                    ELSE IF k <= last THEN Hit[k]
                    ELSE active[k]]
      /\ GoOn(last + 1)
      /\ UNCHANGED <<history, ctx, freed, fresh, hashtab, lru,
                     lru_context_count, order0, order1, session>>
  BY DEF Locate
<1> HIDE DEF from, last, up
<1>6. ASSUME NEW k \in 0 .. last PROVE Found(ctx, chain[k], k)
  <2>0. k \in 0 .. TopOrder /\ k \in Nat /\ from \in Nat /\ last \in Nat
    BY <1>1, <1>2, <1>3
  <2>1. CASE k = 0
    <3>1. chain[k] = order0
      BY <1>5, <2>0, <2>1
    <3>2. Found(ctx, order0, 0)
      <4>1. order0 \in DOMAIN ctx /\ ctx[order0].order = 0
        BY <1>1 DEF Rooted
      <4>2. ctx[order0].suffix \in Seq(Symbols) /\ Len(ctx[order0].suffix) = 0
        BY <1>1, <4>1 DEF Typed, ContextType, SuffixLength
      <4>3. ctx[order0].suffix = <<>>
        BY <4>2
      <4> QED
        BY <1>1, <4>1, <4>3, SuffixFacts DEF Found
    <3> QED
      BY <2>1, <3>1, <3>2
  <2>2. CASE k = 1
    <3>1. chain[k] = order1[history[1]]
      BY <1>5, <2>0, <2>2
    <3>2. history[1] \in Symbols /\ Suffix(1) = <<history[1]>>
      BY <1>1, SuffixFacts
    <3> QED
      BY <1>1, <2>2, <3>1, <3>2 DEF Rooted, Found
  <2>3. CASE k >= 2 /\ k <= from
    <3>1. chain[k] = up[k] /\ k \in 2 .. from
      BY <1>5, <2>0, <2>3
    <3> QED
      BY <1>4, <3>1
  <2>4. CASE k >= 2 /\ k > from
    <3>1. chain[k] = Hit[k] /\ k \in 2 .. last /\ k >= from
      BY <1>5, <2>0, <2>4
    <3> QED
      BY <1>3, <3>1
  <2> QED
    BY <2>0, <2>1, <2>2, <2>3, <2>4
<1>7. last \in 0 .. TopOrder /\ last >= 1
  BY <1>1, <1>2, <1>3
<1>8. ChainTo(ctx, chain, last)
  BY <1>1, <1>6, <1>7, FoundChain
<1>9. chain \in [0 .. TopOrder -> Nat]
  <2> SUFFICES ASSUME NEW k \in 0 .. TopOrder PROVE chain[k] \in Nat
    BY <1>5
  <2>1. DOMAIN ctx \subseteq Nat
    BY <1>1 DEF Typed
  <2>2. CASE k <= last
    <3>1. chain[k] \in DOMAIN ctx
      BY <1>6, <1>7, <2>2 DEF Found
    <3> QED
      BY <2>1, <3>1
  <2>3. CASE k > last
    <3>1. chain[k] = active[k]
      BY <1>1, <1>2, <1>3, <1>5, <1>7, <2>3
    <3> QED
      BY <1>1, <3>1
  <2> QED
    BY <1>7, <2>2, <2>3
<1>10. /\ step' = IF last < TopOrder THEN "create" ELSE "mark"
       /\ next' = IF last < TopOrder THEN last + 1 ELSE 2
  BY <1>1, <1>5, <1>7 DEF GoOn
<1>11. TypeInv'
  <2>1. step' \in {"locate", "create", "mark", "coded"} /\ next' \in 2 .. TopOrder + 1
    BY <1>1, <1>7, <1>10
  <2> QED
    BY <1>5, <1>9, <2>1 DEF IInv, TypeInv
<1>12. Good(ctx, hashtab, lru[1])' /\ Pooled(DOMAIN ctx, freed, fresh)'
  BY <1>5, SameContexts DEF IInv, Good
<1>13. StepInv'
  <2>1. PICK cs : cs = ctx'
    OBVIOUS
  <2>2. PICK path : path = active'
    OBVIOUS
  <2>3. PICK n : n = next'
    OBVIOUS
  <2>4. CASE last < TopOrder
    <3>1. n \in 2 .. TopOrder /\ n - 1 = last /\ n = last + 1 /\ step' = "create"
      BY <1>1, <1>7, <1>10, <2>3, <2>4
    <3>2. ChainTo(cs, path, n - 1) /\ NoneOf(cs, n)
      BY <1>3, <1>5, <1>8, <2>1, <2>2, <2>4, <3>1
    <3>3. ChainTo(ctx, active, next - 1)'
      <4>1. PICK m : m = n - 1
        OBVIOUS
      <4>2. ChainTo(cs, path, m) /\ m = next' - 1
        BY <2>3, <3>2, <4>1
      <4>3. \A k \in 0 .. m : Suffix(k)' = Suffix(k)
        BY <1>5 DEF Suffix
      <4>4. \A k \in 0 .. m :
              /\ path[k] \in DOMAIN cs
              /\ cs[path[k]].order = k
              /\ cs[path[k]].suffix = Suffix(k)'
              /\ cs[path[k]].parent = IF k = 0 THEN NULL ELSE path[k - 1]
        BY <4>2, <4>3 DEF ChainTo
      <4> QED
        BY <2>1, <2>2, <4>2, <4>4 DEF ChainTo
    <3>4. NoneOf(ctx, next)'
      <4>1. Suffix(n)' = Suffix(n)
        BY <1>5 DEF Suffix
      <4> QED
        BY <2>1, <2>3, <3>2, <4>1 DEF NoneOf
    <3> QED
      BY <2>3, <3>1, <3>3, <3>4 DEF StepInv
  <2>5. CASE ~ (last < TopOrder)
    <3>1. last = TopOrder /\ next' = 2 /\ step' = "mark"
      BY <1>7, <1>10, <2>5, <1>1
    <3>2. ChainTo(cs, path, TopOrder)
      BY <1>5, <1>8, <2>1, <2>2, <3>1
    <3>3. ChainTo(ctx, active, TopOrder)'
      BY <1>5, <2>1, <2>2, <3>2 DEF ChainTo, Suffix
    <3> QED
      BY <1>1, <3>1, <3>3 DEF StepInv
  <2> QED
    BY <2>4, <2>5
<1> QED
  BY <1>11, <1>12, <1>13 DEF IInv
-----------------------------------------------------------------------------
(* Phase two.                                                              *)
LEMMA KidMade ==
  ASSUME IInv, step = "create",
         NEW kid, kid = Hunk(1),
         NEW cs, cs = WithKid(ctx, kid, next, Suffix(next), active[next - 1]),
         NEW chain, chain = [active EXCEPT ![next] = kid]
  PROVE  /\ kid \in Nat
         /\ Good(cs, Note(hashtab, kid, next, Suffix(next)), <<kid>> \o lru[1])
         /\ Pooled(DOMAIN ctx \union {kid}, IF freed = <<>> THEN <<>> ELSE Tail(freed),
                   IF freed = <<>> THEN fresh + 1 ELSE fresh)
         /\ ChainTo(cs, chain, next)
         /\ next < TopOrder => NoneOf(cs, next + 1)
<1>1. /\ history \in SuffixesOf(TopOrder) /\ active \in [0 .. TopOrder -> Nat]
      /\ next \in 2 .. TopOrder /\ next \in Orders
      /\ ChainTo(ctx, active, next - 1) /\ NoneOf(ctx, next)
      /\ Good(ctx, hashtab, lru[1]) /\ Pooled(DOMAIN ctx, freed, fresh)
      /\ TopOrder \in Nat
  BY OrdersFacts DEF IInv, TypeInv, StepInv, Orders
<1>2. kid = IF freed = <<>> THEN fresh ELSE freed[1]
  <2>1. freed \in Seq(Nat) /\ fresh \in Nat
    BY <1>1 DEF Pooled
  <2>2. CASE freed = <<>>
    BY <2>1, <2>2 DEF Hunk
  <2>3. CASE freed # <<>>
    BY <2>1, <2>3 DEF Hunk
  <2> QED
    BY <2>2, <2>3
<1>3. DOMAIN cs = DOMAIN ctx \union {kid}
  BY DEF WithKid
<1>4. /\ kid \in Nat \ {NULL} /\ kid \notin DOMAIN ctx
      /\ Pooled(DOMAIN ctx \union {kid}, IF freed = <<>> THEN <<>> ELSE Tail(freed),
                IF freed = <<>> THEN fresh + 1 ELSE fresh)
  BY <1>1, <1>2, HunkTaken
<1> DEFINE parent == active[next - 1]
           x == Suffix(next)
<1>5. PICK m \in 1 .. TopOrder : m = next - 1
  BY <1>1
<1>6. Found(ctx, parent, m) /\ m \in 0 .. next - 1
  BY <1>1, <1>5 DEF ChainTo, Found
<1>7. /\ x \in Seq(Symbols) /\ Len(x) = SuffixLength(next)
      /\ SubSeq(x, 1, SuffixLength(m)) = Suffix(m)
  <2>1. next \in 0 .. TopOrder /\ next >= 1
    BY <1>1
  <2> QED
    BY <1>1, <1>5, <2>1, SuffixFacts
<1>8. Good(cs, Note(hashtab, kid, next, x), <<kid>> \o lru[1])
  <2>1. parent \in DOMAIN ctx /\ ctx[parent].order = next - 1
        /\ ctx[parent].suffix = SubSeq(x, 1, SuffixLength(next - 1))
    BY <1>5, <1>6, <1>7 DEF Found
  <2>2. \A c \in DOMAIN ctx : ~ (ctx[c].order = next /\ ctx[c].suffix = x)
    BY <1>1 DEF NoneOf
  <2> HIDE DEF parent, x
  <2>3. cs = WithKid(ctx, kid, next, x, parent)
    BY DEF x, parent
  <2> QED
    BY <1>1, <1>4, <1>7, <2>1, <2>2, <2>3, AddKid
<1>9. Typed(cs) /\ Linked(cs) /\ Unique(cs)
  BY <1>8 DEF Good
<1>10. /\ Found(cs, kid, next) /\ cs[kid].kids = 0
       /\ \A c \in DOMAIN ctx :
            cs[c].order = ctx[c].order /\ cs[c].suffix = ctx[c].suffix
  <2>1. \A c \in DOMAIN ctx : ctx[c] \in ContextType
    BY <1>1 DEF Good, Typed
  <2>2. \A c \in DOMAIN ctx : c # kid
    BY <1>4
  <2> QED
    BY <1>3, <2>1, <2>2 DEF WithKid, NewContext, ContextType, Found
<1>11. \A k \in 0 .. next : Found(cs, chain[k], k)
  <2> SUFFICES ASSUME NEW k \in 0 .. next PROVE Found(cs, chain[k], k)
    OBVIOUS
  <2>1. CASE k = next
    <3>1. chain[k] = kid
      BY <1>1, <2>1
    <3> QED
      BY <1>10, <2>1, <3>1
  <2>2. CASE k # next
    <3>1. k \in 0 .. next - 1 /\ chain[k] = active[k]
      BY <1>1, <2>2
    <3>2. Found(ctx, active[k], k)
      BY <1>1, <3>1 DEF ChainTo, Found
    <3> QED
      BY <1>3, <1>10, <3>1, <3>2 DEF Found
  <2> QED
    BY <2>1, <2>2
<1>12. ChainTo(cs, chain, next)
  <2>1. next \in 0 .. TopOrder
    BY <1>1
  <2> QED
    BY <1>1, <1>9, <1>11, <2>1, FoundChain
<1>13. ASSUME next < TopOrder PROVE NoneOf(cs, next + 1)
  <2>1. PICK k \in 1 .. TopOrder : k = next + 1 /\ k - 1 = next
    BY <1>1, <1>13
  <2>2. NoneOf(cs, k)
    BY <1>1, <1>9, <1>10, <2>1, NoneAbove
  <2> QED
    BY <2>1, <2>2
<1> QED
  BY <1>4, <1>8, <1>12, <1>13

(* What phase two has done once the kid is linked and the lists have room. *)
LEMMA ChainGrown ==
  ASSUME IInv, step = "create", GoOn(next + 1),
         UNCHANGED <<history, order0, order1, session>>,
         NEW cs, cs = ctx', NEW chain \in [0 .. TopOrder -> Nat], chain = active',
         NEW list, lru' \in [1 .. 1 -> Seq(Nat)], list = lru'[1],
         lru_context_count' = Len(list), lru_context_count' < MaxLru,
         Good(cs, hashtab', list), Pooled(DOMAIN cs, freed', fresh'),
         ChainTo(cs, chain, next),
         next < TopOrder => NoneOf(cs, next + 1)
  PROVE  IInv'
<1>1. next \in 2 .. TopOrder /\ TopOrder \in Nat
  BY OrdersFacts DEF IInv, StepInv
<1>2. /\ step' = IF next < TopOrder THEN "create" ELSE "mark"
      /\ next' = IF next < TopOrder THEN next + 1 ELSE 2
  BY <1>1 DEF GoOn
<1>3. TypeInv'
  <2>1. step' \in {"locate", "create", "mark", "coded"} /\ next' \in 2 .. TopOrder + 1
    BY <1>1, <1>2
  <2> QED
    BY <2>1 DEF IInv, TypeInv
<1>4. Good(ctx, hashtab, lru[1])'
  BY DEF Good, Rooted
<1>5. Pooled(DOMAIN ctx, freed, fresh)'
  OBVIOUS
<1>6. \A k \in Nat : Suffix(k)' = Suffix(k)
  BY DEF Suffix
<1>7. \A k \in 0 .. next :
        /\ chain[k] \in DOMAIN cs
        /\ cs[chain[k]].order = k
        /\ cs[chain[k]].suffix = Suffix(k)'
        /\ cs[chain[k]].parent = IF k = 0 THEN NULL ELSE chain[k - 1]
  <2>1. \A k \in 0 .. next : k \in Nat
    BY <1>1
  <2> QED
    BY <1>6, <2>1 DEF ChainTo
<1>8. CASE next < TopOrder
  <2>1. step' = "create" /\ next' \in 2 .. TopOrder /\ next' - 1 = next
        /\ next' = next + 1
    BY <1>1, <1>2, <1>8
  <2>2. ChainTo(ctx, active, next - 1)'
    BY <1>7, <2>1 DEF ChainTo
  <2>3. NoneOf(ctx, next)'
    <3>1. PICK n \in Nat : n = next + 1
      BY <1>1
    <3>2. NoneOf(cs, n) /\ Suffix(n)' = Suffix(n) /\ n = next'
      BY <1>6, <1>8, <2>1, <3>1
    <3> QED
      BY <3>2 DEF NoneOf
  <2>4. StepInv'
    BY <2>1, <2>2, <2>3 DEF StepInv
  <2> QED
    BY <1>3, <1>4, <1>5, <2>4 DEF IInv
<1>9. CASE ~ (next < TopOrder)
  <2>1. step' = "mark" /\ next' \in 2 .. TopOrder /\ next = TopOrder
    BY <1>1, <1>2, <1>9
  <2>2. ChainTo(ctx, active, TopOrder)'
    BY <1>7, <2>1 DEF ChainTo
  <2>3. StepInv'
    BY <2>1, <2>2 DEF StepInv
  <2> QED
    BY <1>3, <1>4, <1>5, <2>3 DEF IInv
<1> QED
  BY <1>8, <1>9

LEMMA CreateKidStep ==
  ASSUME IInv, CreateKid
  PROVE  IInv'
<1>1. /\ step = "create" /\ session = 1
      /\ next \in 2 .. TopOrder /\ next \in Orders /\ TopOrder \in Nat
      /\ active \in [0 .. TopOrder -> Nat]
      /\ lru \in [1 .. 1 -> Seq(Nat)] /\ Distinct(lru[1])
      /\ lru_context_count = Len(lru[1]) /\ lru_context_count < MaxLru
      /\ MaxLru \in Nat
      /\ ToSet(lru[1]) \subseteq DOMAIN ctx
  BY OrdersFacts, LruAssumption
  DEF CreateKid, IInv, TypeInv, StepInv, Good, ListOf, Recyclable, Orders
<1>2. PICK kid : kid = Hunk(1)
  OBVIOUS
<1>3. PICK cs : cs = WithKid(ctx, kid, next, Suffix(next), active[next - 1])
  OBVIOUS
<1>4. PICK tab : tab = Note(hashtab, kid, next, Suffix(next))
  OBVIOUS
<1>5. PICK list : list = <<kid>> \o lru[1]
  OBVIOUS
<1>6. PICK chain : chain = [active EXCEPT ![next] = kid]
  OBVIOUS
<1>7. PICK pulled : pulled = IF freed = <<>> THEN <<>> ELSE Tail(freed)
  OBVIOUS
<1>8. PICK victim : victim = Victim(cs, list)
  OBVIOUS
<1>9. /\ active' = chain /\ GoOn(next + 1)
      /\ fresh' = IF freed = <<>> THEN fresh + 1 ELSE fresh
      /\ UNCHANGED <<history, order0, order1, session>>
      /\ lru_context_count + 1 >= MaxLru =>
           /\ ctx' = Without(cs, victim)
           /\ hashtab' = Drop(tab, cs, victim)
           /\ lru' = [lru EXCEPT ![1] = Cut(list, victim)]
           /\ freed' = <<victim>> \o pulled
           /\ UNCHANGED lru_context_count
      /\ ~ (lru_context_count + 1 >= MaxLru) =>
           /\ ctx' = cs
           /\ hashtab' = tab
           /\ lru' = [lru EXCEPT ![1] = list]
           /\ freed' = pulled
           /\ lru_context_count' = lru_context_count + 1
  BY <1>1, <1>2, <1>3, <1>4, <1>5, <1>6, <1>7, <1>8 DEF CreateKid
<1>10. /\ kid \in Nat /\ Good(cs, tab, list)
       /\ Pooled(DOMAIN ctx \union {kid}, pulled, fresh')
       /\ ChainTo(cs, chain, next)
       /\ next < TopOrder => NoneOf(cs, next + 1)
  BY <1>1, <1>2, <1>3, <1>4, <1>5, <1>6, <1>7, <1>9, KidMade
<1>11. DOMAIN cs = DOMAIN ctx \union {kid}
  BY <1>3 DEF WithKid
<1>12. chain \in [0 .. TopOrder -> Nat] /\ chain[next] = kid
  BY <1>1, <1>6, <1>10
<1>13. list \in Seq(Nat) /\ Distinct(list) /\ Len(list) = lru_context_count + 1
       /\ list[1] = kid
  <2>1. list \in Seq(Nat) /\ Distinct(list)
    BY <1>10 DEF Good, ListOf
  <2>2. lru[1] \in Seq(Nat)
    BY <1>1
  <2>3. Len(list) = Len(lru[1]) + 1 /\ list[1] = kid
    BY <1>5, <1>10, <2>2
  <2> QED
    BY <1>1, <2>1, <2>3
<1>14. CASE lru_context_count + 1 >= MaxLru
  <2>1. PICK new : new = Without(cs, victim)
    OBVIOUS
  <2>2. PICK shorter : shorter = Cut(list, victim)
    OBVIOUS
  <2>3. /\ victim \in ToSet(list) /\ cs[victim].kids = 0
        /\ \A k \in 0 .. next : victim # chain[k]
    <3>1. Len(list) >= MaxLru /\ list[1] = chain[next]
      BY <1>12, <1>13, <1>14
    <3> QED
      BY <1>1, <1>8, <1>10, <3>1, VictimSpare
  <2>4. Good(new, Drop(tab, cs, victim), shorter)
    BY <1>10, <2>1, <2>2, <2>3, DropLeaf
  <2>5. shorter \in Seq(Nat) /\ Len(shorter) = lru_context_count
    BY <1>1, <1>13, <2>2, <2>3, CutMember
  <2>6. /\ DOMAIN new = DOMAIN cs \ {victim} /\ victim \in DOMAIN cs
        /\ \A c \in DOMAIN new :
             /\ new[c].order = cs[c].order
             /\ new[c].suffix = cs[c].suffix
             /\ new[c].parent = cs[c].parent
    <3>1. \A c \in DOMAIN cs : cs[c] \in ContextType
      BY <1>10 DEF Good, Typed
    <3>2. victim \in DOMAIN cs
      BY <1>10, <2>3 DEF Good, ListOf, Recyclable
    <3> QED
      BY <2>1, <3>1, <3>2 DEF Without, ContextType
  <2>7. Pooled(DOMAIN new, <<victim>> \o pulled, fresh')
    <3>1. victim \in DOMAIN ctx \union {kid}
      BY <1>11, <2>6
    <3>2. Pooled((DOMAIN ctx \union {kid}) \ {victim}, <<victim>> \o pulled, fresh')
      BY <1>10, <3>1, HunkReturned
    <3> QED
      BY <1>11, <2>6, <3>2, Zenon
  <2>8. ChainTo(new, chain, next)
    BY <1>10, <2>3, <2>6 DEF ChainTo
  <2>9. next < TopOrder => NoneOf(new, next + 1)
    BY <1>10, <2>6 DEF NoneOf
  <2>10. /\ ctx' = new /\ hashtab' = Drop(tab, cs, victim)
         /\ lru' = [lru EXCEPT ![1] = shorter] /\ freed' = <<victim>> \o pulled
         /\ lru_context_count' = lru_context_count
    BY <1>9, <1>14, <2>1, <2>2
  <2>11. lru' \in [1 .. 1 -> Seq(Nat)] /\ lru'[1] = shorter
    BY <1>1, <2>5, <2>10
  <2>12. Good(new, hashtab', shorter) /\ Pooled(DOMAIN new, freed', fresh')
    BY <2>4, <2>7, <2>10
  <2> QED
    BY <1>1, <1>9, <1>12, <2>5, <2>8, <2>9, <2>10, <2>11, <2>12, ChainGrown
<1>15. CASE ~ (lru_context_count + 1 >= MaxLru)
  <2>1. /\ ctx' = cs /\ hashtab' = tab /\ lru' = [lru EXCEPT ![1] = list]
        /\ freed' = pulled /\ lru_context_count' = lru_context_count + 1
    BY <1>9, <1>15
  <2>2. lru' \in [1 .. 1 -> Seq(Nat)] /\ lru'[1] = list
    BY <1>1, <1>13, <2>1
  <2>3. lru_context_count' = Len(list) /\ lru_context_count' < MaxLru
    <3>1. lru_context_count \in Nat
      BY <1>1
    <3> QED
      BY <1>1, <1>13, <1>15, <2>1, <3>1
  <2>4. Good(cs, hashtab', list) /\ Pooled(DOMAIN cs, freed', fresh')
    BY <1>10, <1>11, <2>1, Zenon
  <2> QED
    BY <1>1, <1>9, <1>10, <1>12, <2>1, <2>2, <2>3, <2>4, ChainGrown
<1> QED
  BY <1>14, <1>15
-----------------------------------------------------------------------------
(* Phase three, and the next byte.                                         *)
LEMMA MarkActiveStep ==
  ASSUME IInv, MarkActive
  PROVE  IInv'
<1>1. /\ step = "mark" /\ session = 1 /\ next \in 2 .. TopOrder /\ TopOrder \in Nat
      /\ lru \in [1 .. 1 -> Seq(Nat)] /\ ListOf(ctx, lru[1])
      /\ lru_context_count = Len(lru[1]) /\ lru_context_count < MaxLru
      /\ ChainTo(ctx, active, TopOrder)
  BY OrdersFacts DEF MarkActive, IInv, TypeInv, StepInv, Good
<1>2. PICK c : c = active[next]
  OBVIOUS
<1>3. PICK old : old = lru[1]
  OBVIOUS
<1>4. PICK list : list = <<c>> \o Cut(old, c)
  OBVIOUS
<1>5. /\ step' = IF next < TopOrder THEN "mark" ELSE "coded"
      /\ next' = next + 1
      /\ UNCHANGED <<history, active, ctx, freed, fresh, hashtab,
                     lru_context_count, order0, order1, session>>
      /\ lru' = [t \in 1 .. 1 |-> list]
  <2>1. DOMAIN lru = 1 .. 1 /\ \A t \in 1 .. 1 : t = 1
    BY <1>1
  <2> QED
    BY <1>1, <1>2, <1>3, <1>4, <2>1 DEF MarkActive
<1>6. c \in DOMAIN ctx /\ ctx[c].order = next
  <2>1. next \in 0 .. TopOrder
    BY <1>1
  <2> QED
    BY <1>1, <1>2, <2>1 DEF ChainTo
<1>7. /\ old \in Seq(Nat) /\ Distinct(old) /\ ToSet(old) = Recyclable(ctx)
      /\ c \in ToSet(old)
  <2>1. ctx[c].order >= 2
    BY <1>1, <1>6
  <2> QED
    BY <1>1, <1>3, <1>6, <2>1 DEF ListOf, Recyclable
<1>8. PICK rest : rest = Cut(old, c)
  OBVIOUS
<1>9. /\ rest \in Seq(Nat) /\ Len(rest) = Len(old) - 1 /\ Distinct(rest)
      /\ ToSet(rest) = ToSet(old) \ {c}
  BY <1>7, <1>8, CutMember
<1>10. c \in Nat /\ c \notin ToSet(rest)
  <2>1. ToSet(old) \subseteq Nat
    BY <1>7, ToSetMembers
  <2> QED
    BY <1>7, <1>9, <2>1
<1>11. /\ list \in Seq(Nat) /\ Len(list) = Len(rest) + 1 /\ Distinct(list)
       /\ ToSet(list) = ToSet(rest) \union {c}
  BY <1>4, <1>8, <1>9, <1>10, Prepended
<1>12. ListOf(ctx, list)
  <2>1. ToSet(list) = Recyclable(ctx)
    BY <1>7, <1>9, <1>11
  <2> QED
    BY <1>11, <2>1 DEF ListOf
<1>13. lru' \in [1 .. 1 -> Seq(Nat)] /\ lru'[1] = list
  BY <1>5, <1>11
<1>14. Len(list) = Len(old)
  BY <1>7, <1>9, <1>11
<1>15. Good(ctx, hashtab, lru[1])' /\ Pooled(DOMAIN ctx, freed, fresh)'
  BY <1>5, <1>12, <1>13, SameContexts
<1>16. TypeInv'
  <2>1. step' \in {"locate", "create", "mark", "coded"} /\ next' \in 2 .. TopOrder + 1
    BY <1>1, <1>5
  <2>2. lru_context_count' = Len(lru'[1]) /\ lru_context_count' < MaxLru
    BY <1>1, <1>3, <1>5, <1>13, <1>14
  <2> QED
    BY <1>5, <1>13, <2>1, <2>2 DEF IInv, TypeInv
<1>17. StepInv'
  <2>1. ChainTo(ctx, active, TopOrder)'
    BY <1>1, <1>5 DEF ChainTo, Suffix
  <2>2. step' = "mark" => next' \in 2 .. TopOrder
    BY <1>1, <1>5
  <2>3. step' # "create"
    BY <1>5
  <2> QED
    BY <2>1, <2>2, <2>3 DEF StepInv
<1> QED
  BY <1>15, <1>16, <1>17 DEF IInv

LEMMA NextByteStep ==
  ASSUME IInv, NextByte
  PROVE  IInv'
<1>1. /\ history \in SuffixesOf(TopOrder) /\ ListOf(ctx, lru[1])
      /\ TopOrder \in Nat /\ 2 <= TopOrder
  BY OrdersFacts DEF IInv, TypeInv, Good
<1>2. PICK byte \in Symbols :
        history' = <<byte>> \o SubSeq(history, 1, SuffixLen[TopOrder] - 1)
  BY DEF NextByte
<1>3. history' \in SuffixesOf(TopOrder)
  <2>1. PICK n \in Nat : n = SuffixLen[TopOrder] /\ n >= 1
    <3>1. SuffixLength(1) <= SuffixLen[TopOrder] /\ SuffixLength(1) = 1
          /\ SuffixLen[TopOrder] \in Nat
      BY OrdersFacts DEF SuffixLength
    <3> QED
      BY <3>1
  <2>2. history \in Seq(Symbols) /\ Len(history) = n
    BY <1>1, <2>1 DEF SuffixesOf
  <2>3. PICK kept : kept = SubSeq(history, 1, n - 1)
    OBVIOUS
  <2>4. kept \in Seq(Symbols) /\ Len(kept) = n - 1
    BY <2>1, <2>2, <2>3
  <2>5. <<byte>> \o kept \in Seq(Symbols) /\ Len(<<byte>> \o kept) = n
    BY <2>1, <2>4
  <2>6. history' \in Seq(Symbols) /\ Len(history') = n
    BY <1>2, <2>1, <2>3, <2>5
  <2> QED
    BY <2>1, <2>6 DEF SuffixesOf
<1>4. Good(ctx, hashtab, lru[1])' /\ Pooled(DOMAIN ctx, freed, fresh)'
  BY <1>1, SameContexts DEF NextByte
<1>5. TypeInv'
  <2>1. 2 \in 2 .. TopOrder + 1
    BY <1>1
  <2> QED
    BY <1>3, <2>1 DEF NextByte, IInv, TypeInv
<1>6. StepInv'
  BY DEF NextByte, StepInv
<1> QED
  BY <1>4, <1>5, <1>6 DEF IInv
-----------------------------------------------------------------------------
(* trie_Create: one context of order 0, and one of order 1 for each symbol. *)
LEMMA FirstContexts ==
  ASSUME Init
  PROVE  Typed(ctx) /\ Linked(ctx) /\ Unique(ctx) /\ Rooted(ctx)
         /\ \A c \in DOMAIN ctx : ctx[c].order < 2
<1>1. PICK n \in Nat : n = SymbolCount
  BY OrdersFacts
<1>2. Symbols = 0 .. n - 1 /\ TopOrder \in Nat /\ 2 <= TopOrder
  BY <1>1, OrdersFacts DEF Symbols
<1>3. /\ DOMAIN ctx = 1 .. n + 1
      /\ ctx = [c \in DOMAIN ctx |-> ctx[c]]
      /\ \A c \in 1 .. n + 1 :
           ctx[c] = IF c = 1 THEN [order |-> 0, suffix |-> <<>>, parent |-> 0, kids |-> n]
                    ELSE [order |-> 1, suffix |-> <<n + 1 - c>>, parent |-> 1, kids |-> 0]
  BY <1>1 DEF Init, NewContext, NULL
<1>4. 1 \in 1 .. n + 1 /\ \A c \in 1 .. n + 1 : c = 1 \/ c \in 2 .. n + 1
  BY <1>1
<1>5. \A c \in 2 .. n + 1 : c # 1 /\ c \in 1 .. n + 1 /\ n + 1 - c \in Symbols
  BY <1>1, <1>2
<1>6. ctx[1] = [order |-> 0, suffix |-> <<>>, parent |-> 0, kids |-> n]
  BY <1>3, <1>4
<1>7. \A c \in 2 .. n + 1 :
        ctx[c] = [order |-> 1, suffix |-> <<n + 1 - c>>, parent |-> 1, kids |-> 0]
  BY <1>3, <1>5
<1>a. /\ ctx[1].order = 0 /\ ctx[1].suffix = <<>>
      /\ ctx[1].parent = 0 /\ ctx[1].kids = n
  BY <1>6
<1>b. ASSUME NEW c \in 2 .. n + 1
      PROVE  /\ ctx[c].order = 1 /\ ctx[c].suffix = <<n + 1 - c>>
             /\ ctx[c].parent = 1 /\ ctx[c].kids = 0
  <2>1. ctx[c] = [order |-> 1, suffix |-> <<n + 1 - c>>, parent |-> 1, kids |-> 0]
    BY <1>7
  <2> QED
    BY <2>1
<1>8. Typed(ctx)
  <2>1. 0 \in 0 .. TopOrder /\ 1 \in 0 .. TopOrder /\ <<>> \in Seq(Symbols)
    BY <1>2
  <2>2. ctx[1] \in ContextType /\ Len(ctx[1].suffix) = SuffixLength(ctx[1].order)
    BY <1>1, <1>6, <2>1 DEF ContextType, SuffixLength
  <2>3. ASSUME NEW c \in 2 .. n + 1
        PROVE  ctx[c] \in ContextType /\ Len(ctx[c].suffix) = SuffixLength(ctx[c].order)
    <3>1. PICK x \in Symbols : x = n + 1 - c
      BY <1>5
    <3>2. <<x>> \in Seq(Symbols) /\ Len(<<x>>) = 1
      OBVIOUS
    <3>3. ctx[c] = [order |-> 1, suffix |-> <<x>>, parent |-> 1, kids |-> 0]
      BY <1>7, <3>1
    <3> QED
      BY <2>1, <3>2, <3>3 DEF ContextType, SuffixLength
  <2>4. IsFiniteSet(DOMAIN ctx) /\ DOMAIN ctx \subseteq Nat \ {NULL}
    <3>1. PICK m \in Nat : m = n + 1
      BY <1>1
    <3>2. IsFiniteSet(1 .. m)
      BY FS_Interval
    <3> QED
      BY <1>3, <3>1, <3>2 DEF NULL
  <2>5. \A c \in DOMAIN ctx :
          ctx[c] \in ContextType /\ Len(ctx[c].suffix) = SuffixLength(ctx[c].order)
    BY <1>3, <1>4, <2>2, <2>3
  <2>6. ctx \in [DOMAIN ctx -> ContextType]
    BY <1>3, <2>5
  <2> QED
    BY <2>4, <2>5, <2>6 DEF Typed
<1>9. Linked(ctx)
  <2>1. KidsOf(ctx, 1) = 2 .. n + 1
    <3>1. KidsOf(ctx, 1) = {c \in 1 .. n + 1 : ctx[c].parent = 1}
      BY <1>3 DEF KidsOf
    <3>2. ctx[1].parent = 0 /\ \A c \in 2 .. n + 1 : ctx[c].parent = 1
      BY <1>a, <1>b
    <3> QED
      BY <1>4, <1>5, <3>1, <3>2
  <2>2. Cardinality(2 .. n + 1) = n
    <3>1. PICK m \in Nat : m = n + 1
      BY <1>1
    <3>2. Cardinality(2 .. m) = IF 2 > m THEN 0 ELSE m - 2 + 1
      BY FS_Interval
    <3> QED
      BY <1>1, <3>1, <3>2
  <2>3. ASSUME NEW c \in 2 .. n + 1 PROVE KidsOf(ctx, c) = {}
    <3>1. \A d \in DOMAIN ctx : ctx[d].parent \in {0, 1}
      BY <1>3, <1>4, <1>a, <1>b
    <3>2. c # 0 /\ c # 1
      BY <1>1
    <3> QED
      BY <3>1, <3>2 DEF KidsOf
  <2>4. ASSUME NEW c \in 2 .. n + 1
        PROVE  SubSeq(<<n + 1 - c>>, 1, SuffixLength(0)) = <<>>
    <3>1. PICK x \in Symbols : x = n + 1 - c
      BY <1>5
    <3>2. SubSeq(<<x>>, 1, 0) = <<>>
      OBVIOUS
    <3> QED
      BY <3>1, <3>2 DEF SuffixLength
  <2>5. /\ ctx[1].kids = Cardinality(KidsOf(ctx, 1))
        /\ ctx[1].order = 0 /\ ctx[1].parent = NULL
    BY <1>a, <2>1, <2>2 DEF NULL
  <2>6. ASSUME NEW c \in 2 .. n + 1
        PROVE  /\ ctx[c].kids = Cardinality(KidsOf(ctx, c))
               /\ ctx[c].order = 1 /\ ctx[c].parent = 1
               /\ ctx[1].suffix = SubSeq(ctx[c].suffix, 1, SuffixLength(0))
    BY <1>a, <1>b, <2>3, <2>4, FS_EmptySet
  <2>7. 1 - 1 = 0 /\ 1 > 0 /\ ~ (0 > 0) /\ 1 # 0
    OBVIOUS
  <2>8. 1 \in DOMAIN ctx /\ \A c \in DOMAIN ctx : c = 1 \/ c \in 2 .. n + 1
    BY <1>3, <1>4
  <2> QED
    BY <2>5, <2>6, <2>7, <2>8 DEF Linked
<1>10. Unique(ctx)
  <2> SUFFICES ASSUME NEW c \in DOMAIN ctx, NEW d \in DOMAIN ctx,
                      ctx[c].order = ctx[d].order, ctx[c].suffix = ctx[d].suffix
               PROVE  c = d
    BY DEF Unique
  <2>1. ctx[1].order = 0 /\ \A e \in 2 .. n + 1 : ctx[e].order = 1
    BY <1>a, <1>b
  <2>2. CASE c = 1 \/ d = 1
    BY <1>3, <1>4, <2>1, <2>2
  <2>3. CASE c \in 2 .. n + 1 /\ d \in 2 .. n + 1
    <3>1. <<n + 1 - c>> = <<n + 1 - d>>
      BY <1>b, <2>3
    <3>2. n + 1 - c = n + 1 - d
      BY <3>1
    <3> QED
      BY <1>1, <2>3, <3>2
  <2> QED
    BY <1>3, <1>4, <2>2, <2>3
<1>11. Rooted(ctx)
  <2>1. order0 = 1 /\ order0 \in DOMAIN ctx /\ ctx[order0].order = 0
    BY <1>3, <1>4, <1>a DEF Init
  <2>2. ASSUME NEW i \in Symbols
        PROVE  /\ order1[i] \in DOMAIN ctx
               /\ ctx[order1[i]].order = 1 /\ ctx[order1[i]].suffix = <<i>>
    <3>1. PICK c \in 2 .. n + 1 : c = n + 1 - i /\ n + 1 - c = i
      BY <1>1, <1>2
    <3>2. order1[i] = c
      BY <1>1, <3>1 DEF Init
    <3> QED
      BY <1>3, <1>5, <1>b, <3>1, <3>2
  <2> QED
    BY <2>1, <2>2 DEF Rooted
<1>12. \A c \in DOMAIN ctx : ctx[c].order < 2
  BY <1>3, <1>4, <1>a, <1>b
<1> QED
  BY <1>8, <1>9, <1>10, <1>11, <1>12

LEMMA InitInv ==
  ASSUME OnePass, Init
  PROVE  IInv
<1>1. /\ Typed(ctx) /\ Linked(ctx) /\ Unique(ctx) /\ Rooted(ctx)
      /\ \A c \in DOMAIN ctx : ctx[c].order < 2
      /\ \A c \in DOMAIN ctx : ctx[c].order \in Nat
  <2>1. \A c \in DOMAIN ctx : ctx[c].order \in Nat
    BY FirstContexts, OrdersFacts DEF Typed, ContextType
  <2> QED
    BY <2>1, FirstContexts
<1>2. PICK none : none = <<>>
  OBVIOUS
<1>3. none \in Seq(Nat) /\ Len(none) = 0 /\ Distinct(none)
  BY <1>2 DEF Distinct
<1>4. ToSet(none) = {}
  <2>1. ToSet(none) = {none[i] : i \in 1 .. Len(none)}
    BY <1>3, ToSetMembers
  <2> QED
    BY <1>3, <2>1
<1>5. Tabled(ctx, hashtab)
  <2>1. hashtab = [k \in Orders |-> [i \in Slots |-> none]]
    BY <1>2 DEF Init
  <2>2. \A k \in Orders, i \in Slots : InSlot(ctx, k, i) = {}
    <3>1. \A k \in Orders : k \in Nat /\ k >= 2
      BY OrdersFacts DEF Orders
    <3> QED
      BY <1>1, <3>1 DEF InSlot
  <2>3. hashtab \in [Orders -> [Slots -> Seq(Nat)]]
    BY <1>3, <2>1
  <2>4. \A k \in Orders, i \in Slots : hashtab[k][i] = none
    BY <2>1
  <2> QED
    BY <1>3, <1>4, <2>2, <2>3, <2>4 DEF Tabled
<1>6. lru \in [1 .. 1 -> Seq(Nat)] /\ lru[1] = none
  <2>1. lru = <<none>>
    BY <1>2 DEF Init
  <2>2. \A list \in Seq(Nat) :
          <<list>> \in Seq(Seq(Nat)) /\ Len(<<list>>) = 1 /\ <<list>>[1] = list
    OBVIOUS
  <2>3. lru \in Seq(Seq(Nat)) /\ Len(lru) = 1 /\ lru[1] = none
    BY <1>3, <2>1, <2>2
  <2> QED
    BY <2>3
<1>7. ListOf(ctx, lru[1])
  <2>1. Recyclable(ctx) = {}
    BY <1>1 DEF Recyclable
  <2> QED
    BY <1>3, <1>4, <1>6, <2>1 DEF ListOf
<1>8. Pooled(DOMAIN ctx, freed, fresh)
  <2>1. PICK n \in Nat : n = SymbolCount + 1
    BY OrdersFacts
  <2>2. freed = none /\ fresh = n + 1 /\ DOMAIN ctx = 1 .. n
    <3>1. fresh = n + 1
      BY <2>1, OrdersFacts DEF Init
    <3> QED
      BY <1>2, <2>1, <3>1 DEF Init
  <2>3. fresh \in Nat \ {0} /\ fresh - 1 = n
    BY <2>1, <2>2
  <2>4. {} \union DOMAIN ctx = 1 .. n /\ {} \intersect DOMAIN ctx = {}
    BY <2>2
  <2>5. ToSet(freed) = {} /\ freed \in Seq(Nat) /\ Distinct(freed)
    BY <1>3, <1>4, <2>2
  <2> QED
    BY <2>3, <2>4, <2>5, Zenon DEF Pooled
<1>9. TypeInv
  <2>1. history \in SuffixesOf(TopOrder)
    BY DEF Init, Histories
  <2>2. next = 2 /\ 2 \in 2 .. TopOrder + 1 /\ MaxLru \in Nat /\ 0 < MaxLru
    BY OrdersFacts, LruAssumption DEF Init
  <2>3. active \in [0 .. TopOrder -> Nat]
    BY DEF Init, NULL
  <2>4. lru_context_count = Len(lru[1]) /\ lru_context_count < MaxLru
    BY <1>3, <1>6, <2>2 DEF Init
  <2>5. order0 \in Nat /\ order1 \in [Symbols -> Nat]
    <3>1. PICK n \in Nat : n = SymbolCount
      BY OrdersFacts
    <3>2. Symbols = 0 .. n - 1
      BY <3>1 DEF Symbols
    <3>3. \A i \in Symbols : n + 1 - i \in Nat
      BY <3>2
    <3> QED
      BY <3>1, <3>3 DEF Init
  <2> QED
    BY <1>6, <2>1, <2>2, <2>3, <2>4, <2>5 DEF Init, TypeInv
<1>10. StepInv
  BY DEF Init, StepInv
<1> QED
  BY <1>1, <1>5, <1>7, <1>8, <1>9, <1>10 DEF IInv, Good
-----------------------------------------------------------------------------
LEMMA StepKeeps ==
  ASSUME OnePass, IInv, [Next]_vars
  PROVE  IInv'
<1>1. CASE Locate
  BY <1>1, LocateStep
<1>2. CASE CreateKid
  BY <1>2, CreateKidStep
<1>3. CASE MarkActive
  BY <1>3, MarkActiveStep
<1>4. CASE NextByte
  BY <1>4, NextByteStep
<1>5. CASE NewSession
  BY <1>5 DEF NewSession, OnePass, IInv, TypeInv
<1>6. CASE UNCHANGED vars
  <2>1. Good(ctx, hashtab, lru[1])' /\ Pooled(DOMAIN ctx, freed, fresh)'
    BY <1>6, SameContexts DEF vars, IInv, Good
  <2>2. TypeInv'
    BY <1>6 DEF vars, IInv, TypeInv
  <2>3. StepInv'
    BY <1>6 DEF vars, IInv, StepInv, ChainTo, NoneOf, Suffix
  <2> QED
    BY <2>1, <2>2, <2>3 DEF IInv
<1> QED
  BY <1>1, <1>2, <1>3, <1>4, <1>5, <1>6 DEF Next

THEOREM Invariant ==
  ASSUME OnePass
  PROVE  Spec => []IInv
<1>1. Init => IInv
  BY InitInv
<1>2. IInv /\ [Next]_vars => IInv'
  BY StepKeeps
<1> QED
  BY <1>1, <1>2, PTL DEF Spec

LEMMA Consequences ==
  ASSUME IInv
  PROVE  /\ RecycleSparesActive /\ ActiveChain /\ UniqueContexts
         /\ KidsExact /\ TablesExact
<1>1. /\ Typed(ctx) /\ Linked(ctx) /\ Unique(ctx) /\ Tabled(ctx, hashtab)
      /\ StepInv /\ TopOrder \in Nat /\ 2 <= TopOrder
  BY OrdersFacts DEF IInv, Good
<1>2. RecycleSparesActive
  BY <1>1 DEF RecycleSparesActive, StepInv, ChainTo, Live
<1>3. ActiveChain
  BY <1>1 DEF ActiveChain, StepInv, ChainTo, Live
<1>4. UniqueContexts
  BY <1>1 DEF UniqueContexts, Unique, Live
<1>5. KidsExact
  <2> SUFFICES ASSUME NEW c \in Live
               PROVE  /\ ctx[c].kids = Cardinality(Kids(c))
                      /\ ctx[c].order > 0 =>
                           ctx[c].parent \in Live
                           /\ ctx[ctx[c].parent].order = ctx[c].order - 1
    BY DEF KidsExact
  <2>1. Kids(c) = KidsOf(ctx, c)
    BY DEF Kids, KidsOf, Live
  <2> QED
    BY <1>1, <2>1 DEF Linked, Live
<1>6. TablesExact
  <2> SUFFICES ASSUME NEW k \in Orders, NEW i \in Slots
               PROVE  /\ \A m, n \in DOMAIN hashtab[k][i] :
                           hashtab[k][i][m] = hashtab[k][i][n] => m = n
                      /\ ToSet(hashtab[k][i]) =
                           {c \in Live : ctx[c].order = k /\ Hash(k, ctx[c].suffix) = i}
    BY DEF TablesExact
  <2>1. /\ hashtab[k][i] \in Seq(Nat) /\ Distinct(hashtab[k][i])
        /\ ToSet(hashtab[k][i]) = InSlot(ctx, k, i)
    BY <1>1 DEF Tabled
  <2>2. DOMAIN hashtab[k][i] = 1 .. Len(hashtab[k][i])
    BY <2>1
  <2>3. InSlot(ctx, k, i) =
          {c \in Live : ctx[c].order = k /\ Hash(k, ctx[c].suffix) = i}
    BY DEF InSlot, Live
  <2>4. \A m, n \in DOMAIN hashtab[k][i] :
          hashtab[k][i][m] = hashtab[k][i][n] => m = n
    BY <2>1, <2>2, Zenon DEF Distinct
  <2> QED
    BY <2>1, <2>3, <2>4
<1> QED
  BY <1>2, <1>3, <1>4, <1>5, <1>6

LEMMA Counts ==
  ASSUME OnePass, IInv
  PROVE  TypeOK /\ ListExact /\ PoolExact
<1>1. /\ TypeInv /\ Typed(ctx) /\ ListOf(ctx, lru[1]) /\ session = 1
      /\ Pooled(DOMAIN ctx, freed, fresh)
  BY DEF IInv, Good, TypeInv
<1>2. ListExact
  <2>1. /\ lru[1] \in Seq(Nat) /\ Distinct(lru[1]) /\ ToSet(lru[1]) = Recyclable(ctx)
        /\ lru_context_count = Len(lru[1]) /\ lru_context_count < MaxLru
    BY <1>1 DEF ListOf, TypeInv
  <2>2. Cardinality(ToSet(lru[1])) = Len(lru[1])
    BY <2>1, LengthCounts
  <2>3. Listed = ToSet(lru[1]) /\ Recyclable(ctx) = {c \in Live : ctx[c].order >= 2}
    BY <1>1 DEF Listed, Recyclable, Live
  <2> QED
    BY <1>1, <2>1, <2>2, <2>3 DEF ListExact
<1>3. PoolExact
  BY <1>1, LengthCounts DEF PoolExact, Pooled, Live
<1>4. TypeOK
  <2>1. \A c \in Live : ctx[c].order \in 0 .. TopOrder /\ ctx[c].kids \in Nat
    BY <1>1 DEF Typed, ContextType, Live
  <2>2. session \in 1 .. MaxSessions
    BY <1>1 DEF OnePass
  <2>3. lru_context_count \in 0 .. MaxLru
    <3>1. lru[1] \in Seq(Nat) /\ MaxLru \in Nat
      BY <1>1, LruAssumption DEF TypeInv
    <3> QED
      BY <1>1, <3>1 DEF TypeInv
  <2> QED
    BY <1>1, <2>1, <2>2, <2>3 DEF TypeInv, TypeOK
<1> QED
  BY <1>2, <1>3, <1>4
-----------------------------------------------------------------------------
(* The types of struct Context, struct Trie and the tables hold throughout *)
(* a pass.                                                                 *)
THEOREM TrieTypes ==
  ASSUME OnePass
  PROVE  Spec => []TypeOK
<1>1. IInv => TypeOK
  BY Counts
<1> QED
  BY <1>1, Invariant, PTL

(* When a byte is coded, active_contexts.c holds the chain of contexts     *)
(* that match the end of the input, whatever trie_Fill_Active_Contexts     *)
(* found, made and recycled to get there.                                  *)
THEOREM ChainAtEveryByte ==
  ASSUME OnePass
  PROVE  Spec => []ActiveChain
<1>1. IInv => ActiveChain
  BY Consequences
<1> QED
  BY <1>1, Invariant, PTL

(* mark_new_context_as_most_recently_used never takes a context of the     *)
(* byte being coded, as long as the trie is larger than one chain.         *)
THEOREM RecyclingSpares ==
  ASSUME OnePass
  PROVE  Spec => []RecycleSparesActive
<1>1. IInv => RecycleSparesActive
  BY Consequences
<1> QED
  BY <1>1, Invariant, PTL

(* create_kid and context_delete keep 'kids' the number of contexts whose  *)
(* 'parent' a context is, and 'parent' alive.                              *)
THEOREM ParentsLive ==
  ASSUME OnePass
  PROVE  Spec => []KidsExact
<1>1. IInv => KidsExact
  BY Consequences
<1> QED
  BY <1>1, Invariant, PTL

(* Phase two never duplicates a context, although it stops looking below   *)
(* the first one without kids.                                             *)
THEOREM OneContextPerSuffix ==
  ASSUME OnePass
  PROVE  Spec => []UniqueContexts
<1>1. IInv => UniqueContexts
  BY Consequences
<1> QED
  BY <1>1, Invariant, PTL

(* hash_Note_Context_XX and hash_Drop_Context_XX keep each context alive   *)
(* in its slot, once, and no other, whatever the hash function collides.   *)
THEOREM TablesHoldTheLiving ==
  ASSUME OnePass
  PROVE  Spec => []TablesExact
<1>1. IInv => TablesExact
  BY Consequences
<1> QED
  BY <1>1, Invariant, PTL

(* The list of the trie holds the contexts of orders 2 and up, once each,  *)
(* as many as lru_context_count says, and leaves room for one more.        *)
THEOREM ListHoldsTheRecyclable ==
  ASSUME OnePass
  PROVE  Spec => []ListExact
<1>1. IInv => ListExact
  BY Counts
<1> QED
  BY <1>1, Invariant, PTL

(* pool_Get_Hunk and context_delete neither lose a hunk of the contexts'   *)
(* pool nor give out one in use.                                           *)
THEOREM HunksAccountedFor ==
  ASSUME OnePass
  PROVE  Spec => []PoolExact
<1>1. IInv => PoolExact
  BY Counts
<1> QED
  BY <1>1, Invariant, PTL
=============================================================================
