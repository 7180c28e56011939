----------------------- MODULE ExcludedSymbolsProofs -----------------------
(***************************************************************************)
(* Proofs about ExcludedSymbols, for every number of symbols and width of  *)
(* a stamp, as long as is_set does not wrap.  A message has fewer than     *)
(* 2^32 - 1 bytes, because main.c counts them in a u32 and the first       *)
(* PZIP_SEED_BYTES of them are not coded, so the hypothesis holds of the   *)
(* program.  Then about OrderMinusOne, whatever is excluded.               *)
(***************************************************************************)
EXTENDS OrderMinusOne, Induction, FiniteSetTheorems

(* No message is long enough to wrap is_set.                               *)
NoWrap == MaxClears < StampMod - 1

(* The inductive invariant: is_set counts the bytes begun, so no slot can  *)
(* hold a stamp still to come.                                             *)
IInv ==
  /\ clears \in 0 .. MaxClears
  /\ is_set = clears + 1
  /\ symbol_set \in [Symbols -> 0 .. is_set]
  /\ is_empty \in BOOLEAN
  /\ IsEmptyExact

LEMMA InitIInv == Init => IInv
<1> SUFFICES ASSUME Init PROVE IInv
  OBVIOUS
<1>1. symbol_set \in [Symbols -> 0 .. is_set] /\ clears \in 0 .. MaxClears
  BY ClearsAssumption DEF Init
<1>2. IsEmptyExact
  BY DEF Init, IsEmptyExact, Contains
<1> QED
  BY <1>1, <1>2 DEF Init, IInv

(* A byte begins: the next stamp is one no slot holds.                     *)
LEMMA ClearStep ==
  ASSUME NoWrap, IInv, Clear
  PROVE  /\ is_set' = is_set + 1 /\ clears' = clears + 1
         /\ clears' \in 0 .. MaxClears
         /\ symbol_set' = symbol_set /\ is_empty' = TRUE
         /\ \A s \in Symbols : ~Contains(s)'
<1>1. /\ clears \in 0 .. MaxClears /\ clears < MaxClears /\ is_set = clears + 1
      /\ symbol_set \in [Symbols -> 0 .. is_set]
  BY DEF IInv, Clear
<1>2. (is_set + 1) % StampMod # 0
  <2>1. is_set + 1 \in 1 .. StampMod - 1
    BY <1>1, ClearsAssumption, StampAssumption DEF NoWrap
  <2>2. (is_set + 1) % StampMod = is_set + 1
    BY <2>1, StampAssumption
  <2> QED
    BY <2>1, <2>2
<1>3. /\ is_set' = is_set + 1 /\ clears' = clears + 1
      /\ symbol_set' = symbol_set /\ is_empty' = TRUE
  BY <1>2 DEF Clear
<1>4. ASSUME NEW s \in Symbols PROVE symbol_set'[s] # is_set'
  <2>1. symbol_set[s] \in 0 .. is_set
    BY <1>1
  <2> QED
    BY <1>1, <1>3, <2>1
<1> QED
  BY <1>1, <1>3, <1>4, ClearsAssumption DEF Contains

(* A symbol is excluded: its slot, and no other, joins the set.            *)
LEMMA AddStep ==
  ASSUME IInv, NEW sym \in Symbols, Add(sym)
  PROVE  /\ is_set' = is_set /\ clears' = clears /\ is_empty' = FALSE
         /\ symbol_set' \in [Symbols -> 0 .. is_set']
         /\ \A s \in Symbols : Contains(s)' <=> Contains(s) \/ s = sym
<1>1. /\ is_set' = is_set /\ clears' = clears /\ is_empty' = FALSE
      /\ symbol_set' = [symbol_set EXCEPT ![sym] = is_set]
  BY DEF Add
<1>2. symbol_set \in [Symbols -> 0 .. is_set] /\ is_set \in 0 .. is_set
  BY ClearsAssumption DEF IInv
<1> QED
  BY <1>1, <1>2 DEF Contains

LEMMA NextIInv == NoWrap /\ IInv /\ [Next]_vars => IInv'
<1> SUFFICES ASSUME NoWrap, IInv, [Next]_vars PROVE IInv'
  OBVIOUS
<1>1. CASE Clear
  <2>1. symbol_set' \in [Symbols -> 0 .. is_set']
    <3>1. symbol_set \in [Symbols -> 0 .. is_set] /\ is_set \in Nat
      BY ClearsAssumption DEF IInv
    <3>2. is_set' = is_set + 1 /\ symbol_set' = symbol_set
      BY <1>1, ClearStep
    <3> QED
      BY <3>1, <3>2
  <2>2. IsEmptyExact'
    BY <1>1, ClearStep DEF IsEmptyExact
  <2> QED
    BY <1>1, <2>1, <2>2, ClearStep DEF IInv
<1>2. CASE \E sym \in Symbols : Add(sym)
  <2>1. PICK sym \in Symbols : Add(sym)
    BY <1>2
  <2>2. IsEmptyExact'
    BY <2>1, AddStep DEF IsEmptyExact
  <2> QED
    BY <2>1, <2>2, AddStep DEF IInv
<1>3. CASE UNCHANGED vars
  BY <1>3 DEF vars, IInv, IsEmptyExact, Contains
<1> QED
  BY <1>1, <1>2, <1>3 DEF Next

LEMMA Invariant == ASSUME NoWrap PROVE Spec => []IInv
  BY InitIInv, NextIInv, PTL DEF Spec
-----------------------------------------------------------------------------
(* The fields of struct Excluded_Symbols stay in range.                    *)
THEOREM TypeCorrect == ASSUME NoWrap PROVE Spec => []TypeOK
<1>1. IInv => TypeOK
  BY StampAssumption, ClearsAssumption DEF NoWrap, IInv, TypeOK, Stamps
<1> QED
  BY <1>1, Invariant, PTL

(* is_empty is right whenever it is read.                                  *)
THEOREM EmptyFlag == ASSUME NoWrap PROVE Spec => []IsEmptyExact
<1>1. IInv => IsEmptyExact
  BY DEF IInv
<1> QED
  BY <1>1, Invariant, PTL

(* The array of stamps implements the set: a Clear leaves no member of an  *)
(* earlier byte behind.                                                    *)
THEOREM Refinement == ASSUME NoWrap PROVE Spec => ImplementsSymbolSet
<1>1. Init => Set!Init
  BY DEF Init, Set!Init, Contains
<1>2. NoWrap /\ IInv /\ [Next]_vars => [Set!Next]_Set!vars
  <2> SUFFICES ASSUME NoWrap, IInv, [Next]_vars PROVE [Set!Next]_Set!vars
    OBVIOUS
  <2>1. CASE Clear
    BY <2>1, ClearStep DEF Set!Next, Set!Clear
  <2>2. CASE \E sym \in Symbols : Add(sym)
    <3>1. PICK sym \in Symbols : Add(sym)
      BY <2>2
    <3>2. {s \in Symbols : Contains(s)}' = {s \in Symbols : Contains(s)} \union {sym}
      BY <3>1, AddStep
    <3> QED
      BY <3>1, <3>2, AddStep DEF Set!Next, Set!Add
  <2>3. CASE UNCHANGED vars
    BY <2>3 DEF vars, Set!vars, Contains
  <2> QED
    BY <2>1, <2>2, <2>3 DEF Next
<1> QED
  BY <1>1, <1>2, Invariant, PTL DEF Spec, ImplementsSymbolSet, Set!Spec
-----------------------------------------------------------------------------
(* Some symbols of the array are not excluded: there are finitely many.    *)
LEMMA AllowedFinite ==
  ASSUME NEW first \in Nat, NEW last \in Int
  PROVE  /\ IsFiniteSet(Allowed(first, last))
         /\ Cardinality(Allowed(first, last)) \in Nat
<1>1. IsFiniteSet(first .. last)
  BY FS_Interval
<1>2. Allowed(first, last) \subseteq first .. last
  BY DEF Allowed
<1> QED
  BY <1>1, <1>2, FS_Subset, FS_CardinalityType

(* One step of a walk over them.                                           *)
LEMMA AllowedNext ==
  ASSUME NEW first \in Nat, NEW last \in Int, first <= last
  PROVE  Cardinality(Allowed(first, last))
           = Cardinality(Allowed(first + 1, last)) + IF Contains(first) THEN 0 ELSE 1
<1>1. CASE Contains(first)
  <2>1. Allowed(first, last) = Allowed(first + 1, last)
    BY <1>1 DEF Allowed
  <2> QED
    BY <1>1, <2>1, AllowedFinite
<1>2. CASE ~Contains(first)
  <2>1. /\ Allowed(first, last) = Allowed(first + 1, last) \union {first}
        /\ first \notin Allowed(first + 1, last)
    BY <1>2 DEF Allowed
  <2>2. first + 1 \in Nat
    OBVIOUS
  <2>3. /\ IsFiniteSet(Allowed(first + 1, last))
        /\ Cardinality(Allowed(first + 1, last)) \in Nat
    BY <2>2, AllowedFinite
  <2> QED
    BY <1>2, <2>1, <2>3, FS_AddElement
<1> QED
  BY <1>1, <1>2

(* The total is what lies below a symbol, the symbol, and what lies above. *)
LEMMA AllowedSplit ==
  ASSUME NEW symbol \in Symbols, ~Contains(symbol)
  PROVE  /\ EncodedTotal(symbol) = DecodedTotal
         /\ EncodedLow(symbol) \in Nat /\ EncodedLow(symbol) < DecodedTotal
<1> DEFINE A == Allowed(0, symbol - 1)
           B == Allowed(symbol + 1, SymbolCount - 1)
           C == Allowed(0, SymbolCount - 1)
<1>1. symbol \in Nat /\ symbol < SymbolCount /\ SymbolCount \in Nat
  BY SymbolsAssumption DEF Symbols
<1>2. /\ C = (A \union {symbol}) \union B
      /\ symbol \notin A
      /\ (A \union {symbol}) \intersect B = {}
  BY <1>1 DEF Allowed
<1>3. IsFiniteSet(A) /\ IsFiniteSet(B) /\ Cardinality(A) \in Nat /\ Cardinality(B) \in Nat
  <2>1. 0 \in Nat /\ symbol - 1 \in Int /\ symbol + 1 \in Nat /\ SymbolCount - 1 \in Int
    BY <1>1
  <2> QED
    BY <2>1, AllowedFinite
<1> DEFINE D == A \union {symbol}
<1>4. IsFiniteSet(D) /\ Cardinality(D) = Cardinality(A) + 1
  BY <1>2, <1>3, FS_AddElement
<1>5. Cardinality(C) = Cardinality(D) + Cardinality(B)
  <2>1. C = D \union B /\ D \intersect B = {}
    BY <1>2
  <2> HIDE DEF A, B, C, D
  <2>2. Cardinality(D \union B)
          = Cardinality(D) + Cardinality(B) - Cardinality(D \intersect B)
    BY <1>3, <1>4, FS_Union
  <2>3. Cardinality({}) = 0 /\ Cardinality(D) \in Nat
    BY <1>3, <1>4, FS_EmptySet
  <2>4. Cardinality(C) = Cardinality(D) + Cardinality(B) - 0
    BY <2>1, <2>2, <2>3, Zenon
  <2> QED
    BY <1>3, <2>3, <2>4
<1> HIDE DEF A, B, C, D
<1>6. Cardinality(C) = Cardinality(A) + 1 + Cardinality(B)
  BY <1>3, <1>4, <1>5
<1> QED
  BY <1>3, <1>6 DEF EncodedTotal, EncodedLow, DecodedTotal, A, B, C

(* What the walk of order_minus_one_Decode finds, by the slot it is at and *)
(* what is left of its target.                                             *)
Walks(w) ==
  \A symbol \in 0 .. SymbolCount : \A target \in 0 .. SymbolCount :
    w[<<symbol, target>>] =
      IF symbol = SymbolCount THEN SymbolCount
      ELSE IF Contains(symbol) THEN w[<<symbol + 1, target>>]
      ELSE IF target = 0 THEN symbol
      ELSE w[<<symbol + 1, target - 1>>]

LEMMA WalkExists ==
  \E w : /\ Walks(w)
         /\ \A part \in 0 .. SymbolCount : DecodedSymbol(part) = w[<<0, part>>]
<1> DEFINE N == SymbolCount
           R(f) == f = [at \in (0 .. N) \X (0 .. N) |->
                          IF at[1] = N THEN N
                          ELSE IF Contains(at[1]) THEN f[<<at[1] + 1, at[2]>>]
                          ELSE IF at[2] = 0 THEN at[1]
                          ELSE f[<<at[1] + 1, at[2] - 1>>]]
           D == [0 .. N -> 0 .. N]
           base == [target \in 0 .. N |-> N]
           slot(k) == IF k < N THEN N - 1 - k ELSE 0
           step == [k \in Nat |-> [row \in D |->
                      [target \in 0 .. N |->
                         IF Contains(slot(k)) THEN row[target]
                         ELSE IF target = 0 THEN slot(k)
                         ELSE row[target - 1]]]]
<1>1. N \in Nat
  BY SymbolsAssumption
<1>2. base \in D
  BY <1>1
<1>3. step \in [Nat -> [D -> D]]
  <2>1. ASSUME NEW k \in Nat, NEW row \in D, NEW target \in 0 .. N
        PROVE  (IF Contains(slot(k)) THEN row[target]
                ELSE IF target = 0 THEN slot(k)
                ELSE row[target - 1]) \in 0 .. N
    <3>1. slot(k) \in 0 .. N
      BY <1>1
    <3>2. target # 0 => target - 1 \in 0 .. N
      BY <1>1
    <3> HIDE DEF slot
    <3> QED
      BY <3>1, <3>2
  <2> HIDE DEF slot
  <2> QED
    BY <2>1
<1>4. PICK g \in [0 .. N -> D] : Partial(D, base, step, N, g)
  <2> HIDE DEF D, base, step
  <2> QED
    BY <1>1, <1>2, <1>3, PartialExists
<1>5. /\ g[0] = base
      /\ \A k \in Nat : k < N => g[k + 1] = step[k][g[k]]
  BY <1>4 DEF Partial
<1> DEFINE f == [at \in (0 .. N) \X (0 .. N) |-> g[N - at[1]][at[2]]]
<1>6. R(f)
  <2>1. ASSUME NEW symbol \in 0 .. N, NEW target \in 0 .. N
        PROVE  f[<<symbol, target>>] = IF symbol = N THEN N
                          ELSE IF Contains(symbol) THEN f[<<symbol + 1, target>>]
                          ELSE IF target = 0 THEN symbol
                          ELSE f[<<symbol + 1, target - 1>>]
    <3>1. f[<<symbol, target>>] = g[N - symbol][target]
      OBVIOUS
    <3>2. CASE symbol = N
      <4>1. N - symbol = 0 /\ base[target] = N
        BY <1>1, <3>2
      <4> QED
        BY <1>5, <3>1, <3>2, <4>1
    <3>3. CASE symbol # N
      <4> DEFINE k == N - 1 - symbol
      <4>1. /\ k \in Nat /\ k < N /\ k + 1 = N - symbol /\ symbol + 1 \in 0 .. N
            /\ N - (symbol + 1) = k /\ slot(k) = symbol /\ k \in 0 .. N
            /\ target # 0 => target - 1 \in 0 .. N
        BY <1>1, <3>3
      <4>2. g[N - symbol] = step[k][g[k]] /\ g[k] \in D
        BY <1>4, <1>5, <4>1
      <4>3. step[k][g[k]][target] = IF Contains(slot(k)) THEN g[k][target]
                         ELSE IF target = 0 THEN slot(k)
                         ELSE g[k][target - 1]
        <5> HIDE DEF D, slot, k
        <5> QED
          BY <4>1, <4>2
      <4>4. /\ f[<<symbol + 1, target>>] = g[k][target]
            /\ target # 0 => f[<<symbol + 1, target - 1>>] = g[k][target - 1]
        BY <4>1
      <4> HIDE DEF f, k, slot, step, D
      <4> QED
        BY <3>1, <3>3, <4>1, <4>2, <4>3, <4>4
    <3> QED
      BY <3>2, <3>3
  <2>2. f = [at \in (0 .. N) \X (0 .. N) |-> f[<<at[1], at[2]>>]]
    OBVIOUS
  <2> HIDE DEF f
  <2> QED
    BY <2>1, <2>2
<1> DEFINE w == CHOOSE h : R(h)
<1>7. ASSUME NEW part \in 0 .. SymbolCount PROVE DecodedSymbol(part) = w[<<0, part>>]
  BY Zenon DEF DecodedSymbol
<1> HIDE DEF R
<1>8. R(w)
  BY <1>6, Zenon
<1> HIDE DEF w
<1>9. Walks(w)
  BY <1>8 DEF R, Walks
<1> QED
  BY <1>7, <1>9

(* From any slot before it, a walk that skips as many symbols as are       *)
(* allowed in between ends on the symbol.                                  *)
LEMMA WalkEnds ==
  ASSUME NEW w, Walks(w), NEW symbol \in Symbols, ~Contains(symbol)
  PROVE  \A n \in Nat : n <= symbol =>
           w[<<symbol - n, Cardinality(Allowed(symbol - n, symbol - 1))>>] = symbol
<1> DEFINE low(i) == Cardinality(Allowed(i, symbol - 1))
           S == {n \in Nat : n <= symbol =>
                   /\ low(symbol - n) \in 0 .. n
                   /\ w[<<symbol - n, low(symbol - n)>>] = symbol}
<1>1. symbol \in Nat /\ symbol < SymbolCount /\ SymbolCount \in Nat
  BY SymbolsAssumption DEF Symbols
<1>2. 0 \in S
  <2>1. Allowed(symbol, symbol - 1) = {}
    BY <1>1 DEF Allowed
  <2>2. low(symbol) = 0
    BY <2>1, FS_EmptySet
  <2> HIDE DEF low
  <2>3. symbol - 0 = symbol /\ symbol \in 0 .. SymbolCount /\ 0 \in 0 .. SymbolCount
    BY <1>1
  <2>4. w[<<symbol, 0>>] = symbol
    BY <1>1, <2>3 DEF Walks
  <2> QED
    BY <2>2, <2>3, <2>4
<1>3. ASSUME NEW n \in Nat, n \in S PROVE n + 1 \in S
  <2> SUFFICES ASSUME n + 1 <= symbol
               PROVE  /\ low(symbol - (n + 1)) \in 0 .. n + 1
                      /\ w[<<symbol - (n + 1), low(symbol - (n + 1))>>] = symbol
    OBVIOUS
  <2> DEFINE i == symbol - (n + 1)
  <2>1. /\ i \in Nat /\ i <= symbol - 1 /\ i + 1 = symbol - n /\ symbol - 1 \in Int
        /\ i \in 0 .. SymbolCount /\ i # SymbolCount /\ n <= symbol
    BY <1>1
  <2>2. low(i + 1) \in 0 .. n /\ w[<<i + 1, low(i + 1)>>] = symbol
    BY <1>3, <2>1
  <2> HIDE DEF i
  <2>3. low(i) = low(i + 1) + IF Contains(i) THEN 0 ELSE 1
    BY <2>1, AllowedNext
  <2> HIDE DEF low
  <2>4. low(i) \in 0 .. n + 1 /\ low(i) \in 0 .. SymbolCount
    BY <1>1, <2>1, <2>2, <2>3
  <2>5. w[<<i, low(i)>>] =
          IF Contains(i) THEN w[<<i + 1, low(i)>>]
          ELSE IF low(i) = 0 THEN i
          ELSE w[<<i + 1, low(i) - 1>>]
    BY <2>1, <2>4 DEF Walks
  <2>6. w[<<i, low(i)>>] = symbol
    <3>1. CASE Contains(i)
      <4>1. low(i) = low(i + 1)
        BY <2>2, <2>3, <3>1
      <4> QED
        BY <2>2, <2>5, <3>1, <4>1, Zenon
    <3>2. CASE ~Contains(i)
      <4>1. low(i) # 0 /\ low(i) - 1 = low(i + 1)
        BY <2>2, <2>3, <3>2
      <4> QED
        BY <2>2, <2>5, <3>2, <4>1, Zenon
    <3> QED
      BY <3>1, <3>2
  <2> QED
    BY <2>4, <2>6 DEF i
<1> HIDE DEF S
<1>4. \A n \in Nat : n \in S
  BY <1>2, <1>3, Induct
<1> QED
  BY <1>4 DEF S

(* Order -1 agrees with itself: whatever is excluded, the decoder's walk   *)
(* gives back the symbol the encoder turned into a part of the same total. *)
(* It holds of every array of stamps, wrapped or not.                      *)
THEOREM MinusOneAgrees == Spec => []MinusOneRoundTrip
<1>1. MinusOneRoundTrip
  <2> SUFFICES ASSUME NEW symbol \in Symbols, ~Contains(symbol)
               PROVE  /\ EncodedTotal(symbol) = DecodedTotal
                      /\ EncodedLow(symbol) < DecodedTotal
                      /\ DecodedSymbol(EncodedLow(symbol)) = symbol
    BY DEF MinusOneRoundTrip
  <2>1. symbol \in Nat /\ symbol < SymbolCount /\ SymbolCount \in Nat
    BY SymbolsAssumption DEF Symbols
  <2>2. /\ EncodedTotal(symbol) = DecodedTotal
        /\ EncodedLow(symbol) \in Nat /\ EncodedLow(symbol) < DecodedTotal
    BY AllowedSplit
  <2>3. PICK w : /\ Walks(w)
                 /\ \A part \in 0 .. SymbolCount : DecodedSymbol(part) = w[<<0, part>>]
    BY WalkExists
  <2>4. EncodedLow(symbol) \in 0 .. SymbolCount
    <3>1. /\ DecodedTotal <= SymbolCount /\ DecodedTotal \in Nat
      <4>1. Allowed(0, SymbolCount - 1) \subseteq 0 .. SymbolCount - 1
        BY DEF Allowed
      <4>2. /\ IsFiniteSet(0 .. SymbolCount - 1)
            /\ Cardinality(0 .. SymbolCount - 1) = SymbolCount
        BY <2>1, FS_Interval
      <4> QED
        BY <4>1, <4>2, FS_Subset, FS_CardinalityType DEF DecodedTotal
    <3> QED
      BY <2>1, <2>2, <3>1
  <2>5. w[<<0, EncodedLow(symbol)>>] = symbol
    <3>1. symbol - symbol = 0 /\ symbol <= symbol
      BY <2>1
    <3>2. w[<<symbol - symbol, Cardinality(Allowed(symbol - symbol, symbol - 1))>>] = symbol
      BY <2>1, <2>3, <3>1, WalkEnds
    <3> QED
      BY <3>1, <3>2 DEF EncodedLow
  <2> QED
    BY <2>2, <2>3, <2>4, <2>5
<1> QED
  BY <1>1, PTL
=============================================================================
