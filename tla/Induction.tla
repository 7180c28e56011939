----------------------------- MODULE Induction -----------------------------
(***************************************************************************)
(* Induction on natural numbers and functions defined by recursion, stated *)
(* for sets and functions instead of operators: a set that holds 0 and     *)
(* every successor of its members holds every number.  Also, what every    *)
(* proof needs of products and quotients.                                  *)
(***************************************************************************)
EXTENDS Integers, WellFoundedInduction, TLAPS

(* Division with remainder, in the form the SMT solver can use when the    *)
(* divisor is a constant of the model.                                     *)
LEMMA DivMod ==
  ASSUME NEW n \in Nat, NEW d \in Nat \ {0}
  PROVE  /\ n \div d \in Nat
         /\ n % d \in 0 .. d - 1
         /\ n = d * (n \div d) + (n % d)
  BY SMT

(* Products in order.                                                      *)
LEMMA MulMonotone ==
  ASSUME NEW c \in Nat, NEW m \in Nat, NEW n \in Nat, m <= n
  PROVE  c * m <= c * n /\ c * m \in Nat /\ m * c = c * m
  BY SMT

(* Every set of numbers has a least member.                                *)
LEMMA LeastMember ==
  ASSUME NEW S \in SUBSET Nat, S # {}
  PROVE  \E x \in S : \A y \in S : x <= y
<1>1. IsWellFoundedOn(OpToRel(<, Nat), Nat)
  BY NatLessThanWellFounded
<1>2. PICK x \in S : \A y \in S : ~ (<<y, x>> \in OpToRel(<, Nat))
  BY <1>1, WFMin
<1>3. \A y \in S : ~ (y < x)
  BY <1>2 DEF OpToRel
<1> QED
  BY <1>3

(* Induction.                                                              *)
LEMMA Induct ==
  ASSUME NEW S, 0 \in S, \A n \in Nat : n \in S => n + 1 \in S
  PROVE  \A n \in Nat : n \in S
<1> SUFFICES ASSUME NEW n \in Nat, n \notin S PROVE FALSE
  OBVIOUS
<1>1. PICK x \in Nat \ S : \A y \in Nat \ S : x <= y
  <2>1. Nat \ S \in SUBSET Nat /\ Nat \ S # {}
    OBVIOUS
  <2> QED
    BY <2>1, LeastMember
<1>2. x # 0 /\ x \in Nat
  BY <1>1
<1>3. PICK y \in Nat : x = y + 1
  <2>1. x - 1 \in Nat /\ x = (x - 1) + 1
    BY <1>2
  <2> QED
    BY <2>1
<1>4. y \in S
  BY <1>1, <1>3
<1> QED
  BY <1>1, <1>3, <1>4

(* The values up to a number, when each follows from the one before it.    *)
Partial(D, base, step, n, g) ==
  /\ g \in [0 .. n -> D]
  /\ g[0] = base
  /\ \A k \in Nat : k < n => g[k + 1] = step[k][g[k]]

(* They exist up to any number.                                            *)
LEMMA PartialExists ==
  ASSUME NEW D, NEW base \in D, NEW step \in [Nat -> [D -> D]]
  PROVE  \A n \in Nat : \E g \in [0 .. n -> D] : Partial(D, base, step, n, g)
<1> DEFINE S == {n \in Nat : \E g \in [0 .. n -> D] : Partial(D, base, step, n, g)}
<1>1. 0 \in S
  <2> DEFINE g == [k \in 0 .. 0 |-> base]
  <2>1. Partial(D, base, step, 0, g)
    BY DEF Partial
  <2>2. g \in [0 .. 0 -> D]
    OBVIOUS
  <2> QED
    BY <2>1, <2>2, Zenon
<1>2. ASSUME NEW n \in Nat, n \in S PROVE n + 1 \in S
  <2>1. PICK g \in [0 .. n -> D] : Partial(D, base, step, n, g)
    BY <1>2
  <2> DEFINE h == [k \in 0 .. n + 1 |-> IF k = n + 1 THEN step[n][g[n]] ELSE g[k]]
  <2>2. n \in 0 .. n /\ g[n] \in D /\ step[n][g[n]] \in D
    OBVIOUS
  <2>3. \A k \in 0 .. n + 1 : k # n + 1 => k \in 0 .. n
    OBVIOUS
  <2>4. h \in [0 .. n + 1 -> D]
    BY <2>2, <2>3
  <2>5. h[0] = base
    BY <2>1 DEF Partial
  <2>6. ASSUME NEW k \in Nat, k < n + 1 PROVE h[k + 1] = step[k][h[k]]
    <3>1. k \in 0 .. n /\ k + 1 \in 0 .. n + 1 /\ h[k] = g[k]
      BY <2>6
    <3>2. CASE k = n
      BY <3>1, <3>2
    <3>3. CASE k < n
      <4>1. h[k + 1] = g[k + 1]
        BY <3>1, <3>3
      <4>2. g[k + 1] = step[k][g[k]]
        BY <2>1, <3>3 DEF Partial
      <4> QED
        BY <3>1, <4>1, <4>2
    <3> QED
      BY <3>2, <3>3, <2>6
  <2> HIDE DEF h
  <2>7. Partial(D, base, step, n + 1, h)
    BY <2>4, <2>5, <2>6 DEF Partial
  <2>8. n + 1 \in Nat
    OBVIOUS
  <2> QED
    BY <2>4, <2>7, <2>8
<1> HIDE DEF S
<1>3. \A n \in Nat : n \in S
  BY <1>1, <1>2, Induct
<1> QED
  BY <1>3 DEF S

(* They agree where both are defined.                                      *)
LEMMA PartialUnique ==
  ASSUME NEW D, NEW base \in D, NEW step \in [Nat -> [D -> D]],
         NEW m \in Nat, NEW n \in Nat, m <= n,
         NEW g, Partial(D, base, step, m, g),
         NEW h, Partial(D, base, step, n, h)
  PROVE  \A k \in 0 .. m : g[k] = h[k]
<1> DEFINE S == {k \in Nat : k <= m => g[k] = h[k]}
<1>1. 0 \in S
  BY DEF Partial
<1>2. ASSUME NEW k \in Nat, k \in S PROVE k + 1 \in S
  <2> SUFFICES ASSUME k + 1 <= m PROVE g[k + 1] = h[k + 1]
    OBVIOUS
  <2>1. k < m /\ k < n /\ g[k] = h[k]
    BY <1>2
  <2> QED
    BY <2>1 DEF Partial
<1> HIDE DEF S
<1>3. \A k \in Nat : k \in S
  BY <1>1, <1>2, Induct
<1> QED
  BY <1>3 DEF S

(* A step for every number makes a function of the numbers.                *)
Iterates(D, base, step, f) ==
  /\ f \in [Nat -> D]
  /\ f[0] = base
  /\ \A n \in Nat : f[n + 1] = step[n][f[n]]

(* There is such a function.                                               *)
LEMMA Iteration ==
  ASSUME NEW D, NEW base \in D, NEW step \in [Nat -> [D -> D]]
  PROVE  \E f : Iterates(D, base, step, f)
<1> DEFINE G == [n \in Nat |-> CHOOSE g \in [0 .. n -> D] :
                                 Partial(D, base, step, n, g)]
           f == [n \in Nat |-> G[n][n]]
<1>1. ASSUME NEW n \in Nat
      PROVE  G[n] \in [0 .. n -> D] /\ Partial(D, base, step, n, G[n])
  <2>1. \E g \in [0 .. n -> D] : Partial(D, base, step, n, g)
    BY PartialExists
  <2>2. G[n] = CHOOSE g \in [0 .. n -> D] : Partial(D, base, step, n, g)
    OBVIOUS
  <2> QED
    BY <2>1, <2>2, Zenon
<1>2. \A n \in Nat : f[n] = G[n][n]
  OBVIOUS
<1> HIDE DEF G
<1>3. f \in [Nat -> D]
  <2>1. ASSUME NEW n \in Nat PROVE G[n][n] \in D
    <3>1. n \in 0 .. n
      OBVIOUS
    <3> QED
      BY <1>1, <3>1
  <2> QED
    BY <2>1
<1> HIDE DEF f
<1>4. f[0] = base
  BY <1>1, <1>2 DEF Partial
<1>5. ASSUME NEW n \in Nat PROVE f[n + 1] = step[n][f[n]]
  <2>1. n + 1 \in Nat /\ n <= n + 1 /\ n \in 0 .. n /\ n < n + 1
    OBVIOUS
  <2>2. Partial(D, base, step, n, G[n]) /\ Partial(D, base, step, n + 1, G[n + 1])
    BY <1>1, <2>1
  <2>3. G[n][n] = G[n + 1][n]
    BY <2>1, <2>2, PartialUnique
  <2>4. G[n + 1][n + 1] = step[n][G[n + 1][n]]
    BY <2>1, <2>2 DEF Partial
  <2> QED
    BY <1>2, <2>1, <2>3, <2>4
<1> QED
  BY <1>3, <1>4, <1>5 DEF Iterates

(* The values along a sequence of steps, one for each number up to N.      *)
Accumulates(D, base, step, N, f) ==
  /\ f \in [0 .. N -> D]
  /\ f[0] = base
  /\ \A n \in 1 .. N : f[n] = step[n][f[n - 1]]

LEMMA Accumulation ==
  ASSUME NEW D, NEW base \in D, NEW N \in Nat, NEW step \in [1 .. N -> [D -> D]]
  PROVE  \E f : Accumulates(D, base, step, N, f)
<1> DEFINE all == [n \in Nat |-> IF n + 1 \in 1 .. N THEN step[n + 1] ELSE [d \in D |-> d]]
<1>1. all \in [Nat -> [D -> D]]
  OBVIOUS
<1>2. \A n \in 1 .. N : n - 1 \in Nat /\ (n - 1) + 1 = n /\ n - 1 < N /\ all[n - 1] = step[n]
  OBVIOUS
<1> HIDE DEF all
<1>3. PICK f \in [0 .. N -> D] : Partial(D, base, all, N, f)
  BY <1>1, PartialExists
<1>4. \A n \in 1 .. N : f[n] = step[n][f[n - 1]]
  BY <1>2, <1>3 DEF Partial
<1> QED
  BY <1>3, <1>4 DEF Partial, Accumulates

(* Whatever takes these steps takes these values.                          *)
Recurs(D, base, step, N, w) ==
  /\ w[0] = base
  /\ \A n \in 1 .. N : w[n - 1] \in D => w[n] = step[n][w[n - 1]]

LEMMA AccumulatesOnly ==
  ASSUME NEW D, NEW base, NEW step, NEW N \in Nat,
         NEW f, Accumulates(D, base, step, N, f),
         NEW w, Recurs(D, base, step, N, w)
  PROVE  \A n \in 0 .. N : w[n] = f[n]
<1> USE DEF Recurs
<1> DEFINE S == {n \in Nat : n <= N => w[n] = f[n]}
<1>1. 0 \in S
  BY DEF Accumulates
<1>2. ASSUME NEW n \in Nat, n \in S PROVE n + 1 \in S
  <2> SUFFICES ASSUME n + 1 <= N PROVE w[n + 1] = f[n + 1]
    OBVIOUS
  <2>1. n + 1 \in 1 .. N /\ (n + 1) - 1 = n /\ n \in 0 .. N /\ w[n] = f[n]
    BY <1>2
  <2>2. f[n] \in D
    BY <2>1 DEF Accumulates
  <2> QED
    BY <2>1, <2>2 DEF Accumulates
<1> HIDE DEF S
<1>3. \A n \in Nat : n \in S
  BY <1>1, <1>2, Induct
<1> QED
  BY <1>3 DEF S
=============================================================================
