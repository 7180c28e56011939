------------------------- MODULE ArithCodecProofs -------------------------
(***************************************************************************)
(* Proofs about the arithmetic coder, for every radix, word width and      *)
(* cumulative total that satisfy its assumptions: ArithEncoder implements  *)
(* CodeInterval, and a decoder of the finished file hears what was sent    *)
(* (ArithCodec).                                                           *)
(*                                                                         *)
(* The bytes read so far are a number; the zones of the encoder, oldest    *)
(* first, are the trail.  Closing the message puts the file's number into  *)
(* the last zone (FinishHolds); each zone contains the next, so the number *)
(* is in all of them (TrailHolds); a decoder whose zone is the encoder's   *)
(* and whose base is the number less the zone's bottom gives the answer    *)
(* whose part the number is in, and takes on the next zone (HearStep).     *)
(***************************************************************************)
EXTENDS ArithCodec, ArithEncoderRefines, Induction, SequenceTheorems, TLAPS

(***************************************************************************)
(* The encoder.                                                            *)
(***************************************************************************)

(* A quotient and a rest below the divisor are the only ones.              *)
LEMMA DivUnique ==
  ASSUME NEW d \in Nat \ {0}, NEW q \in Nat, NEW r \in 0 .. d - 1
  PROVE  (d * q + r) \div d = q /\ (d * q + r) % d = r
  BY Z3T(30)

(* A number below the modulus.                                             *)
LEMMA ModSmall ==
  ASSUME NEW n \in Nat, NEW d \in Nat \ {0}, n < d
  PROVE  n % d = n
  BY SMT

(* A number below twice the modulus.                                       *)
LEMMA ModOnce ==
  ASSUME NEW n \in Nat, NEW d \in Nat \ {0}, d <= n, n < 2 * d
  PROVE  n % d = n - d
  BY SMT

(* Concatenation keeps the elements' set and the first element.            *)
LEMMA Joined ==
  ASSUME NEW S, NEW s \in Seq(S), NEW t \in Seq(S), s # <<>>
  PROVE  /\ s \o t \in Seq(S)
         /\ Len(s \o t) = Len(s) + Len(t)
         /\ (s \o t)[1] = s[1]
         /\ s \o t # <<>>
<1>1. s \o t \in Seq(S) /\ Len(s \o t) = Len(s) + Len(t)
  OBVIOUS
<1>2. Len(s) \in Nat /\ Len(t) \in Nat /\ Len(s) > 0
  OBVIOUS
<1>3. (s \o t)[1] = s[1]
  BY <1>2
<1>4. s \o t # <<>>
  BY <1>1, <1>2
<1> QED
  BY <1>1, <1>3, <1>4

(* One more element.                                                       *)
LEMMA Appended ==
  ASSUME NEW S, NEW s \in Seq(S), NEW e \in S
  PROVE  /\ s \o <<e>> \in Seq(S)
         /\ s \o <<e>> # <<>>
         /\ Len(s \o <<e>>) = Len(s) + 1
         /\ (s \o <<e>>)[1] = IF s = <<>> THEN e ELSE s[1]
<1>1. /\ s \o <<e>> \in Seq(S)
      /\ Len(s \o <<e>>) = Len(s) + 1
      /\ Len(s) \in Nat
  OBVIOUS
<1>2. s \o <<e>> # <<>>
  BY <1>1
<1>3. (s \o <<e>>)[1] = IF s = <<>> THEN e ELSE s[1]
  OBVIOUS
<1> QED
  BY <1>1, <1>2, <1>3

-----------------------------------------------------------------------------
(* The sizes of a word and of a byte.                                      *)
LEMMA Sizes ==
  /\ Radix \in Nat /\ Radix > 1
  /\ MinWide \in Nat /\ MinWide > 0
  /\ One \in Nat /\ One = Radix * MinWide /\ One > MinWide
  /\ Word \in Nat /\ Word = 2 * One
  BY RadixAssumption, MinWideAssumption, SMT DEF One, Word

(* What pzip_Encode relies on when it restores the byte before its buffer. *)
Stuffed(a) ==
  IF a.out = <<>> THEN a.queued_byte = 0 /\ a.base + a.wide <= One
                  ELSE a.out[1] = 0

Sound(a) == a \in ArithType /\ Room(a) /\ Stuffed(a)

(* The inductive invariant: what every call finds and leaves.              *)
IInv ==
  /\ arith \in ArithType
  /\ phase \in {"coding", "done"}
  /\ arith.out # <<>> => arith.out[1] = 0
  /\ phase = "coding" => arith.wide > MinWide /\ Sound(arith)
-----------------------------------------------------------------------------
(* The weights of the digits and the numbers that bytes stand for.         *)
LEMMA Product ==
  ASSUME NEW m \in Nat, NEW n \in Nat
  PROVE  m * n \in Nat /\ m * n = n * m
  BY SMT

(* The digits' weights.                                                    *)
LEMMA PowerFacts ==
  /\ Power[0] = 1
  /\ \A n \in Nat : /\ Power[n] \in Nat \ {0}
                    /\ Power[n + 1] = Radix * Power[n]
<1> DEFINE step == [n \in Nat |-> [v \in Nat |-> Radix * v]]
           R(f) == f = [n \in Nat |-> IF n = 0 THEN 1 ELSE Radix * f[n - 1]]
<1>1. \E f : R(f)
  <2>1. \A v \in Nat : Radix * v \in Nat
    BY MulMonotone, Sizes
  <2>2. step \in [Nat -> [Nat -> Nat]]
    BY <2>1
  <2>3. \A n \in Nat : \A v \in Nat : step[n][v] = Radix * v
    OBVIOUS
  <2> HIDE DEF step
  <2>4. 1 \in Nat
    OBVIOUS
  <2>5. PICK f : Iterates(Nat, 1, step, f)
    BY <2>2, <2>4, Iteration
  <2>6. f \in [Nat -> Nat] /\ f[0] = 1 /\ \A n \in Nat : f[n + 1] = step[n][f[n]]
    BY <2>5 DEF Iterates
  <2>7. ASSUME NEW n \in Nat
        PROVE  f[n] = IF n = 0 THEN 1 ELSE Radix * f[n - 1]
    <3>1. CASE n = 0
      BY <2>6, <3>1
    <3>2. CASE n # 0
      <4>1. n - 1 \in Nat /\ n = (n - 1) + 1
        BY <3>2
      <4>2. f[n] = step[n - 1][f[n - 1]] /\ f[n - 1] \in Nat
        BY <2>6, <4>1
      <4> QED
        BY <2>3, <3>2, <4>1, <4>2
    <3> QED
      BY <3>1, <3>2
  <2>8. f = [n \in Nat |-> f[n]]
    BY <2>6
  <2>9. R(f)
    BY <2>7, <2>8
  <2> QED
    BY <2>9
<1>2. Power = CHOOSE f : R(f)
  BY Zenon DEF Power
<1> HIDE DEF R
<1>3. R(Power)
  BY <1>1, <1>2, Zenon
<1>4. \A n \in Nat : Power[n] = IF n = 0 THEN 1 ELSE Radix * Power[n - 1]
  BY <1>3 DEF R
<1> HIDE DEF step
<1>5. Power[0] = 1 /\ \A n \in Nat : Power[n + 1] = Radix * Power[n]
  <2>1. \A n \in Nat : n + 1 \in Nat /\ n + 1 # 0 /\ (n + 1) - 1 = n
    OBVIOUS
  <2> QED
    BY <1>4, <2>1
<1> DEFINE S == {n \in Nat : Power[n] \in Nat \ {0}}
<1>6. 0 \in S
  BY <1>5
<1>7. ASSUME NEW n \in Nat, n \in S PROVE n + 1 \in S
  <2>1. Radix * Power[n] \in Nat \ {0}
    BY <1>7, Sizes
  <2> QED
    BY <1>5, <2>1
<1> HIDE DEF S
<1>8. \A n \in Nat : n \in S
  BY <1>6, <1>7, Induct
<1> QED
  BY <1>5, <1>8 DEF S

(* The weights of the digits one call may make.                            *)
LEMMA SmallPowers ==
  Power[0] = 1 /\ Power[1] = Radix /\ Power[2] = Radix * Radix
<1>1. 0 \in Nat /\ 1 \in Nat /\ 0 + 1 = 1 /\ 1 + 1 = 2
  OBVIOUS
<1>2. Power[1] = Radix * 1 /\ Power[2] = Radix * Power[1]
  BY <1>1, PowerFacts
<1> QED
  BY <1>2, PowerFacts, Sizes

(* The numbers the prefixes of a sequence of bytes are.                    *)
Prefixes(s, v) ==
  /\ v \in [0 .. Len(s) -> Nat]
  /\ v[0] = 0
  /\ \A n \in 1 .. Len(s) : v[n] = v[n - 1] * Radix + s[n]

(* Value reads them off.                                                   *)
LEMMA PrefixesExist ==
  ASSUME NEW s \in Seq(Byte)
  PROVE  \E v : Prefixes(s, v) /\ Value(s) = v[Len(s)]
<1> DEFINE digit == [n \in Nat |-> IF n + 1 \in 1 .. Len(s) THEN s[n + 1] ELSE 0]
           step == [n \in Nat |-> [v \in Nat |-> v * Radix + digit[n]]]
           R(f) == f = [n \in 0 .. Len(s) |->
                          IF n = 0 THEN 0 ELSE f[n - 1] * Radix + s[n]]
<1>0. Len(s) \in Nat /\ \A n \in 1 .. Len(s) : s[n] \in Nat
  BY Sizes DEF Byte
<1>1. \E f : R(f)
  <2>1. digit \in [Nat -> Nat]
    BY <1>0
  <2>2. \A n \in 1 .. Len(s) : n - 1 \in Nat /\ digit[n - 1] = s[n]
    BY <1>0
  <2> HIDE DEF digit
  <2>3. ASSUME NEW n \in Nat, NEW v \in Nat PROVE v * Radix + digit[n] \in Nat
    <3>1. v * Radix \in Nat /\ digit[n] \in Nat
      BY <2>1, Product, Sizes
    <3> QED
      BY <3>1
  <2>4. step \in [Nat -> [Nat -> Nat]]
    BY <2>3
  <2>5. \A n \in Nat : \A v \in Nat : step[n][v] = v * Radix + digit[n]
    OBVIOUS
  <2> HIDE DEF step
  <2>6. 0 \in Nat
    OBVIOUS
  <2>7. PICK g : Iterates(Nat, 0, step, g)
    BY <2>4, <2>6, Iteration
  <2>8. g \in [Nat -> Nat] /\ g[0] = 0 /\ \A n \in Nat : g[n + 1] = step[n][g[n]]
    BY <2>7 DEF Iterates
  <2> DEFINE f == [n \in 0 .. Len(s) |-> g[n]]
  <2>9. ASSUME NEW n \in 0 .. Len(s)
        PROVE  f[n] = IF n = 0 THEN 0 ELSE f[n - 1] * Radix + s[n]
    <3>1. CASE n = 0
      BY <2>8, <3>1
    <3>2. CASE n # 0
      <4>1. /\ n - 1 \in Nat /\ n = (n - 1) + 1 /\ n \in 1 .. Len(s)
            /\ n - 1 \in 0 .. Len(s)
        BY <1>0, <3>2
      <4>2. g[n] = step[n - 1][g[n - 1]] /\ g[n - 1] \in Nat
        BY <2>8, <4>1
      <4>3. g[n] = g[n - 1] * Radix + s[n]
        BY <2>2, <2>5, <4>1, <4>2
      <4> QED
        BY <3>2, <4>1, <4>3
    <3> QED
      BY <3>1, <3>2
  <2>10. f = [n \in 0 .. Len(s) |-> f[n]]
    OBVIOUS
  <2> HIDE DEF f
  <2>11. R(f)
    BY <2>9, <2>10
  <2> QED
    BY <2>11
<1> DEFINE w == CHOOSE f : R(f)
<1>2. Value(s) = w[Len(s)]
  BY Zenon DEF Value
<1> HIDE DEF R
<1>3. R(w)
  BY <1>1, Zenon
<1> HIDE DEF w
<1>4. /\ w[0] = 0
      /\ \A n \in 1 .. Len(s) : w[n] = w[n - 1] * Radix + s[n]
  <2>1. \A n \in 0 .. Len(s) : w[n] = IF n = 0 THEN 0 ELSE w[n - 1] * Radix + s[n]
    BY <1>3 DEF R
  <2>2. 0 \in 0 .. Len(s) /\ \A n \in 1 .. Len(s) : n \in 0 .. Len(s) /\ n # 0
    BY <1>0
  <2> QED
    BY <2>1, <2>2
<1> DEFINE S == {n \in Nat : n <= Len(s) => w[n] \in Nat}
<1>5. 0 \in S
  BY <1>4
<1>6. ASSUME NEW n \in Nat, n \in S PROVE n + 1 \in S
  <2> SUFFICES ASSUME n + 1 <= Len(s) PROVE w[n + 1] \in Nat
    OBVIOUS
  <2>1. n + 1 \in 1 .. Len(s) /\ (n + 1) - 1 = n /\ w[n] \in Nat
    BY <1>0, <1>6
  <2>2. w[n] * Radix \in Nat
    BY <2>1, MulMonotone, Sizes
  <2> QED
    BY <1>0, <1>4, <2>1, <2>2
<1> HIDE DEF S
<1>7. \A n \in Nat : n \in S
  BY <1>5, <1>6, Induct
<1>8. w \in [0 .. Len(s) -> Nat]
  <2>1. \A n \in 0 .. Len(s) : w[n] \in Nat
    BY <1>7 DEF S
  <2>2. w = [n \in 0 .. Len(s) |-> w[n]]
    <3>1. w = [n \in 0 .. Len(s) |-> IF n = 0 THEN 0 ELSE w[n - 1] * Radix + s[n]]
      BY <1>3, Zenon DEF R
    <3> QED
      BY <3>1
  <2> QED
    BY <2>1, <2>2
<1> QED
  BY <1>2, <1>4, <1>8 DEF Prefixes

(* Any such numbers end in the value.                                      *)
LEMMA ValueIs ==
  ASSUME NEW s \in Seq(Byte), NEW v, Prefixes(s, v)
  PROVE  Value(s) = v[Len(s)] /\ Value(s) \in Nat
<1>1. PICK w : Prefixes(s, w) /\ Value(s) = w[Len(s)]
  BY PrefixesExist
<1>2. Len(s) \in Nat
  OBVIOUS
<1> DEFINE S == {n \in Nat : n <= Len(s) => w[n] = v[n]}
<1>3. 0 \in S
  BY <1>1 DEF Prefixes
<1>4. ASSUME NEW n \in Nat, n \in S PROVE n + 1 \in S
  <2> SUFFICES ASSUME n + 1 <= Len(s) PROVE w[n + 1] = v[n + 1]
    OBVIOUS
  <2>1. n + 1 \in 1 .. Len(s) /\ (n + 1) - 1 = n /\ w[n] = v[n]
    BY <1>2, <1>4
  <2> QED
    BY <1>1, <2>1 DEF Prefixes
<1> HIDE DEF S
<1>5. \A n \in Nat : n \in S
  BY <1>3, <1>4, Induct
<1>6. w[Len(s)] = v[Len(s)]
  BY <1>2, <1>5 DEF S
<1>7. Len(s) \in 0 .. Len(s)
  BY <1>2
<1> QED
  BY <1>1, <1>6, <1>7 DEF Prefixes

(* No bytes.                                                               *)
LEMMA ValueEmpty == Value(<<>>) = 0
<1>1. <<>> \in Seq(Byte) /\ Len(<<>>) = 0
  OBVIOUS
<1>2. PICK v : Prefixes(<<>>, v) /\ Value(<<>>) = v[Len(<<>>)]
  BY <1>1, PrefixesExist
<1> QED
  BY <1>1, <1>2 DEF Prefixes

(* One more byte.                                                          *)
LEMMA ValueAppend ==
  ASSUME NEW s \in Seq(Byte), NEW b \in Byte
  PROVE  Value(s \o <<b>>) = Value(s) * Radix + b /\ Value(s) \in Nat
<1>1. PICK v : Prefixes(s, v) /\ Value(s) = v[Len(s)]
  BY PrefixesExist
<1>2. Len(s) \in Nat /\ b \in Nat
  BY Sizes DEF Byte
<1> DEFINE t == s \o <<b>>
           w == [n \in 0 .. Len(s) + 1 |-> IF n = Len(s) + 1 THEN v[Len(s)] * Radix + b
                                                             ELSE v[n]]
<1>3. /\ t \in Seq(Byte) /\ Len(t) = Len(s) + 1
      /\ t[Len(s) + 1] = b
      /\ \A n \in 1 .. Len(s) : t[n] = s[n]
  OBVIOUS
<1> HIDE DEF t
<1>4. v[Len(s)] \in Nat /\ v[Len(s)] * Radix + b \in Nat
  <2>1. v[Len(s)] \in Nat
    <3>1. Len(s) \in 0 .. Len(s)
      BY <1>2
    <3> QED
      BY <1>1, <3>1 DEF Prefixes
  <2>2. v[Len(s)] * Radix \in Nat
    BY <2>1, MulMonotone, Sizes
  <2> QED
    BY <1>2, <2>1, <2>2
<1>5. \A n \in 0 .. Len(s) + 1 : n # Len(s) + 1 => n \in 0 .. Len(s)
  BY <1>2
<1>6. w \in [0 .. Len(s) + 1 -> Nat]
  BY <1>1, <1>4, <1>5 DEF Prefixes
<1>7. w[0] = 0
  BY <1>1, <1>2 DEF Prefixes
<1>8. ASSUME NEW n \in 1 .. Len(s) + 1 PROVE w[n] = w[n - 1] * Radix + t[n]
  <2>1. n - 1 \in 0 .. Len(s) + 1 /\ n - 1 # Len(s) + 1
    BY <1>2
  <2>2. w[n - 1] = v[n - 1]
    BY <2>1
  <2>3. CASE n = Len(s) + 1
    <3>1. n - 1 = Len(s) /\ n \in 0 .. Len(s) + 1
      BY <1>2, <2>3
    <3>2. w[n] = v[Len(s)] * Radix + b
      BY <2>3, <3>1
    <3> HIDE DEF w
    <3> QED
      BY <1>3, <2>2, <2>3, <3>1, <3>2
  <2>4. CASE n # Len(s) + 1
    <3>1. n \in 1 .. Len(s)
      BY <1>2, <2>4
    <3>2. w[n] = v[n]
      BY <2>4
    <3> QED
      BY <1>1, <1>3, <2>2, <3>1, <3>2 DEF Prefixes
  <2> QED
    BY <2>3, <2>4
<1>9. w[Len(s) + 1] = v[Len(s)] * Radix + b
  BY <1>2
<1> HIDE DEF w
<1>10. Prefixes(t, w)
  BY <1>3, <1>6, <1>7, <1>8 DEF Prefixes
<1> QED
  BY <1>1, <1>3, <1>4, <1>9, <1>10, ValueIs DEF t

(* A run of one byte, as flush_output_queue stores it.                     *)
LEMMA ValueRun ==
  ASSUME NEW s \in Seq(Byte), NEW b \in {0, Radix - 1}, NEW k \in Nat
  PROVE  Value(s \o [i \in 1 .. k |-> b])
           = Value(s) * Power[k] + (IF b = 0 THEN 0 ELSE Power[k] - 1)
<1> DEFINE run(n) == [i \in 1 .. n |-> b]
           S == {n \in Nat : Value(s \o run(n))
                   = Value(s) * Power[n] + (IF b = 0 THEN 0 ELSE Power[n] - 1)}
<1>0. b \in Byte /\ b \in Nat
  BY Sizes DEF Byte
<1>1. ASSUME NEW n \in Nat PROVE s \o run(n) \in Seq(Byte)
  <2>1. run(n) \in Seq(Byte)
    BY <1>0
  <2> QED
    BY <2>1
<1>2. ASSUME NEW n \in Nat PROVE s \o run(n + 1) = (s \o run(n)) \o <<b>>
  <2>1. run(n) \in Seq(Byte) /\ Len(run(n)) = n
    BY <1>0
  <2>2. run(n + 1) \in Seq(Byte) /\ Len(run(n + 1)) = n + 1
    BY <1>0
  <2>3. run(n + 1) = run(n) \o <<b>>
    <3>1. run(n) \o <<b>> \in Seq(Byte) /\ Len(run(n) \o <<b>>) = n + 1
      BY <1>0, <2>1
    <3>2. ASSUME NEW i \in 1 .. n + 1 PROVE run(n + 1)[i] = (run(n) \o <<b>>)[i]
      <4>1. CASE i = n + 1
        BY <2>1, <4>1
      <4>2. CASE i # n + 1
        BY <2>1, <4>2
      <4> QED
        BY <4>1, <4>2
    <3> HIDE DEF run
    <3> QED
      BY <2>2, <3>1, <3>2, SeqEqual
  <2> HIDE DEF run
  <2>4. <<b>> \in Seq(Byte)
    BY <1>0
  <2> DEFINE r == run(n)
             l == <<b>>
  <2>5. r \in Seq(Byte) /\ l \in Seq(Byte)
    BY <2>1, <2>4
  <2> HIDE DEF r, l
  <2>6. (s \o r) \o l = s \o (r \o l)
    BY <2>5, ConcatAssociative
  <2> QED
    BY <2>3, <2>6 DEF r, l
<1>3. s \o run(0) = s
  OBVIOUS
<1> HIDE DEF run
<1>4. Value(s) \in Nat
  BY <1>0, ValueAppend
<1>5. 0 \in S
  <2>1. Value(s) * Power[0] = Value(s) /\ Power[0] - 1 = 0
    BY <1>4, PowerFacts
  <2>2. Value(s \o run(0)) = Value(s)
    BY <1>3, Zenon
  <2>3. Value(s \o run(0))
          = Value(s) * Power[0] + (IF b = 0 THEN 0 ELSE Power[0] - 1)
    <3>1. (IF b = 0 THEN 0 ELSE Power[0] - 1) = 0
      BY <2>1
    <3>2. Value(s) + 0 = Value(s)
      BY <1>4
    <3> QED
      BY <2>1, <2>2, <3>1, <3>2, Zenon
  <2> QED
    BY <2>3
<1>6. ASSUME NEW n \in Nat, n \in S PROVE n + 1 \in S
  <2> DEFINE p == Power[n]
  <2>1. p \in Nat \ {0} /\ Power[n + 1] = Radix * p
    BY PowerFacts
  <2>2. Value(s \o run(n + 1)) = Value(s \o run(n)) * Radix + b
    BY <1>0, <1>1, <1>2, ValueAppend
  <2>3. Value(s \o run(n)) = Value(s) * p + (IF b = 0 THEN 0 ELSE p - 1)
    BY <1>6
  <2> HIDE DEF p
  <2>4. (Value(s) * p) * Radix = Value(s) * (Radix * p)
    BY <1>4, <2>1, Sizes
  <2>5. Value(s) * p \in Nat /\ Radix * p \in Nat
    BY <1>4, <2>1, Sizes
  <2>6. (Value(s) * p + (p - 1)) * Radix = Value(s) * (Radix * p) + Radix * p - Radix
    BY <1>4, <2>1, Sizes
  <2> DEFINE x == Value(s) * p
             y == Radix * p
             z == Value(s) * (Radix * p)
             u == Value(s \o run(n))
             w == Value(s \o run(n + 1))
             q == (x + (p - 1)) * Radix
  <2>7. /\ x \in Nat /\ y \in Nat /\ x * Radix = z /\ q = z + y - Radix
        /\ Power[n + 1] = y /\ w = u * Radix + b
        /\ u = x + (IF b = 0 THEN 0 ELSE p - 1)
    BY <2>1, <2>2, <2>3, <2>4, <2>5, <2>6
  <2>8. w = z + (IF b = 0 THEN 0 ELSE y - 1)
    <3>1. CASE b = 0
      <4>1. u = x
        BY <2>7, <3>1
      <4> HIDE DEF x, y, z, w, u
      <4>2. w = u * Radix
        BY <2>7, <3>1, <4>1, Sizes
      <4> QED
        BY <2>7, <3>1, <4>1, <4>2
    <3>2. CASE b # 0
      <4>1. u = x + (p - 1) /\ b = Radix - 1
        BY <2>7, <3>2
      <4>2. w = q + (Radix - 1)
        BY <2>7, <4>1
      <4>3. z \in Int
        BY <2>7, Sizes
      <4> HIDE DEF x, y, z, w, u, q
      <4> QED
        BY <2>7, <3>2, <4>2, <4>3, Sizes
    <3> QED
      BY <3>1, <3>2
  <2> QED
    BY <2>1, <2>8 DEF S
<1> HIDE DEF S
<1>7. \A n \in Nat : n \in S
  BY <1>5, <1>6, Induct
<1> QED
  BY <1>7 DEF S, run
-----------------------------------------------------------------------------
(* struct Arith with a new free zone, field by field.                      *)
LEMMA NewZone ==
  ASSUME NEW a \in ArithType, NEW base, NEW wide,
         NEW r, r = [a EXCEPT !.base = base, !.wide = wide]
  PROVE  r = [base |-> base, wide |-> wide, queued_byte |-> a.queued_byte,
              queued_ff_bytes |-> a.queued_ff_bytes, out |-> a.out]
  BY DEF ArithType

(* flush_output_queue stores the queued bytes and empties the 0xFF run.    *)
LEMMA FlushStores ==
  ASSUME NEW a \in ArithType, NEW carry \in {0, 1},
         NEW f, f = FlushOutputQueue(a, carry)
  PROVE  /\ f \in ArithType
         /\ f.base = a.base /\ f.wide = a.wide
         /\ f.queued_byte = a.queued_byte
         /\ f.queued_ff_bytes = 0
         /\ f.out # <<>>
         /\ Len(f.out) = Len(a.out) + 1 + a.queued_ff_bytes
         /\ f.out[1] = IF a.out = <<>> THEN (a.queued_byte + carry) % Radix
                                       ELSE a.out[1]
<1> DEFINE first == (a.queued_byte + carry) % Radix
           ff    == (Radix - 1 + carry) % Radix
           run   == [i \in 1 .. a.queued_ff_bytes |-> ff]
<1>1. a.out \in Seq(Byte) /\ a.queued_ff_bytes \in Nat /\ a.queued_byte \in Nat
  BY Sizes DEF ArithType
<1>2. first \in Byte
  <2>1. a.queued_byte + carry \in Nat /\ Radix \in Nat \ {0}
    BY <1>1, Sizes
  <2>2. first \in 0 .. Radix - 1
    BY <2>1, DivMod
  <2> QED
    BY <2>2 DEF Byte
<1>3. ff \in Byte
  <2>1. Radix - 1 + carry \in Nat
    BY Sizes
  <2> QED
    BY <2>1, Sizes, DivMod DEF Byte
<1> HIDE DEF first, ff
<1>4. run \in Seq(Byte) /\ Len(run) = a.queued_ff_bytes
  BY <1>1, <1>3
<1> DEFINE start == a.out \o <<first>>
<1> HIDE DEF run
<1>5. /\ start \in Seq(Byte) /\ start # <<>>
      /\ Len(start) = Len(a.out) + 1
      /\ start[1] = IF a.out = <<>> THEN first ELSE a.out[1]
  BY <1>1, <1>2, Appended
<1> HIDE DEF start
<1>6. /\ start \o run \in Seq(Byte)
      /\ Len(start \o run) = Len(start) + Len(run)
      /\ (start \o run)[1] = start[1]
      /\ start \o run # <<>>
  BY <1>4, <1>5, Joined, SMTT(30)
<1>7. f = [a EXCEPT !.out = start \o run, !.queued_ff_bytes = 0]
  BY DEF FlushOutputQueue, start, run, first, ff
<1> DEFINE out == start \o run
<1> HIDE DEF out
<1>8. f = [base |-> a.base, wide |-> a.wide, queued_byte |-> a.queued_byte,
           queued_ff_bytes |-> 0, out |-> out]
  BY <1>7 DEF ArithType, out
<1>9. f \in ArithType
  BY <1>6, <1>8 DEF ArithType, out
<1>10. /\ Len(f.out) = Len(a.out) + 1 + a.queued_ff_bytes
       /\ f.out[1] = IF a.out = <<>> THEN first ELSE a.out[1]
  BY <1>4, <1>5, <1>6, <1>8 DEF out
<1> QED
  BY <1>6, <1>8, <1>9, <1>10 DEF first, out
-----------------------------------------------------------------------------
(* Shipping a byte: what is left of base is its remainder, a byte wider.   *)
LEMMA TopByte ==
  ASSUME NEW base \in 0 .. Word - 1, NEW byte, NEW rem,
         byte = base \div MinWide, rem = base % MinWide
  PROVE  /\ byte \in 0 .. 2 * Radix - 1
         /\ rem \in 0 .. MinWide - 1
         /\ base = MinWide * byte + rem
         /\ (base * Radix) % One = rem * Radix
         /\ rem * Radix <= One - Radix
<1>1. /\ byte \in Nat
      /\ rem \in 0 .. MinWide - 1
      /\ base = MinWide * byte + rem
  BY Sizes, DivMod
<1>2. byte < 2 * Radix
  <2> SUFFICES ASSUME byte >= 2 * Radix PROVE FALSE
    BY <1>1, Sizes
  <2>1. MinWide * byte >= MinWide * (2 * Radix)
    BY <1>1, Sizes
  <2> QED
    BY <1>1, <2>1, Sizes
<1>3. rem * Radix <= One - Radix /\ rem * Radix \in Nat
  <2>1. rem + 1 <= MinWide
    BY <1>1, Sizes
  <2>2. (rem + 1) * Radix <= MinWide * Radix
    BY <1>1, <2>1, Sizes
  <2> QED
    BY <1>1, <2>2, Sizes
<1>4. base * Radix = One * byte + rem * Radix
  BY <1>1, Sizes
<1>5. (base * Radix) % One = rem * Radix
  <2> DEFINE r == rem * Radix
  <2>1. r \in 0 .. One - 1 /\ One \in Nat \ {0}
    BY <1>3, Sizes
  <2> HIDE DEF r
  <2>2. (One * byte + r) % One = r
    BY <1>1, <2>1, DivUnique
  <2> QED
    BY <1>4, <2>2 DEF r
<1> QED
  BY <1>1, <1>2, <1>3, <1>5, Sizes

(* The carry is the top bit of base.                                       *)
LEMMA CarryBit ==
  ASSUME NEW base \in 0 .. Word - 1
  PROVE  /\ base \div One \in {0, 1}
         /\ base < One => base \div One = 0
<1>1. /\ base \div One \in Nat /\ base % One \in 0 .. One - 1
      /\ base = One * (base \div One) + (base % One)
  <2>1. base \in Nat /\ One \in Nat \ {0}
    BY Sizes
  <2> QED
    BY <2>1, DivMod
<1> DEFINE c == base \div One
<1> HIDE DEF c
<1>2. c \in Nat /\ One * c <= base /\ base < 2 * One
  BY <1>1, Sizes DEF c
<1>3. c < 2
  <2> SUFFICES ASSUME c >= 2 PROVE FALSE
    BY <1>2
  <2>1. One * c >= One * 2
    BY <1>2, Sizes
  <2> QED
    BY <1>2, <2>1, Sizes
<1>4. ASSUME base < One PROVE c = 0
  <2> SUFFICES ASSUME c >= 1 PROVE FALSE
    BY <1>2
  <2>1. One * c >= One * 1
    BY <1>2, Sizes
  <2> QED
    BY <1>2, <1>4, <2>1, Sizes
<1> QED
  BY <1>2, <1>3, <1>4 DEF c

(* A byte of value 0xFF in its low eight bits is 0xFF or 0x1FF.            *)
LEMMA FullByte ==
  ASSUME NEW byte \in 0 .. 2 * Radix - 1, byte % Radix = Radix - 1
  PROVE  byte \in {Radix - 1, 2 * Radix - 1}
<1>1. CASE byte < Radix
  BY <1>1, ModSmall, Sizes
<1>2. CASE byte >= Radix
  <2>1. byte % Radix = byte - Radix
    BY <1>2, ModOnce, Sizes
  <2> QED
    BY <1>2, <2>1, Sizes
<1> QED
  BY <1>1, <1>2, Sizes

(* One turn of the loop of renormalize_and_write_if_needed keeps a sound   *)
(* encoder sound.                                                          *)
LEMMA ShiftByteSound ==
  ASSUME NEW a, Sound(a), a.wide <= MinWide, NEW s, s = ShiftByte(a)
  PROVE  Sound(s) /\ s.wide = a.wide * Radix
<1> DEFINE byte == a.base \div MinWide
           rem  == a.base % MinWide
           q    == QueueTopByte(a)
<1>1. /\ a \in ArithType
      /\ a.base \in 0 .. Word - 1 /\ a.wide \in 1 .. One
      /\ a.queued_byte \in 0 .. 2 * Radix - 1 /\ a.queued_ff_bytes \in Nat
      /\ a.out \in Seq(Byte)
  BY DEF Sound, ArithType
<1>2. /\ byte \in 0 .. 2 * Radix - 1
      /\ rem \in 0 .. MinWide - 1
      /\ a.base = MinWide * byte + rem
      /\ (a.base * Radix) % One = rem * Radix
      /\ rem * Radix <= One - Radix
  BY <1>1, TopByte
<1> HIDE DEF byte, rem
<1>3. /\ a.wide * Radix \in 1 .. One
      /\ rem * Radix \in 0 .. One - 1
  <2>1. a.wide * Radix <= MinWide * Radix /\ a.wide * Radix >= a.wide
    BY <1>1, Sizes
  <2>2. rem * Radix >= 0
    BY <1>2, Sizes
  <2> QED
    BY <1>1, <1>2, <2>1, <2>2, Sizes
(* What the queue holds afterwards.                                        *)
<1>4. /\ q \in ArithType /\ q.base = a.base /\ q.wide = a.wide
      /\ q.queued_byte = IF byte = Radix - 1 THEN a.queued_byte ELSE byte
      /\ q.out # <<>> => q.out[1] = 0
      /\ q.out = <<>> => byte = Radix - 1 /\ a.out = <<>>
  <2>1. CASE byte = Radix - 1
    <3>1. q = [base |-> a.base, wide |-> a.wide, queued_byte |-> a.queued_byte,
               queued_ff_bytes |-> a.queued_ff_bytes + 1, out |-> a.out]
      BY <2>1, <1>1 DEF QueueTopByte, ArithType, byte
    <3>2. q \in ArithType
      BY <3>1, <1>1 DEF ArithType
    <3> HIDE DEF q
    <3> QED
      BY <2>1, <3>1, <3>2 DEF Sound, Stuffed
  <2>2. CASE byte # Radix - 1
    <3> DEFINE carry == a.base \div One
               f == FlushOutputQueue(a, carry)
    <3>1. carry \in {0, 1} /\ (a.base < One => carry = 0)
      BY <1>1, CarryBit
    <3> HIDE DEF carry
    <3>2. /\ f \in ArithType
          /\ f.base = a.base /\ f.wide = a.wide
          /\ f.out # <<>>
          /\ f.out[1] = IF a.out = <<>> THEN (a.queued_byte + carry) % Radix
                                        ELSE a.out[1]
      BY <1>1, <3>1, FlushStores
    <3>3. f.out[1] = 0
      <4>1. CASE a.out = <<>>
        <5>1. a.queued_byte = 0 /\ a.base < One
          BY <4>1, <1>1, Sizes DEF Sound, Stuffed
        <5>2. (0 + carry) % Radix = 0
          BY <5>1, <3>1, ModSmall, Sizes
        <5> QED
          BY <4>1, <5>1, <5>2, <3>2
      <4>2. CASE a.out # <<>>
        BY <4>2, <3>2 DEF Sound, Stuffed
      <4> QED
        BY <4>1, <4>2
    <3>4. q = [f EXCEPT !.queued_byte = byte]
      BY <2>2 DEF QueueTopByte, byte, carry
    <3> HIDE DEF f, q
    <3>5. q = [base |-> f.base, wide |-> f.wide, queued_byte |-> byte,
               queued_ff_bytes |-> f.queued_ff_bytes, out |-> f.out]
      BY <3>2, <3>4 DEF ArithType
    <3>6. q \in ArithType
      BY <3>2, <3>5, <1>2 DEF ArithType
    <3> QED
      BY <2>2, <3>2, <3>3, <3>5, <3>6
  <2> QED
    BY <2>1, <2>2
<1>5. s = [base |-> rem * Radix, wide |-> a.wide * Radix,
           queued_byte |-> q.queued_byte, queued_ff_bytes |-> q.queued_ff_bytes,
           out |-> q.out]
  BY <1>2, <1>4 DEF ShiftByte, ArithType
<1>6. s \in ArithType
  BY <1>3, <1>4, <1>5, Sizes DEF ArithType
<1> HIDE DEF q
(* The zone grows by the factor Radix from rem.                            *)
<1>7. /\ rem * Radix + a.wide * Radix <= Word
      /\ rem * Radix + a.wide * Radix > One => rem + a.wide > MinWide
      /\ rem + a.wide <= MinWide => rem * Radix + a.wide * Radix <= One
  <2>1. rem * Radix + a.wide * Radix = (rem + a.wide) * Radix
    BY <1>1, <1>2, Sizes
  <2>2. rem + a.wide <= MinWide => (rem + a.wide) * Radix <= MinWide * Radix
    BY <1>1, <1>2, Sizes
  <2>3. /\ MinWide * Radix = One /\ One \in Nat /\ Word = 2 * One
        /\ rem + a.wide \in Nat /\ MinWide \in Nat
    BY <1>1, <1>2, Sizes
  <2> DEFINE low == rem * Radix
             width == a.wide * Radix
             top == (rem + a.wide) * Radix
  <2>4. /\ low \in 0 .. One - 1 /\ width \in 1 .. One /\ low + width = top
        /\ rem + a.wide <= MinWide => top <= One
    BY <1>3, <2>1, <2>2, <2>3
  <2> HIDE DEF low, width, top
  <2>5. /\ low + width <= Word
        /\ low + width > One => rem + a.wide > MinWide
        /\ rem + a.wide <= MinWide => low + width <= One
    BY <2>3, <2>4
  <2> QED
    BY <2>5 DEF low, width
<1>8. Room(s)
  <2> SUFFICES ASSUME rem + a.wide > MinWide, s.queued_byte % Radix = Radix - 1
               PROVE  FALSE
    BY <1>5, <1>7 DEF Room
  <2>1. CASE byte = Radix - 1
    <3>1. a.base + a.wide > One
      BY <2>1, <1>1, <1>2, Sizes
    <3> QED
      BY <2>1, <3>1, <1>4, <1>5 DEF Sound, Room
  <2>2. CASE byte # Radix - 1
    <3>1. byte = 2 * Radix - 1
      BY <2>2, <1>2, <1>4, <1>5, FullByte
    <3>2. a.base + a.wide > Word
      BY <3>1, <1>1, <1>2, Sizes
    <3> QED
      BY <3>2, <1>1, Sizes DEF Sound, Room
  <2> QED
    BY <2>1, <2>2
<1>9. Stuffed(s)
  <2>1. CASE q.out = <<>>
    <3>1. a.queued_byte = 0 /\ a.base + a.wide <= One /\ byte = Radix - 1
      BY <2>1, <1>4 DEF Sound, Stuffed
    <3>2. rem + a.wide <= MinWide
      BY <3>1, <1>1, <1>2, Sizes
    <3>3. rem * Radix + a.wide * Radix <= One
      BY <3>2, <1>7
    <3> QED
      BY <2>1, <3>1, <3>3, <1>4, <1>5 DEF Stuffed
  <2>2. CASE q.out # <<>>
    BY <2>2, <1>4, <1>5 DEF Stuffed
  <2> QED
    BY <2>1, <2>2
<1> QED
  BY <1>5, <1>6, <1>8, <1>9 DEF Sound
-----------------------------------------------------------------------------
(* renormalize_and_write_if_needed: two turns of its loop suffice for a    *)
(* zone that kept a share of MIN_WIDE / CUMULATIVE_PROBABILITY_MAX.        *)
LEMMA RenormalizeSound ==
  ASSUME NEW a, Sound(a), a.wide * Radix * Radix > MinWide,
         NEW r, r = Renormalize(a)
  PROVE  Sound(r) /\ r.wide > MinWide
<1> DEFINE s == RenormalizeOnce(a)
<1>1. Sound(s) /\ s.wide = IF a.wide <= MinWide THEN a.wide * Radix ELSE a.wide
  BY ShiftByteSound DEF RenormalizeOnce
<1>2. r = RenormalizeOnce(s)
  BY DEF Renormalize
<1>3. a.wide \in Nat /\ a.wide > 0
  BY Sizes DEF Sound, ArithType
<1> HIDE DEF s
<1>4. CASE s.wide <= MinWide
  <2>1. Sound(r) /\ r.wide = s.wide * Radix
    BY <1>1, <1>2, <1>4, ShiftByteSound DEF RenormalizeOnce
  <2>2. s.wide = a.wide * Radix
    BY <1>1, <1>3, <1>4
  <2> QED
    BY <2>1, <2>2
<1>5. CASE s.wide > MinWide
  <2>1. r = s
    <3>1. s.wide \in Nat /\ MinWide \in Nat
      <4>1. s \in ArithType
        BY <1>1 DEF Sound
      <4> QED
        BY <4>1, Sizes DEF ArithType
    <3>2. ~(s.wide <= MinWide)
      BY <1>5, <3>1
    <3> QED
      BY <1>2, <3>2 DEF RenormalizeOnce
  <2> QED
    BY <1>1, <1>5, <2>1
<1>6. s.wide \in Nat
  BY <1>1 DEF Sound, ArithType
<1> QED
  BY <1>4, <1>5, <1>6, Sizes

(* A call that keeps a part of the zone no narrower than that share.       *)
(* The ratio of a normalised zone is at least the share, and total parts   *)
(* of it fit the zone.                                                     *)
LEMMA Ratio ==
  ASSUME NEW wide \in Nat, wide > MinWide, NEW total \in Totals,
         NEW ratio, ratio = wide \div total
  PROVE  /\ ratio \in Nat /\ ratio > 0
         /\ ratio >= MinWide \div MaxTotal
         /\ ratio * total <= wide
<1> DEFINE share == MinWide \div MaxTotal
<1>1. total \in Nat \ {0} /\ total <= MaxTotal /\ MaxTotal \in Nat \ {0}
  BY TotalsAssumption
<1>2. ratio \in Nat /\ wide = total * ratio + (wide % total)
      /\ wide % total \in 0 .. total - 1
  BY <1>1, DivMod
<1>3. share \in Nat /\ MaxTotal * share <= MinWide
  <2>1. /\ share \in Nat /\ MinWide % MaxTotal \in 0 .. MaxTotal - 1
        /\ MinWide = MaxTotal * share + (MinWide % MaxTotal)
    <3>1. MinWide \in Nat
      BY Sizes
    <3> QED
      BY <3>1, <1>1, DivMod
  <2> QED
    BY <2>1, <1>1, Sizes
<1>4. share > 0
  <2> SUFFICES ASSUME share = 0 PROVE FALSE
    BY <1>3
  <2>1. Radix * Radix * share = 0
    BY Sizes
  <2> QED
    BY <2>1, ShareAssumption, Sizes
<1> HIDE DEF share
<1>5. ratio >= share
  <2> SUFFICES ASSUME ratio + 1 <= share PROVE FALSE
    BY <1>2, <1>3
  <2>1. total * (ratio + 1) <= total * share
    BY <1>1, <1>2, <1>3, MulMonotone
  <2>2. total * share <= MaxTotal * share
    BY <1>1, <1>3, MulMonotone
  <2>3. total * (ratio + 1) = total * ratio + total
    BY <1>1, <1>2
  <2>4. total * ratio \in Nat /\ total * share \in Nat /\ MaxTotal * share \in Nat
    BY <1>1, <1>2, <1>3, MulMonotone
  <2> QED
    BY <1>1, <1>2, <1>3, <2>1, <2>2, <2>3, <2>4, Sizes
<1>6. ratio * total <= wide
  <2>1. ratio * total = total * ratio /\ total * ratio \in Nat
    BY <1>1, <1>2
  <2> QED
    BY <2>1, <1>1, <1>2
<1> QED
  BY <1>2, <1>3, <1>4, <1>5, <1>6 DEF share
-----------------------------------------------------------------------------
(* Bytes the message has made, stored and queued.                          *)
Made(a) == Len(a.out) + 1 + a.queued_ff_bytes

(* The bottom of the exact zone is a number.                               *)
LEMMA BottomType ==
  ASSUME NEW a \in ArithType
  PROVE  /\ Value(a.out) \in Nat /\ Queued(a) \in Nat /\ Bottom(a) \in Nat
         /\ Made(a) \in Nat
<1>1. /\ a.base \in 0 .. Word - 1 /\ a.queued_byte \in Nat
      /\ a.queued_ff_bytes \in Nat /\ a.out \in Seq(Byte)
  BY Sizes DEF ArithType
<1>2. Value(a.out) \in Nat
  BY <1>1, PrefixesExist, ValueIs
<1> DEFINE q == a.queued_byte % Radix
           p == Power[a.queued_ff_bytes]
           v == Value(a.out)
           x == v * Radix
           y == (x + q) * p
<1>3. q \in Nat /\ p \in Nat \ {0}
  <2>1. Radix \in Nat \ {0}
    BY Sizes
  <2>2. q \in 0 .. Radix - 1
    BY <1>1, <2>1, DivMod
  <2>3. p \in Nat \ {0}
    BY <1>1, PowerFacts
  <2> QED
    BY <2>1, <2>2, <2>3
<1>4. Queued(a) = y + p - 1
  BY DEF Queued
<1> HIDE DEF q, p, v
<1>5. x \in Nat
  BY <1>2, Product, Sizes DEF v
<1> HIDE DEF x
<1>6. y \in Nat
  BY <1>3, <1>5, Product
<1> HIDE DEF y
<1>7. Queued(a) \in Nat
  BY <1>3, <1>4, <1>6
<1>8. Queued(a) * One \in Nat
  BY <1>7, Product, Sizes
<1>9. Bottom(a) \in Nat
  BY <1>1, <1>8, Sizes DEF Bottom
<1>10. Made(a) \in Nat
  BY <1>1 DEF Made
<1> QED
  BY <1>2, <1>7, <1>9, <1>10

(* Above ONE the carry bit is set.                                         *)
LEMMA CarryTop ==
  ASSUME NEW base \in 0 .. Word - 1, base >= One
  PROVE  base \div One = 1
<1>1. base - One \in 0 .. One - 1 /\ One \in Nat \ {0} /\ base = One * 1 + (base - One)
  BY Sizes
<1> DEFINE r == base - One
<1> HIDE DEF r
<1>2. r \in 0 .. One - 1 /\ base = One * 1 + r
  BY <1>1 DEF r
<1> QED
  BY <1>1, <1>2, DivUnique

(* What flush_output_queue stores, read as a number, is what was queued    *)
(* with the carry added.                                                   *)
LEMMA FlushValue ==
  ASSUME NEW a \in ArithType, NEW carry \in {0, 1},
         carry = 1 => a.queued_byte % Radix # Radix - 1,
         NEW f, f = FlushOutputQueue(a, carry)
  PROVE  Value(f.out) = Queued(a) + carry
<1> DEFINE q     == a.queued_byte % Radix
           c     == a.queued_byte \div Radix
           first == (a.queued_byte + carry) % Radix
           ff    == (Radix - 1 + carry) % Radix
           k     == a.queued_ff_bytes
           run   == [i \in 1 .. k |-> ff]
           start == a.out \o <<first>>
           p     == Power[k]
           v     == Value(a.out)
<1>1. /\ a.out \in Seq(Byte) /\ k \in Nat /\ a.queued_byte \in Nat
      /\ Radix \in Nat \ {0}
  BY Sizes DEF ArithType
<1>2. q \in 0 .. Radix - 1 /\ c \in Nat /\ a.queued_byte = Radix * c + q
  BY <1>1, DivMod
<1>3. first = q + carry
  <2>1. q + carry \in 0 .. Radix - 1
    BY <1>2, Sizes
  <2>2. a.queued_byte + carry = Radix * c + (q + carry)
    <3>1. Radix * c \in Nat
      BY <1>1, <1>2, Product
    <3> HIDE DEF c, q
    <3> QED
      BY <1>1, <1>2, <3>1
  <2> HIDE DEF c, q
  <2>3. (Radix * c + (q + carry)) % Radix = q + carry
    BY <1>1, <1>2, <2>1, DivUnique
  <2> QED
    BY <2>2, <2>3
<1>4. first \in Byte
  BY <1>2, <1>3, Sizes DEF Byte
<1>5. ff = IF carry = 0 THEN Radix - 1 ELSE 0
  <2>1. CASE carry = 0
    BY <2>1, ModSmall, Sizes
  <2>2. CASE carry = 1
    <3>1. ff = Radix - Radix
      BY <2>2, ModOnce, Sizes
    <3> QED
      BY <2>2, <3>1, Sizes
  <2> QED
    BY <2>1, <2>2
<1>6. f.out = start \o run
  BY DEF FlushOutputQueue, ArithType
<1>7. v \in Nat /\ p \in Nat \ {0}
  BY <1>1, BottomType, PowerFacts
<1>8. Queued(a) = (v * Radix + q) * p + p - 1
  BY DEF Queued
<1> HIDE DEF q, c, first, ff, k
<1>9. start \in Seq(Byte) /\ Value(start) = v * Radix + first
  BY <1>1, <1>4, ValueAppend, Appended
<1> HIDE DEF start
<1>10. ff \in {0, Radix - 1} /\ (ff = 0 <=> carry = 1)
  BY <1>5, Sizes
<1>11. Value(start \o run) = Value(start) * p + (IF ff = 0 THEN 0 ELSE p - 1)
  BY <1>1, <1>9, <1>10, ValueRun
<1> HIDE DEF run, p, v
<1> DEFINE x == v * Radix
<1>12. x \in Nat /\ q \in Nat
  BY <1>2, <1>7, Product, Sizes
<1> HIDE DEF x
<1>13. CASE carry = 0
  <2>1. Value(start) = x + q
    BY <1>3, <1>9, <1>12, <1>13 DEF x
  <2>2. Value(f.out) = (x + q) * p + (p - 1)
    BY <1>6, <1>10, <1>11, <1>13, <2>1
  <2>3. Queued(a) = (x + q) * p + p - 1
    BY <1>8 DEF x
  <2> DEFINE y == (x + q) * p
  <2>4. y \in Nat
    BY <1>7, <1>12, Product
  <2> HIDE DEF y
  <2>5. Value(f.out) = y + (p - 1) /\ Queued(a) = y + p - 1
    BY <2>2, <2>3 DEF y
  <2> QED
    BY <1>7, <1>13, <2>4, <2>5
<1>14. CASE carry = 1
  <2>1. Value(start) = x + q + 1
    BY <1>3, <1>9, <1>12, <1>14 DEF x
  <2>2. Value(f.out) = (x + q + 1) * p
    <3>1. Value(f.out) = (x + q + 1) * p + 0
      BY <1>6, <1>10, <1>11, <1>14, <2>1
    <3>2. (x + q + 1) * p \in Nat
      BY <1>7, <1>12, Product
    <3> QED
      BY <3>1, <3>2
  <2>3. Queued(a) = (x + q) * p + p - 1
    BY <1>8 DEF x
  <2>4. (x + q + 1) * p = (x + q) * p + p
    BY <1>7, <1>12
  <2> DEFINE y == (x + q) * p
  <2>5. y \in Nat
    BY <1>7, <1>12, Product
  <2> HIDE DEF y
  <2>6. Value(f.out) = y + p /\ Queued(a) = y + p - 1
    BY <2>2, <2>3, <2>4 DEF y
  <2> QED
    BY <1>7, <1>14, <2>5, <2>6
<1> QED
  BY <1>13, <1>14

(* One turn of the loop only refines the unit: the bottom of the exact     *)
(* zone and its width grow by a digit, whatever was carried and queued.    *)
LEMMA ShiftByteExact ==
  ASSUME NEW a, Sound(a), a.wide <= MinWide, NEW s, s = ShiftByte(a)
  PROVE  Bottom(s) = Radix * Bottom(a) /\ Made(s) = Made(a) + 1
<1> DEFINE byte  == a.base \div MinWide
           rem   == a.base % MinWide
           q     == QueueTopByte(a)
<1>1. /\ a \in ArithType
      /\ a.base \in 0 .. Word - 1 /\ a.wide \in 1 .. One
      /\ a.queued_byte \in 0 .. 2 * Radix - 1 /\ a.queued_ff_bytes \in Nat
      /\ a.out \in Seq(Byte)
  BY DEF Sound, ArithType
<1>2. /\ byte \in 0 .. 2 * Radix - 1
      /\ rem \in 0 .. MinWide - 1
      /\ a.base = MinWide * byte + rem
      /\ (a.base * Radix) % One = rem * Radix
  BY <1>1, TopByte
<1>3. Queued(a) \in Nat /\ Bottom(a) = Queued(a) * One + a.base
  BY <1>1, BottomType DEF Bottom
<1> HIDE DEF rem
(* The queue takes the top byte and loses its carry.                       *)
<1>4. /\ q.base = a.base /\ q.wide = a.wide /\ q \in ArithType
      /\ Queued(q) \in Nat
      /\ Queued(q) * One + rem * Radix = Radix * Bottom(a)
      /\ Made(q) = Made(a) + 1
  <2>1. CASE byte = Radix - 1
    <3>1. q = [base |-> a.base, wide |-> a.wide, queued_byte |-> a.queued_byte,
               queued_ff_bytes |-> a.queued_ff_bytes + 1, out |-> a.out]
      BY <2>1, <1>1 DEF QueueTopByte, ArithType, byte
    <3>2. q \in ArithType
      BY <3>1, <1>1 DEF ArithType
    <3> DEFINE p == Power[a.queued_ff_bytes]
               x == Value(a.out) * Radix + (a.queued_byte % Radix)
    <3>3. p \in Nat \ {0} /\ Power[a.queued_ff_bytes + 1] = Radix * p
      BY <1>1, PowerFacts
    <3>4. Queued(a) = x * p + p - 1
      BY DEF Queued
    <3>5. Queued(q) = x * (Radix * p) + Radix * p - 1
      BY <3>1, <3>3 DEF Queued
    <3>6. x \in Nat
      <4>1. a.queued_byte \in Nat /\ Radix \in Nat \ {0} /\ Value(a.out) \in Nat
        BY <1>1, Sizes, BottomType
      <4>2. a.queued_byte % Radix \in 0 .. Radix - 1
        BY <4>1, DivMod
      <4>3. Value(a.out) * Radix \in Nat
        BY <4>1, Product
      <4> QED
        BY <4>1, <4>2, <4>3
    <3> HIDE DEF p, x, q, byte
    <3>7. Queued(q) = Radix * Queued(a) + (Radix - 1)
      <4> DEFINE y == x * p
      <4>1. y \in Nat /\ x * (Radix * p) = Radix * y
        BY <3>3, <3>6, Sizes
      <4> HIDE DEF y
      <4>2. Queued(a) = y + p - 1 /\ Queued(q) = Radix * y + Radix * p - 1
        BY <3>4, <3>5, <4>1 DEF y
      <4>3. Radix * (y + p - 1) = Radix * y + Radix * p - Radix
        BY <3>3, <4>1, Sizes
      <4> QED
        BY <3>3, <4>1, <4>2, <4>3, Sizes
    <3>8. Queued(q) * One + rem * Radix = Radix * Bottom(a)
      <4>1. Queued(q) * One = Radix * Queued(a) * One + (Radix - 1) * One
        BY <1>3, <3>7, Sizes
      <4>2. Radix * Bottom(a) = Radix * Queued(a) * One + Radix * a.base
        BY <1>1, <1>3, Sizes
      <4>3. Radix * a.base = One * (Radix - 1) + rem * Radix
        BY <1>2, <2>1, Sizes
      <4> DEFINE A == Radix * Queued(a) * One
                 B == (Radix - 1) * One
                 C == rem * Radix
                 D == Radix * a.base
      <4>4. /\ One * (Radix - 1) = B
            /\ A \in Nat /\ B \in Nat /\ C \in Nat
        <5>1. Radix - 1 \in Nat /\ Radix \in Nat /\ One \in Nat /\ rem \in Nat
          BY <1>2, Sizes
        <5>2. Radix * Queued(a) \in Nat
          BY <1>3, <5>1, Product
        <5> QED
          BY <5>1, <5>2, Product
      <4>5. /\ Queued(q) * One = A + B
            /\ Radix * Bottom(a) = A + D
            /\ D = B + C
        BY <4>1, <4>2, <4>3, <4>4
      <4> HIDE DEF A, B, D
      <4> QED
        BY <4>4, <4>5
    <3>9. Queued(q) \in Nat
      BY <3>2, BottomType
    <3>10. /\ q.base = a.base /\ q.wide = a.wide /\ q.out = a.out
           /\ q.queued_ff_bytes = a.queued_ff_bytes + 1
      BY <3>1
    <3>11. Len(a.out) \in Nat /\ a.queued_ff_bytes \in Nat
      BY <1>1, LenProperties
    <3> HIDE DEF q
    <3>12. Made(q) = Made(a) + 1
      BY <3>10, <3>11 DEF Made
    <3> QED
      BY <3>2, <3>8, <3>9, <3>10, <3>12
  <2>2. CASE byte # Radix - 1
    <3> DEFINE carry == a.base \div One
               low   == byte % Radix
               f     == FlushOutputQueue(a, carry)
    <3>1. carry \in {0, 1} /\ (a.base < One => carry = 0)
      BY <1>1, CarryBit
    <3>2. byte = Radix * carry + low /\ low \in 0 .. Radix - 1
      <4>1. CASE a.base < One
        <5>1. byte < Radix
          <6> SUFFICES ASSUME Radix <= byte PROVE FALSE
            BY <1>2, Sizes
          <6> DEFINE u == MinWide * Radix
                     w == MinWide * byte
          <6> HIDE DEF byte
          <6>1. u <= w
            BY <1>2, MulMonotone, Sizes
          <6>2. a.base = w + rem /\ One = u /\ u \in Nat /\ w \in Nat /\ rem \in Nat
            BY <1>2, MulMonotone, Sizes
          <6> HIDE DEF u, w, rem
          <6> QED
            BY <4>1, <6>1, <6>2
        <5>2. carry = 0
          BY <3>1, <4>1
        <5> HIDE DEF byte, carry
        <5>3. low = byte
          BY <1>2, <5>1, ModSmall, Sizes
        <5> QED
          BY <1>2, <5>1, <5>2, <5>3, Sizes
      <4>2. CASE a.base >= One
        <5>1. byte >= Radix
          <6> SUFFICES ASSUME byte + 1 <= Radix PROVE FALSE
            BY <1>2, Sizes
          <6> DEFINE u == MinWide * Radix
                     w == MinWide * byte
          <6> HIDE DEF byte
          <6>1. MinWide * (byte + 1) <= u
            BY <1>2, MulMonotone, Sizes
          <6>2. MinWide * (byte + 1) = w + MinWide
            BY <1>2, Sizes
          <6>3. /\ a.base = w + rem /\ One = u /\ u \in Nat /\ w \in Nat
                /\ rem \in 0 .. MinWide - 1 /\ MinWide \in Nat
            BY <1>2, MulMonotone, Sizes
          <6> HIDE DEF u, w, rem
          <6> QED
            BY <4>2, <6>1, <6>2, <6>3
        <5>2. carry = 1
          BY <1>1, <4>2, CarryTop
        <5> HIDE DEF byte, carry
        <5>3. low = byte - Radix
          <6>1. byte \in Nat /\ Radix \in Nat \ {0} /\ Radix <= byte /\ byte < 2 * Radix
            BY <1>2, <5>1, Sizes
          <6> QED
            BY <6>1, ModOnce
        <5> QED
          BY <1>2, <5>1, <5>2, <5>3, Sizes
      <4> QED
        BY <1>1, <4>1, <4>2, Sizes
    <3>3. carry = 1 => a.queued_byte % Radix # Radix - 1
      BY <1>1, <3>1, Sizes DEF Sound, Room
    <3> HIDE DEF carry
    <3>4. /\ f \in ArithType
          /\ f.base = a.base /\ f.wide = a.wide
          /\ f.queued_ff_bytes = 0
          /\ Len(f.out) = Made(a)
      BY <1>1, <3>1, FlushStores DEF Made
    <3>5. Value(f.out) = Queued(a) + carry
      BY <1>1, <3>1, <3>3, FlushValue
    <3>6. q = [f EXCEPT !.queued_byte = byte]
      BY <2>2 DEF QueueTopByte, byte, carry
    <3> HIDE DEF f, q, byte
    <3>7. q = [base |-> f.base, wide |-> f.wide, queued_byte |-> byte,
               queued_ff_bytes |-> 0, out |-> f.out]
      BY <3>4, <3>6 DEF ArithType
    <3>8. q \in ArithType
      BY <3>4, <3>7, <1>2 DEF ArithType
    <3>9. Queued(q) = (Queued(a) + carry) * Radix + low
      <4>1. Queued(q) = (Value(f.out) * Radix + low) * 1 + 1 - 1
        BY <3>7, PowerFacts DEF Queued
      <4>2. (Queued(a) + carry) * Radix \in Nat
        BY <1>3, <3>1, Product, Sizes
      <4> HIDE DEF low
      <4> QED
        BY <3>2, <3>5, <4>1, <4>2
    <3>10. Queued(q) * One + rem * Radix = Radix * Bottom(a)
      <4> HIDE DEF low
      <4>1. Queued(q) * One = Radix * Queued(a) * One + (Radix * carry + low) * One
        BY <1>3, <3>1, <3>2, <3>9, Sizes
      <4>2. Radix * Bottom(a) = Radix * Queued(a) * One + Radix * a.base
        BY <1>1, <1>3, Sizes
      <4>3. Radix * a.base = One * byte + rem * Radix
        BY <1>2, Sizes
      <4>4. (Radix * carry + low) * One = One * byte
        <5>1. Radix * carry + low = byte /\ byte \in Nat /\ One \in Nat
          BY <1>2, <3>2, Sizes
        <5> QED
          BY <5>1, Product
      <4> DEFINE A == Radix * Queued(a) * One
                 B == One * byte
                 C == rem * Radix
                 D == Radix * a.base
      <4>5. A \in Nat /\ B \in Nat /\ C \in Nat
        <5>1. byte \in Nat /\ Radix \in Nat /\ One \in Nat /\ rem \in Nat
          BY <1>2, Sizes
        <5>2. Radix * Queued(a) \in Nat
          BY <1>3, <5>1, Product
        <5> QED
          BY <5>1, <5>2, Product
      <4>6. /\ Queued(q) * One = A + B
            /\ Radix * Bottom(a) = A + D
            /\ D = B + C
        BY <4>1, <4>2, <4>3, <4>4
      <4> HIDE DEF A, B, D
      <4> QED
        BY <4>5, <4>6
    <3>11. Queued(q) \in Nat
      BY <3>8, BottomType
    <3>12. Made(q) = Made(a) + 1
      <4>1. Made(a) \in Nat
        BY <1>1, BottomType
      <4> QED
        BY <3>4, <3>7, <4>1 DEF Made
    <3> QED
      BY <3>4, <3>7, <3>8, <3>10, <3>11, <3>12
  <2> QED
    BY <2>1, <2>2
<1>5. s = [base |-> rem * Radix, wide |-> a.wide * Radix,
           queued_byte |-> q.queued_byte, queued_ff_bytes |-> q.queued_ff_bytes,
           out |-> q.out]
  BY <1>2, <1>4 DEF ShiftByte, ArithType
<1> HIDE DEF q
<1>6. Queued(s) = Queued(q) /\ Made(s) = Made(q) /\ s.base = rem * Radix
  BY <1>5 DEF Queued, Made
<1> QED
  BY <1>4, <1>6 DEF Bottom

(* A zone whose unit was refined by d digits.                              *)
Refined(a, r, d) ==
  /\ Bottom(r) = Power[d] * Bottom(a)
  /\ r.wide = Power[d] * a.wide
  /\ Made(r) = Made(a) + d

(* A turn of the renormalisation refines the unit by one digit.            *)
LEMMA RefinedOnce ==
  ASSUME NEW a, Sound(a), NEW s, s = RenormalizeOnce(a)
  PROVE  /\ Sound(s)
         /\ a.wide <= MinWide => Refined(a, s, 1)
         /\ a.wide > MinWide => s = a
<1>1. /\ a \in ArithType /\ a.wide \in Nat /\ MinWide \in Nat
  BY Sizes DEF Sound, ArithType
<1>2. CASE a.wide <= MinWide
  <2>1. s = ShiftByte(a)
    BY <1>2 DEF RenormalizeOnce
  <2>2. Sound(s) /\ s.wide = a.wide * Radix
    BY <1>2, <2>1, ShiftByteSound
  <2>3. Bottom(s) = Radix * Bottom(a) /\ Made(s) = Made(a) + 1
    BY <1>2, <2>1, ShiftByteExact
  <2>4. a.wide * Radix = Radix * a.wide
    BY <1>1, Product, Sizes
  <2> QED
    BY <1>1, <1>2, <2>2, <2>3, <2>4, SmallPowers DEF Refined
<1>3. CASE a.wide > MinWide
  BY <1>1, <1>3 DEF RenormalizeOnce
<1> QED
  BY <1>1, <1>2, <1>3

(* No turn leaves it.                                                      *)
LEMMA RefinedNot ==
  ASSUME NEW a \in ArithType
  PROVE  Refined(a, a, 0)
<1>1. Bottom(a) \in Nat /\ Made(a) \in Nat /\ a.wide \in Nat
  BY BottomType, Sizes DEF ArithType
<1> QED
  BY <1>1, SmallPowers DEF Refined

(* renormalize_and_write_if_needed refines the unit by at most two digits. *)
LEMMA RenormalizeExact ==
  ASSUME NEW a, Sound(a), a.wide * Radix * Radix > MinWide,
         NEW r, r = Renormalize(a)
  PROVE  Sound(r) /\ r.wide > MinWide /\ \E d \in 0 .. 2 : Refined(a, r, d)
<1> DEFINE s == RenormalizeOnce(a)
<1>1. Sound(r) /\ r.wide > MinWide
  BY RenormalizeSound
<1>2. /\ Sound(s)
      /\ a.wide <= MinWide => Refined(a, s, 1)
      /\ a.wide > MinWide => s = a
  BY RefinedOnce
<1>3. r = RenormalizeOnce(s)
  BY DEF Renormalize
<1> HIDE DEF s
<1>4. /\ s.wide <= MinWide => Refined(s, r, 1)
      /\ s.wide > MinWide => r = s
  BY <1>2, <1>3, RefinedOnce
<1>5. /\ a.wide \in Nat /\ s.wide \in Nat /\ MinWide \in Nat
      /\ a \in ArithType /\ s \in ArithType
  BY <1>2, Sizes DEF Sound, ArithType
<1>6. CASE a.wide > MinWide
  BY <1>2, <1>4, <1>5, <1>6, RefinedNot
<1>7. CASE a.wide <= MinWide /\ s.wide > MinWide
  BY <1>2, <1>4, <1>7
<1>8. CASE a.wide <= MinWide /\ s.wide <= MinWide
  <2>1. Refined(a, s, 1) /\ Refined(s, r, 1)
    BY <1>2, <1>4, <1>8
  <2>2. Bottom(a) \in Nat /\ Made(a) \in Nat
    BY <1>5, BottomType
  <2>3. Bottom(r) = Radix * (Radix * Bottom(a)) /\ r.wide = Radix * (Radix * a.wide)
    BY <2>1, SmallPowers DEF Refined
  <2>4. /\ Radix * (Radix * Bottom(a)) = (Radix * Radix) * Bottom(a)
        /\ Radix * (Radix * a.wide) = (Radix * Radix) * a.wide
    BY <1>5, <2>2, Sizes
  <2>5. Made(r) = Made(a) + 2
    BY <2>1, <2>2 DEF Refined
  <2>6. Refined(a, r, 2)
    <3>1. Power[2] = Radix * Radix
      BY SmallPowers
    <3>2. Bottom(r) = Power[2] * Bottom(a) /\ r.wide = Power[2] * a.wide
      BY <2>3, <2>4, <3>1, Zenon
    <3> QED
      BY <2>5, <3>2, Zenon DEF Refined
  <2> QED
    BY <1>1, <2>6
<1> QED
  BY <1>1, <1>5, <1>6, <1>7, <1>8
-----------------------------------------------------------------------------
(* What a call keeps of a zone: a part that lies in it and is no narrower  *)
(* than the share.                                                         *)
Part(width, inc, wide) ==
  /\ inc \in Nat /\ wide \in Nat /\ wide > 0
  /\ inc + wide <= width
  /\ wide >= MinWide \div MaxTotal

Kept(a, inc, wide) ==
  [a EXCEPT !.base = (a.base + inc) % Word, !.wide = wide]

(* Keeping a part moves the exact zone's bottom up by what is given up.    *)
LEMMA KeptSound ==
  ASSUME NEW a, Sound(a), NEW inc, NEW wide, Part(a.wide, inc, wide),
         NEW k, k = Kept(a, inc, wide)
  PROVE  /\ k = [base |-> a.base + inc, wide |-> wide,
                 queued_byte |-> a.queued_byte,
                 queued_ff_bytes |-> a.queued_ff_bytes, out |-> a.out]
         /\ Sound(k) /\ wide * Radix * Radix > MinWide
         /\ Bottom(k) = Bottom(a) + inc /\ Made(k) = Made(a)
<1> DEFINE share == MinWide \div MaxTotal
           base == (a.base + inc) % Word
<1>1. /\ a \in ArithType
      /\ a.base \in 0 .. Word - 1 /\ a.wide \in 1 .. One
      /\ a.base + a.wide <= Word
      /\ inc \in Nat /\ wide \in Nat /\ wide > 0 /\ inc + wide <= a.wide
      /\ wide >= share
  BY DEF Sound, Room, ArithType, Part
<1> HIDE DEF share
<1>2. base = a.base + inc
  <2>1. a.base + inc \in Nat /\ a.base + inc < Word /\ Word \in Nat \ {0}
    BY <1>1, Sizes
  <2> QED
    BY <2>1, ModSmall
<1>3. k = [base |-> a.base + inc, wide |-> wide,
           queued_byte |-> a.queued_byte,
           queued_ff_bytes |-> a.queued_ff_bytes, out |-> a.out]
  <2>1. k = [a EXCEPT !.base = base, !.wide = wide]
    BY DEF Kept
  <2> HIDE DEF base
  <2>2. k = [base |-> base, wide |-> wide, queued_byte |-> a.queued_byte,
             queued_ff_bytes |-> a.queued_ff_bytes, out |-> a.out]
    BY <1>1, <2>1, NewZone
  <2> QED
    BY <1>2, <2>2
<1> HIDE DEF base
<1>4. Sound(k)
  <2>1. /\ a.base + inc \in 0 .. Word - 1 /\ wide \in 1 .. One
        /\ (a.base + inc) + wide <= a.base + a.wide
    BY <1>1, Sizes
  <2>2. k \in ArithType
    BY <1>1, <1>3, <2>1 DEF ArithType
  <2>3. Room(k)
    BY <1>1, <1>3, <2>1, Sizes DEF Sound, Room
  <2>4. Stuffed(k)
    BY <1>1, <1>3, <2>1, Sizes DEF Sound, Stuffed
  <2> QED
    BY <2>2, <2>3, <2>4 DEF Sound
<1>5. wide * Radix * Radix > MinWide
  <2>1. share \in Nat /\ Radix * Radix * share > MinWide
    <3>1. MinWide \in Nat /\ MaxTotal \in Nat \ {0}
      BY Sizes, TotalsAssumption
    <3> QED
      BY <3>1, DivMod, ShareAssumption DEF share
  <2>2. Radix * Radix \in Nat
    BY Sizes
  <2>3. Radix * Radix * wide >= Radix * Radix * share
    <3> DEFINE rr == Radix * Radix
    <3> HIDE DEF rr
    <3>1. rr \in Nat
      BY <2>2 DEF rr
    <3>2. rr * wide >= rr * share
      BY <1>1, <2>1, <3>1, MulMonotone
    <3> QED
      BY <3>2 DEF rr
  <2>4. wide * Radix * Radix = Radix * Radix * wide
    BY <1>1, Sizes
  <2> QED
    BY <1>1, <2>1, <2>2, <2>3, <2>4, Sizes
<1>6. Bottom(k) = Bottom(a) + inc
  <2>1. Queued(k) = Queued(a)
    BY <1>3 DEF Queued
  <2>2. Queued(a) * One \in Nat
    BY <1>1, BottomType, Product, Sizes
  <2> DEFINE x == Queued(a) * One
  <2>3. Bottom(k) = x + (a.base + inc) /\ Bottom(a) = x + a.base
    BY <1>3, <2>1 DEF Bottom
  <2> HIDE DEF x
  <2> QED
    BY <1>1, <2>2, <2>3 DEF x
<1>7. Made(k) = Made(a)
  BY <1>3 DEF Made
<1> QED
  BY <1>3, <1>4, <1>5, <1>6, <1>7

(* The part arith_Encode_Bit keeps.                                        *)
LEMMA BitPart ==
  ASSUME NEW width \in Nat, width > MinWide,
         NEW total \in Totals, NEW mid \in 1 .. total - 1,
         NEW r, r = (width \div total) * mid
  PROVE  Part(width, r, width - r) /\ Part(width, 0, r)
<1> DEFINE ratio == width \div total
<1>1. /\ ratio \in Nat /\ ratio > 0 /\ ratio >= MinWide \div MaxTotal
      /\ ratio * total <= width
  BY Ratio
<1>2. total \in Nat /\ mid \in Nat /\ 1 <= mid /\ mid + 1 <= total
  BY TotalsAssumption
<1>3. r = ratio * mid
  OBVIOUS
<1> HIDE DEF ratio
<1>4. r \in Nat /\ ratio <= r /\ r + ratio <= width
  <2>1. /\ ratio * 1 <= ratio * mid /\ ratio * mid \in Nat
        /\ ratio * (mid + 1) <= ratio * total
    BY <1>1, <1>2, MulMonotone
  <2>2. ratio * (mid + 1) = ratio * mid + ratio /\ ratio * total \in Nat
    BY <1>1, <1>2, MulMonotone
  <2> QED
    BY <1>1, <1>3, <2>1, <2>2
<1>5. MinWide \div MaxTotal \in Nat
  <2>1. MinWide \in Nat /\ MaxTotal \in Nat \ {0}
    BY Sizes, TotalsAssumption
  <2> QED
    BY <2>1, DivMod
<1> QED
  BY <1>1, <1>4, <1>5 DEF Part

(* What the top partition keeps.                                           *)
LEMMA Remainder ==
  ASSUME NEW width \in Nat, NEW inc \in Nat, NEW part \in Nat, NEW ratio \in Nat,
         ratio <= part, inc + part <= width
  PROVE  width - inc \in Nat /\ width - inc >= ratio /\ inc + (width - inc) <= width
  OBVIOUS

(* The part arith_Encode_1_Of_N keeps.                                     *)
LEMMA RangePart ==
  ASSUME NEW width \in Nat, width > MinWide,
         NEW total \in Totals, NEW high \in 1 .. total, NEW low \in 0 .. high - 1,
         NEW inc, inc = (width \div total) * low,
         NEW wide, wide = IF high = total THEN width - inc
                          ELSE (width \div total) * (high - low)
  PROVE  Part(width, inc, wide)
<1> DEFINE ratio == width \div total
           part == ratio * (high - low)
<1>1. /\ ratio \in Nat /\ ratio > 0 /\ ratio >= MinWide \div MaxTotal
      /\ ratio * total <= width
  BY Ratio
<1>2. /\ total \in Nat /\ high \in Nat /\ low \in Nat
      /\ low + 1 <= high /\ high <= total /\ high - low \in Nat
  BY TotalsAssumption
<1>3. inc = ratio * low /\ wide = IF high = total THEN width - inc ELSE part
  OBVIOUS
<1> HIDE DEF ratio
<1>4. /\ inc \in Nat /\ part \in Nat /\ ratio <= part
      /\ inc + part <= width
  <2>1. /\ ratio * 1 <= part /\ part \in Nat /\ inc \in Nat
        /\ ratio * high <= ratio * total
        /\ ratio * high \in Nat /\ ratio * total \in Nat
    BY <1>1, <1>2, <1>3, MulMonotone
  <2>2. inc + part = ratio * high
    BY <1>1, <1>2, <1>3
  <2> HIDE DEF part
  <2> QED
    BY <1>1, <2>1, <2>2
<1> HIDE DEF part
<1>5. MinWide \div MaxTotal \in Nat
  <2>1. MinWide \in Nat /\ MaxTotal \in Nat \ {0}
    BY Sizes, TotalsAssumption
  <2> QED
    BY <2>1, DivMod
<1>6. wide \in Nat /\ wide >= ratio /\ inc + wide <= width
  <2>1. CASE high = total
    <3>1. wide = width - inc
      BY <1>3, <2>1
    <3>2. ratio \in Nat /\ width \in Nat
      BY <1>1
    <3>3. width - inc \in Nat /\ width - inc >= ratio /\ inc + (width - inc) <= width
      BY <1>4, <3>2, Remainder
    <3> QED
      BY <3>1, <3>3
  <2>2. CASE high # total
    <3>1. wide = part
      BY <1>3, <2>2
    <3> QED
      BY <1>1, <1>4, <3>1
  <2> QED
    BY <2>1, <2>2
<1> DEFINE share == MinWide \div MaxTotal
<1>7. share \in Nat /\ wide >= share
  <2> HIDE DEF share
  <2>1. share \in Nat /\ ratio >= share
    BY <1>1, <1>5 DEF share
  <2> QED
    BY <1>1, <1>6, <2>1
<1> HIDE DEF share
<1>8. inc \in Nat /\ wide \in Nat /\ wide > 0 /\ inc + wide <= width
  BY <1>1, <1>4, <1>6
<1> QED
  BY <1>7, <1>8 DEF Part, share

(* Either call keeps a part of the zone and renormalises it.               *)
Narrowing(a, b) ==
  \E inc, wide : Part(a.wide, inc, wide) /\ b = Renormalize(Kept(a, inc, wide))

(* Both calls do so.                                                       *)
LEMMA CallNarrows ==
  ASSUME IInv, Encode1OfNCall \/ EncodeBitCall
  PROVE  phase = "coding" /\ phase' = phase /\ Narrowing(arith, arith')
<1>1. ASSUME phase = "coding" PROVE arith.wide \in Nat /\ arith.wide > MinWide
                                    /\ arith.base \in Nat
  BY <1>1, Sizes DEF IInv, ArithType
<1>2. CASE Encode1OfNCall
  <2>1. PICK total \in Totals : \E high \in 1 .. total :
          \E low \in 0 .. high - 1 : Encode1OfN(low, high, total)
    BY <1>2 DEF Encode1OfNCall
  <2>2. PICK high \in 1 .. total : \E low \in 0 .. high - 1 :
          Encode1OfN(low, high, total)
    BY <2>1
  <2>3. PICK low \in 0 .. high - 1 : Encode1OfN(low, high, total)
    BY <2>2
  <2> DEFINE inc  == (arith.wide \div total) * low
             wide == IF high = total THEN arith.wide - inc
                     ELSE (arith.wide \div total) * (high - low)
  <2>4. phase = "coding" /\ phase' = phase /\ arith' = Zone(arith.base + inc, wide)
    BY <2>3 DEF Encode1OfN
  <2>5. Part(arith.wide, inc, wide)
    BY <1>1, <2>4, RangePart
  <2> HIDE DEF inc, wide
  <2>6. arith' = Renormalize(Kept(arith, inc, wide))
    BY <2>4 DEF Zone, Kept
  <2> QED
    BY <2>4, <2>5, <2>6 DEF Narrowing
<1>3. CASE EncodeBitCall
  <2>1. PICK total \in Totals : \E mid \in 1 .. total - 1 :
          \E bit \in BOOLEAN : EncodeBit(mid, total, bit)
    BY <1>3 DEF EncodeBitCall
  <2>2. PICK mid \in 1 .. total - 1, bit \in BOOLEAN : EncodeBit(mid, total, bit)
    BY <2>1
  <2> DEFINE r == (arith.wide \div total) * mid
  <2>3. /\ phase = "coding" /\ phase' = phase
        /\ arith' = IF bit THEN Zone(arith.base + r, arith.wide - r)
                           ELSE Zone(arith.base, r)
    BY <2>2 DEF EncodeBit
  <2>4. Part(arith.wide, r, arith.wide - r) /\ Part(arith.wide, 0, r)
    BY <1>1, <2>3, BitPart
  <2> HIDE DEF r
  <2>5. CASE bit
    <3>1. arith' = Renormalize(Kept(arith, r, arith.wide - r))
      BY <2>3, <2>5 DEF Zone, Kept
    <3> QED
      BY <2>3, <2>4, <3>1 DEF Narrowing
  <2>6. CASE ~bit
    <3>1. arith.base + 0 = arith.base
      BY <1>1, <2>3
    <3>2. arith' = Renormalize(Kept(arith, 0, r))
      BY <2>3, <2>6, <3>1 DEF Zone, Kept
    <3> QED
      BY <2>3, <2>4, <3>2 DEF Narrowing
  <2> QED
    BY <2>5, <2>6
<1> QED
  BY <1>2, <1>3

(* The zone a call leaves lies in the one it found, at a finer unit.       *)
Inside(a, b, d) ==
  /\ Made(b) = Made(a) + d
  /\ Power[d] * Bottom(a) <= Bottom(b)
  /\ Bottom(b) + b.wide <= Power[d] * (Bottom(a) + a.wide)

(* The zone they leave is sound and lies in the one they found.            *)
LEMMA NarrowingSound ==
  ASSUME NEW a, Sound(a), NEW b, Narrowing(a, b)
  PROVE  Sound(b) /\ b.wide > MinWide /\ \E d \in 0 .. 2 : Inside(a, b, d)
<1>1. PICK inc, wide :
        Part(a.wide, inc, wide) /\ b = Renormalize(Kept(a, inc, wide))
  BY DEF Narrowing
<1> DEFINE k == Kept(a, inc, wide)
<1>2. /\ Sound(k) /\ k.wide = wide /\ wide * Radix * Radix > MinWide
      /\ Bottom(k) = Bottom(a) + inc /\ Made(k) = Made(a)
  BY <1>1, KeptSound
<1> HIDE DEF k
<1>3. Sound(b) /\ b.wide > MinWide /\ \E d \in 0 .. 2 : Refined(k, b, d)
  BY <1>1, <1>2, RenormalizeExact DEF k
<1>4. PICK d \in 0 .. 2 : Refined(k, b, d)
  BY <1>3
<1> DEFINE p == Power[d]
           low == Bottom(a)
<1>5. p \in Nat /\ d \in Nat
  BY PowerFacts
<1>6. low \in Nat /\ a.wide \in Nat
  BY BottomType, Sizes DEF Sound, ArithType
<1>7. inc \in Nat /\ wide \in Nat /\ inc + wide <= a.wide
  BY <1>1 DEF Part
<1>8. Bottom(b) = p * (low + inc) /\ b.wide = p * wide /\ Made(b) = Made(a) + d
  BY <1>2, <1>4 DEF Refined
<1> HIDE DEF p, low
<1>9. p * low <= p * (low + inc)
  BY <1>5, <1>6, <1>7, MulMonotone
<1>10. p * (low + inc) + p * wide <= p * (low + a.wide)
  <2>1. p * (low + inc) + p * wide = p * (low + inc + wide)
    BY <1>5, <1>6, <1>7
  <2>2. p * (low + inc + wide) <= p * (low + a.wide)
    BY <1>5, <1>6, <1>7, MulMonotone
  <2> QED
    BY <2>1, <2>2
<1>11. Inside(a, b, d)
  BY <1>8, <1>9, <1>10 DEF Inside, p, low
<1> QED
  BY <1>3, <1>11
(* One turn of arith_Finish_Encoding's tail loop.                          *)
LEMMA EmitTopByteKeeps ==
  ASSUME NEW a \in ArithType, a.out # <<>>, NEW e, e = EmitTopByte(a)
  PROVE  e \in ArithType /\ e.out # <<>> /\ e.out[1] = a.out[1]
<1>1. CASE a.base = 0
  BY <1>1 DEF EmitTopByte
<1>2. CASE a.base # 0
  <2> DEFINE byte == (a.base \div MinWide) % Radix
             base == (a.base * Radix) % One
             out  == Append(a.out, byte)
  <2>1. a.base \in 0 .. Word - 1 /\ a.out \in Seq(Byte)
    BY DEF ArithType
  <2>2. byte \in Byte /\ base \in 0 .. Word - 1
    <3>1. a.base \div MinWide \in 0 .. 2 * Radix - 1
      BY <2>1, TopByte
    <3>2. byte \in 0 .. Radix - 1
      <4>1. a.base \div MinWide \in Nat /\ Radix \in Nat \ {0}
        BY <3>1, Sizes
      <4> QED
        BY <4>1, DivMod
    <3>3. base \in 0 .. One - 1
      <4>1. a.base * Radix \in Nat /\ One \in Nat \ {0}
        BY <2>1, Sizes
      <4> QED
        BY <4>1, DivMod
    <3> QED
      BY <3>2, <3>3, Sizes DEF Byte
  <2>3. e = [a EXCEPT !.out = out, !.base = base]
    BY <1>2 DEF EmitTopByte
  <2> HIDE DEF byte, base
  <2>4. out \in Seq(Byte) /\ out # <<>> /\ out[1] = a.out[1]
    BY <2>1, <2>2
  <2> HIDE DEF out
  <2>5. e = [base |-> base, wide |-> a.wide, queued_byte |-> a.queued_byte,
             queued_ff_bytes |-> a.queued_ff_bytes, out |-> out]
    BY <2>3 DEF ArithType
  <2> QED
    BY <2>2, <2>4, <2>5 DEF ArithType
<1> QED
  BY <1>1, <1>2

(* The top bit of a normalised wide is at least MIN_WIDE, so clearing base *)
(* below it leaves whole bytes of MIN_WIDE.                                *)
LEMMA TopBit ==
  ASSUME IInv, phase = "coding"
  PROVE  WideMsb \in Nat \ {0} /\ WideMsb % MinWide = 0
<1>1. arith.wide \in 1 .. One /\ arith.wide > MinWide
  BY DEF IInv, Sound, ArithType
<1>2. PICK m \in PowersOfTwo : m <= arith.wide /\ arith.wide < 2 * m
  BY <1>1, PowersAssumption
<1>3. /\ WideMsb \in PowersOfTwo
      /\ WideMsb <= arith.wide /\ arith.wide < 2 * WideMsb
  <2> DEFINE P(n) == n <= arith.wide /\ arith.wide < 2 * n
  <2>1. \E n \in PowersOfTwo : P(n)
    BY <1>2
  <2>2. LET w == CHOOSE n \in PowersOfTwo : P(n) IN w \in PowersOfTwo /\ P(w)
    <3> HIDE DEF P
    <3> QED
      BY <2>1
  <2> QED
    BY <2>2 DEF WideMsb
<1> DEFINE w == WideMsb
<1> HIDE DEF w
<1>4. w \in PowersOfTwo /\ w \in Nat \ {0} /\ arith.wide < 2 * w
  BY <1>3, PowersAssumption DEF w
<1>5. MinWide \in PowersOfTwo /\ MinWide \in Nat \ {0}
  BY PowersAssumption, Sizes
<1>6. w >= MinWide
  <2> SUFFICES ASSUME w < MinWide PROVE FALSE
    BY <1>4, <1>5
  <2>1. MinWide % w = 0
    BY <1>4, <1>5, PowersAssumption
  <2> DEFINE q == MinWide \div w
  <2>2. q \in Nat /\ MinWide = w * q
    <3>1. q \in Nat /\ MinWide = w * q + (MinWide % w)
      BY <1>4, <1>5, DivMod
    <3>2. w * q \in Nat
      BY <1>4, <3>1, MulMonotone
    <3> QED
      BY <2>1, <3>1, <3>2
  <2> HIDE DEF q
  <2>3. q >= 2
    <3>1. CASE q = 0
      BY <1>4, <1>5, <2>2, <3>1
    <3>2. CASE q = 1
      BY <1>4, <1>5, <2>2, <3>2
    <3> QED
      BY <2>2, <3>1, <3>2
  <2>4. w * 2 <= w * q
    BY <1>4, <2>2, <2>3, MulMonotone
  <2> QED
    BY <1>1, <1>4, <1>5, <2>2, <2>4
<1>7. w % MinWide = 0
  BY <1>4, <1>5, <1>6, PowersAssumption
<1> QED
  BY <1>4, <1>7 DEF w

(* arith_Finish_Encoding stores the queue and at most one byte of base.    *)
(* It fits in the wide and divides ONE.                                    *)
LEMMA TopBitFits ==
  ASSUME IInv, phase = "coding"
  PROVE  /\ WideMsb \in Nat \ {0} /\ WideMsb <= arith.wide
         /\ WideMsb % MinWide = 0 /\ One % WideMsb = 0
<1>1. WideMsb \in Nat \ {0} /\ WideMsb % MinWide = 0
  BY TopBit
<1>2. arith.wide \in 1 .. One /\ arith.wide > MinWide
  BY DEF IInv, Sound, ArithType
<1>3. PICK m \in PowersOfTwo : m <= arith.wide /\ arith.wide < 2 * m
  BY <1>2, PowersAssumption
<1>4. /\ WideMsb \in PowersOfTwo
      /\ WideMsb <= arith.wide /\ arith.wide < 2 * WideMsb
  <2> DEFINE P(n) == n <= arith.wide /\ arith.wide < 2 * n
  <2>1. \E n \in PowersOfTwo : P(n)
    BY <1>3
  <2>2. LET w == CHOOSE n \in PowersOfTwo : P(n) IN w \in PowersOfTwo /\ P(w)
    <3> HIDE DEF P
    <3> QED
      BY <2>1
  <2> QED
    BY <2>2 DEF WideMsb
<1> DEFINE w == WideMsb
<1>5. w \in PowersOfTwo /\ w <= One /\ w \in Nat
  BY <1>1, <1>2, <1>4, Sizes
<1> HIDE DEF w
<1>6. One % w = 0
  BY <1>5, PowersAssumption
<1> QED
  BY <1>1, <1>4, <1>6 DEF w

(* What is left of a multiple.                                             *)
LEMMA Multiple ==
  ASSUME NEW n \in Nat, NEW d \in Nat \ {0}, n % d = 0
  PROVE  n \div d \in Nat /\ n = d * (n \div d)
<1> DEFINE q == n \div d
<1>1. q \in Nat /\ n = d * q + (n % d)
  BY DivMod
<1> HIDE DEF q
<1>2. d * q \in Nat
  BY <1>1, Product
<1>3. n = d * q
  BY <1>1, <1>2
<1> QED
  BY <1>1, <1>3 DEF q

(* arith_Finish_Encoding stores the queue and at most one byte of base,    *)
(* and what it has stored is a number of the last zone.                    *)
LEMMA FinishExact ==
  ASSUME IInv, Finish
  PROVE  /\ arith' \in ArithType
         /\ arith'.out # <<>> /\ arith'.out[1] = 0
         /\ \E d \in 0 .. 1 : \E z \in Nat :
              /\ Len(arith'.out) = Made(arith) + d
              /\ Value(arith'.out) * One = Power[d] * z
              /\ Bottom(arith) <= z /\ z < Bottom(arith) + arith.wide
<1> DEFINE top     == (arith.base + arith.wide - 1) % Word
           carry   == top \div One
           flushed == FlushOutputQueue(arith, carry)
           cleared == top - (top % WideMsb)
           base    == cleared % One
           a0      == [flushed EXCEPT !.base = base]
           a1      == EmitTopByte(a0)
           z       == Queued(arith) * One + cleared
<1>1. /\ phase = "coding" /\ Sound(arith) /\ arith \in ArithType
      /\ arith' = EmitTail(a0)
  BY DEF Finish, IInv
<1>2. /\ arith.base \in 0 .. Word - 1 /\ arith.wide \in 1 .. One
      /\ arith.base + arith.wide <= Word /\ arith.queued_byte \in Nat
      /\ arith.out \in Seq(Byte) /\ arith.queued_ff_bytes \in Nat
      /\ arith.base + arith.wide > One => arith.queued_byte % Radix # Radix - 1
  BY <1>1 DEF Sound, Room, ArithType
<1>3. top = arith.base + arith.wide - 1 /\ top \in 0 .. Word - 1
  <2>1. /\ arith.base + arith.wide - 1 \in Nat
        /\ arith.base + arith.wide - 1 < Word /\ Word \in Nat \ {0}
    BY <1>2, Sizes
  <2> QED
    BY <2>1, ModSmall
<1> HIDE DEF top
<1>4. /\ carry \in {0, 1} /\ (top < One => carry = 0)
      /\ (top >= One => carry = 1)
  BY <1>3, CarryBit, CarryTop
<1> HIDE DEF carry
<1>5. /\ flushed \in ArithType /\ flushed.out # <<>>
      /\ Len(flushed.out) = Made(arith)
      /\ flushed.out[1] = 0
      /\ Value(flushed.out) = Queued(arith) + carry
  <2>1. /\ flushed \in ArithType /\ flushed.out # <<>>
        /\ Len(flushed.out) = Len(arith.out) + 1 + arith.queued_ff_bytes
        /\ flushed.out[1] = IF arith.out = <<>>
                            THEN (arith.queued_byte + carry) % Radix
                            ELSE arith.out[1]
    BY <1>1, <1>4, FlushStores
  <2>2. ASSUME arith.out = <<>> PROVE (arith.queued_byte + carry) % Radix = 0
    <3>1. arith.queued_byte = 0 /\ top < One
      BY <1>1, <1>2, <1>3, <2>2, Sizes DEF Sound, Stuffed
    <3>2. (0 + carry) % Radix = 0
      BY <1>4, <3>1, ModSmall, Sizes
    <3> QED
      BY <3>1, <3>2
  <2>3. carry = 1 => arith.queued_byte % Radix # Radix - 1
    BY <1>2, <1>3, <1>4, Sizes
  <2>4. Value(flushed.out) = Queued(arith) + carry
    BY <1>1, <1>4, <2>3, FlushValue
  <2> QED
    BY <1>1, <2>1, <2>2, <2>4 DEF Sound, Stuffed, Made
<1> HIDE DEF flushed
(* Clearing stays in the zone, keeps the carry and leaves a multiple of    *)
(* MIN_WIDE.                                                               *)
<1>6. /\ cleared \in Nat /\ arith.base <= cleared /\ cleared <= top
      /\ base \in 0 .. One - 1 /\ cleared = One * carry + base
      /\ \E i \in 0 .. Radix - 1 : base = MinWide * i
  <2> DEFINE w == WideMsb
             k == top \div w
             m == One \div w
             j == w \div MinWide
             n == k * j
  <2>1. /\ w \in Nat \ {0} /\ w <= arith.wide
        /\ w % MinWide = 0 /\ One % w = 0
    BY <1>1, TopBitFits
  <2>2. top \in Nat /\ MinWide \in Nat \ {0} /\ One \in Nat \ {0}
    BY <1>3, Sizes
  <2>3. k \in Nat /\ cleared = w * k /\ cleared <= top /\ top < cleared + w
    <3>1. k \in Nat /\ top = w * k + (top % w) /\ top % w \in 0 .. w - 1
      BY <2>1, <2>2, DivMod
    <3>2. w * k \in Nat
      BY <2>1, <3>1, MulMonotone
    <3> QED
      BY <3>1, <3>2, <2>1, <2>2
  <2>4. j \in Nat /\ w = MinWide * j /\ m \in Nat /\ One = w * m
    BY <2>1, <2>2, Multiple
  <2> HIDE DEF w, k, m, j, cleared
  <2>5. n \in Nat /\ cleared = MinWide * n /\ cleared \in Nat
    <3>1. n \in Nat /\ cleared = MinWide * n
      BY <2>2, <2>3, <2>4
    <3> QED
      BY <2>2, <3>1, MulMonotone
  <2> HIDE DEF n
  <2>6. arith.base <= cleared
    <3>1. top < cleared + w /\ w <= arith.wide /\ cleared \in Nat /\ w \in Nat
      BY <2>1, <2>3, <2>5
    <3>2. /\ arith.base \in Nat /\ arith.wide \in Nat
          /\ top = arith.base + arith.wide - 1
      BY <1>2, <1>3, Sizes
    <3> QED
      BY <3>1, <3>2
  <2>7. base \in 0 .. One - 1 /\ cleared = One * carry + base
    <3>1. CASE top < One
      <4>1. carry = 0 /\ cleared < One
        BY <1>4, <2>2, <2>3, <2>5, <3>1
      <4>2. base = cleared
        BY <2>2, <2>5, <4>1, ModSmall
      <4> QED
        BY <2>2, <2>5, <4>1, <4>2
    <3>2. CASE top >= One
      <4>1. carry = 1
        BY <1>4, <3>2
      <4>2. cleared >= One
        <5> SUFFICES ASSUME k + 1 <= m PROVE FALSE
          <6>1. m <= k => w * m <= w * k
            BY <2>1, <2>3, <2>4, MulMonotone
          <6> QED
            BY <2>3, <2>4, <6>1
        <5>1. w * (k + 1) <= w * m
          BY <2>1, <2>3, <2>4, MulMonotone
        <5>2. w * (k + 1) = w * k + w
          BY <2>1, <2>3
        <5> QED
          BY <2>1, <2>2, <2>3, <2>4, <2>5, <3>2, <5>1, <5>2
      <4>3. base = cleared - One
        BY <1>3, <2>2, <2>3, <2>5, <4>2, ModOnce, Sizes
      <4> HIDE DEF base
      <4> QED
        BY <1>3, <2>2, <2>3, <2>5, <4>1, <4>2, <4>3, Sizes
    <3> QED
      BY <1>3, <2>2, <3>1, <3>2
  <2> HIDE DEF base
  <2>8. \E i \in 0 .. Radix - 1 : base = MinWide * i
    <3> DEFINE i == n - Radix * carry
    <3>1. i \in Int /\ base = MinWide * i
      BY <1>4, <2>2, <2>5, <2>7, Sizes
    <3> HIDE DEF i
    <3>2. i \in 0 .. Radix - 1
      <4>1. ASSUME i <= -1 PROVE FALSE
        <5>1. MinWide * i <= MinWide * (-1)
          BY <2>2, <3>1, <4>1
        <5> QED
          BY <2>2, <2>7, <3>1, <5>1
      <4>2. ASSUME Radix <= i PROVE FALSE
        <5>1. MinWide * Radix <= MinWide * i
          BY <3>1, <4>2, MulMonotone, Sizes
        <5> QED
          BY <2>2, <2>7, <3>1, <5>1, Sizes
      <4> QED
        BY <3>1, <4>1, <4>2, Sizes
    <3> QED
      BY <3>1, <3>2
  <2> QED
    BY <2>3, <2>5, <2>6, <2>7, <2>8
<1> HIDE DEF cleared, base
<1>7. a0 = [base |-> base, wide |-> flushed.wide,
            queued_byte |-> flushed.queued_byte,
            queued_ff_bytes |-> flushed.queued_ff_bytes, out |-> flushed.out]
  BY <1>5 DEF ArithType
<1> HIDE DEF a0
<1>8. a0 \in ArithType /\ a0.out = flushed.out /\ a0.base = base
  <2>1. base \in 0 .. Word - 1
    BY <1>6, Sizes
  <2> QED
    BY <1>5, <1>7, <2>1 DEF ArithType
<1>9. /\ a1 \in ArithType /\ a1.out # <<>> /\ a1.out[1] = 0
  BY <1>5, <1>8, EmitTopByteKeeps
<1>10. /\ Queued(arith) \in Nat /\ One \in Nat /\ Radix \in Nat
       /\ Value(flushed.out) \in Nat /\ Queued(arith) * One \in Nat
  BY <1>1, <1>5, BottomType, Product, Sizes
<1>11. Value(flushed.out) * One + base = z /\ z \in Nat
  <2>1. (Queued(arith) + carry) * One = Queued(arith) * One + One * carry
    BY <1>4, <1>10
  <2>2. One * carry \in Nat
    BY <1>4, <1>10
  <2> DEFINE x == Queued(arith) * One
             c == One * carry
             v == Value(flushed.out) * One
  <2>3. v = x + c
    BY <1>5, <2>1
  <2>4. cleared = c + base /\ base \in Nat /\ x \in Nat /\ c \in Nat
    BY <1>6, <1>10, <2>2, Sizes
  <2>5. z = x + cleared
    OBVIOUS
  <2> HIDE DEF x, c, v, z
  <2>6. v + base = z /\ z \in Nat
    BY <2>3, <2>4, <2>5
  <2> QED
    BY <2>6 DEF v
<1>12. Bottom(arith) <= z /\ z < Bottom(arith) + arith.wide
  <2> DEFINE x == Queued(arith) * One
  <2>1. Bottom(arith) = x + arith.base /\ z = x + cleared /\ x \in Nat
    BY <1>10 DEF Bottom
  <2> HIDE DEF x, z
  <2>2. arith.base <= cleared /\ cleared < arith.base + arith.wide
    BY <1>2, <1>3, <1>6
  <2> QED
    BY <1>2, <1>6, <2>1, <2>2
<1> HIDE DEF z
<1>13. /\ a1.base = 0
       /\ \E d \in 0 .. 1 : /\ Len(a1.out) = Made(arith) + d
                            /\ Value(a1.out) * One = Power[d] * z
  <2>1. CASE base = 0
    <3>1. a1 = a0
      BY <1>8, <2>1 DEF EmitTopByte
    <3>2. Value(a1.out) * One = z
      <4>1. Value(flushed.out) * One \in Nat
        BY <1>10, Product
      <4> QED
        BY <1>8, <1>11, <2>1, <3>1, <4>1
    <3>3. Power[0] * z = z /\ Made(arith) + 0 = Made(arith)
      BY <1>1, <1>11, SmallPowers, BottomType
    <3>4. Value(a1.out) * One = Power[0] * z /\ Len(a1.out) = Made(arith) + 0
      BY <1>5, <1>8, <3>1, <3>2, <3>3
    <3> HIDE DEF a1
    <3> QED
      BY <1>8, <2>1, <3>1, <3>4
  <2>2. CASE base # 0
    <3> DEFINE byte == (a0.base \div MinWide) % Radix
               rest == (a0.base * Radix) % One
    <3>1. a1 = [a0 EXCEPT !.out = Append(@, byte), !.base = rest]
      BY <1>8, <2>2 DEF EmitTopByte
    <3>2. PICK i \in 0 .. Radix - 1 : base = MinWide * i
      BY <1>6
    <3>3. byte = i
      <4>1. MinWide \in Nat \ {0} /\ i \in Nat /\ 0 \in 0 .. MinWide - 1
        BY Sizes
      <4>2. (MinWide * i + 0) \div MinWide = i
        BY <4>1, DivUnique
      <4>3. MinWide * i + 0 = MinWide * i
        BY <4>1, Product
      <4>4. i % Radix = i
        BY <4>1, ModSmall, Sizes
      <4> QED
        BY <1>8, <3>2, <4>2, <4>3, <4>4
    <3>4. rest = 0
      <4>1. One \in Nat \ {0} /\ i \in Nat /\ 0 \in 0 .. One - 1
        BY Sizes
      <4>2. base * Radix = One * i + 0
        BY <3>2, Sizes
      <4>3. (One * i + 0) % One = 0
        BY <4>1, DivUnique
      <4> QED
        BY <1>8, <4>2, <4>3
    <3> HIDE DEF byte, rest, a1
    <3>5. a1 = [base |-> rest, wide |-> a0.wide, queued_byte |-> a0.queued_byte,
                queued_ff_bytes |-> a0.queued_ff_bytes,
                out |-> Append(a0.out, byte)]
      BY <1>8, <3>1 DEF ArithType
    <3>6. flushed.out \in Seq(Byte) /\ byte \in Byte
      BY <1>5, <3>3 DEF ArithType, Byte
    <3>7. /\ Len(Append(flushed.out, byte)) = Len(flushed.out) + 1
          /\ Append(flushed.out, byte) = flushed.out \o <<byte>>
      BY <3>6, AppendProperties, AppendIsConcat
    <3>8. Value(a1.out) = Value(flushed.out) * Radix + i
      BY <1>8, <3>3, <3>5, <3>6, <3>7, ValueAppend
    <3>9. Value(a1.out) * One = Radix * z
      <4> DEFINE v == Value(flushed.out)
      <4>1. v \in Nat /\ i \in Nat /\ MinWide \in Nat /\ One = Radix * MinWide
        BY <1>10, Sizes
      <4>2. z = v * One + MinWide * i /\ Value(a1.out) = v * Radix + i
        BY <1>11, <3>2, <3>8
      <4> HIDE DEF v
      <4>3. (v * Radix + i) * One = v * Radix * One + i * One
        BY <1>10, <4>1
      <4>4. Radix * (v * One + MinWide * i) = v * Radix * One + Radix * MinWide * i
        BY <1>10, <4>1
      <4>5. i * One = Radix * MinWide * i
        BY <1>10, <4>1
      <4> QED
        BY <4>2, <4>3, <4>4, <4>5
    <3>10. Value(a1.out) * One = Power[1] * z /\ Len(a1.out) = Made(arith) + 1
      BY <1>5, <1>8, <3>5, <3>7, <3>9, SmallPowers
    <3> QED
      BY <3>4, <3>5, <3>10
  <2> QED
    BY <2>1, <2>2
<1> HIDE DEF a1
<1>14. arith' = a1
  <2>1. EmitTopByte(a1) = a1
    BY <1>13 DEF EmitTopByte
  <2>2. EmitTail(a0) = EmitTopByte(EmitTopByte(EmitTopByte(a1)))
    BY DEF EmitTail, a1
  <2> QED
    BY <1>1, <2>1, <2>2
<1> QED
  BY <1>9, <1>11, <1>12, <1>13, <1>14
-----------------------------------------------------------------------------
(* arith_Start_Encoding.                                                   *)
LEMMA InitIInv == Init => IInv
<1> SUFFICES ASSUME Init PROVE IInv
  OBVIOUS
<1>1. arith = [base |-> 0, wide |-> One, queued_byte |-> 0,
               queued_ff_bytes |-> 0, out |-> <<>>]
  BY DEF Init
<1>2. arith \in ArithType
  BY <1>1, Sizes DEF ArithType
<1>3. Room(arith)
  BY <1>1, Sizes DEF Room
<1>4. Stuffed(arith)
  BY <1>1, Sizes DEF Stuffed
<1> QED
  BY <1>1, <1>2, <1>3, <1>4, Sizes DEF Init, IInv, Sound

(* Every step keeps the invariant.                                         *)
LEMMA NextIInv == IInv /\ [Next]_vars => IInv'
<1> SUFFICES ASSUME IInv, [Next]_vars PROVE IInv'
  OBVIOUS
(* A call of the coding phase.                                             *)
<1>1. ASSUME phase = "coding", phase' = phase,
             Sound(arith'), arith'.wide > MinWide
      PROVE  IInv'
  BY <1>1 DEF IInv, Sound, Stuffed
<1>2. CASE Encode1OfNCall \/ EncodeBitCall
  <2>1. phase = "coding" /\ phase' = phase /\ Narrowing(arith, arith')
    BY <1>2, CallNarrows
  <2>2. Sound(arith') /\ arith'.wide > MinWide
    BY <2>1, NarrowingSound DEF IInv
  <2> QED
    BY <1>1, <2>1, <2>2
<1>3. CASE Finish
  BY <1>3, FinishExact DEF IInv, Finish
<1>4. CASE UNCHANGED vars
  BY <1>4 DEF vars, IInv, Sound, Room, Stuffed
<1> QED
  BY <1>2, <1>3, <1>4 DEF Next

(* What the invariant is for.                                              *)
LEMMA IInvImplies ==
  ASSUME IInv
  PROVE  TypeOK /\ NormalisedWide /\ CarryRoom /\ StuffedByteIsZero
<1>1. TypeOK
  BY DEF IInv, TypeOK
<1>2. NormalisedWide
  BY Sizes DEF IInv, NormalisedWide, ArithType
<1>3. CarryRoom
  BY DEF IInv, CarryRoom, Sound
<1>4. StuffedByteIsZero
  BY DEF IInv, StuffedByteIsZero
<1> QED
  BY <1>1, <1>2, <1>3, <1>4

(* The inductive invariant holds of every message.                         *)
THEOREM Inductive == Spec => []IInv
  BY InitIInv, NextIInv, PTL DEF Spec

(* The fields of struct Arith stay in range, so that no assert of          *)
(* renormalize_and_write_if_needed can fail.                               *)
THEOREM TypeCorrect == Spec => []TypeOK
  BY Inductive, IInvImplies, PTL

(* Every call finds a zone wider than MIN_WIDE.                            *)
THEOREM AlwaysNormalised == Spec => []NormalisedWide
  BY Inductive, IInvImplies, PTL

(* No carry ever reaches a byte that has left the output queue.            *)
THEOREM CarriesAbsorbed == Spec => []CarryRoom
  BY Inductive, IInvImplies, PTL

(* The byte before the buffer that pzip_Encode restores was a zero.        *)
THEOREM StuffedByte == Spec => []StuffedByteIsZero
  BY Inductive, IInvImplies, PTL

(* arith_Finish_Encoding stores at most one byte of base: what its comment *)
(* suspects.                                                               *)
THEOREM OneByteTail == Spec => FinishWritesOneByte
<1>1. IInv /\ [Next]_vars => [phase' = "done" => Len(arith'.out) <= Produced + 1]_vars
  <2> SUFFICES ASSUME IInv, Next, phase' = "done"
               PROVE  Len(arith'.out) <= Produced + 1
    BY DEF vars
  <2>1. CASE Encode1OfNCall
    BY <2>1 DEF Encode1OfNCall, Encode1OfN
  <2>2. CASE EncodeBitCall
    BY <2>2 DEF EncodeBitCall, EncodeBit
  <2>3. CASE Finish
    <3>1. \E d \in 0 .. 1 : Len(arith'.out) = Produced + d
      BY <2>3, FinishExact DEF Made, Produced
    <3>2. Produced \in Nat
      BY BottomType DEF IInv, Made, Produced
    <3> QED
      BY <3>1, <3>2
  <2> QED
    BY <2>1, <2>2, <2>3 DEF Next
<1> QED
  BY <1>1, Inductive, PTL DEF Spec, FinishWritesOneByte
-----------------------------------------------------------------------------
(* arith_Start_Encoding starts with the whole free zone.                   *)
LEMMA InitImplements == Init => Exact!Init
<1> SUFFICES ASSUME Init PROVE Exact!Init
  OBVIOUS
<1>1. /\ arith = [base |-> 0, wide |-> One, queued_byte |-> 0,
                  queued_ff_bytes |-> 0, out |-> <<>>]
      /\ phase = "coding"
  BY DEF Init
<1>2. Bottom(arith) = 0
  <2>1. Value(arith.out) = 0 /\ Power[0] = 1 /\ 0 % Radix = 0
    BY <1>1, ValueEmpty, SmallPowers, ModSmall, Sizes
  <2>2. Queued(arith) = (0 * Radix + 0) * 1 + 1 - 1
    BY <1>1, <2>1 DEF Queued
  <2>3. Queued(arith) = 0
    BY <2>2, Sizes
  <2> QED
    BY <1>1, <2>3, Sizes DEF Bottom
<1>3. Produced = 1
  BY <1>1 DEF Produced
<1> QED
  BY <1>1, <1>2, <1>3 DEF Exact!Init, Exact!Open

(* Every step of the encoder narrows the exact zone, closes it or leaves   *)
(* it alone.                                                               *)
LEMMA NextImplements == IInv /\ [Next]_vars => [Exact!Next]_(Exact!vars)
<1> SUFFICES ASSUME IInv, [Next]_vars PROVE [Exact!Next]_(Exact!vars)
  OBVIOUS
<1> DEFINE low == Bottom(arith)
           width == arith.wide
<1>1. ASSUME phase = "coding" PROVE low \in Nat /\ width \in Nat /\ width > 0
  BY <1>1, BottomType, Sizes DEF IInv, ArithType
<1>2. CASE Encode1OfNCall \/ EncodeBitCall
  <2>1. phase = "coding" /\ phase' = phase /\ Narrowing(arith, arith')
    BY <1>2, CallNarrows
  <2>2. Sound(arith)
    BY <2>1 DEF IInv
  <2>3. Sound(arith') /\ arith'.wide > MinWide
        /\ \E d \in 0 .. 2 : Inside(arith, arith', d)
    BY <2>1, <2>2, NarrowingSound
  <2>4. PICK d \in 0 .. 2 : Inside(arith, arith', d)
    BY <2>3
  <2> DEFINE p == Power[d]
             low2 == Bottom(arith')
             width2 == arith'.wide
  <2>5. p \in Nat /\ width2 > 0
    <3>1. width2 > MinWide /\ width2 \in Nat
      BY <2>3, Sizes DEF Sound, ArithType
    <3> QED
      BY <3>1, PowerFacts, Sizes
  <2>6. Produced' = Produced + d
    BY <2>4 DEF Inside, Made, Produced
  <2>7. p * low <= low2 /\ low2 + width2 <= p * (low + width)
    BY <2>4 DEF Inside
  <2>8. p * low = low * p /\ p * (low + width) = (low + width) * p
    <3> HIDE DEF p, low, width
    <3>1. low \in Nat /\ low + width \in Nat
      BY <1>1, <2>1
    <3> QED
      BY <2>5, <3>1, Product
  <2> HIDE DEF p, low, width, low2, width2
  <2>9. low2 >= low * p /\ low2 + width2 <= (low + width) * p
    <3>1. low2 \in Nat /\ low * p \in Nat
      <4>1. arith' \in ArithType
        BY <2>3 DEF Sound
      <4> QED
        BY <1>1, <2>1, <2>5, <4>1, BottomType, Product DEF low2
    <3> QED
      BY <2>7, <2>8, <3>1
  <2>10. Exact!Narrow
    BY <1>1, <2>1, <2>5, <2>6, <2>9 DEF Exact!Narrow, Exact!Open, p, low, width, low2, width2
  <2> QED
    BY <2>10 DEF Exact!Next
<1>3. CASE Finish
  <2>1. phase = "coding" /\ phase' = "done"
    BY <1>3 DEF Finish
  <2>2. PICK d \in 0 .. 1, z \in Nat :
          /\ Len(arith'.out) = Made(arith) + d
          /\ Value(arith'.out) * One = Power[d] * z
          /\ Bottom(arith) <= z /\ z < Bottom(arith) + arith.wide
    BY <1>3, FinishExact
  <2> DEFINE p == Power[d]
             code == Value(arith'.out) * One
  <2>3. p \in Nat /\ p > 0
    BY PowerFacts
  <2>4. code = p * z /\ low <= z /\ z < low + width
    BY <2>2
  <2> HIDE DEF p, code, low, width
  <2>5. p * z >= low * p
    <3>1. p * low <= p * z /\ p * low = low * p
      BY <1>1, <2>1, <2>3, <2>4, MulMonotone
    <3>2. p * z \in Nat /\ low * p \in Nat
      BY <1>1, <2>1, <2>3, Product
    <3> QED
      BY <3>1, <3>2
  <2>6. p * z < (low + width) * p
    <3>1. low + width \in Nat /\ z + 1 <= low + width
      BY <1>1, <2>1, <2>4
    <3>2. p * (z + 1) <= p * (low + width) /\ p * (low + width) = (low + width) * p
      BY <2>3, <3>1, MulMonotone
    <3>3. p * (z + 1) = p * z + p
      BY <2>3
    <3>4. p * z \in Nat /\ (low + width) * p \in Nat
      BY <2>3, <3>1, Product
    <3> QED
      BY <2>3, <3>2, <3>3, <3>4
  <2>7. Len(arith'.out) = Produced + d
    BY <2>2 DEF Made, Produced
  <2>8. code >= low * p /\ code < (low + width) * p
    BY <2>4, <2>5, <2>6
  <2>9. d \in 0 .. 2
    OBVIOUS
  <2>10. Exact!Close
    BY <1>1, <2>1, <2>7, <2>8, <2>9 DEF Exact!Close, Exact!Open, p, low, width, code
  <2> QED
    BY <2>10 DEF Exact!Next
<1>4. CASE UNCHANGED vars
  BY <1>4 DEF vars, Exact!vars, Bottom, Queued, Produced
<1> QED
  BY <1>2, <1>3, <1>4 DEF Next

(* Whatever rounding, renormalisation and the output queue do, the message *)
(* is a number of the exact free zone of every call.                       *)
THEOREM EncoderImplements == Spec => ImplementsCodeInterval
  BY Inductive, InitImplements, NextImplements, PTL
     DEF Spec, ImplementsCodeInterval, Exact!Spec

(***************************************************************************)
(* The decoder.                                                            *)
(***************************************************************************)

(* How a byte splits, and how many whole bytes follow its head in MIN_WIDE. *)
Lead == IF MinWide = ExtraRadix THEN 0
        ELSE IF MinWide = ExtraRadix * Radix THEN 1 ELSE 2

LEMMA WordFacts ==
  /\ TailRadix \in Nat \ {0} /\ ExtraRadix \in Nat \ {0}
  /\ Radix = TailRadix * ExtraRadix /\ ExtraRadix <= Radix
  /\ Lead \in 0 .. 2 /\ Lead + 2 <= Padding
  /\ MinWide = ExtraRadix * Power[Lead]
<1>1. TailRadix \in Nat \ {0} /\ Radix \in Nat \ {0} /\ Radix % TailRadix = 0
  BY DecoderAssumption, Sizes
<1>2. ExtraRadix \in Nat /\ Radix = TailRadix * ExtraRadix
  BY <1>1, Multiple DEF ExtraRadix
<1>3. ExtraRadix > 0 /\ ExtraRadix <= Radix
  <2>1. ExtraRadix # 0
    <3>1. TailRadix * 0 = 0
      BY <1>1
    <3> QED
      BY <1>1, <1>2, <3>1
  <2>2. ExtraRadix * 1 <= ExtraRadix * TailRadix
        /\ ExtraRadix * TailRadix = TailRadix * ExtraRadix
    BY <1>1, <1>2, MulMonotone
  <2> QED
    BY <1>2, <2>1, <2>2
<1> DEFINE X == ExtraRadix
<1>4. /\ Padding \in Nat
      /\ \/ MinWide = X /\ 2 <= Padding
         \/ MinWide = X * Radix /\ 3 <= Padding
         \/ MinWide = X * Radix * Radix /\ 4 <= Padding
  BY DecoderAssumption
<1>5. Power[0] = 1 /\ Power[1] = Radix /\ Power[2] = Radix * Radix
  BY SmallPowers
<1>6. X \in Nat /\ X > 0 /\ Radix \in Nat /\ Radix > 1
  BY <1>2, <1>3, Sizes
<1>7. /\ Lead \in 0 .. 2
      /\ Lead = 0 => MinWide = X
      /\ Lead = 1 => MinWide = X * Radix
      /\ Lead = 2 => MinWide = X * Radix * Radix
  BY <1>4 DEF Lead
<1> DEFINE b == X * Radix
           c == X * Radix * Radix
<1>8. b \in Nat /\ c \in Nat /\ X < b /\ b < c
  <2>1. b \in Nat /\ X * 2 <= b
    BY <1>6, MulMonotone
  <2>2. c = b * Radix
    OBVIOUS
  <2> HIDE DEF b, c
  <2>3. c \in Nat /\ b * 2 <= c
    BY <1>6, <2>1, <2>2, MulMonotone
  <2> QED
    BY <1>6, <2>1, <2>3
<1>9. Lead + 2 <= Padding
  <2>1. /\ MinWide = X => Lead = 0
        /\ MinWide = b /\ MinWide # X => Lead = 1
    BY DEF Lead
  <2>2. \/ MinWide = X /\ 2 <= Padding
        \/ MinWide = b /\ 3 <= Padding
        \/ MinWide = c /\ 4 <= Padding
    BY <1>4
  <2> HIDE DEF b, c, X
  <2> QED
    BY <1>4, <1>7, <1>8, <2>1, <2>2
<1>10. MinWide = X * Power[Lead]
  <2>1. X * 1 = X /\ X * (Radix * Radix) = X * Radix * Radix
    BY <1>6
  <2> QED
    BY <1>5, <1>7, <2>1
<1> QED
  BY <1>1, <1>2, <1>3, <1>7, <1>9, <1>10

(* The same in whole words.                                                *)
LEMMA WholeWord ==
  /\ One = ExtraRadix * Power[Lead + 1]
  /\ TailRadix * One = Power[Lead + 2]
<1>1. /\ TailRadix \in Nat /\ ExtraRadix \in Nat /\ Radix \in Nat
      /\ Radix = TailRadix * ExtraRadix
      /\ Lead \in 0 .. 2 /\ MinWide = ExtraRadix * Power[Lead]
      /\ One = Radix * MinWide
  BY WordFacts, Sizes
<1>2. /\ Power[Lead + 1] = Radix * Power[Lead] /\ Power[Lead] \in Nat
      /\ Power[Lead + 1] \in Nat
      /\ (Lead + 1) + 1 = Lead + 2
      /\ Power[(Lead + 1) + 1] = Radix * Power[Lead + 1]
  BY <1>1, PowerFacts
<1> DEFINE p == Power[Lead]
           q == Power[Lead + 1]
<1> HIDE DEF p, q
<1>3. One = ExtraRadix * q
  BY <1>1, <1>2 DEF p, q
<1>4. TailRadix * One = Radix * q
  BY <1>1, <1>2, <1>3 DEF q
<1> QED
  BY <1>2, <1>3, <1>4 DEF q

-----------------------------------------------------------------------------
(* The bytes a decoder reads: the file without the stuffed byte, and past  *)
(* its end the byte s for ever.                                            *)
ByteAt(out, s, i) == IF i <= Len(Tail(out)) THEN Tail(out)[i] ELSE s

Opened(out, s) == out \in Seq(Byte) /\ out # <<>> /\ s \in Byte

(* The numbers that the first n bytes read are.                            *)
Numbers(out, s, p) ==
  /\ p \in [Nat -> Nat]
  /\ p[0] = 0
  /\ \A n \in Nat : p[n + 1] = p[n] * Radix + ByteAt(out, s, n + 1)

Number(out, s) == CHOOSE p : Numbers(out, s, p)

(* A decoder reads bytes.                                                  *)
LEMMA ByteAtType ==
  ASSUME NEW out, NEW s, Opened(out, s), NEW i \in Nat, i > 0
  PROVE  ByteAt(out, s, i) \in Byte /\ ByteAt(out, s, i) \in 0 .. Radix - 1
<1>1. Tail(out) \in Seq(Byte)
  BY DEF Opened
<1>2. CASE i <= Len(Tail(out))
  <2>1. i \in 1 .. Len(Tail(out))
    BY <1>1, <1>2
  <2>2. Tail(out)[i] \in Byte
    BY <1>1, <2>1
  <2> QED
    BY <1>2, <2>2 DEF ByteAt, Byte
<1>3. CASE ~(i <= Len(Tail(out)))
  BY <1>3 DEF ByteAt, Opened, Byte
<1> QED
  BY <1>2, <1>3

(* The numbers of the bytes read are defined.                              *)
LEMMA NumbersExist ==
  ASSUME NEW out, NEW s, Opened(out, s)
  PROVE  Numbers(out, s, Number(out, s))
<1> DEFINE step == [n \in Nat |-> [v \in Nat |-> v * Radix + ByteAt(out, s, n + 1)]]
<1>1. step \in [Nat -> [Nat -> Nat]]
  <2>1. ASSUME NEW n \in Nat, NEW v \in Nat
        PROVE  v * Radix + ByteAt(out, s, n + 1) \in Nat
    <3>1. ByteAt(out, s, n + 1) \in Nat
      BY ByteAtType, Sizes
    <3>2. v * Radix \in Nat
      BY Product, Sizes
    <3> QED
      BY <3>1, <3>2
  <2> QED
    BY <2>1
<1>2. \A n \in Nat : \A v \in Nat :
        step[n][v] = v * Radix + ByteAt(out, s, n + 1)
  OBVIOUS
<1> HIDE DEF step
<1>3. PICK p : Iterates(Nat, 0, step, p)
  BY <1>1, Iteration
<1>4. Numbers(out, s, p)
  <2>1. p \in [Nat -> Nat] /\ p[0] = 0
    BY <1>3 DEF Iterates
  <2>2. ASSUME NEW n \in Nat
        PROVE  p[n + 1] = p[n] * Radix + ByteAt(out, s, n + 1)
    <3>1. p[n + 1] = step[n][p[n]] /\ p[n] \in Nat
      BY <1>3, <2>1 DEF Iterates
    <3> QED
      BY <1>2, <3>1
  <2> QED
    BY <2>1, <2>2 DEF Numbers
<1> QED
  BY <1>4, Zenon DEF Number

(* One more byte.                                                          *)
LEMMA NumberNext ==
  ASSUME NEW out, NEW s, Opened(out, s), NEW m \in Nat
  PROVE  /\ Number(out, s)[m] \in Nat /\ Number(out, s)[0] = 0
         /\ ByteAt(out, s, m + 1) \in 0 .. Radix - 1
         /\ Number(out, s)[m + 1]
              = Number(out, s)[m] * Radix + ByteAt(out, s, m + 1)
<1>1. ByteAt(out, s, m + 1) \in 0 .. Radix - 1
  BY ByteAtType
<1> QED
  BY <1>1, NumbersExist DEF Numbers

(* More bytes refine the number without leaving its unit.                  *)
LEMMA NumberSpan ==
  ASSUME NEW out, NEW s, Opened(out, s), NEW m \in Nat, NEW j \in 0 .. 2
  PROVE  /\ Number(out, s)[m] \in Nat /\ Number(out, s)[m + j] \in Nat
         /\ Power[j] * Number(out, s)[m] <= Number(out, s)[m + j]
         /\ Number(out, s)[m + j] < Power[j] * (Number(out, s)[m] + 1)
<1> DEFINE p == Number(out, s)
           a == ByteAt(out, s, m + 1)
           b == ByteAt(out, s, (m + 1) + 1)
<1>1. /\ p[m] \in Nat /\ a \in 0 .. Radix - 1 /\ p[m + 1] = p[m] * Radix + a
      /\ p[m + 1] \in Nat /\ b \in 0 .. Radix - 1
      /\ p[(m + 1) + 1] = p[m + 1] * Radix + b /\ p[(m + 1) + 1] \in Nat
  <2>1. m + 1 \in Nat /\ (m + 1) + 1 \in Nat
    OBVIOUS
  <2> QED
    BY <2>1, NumberNext
<1> HIDE DEF p, a, b
<1>2. Power[0] = 1 /\ Power[1] = Radix /\ Power[2] = Radix * Radix
  BY SmallPowers
<1>3. Radix \in Nat /\ Radix > 1
  BY Sizes
<1> DEFINE x == Radix * p[m]
           y == Radix * x
<1>4. x \in Nat /\ y \in Nat /\ p[m + 1] = x + a
  BY <1>1, <1>3, Product
<1>5. Radix * (p[m] + 1) = x + Radix
  BY <1>1, <1>3
<1>6. p[m + 1] < Radix * (p[m] + 1)
  <2> HIDE DEF x
  <2> QED
    BY <1>1, <1>3, <1>4, <1>5
<1>7. Radix * x <= p[m + 2] /\ p[m + 2] < Radix * (x + Radix)
  <2>1. (m + 1) + 1 = m + 2
    OBVIOUS
  <2> DEFINE e == Radix * a
  <2>2. e \in Nat /\ e <= Radix * (Radix - 1)
    BY <1>1, <1>3, MulMonotone
  <2>3. p[m + 2] = y + e + b
    BY <1>1, <1>3, <1>4, <2>1
  <2>4. Radix * (x + Radix) = y + Radix * (Radix - 1) + Radix
    BY <1>3, <1>4
  <2> DEFINE f == Radix * (Radix - 1)
  <2>5. f \in Nat
    BY <1>3, Product
  <2> HIDE DEF y, e, f
  <2>6. y <= p[m + 2] /\ p[m + 2] < y + f + Radix
    BY <1>1, <1>3, <1>4, <2>2, <2>3, <2>5 DEF f
  <2> QED
    BY <2>4, <2>6 DEF y, f
<1>8. /\ Power[2] * p[m] = Radix * x
      /\ Power[2] * (p[m] + 1) = Radix * (x + Radix)
  <2>1. Radix * Radix * p[m] = Radix * x
    BY <1>1, <1>3
  <2>2. Radix * Radix * (p[m] + 1) = Radix * (Radix * (p[m] + 1))
    BY <1>1, <1>3
  <2> QED
    BY <1>2, <1>5, <2>1, <2>2
<1> HIDE DEF x
<1>9. CASE j = 0
  <2>1. m + 0 = m /\ 1 * p[m] = p[m] /\ 1 * (p[m] + 1) = p[m] + 1
    BY <1>1
  <2> QED
    BY <1>1, <1>2, <1>9, <2>1 DEF p
<1>10. CASE j = 1
  <2>1. Power[1] * p[m] <= p[m + 1] /\ p[m + 1] < Power[1] * (p[m] + 1)
    BY <1>1, <1>2, <1>4, <1>6 DEF x
  <2> QED
    BY <1>1, <1>10, <2>1 DEF p
<1>11. CASE j = 2
  <2>1. (m + 1) + 1 = m + 2
    OBVIOUS
  <2>2. Power[2] * p[m] <= p[m + 2] /\ p[m + 2] < Power[2] * (p[m] + 1)
    BY <1>7, <1>8
  <2> QED
    BY <1>1, <1>11, <2>1, <2>2 DEF p
<1> QED
  BY <1>9, <1>10, <1>11

(* The whole file is the number that arith_Finish_Encoding stored.         *)
LEMMA NumberOfFile ==
  ASSUME NEW out, NEW s, Opened(out, s), out[1] = 0
  PROVE  Number(out, s)[Len(out) - 1] = Value(out) /\ Len(out) - 1 \in Nat
<1> DEFINE p == Number(out, s)
           v == [n \in 0 .. Len(out) |-> IF n = 0 THEN 0 ELSE p[n - 1]]
<1>1. out \in Seq(Byte) /\ Len(out) \in Nat /\ Len(out) > 0
  BY DEF Opened
<1>2. \A m \in Nat : /\ p[m] \in Nat
                     /\ p[m + 1] = p[m] * Radix + ByteAt(out, s, m + 1)
  BY NumberNext
<1>3. p[0] = 0
  BY NumberNext
<1> HIDE DEF p
<1>4. v \in [0 .. Len(out) -> Nat] /\ v[0] = 0
  <2>1. ASSUME NEW n \in 0 .. Len(out), n # 0 PROVE p[n - 1] \in Nat
    BY <1>2, <2>1
  <2> QED
    BY <1>1, <2>1
<1>5. ASSUME NEW n \in 1 .. Len(out) PROVE v[n] = v[n - 1] * Radix + out[n]
  <2>1. CASE n = 1
    <3>1. v[1] = p[0] /\ v[0] = 0 /\ 1 - 1 = 0
      BY <1>1
    <3>2. 0 * Radix + 0 = 0
      BY Sizes
    <3> HIDE DEF v
    <3> QED
      BY <1>3, <2>1, <3>1, <3>2
  <2>2. CASE n > 1
    <3>1. n - 1 \in 1 .. Len(out) /\ n - 2 \in Nat /\ (n - 2) + 1 = n - 1
      BY <1>1, <2>2
    <3>2. v[n] = p[n - 1] /\ v[n - 1] = p[n - 2]
      BY <1>1, <2>2, <3>1
    <3>3. ByteAt(out, s, n - 1) = out[n]
      <4>1. Len(Tail(out)) = Len(out) - 1
        BY <1>1
      <4>2. Tail(out)[n - 1] = out[(n - 1) + 1] /\ (n - 1) + 1 = n
        BY <1>1, <3>1, <2>2
      <4>3. n - 1 <= Len(Tail(out))
        BY <1>1, <4>1
      <4> HIDE DEF v
      <4> QED
        BY <4>2, <4>3 DEF ByteAt
    <3>4. p[n - 1] = p[n - 2] * Radix + ByteAt(out, s, n - 1)
      BY <1>2, <3>1
    <3> HIDE DEF v
    <3> QED
      BY <3>2, <3>3, <3>4
  <2> QED
    BY <2>1, <2>2
<1>6. v[Len(out)] = p[Len(out) - 1]
  BY <1>1
<1> HIDE DEF v
<1>7. Prefixes(out, v)
  BY <1>4, <1>5 DEF Prefixes
<1> QED
  BY <1>1, <1>6, <1>7, ValueIs DEF p

(* Zeros behind it scale it.                                               *)
LEMMA NumberTail ==
  ASSUME NEW out, Opened(out, 0)
  PROVE  \A j \in Nat : Number(out, 0)[(Len(out) - 1) + j]
                          = Number(out, 0)[Len(out) - 1] * Power[j]
<1> DEFINE p == Number(out, 0)
           n == Len(out) - 1
           S == {j \in Nat : p[n + j] = p[n] * Power[j]}
<1>1. out \in Seq(Byte) /\ n \in Nat /\ Len(Tail(out)) = n
  BY DEF Opened
<1>2. \A m \in Nat : /\ p[m] \in Nat
                     /\ p[m + 1] = p[m] * Radix + ByteAt(out, 0, m + 1)
  BY NumberNext
<1> HIDE DEF p
<1>3. 0 \in S
  <2>1. p[n + 0] = p[n] /\ p[n] * 1 = p[n]
    BY <1>1, <1>2
  <2> QED
    BY <2>1, PowerFacts
<1>4. ASSUME NEW j \in Nat, j \in S PROVE j + 1 \in S
  <2>1. n + j \in Nat /\ n + (j + 1) = (n + j) + 1 /\ ~((n + j) + 1 <= n)
    BY <1>1
  <2>2. ByteAt(out, 0, (n + j) + 1) = 0
    BY <1>1, <2>1 DEF ByteAt
  <2>3. p[(n + j) + 1] = p[n + j] * Radix + 0
    BY <1>2, <2>1, <2>2
  <2>4. Power[j + 1] = Radix * Power[j] /\ Power[j] \in Nat /\ Radix \in Nat
    BY PowerFacts, Sizes
  <2> DEFINE q == Power[j]
             w == p[n]
  <2>5. w \in Nat /\ p[n + j] = w * q
    BY <1>1, <1>2, <1>4
  <2> HIDE DEF q, w
  <2>6. w * q * Radix + 0 = w * (Radix * q)
    BY <2>4, <2>5 DEF q
  <2>7. p[n + (j + 1)] = w * (Radix * q)
    BY <2>1, <2>3, <2>5, <2>6
  <2> QED
    BY <2>4, <2>7 DEF q, w
<1> HIDE DEF S
<1>5. \A j \in Nat : j \in S
  BY <1>3, <1>4, Induct
<1> QED
  BY <1>5 DEF S, p

-----------------------------------------------------------------------------
(* The decoding half on the bytes of a file.                               *)
Advance(out, s, d) ==
  [base |-> (d.base * Radix + ((d.queued_byte * ExtraRadix) % Radix)
               + (ByteAt(out, s, d.next + 1) \div TailRadix)) % Word,
   wide |-> d.wide * Radix, queued_byte |-> ByteAt(out, s, d.next + 1),
   next |-> d.next + 1]

AdvanceOnce(out, s, d) == IF d.wide <= MinWide THEN Advance(out, s, d) ELSE d

Fill(out, s, d) ==
  AdvanceOnce(out, s, AdvanceOnce(out, s, AdvanceOnce(out, s, d)))

(* renormalize_and_read_if_needed reads the bytes of the file.             *)
LEMMA RefillIsFill ==
  \A d : Refill(d) = Fill(arith.out, slop, d)
<1>1. ASSUME NEW i PROVE FileByte(i) = ByteAt(arith.out, slop, i)
  BY Zenon DEF FileByte, File, ByteAt
<1>2. ASSUME NEW c PROVE ReadByte(c) = Advance(arith.out, slop, c)
  BY <1>1, Zenon DEF ReadByte, Advance
<1>3. ASSUME NEW c PROVE ReadOnce(c) = AdvanceOnce(arith.out, slop, c)
  BY <1>2, Zenon DEF ReadOnce, AdvanceOnce
<1> QED
  BY <1>3, Zenon DEF Refill, Fill

(* The same after a step.                                                  *)
LEMMA RefillIsFillNext ==
  Refill(dec)' = Fill(arith'.out, slop', dec')
<1>1. ASSUME NEW CONSTANT i PROVE FileByte(i)' = ByteAt(arith'.out, slop', i)
  BY Zenon DEF FileByte, File, ByteAt
<1>2. ASSUME NEW CONSTANT c PROVE ReadByte(c)' = Advance(arith'.out, slop', c)
  BY <1>1, Zenon DEF ReadByte, Advance
<1>3. ASSUME NEW CONSTANT c PROVE ReadOnce(c)' = AdvanceOnce(arith'.out, slop', c)
  BY <1>2, Zenon DEF ReadOnce, AdvanceOnce
<1> QED
  BY <1>3, Zenon DEF Refill, Fill

(* A number below the width of the decoder's zone.                         *)
Held(d) ==
  /\ d \in [base : Nat, wide : 1 .. One, queued_byte : Byte, next : Nat]
  /\ d.base < d.wide

(* What the decoder has read, less the bits left in the queued byte, is    *)
(* base above the bottom low.                                              *)
Tracks(out, s, d, low) ==
  /\ d.next > 0
  /\ d.queued_byte = ByteAt(out, s, d.next)
  /\ Number(out, s)[d.next] \div TailRadix = low + d.base

(* The bit left in the queued byte goes above the head of the next one.    *)
LEMMA QueuedBits ==
  ASSUME NEW q \in Byte, NEW b \in Byte
  PROVE  /\ (q * ExtraRadix) % Radix = ExtraRadix * (q % TailRadix)
         /\ q % TailRadix \in Nat /\ b \div TailRadix \in Nat
         /\ ExtraRadix * (q % TailRadix) \in Nat
         /\ b \div TailRadix < ExtraRadix
         /\ ExtraRadix * (q % TailRadix) + (b \div TailRadix) < Radix
<1>1. /\ TailRadix \in Nat \ {0} /\ ExtraRadix \in Nat \ {0} /\ Radix \in Nat \ {0}
      /\ Radix = TailRadix * ExtraRadix
  BY WordFacts, Sizes
<1>2. q \in Nat /\ b \in Nat /\ b < Radix
  BY <1>1 DEF Byte
<1> DEFINE g == q \div TailRadix
           t == q % TailRadix
           h == b \div TailRadix
           r == b % TailRadix
<1>3. /\ g \in Nat /\ t \in 0 .. TailRadix - 1 /\ q = TailRadix * g + t
      /\ h \in Nat /\ r \in 0 .. TailRadix - 1 /\ b = TailRadix * h + r
  BY <1>1, <1>2, DivMod
<1> HIDE DEF g, t, h, r
<1> DEFINE x == ExtraRadix * t
<1>4. x \in Nat /\ x + ExtraRadix <= Radix
  <2>1. x \in Nat /\ ExtraRadix * (t + 1) <= ExtraRadix * TailRadix
    BY <1>1, <1>3, MulMonotone
  <2>2. ExtraRadix * (t + 1) = x + ExtraRadix /\ ExtraRadix * TailRadix = Radix
    BY <1>1, <1>3
  <2> HIDE DEF x
  <2> QED
    BY <2>1, <2>2
<1>5. q * ExtraRadix = Radix * g + x
  BY <1>1, <1>3
<1> HIDE DEF x
<1>6. (Radix * g + x) % Radix = x
  <2>1. x \in 0 .. Radix - 1
    BY <1>1, <1>4
  <2> QED
    BY <1>1, <1>3, <2>1, DivUnique
<1>7. h < ExtraRadix
  <2> SUFFICES ASSUME ExtraRadix <= h PROVE FALSE
    BY <1>1, <1>3
  <2>1. TailRadix * ExtraRadix <= TailRadix * h /\ TailRadix * h \in Nat
    BY <1>1, <1>3, MulMonotone
  <2> QED
    BY <1>1, <1>2, <1>3, <2>1
<1>8. x + h < Radix
  BY <1>1, <1>3, <1>4, <1>7
<1> QED
  BY <1>3, <1>4, <1>5, <1>6, <1>7, <1>8 DEF g, t, h, x

(* A turn of renormalize_and_read_if_needed keeps base below wide, so that *)
(* the shift loses nothing.                                                *)
LEMMA AdvanceHeld ==
  ASSUME NEW out, NEW s, Opened(out, s), NEW d, Held(d), d.wide <= MinWide,
         NEW e, e = Advance(out, s, d)
  PROVE  /\ Held(e) /\ e.wide = d.wide * Radix /\ e.next = d.next + 1
         /\ e.queued_byte = ByteAt(out, s, e.next)
         /\ e.base = d.base * Radix + ExtraRadix * (d.queued_byte % TailRadix)
                       + (e.queued_byte \div TailRadix)
<1> DEFINE b == ByteAt(out, s, d.next + 1)
           x == ExtraRadix * (d.queued_byte % TailRadix)
           h == b \div TailRadix
           y == d.base * Radix
           w == d.wide * Radix
           sum == y + x + h
<1>1. /\ d.base \in Nat /\ d.wide \in Nat /\ d.wide > 0 /\ d.queued_byte \in Byte
      /\ d.next \in Nat /\ d.base + 1 <= d.wide
  BY Sizes DEF Held
<1>2. b \in Byte
  <2>1. d.next + 1 \in Nat /\ d.next + 1 > 0
    BY <1>1
  <2> QED
    BY <2>1, ByteAtType
<1>3. /\ (d.queued_byte * ExtraRadix) % Radix = x
      /\ x \in Nat /\ h \in Nat /\ x + h < Radix
  BY <1>1, <1>2, QueuedBits
<1> HIDE DEF b
<1>4. e = [base |-> (y + ((d.queued_byte * ExtraRadix) % Radix) + h) % Word,
           wide |-> w, queued_byte |-> b, next |-> d.next + 1]
  BY DEF Advance, b
<1> HIDE DEF x, h
<1>5. /\ y \in Nat /\ w \in Nat /\ y + Radix <= w /\ w <= One
  <2>1. Radix * d.base \in Nat /\ Radix * (d.base + 1) <= Radix * d.wide
        /\ Radix * d.wide <= Radix * MinWide
    BY <1>1, MulMonotone, Sizes
  <2>2. Radix * (d.base + 1) = y + Radix /\ Radix * d.wide = w /\ y = Radix * d.base
    BY <1>1, Sizes
  <2>3. w \in Nat
    BY <1>1, Product, Sizes
  <2> HIDE DEF y, w
  <2> QED
    BY <2>1, <2>2, <2>3, Sizes
<1> HIDE DEF y, w
<1>6. sum \in Nat /\ sum < w /\ sum < Word
  BY <1>3, <1>5, Sizes
<1>7. e.base = sum
  <2>1. sum % Word = sum
    <3> HIDE DEF sum
    <3>1. Word \in Nat \ {0}
      BY Sizes
    <3> QED
      BY <1>6, <3>1, ModSmall
  <2> QED
    BY <1>3, <1>4, <2>1
<1>8. /\ e.wide = w /\ e.queued_byte = b /\ e.next = d.next + 1
      /\ e = [base |-> e.base, wide |-> w, queued_byte |-> b, next |-> d.next + 1]
  BY <1>4
<1>9. w \in 1 .. One /\ d.next + 1 \in Nat
  BY <1>1, <1>5, <1>6
<1>10. Held(e)
  BY <1>2, <1>6, <1>7, <1>8, <1>9 DEF Held
<1> QED
  BY <1>7, <1>8, <1>10 DEF b, x, h, y, w

(* Reading a byte keeps track.                                             *)
LEMMA AdvanceTracks ==
  ASSUME NEW out, NEW s, Opened(out, s), NEW d, Held(d), d.wide <= MinWide,
         NEW low \in Nat, Tracks(out, s, d, low),
         NEW e, e = Advance(out, s, d)
  PROVE  Tracks(out, s, e, Radix * low)
<1> DEFINE m == d.next
           p == Number(out, s)
           q == d.queued_byte
           b == e.queued_byte
           t == q % TailRadix
           g == q \div TailRadix
           h == b \div TailRadix
           r == b % TailRadix
<1>1. /\ m \in Nat /\ m > 0 /\ m - 1 \in Nat /\ q \in Byte /\ d.base \in Nat
      /\ q = ByteAt(out, s, m)
      /\ p[m] \div TailRadix = low + d.base
  BY DEF Held, Tracks
<1>2. /\ e.next = m + 1 /\ b = ByteAt(out, s, m + 1) /\ b \in Byte
      /\ e.base = d.base * Radix + ExtraRadix * t + h
  BY <1>1, AdvanceHeld DEF Held
<1>3. /\ p[m] \in Nat /\ p[m - 1] \in Nat
      /\ p[m] = p[m - 1] * Radix + q
      /\ p[m + 1] = p[m] * Radix + b
  <2>1. (m - 1) + 1 = m
    BY <1>1
  <2> QED
    BY <1>1, <1>2, <2>1, NumberNext
<1>4. /\ TailRadix \in Nat \ {0} /\ ExtraRadix \in Nat /\ Radix \in Nat
      /\ Radix = TailRadix * ExtraRadix
  BY WordFacts, Sizes
<1>5. /\ t \in 0 .. TailRadix - 1 /\ g \in Nat /\ q = TailRadix * g + t
      /\ r \in 0 .. TailRadix - 1 /\ h \in Nat /\ b = TailRadix * h + r
  <2>1. q \in Nat /\ b \in Nat
    BY <1>1, <1>2, <1>4 DEF Byte
  <2> HIDE DEF q, b
  <2> QED
    BY <1>4, <2>1, DivMod
<1> HIDE DEF m, p, q, b, t, g, h, r
<1> DEFINE i == low + d.base
<1>6. p[m] = TailRadix * i + t /\ i \in Nat
  <2> DEFINE f == p[m - 1] * ExtraRadix
  <2>1. f \in Nat
    BY <1>3, <1>4, Product
  <2>2. p[m] = TailRadix * (f + g) + t
    <3>1. p[m - 1] * Radix = TailRadix * f
      BY <1>3, <1>4
    <3> HIDE DEF f
    <3>2. TailRadix * (f + g) = TailRadix * f + TailRadix * g
      BY <1>4, <1>5, <2>1
    <3>3. p[m] = TailRadix * f + (TailRadix * g + t)
      BY <1>3, <1>5, <3>1
    <3> QED
      BY <1>4, <1>5, <2>1, <3>2, <3>3
  <2> HIDE DEF f
  <2>3. f + g \in Nat
    BY <1>5, <2>1
  <2>4. (TailRadix * (f + g) + t) \div TailRadix = f + g
    BY <1>4, <1>5, <2>3, DivUnique
  <2> QED
    BY <1>1, <2>2, <2>3, <2>4
<1> DEFINE j == Radix * i + ExtraRadix * t + h
<1>7. Radix * i \in Nat /\ ExtraRadix * t \in Nat /\ j \in Nat
  <2>1. Radix * i \in Nat
    BY <1>4, <1>6, Product
  <2>2. ExtraRadix * t \in Nat
    BY <1>4, <1>5, Product
  <2> QED
    BY <1>5, <2>1, <2>2
<1>8. p[m + 1] = TailRadix * j + r
  <2> DEFINE u == Radix * i
             v == ExtraRadix * t
  <2>1. (TailRadix * i + t) * Radix = TailRadix * u + TailRadix * v
    <3> HIDE DEF i
    <3>1. (TailRadix * i + t) * Radix = TailRadix * i * Radix + t * Radix
      BY <1>4, <1>5, <1>6
    <3>2. TailRadix * i * Radix = TailRadix * u
      BY <1>4, <1>6
    <3>3. t * Radix = TailRadix * v
      BY <1>4, <1>5
    <3> QED
      BY <3>1, <3>2, <3>3
  <2>2. j = u + v + h
    OBVIOUS
  <2>3. u \in Nat /\ v \in Nat
    BY <1>7
  <2> HIDE DEF u, v, j, i
  <2>4. TailRadix * (u + v + h) = TailRadix * u + TailRadix * v + TailRadix * h
    BY <1>4, <1>5, <2>3
  <2>5. p[m + 1] = (TailRadix * u + TailRadix * v) + (TailRadix * h + r)
    BY <1>3, <1>5, <1>6, <2>1
  <2>6. TailRadix * u \in Nat /\ TailRadix * v \in Nat /\ TailRadix * h \in Nat
    BY <1>4, <1>5, <2>3, Product
  <2> QED
    BY <1>5, <2>2, <2>4, <2>5, <2>6
<1>9. p[m + 1] \div TailRadix = j
  <2> HIDE DEF j
  <2>1. (TailRadix * j + r) \div TailRadix = j
    BY <1>4, <1>5, <1>7, DivUnique
  <2> QED
    BY <1>8, <2>1
<1>10. j = Radix * low + e.base
  <2>1. Radix * (low + d.base) = Radix * low + d.base * Radix
    BY <1>1, <1>4
  <2>2. d.base * Radix \in Nat /\ Radix * low \in Nat
    BY <1>1, <1>4, Product
  <2> DEFINE u == Radix * low
             v == ExtraRadix * t
             w == d.base * Radix
  <2>3. j = (u + w) + v + h /\ e.base = w + v + h
    BY <1>2, <2>1
  <2>4. u \in Nat /\ v \in Nat /\ w \in Nat
    BY <1>7, <2>2
  <2> HIDE DEF u, v, w, j
  <2>5. j = u + e.base
    BY <1>5, <2>3, <2>4
  <2> QED
    BY <2>5 DEF u
<1> QED
  BY <1>1, <1>2, <1>9, <1>10 DEF Tracks, p, m, b

(* A turn of the loop, taken or not.                                       *)
LEMMA AdvanceOnceReads ==
  ASSUME NEW out, NEW s, Opened(out, s), NEW d, Held(d),
         NEW e, e = AdvanceOnce(out, s, d)
  PROVE  /\ Held(e)
         /\ d.wide <= MinWide => /\ e.wide = d.wide * Radix
                                 /\ e.next = d.next + 1
                                 /\ e.queued_byte = ByteAt(out, s, e.next)
         /\ d.wide > MinWide => e = d
         /\ \A low \in Nat : d.wide <= MinWide /\ Tracks(out, s, d, low)
                               => Tracks(out, s, e, Radix * low)
<1>1. d.wide \in Nat /\ MinWide \in Nat
  BY Sizes DEF Held
<1>2. CASE d.wide <= MinWide
  <2>1. e = Advance(out, s, d)
    BY <1>2 DEF AdvanceOnce
  <2> QED
    BY <1>1, <1>2, <2>1, AdvanceHeld, AdvanceTracks
<1>3. CASE d.wide > MinWide
  <2>1. e = d /\ ~(d.wide <= MinWide)
    BY <1>1, <1>3 DEF AdvanceOnce
  <2> QED
    BY <1>3, <2>1
<1> QED
  BY <1>1, <1>2, <1>3

(* arith_Start_Decoding and the first refill fill the initial word.        *)
LEMMA StartFilled ==
  ASSUME NEW out, NEW s, Opened(out, s),
         NEW d, d = StartDecoding(ByteAt(out, s, 1)),
         NEW e, e = Fill(out, s, d)
  PROVE  /\ Held(d) /\ Held(e) /\ d.next = 1
         /\ e.wide = One /\ e.next = Lead + 2 /\ Tracks(out, s, e, 0)
<1> DEFINE b == ByteAt(out, s, 1)
           f == AdvanceOnce(out, s, d)
           g == AdvanceOnce(out, s, f)
<1>1. /\ TailRadix \in Nat \ {0} /\ ExtraRadix \in Nat \ {0}
      /\ Radix = TailRadix * ExtraRadix /\ ExtraRadix <= Radix
      /\ Lead \in 0 .. 2 /\ MinWide = ExtraRadix * Power[Lead]
      /\ Radix \in Nat /\ Radix > 1
      /\ MinWide \in Nat /\ One = Radix * MinWide /\ MinWide > 0
  BY WordFacts, Sizes
<1>2. b \in Byte /\ b \in Nat
  BY ByteAtType, Sizes DEF Byte
<1>3. b \div TailRadix \in Nat /\ b \div TailRadix < ExtraRadix
  BY <1>2, QueuedBits
<1>4. d = [base |-> b \div TailRadix, wide |-> ExtraRadix, queued_byte |-> b, next |-> 1]
  BY DEF StartDecoding
<1>5. ExtraRadix <= MinWide /\ ExtraRadix \in 1 .. One
  <2>1. Power[Lead] \in Nat /\ Power[Lead] >= 1
    BY <1>1, PowerFacts
  <2>2. ExtraRadix * 1 <= ExtraRadix * Power[Lead]
    BY <1>1, <2>1, MulMonotone
  <2>3. One > MinWide /\ One \in Nat
    BY Sizes
  <2> QED
    BY <1>1, <2>2, <2>3
<1>6. Held(d)
  BY <1>2, <1>3, <1>4, <1>5 DEF Held
<1>7. Tracks(out, s, d, 0)
  <2>1. Number(out, s)[0] = 0 /\ Number(out, s)[0 + 1] = Number(out, s)[0] * Radix + ByteAt(out, s, 0 + 1)
    BY NumberNext
  <2>2. Number(out, s)[1] = b
    <3>1. 0 + 1 = 1 /\ 0 * Radix + b = b
      BY <1>1, <1>2
    <3> QED
      BY <2>1, <3>1
  <2>3. 0 + (b \div TailRadix) = b \div TailRadix
    BY <1>3
  <2> HIDE DEF b
  <2> QED
    BY <1>4, <2>2, <2>3 DEF Tracks, b
<1> HIDE DEF b
<1>8. Radix * 0 = 0
  BY <1>1
<1>9. /\ Held(f) /\ f.wide = ExtraRadix * Radix /\ f.next = 2 /\ Tracks(out, s, f, 0)
  <2>1. d.wide = ExtraRadix /\ d.next = 1
    BY <1>4
  <2>2. d.wide <= MinWide
    BY <1>5, <2>1
  <2>3. Tracks(out, s, f, Radix * 0)
    BY <1>6, <1>7, <2>2, AdvanceOnceReads
  <2> QED
    BY <1>6, <1>8, <2>1, <2>2, <2>3, AdvanceOnceReads
<1>10. e = AdvanceOnce(out, s, g)
  BY DEF Fill
<1> HIDE DEF f
<1>11. /\ Held(g)
       /\ f.wide <= MinWide => g.wide = f.wide * Radix /\ g.next = 3 /\ Tracks(out, s, g, 0)
       /\ f.wide > MinWide => g = f
  BY <1>8, <1>9, AdvanceOnceReads
<1> HIDE DEF g
<1>12. /\ Held(e)
       /\ g.wide <= MinWide /\ Tracks(out, s, g, 0) /\ g.next = 3
            => e.wide = g.wide * Radix /\ e.next = 4 /\ Tracks(out, s, e, 0)
       /\ g.wide > MinWide => e = g
  BY <1>8, <1>10, <1>11, AdvanceOnceReads
<1>13. Power[0] = 1 /\ Power[1] = Radix /\ Power[2] = Radix * Radix
  BY SmallPowers
<1>14. One > MinWide /\ One \in Nat
  BY Sizes
<1> DEFINE x == ExtraRadix * Radix
<1>15. x \in Nat
  BY <1>1, Product
<1>16. CASE Lead = 0
  <2>1. x = One
    BY <1>1, <1>13, <1>16
  <2> HIDE DEF x
  <2> QED
    BY <1>6, <1>4, <1>9, <1>11, <1>12, <1>14, <1>16, <2>1 DEF x
<1>17. CASE Lead = 1
  <2>1. x = MinWide
    BY <1>1, <1>13, <1>17
  <2>2. x * Radix = One
    BY <1>1, <1>15, <2>1
  <2> HIDE DEF x
  <2>3. g.wide = One /\ g.next = 3 /\ Tracks(out, s, g, 0)
    BY <1>9, <1>11, <1>15, <2>1, <2>2 DEF x
  <2>4. e = g
    BY <1>12, <1>14, <2>3
  <2> QED
    BY <1>6, <1>4, <1>12, <1>17, <2>3, <2>4
<1>18. CASE Lead = 2
  <2>1. x * Radix = MinWide
    BY <1>1, <1>13, <1>18
  <2>2. x * Radix * Radix = One
    BY <1>1, <1>15, <2>1
  <2>3. x <= MinWide
    <3>1. x * 1 <= x * Radix /\ x * 1 = x
      BY <1>1, <1>15, MulMonotone
    <3> QED
      BY <2>1, <3>1
  <2> HIDE DEF x
  <2>4. g.wide = MinWide /\ g.next = 3 /\ Tracks(out, s, g, 0)
    BY <1>9, <1>11, <1>15, <2>1, <2>3 DEF x
  <2>5. e.wide = MinWide * Radix /\ e.next = 4 /\ Tracks(out, s, e, 0)
    BY <1>1, <1>12, <2>4
  <2>6. MinWide * Radix = One /\ Lead + 2 = 4
    BY <1>1, <1>18
  <2> QED
    BY <1>6, <1>4, <1>12, <2>5, <2>6
<1> QED
  BY <1>1, <1>16, <1>17, <1>18

(* The decoder's zone is the encoder's: as wide, and read as far ahead as  *)
(* the word is long.                                                       *)
Follows(d, a) ==
  Held(d) /\ d.wide = a.wide /\ d.next = Made(a) + Lead + 1

(* A refill turns as often as the encoder's renormalisation.               *)
LEMMA FillFollows ==
  ASSUME NEW out, NEW s, Opened(out, s),
         NEW a, Sound(a), NEW b, b = Renormalize(a), b.wide > MinWide,
         NEW d, Follows(d, a), NEW e, e = Fill(out, s, d)
  PROVE  /\ Follows(e, b) /\ d.next <= e.next
         /\ Tracks(out, s, d, Bottom(a)) => Tracks(out, s, e, Bottom(b))
<1>1. ASSUME NEW x, Sound(x), NEW y, Follows(y, x),
             NEW z, z = RenormalizeOnce(x), NEW w, w = AdvanceOnce(out, s, y)
      PROVE  /\ Sound(z) /\ Follows(w, z) /\ y.next <= w.next
             /\ Tracks(out, s, y, Bottom(x)) => Tracks(out, s, w, Bottom(z))
  <2>1. /\ Held(y) /\ y.wide = x.wide /\ y.next = Made(x) + Lead + 1
        /\ y.wide \in Nat /\ y.next \in Nat /\ MinWide \in Nat
        /\ Made(x) \in Nat /\ Bottom(x) \in Nat /\ Lead \in Nat
    BY <1>1, Sizes, BottomType, WordFacts DEF Follows, Held, Sound
  <2>2. /\ Sound(z)
        /\ x.wide <= MinWide => Refined(x, z, 1)
        /\ x.wide > MinWide => z = x
    BY <1>1, RefinedOnce
  <2>3. CASE x.wide <= MinWide
    <3>1. Made(z) = Made(x) + 1 /\ z.wide = Radix * x.wide /\ Bottom(z) = Radix * Bottom(x)
      BY <2>2, <2>3, SmallPowers DEF Refined
    <3>2. Held(w) /\ w.wide = y.wide * Radix /\ w.next = y.next + 1
      BY <1>1, <2>1, <2>3, AdvanceOnceReads
    <3>3. Tracks(out, s, y, Bottom(x)) => Tracks(out, s, w, Radix * Bottom(x))
      BY <1>1, <2>1, <2>3, AdvanceOnceReads
    <3>4. w.wide = z.wide
      BY <2>1, <3>1, <3>2, Product, Sizes
    <3> QED
      BY <2>1, <2>2, <3>1, <3>2, <3>3, <3>4 DEF Follows
  <2>4. CASE x.wide > MinWide
    <3>1. z = x /\ w = y
      BY <1>1, <2>1, <2>2, <2>4, AdvanceOnceReads
    <3> QED
      BY <1>1, <2>1, <3>1
  <2> QED
    BY <2>1, <2>3, <2>4
<1> DEFINE a1 == RenormalizeOnce(a)
           d1 == AdvanceOnce(out, s, d)
           d2 == AdvanceOnce(out, s, d1)
<1>2. b = RenormalizeOnce(a1) /\ e = AdvanceOnce(out, s, d2)
  BY DEF Renormalize, Fill
<1>3. /\ Sound(a1) /\ Follows(d1, a1) /\ d.next <= d1.next
      /\ Tracks(out, s, d, Bottom(a)) => Tracks(out, s, d1, Bottom(a1))
  BY <1>1
<1> HIDE DEF a1, d1
<1>4. /\ Sound(b) /\ Follows(d2, b) /\ d1.next <= d2.next
      /\ Tracks(out, s, d1, Bottom(a1)) => Tracks(out, s, d2, Bottom(b))
  BY <1>1, <1>2, <1>3
<1> HIDE DEF d2
<1>5. e = d2
  BY <1>2, <1>4, AdvanceOnceReads DEF Follows
<1>6. d.next \in Nat /\ d1.next \in Nat /\ d2.next \in Nat
  BY <1>3, <1>4 DEF Follows, Held
<1> QED
  BY <1>3, <1>4, <1>5, <1>6

-----------------------------------------------------------------------------
(* The calls of arith_Encode_1_Of_N and arith_Encode_Bit.                  *)
IsCall(call) ==
  \/ \E total \in Totals : \E high \in 1 .. total : \E low \in 0 .. high - 1 :
       call = [of |-> "range", low |-> low, high |-> high, total |-> total]
  \/ \E total \in Totals : \E mid \in 1 .. total - 1 : \E bit \in BOOLEAN :
       call = [of |-> "bit", mid |-> mid, total |-> total, bit |-> bit]

(* What a call gives up below the part it keeps, and what it keeps.        *)
Below(wide, call) ==
  IF call.of = "range" THEN (wide \div call.total) * call.low
  ELSE IF call.bit THEN (wide \div call.total) * call.mid ELSE 0

Left(wide, call) ==
  IF call.of = "range"
  THEN IF call.high = call.total
       THEN wide - (wide \div call.total) * call.low
       ELSE (wide \div call.total) * (call.high - call.low)
  ELSE IF call.bit THEN wide - (wide \div call.total) * call.mid
                   ELSE (wide \div call.total) * call.mid

(* The encoder's record between a call and its renormalisation, and after. *)
Chosen(a, call) == Kept(a, Below(a.wide, call), Left(a.wide, call))
After(a, call) == Renormalize(Chosen(a, call))

(* The fields of a call.                                                   *)
LEMMA CallCases ==
  ASSUME NEW call, IsCall(call)
  PROVE  \/ /\ call.of = "range" /\ call.total \in Totals
            /\ call.high \in 1 .. call.total /\ call.low \in 0 .. call.high - 1
         \/ /\ call.of = "bit" /\ call.of # "range" /\ call.total \in Totals
            /\ call.mid \in 1 .. call.total - 1 /\ call.bit \in BOOLEAN
<1>1. CASE \E total \in Totals : \E high \in 1 .. total : \E low \in 0 .. high - 1 :
             call = [of |-> "range", low |-> low, high |-> high, total |-> total]
  BY <1>1
<1>2. CASE \E total \in Totals : \E mid \in 1 .. total - 1 : \E bit \in BOOLEAN :
             call = [of |-> "bit", mid |-> mid, total |-> total, bit |-> bit]
  BY <1>2
<1> QED
  BY <1>1, <1>2 DEF IsCall

(* What a call keeps is a part of the zone.                                *)
LEMMA CallPart ==
  ASSUME NEW wide \in Nat, wide > MinWide, NEW call, IsCall(call)
  PROVE  Part(wide, Below(wide, call), Left(wide, call))
<1>1. CASE /\ call.of = "range" /\ call.total \in Totals
           /\ call.high \in 1 .. call.total /\ call.low \in 0 .. call.high - 1
  <2>1. /\ Below(wide, call) = (wide \div call.total) * call.low
        /\ Left(wide, call) = IF call.high = call.total THEN wide - Below(wide, call)
                              ELSE (wide \div call.total) * (call.high - call.low)
    BY <1>1 DEF Below, Left
  <2> QED
    BY <1>1, <2>1, RangePart
<1>2. CASE /\ call.of # "range" /\ call.total \in Totals
           /\ call.mid \in 1 .. call.total - 1 /\ call.bit \in BOOLEAN
  <2> DEFINE r == (wide \div call.total) * call.mid
  <2>1. Part(wide, r, wide - r) /\ Part(wide, 0, r)
    BY <1>2, BitPart
  <2>2. /\ Below(wide, call) = IF call.bit THEN r ELSE 0
        /\ Left(wide, call) = IF call.bit THEN wide - r ELSE r
    BY <1>2 DEF Below, Left
  <2> HIDE DEF r
  <2> QED
    BY <1>2, <2>1, <2>2
<1> QED
  BY <1>1, <1>2, CallCases

(* Coding a call appends it and moves the record on.                       *)
LEMMA SendAfter ==
  ASSUME IInv, Send1OfN \/ SendBit
  PROVE  /\ phase = "coding" /\ phase' = phase
         /\ \E call : /\ IsCall(call) /\ sent' = Append(sent, call)
                      /\ arith' = After(arith, call)
         /\ UNCHANGED <<slop, dec, heard, garbled>>
<1>1. ASSUME phase = "coding" PROVE arith.base \in Nat /\ arith.base + 0 = arith.base
  BY <1>1, Sizes DEF IInv, ArithType
<1>2. CASE Send1OfN
  <2>1. PICK total \in Totals : \E high \in 1 .. total : \E low \in 0 .. high - 1 :
          /\ Encode1OfN(low, high, total)
          /\ sent' = Append(sent, [of |-> "range", low |-> low, high |-> high,
                                   total |-> total])
          /\ UNCHANGED <<slop, dec, heard, garbled>>
    BY <1>2 DEF Send1OfN
  <2>2. PICK high \in 1 .. total : \E low \in 0 .. high - 1 :
          /\ Encode1OfN(low, high, total)
          /\ sent' = Append(sent, [of |-> "range", low |-> low, high |-> high,
                                   total |-> total])
          /\ UNCHANGED <<slop, dec, heard, garbled>>
    BY <2>1
  <2>3. PICK low \in 0 .. high - 1 :
          /\ Encode1OfN(low, high, total)
          /\ sent' = Append(sent, [of |-> "range", low |-> low, high |-> high,
                                   total |-> total])
          /\ UNCHANGED <<slop, dec, heard, garbled>>
    BY <2>2
  <2> DEFINE call == [of |-> "range", low |-> low, high |-> high, total |-> total]
  <2>4. IsCall(call)
    BY DEF IsCall
  <2>5. /\ Below(arith.wide, call) = (arith.wide \div total) * low
        /\ Left(arith.wide, call) = IF high = total
                                    THEN arith.wide - (arith.wide \div total) * low
                                    ELSE (arith.wide \div total) * (high - low)
    BY DEF Below, Left
  <2>6. arith' = Zone(arith.base + Below(arith.wide, call), Left(arith.wide, call))
    BY <2>3, <2>5 DEF Encode1OfN
  <2> HIDE DEF call
  <2>7. arith' = After(arith, call)
    BY <2>6 DEF Zone, After, Chosen, Kept
  <2> QED
    BY <2>3, <2>4, <2>7 DEF Encode1OfN, call
<1>3. CASE SendBit
  <2>1. PICK total \in Totals : \E mid \in 1 .. total - 1 : \E bit \in BOOLEAN :
          /\ EncodeBit(mid, total, bit)
          /\ sent' = Append(sent, [of |-> "bit", mid |-> mid, total |-> total,
                                   bit |-> bit])
          /\ UNCHANGED <<slop, dec, heard, garbled>>
    BY <1>3 DEF SendBit
  <2>2. PICK mid \in 1 .. total - 1, bit \in BOOLEAN :
          /\ EncodeBit(mid, total, bit)
          /\ sent' = Append(sent, [of |-> "bit", mid |-> mid, total |-> total,
                                   bit |-> bit])
          /\ UNCHANGED <<slop, dec, heard, garbled>>
    BY <2>1
  <2> DEFINE call == [of |-> "bit", mid |-> mid, total |-> total, bit |-> bit]
             r == (arith.wide \div total) * mid
  <2>3. IsCall(call)
    BY DEF IsCall
  <2>4. /\ Below(arith.wide, call) = IF bit THEN r ELSE 0
        /\ Left(arith.wide, call) = IF bit THEN arith.wide - r ELSE r
    BY DEF Below, Left
  <2>5. /\ phase = "coding" /\ phase' = phase
        /\ arith' = IF bit THEN Zone(arith.base + r, arith.wide - r)
                           ELSE Zone(arith.base, r)
    BY <2>2 DEF EncodeBit
  <2> HIDE DEF r
  <2>6. arith' = Zone(arith.base + Below(arith.wide, call), Left(arith.wide, call))
    BY <1>1, <2>4, <2>5
  <2>7. sent' = Append(sent, call) /\ UNCHANGED <<slop, dec, heard, garbled>>
    BY <2>2
  <2> HIDE DEF call
  <2>8. arith' = After(arith, call)
    BY <2>6 DEF Zone, After, Chosen, Kept
  <2> QED
    BY <2>3, <2>5, <2>7, <2>8
<1> QED
  BY <1>2, <1>3

(* A record that a call takes to another one.                              *)
LEMMA AfterSound ==
  ASSUME NEW a, Sound(a), a.wide > MinWide, NEW call, IsCall(call),
         NEW k, k = Chosen(a, call), NEW b, b = After(a, call)
  PROVE  /\ Sound(k) /\ Sound(b) /\ b.wide > MinWide /\ b = Renormalize(k)
         /\ Part(a.wide, Below(a.wide, call), Left(a.wide, call))
         /\ Bottom(k) = Bottom(a) + Below(a.wide, call)
         /\ k.wide = Left(a.wide, call) /\ Made(k) = Made(a)
         /\ \E d \in 0 .. 2 : Inside(a, b, d)
         /\ \E d \in 0 .. 2 : Inside(k, b, d)
<1>1. a.wide \in Nat
  BY Sizes DEF Sound, ArithType
<1>2. Part(a.wide, Below(a.wide, call), Left(a.wide, call))
  BY <1>1, CallPart
<1>3. k = Kept(a, Below(a.wide, call), Left(a.wide, call)) /\ b = Renormalize(k)
  BY DEF Chosen, After
<1>4. /\ k = [base |-> a.base + Below(a.wide, call), wide |-> Left(a.wide, call),
              queued_byte |-> a.queued_byte,
              queued_ff_bytes |-> a.queued_ff_bytes, out |-> a.out]
      /\ Sound(k) /\ Left(a.wide, call) * Radix * Radix > MinWide
      /\ Bottom(k) = Bottom(a) + Below(a.wide, call) /\ Made(k) = Made(a)
  BY <1>2, <1>3, KeptSound
<1>5. k.wide = Left(a.wide, call)
  BY <1>4
<1>6. Narrowing(a, b)
  BY <1>2, <1>3 DEF Narrowing
<1>7. Sound(b) /\ b.wide > MinWide /\ \E d \in 0 .. 2 : Inside(a, b, d)
  BY <1>6, NarrowingSound
<1>8. \E d \in 0 .. 2 : Refined(k, b, d)
  BY <1>3, <1>4, <1>5, RenormalizeExact
<1>9. ASSUME NEW d \in 0 .. 2, Refined(k, b, d) PROVE Inside(k, b, d)
  <2> DEFINE p == Power[d]
             low == Bottom(k)
  <2>1. p \in Nat /\ low \in Nat /\ k.wide \in Nat
    <3>1. k \in ArithType
      BY <1>4 DEF Sound
    <3>2. k.wide \in Nat
      BY <3>1, Sizes DEF ArithType
    <3> QED
      BY <3>1, <3>2, PowerFacts, BottomType
  <2>2. Bottom(b) = p * low /\ b.wide = p * k.wide /\ Made(b) = Made(k) + d
    BY <1>9 DEF Refined
  <2> HIDE DEF p, low
  <2>3. p * low + p * k.wide = p * (low + k.wide)
    BY <2>1
  <2>4. p * low \in Nat /\ p * (low + k.wide) \in Nat
    BY <2>1, Product
  <2> QED
    BY <2>2, <2>3, <2>4 DEF Inside, p, low
<1> QED
  BY <1>2, <1>3, <1>4, <1>5, <1>7, <1>8, <1>9

(* The bytes a decoder can see of a record's zone show a number in it.     *)
Holds(out, s, a) ==
  /\ TailRadix * Bottom(a) <= Number(out, s)[Made(a) + Lead + 1]
  /\ Number(out, s)[Made(a) + Lead + 1] < TailRadix * (Bottom(a) + a.wide)

(* Fields of the encoder's record.                                         *)
LEMMA RecordTypes ==
  ASSUME NEW a \in ArithType
  PROVE  a.wide \in Nat /\ a.base \in Nat
  BY Sizes DEF ArithType

(* Totals are counts.                                                      *)
LEMMA TotalType ==
  ASSUME NEW total \in Totals
  PROVE  total \in Nat /\ total > 0
  BY TotalsAssumption

(* A number of a zone is a number of every zone it lies in.                *)
LEMMA HoldsInside ==
  ASSUME NEW out, NEW s, Opened(out, s),
         NEW a \in ArithType, NEW b \in ArithType,
         NEW d \in 0 .. 2, Inside(a, b, d), Holds(out, s, b)
  PROVE  Holds(out, s, a)
<1> DEFINE m == Made(a) + Lead + 1
           x == Number(out, s)[m]
           y == Number(out, s)[m + d]
           p == Power[d]
           low == Bottom(a)
           high == Bottom(a) + a.wide
           low2 == Bottom(b)
           high2 == Bottom(b) + b.wide
           T == TailRadix
<1>1. /\ low \in Nat /\ high \in Nat /\ low2 \in Nat /\ high2 \in Nat
      /\ Made(a) \in Nat /\ Lead \in Nat /\ m \in Nat
      /\ T \in Nat /\ p \in Nat \ {0}
  <2>1. /\ Bottom(a) \in Nat /\ Bottom(b) \in Nat /\ Made(a) \in Nat
        /\ a.wide \in Nat /\ b.wide \in Nat
    BY BottomType, RecordTypes
  <2>2. Lead \in Nat /\ T \in Nat
    BY WordFacts
  <2>3. p \in Nat \ {0}
    BY PowerFacts
  <2> QED
    BY <2>1, <2>2, <2>3
<1>2. /\ x \in Nat /\ y \in Nat /\ p * x <= y /\ y < p * (x + 1)
  BY <1>1, NumberSpan
<1>3. T * low2 <= y /\ y < T * high2
  <2>1. Made(b) + Lead + 1 = m + d
    BY <1>1 DEF Inside
  <2> QED
    BY <2>1 DEF Holds
<1>4. p * low <= low2 /\ high2 <= p * high
  BY DEF Inside
<1> HIDE DEF x, y, p, low, high, low2, high2, T
<1>5. T * low <= x
  <2> SUFFICES ASSUME x + 1 <= T * low PROVE FALSE
    <3>1. T * low \in Nat
      BY <1>1, Product
    <3> QED
      BY <1>2, <3>1
  <2>1. T * low \in Nat /\ p * (x + 1) <= p * (T * low)
    BY <1>1, <1>2, Product, MulMonotone
  <2>2. p * low \in Nat /\ T * (p * low) <= T * low2
    BY <1>1, <1>4, Product, MulMonotone
  <2>3. p * (T * low) = T * (p * low)
    BY <1>1
  <2>4. /\ p * (x + 1) \in Nat /\ p * (T * low) \in Nat /\ T * low2 \in Nat
        /\ T * (p * low) \in Nat
    BY <1>1, <1>2, <2>1, <2>2, Product
  <2> QED
    BY <1>2, <1>3, <2>1, <2>2, <2>3, <2>4
<1>6. x < T * high
  <2> SUFFICES ASSUME T * high <= x PROVE FALSE
    <3>1. T * high \in Nat
      BY <1>1, Product
    <3> QED
      BY <1>2, <3>1
  <2>1. T * high \in Nat /\ p * (T * high) <= p * x
    BY <1>1, <1>2, Product, MulMonotone
  <2>2. p * high \in Nat /\ T * high2 <= T * (p * high)
    BY <1>1, <1>4, Product, MulMonotone
  <2>3. p * (T * high) = T * (p * high)
    BY <1>1
  <2>4. /\ p * x \in Nat /\ p * (T * high) \in Nat /\ T * high2 \in Nat
        /\ T * (p * high) \in Nat
    BY <1>1, <1>2, <2>1, <2>2, Product
  <2> QED
    BY <1>2, <1>3, <2>1, <2>2, <2>3, <2>4
<1> QED
  BY <1>5, <1>6 DEF Holds, x, low, high, T

(* A decoder on track sees the number in the part of its zone.             *)
LEMMA HeldInPart ==
  ASSUME NEW out, NEW s, Opened(out, s), NEW a \in ArithType, NEW k \in ArithType,
         NEW inc \in Nat, Bottom(k) = Bottom(a) + inc, Made(k) = Made(a),
         Holds(out, s, k),
         NEW d, Follows(d, a), Tracks(out, s, d, Bottom(a))
  PROVE  inc <= d.base /\ d.base < inc + k.wide
<1> DEFINE x == Number(out, s)[d.next]
           T == TailRadix
           h == x \div T
           t == x % T
           low == Bottom(a)
<1>1. /\ low \in Nat /\ d.base \in Nat /\ d.next \in Nat /\ k.wide \in Nat
      /\ T \in Nat \ {0}
  <2>1. low \in Nat /\ k.wide \in Nat
    BY BottomType, RecordTypes
  <2>2. d.base \in Nat /\ d.next \in Nat
    BY DEF Follows, Held
  <2> QED
    BY <2>1, <2>2, WordFacts
<1>2. d.next = Made(k) + Lead + 1 /\ Bottom(k) = low + inc
  BY DEF Follows
<1>3. T * (low + inc) <= x /\ x < T * ((low + inc) + k.wide)
  BY <1>2 DEF Holds
<1>4. x \in Nat /\ h = low + d.base
  BY <1>1, NumberNext DEF Tracks
<1>5. h \in Nat /\ t \in 0 .. T - 1 /\ x = T * h + t
  BY <1>1, <1>4, DivMod
<1> HIDE DEF x, h, t, low, T
<1> DEFINE u == low + inc
           v == u + k.wide
<1>6. u \in Nat /\ v \in Nat
  BY <1>1
<1>7. T * u <= x /\ x < T * v
  BY <1>3
<1>8. u <= h
  <2> SUFFICES ASSUME h + 1 <= u PROVE FALSE
    BY <1>5, <1>6
  <2>1. T * (h + 1) <= T * u /\ T * u \in Nat
    BY <1>1, <1>5, <1>6, MulMonotone
  <2>2. T * (h + 1) = T * h + T /\ T * h \in Nat
    BY <1>1, <1>5
  <2> HIDE DEF u, v
  <2> QED
    BY <1>1, <1>5, <1>7, <2>1, <2>2
<1>9. h < v
  <2> SUFFICES ASSUME v <= h PROVE FALSE
    BY <1>5, <1>6
  <2>1. T * v <= T * h /\ T * v \in Nat /\ T * h \in Nat
    BY <1>1, <1>5, <1>6, MulMonotone
  <2> HIDE DEF u, v
  <2> QED
    BY <1>1, <1>5, <1>7, <2>1
<1> QED
  BY <1>1, <1>4, <1>8, <1>9

(* The answer to a call whose part holds base is that call.                *)
LEMMA RecognisedInPart ==
  ASSUME NEW d, Held(d), d.wide > MinWide, NEW call, IsCall(call),
         Below(d.wide, call) <= d.base,
         d.base < Below(d.wide, call) + Left(d.wide, call)
  PROVE  Recognised(d, call)
<1> DEFINE w == d.wide
           ratio == w \div call.total
<1>1. d.base \in Nat /\ w \in Nat /\ w > MinWide
  BY Sizes DEF Held
<1>2. CASE /\ call.of = "range" /\ call.total \in Totals
           /\ call.high \in 1 .. call.total /\ call.low \in 0 .. call.high - 1
  <2> DEFINE part == d.base \div ratio
             total == call.total
             high == call.high
             low == call.low
             rest == d.base % ratio
  <2>1. /\ ratio \in Nat \ {0} /\ ratio * total <= w
    <3>1. ratio \in Nat /\ ratio > 0 /\ ratio * total <= w
      BY <1>1, <1>2, Ratio
    <3> QED
      BY <3>1
  <2>2. /\ total \in Nat /\ high \in Nat /\ low \in Nat /\ total > 0
        /\ low + 1 <= high /\ high <= total
    <3>1. total \in Nat /\ total > 0
      BY <1>2, TotalType
    <3>2. high \in 1 .. total /\ low \in 0 .. high - 1
      BY <1>2
    <3> HIDE DEF total, high, low
    <3> QED
      BY <3>1, <3>2
  <2>3. /\ ratio * low <= d.base
        /\ high # total => d.base < ratio * low + ratio * (high - low)
    BY <1>2 DEF Below, Left
  <2> HIDE DEF ratio, total, high, low
  <2>4. part \in Nat /\ rest \in 0 .. ratio - 1 /\ d.base = ratio * part + rest
    BY <1>1, <2>1, DivMod
  <2> HIDE DEF part, rest
  <2>5. low <= part
    <3> SUFFICES ASSUME part + 1 <= low PROVE FALSE
      BY <2>2, <2>4
    <3>1. ratio * (part + 1) <= ratio * low /\ ratio * low \in Nat
      BY <2>1, <2>2, <2>4, MulMonotone
    <3>2. ratio * (part + 1) = ratio * part + ratio /\ ratio * part \in Nat
      BY <2>1, <2>4
    <3> QED
      BY <1>1, <2>1, <2>3, <2>4, <3>1, <3>2
  <2>6. ASSUME high # total PROVE part < high
    <3> SUFFICES ASSUME high <= part PROVE FALSE
      BY <2>2, <2>4
    <3>1. ratio * high <= ratio * part /\ ratio * high \in Nat /\ ratio * part \in Nat
      BY <2>1, <2>2, <2>4, MulMonotone
    <3>2. ratio * low + ratio * (high - low) = ratio * high
      BY <2>1, <2>2
    <3> QED
      BY <1>1, <2>1, <2>3, <2>4, <2>6, <3>1, <3>2
  <2> DEFINE answer == IF part >= total THEN total - 1 ELSE part
  <2>7. answer \in low .. high - 1
    <3>1. CASE part >= total
      <4>1. high = total
        BY <2>2, <2>4, <2>6, <3>1
      <4> QED
        BY <2>2, <3>1, <4>1
    <3>2. CASE part < total
      <4>1. part < high
        BY <2>2, <2>4, <2>6, <3>2
      <4> QED
        BY <2>2, <2>4, <2>5, <3>2, <4>1
    <3> QED
      BY <2>2, <2>4, <3>1, <3>2
  <2> QED
    BY <1>2, <2>7 DEF Recognised, Get1OfN, answer, part, ratio, total, high, low
<1>3. CASE /\ call.of # "range" /\ call.total \in Totals
           /\ call.mid \in 1 .. call.total - 1 /\ call.bit \in BOOLEAN
  <2> DEFINE r == ratio * call.mid
  <2>1. r \in Nat
    <3>1. ratio \in Nat
      BY <1>1, <1>3, Ratio
    <3>2. call.mid \in Nat
      BY <1>3, TotalType
    <3> QED
      BY <3>1, <3>2, Product
  <2>2. IF call.bit THEN r <= d.base ELSE d.base < 0 + r
    BY <1>3 DEF Below, Left
  <2>3. BitOf(d, call.mid, call.total) = (d.base >= r)
    BY DEF BitOf
  <2> HIDE DEF r
  <2>4. (d.base >= r) = call.bit
    BY <1>1, <1>3, <2>1, <2>2
  <2> QED
    BY <1>3, <2>3, <2>4 DEF Recognised
<1> QED
  BY <1>2, <1>3, CallCases

(* A recognised call leaves its part of the decoder's zone, base in it.    *)
LEMMA DecodedKeeps ==
  ASSUME NEW d, Held(d), d.wide > MinWide, NEW call, IsCall(call),
         Recognised(d, call), NEW e, e = Decoded(d, call)
  PROVE  /\ Held(e) /\ d.base = Below(d.wide, call) + e.base
         /\ e.wide = Left(d.wide, call)
         /\ e.next = d.next /\ e.queued_byte = d.queued_byte
<1> DEFINE w == d.wide
           ratio == w \div call.total
           inc == Below(w, call)
           wide == Left(w, call)
<1>1. /\ d.base \in Nat /\ w \in Nat /\ w > MinWide /\ w <= One /\ d.base < w
      /\ d \in [base : Nat, wide : 1 .. One, queued_byte : Byte, next : Nat]
  BY Sizes DEF Held
<1>2. /\ inc \in Nat /\ wide \in Nat /\ wide > 0 /\ inc + wide <= w
  BY <1>1, CallPart DEF Part
<1>3. /\ inc <= d.base /\ d.base - inc < wide
      /\ e = [d EXCEPT !.base = d.base - inc, !.wide = wide]
  <2>1. CASE /\ call.of = "range" /\ call.total \in Totals
             /\ call.high \in 1 .. call.total /\ call.low \in 0 .. call.high - 1
    <3> DEFINE part == d.base \div ratio
               total == call.total
               high == call.high
               low == call.low
               rest == d.base % ratio
               answer == IF part >= total THEN total - 1 ELSE part
    <3>1. /\ ratio \in Nat \ {0} /\ ratio * total <= w
      <4>1. ratio \in Nat /\ ratio > 0 /\ ratio * total <= w
        BY <1>1, <2>1, Ratio
      <4> QED
        BY <4>1
    <3>2. /\ total \in Nat /\ high \in Nat /\ low \in Nat /\ total > 0
          /\ low + 1 <= high /\ high <= total
      <4>1. total \in Nat /\ total > 0
        BY <2>1, TotalType
      <4>2. high \in 1 .. total /\ low \in 0 .. high - 1
        BY <2>1
      <4> HIDE DEF total, high, low
      <4> QED
        BY <4>1, <4>2
    <3>3. /\ inc = ratio * low
          /\ wide = IF high = total THEN w - inc ELSE ratio * (high - low)
      BY <2>1 DEF Below, Left
    <3>4. answer \in low .. high - 1
      BY <2>1 DEF Recognised, Get1OfN
    <3>5. e = [d EXCEPT !.base = (d.base - ratio * low) % Word,
                        !.wide = IF high = total THEN w - ratio * low
                                 ELSE ratio * (high - low)]
      BY <2>1 DEF Decoded, Decode1OfN
    <3> HIDE DEF ratio, total, high, low, w, inc, wide
    <3>6. part \in Nat /\ rest \in 0 .. ratio - 1 /\ d.base = ratio * part + rest
      BY <1>1, <3>1, DivMod
    <3> HIDE DEF part, rest
    <3>7. low <= part /\ (high # total => part + 1 <= high)
      BY <3>2, <3>4, <3>6
    <3> HIDE DEF answer
    <3>8. inc <= d.base
      <4>1. ratio * low <= ratio * part /\ ratio * low \in Nat /\ ratio * part \in Nat
        BY <3>1, <3>2, <3>6, <3>7, MulMonotone
      <4> QED
        BY <1>1, <3>1, <3>3, <3>6, <4>1
    <3>9. d.base - inc < wide
      <4>1. CASE high = total
        <5>1. wide = w - inc
          BY <3>3, <4>1
        <5> QED
          BY <1>1, <1>2, <5>1
      <4>2. CASE high # total
        <5>1. ratio * (part + 1) <= ratio * high /\ ratio * high \in Nat
          BY <3>1, <3>2, <3>6, <3>7, <4>2, MulMonotone
        <5>2. ratio * (part + 1) = ratio * part + ratio /\ ratio * part \in Nat
          BY <3>1, <3>6
        <5>3. ratio * (high - low) = ratio * high - ratio * low /\ ratio * low \in Nat
          BY <3>1, <3>2
        <5>4. wide = ratio * (high - low)
          BY <3>3, <4>2
        <5>5. d.base < ratio * high
          BY <1>1, <3>1, <3>6, <5>1, <5>2
        <5>6. wide = ratio * high - inc
          BY <3>3, <5>3, <5>4
        <5> QED
          BY <1>1, <1>2, <5>1, <5>5, <5>6
      <4> QED
        BY <4>1, <4>2
    <3>10. (d.base - inc) % Word = d.base - inc
      <4>1. d.base - inc \in Nat /\ d.base - inc < Word /\ Word \in Nat \ {0}
        BY <1>1, <1>2, <3>8, Sizes
      <4> QED
        BY <4>1, ModSmall
    <3>11. e = [d EXCEPT !.base = d.base - inc, !.wide = wide]
      BY <3>3, <3>5, <3>10
    <3> QED
      BY <3>8, <3>9, <3>11
  <2>2. CASE /\ call.of # "range" /\ call.total \in Totals
             /\ call.mid \in 1 .. call.total - 1 /\ call.bit \in BOOLEAN
    <3> DEFINE r == ratio * call.mid
    <3>1. r \in Nat
      <4>1. ratio \in Nat
        BY <1>1, <2>2, Ratio
      <4>2. call.mid \in Nat
        BY <2>2, TotalType
      <4> QED
        BY <4>1, <4>2, Product
    <3>2. (d.base >= r) = call.bit
      BY <2>2 DEF Recognised, BitOf
    <3>3. /\ inc = IF call.bit THEN r ELSE 0
          /\ wide = IF call.bit THEN w - r ELSE r
      BY <2>2 DEF Below, Left
    <3>4. e = IF d.base >= r THEN [d EXCEPT !.base = d.base - r, !.wide = w - r]
                             ELSE [d EXCEPT !.wide = r]
      BY <2>2 DEF Decoded, DecodeBit, BitOf
    <3> HIDE DEF r, w, inc, wide
    <3>5. CASE call.bit
      <4>1. inc = r /\ wide = w - r /\ d.base >= r
        BY <3>2, <3>3, <3>5
      <4>2. e = [d EXCEPT !.base = d.base - inc, !.wide = wide]
        BY <3>4, <4>1
      <4> QED
        BY <1>1, <3>1, <4>1, <4>2
    <3>6. CASE ~call.bit
      <4>1. inc = 0 /\ wide = r /\ ~(d.base >= r)
        BY <3>2, <3>3, <3>6
      <4>2. e = [d EXCEPT !.wide = wide] /\ d.base - inc = d.base
        BY <1>1, <3>4, <4>1
      <4>3. [d EXCEPT !.wide = wide] = [d EXCEPT !.base = d.base - inc, !.wide = wide]
        BY <1>1, <4>2
      <4> QED
        BY <1>1, <3>1, <4>1, <4>2, <4>3
    <3> QED
      BY <2>2, <3>5, <3>6
  <2> QED
    BY <2>1, <2>2, CallCases
<1> HIDE DEF w, inc, wide
<1>4. e = [base |-> d.base - inc, wide |-> wide, queued_byte |-> d.queued_byte,
           next |-> d.next]
  BY <1>1, <1>3
<1>5. d.base - inc \in Nat /\ wide \in 1 .. One /\ d.base = inc + (d.base - inc)
  BY <1>1, <1>2, <1>3, Sizes
<1>6. d.queued_byte \in Byte /\ d.next \in Nat
  BY <1>1
<1>7. Held(e)
  BY <1>3, <1>4, <1>5, <1>6 DEF Held
<1> QED
  BY <1>4, <1>5, <1>7 DEF inc, wide, w

-----------------------------------------------------------------------------
(* arith_Finish_Encoding leaves a number of the last zone, whatever the    *)
(* zeros it dropped.                                                       *)
LEMMA FinishHolds ==
  ASSUME IInv, Finish, Opened(arith'.out, 0)
  PROVE  Holds(arith'.out, 0, arith)
<1> DEFINE out == arith'.out
           p == Number(out, 0)
           n == Len(out) - 1
           v == Value(out)
           low == Bottom(arith)
           T == TailRadix
<1>1. out # <<>> /\ out[1] = 0
  BY FinishExact
<1>2. PICK d \in 0 .. 1, z \in Nat :
        /\ Len(out) = Made(arith) + d
        /\ v * One = Power[d] * z
        /\ low <= z /\ z < low + arith.wide
  BY FinishExact
<1>3. arith \in ArithType
  BY DEF IInv
<1>4. low \in Nat /\ arith.wide \in Nat /\ Made(arith) \in Nat
  BY <1>3, BottomType, RecordTypes
<1>0. \A m \in Nat : p[m] \in Nat
  BY NumberNext
<1>5. p[n] = v /\ n \in Nat /\ v \in Nat
  <2>1. p[n] = v /\ n \in Nat
    BY <1>1, NumberOfFile
  <2>2. p[n] \in Nat
    BY <1>0, <2>1
  <2> QED
    BY <2>1, <2>2
<1> DEFINE j == (Lead + 2) - d
<1>6. j \in Nat /\ Made(arith) + Lead + 1 = n + j /\ Lead \in Nat
  <2>1. Lead \in 0 .. 2
    BY WordFacts
  <2>2. Len(out) = n + 1
    BY <1>5
  <2> HIDE DEF n
  <2> QED
    BY <1>2, <1>4, <1>5, <2>1, <2>2
<1>7. p[n + j] = v * Power[j] /\ p[n + j] \in Nat
  <2>1. p[n + j] = v * Power[j]
    <3>1. \A i \in Nat : p[n + i] = p[n] * Power[i]
      BY NumberTail
    <3> HIDE DEF p, n, v, j
    <3>2. p[n + j] = p[n] * Power[j]
      BY <1>6, <3>1
    <3>3. p[n] = v
      BY <1>5
    <3> QED
      BY <3>2, <3>3, Zenon
  <2> HIDE DEF p, n, v, j
  <2>2. n + j \in Nat
    BY <1>5, <1>6
  <2>3. p[n + j] \in Nat
    BY <1>0, <2>2
  <2> QED
    BY <2>1, <2>3
<1> HIDE DEF p, n, v, low
<1>8. T \in Nat \ {0} /\ T * One = Power[Lead + 2] /\ One \in Nat /\ Radix \in Nat /\ Radix > 1
  BY WordFacts, WholeWord, Sizes
<1>9. Power[j] \in Nat
  BY <1>6, PowerFacts
(* The unread digits weigh what the finished ones do.                      *)
<1>10. T * z = v * Power[j]
  <2>1. CASE d = 0
    <3>1. Power[0] = 1 /\ 1 * z = z
      BY SmallPowers
    <3>2. j = Lead + 2
      BY <1>6, <2>1
    <3>3. v * One = z
      BY <1>2, <2>1, <3>1
    <3>4. T * (v * One) = v * (T * One)
      BY <1>5, <1>8
    <3> QED
      BY <1>8, <3>2, <3>3, <3>4
  <2>2. CASE d = 1
    <3>1. Power[1] = Radix
      BY SmallPowers
    <3>2. Power[Lead + 2] = Radix * Power[j]
      <4>1. j + 1 = Lead + 2
        BY <1>6, <2>2
      <4> HIDE DEF j
      <4> QED
        BY <1>6, <4>1, PowerFacts
    <3>3. v * One = Radix * z
      BY <1>2, <2>2, <3>1
    <3> DEFINE x == T * z
               q == Power[j]
               y == v * q
    <3>4. x \in Nat /\ y \in Nat
      BY <1>5, <1>8, <1>9, Product
    <3>5. Radix * x = Radix * y
      <4> HIDE DEF q
      <4>1. T * (v * One) = v * (T * One) /\ T * (Radix * z) = Radix * (T * z)
        BY <1>5, <1>8
      <4>2. T * (v * One) = Radix * x /\ v * (T * One) = v * (Radix * q)
        BY <1>8, <3>2, <3>3, <4>1 DEF q
      <4>3. v * (Radix * q) = Radix * y
        BY <1>5, <1>8, <1>9 DEF q
      <4> QED
        BY <4>1, <4>2, <4>3
    <3> HIDE DEF x, y
    <3>6. x = y
      <4>1. ASSUME x + 1 <= y PROVE FALSE
        <5>1. Radix * (x + 1) <= Radix * y /\ Radix * y \in Nat
          BY <1>8, <3>4, <4>1, MulMonotone
        <5>2. Radix * (x + 1) = Radix * x + Radix
          BY <1>8, <3>4
        <5> QED
          BY <1>8, <3>5, <5>1, <5>2
      <4>2. ASSUME y + 1 <= x PROVE FALSE
        <5>1. Radix * (y + 1) <= Radix * x /\ Radix * x \in Nat
          BY <1>8, <3>4, <4>2, MulMonotone
        <5>2. Radix * (y + 1) = Radix * y + Radix
          BY <1>8, <3>4
        <5> QED
          BY <1>8, <3>5, <5>1, <5>2
      <4> QED
        BY <3>4, <4>1, <4>2
    <3> QED
      BY <3>6 DEF x, y, q
  <2> QED
    BY <2>1, <2>2
<1> HIDE DEF j, T
<1>11. T * low <= T * z /\ T * z < T * (low + arith.wide)
  <2>1. T * low <= T * z /\ T * z \in Nat
    BY <1>2, <1>4, <1>8, MulMonotone
  <2>2. low + arith.wide \in Nat /\ z + 1 <= low + arith.wide
    BY <1>2, <1>4
  <2>3. T * (z + 1) <= T * (low + arith.wide) /\ T * (z + 1) = T * z + T
    BY <1>8, <2>2, MulMonotone
  <2>4. T * (low + arith.wide) \in Nat
    BY <1>8, <2>2, Product
  <2> QED
    BY <1>8, <2>1, <2>3, <2>4
<1> QED
  BY <1>6, <1>7, <1>10, <1>11 DEF Holds, p, low, out, T

(* The encoder's records, one for each call and the first.                 *)
Start == [base |-> 0, wide |-> One, queued_byte |-> 0, queued_ff_bytes |-> 0,
          out |-> <<>>]

Trail(calls, t) ==
  /\ t \in [0 .. Len(calls) -> ArithType]
  /\ t[0] = Start
  /\ \A i \in 0 .. Len(calls) : Sound(t[i]) /\ t[i].wide > MinWide
  /\ \A i \in 1 .. Len(calls) :
       IsCall(calls[i]) /\ t[i] = After(t[i - 1], calls[i])

Calls ==
  {call \in [of : {"range"}, low : Nat, high : Nat, total : Totals]
              \cup [of : {"bit"}, mid : Nat, total : Totals, bit : BOOLEAN] :
     IsCall(call)}

(* Calls are members of Calls.                                             *)
LEMMA CallsAre ==
  ASSUME NEW call, IsCall(call)
  PROVE  call \in Calls
<1>1. CASE \E total \in Totals : \E high \in 1 .. total : \E low \in 0 .. high - 1 :
             call = [of |-> "range", low |-> low, high |-> high, total |-> total]
  <2>1. PICK total \in Totals : \E high \in 1 .. total : \E low \in 0 .. high - 1 :
             call = [of |-> "range", low |-> low, high |-> high, total |-> total]
    BY <1>1
  <2>2. PICK high \in 1 .. total : \E low \in 0 .. high - 1 :
             call = [of |-> "range", low |-> low, high |-> high, total |-> total]
    BY <2>1
  <2>3. PICK low \in 0 .. high - 1 :
             call = [of |-> "range", low |-> low, high |-> high, total |-> total]
    BY <2>2
  <2>4. low \in Nat /\ high \in Nat
    BY TotalType
  <2> QED
    BY <2>3, <2>4 DEF Calls
<1>2. CASE \E total \in Totals : \E mid \in 1 .. total - 1 : \E bit \in BOOLEAN :
             call = [of |-> "bit", mid |-> mid, total |-> total, bit |-> bit]
  <2>1. PICK total \in Totals : \E mid \in 1 .. total - 1 : \E bit \in BOOLEAN :
             call = [of |-> "bit", mid |-> mid, total |-> total, bit |-> bit]
    BY <1>2
  <2>2. PICK mid \in 1 .. total - 1, bit \in BOOLEAN :
             call = [of |-> "bit", mid |-> mid, total |-> total, bit |-> bit]
    BY <2>1
  <2>3. mid \in Nat
    BY TotalType
  <2> QED
    BY <2>2, <2>3 DEF Calls
<1> QED
  BY <1>1, <1>2 DEF IsCall

(* A call lengthens the trail.                                             *)
LEMMA TrailGrows ==
  ASSUME NEW calls \in Seq(Calls), NEW t, Trail(calls, t), NEW call, IsCall(call),
         NEW b, b = After(t[Len(calls)], call)
  PROVE  /\ Append(calls, call) \in Seq(Calls)
         /\ \E u : Trail(Append(calls, call), u) /\ u[Len(Append(calls, call))] = b
<1> DEFINE n == Len(calls)
           more == Append(calls, call)
           u == [i \in 0 .. n + 1 |-> IF i = n + 1 THEN b ELSE t[i]]
<1>1. call \in Calls
  BY CallsAre
<1>2. /\ n \in Nat /\ more \in Seq(Calls) /\ Len(more) = n + 1 /\ more[n + 1] = call
      /\ \A i \in 1 .. n : more[i] = calls[i]
  BY <1>1
<1> HIDE DEF n, more
<1>3. Sound(t[n]) /\ t[n].wide > MinWide
  BY <1>2 DEF Trail, n
<1>4. Sound(b) /\ b.wide > MinWide /\ b \in ArithType
  <2>1. Sound(b) /\ b.wide > MinWide
    BY <1>3, AfterSound DEF n
  <2> QED
    BY <2>1 DEF Sound
<1>5. \A i \in 0 .. n + 1 : i # n + 1 => i \in 0 .. n
  BY <1>2
<1>6. /\ t \in [0 .. n -> ArithType] /\ t[0] = Start
      /\ \A i \in 0 .. n : Sound(t[i]) /\ t[i].wide > MinWide
      /\ \A i \in 1 .. n : IsCall(calls[i]) /\ t[i] = After(t[i - 1], calls[i])
  BY DEF Trail, n
<1>7. u \in [0 .. n + 1 -> ArithType]
  BY <1>4, <1>5, <1>6
<1>8. u[n + 1] = b /\ \A i \in 0 .. n : u[i] = t[i]
  BY <1>2
<1> HIDE DEF u
<1>9. u[0] = Start
  BY <1>2, <1>6, <1>8
<1>10. ASSUME NEW i \in 0 .. n + 1 PROVE Sound(u[i]) /\ u[i].wide > MinWide
  <2>1. CASE i = n + 1
    BY <1>4, <1>8, <2>1
  <2>2. CASE i # n + 1
    <3>1. i \in 0 .. n
      BY <1>5, <2>2
    <3> QED
      BY <1>6, <1>8, <3>1
  <2> QED
    BY <2>1, <2>2
<1>11. ASSUME NEW i \in 1 .. n + 1
       PROVE  IsCall(more[i]) /\ u[i] = After(u[i - 1], more[i])
  <2>1. CASE i = n + 1
    <3>1. i - 1 = n /\ n \in 0 .. n
      BY <1>2, <2>1
    <3>2. u[n] = t[n] /\ more[i] = call /\ u[i] = b
      BY <1>2, <1>8, <2>1, <3>1
    <3>3. b = After(t[n], call)
      BY DEF n
    <3> QED
      BY <3>1, <3>2, <3>3
  <2>2. CASE i # n + 1
    <3>1. i \in 1 .. n /\ i \in 0 .. n /\ i - 1 \in 0 .. n
      BY <1>2, <2>2
    <3>2. more[i] = calls[i] /\ u[i] = t[i] /\ u[i - 1] = t[i - 1]
      BY <1>2, <1>8, <3>1
    <3> QED
      BY <1>6, <3>1, <3>2
  <2> QED
    BY <2>1, <2>2
<1>12. Trail(more, u)
  BY <1>2, <1>7, <1>9, <1>10, <1>11 DEF Trail
<1> QED
  BY <1>2, <1>8, <1>12 DEF more

(* What is true of a record is true of the ones before it.                 *)
LEMMA TrailBack ==
  ASSUME NEW calls \in Seq(Calls), NEW t, Trail(calls, t),
         NEW limit \in Nat, Made(t[Len(calls)]) <= limit
  PROVE  \A i \in 0 .. Len(calls) : Made(t[i]) <= limit
<1> DEFINE n == Len(calls)
           S == {j \in Nat : j <= n => Made(t[n - j]) <= limit}
<1>1. n \in Nat
  OBVIOUS
<1>2. 0 \in S
  <2>1. n - 0 = n
    BY <1>1
  <2> QED
    BY <2>1
<1> HIDE DEF n
<1>3. /\ \A i \in 0 .. n : Sound(t[i]) /\ t[i].wide > MinWide
      /\ \A i \in 1 .. n : IsCall(calls[i]) /\ t[i] = After(t[i - 1], calls[i])
  BY DEF Trail, n
<1>4. ASSUME NEW j \in Nat, j \in S PROVE j + 1 \in S
  <2> SUFFICES ASSUME j + 1 <= n PROVE Made(t[n - (j + 1)]) <= limit
    OBVIOUS
  <2>1. Made(t[n - j]) <= limit
    BY <1>1, <1>4
  <2>2. /\ n - j \in 1 .. n /\ n - (j + 1) \in 0 .. n
        /\ (n - j) - 1 = n - (j + 1)
    BY <1>1
  <2> DEFINE a == t[n - (j + 1)]
             b == t[n - j]
  <2>3. Sound(a) /\ a.wide > MinWide /\ IsCall(calls[n - j]) /\ b = After(a, calls[n - j])
    BY <1>3, <2>2
  <2> HIDE DEF a, b
  <2>4. PICK d \in 0 .. 2 : Inside(a, b, d)
    BY <2>3, AfterSound
  <2>5. Made(a) \in Nat /\ Made(b) = Made(a) + d
    BY <2>3, <2>4, BottomType DEF Sound, Inside
  <2> QED
    BY <2>1, <2>5 DEF a, b
<1>5. \A j \in Nat : j \in S
  <2> HIDE DEF S
  <2> QED
    BY <1>2, <1>4, Induct
<1> QED
  <2> SUFFICES ASSUME NEW i \in 0 .. n PROVE Made(t[i]) <= limit
    BY DEF n
  <2>1. n - i \in Nat /\ n - i <= n /\ n - (n - i) = i
    BY <1>1
  <2>2. n - i \in S
    BY <1>5, <2>1
  <2> QED
    BY <2>1, <2>2

(* So is what the file's number says.                                      *)
LEMMA TrailHolds ==
  ASSUME NEW calls \in Seq(Calls), NEW t, Trail(calls, t),
         NEW out, NEW s, Opened(out, s), Holds(out, s, t[Len(calls)])
  PROVE  \A i \in 0 .. Len(calls) : Holds(out, s, t[i])
<1> DEFINE n == Len(calls)
           S == {j \in Nat : j <= n => Holds(out, s, t[n - j])}
<1>1. n \in Nat
  OBVIOUS
<1>2. 0 \in S
  <2>1. n - 0 = n
    BY <1>1
  <2> QED
    BY <2>1
<1> HIDE DEF n
<1>3. /\ \A i \in 0 .. n : Sound(t[i]) /\ t[i].wide > MinWide
      /\ \A i \in 1 .. n : IsCall(calls[i]) /\ t[i] = After(t[i - 1], calls[i])
  BY DEF Trail, n
<1>4. ASSUME NEW j \in Nat, j \in S PROVE j + 1 \in S
  <2> SUFFICES ASSUME j + 1 <= n PROVE Holds(out, s, t[n - (j + 1)])
    OBVIOUS
  <2>1. Holds(out, s, t[n - j])
    BY <1>1, <1>4
  <2>2. /\ n - j \in 1 .. n /\ n - (j + 1) \in 0 .. n
        /\ (n - j) - 1 = n - (j + 1)
    BY <1>1
  <2> DEFINE a == t[n - (j + 1)]
             b == t[n - j]
  <2>3. Sound(a) /\ a.wide > MinWide /\ IsCall(calls[n - j]) /\ b = After(a, calls[n - j])
    BY <1>3, <2>2
  <2> HIDE DEF a, b
  <2>4. Sound(b) /\ \E d \in 0 .. 2 : Inside(a, b, d)
    BY <2>3, AfterSound
  <2>5. PICK d \in 0 .. 2 : Inside(a, b, d)
    BY <2>4
  <2>6. a \in ArithType /\ b \in ArithType
    BY <2>3, <2>4 DEF Sound
  <2>7. Holds(out, s, b)
    BY <2>1 DEF b
  <2>8. Holds(out, s, a)
    BY <2>5, <2>6, <2>7, HoldsInside
  <2> QED
    BY <2>8 DEF a
<1>5. \A j \in Nat : j \in S
  <2> HIDE DEF S
  <2> QED
    BY <1>2, <1>4, Induct
<1> QED
  <2> SUFFICES ASSUME NEW i \in 0 .. n PROVE Holds(out, s, t[i])
    BY DEF n
  <2>1. n - i \in Nat /\ n - i <= n /\ n - (n - i) = i
    BY <1>1
  <2>2. n - i \in S
    BY <1>5, <2>1
  <2> QED
    BY <2>1, <2>2

(* The decoder at a call of the trail: its next refill takes it to the     *)
(* record the encoder had there; behind a zero it has also read that       *)
(* record's number, and so has not been garbled.                           *)
DecodesAt(out, s, d, t, n) ==
  LET e == Fill(out, s, d)
  IN  /\ Held(d) /\ Follows(e, t[n]) /\ d.next <= e.next
      /\ s = 0 => Tracks(out, s, e, Bottom(t[n]))

Decodable(out, s, calls, t) ==
  /\ Opened(out, s)
  /\ \A i \in 0 .. Len(calls) : Made(t[i]) <= Len(out)
  /\ s = 0 => \A i \in 0 .. Len(calls) : Holds(out, s, t[i])

(* The inductive invariant of a message and its decoder.                   *)
CodecInv ==
  /\ IInv
  /\ sent \in Seq(Calls)
  /\ heard \in 0 .. Len(sent)
  /\ garbled \in BOOLEAN
  /\ slop = 0 => ~garbled
  /\ phase = "coding" =>
       /\ slop = 0 /\ heard = 0
       /\ \E t : Trail(sent, t) /\ t[Len(sent)] = arith
  /\ phase = "done" =>
       \E t : /\ Trail(sent, t) /\ Decodable(arith.out, slop, sent, t)
              /\ DecodesAt(arith.out, slop, dec, t, heard)

(* One call of the decoder.                                                *)
LEMMA HearStep ==
  ASSUME NEW out, NEW s, NEW calls \in Seq(Calls), NEW t, Trail(calls, t),
         Decodable(out, s, calls, t),
         NEW n \in 0 .. Len(calls), n < Len(calls),
         NEW d, DecodesAt(out, s, d, t, n),
         NEW e, e = Fill(out, s, d), NEW call, call = calls[n + 1]
  PROVE  /\ s = 0 => Recognised(e, call)
         /\ Recognised(e, call) => DecodesAt(out, s, Decoded(e, call), t, n + 1)
         /\ DecodesAt(out, s, e, t, n)
<1> DEFINE a == t[n]
           b == t[n + 1]
           k == Chosen(a, call)
           f == Decoded(e, call)
           g == Fill(out, s, f)
<1>1. /\ Opened(out, s) /\ Held(e) /\ Follows(e, a)
      /\ s = 0 => Tracks(out, s, e, Bottom(a)) /\ Holds(out, s, b)
  <2>1. n + 1 \in 0 .. Len(calls)
    OBVIOUS
  <2> QED
    BY <2>1 DEF DecodesAt, Decodable, Follows
<1>2. Sound(a) /\ a.wide > MinWide /\ IsCall(call) /\ b = After(a, call)
  <2>1. n + 1 \in 1 .. Len(calls) /\ n \in 0 .. Len(calls) /\ (n + 1) - 1 = n
    OBVIOUS
  <2> QED
    BY <2>1 DEF Trail
<1> HIDE DEF a, b
<1>3. /\ Sound(k) /\ Sound(b) /\ b.wide > MinWide /\ b = Renormalize(k)
      /\ Part(a.wide, Below(a.wide, call), Left(a.wide, call))
      /\ Bottom(k) = Bottom(a) + Below(a.wide, call)
      /\ k.wide = Left(a.wide, call) /\ Made(k) = Made(a)
      /\ \E j \in 0 .. 2 : Inside(k, b, j)
  BY <1>2, AfterSound
<1> HIDE DEF k
<1>4. e.wide = a.wide /\ e.next = Made(a) + Lead + 1
  BY <1>1 DEF Follows
<1>5. a \in ArithType /\ k \in ArithType /\ b \in ArithType
  BY <1>2, <1>3 DEF Sound
<1>6. Below(a.wide, call) \in Nat /\ Bottom(a) \in Nat
  BY <1>3, <1>5, BottomType DEF Part
<1>7. ASSUME s = 0 PROVE Recognised(e, call)
  <2>1. PICK j \in 0 .. 2 : Inside(k, b, j)
    BY <1>3
  <2>2. Holds(out, s, k)
    BY <1>1, <1>5, <1>7, <2>1, HoldsInside
  <2>3. Below(a.wide, call) <= e.base /\ e.base < Below(a.wide, call) + k.wide
    BY <1>1, <1>3, <1>5, <1>6, <1>7, <2>2, HeldInPart
  <2> QED
    BY <1>1, <1>2, <1>3, <1>4, <2>3, RecognisedInPart
<1>8. ASSUME Recognised(e, call) PROVE DecodesAt(out, s, f, t, n + 1)
  <2>1. /\ Held(f) /\ e.base = Below(a.wide, call) + f.base
        /\ f.wide = k.wide /\ f.next = e.next /\ f.queued_byte = e.queued_byte
    BY <1>1, <1>2, <1>3, <1>4, <1>8, DecodedKeeps
  <2> HIDE DEF f
  <2>2. Follows(f, k)
    BY <1>3, <1>4, <2>1 DEF Follows
  <2>3. /\ Follows(g, b) /\ f.next <= g.next
        /\ Tracks(out, s, f, Bottom(k)) => Tracks(out, s, g, Bottom(b))
    BY <1>1, <1>3, <2>2, FillFollows
  <2>4. ASSUME s = 0 PROVE Tracks(out, s, f, Bottom(k))
    <3>1. Tracks(out, s, e, Bottom(a)) /\ f.base \in Nat
      BY <1>1, <2>1, <2>4 DEF Held
    <3>2. Bottom(a) + e.base = Bottom(k) + f.base
      BY <1>3, <1>6, <2>1, <3>1
    <3> QED
      BY <2>1, <3>1, <3>2 DEF Tracks
  <2> QED
    BY <2>1, <2>3, <2>4 DEF DecodesAt, b
(* A decoder that gives a wrong answer stays where it is.                  *)
<1>9. DecodesAt(out, s, e, t, n)
  <2>1. AdvanceOnce(out, s, e) = e
    BY <1>1, <1>2, <1>4, AdvanceOnceReads
  <2>2. Fill(out, s, e) = e
    BY <2>1 DEF Fill
  <2>3. e.next \in Nat /\ e.next <= e.next
    BY <1>1 DEF Held
  <2> QED
    BY <1>1, <2>2, <2>3 DEF DecodesAt, a
<1> QED
  BY <1>7, <1>8, <1>9 DEF f

-----------------------------------------------------------------------------
(* arith_Start_Encoding.                                                   *)
LEMMA InitCodecInv == CodecInit => CodecInv
<1> SUFFICES ASSUME CodecInit PROVE CodecInv
  OBVIOUS
<1>1. IInv /\ arith = Start /\ phase = "coding"
  BY InitIInv DEF CodecInit, Init, Start
<1>2. /\ sent = <<>> /\ sent \in Seq(Calls) /\ Len(sent) = 0
      /\ slop = 0 /\ heard = 0 /\ garbled = FALSE
  BY DEF CodecInit
<1> DEFINE t == [i \in 0 .. 0 |-> Start]
<1>3. Trail(sent, t) /\ t[Len(sent)] = arith
  <2>1. Sound(Start) /\ Start.wide > MinWide /\ Start \in ArithType
    BY <1>1 DEF IInv
  <2> QED
    BY <1>1, <1>2, <2>1 DEF Trail
<1> QED
  BY <1>1, <1>2, <1>3 DEF CodecInv

(* A call of the encoder.                                                  *)
LEMMA SendKeeps ==
  ASSUME CodecInv, Send1OfN \/ SendBit
  PROVE  CodecInv'
<1>1. /\ phase = "coding" /\ phase' = phase
      /\ \E call : /\ IsCall(call) /\ sent' = Append(sent, call)
                   /\ arith' = After(arith, call)
      /\ UNCHANGED <<slop, dec, heard, garbled>>
  BY SendAfter DEF CodecInv
<1>2. PICK call : /\ IsCall(call) /\ sent' = Append(sent, call)
                  /\ arith' = After(arith, call)
  BY <1>1
<1>3. PICK t : Trail(sent, t) /\ t[Len(sent)] = arith
  BY <1>1 DEF CodecInv
<1>4. sent \in Seq(Calls) /\ heard = 0 /\ slop = 0 /\ garbled \in BOOLEAN /\ ~garbled
  BY <1>1 DEF CodecInv
<1>5. /\ sent' \in Seq(Calls)
      /\ \E u : Trail(sent', u) /\ u[Len(sent')] = arith'
  BY <1>2, <1>3, <1>4, TrailGrows
<1>6. IInv'
  <2>1. Encode1OfNCall \/ EncodeBitCall
    BY DEF Send1OfN, SendBit, Encode1OfNCall, EncodeBitCall
  <2> QED
    BY <2>1, NextIInv DEF CodecInv, Next
<1> QED
  BY <1>1, <1>4, <1>5, <1>6 DEF CodecInv

(* The end of the message and arith_Start_Decoding.                        *)
LEMMA CloseKeeps ==
  ASSUME CodecInv, Close
  PROVE  CodecInv'
<1>1. /\ IInv /\ Finish /\ phase = "coding" /\ phase' = "done"
      /\ slop' \in Slop /\ dec' = StartDecoding(FileByte(1)')
      /\ sent' = sent /\ heard' = heard /\ garbled' = garbled
  BY DEF CodecInv, Close, Finish
<1> DEFINE out == arith'.out
           s == slop'
           d == dec'
<1>2. IInv'
  BY <1>1, NextIInv DEF Next
<1>3. PICK t : Trail(sent, t) /\ t[Len(sent)] = arith
  BY <1>1 DEF CodecInv
<1>4. sent \in Seq(Calls) /\ heard = 0 /\ garbled = FALSE
  BY <1>1 DEF CodecInv
<1>5. out \in Seq(Byte) /\ out # <<>> /\ out[1] = 0 /\ Made(arith) <= Len(out)
  <2>1. /\ arith' \in ArithType /\ out # <<>> /\ out[1] = 0
        /\ \E i \in 0 .. 1 : Len(out) = Made(arith) + i
    BY <1>1, FinishExact
  <2>2. Made(arith) \in Nat
    BY <1>1, BottomType DEF IInv
  <2> QED
    BY <2>1, <2>2 DEF ArithType
<1>6. Opened(out, s)
  BY <1>1, <1>5, DecoderAssumption DEF Opened
<1>7. Decodable(out, s, sent, t)
  <2>1. \A i \in 0 .. Len(sent) : Made(t[i]) <= Len(out)
    <3>1. Len(out) \in Nat
      BY <1>5
    <3> QED
      BY <1>3, <1>4, <1>5, <3>1, TrailBack
  <2>2. ASSUME s = 0 PROVE \A i \in 0 .. Len(sent) : Holds(out, s, t[i])
    <3>1. Holds(out, s, arith)
      BY <1>1, <1>6, <2>2, FinishHolds
    <3> HIDE DEF out, s
    <3> QED
      BY <1>3, <1>4, <1>6, <3>1, TrailHolds
  <2> QED
    BY <1>6, <2>1, <2>2 DEF Decodable
<1>8. DecodesAt(out, s, d, t, 0)
  <2> DEFINE e == Fill(out, s, d)
  <2>1. d = StartDecoding(ByteAt(out, s, 1))
    <3>1. FileByte(1)' = ByteAt(out, s, 1)
      BY Zenon DEF FileByte, File, ByteAt
    <3> QED
      BY <1>1, <3>1
  <2> HIDE DEF out, s, d
  <2>2. /\ Held(d) /\ Held(e) /\ d.next = 1
        /\ e.wide = One /\ e.next = Lead + 2 /\ Tracks(out, s, e, 0)
    BY <1>6, <2>1, StartFilled
  <2>3. t[0] = Start
    BY <1>3 DEF Trail
  <2>4. Made(Start) = 1 /\ Start.wide = One /\ Bottom(Start) = 0
    <3>1. Made(Start) = 1 /\ Start.wide = One
      BY DEF Made, Start
    <3>2. Value(Start.out) = 0 /\ Power[0] = 1 /\ 0 % Radix = 0
      BY ValueEmpty, SmallPowers, ModSmall, Sizes DEF Start
    <3>3. Queued(Start) = (0 * Radix + 0) * 1 + 1 - 1
      BY <3>2 DEF Queued, Start
    <3>4. Queued(Start) = 0
      BY <3>3, Sizes
    <3>5. Bottom(Start) = 0 * One + 0
      BY <3>4 DEF Bottom, Start
    <3> QED
      BY <3>1, <3>5, Sizes
  <2>5. Lead \in Nat /\ Lead + 2 = 1 + Lead + 1 /\ 1 <= Lead + 2
    BY WordFacts
  <2> HIDE DEF e
  <2>6. Follows(e, t[0]) /\ d.next <= e.next
    BY <2>2, <2>3, <2>4, <2>5 DEF Follows
  <2>7. Tracks(out, s, e, Bottom(t[0]))
    BY <2>2, <2>3, <2>4
  <2> QED
    BY <2>2, <2>6, <2>7 DEF DecodesAt, e
<1>9. \E u : /\ Trail(sent', u) /\ Decodable(arith'.out, slop', sent', u)
             /\ DecodesAt(arith'.out, slop', dec', u, heard')
  BY <1>1, <1>3, <1>4, <1>7, <1>8
<1>10. 0 \in 0 .. Len(sent)
  BY <1>4
<1> QED
  BY <1>1, <1>2, <1>4, <1>9, <1>10 DEF CodecInv

(* A call of the decoder.                                                  *)
LEMMA HearKeeps ==
  ASSUME CodecInv, Hear
  PROVE  CodecInv'
<1> DEFINE out == arith.out
           e == Fill(out, slop, dec)
           call == sent[heard + 1]
<1>1. /\ phase = "done" /\ ~garbled /\ heard < Len(sent)
      /\ IF Recognised(e, call)
         THEN dec' = Decoded(e, call) /\ heard' = heard + 1 /\ garbled' = garbled
         ELSE dec' = e /\ garbled' = TRUE /\ heard' = heard
      /\ arith' = arith /\ phase' = phase /\ sent' = sent /\ slop' = slop
  BY RefillIsFill DEF Hear
<1>2. /\ IInv /\ sent \in Seq(Calls) /\ heard \in 0 .. Len(sent) /\ garbled \in BOOLEAN
  BY DEF CodecInv
<1>3. PICK t : /\ Trail(sent, t) /\ Decodable(out, slop, sent, t)
               /\ DecodesAt(out, slop, dec, t, heard)
  BY <1>1 DEF CodecInv
<1>4. /\ slop = 0 => Recognised(e, call)
      /\ Recognised(e, call) => DecodesAt(out, slop, Decoded(e, call), t, heard + 1)
      /\ DecodesAt(out, slop, e, t, heard)
  BY <1>1, <1>2, <1>3, HearStep
<1> HIDE DEF e, call
<1>5. /\ heard' \in 0 .. Len(sent) /\ garbled' \in BOOLEAN
      /\ slop = 0 => ~garbled'
      /\ DecodesAt(out, slop, dec', t, heard')
  <2>1. CASE Recognised(e, call)
    BY <1>1, <1>2, <1>4, <2>1
  <2>2. CASE ~Recognised(e, call)
    BY <1>1, <1>2, <1>4, <2>2
  <2> QED
    BY <2>1, <2>2
<1>6. IInv'
  BY <1>1, <1>2, NextIInv DEF vars
<1>7. \E u : /\ Trail(sent', u) /\ Decodable(arith'.out, slop', sent', u)
             /\ DecodesAt(arith'.out, slop', dec', u, heard')
  BY <1>1, <1>3, <1>5
<1> QED
  BY <1>1, <1>2, <1>5, <1>6, <1>7 DEF CodecInv

(* Every step keeps the invariant.                                         *)
LEMMA NextCodecInv == CodecInv /\ [CodecNext]_codecVars => CodecInv'
<1> SUFFICES ASSUME CodecInv, [CodecNext]_codecVars PROVE CodecInv'
  OBVIOUS
<1>1. CASE Send1OfN \/ SendBit
  BY <1>1, SendKeeps
<1>2. CASE Close
  BY <1>2, CloseKeeps
<1>3. CASE Hear
  BY <1>3, HearKeeps
<1>4. CASE UNCHANGED codecVars
  <2>1. /\ arith' = arith /\ phase' = phase /\ sent' = sent /\ slop' = slop
        /\ dec' = dec /\ heard' = heard /\ garbled' = garbled
    BY <1>4 DEF codecVars
  <2>2. IInv'
    BY <2>1, NextIInv DEF CodecInv, vars
  <2> QED
    BY <2>1, <2>2 DEF CodecInv
<1> QED
  BY <1>1, <1>2, <1>3, <1>4 DEF CodecNext

(* The inductive invariant holds of every message and its decoder.         *)
THEOREM CodecInductive == CodecSpec => []CodecInv
  BY InitCodecInv, NextCodecInv, PTL DEF CodecSpec

(* As long as the buffer holds a zero behind the file, the decoder gets    *)
(* the answers the encoder was given, in their order.                      *)
THEOREM DecodesBeforeZero == CodecSpec => [](slop = 0 => RoundTrip)
<1>1. CodecInv => (slop = 0 => RoundTrip)
  BY DEF CodecInv, RoundTrip
<1> QED
  BY <1>1, CodecInductive, PTL

(* The number the decoder holds lies in its zone, whatever it reads past   *)
(* the end of the file.                                                    *)
THEOREM AlwaysInZone == CodecSpec => []DecoderInZone
<1>1. CodecInv => DecoderInZone
  BY DEF CodecInv, DecoderInZone, DecodesAt, Held
<1> QED
  BY <1>1, CodecInductive, PTL

(* A decoder never reads past the zeros stored behind the code.            *)
THEOREM ReadsStay == CodecSpec => []ReadsStayInPadding
<1>1. CodecInv => ReadsStayInPadding
  <2> SUFFICES ASSUME CodecInv, phase = "done"
               PROVE  dec.next <= Len(File) + Padding
    BY DEF ReadsStayInPadding
  <2>1. PICK t : /\ Trail(sent, t) /\ Decodable(arith.out, slop, sent, t)
                 /\ DecodesAt(arith.out, slop, dec, t, heard)
    BY DEF CodecInv
  <2> DEFINE e == Fill(arith.out, slop, dec)
  <2>2. /\ dec.next \in Nat /\ dec.next <= e.next /\ e.next = Made(t[heard]) + Lead + 1
    BY <2>1 DEF DecodesAt, Held, Follows
  <2>3. Made(t[heard]) \in Nat /\ Made(t[heard]) <= Len(arith.out)
    <3>1. heard \in 0 .. Len(sent)
      BY DEF CodecInv
    <3>2. Sound(t[heard]) /\ Made(t[heard]) <= Len(arith.out)
      BY <2>1, <3>1 DEF Trail, Decodable
    <3> QED
      BY <3>2, BottomType DEF Sound
  <2>4. Len(File) = Len(arith.out) - 1 /\ Len(arith.out) \in Nat
    BY <2>1 DEF Decodable, Opened, File
  <2>5. Lead \in Nat /\ Lead + 2 <= Padding /\ Padding \in Nat
    BY WordFacts, DecoderAssumption
  <2> HIDE DEF e
  <2> QED
    BY <2>2, <2>3, <2>4, <2>5
<1> QED
  BY <1>1, CodecInductive, PTL

(* In particular when nothing else can be behind it: the round trip of     *)
(* every message in a buffer of its own.                                   *)
THEOREM AlwaysRoundTrip == Slop = {0} => (CodecSpec => []RoundTrip)
<1> SUFFICES ASSUME Slop = {0} PROVE CodecSpec => []RoundTrip
  OBVIOUS
<1>1. CodecInit => slop = 0
  BY DEF CodecInit
<1>2. slop = 0 /\ [CodecNext]_codecVars => (slop = 0)'
  <2> SUFFICES ASSUME slop = 0, [CodecNext]_codecVars PROVE slop' = 0
    OBVIOUS
  <2> QED
    BY DEF CodecNext, codecVars, Send1OfN, SendBit, Close, Hear
<1> QED
  BY <1>1, <1>2, DecodesBeforeZero, PTL DEF CodecSpec

(* The message is one of the encoder's, so that what is proved of those    *)
(* holds of it.                                                            *)
THEOREM CodecEncodes == CodecSpec => Spec
<1>1. CodecInit => Init
  BY DEF CodecInit
<1>2. [CodecNext]_codecVars => [Next]_vars
  <2>1. Send1OfN => Encode1OfNCall
    BY DEF Send1OfN, Encode1OfNCall
  <2>2. SendBit => EncodeBitCall
    BY DEF SendBit, EncodeBitCall
  <2>3. Close => Finish
    BY DEF Close
  <2>4. Hear => UNCHANGED vars
    BY DEF Hear, vars
  <2> QED
    BY <2>1, <2>2, <2>3, <2>4 DEF CodecNext, codecVars, vars, Next
<1> QED
  BY <1>1, <1>2, PTL DEF CodecSpec, Spec
=============================================================================
