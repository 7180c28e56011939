-------------------------- MODULE ByteCoderProofs --------------------------
(***************************************************************************)
(* Proofs about ContextCounts and ByteCoder.                               *)
(*                                                                         *)
(* A context is Sound when the statistics kept are those of its followset's *)
(* nodes and stay within bounds: context_Update keeps it so, and it is what *)
(* makes the parts and totals given to the coder fit (ContextCounts).      *)
(*                                                                         *)
(* The encoder has come along a Trace, a sequence of its states and of the *)
(* calls it had made, each from the one before by a step.  The decoder is  *)
(* always at one of them, up to what is excluded between two bytes, and has *)
(* heard exactly its calls (InStep): the answers to its next calls are then *)
(* those of the encoder's next step, so its step leads to the next state.  *)
(* Each step is one nearer the end, for the decoder because the encoder's  *)
(* is (StepsRunOut).                                                       *)
(***************************************************************************)
EXTENDS ByteCoder, ContextCounts, Induction, FiniteSetTheorems, SequenceTheorems

(***************************************************************************)
(* Lists of nodes: what their totals, their largest counts and the nodes   *)
(* chosen from them are, by induction on the list.                         *)
(***************************************************************************)

(* The constants the lists depend on.                                      *)
LEMMA Constants ==
  /\ SymbolCount \in Nat /\ SymbolCount > 0
  /\ IncNovel \in Nat /\ IncNovel > 0
  BY FollowsetAssumption

(* A node of a followset.                                                  *)
LEMMA NodeAt ==
  ASSUME NEW s \in Seq(Nodes)
  PROVE  /\ Len(s) \in Nat
         /\ \A n \in 1 .. Len(s) : /\ s[n] \in Nodes
                                   /\ s[n].symbol \in Symbols
                                   /\ s[n].count \in Nat
<1>1. \A n \in 1 .. Len(s) : s[n] \in Nodes
  OBVIOUS
<1> QED
  BY <1>1 DEF Nodes

(* The Max of the community modules.                                       *)
LEMMA MaxOfTwo ==
  ASSUME NEW a \in Nat, NEW b \in Nat
  PROVE  Max({a, b}) \in Nat /\ Max({a, b}) = IF a >= b THEN a ELSE b
<1> DEFINE m == IF a >= b THEN a ELSE b
<1>1. m \in {a, b} /\ \A y \in {a, b} : m >= y
  OBVIOUS
<1>2. \A x \in {a, b} : (\A y \in {a, b} : x >= y) => x = m
  OBVIOUS
<1>3. Max({a, b}) = CHOOSE x \in {a, b} : \A y \in {a, b} : x >= y
  BY DEF Max
<1> HIDE DEF m
<1>4. Max({a, b}) \in {a, b} /\ \A y \in {a, b} : Max({a, b}) >= y
  BY <1>1, <1>3
<1>5. Max({a, b}) = m
  BY <1>2, <1>4
<1> QED
  BY <1>4, <1>5 DEF m

(* The sums of the counts of a list's first nodes.                         *)
Sums(s, v) ==
  /\ v \in [0 .. Len(s) -> Nat]
  /\ v[0] = 0
  /\ \A n \in 1 .. Len(s) : v[n] = v[n - 1] + s[n].count

(* What the loop that adds the counts up computes.                         *)
LEMMA TotalIs ==
  ASSUME NEW s \in Seq(Nodes)
  PROVE  /\ \E v : Sums(s, v)
         /\ \A v : Sums(s, v) => Total(s) = v[Len(s)]
<1> DEFINE N == Len(s)
           step == [n \in 1 .. N |-> [t \in Nat |-> t + s[n].count]]
           R(f) == f = [n \in 0 .. N |-> IF n = 0 THEN 0 ELSE f[n - 1] + s[n].count]
<1>1. N \in Nat /\ \A n \in 1 .. N : s[n].count \in Nat
  BY NodeAt
<1>2. step \in [1 .. N -> [Nat -> Nat]] /\ 0 \in Nat
  BY <1>1
<1>3. \A n \in 1 .. N : \A t \in Nat : step[n][t] = t + s[n].count
  OBVIOUS
<1> HIDE DEF step
<1>4. PICK f : Accumulates(Nat, 0, step, N, f)
  BY <1>1, <1>2, Accumulation
<1>5. \A n \in 1 .. N : n - 1 \in 0 .. N /\ n \in 0 .. N /\ n # 0
  BY <1>1
<1>6. Sums(s, f)
  BY <1>3, <1>4, <1>5 DEF Accumulates, Sums
<1>7. R(f)
  <2>1. \A n \in 0 .. N : n # 0 => n \in 1 .. N
    BY <1>1
  <2>2. \A n \in 0 .. N : f[n] = IF n = 0 THEN 0 ELSE f[n - 1] + s[n].count
    BY <1>6, <2>1 DEF Sums
  <2>3. f = [n \in 0 .. N |-> f[n]]
    BY <1>6 DEF Sums
  <2> QED
    BY <2>2, <2>3
<1> DEFINE w == CHOOSE h : R(h)
<1>8. Total(s) = w[N]
  BY Zenon DEF Total
<1> HIDE DEF R
<1>9. R(w)
  BY <1>7, Zenon
<1> HIDE DEF w
<1>10. /\ w[0] = 0
       /\ \A n \in 1 .. N : w[n] = w[n - 1] + s[n].count
  <2>1. \A n \in 0 .. N : w[n] = IF n = 0 THEN 0 ELSE w[n - 1] + s[n].count
    BY <1>9 DEF R
  <2>2. 0 \in 0 .. N
    BY <1>1
  <2> QED
    BY <1>5, <2>1, <2>2
<1>11. ASSUME NEW v, Sums(s, v) PROVE Total(s) = v[N]
  <2>1. Accumulates(Nat, 0, step, N, v)
    BY <1>3, <1>5, <1>11 DEF Sums, Accumulates
  <2>2. ASSUME NEW n \in 1 .. N, w[n - 1] \in Nat PROVE w[n] = step[n][w[n - 1]]
    <3>1. w[n] = w[n - 1] + s[n].count
      BY <1>10
    <3>2. step[n][w[n - 1]] = w[n - 1] + s[n].count
      BY <1>3, <2>2, Zenon
    <3> QED
      BY <3>1, <3>2, Zenon
  <2>3. \A n \in 1 .. N : w[n - 1] \in Nat => w[n] = step[n][w[n - 1]]
    BY <2>2
  <2>4. Recurs(Nat, 0, step, N, w) /\ N \in Nat
    BY <1>1, <1>10, <2>3 DEF Recurs
  <2> HIDE DEF N
  <2>5. \A n \in 0 .. N : w[n] = v[n]
    BY <2>1, <2>4, AccumulatesOnly
  <2>6. N \in 0 .. N
    BY <1>1
  <2> QED
    BY <1>8, <2>5, <2>6
<1> QED
  BY <1>6, <1>11
(* The largest counts of a list's first nodes.                             *)
Maxima(s, v) ==
  /\ v \in [0 .. Len(s) -> Nat]
  /\ v[0] = 0
  /\ \A n \in 1 .. Len(s) : v[n] = Max({v[n - 1], s[n].count})

(* The loop that looks for the largest count.                              *)
LEMMA LargestIs ==
  ASSUME NEW s \in Seq(Nodes)
  PROVE  /\ \E v : Maxima(s, v)
         /\ \A v : Maxima(s, v) => Largest(s) = v[Len(s)]
<1> DEFINE N == Len(s)
           step == [n \in 1 .. N |-> [t \in Nat |-> Max({t, s[n].count})]]
           R(f) == f = [n \in 0 .. N |-> IF n = 0 THEN 0 ELSE Max({f[n - 1], s[n].count})]
<1>1. N \in Nat /\ \A n \in 1 .. N : s[n].count \in Nat
  BY NodeAt
<1>2. step \in [1 .. N -> [Nat -> Nat]] /\ 0 \in Nat
  <2>1. ASSUME NEW n \in 1 .. N, NEW t \in Nat PROVE Max({t, s[n].count}) \in Nat
    BY <1>1, MaxOfTwo
  <2> QED
    BY <2>1
<1>3. \A n \in 1 .. N : \A t \in Nat : step[n][t] = Max({t, s[n].count})
  OBVIOUS
<1> HIDE DEF step
<1>4. PICK f : Accumulates(Nat, 0, step, N, f)
  BY <1>1, <1>2, Accumulation
<1>5. \A n \in 1 .. N : n - 1 \in 0 .. N /\ n \in 0 .. N /\ n # 0
  BY <1>1
<1>6. Maxima(s, f)
  BY <1>3, <1>4, <1>5 DEF Accumulates, Maxima
<1>7. R(f)
  <2>1. \A n \in 0 .. N : n # 0 => n \in 1 .. N
    BY <1>1
  <2>2. \A n \in 0 .. N : f[n] = IF n = 0 THEN 0 ELSE Max({f[n - 1], s[n].count})
    BY <1>6, <2>1 DEF Maxima
  <2>3. f = [n \in 0 .. N |-> f[n]]
    BY <1>6 DEF Maxima
  <2> QED
    BY <2>2, <2>3
<1> DEFINE w == CHOOSE h : R(h)
<1>8. Largest(s) = w[N]
  BY Zenon DEF Largest
<1> HIDE DEF R
<1>9. R(w)
  BY <1>7, Zenon
<1> HIDE DEF w
<1>10. /\ w[0] = 0
       /\ \A n \in 1 .. N : w[n] = Max({w[n - 1], s[n].count})
  <2>1. \A n \in 0 .. N : w[n] = IF n = 0 THEN 0 ELSE Max({w[n - 1], s[n].count})
    BY <1>9 DEF R
  <2>2. 0 \in 0 .. N
    BY <1>1
  <2> QED
    BY <1>5, <2>1, <2>2
<1>11. ASSUME NEW v, Maxima(s, v) PROVE Largest(s) = v[N]
  <2>1. Accumulates(Nat, 0, step, N, v)
    BY <1>3, <1>5, <1>11 DEF Maxima, Accumulates
  <2>2. ASSUME NEW n \in 1 .. N, w[n - 1] \in Nat PROVE w[n] = step[n][w[n - 1]]
    <3>1. w[n] = Max({w[n - 1], s[n].count})
      BY <1>10
    <3>2. step[n][w[n - 1]] = Max({w[n - 1], s[n].count})
      BY <1>3, <2>2, Zenon
    <3> QED
      BY <3>1, <3>2, Zenon
  <2>3. \A n \in 1 .. N : w[n - 1] \in Nat => w[n] = step[n][w[n - 1]]
    BY <2>2
  <2>4. Recurs(Nat, 0, step, N, w) /\ N \in Nat
    BY <1>1, <1>10, <2>3 DEF Recurs
  <2> HIDE DEF N
  <2>5. \A n \in 0 .. N : w[n] = v[n]
    BY <2>1, <2>4, AccumulatesOnly
  <2>6. N \in 0 .. N
    BY <1>1
  <2> QED
    BY <1>8, <2>5, <2>6
<1> QED
  BY <1>6, <1>11
(* What is kept of a list's first nodes.                                   *)
Prefixed(s, kept, v) ==
  /\ v \in [0 .. Len(s) -> Seq(Nodes)]
  /\ v[0] = <<>>
  /\ \A n \in 1 .. Len(s) : v[n] = (IF s[n] \in kept THEN Append(v[n - 1], s[n]) ELSE v[n - 1])

(* The loop that drops the nodes that are not kept.                        *)
LEMMA AmongIs ==
  ASSUME NEW s \in Seq(Nodes), NEW kept
  PROVE  /\ \E v : Prefixed(s, kept, v)
         /\ \A v : Prefixed(s, kept, v) => Among(s, kept) = v[Len(s)]
<1> DEFINE N == Len(s)
           step == [n \in 1 .. N |-> [t \in Seq(Nodes) |-> (IF s[n] \in kept THEN Append(t, s[n]) ELSE t)]]
           R(f) == f = [n \in 0 .. N |-> IF n = 0 THEN <<>> ELSE (IF s[n] \in kept THEN Append(f[n - 1], s[n]) ELSE f[n - 1])]
<1>1. N \in Nat /\ \A n \in 1 .. N : s[n] \in Nodes
  BY NodeAt
<1>2. step \in [1 .. N -> [Seq(Nodes) -> Seq(Nodes)]] /\ <<>> \in Seq(Nodes)
  BY <1>1
<1>3. \A n \in 1 .. N : \A t \in Seq(Nodes) : step[n][t] = (IF s[n] \in kept THEN Append(t, s[n]) ELSE t)
  OBVIOUS
<1> HIDE DEF step
<1>4. PICK f : Accumulates(Seq(Nodes), <<>>, step, N, f)
  BY <1>1, <1>2, Accumulation
<1>5. \A n \in 1 .. N : n - 1 \in 0 .. N /\ n \in 0 .. N /\ n # 0
  BY <1>1
<1>6. Prefixed(s, kept, f)
  BY <1>3, <1>4, <1>5 DEF Accumulates, Prefixed
<1>7. R(f)
  <2>1. \A n \in 0 .. N : n # 0 => n \in 1 .. N
    BY <1>1
  <2>2. \A n \in 0 .. N : f[n] = IF n = 0 THEN <<>> ELSE (IF s[n] \in kept THEN Append(f[n - 1], s[n]) ELSE f[n - 1])
    BY <1>6, <2>1 DEF Prefixed
  <2>3. f = [n \in 0 .. N |-> f[n]]
    BY <1>6 DEF Prefixed
  <2> QED
    BY <2>2, <2>3
<1> DEFINE w == CHOOSE h : R(h)
<1>8. Among(s, kept) = w[N]
  BY Zenon DEF Among
<1> HIDE DEF R
<1>9. R(w)
  BY <1>7, Zenon
<1> HIDE DEF w
<1>10. /\ w[0] = <<>>
       /\ \A n \in 1 .. N : w[n] = (IF s[n] \in kept THEN Append(w[n - 1], s[n]) ELSE w[n - 1])
  <2>1. \A n \in 0 .. N : w[n] = IF n = 0 THEN <<>> ELSE (IF s[n] \in kept THEN Append(w[n - 1], s[n]) ELSE w[n - 1])
    BY <1>9 DEF R
  <2>2. 0 \in 0 .. N
    BY <1>1
  <2> QED
    BY <1>5, <2>1, <2>2
<1>11. ASSUME NEW v, Prefixed(s, kept, v) PROVE Among(s, kept) = v[N]
  <2>1. Accumulates(Seq(Nodes), <<>>, step, N, v)
    BY <1>3, <1>5, <1>11 DEF Prefixed, Accumulates
  <2>2. ASSUME NEW n \in 1 .. N, w[n - 1] \in Seq(Nodes) PROVE w[n] = step[n][w[n - 1]]
    <3>1. w[n] = (IF s[n] \in kept THEN Append(w[n - 1], s[n]) ELSE w[n - 1])
      BY <1>10
    <3>2. step[n][w[n - 1]] = (IF s[n] \in kept THEN Append(w[n - 1], s[n]) ELSE w[n - 1])
      BY <1>3, <2>2, Zenon
    <3> QED
      BY <3>1, <3>2, Zenon
  <2>3. \A n \in 1 .. N : w[n - 1] \in Seq(Nodes) => w[n] = step[n][w[n - 1]]
    BY <2>2
  <2>4. Recurs(Seq(Nodes), <<>>, step, N, w) /\ N \in Nat
    BY <1>1, <1>10, <2>3 DEF Recurs
  <2> HIDE DEF N
  <2>5. \A n \in 0 .. N : w[n] = v[n]
    BY <2>1, <2>4, AccumulatesOnly
  <2>6. N \in 0 .. N
    BY <1>1
  <2> QED
    BY <1>8, <2>5, <2>6
<1> QED
  BY <1>6, <1>11

(* Induction on lists.                                                     *)
LEMMA ListInduct ==
  ASSUME NEW D, NEW S, <<>> \in S,
         \A s \in Seq(D) : \A x \in D : s \in S => Append(s, x) \in S
  PROVE  \A s \in Seq(D) : s \in S
<1> DEFINE L == {n \in Nat : \A s \in Seq(D) : Len(s) = n => s \in S}
<1>1. 0 \in L
  <2>1. \A s \in Seq(D) : Len(s) = 0 => s = <<>>
    BY EmptySeq
  <2> QED
    BY <2>1
<1>2. ASSUME NEW n \in Nat, n \in L PROVE n + 1 \in L
  <2> SUFFICES ASSUME NEW s \in Seq(D), Len(s) = n + 1 PROVE s \in S
    OBVIOUS
  <2>1. s # <<>>
    BY EmptySeq
  <2>2. PICK t \in Seq(D), x \in D : s = Append(t, x)
    BY <2>1, SequenceEmptyOrAppend
  <2>3. Len(t) = n
    <3>1. Len(s) = Len(t) + 1 /\ Len(t) \in Nat
      BY <2>2, AppendProperties, LenProperties
    <3> QED
      BY <3>1
  <2>4. t \in S
    BY <1>2, <2>3
  <2> QED
    BY <2>2, <2>4
<1> HIDE DEF L
<1>3. \A n \in Nat : n \in L
  BY <1>1, <1>2, Induct
<1> QED
  BY <1>3, LenProperties DEF L

(* The empty list adds up to nothing.                                      *)
LEMMA TotalEmpty == Total(<<>>) = 0 /\ Largest(<<>>) = 0
<1> <<>> \in Seq(Nodes) /\ Len(<<>>) = 0
  BY EmptySeq
<1>1. Total(<<>>) = 0
  <2>1. PICK v : Sums(<<>>, v)
    BY TotalIs
  <2>2. Total(<<>>) = v[0]
    BY <2>1, TotalIs
  <2> QED
    BY <2>1, <2>2 DEF Sums
<1>2. Largest(<<>>) = 0
  <2>1. PICK v : Maxima(<<>>, v)
    BY LargestIs
  <2>2. Largest(<<>>) = v[0]
    BY <2>1, LargestIs
  <2> QED
    BY <2>1, <2>2 DEF Maxima
<1> QED
  BY <1>1, <1>2

(* Totals and largest counts are numbers.                                  *)
LEMMA TotalType ==
  ASSUME NEW s \in Seq(Nodes)
  PROVE  Total(s) \in Nat /\ Largest(s) \in Nat
<1>1. Len(s) \in 0 .. Len(s)
  BY NodeAt
<1>2. Total(s) \in Nat
  BY <1>1, TotalIs DEF Sums
<1>3. Largest(s) \in Nat
  BY <1>1, LargestIs DEF Maxima
<1> QED
  BY <1>2, <1>3

(* The sums of a list, cut after its first nodes.                          *)
LEMMA SumsCut ==
  ASSUME NEW s \in Seq(Nodes), NEW v, Sums(s, v), NEW n \in 0 .. Len(s)
  PROVE  SubSeq(s, 1, n) \in Seq(Nodes) /\ Total(SubSeq(s, 1, n)) = v[n]
<1> DEFINE t == SubSeq(s, 1, n)
           w == [i \in 0 .. n |-> v[i]]
<1>1. Len(s) \in Nat
  BY NodeAt
<1>2. t \in Seq(Nodes) /\ Len(t) = n /\ \A i \in 1 .. n : t[i] = s[i]
  <2>1. \A i \in 1 .. n : s[i] \in Nodes
    BY <1>1, NodeAt
  <2> QED
    BY <1>1, <2>1, SubSeqProperties
<1> HIDE DEF t
<1>3. Sums(t, w)
  <2>1. w \in [0 .. n -> Nat] /\ w[0] = 0
    BY <1>1 DEF Sums
  <2>2. ASSUME NEW i \in 1 .. n PROVE w[i] = w[i - 1] + t[i].count
    <3>1. i \in 1 .. Len(s) /\ i \in 0 .. n /\ i - 1 \in 0 .. n
      BY <1>1
    <3> QED
      BY <1>2, <3>1 DEF Sums
  <2> HIDE DEF w
  <2> QED
    BY <1>2, <2>1, <2>2 DEF Sums
<1>4. Total(t) = w[n]
  BY <1>2, <1>3, TotalIs
<1>5. n \in 0 .. n
  BY <1>1
<1> QED
  BY <1>2, <1>4, <1>5 DEF t

(* The totals of the first nodes, one by one.                              *)
LEMMA TotalCut ==
  ASSUME NEW s \in Seq(Nodes)
  PROVE  /\ \A n \in 0 .. Len(s) : /\ SubSeq(s, 1, n) \in Seq(Nodes)
                                   /\ Total(SubSeq(s, 1, n)) \in Nat
         /\ Total(SubSeq(s, 1, 0)) = 0
         /\ Total(SubSeq(s, 1, Len(s))) = Total(s)
         /\ \A n \in 1 .. Len(s) : Total(SubSeq(s, 1, n)) =
                                     Total(SubSeq(s, 1, n - 1)) + s[n].count
<1>1. PICK v : Sums(s, v)
  BY TotalIs
<1>2. \A n \in 0 .. Len(s) : SubSeq(s, 1, n) \in Seq(Nodes) /\ Total(SubSeq(s, 1, n)) = v[n]
  BY <1>1, SumsCut
<1>3. Len(s) \in Nat
  BY NodeAt
<1>4. \A n \in 1 .. Len(s) : n \in 0 .. Len(s) /\ n - 1 \in 0 .. Len(s)
  BY <1>3
<1>5. 0 \in 0 .. Len(s) /\ Len(s) \in 0 .. Len(s)
  BY <1>3
<1>6. Total(s) = v[Len(s)]
  BY <1>1, TotalIs
<1> QED
  BY <1>1, <1>2, <1>4, <1>5, <1>6 DEF Sums

(* One more node adds its count ...                                        *)
LEMMA TotalAppend ==
  ASSUME NEW s \in Seq(Nodes), NEW x \in Nodes
  PROVE  Total(Append(s, x)) = Total(s) + x.count
<1> DEFINE t == Append(s, x)
<1>1. /\ t \in Seq(Nodes) /\ Len(t) = Len(s) + 1 /\ Len(s) \in Nat
      /\ t[Len(s) + 1] = x /\ \A i \in 1 .. Len(s) : t[i] = s[i]
  BY AppendProperties, LenProperties
<1> HIDE DEF t
<1>2. SubSeq(t, 1, Len(s)) = s
  <2>1. /\ SubSeq(t, 1, Len(s)) \in Seq(Nodes)
        /\ Len(SubSeq(t, 1, Len(s))) = Len(s)
        /\ \A i \in 1 .. Len(s) : SubSeq(t, 1, Len(s))[i] = t[i]
    <3>1. \A i \in 1 .. Len(s) : t[i] \in Nodes
      BY <1>1, NodeAt
    <3> QED
      BY <1>1, <3>1, SubSeqProperties
  <2> QED
    BY <1>1, <2>1, SeqEqual
<1>3. Total(SubSeq(t, 1, Len(s) + 1)) = Total(SubSeq(t, 1, (Len(s) + 1) - 1)) + t[Len(s) + 1].count
  <2>1. Len(s) + 1 \in 1 .. Len(t)
    BY <1>1
  <2> QED
    BY <1>1, <2>1, TotalCut
<1>4. Total(t) = Total(SubSeq(t, 1, Len(s) + 1))
  BY <1>1, TotalCut
<1>5. (Len(s) + 1) - 1 = Len(s)
  BY <1>1
<1> QED
  BY <1>1, <1>2, <1>3, <1>4, <1>5 DEF t

(* ... and may be the largest.                                             *)
LEMMA LargestAppend ==
  ASSUME NEW s \in Seq(Nodes), NEW x \in Nodes
  PROVE  Largest(Append(s, x)) = Max({Largest(s), x.count})
<1> DEFINE t == Append(s, x)
<1>1. /\ t \in Seq(Nodes) /\ Len(t) = Len(s) + 1 /\ Len(s) \in Nat
      /\ t[Len(s) + 1] = x /\ \A i \in 1 .. Len(s) : t[i] = s[i]
  BY AppendProperties, LenProperties
<1> HIDE DEF t
<1>2. PICK v : Maxima(t, v)
  BY <1>1, LargestIs
<1> DEFINE w == [i \in 0 .. Len(s) |-> v[i]]
<1>3. Maxima(s, w)
  <2>1. w \in [0 .. Len(s) -> Nat] /\ w[0] = 0
    BY <1>1, <1>2 DEF Maxima
  <2>2. ASSUME NEW i \in 1 .. Len(s) PROVE w[i] = Max({w[i - 1], s[i].count})
    <3>1. i \in 1 .. Len(t) /\ i \in 0 .. Len(s) /\ i - 1 \in 0 .. Len(s)
      BY <1>1
    <3>2. v[i] = Max({v[i - 1], t[i].count})
      BY <1>2, <3>1 DEF Maxima
    <3>3. w[i] = v[i] /\ w[i - 1] = v[i - 1] /\ t[i] = s[i]
      BY <1>1, <3>1
    <3> QED
      BY <3>2, <3>3
  <2> HIDE DEF w
  <2> QED
    BY <2>1, <2>2 DEF Maxima
<1>4. Largest(s) = w[Len(s)]
  BY <1>3, LargestIs
<1>5. w[Len(s)] = v[Len(s)]
  BY <1>1
<1>6. Largest(t) = v[Len(s) + 1]
  BY <1>1, <1>2, LargestIs
<1>7. v[Len(s) + 1] = Max({v[Len(s)], x.count})
  <2>1. Len(s) + 1 \in 1 .. Len(t) /\ (Len(s) + 1) - 1 = Len(s)
    BY <1>1
  <2>2. v[Len(s) + 1] = Max({v[(Len(s) + 1) - 1], t[Len(s) + 1].count})
    BY <1>2, <2>1 DEF Maxima
  <2> QED
    BY <1>1, <2>1, <2>2
<1> QED
  BY <1>4, <1>5, <1>6, <1>7 DEF t

(* Nothing is kept of the empty list, ...                                  *)
LEMMA AmongEmpty ==
  ASSUME NEW kept
  PROVE  Among(<<>>, kept) = <<>>
<1> <<>> \in Seq(Nodes) /\ Len(<<>>) = 0
  BY EmptySeq
<1>1. PICK v : Prefixed(<<>>, kept, v)
  BY AmongIs
<1>2. Among(<<>>, kept) = v[0]
  BY <1>1, AmongIs
<1> QED
  BY <1>1, <1>2 DEF Prefixed

(* ... nodes are kept of nodes, ...                                        *)
LEMMA AmongType ==
  ASSUME NEW s \in Seq(Nodes), NEW kept
  PROVE  Among(s, kept) \in Seq(Nodes)
<1>1. Len(s) \in 0 .. Len(s)
  BY NodeAt
<1>2. PICK v : Prefixed(s, kept, v)
  BY AmongIs
<1>3. Among(s, kept) = v[Len(s)]
  BY <1>2, AmongIs
<1> QED
  BY <1>1, <1>2, <1>3 DEF Prefixed

(* ... and one more node is kept or not.                                   *)
LEMMA AmongAppend ==
  ASSUME NEW s \in Seq(Nodes), NEW x \in Nodes, NEW kept
  PROVE  Among(Append(s, x), kept) =
           IF x \in kept THEN Append(Among(s, kept), x) ELSE Among(s, kept)
<1> DEFINE t == Append(s, x)
<1>1. /\ t \in Seq(Nodes) /\ Len(t) = Len(s) + 1 /\ Len(s) \in Nat
      /\ t[Len(s) + 1] = x /\ \A i \in 1 .. Len(s) : t[i] = s[i]
  BY AppendProperties, LenProperties
<1> HIDE DEF t
<1>2. PICK v : Prefixed(t, kept, v)
  BY <1>1, AmongIs
<1> DEFINE w == [i \in 0 .. Len(s) |-> v[i]]
<1>3. Prefixed(s, kept, w)
  <2>1. w \in [0 .. Len(s) -> Seq(Nodes)] /\ w[0] = <<>>
    BY <1>1, <1>2 DEF Prefixed
  <2>2. ASSUME NEW i \in 1 .. Len(s)
        PROVE  w[i] = IF s[i] \in kept THEN Append(w[i - 1], s[i]) ELSE w[i - 1]
    <3>1. i \in 1 .. Len(t) /\ i \in 0 .. Len(s) /\ i - 1 \in 0 .. Len(s)
      BY <1>1
    <3>2. v[i] = IF t[i] \in kept THEN Append(v[i - 1], t[i]) ELSE v[i - 1]
      BY <1>2, <3>1 DEF Prefixed
    <3>3. w[i] = v[i] /\ w[i - 1] = v[i - 1] /\ t[i] = s[i]
      BY <1>1, <3>1
    <3> QED
      BY <3>2, <3>3
  <2> HIDE DEF w
  <2> QED
    BY <2>1, <2>2 DEF Prefixed
<1>4. Among(s, kept) = w[Len(s)]
  BY <1>3, AmongIs
<1>5. w[Len(s)] = v[Len(s)]
  BY <1>1
<1>6. Among(t, kept) = v[Len(s) + 1]
  BY <1>1, <1>2, AmongIs
<1>7. v[Len(s) + 1] = IF x \in kept THEN Append(v[Len(s)], x) ELSE v[Len(s)]
  <2>1. Len(s) + 1 \in 1 .. Len(t) /\ (Len(s) + 1) - 1 = Len(s)
    BY <1>1
  <2>2. v[Len(s) + 1] = IF t[Len(s) + 1] \in kept
                        THEN Append(v[(Len(s) + 1) - 1], t[Len(s) + 1])
                        ELSE v[(Len(s) + 1) - 1]
    BY <1>2, <2>1 DEF Prefixed
  <2> QED
    BY <1>1, <2>1, <2>2
<1> QED
  BY <1>4, <1>5, <1>6, <1>7 DEF t

Has(s, x) == \E i \in 1 .. Len(s) : s[i] = x

(* The nodes of a list with one more.                                      *)
LEMMA HasAppend ==
  ASSUME NEW s \in Seq(Nodes), NEW y \in Nodes
  PROVE  /\ Append(s, y) \in Seq(Nodes)
         /\ Len(Append(s, y)) = Len(s) + 1 /\ Len(s) \in Nat
         /\ \A x : Has(Append(s, y), x) <=> Has(s, x) \/ x = y
<1> DEFINE t == Append(s, y)
<1>1. /\ t \in Seq(Nodes) /\ Len(t) = Len(s) + 1 /\ Len(s) \in Nat
      /\ t[Len(s) + 1] = y /\ \A i \in 1 .. Len(s) : t[i] = s[i]
  BY AppendProperties, LenProperties
<1> HIDE DEF t
<1>2. \A i \in 1 .. Len(t) : i \in 1 .. Len(s) \/ i = Len(s) + 1
  BY <1>1
<1>3. Len(s) + 1 \in 1 .. Len(t) /\ \A i \in 1 .. Len(s) : i \in 1 .. Len(t)
  BY <1>1
<1>4. ASSUME NEW x PROVE Has(t, x) <=> Has(s, x) \/ x = y
  <2>1. Has(t, x) => Has(s, x) \/ x = y
    BY <1>1, <1>2 DEF Has
  <2>2. Has(s, x) => Has(t, x)
    BY <1>1, <1>3 DEF Has
  <2>3. x = y => Has(t, x)
    BY <1>1, <1>3 DEF Has
  <2> QED
    BY <2>1, <2>2, <2>3
<1> QED
  BY <1>1, <1>4 DEF t

(* What is among a list is what the list has and the set keeps.            *)
LEMMA AmongHas ==
  ASSUME NEW kept
  PROVE  \A s \in Seq(Nodes) : \A x :
           Has(Among(s, kept), x) <=> Has(s, x) /\ x \in kept
<1> DEFINE S == {s \in Seq(Nodes) :
                   \A x \in Nodes : Has(Among(s, kept), x) <=> Has(s, x) /\ x \in kept}
<1>1. <<>> \in S
  <2>1. <<>> \in Seq(Nodes) /\ Len(<<>>) = 0 /\ 1 .. 0 = {}
    BY EmptySeq
  <2> QED
    BY <2>1, AmongEmpty DEF Has
<1>2. ASSUME NEW s \in Seq(Nodes), NEW y \in Nodes, s \in S PROVE Append(s, y) \in S
  <2>1. Among(s, kept) \in Seq(Nodes) /\ Append(s, y) \in Seq(Nodes)
    BY AmongType, HasAppend
  <2>2. CASE y \in kept
    <3>1. Among(Append(s, y), kept) = Append(Among(s, kept), y)
      BY <2>2, AmongAppend
    <3>2. \A x : Has(Append(Among(s, kept), y), x) <=> Has(Among(s, kept), x) \/ x = y
      BY <2>1, HasAppend
    <3>3. \A x : Has(Append(s, y), x) <=> Has(s, x) \/ x = y
      BY HasAppend
    <3> QED
      BY <1>2, <2>1, <2>2, <3>1, <3>2, <3>3
  <2>3. CASE y \notin kept
    <3>1. Among(Append(s, y), kept) = Among(s, kept)
      BY <2>3, AmongAppend
    <3>2. \A x : Has(Append(s, y), x) <=> Has(s, x) \/ x = y
      BY HasAppend
    <3> QED
      BY <1>2, <2>1, <2>3, <3>1, <3>2
  <2> QED
    BY <2>2, <2>3
<1> HIDE DEF S
<1>3. \A s \in Seq(Nodes) : s \in S
  BY <1>1, <1>2, ListInduct
<1> SUFFICES ASSUME NEW s \in Seq(Nodes), NEW x
             PROVE  Has(Among(s, kept), x) <=> Has(s, x) /\ x \in kept
  OBVIOUS
<1>4. CASE x \in Nodes
  BY <1>3, <1>4 DEF S
<1>5. CASE x \notin Nodes
  <2>1. \A t \in Seq(Nodes) : ~Has(t, x)
    BY <1>5, NodeAt DEF Has
  <2> QED
    BY <2>1, AmongType
<1> QED
  BY <1>4, <1>5

(* What keeps every node keeps the list.                                   *)
LEMMA AmongAll ==
  ASSUME NEW kept
  PROVE  \A s \in Seq(Nodes) : (\A x : Has(s, x) => x \in kept) => Among(s, kept) = s
<1> DEFINE S == {s \in Seq(Nodes) :
                   (\A x \in Nodes : Has(s, x) => x \in kept) => Among(s, kept) = s}
<1>1. <<>> \in S
  BY EmptySeq, AmongEmpty
<1>2. ASSUME NEW s \in Seq(Nodes), NEW y \in Nodes, s \in S PROVE Append(s, y) \in S
  <2>1. \A x : Has(Append(s, y), x) <=> Has(s, x) \/ x = y
    BY HasAppend
  <2>2. ASSUME \A x \in Nodes : Has(Append(s, y), x) => x \in kept
        PROVE  Among(Append(s, y), kept) = Append(s, y)
    <3>1. y \in kept /\ \A x \in Nodes : Has(s, x) => x \in kept
      BY <2>1, <2>2
    <3>2. Among(s, kept) = s
      BY <1>2, <3>1
    <3> QED
      BY <3>1, <3>2, AmongAppend
  <2> QED
    BY <2>2, HasAppend
<1> HIDE DEF S
<1>3. \A s \in Seq(Nodes) : s \in S
  BY <1>1, <1>2, ListInduct
<1> QED
  BY <1>3 DEF S

(* Keeping nodes adds none.                                                *)
LEMMA AmongBounds ==
  ASSUME NEW kept
  PROVE  \A s \in Seq(Nodes) : /\ Total(Among(s, kept)) <= Total(s)
                               /\ Len(Among(s, kept)) <= Len(s)
<1> DEFINE S == {s \in Seq(Nodes) : /\ Total(Among(s, kept)) <= Total(s)
                                    /\ Len(Among(s, kept)) <= Len(s)}
<1>1. <<>> \in S
  BY EmptySeq, AmongEmpty, TotalEmpty
<1>2. ASSUME NEW s \in Seq(Nodes), NEW y \in Nodes, s \in S PROVE Append(s, y) \in S
  <2> DEFINE a == Among(s, kept)
  <2>1. a \in Seq(Nodes) /\ Append(s, y) \in Seq(Nodes) /\ y.count \in Nat
    BY AmongType, HasAppend DEF Nodes
  <2>2. Total(a) <= Total(s) /\ Len(a) <= Len(s)
    BY <1>2
  <2>3. Total(Append(s, y)) = Total(s) + y.count /\ Len(Append(s, y)) = Len(s) + 1
    BY TotalAppend, HasAppend
  <2>4. Total(s) \in Nat /\ Len(s) \in Nat /\ Total(a) \in Nat /\ Len(a) \in Nat
    BY <2>1, TotalType, LenProperties
  <2>5. Total(Append(a, y)) = Total(a) + y.count /\ Len(Append(a, y)) = Len(a) + 1
    BY <2>1, TotalAppend, HasAppend
  <2>6. Among(Append(s, y), kept) = IF y \in kept THEN Append(a, y) ELSE a
    BY AmongAppend
  <2> HIDE DEF a
  <2>7. /\ Total(Among(Append(s, y), kept)) <= Total(s) + y.count
        /\ Len(Among(Append(s, y), kept)) <= Len(s) + 1
    <3>1. CASE y \in kept
      <4>1. Among(Append(s, y), kept) = Append(a, y)
        BY <2>6, <3>1
      <4> QED
        BY <2>1, <2>2, <2>4, <2>5, <4>1
    <3>2. CASE y \notin kept
      <4>1. Among(Append(s, y), kept) = a
        BY <2>6, <3>2
      <4> QED
        BY <2>1, <2>2, <2>4, <4>1
    <3> QED
      BY <3>1, <3>2
  <2> QED
    BY <2>1, <2>3, <2>7
<1> HIDE DEF S
<1>3. \A s \in Seq(Nodes) : s \in S
  BY <1>1, <1>2, ListInduct
<1> QED
  BY <1>3 DEF S

(* A symbol has one node.                                                  *)
Distinct(s) == \A i, j \in 1 .. Len(s) : s[i].symbol = s[j].symbol => i = j

(* One more node, of another symbol.                                       *)
LEMMA DistinctAppend ==
  ASSUME NEW s \in Seq(Nodes), NEW y \in Nodes
  PROVE  Distinct(Append(s, y)) <=>
           Distinct(s) /\ \A x : Has(s, x) => x.symbol # y.symbol
<1> DEFINE t == Append(s, y)
<1>1. /\ t \in Seq(Nodes) /\ Len(t) = Len(s) + 1 /\ Len(s) \in Nat
      /\ t[Len(s) + 1] = y /\ \A i \in 1 .. Len(s) : t[i] = s[i]
  BY AppendProperties, LenProperties
<1> HIDE DEF t
<1>2. \A i \in 1 .. Len(t) : i \in 1 .. Len(s) \/ i = Len(s) + 1
  BY <1>1
<1>3. /\ Len(s) + 1 \in 1 .. Len(t)
      /\ \A i \in 1 .. Len(s) : i \in 1 .. Len(t) /\ i # Len(s) + 1
  BY <1>1
<1>4. ASSUME Distinct(t) PROVE Distinct(s)
  BY <1>1, <1>3, <1>4 DEF Distinct
<1>5. ASSUME Distinct(t), NEW x, Has(s, x) PROVE x.symbol # y.symbol
  BY <1>1, <1>3, <1>5 DEF Distinct, Has
<1>6. ASSUME Distinct(s), \A x : Has(s, x) => x.symbol # y.symbol PROVE Distinct(t)
  <2>1. \A i \in 1 .. Len(s) : s[i].symbol # y.symbol
    BY <1>6 DEF Has
  <2>2. ASSUME NEW i \in 1 .. Len(t), NEW j \in 1 .. Len(t), t[i].symbol = t[j].symbol
        PROVE  i = j
    <3>1. CASE i = Len(s) + 1 /\ j = Len(s) + 1
      BY <3>1
    <3>2. CASE i \in 1 .. Len(s) /\ j = Len(s) + 1
      BY <1>1, <2>1, <2>2, <3>2
    <3>3. CASE i = Len(s) + 1 /\ j \in 1 .. Len(s)
      BY <1>1, <2>1, <2>2, <3>3
    <3>4. CASE i \in 1 .. Len(s) /\ j \in 1 .. Len(s)
      BY <1>1, <1>6, <2>2, <3>4 DEF Distinct
    <3> QED
      BY <1>2, <3>1, <3>2, <3>3, <3>4
  <2> QED
    BY <2>2 DEF Distinct
<1> QED
  BY <1>4, <1>5, <1>6 DEF t

(* The nodes kept are of different symbols if all were.                    *)
LEMMA AmongDistinct ==
  ASSUME NEW kept
  PROVE  \A s \in Seq(Nodes) : Distinct(s) => Distinct(Among(s, kept))
<1> DEFINE S == {s \in Seq(Nodes) : Distinct(s) => Distinct(Among(s, kept))}
<1>1. <<>> \in S
  BY EmptySeq, AmongEmpty
<1>2. ASSUME NEW s \in Seq(Nodes), NEW y \in Nodes, s \in S PROVE Append(s, y) \in S
  <2>1. Among(s, kept) \in Seq(Nodes) /\ Append(s, y) \in Seq(Nodes)
    BY AmongType, HasAppend
  <2>2. ASSUME Distinct(Append(s, y)) PROVE Distinct(Among(Append(s, y), kept))
    <3>1. Distinct(s) /\ \A x : Has(s, x) => x.symbol # y.symbol
      BY <2>2, DistinctAppend
    <3>2. Distinct(Among(s, kept))
      BY <1>2, <3>1
    <3>3. \A x : Has(Among(s, kept), x) => x.symbol # y.symbol
      BY <3>1, AmongHas
    <3>4. Distinct(Append(Among(s, kept), y))
      BY <2>1, <3>2, <3>3, DistinctAppend
    <3>5. Among(Append(s, y), kept) = IF y \in kept THEN Append(Among(s, kept), y) ELSE Among(s, kept)
      BY AmongAppend
    <3>6. CASE y \in kept
      BY <3>4, <3>5, <3>6
    <3>7. CASE y \notin kept
      BY <3>2, <3>5, <3>7
    <3> QED
      BY <3>6, <3>7
  <2> QED
    BY <2>1, <2>2
<1> HIDE DEF S
<1>3. \A s \in Seq(Nodes) : s \in S
  BY <1>1, <1>2, ListInduct
<1> QED
  BY <1>3 DEF S

(* The largest count is a count, and no more than their total.             *)
LEMMA LargestBounds ==
  \A s \in Seq(Nodes) : /\ Largest(s) <= Total(s)
                        /\ Total(s) > 0 => Largest(s) > 0
                        /\ \A x : Has(s, x) => x.count <= Largest(s)
<1> DEFINE S == {s \in Seq(Nodes) :
                   /\ Largest(s) <= Total(s)
                   /\ Total(s) > 0 => Largest(s) > 0
                   /\ \A x \in Nodes : Has(s, x) => x.count <= Largest(s)}
<1>1. <<>> \in S
  <2>1. <<>> \in Seq(Nodes) /\ Len(<<>>) = 0 /\ 1 .. 0 = {}
    BY EmptySeq
  <2> QED
    BY <2>1, TotalEmpty DEF Has
<1>2. ASSUME NEW s \in Seq(Nodes), NEW y \in Nodes, s \in S PROVE Append(s, y) \in S
  <2> DEFINE t == Append(s, y)
  <2>1. t \in Seq(Nodes) /\ \A x : Has(t, x) <=> Has(s, x) \/ x = y
    BY HasAppend
  <2>2. Total(t) = Total(s) + y.count /\ Largest(t) = Max({Largest(s), y.count})
    BY TotalAppend, LargestAppend
  <2>3. Total(s) \in Nat /\ Largest(s) \in Nat /\ y.count \in Nat
    BY TotalType DEF Nodes
  <2>4. Max({Largest(s), y.count}) = IF Largest(s) >= y.count THEN Largest(s) ELSE y.count
    BY <2>3, MaxOfTwo
  <2>5. Largest(s) <= Total(s) /\ (Total(s) > 0 => Largest(s) > 0)
    BY <1>2
  <2>6. Largest(t) <= Total(t) /\ (Total(t) > 0 => Largest(t) > 0)
    BY <2>2, <2>3, <2>4, <2>5
  <2>7. Largest(s) <= Largest(t) /\ y.count <= Largest(t)
    BY <2>2, <2>3, <2>4
  <2> HIDE DEF t
  <2>8. ASSUME NEW x \in Nodes, Has(t, x) PROVE x.count <= Largest(t)
    <3>1. CASE x = y
      BY <2>7, <3>1
    <3>2. CASE Has(s, x)
      <4>1. x.count <= Largest(s) /\ x.count \in Nat
        BY <1>2, <3>2 DEF Nodes
      <4>2. Largest(t) \in Nat
        BY <2>1, TotalType
      <4> QED
        BY <2>3, <2>7, <4>1, <4>2
    <3> QED
      BY <2>1, <2>8, <3>1, <3>2
  <2>9. t \in S
    BY <2>1, <2>6, <2>8
  <2> QED
    BY <2>9 DEF t
<1>3. \A s \in Seq(Nodes) : s \in S
  <2> HIDE DEF S
  <2> QED
    BY <1>1, <1>2, ListInduct
<1>4. \A s \in Seq(Nodes) : \A x : Has(s, x) => x \in Nodes
  BY NodeAt DEF Has
<1> QED
  BY <1>3, <1>4

(* Two lists, one after the other.                                         *)
LEMMA Joined ==
  ASSUME NEW s \in Seq(Nodes)
  PROVE  \A t \in Seq(Nodes) :
           /\ s \o t \in Seq(Nodes)
           /\ Total(s \o t) = Total(s) + Total(t)
           /\ Largest(s \o t) = Max({Largest(s), Largest(t)})
           /\ \A x : Has(s \o t, x) <=> Has(s, x) \/ Has(t, x)
<1> DEFINE S == {t \in Seq(Nodes) :
           /\ s \o t \in Seq(Nodes)
           /\ Total(s \o t) = Total(s) + Total(t)
           /\ Largest(s \o t) = Max({Largest(s), Largest(t)})
           /\ \A x \in Nodes : Has(s \o t, x) <=> Has(s, x) \/ Has(t, x)}
<1>1. <<>> \in S
  <2>1. <<>> \in Seq(Nodes) /\ Len(<<>>) = 0 /\ 1 .. 0 = {}
    BY EmptySeq
  <2>2. s \o <<>> = s
    BY ConcatEmptySeq
  <2>3. Largest(s) \in Nat /\ Total(s) \in Nat /\ 0 \in Nat
    BY TotalType
  <2>4. Max({Largest(s), 0}) = Largest(s)
    BY <2>3, MaxOfTwo
  <2>5. \A x : ~Has(<<>>, x)
    BY <2>1 DEF Has
  <2>6. Largest(s \o <<>>) = Max({Largest(s), Largest(<<>>)})
    BY <2>2, <2>4, TotalEmpty
  <2>7. Total(s \o <<>>) = Total(s) + Total(<<>>)
    BY <2>2, <2>3, TotalEmpty
  <2> QED
    BY <2>1, <2>2, <2>5, <2>6, <2>7
<1>2. ASSUME NEW t \in Seq(Nodes), NEW y \in Nodes, t \in S PROVE Append(t, y) \in S
  <2> DEFINE u == s \o t
  <2>1. Append(t, y) \in Seq(Nodes) /\ u \in Seq(Nodes) /\ y.count \in Nat
    BY <1>2, HasAppend DEF Nodes
  <2>2. s \o Append(t, y) = Append(u, y)
    <3>1. Append(t, y) = t \o <<y>> /\ Append(u, y) = u \o <<y>>
      BY <2>1, AppendIsConcat
    <3>2. <<y>> \in Seq(Nodes)
      OBVIOUS
    <3> QED
      BY <3>1, <3>2, ConcatAssociative
  <2>3. /\ Total(Append(u, y)) = Total(u) + y.count
        /\ Largest(Append(u, y)) = Max({Largest(u), y.count})
        /\ Append(u, y) \in Seq(Nodes)
        /\ \A x : Has(Append(u, y), x) <=> Has(u, x) \/ x = y
    BY <2>1, TotalAppend, LargestAppend, HasAppend
  <2>4. /\ Total(Append(t, y)) = Total(t) + y.count
        /\ Largest(Append(t, y)) = Max({Largest(t), y.count})
        /\ \A x : Has(Append(t, y), x) <=> Has(t, x) \/ x = y
    BY TotalAppend, LargestAppend, HasAppend
  <2>5. /\ Total(u) = Total(s) + Total(t)
        /\ Largest(u) = Max({Largest(s), Largest(t)})
        /\ \A x \in Nodes : Has(u, x) <=> Has(s, x) \/ Has(t, x)
    BY <1>2
  <2> HIDE DEF u
  <2>6. /\ Total(s) \in Nat /\ Total(t) \in Nat
        /\ Largest(s) \in Nat /\ Largest(t) \in Nat
    BY TotalType
  <2>7. Max({Largest(u), y.count}) = Max({Largest(s), Largest(Append(t, y))})
    <3>1. Largest(u) = IF Largest(s) >= Largest(t) THEN Largest(s) ELSE Largest(t)
      BY <2>5, <2>6, MaxOfTwo
    <3>2. Largest(u) \in Nat
      BY <2>6, <3>1
    <3>3. Max({Largest(u), y.count}) = IF Largest(u) >= y.count THEN Largest(u) ELSE y.count
      BY <2>1, <3>2, MaxOfTwo
    <3>4. Largest(Append(t, y)) = IF Largest(t) >= y.count THEN Largest(t) ELSE y.count
      BY <2>1, <2>4, <2>6, MaxOfTwo
    <3>5. Largest(Append(t, y)) \in Nat
      BY <2>1, <2>6, <3>4
    <3>6. Max({Largest(s), Largest(Append(t, y))}) =
            IF Largest(s) >= Largest(Append(t, y)) THEN Largest(s) ELSE Largest(Append(t, y))
      BY <2>6, <3>5, MaxOfTwo
    <3> QED
      BY <2>1, <2>6, <3>1, <3>3, <3>4, <3>6
  <2>8. Total(s \o Append(t, y)) = Total(s) + Total(Append(t, y))
    BY <2>1, <2>2, <2>3, <2>4, <2>5, <2>6
  <2>9. \A x \in Nodes : Has(s \o Append(t, y), x) <=> Has(s, x) \/ Has(Append(t, y), x)
    BY <2>2, <2>3, <2>4, <2>5
  <2>10. Largest(s \o Append(t, y)) = Max({Largest(s), Largest(Append(t, y))})
    BY <2>2, <2>3, <2>7
  <2>11. s \o Append(t, y) \in Seq(Nodes)
    BY <2>2, <2>3
  <2> QED
    BY <2>1, <2>8, <2>9, <2>10, <2>11
<1>3. \A t \in Seq(Nodes) : t \in S
  <2> HIDE DEF S
  <2> QED
    BY <1>1, <1>2, ListInduct
<1>4. \A t \in Seq(Nodes) : \A x : Has(t, x) => x \in Nodes
  BY NodeAt DEF Has
<1> QED
  BY <1>3, <1>4

(* Longer beginnings have larger totals.                                   *)
LEMMA CutMonotone ==
  ASSUME NEW s \in Seq(Nodes), NEW m \in Nat
  PROVE  \A n \in 0 .. Len(s) : m <= n => Total(SubSeq(s, 1, m)) <= Total(SubSeq(s, 1, n))
<1> DEFINE T(n) == Total(SubSeq(s, 1, n))
           S == {n \in Nat : n <= Len(s) /\ m <= n => T(m) <= T(n)}
<1>1. Len(s) \in Nat
  BY NodeAt
<1>2. /\ \A n \in 0 .. Len(s) : T(n) \in Nat
      /\ \A n \in 1 .. Len(s) : T(n) = T(n - 1) + s[n].count
  BY TotalCut
<1>3. \A n \in 1 .. Len(s) : s[n].count \in Nat
  BY NodeAt
<1> HIDE DEF T
<1>4. 0 \in S
  <2>1. m <= 0 => m = 0
    OBVIOUS
  <2> QED
    BY <1>1, <1>2, <2>1
<1>5. ASSUME NEW n \in Nat, n \in S PROVE n + 1 \in S
  <2> SUFFICES ASSUME n + 1 <= Len(s), m <= n + 1 PROVE T(m) <= T(n + 1)
    OBVIOUS
  <2>0. n + 1 \in 0 .. Len(s) /\ T(n + 1) \in Nat
    BY <1>1, <1>2
  <2>1. CASE m = n + 1
    BY <2>0, <2>1
  <2>2. CASE m <= n
    <3>1. n + 1 \in 1 .. Len(s) /\ n \in 0 .. Len(s) /\ m \in 0 .. Len(s) /\ (n + 1) - 1 = n
      BY <1>1, <2>2
    <3>2. T(m) <= T(n)
      BY <1>5, <2>2, <3>1
    <3>3. T(n + 1) = T(n) + s[n + 1].count /\ s[n + 1].count \in Nat
      BY <1>2, <1>3, <3>1
    <3>4. T(n) \in Nat /\ T(m) \in Nat
      BY <1>2, <3>1
    <3> QED
      BY <3>2, <3>3, <3>4
  <2> QED
    BY <2>1, <2>2
<1>6. \A n \in Nat : n \in S
  <2> HIDE DEF S
  <2> QED
    BY <1>4, <1>5, Induct
<1>7. \A n \in 0 .. Len(s) : m <= n => T(m) <= T(n)
  BY <1>1, <1>6
<1> QED
  BY <1>7 DEF T

(* The least number of a set that has one.                                 *)
LEMMA MinIs ==
  ASSUME NEW S \in SUBSET Nat, NEW m \in S, \A y \in S : m <= y
  PROVE  Min(S) = m
<1>1. Min(S) = CHOOSE x \in S : \A y \in S : x <= y
  BY DEF Min
<1> DEFINE x == Min(S)
<1>2. x \in S /\ \A y \in S : x <= y
  BY <1>1
<1> HIDE DEF x
<1>3. x <= m /\ m <= x /\ x \in Nat /\ m \in Nat
  BY <1>2
<1>4. x = m
  BY <1>3
<1> QED
  BY <1>4 DEF x

(* The walk of context_Decode ends at the node whose part has the number.  *)
LEMMA WalkFinds ==
  ASSUME NEW s \in Seq(Nodes), NEW i \in 1 .. Len(s), NEW got \in Nat,
         Total(SubSeq(s, 1, i - 1)) <= got, got < Total(SubSeq(s, 1, i))
  PROVE  Min({j \in DOMAIN s : got < Total(SubSeq(s, 1, j))}) = i
<1> DEFINE T(n) == Total(SubSeq(s, 1, n))
           S == {j \in DOMAIN s : got < T(j)}
<1>1. Len(s) \in Nat /\ DOMAIN s = 1 .. Len(s)
  BY LenProperties
<1>2. \A n \in 0 .. Len(s) : T(n) \in Nat
  BY TotalCut
<1>3. ASSUME NEW j \in S, j < i PROVE FALSE
  <2>1. j \in Nat /\ i - 1 \in 0 .. Len(s) /\ j <= i - 1 /\ j \in 0 .. Len(s)
    BY <1>1, <1>3
  <2>2. T(j) <= T(i - 1)
    BY <2>1, CutMonotone
  <2>3. T(j) \in Nat /\ T(i - 1) \in Nat
    BY <1>2, <2>1
  <2>4. got < T(j) /\ T(i - 1) <= got
    OBVIOUS
  <2> HIDE DEF T
  <2> QED
    BY <2>2, <2>3, <2>4
<1>4. S \in SUBSET Nat /\ i \in S
  BY <1>1
<1>5. \A j \in S : i <= j
  BY <1>1, <1>3, <1>4
<1>6. Min(S) = i
  <2> HIDE DEF S
  <2> QED
    BY <1>4, <1>5, MinIs
<1> QED
  BY <1>6

(* Every number below the total is in a node's part.                       *)
LEMMA WalkReaches ==
  ASSUME NEW s \in Seq(Nodes), NEW got \in Nat, got < Total(s)
  PROVE  \E i \in 1 .. Len(s) : /\ Total(SubSeq(s, 1, i - 1)) <= got
                                /\ got < Total(SubSeq(s, 1, i))
<1> DEFINE T(n) == Total(SubSeq(s, 1, n))
           S == {n \in 0 .. Len(s) : got < T(n)}
<1>1. Len(s) \in Nat
  BY NodeAt
<1>2. T(0) = 0 /\ T(Len(s)) = Total(s) /\ \A n \in 0 .. Len(s) : T(n) \in Nat
  BY TotalCut
<1> HIDE DEF T
<1>3. S \in SUBSET Nat /\ Len(s) \in S
  BY <1>1, <1>2
<1>4. PICK i \in S : \A n \in S : i <= n
  <2> HIDE DEF S
  <2> QED
    BY <1>3, LeastMember
<1>5. i # 0
  BY <1>2, <1>4
<1>6. i \in 1 .. Len(s) /\ i - 1 \in 0 .. Len(s) /\ ~(i <= i - 1)
  BY <1>1, <1>4, <1>5
<1>7. ~(got < T(i - 1))
  BY <1>4, <1>6
<1>8. T(i - 1) <= got /\ got < T(i)
  BY <1>2, <1>4, <1>6, <1>7
<1> QED
  BY <1>6, <1>8 DEF T

(* The search for a symbol finds its node, if there is one.                *)
LEMMA IndexIs ==
  ASSUME NEW s \in Seq(Nodes), NEW symbol
  PROVE  LET i == IndexOf(s, symbol)
         IN  /\ i \in 0 .. Len(s)
             /\ i = 0 => \A n \in 1 .. Len(s) : s[n].symbol # symbol
             /\ i # 0 => s[i].symbol = symbol
<1> DEFINE I == {n \in 1 .. Len(s) : s[n].symbol = symbol}
<1>1. Len(s) \in Nat /\ I \in SUBSET Nat
  BY NodeAt
<1>2. IndexOf(s, symbol) = IF I # {} THEN Min(I) ELSE 0
  BY DEF IndexOf, SelectInSeq
<1>3. CASE I = {}
  BY <1>1, <1>2, <1>3
<1>4. CASE I # {}
  <2>1. PICK m \in I : \A n \in I : m <= n
    <3> HIDE DEF I
    <3> QED
      BY <1>1, <1>4, LeastMember
  <2>2. Min(I) = m
    <3> HIDE DEF I
    <3> QED
      BY <1>1, <2>1, MinIs
  <2>3. IndexOf(s, symbol) = m
    BY <1>2, <1>4, <2>2
  <2> QED
    BY <1>1, <2>1, <2>3
<1> QED
  BY <1>3, <1>4

(***************************************************************************)
(* What context_Update does to a list: a node put or moved to its front,   *)
(* and halving.                                                            *)
(***************************************************************************)

(* A list t is a node in front of a list.                                  *)
Fronted(t, m, s) ==
  /\ t \in Seq(Nodes) /\ Len(t) = Len(s) + 1
  /\ t[1] = m /\ \A j \in 1 .. Len(s) : t[j + 1] = s[j]
  /\ Total(t) = m.count + Total(s)
  /\ Largest(t) = Max({m.count, Largest(s)})
  /\ \A x : Has(t, x) <=> x = m \/ Has(s, x)

(* Putting a node in front does that.                                      *)
LEMMA PutInFront ==
  ASSUME NEW s \in Seq(Nodes), NEW m \in Nodes
  PROVE  Fronted(<<m>> \o s, m, s)
<1> DEFINE t == <<m>> \o s
<1> DEFINE one == <<m>>
<1>1. one = Append(<<>>, m) /\ <<>> \in Seq(Nodes) /\ Len(<<>>) = 0
  BY EmptySeq
<1>2. one \in Seq(Nodes) /\ Len(one) = 1 /\ one[1] = m
  OBVIOUS
<1>3. m.count \in Nat /\ Largest(s) \in Nat
  BY TotalType DEF Nodes
<1>4. Total(one) = m.count /\ Largest(one) = m.count
  <2>1. Total(one) = Total(<<>>) + m.count /\ Largest(one) = Max({Largest(<<>>), m.count})
    BY <1>1, TotalAppend, LargestAppend
  <2>2. Max({0, m.count}) = m.count
    BY <1>3, MaxOfTwo
  <2>3. Largest(one) = m.count
    BY <2>1, <2>2, TotalEmpty
  <2>4. 0 + m.count = m.count
    BY <1>3
  <2>5. Total(one) = m.count
    BY <2>1, <2>4, TotalEmpty
  <2> QED
    BY <2>3, <2>5
<1>5. \A x : Has(one, x) <=> x = m
  BY <1>2 DEF Has
<1>0. t = one \o s
  OBVIOUS
<1> HIDE DEF one, t
<1>6. /\ t \in Seq(Nodes)
      /\ Total(t) = m.count + Total(s)
      /\ Largest(t) = Max({m.count, Largest(s)})
      /\ \A x : Has(t, x) <=> x = m \/ Has(s, x)
  BY <1>0, <1>2, <1>4, <1>5, Joined
<1>7. /\ Len(t) = 1 + Len(s) /\ Len(s) \in Nat
      /\ \A j \in 1 .. 1 + Len(s) : t[j] = IF j <= 1 THEN one[j] ELSE s[j - 1]
  BY <1>0, <1>2, ConcatProperties, LenProperties
<1>8. t[1] = m
  BY <1>2, <1>7
<1>9. ASSUME NEW j \in 1 .. Len(s) PROVE t[j + 1] = s[j]
  <2>1. j + 1 \in 1 .. 1 + Len(s) /\ ~(j + 1 <= 1) /\ (j + 1) - 1 = j
    BY <1>7
  <2> QED
    BY <1>7, <2>1
<1>10. Len(t) = Len(s) + 1
  BY <1>7
<1>11. Fronted(t, m, s)
  BY <1>6, <1>8, <1>9, <1>10 DEF Fronted
<1> QED
  BY <1>11 DEF t

(* A node taken out of a list.                                             *)
LEMMA Without ==
  ASSUME NEW s \in Seq(Nodes), NEW i \in 1 .. Len(s)
  PROVE  /\ RemoveAt(s, i) \in Seq(Nodes) /\ Len(RemoveAt(s, i)) = Len(s) - 1
         /\ \A j \in 1 .. Len(s) - 1 : RemoveAt(s, i)[j] = s[IF j < i THEN j ELSE j + 1]
         /\ Total(s) = s[i].count + Total(RemoveAt(s, i))
         /\ Largest(s) = Max({s[i].count, Largest(RemoveAt(s, i))})
<1> DEFINE pre  == SubSeq(s, 1, i - 1)
           post == SubSeq(s, i + 1, Len(s))
           rest == SubSeq(s, i, Len(s))
<1>1. Len(s) \in Nat /\ i \in Nat /\ s[i] \in Nodes /\ s[i].count \in Nat
  BY NodeAt
<1>2. \A j \in 1 .. Len(s) : s[j] \in Nodes
  BY NodeAt
<1>3. /\ pre \in Seq(Nodes) /\ Len(pre) = i - 1
      /\ \A j \in 1 .. i - 1 : pre[j] = s[j]
  <2>1. \A j \in 1 .. i - 1 : s[j] \in Nodes
    BY <1>1, <1>2
  <2>2. /\ pre \in Seq(Nodes)
        /\ Len(pre) = IF 1 <= i - 1 THEN (i - 1) - 1 + 1 ELSE 0
        /\ \A j \in 1 .. (i - 1) - 1 + 1 : pre[j] = s[1 + j - 1]
    BY <1>1, <2>1, SubSeqProperties
  <2> HIDE DEF pre
  <2>3. Len(pre) = i - 1
    BY <1>1, <2>2
  <2>4. ASSUME NEW j \in 1 .. i - 1 PROVE pre[j] = s[j]
    <3>1. j \in 1 .. (i - 1) - 1 + 1 /\ 1 + j - 1 = j
      BY <1>1
    <3> QED
      BY <2>2, <3>1
  <2> QED
    BY <2>2, <2>3, <2>4
<1>4. /\ post \in Seq(Nodes) /\ Len(post) = Len(s) - i
      /\ \A j \in 1 .. Len(s) - i : post[j] = s[i + j]
  <2>1. \A j \in i + 1 .. Len(s) : s[j] \in Nodes
    BY <1>1, <1>2
  <2>2. /\ post \in Seq(Nodes)
        /\ Len(post) = IF i + 1 <= Len(s) THEN Len(s) - (i + 1) + 1 ELSE 0
        /\ \A j \in 1 .. Len(s) - (i + 1) + 1 : post[j] = s[(i + 1) + j - 1]
    BY <1>1, <2>1, SubSeqProperties
  <2> HIDE DEF post
  <2>3. Len(post) = Len(s) - i
    BY <1>1, <2>2
  <2>4. ASSUME NEW j \in 1 .. Len(s) - i PROVE post[j] = s[i + j]
    <3>1. j \in 1 .. Len(s) - (i + 1) + 1 /\ (i + 1) + j - 1 = i + j
      BY <1>1
    <3> QED
      BY <2>2, <3>1
  <2> QED
    BY <2>2, <2>3, <2>4
<1>5. rest = <<s[i]>> \o post
  <2>1. Len(s) \in i .. Len(s)
    BY <1>1
  <2> QED
    BY <2>1, SubSeqRecursiveFirst
<1>6. s = pre \o rest
  <2>1. 1 \in 1 .. Len(s) + 1 /\ i - 1 \in 1 - 1 .. Len(s) /\ Len(s) \in i - 1 .. Len(s)
    BY <1>1
  <2>2. SubSeq(s, 1, i - 1) \o SubSeq(s, (i - 1) + 1, Len(s)) = SubSeq(s, 1, Len(s))
    BY <2>1, ConcatAdjacentSubSeq
  <2>3. (i - 1) + 1 = i
    BY <1>1
  <2> QED
    BY <2>2, <2>3, SubSeqFull
<1>7. RemoveAt(s, i) = pre \o post
  BY DEF RemoveAt
<1> HIDE DEF pre, post, rest
<1>8. /\ rest \in Seq(Nodes)
      /\ Total(rest) = s[i].count + Total(post)
      /\ Largest(rest) = Max({s[i].count, Largest(post)})
  <2>1. Fronted(<<s[i]>> \o post, s[i], post)
    BY <1>1, <1>4, PutInFront
  <2>2. Fronted(rest, s[i], post)
    BY <1>5, <2>1
  <2> QED
    BY <2>2 DEF Fronted
<1>9. Total(s) = Total(pre) + Total(rest) /\ Largest(s) = Max({Largest(pre), Largest(rest)})
  BY <1>3, <1>6, <1>8, Joined
<1> DEFINE t == pre \o post
<1>10. /\ t \in Seq(Nodes) /\ Total(t) = Total(pre) + Total(post)
       /\ Largest(t) = Max({Largest(pre), Largest(post)})
  BY <1>3, <1>4, Joined
<1>11. /\ Len(t) = Len(pre) + Len(post)
       /\ \A j \in 1 .. Len(pre) + Len(post) :
            t[j] = IF j <= Len(pre) THEN pre[j] ELSE post[j - Len(pre)]
  BY <1>3, <1>4, ConcatProperties
<1> HIDE DEF t
<1>12. /\ Total(pre) \in Nat /\ Total(post) \in Nat
       /\ Largest(pre) \in Nat /\ Largest(post) \in Nat
  BY <1>3, <1>4, TotalType
<1>13. Total(s) = s[i].count + Total(t)
  BY <1>1, <1>8, <1>9, <1>10, <1>12
<1>14. Largest(s) = Max({s[i].count, Largest(t)})
  <2>1. Largest(rest) = IF s[i].count >= Largest(post) THEN s[i].count ELSE Largest(post)
    BY <1>1, <1>8, <1>12, MaxOfTwo
  <2>2. Largest(rest) \in Nat
    BY <1>1, <1>12, <2>1
  <2>3. Largest(s) = IF Largest(pre) >= Largest(rest) THEN Largest(pre) ELSE Largest(rest)
    BY <1>9, <1>12, <2>2, MaxOfTwo
  <2>4. Largest(t) = IF Largest(pre) >= Largest(post) THEN Largest(pre) ELSE Largest(post)
    BY <1>10, <1>12, MaxOfTwo
  <2>5. Largest(t) \in Nat
    BY <1>12, <2>4
  <2>6. Max({s[i].count, Largest(t)}) =
          IF s[i].count >= Largest(t) THEN s[i].count ELSE Largest(t)
    BY <1>1, <2>5, MaxOfTwo
  <2> QED
    BY <1>1, <1>12, <2>1, <2>3, <2>4, <2>6
<1>15. Len(t) = Len(s) - 1
  BY <1>1, <1>3, <1>4, <1>11
<1>16. ASSUME NEW j \in 1 .. Len(s) - 1 PROVE t[j] = s[IF j < i THEN j ELSE j + 1]
  <2>0. j \in 1 .. Len(pre) + Len(post) /\ j \in Nat
    BY <1>1, <1>3, <1>4
  <2>1. CASE j < i
    <3>1. j \in 1 .. i - 1 /\ j <= Len(pre)
      BY <1>1, <1>3, <2>0, <2>1
    <3> QED
      BY <1>3, <1>11, <2>0, <2>1, <3>1
  <2>2. CASE ~(j < i)
    <3>1. ~(j <= Len(pre)) /\ j - Len(pre) \in 1 .. Len(s) - i /\ i + (j - Len(pre)) = j + 1
      BY <1>1, <1>3, <2>0, <2>2
    <3>2. t[j] = post[j - Len(pre)]
      BY <1>11, <2>0, <3>1
    <3> QED
      BY <1>4, <2>2, <3>1, <3>2
  <2> QED
    BY <2>1, <2>2
<1>17. RemoveAt(s, i) = t
  BY <1>7 DEF t
<1> QED
  BY <1>10, <1>13, <1>14, <1>15, <1>16, <1>17

(* A list t has the node m in front, instead of the i-th.                  *)
FrontedFrom(t, m, s, i) ==
  /\ t \in Seq(Nodes) /\ Len(t) = Len(s)
  /\ Total(t) = Total(s) + (m.count - s[i].count)
  /\ Largest(t) = Max({Largest(s), m.count})
  /\ Distinct(s) => Distinct(t)
  /\ \A x : Has(t, x) => x = m \/ Has(s, x)
  /\ \A x : Has(s, x) => x = s[i] \/ Has(t, x)
  /\ Has(t, m)

(* context_Update moves a node to the front and counts it.                 *)
LEMMA Moved ==
  ASSUME NEW s \in Seq(Nodes), NEW i \in 1 .. Len(s), NEW m \in Nodes,
         m.symbol = s[i].symbol, m.count >= s[i].count,
         NEW t, t = <<m>> \o RemoveAt(s, i)
  PROVE  FrontedFrom(t, m, s, i)
<1> DEFINE r == RemoveAt(s, i)
           f == [j \in 1 .. Len(s) |-> IF j = 1 THEN i ELSE IF j - 1 < i THEN j - 1 ELSE j]
<1>1. Len(s) \in Nat /\ s[i].count \in Nat /\ m.count \in Nat /\ i \in Nat
  <2>1. m.count \in Nat
    BY DEF Nodes
  <2> QED
    BY <2>1, NodeAt
<1>2. /\ r \in Seq(Nodes) /\ Len(r) = Len(s) - 1
      /\ \A j \in 1 .. Len(s) - 1 : r[j] = s[IF j < i THEN j ELSE j + 1]
      /\ Total(s) = s[i].count + Total(r)
      /\ Largest(s) = Max({s[i].count, Largest(r)})
  BY Without
<1>0. t = <<m>> \o r
  OBVIOUS
<1> HIDE DEF r
<1>3. /\ t \in Seq(Nodes) /\ Len(t) = Len(r) + 1
      /\ t[1] = m /\ \A j \in 1 .. Len(r) : t[j + 1] = r[j]
      /\ Total(t) = m.count + Total(r)
      /\ Largest(t) = Max({m.count, Largest(r)})
      /\ \A x : Has(t, x) <=> x = m \/ Has(r, x)
  <2>1. Fronted(<<m>> \o r, m, r)
    BY <1>2, PutInFront
  <2>2. Fronted(t, m, r)
    BY <1>0, <2>1
  <2> QED
    BY <2>2 DEF Fronted
<1>4. Total(r) \in Nat /\ Largest(r) \in Nat /\ Largest(s) \in Nat
  BY <1>2, TotalType
<1>5. Len(t) = Len(s) /\ Total(t) = Total(s) + (m.count - s[i].count)
  <2>1. Len(t) = Len(r) + 1 /\ Total(t) = m.count + Total(r)
    BY <1>3
  <2>2. Len(r) = Len(s) - 1 /\ Total(s) = s[i].count + Total(r)
    BY <1>2
  <2>3. Total(s) \in Nat
    BY TotalType
  <2> QED
    BY <1>1, <1>4, <2>1, <2>2, <2>3
<1>6. Largest(t) = Max({Largest(s), m.count})
  <2>1. Largest(t) = IF m.count >= Largest(r) THEN m.count ELSE Largest(r)
    BY <1>1, <1>3, <1>4, MaxOfTwo
  <2>2. Largest(s) = IF s[i].count >= Largest(r) THEN s[i].count ELSE Largest(r)
    BY <1>1, <1>2, <1>4, MaxOfTwo
  <2>3. Max({Largest(s), m.count}) = IF Largest(s) >= m.count THEN Largest(s) ELSE m.count
    BY <1>1, <1>4, MaxOfTwo
  <2> QED
    BY <1>1, <1>4, <2>1, <2>2, <2>3
<1>7. ASSUME NEW j \in 1 .. Len(s), j # 1
      PROVE  f[j] \in 1 .. Len(s) /\ f[j] # i /\ t[j] = s[f[j]]
  <2>1. j - 1 \in 1 .. Len(s) - 1 /\ j - 1 \in 1 .. Len(r) /\ (j - 1) + 1 = j
    BY <1>1, <1>2, <1>7
  <2>2. t[j] = r[j - 1]
    BY <1>3, <2>1
  <2>3. r[j - 1] = s[IF j - 1 < i THEN j - 1 ELSE (j - 1) + 1]
    BY <1>2, <2>1
  <2>4. f[j] = IF j - 1 < i THEN j - 1 ELSE (j - 1) + 1
    BY <1>7, <2>1
  <2>5. t[j] = s[f[j]]
    BY <2>2, <2>3, <2>4
  <2>6. f[j] \in 1 .. Len(s) /\ f[j] # i
    <3> HIDE DEF f
    <3> QED
      BY <1>1, <2>1, <2>4
  <2> QED
    BY <2>5, <2>6
<1>8. f[1] = i /\ 1 \in 1 .. Len(s)
  BY <1>1
<1>9. \A j, k \in 1 .. Len(s) : f[j] = f[k] => j = k
  BY <1>1
<1>10. \A j \in 1 .. Len(s) : j = f[1] \/ \E k \in 1 .. Len(s) : k # 1 /\ j = f[k]
  <2> SUFFICES ASSUME NEW j \in 1 .. Len(s), j # i
               PROVE  \E k \in 1 .. Len(s) : k # 1 /\ j = f[k]
    BY <1>8
  <2>1. CASE j < i
    <3>1. j + 1 \in 1 .. Len(s) /\ j + 1 # 1 /\ f[j + 1] = j
      BY <1>1, <2>1
    <3> QED
      BY <3>1
  <2>2. CASE j > i
    <3>1. j # 1 /\ f[j] = j
      BY <1>1, <2>2
    <3> QED
      BY <3>1
  <2> QED
    BY <1>1, <2>1, <2>2
<1> HIDE DEF f
<1>11. \A j \in 1 .. Len(s) : f[j] \in 1 .. Len(s) /\ t[j].symbol = s[f[j]].symbol
  BY <1>3, <1>7, <1>8
<1>12. Distinct(s) => Distinct(t)
  <2> SUFFICES ASSUME Distinct(s), NEW j \in 1 .. Len(s), NEW k \in 1 .. Len(s),
                      t[j].symbol = t[k].symbol
               PROVE  j = k
    BY <1>5 DEF Distinct
  <2>1. /\ f[j] \in 1 .. Len(s) /\ f[k] \in 1 .. Len(s)
        /\ s[f[j]].symbol = s[f[k]].symbol
    BY <1>11
  <2>2. f[j] = f[k]
    BY <2>1 DEF Distinct
  <2> QED
    BY <1>9, <2>2
<1>13. ASSUME NEW x, Has(t, x) PROVE x = m \/ Has(s, x)
  <2>1. PICK j \in 1 .. Len(s) : t[j] = x
    BY <1>5, <1>13 DEF Has
  <2> QED
    BY <1>3, <1>7, <2>1 DEF Has
<1>14. ASSUME NEW x, Has(s, x) PROVE x = s[i] \/ Has(t, x)
  <2>1. PICK j \in 1 .. Len(s) : s[j] = x
    BY <1>14 DEF Has
  <2>2. CASE j = f[1]
    BY <1>8, <2>1, <2>2
  <2>3. CASE \E k \in 1 .. Len(s) : k # 1 /\ j = f[k]
    BY <1>5, <1>7, <2>1, <2>3 DEF Has
  <2> QED
    BY <1>10, <2>2, <2>3
<1>15. Has(t, m)
  BY <1>3
<1> QED
  BY <1>3, <1>5, <1>6, <1>12, <1>13, <1>14, <1>15 DEF FrontedFrom

(* What halving makes of a node.                                           *)
Lifted(n) == [n EXCEPT !.count = Max({@ \div 2, IncNovel + 1})]
LiftAll(s) == [i \in DOMAIN s |-> Lifted(s[i])]
Remains == {n \in Nodes : n.count \div 2 > 0}

(* The node that is halved, in numbers.                                    *)
LEMMA LiftedIs ==
  ASSUME NEW x \in Nodes
  PROVE  /\ Lifted(x) \in Nodes /\ Lifted(x).symbol = x.symbol
         /\ Lifted(x).count = IF x.count \div 2 >= IncNovel + 1
                              THEN x.count \div 2 ELSE IncNovel + 1
<1>1. /\ x.count \in Nat /\ x.symbol \in Symbols
      /\ x = [symbol |-> x.symbol, count |-> x.count]
  BY DEF Nodes
<1>2. x.count \div 2 \in Nat /\ IncNovel + 1 \in Nat
  BY <1>1, Constants
<1> DEFINE m == Max({x.count \div 2, IncNovel + 1})
<1>3. m \in Nat /\ m = IF x.count \div 2 >= IncNovel + 1 THEN x.count \div 2 ELSE IncNovel + 1
  BY <1>2, MaxOfTwo
<1>4. Lifted(x) = [x EXCEPT !.count = m]
  BY DEF Lifted
<1> HIDE DEF m
<1>5. Lifted(x) = [symbol |-> x.symbol, count |-> m]
  BY <1>1, <1>4
<1>6. Lifted(x) \in Nodes /\ Lifted(x).symbol = x.symbol /\ Lifted(x).count = m
  BY <1>1, <1>3, <1>5 DEF Nodes
<1> QED
  BY <1>3, <1>6

(* The list of them.                                                       *)
LEMMA LiftAllIs ==
  ASSUME NEW s \in Seq(Nodes)
  PROVE  /\ LiftAll(s) \in Seq(Nodes) /\ Len(LiftAll(s)) = Len(s)
         /\ \A i \in 1 .. Len(s) : LiftAll(s)[i] = Lifted(s[i])
<1>1. Len(s) \in Nat /\ DOMAIN s = 1 .. Len(s) /\ \A i \in 1 .. Len(s) : Lifted(s[i]) \in Nodes
  BY NodeAt, LenProperties, LiftedIs
<1>2. LiftAll(s) = [i \in 1 .. Len(s) |-> Lifted(s[i])]
  BY <1>1 DEF LiftAll
<1>3. LiftAll(s) \in [1 .. Len(s) -> Nodes]
  BY <1>1, <1>2
<1>4. LiftAll(s) \in Seq(Nodes)
  BY <1>1, <1>3
<1>5. Len(LiftAll(s)) = Len(s)
  <2>1. DOMAIN LiftAll(s) = 1 .. Len(s)
    BY <1>2
  <2>2. DOMAIN LiftAll(s) = 1 .. Len(LiftAll(s)) /\ Len(LiftAll(s)) \in Nat
    BY <1>4, LenProperties
  <2> DEFINE n == Len(LiftAll(s))
  <2> HIDE DEF n
  <2>3. \A k \in Nat : \A l \in Nat : 1 .. k = 1 .. l => k = l
    OBVIOUS
  <2> QED
    BY <1>1, <2>1, <2>2, <2>3
<1> QED
  BY <1>2, <1>4, <1>5

(* One more node is one more halved.                                       *)
LEMMA LiftAllAppend ==
  ASSUME NEW s \in Seq(Nodes), NEW x \in Nodes
  PROVE  LiftAll(Append(s, x)) = Append(LiftAll(s), Lifted(x))
<1> DEFINE t == Append(s, x)
           a == LiftAll(t)
           b == Append(LiftAll(s), Lifted(x))
<1>1. /\ t \in Seq(Nodes) /\ Len(t) = Len(s) + 1 /\ Len(s) \in Nat
      /\ t[Len(s) + 1] = x /\ \A i \in 1 .. Len(s) : t[i] = s[i]
  BY AppendProperties, LenProperties
<1> HIDE DEF t
<1>2. a \in Seq(Nodes) /\ Len(a) = Len(t) /\ \A i \in 1 .. Len(t) : a[i] = Lifted(t[i])
  BY <1>1, LiftAllIs
<1>3. /\ LiftAll(s) \in Seq(Nodes) /\ Len(LiftAll(s)) = Len(s)
      /\ \A i \in 1 .. Len(s) : LiftAll(s)[i] = Lifted(s[i])
  BY LiftAllIs
<1>4. /\ b \in Seq(Nodes) /\ Len(b) = Len(s) + 1 /\ b[Len(s) + 1] = Lifted(x)
      /\ \A i \in 1 .. Len(s) : b[i] = LiftAll(s)[i]
  <2>1. Lifted(x) \in Nodes
    BY LiftedIs
  <2> HIDE DEF a
  <2> DEFINE l == LiftAll(s)
  <2>2. l \in Seq(Nodes) /\ Len(l) = Len(s)
    BY <1>3
  <2> HIDE DEF l
  <2>3. /\ Append(l, Lifted(x)) \in Seq(Nodes) /\ Len(Append(l, Lifted(x))) = Len(s) + 1
        /\ Append(l, Lifted(x))[Len(s) + 1] = Lifted(x)
        /\ \A i \in 1 .. Len(s) : Append(l, Lifted(x))[i] = l[i]
    BY <2>1, <2>2, AppendProperties
  <2> QED
    BY <2>3 DEF l
<1> HIDE DEF a, b
<1>5. ASSUME NEW i \in 1 .. Len(a) PROVE a[i] = b[i]
  <2>1. CASE i = Len(s) + 1
    BY <1>1, <1>2, <1>4, <2>1
  <2>2. CASE i \in 1 .. Len(s)
    BY <1>1, <1>2, <1>3, <1>4, <2>2
  <2> QED
    BY <1>1, <1>2, <2>1, <2>2
<1>6. a = b
  BY <1>1, <1>2, <1>4, <1>5, SeqEqual
<1> QED
  BY <1>6 DEF a, b, t

(* The nodes that halving leaves, and how much of their counts.            *)
Halves(s) == LiftAll(Among(s, Remains))

(* Halving about halves the total: every count of a node kept is halved,   *)
(* or lifted to at most IncNovel + 1.                                      *)
LEMMA HalvesBounds ==
  \A s \in Seq(Nodes) :
    /\ Halves(s) \in Seq(Nodes)
    /\ 2 * Total(Halves(s)) <= Total(s) + 2 * (IncNovel * Len(s))
    /\ Total(s) <= 2 * Total(Halves(s)) + Len(s)
<1> DEFINE S == {s \in Seq(Nodes) :
                   /\ 2 * Total(Halves(s)) <= Total(s) + 2 * (IncNovel * Len(s))
                   /\ Total(s) <= 2 * Total(Halves(s)) + Len(s)}
<1>0. \A s \in Seq(Nodes) : Halves(s) \in Seq(Nodes)
  BY AmongType, LiftAllIs DEF Halves
<1>1. <<>> \in S
  <2>1. <<>> \in Seq(Nodes) /\ Len(<<>>) = 0
    BY EmptySeq
  <2>2. LiftAll(<<>>) = <<>>
    BY <2>1, LiftAllIs, EmptySeq
  <2>3. Total(Halves(<<>>)) = 0
    BY <2>2, AmongEmpty, TotalEmpty DEF Halves
  <2>4. IncNovel * Len(<<>>) = 0
    BY <2>1, Constants
  <2> QED
    BY <2>1, <2>3, <2>4, TotalEmpty
<1>2. ASSUME NEW s \in Seq(Nodes), NEW y \in Nodes, s \in S PROVE Append(s, y) \in S
  <2> DEFINE t  == Append(s, y)
             T  == Total(s)
             H  == Total(Halves(s))
             l  == Lifted(y).count
             N  == Len(s)
             P  == IncNovel * N
             T1 == Total(t)
             H1 == Total(Halves(t))
             P1 == IncNovel * Len(t)
  <2>1. t \in Seq(Nodes) /\ Len(t) = N + 1 /\ N \in Nat
    BY HasAppend
  <2>2. T1 = T + y.count
    BY TotalAppend
  <2>3. /\ T \in Nat /\ H \in Nat /\ y.count \in Nat
        /\ Halves(s) \in Seq(Nodes) /\ Lifted(y) \in Nodes
    BY <1>0, TotalType, LiftedIs DEF Nodes
  <2>4. H1 = IF y \in Remains THEN H + l ELSE H
    <3>1. Among(s, Remains) \in Seq(Nodes)
      BY AmongType
    <3>2. CASE y \in Remains
      <4>1. Among(t, Remains) = Append(Among(s, Remains), y)
        BY <3>2, AmongAppend
      <4>2. Halves(t) = Append(Halves(s), Lifted(y))
        BY <3>1, <4>1, LiftAllAppend DEF Halves
      <4>3. Total(Append(Halves(s), Lifted(y))) = H + l
        BY <2>3, TotalAppend
      <4> QED
        BY <3>2, <4>2, <4>3
    <3>3. CASE y \notin Remains
      <4>1. Among(t, Remains) = Among(s, Remains)
        BY <3>3, AmongAppend
      <4> QED
        BY <3>3, <4>1 DEF Halves
    <3> QED
      BY <3>2, <3>3
  <2>5. P1 = P + IncNovel /\ P \in Nat
    <3>1. IncNovel * (N + 1) = IncNovel * N + IncNovel /\ IncNovel * N \in Nat
      BY <2>1, Constants
    <3> QED
      BY <2>1, <3>1
  <2>6. l = IF y.count \div 2 >= IncNovel + 1 THEN y.count \div 2 ELSE IncNovel + 1
    BY LiftedIs
  <2>7. y \in Remains <=> y.count \div 2 > 0
    BY DEF Remains
  <2>8. 2 * H <= T + 2 * P /\ T <= 2 * H + N
    BY <1>2
  <2> DEFINE c == y.count
             h == c \div 2
  <2>9. h \in Nat /\ c \in Nat /\ c \in 2 * h .. 2 * h + 1
    BY <2>3
  <2>10. 2 * H1 <= T1 + 2 * P1 /\ T1 <= 2 * H1 + Len(t)
    <3>1. T1 = T + c /\ H1 = (IF h > 0 THEN H + l ELSE H)
          /\ l = IF h >= IncNovel + 1 THEN h ELSE IncNovel + 1
      BY <2>2, <2>4, <2>6, <2>7
    <3> HIDE DEF T, H, l, N, P, T1, H1, P1, c, h, t
    <3> QED
      BY <2>1, <2>3, <2>5, <2>8, <2>9, <3>1, Constants
  <2> QED
    BY <2>1, <2>10
<1> HIDE DEF S
<1>3. \A s \in Seq(Nodes) : s \in S
  BY <1>1, <1>2, ListInduct
<1> QED
  BY <1>0, <1>3 DEF S

(***************************************************************************)
(* A context whose statistics are those of its followset.                  *)
(***************************************************************************)

(* The nodes after halving come from those before.                         *)
LEMMA HalvesHas ==
  ASSUME NEW s \in Seq(Nodes)
  PROVE  /\ Len(Halves(s)) <= Len(s)
         /\ \A x : Has(Halves(s), x) => \E y \in Nodes : Has(s, y) /\ x = Lifted(y)
         /\ \A y \in Remains : Has(s, y) => Has(Halves(s), Lifted(y))
         /\ Distinct(s) => Distinct(Halves(s))
<1> DEFINE k == Among(s, Remains)
           h == LiftAll(k)
<1>1. /\ k \in Seq(Nodes) /\ Len(k) <= Len(s) /\ (Distinct(s) => Distinct(k))
      /\ \A x : Has(k, x) <=> Has(s, x) /\ x \in Remains
  BY AmongType, AmongBounds, AmongDistinct, AmongHas
<1> HIDE DEF k
<1>2. Len(h) = Len(k) /\ Len(k) \in Nat /\ \A i \in 1 .. Len(k) : h[i] = Lifted(k[i]) /\ k[i] \in Nodes
  BY <1>1, LiftAllIs, NodeAt
<1> HIDE DEF h
<1>3. ASSUME NEW x, Has(h, x) PROVE \E y \in Nodes : Has(s, y) /\ x = Lifted(y)
  <2>1. PICK i \in 1 .. Len(k) : x = Lifted(k[i])
    BY <1>2, <1>3 DEF Has
  <2>2. Has(k, k[i])
    BY DEF Has
  <2> QED
    BY <1>1, <1>2, <2>1, <2>2
<1>4. ASSUME NEW y \in Remains, Has(s, y) PROVE Has(h, Lifted(y))
  <2>1. Has(k, y)
    BY <1>1, <1>4
  <2> QED
    BY <1>2, <2>1 DEF Has
<1>5. ASSUME Distinct(s) PROVE Distinct(h)
  <2>1. \A i \in 1 .. Len(k) : h[i].symbol = k[i].symbol
    BY <1>2, LiftedIs
  <2> QED
    BY <1>1, <1>2, <1>5, <2>1 DEF Distinct
<1>6. Halves(s) = h
  BY DEF Halves, h, k
<1> QED
  BY <1>1, <1>2, <1>3, <1>4, <1>5, <1>6

(* Distinct symbols fill no more than the alphabet.                        *)
LEMMA DistinctLength ==
  ASSUME NEW s \in Seq(Nodes), Distinct(s)
  PROVE  Len(s) <= SymbolCount
<1> DEFINE f == [i \in 1 .. Len(s) |-> s[i].symbol]
<1>1. Len(s) \in Nat /\ \A i \in 1 .. Len(s) : s[i].symbol \in Symbols
  BY NodeAt
<1>2. f \in Injection(1 .. Len(s), Symbols)
  BY <1>1 DEF Distinct, Injection, IsInjective
<1>3. IsFiniteSet(Symbols) /\ Cardinality(Symbols) = SymbolCount
  <2>1. /\ IsFiniteSet(0 .. SymbolCount - 1)
        /\ Cardinality(0 .. SymbolCount - 1) =
             IF 0 > SymbolCount - 1 THEN 0 ELSE (SymbolCount - 1) - 0 + 1
    BY Constants, FS_Interval
  <2> QED
    BY <2>1, Constants DEF Symbols
<1>4. Cardinality(1 .. Len(s)) <= Cardinality(Symbols)
  BY <1>2, <1>3, FS_Injection
<1>5. Cardinality(1 .. Len(s)) = IF 1 > Len(s) THEN 0 ELSE Len(s) - 1 + 1
  BY <1>1, FS_Interval
<1> QED
  BY <1>1, <1>3, <1>4, <1>5, Constants

(* The statistics are those of the nodes.                                  *)
Counts == [followset : Seq(Nodes), followset_size : Nat, total_symbol_count : Nat,
           max_count : Nat, escape_count : Nat]

Exact(c) ==
  /\ c \in Counts
  /\ Distinct(c.followset)
  /\ \A x : Has(c.followset, x) => x.count >= 1
  /\ c.followset_size = Len(c.followset)
  /\ c.total_symbol_count = Total(c.followset)
  /\ c.max_count = Largest(c.followset)

MostCounts == HalveThreshold + 4 * Inc

(* The escape count keeps its place beside them.                           *)
Sound(c) ==
  /\ Exact(c)
  /\ c.total_symbol_count <= MostCounts
  /\ c.escape_count < EscapeMax + EscpInc
  /\ c.escape_count <= c.total_symbol_count
  /\ c # NoCounts => c.followset_size >= 1 /\ c.escape_count >= 1

(* A record of statistics by its fields.                                   *)
LEMMA CountsIs ==
  ASSUME NEW c \in Counts
  PROVE  /\ c = [followset |-> c.followset, followset_size |-> c.followset_size,
                 total_symbol_count |-> c.total_symbol_count,
                 max_count |-> c.max_count, escape_count |-> c.escape_count]
         /\ c.followset \in Seq(Nodes) /\ c.followset_size \in Nat
         /\ c.total_symbol_count \in Nat /\ c.max_count \in Nat /\ c.escape_count \in Nat
  BY DEF Counts

(* A new context is sound.                                                 *)
LEMMA NoCountsSound == Sound(NoCounts)
<1>1. <<>> \in Seq(Nodes) /\ Len(<<>>) = 0 /\ 1 .. 0 = {}
  BY EmptySeq
<1>2. NoCounts \in Counts
  BY <1>1 DEF NoCounts, Counts
<1>3. NoCounts.followset = <<>> /\ NoCounts.followset_size = 0
      /\ NoCounts.total_symbol_count = 0 /\ NoCounts.max_count = 0
      /\ NoCounts.escape_count = 0
  BY DEF NoCounts
<1>4. Exact(NoCounts)
  BY <1>1, <1>2, <1>3, TotalEmpty DEF Exact, Distinct, Has
<1>5. MostCounts \in Nat /\ 0 < EscapeMax + EscpInc /\ 0 <= MostCounts
  BY FollowsetAssumption DEF MostCounts
<1> DEFINE c == NoCounts
<1>6. /\ c.total_symbol_count <= MostCounts
      /\ c.escape_count < EscapeMax + EscpInc
      /\ c.escape_count <= c.total_symbol_count
  BY <1>3, <1>5
<1>7. c = NoCounts
  OBVIOUS
<1> HIDE DEF c
<1>8. Exact(c)
  BY <1>4 DEF c
<1>9. Sound(c)
  BY <1>6, <1>7, <1>8 DEF Sound
<1> QED
  BY <1>9 DEF c

(* A context that has counted something has nodes.                         *)
LEMMA SoundNodes ==
  ASSUME NEW c, Sound(c)
  PROVE  /\ c.followset \in Seq(Nodes) /\ c \in Counts
         /\ Len(c.followset) <= SymbolCount
         /\ c = NoCounts => c.total_symbol_count = 0 /\ c.followset = <<>>
         /\ c # NoCounts => c.total_symbol_count >= 1 /\ c.max_count >= 1
<1>1. c \in Counts /\ c.followset \in Seq(Nodes)
  BY CountsIs DEF Sound, Exact
<1>2. Len(c.followset) <= SymbolCount
  BY <1>1, DistinctLength DEF Sound, Exact
<1>3. ASSUME c # NoCounts PROVE c.total_symbol_count >= 1 /\ c.max_count >= 1
  <2>1. c.escape_count >= 1 /\ c.escape_count <= c.total_symbol_count
    BY <1>3 DEF Sound
  <2>2. c.total_symbol_count >= 1
    BY <1>1, <2>1, CountsIs
  <2>3. Total(c.followset) > 0 => Largest(c.followset) > 0
    BY <1>1, LargestBounds
  <2> QED
    BY <1>1, <2>2, <2>3, CountsIs DEF Sound, Exact
<1>4. c = NoCounts => c.total_symbol_count = 0 /\ c.followset = <<>>
  BY DEF NoCounts
<1> QED
  BY <1>1, <1>2, <1>3, <1>4

Halved(c) ==
  [followset |-> Halves(c.followset), followset_size |-> Len(Halves(c.followset)),
   total_symbol_count |-> Total(Halves(c.followset)),
   max_count |-> Largest(Halves(c.followset)),
   escape_count |-> (c.escape_count \div 2) + 1]

(* maybe_halve_counts, in these terms.                                     *)
LEMMA MaybeHalveIs ==
  ASSUME NEW c \in Counts
  PROVE  MaybeHalve(c) = IF c.total_symbol_count < HalveThreshold THEN c ELSE Halved(c)
<1> SUFFICES ASSUME ~(c.total_symbol_count < HalveThreshold)
             PROVE  MaybeHalve(c) = Halved(c)
  BY DEF MaybeHalve
<1> DEFINE s == c.followset
           h == Halves(s)
<1>1. [i \in DOMAIN Among(s, {n \in Nodes : n.count \div 2 > 0}) |->
         [Among(s, {n \in Nodes : n.count \div 2 > 0})[i] EXCEPT
            !.count = Max({@ \div 2, IncNovel + 1})]] = h
  BY DEF Halves, LiftAll, Lifted, Remains
<1>2. MaybeHalve(c) = [c EXCEPT !.followset = h, !.followset_size = Len(h),
                                !.total_symbol_count = Total(h),
                                !.max_count = Largest(h),
                                !.escape_count = (@ \div 2) + 1]
  BY <1>1 DEF MaybeHalve
<1> HIDE DEF h
<1>3. MaybeHalve(c) = [followset |-> h, followset_size |-> Len(h),
                       total_symbol_count |-> Total(h), max_count |-> Largest(h),
                       escape_count |-> (c.escape_count \div 2) + 1]
  BY <1>2 DEF Counts
<1> QED
  BY <1>3 DEF h, Halved

(* It keeps a context sound, and leaves room for the update that follows.  *)
LEMMA HalvedSound ==
  ASSUME NEW c, Sound(c)
  PROVE  /\ Sound(MaybeHalve(c))
         /\ MaybeHalve(c).total_symbol_count <= HalveThreshold + 2 * Inc
<1>1. c \in Counts /\ c.followset \in Seq(Nodes) /\ Len(c.followset) <= SymbolCount
  BY SoundNodes
<1>2. CASE c.total_symbol_count < HalveThreshold
  <2>1. MaybeHalve(c) = c
    BY <1>1, <1>2, MaybeHalveIs
  <2>2. c.total_symbol_count \in Nat
    BY <1>1, CountsIs
  <2>3. c.total_symbol_count <= HalveThreshold + 2 * Inc
    BY <1>2, <2>2, FollowsetAssumption
  <2> QED
    BY <2>1, <2>3
<1>3. CASE ~(c.total_symbol_count < HalveThreshold)
  <2> DEFINE s == c.followset
             h == Halves(s)
             T == Total(s)
             H == Total(h)
             N == Len(s)
             e == c.escape_count
  <2>1. MaybeHalve(c) = Halved(c)
    BY <1>1, <1>3, MaybeHalveIs
  <2>2. /\ h \in Seq(Nodes) /\ 2 * H <= T + 2 * (IncNovel * N) /\ T <= 2 * H + N
    BY <1>1, HalvesBounds
  <2>3. T = c.total_symbol_count /\ T <= MostCounts /\ e < EscapeMax + EscpInc
        /\ e <= T /\ Distinct(s) /\ e \in Nat
    BY <1>1, CountsIs DEF Sound, Exact
  <2>4. T \in Nat /\ H \in Nat /\ N \in Nat /\ N <= SymbolCount /\ Len(h) \in Nat
        /\ Largest(h) \in Nat
    BY <1>1, <2>2, TotalType, NodeAt
  <2>5. IncNovel * N <= SymbolCount * IncNovel /\ IncNovel * N \in Nat
    BY <2>4, Constants
  <2>6. SymbolCount * (IncNovel + 1) = SymbolCount * IncNovel + SymbolCount
        /\ SymbolCount * IncNovel \in Nat
    BY Constants
  <2>7. HalveThreshold > 2 * (SymbolCount * (IncNovel + 1))
    <3>1. 2 * SymbolCount * (IncNovel + 1) = 2 * (SymbolCount * (IncNovel + 1))
      BY Constants
    <3> QED
      BY <3>1, FollowsetAssumption
  <2> DEFINE P == IncNovel * N
             Q == SymbolCount * IncNovel
             R == SymbolCount * (IncNovel + 1)
  <2>8. /\ H <= HalveThreshold + 2 * Inc
        /\ (e \div 2) + 1 < EscapeMax + EscpInc
        /\ (e \div 2) + 1 <= H /\ H >= 1 /\ (e \div 2) + 1 >= 1
    <3>1. /\ P <= Q /\ P \in Nat /\ Q \in Nat /\ R = Q + SymbolCount
          /\ HalveThreshold > 2 * R /\ 2 * H <= T + 2 * P
      BY <2>2, <2>5, <2>6, <2>7
    <3>2. e \div 2 \in Nat /\ e \in 2 * (e \div 2) .. 2 * (e \div 2) + 1
      BY <2>3
    <3>3. T >= HalveThreshold /\ T <= HalveThreshold + 4 * Inc
      BY <1>3, <2>3, <2>4, FollowsetAssumption DEF MostCounts
    <3>4. e >= 1
      BY <2>3, <2>4, <3>3, SoundNodes, FollowsetAssumption DEF Sound
    <3> HIDE DEF P, Q, R, T, H, N, e
    <3>5. H <= HalveThreshold + 2 * Inc
      BY <2>4, <3>1, <3>3, FollowsetAssumption
    <3>6. (e \div 2) + 1 < EscapeMax + EscpInc
      BY <2>3, <3>2, <3>4, FollowsetAssumption
    <3>7. 2 * H >= HalveThreshold - SymbolCount
      BY <2>2, <2>4, <3>3, FollowsetAssumption
    <3>8. (e \div 2) + 1 <= H
      BY <2>3, <2>4, <3>2, <3>7, FollowsetAssumption
    <3> QED
      BY <2>4, <3>2, <3>5, <3>6, <3>8
  <2>9. \A x : Has(h, x) => x.count >= 1
    <3> SUFFICES ASSUME NEW x, Has(h, x) PROVE x.count >= 1
      OBVIOUS
    <3>1. PICK y \in Nodes : x = Lifted(y)
      BY <1>1, HalvesHas
    <3>2. y.count \in Nat
      BY DEF Nodes
    <3>3. x.count = IF y.count \div 2 >= IncNovel + 1 THEN y.count \div 2 ELSE IncNovel + 1
      BY <3>1, LiftedIs
    <3> QED
      BY <3>2, <3>3, Constants
  <2>10. Distinct(h)
    BY <1>1, <2>3, HalvesHas
  <2> DEFINE n == Halved(c)
  <2>11. /\ n.followset = h /\ n.followset_size = Len(h) /\ n.total_symbol_count = H
         /\ n.max_count = Largest(h) /\ n.escape_count = (e \div 2) + 1
    BY DEF Halved
  <2>12. n \in Counts
    <3>1. (e \div 2) + 1 \in Nat
      BY <2>3
    <3> HIDE DEF h
    <3> QED
      BY <2>2, <2>4, <3>1 DEF Halved, Counts, h
  <2>13. Len(h) >= 1
    <3>1. h # <<>>
      BY <2>4, <2>8, TotalEmpty
    <3> QED
      BY <2>2, <3>1, EmptySeq
  <2> HIDE DEF n, h, e, H
  <2>14. Exact(n)
    BY <2>9, <2>10, <2>11, <2>12 DEF Exact, H
  <2>15. H <= MostCounts
    BY <2>4, <2>8, FollowsetAssumption DEF MostCounts
  <2>16. Sound(n)
    BY <2>8, <2>11, <2>13, <2>14, <2>15 DEF Sound
  <2> QED
    BY <2>1, <2>8, <2>11, <2>16 DEF n
<1> QED
  BY <1>2, <1>3

(* The branch of a symbol that is new to the followset.                    *)
LEMMA SeenFirstSound ==
  ASSUME NEW c, Sound(c), c.total_symbol_count <= HalveThreshold + 2 * Inc,
         NEW symbol \in Symbols, \A x : Has(c.followset, x) => x.symbol # symbol
  PROVE  /\ Sound(SeenFirst(c, symbol)) /\ SeenFirst(c, symbol) # NoCounts
         /\ \A x : Has(c.followset, x) => Has(SeenFirst(c, symbol).followset, x)
<1> DEFINE s == c.followset
           m == [symbol |-> symbol, count |-> IncNovel]
           t == <<m>> \o s
           e == c.escape_count
           f == IF e < EscapeMax THEN e + EscpInc ELSE e
           n == SeenFirst(c, symbol)
<1>1. c \in Counts /\ s \in Seq(Nodes) /\ e \in Nat /\ Total(s) \in Nat /\ Largest(s) \in Nat
      /\ Len(s) \in Nat
  BY SoundNodes, CountsIs, TotalType, NodeAt
<1>2. m \in Nodes /\ m.symbol = symbol /\ m.count = IncNovel
  BY Constants DEF Nodes
<1> HIDE DEF m
<1>3. Fronted(t, m, s)
  BY <1>1, <1>2, PutInFront
<1> HIDE DEF t
<1>4. /\ c.followset_size = Len(s) /\ c.total_symbol_count = Total(s)
      /\ c.max_count = Largest(s) /\ Distinct(s) /\ \A x : Has(s, x) => x.count >= 1
  BY DEF Sound, Exact
<1>5. n = [followset |-> t, followset_size |-> Len(s) + 1,
           total_symbol_count |-> Total(s) + IncNovel,
           max_count |-> Max({Largest(s), IncNovel}), escape_count |-> f]
  <2>1. n = [c EXCEPT !.followset = t, !.followset_size = @ + 1,
                      !.total_symbol_count = @ + IncNovel,
                      !.max_count = Max({@, IncNovel}), !.escape_count = f]
    BY DEF SeenFirst, t, m
  <2> HIDE DEF n, f
  <2>2. n = [followset |-> t, followset_size |-> c.followset_size + 1,
             total_symbol_count |-> c.total_symbol_count + IncNovel,
             max_count |-> Max({c.max_count, IncNovel}), escape_count |-> f]
    BY <1>1, <2>1 DEF Counts
  <2> QED
    BY <1>4, <2>2
<1>6. /\ t \in Seq(Nodes) /\ Len(t) = Len(s) + 1
      /\ t[1] = m /\ \A j \in 1 .. Len(s) : t[j + 1] = s[j]
      /\ Total(t) = m.count + Total(s)
      /\ Largest(t) = Max({m.count, Largest(s)})
      /\ \A x : Has(t, x) <=> x = m \/ Has(s, x)
  BY <1>3 DEF Fronted
<1>7. Max({Largest(s), IncNovel}) = Largest(t) /\ Largest(t) \in Nat
  <2>1. Max({Largest(s), IncNovel}) = IF Largest(s) >= IncNovel THEN Largest(s) ELSE IncNovel
    BY <1>1, Constants, MaxOfTwo
  <2>2. Largest(t) = IF IncNovel >= Largest(s) THEN IncNovel ELSE Largest(s)
    BY <1>1, <1>2, <1>6, Constants, MaxOfTwo
  <2> QED
    BY <1>1, <2>1, <2>2, Constants
<1>8. Total(t) = Total(s) + IncNovel
  BY <1>1, <1>2, <1>6, Constants
<1>9. Distinct(t)
  <2>1. \A j \in 1 .. Len(s) : t[j + 1].symbol # symbol
    BY <1>6 DEF Has
  <2>2. t[1].symbol = symbol
    BY <1>2, <1>6
  <2> SUFFICES ASSUME NEW j \in 1 .. Len(t), NEW k \in 1 .. Len(t), t[j].symbol = t[k].symbol
               PROVE  j = k
    BY DEF Distinct
  <2>3. \A l \in 1 .. Len(t) : l = 1 \/ (l - 1 \in 1 .. Len(s) /\ l = (l - 1) + 1)
    BY <1>1, <1>6
  <2>4. \A l \in 1 .. Len(t) : l # 1 => t[l].symbol # symbol /\ t[l] = s[l - 1]
    BY <1>6, <2>1, <2>3
  <2>5. CASE j = 1 \/ k = 1
    BY <2>2, <2>4, <2>5
  <2>6. CASE j # 1 /\ k # 1
    <3>1. s[j - 1].symbol = s[k - 1].symbol
      BY <2>4, <2>6
    <3>2. j - 1 \in 1 .. Len(s) /\ k - 1 \in 1 .. Len(s)
      BY <2>3, <2>6
    <3>3. j - 1 = k - 1
      BY <1>4, <3>1, <3>2 DEF Distinct
    <3> QED
      BY <1>1, <1>6, <3>3
  <2> QED
    BY <2>5, <2>6
<1>10. \A x : Has(t, x) => x.count >= 1
  BY <1>2, <1>4, <1>6, Constants
<1>11. f \in Nat /\ f >= 1 /\ f < EscapeMax + EscpInc /\ f <= Total(s) + IncNovel
  <2>1. e < EscapeMax + EscpInc /\ e <= Total(s)
    BY <1>4 DEF Sound
  <2> HIDE DEF e
  <2> QED
    BY <1>1, <2>1, FollowsetAssumption
<1>12. Total(s) + IncNovel \in Nat /\ Total(s) + IncNovel <= MostCounts
  BY <1>1, <1>4, FollowsetAssumption DEF MostCounts
<1> HIDE DEF f, n
<1>13. /\ n.followset = t /\ n.followset_size = Len(t)
       /\ n.total_symbol_count = Total(t) /\ n.max_count = Largest(t)
       /\ n.escape_count = f
  BY <1>5, <1>6, <1>7, <1>8
<1>14. n \in Counts
  <2>1. n = [followset |-> t, followset_size |-> Len(t), total_symbol_count |-> Total(t),
             max_count |-> Largest(t), escape_count |-> f]
    BY <1>5, <1>6, <1>7, <1>8
  <2>2. Len(t) \in Nat /\ Total(t) \in Nat
    BY <1>6, TotalType, NodeAt
  <2> QED
    BY <1>6, <1>7, <1>11, <2>1, <2>2 DEF Counts
<1>15. Exact(n)
  BY <1>9, <1>10, <1>13, <1>14 DEF Exact
<1>16. n.followset_size >= 1
  BY <1>1, <1>6, <1>13
<1>17. Sound(n)
  BY <1>8, <1>11, <1>12, <1>13, <1>15, <1>16 DEF Sound
<1>18. n # NoCounts
  BY <1>11, <1>13 DEF NoCounts
<1>19. \A x : Has(s, x) => Has(n.followset, x)
  BY <1>6, <1>13
<1> QED
  BY <1>17, <1>18, <1>19 DEF n

(* The branch of a symbol that has a node.                                 *)
LEMMA SeenAgainSound ==
  ASSUME NEW c, Sound(c), c.total_symbol_count <= HalveThreshold + 2 * Inc,
         NEW i \in 1 .. Len(c.followset)
  PROVE  /\ Sound(SeenAgain(c, i)) /\ SeenAgain(c, i) # NoCounts
         /\ \A x : Has(c.followset, x) =>
              \E y : /\ Has(SeenAgain(c, i).followset, y)
                     /\ y.symbol = x.symbol /\ y.count >= x.count
<1> DEFINE s == c.followset
           o == s[i]
           g == IF IsNovel(o) THEN Inc + Inc - IncNovel ELSE Inc
           m == [o EXCEPT !.count = @ + g]
           t == <<m>> \o RemoveAt(s, i)
           e == c.escape_count
           f == IF IsNovel(o) THEN Max({e - EscpInc, 1}) ELSE e
           n == SeenAgain(c, i)
<1>1. c \in Counts /\ s \in Seq(Nodes) /\ e \in Nat /\ Total(s) \in Nat /\ Largest(s) \in Nat
      /\ Len(s) \in Nat
  BY SoundNodes, CountsIs, TotalType, NodeAt
<1>2. o \in Nodes /\ o.count \in Nat /\ o.symbol \in Symbols /\ Has(s, o)
  BY <1>1, NodeAt DEF Has
<1>3. g \in Nat /\ g >= 1 /\ g <= 2 * Inc
  <2>1. Inc \in Nat \ {0} /\ IncNovel \in Nat \ {0} /\ Inc >= IncNovel
    BY FollowsetAssumption
  <2>2. CASE IsNovel(o)
    <3>1. g = Inc + Inc - IncNovel
      BY <2>2
    <3> HIDE DEF g
    <3> QED
      BY <2>1, <3>1
  <2>3. CASE ~IsNovel(o)
    <3>1. g = Inc
      BY <2>3
    <3> HIDE DEF g
    <3> QED
      BY <2>1, <3>1
  <2> QED
    BY <2>2, <2>3
<1>4. m \in Nodes /\ m.symbol = o.symbol /\ m.count = o.count + g
  <2> HIDE DEF o, g
  <2> QED
    BY <1>2, <1>3 DEF Nodes
<1>5. /\ c.followset_size = Len(s) /\ c.total_symbol_count = Total(s)
      /\ c.max_count = Largest(s) /\ Distinct(s) /\ \A x : Has(s, x) => x.count >= 1
  BY DEF Sound, Exact
<1>6. n = [followset |-> t, followset_size |-> Len(s),
           total_symbol_count |-> Total(s) + g,
           max_count |-> Max({Largest(s), m.count}), escape_count |-> f]
  <2>1. n = [c EXCEPT !.followset = t, !.total_symbol_count = @ + g,
                      !.max_count = Max({@, m.count}), !.escape_count = f]
    BY DEF SeenAgain
  <2> HIDE DEF n, f, m, t, g
  <2>2. n = [followset |-> t, followset_size |-> c.followset_size,
             total_symbol_count |-> c.total_symbol_count + g,
             max_count |-> Max({c.max_count, m.count}), escape_count |-> f]
    BY <1>1, <2>1 DEF Counts
  <2> QED
    BY <1>5, <2>2
<1> HIDE DEF m, g
<1>7. /\ t \in Seq(Nodes) /\ Len(t) = Len(s)
      /\ Total(t) = Total(s) + (m.count - o.count)
      /\ Largest(t) = Max({Largest(s), m.count})
      /\ Distinct(s) => Distinct(t)
      /\ \A x : Has(t, x) => x = m \/ Has(s, x)
      /\ \A x : Has(s, x) => x = o \/ Has(t, x)
      /\ Has(t, m)
  <2>1. m.symbol = s[i].symbol /\ m.count >= s[i].count
    BY <1>2, <1>3, <1>4
  <2>2. FrontedFrom(t, m, s, i)
    BY <1>1, <1>4, <2>1, Moved
  <2> HIDE DEF t
  <2> QED
    BY <2>2 DEF FrontedFrom
<1> HIDE DEF t
<1>8. Total(t) = Total(s) + g
  BY <1>1, <1>2, <1>3, <1>4, <1>7
<1>9. \A x : Has(t, x) => x.count >= 1
  BY <1>2, <1>3, <1>4, <1>5, <1>7
<1>10. f \in Nat /\ f >= 1 /\ f < EscapeMax + EscpInc /\ f <= Total(s) + g
  <2>1. e < EscapeMax + EscpInc /\ e <= Total(s)
    BY <1>5 DEF Sound
  <2>2. e >= 1
    <3>1. c # NoCounts
      <4>1. NoCounts.followset = <<>> /\ 1 .. Len(<<>>) = {}
        BY EmptySeq DEF NoCounts
      <4> QED
        BY <4>1
    <3> QED
      BY <3>1 DEF Sound
  <2>3. CASE IsNovel(o)
    <3>1. f = Max({e - EscpInc, 1})
      BY <2>3
    <3>2. CASE e - EscpInc >= 0
      <4>1. e - EscpInc \in Nat /\ 1 \in Nat
        BY <1>1, <3>2, FollowsetAssumption
      <4>2. f = IF e - EscpInc >= 1 THEN e - EscpInc ELSE 1
        BY <3>1, <4>1, MaxOfTwo
      <4> HIDE DEF f, e
      <4> QED
        BY <1>1, <1>3, <2>1, <2>2, <4>2, FollowsetAssumption
    <3>3. CASE e - EscpInc < 0
      <4> DEFINE a == e - EscpInc
      <4>1. a \in Int /\ a < 1
        BY <1>1, <3>3, FollowsetAssumption
      <4> HIDE DEF a
      <4>2. Max({a, 1}) = 1
        <5>1. Max({a, 1}) = CHOOSE x \in {a, 1} : \A y \in {a, 1} : x >= y
          BY DEF Max
        <5>2. 1 \in {a, 1} /\ \A y \in {a, 1} : 1 >= y
          BY <4>1
        <5>3. \A x \in {a, 1} : (\A y \in {a, 1} : x >= y) => x = 1
          BY <4>1
        <5> DEFINE z == Max({a, 1})
        <5>4. z \in {a, 1} /\ \A y \in {a, 1} : z >= y
          BY <5>1, <5>2
        <5> HIDE DEF z
        <5>5. z = 1
          BY <5>3, <5>4
        <5> QED
          BY <5>5 DEF z
      <4>3. f = 1
        BY <3>1, <4>2 DEF a
      <4> HIDE DEF f, e
      <4> QED
        BY <1>1, <1>3, <2>1, <2>2, <4>3, FollowsetAssumption
    <3> QED
      BY <1>1, <3>2, <3>3, FollowsetAssumption
  <2>4. CASE ~IsNovel(o)
    <3>1. f = e
      BY <2>4
    <3> HIDE DEF f, e
    <3> QED
      BY <1>1, <1>3, <2>1, <2>2, <3>1
  <2> QED
    BY <2>3, <2>4
<1>11. Total(s) + g \in Nat /\ Total(s) + g <= MostCounts
  BY <1>1, <1>3, <1>5, FollowsetAssumption DEF MostCounts
<1> HIDE DEF f, n
<1>12. /\ n.followset = t /\ n.followset_size = Len(t)
       /\ n.total_symbol_count = Total(t) /\ n.max_count = Largest(t)
       /\ n.escape_count = f
  BY <1>6, <1>7, <1>8
<1>13. n \in Counts
  <2>1. n = [followset |-> t, followset_size |-> Len(t), total_symbol_count |-> Total(t),
             max_count |-> Largest(t), escape_count |-> f]
    BY <1>6, <1>7, <1>8
  <2>2. Len(t) \in Nat /\ Total(t) \in Nat /\ Largest(t) \in Nat
    BY <1>7, TotalType, NodeAt
  <2> QED
    BY <1>7, <1>10, <2>1, <2>2 DEF Counts
<1>14. Exact(n)
  BY <1>5, <1>7, <1>9, <1>12, <1>13 DEF Exact
<1>15. n.followset_size >= 1
  BY <1>1, <1>7, <1>12
<1>16. Sound(n)
  BY <1>8, <1>10, <1>11, <1>12, <1>14, <1>15 DEF Sound
<1>17. n # NoCounts
  BY <1>10, <1>12 DEF NoCounts
<1>18. ASSUME NEW x, Has(s, x)
       PROVE  \E y : Has(n.followset, y) /\ y.symbol = x.symbol /\ y.count >= x.count
  <2>1. CASE x = o
    <3>1. m.count >= x.count
      BY <1>2, <1>3, <1>4, <2>1
    <3> QED
      BY <1>4, <1>7, <1>12, <2>1, <3>1
  <2>2. CASE Has(t, x)
    <3>1. x.count \in Nat
      BY <1>1, <1>18, NodeAt DEF Has
    <3>2. x.count >= x.count
      BY <3>1
    <3> QED
      BY <1>12, <2>2, <3>2
  <2> QED
    BY <1>7, <1>18, <2>1, <2>2
<1> QED
  BY <1>16, <1>17, <1>18 DEF n

(* context_Update.                                                         *)
LEMMA UpdateSound ==
  ASSUME NEW c, Sound(c), NEW symbol \in Symbols
  PROVE  /\ Sound(Update(c, symbol)) /\ Update(c, symbol) # NoCounts
         /\ \A x : Has(MaybeHalve(c).followset, x) =>
              \E y : /\ Has(Update(c, symbol).followset, y)
                     /\ y.symbol = x.symbol /\ y.count >= x.count
<1> DEFINE h == MaybeHalve(c)
           i == IndexOf(h.followset, symbol)
<1>1. Sound(h) /\ h.total_symbol_count <= HalveThreshold + 2 * Inc
  BY HalvedSound
<1>2. Update(c, symbol) = IF i = 0 THEN SeenFirst(h, symbol) ELSE SeenAgain(h, i)
  BY DEF Update, IsFirst
<1> HIDE DEF h
<1>3. h.followset \in Seq(Nodes)
  BY <1>1, SoundNodes
<1>4. /\ i \in 0 .. Len(h.followset)
      /\ i = 0 => \A n \in 1 .. Len(h.followset) : h.followset[n].symbol # symbol
  BY <1>3, IndexIs
<1> HIDE DEF i
<1>5. CASE i = 0
  <2>1. \A x : Has(h.followset, x) => x.symbol # symbol
    BY <1>4, <1>5 DEF Has
  <2>2. /\ Sound(SeenFirst(h, symbol)) /\ SeenFirst(h, symbol) # NoCounts
        /\ \A x : Has(h.followset, x) => Has(SeenFirst(h, symbol).followset, x)
    BY <1>1, <2>1, SeenFirstSound
  <2>3. \A x : Has(h.followset, x) => x.count >= x.count
    <3>1. \A x : Has(h.followset, x) => x.count \in Nat
      BY <1>3, NodeAt DEF Has
    <3> QED
      BY <3>1
  <2> QED
    BY <1>2, <1>5, <2>2, <2>3 DEF h
<1>6. CASE i # 0
  <2>1. i \in 1 .. Len(h.followset)
    BY <1>3, <1>4, <1>6, NodeAt
  <2>2. /\ Sound(SeenAgain(h, i)) /\ SeenAgain(h, i) # NoCounts
        /\ \A x : Has(h.followset, x) =>
             \E y : /\ Has(SeenAgain(h, i).followset, y)
                    /\ y.symbol = x.symbol /\ y.count >= x.count
    BY <1>1, <2>1, SeenAgainSound
  <2> QED
    BY <1>2, <1>6, <2>2 DEF h
<1> QED
  BY <1>5, <1>6

(***************************************************************************)
(* What the coder is given under exclusion.                                *)
(***************************************************************************)

(* The open and the shut nodes are no more than all.                       *)
LEMMA SplitLength ==
  ASSUME NEW one, NEW other, one \cap other = {}
  PROVE  \A s \in Seq(Nodes) : Len(Among(s, one)) + Len(Among(s, other)) <= Len(s)
<1> DEFINE S == {s \in Seq(Nodes) : Len(Among(s, one)) + Len(Among(s, other)) <= Len(s)}
<1>1. <<>> \in S
  BY EmptySeq, AmongEmpty
<1>2. ASSUME NEW s \in Seq(Nodes), NEW y \in Nodes, s \in S PROVE Append(s, y) \in S
  <2> DEFINE a == Among(s, one)
             b == Among(s, other)
             t == Append(s, y)
  <2>1. a \in Seq(Nodes) /\ b \in Seq(Nodes) /\ t \in Seq(Nodes)
    BY AmongType, HasAppend
  <2>2. Len(a) \in Nat /\ Len(b) \in Nat /\ Len(s) \in Nat /\ Len(a) + Len(b) <= Len(s)
    BY <1>2, <2>1, LenProperties
  <2>3. Len(Append(a, y)) = Len(a) + 1 /\ Len(Append(b, y)) = Len(b) + 1 /\ Len(t) = Len(s) + 1
    BY <2>1, HasAppend
  <2>4. Among(t, one) = (IF y \in one THEN Append(a, y) ELSE a)
    BY AmongAppend
  <2>5. Among(t, other) = (IF y \in other THEN Append(b, y) ELSE b)
    BY AmongAppend
  <2> HIDE DEF a, b
  <2>6. Len(Among(t, one)) + Len(Among(t, other)) <= Len(t)
    <3> HIDE DEF t
    <3>1. CASE y \in one
      <4>1. Among(t, one) = Append(a, y) /\ Among(t, other) = b
        BY <2>4, <2>5, <3>1
      <4> QED
        BY <2>2, <2>3, <4>1
    <3>2. CASE y \notin one /\ y \in other
      <4>1. Among(t, one) = a /\ Among(t, other) = Append(b, y)
        BY <2>4, <2>5, <3>2
      <4> QED
        BY <2>2, <2>3, <4>1
    <3>3. CASE y \notin one /\ y \notin other
      <4>1. Among(t, one) = a /\ Among(t, other) = b
        BY <2>4, <2>5, <3>3
      <4> QED
        BY <2>2, <2>3, <4>1
    <3> QED
      BY <3>1, <3>2, <3>3
  <2> QED
    BY <2>1, <2>6
<1> HIDE DEF S
<1>3. \A s \in Seq(Nodes) : s \in S
  BY <1>1, <1>2, ListInduct
<1> QED
  BY <1>3 DEF S

(* The novel nodes of a list are no more than its nodes.                   *)
LEMMA NovelBounds ==
  ASSUME NEW s \in Seq(Nodes)
  PROVE  NovelIn(s) \in Nat /\ NovelIn(s) <= Len(s)
<1> DEFINE I == {i \in DOMAIN s : IsNovel(s[i])}
<1>1. Len(s) \in Nat /\ DOMAIN s = 1 .. Len(s)
  BY LenProperties
<1>2. IsFiniteSet(1 .. Len(s)) /\ Cardinality(1 .. Len(s)) = IF 1 > Len(s) THEN 0 ELSE Len(s) - 1 + 1
  BY <1>1, FS_Interval
<1>3. I \in SUBSET (1 .. Len(s))
  BY <1>1
<1> HIDE DEF I
<1>4. IsFiniteSet(I) /\ Cardinality(I) <= Cardinality(1 .. Len(s))
  BY <1>2, <1>3, FS_Subset
<1>5. Cardinality(I) \in Nat
  BY <1>4, FS_CardinalityType
<1>6. NovelIn(s) = Cardinality(I)
  BY DEF NovelIn, I
<1> QED
  BY <1>1, <1>2, <1>4, <1>5, <1>6

(* Quotients by the same divisor.                                          *)
LEMMA DivMonotone ==
  ASSUME NEW x \in Nat, NEW y \in Nat, NEW d \in Nat \ {0}, x <= y
  PROVE  /\ x \div d \in Nat /\ y \div d \in Nat /\ x \div d <= y \div d
         /\ d <= x => 1 <= x \div d
<1> DEFINE q == x \div d
           p == y \div d
           r == x % d
           t == y % d
<1>1. /\ q \in Nat /\ r \in 0 .. d - 1 /\ x = d * q + r
      /\ p \in Nat /\ t \in 0 .. d - 1 /\ y = d * p + t
  BY DivMod
<1> HIDE DEF q, p, r, t
<1> DEFINE Q == d * q
           P == d * p
<1>2. Q \in Nat /\ P \in Nat
  BY <1>1, MulMonotone
<1>3. x = Q + r /\ y = P + t
  BY <1>1
<1>4. ASSUME p + 1 <= q PROVE FALSE
  <2>1. d * (p + 1) <= d * q
    BY <1>1, <1>4, MulMonotone
  <2>2. d * (p + 1) = P + d
    BY <1>1
  <2>3. P + d <= Q
    BY <2>1, <2>2
  <2> HIDE DEF Q, P
  <2> QED
    BY <1>1, <1>2, <1>3, <2>3
<1>5. ASSUME d <= x, q = 0 PROVE FALSE
  <2>1. Q = 0
    BY <1>1, <1>5
  <2> HIDE DEF Q
  <2> QED
    BY <1>1, <1>3, <1>5, <2>1
<1>6. q <= p /\ (d <= x => 1 <= q)
  BY <1>1, <1>4, <1>5
<1> QED
  BY <1>1, <1>6 DEF q, p

(* What an excluded context's escape count may be.                         *)
LEMMA ExcludedEscapes ==
  ASSUME NEW a \in Nat, NEW b \in Nat, a + b <= SymbolCount
  PROVE  LET e == (ExclEscInit + ExclEscInc * a + ExclEscExcluded * b) \div ExclEscInc
         IN  /\ e \in Nat /\ 1 <= e
             /\ e <= (ExclEscInit + ExclEscInc * SymbolCount) \div ExclEscInc
<1> DEFINE A == ExclEscInc * a
           B == ExclEscExcluded * b
           C == ExclEscInc * b
           M == ExclEscInc * SymbolCount
<1>1. A \in Nat /\ B \in Nat /\ C \in Nat /\ M \in Nat
  BY FollowsetAssumption
<1>2. B <= C
  BY FollowsetAssumption
<1>3. A + C <= M
  <2>1. ExclEscInc * (a + b) <= ExclEscInc * SymbolCount
    <3>1. \A n \in Nat : a + b <= n => ExclEscInc * (a + b) <= ExclEscInc * n
      BY FollowsetAssumption
    <3> QED
      BY <3>1, FollowsetAssumption
  <2>2. ExclEscInc * (a + b) = A + C
    BY FollowsetAssumption
  <2> QED
    BY <2>1, <2>2
<1> DEFINE x == ExclEscInit + A + B
           y == ExclEscInit + M
<1>4. /\ x \in Nat /\ y \in Nat /\ x <= y /\ ExclEscInc <= x
      /\ ExclEscInc \in Nat \ {0}
  <2> HIDE DEF A, B, C, M
  <2> QED
    BY <1>1, <1>2, <1>3, FollowsetAssumption
<1>5. /\ x \div ExclEscInc \in Nat /\ 1 <= x \div ExclEscInc
      /\ x \div ExclEscInc <= y \div ExclEscInc
  <2> HIDE DEF x, y
  <2> QED
    BY <1>4, DivMonotone
<1> QED
  BY <1>5

(* The open symbols, and their part of the total.                          *)
LEMMA OpenIs ==
  ASSUME NEW c, c.followset \in Seq(Nodes), NEW excluded
  PROVE  /\ Open(c, excluded) \in Seq(Nodes)
         /\ \A x : Has(Open(c, excluded), x) <=>
                     Has(c.followset, x) /\ x.symbol \notin excluded
         /\ Total(Open(c, excluded)) <= Total(c.followset)
         /\ Distinct(c.followset) => Distinct(Open(c, excluded))
         /\ excluded = {} => Open(c, excluded) = c.followset
<1> DEFINE s == c.followset
           K == {n \in Nodes : n.symbol \notin excluded}
<1>1. Open(c, excluded) = Among(s, K)
  BY DEF Open
<1>2. \A x : Has(s, x) => x \in Nodes
  BY NodeAt DEF Has
<1>3. excluded = {} => \A x : Has(s, x) => x \in K
  BY <1>2
<1>4. \A x : x \in K <=> x \in Nodes /\ x.symbol \notin excluded
  OBVIOUS
<1> HIDE DEF K, s
<1>5. s \in Seq(Nodes)
  BY DEF s
<1>6. /\ Among(s, K) \in Seq(Nodes)
      /\ \A x : Has(Among(s, K), x) <=> Has(s, x) /\ x \in K
      /\ Total(Among(s, K)) <= Total(s)
      /\ Distinct(s) => Distinct(Among(s, K))
      /\ excluded = {} => Among(s, K) = s
  BY <1>3, <1>5, AmongType, AmongHas, AmongBounds, AmongDistinct, AmongAll
<1>7. \A x : Has(Among(s, K), x) <=> Has(s, x) /\ x.symbol \notin excluded
  BY <1>2, <1>4, <1>6
<1> QED
  BY <1>1, <1>6, <1>7 DEF s

(* A context offers no more than the coder takes.                          *)
Fits(stats) ==
  /\ stats.total_count \in Nat /\ stats.max_count \in Nat /\ stats.escape_count \in Nat
  /\ stats.total_count > 0 =>
       /\ 1 <= stats.escape_count
       /\ stats.escape_count + stats.total_count <= MaxTotal
       /\ 1 <= stats.max_count /\ stats.max_count <= stats.total_count

(* Whatever is excluded, the coder can take the statistics.                *)
LEMMA StatsFit ==
  ASSUME NEW c, Sound(c), NEW excluded
  PROVE  /\ Fits(Stats(c, excluded))
         /\ Stats(c, excluded).total_count = Total(Open(c, excluded))
<1> DEFINE s == c.followset
           o == Open(c, excluded)
           h == Shut(c, excluded)
<1>1. c \in Counts /\ s \in Seq(Nodes) /\ Len(s) <= SymbolCount
  BY SoundNodes
<1>2. /\ c.total_symbol_count = Total(s) /\ c.max_count = Largest(s)
      /\ c.total_symbol_count <= MostCounts
      /\ c.escape_count < EscapeMax + EscpInc
  BY DEF Sound, Exact
<1>3. /\ Total(s) \in Nat /\ Largest(s) \in Nat /\ c.escape_count \in Nat /\ Len(s) \in Nat
  BY <1>1, TotalType, CountsIs, NodeAt
<1>4. /\ o \in Seq(Nodes) /\ Total(o) <= Total(s)
      /\ (excluded = {} => o = s)
  BY <1>1, OpenIs
<1>5. /\ Total(o) \in Nat /\ Largest(o) \in Nat /\ Largest(o) <= Total(o)
      /\ (Total(o) > 0 => Largest(o) > 0)
  BY <1>4, TotalType, LargestBounds
<1> DEFINE st == Stats(c, excluded)
<1>6. CASE excluded = {}
  <2>1. /\ st.total_count = Total(s) /\ st.max_count = Largest(s)
        /\ st.escape_count = c.escape_count
    BY <1>2, <1>6 DEF Stats
  <2>2. Total(s) > 0 => c.escape_count >= 1
    <3>1. c = NoCounts => Total(s) = 0
      BY <1>2, SoundNodes
    <3> QED
      BY <1>3, <3>1 DEF Sound
  <2> HIDE DEF st
  <2>3. c.escape_count + Total(s) <= MaxTotal
    BY <1>2, <1>3, FollowsetAssumption DEF MostCounts
  <2>4. Largest(s) <= Total(s) /\ (Total(s) > 0 => Largest(s) > 0)
    BY <1>4, <1>5, <1>6
  <2>5. Fits(st)
    BY <1>3, <2>1, <2>2, <2>3, <2>4 DEF Fits
  <2> QED
    BY <1>4, <1>6, <2>1, <2>5 DEF st
<1>7. CASE excluded # {}
  <2> DEFINE a == NovelIn(o)
             b == NovelIn(h)
             e == (ExclEscInit + ExclEscInc * a + ExclEscExcluded * b) \div ExclEscInc
  <2>1. st.total_count = Total(o) /\ st.max_count = Largest(o) /\ st.escape_count = e
    BY <1>7 DEF Stats
  <2>2. a \in Nat /\ b \in Nat /\ a + b <= SymbolCount
    <3> DEFINE K == {n \in Nodes : n.symbol \notin excluded}
               L == {n \in Nodes : n.symbol \in excluded}
    <3>1. o = Among(s, K) /\ h = Among(s, L)
      BY DEF Open, Shut
    <3>2. K \cap L = {}
      OBVIOUS
    <3> HIDE DEF K, L, o, h
    <3>3. Len(Among(s, K)) + Len(Among(s, L)) <= Len(s)
      BY <1>1, <3>2, SplitLength
    <3>4. o \in Seq(Nodes) /\ h \in Seq(Nodes)
      BY <1>1, <3>1, AmongType
    <3>5. /\ a \in Nat /\ b \in Nat /\ a <= Len(o) /\ b <= Len(h)
          /\ Len(o) \in Nat /\ Len(h) \in Nat
      BY <3>4, NovelBounds, LenProperties
    <3>6. Len(o) + Len(h) <= Len(s)
      BY <3>1, <3>3
    <3> HIDE DEF a, b
    <3> QED
      BY <1>1, <1>3, <3>5, <3>6, Constants
  <2> HIDE DEF a, b, st, o
  <2>3. /\ e \in Nat /\ 1 <= e
        /\ e <= (ExclEscInit + ExclEscInc * SymbolCount) \div ExclEscInc
    BY <2>2, ExcludedEscapes
  <2> DEFINE E == (ExclEscInit + ExclEscInc * SymbolCount) \div ExclEscInc
  <2>4. MaxTotal >= HalveThreshold + 4 * Inc + E /\ MaxTotal \in Nat
    BY FollowsetAssumption
  <2>5. E \in Nat
    <3>1. ExclEscInit + ExclEscInc * SymbolCount \in Nat /\ ExclEscInc \in Nat \ {0}
      BY FollowsetAssumption
    <3> QED
      BY <3>1, DivMonotone
  <2> HIDE DEF e, E
  <2>6. e <= E
    BY <2>3 DEF E
  <2>7. e + Total(o) <= MaxTotal
    BY <1>2, <1>3, <1>4, <1>5, <2>3, <2>4, <2>5, <2>6, FollowsetAssumption DEF MostCounts
  <2>8. Fits(st)
    BY <1>5, <2>1, <2>3, <2>7 DEF Fits
  <2> QED
    BY <2>1, <2>8 DEF st, o
<1> QED
  BY <1>6, <1>7

(* The symbols of a list are those of its nodes.                           *)
LEMMA SymbolsHas ==
  ASSUME NEW s \in Seq(Nodes), NEW symbol
  PROVE  symbol \in SymbolsOf(s) <=> \E x : Has(s, x) /\ x.symbol = symbol
<1>1. DOMAIN s = 1 .. Len(s)
  BY LenProperties
<1> QED
  BY <1>1 DEF SymbolsOf, Has

(* The walks of context_Encode and context_Decode meet.                    *)
LEMMA PartWalk ==
  ASSUME NEW c, c.followset \in Seq(Nodes), NEW excluded, NEW symbol,
         symbol \in SymbolsOf(Open(c, excluded))
  PROVE  LET part  == Part(c, excluded, symbol)
             total == Total(Open(c, excluded))
         IN  /\ part.low \in Nat /\ part.high \in Nat /\ total \in Nat
             /\ part.low <= part.high /\ part.high <= total
             /\ \A got \in part.low .. part.high - 1 : SymbolAt(c, excluded, got) = symbol
             /\ (\A x : Has(c.followset, x) => x.count >= 1) => part.low < part.high
<1> DEFINE o == Open(c, excluded)
           i == IndexOf(o, symbol)
           T(n) == Total(SubSeq(o, 1, n))
<1>1. /\ o \in Seq(Nodes)
      /\ \A x : Has(o, x) <=> Has(c.followset, x) /\ x.symbol \notin excluded
  BY OpenIs
<1> DEFINE part == Part(c, excluded, symbol)
<1>2. part = [low |-> T(i - 1), high |-> T(i - 1) + o[i].count]
  BY DEF Part
<1>3. \A got : SymbolAt(c, excluded, got) = o[Min({j \in DOMAIN o : got < T(j)})].symbol
  BY DEF SymbolAt
<1>4. PICK x : Has(o, x) /\ x.symbol = symbol
  <2> HIDE DEF o
  <2>1. symbol \in SymbolsOf(o)
    BY DEF o
  <2> QED
    BY <1>1, <2>1, SymbolsHas
<1> HIDE DEF o, part
<1>5. Len(o) \in Nat /\ i \in 0 .. Len(o)
      /\ (i = 0 => \A n \in 1 .. Len(o) : o[n].symbol # symbol)
      /\ (i # 0 => o[i].symbol = symbol)
  BY <1>1, IndexIs, NodeAt
<1>6. i \in 1 .. Len(o) /\ o[i].symbol = symbol
  <2>1. i # 0
    BY <1>4, <1>5 DEF Has
  <2> HIDE DEF i
  <2> QED
    BY <1>5, <2>1
<1> HIDE DEF i
<1>7. /\ T(i - 1) \in Nat /\ T(i) \in Nat /\ o[i].count \in Nat
      /\ T(i) = T(i - 1) + o[i].count
      /\ T(i) <= Total(o) /\ Total(o) \in Nat
  <2>1. i - 1 \in 0 .. Len(o) /\ i \in 0 .. Len(o) /\ Len(o) \in 0 .. Len(o) /\ i \in Nat
        /\ i <= Len(o)
    BY <1>5, <1>6
  <2>2. T(i - 1) \in Nat /\ T(i) \in Nat /\ T(i) = T(i - 1) + o[i].count
        /\ T(Len(o)) = Total(o)
    BY <1>1, <1>6, <2>1, TotalCut
  <2>3. T(i) <= T(Len(o))
    BY <1>1, <2>1, CutMonotone
  <2>4. o[i].count \in Nat
    BY <1>1, <1>6, NodeAt
  <2> HIDE DEF T
  <2> QED
    BY <1>1, <2>2, <2>3, <2>4, TotalType
<1>8. part.low = T(i - 1) /\ part.high = T(i)
  BY <1>2, <1>7
<1>9. ASSUME NEW got \in part.low .. part.high - 1
      PROVE  SymbolAt(c, excluded, got) = symbol
  <2>1. got \in Nat /\ T(i - 1) <= got /\ got < T(i)
    <3> HIDE DEF T
    <3> QED
      BY <1>7, <1>8
  <2>2. Min({j \in DOMAIN o : got < T(j)}) = i
    BY <1>1, <1>6, <2>1, WalkFinds
  <2> QED
    BY <1>3, <1>6, <2>2
<1>10. ASSUME \A y : Has(c.followset, y) => y.count >= 1 PROVE part.low < part.high
  <2>1. Has(o, o[i])
    BY <1>6 DEF Has
  <2>2. o[i].count >= 1
    BY <1>1, <1>10, <2>1
  <2> HIDE DEF T
  <2> QED
    BY <1>7, <1>8, <2>2
<1>11. part.low \in Nat /\ part.high \in Nat /\ part.low <= part.high /\ part.high <= Total(o)
  <2> HIDE DEF T
  <2> QED
    BY <1>7, <1>8
<1> QED
  BY <1>7, <1>9, <1>10, <1>11 DEF o, part

(* Every number below the total is in the part of a symbol.                *)
LEMMA PartsCover ==
  ASSUME NEW c, c.followset \in Seq(Nodes), Distinct(c.followset), NEW excluded,
         NEW got \in Nat, got < Total(Open(c, excluded))
  PROVE  \E symbol \in SymbolsOf(Open(c, excluded)) :
           /\ Part(c, excluded, symbol).low <= got
           /\ got < Part(c, excluded, symbol).high
<1> DEFINE o == Open(c, excluded)
           T(n) == Total(SubSeq(o, 1, n))
<1>1. o \in Seq(Nodes) /\ Distinct(o)
  BY OpenIs
<1>2. \A symbol : Part(c, excluded, symbol) =
                    [low  |-> T(IndexOf(o, symbol) - 1),
                     high |-> T(IndexOf(o, symbol) - 1) + o[IndexOf(o, symbol)].count]
  BY DEF Part
<1>3. got < Total(o)
  OBVIOUS
<1> HIDE DEF o
<1>4. PICK i \in 1 .. Len(o) : T(i - 1) <= got /\ got < T(i)
  BY <1>1, <1>3, WalkReaches
<1> DEFINE symbol == o[i].symbol
<1>5. Has(o, o[i]) /\ symbol \in SymbolsOf(o)
  <2>1. Has(o, o[i])
    BY DEF Has
  <2> QED
    BY <1>1, <2>1, SymbolsHas
<1>6. IndexOf(o, symbol) = i
  <2> DEFINE j == IndexOf(o, symbol)
  <2>1. /\ j \in 0 .. Len(o) /\ Len(o) \in Nat
        /\ j = 0 => \A n \in 1 .. Len(o) : o[n].symbol # symbol
        /\ j # 0 => o[j].symbol = symbol
    BY <1>1, IndexIs, NodeAt
  <2> HIDE DEF j
  <2>2. j # 0
    BY <2>1
  <2>3. j \in 1 .. Len(o) /\ o[j].symbol = o[i].symbol
    BY <2>1, <2>2
  <2>4. j = i
    BY <1>1, <2>3 DEF Distinct
  <2> QED
    BY <2>4 DEF j
<1>7. T(i) = T(i - 1) + o[i].count
  BY <1>1, TotalCut
<1>8. Part(c, excluded, symbol) = [low |-> T(i - 1), high |-> T(i - 1) + o[i].count]
  BY <1>2, <1>6
<1>9. Part(c, excluded, symbol).low <= got /\ got < Part(c, excluded, symbol).high
  BY <1>4, <1>7, <1>8
<1> HIDE DEF symbol
<1> QED
  BY <1>5, <1>9 DEF o

(***************************************************************************)
(* The followset of one context.                                           *)
(***************************************************************************)

(* The invariant of ContextCounts.                                         *)
LEMMA CountsStart == CountsInit => Sound(context)
  BY NoCountsSound DEF CountsInit

(* A symbol coded keeps the context sound.                                 *)
LEMMA CountsStep == Sound(context) /\ [CountsNext]_countsVars => Sound(context')
<1> SUFFICES ASSUME Sound(context), [CountsNext]_countsVars PROVE Sound(context')
  OBVIOUS
<1>1. CASE CountsNext
  <2>1. PICK symbol \in Symbols : context' = Update(context, symbol)
    BY <1>1 DEF CountsNext, See
  <2> QED
    BY <2>1, UpdateSound
<1>2. CASE UNCHANGED countsVars
  BY <1>2 DEF countsVars
<1> QED
  BY <1>1, <1>2

(* Theorem: through any sequence of symbols coded, a context's statistics  *)
(* are those of its followset's nodes and within bounds.                   *)
THEOREM CountsInductive == CountsSpec => [](Sound(context))
<1>1. Sound(context) /\ [CountsNext]_countsVars => Sound(context)'
  BY CountsStep
<1> QED
  BY CountsStart, <1>1, PTL DEF CountsSpec

(* Theorem: after any sequence of context_Update, total, maximum and size  *)
(* are those of the nodes, and no symbol has two nodes.                    *)
THEOREM StatsStayExact == CountsSpec => []StatsExact
<1>1. Sound(context) => StatsExact
  <2> SUFFICES ASSUME Sound(context) PROVE StatsExact
    OBVIOUS
  <2>1. context.followset \in Seq(Nodes)
    BY SoundNodes
  <2>2. DOMAIN context.followset = 1 .. Len(context.followset)
    BY <2>1, LenProperties
  <2> QED
    BY <2>2 DEF StatsExact, Sound, Exact, Distinct
<1> QED
  BY <1>1, CountsInductive, PTL

(* Theorem: the escape count context_Update raises, lowers, caps and       *)
(* halves stays between 1 and the total.                                   *)
THEOREM EscapesStayBelow == CountsSpec => []EscapesBelowTotal
<1>1. Sound(context) => EscapesBelowTotal
  BY DEF EscapesBelowTotal, Sound
<1> QED
  BY <1>1, CountsInductive, PTL

(* Theorem: whatever is excluded, the statistics given to the coder have   *)
(* an escape to code and stay within CUMULATIVE_PROBABILITY_MAX.           *)
THEOREM AlwaysCodable == CountsSpec => []Codable
<1>1. Sound(context) => Codable
  <2> SUFFICES ASSUME Sound(context), NEW excluded \in SUBSET Symbols,
                      Stats(context, excluded).total_count > 0
               PROVE  LET stats == Stats(context, excluded)
                      IN  /\ 1 <= stats.escape_count
                          /\ stats.escape_count + stats.total_count <= MaxTotal
                          /\ 1 <= stats.max_count /\ stats.max_count <= stats.total_count
    BY DEF Codable
  <2>1. Fits(Stats(context, excluded))
    BY StatsFit
  <2> QED
    BY <2>1 DEF Fits
<1> QED
  BY <1>1, CountsInductive, PTL

(* Theorem: the parts context_Encode's walk finds lie in the total and     *)
(* cover it, and context_Decode's walk leads back to the symbol.           *)
THEOREM PartsAlwaysRoundTrip == CountsSpec => []PartsRoundTrip
<1>1. Sound(context) => PartsRoundTrip
  <2> SUFFICES ASSUME Sound(context), NEW excluded \in SUBSET Symbols
               PROVE  LET open  == SymbolsOf(Open(context, excluded))
                          total == Stats(context, excluded).total_count
                          part  == [s \in open |-> Part(context, excluded, s)]
                      IN  /\ \A s \in open : 0 <= part[s].low /\ part[s].high <= total
                          /\ \A got \in 0 .. total - 1 :
                               \E s \in open : /\ part[s].low <= got /\ got < part[s].high
                                               /\ SymbolAt(context, excluded, got) = s
    BY DEF PartsRoundTrip
  <2> DEFINE open  == SymbolsOf(Open(context, excluded))
             total == Stats(context, excluded).total_count
             part  == [s \in open |-> Part(context, excluded, s)]
             sum   == Total(Open(context, excluded))
  <2>1. context.followset \in Seq(Nodes) /\ Distinct(context.followset)
    BY SoundNodes DEF Sound, Exact
  <2>2. total = sum
    BY StatsFit
  <2>3. ASSUME NEW s \in open
        PROVE  LET p == Part(context, excluded, s)
               IN  /\ p.low \in Nat /\ p.high \in Nat /\ sum \in Nat /\ p.high <= sum
                   /\ \A got \in p.low .. p.high - 1 : SymbolAt(context, excluded, got) = s
    BY <2>1, PartWalk
  <2>4. \A s \in open : part[s] = Part(context, excluded, s)
    OBVIOUS
  <2>5. ASSUME NEW got \in 0 .. sum - 1
        PROVE  \E s \in open : /\ Part(context, excluded, s).low <= got
                               /\ got < Part(context, excluded, s).high
    <3>1. sum \in Nat
      BY <2>1, OpenIs, TotalType
    <3>2. got \in Nat /\ got < sum
      BY <3>1
    <3> QED
      BY <2>1, <3>2, PartsCover
  <2> HIDE DEF open, part, total, sum
  <2>6. ASSUME NEW s \in open PROVE 0 <= part[s].low /\ part[s].high <= total
    BY <2>2, <2>3, <2>4
  <2>7. ASSUME NEW got \in 0 .. total - 1
        PROVE  \E s \in open : /\ part[s].low <= got /\ got < part[s].high
                               /\ SymbolAt(context, excluded, got) = s
    <3>1. PICK s \in open : /\ Part(context, excluded, s).low <= got
                            /\ got < Part(context, excluded, s).high
      BY <2>2, <2>5
    <3>2. got \in Part(context, excluded, s).low .. Part(context, excluded, s).high - 1
      BY <2>2, <2>3, <3>1
    <3> QED
      BY <2>3, <2>4, <3>1, <3>2
  <2> QED
    BY <2>6, <2>7 DEF open, part, total
<1> QED
  BY <1>1, CountsInductive, PTL

(* Theorem: maybe_halve_counts does not forget a symbol seen more than     *)
(* once, and does not make it novel again.                                 *)
THEOREM SeenStays == CountsSpec => HalvingKeepsSeen
<1> DEFINE Kept == \A i \in DOMAIN context.followset :
                     ~IsNovel(context.followset[i]) =>
                       \E j \in DOMAIN context'.followset :
                         /\ context'.followset[j].symbol = context.followset[i].symbol
                         /\ ~IsNovel(context'.followset[j])
<1>1. Sound(context) /\ [CountsNext]_countsVars => [Kept]_countsVars
  <2> SUFFICES ASSUME Sound(context), CountsNext,
                      NEW i \in DOMAIN context.followset, ~IsNovel(context.followset[i])
               PROVE  \E j \in DOMAIN context'.followset :
                        /\ context'.followset[j].symbol = context.followset[i].symbol
                        /\ ~IsNovel(context'.followset[j])
    OBVIOUS
  <2> DEFINE s == context.followset
             h == MaybeHalve(context).followset
             t == context'.followset
             x == s[i]
  <2>1. PICK symbol \in Symbols : context' = Update(context, symbol)
    BY DEF CountsNext, See
  <2>2. /\ Sound(context') /\ Sound(MaybeHalve(context))
        /\ \A z : Has(h, z) => \E y : Has(t, y) /\ y.symbol = z.symbol /\ y.count >= z.count
    BY <2>1, UpdateSound, HalvedSound
  <2>3. /\ s \in Seq(Nodes) /\ h \in Seq(Nodes) /\ t \in Seq(Nodes) /\ context \in Counts
    BY <2>2, SoundNodes
  <2>4. DOMAIN s = 1 .. Len(s) /\ DOMAIN t = 1 .. Len(t)
    BY <2>3, LenProperties
  <2>5. Has(s, x) /\ x \in Nodes /\ x.count \in Nat /\ x.count > IncNovel
    <3>1. Has(s, x)
      BY <2>4 DEF Has
    <3>2. x \in Nodes /\ x.count \in Nat
      BY <2>3, <2>4, NodeAt
    <3> QED
      BY <3>1, <3>2, Constants DEF IsNovel
  <2>6. PICK z : Has(h, z) /\ z.symbol = x.symbol /\ z.count > IncNovel /\ z.count \in Nat
    <3>1. CASE context.total_symbol_count < HalveThreshold
      <4>1. MaybeHalve(context) = context
        BY <2>3, <3>1, MaybeHalveIs
      <4> QED
        BY <2>5, <4>1
    <3>2. CASE ~(context.total_symbol_count < HalveThreshold)
      <4>1. MaybeHalve(context) = Halved(context)
        BY <2>3, <3>2, MaybeHalveIs
      <4>2. h = Halves(s)
        BY <4>1 DEF Halved
      <4>3. x.count \div 2 > 0
        BY <2>5, Constants
      <4>4. x \in Remains
        BY <2>5, <4>3 DEF Remains
      <4>5. Has(h, Lifted(x))
        BY <2>3, <2>5, <4>2, <4>4, HalvesHas
      <4>6. /\ Lifted(x).symbol = x.symbol
            /\ Lifted(x).count = IF x.count \div 2 >= IncNovel + 1
                                 THEN x.count \div 2 ELSE IncNovel + 1
        BY <2>5, LiftedIs
      <4>7. Lifted(x).count > IncNovel /\ Lifted(x).count \in Nat
        BY <2>5, <4>6, Constants
      <4> QED
        BY <4>5, <4>6, <4>7
    <3> QED
      BY <3>1, <3>2
  <2>7. PICK y : Has(t, y) /\ y.symbol = x.symbol /\ y.count >= z.count
    BY <2>2, <2>6
  <2>8. PICK j \in 1 .. Len(t) : t[j] = y
    BY <2>7 DEF Has
  <2>9. y.count \in Nat
    BY <2>3, <2>8, NodeAt
  <2>10. ~(y.count <= IncNovel)
    BY <2>6, <2>7, <2>9, Constants
  <2> HIDE DEF t, s, x, h
  <2>11. j \in DOMAIN t /\ t[j].symbol = x.symbol /\ ~IsNovel(t[j])
    BY <2>4, <2>7, <2>8, <2>10 DEF IsNovel
  <2> QED
    BY <2>11 DEF t, s, x
<1>2. CountsSpec => [][Kept]_countsVars
  BY <1>1, CountsInductive, PTL DEF CountsSpec
<1> QED
  BY <1>2 DEF HalvingKeepsSeen

(***************************************************************************)
(* The two sides of ByteCoder.                                             *)
(***************************************************************************)

(* A state of pzip.c by its fields.                                        *)
State(text, contexts, see, excluded, order) ==
  [text |-> text, contexts |-> contexts, see |-> see, excluded |-> excluded,
   order |-> order]
IsState(p) == p = State(p.text, p.contexts, p.see, p.excluded, p.order)

(* Two states that have read the same and learnt the same.                 *)
Same(p, q) ==
  /\ IsState(p) /\ IsState(q)
  /\ p.text = q.text /\ p.contexts = q.contexts /\ p.see = q.see

(* Its fields.                                                             *)
LEMMA StateIs ==
  ASSUME NEW text, NEW contexts, NEW see, NEW excluded, NEW order
  PROVE  LET p == State(text, contexts, see, excluded, order)
         IN  /\ IsState(p) /\ p.text = text /\ p.contexts = contexts /\ p.see = see
             /\ p.excluded = excluded /\ p.order = order
  BY DEF State, IsState

Names == {"text", "contexts", "see", "excluded", "order"}

(* It is a function of the names of its fields.                            *)
LEMMA Fields ==
  ASSUME NEW p
  PROVE  /\ IsState(p) => p = [i \in Names |-> p[i]]
         /\ \A t, c, a, e, o :
              State(t, c, a, e, o) =
                [i \in Names |-> IF i = "text" THEN t ELSE IF i = "contexts" THEN c
                                ELSE IF i = "see" THEN a ELSE IF i = "excluded" THEN e
                                ELSE o]
<1>1. IsState(p) => p = [i \in Names |-> p[i]]
  BY DEF IsState, State, Names
<1>2. ASSUME NEW t, NEW c, NEW a, NEW e, NEW o
      PROVE  State(t, c, a, e, o) =
               [i \in Names |-> IF i = "text" THEN t ELSE IF i = "contexts" THEN c
                               ELSE IF i = "see" THEN a ELSE IF i = "excluded" THEN e
                               ELSE o]
  BY DEF State, Names
<1> QED
  BY <1>1, <1>2

(* What each of the operations makes of a state.                           *)
LEMMA OpenedIs ==
  ASSUME NEW p, IsState(p), NEW guesses
  PROVE  Opened(p, guesses) = State(p.text, p.contexts, p.see, guesses, AllOrders)
<1> DEFINE f == [i \in Names |-> IF i = "excluded" THEN guesses
                                ELSE IF i = "order" THEN AllOrders ELSE p[i]]
<1>1. Opened(p, guesses) = [p EXCEPT !.excluded = guesses, !.order = AllOrders]
  BY DEF Opened, Cleared
<1>2. p = [i \in Names |-> p[i]]
  BY Fields
<1> HIDE DEF AllOrders
<1>3. [p EXCEPT !.excluded = guesses, !.order = AllOrders] = f
  BY <1>2 DEF Names
<1>4. State(p.text, p.contexts, p.see, guesses, AllOrders) = f
  BY DEF State, Names
<1> QED
  BY <1>1, <1>3, <1>4

(* Symbols are excluded.                                                   *)
LEMMA ExcludeIs ==
  ASSUME NEW p, IsState(p), NEW symbols
  PROVE  Exclude(p, symbols) =
           State(p.text, p.contexts, p.see, p.excluded \union symbols, p.order)
  BY DEF Exclude, IsState, State

(* The deterministic contexts took the byte.                               *)
LEMMA TakenIs ==
  ASSUME NEW p, IsState(p), NEW symbol
  PROVE  Taken(p, symbol) =
           State(Append(p.text, symbol), p.contexts, p.see, p.excluded, NewByte)
<1> DEFINE t == Append(p.text, symbol)
<1>1. Taken(p, symbol) = [p EXCEPT !.text = t, !.order = NewByte]
  BY DEF Taken
<1> HIDE DEF t
<1> DEFINE f == [i \in Names |-> IF i = "text" THEN t
                                ELSE IF i = "order" THEN NewByte ELSE p[i]]
<1>2. p = [i \in Names |-> p[i]]
  BY Fields
<1>3. [p EXCEPT !.text = t, !.order = NewByte] = f
  BY <1>2 DEF Names
<1>4. State(t, p.contexts, p.see, p.excluded, NewByte) = f
  BY DEF State, Names
<1> QED
  BY <1>1, <1>3, <1>4 DEF t

(* The orders below are tried.                                             *)
LEMMA GoOnIs ==
  ASSUME NEW p, IsState(p), NEW below
  PROVE  GoOn(p, below) = State(p.text, p.contexts, p.see, p.excluded, below)
  BY DEF GoOn, IsState, State

(* A SEE state is told.                                                    *)
LEMMA AdjustIs ==
  ASSUME NEW p, IsState(p), NEW state, NEW escape
  PROVE  Adjust(p, state, escape) =
           State(p.text, p.contexts,
                 IF state = <<>> THEN p.see ELSE Append(p.see, <<state, escape>>),
                 p.excluded, p.order)
<1>1. CASE state = <<>>
  BY <1>1 DEF Adjust, IsState
<1>2. CASE state # <<>>
  <2>1. Adjust(p, state, escape) = [p EXCEPT !.see = Append(p.see, <<state, escape>>)]
    BY <1>2 DEF Adjust
  <2> DEFINE a == Append(p.see, <<state, escape>>)
  <2> HIDE DEF a
  <2>2. [p EXCEPT !.see = a] = State(p.text, p.contexts, a, p.excluded, p.order)
    BY DEF IsState, State
  <2> QED
    BY <1>2, <2>1, <2>2 DEF a
<1> QED
  BY <1>1, <1>2

(* What the contexts become when a byte is learnt.                         *)
Taught(p, symbol, k) == Placed([p EXCEPT !.contexts = Learnt(p, symbol, k)], k)

(* The byte is learnt.                                                     *)
LEMMA LearnIs ==
  ASSUME NEW p, IsState(p), NEW symbol, NEW k, NEW next
  PROVE  Learn(p, symbol, k, next) <=>
           next = State(Append(p.text, symbol), Taught(p, symbol, k),
                        Adjusted(p, symbol, k), p.excluded, NewByte)
<1> DEFINE c == Taught(p, symbol, k)
           a == Adjusted(p, symbol, k)
           t == Append(p.text, symbol)
<1>1. Learn(p, symbol, k, next) <=>
        next = [p EXCEPT !.contexts = c, !.see = a, !.text = t, !.order = NewByte]
  BY DEF Learn, Taught
<1> HIDE DEF c, a, t
<1> DEFINE f == [i \in Names |-> IF i = "text" THEN t ELSE IF i = "contexts" THEN c
                                ELSE IF i = "see" THEN a ELSE IF i = "order" THEN NewByte
                                ELSE p[i]]
<1>2. p = [i \in Names |-> p[i]]
  BY Fields
<1>3. [p EXCEPT !.contexts = c, !.see = a, !.text = t, !.order = NewByte] = f
  BY <1>2 DEF Names
<1>4. State(t, c, a, p.excluded, NewByte) = f
  BY DEF State, Names
<1> QED
  BY <1>1, <1>3, <1>4 DEF c, a, t

(* What two such states have in common: the active contexts, ...           *)
LEMMA SameActive ==
  ASSUME NEW p, NEW q, Same(p, q)
  PROVE  \A k : Active(p, k) = Active(q, k)
  BY DEF Same, Active, SuffixOf

(* ... the SEE states these lead to, ...                                   *)
LEMMA SameSeeState ==
  ASSUME NEW p, NEW q, Same(p, q)
  PROVE  \A k, escapes, total : SeeState(p, k, escapes, total) = SeeState(q, k, escapes, total)
<1> SUFFICES ASSUME NEW k, NEW escapes, NEW total
             PROVE  SeeState(p, k, escapes, total) = SeeState(q, k, escapes, total)
  OBVIOUS
<1>1. Active(p, k) = Active(q, k) /\ Active(p, k - 1) = Active(q, k - 1) /\ p.text = q.text
  BY SameActive DEF Same
<1> QED
  BY <1>1 DEF SeeState

(* ... the contexts after the byte, ...                                    *)
LEMMA SameLearnt ==
  ASSUME NEW p, NEW q, Same(p, q), NEW symbol, NEW k
  PROVE  Learnt(p, symbol, k) = Learnt(q, symbol, k)
<1> DEFINE learners == {SuffixOf(p.text, j) : j \in k .. TopOrder}
           D == learners \union DOMAIN p.contexts
           v(x, suffix) ==
             IF suffix \in learners
             THEN [counts    |-> Update(Active(x, Len(suffix)).counts, symbol),
                   see_state |-> Active(x, Len(suffix)).see_state]
             ELSE p.contexts[suffix]
<1>1. Learnt(p, symbol, k) = [suffix \in D |-> v(p, suffix)]
  BY DEF Learnt
<1>2. p.text = q.text /\ p.contexts = q.contexts
  BY DEF Same
<1>3. Learnt(q, symbol, k) = [suffix \in D |-> v(q, suffix)]
  BY <1>2 DEF Learnt
<1> HIDE DEF D, learners
<1>4. \A suffix : v(p, suffix) = v(q, suffix)
  BY SameActive
<1> HIDE DEF v
<1> QED
  BY <1>1, <1>3, <1>4

(* ... placed in their SEE states, ...                                     *)
LEMMA SamePlaced ==
  ASSUME NEW p, NEW q, Same(p, q), NEW k
  PROVE  Placed(p, k) = Placed(q, k)
<1> DEFINE learners == {SuffixOf(p.text, j) : j \in k .. TopOrder}
           state(x, c, j) == SeeState(x, j, c.escape_count, c.total_symbol_count)
           v(x, suffix) ==
             IF suffix \in learners
             THEN [counts    |-> p.contexts[suffix].counts,
                   see_state |-> state(x, p.contexts[suffix].counts, Len(suffix))]
             ELSE p.contexts[suffix]
<1>1. Placed(p, k) = [suffix \in DOMAIN p.contexts |-> v(p, suffix)]
  BY DEF Placed
<1>2. p.text = q.text /\ p.contexts = q.contexts
  BY DEF Same
<1>3. Placed(q, k) = [suffix \in DOMAIN p.contexts |-> v(q, suffix)]
  BY <1>2 DEF Placed
<1> HIDE DEF learners
<1>4. \A suffix : v(p, suffix) = v(q, suffix)
  BY SameSeeState
<1> HIDE DEF v
<1> QED
  BY <1>1, <1>3, <1>4

(* ... both together, ...                                                  *)
LEMMA SameTaught ==
  ASSUME NEW p, NEW q, Same(p, q), NEW symbol, NEW k
  PROVE  Taught(p, symbol, k) = Taught(q, symbol, k)
<1> DEFINE l == Learnt(p, symbol, k)
           r(x) == [x EXCEPT !.contexts = l]
<1>1. Learnt(q, symbol, k) = l
  BY SameLearnt
<1> HIDE DEF l
<1>2. Same(r(p), r(q))
  <2>1. \A x : IsState(x) => r(x) = State(x.text, l, x.see, x.excluded, x.order)
    BY DEF IsState, State
  <2>2. r(p) = State(p.text, l, p.see, p.excluded, p.order)
        /\ r(q) = State(q.text, l, q.see, q.excluded, q.order)
        /\ p.text = q.text /\ p.see = q.see
    BY <2>1 DEF Same
  <2> HIDE DEF r
  <2> QED
    BY <2>2, StateIs DEF Same
<1>3. Placed(r(p), k) = Placed(r(q), k)
  <2> HIDE DEF r
  <2> QED
    BY <1>2, SamePlaced
<1> QED
  BY <1>1, <1>3 DEF Taught, l

(* ... and the SEE states that are told of the byte.                       *)
LEMMA SameAdjusted ==
  ASSUME NEW p, NEW q, Same(p, q), NEW symbol, NEW k
  PROVE  Adjusted(p, symbol, k) = Adjusted(q, symbol, k)
<1> DEFINE told(x) == [i \in 1 .. TopOrder + 1 - k |->
                         LET c == Active(x, k + i - 1)
                         IN  <<c.see_state, IsFirst(c.counts, symbol)>>]
<1>1. told(p) = told(q)
  BY SameActive
<1>2. p.see = q.see
  BY DEF Same
<1>3. \A x : Adjusted(x, symbol, k) =
               x.see \o SelectSeq(told(x), LAMBDA entry : entry[1] # <<>>)
  BY DEF Adjusted
<1> HIDE DEF told
<1> QED
  BY <1>1, <1>2, <1>3

(***************************************************************************)
(* What is true of a side that has coded the file so far.                  *)
(***************************************************************************)
Files == [1 .. FileLength -> Symbols]

(* The orders, the seeds and the length of the file.                       *)
LEMMA Sizes ==
  /\ TopOrder \in Nat /\ TopOrder > 0
  /\ Seeds \in Nat /\ TopOrder <= Seeds
  /\ FileLength \in Nat /\ Seeds <= FileLength
  BY OrdersAssumption, FilesAssumption

(* The first bytes of a file.                                              *)
LEMMA FileIs ==
  ASSUME NEW f \in Files, NEW n \in 0 .. FileLength
  PROVE  /\ SubSeq(f, 1, n) \in Seq(Symbols)
         /\ Len(SubSeq(f, 1, n)) = n
         /\ \A i \in 1 .. n : SubSeq(f, 1, n)[i] = f[i]
<1>1. \A i \in 1 .. n : f[i] \in Symbols
  BY Sizes DEF Files
<1>2. /\ SubSeq(f, 1, n) \in Seq(Symbols)
      /\ Len(SubSeq(f, 1, n)) = IF 1 <= n THEN n - 1 + 1 ELSE 0
      /\ \A i \in 1 .. n - 1 + 1 : SubSeq(f, 1, n)[i] = f[1 + i - 1]
  BY <1>1, SubSeqProperties
<1> QED
  BY <1>2

(* One byte more.                                                          *)
LEMMA FileNext ==
  ASSUME NEW f \in Files, NEW n \in 0 .. FileLength - 1
  PROVE  /\ f[n + 1] \in Symbols
         /\ Append(SubSeq(f, 1, n), f[n + 1]) = SubSeq(f, 1, n + 1)
<1>1. f[n + 1] \in Symbols
  BY Sizes DEF Files
<1> DEFINE s == SubSeq(f, 1, n)
           t == SubSeq(f, 1, n + 1)
           a == Append(s, f[n + 1])
<1>2. s \in Seq(Symbols) /\ Len(s) = n /\ \A i \in 1 .. n : s[i] = f[i]
  BY Sizes, FileIs
<1>3. /\ t \in Seq(Symbols) /\ Len(t) = n + 1
      /\ \A i \in 1 .. n + 1 : t[i] = f[i]
  BY Sizes, FileIs
<1> HIDE DEF s, t
<1>4. /\ a \in Seq(Symbols) /\ Len(a) = n + 1
      /\ \A i \in 1 .. n : a[i] = s[i]
      /\ a[n + 1] = f[n + 1]
  BY <1>1, <1>2, AppendProperties
<1> HIDE DEF a
<1>5. \A i \in 1 .. n + 1 : a[i] = t[i]
  BY <1>2, <1>3, <1>4
<1>6. a = t
  BY <1>3, <1>4, <1>5, SeqEqual
<1> QED
  BY <1>1, <1>6 DEF a, s, t

Soundly(contexts) == \A suffix \in DOMAIN contexts : Sound(contexts[suffix].counts)

(* pzip.c has read the file f so far, ...                                  *)
HasRead(f, p) ==
  /\ IsState(p)
  /\ Len(p.text) \in 0 .. FileLength
  /\ p.text = SubSeq(f, 1, Len(p.text))
  /\ Soundly(p.contexts)

(* ... and no exclusion rules its next byte out.                           *)
Reading(f, p) ==
  /\ HasRead(f, p)
  /\ p.order # NewByte =>
       Len(p.text) < FileLength /\ f[Len(p.text) + 1] \notin p.excluded

(* Both sides start so, with the seed bytes read.                          *)
LEMMA ReadsStart ==
  ASSUME NEW f \in Files
  PROVE  Reading(f, Start(f)) /\ Start(f).order = NewByte
<1>1. Start(f) = State(SubSeq(f, 1, Seeds), <<>>, <<>>, {}, NewByte)
  BY DEF Start, State
<1>2. Len(SubSeq(f, 1, Seeds)) = Seeds
  BY FileIs, Sizes
<1>3. DOMAIN <<>> = {}
  OBVIOUS
<1> DEFINE p == Start(f)
           t == SubSeq(f, 1, Seeds)
           c == <<>>
<1> HIDE DEF p, t, c
<1>4. /\ IsState(p) /\ p.text = t /\ p.contexts = c /\ p.order = NewByte
  <2>1. p = State(t, c, c, {}, NewByte)
    BY <1>1 DEF p, t, c
  <2> HIDE DEF NewByte
  <2> QED
    BY <2>1, StateIs
<1>5. Soundly(p.contexts)
  BY <1>3, <1>4 DEF Soundly, c
<1> QED
  BY <1>2, <1>4, <1>5, Sizes DEF Reading, HasRead, p, t

(* Every active context is sound, the new ones too.                        *)
LEMMA ActiveSound ==
  ASSUME NEW p, Soundly(p.contexts)
  PROVE  \A k : Sound(Active(p, k).counts)
<1> SUFFICES ASSUME NEW k PROVE Sound(Active(p, k).counts)
  OBVIOUS
<1>1. NewContext.counts = NoCounts
  BY DEF NewContext
<1> QED
  BY <1>1, NoCountsSound DEF Active, Soundly

(* Learning a byte keeps the contexts sound.                               *)
LEMMA TaughtSound ==
  ASSUME NEW p, IsState(p), Soundly(p.contexts), NEW symbol \in Symbols, NEW k
  PROVE  Soundly(Taught(p, symbol, k))
<1> DEFINE learners == {SuffixOf(p.text, j) : j \in k .. TopOrder}
           D == learners \union DOMAIN p.contexts
           v(suffix) ==
             IF suffix \in learners
             THEN [counts    |-> Update(Active(p, Len(suffix)).counts, symbol),
                   see_state |-> Active(p, Len(suffix)).see_state]
             ELSE p.contexts[suffix]
           l == Learnt(p, symbol, k)
<1>1. l = [suffix \in D |-> v(suffix)]
  BY DEF Learnt
<1>2. ASSUME NEW suffix \in D PROVE Sound(v(suffix).counts)
  <2>1. CASE suffix \in learners
    <3>1. v(suffix).counts = Update(Active(p, Len(suffix)).counts, symbol)
      BY <2>1
    <3> QED
      BY <3>1, ActiveSound, UpdateSound
  <2>2. CASE suffix \notin learners
    BY <2>2 DEF Soundly
  <2> QED
    BY <2>1, <2>2
<1> HIDE DEF learners, v
<1>3. DOMAIN l = D /\ \A suffix \in D : Sound(l[suffix].counts)
  BY <1>1, <1>2
<1> HIDE DEF l, D
<1> DEFINE q == [p EXCEPT !.contexts = l]
           taught == {SuffixOf(q.text, j) : j \in k .. TopOrder}
           state(c, j) == SeeState(q, j, c.escape_count, c.total_symbol_count)
           w(suffix) ==
             IF suffix \in taught
             THEN [counts    |-> q.contexts[suffix].counts,
                   see_state |-> state(q.contexts[suffix].counts, Len(suffix))]
             ELSE q.contexts[suffix]
<1>4. Taught(p, symbol, k) = [suffix \in DOMAIN q.contexts |-> w(suffix)]
  BY DEF Taught, Placed, l
<1>5. q.contexts = l
  BY DEF IsState, State
<1> HIDE DEF taught, q
<1>6. \A suffix : w(suffix).counts = l[suffix].counts
  BY <1>5
<1> HIDE DEF w
<1> QED
  BY <1>3, <1>4, <1>5, <1>6 DEF Soundly

(* A list of calls, and one that begins with another.                      *)
IsList(s) == \E D : s \in Seq(D)

Begins(made, now) ==
  /\ Len(made) \in Nat /\ Len(now) \in Nat /\ Len(made) <= Len(now)
  /\ \A i \in 1 .. Len(made) : now[i] = made[i]

(* A list begins with itself.                                              *)
LEMMA BeginsSelf ==
  ASSUME NEW s, IsList(s)
  PROVE  Begins(s, s)
<1>1. PICK D : s \in Seq(D)
  BY DEF IsList
<1> QED
  BY <1>1, LenProperties DEF Begins

(* Beginnings of beginnings.                                               *)
LEMMA BeginsFurther ==
  ASSUME NEW r, NEW s, NEW t, Begins(r, s), Begins(s, t)
  PROVE  Begins(r, t)
  BY DEF Begins

(* One call more.                                                          *)
LEMMA ListAppend ==
  ASSUME NEW s, IsList(s), NEW e
  PROVE  /\ IsList(Append(s, e)) /\ Begins(s, Append(s, e))
         /\ Len(Append(s, e)) = Len(s) + 1
         /\ Append(s, e)[Len(s) + 1] = e
<1>1. PICK D : s \in Seq(D)
  BY DEF IsList
<1> DEFINE S == D \union {e}
           a == Append(s, e)
<1>2. s \in Seq(S) /\ e \in S
  BY <1>1, SeqMonotonic
<1>3. /\ a \in Seq(S) /\ Len(a) = Len(s) + 1
      /\ \A i \in 1 .. Len(s) : a[i] = s[i]
      /\ a[Len(s) + 1] = e
  BY <1>2, AppendProperties
<1>4. Len(s) \in Nat /\ Len(a) \in Nat
  BY <1>2, <1>3, LenProperties
<1> HIDE DEF a, S
<1> QED
  BY <1>3, <1>4 DEF IsList, Begins, a

(* Two calls more.                                                         *)
LEMMA ListAppendTwo ==
  ASSUME NEW s, IsList(s), NEW d, NEW e
  PROVE  /\ IsList(s \o <<d, e>>) /\ Begins(s, s \o <<d, e>>)
         /\ Len(s \o <<d, e>>) = Len(s) + 2
         /\ (s \o <<d, e>>)[Len(s) + 1] = d
         /\ (s \o <<d, e>>)[Len(s) + 2] = e
<1>1. PICK D : s \in Seq(D)
  BY DEF IsList
<1> DEFINE S == D \union {d, e}
           b == <<d, e>>
           a == s \o b
<1>2. s \in Seq(S) /\ b \in Seq(S)
  BY <1>1, SeqMonotonic
<1>3. Len(b) = 2 /\ b[1] = d /\ b[2] = e
  OBVIOUS
<1> HIDE DEF b, S
<1>4. /\ a \in Seq(S) /\ Len(a) = Len(s) + Len(b)
      /\ \A i \in 1 .. Len(s) + Len(b) :
           a[i] = IF i <= Len(s) THEN s[i] ELSE b[i - Len(s)]
  BY <1>2, ConcatProperties
<1>5. Len(s) \in Nat /\ Len(a) \in Nat
  BY <1>2, <1>4, LenProperties
<1> HIDE DEF a
<1>6. Len(a) = Len(s) + 2 /\ a[Len(s) + 1] = d /\ a[Len(s) + 2] = e
  BY <1>3, <1>4, <1>5
<1>7. \A i \in 1 .. Len(s) : a[i] = s[i]
  BY <1>3, <1>4, <1>5
<1> QED
  BY <1>4, <1>5, <1>6, <1>7 DEF IsList, Begins, a, b

(***************************************************************************)
(* A step of the encoder.                                                  *)
(***************************************************************************)
Due(f, p) == f[Len(p.text) + 1]

EncodeStep(f, p, made, next, now) ==
  \/ /\ p.order = NewByte /\ Len(p.text) < FileLength
     /\ EncodeGuess(p, Due(f, p), made, next, now)
  \/ /\ p.order \in 1 .. AllOrders
     /\ EncodeWith(p, ChooseContext(p), Due(f, p), made, next, now)
  \/ /\ p.order = 0
     /\ EncodeRest(p, Due(f, p), made, next, now)

(* The values of order tell the three kinds of step apart.                 *)
LEMMA Orders ==
  /\ NewByte \in Nat /\ AllOrders \in Nat
  /\ NewByte \notin 1 .. AllOrders /\ NewByte # 0 /\ AllOrders # NewByte
  BY OrdersAssumption DEF NewByte, AllOrders

(* With the byte that is due, the text is still a beginning of the file.   *)
LEMMA DueIs ==
  ASSUME NEW f \in Files, NEW p, HasRead(f, p), Len(p.text) < FileLength
  PROVE  /\ Due(f, p) \in Symbols
         /\ Len(Append(p.text, Due(f, p))) \in 0 .. FileLength
         /\ Append(p.text, Due(f, p)) = SubSeq(f, 1, Len(Append(p.text, Due(f, p))))
<1> DEFINE n == Len(p.text)
<1>1. n \in 0 .. FileLength - 1 /\ p.text = SubSeq(f, 1, n)
  BY Sizes DEF HasRead
<1>2. Append(p.text, f[n + 1]) = SubSeq(f, 1, n + 1) /\ f[n + 1] \in Symbols
  BY <1>1, FileNext
<1>3. n + 1 \in 0 .. FileLength
  BY <1>1, Sizes
<1>4. Len(SubSeq(f, 1, n + 1)) = n + 1
  BY <1>3, FileIs
<1> QED
  BY <1>2, <1>3, <1>4 DEF Due

(* A byte has been learnt, ...                                             *)
LEMMA LearnReads ==
  ASSUME NEW f \in Files, NEW p, HasRead(f, p), Len(p.text) < FileLength,
         NEW k, NEW next, Learn(p, Due(f, p), k, next)
  PROVE  Reading(f, next) /\ next.order = NewByte
<1> DEFINE t == Append(p.text, Due(f, p))
           c == Taught(p, Due(f, p), k)
           a == Adjusted(p, Due(f, p), k)
<1>1. IsState(p)
  BY DEF HasRead
<1>2. next = State(t, c, a, p.excluded, NewByte)
  BY <1>1, LearnIs
<1>3. Soundly(c)
  BY <1>1, DueIs, TaughtSound DEF HasRead
<1>4. Len(t) \in 0 .. FileLength /\ t = SubSeq(f, 1, Len(t))
  BY DueIs
<1> HIDE DEF t, c, a
<1>5. /\ IsState(next) /\ next.text = t /\ next.contexts = c /\ next.order = NewByte
  BY <1>2, StateIs
<1> QED
  BY <1>3, <1>4, <1>5 DEF Reading, HasRead

(* ... or taken without being learnt.                                      *)
LEMMA TakenReads ==
  ASSUME NEW f \in Files, NEW p, HasRead(f, p), Len(p.text) < FileLength
  PROVE  Reading(f, Taken(p, Due(f, p))) /\ Taken(p, Due(f, p)).order = NewByte
<1> DEFINE t == Append(p.text, Due(f, p))
           next == Taken(p, Due(f, p))
<1>2. next = State(t, p.contexts, p.see, p.excluded, NewByte)
  BY TakenIs DEF HasRead
<1>4. Len(t) \in 0 .. FileLength /\ t = SubSeq(f, 1, Len(t))
  BY DueIs
<1> HIDE DEF t, next
<1>5. /\ IsState(next) /\ next.text = t /\ next.contexts = p.contexts
      /\ next.order = NewByte
  BY <1>2, StateIs
<1> QED
  BY <1>4, <1>5 DEF Reading, HasRead, next

(* Opening, excluding, adjusting and going on do not change what was read. *)
LEMMA StillReads ==
  ASSUME NEW f, NEW p, HasRead(f, p), NEW see, NEW excluded, NEW order
  PROVE  HasRead(f, State(p.text, p.contexts, see, excluded, order))
<1> DEFINE next == State(p.text, p.contexts, see, excluded, order)
<1>1. IsState(next) /\ next.text = p.text /\ next.contexts = p.contexts
  BY StateIs
<1> HIDE DEF next
<1>2. HasRead(f, next)
  BY <1>1 DEF HasRead
<1> QED
  BY <1>2 DEF next

(* What a step keeps of the reading side and of its calls.                 *)
Advances(f, made, next, now) ==
  /\ Reading(f, next)
  /\ IsList(now) /\ Begins(made, now)

(* A byte begins: the guess that failed is not that byte.                  *)
LEMMA OpenedReads ==
  ASSUME NEW f, NEW p, HasRead(f, p), Len(p.text) < FileLength,
         NEW guesses, Due(f, p) \notin guesses
  PROVE  Reading(f, Opened(p, guesses))
<1> DEFINE next == Opened(p, guesses)
<1>1. next = State(p.text, p.contexts, p.see, guesses, AllOrders)
  BY OpenedIs DEF HasRead
<1>2. HasRead(f, next)
  BY <1>1, StillReads
<1>3. next.text = p.text /\ next.excluded = guesses
  BY <1>1, StateIs
<1> HIDE DEF next
<1> QED
  BY <1>2, <1>3 DEF Reading, Due, next

(* deterministic_Encode.                                                   *)
LEMMA GuessStep ==
  ASSUME NEW f \in Files, NEW p, Reading(f, p), Len(p.text) < FileLength,
         NEW made, IsList(made), NEW next, NEW now,
         EncodeGuess(p, Due(f, p), made, next, now)
  PROVE  Advances(f, made, next, now)
<1> DEFINE guess == Predict(p.text)
           symbol == Due(f, p)
<1>1. HasRead(f, p)
  BY DEF Reading
<1>2. CASE guess = None /\ next = Opened(p, {}) /\ now = made
  BY <1>1, <1>2, OpenedReads, BeginsSelf DEF Advances
<1>3. CASE /\ guess # None
           /\ next = IF guess = symbol THEN Taken(Opened(p, {guess}), symbol)
                                       ELSE Opened(p, {guess})
           /\ now = Append(made, PredictionCall(guess = symbol))
  <2>1. IsList(now) /\ Begins(made, now)
    BY <1>3, ListAppend
  <2>2. CASE guess # symbol
    <3>1. next = Opened(p, {guess}) /\ symbol \notin {guess}
      BY <1>3, <2>2
    <3>2. Reading(f, next)
      BY <1>1, <3>1, OpenedReads
    <3> QED
      BY <2>1, <3>2 DEF Advances
  <2>3. CASE guess = symbol
    <3> DEFINE q == Opened(p, {guess})
    <3>1. q = State(p.text, p.contexts, p.see, {guess}, AllOrders)
      BY <1>1, OpenedIs DEF HasRead
    <3>2. HasRead(f, q)
      BY <1>1, <3>1, StillReads
    <3>3. q.text = p.text
      BY <3>1, StateIs
    <3>4. next = Taken(q, symbol)
      BY <1>3, <2>3
    <3> HIDE DEF q
    <3>5. Due(f, q) = symbol
      BY <3>3 DEF Due
    <3>6. Reading(f, next)
      BY <3>2, <3>3, <3>4, <3>5, TakenReads
    <3> QED
      BY <2>1, <3>6 DEF Advances
  <2> QED
    BY <2>2, <2>3
<1> QED
  BY <1>2, <1>3 DEF EncodeGuess

(* What a context that is tried leaves: told of the escape, and its        *)
(* symbols excluded.                                                       *)
Told(p, k, escape, symbols) == Exclude(Adjust(p, CodingState(p, k), escape), symbols)

SeeAfter(p, k, escape) ==
  IF CodingState(p, k) = <<>> THEN p.see
  ELSE Append(p.see, <<CodingState(p, k), escape>>)

(* The fields of that state.                                               *)
LEMMA ToldIs ==
  ASSUME NEW p, IsState(p), NEW k, NEW escape, NEW symbols
  PROVE  /\ Adjust(p, CodingState(p, k), escape) =
              State(p.text, p.contexts, SeeAfter(p, k, escape), p.excluded, p.order)
         /\ Told(p, k, escape, symbols) =
              State(p.text, p.contexts, SeeAfter(p, k, escape),
                    p.excluded \union symbols, p.order)
<1> DEFINE a == Adjust(p, CodingState(p, k), escape)
           see == SeeAfter(p, k, escape)
<1>1. a = State(p.text, p.contexts, see, p.excluded, p.order)
  BY AdjustIs DEF SeeAfter
<1> HIDE DEF a, see
<1>2. /\ IsState(a) /\ a.text = p.text /\ a.contexts = p.contexts /\ a.see = see
      /\ a.excluded = p.excluded /\ a.order = p.order
  BY <1>1, StateIs
<1>3. Exclude(a, symbols) = State(p.text, p.contexts, see, p.excluded \union symbols, p.order)
  BY <1>2, ExcludeIs
<1> QED
  BY <1>1, <1>3 DEF Told, a, see

(* The context's symbols are those of its open nodes, and the excluded.    *)
LEMMA NotFound ==
  ASSUME NEW c, c.followset \in Seq(Nodes), NEW excluded, NEW symbol,
         symbol \notin excluded, symbol \notin SymbolsOf(Open(c, excluded))
  PROVE  symbol \notin SymbolsOf(c.followset)
<1> SUFFICES ASSUME symbol \in SymbolsOf(c.followset) PROVE FALSE
  OBVIOUS
<1>1. PICK x : Has(c.followset, x) /\ x.symbol = symbol
  BY SymbolsHas
<1>2. Open(c, excluded) \in Seq(Nodes) /\ Has(Open(c, excluded), x)
  BY <1>1, OpenIs
<1> QED
  BY <1>1, <1>2, SymbolsHas

(* context_Encode of any order: if the byte is not among the open symbols, *)
(* it is not among the symbols then excluded.                              *)
LEMMA TryStep ==
  ASSUME NEW f \in Files, NEW p, Reading(f, p), p.order # NewByte, NEW k,
         NEW made, IsList(made), NEW next, NEW now,
         EncodeWith(p, k, Due(f, p), made, next, now)
  PROVE  Advances(f, made, next, now)
<1> DEFINE c == Active(p, k).counts
           symbol == Due(f, p)
           found == symbol \in SymbolsOf(Open(c, p.excluded))
<1>1. HasRead(f, p) /\ IsState(p) /\ Len(p.text) < FileLength /\ symbol \notin p.excluded
  BY DEF Reading, HasRead, Due
<1>2. c.followset \in Seq(Nodes)
  BY <1>1, ActiveSound, SoundNodes DEF HasRead
<1>3. CASE ~Offers(p, k) /\ next = GoOn(p, k) /\ now = made
  <2>1. next = State(p.text, p.contexts, p.see, p.excluded, k)
    BY <1>1, <1>3, GoOnIs
  <2>2. HasRead(f, next) /\ next.text = p.text /\ next.excluded = p.excluded
    BY <1>1, <2>1, StillReads, StateIs
  <2> QED
    BY <1>1, <1>3, <2>2, BeginsSelf DEF Advances, Reading, Due
<1>4. ASSUME Offers(p, k), NEW told, told = Told(p, k, ~found, SymbolsOf(c.followset)),
             \/ /\ ~found
                /\ next = GoOn(told, k)
                /\ now = Append(made, EscapeCall(p, k, TRUE))
             \/ /\ found
                /\ Learn(told, symbol, k, next)
                /\ now = made \o <<EscapeCall(p, k, FALSE), SymbolCall(p, k, symbol)>>
      PROVE  Advances(f, made, next, now)
  <2> DEFINE see == SeeAfter(p, k, ~found)
             all == p.excluded \union SymbolsOf(c.followset)
  <2>1. told = State(p.text, p.contexts, see, all, p.order)
    BY <1>1, <1>4, ToldIs
  <2> HIDE DEF see
  <2>2. /\ HasRead(f, told) /\ IsState(told) /\ told.text = p.text
        /\ told.see = see /\ told.contexts = p.contexts /\ told.excluded = all
    <3> HIDE DEF all, symbol
    <3> QED
      BY <1>1, <2>1, StillReads, StateIs
  <2>3. CASE ~found /\ next = GoOn(told, k)
             /\ now = Append(made, EscapeCall(p, k, TRUE))
    <3>1. next = State(told.text, told.contexts, told.see, told.excluded, k)
      BY <2>2, <2>3, GoOnIs
    <3>2. HasRead(f, next) /\ next.text = p.text /\ next.excluded = all
      <4> HIDE DEF all, symbol
      <4> QED
        BY <2>2, <3>1, StillReads, StateIs
    <3>3. symbol \notin all
      BY <1>1, <1>2, <2>3, NotFound
    <3>4. Reading(f, next)
      <4> HIDE DEF all
      <4> QED
        BY <1>1, <3>2, <3>3 DEF Reading, Due
    <3> QED
      BY <2>3, <3>4, ListAppend DEF Advances
  <2>4. CASE found /\ Learn(told, symbol, k, next)
             /\ now = made \o <<EscapeCall(p, k, FALSE), SymbolCall(p, k, symbol)>>
    <3>1. Due(f, told) = symbol
      BY <2>2 DEF Due
    <3>2. Reading(f, next)
      <4> HIDE DEF symbol
      <4> QED
        BY <1>1, <2>2, <2>4, <3>1, LearnReads
    <3> QED
      BY <2>4, <3>2, ListAppendTwo DEF Advances
  <2> QED
    BY <1>4, <2>3, <2>4
<1> QED
  BY <1>3, <1>4 DEF EncodeWith, Told

(* order_minus_one_Encode.                                                 *)
LEMMA RestStep ==
  ASSUME NEW f \in Files, NEW p, Reading(f, p), p.order # NewByte,
         NEW made, IsList(made), NEW next, NEW now,
         EncodeRest(p, Due(f, p), made, next, now)
  PROVE  Advances(f, made, next, now)
<1>1. HasRead(f, p) /\ Len(p.text) < FileLength
  BY DEF Reading
<1>2. Learn(p, Due(f, p), 0, next) /\ now = Append(made, LastCall(p, Due(f, p)))
  BY DEF EncodeRest
<1>3. Reading(f, next)
  BY <1>1, <1>2, LearnReads
<1> QED
  BY <1>2, <1>3, ListAppend DEF Advances

(* Every step of the encoder.                                              *)
LEMMA StepAdvances ==
  ASSUME NEW f \in Files, NEW p, Reading(f, p), NEW made, IsList(made),
         NEW next, NEW now, EncodeStep(f, p, made, next, now)
  PROVE  Advances(f, made, next, now)
<1>1. CASE p.order = NewByte /\ Len(p.text) < FileLength
           /\ EncodeGuess(p, Due(f, p), made, next, now)
  BY <1>1, GuessStep
<1>2. CASE p.order \in 1 .. AllOrders
           /\ EncodeWith(p, ChooseContext(p), Due(f, p), made, next, now)
  <2>1. p.order # NewByte
    BY <1>2, Orders
  <2> QED
    BY <1>2, <2>1, TryStep
<1>3. CASE p.order = 0 /\ EncodeRest(p, Due(f, p), made, next, now)
  <2>1. p.order # NewByte
    BY <1>3, Orders
  <2> QED
    BY <1>3, <2>1, RestStep
<1> QED
  BY <1>1, <1>2, <1>3 DEF EncodeStep

(***************************************************************************)
(* The decoder at a step of the encoder.                                   *)
(***************************************************************************)

(* The decoder's state, where the encoder was in p.  Between two bytes     *)
(* their exclusions differ, which the next byte clears.                    *)
Matches(p, q) ==
  /\ Same(p, q) /\ p.order = q.order
  /\ p.order # NewByte => p = q

Caught(next, now) ==
  /\ side' = "decode" /\ heard' = Len(now)
  /\ Matches(next, pzip')

(* Equal states match.                                                     *)
LEMMA MatchSelf ==
  ASSUME NEW p, IsState(p)
  PROVE  Matches(p, p)
  BY DEF Matches, Same

(* Two states match that differ in what is excluded between two bytes.     *)
LEMMA MatchStates ==
  ASSUME NEW t, NEW c, NEW s, NEW e1, NEW e2, NEW o, o = NewByte \/ e1 = e2
  PROVE  Matches(State(t, c, s, e1, o), State(t, c, s, e2, o))
<1> DEFINE p == State(t, c, s, e1, o)
           q == State(t, c, s, e2, o)
<1>1. /\ IsState(p) /\ p.text = t /\ p.contexts = c /\ p.see = s /\ p.order = o
      /\ IsState(q) /\ q.text = t /\ q.contexts = c /\ q.see = s /\ q.order = o
  BY StateIs
<1>2. o # NewByte => p = q
  OBVIOUS
<1> HIDE DEF p, q
<1>3. Matches(p, q)
  BY <1>1, <1>2 DEF Matches, Same
<1> QED
  BY <1>3 DEF p, q

(* What the coder answers, when the call is one that was made.             *)
LEMMA Answered ==
  ASSUME NEW made, NEW now, Begins(now, calls), heard = Len(made),
         NEW n, n \in {1, 2}, Len(made) \in Nat, Len(now) \in Nat, Len(made) + n <= Len(now)
  PROVE  /\ heard + n <= Len(calls) /\ calls[heard + n] = now[Len(made) + n]
         /\ \A call : Answers(heard + n, call) <=> call = now[Len(made) + n]
<1>1. heard + n \in 1 .. Len(now)
  OBVIOUS
<1>2. heard + n <= Len(calls) /\ calls[heard + n] = now[heard + n]
  BY <1>1 DEF Begins
<1> QED
  BY <1>2 DEF Answers

(* The next answer.                                                        *)
LEMMA AnsweredNext ==
  ASSUME NEW made, NEW now, Begins(now, calls), heard = Len(made),
         NEW said, Len(made) \in Nat, Len(now) = Len(made) + 1,
         now[Len(made) + 1] = said
  PROVE  /\ heard + 1 <= Len(calls) /\ calls[heard + 1] = said
         /\ \A call : Answers(heard + 1, call) <=> call = said
<1>1. Len(now) \in Nat /\ Len(made) + 1 <= Len(now) /\ 1 \in {1, 2}
  OBVIOUS
<1>2. /\ heard + 1 <= Len(calls) /\ calls[heard + 1] = now[Len(made) + 1]
      /\ \A call : Answers(heard + 1, call) <=> call = now[Len(made) + 1]
  BY <1>1, Answered
<1> QED
  BY <1>2

(* The next two.                                                           *)
LEMMA AnsweredTwice ==
  ASSUME NEW made, NEW now, Begins(now, calls), heard = Len(made),
         NEW said, NEW part, Len(made) \in Nat, Len(now) = Len(made) + 2,
         now[Len(made) + 1] = said, now[Len(made) + 2] = part
  PROVE  /\ \A call : Answers(heard + 1, call) <=> call = said
         /\ \A call : Answers(heard + 2, call) <=> call = part
         /\ heard + 2 <= Len(calls) /\ calls[heard + 2] = part
<1>1. /\ Len(now) \in Nat /\ Len(made) + 1 <= Len(now) /\ Len(made) + 2 <= Len(now)
      /\ 1 \in {1, 2} /\ 2 \in {1, 2}
  OBVIOUS
<1>2. \A call : Answers(heard + 1, call) <=> call = now[Len(made) + 1]
  BY <1>1, Answered
<1>3. /\ heard + 2 <= Len(calls) /\ calls[heard + 2] = now[Len(made) + 2]
      /\ \A call : Answers(heard + 2, call) <=> call = now[Len(made) + 2]
  BY <1>1, Answered
<1> QED
  BY <1>2, <1>3

(* The coder's bit tells its two values apart.                             *)
LEMMA BitsDiffer ==
  /\ PredictionCall(TRUE) # PredictionCall(FALSE)
  /\ \A p, k : EscapeCall(p, k, TRUE) # EscapeCall(p, k, FALSE)
<1>1. PredictionCall(TRUE).match = TRUE /\ PredictionCall(FALSE).match = FALSE
  BY DEF PredictionCall
<1>2. \A no1, no2, t1, t2 : /\ BitCall(no1, t1, TRUE) # BitCall(no2, t2, FALSE)
  <2> TAKE no1, no2, t1, t2
  <2>1. BitCall(no1, t1, TRUE).bit = TRUE /\ BitCall(no2, t2, FALSE).bit = FALSE
    BY DEF BitCall
  <2> QED
    BY <2>1
<1>3. ASSUME NEW p, NEW k PROVE EscapeCall(p, k, TRUE) # EscapeCall(p, k, FALSE)
  <2> DEFINE stats == StatsOf(p, k)
             state == CodingState(p, k)
             odds  == Odds(p, state, stats.escape_count, stats.total_count)
  <2> HIDE DEF stats, state, odds
  <2>1. \A e \in BOOLEAN : EscapeCall(p, k, e) =
           IF state = <<>> THEN BitCall(stats.total_count, odds.total, e)
                           ELSE BitCall(odds.escapes, odds.total, ~e)
    BY DEF EscapeCall, stats, state, odds
  <2>2. CASE state = <<>>
    <3>1. /\ EscapeCall(p, k, TRUE) = BitCall(stats.total_count, odds.total, TRUE)
          /\ EscapeCall(p, k, FALSE) = BitCall(stats.total_count, odds.total, FALSE)
      BY <2>1, <2>2
    <3> QED
      BY <3>1, <1>2
  <2>3. CASE state # <<>>
    <3>1. /\ EscapeCall(p, k, TRUE) = BitCall(odds.escapes, odds.total, ~TRUE)
          /\ EscapeCall(p, k, FALSE) = BitCall(odds.escapes, odds.total, ~FALSE)
      BY <2>1, <2>3
    <3>2. (~TRUE) = FALSE /\ (~FALSE) = TRUE
      OBVIOUS
    <3>3. /\ EscapeCall(p, k, TRUE) = BitCall(odds.escapes, odds.total, FALSE)
          /\ EscapeCall(p, k, FALSE) = BitCall(odds.escapes, odds.total, TRUE)
      BY <3>1, <3>2
    <3> QED
      BY <3>3, <1>2
  <2> QED
    BY <2>2, <2>3
<1> QED
  BY <1>1, <1>3

(* DecodeByte, where the encoder began the same byte.                      *)
LEMMA DecodeGuess ==
  ASSUME NEW p, IsState(p), Same(p, pzip), NEW symbol,
         NEW made, IsList(made), NEW next, NEW now,
         EncodeGuess(p, symbol, made, next, now),
         Begins(now, calls), heard = Len(made), DecodeByte
  PROVE  Caught(next, now)
<1> DEFINE guess == Predict(p.text)
           open(q, guesses) == State(q.text, q.contexts, q.see, guesses, AllOrders)
<1>1. /\ IsState(pzip) /\ pzip.text = p.text /\ pzip.contexts = p.contexts
      /\ pzip.see = p.see
  BY DEF Same
<1>2. \A guesses : /\ Opened(p, guesses) = open(p, guesses)
                   /\ Opened(pzip, guesses) = open(p, guesses)
  BY <1>1, OpenedIs
<1>3. ASSUME NEW guesses
      PROVE  Matches(Opened(p, guesses), Opened(pzip, guesses))
  BY <1>2, MatchStates
<1>4. side = "decode"
  BY DEF DecodeByte
<1>5. CASE guess = None
  <2>1. next = Opened(p, {}) /\ now = made
    BY <1>5 DEF EncodeGuess
  <2>2. pzip' = Opened(pzip, {}) /\ side' = side /\ heard' = heard
    BY <1>1, <1>5 DEF DecodeByte
  <2> QED
    BY <1>3, <1>4, <2>1, <2>2 DEF Caught
<1>6. CASE guess # None
  <2> DEFINE hit == guess = symbol
             match == Answers(heard + 1, PredictionCall(TRUE))
             miss == Answers(heard + 1, PredictionCall(FALSE))
  <2>1. /\ next = IF hit THEN Taken(Opened(p, {guess}), symbol) ELSE Opened(p, {guess})
        /\ now = Append(made, PredictionCall(hit))
    BY <1>6 DEF EncodeGuess
  <2>2. /\ pzip' = IF match THEN Taken(Opened(pzip, {guess}), guess)
                            ELSE Opened(pzip, {guess})
        /\ Heard(1, match \/ miss)
    BY <1>1, <1>6 DEF DecodeByte
  <2>3. /\ Len(now) = Len(made) + 1 /\ now[Len(made) + 1] = PredictionCall(hit)
        /\ Len(made) \in Nat /\ Len(now) \in Nat
    BY <2>1, ListAppend DEF Begins
  <2>4. \A call : Answers(heard + 1, call) <=> call = PredictionCall(hit)
    <3> DEFINE said == PredictionCall(hit)
    <3>1. now[Len(made) + 1] = said
      BY <2>3
    <3> HIDE DEF said
    <3>2. \A call : Answers(heard + 1, call) <=> call = said
      BY <2>3, <3>1, AnsweredNext
    <3> QED
      BY <3>2 DEF said
  <2>5. CASE hit
    <3>1. PredictionCall(hit) = PredictionCall(TRUE)
      <4>1. hit = TRUE
        BY <2>5
      <4> QED
        BY <4>1
    <3>2. match
      BY <2>4, <3>1
    <3>3. side' = side /\ heard' = heard + 1
      BY <2>2, <3>2 DEF Heard
    <3>4. next = Taken(open(p, {guess}), guess) /\ pzip' = next
      BY <1>2, <2>1, <2>2, <2>5, <3>2
    <3>5. IsState(next)
      <4>1. IsState(open(p, {guess}))
        BY StateIs
      <4> HIDE DEF open
      <4>2. \E t, c, s, e : next = State(t, c, s, e, NewByte)
        BY <3>4, <4>1, TakenIs
      <4> QED
        BY <4>2, StateIs
    <3> HIDE DEF open
    <3> QED
      BY <1>4, <2>3, <3>3, <3>4, <3>5, MatchSelf DEF Caught
  <2>6. CASE ~hit
    <3>1. PredictionCall(hit) = PredictionCall(FALSE)
      <4>1. hit = FALSE
        BY <2>6
      <4> QED
        BY <4>1
    <3>2. ~match /\ miss
      BY <2>4, <3>1, BitsDiffer
    <3>3. side' = side /\ heard' = heard + 1
      BY <2>2, <3>2 DEF Heard
    <3>4. next = Opened(p, {guess}) /\ pzip' = Opened(pzip, {guess})
      BY <2>1, <2>2, <2>6, <3>2
    <3> HIDE DEF open
    <3> QED
      BY <1>3, <1>4, <2>3, <3>3, <3>4 DEF Caught
  <2> QED
    BY <2>5, <2>6
<1> QED
  BY <1>5, <1>6

(* Two states that differ in what is excluded learn the same.              *)
LEMMA LearnMatches ==
  ASSUME NEW p, NEW q, Same(p, q), NEW symbol, NEW k, NEW next, NEW found,
         Learn(p, symbol, k, next), Learn(q, symbol, k, found)
  PROVE  Matches(next, found)
<1> DEFINE t == Append(p.text, symbol)
           c == Taught(p, symbol, k)
           a == Adjusted(p, symbol, k)
<1>1. IsState(p) /\ IsState(q) /\ p.text = q.text
  BY DEF Same
<1>2. next = State(t, c, a, p.excluded, NewByte)
  BY <1>1, LearnIs
<1>3. found = State(Append(q.text, symbol), Taught(q, symbol, k),
                    Adjusted(q, symbol, k), q.excluded, NewByte)
  BY <1>1, LearnIs
<1>4. Taught(q, symbol, k) = c /\ Adjusted(q, symbol, k) = a /\ Append(q.text, symbol) = t
  BY <1>1, SameTaught, SameAdjusted
<1> HIDE DEF t, c, a
<1>5. found = State(t, c, a, q.excluded, NewByte)
  BY <1>3, <1>4
<1> QED
  BY <1>2, <1>5, MatchStates

(* The fields of a call for a part.                                        *)
LEMMA PartIsCall ==
  ASSUME NEW low, NEW high, NEW total
  PROVE  LET call == PartCall(low, high, total)
         IN  call.of = "part" /\ call.low = low /\ call.high = high /\ call.total = total
  BY DEF PartCall

(* DecodeTry, where the encoder tries the same context.                    *)
LEMMA DecodeContext ==
  ASSUME NEW k, HasRead(file, pzip), NEW symbol,
         NEW made, IsList(made), NEW next, NEW now,
         EncodeWith(pzip, k, symbol, made, next, now),
         Begins(now, calls), heard = Len(made),
         side = "decode", DecodeWith(k), IsState(next)
  PROVE  Caught(next, now)
<1> DEFINE c == Active(pzip, k).counts
           found == symbol \in SymbolsOf(Open(c, pzip.excluded))
           stay == Answers(heard + 1, EscapeCall(pzip, k, FALSE))
           leave == Answers(heard + 1, EscapeCall(pzip, k, TRUE))
           symbols == SymbolsOf(c.followset)
<1>1. IsState(pzip) /\ Soundly(pzip.contexts)
  BY DEF HasRead
<1>2. Sound(c) /\ c.followset \in Seq(Nodes)
  BY <1>1, ActiveSound, SoundNodes
<1>3. CASE ~Offers(pzip, k)
  <2>1. next = GoOn(pzip, k) /\ now = made
    BY <1>3 DEF EncodeWith
  <2>2. pzip' = GoOn(pzip, k) /\ side' = side /\ heard' = heard
    BY <1>3 DEF DecodeWith
  <2>3. pzip' = next
    BY <2>1, <2>2
  <2>4. Matches(next, pzip')
    BY <2>3, MatchSelf
  <2> QED
    BY <2>1, <2>2, <2>4 DEF Caught
<1>4. CASE Offers(pzip, k) /\ ~found
  <2>1. /\ next = GoOn(Told(pzip, k, ~found, symbols), k)
        /\ now = Append(made, EscapeCall(pzip, k, TRUE))
    BY <1>4 DEF EncodeWith, Told
  <2>2. (~found) = TRUE
    BY <1>4
  <2>3. next = GoOn(Told(pzip, k, TRUE, symbols), k)
    <3> HIDE DEF found, symbols
    <3> QED
      BY <2>1, <2>2
  <2> DEFINE said == EscapeCall(pzip, k, TRUE)
             other == EscapeCall(pzip, k, FALSE)
  <2>4. said # other
    BY BitsDiffer
  <2>5. now = Append(made, said)
    BY <2>1
  <2> HIDE DEF said, other
  <2>6. /\ Len(now) = Len(made) + 1 /\ now[Len(made) + 1] = said
        /\ Len(made) \in Nat /\ Len(now) \in Nat
    BY <2>5, ListAppend DEF Begins
  <2>7. \A call : Answers(heard + 1, call) <=> call = said
    BY <2>6, AnsweredNext
  <2>8. leave /\ ~stay
    BY <2>4, <2>7 DEF said, other
  <2>9. /\ pzip' = GoOn(Exclude(AdjustDecoded(pzip, k, TRUE), RuledOut(c)), k)
        /\ Heard(1, leave)
    BY <1>4, <2>8 DEF DecodeWith
  <2>10. pzip' = next
    BY <2>3, <2>9 DEF AdjustDecoded, RuledOut, Told
  <2>11. Matches(next, pzip')
    BY <2>10, MatchSelf
  <2>12. side' = side /\ heard' = heard + 1
    BY <2>8, <2>9 DEF Heard
  <2> QED
    BY <2>6, <2>11, <2>12 DEF Caught
<1>5. CASE Offers(pzip, k) /\ found
  <2> DEFINE said == EscapeCall(pzip, k, FALSE)
             part == SymbolCall(pzip, k, symbol)
             told == Told(pzip, k, ~found, symbols)
             adjusted == AdjustDecoded(pzip, k, FALSE)
             total == StatsOf(pzip, k).total_count
  <2>1. Learn(told, symbol, k, next) /\ now = made \o <<said, part>>
    BY <1>5 DEF EncodeWith, Told
  <2>2. (~found) = FALSE
    BY <1>5
  <2>3. told = Told(pzip, k, FALSE, symbols)
    <3> HIDE DEF found, symbols
    <3> QED
      BY <2>2
  <2>4. Same(told, adjusted)
    <3>1. adjusted = State(pzip.text, pzip.contexts, SeeAfter(pzip, k, FALSE),
                           pzip.excluded, pzip.order)
      BY <1>1, ToldIs DEF AdjustDecoded
    <3>2. told = State(pzip.text, pzip.contexts, SeeAfter(pzip, k, FALSE),
                       pzip.excluded \union symbols, pzip.order)
      BY <1>1, <2>3, ToldIs
    <3> DEFINE see == SeeAfter(pzip, k, FALSE)
               all == pzip.excluded \union symbols
    <3> HIDE DEF told, adjusted, see, all
    <3>3. /\ adjusted = State(pzip.text, pzip.contexts, see, pzip.excluded, pzip.order)
          /\ told = State(pzip.text, pzip.contexts, see, all, pzip.order)
      BY <3>1, <3>2 DEF see, all
    <3>4. /\ IsState(adjusted) /\ adjusted.text = pzip.text
          /\ adjusted.contexts = pzip.contexts /\ adjusted.see = see
      BY <3>3, StateIs
    <3>5. /\ IsState(told) /\ told.text = pzip.text
          /\ told.contexts = pzip.contexts /\ told.see = see
      BY <3>3, StateIs
    <3> QED
      BY <3>4, <3>5 DEF Same
  <2>5. IsList(made) /\ Begins(now, calls)
    OBVIOUS
  <2> HIDE DEF said, part, told
  <2>6. /\ Len(now) = Len(made) + 2
        /\ now[Len(made) + 1] = said /\ now[Len(made) + 2] = part
        /\ Len(made) \in Nat /\ Len(now) \in Nat
    <3>1. now = made \o <<said, part>>
      BY <2>1
    <3>2. /\ Begins(made, now) /\ Len(now) = Len(made) + 2
          /\ now[Len(made) + 1] = said /\ now[Len(made) + 2] = part
      BY <3>1, ListAppendTwo
    <3> QED
      BY <3>2 DEF Begins
  <2>7. /\ \A call : Answers(heard + 1, call) <=> call = said
        /\ \A call : Answers(heard + 2, call) <=> call = part
        /\ heard + 2 <= Len(calls) /\ calls[heard + 2] = part
    BY <2>6, AnsweredTwice
  <2>8. stay
    BY <2>7 DEF said
  <2>9. PICK got \in Targets(heard + 2, total) :
          /\ Learn(adjusted, SymbolAt(c, pzip.excluded, got), k, pzip')
          /\ Heard(2, Answers(heard + 2, SymbolCall(pzip, k, SymbolAt(c, pzip.excluded, got))))
    <3> HIDE DEF stay, adjusted
    <3> QED
      BY <1>5, <2>8 DEF DecodeWith, stay, adjusted
  <2>10. SymbolAt(c, pzip.excluded, got) = symbol
    <3> DEFINE p == Part(c, pzip.excluded, symbol)
    <3>1. part = PartCall(p.low, p.high, total)
      BY DEF SymbolCall, part
    <3> HIDE DEF p, total
    <3>2. part.of = "part" /\ part.low = p.low /\ part.high = p.high /\ part.total = total
      BY <3>1, PartIsCall
    <3>3. got \in p.low .. p.high - 1
      BY <2>7, <2>9, <3>2 DEF Targets
    <3>4. symbol \in SymbolsOf(Open(c, pzip.excluded))
      BY <1>5
    <3> HIDE DEF c, found
    <3>5. \A g \in p.low .. p.high - 1 : SymbolAt(c, pzip.excluded, g) = symbol
      BY <1>2, <3>4, PartWalk DEF p
    <3> QED
      BY <3>3, <3>5
  <2>11. Learn(adjusted, symbol, k, pzip') /\ Heard(2, Answers(heard + 2, part))
    BY <2>9, <2>10 DEF part
  <2> HIDE DEF adjusted
  <2>12. Matches(next, pzip')
    BY <2>1, <2>4, <2>11, LearnMatches
  <2>13. side' = side /\ heard' = heard + 2
    BY <2>7, <2>11 DEF Heard
  <2> QED
    BY <2>6, <2>12, <2>13 DEF Caught
<1> QED
  BY <1>3, <1>4, <1>5

(* The ranks of order -1.                                                  *)
LEMMA RankIs ==
  ASSUME NEW p
  PROVE  /\ \A s \in Symbols : RankOf(p, s) \in Nat
         /\ \A s, r \in Allowed(p) : RankOf(p, s) = RankOf(p, r) => s = r
         /\ \A s \in Allowed(p) : RankOf(p, s) + 1 <= Cardinality(Allowed(p))
         /\ Cardinality(Allowed(p)) \in Nat /\ Cardinality(Allowed(p)) <= SymbolCount
<1> DEFINE A == Allowed(p)
           B(s) == {x \in A : x < s}
<1>1. IsFiniteSet(Symbols) /\ Cardinality(Symbols) = SymbolCount
  <2>1. 0 \in Int /\ SymbolCount - 1 \in Int /\ SymbolCount - 1 - 0 + 1 = SymbolCount
        /\ 0 <= SymbolCount - 1
    BY Constants
  <2> QED
    BY <2>1, FS_Interval DEF Symbols
<1>2. A \subseteq Symbols /\ \A s \in Symbols : s \in Int
  BY Constants DEF Allowed, Symbols
<1>3. IsFiniteSet(A) /\ Cardinality(A) <= SymbolCount /\ Cardinality(A) \in Nat
  <2> HIDE DEF A
  <2> QED
    BY <1>1, <1>2, FS_Subset, FS_CardinalityType
<1> HIDE DEF A
<1>4. ASSUME NEW s PROVE IsFiniteSet(B(s)) /\ Cardinality(B(s)) \in Nat
  <2>1. B(s) \in SUBSET A
    OBVIOUS
  <2> HIDE DEF B
  <2> QED
    BY <1>3, <2>1, FS_Subset, FS_CardinalityType
<1>5. ASSUME NEW s \in A, NEW r \in A, s < r
      PROVE  Cardinality(B(s)) < Cardinality(B(r))
  <2>1. B(s) \in SUBSET B(r)
    BY <1>2, <1>5
  <2>2. s \in B(r) /\ s \notin B(s)
    BY <1>2, <1>5
  <2> HIDE DEF B
  <2>3. Cardinality(B(s)) <= Cardinality(B(r)) /\ Cardinality(B(s)) # Cardinality(B(r))
    BY <1>4, <2>1, <2>2, FS_Subset
  <2> QED
    BY <1>4, <2>3
<1>6. ASSUME NEW s \in A
      PROVE  Cardinality(B(s)) + 1 <= Cardinality(A)
  <2>1. B(s) \in SUBSET A
    OBVIOUS
  <2>2. s \notin B(s)
    BY <1>2
  <2> HIDE DEF B
  <2>3. Cardinality(B(s)) <= Cardinality(A) /\ Cardinality(B(s)) # Cardinality(A)
    BY <1>3, <2>1, <2>2, FS_Subset
  <2> QED
    BY <1>3, <1>4, <2>3
<1>7. \A s : RankOf(p, s) = Cardinality(B(s))
  BY DEF RankOf, A
<1> HIDE DEF B
<1>8. ASSUME NEW s \in A, NEW r \in A, Cardinality(B(s)) = Cardinality(B(r))
      PROVE  s = r
  <2>1. s \in Int /\ r \in Int
    BY <1>2
  <2>2. ~(s < r) /\ ~(r < s)
    BY <1>4, <1>5, <1>8
  <2> QED
    BY <2>1, <2>2
<1> QED
  BY <1>3, <1>4, <1>6, <1>7, <1>8 DEF A

(* DecodeLast, where the encoder is at order -1.                           *)
LEMMA DecodeRest ==
  ASSUME NEW symbol \in Symbols, symbol \notin pzip.excluded, IsState(pzip),
         NEW made, IsList(made), NEW next, NEW now,
         EncodeRest(pzip, symbol, made, next, now),
         Begins(now, calls), heard = Len(made), DecodeLast
  PROVE  Caught(next, now)
<1> DEFINE said == LastCall(pzip, symbol)
           total == Cardinality(Allowed(pzip))
           rank(s) == RankOf(pzip, s)
<1>1. Learn(pzip, symbol, 0, next) /\ now = Append(made, said)
  BY DEF EncodeRest
<1>2. said.of = "part" /\ said.low = rank(symbol) /\ said.high = rank(symbol) + 1
      /\ said.total = total
  BY PartIsCall DEF LastCall
<1>3. symbol \in Allowed(pzip)
  BY DEF Allowed
<1> HIDE DEF said
<1>4. /\ Len(now) = Len(made) + 1 /\ now[Len(made) + 1] = said
      /\ Len(made) \in Nat /\ Len(now) \in Nat
  BY <1>1, ListAppend DEF Begins
<1>5. /\ \A call : Answers(heard + 1, call) <=> call = said
      /\ heard + 1 <= Len(calls) /\ calls[heard + 1] = said
  BY <1>4, AnsweredNext
<1>6. PICK target \in Targets(heard + 1, total) :
        \E got \in {s \in Allowed(pzip) : rank(s) = target} :
          /\ Learn(pzip, got, 0, pzip')
          /\ Heard(1, Answers(heard + 1, LastCall(pzip, got)))
  BY DEF DecodeLast
<1>7. PICK got \in {s \in Allowed(pzip) : rank(s) = target} :
        /\ Learn(pzip, got, 0, pzip')
        /\ Heard(1, Answers(heard + 1, LastCall(pzip, got)))
  BY <1>6
<1> HIDE DEF total, rank
<1>8. rank(symbol) \in Nat
  BY RankIs DEF rank
<1>9. target \in rank(symbol) .. rank(symbol) + 1 - 1
  <2>1. Targets(heard + 1, total) = said.low .. said.high - 1
    BY <1>2, <1>5 DEF Targets
  <2>2. target \in said.low .. said.high - 1
    BY <1>6, <2>1
  <2>3. said.low = rank(symbol) /\ said.high = rank(symbol) + 1
    BY <1>2
  <2> QED
    BY <1>8, <2>2, <2>3
<1>10. rank(got) = rank(symbol) /\ got \in Allowed(pzip)
  BY <1>7, <1>8, <1>9
<1>11. got = symbol
  BY <1>3, <1>10, RankIs DEF rank
<1>12. Learn(pzip, symbol, 0, pzip') /\ Answers(heard + 1, LastCall(pzip, got))
  BY <1>5, <1>7, <1>11 DEF said
<1>13. Same(pzip, pzip)
  BY DEF Same
<1>14. Matches(next, pzip')
  BY <1>1, <1>12, <1>13, LearnMatches
<1>15. side' = side /\ heard' = heard + 1 /\ side = "decode"
  BY <1>7, <1>12 DEF Heard, DecodeLast
<1> QED
  BY <1>4, <1>14, <1>15 DEF Caught

(* Every step of the decoder is the encoder's.                             *)
LEMMA DecodeStep ==
  ASSUME file \in Files, side = "decode",
         NEW p, Reading(file, p), Matches(p, pzip),
         NEW made, IsList(made), NEW next, NEW now,
         EncodeStep(file, p, made, next, now),
         Begins(now, calls), heard = Len(made),
         DecodeByte \/ DecodeTry \/ DecodeLast
  PROVE  Caught(next, now)
<1>1. /\ HasRead(file, p) /\ IsState(p) /\ Same(p, pzip)
      /\ p.order = pzip.order /\ (p.order # NewByte => p = pzip)
  BY DEF Reading, HasRead, Matches
<1>2. IsState(next)
  BY StepAdvances DEF Advances, Reading, HasRead
<1>3. CASE p.order = NewByte
  <2>1. EncodeGuess(p, Due(file, p), made, next, now)
    BY <1>3, Orders DEF EncodeStep
  <2>2. DecodeByte
    BY <1>1, <1>3, Orders DEF DecodeTry, DecodeLast
  <2> QED
    BY <1>1, <2>1, <2>2, DecodeGuess
<1>4. CASE p.order \in 1 .. AllOrders
  <2>1. p.order # NewByte /\ p.order # 0
    BY <1>4, Orders
  <2>2. p = pzip
    BY <1>1, <2>1
  <2>3. EncodeWith(pzip, ChooseContext(pzip), Due(file, p), made, next, now)
    BY <2>1, <2>2 DEF EncodeStep
  <2>4. DecodeWith(ChooseContext(pzip))
    BY <1>1, <2>1 DEF DecodeByte, DecodeTry, DecodeLast
  <2>5. HasRead(file, pzip)
    BY <1>1, <2>2
  <2> QED
    BY <1>2, <2>3, <2>4, <2>5, DecodeContext
<1>5. CASE p.order = 0
  <2>1. p.order # NewByte /\ ~(p.order \in 1 .. AllOrders)
    BY <1>5, Orders
  <2>2. p = pzip
    BY <1>1, <2>1
  <2>3. EncodeRest(pzip, Due(file, p), made, next, now)
    BY <2>1, <2>2 DEF EncodeStep
  <2>4. DecodeLast
    BY <1>1, <2>1 DEF DecodeByte, DecodeTry
  <2>5. Due(file, p) \notin pzip.excluded /\ Len(p.text) < FileLength
    BY <2>1, <2>2 DEF Reading, Due
  <2>6. Due(file, p) \in Symbols
    BY <1>1, <2>5, DueIs
  <2> QED
    BY <1>1, <2>2, <2>3, <2>4, <2>5, <2>6, DecodeRest
<1> QED
  BY <1>3, <1>4, <1>5 DEF EncodeStep

(***************************************************************************)
(* The steps of an encoder, from the first: what it was in and the calls   *)
(* it had made.                                                            *)
(***************************************************************************)
Trace(f, t, n) ==
  /\ n \in Nat
  /\ t[0] = [pzip |-> Start(f), calls |-> <<>>]
  /\ \A i \in 0 .. n : /\ Reading(f, t[i].pzip)
                       /\ IsList(t[i].calls) /\ Begins(t[i].calls, t[n].calls)
  /\ \A i \in 0 .. n - 1 :
       EncodeStep(f, t[i].pzip, t[i].calls, t[i + 1].pzip, t[i + 1].calls)

(* The encoder's first state is a trace, ...                               *)
LEMMA TraceStarts ==
  ASSUME NEW f \in Files
  PROVE  \E t : Trace(f, t, 0) /\ t[0] = [pzip |-> Start(f), calls |-> <<>>]
<1> DEFINE x == [pzip |-> Start(f), calls |-> <<>>]
           t == [i \in 0 .. 0 |-> x]
<1>1. x.pzip = Start(f) /\ x.calls = <<>>
  OBVIOUS
<1>2. IsList(<<>>) /\ Begins(<<>>, <<>>)
  <2>1. <<>> \in Seq({})
    BY EmptySeq
  <2> QED
    BY <2>1, BeginsSelf DEF IsList
<1>3. Reading(f, Start(f))
  BY ReadsStart
<1>4. t[0] = x /\ \A i \in 0 .. 0 : t[i] = x
  OBVIOUS
<1> HIDE DEF t, x
<1>5. \A i \in 0 .. 0 : /\ Reading(f, t[i].pzip)
                        /\ IsList(t[i].calls) /\ Begins(t[i].calls, t[0].calls)
  BY <1>1, <1>2, <1>3, <1>4
<1>6. \A i \in 0 .. 0 - 1 :
        EncodeStep(f, t[i].pzip, t[i].calls, t[i + 1].pzip, t[i + 1].calls)
  OBVIOUS
<1> QED
  BY <1>4, <1>5, <1>6 DEF Trace, x

(* ... and a step makes it longer.                                         *)
LEMMA TraceGrows ==
  ASSUME NEW f \in Files, NEW t, NEW n, Trace(f, t, n), NEW next, NEW now,
         EncodeStep(f, t[n].pzip, t[n].calls, next, now)
  PROVE  /\ Reading(f, next)
         /\ \E u : Trace(f, u, n + 1) /\ u[n + 1] = [pzip |-> next, calls |-> now]
<1>1. n \in Nat /\ n \in 0 .. n /\ Reading(f, t[n].pzip) /\ IsList(t[n].calls)
  BY DEF Trace
<1>2. Reading(f, next) /\ IsList(now) /\ Begins(t[n].calls, now)
  BY <1>1, StepAdvances DEF Advances
<1> DEFINE x == [pzip |-> next, calls |-> now]
           u == [i \in 0 .. n + 1 |-> IF i <= n THEN t[i] ELSE x]
<1>3. x.pzip = next /\ x.calls = now
  OBVIOUS
<1> HIDE DEF x
<1>4. \A i \in 0 .. n : u[i] = t[i]
  BY <1>1
<1>5. u[n + 1] = x /\ n + 1 \in Nat
  BY <1>1
<1> HIDE DEF u
<1>6. u[0] = [pzip |-> Start(f), calls |-> <<>>]
  BY <1>1, <1>4 DEF Trace
<1>7. ASSUME NEW i \in 0 .. n + 1
      PROVE  /\ Reading(f, u[i].pzip)
             /\ IsList(u[i].calls) /\ Begins(u[i].calls, u[n + 1].calls)
  <2>1. CASE i \in 0 .. n
    <3>1. u[i] = t[i] /\ Reading(f, t[i].pzip) /\ IsList(t[i].calls)
          /\ Begins(t[i].calls, t[n].calls)
      BY <1>4, <2>1 DEF Trace
    <3>2. Begins(t[i].calls, now)
      BY <1>2, <3>1, BeginsFurther
    <3> QED
      BY <1>3, <1>5, <3>1, <3>2
  <2>2. CASE i = n + 1
    BY <1>2, <1>3, <1>5, <2>2, BeginsSelf
  <2> QED
    BY <1>1, <2>1, <2>2
<1>8. ASSUME NEW i \in 0 .. (n + 1) - 1
      PROVE  EncodeStep(f, u[i].pzip, u[i].calls, u[i + 1].pzip, u[i + 1].calls)
  <2>1. CASE i \in 0 .. n - 1
    <3>1. u[i] = t[i] /\ u[i + 1] = t[i + 1]
      BY <1>1, <1>4, <2>1
    <3> QED
      BY <2>1, <3>1 DEF Trace
  <2>2. CASE i = n
    BY <1>1, <1>3, <1>4, <1>5, <2>2
  <2> QED
    BY <1>1, <2>1, <2>2
<1>9. Trace(f, u, n + 1)
  BY <1>5, <1>6, <1>7, <1>8 DEF Trace
<1> QED
  BY <1>2, <1>5, <1>9 DEF x

(* An encoder that has reached the end of the file does no more.           *)
AtEnd(p) == p.order = NewByte /\ Len(p.text) = FileLength

(* There, it has no step to take.                                          *)
LEMMA NoStepAtEnd ==
  ASSUME NEW f, NEW p, NEW made, NEW next, NEW now, AtEnd(p)
  PROVE  ~EncodeStep(f, p, made, next, now)
  BY Orders, Sizes DEF AtEnd, EncodeStep

(***************************************************************************)
(* The invariant: the encoder has come along a trace, and the decoder is   *)
(* at some step of the one that reached the end.                           *)
(***************************************************************************)
Encoding ==
  /\ heard = 0
  /\ \E n, t : Trace(file, t, n) /\ t[n] = [pzip |-> pzip, calls |-> calls]

Decoding ==
  \E n, t :
    /\ Trace(file, t, n) /\ t[n] = [pzip |-> model, calls |-> calls] /\ AtEnd(model)
    /\ \E m \in 0 .. n : /\ Matches(t[m].pzip, pzip) /\ heard = Len(t[m].calls)
                         /\ side = "done" => m = n

InStep ==
  /\ file \in Files
  /\ side \in {"encode", "decode", "done"}
  /\ side = "encode" => Encoding
  /\ side # "encode" => Decoding

(* It holds at the start.                                                  *)
LEMMA InStepInit == Init => InStep
<1> SUFFICES ASSUME Init PROVE InStep
  OBVIOUS
<1>1. file \in Files /\ side = "encode" /\ heard = 0 /\ pzip = Start(file) /\ calls = <<>>
  BY DEF Init, Files
<1>2. \E t : Trace(file, t, 0) /\ t[0] = [pzip |-> pzip, calls |-> calls]
  BY <1>1, TraceStarts
<1>3. Encoding
  BY <1>1, <1>2 DEF Encoding
<1> QED
  BY <1>1, <1>3 DEF InStep

(* The encoder's actions are its steps.                                    *)
LEMMA EncodeAction ==
  ASSUME EncodeByte \/ EncodeTry \/ EncodeLast
  PROVE  /\ side = "encode" /\ UNCHANGED <<file, side, heard, model>>
         /\ EncodeStep(file, pzip, calls, pzip', calls')
<1>1. Symbol = Due(file, pzip)
  BY DEF Symbol, Due
<1>2. CASE EncodeByte
  BY <1>1, <1>2 DEF EncodeByte, EncodeStep
<1>3. CASE EncodeTry
  BY <1>1, <1>3 DEF EncodeTry, EncodeStep
<1>4. CASE EncodeLast
  BY <1>1, <1>4 DEF EncodeLast, EncodeStep
<1> QED
  BY <1>2, <1>3, <1>4

(* They make the trace longer.                                             *)
LEMMA InStepEncode ==
  ASSUME InStep, EncodeByte \/ EncodeTry \/ EncodeLast
  PROVE  InStep'
<1>1. /\ side = "encode" /\ file' = file /\ side' = side /\ heard' = heard
      /\ EncodeStep(file, pzip, calls, pzip', calls')
  BY EncodeAction
<1>2. PICK n, t : Trace(file, t, n) /\ t[n] = [pzip |-> pzip, calls |-> calls]
  BY <1>1 DEF InStep, Encoding
<1>3. t[n].pzip = pzip /\ t[n].calls = calls
  BY <1>2
<1>4. \E u : Trace(file, u, n + 1) /\ u[n + 1] = [pzip |-> pzip', calls |-> calls']
  BY <1>1, <1>2, <1>3, TraceGrows DEF InStep
<1>5. \E k, u : Trace(file, u, k) /\ u[k] = [pzip |-> pzip', calls |-> calls']
  BY <1>4
<1>6. heard' = 0
  BY <1>1 DEF InStep, Encoding
<1>7. Encoding'
  BY <1>1, <1>5, <1>6 DEF Encoding
<1> QED
  BY <1>1, <1>7 DEF InStep

(* The decoder starts where the encoder did.                               *)
LEMMA InStepReopen ==
  ASSUME InStep, Reopen
  PROVE  InStep'
<1>1. /\ side = "encode" /\ AtEnd(pzip) /\ side' = "decode"
      /\ pzip' = Start(file) /\ model' = pzip
      /\ file' = file /\ calls' = calls /\ heard' = heard
  BY DEF Reopen, AtEnd
<1>2. PICK n, t : Trace(file, t, n) /\ t[n] = [pzip |-> pzip, calls |-> calls]
  BY <1>1 DEF InStep, Encoding
<1>3. /\ t[0] = [pzip |-> Start(file), calls |-> <<>>] /\ 0 \in 0 .. n
      /\ Reading(file, t[0].pzip)
  BY <1>2 DEF Trace
<1>4. t[0].pzip = Start(file) /\ t[0].calls = <<>> /\ Len(t[0].calls) = 0
  BY <1>3
<1>5. Matches(t[0].pzip, Start(file))
  BY <1>3, <1>4, MatchSelf DEF Reading, HasRead
<1>6. heard = 0 /\ file \in Files
  BY <1>1 DEF InStep, Encoding
<1>7. \E m \in 0 .. n : /\ Matches(t[m].pzip, pzip') /\ heard' = Len(t[m].calls)
                        /\ side' = "done" => m = n
  BY <1>1, <1>3, <1>4, <1>5, <1>6
<1>8. Trace(file', t, n) /\ t[n] = [pzip |-> model', calls |-> calls'] /\ AtEnd(model')
  BY <1>1, <1>2
<1>9. Decoding'
  BY <1>7, <1>8 DEF Decoding
<1> QED
  BY <1>1, <1>6, <1>9 DEF InStep

(* The decoder goes one step further along the trace.                      *)
Onward(n, t, m) ==
  /\ Trace(file, t, n) /\ t[n] = [pzip |-> model, calls |-> calls] /\ AtEnd(model)
  /\ m \in 0 .. n - 1 /\ Matches(t[m].pzip, pzip)
  /\ Caught(t[m + 1].pzip, t[m + 1].calls)

(* It is not at the end of it: there it has no byte left to decode.        *)
LEMMA DecodeOnward ==
  ASSUME InStep, DecodeByte \/ DecodeTry \/ DecodeLast
  PROVE  \E n, t, m : Onward(n, t, m)
<1>1. /\ side = "decode" /\ file' = file /\ calls' = calls /\ model' = model
      /\ file \in Files
  BY DEF InStep, DecodeByte, DecodeTry, DecodeLast
<1>2. PICK n, t :
        /\ Trace(file, t, n) /\ t[n] = [pzip |-> model, calls |-> calls] /\ AtEnd(model)
        /\ \E m \in 0 .. n : /\ Matches(t[m].pzip, pzip) /\ heard = Len(t[m].calls)
                             /\ side = "done" => m = n
  BY <1>1 DEF InStep, Decoding
<1>3. PICK m \in 0 .. n : Matches(t[m].pzip, pzip) /\ heard = Len(t[m].calls)
  BY <1>2
<1>4. n \in Nat /\ m \in Nat
  BY <1>2 DEF Trace
<1>5. t[n].pzip = model /\ t[n].calls = calls
  BY <1>2
<1>6. m # n
  <2> SUFFICES ASSUME m = n PROVE FALSE
    OBVIOUS
  <2>1. Matches(model, pzip)
    BY <1>3, <1>5
  <2>2. AtEnd(pzip)
    BY <1>2, <2>1 DEF Matches, Same, AtEnd
  <2>3. ~DecodeByte
    <3>1. DecodeByte => Len(pzip.text) < FileLength
      BY DEF DecodeByte
    <3>2. Len(pzip.text) = FileLength
      BY <2>2 DEF AtEnd
    <3>3. FileLength \in Nat
      BY Sizes
    <3> QED
      BY <3>1, <3>2, <3>3
  <2>4. ~DecodeTry /\ ~DecodeLast
    BY <2>2, Orders DEF AtEnd, DecodeTry, DecodeLast
  <2> QED
    BY <2>3, <2>4
<1>7. m \in 0 .. n - 1 /\ m + 1 \in 0 .. n
  BY <1>4, <1>6
<1>8. /\ EncodeStep(file, t[m].pzip, t[m].calls, t[m + 1].pzip, t[m + 1].calls)
      /\ Reading(file, t[m].pzip) /\ IsList(t[m].calls)
      /\ Begins(t[m + 1].calls, calls)
  BY <1>2, <1>5, <1>7 DEF Trace
<1>9. Caught(t[m + 1].pzip, t[m + 1].calls)
  BY <1>1, <1>3, <1>8, DecodeStep
<1> QED
  BY <1>2, <1>3, <1>7, <1>9 DEF Onward

(* So it stays in step.                                                    *)
LEMMA InStepDecode ==
  ASSUME InStep, DecodeByte \/ DecodeTry \/ DecodeLast
  PROVE  InStep'
<1>1. /\ side = "decode" /\ file' = file /\ calls' = calls /\ model' = model
      /\ file \in Files
  BY DEF InStep, DecodeByte, DecodeTry, DecodeLast
<1>2. PICK n, t, m : Onward(n, t, m)
  BY DecodeOnward
<1>3. m + 1 \in 0 .. n
  <2>1. m \in 0 .. n - 1 /\ n \in Nat
    BY <1>2 DEF Onward, Trace
  <2> QED
    BY <2>1
<1>4. \E l \in 0 .. n : /\ Matches(t[l].pzip, pzip') /\ heard' = Len(t[l].calls)
                        /\ side' = "done" => l = n
  <2>1. Caught(t[m + 1].pzip, t[m + 1].calls)
    BY <1>2 DEF Onward
  <2>2. side' # "done"
    BY <2>1 DEF Caught
  <2> QED
    BY <1>3, <2>1, <2>2 DEF Caught
<1>5. side' = "decode"
  BY <1>2 DEF Onward, Caught
<1>6. Trace(file', t, n) /\ t[n] = [pzip |-> model', calls |-> calls'] /\ AtEnd(model')
  BY <1>1, <1>2 DEF Onward
<1>7. Decoding'
  BY <1>4, <1>6 DEF Decoding
<1> QED
  BY <1>1, <1>5, <1>7 DEF InStep

(* A decoder that is done has reached the end of the trace.                *)
LEMMA InStepFinish ==
  ASSUME InStep, Finish
  PROVE  InStep'
<1>1. /\ side = "decode" /\ AtEnd(pzip) /\ side' = "done"
      /\ file' = file /\ calls' = calls /\ model' = model /\ pzip' = pzip
      /\ heard' = heard /\ file \in Files
  BY DEF InStep, Finish, AtEnd
<1>2. PICK n, t :
        /\ Trace(file, t, n) /\ t[n] = [pzip |-> model, calls |-> calls] /\ AtEnd(model)
        /\ \E m \in 0 .. n : /\ Matches(t[m].pzip, pzip) /\ heard = Len(t[m].calls)
                             /\ side = "done" => m = n
  BY <1>1 DEF InStep, Decoding
<1>3. PICK m \in 0 .. n : Matches(t[m].pzip, pzip) /\ heard = Len(t[m].calls)
  BY <1>2
<1>4. n \in Nat /\ m \in Nat
  BY <1>2 DEF Trace
<1>5. m = n
  <2> SUFFICES ASSUME m # n PROVE FALSE
    OBVIOUS
  <2>1. EncodeStep(file, t[m].pzip, t[m].calls, t[m + 1].pzip, t[m + 1].calls)
    BY <1>2, <1>4 DEF Trace
  <2>2. AtEnd(t[m].pzip)
    BY <1>1, <1>3 DEF Matches, Same, AtEnd
  <2> QED
    BY <2>1, <2>2, NoStepAtEnd
<1>6. \E l \in 0 .. n : /\ Matches(t[l].pzip, pzip') /\ heard' = Len(t[l].calls)
                        /\ side' = "done" => l = n
  BY <1>1, <1>3, <1>5
<1>7. Trace(file', t, n) /\ t[n] = [pzip |-> model', calls |-> calls'] /\ AtEnd(model')
  BY <1>1, <1>2
<1>8. Decoding'
  BY <1>6, <1>7 DEF Decoding
<1> QED
  BY <1>1, <1>8 DEF InStep

(* Every step keeps it.                                                    *)
LEMMA InStepNext == InStep /\ [Next]_vars => InStep'
<1> SUFFICES ASSUME InStep, [Next]_vars PROVE InStep'
  OBVIOUS
<1>1. CASE EncodeByte \/ EncodeTry \/ EncodeLast
  BY <1>1, InStepEncode
<1>2. CASE Reopen
  BY <1>2, InStepReopen
<1>3. CASE DecodeByte \/ DecodeTry \/ DecodeLast
  BY <1>3, InStepDecode
<1>4. CASE Finish
  BY <1>4, InStepFinish
<1>5. CASE UNCHANGED vars
  <2>1. /\ file' = file /\ side' = side /\ pzip' = pzip /\ calls' = calls
        /\ heard' = heard /\ model' = model
    BY <1>5 DEF vars
  <2> QED
    BY <2>1 DEF InStep, Encoding, Decoding
<1> QED
  BY <1>1, <1>2, <1>3, <1>4, <1>5 DEF Next

(* Theorem: pzip_Decode is always in the state pzip_Encode was in after    *)
(* the same calls of the arithmetic coder.                                 *)
THEOREM AlwaysInStep == Spec => []InStep
<1>1. InStep /\ [Next]_vars => InStep'
  BY InStepNext
<1> QED
  BY InStepInit, <1>1, PTL DEF Spec

(* Theorem: whatever orders escaped and whatever prediction failed, the    *)
(* byte pzip_Encode has to code is not among the excluded symbols.         *)
THEOREM NeverExcluded == Spec => []SymbolNeverExcluded
<1>1. InStep => SymbolNeverExcluded
  <2> SUFFICES ASSUME InStep, side = "encode", pzip.order # NewByte
               PROVE  Symbol \notin pzip.excluded
    BY DEF SymbolNeverExcluded
  <2>1. PICK n, t : Trace(file, t, n) /\ t[n] = [pzip |-> pzip, calls |-> calls]
    BY DEF InStep, Encoding
  <2>2. Reading(file, t[n].pzip)
    BY <2>1 DEF Trace
  <2>3. Reading(file, pzip)
    BY <2>1, <2>2
  <2> QED
    BY <2>3 DEF Reading, Symbol
<1> QED
  BY <1>1, AlwaysInStep, PTL

(* Theorem: pzip_Decode asks for exactly the calls pzip_Encode made, and   *)
(* its text is the file as far as it got.                                  *)
THEOREM StaysInLockstep == Spec => []Lockstep
<1>1. InStep => Lockstep
  <2> SUFFICES ASSUME InStep PROVE Lockstep
    OBVIOUS
  <2>1. side # "garbled"
    BY DEF InStep
  <2>2. CASE side = "encode"
    <3>1. PICK n, t : Trace(file, t, n) /\ t[n] = [pzip |-> pzip, calls |-> calls]
      BY <2>2 DEF InStep, Encoding
    <3>2. Reading(file, t[n].pzip) /\ t[n].pzip = pzip
      BY <3>1 DEF Trace
    <3>3. Reading(file, pzip)
      BY <3>2
    <3> QED
      BY <2>1, <3>3 DEF Lockstep, Reading, HasRead
  <2>3. CASE side # "encode"
    <3>1. PICK n, t :
            /\ Trace(file, t, n)
            /\ \E m \in 0 .. n : Matches(t[m].pzip, pzip)
      BY <2>3 DEF InStep, Decoding
    <3>2. PICK m \in 0 .. n : Matches(t[m].pzip, pzip)
      BY <3>1
    <3>3. Reading(file, t[m].pzip) /\ t[m].pzip.text = pzip.text
      BY <3>1, <3>2 DEF Trace, Matches, Same
    <3> QED
      BY <2>1, <3>3 DEF Lockstep, Reading, HasRead
  <2> QED
    BY <2>2, <2>3
<1> QED
  BY <1>1, AlwaysInStep, PTL

(* Theorem: at the end of the file, the decoder's contexts and SEE states  *)
(* are the encoder's, and it has heard every call.                         *)
THEOREM AgreeAtTheEnd == Spec => []ModelsAgree
<1>1. InStep => ModelsAgree
  <2> SUFFICES ASSUME InStep, side = "done"
               PROVE  /\ pzip.contexts = model.contexts
                      /\ pzip.see = model.see
                      /\ heard = Len(calls)
    BY DEF ModelsAgree
  <2>1. PICK n, t :
          /\ Trace(file, t, n) /\ t[n] = [pzip |-> model, calls |-> calls] /\ AtEnd(model)
          /\ \E m \in 0 .. n : /\ Matches(t[m].pzip, pzip) /\ heard = Len(t[m].calls)
                               /\ side = "done" => m = n
    BY DEF InStep, Decoding
  <2>2. t[n].pzip = model /\ t[n].calls = calls
    BY <2>1
  <2>3. Matches(t[n].pzip, pzip) /\ heard = Len(t[n].calls)
    BY <2>1
  <2>4. Matches(model, pzip) /\ heard = Len(calls)
    BY <2>2, <2>3
  <2> QED
    BY <2>4 DEF Matches, Same
<1> QED
  BY <1>1, AlwaysInStep, PTL

(***************************************************************************)
(* The measure of what is left to do.                                      *)
(***************************************************************************)

(* choose_context picks an order among those still to choose from: none of *)
(* the orders above has offered more than the best it has seen.            *)
LEMMA ChoiceIsBelow ==
  ASSUME NEW p, p.order \in Nat \ {0}
  PROVE  ChooseContext(p) \in 0 .. p.order - 1
<1> DEFINE N == p.order
           R == {0} \union {Rating(p, k) : k \in 0 .. N}
           pair(k, r) == [order |-> k, rating |-> r]
           D == {pair(k, r) : k \in 0 .. N - 1, r \in R}
           better(k, b) == IF Offers(p, k) /\ Rating(p, k) > b.rating
                           THEN pair(k, Rating(p, k)) ELSE b
           step == [n \in 1 .. N |-> [b \in D |-> better(N - n, b)]]
           G(f) == f = [n \in 0 .. N |->
                          IF n = 0 THEN pair(0, 0) ELSE better(N - n, f[n - 1])]
<1>1. N \in Nat /\ 0 \in 0 .. N - 1
  OBVIOUS
<1>2. \A n \in 1 .. N : N - n \in 0 .. N - 1 /\ N - n \in 0 .. N
                        /\ n - 1 \in 0 .. N /\ n \in 0 .. N /\ n # 0
  BY <1>1
<1>3. \A k \in 0 .. N - 1 : \A r \in R : pair(k, r) \in D
  OBVIOUS
<1>4. pair(0, 0) \in D
  BY <1>1, <1>3
<1>5. \A k \in 0 .. N - 1 : \A b \in D : better(k, b) \in D
  <2> SUFFICES ASSUME NEW k \in 0 .. N - 1, NEW b \in D PROVE better(k, b) \in D
    OBVIOUS
  <2>1. k \in 0 .. N
    BY <1>1
  <2>2. Rating(p, k) \in R
    BY <2>1
  <2> HIDE DEF D, R, pair
  <2>3. pair(k, Rating(p, k)) \in D
    BY <1>3, <2>2
  <2> QED
    BY <2>3
<1>6. \A b \in D : b.order \in 0 .. N - 1
  OBVIOUS
<1> DEFINE w == CHOOSE h : G(h)
<1>7. ChooseContext(p) = w[N].order
  BY Zenon DEF ChooseContext
<1> HIDE DEF D, R, better, pair
<1>8. step \in [1 .. N -> [D -> D]]
  BY <1>2, <1>5
<1>9. \A n \in 1 .. N : \A b \in D : step[n][b] = better(N - n, b)
  OBVIOUS
<1> HIDE DEF step
<1>10. PICK f : Accumulates(D, pair(0, 0), step, N, f)
  BY <1>1, <1>4, <1>8, Accumulation
<1>11. G(f)
  <2>1. \A n \in 0 .. N : n # 0 => n \in 1 .. N
    BY <1>1
  <2>2. f \in [0 .. N -> D] /\ f[0] = pair(0, 0)
        /\ \A n \in 1 .. N : f[n] = step[n][f[n - 1]]
    BY <1>10 DEF Accumulates
  <2>3. \A n \in 1 .. N : f[n - 1] \in D
    BY <1>2, <2>2
  <2>4. \A n \in 0 .. N : f[n] = IF n = 0 THEN pair(0, 0) ELSE better(N - n, f[n - 1])
    BY <1>9, <2>1, <2>2, <2>3
  <2>5. f = [n \in 0 .. N |-> f[n]]
    BY <2>2
  <2> QED
    BY <2>4, <2>5
<1> HIDE DEF G
<1>12. G(w)
  BY <1>11, Zenon
<1> HIDE DEF w
<1>13. w[0] = pair(0, 0) /\ \A n \in 1 .. N : w[n] = better(N - n, w[n - 1])
  <2>1. \A n \in 0 .. N : w[n] = IF n = 0 THEN pair(0, 0) ELSE better(N - n, w[n - 1])
    BY <1>12 DEF G
  <2>2. 0 \in 0 .. N
    BY <1>1
  <2> QED
    BY <1>2, <2>1, <2>2
<1>14. \A n \in 1 .. N : w[n - 1] \in D => w[n] = step[n][w[n - 1]]
  BY <1>9, <1>13
<1>15. Recurs(D, pair(0, 0), step, N, w)
  BY <1>13, <1>14 DEF Recurs
<1> HIDE DEF N
<1>16. \A n \in 0 .. N : w[n] = f[n]
  BY <1>1, <1>10, <1>15, AccumulatesOnly
<1>17. N \in 0 .. N
  BY <1>1
<1>18. w[N] \in D
  BY <1>10, <1>16, <1>17 DEF Accumulates
<1> QED
  BY <1>6, <1>7, <1>18 DEF N

(* A step either learns a byte, or leaves fewer orders to choose from.     *)
Nearer(p, next) ==
  \/ next.text = p.text /\ next.order \in 0 .. p.order - 1
  \/ Len(next.text) = Len(p.text) + 1 /\ next.order = NewByte

(* One byte more, whatever it is.                                          *)
LEMMA TextGrows ==
  ASSUME NEW f \in Files, NEW p, HasRead(f, p), NEW symbol
  PROVE  Len(Append(p.text, symbol)) = Len(p.text) + 1
<1>1. SubSeq(f, 1, Len(p.text)) \in Seq(Symbols)
  BY FileIs DEF HasRead
<1>2. IsList(p.text)
  BY <1>1 DEF HasRead, IsList
<1> QED
  BY <1>2, ListAppend

(* A byte is learnt, ...                                                   *)
LEMMA LearnNearer ==
  ASSUME NEW f \in Files, NEW p, HasRead(f, p), NEW q, IsState(q), q.text = p.text,
         NEW symbol, NEW k, NEW next, Learn(q, symbol, k, next)
  PROVE  Nearer(p, next)
<1> DEFINE t == Append(p.text, symbol)
           c == Taught(q, symbol, k)
           a == Adjusted(q, symbol, k)
<1>1. next = State(t, c, a, q.excluded, NewByte)
  BY LearnIs
<1>2. Len(t) = Len(p.text) + 1
  BY TextGrows
<1> HIDE DEF t, c, a
<1>3. next.text = t /\ next.order = NewByte
  BY <1>1, StateIs
<1> QED
  BY <1>2, <1>3 DEF Nearer

(* ... guessed, ...                                                        *)
LEMMA GuessNearer ==
  ASSUME NEW f \in Files, NEW p, HasRead(f, p), p.order = NewByte,
         NEW symbol, NEW made, NEW next, NEW now,
         EncodeGuess(p, symbol, made, next, now)
  PROVE  Nearer(p, next)
<1>1. ASSUME NEW guesses, next = Opened(p, guesses)
      PROVE  Nearer(p, next)
  <2>1. next = State(p.text, p.contexts, p.see, guesses, AllOrders)
    BY <1>1, OpenedIs DEF HasRead
  <2>2. next.text = p.text /\ next.order = AllOrders
    BY <2>1, StateIs
  <2>3. AllOrders \in 0 .. NewByte - 1
    BY Sizes DEF AllOrders, NewByte
  <2> QED
    BY <2>2, <2>3 DEF Nearer
<1>2. ASSUME NEW guesses, next = Taken(Opened(p, guesses), symbol)
      PROVE  Nearer(p, next)
  <2> DEFINE q == Opened(p, guesses)
             t == Append(p.text, symbol)
  <2>1. q = State(p.text, p.contexts, p.see, guesses, AllOrders)
    BY OpenedIs DEF HasRead
  <2>2. IsState(q) /\ q.text = p.text
    BY <2>1, StateIs
  <2> HIDE DEF q
  <2>3. Taken(q, symbol) = State(t, q.contexts, q.see, q.excluded, NewByte)
    BY <2>2, TakenIs
  <2>4. Len(t) = Len(p.text) + 1
    BY TextGrows
  <2> HIDE DEF t
  <2>5. next.text = t /\ next.order = NewByte
    BY <1>2, <2>3, StateIs DEF q
  <2> QED
    BY <2>4, <2>5 DEF Nearer
<1> QED
  BY <1>1, <1>2 DEF EncodeGuess

(* ... or a context tried.                                                 *)
LEMMA TryNearer ==
  ASSUME NEW f \in Files, NEW p, HasRead(f, p), NEW k, k \in 0 .. p.order - 1,
         NEW symbol, NEW made, NEW next, NEW now,
         EncodeWith(p, k, symbol, made, next, now)
  PROVE  Nearer(p, next)
<1> DEFINE c == Active(p, k).counts
           found == symbol \in SymbolsOf(Open(c, p.excluded))
<1>0. IsState(p)
  BY DEF HasRead
<1>1. ASSUME NEW q, IsState(q), q.text = p.text, next = GoOn(q, k)
      PROVE  Nearer(p, next)
  <2>1. next = State(q.text, q.contexts, q.see, q.excluded, k)
    BY <1>1, GoOnIs
  <2>2. next.text = p.text /\ next.order = k
    BY <1>1, <2>1, StateIs
  <2> QED
    BY <2>2 DEF Nearer
<1>2. ASSUME NEW escape, NEW symbols
      PROVE  LET told == Told(p, k, escape, symbols)
             IN  IsState(told) /\ told.text = p.text
  <2> DEFINE told == Told(p, k, escape, symbols)
             see == SeeAfter(p, k, escape)
             all == p.excluded \union symbols
  <2>1. told = State(p.text, p.contexts, see, all, p.order)
    BY <1>0, ToldIs
  <2> HIDE DEF told, see, all
  <2>2. IsState(told) /\ told.text = p.text
    BY <2>1, StateIs
  <2> QED
    BY <2>2 DEF told
<1>3. CASE next = GoOn(p, k)
  BY <1>0, <1>1, <1>3
<1>4. ASSUME NEW told, told = Told(p, k, ~found, SymbolsOf(c.followset)),
             next = GoOn(told, k) \/ Learn(told, symbol, k, next)
      PROVE  Nearer(p, next)
  <2>1. IsState(told) /\ told.text = p.text
    BY <1>2, <1>4
  <2>2. CASE next = GoOn(told, k)
    BY <1>1, <2>1, <2>2
  <2>3. CASE Learn(told, symbol, k, next)
    BY <2>1, <2>3, LearnNearer
  <2> QED
    BY <1>4, <2>2, <2>3
<1> QED
  BY <1>3, <1>4 DEF EncodeWith, Told

(* Every step of the encoder.                                              *)
LEMMA StepNearer ==
  ASSUME NEW f \in Files, NEW p, Reading(f, p), NEW made, NEW next, NEW now,
         EncodeStep(f, p, made, next, now)
  PROVE  Nearer(p, next)
<1>1. HasRead(f, p) /\ IsState(p)
  BY DEF Reading, HasRead
<1>2. CASE p.order = NewByte /\ EncodeGuess(p, Due(f, p), made, next, now)
  BY <1>1, <1>2, GuessNearer
<1>3. CASE p.order \in 1 .. AllOrders
           /\ EncodeWith(p, ChooseContext(p), Due(f, p), made, next, now)
  <2>1. p.order \in Nat \ {0}
    BY <1>3, Orders
  <2>2. ChooseContext(p) \in 0 .. p.order - 1
    BY <2>1, ChoiceIsBelow
  <2> QED
    BY <1>1, <1>3, <2>2, TryNearer
<1>4. CASE p.order = 0 /\ EncodeRest(p, Due(f, p), made, next, now)
  BY <1>1, <1>4, LearnNearer DEF EncodeRest
<1> QED
  BY <1>2, <1>3, <1>4 DEF EncodeStep

(* Every step of a side, of the decoder as it is one of the encoder's.     *)
LEMMA SideNearer ==
  ASSUME InStep, \/ EncodeByte \/ EncodeTry \/ EncodeLast
                 \/ DecodeByte \/ DecodeTry \/ DecodeLast
  PROVE  Nearer(pzip, pzip') /\ side' = side /\ side \in {"encode", "decode"}
<1>1. CASE EncodeByte \/ EncodeTry \/ EncodeLast
  <2>1. side = "encode" /\ side' = side /\ EncodeStep(file, pzip, calls, pzip', calls')
    BY <1>1, EncodeAction
  <2>2. PICK n, t : Trace(file, t, n) /\ t[n] = [pzip |-> pzip, calls |-> calls]
    BY <2>1 DEF InStep, Encoding
  <2>3. Reading(file, pzip) /\ file \in Files
    BY <2>2 DEF Trace, InStep
  <2> QED
    BY <2>1, <2>3, StepNearer
<1>2. CASE DecodeByte \/ DecodeTry \/ DecodeLast
  <2>1. PICK n, t, m : Onward(n, t, m)
    BY <1>2, DecodeOnward
  <2> DEFINE p == t[m].pzip
             next == t[m + 1].pzip
  <2>2. Reading(file, p) /\ EncodeStep(file, p, t[m].calls, next, t[m + 1].calls)
    BY <2>1 DEF Onward, Trace
  <2>3. Matches(p, pzip) /\ Matches(next, pzip') /\ side' = "decode" /\ side = "decode"
    BY <1>2, <2>1 DEF Onward, Caught, DecodeByte, DecodeTry, DecodeLast
  <2> HIDE DEF p, next
  <2>4. Nearer(p, next)
    BY <2>2, StepNearer DEF InStep
  <2>5. /\ p.text = pzip.text /\ p.order = pzip.order
        /\ next.text = pzip'.text /\ next.order = pzip'.order
    BY <2>3 DEF Matches, Same
  <2> QED
    BY <2>3, <2>4, <2>5 DEF Nearer
<1> QED
  BY <1>1, <1>2

(* What the side at work has read.                                         *)
LEMMA SideReads == InStep => Len(pzip.text) \in 0 .. FileLength
<1> SUFFICES ASSUME InStep PROVE Len(pzip.text) \in 0 .. FileLength
  OBVIOUS
<1>1. CASE side = "encode"
  <2>1. PICK n, t : Trace(file, t, n) /\ t[n] = [pzip |-> pzip, calls |-> calls]
    BY <1>1 DEF InStep, Encoding
  <2>2. Reading(file, pzip)
    BY <2>1 DEF Trace
  <2> QED
    BY <2>2 DEF Reading, HasRead
<1>2. CASE side # "encode"
  <2>1. PICK n, t :
          /\ Trace(file, t, n)
          /\ \E m \in 0 .. n : Matches(t[m].pzip, pzip)
    BY <1>2 DEF InStep, Decoding
  <2>2. PICK m \in 0 .. n : Matches(t[m].pzip, pzip)
    BY <2>1
  <2>3. Reading(file, t[m].pzip)
    BY <2>1, <2>2 DEF Trace
  <2> QED
    BY <2>2, <2>3 DEF Reading, HasRead, Matches, Same
<1> QED
  BY <1>1, <1>2

(* The steps a side has at most before it: for each byte it has not read   *)
(* one for each order, the guess and order -1, and what is left of the     *)
(* byte it is at.                                                          *)
Pending(p) == (FileLength - Len(p.text)) * (NewByte + 1) + p.order

(* Of both sides, the decoder's being to come while the encoder is at work. *)
Left ==
  IF side = "encode" THEN Pending(pzip) + (FileLength + 1) * (NewByte + 1)
  ELSE IF side = "decode" THEN Pending(pzip) ELSE 0

Ordered == pzip.order \in 0 .. NewByte

(* A byte more is worth more than all the orders.                          *)
LEMMA PendingFalls ==
  ASSUME NEW p, Len(p.text) \in 0 .. FileLength, p.order \in 0 .. NewByte,
         NEW next, Len(next.text) \in 0 .. FileLength, Nearer(p, next)
  PROVE  /\ Pending(p) \in Nat /\ Pending(next) \in Nat /\ Pending(next) < Pending(p)
         /\ next.order \in 0 .. NewByte
<1> DEFINE B == NewByte + 1
           l == FileLength - Len(p.text)
           r == FileLength - Len(next.text)
           x == l * B
           y == r * B
<1>1. B \in Nat /\ l \in Nat /\ r \in Nat /\ NewByte \in Nat
  BY Sizes, Orders
<1>2. x \in Nat /\ y \in Nat
  <2> HIDE DEF B, l, r
  <2> QED
    BY <1>1
<1>3. Pending(p) = x + p.order /\ Pending(next) = y + next.order
  BY DEF Pending
<1>4. CASE next.text = p.text /\ next.order \in 0 .. p.order - 1
  <2>1. x = y
    BY <1>4
  <2> HIDE DEF x, y
  <2> QED
    BY <1>1, <1>2, <1>3, <1>4, <2>1
<1>5. CASE Len(next.text) = Len(p.text) + 1 /\ next.order = NewByte
  <2>1. l = r + 1
    BY <1>5, Sizes
  <2>2. x = y + B
    <3> HIDE DEF B, l, r
    <3> QED
      BY <1>1, <2>1
  <2> HIDE DEF x, y
  <2> QED
    BY <1>1, <1>2, <1>3, <1>5, <2>2
<1> QED
  BY <1>4, <1>5 DEF Nearer

(* The order stays in its range, and every step has less left to do.       *)
LEMMA LeftFalls ==
  ASSUME InStep, Ordered, Next
  PROVE  Ordered' /\ Left \in Nat /\ Left' \in Nat /\ Left' < Left
<1> DEFINE W == (FileLength + 1) * (NewByte + 1)
<1>1. W \in Nat /\ NewByte \in Nat /\ NewByte # 0
  BY Sizes, Orders
<1>2. InStep'
  BY InStepNext
<1>3. Len(pzip.text) \in 0 .. FileLength /\ Len(pzip'.text) \in 0 .. FileLength
  <2>1. InStep' => (Len(pzip.text) \in 0 .. FileLength)'
    BY SideReads, PTL
  <2> QED
    BY <1>2, <2>1, SideReads
<1>4. CASE \/ EncodeByte \/ EncodeTry \/ EncodeLast
           \/ DecodeByte \/ DecodeTry \/ DecodeLast
  <2>1. Nearer(pzip, pzip') /\ side' = side /\ side \in {"encode", "decode"}
    BY <1>4, SideNearer
  <2>2. /\ Pending(pzip) \in Nat /\ Pending(pzip') \in Nat
        /\ Pending(pzip') < Pending(pzip) /\ pzip'.order \in 0 .. NewByte
    BY <1>3, <2>1, PendingFalls DEF Ordered
  <2>3. Left = IF side = "encode" THEN Pending(pzip) + W ELSE Pending(pzip)
    BY <2>1 DEF Left
  <2>4. Left' = IF side = "encode" THEN Pending(pzip') + W ELSE Pending(pzip')
    <3>1. Pending(pzip)' = Pending(pzip')
      BY DEF Pending
    <3> QED
      BY <2>1, <3>1 DEF Left
  <2> HIDE DEF W
  <2> QED
    BY <1>1, <2>2, <2>3, <2>4 DEF Ordered
<1>5. CASE Reopen
  <2>1. side = "encode" /\ side' = "decode" /\ pzip' = Start(file)
        /\ pzip.order = NewByte /\ Len(pzip.text) = FileLength
    BY <1>5 DEF Reopen
  <2>2. Start(file).order = NewByte
    BY DEF Start
  <2>3. Left = NewByte + W
    BY <1>1, <2>1, Sizes DEF Left, Pending
  <2> DEFINE B == NewByte + 1
             length == Len(pzip'.text)
             n == FileLength - length
             m == FileLength + 1
  <2>4. Left' = n * B + NewByte
    BY <2>1, <2>2 DEF Left, Pending
  <2>5. n \in Nat /\ m \in Nat /\ n + 1 <= m /\ B \in Nat /\ B > 0
    <3>1. FileLength \in Nat /\ NewByte \in Nat /\ length \in 0 .. FileLength
      BY <1>1, <1>3, Sizes
    <3> HIDE DEF length
    <3> QED
      BY <3>1
  <2>6. n * B \in Nat /\ n * B < W /\ W = m * B
    <3>1. W = m * B
      OBVIOUS
    <3> HIDE DEF n, m, B, W
    <3>2. (n + 1) * B <= m * B /\ n * B \in Nat /\ (n + 1) * B = n * B + B
      BY <2>5, MulMonotone
    <3> QED
      BY <2>5, <3>1, <3>2
  <2> HIDE DEF n, m, B, W
  <2> QED
    BY <1>1, <2>1, <2>2, <2>3, <2>4, <2>6 DEF Ordered
<1>6. CASE Finish
  <2>1. side = "decode" /\ side' = "done" /\ pzip' = pzip
        /\ pzip.order = NewByte /\ Len(pzip.text) = FileLength
    BY <1>6 DEF Finish
  <2>2. Left = NewByte /\ Left' = 0
    BY <1>1, <2>1, Sizes DEF Left, Pending
  <2> QED
    BY <1>1, <2>1, <2>2 DEF Ordered
<1> QED
  BY <1>4, <1>5, <1>6 DEF Next

(* Theorem: every step of either side leaves less to do, counted in        *)
(* naturals, so that none goes on for ever: order by order the escape loop *)
(* ends in order -1, and byte by byte the file.                            *)
THEOREM StepsRunOut == Spec => [][{Left, Left'} \subseteq Nat /\ Left' < Left]_vars
<1> DEFINE Inv == InStep /\ Ordered
<1>1. Init => Inv
  <2> SUFFICES ASSUME Init PROVE Inv
    OBVIOUS
  <2>1. pzip.order = NewByte
    BY DEF Init, Start
  <2> QED
    BY <2>1, Orders, InStepInit DEF Ordered
<1>2. Inv /\ [Next]_vars => Inv'
  <2> SUFFICES ASSUME Inv, [Next]_vars PROVE Inv'
    OBVIOUS
  <2>1. CASE Next
    BY <2>1, LeftFalls, InStepNext
  <2>2. CASE UNCHANGED vars
    BY <2>2, InStepNext DEF vars, Ordered
  <2> QED
    BY <2>1, <2>2
<1>3. Inv /\ [Next]_vars => [{Left, Left'} \subseteq Nat /\ Left' < Left]_vars
  BY LeftFalls
<1> HIDE DEF Inv
<1> QED
  BY <1>1, <1>2, <1>3, PTL DEF Spec

(***************************************************************************)
(* The calls the coder can take.                                           *)
(***************************************************************************)
CallFits(call) ==
  /\ call.of = "part" =>
       call.low < call.high /\ call.high <= call.total /\ call.total <= MaxTotal
  /\ call.of = "bit" =>
       1 <= call.no /\ call.no < call.total /\ call.total <= MaxTotal

(* What SeeStates shows of get_stats' estimates, after the adjustments the *)
(* side at work has made by now: they leave both answers a part.           *)
Fitting(see) ==
  \A state : \A escapes, total \in Nat :
    /\ 1 <= escapes /\ escapes <= total
    /\ escapes - 1 <= MaxSeeEscapes /\ total - escapes < MaxSeeTotal
    => LET odds == Estimate(see, state, escapes, total)
       IN  /\ odds.escapes \in Nat /\ odds.total \in Nat
           /\ 1 <= odds.escapes /\ odds.escapes < odds.total /\ odds.total <= MaxTotal

EstimatesFit == Fitting(pzip.see)

(* The fields of a call for a bit.                                         *)
LEMMA BitIsCall ==
  ASSUME NEW no, NEW total, NEW bit
  PROVE  LET call == BitCall(no, total, bit)
         IN  call.of = "bit" /\ call.no = no /\ call.total = total
  BY DEF BitCall

(* The odds of a bit.                                                      *)
LEMMA BitFits ==
  ASSUME NEW no \in Nat, NEW total \in Nat, NEW bit,
         1 <= no, no < total, total <= MaxTotal
  PROVE  CallFits(BitCall(no, total, bit))
<1> DEFINE call == BitCall(no, total, bit)
<1>1. call.of = "bit" /\ call.no = no /\ call.total = total
  BY BitIsCall
<1> HIDE DEF call
<1>2. CallFits(call)
  BY <1>1 DEF CallFits
<1> QED
  BY <1>2 DEF call

(* A part of a total.                                                      *)
LEMMA PartFits ==
  ASSUME NEW low \in Nat, NEW high \in Nat, NEW total \in Nat,
         low < high, high <= total, total <= MaxTotal
  PROVE  CallFits(PartCall(low, high, total))
<1> DEFINE call == PartCall(low, high, total)
<1>1. call.of = "part" /\ call.low = low /\ call.high = high /\ call.total = total
  BY PartIsCall
<1> HIDE DEF call
<1>2. CallFits(call)
  BY <1>1 DEF CallFits
<1> QED
  BY <1>2 DEF call

(* det_escape.c's bit is coded with odds of its own.                       *)
LEMMA PredictionFits ==
  \A match : CallFits(PredictionCall(match))
<1> TAKE match
<1> DEFINE call == PredictionCall(match)
<1>1. call.of = "prediction"
  BY DEF PredictionCall
<1> HIDE DEF call
<1>2. CallFits(call)
  BY <1>1 DEF CallFits
<1> QED
  BY <1>2 DEF call

(* The bit of an escape: with the SEE estimate if the context has a state, *)
(* else with its own counts.                                               *)
LEMMA EscapeFits ==
  ASSUME NEW p, Fitting(p.see), Soundly(p.contexts), NEW k, Offers(p, k),
         NEW escape \in BOOLEAN
  PROVE  CallFits(EscapeCall(p, k, escape))
<1> DEFINE stats == StatsOf(p, k)
           state == CodingState(p, k)
           e == stats.escape_count
           n == stats.total_count
<1>1. /\ n \in Nat /\ e \in Nat /\ n > 0
      /\ 1 <= e /\ e + n <= MaxTotal
  <2>1. Fits(stats)
    BY ActiveSound, StatsFit DEF StatsOf
  <2>2. n > 0
    BY DEF Offers, CanCode, StatsOf
  <2> HIDE DEF stats
  <2> QED
    BY <2>1, <2>2 DEF Fits
<1>2. MaxTotal \in Nat
  BY FollowsetAssumption
<1>3. CASE state = <<>>
  <2>1. Odds(p, state, e, n) = [escapes |-> e, total |-> e + n]
    BY <1>3 DEF Odds
  <2>2. Odds(p, state, e, n).total = e + n
    BY <2>1
  <2>3. EscapeCall(p, k, escape) = BitCall(n, e + n, escape)
    BY <1>3, <2>2 DEF EscapeCall
  <2> HIDE DEF e, n
  <2>4. 1 <= n /\ n < e + n /\ e + n \in Nat
    BY <1>1
  <2> QED
    BY <1>1, <2>3, <2>4, BitFits
<1>4. CASE state # <<>>
  <2> DEFINE odds == Estimate(p.see, state, e, n)
  <2>1. Odds(p, state, e, n) = odds
    BY <1>4 DEF Odds
  <2>2. EscapeCall(p, k, escape) = BitCall(odds.escapes, odds.total, ~escape)
    BY <1>4, <2>1 DEF EscapeCall
  <2>3. e <= n /\ state = SeeState(p, k, e, n)
    <3>1. ~(e > n)
      BY <1>4 DEF CodingState
    <3>2. state = SeeState(p, k, e, n)
      BY <1>4 DEF CodingState
    <3> HIDE DEF e, n, state
    <3> QED
      BY <1>1, <3>1, <3>2
  <2>4. e - 1 <= MaxSeeEscapes /\ n - e < MaxSeeTotal
    <3> HIDE DEF e, n, state
    <3>1. ~(n = 0 \/ e - 1 > MaxSeeEscapes \/ n - e >= MaxSeeTotal)
      BY <1>4, <2>3 DEF SeeState
    <3> QED
      BY <1>1, <3>1, SeeAssumption
  <2> HIDE DEF e, n, state
  <2>5. /\ odds.escapes \in Nat /\ odds.total \in Nat
        /\ 1 <= odds.escapes /\ odds.escapes < odds.total /\ odds.total <= MaxTotal
    BY <1>1, <2>3, <2>4 DEF Fitting
  <2> HIDE DEF odds
  <2>6. CallFits(BitCall(odds.escapes, odds.total, ~escape))
    BY <2>5, BitFits
  <2> QED
    BY <2>2, <2>6
<1> QED
  BY <1>3, <1>4

(* The part of a symbol that is open.                                      *)
LEMMA SymbolFits ==
  ASSUME NEW p, Soundly(p.contexts), NEW k, NEW symbol,
         symbol \in SymbolsOf(Open(Active(p, k).counts, p.excluded)), Offers(p, k)
  PROVE  CallFits(SymbolCall(p, k, symbol))
<1> DEFINE c == Active(p, k).counts
           part == Part(c, p.excluded, symbol)
           total == StatsOf(p, k).total_count
<1>1. Sound(c) /\ c.followset \in Seq(Nodes)
  BY ActiveSound, SoundNodes
<1>2. \A x : Has(c.followset, x) => x.count >= 1
  BY <1>1 DEF Sound, Exact
<1>3. symbol \in SymbolsOf(Open(c, p.excluded))
  OBVIOUS
<1>4. total = Total(Open(c, p.excluded)) /\ Fits(StatsOf(p, k)) /\ total > 0
  <2>1. StatsOf(p, k) = Stats(c, p.excluded) /\ CanCode(c, p.excluded)
    BY DEF StatsOf, Offers
  <2> HIDE DEF c
  <2> QED
    BY <1>1, <2>1, StatsFit DEF CanCode
<1>5. SymbolCall(p, k, symbol) = PartCall(part.low, part.high, total)
  BY DEF SymbolCall
<1>6. total <= MaxTotal /\ total \in Nat
  <2> DEFINE s == StatsOf(p, k)
  <2> HIDE DEF s
  <2>1. Fits(s) /\ s.total_count > 0
    BY <1>4 DEF s
  <2>2. s.total_count <= MaxTotal /\ s.total_count \in Nat
    BY <2>1, FollowsetAssumption DEF Fits
  <2> QED
    BY <2>2 DEF s
<1> HIDE DEF c
<1>7. /\ part.low \in Nat /\ part.high \in Nat /\ part.low < part.high
      /\ part.high <= Total(Open(c, p.excluded))
  BY <1>1, <1>2, <1>3, PartWalk
<1> HIDE DEF part, total
<1> QED
  BY <1>4, <1>5, <1>6, <1>7, PartFits

(* Order -1's part of the symbols that are left.                           *)
LEMMA LastFits ==
  ASSUME NEW p, NEW symbol \in Symbols, symbol \notin p.excluded
  PROVE  CallFits(LastCall(p, symbol))
<1> DEFINE r == RankOf(p, symbol)
           a == Cardinality(Allowed(p))
<1>1. symbol \in Allowed(p)
  BY DEF Allowed
<1>2. r \in Nat /\ r + 1 <= a /\ a \in Nat /\ a <= SymbolCount
  BY <1>1, RankIs
<1>3. SymbolCount <= MaxTotal
  <2>1. /\ SymbolCount \in Nat /\ MaxTotal \in Nat /\ HalveThreshold \in Nat /\ Inc \in Nat
        /\ EscapeMax \in Nat /\ EscpInc \in Nat
        /\ HalveThreshold > SymbolCount + EscapeMax + EscpInc
        /\ MaxTotal >= HalveThreshold + 4 * Inc + EscapeMax + EscpInc
    BY FollowsetAssumption
  <2> QED
    BY <2>1
<1>4. LastCall(p, symbol) = PartCall(r, r + 1, a)
  BY DEF LastCall
<1> HIDE DEF r, a
<1>5. r + 1 \in Nat /\ r < r + 1 /\ a <= MaxTotal
  BY <1>2, <1>3, FollowsetAssumption
<1> QED
  BY <1>2, <1>4, <1>5, PartFits

AllFit(made) == \A i \in 1 .. Len(made) : CallFits(made[i])

(* One call more that fits.                                                *)
LEMMA FitsAppend ==
  ASSUME NEW made, IsList(made), AllFit(made), NEW call, CallFits(call)
  PROVE  AllFit(Append(made, call))
<1> DEFINE now == Append(made, call)
<1>1. /\ Begins(made, now) /\ Len(now) = Len(made) + 1 /\ now[Len(made) + 1] = call
  BY ListAppend
<1> HIDE DEF now
<1>2. ASSUME NEW i \in 1 .. Len(now) PROVE CallFits(now[i])
  <2>1. CASE i \in 1 .. Len(made)
    BY <1>1, <2>1 DEF Begins, AllFit
  <2>2. CASE i = Len(made) + 1
    BY <1>1, <2>2
  <2> QED
    BY <1>1, <2>1, <2>2 DEF Begins
<1> QED
  BY <1>2 DEF AllFit, now

(* Two calls more.                                                         *)
LEMMA FitsAppendTwo ==
  ASSUME NEW made, IsList(made), AllFit(made), NEW d, NEW e, CallFits(d), CallFits(e)
  PROVE  AllFit(made \o <<d, e>>)
<1> DEFINE now == made \o <<d, e>>
<1>1. /\ Begins(made, now) /\ Len(now) = Len(made) + 2
      /\ now[Len(made) + 1] = d /\ now[Len(made) + 2] = e
  BY ListAppendTwo
<1> HIDE DEF now
<1>2. ASSUME NEW i \in 1 .. Len(now) PROVE CallFits(now[i])
  <2>1. CASE i \in 1 .. Len(made)
    BY <1>1, <2>1 DEF Begins, AllFit
  <2>2. CASE i = Len(made) + 1
    BY <1>1, <2>2
  <2>3. CASE i = Len(made) + 2
    BY <1>1, <2>3
  <2> QED
    BY <1>1, <2>1, <2>2, <2>3 DEF Begins
<1> QED
  BY <1>2 DEF AllFit, now

(* The calls of a step of the encoder fit.                                 *)
LEMMA StepFits ==
  ASSUME NEW f \in Files, NEW p, Reading(f, p), Fitting(p.see),
         NEW made, IsList(made), AllFit(made),
         NEW next, NEW now, EncodeStep(f, p, made, next, now)
  PROVE  AllFit(now)
<1> DEFINE symbol == Due(f, p)
<1>1. HasRead(f, p) /\ Soundly(p.contexts)
  BY DEF Reading, HasRead
<1>2. CASE EncodeGuess(p, symbol, made, next, now)
  <2>1. CASE now = made
    BY <2>1
  <2>2. ASSUME NEW match, now = Append(made, PredictionCall(match))
        PROVE  AllFit(now)
    <3> DEFINE call == PredictionCall(match)
    <3>1. CallFits(call)
      BY PredictionFits
    <3> HIDE DEF call
    <3>2. AllFit(Append(made, call))
      BY <3>1, FitsAppend
    <3> QED
      BY <2>2, <3>2 DEF call
  <2>3. now = made \/ now = Append(made, PredictionCall(Predict(p.text) = symbol))
    BY <1>2 DEF EncodeGuess
  <2> QED
    BY <2>1, <2>2, <2>3
<1>3. ASSUME NEW k, EncodeWith(p, k, symbol, made, next, now)
      PROVE  AllFit(now)
  <2> DEFINE c == Active(p, k).counts
             found == symbol \in SymbolsOf(Open(c, p.excluded))
             leave == EscapeCall(p, k, TRUE)
             stay == EscapeCall(p, k, FALSE)
             part == SymbolCall(p, k, symbol)
  <2>1. CASE now = made
    BY <2>1
  <2>2. CASE Offers(p, k) /\ now = Append(made, leave)
    <3>1. CallFits(leave)
      BY <1>1, <2>2, EscapeFits
    <3> HIDE DEF leave
    <3> QED
      BY <2>2, <3>1, FitsAppend
  <2>3. CASE Offers(p, k) /\ found /\ now = made \o <<stay, part>>
    <3>1. CallFits(stay)
      BY <1>1, <2>3, EscapeFits
    <3>2. CallFits(part)
      BY <1>1, <2>3, SymbolFits
    <3> HIDE DEF stay, part
    <3> QED
      BY <2>3, <3>1, <3>2, FitsAppendTwo
  <2> QED
    BY <1>3, <2>1, <2>2, <2>3 DEF EncodeWith
<1>4. CASE p.order = 0 /\ EncodeRest(p, symbol, made, next, now)
  <2>1. symbol \notin p.excluded /\ Len(p.text) < FileLength
    BY <1>4, Orders DEF Reading, Due
  <2>2. symbol \in Symbols
    BY <1>1, <2>1, DueIs
  <2>3. CallFits(LastCall(p, symbol))
    BY <2>1, <2>2, LastFits
  <2> QED
    BY <1>4, <2>3, FitsAppend DEF EncodeRest
<1> QED
  BY <1>2, <1>3, <1>4 DEF EncodeStep

(* The places of a list.                                                   *)
LEMMA ListDomain ==
  ASSUME NEW s, IsList(s)
  PROVE  DOMAIN s = 1 .. Len(s)
<1>1. PICK D : s \in Seq(D)
  BY DEF IsList
<1> QED
  BY <1>1, LenProperties

(* The calls are one.                                                      *)
LEMMA CallsAreList ==
  ASSUME InStep
  PROVE  IsList(calls)
<1>1. PICK n, t : Trace(file, t, n) /\ t[n].calls = calls
  BY DEF InStep, Encoding, Decoding
<1> QED
  BY <1>1 DEF Trace

(* Theorem: as long as SEE's estimates are ones the coder can take, every  *)
(* call pzip_Encode makes of the arithmetic coder is one it can take.      *)
THEOREM CallsAlwaysCodable == Spec /\ []EstimatesFit => []CallsCodable
<1> DEFINE Inv == InStep /\ AllFit(calls)
<1>1. Init => Inv
  <2> SUFFICES ASSUME Init PROVE Inv
    OBVIOUS
  <2>1. calls = <<>>
    BY DEF Init
  <2>2. AllFit(calls)
    BY <2>1 DEF AllFit
  <2> QED
    BY <2>2, InStepInit
<1>2. Inv /\ EstimatesFit /\ [Next]_vars => Inv'
  <2> SUFFICES ASSUME Inv, EstimatesFit, [Next]_vars PROVE Inv'
    OBVIOUS
  <2>1. InStep'
    BY InStepNext
  <2>2. AllFit(calls')
    <3>1. CASE EncodeByte \/ EncodeTry \/ EncodeLast
      <4>1. side = "encode" /\ EncodeStep(file, pzip, calls, pzip', calls')
        BY <3>1, EncodeAction
      <4>2. PICK n, t : Trace(file, t, n) /\ t[n] = [pzip |-> pzip, calls |-> calls]
        BY <4>1 DEF InStep, Encoding
      <4>3. Reading(file, t[n].pzip) /\ t[n].pzip = pzip
        BY <4>2 DEF Trace
      <4>4. Reading(file, pzip) /\ IsList(calls) /\ file \in Files
        BY <4>3, CallsAreList DEF InStep
      <4> QED
        BY <4>1, <4>4, StepFits DEF EstimatesFit
    <3>2. CASE calls' = calls
      BY <3>2
    <3> QED
      BY <3>1, <3>2 DEF Next, vars, Reopen, DecodeByte, DecodeTry, DecodeLast, Finish
  <2> QED
    BY <2>1, <2>2 DEF AllFit
<1>3. Inv => CallsCodable
  <2> SUFFICES ASSUME Inv PROVE CallsCodable
    OBVIOUS
  <2>1. DOMAIN calls = 1 .. Len(calls)
    BY CallsAreList, ListDomain
  <2> QED
    BY <2>1 DEF CallsCodable, AllFit, CallFits
<1> HIDE DEF Inv
<1> QED
  BY <1>1, <1>2, <1>3, PTL DEF Spec
=============================================================================
