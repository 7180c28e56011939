---------------------------- MODULE MCByteCoder ----------------------------
(***************************************************************************)
(* Short files over few symbols.  The deterministic contexts predict the   *)
(* byte that followed the last two bytes when they came before, and a SEE  *)
(* state counts the last two escapes and symbols it was told of.           *)
(***************************************************************************)
EXTENDS ByteCoder

MCPredict(bytes) ==
  LET n       == Len(bytes)
      matches == {i \in 3 .. n : SubSeq(bytes, i - 2, i - 1) = SubSeq(bytes, n - 1, n)}
  IN  IF matches = {} THEN None ELSE bytes[Max(matches)]

MCEstimate(log, state, escapes, total) ==
  LET told == SelectSeq(log, LAMBDA entry : entry[1] = state)
      last == SubSeq(told, Max({1, Len(told) - 1}), Len(told))
  IN  [escapes |-> escapes + Len(SelectSeq(last, LAMBDA entry : entry[2])),
       total   |-> escapes + total + Len(last)]
=============================================================================
