----------------------------- MODULE MCSeeStates -----------------------------
(***************************************************************************)
(* Two situations whose states share a parent, and small thresholds.       *)
(***************************************************************************)
EXTENDS SeeStates

High == [order |-> 4, escapes |-> 0, total |-> 2, parent_size |-> 2,
         det |-> TRUE, key |-> <<1, 0, 2, 3>>, low |-> 7]
Sibling == [High EXCEPT !.low = 8]

MCShared == {High, Sibling}

(* ilog2round: 2^k + 1/2 is rounded up from the square root of 2 on.       *)
MCLog2Table ==
  [n \in 1 .. 19 |->
     CHOOSE k \in 0 .. 6 : 2 * n * n < 2^(2 * k + 2) /\ 2^(2 * k) <= 2 * n * n]
=============================================================================
