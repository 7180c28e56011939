----------------------------- MODULE SymbolSet -----------------------------
(***************************************************************************)
(* What the set of excluded symbols is for: while one byte is coded, the   *)
(* symbols every model tried so far has ruled out.  Each byte starts with  *)
(* an empty set.                                                           *)
(***************************************************************************)
CONSTANT Symbols

VARIABLES
  members,   \* the excluded symbols
  empty      \* whether there are none, for the fast path

vars == <<members, empty>>

Init == members = {} /\ empty = TRUE

Clear == members' = {} /\ empty' = TRUE

Add == \E s \in Symbols : members' = members \union {s} /\ empty' = FALSE

Next == Clear \/ Add

Spec == Init /\ [][Next]_vars
=============================================================================
