---------------------------- MODULE CodeInterval ----------------------------
(***************************************************************************)
(* What an arithmetic encoder promises, in exact arithmetic.  The free     *)
(* zone is the interval                                                    *)
(*                                                                         *)
(*     [low, low + width)    in units of 1 / Power[digits] / One           *)
(*                                                                         *)
(* Coding a symbol keeps a part of the free zone and gives up the rest; the *)
(* unit may be refined at the same time.  Closing the code picks one       *)
(* number of the zone that is left.  Every zone contains the next one, so  *)
(* that number lies in all of them, which is why it tells a decoder every  *)
(* choice that was made.                                                   *)
(***************************************************************************)
EXTENDS Integers

CONSTANTS
  Power,      \* Power[n]: the units that n more digits make of one
  One,        \* the initial width of the free zone
  MaxDigits   \* bound: digits by which one step refines the unit

VARIABLES
  low,        \* bottom of the free zone
  width,      \* its width; 0 once the code is closed
  digits,     \* digits of the code above the unit
  code        \* [value, digits]: the chosen number; no digits while open

vars == <<low, width, digits, code>>

Open == [value |-> 0, digits |-> 0]

Init ==
  /\ low = 0
  /\ width = One
  /\ digits = 1
  /\ code = Open

(* A symbol: the zone shrinks to a part of itself that is not empty.       *)
Narrow ==
  /\ code = Open
  /\ width > 0
  /\ \E d \in 0 .. MaxDigits :
       /\ digits' = digits + d
       /\ width' > 0
       /\ low' >= low * Power[d]
       /\ low' + width' <= (low + width) * Power[d]
  /\ UNCHANGED code

(* The end of the message: some number of the free zone is the code, and   *)
(* the zone is used up.                                                    *)
Close ==
  /\ code = Open
  /\ width > 0
  /\ \E d \in 0 .. MaxDigits :
       /\ code'.digits = digits + d
       /\ code'.value * One >= low * Power[d]
       /\ code'.value * One < (low + width) * Power[d]
  /\ low' = 0
  /\ width' = 0
  /\ digits' = 0

Next == Narrow \/ Close

Spec == Init /\ [][Next]_vars
=============================================================================
