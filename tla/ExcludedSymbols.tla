-------------------------- MODULE ExcludedSymbols --------------------------
(***************************************************************************)
(* excluded_symbols.c: the set of symbols excluded while a byte is coded,  *)
(* kept as an array of stamps.  A slot is in the set when its stamp is     *)
(* is_set, so raising is_set empties the set in one step, until the stamp  *)
(* wraps to zero and reset clears the array.                               *)
(*                                                                         *)
(* reset's memset counts 256 bytes, but a slot is a uint: it clears the    *)
(* first 64 slots of the 256.                                              *)
(***************************************************************************)
EXTENDS Integers

CONSTANTS
  SymbolCount,   \* slots of the array: 256
  ResetSlots,    \* slots that reset clears: 64
  StampMod,      \* values of a uint: 2^32
  MaxClears      \* bound: bytes of one message, a Clear for each

ASSUME SymbolsAssumption ==
  /\ SymbolCount \in Nat
  /\ ResetSlots \in 0 .. SymbolCount
ASSUME StampAssumption == StampMod \in Nat /\ StampMod > 2
ASSUME ClearsAssumption == MaxClears \in Nat

Symbols == 0 .. SymbolCount - 1
Stamps == 0 .. StampMod - 1

VARIABLES
  is_set,       \* the stamp of the present members
  is_empty,
  symbol_set,   \* the array of stamps
  clears        \* bytes begun by the message's loop

vars == <<is_set, is_empty, symbol_set, clears>>

Contains(sym) == symbol_set[sym] = is_set

(* excluded_symbols_Create: calloc, then reset.                            *)
Init ==
  /\ is_set = 1
  /\ is_empty = TRUE
  /\ symbol_set = [s \in Symbols |-> 0]
  /\ clears = 0

Reset ==
  /\ symbol_set' = [s \in Symbols |-> IF s < ResetSlots THEN 0 ELSE symbol_set[s]]
  /\ is_set' = 1
  /\ is_empty' = TRUE

(* Mutant: is_empty is only set when the array is cleared.                 *)
ClearStampOnly ==
  /\ clears < MaxClears
  /\ clears' = clears + 1
  /\ IF (is_set + 1) % StampMod = 0
     THEN Reset
     ELSE is_set' = is_set + 1 /\ UNCHANGED <<is_empty, symbol_set>>

(* excluded_symbols_Clear: once per byte.                                  *)
Clear ==
  /\ clears < MaxClears
  /\ clears' = clears + 1
  /\ IF (is_set + 1) % StampMod = 0
     THEN Reset
     ELSE /\ is_set' = is_set + 1
          /\ is_empty' = TRUE
          /\ UNCHANGED symbol_set

(* excluded_symbols_Add.                                                   *)
Add(sym) ==
  /\ symbol_set' = [symbol_set EXCEPT ![sym] = is_set]
  /\ is_empty' = FALSE
  /\ UNCHANGED <<is_set, clears>>

Next == Clear \/ \E sym \in Symbols : Add(sym)

Spec == Init /\ [][Next]_vars
-----------------------------------------------------------------------------
(* The types of struct Excluded_Symbols.                                   *)
TypeOK ==
  /\ is_set \in Stamps
  /\ is_empty \in BOOLEAN
  /\ symbol_set \in [Symbols -> Stamps]
  /\ clears \in 0 .. MaxClears

(* The comment of excluded_symbols.c: is_empty tracks "whether the set is  *)
(* currently empty".  context_Get_Followset_Stats uses the totals of the   *)
(* whole followset on its word.                                            *)
IsEmptyExact == is_empty <=> \A s \in Symbols : ~Contains(s)

Set ==
  INSTANCE SymbolSet WITH
    members <- {s \in Symbols : Contains(s)},
    empty   <- is_empty

(* The stamps and the flag implement a set that a Clear empties: no symbol *)
(* excluded for an earlier byte is excluded again, and the flag that       *)
(* context_Get_Followset_Stats reads agrees with the slots.                *)
ImplementsSymbolSet == Set!Spec
=============================================================================
