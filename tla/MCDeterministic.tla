--------------------------- MODULE MCDeterministic ---------------------------
(***************************************************************************)
(* Two bytes that differ in their low bits only, lengths in the order they *)
(* have in config.c, and a ring that is used again and again.              *)
(***************************************************************************)
EXTENDS Deterministic

MCSymbols == {65, 66}
=============================================================================
