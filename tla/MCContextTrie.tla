--------------------------- MODULE MCContextTrie ---------------------------
(***************************************************************************)
(* A trie over two symbols, whose orders from 4 on skip a length, as       *)
(* orders 6 to 8 do.  The tables of the chained orders have two slots, and *)
(* the contexts of an input that alternates share one.                     *)
(***************************************************************************)
EXTENDS ContextTrie

MCSuffixLen == [k \in 2 .. TopOrder |-> IF k <= 3 THEN k ELSE k + 1]
MCSlots == 0 .. 3
MCHash(k, suffix) ==
  IF k = 2 THEN suffix[1] + 2 * suffix[2]
           ELSE (suffix[1] + suffix[2]) % 2
=============================================================================
