--------------------------- MODULE MCArithEncoder ---------------------------
(***************************************************************************)
(* A scaled-down coder: 2-bit bytes, a 6-bit word, MIN_WIDE 8, cumulative  *)
(* totals up to 4.  The shares of the original hold: one byte above        *)
(* MIN_WIDE, one carry bit above that, and a ratio of at least two.        *)
(***************************************************************************)
EXTENDS ArithEncoderRefines

MCPowersOfTwo == {2^i : i \in 0 .. 5}
=============================================================================
