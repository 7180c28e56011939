---------------------------- MODULE MCArithCodec ----------------------------
(***************************************************************************)
(* The scaled-down coder of MCArithEncoder with its decoder: one bit of a  *)
(* byte stays in the queue, as in the original.                            *)
(***************************************************************************)
EXTENDS ArithCodec

MCPowersOfTwo == {2^i : i \in 0 .. 5}
=============================================================================
