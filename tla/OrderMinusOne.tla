--------------------------- MODULE OrderMinusOne ---------------------------
(***************************************************************************)
(* order-1.c: the model of last resort, every symbol that is not excluded  *)
(* equally likely.  The encoder turns a symbol into one part of total, the *)
(* decoder turns the part back into a symbol by walking the array.         *)
(***************************************************************************)
EXTENDS ExcludedSymbols, FiniteSets

Allowed(first, last) == {i \in first .. last : ~Contains(i)}

(* order_minus_one_Encode: the part low .. low of total.                   *)
EncodedLow(symbol) == Cardinality(Allowed(0, symbol - 1))

(* Mutant: the symbol itself is counted twice.                             *)
EncodedTotalTwice(symbol) ==
  EncodedLow(symbol) + 1 + Cardinality(Allowed(symbol, SymbolCount - 1))

EncodedTotal(symbol) ==
  EncodedLow(symbol) + 1 + Cardinality(Allowed(symbol + 1, SymbolCount - 1))

(* order_minus_one_Decode: total, and the walk over the slots, which would *)
(* run off the array (SymbolCount) if it found too few.                    *)
DecodedTotal == Cardinality(Allowed(0, SymbolCount - 1))

DecodedSymbol(part) ==
  LET walk[at \in (0 .. SymbolCount) \X (0 .. SymbolCount)] ==
        LET symbol == at[1]
            target == at[2]
        IN  IF symbol = SymbolCount THEN SymbolCount
            ELSE IF Contains(symbol) THEN walk[<<symbol + 1, target>>]
            ELSE IF target = 0 THEN symbol
            ELSE walk[<<symbol + 1, target - 1>>]
  IN  walk[<<0, part>>]
-----------------------------------------------------------------------------
(* Whatever is excluded, both sides split the zone into the same total and *)
(* the decoder's walk ends on the symbol the encoder's part stands for.    *)
MinusOneRoundTrip ==
  \A symbol \in Symbols :
    ~Contains(symbol) =>
      /\ EncodedTotal(symbol) = DecodedTotal
      /\ EncodedLow(symbol) < DecodedTotal
      /\ DecodedSymbol(EncodedLow(symbol)) = symbol
=============================================================================
