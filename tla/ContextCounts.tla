---------------------------- MODULE ContextCounts ----------------------------
(***************************************************************************)
(* The followset of one context through any sequence of symbols: what its  *)
(* statistics are at every moment, and what the coder is given whichever   *)
(* symbols the higher orders have excluded by then.                        *)
(***************************************************************************)
EXTENDS Followset

VARIABLE context

countsVars == <<context>>

(* context_create.                                                         *)
CountsInit == context = NoCounts

(* context_Update, called by the loops of pzip.c for the symbol coded.     *)
See(symbol) == context' = Update(context, symbol)

CountsNext == \E symbol \in Symbols : See(symbol)

CountsSpec == CountsInit /\ [][CountsNext]_countsVars
-----------------------------------------------------------------------------
(* The statistics kept beside the followset are those of its nodes, so     *)
(* that the parts of a zone add up to the total the coder was given, and a *)
(* symbol has one node.                                                    *)
StatsExact ==
  LET nodes == context.followset
  IN  /\ context.total_symbol_count = Total(nodes)
      /\ context.max_count = Largest(nodes)
      /\ context.followset_size = Len(nodes)
      /\ \A i, j \in DOMAIN nodes : nodes[i].symbol = nodes[j].symbol => i = j

(* The assertions of see_Get_State where context_Update calls it:          *)
(* escape_count, raised, lowered, capped and halved by rules of its own,   *)
(* stays between 1 and the total.                                          *)
EscapesBelowTotal ==
  context # NoCounts =>
    /\ context.followset_size >= 1
    /\ 1 <= context.escape_count
    /\ context.escape_count <= context.total_symbol_count

(* Whatever is excluded, the stats can be coded: an escape keeps a part of *)
(* its own beside the open symbols, and the two together stay below        *)
(* CUMULATIVE_PROBABILITY_MAX ("to keep the logic in our arithmetic        *)
(* encoder from overflowing").                                             *)
Codable ==
  \A excluded \in SUBSET Symbols :
    LET stats == Stats(context, excluded)
    IN  stats.total_count > 0 =>
          /\ 1 <= stats.escape_count
          /\ stats.escape_count + stats.total_count <= MaxTotal
          /\ 1 <= stats.max_count /\ stats.max_count <= stats.total_count

(* Encoder and decoder walk the same partition: every open symbol has a    *)
(* part of the zone, every number below the total is in the part of one    *)
(* open symbol, and the walk of context_Decode, whose end is an assertion, *)
(* stops at it.                                                            *)
PartsRoundTrip ==
  \A excluded \in SUBSET Symbols :
    LET open  == SymbolsOf(Open(context, excluded))
        total == Stats(context, excluded).total_count
        part  == [s \in open |-> Part(context, excluded, s)]
    IN  /\ \A s \in open : 0 <= part[s].low /\ part[s].high <= total
        /\ \A got \in 0 .. total - 1 :
             \E s \in open : /\ part[s].low <= got /\ got < part[s].high
                             /\ SymbolAt(context, excluded, got) = s

(* Halving forgets only symbols seen once: any other stays in the          *)
(* followset, above the novel counts.                                      *)
HalvingKeepsSeen ==
  [][ \A i \in DOMAIN context.followset :
        ~IsNovel(context.followset[i]) =>
          \E j \in DOMAIN context'.followset :
            /\ context'.followset[j].symbol = context.followset[i].symbol
            /\ ~IsNovel(context'.followset[j]) ]_countsVars
=============================================================================
