------------------------------ MODULE Followset ------------------------------
(***************************************************************************)
(* The followset half of context.c: the symbols that were seen after a     *)
(* context, most recent first, with their counts and the statistics kept   *)
(* beside them.  This module has the operations; ContextCounts applies     *)
(* them to one context, ByteCoder to all of a message.                     *)
(***************************************************************************)
EXTENDS Integers, SequencesExt

CONSTANTS
  SymbolCount,       \* the values of a byte: 256
  IncNovel,          \* CONTEXT_SYMBOL_INC_NOVEL: 1
  Inc,               \* CONTEXT_SYMBOL_INC: 1
  EscpInc,           \* CONTEXT_ESCP_INC: 1
  EscapeMax,         \* CONTEXT_ESCAPE_MAX: 20
  HalveThreshold,    \* CONTEXT_COUNT_HALVE_THRESHOLD: 4096
  ExclEscInit,       \* CONTEXT_EXCLUDED_ESCAPE_INIT: 6
  ExclEscInc,        \* CONTEXT_EXCLUDED_ESCAPE_INC: 4, also 1 << .._SHIFT
  ExclEscExcluded,   \* CONTEXT_EXCLUDED_ESCAPE_EXCLUDEDINC: 3
  MaxTotal           \* CUMULATIVE_PROBABILITY_MAX: 2^14

Symbols == 0 .. SymbolCount - 1

(* struct Followset_Node.                                                  *)
Nodes == [symbol : Symbols, count : Nat]

(* Twice the promoted counts that halving leaves stay below the threshold, *)
(* and so do the escapes; a symbol adds more to the total than to the      *)
(* escapes.  The coder takes the most that a context can count: the        *)
(* threshold, what an update or two add to it, and the escapes kept or     *)
(* counted under exclusion.                                                *)
ASSUME FollowsetAssumption ==
  /\ SymbolCount \in Nat \ {0}
  /\ IncNovel \in Nat \ {0} /\ Inc \in Nat \ {0} /\ Inc >= IncNovel
  /\ EscpInc \in Nat \ {0} /\ EscapeMax \in Nat \ {0}
  /\ EscpInc <= IncNovel
  /\ HalveThreshold \in Nat
  /\ HalveThreshold > 2 * SymbolCount * (IncNovel + 1)
  /\ HalveThreshold > SymbolCount + EscapeMax + EscpInc
  /\ ExclEscInit \in Nat /\ ExclEscInc \in Nat \ {0} /\ ExclEscExcluded \in Nat
  /\ ExclEscInit >= ExclEscInc /\ ExclEscInc >= ExclEscExcluded
  /\ MaxTotal \in Nat
  /\ MaxTotal >= HalveThreshold + 4 * Inc + EscapeMax + EscpInc
  /\ MaxTotal >= HalveThreshold + 4 * Inc
                   + (ExclEscInit + ExclEscInc * SymbolCount) \div ExclEscInc

-----------------------------------------------------------------------------
(* struct Context, the statistics of its followset (context_create).       *)
NoCounts ==
  [followset |-> <<>>, followset_size |-> 0, total_symbol_count |-> 0,
   max_count |-> 0, escape_count |-> 0]

(* The loops of maybe_halve_counts over the nodes.                         *)
Total(nodes) ==
  LET total[n \in 0 .. Len(nodes)] ==
        IF n = 0 THEN 0 ELSE total[n - 1] + nodes[n].count
  IN  total[Len(nodes)]

Largest(nodes) ==
  LET largest[n \in 0 .. Len(nodes)] ==
        IF n = 0 THEN 0 ELSE Max({largest[n - 1], nodes[n].count})
  IN  largest[Len(nodes)]

(* The nodes of a list that are in a set, in their order.                  *)
Among(nodes, kept) ==
  LET among[n \in 0 .. Len(nodes)] ==
        IF n = 0 THEN <<>>
        ELSE IF nodes[n] \in kept THEN Append(among[n - 1], nodes[n])
        ELSE among[n - 1]
  IN  among[Len(nodes)]

SymbolsOf(nodes) == {nodes[i].symbol : i \in DOMAIN nodes}
IsNovel(n) == n.count <= IncNovel

(* Mutant: the total is halved, not added up again.                        *)
HalveTotal(c) ==
  IF c.total_symbol_count < HalveThreshold THEN c
  ELSE LET kept  == Among(c.followset, {n \in Nodes : n.count \div 2 > 0})
           nodes == [i \in DOMAIN kept |->
                       [kept[i] EXCEPT !.count = Max({@ \div 2, IncNovel + 1})]]
       IN  [c EXCEPT
              !.followset = nodes,
              !.followset_size = Len(nodes),
              !.total_symbol_count = c.total_symbol_count \div 2,
              !.max_count = Largest(nodes),
              !.escape_count = (@ \div 2) + 1]

(* Mutant: the symbols seen least are forgotten with the novel ones.       *)
HalveBelowPromotion(c) ==
  IF c.total_symbol_count < HalveThreshold THEN c
  ELSE LET kept  == Among(c.followset, {n \in Nodes : n.count \div 2 > IncNovel})
           nodes == [i \in DOMAIN kept |-> [kept[i] EXCEPT !.count = @ \div 2]]
       IN  [c EXCEPT
              !.followset = nodes,
              !.followset_size = Len(nodes),
              !.total_symbol_count = Total(nodes),
              !.max_count = Largest(nodes),
              !.escape_count = (@ \div 2) + 1]

(* maybe_halve_counts: a count that halves to zero goes, one that halves   *)
(* to a novel count is lifted above it.                                    *)
MaybeHalve(c) ==
  IF c.total_symbol_count < HalveThreshold THEN c
  ELSE LET kept  == Among(c.followset, {n \in Nodes : n.count \div 2 > 0})
           nodes == [i \in DOMAIN kept |->
                       [kept[i] EXCEPT !.count = Max({@ \div 2, IncNovel + 1})]]
       IN  [c EXCEPT
              !.followset = nodes,
              !.followset_size = Len(nodes),
              !.total_symbol_count = Total(nodes),
              !.max_count = Largest(nodes),
              !.escape_count = (@ \div 2) + 1]

(* Mutant: each novel symbol seen again lowers the escape count, which     *)
(* does not count those beyond EscapeMax.                                  *)
SeenAgainUnfloored(c, i) ==
  LET node  == c.followset[i]
      gain  == IF IsNovel(node) THEN Inc + Inc - IncNovel ELSE Inc
      moved == [node EXCEPT !.count = @ + gain]
  IN  [c EXCEPT
         !.followset = <<moved>> \o RemoveAt(@, i),
         !.total_symbol_count = @ + gain,
         !.max_count = Max({@, moved.count}),
         !.escape_count = IF IsNovel(node) THEN @ - EscpInc ELSE @]

(* context_Update, the branch of a symbol already in the followset.        *)
SeenAgain(c, i) ==
  LET node  == c.followset[i]
      novel == IsNovel(node)
      gain  == IF novel THEN Inc + Inc - IncNovel ELSE Inc
      moved == [node EXCEPT !.count = @ + gain]
  IN  [c EXCEPT
         !.followset = <<moved>> \o RemoveAt(@, i),
         !.total_symbol_count = @ + gain,
         !.max_count = Max({@, moved.count}),
         !.escape_count = IF novel THEN Max({@ - EscpInc, 1}) ELSE @]

(* The branch of a symbol that is new to the followset.                    *)
SeenFirst(c, symbol) ==
  [c EXCEPT
     !.followset = <<[symbol |-> symbol, count |-> IncNovel]>> \o @,
     !.followset_size = @ + 1,
     !.total_symbol_count = @ + IncNovel,
     !.max_count = Max({@, IncNovel}),
     !.escape_count = IF @ < EscapeMax THEN @ + EscpInc ELSE @]

IndexOf(nodes, symbol) == SelectInSeq(nodes, LAMBDA n : n.symbol = symbol)

(* Whether an update finds the symbol new (escape), once it has halved.    *)
IsFirst(c, symbol) == IndexOf(MaybeHalve(c).followset, symbol) = 0

(* context_Update without its SEE states.                                  *)
Update(c, symbol) ==
  LET halved == MaybeHalve(c)
  IN  IF IsFirst(c, symbol) THEN SeenFirst(halved, symbol)
      ELSE SeenAgain(halved, IndexOf(halved.followset, symbol))
-----------------------------------------------------------------------------
Open(c, excluded) == Among(c.followset, {n \in Nodes : n.symbol \notin excluded})
Shut(c, excluded) == Among(c.followset, {n \in Nodes : n.symbol \in excluded})
NovelIn(nodes) == Cardinality({i \in DOMAIN nodes : IsNovel(nodes[i])})

(* Mutant: the escape counts start from nothing.                           *)
StatsFromZero(c, excluded) ==
  IF excluded = {}
  THEN [total_count |-> c.total_symbol_count, max_count |-> c.max_count,
        escape_count |-> c.escape_count]
  ELSE LET open == Open(c, excluded)
       IN  [total_count |-> Total(open), max_count |-> Largest(open),
            escape_count |-> (ExclEscInc * NovelIn(open)
                                + ExclEscExcluded * NovelIn(Shut(c, excluded)))
                               \div ExclEscInc]

(* context_Get_Followset_Stats_With_Given_Symbols_Excluded: the kept       *)
(* statistics if nothing is excluded, else those of the open symbols.      *)
Stats(c, excluded) ==
  IF excluded = {}
  THEN [total_count |-> c.total_symbol_count, max_count |-> c.max_count,
        escape_count |-> c.escape_count]
  ELSE LET open == Open(c, excluded)
       IN  [total_count |-> Total(open), max_count |-> Largest(open),
            escape_count |-> (ExclEscInit + ExclEscInc * NovelIn(open)
                                + ExclEscExcluded * NovelIn(Shut(c, excluded)))
                               \div ExclEscInc]

(* Mutant: an excluded symbol still takes its part of the zone.            *)
PartOverShut(c, excluded, symbol) ==
  LET i   == IndexOf(c.followset, symbol)
      low == Total(SubSeq(c.followset, 1, i - 1))
  IN  [low |-> low, high |-> low + c.followset[i].count]

(* context_Encode's walk: the part of the zone of a symbol that is open.   *)
Part(c, excluded, symbol) ==
  LET open == Open(c, excluded)
      i    == IndexOf(open, symbol)
      low  == Total(SubSeq(open, 1, i - 1))
  IN  [low |-> low, high |-> low + open[i].count]

(* context_Decode's walk: the first open symbol whose part ends above got. *)
SymbolAt(c, excluded, got) ==
  LET open == Open(c, excluded)
      i    == Min({i \in DOMAIN open : got < Total(SubSeq(open, 1, i))})
  IN  open[i].symbol

(* Whether context_Encode and context_Decode try this context at all.      *)
CanCode(c, excluded) == Stats(c, excluded).total_count > 0
=============================================================================
