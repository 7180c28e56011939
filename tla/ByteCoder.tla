------------------------------ MODULE ByteCoder ------------------------------
(***************************************************************************)
(* The loops of pzip.c.  pzip_Encode codes a file byte by byte: the        *)
(* deterministic contexts may take it, else choose_context picks orders,   *)
(* each excluding its symbols when it escapes, down to order -1; then the  *)
(* contexts of the coding order and above learn the byte.  pzip_Decode     *)
(* does the same in another process, with a model of its own, knowing the  *)
(* bytes only from the calls of the arithmetic coder.                      *)
(*                                                                         *)
(* The coder is its contract (module ArithCodec): asked for a part of a    *)
(* total, or a bit of given odds, that was coded, it answers with a number *)
(* of the part or the bit; asked for anything else it answers anything.    *)
(* The trie is what ContextTrie shows of it: one context for each suffix.  *)
(***************************************************************************)
EXTENDS Followset

CONSTANTS
  TopOrder,         \* PZIP_ORDER: 8
  Seeds,            \* PZIP_SEED_BYTES: 8, the bytes stored uncoded
  FileLength,       \* bytes of a file
  MaxSeeEscapes,    \* MAX_SEE_ESCC: 3
  MaxSeeTotal,      \* MAX_SEE_TOTC: 64
  IntProbOne,       \* PZIP_INTPROB_ONE: 2^16
  Predict(_),       \* what deterministic.c predicts after a text, or None
  Estimate(_, _, _, _) \* get_stats' escapes and total, from the SEE states'
                       \* adjustments, a state and the stats of the context

None == SymbolCount    \* no prediction, no SEE state

ASSUME OrdersAssumption == TopOrder \in Nat \ {0}
ASSUME FilesAssumption ==
  /\ Seeds \in Nat /\ Seeds >= TopOrder
  /\ FileLength \in Nat /\ FileLength >= Seeds
ASSUME SeeAssumption ==
  MaxSeeEscapes \in Nat /\ MaxSeeTotal \in Nat /\ IntProbOne \in Nat \ {0}

VARIABLES
  file,      \* the bytes to code
  side,      \* "encode", then "decode", then "done"
  pzip,      \* what this side knows, see Start
  calls,     \* the calls of the arithmetic coder
  heard,     \* how many of them the decoder has asked for
  model      \* what the encoder knew at the end

vars == <<file, side, pzip, calls, heard, model>>

NewByte == TopOrder + 2
AllOrders == TopOrder + 1

-----------------------------------------------------------------------------
(* What either side starts with.  A state of pzip.c, p below, has the      *)
(* bytes from the first, the contexts by suffix, the adjustments of the    *)
(* SEE states in order, the excluded symbols, and the number of contexts   *)
(* still to choose from, which is NewByte between two bytes.               *)
Start(bytes) ==
  [text |-> SubSeq(bytes, 1, Seeds), contexts |-> <<>>, see |-> <<>>,
   excluded |-> {}, order |-> NewByte]

(* The active contexts: trie_Fill_Active_Contexts finds or makes one for   *)
(* each order.                                                             *)
SuffixOf(bytes, k) == SubSeq(bytes, Len(bytes) - k + 1, Len(bytes))

NewContext == [counts |-> NoCounts, see_state |-> <<>>]
Active(p, k) ==
  IF SuffixOf(p.text, k) \in DOMAIN p.contexts
  THEN p.contexts[SuffixOf(p.text, k)] ELSE NewContext

(* see_Get_State: the state the stats and the surroundings lead to, if     *)
(* any.  What is hashed there, with fewer bits, names the state here.      *)
SeeState(p, k, escapes, total) ==
  IF total = 0 \/ escapes - 1 > MaxSeeEscapes \/ total - escapes >= MaxSeeTotal
  THEN <<>>
  ELSE <<escapes, total, k,
         IF k = 0 THEN 0 ELSE Active(p, k - 1).counts.followset_size,
         Active(p, k).counts.followset_size = 1,
         p.text[Len(p.text)]>>

(* see_Adjust_State, on a state that may be missing.                       *)
Adjust(p, state, escape) ==
  IF state = <<>> THEN p ELSE [p EXCEPT !.see = Append(@, <<state, escape>>)]

(* see_Estimate_Escape_Probability.                                        *)
Odds(p, state, escapes, total) ==
  IF state = <<>> THEN [escapes |-> escapes, total |-> escapes + total]
  ELSE Estimate(p.see, state, escapes, total)
EscapeProbability(p, state, escapes, total) ==
  LET odds == Odds(p, state, escapes, total)
  IN  (odds.escapes * IntProbOne) \div odds.total

(* What the followset of order k offers beside what is excluded.           *)
StatsOf(p, k) == Stats(Active(p, k).counts, p.excluded)
Offers(p, k) == CanCode(Active(p, k).counts, p.excluded)

(* How likely the best symbol of order k is, in choose_context's integers. *)
(* Deterministic contexts are favoured.                                    *)
Rating(p, k) ==
  LET stats == StatsOf(p, k)
      total == IF Active(p, k).counts.followset_size > 1
               THEN stats.total_count + stats.escape_count
               ELSE stats.total_count
      state == IF total >= stats.escape_count
               THEN SeeState(p, k, stats.escape_count, total) ELSE <<>>
  IN  ((IntProbOne - EscapeProbability(p, state, stats.escape_count, total))
         * stats.max_count) \div total

(* choose_context: from the highest order down, the one whose best symbol  *)
(* is likeliest; order 0 if none is.                                       *)
ChooseContext(p) ==
  LET best[n \in 0 .. p.order] ==    \* of the n highest orders below p.order
        IF n = 0 THEN [order |-> 0, rating |-> 0]
        ELSE LET k      == p.order - n
                 higher == best[n - 1]
             IN  IF Offers(p, k) /\ Rating(p, k) > higher.rating
                 THEN [order |-> k, rating |-> Rating(p, k)] ELSE higher
  IN  best[p.order].order

(* The SEE state a context is coded with.                                  *)
CodingState(p, k) ==
  LET stats == StatsOf(p, k)
  IN  IF stats.escape_count > stats.total_count THEN <<>>
      ELSE SeeState(p, k, stats.escape_count, stats.total_count)

(* The calls of the arithmetic coder: a bit with the size of the part of   *)
(* the zone that stands for FALSE, a part of a total, and the bit that     *)
(* det_escape.c gives odds of its own.                                     *)
BitCall(no, total, bit) == [of |-> "bit", no |-> no, total |-> total, bit |-> bit]
PartCall(low, high, total) ==
  [of |-> "part", low |-> low, high |-> high, total |-> total]
PredictionCall(match) == [of |-> "prediction", match |-> match]

(* see_Encode_Escape: the estimate's bit says "no escape".                 *)
EscapeCall(p, k, escape) ==
  LET stats == StatsOf(p, k)
      state == CodingState(p, k)
      odds  == Odds(p, state, stats.escape_count, stats.total_count)
  IN  IF state = <<>>
      THEN BitCall(stats.total_count, odds.total, escape)
      ELSE BitCall(odds.escapes, odds.total, ~escape)

(* context_Encode's arith_Encode_1_Of_N.                                   *)
SymbolCall(p, k, symbol) ==
  LET part == Part(Active(p, k).counts, p.excluded, symbol)
  IN  PartCall(part.low, part.high, StatsOf(p, k).total_count)

(* context_Update on every active context, which does nothing below the    *)
(* coding order: the others learn the byte, ...                            *)
Learnt(p, symbol, coded_order) ==
  LET learners == {SuffixOf(p.text, k) : k \in coded_order .. TopOrder}
      old      == p.contexts
  IN  [suffix \in learners \union DOMAIN old |->
         IF suffix \in learners
         THEN [counts    |-> Update(Active(p, Len(suffix)).counts, symbol),
               see_state |-> Active(p, Len(suffix)).see_state]
         ELSE old[suffix]]

(* ... look up their next SEE state, in a parent that has learnt before    *)
(* them, ...                                                               *)
Placed(p, coded_order) ==
  LET learners == {SuffixOf(p.text, k) : k \in coded_order .. TopOrder}
      state(c, k) == SeeState(p, k, c.escape_count, c.total_symbol_count)
  IN  [suffix \in DOMAIN p.contexts |->
         IF suffix \in learners
         THEN [counts    |-> p.contexts[suffix].counts,
               see_state |-> state(p.contexts[suffix].counts, Len(suffix))]
         ELSE p.contexts[suffix]]

(* ... and adjust the one they had.                                        *)
Adjusted(p, symbol, coded_order) ==
  LET told == [i \in 1 .. TopOrder + 1 - coded_order |->
                 LET c == Active(p, coded_order + i - 1)
                 IN  <<c.see_state, IsFirst(c.counts, symbol)>>]
  IN  p.see \o SelectSeq(told, LAMBDA entry : entry[1] # <<>>)

(* From p to next.                                                         *)
Learn(p, symbol, coded_order, next) ==
  \E learnt \in {Learnt(p, symbol, coded_order)} :
    next = [p EXCEPT !.contexts = Placed([p EXCEPT !.contexts = learnt], coded_order),
                     !.see      = Adjusted(p, symbol, coded_order),
                     !.text     = Append(@, symbol),
                     !.order    = NewByte]

(* order-1.c.                                                              *)
Allowed(p) == Symbols \ p.excluded
RankOf(p, symbol) == Cardinality({s \in Allowed(p) : s < symbol})
LastCall(p, symbol) ==
  PartCall(RankOf(p, symbol), RankOf(p, symbol) + 1, Cardinality(Allowed(p)))
-----------------------------------------------------------------------------
(* Mutant: what was excluded for the byte before stays excluded.           *)
KeepExcluded(p) == p.excluded

(* excluded_symbols_Clear, at the start of both loops.                     *)
Cleared(p) == {}

(* A byte begins; what deterministic.c guessed is ruled out if it failed.  *)
Opened(p, guesses) ==
  [p EXCEPT !.excluded = Cleared(p) \union guesses, !.order = AllOrders]

Exclude(p, symbols) == [p EXCEPT !.excluded = @ \union symbols]

(* The deterministic contexts coded the byte: the others do not learn it.  *)
Taken(p, symbol) == [p EXCEPT !.text = Append(@, symbol), !.order = NewByte]

(* Mutant: the next search starts at the top again.                        *)
GoOnFromTop(p, below) == [p EXCEPT !.order = AllOrders]

(* No context coded the byte yet: the orders below are still to choose     *)
(* from.                                                                   *)
GoOn(p, below) == [p EXCEPT !.order = below]

(* deterministic_Encode: from p and the calls made to next and now.        *)
EncodeGuess(p, symbol, made, next, now) ==
  LET guess == Predict(p.text)
  IN  \/ /\ guess = None
         /\ next = Opened(p, {})
         /\ now = made
      \/ /\ guess # None
         /\ next = IF guess = symbol THEN Taken(Opened(p, {guess}), symbol)
                                     ELSE Opened(p, {guess})
         /\ now = Append(made, PredictionCall(guess = symbol))

(* context_Encode of order k.                                              *)
EncodeWith(p, k, symbol, made, next, now) ==
  LET c     == Active(p, k).counts
      found == symbol \in SymbolsOf(Open(c, p.excluded))
  IN  \/ /\ ~Offers(p, k)
         /\ next = GoOn(p, k)
         /\ now = made
      \/ /\ Offers(p, k)
         /\ \E told \in {Exclude(Adjust(p, CodingState(p, k), ~found),
                                 SymbolsOf(c.followset))} :
              \/ /\ ~found
                 /\ next = GoOn(told, k)
                 /\ now = Append(made, EscapeCall(p, k, TRUE))
              \/ /\ found
                 /\ Learn(told, symbol, k, next)
                 /\ now = made \o <<EscapeCall(p, k, FALSE), SymbolCall(p, k, symbol)>>

(* order_minus_one_Encode.                                                 *)
EncodeRest(p, symbol, made, next, now) ==
  /\ Learn(p, symbol, 0, next)
  /\ now = Append(made, LastCall(p, symbol))
-----------------------------------------------------------------------------
Init ==
  /\ file \in [1 .. FileLength -> Symbols]
  /\ side = "encode"
  /\ pzip = Start(file)
  /\ calls = <<>>
  /\ heard = 0
  /\ model = <<>>

(* The byte to encode.                                                     *)
Symbol == file[Len(pzip.text) + 1]

(* The encoder's loop, up to deterministic_Encode.                         *)
EncodeByte ==
  /\ side = "encode" /\ pzip.order = NewByte /\ Len(pzip.text) < FileLength
  /\ EncodeGuess(pzip, Symbol, calls, pzip', calls')
  /\ UNCHANGED <<file, side, heard, model>>

(* choose_context, and its choice's attempt.                               *)
EncodeTry ==
  /\ side = "encode" /\ pzip.order \in 1 .. AllOrders
  /\ \E k \in {ChooseContext(pzip)} :
       EncodeWith(pzip, k, Symbol, calls, pzip', calls')
  /\ UNCHANGED <<file, side, heard, model>>

(* Order -1, when order 0 failed.                                          *)
EncodeLast ==
  /\ side = "encode" /\ pzip.order = 0
  /\ EncodeRest(pzip, Symbol, calls, pzip', calls')
  /\ UNCHANGED <<file, side, heard, model>>

(* The end of pzip_Encode.  Another process decodes: pzip_Decode starts    *)
(* with the seed bytes and a model of its own.                             *)
Reopen ==
  /\ side = "encode" /\ pzip.order = NewByte /\ Len(pzip.text) = FileLength
  /\ side' = "decode"
  /\ pzip' = Start(file)
  /\ model' = pzip
  /\ UNCHANGED <<file, calls, heard>>
-----------------------------------------------------------------------------
(* Whether the n-th call was this one.                                     *)
Answers(n, call) == n <= Len(calls) /\ calls[n] = call

(* The decoder goes on with what the coder answers, n calls further.  When *)
(* it asked for something else than was coded (~right), the answer, and    *)
(* the rest of the text with it, is garbage.                               *)
Heard(n, right) ==
  /\ heard' = heard + n
  /\ side' = IF right THEN side ELSE "garbled"

(* The decoder's loop, up to deterministic_Decode.                         *)
DecodeByte ==
  /\ side = "decode" /\ pzip.order = NewByte /\ Len(pzip.text) < FileLength
  /\ LET guess == Predict(pzip.text)
         match == Answers(heard + 1, PredictionCall(TRUE))
     IN  \/ /\ guess = None
            /\ pzip' = Opened(pzip, {})
            /\ UNCHANGED <<side, heard>>
         \/ /\ guess # None
            /\ pzip' = IF match THEN Taken(Opened(pzip, {guess}), guess)
                                ELSE Opened(pzip, {guess})
            /\ Heard(1, match \/ Answers(heard + 1, PredictionCall(FALSE)))
  /\ UNCHANGED <<file, calls, model>>

(* Mutant: what was excluded already is all that stays excluded.           *)
NothingRuledOut(c) == {}

(* context_Decode excludes every symbol of the context that escaped.       *)
RuledOut(c) == SymbolsOf(c.followset)

(* Mutant: the bit that was decoded, which says "no escape", is taken for  *)
(* the escape.                                                             *)
AdjustByBit(p, k, escape) == Adjust(p, CodingState(p, k), ~escape)

(* see_Decode_Escape's see_Adjust_State.                                   *)
AdjustDecoded(p, k, escape) == Adjust(p, CodingState(p, k), escape)

(* What arith_Get_1_Of_N may answer: any number of the part that was       *)
(* coded, if it was one of that total.                                     *)
Targets(n, total) ==
  IF n <= Len(calls) /\ calls[n].of = "part" /\ calls[n].total = total
  THEN calls[n].low .. calls[n].high - 1
  ELSE 0 .. total - 1

(* context_Decode of order k.                                              *)
DecodeWith(k) ==
  LET c    == Active(pzip, k).counts
      stay == Answers(heard + 1, EscapeCall(pzip, k, FALSE))
  IN  \/ /\ ~Offers(pzip, k)
         /\ pzip' = GoOn(pzip, k)
         /\ UNCHANGED <<side, heard>>
      \/ /\ Offers(pzip, k) /\ ~stay
         /\ pzip' = GoOn(Exclude(AdjustDecoded(pzip, k, TRUE), RuledOut(c)), k)
         /\ Heard(1, Answers(heard + 1, EscapeCall(pzip, k, TRUE)))
      \/ /\ Offers(pzip, k) /\ stay
         /\ \E got \in Targets(heard + 2, StatsOf(pzip, k).total_count),
               told \in {AdjustDecoded(pzip, k, FALSE)} :
              \E symbol \in {SymbolAt(c, pzip.excluded, got)} :
                /\ Learn(told, symbol, k, pzip')
                /\ Heard(2, Answers(heard + 2, SymbolCall(pzip, k, symbol)))

(* choose_context, and its choice's attempt.                               *)
DecodeTry ==
  /\ side = "decode" /\ pzip.order \in 1 .. AllOrders
  /\ \E k \in {ChooseContext(pzip)} : DecodeWith(k)
  /\ UNCHANGED <<file, calls, model>>

(* order_minus_one_Decode: the target-th symbol that is not excluded.      *)
DecodeLast ==
  /\ side = "decode" /\ pzip.order = 0
  /\ \E target \in Targets(heard + 1, Cardinality(Allowed(pzip))) :
       \E symbol \in {s \in Allowed(pzip) : RankOf(pzip, s) = target} :
         /\ Learn(pzip, symbol, 0, pzip')
         /\ Heard(1, Answers(heard + 1, LastCall(pzip, symbol)))
  /\ UNCHANGED <<file, calls, model>>

(* The end of pzip_Decode.                                                 *)
Finish ==
  /\ side = "decode" /\ pzip.order = NewByte /\ Len(pzip.text) = FileLength
  /\ side' = "done"
  /\ UNCHANGED <<file, pzip, calls, heard, model>>

Next ==
  \/ EncodeByte \/ EncodeTry \/ EncodeLast \/ Reopen
  \/ DecodeByte \/ DecodeTry \/ DecodeLast \/ Finish

(* One thread, which nothing stops: it takes a step whenever it can.       *)
Spec == Init /\ [][Next]_vars /\ WF_vars(Next)
-----------------------------------------------------------------------------
(* The assertions of context_Encode and order_minus_one_Encode: whatever   *)
(* orders were tried and whatever deterministic prediction failed, the     *)
(* symbol to code was not excluded.                                        *)
SymbolNeverExcluded ==
  side = "encode" /\ pzip.order # NewByte => Symbol \notin pzip.excluded

(* The assertions of the coder: parts are not empty, odds leave room for   *)
(* both answers, totals stay below CUMULATIVE_PROBABILITY_MAX.             *)
CallsCodable ==
  \A n \in DOMAIN calls :
    LET call == calls[n]
    IN  /\ call.of = "part" =>
             call.low < call.high /\ call.high <= call.total /\ call.total <= MaxTotal
        /\ call.of = "bit" =>
             1 <= call.no /\ call.no < call.total /\ call.total <= MaxTotal

(* The decoder asks the coder for exactly the calls the encoder made, and  *)
(* its text is the file as far as it got.                                  *)
Lockstep ==
  /\ side # "garbled"
  /\ pzip.text = SubSeq(file, 1, Len(pzip.text))

(* At the end the decoder's contexts and SEE states are those of the       *)
(* encoder, and no call is left over.                                      *)
ModelsAgree ==
  side = "done" =>
    /\ pzip.contexts = model.contexts
    /\ pzip.see = model.see
    /\ heard = Len(calls)

(* The escape loop of both sides always ends, in order -1 at last: every   *)
(* file is encoded and decoded.                                            *)
Terminates == <>(side = "done")
=============================================================================
