# PZIP in TLA+

PZIP 0.83 is a file compressor in C: a PPM model of orders -1 to 8 with
deterministic contexts and secondary escape estimation (SEE) in front of an
arithmetic coder.  It is sequential and keeps nothing but its output, so its
hard part is neither concurrency nor crashes.  It is **agreement**: a decoder
that shares no memory with the encoder must rebuild, step for step, the
encoder's trie, counts, escape states, exclusions and coding interval from
nothing but the bits.  One count, one recycled context, one rounding or one
carry apart and the rest of the file is noise.  This directory models the
parts that must agree, checks them with TLC on small instances, and proves
what it can for all of them with TLAPS.

All paths below are relative to `pzip-0.83/` of the repository.

## 1. Inventory

| Part | Source | State it keeps | Operations | Talks to |
|---|---|---|---|---|
| Command line | `main.c` | the file's buffers, lengths, CRC | encode, decode, compare; `-e` | codec loop, CRC |
| Codec loop | `pzip.c` | the model's parts, the text so far | `pzip_create`, `pzip_Encode`, `pzip_Decode`, `choose_context` | every part below |
| Context trie | `context.c`, `hash.c`, `node.c` | contexts with `parent` and `kids`, a hash table per order, the LRU list, the active chain | `trie_Create`, `trie_Fill_Active_Contexts` (find, create, recycle, mark) | pool |
| Followsets | `context.c` | per context: nodes with counts, `total_symbol_count`, `max_count`, `escape_count` | `context_Update`, `maybe_halve_counts`, `context_Encode`, `context_Decode` | SEE, exclusions, coder, pool |
| Pool | `pool.c` | blocks of hunks, a stack of freed ones | get, free, extend | - |
| SEE | `see.c` | 2^23 + 2^16 + 2^9 states, each with `escapes`, `total`, `seen` | `see_Get_State`, `see_Encode_Escape`, `see_Decode_Escape`, `see_Adjust_State` | coder, logarithms |
| Deterministic contexts | `deterministic.c` | a ring of nodes, listed by context, follow mode | predict, encode, decode, update | det_escape |
| Their escapes | `det_escape.c` | three tables of 16-bit counts | estimate, update | coder, logarithms |
| Excluded symbols | `excluded_symbols.c` | an array of stamps, the present stamp, `is_empty` | Clear, Add, Contains | - |
| Order -1 | `order-1.c` | none | encode, decode | coder, exclusions |
| Arithmetic coder | `arithmetic-encoding.c` | `base`, `wide`, a queued byte and a run of 0xFF | start, code a part or a bit, finish; the reverse | the buffer |
| Logarithms | `intmath.c` | a table | `ilog2round`, `intlog2r` | - |
| CRC, parameters, allocation | `crc32.c`, `config.c`, `safe.c` | tables, constants | - | - |

For every byte the loop clears the exclusions, asks the trie for the nine
active contexts, offers the byte to the deterministic contexts, and then lets
`choose_context` pick an order again and again; each one either codes the byte
or escapes and adds its symbols to the exclusions.  Order -1 codes what is
left.  Then the contexts of the coding order and above learn the byte, and
with them the SEE states they were coded with.

What makes each part correct, and what is hard to see in a test:

* **Arithmetic coder.**  A fixed-point interval, shipped byte by byte, must
  keep a nonempty part of the exact one.  Rare: a carry through a run of 0xFF
  bytes; the last byte; a decoder that reads behind the end of the file.
* **Context trie.**  The active chain must be the contexts of the current
  suffixes, linked by `parent`, while making one context may recycle another.
  Rare: a full trie, a context found but not marked yet, colliding chains, a
  second pass in one process.
* **Followsets.**  Kept statistics must equal those of the nodes; the escape
  count, which has rules of its own, must leave the coder legal odds.
  Rare: halving, and any set of symbols excluded by higher orders.
* **Codec loop.**  Both sides must ask the coder the same questions; the loop
  must end.
* **SEE.**  Counts are scaled by two rules and read through three levels; the
  odds must leave room for both answers and the unsigned arithmetic not wrap.
* **Excluded symbols.**  A stamp replaces clearing the array, and a flag beside
  it says whether there are any: both must empty at each byte.
* **Deterministic contexts.**  What is predicted from must be known to both
  sides and as long a match as it counts.  Rare: a ring whose slots are reused
  while a node is followed by its slot number, a context recycled meanwhile, a
  match length of 16 bits that grows without bound.
* **Their escapes.**  Three 16-bit bins blended into one estimate that must
  leave both answers possible, through logarithms that round.

`PROJECT.json` lists each hazard at the line where it bites.

## 2. Modules

| Module | Models | State -> code |
|---|---|---|
| `CodeInterval` | abstract: exact intervals that shrink | `low`, `width`, `digits`: the free zone in units of `1 / Power[digits]`; `code`: the number chosen at the end |
| `ArithEncoder` | the encoding half of `arithmetic-encoding.c` | `arith`: `struct Arith` and the bytes stored; `phase` |
| `ArithEncoderRefines` | the mapping of the two above | |
| `ArithCodec` | the decoding half, the file between them | `dec`: the decoder's `struct Arith`; `sent`, `heard`: calls coded and answered |
| `SymbolSet`, `ExcludedSymbols` | abstract set; `excluded_symbols.c` | `is_set`, `is_empty`, `symbol_set` as in the struct |
| `OrderMinusOne` | `order-1.c` over `ExcludedSymbols` | none of its own |
| `DetEscapeConstants`, `DetEscape` | `det_escape.c` | `bins`: `esc` and `tot` by partition and index |
| `Deterministic` | `deterministic.c` over `DetEscape` | `node`, `node_cursor`, `next_node`, `cached`, `bins` as in the struct; `det`: `context->det` by suffix; `seen`: the counts of each `Deterministic_Context` |
| `ContextTrie` | the trie half of `context.c`, `hash.c`, the pool of contexts | `ctx`, `hashtab`, `lru`, `active`, `freed`/`fresh`, `order0`/`order1` |
| `Followset` | the followset half of `context.c`, as operators | a context's record of statistics |
| `ContextCounts` | one context through any symbols | `context` |
| `ByteCoder` | the loops of `pzip.c` on both sides | `pzip`: what the side at work knows, its `text`, `contexts`, `see`, `excluded` and the `order` still to choose below; `calls`, `heard`: the coder's calls and how many the decoder has had; `model`: what the encoder knew at the end |
| `SeeStates` | `see.c` | `states`: `struct See_State` by table and index |
| `Induction` | what can be said of functions defined by recursion on a natural number | |
| `ArithCodecProofs` | theorems about `ArithEncoder`, its refinement and `ArithCodec` | |
| `ExcludedSymbolsProofs` | about `ExcludedSymbols` and `OrderMinusOne` | |
| `ByteCoderProofs` | about `Followset`, `ContextCounts` and `ByteCoder` | |
| `SeeStatesProofs`, `DetEscapeProofs`, `DeterministicProofs`, `ContextTrieProofs` | about the module of that name | |
| `MC*` | definitions TLC needs as constants | |

`ArithCodec` composes encoder, file and decoder.  `ByteCoder` composes
followsets, exclusions, order -1 and the two loops; it uses the coder through
the contract `ArithCodec` checks (asked for what was coded, the decoder gets
it; asked for anything else, it gets anything) and the trie through what
`ContextTrie` checks (one context for each suffix).  `Deterministic` composes the
ring with the escape bins: it instantiates `DetEscape` for the situations it can
call it in, and is shown to implement it.

### Actions

One action is one call, or the whole body of one loop, up to the next point
where another part decides.  `ArithEncoder`: `EncodeBit`, `Encode1OfN` and
`Finish`, each with its renormalisation and its flushes.  `ContextTrie`:
`Locate` is phase one of `trie_Fill_Active_Contexts`, `CreateKid` one
`create_kid` of phase two (with recycling, when the trie is full), `MarkActive`
one call of phase three; `NextByte` is the loop's
step and `NewSession` the second `pzip_create` of a process.  `ByteCoder`:
`EncodeByte` (to the end of `deterministic_Encode`), `EncodeTry`
(`choose_context` and one `context_Encode` with all its effects), `EncodeLast`
(order -1), `Reopen`, and the same for the decoder.  `SeeStates`: `AdjustState`
on a state and its parents.  `Deterministic`: `Code` is `deterministic_Encode`,
and `deterministic_Decode` as well, which differs only in who names the byte;
`Update` is `deterministic_Update` with the loop's step; `Recycle` is the trie
taking a context that is not active, with its `det`.  `DetEscape`: `Learn` is
`escape_Encode` and `escape_Decode` beside the bit they code.  Definitions whose comment begins with "Mutant"
are plausible bugs used to show that the properties can fail; nothing else
refers to them.

### Abstractions

* A byte is one of two to four values, a word is as small as the shares of
  `arithmetic-encoding.c` allow; a context is the address of its hunk, which
  makes use after recycling visible.
* `ContextTrie` abstracts the followsets; the hash functions are a parameter
  that only has to be injective for order 2, as `hashtab_02` is indexed by the
  two bytes themselves.
* `ByteCoder`: the trie never recycles (a file of a few bytes does not fill
  it), what `deterministic.c` predicts is a function `Predict` of the text, a
  SEE state is named by what is hashed (collisions are the matter of
  `SeeStates`) and its estimate is a function `Estimate` of everything that
  was told to it.  Lockstep must then hold for reasons of order and content of
  the updates alone.
* `Deterministic`: a list of nodes is the nodes whose `home` is that context,
  newest first, as every node is added at the head and leaves only when its slot
  is used again; the size of the active context's followset, which only picks a
  bin, is any of `FollowsetSizes`; which context is recycled, and when, is left
  open, up to `MaxOrphans` lost ones.
* `DetEscape`: the logarithms are those of `intlog2r` on the 16 bits of a bin.
* `SeeStates`: `seen` is kept as "not zero", which is all `get_stats` reads;
  the logarithm table is a constant of which only monotonicity and
  `log(n) < log(2n)` are assumed; states of `order2` exist from the start with
  the seed the first `see_Get_State` would give them.

## 3. Runs

| Run | Shows | Bounds, and why they are enough |
|---|---|---|
| `arith_encoder` | zones stay above MIN_WIDE, carries are absorbed by the queue, the stuffed byte is zero, finishing stores one byte; the encoder implements `CodeInterval` | Radix 4, MIN_WIDE 8, totals 2 to 4: the ratios of the original (one byte of head room, one carry bit, a share of at least two). `OutLimit` 4: carries through a queued byte and runs of the top byte |
| `arith_codec` | whatever was coded is decoded, the decoder's number stays in its zone, it reads no further than the zeros stored behind the code | up to 4 calls with totals 3 and 4, neither of which divides every width |
| `arith_codec_slop` | finding: not when other bytes follow the file | 2 calls, any byte behind the end |
| `excluded_symbols` | stamps and flag implement a set that empties at each byte; both sides of order -1 agree whatever is excluded | 4 symbols, 4 bytes, stamp of 6 values |
| `context_trie` | the active chain, parents, kids, tables and list stay exact through any input with recycling | 2 symbols, orders to 4 with 3 in the middle, the highest skipping a length as 6 to 8 do, room for 5 contexts in a trie that needs 3 for one chain: most bytes recycle, while contexts that share a chain of a table are both alive |
| `context_trie_passes` | no hunk is lost or in use twice over two passes, though the tries share pool and tables | orders to 3, 2 passes |
| `context_trie_stale` | finding: the active chain of a second pass is not that of its trie | orders to 3, 2 passes |
| `context_counts` | kept statistics are the nodes'; escapes between 1 and the total; every set of exclusions leaves legal odds and one part per symbol; halving forgets only what was seen once | 3 symbols, thresholds that make halving and the cap of the escapes frequent, a `MaxTotal` that the largest total meets; all sequences (the state space is finite without a bound) |
| `byte_coder` | no symbol is coded after being excluded, calls are legal, both sides ask the same calls, end with the same model, and end | every file of 6 bytes over 3 symbols, of which 4 are coded: contexts of orders 0 to 2 that escape, repeat, are excluded and predict; estimates that count the last two things a SEE state was told, so that one adjustment lost or swapped changes a call |
| `see_states` | states stay sane under both rules of scaling, divisors positive, sums in a word, odds legal | two situations sharing parents, thresholds of 20 and 8: reached within a few steps, in any order; all reachable states |
| `deterministic` | a match is real and long enough; its counts are of the list its node is in; the ring is the end of the input; only forcing lowers what a node asks for, to the length forced; the escape bins are called as made for and stay codable | 2 symbols, inputs of 10 bytes, a ring of 5 that is used up twice, matches from 2 and forced from 4, one context lost, bins halved above 75: matches that are followed past reused slots, that fail and are searched again, that are forced, and that go on after the list they came from lost its context and the suffix got another |
| `deterministic_long` | finding: not long enough once `min_len` wraps, where pzip aborts | `min_len` of 8 values instead of 65,536, inputs of 15 bytes |

Deadlock is checked except in `arith_codec*` (every call answered),
`byte_coder` (both sides done) and `deterministic*` (the whole input coded),
where the program is finished.

**Fairness.**  Only `byte_coder` has a liveness property, `Terminates`, under
weak fairness of the whole next-state relation: the program is one thread that
waits for nobody, so it takes its next step if it has one.  No choice between
alternatives is assumed fair.

### Findings

* *Second pass* (`context.c:623`): without `-e`, `main` decodes in the same
  process to compare.  The hash tables are static and are not emptied, so the
  second trie's chain consists of contexts of the first, with its counts.
* *Behind the end* (`arithmetic-encoding.c:187`): the decoder's correctness
  needs zeros behind the code, which `main` does not provide.
* *Wrapped length* (`deterministic.c:221`): `min_len` is a `u16`, the length of
  a followed match is not bounded.  After 65,534 matched bytes the length asked
  for wraps to 0, and a match shorter than `DETERMINISTIC_MIN_ORDER` is accepted.
  The assertion at `deterministic.c:310` fails there, and pzip aborts: `inc.h:4`
  defines `NDEBUG` only under `PRODUCTION`, which nothing in the repository
  defines (neither `CFLAGS` line of the `Makefile` does).  It takes a match of
  65,534 to 65,557 bytes that then fails, and the last 16 to 23 of them once more.  Were the assertions compiled out, both sides would use the short match alike,
  and only the prediction would suffer.

**Assertions.**  Every build the repository describes has them.  The models do
not stop where one fails: an assertion about the modelled state is stated as a
property (`MatchLongEnough`, `TypeOK` of `ArithEncoder`, `EscapesBelowTotal`),
so a run that violates it ends in the state in which the program aborts, and a
run or a theorem that shows it says that the program does not abort there.
Theorems that hold beyond such a state (`MatchesAreReal` needs no short input)
say more than the program can do, not less.

## 4. Proofs

All theorems are checked by TLAPS for every value of the constants that
satisfies the named assumptions, which hold of the program's constants.
Every invariant and action property that a run checks has its theorem.

**Induction.**  The provers cannot instantiate an induction rule with a formula.
`Induction` states it of *sets* instead: a set of naturals with 0 in it and the
successor of each member is all of them (`Induct`, which follows from the least
member of its complement), and `ByteCoderProofs` the same of a set of lists
(`ListInduct`).  From it: a function exists, and only one, that starts at a base
and goes on by a given step (`Iteration`, `Accumulation`, `AccumulatesOnly`).
This is what makes the recursive functions of the models (the number a byte
string stands for, the total of a list of counts, a decoder's walk) and the
history of a run something to reason about.

**`ArithCodecProofs`** (any radix, word and totals with `ShareAssumption`:
two renormalisations bring the narrowest share of MIN_WIDE back above it).
*The encoder.*  The inductive invariant is `IInv`: the types, a zero first byte,
and while coding `wide > MinWide` and `Sound`.  `NormalisedWide` and `CarryRoom`
are not inductive alone: whether a carry can be taken depends on what the queued
byte was when the zone last crossed a byte boundary, and whether the first
stored byte is zero depends on what the queue holds before anything is stored,
so `Sound` adds the bounds of base and wide against the word, what the queued
byte may be in each case, and that before the first store it is a zero that no
carry can reach.

*The refinement.*  The bottom of the exact zone is the number made of the bytes
stored, the byte held back, the run of 0xFF behind it and base.  Renormalising
changes none of it but the unit (`RenormalizeExact`): a carry that ripples
through the run changes the bytes and not the number (`FlushValue`).  A call
moves the bottom up and the top down (`CallNarrows`, `NarrowingSound`), and
finishing writes a number of the zone (`FinishExact`), a byte of the top with
everything below it zero.  Hence `EncoderImplements`.

*The decoder.*  The bytes read so far are a number too, of as many digits as
the decoder has read; `Tracks` says that base is that number less the bottom of
its zone.  The zones the encoder had, oldest first, are the `Trail` of the
calls sent.  Closing puts the number of the finished file into the last zone
(`FinishHolds`); each zone contains the next, so by induction from the last to
the first the number is in all of them (`TrailHolds`).  A decoder with the
encoder's zone whose number is in the next zone gives the answer that was coded
and takes on that zone (`HearStep`).  Hence `AlwaysRoundTrip`, when nothing but
zeros follow the file, and `DecodesBeforeZero`, whatever other buffers hold;
the run `arith_codec_slop` shows that the hypothesis is needed.
`AlwaysInZone` and `ReadsStay` need no such hypothesis.  `DecoderAssumption`
says that a byte splits at `EXTRA_BITS`, that MIN_WIDE is such a part followed by
up to two whole bytes (128 * 256 * 256 in the program), and that the padding
has room for the bytes of a word.

**`ExcludedSymbolsProofs`**, under `NoWrap` (fewer bytes than stamps, true of
every file whose length fits `main`'s u32): no slot holds a stamp still to
come (`IInv`), hence `TypeCorrect`, `EmptyFlag` and `Refinement`, that the
stamps implement `SymbolSet`.  `MinusOneAgrees` needs no invariant but the
types: the decoder's walk, over any set of symbols, passes as many of them as
it was told to, which is how many the encoder counted.

**`ByteCoderProofs`, contexts** (any alphabet, increments and thresholds with
`FollowsetAssumption`: halving leaves room below the threshold, and the coder
takes the most that a context can count; the program's 256 symbols, increments
of 1, 4096, 20 and 16384 satisfy it).  The inductive invariant is `Sound`: the
statistics are those of the nodes, one node a symbol and every count positive,
*and* the total is at most the threshold and a few increments, the escapes
below `EscapeMax` + `EscpInc` and at most the total.  Halving is what makes the
last two hard: it divides both by rules of their own, drops nodes, and comes
before the increment, so that one halving must bring a total from the
most a context can hold to where another update fits.  From it `StatsStayExact`,
`EscapesStayBelow`; with the statistics under exclusion, whose escape count is
made up from the numbers of symbols excluded and left, `AlwaysCodable`; with
the partition of a sum into its parts, `PartsAlwaysRoundTrip`; and `SeenStays`.

**`ByteCoderProofs`, both sides** (any order, file length, predictor and
estimate).  The encoder has come along a `Trace`: its states and the calls it
had made, each from the one before by a step of `pzip_Encode`.  While it encodes,
the trace grows (`Encoding`).  The invariant of the decoder, `InStep`, is that
there is such a trace to the model at the end, and that the decoder *is* at one
of its states, with exactly the calls of that state heard; between two bytes what
it has excluded may differ, as the next byte clears it (`Matches`).  Each state
of the trace reads the file (`Reading`): its text is the file's beginning, its
contexts are `Sound`, and the byte due is not excluded.  A step of the decoder
then has no choice: the encoder's next calls are the ones it makes, because it
computes them from the same state, so it gets the answers coded, and these lead
it to the encoder's next state.  This uses of `Predict` and `Estimate` only that
they are functions, and of a partition that the part coded tells the symbol
(`PartsRoundTrip` once more).  `InStep` quantifies over traces, which TLC cannot
enumerate; the run checks what follows: `NeverExcluded`, `StaysInLockstep`,
`AgreeAtTheEnd`.  `CallsAlwaysCodable` is a theorem about behaviours in which the
estimates are legal odds (`EstimatesFit`): that they are is `EstimatesCodable`
of `SeeStatesProofs`, the estimate being a parameter here.

`StepsRunOut` is the safety half of termination: every step of either side lowers
`Left`, a natural number.  A try leaves only the orders below the one chosen,
because `choose_context` never picks above what is left (`ChoiceIsBelow`, by
induction on its loop), and a byte learnt is worth more than all the orders of
one.  The decoder's steps are steps of the encoder's trace, and lower it as those.
That a step is always possible until both sides are done is an ENABLED, and so
left to the run: with it, `Terminates`.

**`SeeStatesProofs`** (any situations, seeds, increments and thresholds, and
any rounding of the logarithms that keeps their order and tells a number from
its double, `LogAssumption`; that `ilog2roundtab` does is a fact about its
values, not proved here).  `IInv` is the types and that every state is `Sane`,
which is inductive because one halving suffices: `ScalesAssumption`
(Inc + EscExtraInc + 5 < ScaleDown) brings a state that one adjustment took
over the threshold back below it (`AdjustedSane`).  From it: the smaller part
of a total is at most half of it, so an entropy is positive
(`EntropyPositive`), no divisor is below 2 and a weight at most twice
`WeightOne` (`WeightBound`), so the sums fit under `WordAssumption`
(`BlendBound`), and thirty halvings bring any uint below the coder's limit
(`PossibleCodable`).  Theorems: `TypeCorrect`, `AlwaysSane`,
`DivisorsPositive`, `SumsFit`, `EstimatesCodable`.

**`DetEscapeProofs`** (any situations, seeds and increments under
`ScalesAssumption` and `OddsAssumption`).  `IInv` is that every bin expects an
escape and a match with a total of at most `HalveAbove`, which one halving
restores (`IndexesFit`, `AlwaysSane`).  `intlog2r` rounds each number up or
down to a power of two, so that a logarithm may equal that of the double and
an entropy be zero, hence the `+ 1` in the code; that it never decreases
is enough for no entropy to be negative (`SumsFit`).  Each of the five shifts of
`estimated_escape_probability` has a bound it is entered with, and the last one
ends below the coder's limit; the clamps then leave room for both answers
(`EstimatesCodable`).

**`DeterministicProofs`** (any alphabet, lengths and ring of two slots or more,
any loss of contexts).  `IInv` says, beside types: slots are filled in order
and each holds the position it was given (`RingInv`); the list a node is in is
that of a context whose suffix ends where the node points, or of a lost one
(`ContextsInv`, `HomesInv`); what is cached shares as many bytes with the input
as it counts, and at least the suffix of the active context, whose list gave the
counts (`FoundInv`); and so does the successor kept in `next_node`, one
byte on (`NextInv`).  The last two carry the hazard: a slot followed by its
number alone still holds the position after the one that matched: the ring gives
up only its oldest position for each byte, so that the successor of a position
it held is one it still holds a byte later, even if the matched node itself was
the one overwritten.  `CountsMatchList` rests on the suffix: a context that
still has the list the node is in has the suffix before that node, which is the
one before this byte, and a suffix has one context.  Theorems: `MatchesAreReal`,
`CountsMatchList`, `RingHoldsInput`, `CallsImplementDetEscape`; through the last one, a run of the
deterministic contexts is one of `DetEscape`, so that `OddsAlwaysCodable` and
`BlendAlwaysFits` follow from the theorems about the bins.  `LongEnough` and
`TrustShrinks` need `ShortInput` (a match cannot outgrow the values of
`min_len`) and a second invariant, `LengthInv`, that no node asks for less than
`MinOrder`; the run `deterministic_long` shows that the assumption is needed.

**`ContextTrieProofs`** (any alphabet, orders, suffix lengths, hash functions
and size of the trie), under `OnePass`, as the second pass finds stale contexts
(`context_trie_stale`).  `IInv` says of every moment, in the middle of a chain
too, that contexts are typed, linked to parents that match a part of their
suffix (`Linked`), unique, in their slots (`Tabled`) and in the list
(`ListOf`), that every hunk is free or alive (`Pooled`), and where the chain
stands (`StepInv`): it is complete below `next`, and *no* context of order
`next` has the suffix to be made.

* The last conjunct is what phase two relies on without a search.  After a
  lookup that fails it is `FindExact`; below a context without kids it follows
  from `Linked` and `Unique`: a context there would have a parent with that
  suffix, which is this one, which has none; and if no context of one order
  matches, none of a higher order does (`NoneAbove`).
* A recycled context is a leaf (`VictimSpare`).  It is none of the chain:
  the contexts below the newest have kids, and the newest is at the head of
  the list, while the list, longer than a chain (`LruAssumption`), has another
  leaf nearer its tail (`SpareLeaf`).
* Taking it out leaves every other invariant (`DropLeaf`), dropping the first
  entry with its suffix from its table drops it and nothing else because
  suffixes are unique (`DropEntry`).

Theorems: `Invariant`, `TrieTypes`, `ChainAtEveryByte`, `RecyclingSpares`,
`ParentsLive`, `OneContextPerSuffix`, `TablesHoldTheLiving`,
`ListHoldsTheRecyclable`, `HunksAccountedFor`.

Only model-checked: termination itself, as liveness is outside the prover's reach;
the pool over several passes of a process (the theorem is about the first); the
three violations; and that the small constants of the runs are such that the
interesting cases happen, which no theorem can say.

## 5. Not modelled

* `main.c`'s header, options, file I/O and the comparison of the CRC, which only
  prints a warning (`main.c:212`); its buffers and passes appear where they
  matter above.
* `crc32.c`, a pure function of bytes and a table; `config.c`, the values of the
  `CONSTANTS`; `safe.c`, which exits when memory is short.
* The blocks of `pool.c`: they decide at which address a new hunk lies, while the
  models number hunks.  The pools of followset nodes and deterministic contexts
  are behind sequences and numbers.
* `context.c`'s `THE_SIMPLE_TEXTBOOK_WAY`, `hash.h`'s inlines (those of order 2
  repeat `hash.c`, the others are behind `SEEM_TO_HURT_MORE_THAN_HELP`), `node_Cut_Tail`, the logarithms
  nothing calls, the printed statistics: dead, or without effect on the code.
* `excluded_symbols.c`'s `reset` when the stamp wraps, which takes a file of
  2^32 - 1 bytes: `ExcludedSymbols` has it, but no run goes there and the theorems
  assume `NoWrap`.
* That a deterministic context is "always followed by one particular symbol"
  (the comment of `deterministic.c`) is not claimed: the code keeps following a
  node after misses, with a longer `min_len`.  Whether estimates are *good* is
  not a matter of these models either (`see.c:374` seeds states of low orders
  from bits that are always zero: both sides do).

## 6. What is left

1. `ByteCoder` with `Deterministic` in place of `Predict`, `SeeStates` in place of
   `Estimate` and a trie that recycles: one run of both sides over whole files.
   The parts are checked, and proved, against the contracts `ByteCoder` uses, not
   yet together; the pieces that would join them are `EstimatesFit`, which
   `EstimatesCodable` of `SeeStatesProofs` answers, and one context per suffix,
   which `OneContextPerSuffix` answers.
2. Tries of more than one pass, once `pzip_destroy` is called between them.
