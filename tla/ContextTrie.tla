---------------------------- MODULE ContextTrie ----------------------------
(***************************************************************************)
(* The trie half of context.c with hash.c and the pool of contexts: before *)
(* each byte is coded, trie_Fill_Active_Contexts finds or creates the      *)
(* context of every order that matches the end of the input, recycling the *)
(* least recently used leaf when the trie is full.                         *)
(*                                                                         *)
(* A context is known by the address of its hunk.  Orders 0 and 1 are      *)
(* allocated once with the trie; orders 2 .. TopOrder are found through    *)
(* their hash table, or through 'parent' from a higher order.              *)
(***************************************************************************)
EXTENDS Integers, FiniteSets, Sequences, SequencesExt, TLC

CONSTANTS
  SymbolCount,   \* the values of a byte: 256
  Seed,          \* PZIP_SEED_BYTE, what history holds before the input
  SeedBytes,     \* PZIP_SEED_BYTES: 8, the bytes stored uncoded
  TopOrder,      \* PZIP_ORDER: 8
  MidOrder,      \* the order the search starts from: 5
  SuffixLen,     \* bytes of an order's suffix: 2, 3, 4, 5, 8, 12, 16
  Slots,         \* the slots of a hash table
  Hash(_, _),    \* the slot of a suffix in the table of an order
  MaxLru,        \* trie->max_lru_contexts
  MaxSessions    \* bound: pzip_create calls of one process

Symbols == 0 .. SymbolCount - 1
Orders == 2 .. TopOrder
SuffixesOf(k) == [1 .. SuffixLen[k] -> Symbols]

ASSUME OrdersAssumption ==
  /\ TopOrder \in Nat /\ MidOrder \in Orders
  /\ SuffixLen \in [Orders -> Nat]
  /\ \A k \in Orders : SuffixLen[k] >= k
  /\ \A k, l \in Orders : k < l => SuffixLen[k] < SuffixLen[l]
(* The table of order 2 has a slot for every suffix.                       *)
ASSUME HashAssumption ==
  /\ \A k \in Orders : \A x \in SuffixesOf(k) : Hash(k, x) \in Slots
  /\ \A x, y \in SuffixesOf(2) : Hash(2, x) = Hash(2, y) => x = y
ASSUME SeedAssumption ==
  /\ SymbolCount \in Nat
  /\ Seed \in Symbols
  /\ SeedBytes \in 1 .. SuffixLen[TopOrder]

(* The trie is larger than one chain of active contexts.                   *)
ASSUME LruAssumption == MaxLru \in Nat /\ MaxLru >= TopOrder

NULL == 0

VARIABLES
  history,    \* the end of the input, newest byte first
  step,       \* where trie_Fill_Active_Contexts and its caller are
  next,       \* the next order to create, or to mark, a context of
  active,     \* active_contexts.c, by order
  ctx,        \* the contexts alive, by address
  freed,      \* the pool's freed hunks, newest first
  fresh,      \* the lowest hunk the pool never gave out
  hashtab,    \* hashtab_02 .. hashtab_16: chains by order and slot
  lru,        \* the lists of the tries of this process, newest first
  lru_context_count,
  order0, order1,
  session     \* the number of tries created

vars == <<history, step, next, active, ctx, freed, fresh, hashtab, lru,
          lru_context_count, order0, order1, session>>

(* The bytes that name the active context of an order.                     *)
Suffix(k) ==
  SubSeq(history, 1, IF k < 2 THEN k ELSE SuffixLen[k])

(* What a session's history can be before its first byte is coded.         *)
Histories ==
  {h \in SuffixesOf(TopOrder) :
     \A i \in SeedBytes + 1 .. SuffixLen[TopOrder] : h[i] = Seed}

(* Mutant: the pool hands out new hunks although it has freed ones.        *)
HunkFresh(n) == fresh + n - 1

(* pool_Get_Hunk: the n-th hunk it gives out from here on.                 *)
Hunk(n) ==
  IF n <= Len(freed) THEN freed[n] ELSE fresh + n - Len(freed) - 1

(* context_create.                                                         *)
NewContext(order, suffix, parent, kids) ==
  [order |-> order, suffix |-> suffix, parent |-> parent, kids |-> kids]

-----------------------------------------------------------------------------
(* Mutant: the entry is taken by its slot, whatever its suffix.            *)
FindSlot(k, suffix) ==
  LET chain == hashtab[k][Hash(k, suffix)]
  IN  IF chain = <<>> THEN NULL ELSE chain[1]

(* hash.c: hash_Find_Context_XX, hash_Note_Context_XX, hash_Drop_Context_XX. *)
(* Order 2 has a table of single pointers, the others have chains.         *)
Find(k, suffix) ==
  LET chain == hashtab[k][Hash(k, suffix)]
      i == SelectInSeq(chain, LAMBDA c : k = 2 \/ ctx[c].suffix = suffix)
  IN  IF i = 0 THEN NULL ELSE chain[i]

Note(tab, c, k, suffix) ==
  [tab EXCEPT ![k][Hash(k, suffix)] = IF k = 2 THEN <<c>> ELSE <<c>> \o @]

(* Mutant: the first entry of the chain goes, whichever it is.             *)
DropFirst(tab, contexts, c) ==
  [tab EXCEPT ![contexts[c].order][Hash(contexts[c].order, contexts[c].suffix)] =
     Tail(@)]

Drop(tab, contexts, c) ==
  LET k == contexts[c].order
      suffix == contexts[c].suffix
  IN  [tab EXCEPT ![k][Hash(k, suffix)] =
         IF k = 2 THEN <<>>
         ELSE RemoveFirstMatch(@, LAMBDA d : contexts[d].suffix = suffix)]
-----------------------------------------------------------------------------
(* trie_Create: order 0, then the contexts of order 1 from the last symbol *)
(* down.  The hash tables are not touched.                                 *)
Order1(first, symbol) == Hunk(first + SymbolCount - symbol)

TrieContexts ==
  [c \in {Hunk(n) : n \in 1 .. SymbolCount + 1} |->
     IF c = Hunk(1) THEN NewContext(0, <<>>, NULL, SymbolCount)
     ELSE LET i == CHOOSE i \in Symbols : c = Order1(1, i)
          IN  NewContext(1, <<i>>, Hunk(1), 0)]

Init ==
  /\ history \in Histories
  /\ step = "locate"
  /\ next = 2
  /\ active = [k \in 0 .. TopOrder |-> NULL]
  /\ freed = <<>>
  /\ fresh = SymbolCount + 2
  /\ order0 = 1
  /\ order1 = [i \in Symbols |-> SymbolCount + 1 - i]
  /\ ctx = [c \in 1 .. SymbolCount + 1 |->
              IF c = 1 THEN NewContext(0, <<>>, NULL, SymbolCount)
              ELSE NewContext(1, <<SymbolCount + 1 - c>>, 1, 0)]
  /\ hashtab = [k \in Orders |-> [i \in Slots |-> <<>>]]
  /\ lru = << <<>> >>
  /\ lru_context_count = 0
  /\ session = 1

(* Mutant: a context with a single kid passes for a leaf.                  *)
HasTwoKids(c) == ctx[c].kids > 1

HasKids(c) == ctx[c].kids > 0

(* The goto into phase two, at the lowest order missing, or past it.       *)
GoOn(order) ==
  /\ step' = IF order <= TopOrder THEN "create" ELSE "mark"
  /\ next' = IF order <= TopOrder THEN order ELSE 2

(* trie_Fill_Active_Contexts, phase one.  What the tables know of the end  *)
(* of the input, by order.                                                 *)
Hit == [k \in Orders |-> Find(k, Suffix(k))]

(* The highest order, from the middle one down, that its table knows, and  *)
(* the contexts of lower orders, which follow by 'parent'.                 *)
From(hit) ==
  LET known == {k \in 2 .. MidOrder : hit[k] # NULL}
  IN  IF known = {} THEN 1 ELSE Max(known)

Up(hit, from) ==
  LET up[k \in 2 .. from] == IF k = from THEN hit[k] ELSE ctx[up[k + 1]].parent
  IN  up

(* From the middle order the higher ones follow as long as the context has *)
(* kids and the next table knows the suffix.                               *)
Highest(hit, from) ==
  LET reach == {k \in MidOrder .. TopOrder :
                  \A j \in MidOrder + 1 .. k : HasKids(hit[j - 1]) /\ hit[j] # NULL}
  IN  IF from = MidOrder THEN Max(reach) ELSE from

Locate ==
  LET hit  == Hit
      from == From(hit)
      up   == Up(hit, from)
      last == Highest(hit, from)
  IN  /\ step = "locate"
      /\ active' = [k \in 0 .. TopOrder |->
                      IF k = 0 THEN order0
                      ELSE IF k = 1 THEN order1[history[1]]
                      ELSE IF k <= from THEN up[k]
                      ELSE IF k <= last THEN hit[k]
                      ELSE active[k]]
      /\ GoOn(last + 1)
      /\ UNCHANGED <<history, ctx, freed, fresh, hashtab, lru,
                     lru_context_count, order0, order1, session>>

(* Mutant: the context nearest the tail goes, leaf or not.                 *)
VictimAnyKids(contexts, list) == list[Len(list)]

(* Mutant: the leaf nearest the head goes.                                 *)
VictimNewest(contexts, list) ==
  list[SelectInSeq(list, LAMBDA c : contexts[c].kids = 0)]

(* mark_new_context_as_most_recently_used's victim: the leaf nearest the   *)
(* tail of the list.                                                       *)
Victim(contexts, list) ==
  list[SelectLastInSeq(list, LAMBDA c : contexts[c].kids = 0)]

(* create_kid's links, and those context_delete undoes.                    *)
WithKid(contexts, kid, order, suffix, parent) ==
  [c \in DOMAIN contexts \union {kid} |->
     IF c = kid THEN NewContext(order, suffix, parent, 0)
     ELSE IF c = parent THEN [contexts[c] EXCEPT !.kids = @ + 1]
     ELSE contexts[c]]

Without(contexts, victim) ==
  [c \in DOMAIN contexts \ {victim} |->
     IF c = contexts[victim].parent THEN [contexts[c] EXCEPT !.kids = @ - 1]
     ELSE contexts[c]]

(* Mutant: a context found is not cut out of its list first.               *)
CutNothing(list, c) == list

(* node_Cut.                                                               *)
Cut(list, c) == RemoveFirst(list, c)

(* Phase two: create_kid for the lowest order missing, which may recycle a *)
(* context (context_delete).                                               *)
CreateKid ==
  LET kid    == Hunk(1)
      suffix == Suffix(next)
      contexts == WithKid(ctx, kid, next, suffix, active[next - 1])
      tab    == Note(hashtab, kid, next, suffix)
      list   == <<kid>> \o lru[session]
      victim == Victim(contexts, list)
      pulled == IF freed = <<>> THEN <<>> ELSE Tail(freed)
  IN  /\ step = "create"
      /\ active' = [active EXCEPT ![next] = kid]
      /\ GoOn(next + 1)
      /\ fresh' = IF freed = <<>> THEN fresh + 1 ELSE fresh
      /\ IF lru_context_count + 1 >= MaxLru
         THEN /\ ctx' = Without(contexts, victim)
              /\ hashtab' = Drop(tab, contexts, victim)
              /\ lru' = [lru EXCEPT ![session] = Cut(list, victim)]
              /\ freed' = <<victim>> \o pulled
              /\ UNCHANGED lru_context_count
         ELSE /\ ctx' = contexts
              /\ hashtab' = tab
              /\ lru' = [lru EXCEPT ![session] = list]
              /\ freed' = pulled
              /\ lru_context_count' = lru_context_count + 1
      /\ UNCHANGED <<history, order0, order1, session>>

(* Phase three: mark_as_most_recently_used, one order after another.       *)
(* node_Cut takes a context out of whichever list holds it.                *)
MarkActive ==
  /\ step = "mark"
  /\ step' = IF next < TopOrder THEN "mark" ELSE "coded"
  /\ next' = next + 1
  /\ lru' = [t \in DOMAIN lru |->
               (IF t = session THEN <<active[next]>> ELSE <<>>)
                 \o Cut(lru[t], active[next])]
  /\ UNCHANGED <<history, active, ctx, freed, fresh, hashtab,
                 lru_context_count, order0, order1, session>>

(* The byte was coded: the main loop of pzip_Encode steps over it.         *)
NextByte ==
  /\ step = "coded"
  /\ step' = "locate"
  /\ \E byte \in Symbols :
       history' = <<byte>> \o SubSeq(history, 1, SuffixLen[TopOrder] - 1)
  /\ next' = 2
  /\ UNCHANGED <<active, ctx, freed, fresh, hashtab, lru,
                 lru_context_count, order0, order1, session>>

(* The message was coded and main starts the next pass (pzip_create): a    *)
(* new trie, in the same pool and beside the same hash tables, because     *)
(* pzip_Encode does not call pzip_destroy.                                 *)
NewSession ==
  /\ step = "coded"
  /\ session < MaxSessions
  /\ session' = session + 1
  /\ step' = "locate"
  /\ history' \in Histories
  /\ ctx' = TrieContexts @@ ctx
  /\ order0' = Hunk(1)
  /\ order1' = [i \in Symbols |-> Order1(1, i)]
  /\ LET taken == SymbolCount + 1
     IN  /\ freed' = SubSeq(freed, taken + 1, Len(freed))
         /\ fresh' = IF taken > Len(freed) THEN fresh + taken - Len(freed) ELSE fresh
  /\ lru' = Append(lru, <<>>)
  /\ lru_context_count' = 0
  /\ next' = 2
  /\ UNCHANGED <<active, hashtab>>

Next == Locate \/ CreateKid \/ MarkActive \/ NextByte \/ NewSession

Spec == Init /\ [][Next]_vars
-----------------------------------------------------------------------------
Live == DOMAIN ctx
Kids(c) == {d \in Live : ctx[d].parent = c}
Listed == ToSet(lru[session])

(* The types of struct Context, struct Trie and the tables.                *)
TypeOK ==
  /\ history \in SuffixesOf(TopOrder)
  /\ step \in {"locate", "create", "mark", "coded"}
  /\ next \in 2 .. TopOrder + 1
  /\ session \in 1 .. MaxSessions
  /\ \A c \in Live : ctx[c].order \in 0 .. TopOrder /\ ctx[c].kids \in Nat
  /\ lru_context_count \in 0 .. MaxLru

(* When a byte is coded, active_contexts.c holds the chain of contexts     *)
(* that match the end of the input: every one alive, of its order, with    *)
(* the suffix of its order, the parent of the next one, rooted in the trie *)
(* of this pass ("There is exactly one Trie instance in the system").      *)
ActiveChain ==
  step = "coded" =>
    \A k \in 0 .. TopOrder :
      /\ active[k] \in Live
      /\ ctx[active[k]].order = k
      /\ ctx[active[k]].suffix = Suffix(k)
      /\ ctx[active[k]].parent = IF k = 0 THEN NULL ELSE active[k - 1]

(* Making room never takes a context this byte is about to use, found or   *)
(* created, although those found are not marked as used until the end.     *)
RecycleSparesActive ==
  /\ step = "create" => \A k \in 0 .. next - 1 : active[k] \in Live
  /\ step = "mark" => \A k \in 0 .. TopOrder : active[k] \in Live

(* "Only kill leafs, because that avoids the problem of leaving dangling   *)
(* 'parent' pointers": the parent of a context lives, is one order lower   *)
(* and counts it among its kids, so that a context without kids is one     *)
(* that no longer suffix needs to be looked up from.                       *)
KidsExact ==
  \A c \in Live :
    /\ ctx[c].kids = Cardinality(Kids(c))
    /\ ctx[c].order > 0 =>
         ctx[c].parent \in Live /\ ctx[ctx[c].parent].order = ctx[c].order - 1

(* A suffix has one context: creating the rest of a chain without looking  *)
(* it up, as phase two does below a context without kids, duplicates none. *)
UniqueContexts ==
  \A c, d \in Live :
    ctx[c].order = ctx[d].order /\ ctx[c].suffix = ctx[d].suffix => c = d

(* The tables hold exactly the contexts alive, each once and in its slot,  *)
(* although hash_Drop_Context_XX finds its entry by suffix, not by address. *)
TablesExact ==
  \A k \in Orders :
    /\ \A i \in Slots : \A m, n \in DOMAIN hashtab[k][i] :
         hashtab[k][i][m] = hashtab[k][i][n] => m = n
    /\ \A i \in Slots :
         ToSet(hashtab[k][i]) =
           {c \in Live : ctx[c].order = k /\ Hash(k, ctx[c].suffix) = i}

(* The list of the trie holds exactly the contexts that may be recycled,   *)
(* each once, as many as it counts, and leaves room for the next one.      *)
ListExact ==
  /\ Listed = {c \in Live : ctx[c].order >= 2}
  /\ Len(lru[session]) = Cardinality(Listed)
  /\ lru_context_count = Len(lru[session])
  /\ lru_context_count < MaxLru

(* No hunk is both free and in use, and none is lost.                      *)
PoolExact ==
  /\ ToSet(freed) \intersect Live = {}
  /\ Cardinality(ToSet(freed)) = Len(freed)
  /\ ToSet(freed) \union Live = 1 .. fresh - 1
=============================================================================
