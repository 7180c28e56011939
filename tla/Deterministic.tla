---------------------------- MODULE Deterministic ----------------------------
(***************************************************************************)
(* deterministic.c: "some suffix of the current input-to-date has appeared *)
(* before in the input, but always followed by one particular symbol".     *)
(* A ring of nodes, one for each of the last bytes coded, remembers where  *)
(* the suffixes ended; a node is found again through the context of the    *)
(* highest order, or as the successor of the one whose prediction was      *)
(* right.  Encoder and decoder do the same: a byte is a symbol the encoder *)
(* reads or the decoder answers with.                                      *)
(***************************************************************************)
EXTENDS DetEscapeConstants, Sequences, FiniteSets, FiniteSetsExt

CONSTANTS
  Symbols,            \* the bytes of the input
  Seed,               \* PZIP_SEED_BYTE, what lies before the input
  SeedBytes,          \* PZIP_SEED_BYTES: 8, the bytes stored uncoded
  SuffixLen,          \* bytes of the suffix of order PZIP_ORDER: 16
  KnownLen,           \* bytes longest_common_suffix does not compare: 12
  MinOrder,           \* DETERMINISTIC_MIN_ORDER: 24
  MinLenInc,          \* DETERMINISTIC_MIN_LEN_INC: 2
  ForceLen,           \* the length from which a match is forced: 64
  MaxMatchLen,        \* DETERMINISTIC_MAX_MATCH_LEN: 1024
  MaxNodesToVisit,    \* DETERMINISTIC_MAX_NODES_TO_VISIT: 100
  NodeArraySize,      \* NODE_ARRAY_SIZE: 2^18
  MinLenRange,        \* the values of min_len, a u16: 2^16
  SureCount,          \* the count of a forced match: 99999
  FollowsetSizes,     \* the sizes a context's followset may have
  MaxInput,           \* bound: the length of the input
  MaxOrphans          \* bound: Deterministic_Contexts whose context is gone

Bytes == Symbols \union {Seed}
Suffixes == [1 .. SuffixLen -> Bytes]
Slots == 0 .. NodeArraySize - 1
NULL == -1

ASSUME BytesAssumption == Bytes \subseteq 0 .. 255
ASSUME LengthsAssumption ==
  /\ SeedBytes \in Nat \ {0} /\ SuffixLen \in Nat /\ KnownLen \in Nat \ {0}
  /\ MinOrder \in Nat /\ MinLenInc \in Nat /\ ForceLen \in Nat
  /\ MaxMatchLen \in Nat \ {0} /\ MaxNodesToVisit \in Nat \ {0}
  /\ KnownLen <= SuffixLen /\ SuffixLen <= MinOrder /\ MinOrder <= ForceLen
  /\ KnownLen < MinOrder
ASSUME RingAssumption == NodeArraySize \in Nat \ {0, 1} /\ MinLenRange \in Nat \ {0}
ASSUME CountsAssumption == SureCount \in Nat \ {0} /\ FollowsetSizes \subseteq Nat
ASSUME BoundsAssumption == MaxInput \in Nat /\ MaxOrphans \in Nat

VARIABLES
  input,         \* input_buf, as far as it has been coded
  step,          \* which half of the main loop's body comes next
  symbol,        \* the byte being coded
  det,           \* context->det of the context of the highest order, by suffix
  seen,          \* the Deterministic_Contexts: matches_seen and escapes_seen
  node,          \* self->node; home is the context whose list holds the node
  node_cursor,
  next_node,
  cached,        \* what Encode and Decode save for Update
  bins           \* self->escape

vars == <<input, step, symbol, det, seen, node, node_cursor, next_node, cached,
          bins>>
-----------------------------------------------------------------------------
(* input_ptr - input_buf, and the buffer with the preamble before it.      *)
Here == Len(input)
Byte(i) == IF i < 0 THEN Seed ELSE input[i + 1]

(* What trie_Fill_Active_Contexts finds the context of PZIP_ORDER by.      *)
Suffix == [i \in 1 .. SuffixLen |-> Byte(Here - i)]

(* The situation escape_Encode is called with: getu32( input_ptr -4 ), one *)
(* escape, and the counts given.                                           *)
Situation(key, low, count, size) ==
  [key |-> key, low |-> low, escape_count |-> 1, total_symbol_count |-> count,
   followset_size |-> size]
TwoBits(byte) == (byte \div 32) % 4
Key == [i \in 1 .. 4 |-> TwoBits(Byte(Here - i))]

(* Mutant: the bits of the newest byte that the key tells apart are twice  *)
(* in the bin.                                                             *)
LowSevenBits == Byte(Here - 1) % 128

Low == Byte(Here - 1) % 32
Calls ==
  {Situation(key, low, count, size) :
     key \in [1 .. 4 -> {TwoBits(byte) : byte \in Bytes}],
     low \in {byte % 32 : byte \in Bytes},
     count \in 1 .. MaxInput \union {SureCount},
     size \in FollowsetSizes}
ASSUME CallsAssumption == Calls \subseteq Situations

Escape == INSTANCE DetEscape
-----------------------------------------------------------------------------
(* Mutant: the bytes not compared are not counted either, but one more.    *)
CommonSuffixPlusOne(q) ==
  LET a == Here - KnownLen - 1
      b == q - KnownLen - 1
      reach == Max({1, Min({a, b, MaxMatchLen})})
      differ == {k \in 0 .. reach - 1 : Byte(a - k) # Byte(b - k)}
  IN  KnownLen + (IF differ = {} THEN reach + 1 ELSE Min(differ))

(* longest_common_suffix of the input so far and of a node's, from the     *)
(* byte before those the context tells are equal; one byte is compared     *)
(* even where the buffer ends.                                             *)
CommonSuffix(q) ==
  LET a == Here - KnownLen - 1
      b == q - KnownLen - 1
      reach == Max({1, Min({a, b, MaxMatchLen})})
      differ == {k \in 0 .. reach - 1 : Byte(a - k) # Byte(b - k)}
  IN  KnownLen + (IF differ = {} THEN reach ELSE Min(differ))

Match(dc, n, match_len, longest) ==
  [dc |-> dc, node |-> n, match_len |-> match_len, longest |-> longest]
NoMatch == Match(NULL, NULL, 0, 0)

(* A list has its newest node first, as each node was added to its head.   *)
Newer(s, t) == node[s].input_ptr > node[t].input_ptr
Visited(dc) ==
  LET list == {s \in Slots : node[s].home = dc}
  IN  {s \in list : Cardinality({t \in list : Newer(t, s)}) < MaxNodesToVisit}

(* Mutant: the longest match is taken, long enough for its node or not.    *)
AcceptableAny(s, len) == TRUE

Acceptable(s, len) == len >= node[s].min_len

(* find_best_node's loop: the newest of the longest acceptable matches,    *)
(* and the length of the longest of any.                                   *)
BestNode(dc) ==
  LET visited == Visited(dc)
      len == [s \in visited |-> CommonSuffix(node[s].input_ptr)]
      good == {s \in visited : Acceptable(s, len[s])}
      best_len == Max({0} \union {len[s] : s \in good})
      best == {s \in good : len[s] = best_len}
      longest == Max({0} \union {len[s] : s \in visited})
  IN  IF good = {} THEN Match(dc, NULL, 0, longest)
      ELSE Match(dc, CHOOSE s \in best : \A t \in best : ~Newer(t, s),
                 best_len, longest)

(* find_best_node, called with what is cached so far.                      *)
FindBest(dc, kept) ==
  IF dc = NULL THEN NoMatch
  ELSE IF Here < MinOrder THEN kept
  ELSE BestNode(dc)

(* Mutant: the list of the byte before is kept while a node is followed.   *)
FollowedOldList ==
  LET match_len == cached.match_len + 1
  IN  Match(cached.dc, next_node, match_len, Max({cached.longest, match_len}))

(* The successor of the node that was right matches one byte more.         *)
Followed ==
  LET match_len == cached.match_len + 1
  IN  Match(det[Suffix], next_node, match_len, Max({cached.longest, match_len}))
Following == next_node # NULL /\ det[Suffix] # NULL

(* Mutant: the shortest match a node may have is forced.                   *)
ForcedEarly == Following /\ Followed.match_len >= MinOrder

Forced == Following /\ Followed.match_len >= ForceLen

(* find_match, and what it does to the min_len of a node it forces.        *)
FindMatch ==
  IF ~Following
  THEN FindBest(det[Suffix], [cached EXCEPT !.dc = NULL, !.node = NULL])
  ELSE IF Forced \/ Followed.match_len >= node[next_node].min_len
  THEN Followed
  ELSE FindBest(det[Suffix], Followed)

ForceMinLen ==
  IF Forced
  THEN [node EXCEPT ![next_node].min_len = Min({@, Followed.match_len})]
  ELSE node
-----------------------------------------------------------------------------
Init ==
  /\ input \in [1 .. SeedBytes -> Symbols]
  /\ step = "encode"
  /\ symbol = input[SeedBytes]
  /\ det = [x \in Suffixes |-> NULL]
  /\ seen = <<>>
  /\ node = [s \in Slots |-> [input_ptr |-> 0, min_len |-> 0, home |-> NULL]]
  /\ node_cursor = 0
  /\ next_node = NULL
  /\ cached = NoMatch
  /\ Escape!Init

(* The prediction of the node cached: the byte that followed it.           *)
Prediction == Byte(node[cached'.node].input_ptr)

(* deterministic_Encode and deterministic_Decode: the byte is predicted if *)
(* a node is found, and the escape statistics learn how that went.         *)
Code ==
  /\ step = "encode"
  /\ Here < MaxInput
  /\ step' = "update"
  /\ cached' = FindMatch
  /\ node' = ForceMinLen
  /\ symbol' \in Symbols
  /\ IF cached'.node = NULL THEN UNCHANGED bins
     ELSE LET count == IF cached'.match_len >= ForceLen THEN SureCount
                       ELSE seen[cached'.dc].matches_seen
          IN  \E size \in FollowsetSizes :
                Escape!Learn(Situation(Key, Low, count, size),
                             symbol' # Prediction)
  /\ UNCHANGED <<input, det, seen, node_cursor, next_node>>

Matched == cached.node # NULL /\ Byte(node[cached.node].input_ptr) = symbol
Missed == cached.node # NULL /\ Byte(node[cached.node].input_ptr) # symbol

(* Mutant: every other slot is skipped.                                    *)
NextSlotTwo(s) == (s + 2) % NodeArraySize

(* next_deterministic_node, and where alloc_deterministic_node goes on.    *)
NextSlot(s) == (s + 1) % NodeArraySize

(* A prediction that fails needs a longer match from then on.              *)
Learnt ==
  IF Missed
  THEN [node EXCEPT ![cached.node].min_len =
          (cached.match_len + MinLenInc) % MinLenRange]
  ELSE node

(* The least match a new node is trusted with, stored in its u16.          *)
NewMinLen == Max({cached.longest + 1, MinOrder}) % MinLenRange

(* deterministic_Update, and the step of the main loop past the byte.      *)
Update ==
  LET counted == [d \in DOMAIN seen |->
                    IF d = cached.dc
                    THEN [matches_seen |-> seen[d].matches_seen
                                             + (IF Matched THEN 1 ELSE 0),
                          escapes_seen |-> seen[d].escapes_seen
                                             + (IF Missed THEN 1 ELSE 0)]
                    ELSE seen[d]]
      dc == IF det[Suffix] = NULL THEN Len(seen) + 1 ELSE det[Suffix]
  IN  /\ step = "update"
      /\ step' = "encode"
      /\ next_node' = IF Matched THEN NextSlot(cached.node) ELSE NULL
      /\ seen' = IF det[Suffix] = NULL
                 THEN Append(counted, [matches_seen |-> 1, escapes_seen |-> 1])
                 ELSE counted
      /\ det' = [det EXCEPT ![Suffix] = dc]
      /\ node' = [Learnt EXCEPT ![node_cursor] =
                    [input_ptr |-> Here, min_len |-> NewMinLen, home |-> dc]]
      /\ node_cursor' = NextSlot(node_cursor)
      /\ input' = Append(input, symbol)
      /\ UNCHANGED <<symbol, cached, bins>>

(* The trie recycles a context that is not active: its Deterministic_Context *)
(* stays in the pool, and the nodes in its list, but nothing leads there.  *)
Recycle(x) ==
  /\ x # Suffix
  /\ det[x] # NULL
  /\ Cardinality({d \in DOMAIN seen : \A y \in Suffixes : det[y] # d}) < MaxOrphans
  /\ det' = [det EXCEPT ![x] = NULL]
  /\ UNCHANGED <<input, step, symbol, seen, node, node_cursor, next_node,
                 cached, bins>>

Next == Code \/ Update \/ \E x \in Suffixes : Recycle(x)

Spec == Init /\ [][Next]_vars
-----------------------------------------------------------------------------
Predicting == step = "update" /\ cached.node # NULL

(* The bytes before two places of the input are the same.                  *)
Shares(p, q, len) == \A i \in 1 .. len : Byte(p - i) = Byte(q - i)

(* What is predicted from has happened: the node found stands for a place  *)
(* before this byte, which a decoder knows, and as many bytes as the match *)
(* counts are the same before both, although a node is followed from its   *)
(* slot number alone, after the slots around it were used again and its    *)
(* context may have been recycled.                                         *)
MatchIsReal ==
  Predicting =>
    LET q == node[cached.node].input_ptr
    IN  /\ SeedBytes <= q /\ q < Here
        /\ Shares(Here, q, cached.match_len)

(* The counts an escape is estimated with are those of the list the node   *)
(* is in: a followed node comes from the list of the byte before, and the  *)
(* counts from the context of this one.  Only if the node's list has lost  *)
(* its context, and the suffix got a new one, do they differ.              *)
CountsOfItsList ==
  Predicting =>
    \/ node[cached.node].home = cached.dc
    \/ \A x \in Suffixes : det[x] # node[cached.node].home

(* The assertions of find_best_node and deterministic_Update: a match is   *)
(* as long as its node asks, and never shorter than MinOrder.  The program *)
(* aborts where this fails, so no later state says anything of it.         *)
MatchLongEnough ==
  Predicting =>
    /\ cached.match_len >= node[cached.node].min_len
    /\ cached.match_len >= MinOrder

(* The ring holds the last bytes coded, in order, each at the context of   *)
(* its suffix unless that was recycled.                                    *)
RingIsInput ==
  \A p \in SeedBytes .. Here - 1 : p >= Here - NodeArraySize =>
    LET n == node[(p - SeedBytes) % NodeArraySize]
    IN  /\ n.input_ptr = p
        /\ \A x \in Suffixes : n.home = det[x] =>
             \A i \in 1 .. SuffixLen : x[i] = Byte(p - i)

(* What a node's failures taught stands: the length it asks for goes down  *)
(* only when a match is forced on this very node, to the length of that    *)
(* match, and so never below ForceLen.                                     *)
TrustOnlyShrinks ==
  [][\A s \in Slots :
       node'[s].input_ptr = node[s].input_ptr /\ node'[s].min_len < node[s].min_len
         => /\ s = cached'.node /\ node'[s].min_len = cached'.match_len
            /\ node'[s].min_len >= ForceLen]_vars

(* The bins det_escape.c keeps under this caller.                          *)
OddsCodable == Escape!OddsCodable
BlendFits == Escape!BlendFits

(* Seen from the bins, the whole is calls of escape_Encode.                *)
ImplementsDetEscape == Escape!Spec
=============================================================================
