------------------------------ MODULE PackedTopK ------------------------------
(***************************************************************************)
(* How the vector cores of both operators pack a scored token into a pair  *)
(* of words, sort such pairs, and read tokens and slots back from them:    *)
(* fused_li_manage_vector.h and lightning_indexer_vector.h, as their       *)
(* service classes use them for one request and one query.                 *)
(*                                                                         *)
(* A pair is a score and a payload.  The payload has the token's slot in   *)
(* its high field and the low bits of the token; of a sequence longer than *)
(* that (Long), the high bits that are missing replace the lowest bits of  *)
(* the score.  A group of bits is given by the number of its values: to    *)
(* mask is to take the remainder, to shift is to multiply.  A word of a    *)
(* score is modelled by the number it stands for, which sign and magnitude *)
(* order alike; both zeros are 0.  Sorting is modelled by what it returns; *)
(* equal scores come in any order.                                         *)
(***************************************************************************)
EXTENDS Integers, FiniteSets, FiniteSetsExt, Sequences

CONSTANTS
  IndexSize,   \* 2^INDEX_BITS (2^18), the values of the low index bits
  HighSize,    \* 2^INDEX_HIGH_BITS (2^3)
  FieldSize,   \* 2^INVALID_FLAG_SHIFT (2^14), the values of the slot field
  Chunk,       \* s2BaseSize_ (512)
  K,           \* BASE_TOPK (2048)
  GroupInner,  \* GROUP_INNER, groupInner_ (16)
  Infinity,    \* the number NEG_INF stands for, negated
  Lengths,     \* lengths of the request
  Rows,        \* Rows[n]: rows of cache_slots_pool considered for length n
  Products     \* weighted results of the matmul considered, of a token and each head

IndexMask == IndexSize - 1
InvalidField == FieldSize - 1
AllOnes == FieldSize * IndexSize - 1    \* the word -1, unsigned
Tokens(n) == 0 .. n - 1
None == -1

\* What the loops over heads and rows add up.
Sum(f, n) ==
  LET sum[i \in 0 .. n] == IF i = 0 THEN 0 ELSE sum[i - 1] + f[i]
  IN  sum[n]

ASSUME SizeAssumption ==
  /\ {IndexSize, HighSize, FieldSize, Chunk, K, GroupInner, Infinity} \subseteq Nat \ {0}
  /\ IndexSize % Chunk = 0 /\ K < IndexSize
  /\ Lengths \subseteq 1 .. IndexSize * HighSize

\* The cached tokens hold the slots from 0 on, one each; the field tells them
\* from the invalid slot and from what is left of a free binding.
CachedIn(r) == {t \in DOMAIN r : r[t] >= 0}
ASSUME RowAssumption ==
  \A n \in Lengths : \A r \in Rows[n] :
    /\ r \in [Tokens(n) -> Int]
    /\ \A t \in Tokens(n) : r[t] < Cardinality(CachedIn(r))
    /\ \A t, u \in CachedIn(r) : r[t] = r[u] => t = u
    /\ Cardinality(CachedIn(r)) <= InvalidField
    /\ \A t \in Tokens(n) \ CachedIn(r) : r[t] % FieldSize >= Cardinality(CachedIn(r))

ASSUME ProductAssumption ==
  /\ \A p, q \in Products : p \in Seq(Int) /\ Len(p) = Len(q) /\ p # << >>
  /\ \A p \in Products : -Infinity < Sum(p, Len(p)) /\ Sum(p, Len(p)) < Infinity

VARIABLES
  mtp,        \* the operator: with or without speculative tokens
  len,        \* actS2Size
  row,        \* the request's row of cache_slots_pool
  product,    \* product[t]: of each head, for token t
  scores,     \* scoresGm, scoreScratchGm, as far as they are written
  top,        \* globalTopkUb_ without its padding
  threshold,  \* thresholdScore
  list,       \* topkIndexGm, indiceOutGm; << >> until published
  slots,      \* the slots decoded along with it
  cold,       \* tokens and slots decoded from the pairs of evictCandidateUb_
  done

vars == <<mtp, len, row, product, scores, top, threshold, list, slots, cold, done>>
input == <<mtp, len, row, product>>

Init ==
  /\ mtp \in BOOLEAN /\ len \in Lengths /\ row \in Rows[len]
  /\ product \in [Tokens(len) -> Products]
  /\ scores = << >> /\ top = {} /\ threshold = 0
  /\ list = << >> /\ slots = << >> /\ cold = {} /\ done = FALSE

Long == len > IndexMask + 1    \* hasLongIndexTag
Scored == Cardinality(DOMAIN scores)
NextChunk == Scored .. Min({Scored + Chunk, len}) - 1

-----------------------------------------------------------------------------
(* The score of a token: products of the heads, group by group (DoScale),  *)
(* then folded onto each other (DoReduce).                                 *)

\* 1 << m; and the place of the highest bit of n (FindNearestPower2).
Power(m) ==
  LET double[i \in 0 .. m] == IF i = 0 THEN 1 ELSE 2 * double[i - 1]
  IN  double[m]
HighestBit(n) == CHOOSE i \in 0 .. n : Power(i) <= n /\ n < Power(i + 1)

\* Row i gets the i-th head of every group; the last group may be short.
RowCount(p) == Min({GroupInner, Len(p)})
Groups(p) == (Len(p) + GroupInner - 1) \div GroupInner
Product(p, h) == IF h <= Len(p) THEN p[h] ELSE 0
DoScale(p) ==
  [i \in 1 .. RowCount(p) |->
     Sum([g \in 1 .. Groups(p) |-> Product(p, (g - 1) * GroupInner + i)], Groups(p))]

\* Rows from width + 1 on are added to the first ones.
AddUpper(rows, n, width) ==
  [i \in 1 .. n |-> IF i <= width /\ width + i <= n THEN rows[i] + rows[width + i] ELSE rows[i]]
DoReduce(rows, n) ==
  LET steps == HighestBit(n) + 1
      added[k \in 0 .. steps] ==
        IF k = 0 THEN rows ELSE AddUpper(added[k - 1], n, Power(steps - k))
  IN  added[steps][1]

-----------------------------------------------------------------------------
(* Packing.                                                                *)

Base(t) == t - (t % Chunk)    \* of the token's chunk
High(t) == (Base(t) \div IndexSize) % HighSize

Abs(x) == IF x < 0 THEN -x ELSE x
Signed(x, magnitude) == IF x < 0 THEN -magnitude ELSE magnitude
LowBits(x) == Abs(x) % HighSize               \* KeepLow3Bits
Cleared(x) == Signed(x, Abs(x) - LowBits(x))    \* two shifts
TagUncleared(x, high) == Signed(x, Abs(x) + high)    \* mutant: on top of the score's own bits
TagScore(x, high) == Signed(x, Abs(x) - LowBits(x) + high)

\* PrepareSortScore, TagLongIndex.
SortScore(t) ==
  LET x == DoReduce(DoScale(product[t]), RowCount(product[t]))
  IN  IF Long THEN TagScore(x, High(t)) ELSE x

\* FinishPayload, PrepareChunkPayload: every free binding becomes the invalid slot.
Payload(t) ==
  (Max({row[t], None}) % FieldSize) * IndexSize + ((Base(t) % IndexSize) + (t % Chunk))

\* Any score is greater.
NegInf == -Infinity
Pad == [key |-> NegInf, payload |-> AllOnes]    \* InitSortOutBuf

\* MrgBasicBlock, SparseTopK: the K greatest of the pairs, the padding being least.
KeepBest(S) ==
  {T \in kSubset(Min({K, Cardinality(S)}), S) : \A p \in T, q \in S \ T : p.key >= q.key}

\* One chunk: score it, write the scores out, sort it, merge it.
ScoreChunk ==
  /\ Scored < len
  /\ LET word == [t \in NextChunk |-> SortScore(t)]
     IN  /\ scores' = [t \in Tokens(Scored + Cardinality(NextChunk)) |->
                         IF t \in NextChunk THEN word[t] ELSE scores[t]]
         /\ top' \in KeepBest(top \cup {[key |-> word[t], payload |-> Payload(t)] : t \in NextChunk})
  /\ UNCHANGED <<input, threshold, list, slots, cold, done>>

-----------------------------------------------------------------------------
(* The list: misses first.                                                 *)

Field(payload) == payload \div IndexSize
LowIndex(payload) == payload % IndexSize    \* DecodeIndexFromPayload

\* DecodeSlotFromPayload, DecodePackedSlot.
DecodeSlot(payload) ==
  Field(payload) + ((Field(payload) + 1) \div FieldSize) * (-FieldSize)

\* DecodeLongIndexHighFromScoreTag; also the first part of SortTopkBySlotIndex.
LongIndex(payload, bits) == LowIndex(payload) + IF Long THEN LowBits(bits) * IndexSize ELSE 0

\* BuildHitMissKey, and for long sequences BuildTaggedHitMissKey, whose two
\* constants have clear low bits.
HitMissKey(p) ==
  IF ~Long THEN Field(p.payload)
  ELSE (IF Field(p.payload) = InvalidField THEN 2 * HighSize ELSE HighSize) + LowBits(p.key)

\* SortTopkBySlotIndex: ascending by index under a flag for misses.
LongMask == IndexSize * HighSize - 1
SlotIndexKeyDescending(p) ==    \* mutant: the index is not complemented
  (IF DecodeSlot(p.payload) = None THEN LongMask + 1 ELSE 0) + LongIndex(p.payload, p.key)
SlotIndexKey(p) ==
  ((Field(p.payload) + 1) \div FieldSize) * (LongMask + 1)
    + (IF Long THEN LongMask ELSE IndexMask) - LongIndex(p.payload, p.key)

Rekey(p) == [key |-> IF mtp THEN SlotIndexKey(p) ELSE HitMissKey(p), payload |-> p.payload]

\* SortTopKBySlot, SortTopkBySlotIndex with the padding up to K.
SortedByKey(S) ==
  {s \in [1 .. K -> S \cup {Rekey(Pad)}] :
     /\ \A p \in S : \E i \in 1 .. K : s[i] = p
     /\ Cardinality({i \in 1 .. K : s[i] \in S}) = Cardinality(S)
     /\ \A i \in 1 .. K - 1 : s[i].key >= s[i + 1].key}

\* FixInvalidIndex, of fused_li_manage and of short sequences only.
FixInvalid(p) == ~mtp /\ len < K /\ p.payload = AllOnes

\* CopyDecodedPayloadOut; DecodeTopkHitMiss takes the high bits from the key.
DecodeIndex(p) ==
  IF FixInvalid(p) THEN None
  ELSE IF mtp /\ Long
    THEN LowIndex(p.payload)
           + (HighSize - 1 - ((p.key \div IndexSize) % HighSize)) * IndexSize
  ELSE LongIndex(p.payload, p.key)

PublishList ==
  /\ Scored = len /\ list = << >>
  /\ threshold' = IF len < K THEN NegInf ELSE Min({p.key : p \in top})
  /\ \E sorted \in SortedByKey({Rekey(p) : p \in top}) :
       /\ list' = [i \in 1 .. K |-> DecodeIndex(sorted[i])]
       /\ slots' = [i \in 1 .. K |-> DecodeSlot(sorted[i].payload)]
  /\ UNCHANGED <<input, scores, top, cold, done>>

\* missCount; MtpMissUnion searches for the same prefix.
MissCount ==
  Cardinality({i \in 1 .. K : \A j \in 1 .. i : slots[j] = None})

-----------------------------------------------------------------------------
(* The candidates for eviction of fused_li_manage.                         *)

\* SortEvictCandidateChunk: the slot is packed as it is.
CandidatePayload(t) ==
  (row[t] % FieldSize) * IndexSize + ((Base(t) % IndexSize) + (t % Chunk))

\* BuildEvictCandidateKeyFromPayload; INVALID_EVICT_KEY is below every score.
InvalidEvictKey == NegInf + HighSize
EvictKey(score, payload) == IF Field(payload) = InvalidField THEN InvalidEvictKey ELSE -score

\* The rest of a chunk behind the end of the sequence, as it is sorted.
BehindEnd == IF len % Chunk = 0 THEN {} ELSE {[key |-> EvictKey(NegInf, AllOnes), payload |-> AllOnes]}

Candidates ==
  BehindEnd \cup {[key |-> EvictKey(scores[t], CandidatePayload(t)), payload |-> CandidatePayload(t)] :
               t \in Tokens(len)}

AboveStop(p) == p.key > -threshold

\* UpdateCacheAndWriteTopkSlots takes the slot field as it is and drops what is
\* no token or no slot; cacheTokenCount is the number of slots.
CacheTokenCount == Cardinality(CachedIn(row))
CandidateIndexShort(p) == LowIndex(p.payload)    \* mutant: the tag is not read
CandidateIndex(p) == LongIndex(p.payload, p.key)

FindEvictCandidates ==
  /\ ~mtp /\ list # << >> /\ ~done
  /\ cold' = {<<CandidateIndex(p), Field(p.payload)>> :
                p \in {q \in Candidates :
                         AboveStop(q) /\ CandidateIndex(q) < len /\ Field(q.payload) < CacheTokenCount}}
  /\ done' = TRUE
  /\ UNCHANGED <<input, scores, top, threshold, list, slots>>

Returned == list # << >> /\ (mtp \/ done) /\ UNCHANGED vars

Next == ScoreChunk \/ PublishList \/ FindEvictCandidates \/ Returned

Spec == Init /\ [][Next]_vars

-----------------------------------------------------------------------------
(* Properties.                                                             *)

TrueScore(t) == Sum(product[t], Len(product[t]))
Seen(t) == IF Long THEN Cleared(TrueScore(t)) ELSE TrueScore(t)
Listed == {i \in DOMAIN list : list[i] \in Tokens(len)}
Selected == {list[i] : i \in Listed}
SlotOf(t) == IF row[t] >= 0 THEN row[t] ELSE None

\* What is decoded is a top K of the sums over all heads, up to the bits the
\* tag takes from the scores of a long sequence; every token is listed once and
\* with its own slot, and padding never stands for a token or a slot.
ListIsTopK ==
  list # << >> =>
    /\ Cardinality(Selected) = Cardinality(Listed)
    /\ Cardinality(Listed) = Min({K, len})
    /\ \A t \in Selected, u \in Tokens(len) \ Selected : Seen(t) >= Seen(u)
    /\ \A i \in DOMAIN list : slots[i] = IF i \in Listed THEN SlotOf(list[i]) ELSE None

\* The misses, and nothing else, lead the list.  With speculative tokens both
\* parts ascend, which the merge of the routes relies on, whatever bits of an
\* index travel in the key.
MissesLead ==
  list # << >> =>
    /\ \A i \in DOMAIN list : slots[i] = None <=> i <= MissCount
    /\ mtp => \A i, j \in DOMAIN list :
                i < j /\ (i <= MissCount <=> j <= MissCount) /\ list[i] \in Tokens(len) =>
                  list[i] < list[j] \/ j \notin Listed

\* The candidates above the stop key are cached tokens with the slots they
\* really have, none of them in the list, and no token that is colder than the
\* whole list is missing, although both words have been packed, negated and
\* read back, and the rest of the last chunk was sorted among them.
ColdExact ==
  done =>
    /\ \A c \in cold : c[1] \notin Selected /\ c[2] = row[c[1]]
    /\ \A t \in Tokens(len) :
         row[t] >= 0 /\ len >= K /\ (\A u \in Selected : Seen(t) < Seen(u)) =>
           <<t, row[t]>> \in cold
=============================================================================
