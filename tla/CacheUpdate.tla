---------------------------- MODULE CacheUpdate ----------------------------
(***************************************************************************)
(* One row of cache_slots_pool across the decode calls of its request:     *)
(* the vector core scores the sequence chunk by chunk, keeps the best K    *)
(* tokens, decodes which of them miss the HBM cache, looks for cold cached *)
(* tokens to evict and rebinds their slots (ProcessVec,                    *)
(* FindEvictCandidates and UpdateCacheAndWriteTopkSlots of                 *)
(* fused_li_manage_service_vector.h).                                      *)
(*                                                                         *)
(* A row maps a source token to the slot that holds it, or to a negative   *)
(* value.  A score stands for the sort key the kernel compares (for long   *)
(* sequences: with its three tag bits); the sorters leave the order of     *)
(* equal keys open, and so does the model.                                 *)
(***************************************************************************)
EXTENDS Integers, FiniteSets

CONSTANTS
  Capacity,     \* cacheSlotsSize_, the width of a row
  K,            \* BASE_TOPK (2048)
  ChunkSize,    \* S2_BASE_SIZE (512)
  BatchChunks,  \* PAYLOAD_BUF_SLOTS (4)
  ExtraChunks,  \* EVICT_EXTRA_SCAN_CHUNKS (4)
  C,            \* cache_tokens of the request
  SlotField,    \* 2^14, the values of the packed slot field
  Unbound,      \* the negative entries a row may hold for a token not cached
  Scores,       \* the values a sort key takes
  Lens          \* the candidate lengths a call may be made with

None == -1                       \* ConstInfo::INVALID_IDX
InvalidSlot == SlotField - 1     \* INVALID_SLOT14
Tokens == 0 .. Capacity - 1
Slots == 0 .. C - 1

ASSUME SizeAssumption ==
  /\ Capacity \in Nat \ {0} /\ K \in Nat \ {0} /\ C \in Nat
  /\ ChunkSize \in Nat \ {0} /\ BatchChunks \in Nat \ {0} /\ ExtraChunks \in Nat
  /\ SlotField \in Nat \ {0}

ASSUME InputAssumption ==
  /\ Unbound \subseteq {v \in Int : v < 0} /\ None \in Unbound
  /\ Scores \subseteq Int /\ Scores # {}
  /\ Lens \subseteq 0 .. Capacity

VARIABLES
  row,          \* this request's row of cache_slots_pool
  len,          \* candidate length of the current (or last) call
  score,        \* scoresGm, the keys of the call's tokens
  pc,           \* where the handler is
  chunk,        \* next chunk to score
  topk,         \* globalTopkUb_, as the set of its tokens
  threshold,    \* thresholdScore, the key of the last entry of the top K
  index,        \* topkIndex row, misses first
  slots,        \* topkSlots row
  missCount,    \* missCount of this request
  start,        \* startChunk of the circular scan
  scanOffset,   \* chunks scanned so far
  stop,         \* stopScanOffset as a number of chunks
  cands,        \* evictCandidateUb_: the entries whose key is above stopKey
  plan,         \* the same, sorted and unpacked to token and slot
  candCursor,   \* candidateCursor
  fallback,     \* fallbackCursor
  missIdx,      \* the miss being served
  before        \* history: the row when the call started

vars == <<row, len, score, pc, chunk, topk, threshold, index, slots, missCount,
          start, scanOffset, stop, cands, plan, candCursor, fallback, missIdx, before>>

scanVars == <<start, scanOffset, stop, cands>>
updateVars == <<plan, candCursor, fallback, missIdx>>
callVars == <<len, score, chunk, topk, threshold, before>>

-----------------------------------------------------------------------------
(* Codecs.  A slot shares 32 bits with the low 18 bits of the index, so    *)
(* shifting it in keeps its low 14 bits, in two's complement.              *)

Pack(v) == v % SlotField
Unpack(field) == IF field = InvalidSlot THEN None ELSE field
NormalisedNot(v) == v    \* mutant: Maxs dropped
Normalised(v) == IF v < None THEN None ELSE v

\* What the top-K decoder reports for a token, and what the evict scan packs.
HitSlot(t) == Unpack(Pack(Normalised(row[t])))
EvictField(t) == Pack(row[t])

-----------------------------------------------------------------------------
(* Chunks and sorted selections.                                           *)

Least(a, b) == IF a <= b THEN a ELSE b
ChunkCount(n) == (n + ChunkSize - 1) \div ChunkSize
\* mutant: the tail of the sequence, shorter than a chunk, is left out
ChunkTokens(c) == {t \in 0 .. len - 1 : t \div ChunkSize = c}

Injective(f) == \A i, j \in DOMAIN f : f[i] = f[j] => i = j

\* The k highest entries of S, for every way to break ties.
TopSets(S, k) ==
  {B \in SUBSET S : /\ Cardinality(B) = Least(k, Cardinality(S))
                    /\ \A b \in B, o \in S \ B : score[b] >= score[o]}

\* The k coldest entries of S, and the ways to list a set coldest first.
ColdSets(S, k) ==
  {B \in SUBSET S : /\ Cardinality(B) = Least(k, Cardinality(S))
                    /\ \A b \in B, o \in S \ B : score[b] <= score[o]}

ColdOrders(S) ==
  {p \in [1 .. Cardinality(S) -> S] :
      /\ Injective(p)
      /\ \A i, j \in DOMAIN p : i < j => score[p[i]] <= score[p[j]]}

-----------------------------------------------------------------------------
(* A call is processed when the cache budget fits between K and the        *)
(* sequence; other rows only get miss count zero (CleanEmptyRequest).      *)

Accepts(n) == C >= K /\ C <= n

Init ==
  /\ len \in {n \in Lens : Accepts(n)}
  /\ row \in [Tokens -> Slots \cup Unbound]
  /\ \A s \in Slots : \E t \in 0 .. len - 1 : row[t] = s
  /\ \A t, u \in Tokens : row[t] = row[u] /\ row[t] >= 0 => t = u
  /\ score = [t \in 0 .. len - 1 |-> CHOOSE s \in Scores : TRUE]
  /\ pc = "idle"
  /\ chunk = 0 /\ topk = {} /\ threshold = 0
  /\ index = [i \in 1 .. K |-> None] /\ slots = [i \in 1 .. K |-> None]
  /\ missCount = 0
  /\ start = 0 /\ scanOffset = 0 /\ stop = 0 /\ cands = {}
  /\ plan = << >> /\ candCursor = 1 /\ fallback = 0 /\ missIdx = 1
  /\ before = row

\* A decode call with n candidate tokens; a request's sequence never shrinks.
Call(n) ==
  /\ pc = "idle" /\ Accepts(n) /\ n >= len
  /\ len' = n
  /\ score' \in [0 .. n - 1 -> Scores]
  /\ chunk' = 0 /\ topk' = {}
  /\ before' = row
  /\ pc' = "score"
  /\ UNCHANGED <<row, threshold, index, slots, missCount, scanVars, updateVars>>

\* A call the kernel does not process leaves everything but the miss count.
SkipCall(n) ==
  /\ pc = "idle" /\ ~Accepts(n)
  /\ missCount' = 0
  /\ before' = row
  /\ UNCHANGED <<row, len, score, pc, chunk, topk, threshold, index, slots,
                 scanVars, updateVars>>

\* The chunks sorted since the last merge (SortedBasicBlock_).
PendingLastOnly == ChunkTokens(chunk)    \* mutant: a merge forgets the other blocks
Pending == UNION {ChunkTokens(c) : c \in (chunk - (chunk % BatchChunks)) .. chunk}

\* ProcessVec: sort one chunk; every BatchChunks chunks, and at the end, merge
\* the pending ones into the running top K.
ScoreChunk ==
  /\ pc = "score"
  /\ LET last == chunk + 1 = ChunkCount(len)
     IN  /\ IF chunk % BatchChunks = BatchChunks - 1 \/ last
              THEN topk' \in TopSets(topk \cup Pending, K)
              ELSE topk' = topk
         /\ pc' = IF last THEN "decode" ELSE "score"
  /\ chunk' = chunk + 1
  /\ UNCHANGED <<row, len, score, threshold, index, slots, missCount, before,
                 scanVars, updateVars>>

\* The top K with the misses in front (SortTopKBySlot).
AnyOrder == {f \in [1 .. K -> topk] : Injective(f)}    \* mutant: not sorted by slot
MissFirstOrders ==
  {f \in [1 .. K -> topk] :
      /\ Injective(f)
      /\ \A i, j \in 1 .. K : i < j /\ HitSlot(f[j]) = None => HitSlot(f[i]) = None}

\* The length of the leading run of misses (the loop of CopyDecodedPayloadOut).
IsMissPrefix(f, m) ==
  /\ \A i \in 1 .. m : f[i] = None
  /\ m < K => f[m + 1] # None

\* SortTopKBySlot, CopyDecodedPayloadOut and the set-up of FindEvictCandidates;
\* the hash of length and row may select any start chunk.
Decode ==
  /\ pc = "decode"
  /\ \E t \in topk : /\ threshold' = score[t]
                     /\ \A u \in topk : score[t] <= score[u]
  /\ index' \in MissFirstOrders
  /\ slots' = [i \in 1 .. K |-> HitSlot(index'[i])]
  /\ missCount' \in 0 .. K /\ IsMissPrefix(slots', missCount')
  /\ pc' = IF missCount' = 0 THEN "publish" ELSE "scan"
  /\ start' \in IF missCount' = 0 THEN {start} ELSE 0 .. ChunkCount(len) - 1
  /\ scanOffset' = 0 /\ stop' = ChunkCount(len) /\ cands' = {}
  /\ UNCHANGED <<row, len, score, chunk, topk, before, updateVars>>

-----------------------------------------------------------------------------
(* The evict scan.                                                         *)

CandidateCap ==
  Least(((missCount + ChunkSize - 1) \div ChunkSize) * ChunkSize, K)

\* The entries of a chunk whose key, the negated score or INVALID_EVICT_KEY,
\* is above stopKey.
EligibleAtThreshold(c) ==    \* mutant: compares with >= instead of >
  {t \in ChunkTokens(c) : EvictField(t) # InvalidSlot /\ score[t] <= threshold}
Eligible(c) ==
  {t \in ChunkTokens(c) : EvictField(t) # InvalidSlot /\ score[t] < threshold}

EnoughCold(S) == Cardinality(S) >= missCount

\* The scan is circular.
ScanChunkClamped(o) == Least(start + o, ChunkCount(len) - 1)    \* mutant: no wrap
ScanChunk(o) == (start + o) % ChunkCount(len)

\* The branch for one chunk of candidates merges BatchChunks chunks at a time,
\* the others one; either reads at most ExtraChunks more once it has enough.
Scan ==
  /\ pc = "scan"
  /\ LET num == ChunkCount(len)
         step == IF CandidateCap = ChunkSize THEN BatchChunks ELSE 1
         next == scanOffset + Least(step, stop - scanOffset)
         found == UNION {Eligible(ScanChunk(o)) : o \in scanOffset .. next - 1}
     IN  /\ cands' \in ColdSets(cands \cup found, CandidateCap)
         /\ scanOffset' = next
         /\ stop' = IF stop = num /\ EnoughCold(cands')
                      THEN next + Least(ExtraChunks, num - next) ELSE stop
         /\ pc' = IF next < stop' THEN "scan" ELSE "choose"
  /\ UNCHANGED <<row, index, slots, missCount, start, callVars, updateVars>>

-----------------------------------------------------------------------------
(* The update of the row.                                                  *)

UsableAnyField(entry) == entry.tok < len    \* mutant: slot not checked against C
Usable(entry) == entry.tok < len /\ entry.slot < C

HasFullPrefix == CandidateCap = ChunkSize /\ EnoughCold(cands)

\* The packed fast path unpacks the slots over the miss prefix and takes it
\* only when every one of them is valid; otherwise it clears the prefix.
ChoosePath ==
  /\ pc = "choose"
  /\ \E p \in ColdOrders(cands) :
        plan' = [i \in DOMAIN p |-> [tok |-> p[i], slot |-> EvictField(p[i])]]
  /\ IF HasFullPrefix
       THEN LET valid == \A i \in 1 .. missCount : Usable(plan'[i])
            IN  /\ slots' = [i \in 1 .. K |->
                               IF i > missCount THEN slots[i]
                               ELSE IF valid THEN plan'[i].slot ELSE None]
                /\ pc' = IF valid THEN "fast" ELSE "slow"
       ELSE slots' = slots /\ pc' = "slow"
  /\ candCursor' = 1 /\ fallback' = 0 /\ missIdx' = 1
  /\ UNCHANGED <<row, index, missCount, scanVars, callVars>>

\* Take the slot from its old token and give it to the miss.
RebindKeepsVictim(victim, slot) ==    \* mutant: the old token is not unbound
  row' = [row EXCEPT ![index[missIdx]] = slot]
Rebind(victim, slot) ==
  row' = [row EXCEPT ![victim] = None, ![index[missIdx]] = slot]

NextMissEarly ==    \* mutant: stops one miss short
  /\ missIdx' = missIdx + 1
  /\ pc' = IF missIdx + 1 >= missCount THEN "publish" ELSE pc
NextMissStuck ==    \* mutant: the loop variable does not advance
  /\ missIdx' = missIdx
  /\ pc' = IF missIdx = missCount THEN "publish" ELSE pc
NextMiss ==
  /\ missIdx' = missIdx + 1
  /\ pc' = IF missIdx = missCount THEN "publish" ELSE pc

FastReplace ==
  /\ pc = "fast"
  /\ Rebind(plan[missIdx].tok, slots[missIdx])
  /\ NextMiss
  /\ UNCHANGED <<index, slots, missCount, plan, candCursor, fallback, scanVars, callVars>>

\* The first valid candidate that is left.
NextCandidate(i) ==
  /\ i \in DOMAIN plan /\ i >= candCursor /\ Usable(plan[i])
  /\ \A j \in DOMAIN plan : j >= candCursor /\ j < i => ~Usable(plan[j])

ReplaceByCandidate ==
  /\ pc = "slow"
  /\ \E i \in DOMAIN plan :
        /\ NextCandidate(i)
        /\ Rebind(plan[i].tok, plan[i].slot)
        /\ slots' = [slots EXCEPT ![missIdx] = plan[i].slot]
        /\ candCursor' = i + 1
  /\ NextMiss
  /\ UNCHANGED <<index, missCount, plan, fallback, scanVars, callVars>>

\* FindFallbackEvict: a cached token outside the top K (IsTopKIndex).
IsVictimAnyCached(t) ==    \* mutant: IsTopKIndex not consulted
  row[t] >= 0 /\ row[t] < C
IsVictim(t) ==
  /\ row[t] >= 0 /\ row[t] < C
  /\ \A i \in 1 .. K : index[i] # t

\* The linear search from fallbackCursor, once no candidate is left.  A search
\* that ends without a victim leaves this miss without a slot.
ReplaceByFallback ==
  /\ pc = "slow"
  /\ \A i \in DOMAIN plan : ~NextCandidate(i)
  /\ candCursor' = Cardinality(DOMAIN plan) + 1
  /\ IF \E t \in fallback .. len - 1 : IsVictim(t)
       THEN \E t \in fallback .. len - 1 :
              /\ IsVictim(t) /\ \A u \in fallback .. t - 1 : ~IsVictim(u)
              /\ Rebind(t, row[t])
              /\ slots' = [slots EXCEPT ![missIdx] = row[t]]
              /\ fallback' = t + 1
       ELSE row' = row /\ slots' = slots /\ fallback' = len
  /\ NextMiss
  /\ UNCHANGED <<index, missCount, plan, scanVars, callVars>>

\* The rows go out and the handler returns; its local buffers are dead.
Publish ==
  /\ pc = "publish"
  /\ pc' = "idle"
  /\ score' = [t \in 0 .. len - 1 |-> CHOOSE s \in Scores : TRUE]
  /\ chunk' = 0 /\ topk' = {} /\ threshold' = 0
  /\ start' = 0 /\ scanOffset' = 0 /\ stop' = 0 /\ cands' = {}
  /\ plan' = << >> /\ candCursor' = 1 /\ fallback' = 0 /\ missIdx' = 1
  /\ UNCHANGED <<row, len, index, slots, missCount, before>>

Work ==
  \/ ScoreChunk \/ Decode \/ Scan \/ ChoosePath
  \/ FastReplace \/ ReplaceByCandidate \/ ReplaceByFallback \/ Publish

Next == (\E n \in Lens : Call(n) \/ SkipCall(n)) \/ Work

Spec == Init /\ [][Next]_vars

\* A launched kernel runs to its end.
FairSpec == Spec /\ WF_vars(Work)

-----------------------------------------------------------------------------
(* Properties.                                                             *)

TypeOK ==
  /\ len \in Lens /\ Accepts(len)
  /\ row \in [Tokens -> Slots \cup Unbound]
  /\ score \in [0 .. len - 1 -> Scores]
  /\ pc \in {"idle", "score", "decode", "scan", "choose", "fast", "slow", "publish"}
  /\ chunk \in 0 .. ChunkCount(len) /\ topk \subseteq 0 .. len - 1 /\ threshold \in Int
  /\ index \in [1 .. K -> Tokens \cup {None}]
  /\ slots \in [1 .. K -> Int]
  /\ missCount \in 0 .. K /\ missIdx \in 1 .. K + 1
  /\ start \in Nat /\ scanOffset \in 0 .. ChunkCount(len) /\ stop \in 0 .. ChunkCount(len)
  /\ cands \subseteq 0 .. len - 1
  /\ plan \in [DOMAIN plan -> [tok : Tokens, slot : 0 .. SlotField - 1]]
  /\ candCursor \in Nat /\ fallback \in 0 .. len
  /\ before \in [Tokens -> Slots \cup Unbound]

\* "Cache cardinality is preserved by replacing one slot per miss"
\* (fused_li_manage_kernel.h:295): at every step of every call the row binds
\* each of the C slots to exactly one token below the candidate length.
CachePermutation ==
  /\ \A s \in Slots : \E t \in 0 .. len - 1 : row[t] = s
  /\ \A t, u \in Tokens : row[t] = row[u] /\ row[t] >= 0 => t = u

\* Merging the chunks four at a time into a running top K loses nothing: what
\* is published is a best K of the whole sequence.
TopKIsBest ==
  pc = "publish" =>
    /\ Cardinality(topk) = K
    /\ topk = {index[i] : i \in 1 .. K}
    /\ \A t \in topk, u \in (0 .. len - 1) \ topk : score[t] >= score[u]

\* Every selected token is cached when the handler returns, whichever of the
\* packed path, the candidates and the linear fallback served it, and the
\* published slots are the row itself, item by item, also after later calls
\* that were skipped.
PublishedMatchesRow ==
  pc = "publish" \/ (pc = "idle" /\ index[1] # None) =>
    \A i \in 1 .. K : index[i] \in Tokens /\ slots[i] \in Slots /\ slots[i] = row[index[i]]

\* The first missCount published entries are exactly the selected tokens the
\* row did not hold when the call started: what the copy kernel must fetch.
MissPrefixExact ==
  pc = "publish" => \A i \in 1 .. K : i <= missCount <=> before[index[i]] < 0

\* A token of the current top K never loses its slot while the call runs: no
\* stale or mis-packed candidate evicts what was just selected.
SelectedNeverEvicted ==
  [][\A t \in topk : row[t] >= 0 /\ pc # "publish" => row'[t] = row[t]]_vars

\* A token as good as the last selected one gives up its slot only when no
\* strictly colder token is cached any more, however early the scan stopped.
ColdGoFirst ==
  [][\A t \in 0 .. len - 1 :
        pc \in {"fast", "slow"} /\ row[t] >= 0 /\ row'[t] < 0 /\ score[t] >= threshold
          => \A u \in 0 .. len - 1 : row[u] >= 0 => score[u] >= threshold]_vars

\* Nothing but cached tokens is evicted: an entry that is not bound stays so
\* until its own token is selected.
OnlyCachedEvicted ==
  [][\A t \in Tokens : row[t] < 0 => row'[t] = row[t] \/ t \in topk]_vars

\* Every call ends; in particular the scan stops after at most all chunks and
\* the replacement after at most K misses.
CallsEnd == pc # "idle" ~> pc = "idle"

\* The row of a finished call against the row the caller last saw: decoding
\* selects the tokens, and returning serves all of them in one abstract step.
Promise ==
  INSTANCE CachePromise WITH
    held <- [t \in Tokens |-> Normalised((IF pc = "idle" THEN row ELSE before)[t])],
    wanted <- IF pc \in {"idle", "score", "decode"} THEN {} ELSE topk

PromiseKept == Promise!Spec
=============================================================================
