------------------------------ MODULE MtpUnion ------------------------------
(***************************************************************************)
(* What fused_li_manage_mtp does with one request once the top Ks of its   *)
(* routes are published: MtpMissUnion::ProcessBatch of                     *)
(* fused_li_manage_mtp_union.h.                                            *)
(*                                                                         *)
(* The misses of all routes are merged into one ascending list, and for    *)
(* each of them the slot of a cached token is looked for that no route has *)
(* selected.  The row itself is left to the caller, who binds miss i to    *)
(* slot i.                                                                 *)
(*                                                                         *)
(* A candidate stands for its token: the slot packed with it was read from *)
(* the same row a moment before, and nobody writes the row.                *)
(***************************************************************************)
EXTENDS Integers, FiniteSets, SequencesExt, FiniteSetsExt, Functions

CONSTANTS
  Actual,        \* tokens of the request (candidatesGm)
  NumRoutes,     \* ROUTES (4)
  K,             \* TOPK (2048)
  Chunk,         \* EVICT_CHUNK (512)
  Capacity,      \* EVICT_CAPACITY (2048)
  BatchChunks,   \* chunks the fast path merges at a time (4)
  Rows,          \* the rows of cache_slots_pool considered
  Profiles       \* the scores considered, of each route and token

None == -1
Tokens == 0 .. Actual - 1
Routes == 1 .. NumRoutes

\* A row binds some tokens to slots 0 .. n - 1, one each.
Cached(r) == {t \in Tokens : r[t] >= 0}
IsSlotPermutation(r) ==
  {r[t] : t \in Cached(r)} = 0 .. Cardinality(Cached(r)) - 1

ASSUME MtpUnionAssumption ==
  /\ NumRoutes \in Nat \ {0} /\ Chunk \in Nat \ {0} /\ BatchChunks \in Nat \ {0}
  /\ K \in Nat \ {0} /\ Actual \in Nat /\ K <= Actual
  /\ Capacity \in Nat /\ Capacity % Chunk = 0
  /\ \A r \in Rows : r \in [Tokens -> Int] /\ IsSlotPermutation(r)
  /\ \A p \in Profiles : p \in [Routes -> [Tokens -> Nat]]

VARIABLES
  row,        \* the request's row of cache_slots_pool
  score,      \* scoreScratchGm
  topk,       \* topk[r]: the K tokens published for route r
  pc,         \* where ProcessBatch is
  missSrc,    \* outGm, with its count
  start,      \* startChunk
  scan,       \* chunks scanned
  acc,        \* the candidates in accumulator
  found,      \* what FindEvictCandidates returned
  missDst     \* evictSlotsGm

vars == <<row, score, topk, pc, missSrc, start, scan, acc, found, missDst>>
input == <<row, score, topk>>

Greatest(S) == CHOOSE x \in S : \A y \in S : y <= x
Least(a, b) == IF a <= b THEN a ELSE b
CeilDiv(a, b) == (a + b - 1) \div b

\* thresholdScratchGm holds the K-th best score of each route.
Threshold(r) == -Greatest({-score[r][t] : t \in topk[r]})

IsTopK(r, S) ==
  Cardinality(S) = K /\ \A s \in S, t \in Tokens \ S : score[r][s] >= score[r][t]

Init ==
  /\ row \in Rows /\ score \in Profiles
  /\ topk \in [Routes -> kSubset(K, Tokens)] /\ \A r \in Routes : IsTopK(r, topk[r])
  /\ pc = "union" /\ missSrc = <<>> /\ missDst = <<>>
  /\ start = 0 /\ scan = 0 /\ acc = {} /\ found = FALSE

-----------------------------------------------------------------------------
(* The union of the misses.                                                *)

Ascending(S) ==
  [i \in 1 .. Cardinality(S) |-> CHOOSE x \in S : Cardinality({y \in S : y < x}) = i - 1]

\* SortTopkBySlotIndex: misses first, then hits, ids ascending.
Pairs(r) ==
  Ascending({t \in topk[r] : row[t] < 0}) \o Ascending({t \in topk[r] : row[t] >= 0})

\* The length of the miss prefix, by binary search between low and high.
MissPrefix(pairs, from, to) ==
  LET search[range \in (0 .. K) \X (0 .. K)] ==
        LET low == range[1]
            high == range[2]
            middle == (low + high) \div 2
        IN  IF low >= high THEN low
            ELSE IF row[pairs[middle + 1]] < 0 THEN search[<<middle + 1, high>>]
            ELSE search[<<low, middle>>]
  IN  search[<<from, to>>]

MissesLastOut(r) ==    \* mutant: the search leaves out the last pair
  SubSeq(Pairs(r), 1, MissPrefix(Pairs(r), 0, K - 1))
Misses(r) == SubSeq(Pairs(r), 1, MissPrefix(Pairs(r), 0, K))

\* MrgSort of the prefixes: ascending, equal ids next to each other.
MergedMisses ==
  LET missed == [r \in Routes |-> Range(Misses(r))]
      upTo(x) == Cardinality({p \in Routes \X Tokens : p[2] \in missed[p[1]] /\ p[2] <= x})
  IN  [i \in 1 .. upTo(Actual) |-> CHOOSE x \in Tokens : upTo(x - 1) < i /\ i <= upTo(x)]

\* One pass that drops what equals its predecessor.
DistinctNot(s) == s    \* mutant: an id missed by two routes is listed twice
Distinct(s) ==
  LET kept == Ascending({i \in DOMAIN s : i = 1 \/ s[i] # s[i - 1]})
  IN  [j \in DOMAIN kept |-> s[kept[j]]]

count == Cardinality(DOMAIN missSrc)

BuildUnion ==
  /\ pc = "union"
  /\ \E merged \in {MergedMisses} :
        /\ missSrc' = Distinct(merged)
        /\ pc' = IF merged = <<>> THEN "done" ELSE "find"
  /\ UNCHANGED <<input, start, scan, acc, found, missDst>>

-----------------------------------------------------------------------------
(* FindEvictCandidates.                                                    *)

Chunks == CeilDiv(Actual, Chunk)
CandidateCap == CeilDiv(count, Chunk) * Chunk
ChunkTokens(n) == {t \in Tokens : t \div Chunk = n}

\* The start chunk is a hash of the length and the row.
BeginFind ==
  /\ pc = "find"
  /\ IF count > Capacity
       THEN pc' = "write" /\ UNCHANGED start
       ELSE pc' = "scan" /\ start' \in 0 .. Chunks - 1
  /\ UNCHANGED <<input, missSrc, scan, acc, found, missDst>>

\* margin = max_r(score_r - threshold_r): below every threshold when negative.
Margin(t) == Greatest({score[r][t] - Threshold(r) : r \in Routes})
EligibleAtThreshold(t) ==    \* mutant: a tie with a threshold counts as colder
  row[t] >= 0 /\ Margin(t) <= 0
Eligible(t) == row[t] >= 0 /\ Margin(t) < 0

\* The vector filter may let tokens pass that are not eligible; such a false
\* positive may have any key, the highest in the worst case.
Colder(t, u) ==
  \/ ~Eligible(t)
  \/ Eligible(t) /\ Eligible(u) /\ Margin(t) <= Margin(u)

\* CompactValidCandidates, on a chunk before it is merged and on the accumulator.
CompactValidCandidates(S) == {t \in S : Eligible(t)}
CompactLater(S) == S    \* mutant: false positives compete for the accumulator
CompactChunk(S) == CompactValidCandidates(S)

\* The accumulator keeps the coldest of S; between equals it is arbitrary.
KeepAny(S, cap) ==    \* mutant: whatever comes first is kept
  kSubset(Least(cap, Cardinality(S)), S)
KeepColdest(S, cap) ==
  {A \in kSubset(Least(cap, Cardinality(S)), S) :
     \A t \in A, u \in S \ A : Colder(t, u)}

\* The chunks of the next step: a batch on the fast path, else one.
BatchUnclamped ==    \* mutant: a batch is not cut off at the last chunk
  IF CandidateCap = Chunk THEN BatchChunks ELSE 1
BatchShort ==    \* mutant: a batch ends before the last chunk
  IF CandidateCap = Chunk THEN Least(BatchChunks, Chunks - scan - 1) ELSE 1
Batch ==
  IF CandidateCap = Chunk THEN Least(BatchChunks, Chunks - scan) ELSE 1

BatchTokens == UNION {ChunkTokens((start + scan + i) % Chunks) : i \in 0 .. Batch - 1}

ScanBatch ==
  /\ pc = "scan"
  /\ \E noise \in SUBSET {t \in BatchTokens : ~Eligible(t)} :
     \E kept \in KeepColdest(acc \cup CompactChunk({t \in BatchTokens : Eligible(t)} \cup noise),
                             CandidateCap) :
       acc' = CompactValidCandidates(kept)
  /\ scan' = scan + Batch
  /\ found' = (Cardinality(acc') >= count)
  /\ pc' = IF found' \/ scan' >= Chunks THEN "write" ELSE "scan"
  /\ UNCHANGED <<input, missSrc, start, missDst>>

\* WriteEvictSlots: the first candidates in the order of their keys, or none.
WriteEvictSlots ==
  /\ pc = "write" /\ pc' = "done"
  /\ IF found
       THEN \E victims \in Injection(1 .. count, acc) :
              /\ \A i \in 1 .. count, t \in acc :
                   t \notin {victims[j] : j \in 1 .. i} => Colder(victims[i], t)
              /\ missDst' = [i \in 1 .. count |-> row[victims[i]]]
       ELSE missDst' = [i \in 1 .. count |-> None]
  /\ UNCHANGED <<input, missSrc, start, scan, acc, found>>

Returned == pc = "done" /\ UNCHANGED vars

Next == BuildUnion \/ BeginFind \/ ScanBatch \/ WriteEvictSlots \/ Returned

Spec == Init /\ [][Next]_vars
FairSpec == Spec /\ WF_vars(Next)    \* a vector core keeps executing

-----------------------------------------------------------------------------
(* Properties.                                                             *)

TypeOK ==
  /\ pc \in {"union", "find", "scan", "write", "done"}
  /\ missSrc \in Seq(Tokens)
  /\ start \in 0 .. Chunks - 1 /\ scan \in 0 .. Chunks
  /\ acc \subseteq Tokens /\ Cardinality(acc) <= Capacity
  /\ found \in BOOLEAN
  /\ missDst \in Seq({None} \cup 0 .. Cardinality(Cached(row)) - 1)

Selected == UNION {topk[r] : r \in Routes}

\* The list of misses has every token that some route selected and the cache
\* does not hold, once and in ascending order, and nothing else.
UnionExact ==
  pc # "union" => missSrc = Ascending({t \in Selected : row[t] < 0})

\* The row when the caller binds every miss to the slot listed with it.
Evicted == {t \in Cached(row) : \E i \in DOMAIN missDst : missDst[i] = row[t]}
Rebound ==
  [t \in Tokens |->
     IF \E i \in 1 .. count : missSrc[i] = t
       THEN missDst[CHOOSE i \in 1 .. count : missSrc[i] = t]
     ELSE IF t \in Evicted THEN None
     ELSE row[t]]

\* The two lists fit together: once the caller has applied them, all tokens
\* that any route selected are cached, and the row is a permutation of the same
\* slots as before.
Applicable ==
  pc = "done" /\ (found \/ count = 0) =>
    /\ IsSlotPermutation(Rebound)
    /\ Cardinality(Cached(Rebound)) = Cardinality(Cached(row))
    /\ Selected \subseteq Cached(Rebound)

\* Slots are offered for all misses or for none, and for none only when there
\* are too many misses or too few cached tokens below all thresholds.
AllOrNothing ==
  pc = "done" =>
    LET enough == Cardinality({t \in Tokens : Eligible(t)}) >= count
    IN  /\ found \/ count = 0 <=> count = 0 \/ (count <= Capacity /\ enough)
        /\ \A i \in 1 .. count : (missDst[i] # None) = found

\* No token of the chunks scanned is colder than one given up, although chunks
\* are sorted apart and merged into an accumulator of fixed size.
Scanned == UNION {ChunkTokens((start + i) % Chunks) : i \in 0 .. scan - 1}
ColdestScannedGo ==
  pc = "done" /\ found =>
    \A v \in Evicted, u \in Scanned \ Evicted :
      row[u] >= 0 /\ u \notin Selected => Margin(v) <= Margin(u)

\* Every request is finished, whatever its chunks hold.
Finishes == <>(pc = "done")

\* What check_evict_slots asserts: slots are offered whenever enough cached
\* tokens are in no route's top K.
ServedWhenUnselected ==
  pc = "done" /\ count <= Capacity
    /\ Cardinality(Cached(row) \ Selected) >= count =>
      \A i \in 1 .. count : missDst[i] # None
=============================================================================
