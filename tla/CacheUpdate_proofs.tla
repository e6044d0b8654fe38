------------------------- MODULE CacheUpdate_proofs -------------------------
(***************************************************************************)
(* Proofs about CacheUpdate for every capacity, budget, chunk size and     *)
(* sequence length, under the field assumption of CacheUpdateInv: the row  *)
(* stays a permutation; what is published is right; it is a best K; the    *)
(* handler implements CachePromise; and cold tokens go first.              *)
(***************************************************************************)
EXTENDS CacheUpdateInv, FiniteSetTheorems, TLAPS

-----------------------------------------------------------------------------
(* Arithmetic of the codecs and of the chunks.                             *)

\* A packed field fits its bits.
LEMMA PackRange == \A v \in Int : Pack(v) \in 0 .. SlotField - 1
  BY SizeAssumption DEF Pack

\* A slot survives packing.
LEMMA PackSlot == \A s \in Slots : Pack(s) = s /\ s # InvalidSlot
<1> SUFFICES ASSUME NEW s \in Slots PROVE Pack(s) = s /\ s # InvalidSlot
  OBVIOUS
<1>1. s \in 0 .. SlotField - 2
  BY SizeAssumption, FieldAssumption DEF Slots
<1> QED
  BY <1>1, SizeAssumption DEF Pack, InvalidSlot

\* A sequence that is not empty has a chunk.
LEMMA ChunkCountPositive == \A n \in Nat \ {0} : ChunkCount(n) \in Nat \ {0}
<1> SUFFICES ASSUME NEW n \in Nat \ {0} PROVE ChunkCount(n) \in Nat \ {0}
  OBVIOUS
<1>1. n + ChunkSize - 1 \in Nat /\ n + ChunkSize - 1 >= ChunkSize
  BY SizeAssumption
<1>2. \A a \in Nat, b \in Nat \ {0} : a >= b => a \div b \in Nat \ {0}
  OBVIOUS
<1> QED
  BY <1>1, <1>2, SizeAssumption DEF ChunkCount

\* A call that is accepted has tokens, all of them within the row.
LEMMA LenFacts ==
  ASSUME NEW n \in Lens, Accepts(n)
  PROVE  /\ n \in Nat \ {0} /\ n <= Capacity /\ C <= n /\ K <= C
         /\ ChunkCount(n) \in Nat \ {0}
         /\ 0 .. n - 1 \subseteq Tokens
<1>1. n \in Nat \ {0} /\ n <= Capacity /\ C <= n /\ K <= C
  BY SizeAssumption, InputAssumption DEF Accepts
<1> QED
  BY <1>1, ChunkCountPositive, SizeAssumption DEF Tokens

-----------------------------------------------------------------------------
(* One replacement keeps a row that is a permutation a permutation.        *)

Permutes(r, n) ==
  /\ \A s \in Slots : \E t \in 0 .. n - 1 : r[t] = s
  /\ \A t, u \in Tokens : r[t] = r[u] /\ r[t] >= 0 => t = u

\* Giving the slot of a bound token to an unbound one leaves a permutation.
LEMMA ReplacementPermutes ==
  ASSUME NEW n \in Nat, 0 .. n - 1 \subseteq Tokens,
         NEW r \in [Tokens -> Slots \cup Unbound], Permutes(r, n),
         NEW victim \in 0 .. n - 1, NEW q \in 0 .. n - 1, NEW slot \in Slots,
         r[victim] = slot, r[q] < 0
  PROVE  LET new == [r EXCEPT ![victim] = None, ![q] = slot]
         IN  new \in [Tokens -> Slots \cup Unbound] /\ Permutes(new, n)
<1> DEFINE new == [r EXCEPT ![victim] = None, ![q] = slot]
<1>1. None \in Unbound /\ \A u \in Unbound : u \in Int /\ u < 0
  BY InputAssumption
<1>2. \A s \in Slots : s \in Int /\ s >= 0
  BY SizeAssumption DEF Slots
<1>3. victim # q /\ victim \in Tokens /\ q \in Tokens
  BY <1>2
<1>4. \A t \in Tokens : new[t] = IF t = q THEN slot ELSE IF t = victim THEN None ELSE r[t]
  BY <1>3
<1>5. new \in [Tokens -> Slots \cup Unbound]
  BY <1>1, <1>3
<1> HIDE DEF new
<1>6. ASSUME NEW s \in Slots PROVE \E t \in 0 .. n - 1 : new[t] = s
  <2>1. CASE s = slot
    BY <2>1, <1>3, <1>4
  <2>2. CASE s # slot
    <3>1. PICK t \in 0 .. n - 1 : r[t] = s
      BY DEF Permutes
    <3>2. t # victim /\ t # q /\ t \in Tokens
      BY <3>1, <2>2, <1>2
    <3> QED
      BY <3>1, <3>2, <1>4
  <2> QED
    BY <2>1, <2>2
<1>7. ASSUME NEW t \in Tokens, NEW u \in Tokens, new[t] = new[u], new[t] >= 0
      PROVE  t = u
  <2>1. t # victim /\ u # victim
    BY <1>3, <1>4, <1>7 DEF None
  <2>2. ASSUME NEW x \in Tokens, x # victim, x # q, new[x] = slot PROVE FALSE
    BY <2>2, <1>2, <1>3, <1>4 DEF Permutes
  <2> QED
    BY <2>1, <2>2, <1>3, <1>4, <1>7 DEF Permutes
<1> QED
  BY <1>5, <1>6, <1>7 DEF Permutes, new

-----------------------------------------------------------------------------
(* The invariant holds at first.                                           *)

\* No call has run yet, and the first row binds each slot once.
LEMMA InitInv == Init => RowNeverStale
<1> SUFFICES ASSUME Init PROVE RowNeverStale
  OBVIOUS
<1>1. len \in Lens /\ Accepts(len)
  BY DEF Init
<1>2. /\ len \in Nat \ {0} /\ len <= Capacity /\ ChunkCount(len) \in Nat \ {0}
      /\ 0 .. len - 1 \subseteq Tokens
  BY <1>1, LenFacts
<1>3. score \in [0 .. len - 1 -> Scores]
  <2>1. (CHOOSE s \in Scores : TRUE) \in Scores
    BY InputAssumption
  <2> QED
    BY <2>1 DEF Init
<1>4. TypeOK
  <2>1. 1 .. K \subseteq Int /\ None \in Tokens \cup {None} /\ None \in Int
    BY DEF None
  <2>2. index \in [1 .. K -> Tokens \cup {None}] /\ slots \in [1 .. K -> Int]
    BY <2>1 DEF Init
  <2>3. plan \in [DOMAIN plan -> [tok : Tokens, slot : 0 .. SlotField - 1]]
    BY DEF Init
  <2>4. /\ missCount \in 0 .. K /\ missIdx \in 1 .. K + 1 /\ start \in Nat
        /\ scanOffset \in 0 .. ChunkCount(len) /\ stop \in 0 .. ChunkCount(len)
        /\ candCursor \in Nat /\ fallback \in 0 .. len /\ chunk \in 0 .. ChunkCount(len)
        /\ threshold \in Int
    BY <1>2, SizeAssumption DEF Init
  <2> QED
    BY <1>1, <1>3, <2>2, <2>3, <2>4 DEF Init, TypeOK
<1>5. ProgressOK /\ CachePermutation /\ SelectionOK /\ CandidatesOK /\ PlanOK /\ FastOK
  BY DEF Init, ProgressOK, CachePermutation, SelectionOK, CandidatesOK, PlanOK, FastOK
<1> QED
  BY <1>4, <1>5 DEF RowNeverStale

-----------------------------------------------------------------------------
(* Every step preserves it.                                                *)

\* What the type invariant says of the current call.
LEMMA CallFacts ==
  TypeOK => /\ len \in Lens /\ Accepts(len)
            /\ len \in Nat \ {0} /\ len <= Capacity /\ C <= len
            /\ ChunkCount(len) \in Nat \ {0} /\ 0 .. len - 1 \subseteq Tokens
  BY LenFacts DEF TypeOK

\* While misses are served, the current one is one of them.
LEMMA MissFacts ==
  ASSUME TypeOK, SelectionOK, pc \in {"fast", "slow"}
  PROVE  /\ missIdx \in Int /\ missIdx \in Nat /\ missIdx > 0 /\ missIdx <= missCount
         /\ missCount \in Nat /\ missCount <= K /\ K \in Nat
         /\ missIdx \in 1 .. missCount /\ missIdx \in 1 .. K
         /\ missIdx \in missIdx .. missCount
<1>1. missCount \in 0 .. K /\ missIdx \in 1 .. K + 1 /\ K \in Nat
  BY SizeAssumption DEF TypeOK
<1>2. missIdx <= missCount
  BY DEF SelectionOK
<1> QED
  BY <1>1, <1>2

\* A new call forgets what the last one remembered and keeps the row.
LEMMA CallStep ==
  ASSUME RowNeverStale, NEW n \in Lens, Call(n)
  PROVE  RowNeverStale'
<1> USE DEF Call, scanVars, updateVars
<1>1. TypeOK /\ ProgressOK /\ CachePermutation
  BY DEF RowNeverStale
<1>2. /\ n \in Nat \ {0} /\ n <= Capacity /\ ChunkCount(n) \in Nat \ {0}
      /\ len \in Nat /\ 0 .. len - 1 \subseteq 0 .. n - 1
  BY <1>1, LenFacts, CallFacts
<1>3. TypeOK'
  <2>1. /\ chunk' \in 0 .. ChunkCount(n) /\ scanOffset' \in 0 .. ChunkCount(n)
        /\ stop' \in 0 .. ChunkCount(n) /\ fallback' \in 0 .. n
        /\ cands' \subseteq 0 .. n - 1 /\ topk' \subseteq 0 .. n - 1
    BY <1>1, <1>2 DEF TypeOK, ProgressOK
  <2> HIDE DEF scanVars, updateVars
  <2> QED
    BY <1>1, <2>1 DEF TypeOK, scanVars, updateVars
<1>4. ProgressOK'
  BY <1>2 DEF ProgressOK
<1>5. CachePermutation'
  BY <1>1, <1>2 DEF CachePermutation
<1>6. SelectionOK' /\ CandidatesOK' /\ PlanOK' /\ FastOK'
  BY DEF SelectionOK, CandidatesOK, PlanOK, FastOK
<1> QED
  BY <1>3, <1>4, <1>5, <1>6 DEF RowNeverStale

\* A skipped row is left as it is.
LEMMA SkipCallStep ==
  ASSUME RowNeverStale, NEW n \in Lens, SkipCall(n)
  PROVE  RowNeverStale'
<1>1. /\ pc = "idle" /\ missCount' = 0 /\ before' = row
      /\ UNCHANGED <<row, len, score, pc, chunk, topk, threshold, index, slots>>
      /\ UNCHANGED <<start, scanOffset, stop, cands, plan, candCursor, fallback, missIdx>>
  BY DEF SkipCall, scanVars, updateVars
<1>t. TypeOK
  BY DEF RowNeverStale
<1>2. TypeOK'
  <2>1. missCount' \in 0 .. K
    BY <1>1, SizeAssumption
  <2> QED
    BY <1>1, <1>t, <2>1 DEF TypeOK
<1> QED
  BY <1>1, <1>2
     DEF RowNeverStale, ProgressOK, CachePermutation, SelectionOK, CandidatesOK, PlanOK, FastOK

\* Scoring a chunk changes the best tokens and nothing the row depends on.
LEMMA ScoreChunkStep ==
  ASSUME RowNeverStale, ScoreChunk
  PROVE  RowNeverStale'
<1>1. /\ pc = "score" /\ chunk' = chunk + 1
      /\ pc' = IF chunk + 1 = ChunkCount(len) THEN "decode" ELSE "score"
      /\ topk' \in TopSets(topk \cup Pending, K) \/ topk' = topk
      /\ UNCHANGED <<row, len, score, threshold, index, slots, missCount, before>>
      /\ UNCHANGED <<start, scanOffset, stop, cands, plan, candCursor, fallback, missIdx>>
  BY DEF ScoreChunk, scanVars, updateVars
<1>2. TypeOK /\ ProgressOK
  BY DEF RowNeverStale
<1>3. topk' \subseteq 0 .. len - 1
  <2>1. Pending \subseteq 0 .. len - 1 /\ topk \subseteq 0 .. len - 1
    BY <1>2 DEF Pending, ChunkTokens, TypeOK
  <2> QED
    BY <1>1, <2>1 DEF TopSets
<1>4. chunk' \in 0 .. ChunkCount(len) /\ (pc' = "score" => chunk' < ChunkCount(len))
  <2>1. chunk \in Nat /\ ChunkCount(len) \in Nat /\ chunk < ChunkCount(len)
    BY <1>1, <1>2, CallFacts DEF TypeOK, ProgressOK
  <2>2. chunk' = chunk + 1 /\ (pc' = "score" => chunk + 1 # ChunkCount(len))
    BY <1>1
  <2> QED
    BY <2>1, <2>2
<1>5. TypeOK'
  BY <1>1, <1>2, <1>3, <1>4 DEF TypeOK
<1>6. ProgressOK'
  BY <1>1, <1>4 DEF ProgressOK
<1> QED
  BY <1>1, <1>5, <1>6
     DEF RowNeverStale, CachePermutation, SelectionOK, CandidatesOK, PlanOK, FastOK

\* Entries of a row are integers, the bound ones not negative.
LEMMA RowValues ==
  /\ \A s \in Slots : s \in Int /\ s >= 0
  /\ \A u \in Unbound : u \in Int /\ u < 0
  /\ \A x \in Slots \cup Unbound : x \in Int
<1>1. \A s \in Slots : s \in Int /\ s >= 0
  BY SizeAssumption DEF Slots
<1>2. \A u \in Unbound : u \in Int /\ u < 0
  BY InputAssumption
<1> QED
  BY <1>1, <1>2

\* A token that decodes to no slot is not bound.
LEMMA MissIsUnbound ==
  ASSUME NEW t, row[t] \in Slots \cup Unbound
  PROVE  HitSlot(t) \in Int /\ (HitSlot(t) = None => row[t] < 0)
<1>1. row[t] \in Int
  BY RowValues
<1>2. HitSlot(t) \in Int
  <2>1. Normalised(row[t]) \in Int
    BY <1>1 DEF Normalised, None
  <2> QED
    BY <2>1, PackRange, SizeAssumption DEF HitSlot, Unpack, None
<1>3. CASE row[t] \in Slots
  <2>1. row[t] >= 0 /\ Normalised(row[t]) = row[t]
    BY <1>3, SizeAssumption DEF Slots, Normalised, None
  <2> QED
    BY <1>2, <1>3, <2>1, PackSlot DEF HitSlot, Unpack, None
<1>4. CASE row[t] \in Unbound
  BY <1>2, <1>4, InputAssumption
<1> QED
  BY <1>3, <1>4

\* The misses are unbound when they are decoded.
LEMMA DecodeStep ==
  ASSUME RowNeverStale, Decode
  PROVE  RowNeverStale'
<1>1. /\ pc = "decode"
      /\ \E t \in topk : threshold' = score[t] /\ \A u \in topk : score[t] <= score[u]
      /\ index' \in MissFirstOrders
      /\ slots' = [i \in 1 .. K |-> HitSlot(index'[i])]
      /\ missCount' \in 0 .. K /\ IsMissPrefix(slots', missCount')
      /\ pc' = IF missCount' = 0 THEN "publish" ELSE "scan"
      /\ start' \in IF missCount' = 0 THEN {start} ELSE 0 .. ChunkCount(len) - 1
      /\ scanOffset' = 0 /\ stop' = ChunkCount(len) /\ cands' = {}
      /\ UNCHANGED <<row, len, score, chunk, topk, before>>
      /\ UNCHANGED <<plan, candCursor, fallback, missIdx>>
  BY DEF Decode, updateVars
<1>t. TypeOK /\ CachePermutation
  BY DEF RowNeverStale
<1>2. \A i \in 1 .. K : index'[i] \in topk
  BY <1>1 DEF MissFirstOrders
<1>3. index' \in [1 .. K -> Tokens \cup {None}]
  <2>1. topk \subseteq Tokens
    BY <1>t, CallFacts DEF TypeOK
  <2> QED
    BY <1>1, <2>1 DEF MissFirstOrders
<1>4. \A i \in 1 .. K : row[index'[i]] \in Slots \cup Unbound
  BY <1>2, <1>t, CallFacts DEF TypeOK
<1>5. slots' \in [1 .. K -> Int]
  BY <1>1, <1>4, MissIsUnbound
<1>6. threshold' \in Int
  BY <1>1, <1>t, InputAssumption DEF TypeOK
<1>7. TypeOK'
  <2>1. start' \in Nat /\ 0 \in 0 .. ChunkCount(len) /\ ChunkCount(len) \in 0 .. ChunkCount(len)
    <3>1. ChunkCount(len) \in Nat \ {0}
      BY <1>t, CallFacts
    <3>2. start \in Nat
      BY <1>t DEF TypeOK
    <3> QED
      BY <1>1, <3>1, <3>2
  <2> QED
    BY <1>1, <1>t, <1>3, <1>5, <1>6, <2>1 DEF TypeOK
<1>8. SelectionOK'
  <2> SUFFICES ASSUME missCount' # 0
      PROVE  /\ Injective(index') /\ \A i \in 1 .. K : index'[i] \in topk
             /\ \A t \in topk : threshold' <= score[t]
             /\ missCount' > 0
             /\ \A j \in 1 .. missCount' : row[index'[j]] < 0
    BY <1>1 DEF SelectionOK, MissesFrom, Injective
  <2>1. Injective(index')
    BY <1>1 DEF MissFirstOrders
  <2>2. ASSUME NEW j \in 1 .. missCount' PROVE row[index'[j]] < 0
    <3>1. j \in 1 .. K /\ slots'[j] = None
      BY <1>1, SizeAssumption DEF IsMissPrefix
    <3> QED
      BY <3>1, <1>1, <1>4, MissIsUnbound
  <2> QED
    BY <1>1, <1>2, <2>1, <2>2
<1> QED
  BY <1>1, <1>t, <1>7, <1>8
     DEF RowNeverStale, ProgressOK, CachePermutation, CandidatesOK, PlanOK, FastOK

\* Only tokens strictly below the threshold become candidates.
LEMMA ScanStep ==
  ASSUME RowNeverStale, Scan
  PROVE  RowNeverStale'
<1> DEFINE num == ChunkCount(len)
           step == IF CandidateCap = ChunkSize THEN BatchChunks ELSE 1
           next == scanOffset + Least(step, stop - scanOffset)
           found == UNION {Eligible(ScanChunk(o)) : o \in scanOffset .. next - 1}
<1>1. /\ pc = "scan" /\ cands' \in ColdSets(cands \cup found, CandidateCap)
      /\ scanOffset' = next
      /\ stop' = IF stop = num /\ EnoughCold(cands')
                   THEN next + Least(ExtraChunks, num - next) ELSE stop
      /\ pc' \in {"scan", "choose"}
      /\ UNCHANGED <<row, index, slots, missCount, start>>
      /\ UNCHANGED <<len, score, chunk, topk, threshold, before>>
      /\ UNCHANGED <<plan, candCursor, fallback, missIdx>>
  BY DEF Scan, callVars, updateVars
<1>t. TypeOK /\ CachePermutation /\ SelectionOK /\ CandidatesOK
  BY DEF RowNeverStale
<1>2. found \subseteq {t \in 0 .. len - 1 : score[t] < threshold}
  BY DEF Eligible, ChunkTokens
<1>3. cands' \subseteq {t \in 0 .. len - 1 : score[t] < threshold}
  <2>1. cands \subseteq {t \in 0 .. len - 1 : score[t] < threshold}
    BY <1>1, <1>t DEF TypeOK, CandidatesOK
  <2> QED
    BY <1>1, <1>2, <2>1 DEF ColdSets
<1> HIDE DEF found
<1>4. next \in 0 .. num /\ stop' \in 0 .. num
  <2>1. num \in Nat /\ scanOffset \in 0 .. num /\ stop \in 0 .. num /\ step \in Nat
    BY <1>t, CallFacts, SizeAssumption DEF TypeOK
  <2> HIDE DEF num, step
  <2>2. next \in 0 .. num
    BY <2>1 DEF Least
  <2> HIDE DEF next
  <2> QED
    BY <1>1, <2>1, <2>2, SizeAssumption DEF Least
<1>5. TypeOK'
  BY <1>1, <1>t, <1>3, <1>4 DEF TypeOK
<1>6. SelectionOK'
  BY <1>1, <1>t DEF SelectionOK, MissesFrom, Injective
<1>7. CandidatesOK'
  BY <1>1, <1>3 DEF CandidatesOK
<1> QED
  BY <1>1, <1>t, <1>5, <1>6, <1>7
     DEF RowNeverStale, ProgressOK, CachePermutation, PlanOK, FastOK

\* The candidates can be counted, and numbered from 1.
LEMMA CandidateCount ==
  TypeOK => /\ Cardinality(cands) \in Nat
            /\ Cardinality(1 .. Cardinality(cands)) = Cardinality(cands)
<1> SUFFICES ASSUME TypeOK
             PROVE  /\ Cardinality(cands) \in Nat
                    /\ Cardinality(1 .. Cardinality(cands)) = Cardinality(cands)
  OBVIOUS
<1>1. IsFiniteSet(0 .. len - 1)
  BY CallFacts, FS_Interval
<1>2. IsFiniteSet(cands)
  BY <1>1, FS_Subset DEF TypeOK
<1>3. Cardinality(cands) \in Nat
  BY <1>2, FS_CardinalityType
<1> QED
  BY <1>3, FS_Interval

\* An entry whose field names one of the slots is bound to that slot.
LEMMA FieldIsSlot ==
  ASSUME NEW t, row[t] \in Slots \cup Unbound
  PROVE  /\ EvictField(t) \in 0 .. SlotField - 1
         /\ EvictField(t) < C => row[t] = EvictField(t)
<1>1. row[t] \in Int
  BY RowValues
<1>2. EvictField(t) \in 0 .. SlotField - 1
  BY <1>1, PackRange DEF EvictField
<1>3. CASE row[t] \in Slots
  BY <1>2, <1>3, PackSlot DEF EvictField
<1>4. CASE row[t] \in Unbound
  BY <1>2, <1>4, FieldAssumption, SizeAssumption DEF EvictField
<1> QED
  BY <1>3, <1>4

\* The fields are packed from the row as it is, on either path.
LEMMA ChoosePathStep ==
  ASSUME RowNeverStale, ChoosePath
  PROVE  RowNeverStale'
<1>t. TypeOK /\ CachePermutation /\ SelectionOK /\ CandidatesOK
  BY DEF RowNeverStale
<1>1. PICK p \in ColdOrders(cands) :
         plan' = [i \in DOMAIN p |-> [tok |-> p[i], slot |-> EvictField(p[i])]]
  BY DEF ChoosePath
<1>2. /\ pc = "choose" /\ pc' \in {"fast", "slow"}
      /\ candCursor' = 1 /\ fallback' = 0 /\ missIdx' = 1
      /\ UNCHANGED <<row, index, missCount>>
      /\ UNCHANGED <<start, scanOffset, stop, cands>>
      /\ UNCHANGED <<len, score, chunk, topk, threshold, before>>
  BY DEF ChoosePath, scanVars, callVars
<1> DEFINE valid == \A i \in 1 .. missCount : Usable(plan'[i])
<1>3. \/ /\ EnoughCold(cands)
         /\ slots' = [i \in 1 .. K |->
                         IF i > missCount THEN slots[i]
                         ELSE IF valid THEN plan'[i].slot ELSE None]
         /\ pc' = IF valid THEN "fast" ELSE "slow"
      \/ slots' = slots /\ pc' = "slow"
  BY DEF ChoosePath, HasFullPrefix
<1> HIDE DEF valid
<1>c. /\ Cardinality(cands) \in Nat /\ missCount \in 0 .. K /\ missCount \in Nat
      /\ 0 .. len - 1 \subseteq Tokens
  <2>1. Cardinality(cands) \in Nat
    BY <1>t, CandidateCount
  <2>2. missCount \in 0 .. K /\ missCount \in Nat
    BY <1>t, SizeAssumption DEF TypeOK
  <2> QED
    BY <1>t, <2>1, <2>2, CallFacts
<1>4. /\ DOMAIN plan' = 1 .. Cardinality(cands)
      /\ \A i \in DOMAIN plan' :
            /\ p[i] \in cands /\ p[i] \in 0 .. len - 1 /\ p[i] \in Tokens
            /\ row[p[i]] \in Slots \cup Unbound
            /\ plan'[i].tok = p[i] /\ plan'[i].slot = EvictField(p[i])
            /\ plan'[i] \in [tok : Tokens, slot : 0 .. SlotField - 1]
  <2>1. p \in [1 .. Cardinality(cands) -> cands]
    BY <1>1 DEF ColdOrders
  <2>2. DOMAIN plan' = 1 .. Cardinality(cands)
    BY <1>1, <2>1
  <2>3. ASSUME NEW i \in DOMAIN plan'
        PROVE  /\ p[i] \in cands /\ p[i] \in 0 .. len - 1 /\ p[i] \in Tokens
               /\ row[p[i]] \in Slots \cup Unbound
    BY <2>1, <2>2, <1>t, <1>c DEF TypeOK
  <2>4. ASSUME NEW i \in DOMAIN plan'
        PROVE  plan'[i] = [tok |-> p[i], slot |-> EvictField(p[i])]
    BY <1>1, <2>1, <2>2
  <2> QED
    BY <2>2, <2>3, <2>4, FieldIsSlot
<1>5. /\ slots' \in [1 .. K -> Int]
      /\ pc' = "fast" => /\ missCount <= Cardinality(cands)
                         /\ \A i \in 1 .. missCount : Usable(plan'[i]) /\ slots'[i] = plan'[i].slot
  <2>1. CASE slots' = slots /\ pc' = "slow"
    BY <2>1, <1>t DEF TypeOK
  <2>2. CASE ~(slots' = slots /\ pc' = "slow")
    <3>1. /\ missCount <= Cardinality(cands)
          /\ slots' = [i \in 1 .. K |->
                         IF i > missCount THEN slots[i]
                         ELSE IF valid THEN plan'[i].slot ELSE None]
          /\ pc' = IF valid THEN "fast" ELSE "slow"
      BY <1>3, <2>2, <1>c DEF EnoughCold
    <3>2. ASSUME NEW i \in 1 .. K
          PROVE  (IF i > missCount THEN slots[i]
                  ELSE IF valid THEN plan'[i].slot ELSE None) \in Int
      <4>1. slots[i] \in Int /\ None \in Int
        BY <1>t DEF TypeOK, None
      <4>2. i <= missCount => plan'[i].slot \in Int
        BY <1>4, <1>c, <3>1, SizeAssumption
      <4> QED
        BY <4>1, <4>2, <1>c, SizeAssumption
    <3> QED
      BY <3>1, <3>2, <1>c, SizeAssumption DEF valid
  <2> QED
    BY <2>1, <2>2
<1>6. TypeOK'
  <2>1. plan' \in [DOMAIN plan' -> [tok : Tokens, slot : 0 .. SlotField - 1]]
    BY <1>1, <1>4
  <2>2. missIdx' \in 1 .. K + 1 /\ fallback' \in 0 .. len /\ candCursor' \in Nat
    BY <1>2, <1>t, CallFacts, SizeAssumption
  <2> QED
    BY <1>2, <1>5, <1>t, <2>1, <2>2 DEF TypeOK
<1>7. SelectionOK'
  BY <1>2, <1>t, <1>c DEF SelectionOK, MissesFrom, Injective
<1>8. PlanOK'
  <2>1. \A i, j \in DOMAIN plan' : plan'[i].tok = plan'[j].tok => i = j
    BY <1>1, <1>4 DEF ColdOrders, Injective
  <2>2. ASSUME NEW i \in DOMAIN plan' PROVE plan'[i].tok \notin topk
    <3>1. score[p[i]] < threshold /\ \A t \in topk : threshold <= score[t]
      BY <1>2, <1>4, <1>t DEF CandidatesOK, SelectionOK
    <3>2. threshold \in Int /\ score[p[i]] \in Int
      BY <1>4, <1>t, InputAssumption DEF TypeOK
    <3> QED
      BY <1>4, <3>1, <3>2
  <2>3. ASSUME NEW i \in DOMAIN plan', Usable(plan'[i])
        PROVE  row[plan'[i].tok] = plan'[i].slot
    BY <2>3, <1>4, FieldIsSlot DEF Usable
  <2> QED
    BY <1>2, <1>4, <2>1, <2>2, <2>3 DEF PlanOK, Usable
<1>9. FastOK'
  BY <1>2, <1>4, <1>5, <1>c DEF FastOK, Usable
<1> QED
  BY <1>2, <1>t, <1>6, <1>7, <1>8, <1>9
     DEF RowNeverStale, ProgressOK, CachePermutation, CandidatesOK

\* What serving one miss does, whichever way the victim was found: the row is
\* still a permutation, the misses that are left are still not bound, and
\* nothing but the victim and the miss has changed.
LEMMA ServeMiss ==
  ASSUME RowNeverStale, pc \in {"fast", "slow"},
         NEW victim \in 0 .. len - 1, NEW slot \in Slots, row[victim] = slot,
         Rebind(victim, slot), NextMiss,
         UNCHANGED <<len, index, missCount>>
  PROVE  /\ row' \in [Tokens -> Slots \cup Unbound]
         /\ CachePermutation'
         /\ missIdx' \in 1 .. K + 1
         /\ pc' = pc \/ pc' = "publish"
         /\ pc' = pc => missIdx' <= missCount /\ MissesFrom(missIdx)'
         /\ \A t \in Tokens : t # victim /\ t \notin topk => row'[t] = row[t]
<1> DEFINE q == index[missIdx]
<1>t. TypeOK /\ CachePermutation /\ SelectionOK
  BY DEF RowNeverStale
<1>1. /\ len \in Nat /\ 0 .. len - 1 \subseteq Tokens
      /\ missIdx \in Nat /\ missIdx > 0 /\ missCount \in Nat /\ missIdx <= missCount
      /\ missCount <= K
  <2>1. missIdx \in 1 .. K + 1 /\ missCount \in 0 .. K
    BY <1>t DEF TypeOK
  <2>2. missIdx <= missCount
    BY <1>t DEF SelectionOK
  <2>3. len \in Nat /\ 0 .. len - 1 \subseteq Tokens
    BY <1>t, CallFacts
  <2> QED
    BY <2>1, <2>2, <2>3, SizeAssumption
<1>2. /\ missIdx \in 1 .. K /\ q \in topk /\ q \in 0 .. len - 1 /\ row[q] < 0
      /\ Injective(index) /\ \A j \in missIdx .. missCount : row[index[j]] < 0
  <2>1. missIdx \in 1 .. K
    BY <1>1, SizeAssumption
  <2>2. /\ Injective(index) /\ \A i \in 1 .. K : index[i] \in topk
        /\ \A j \in missIdx .. missCount : row[index[j]] < 0
    BY <1>t DEF SelectionOK, MissesFrom
  <2>3. missIdx \in missIdx .. missCount
    BY <1>1
  <2>4. topk \subseteq 0 .. len - 1
    BY <1>t DEF TypeOK
  <2> QED
    BY <2>1, <2>2, <2>3, <2>4
<1>3. row' = [row EXCEPT ![victim] = None, ![q] = slot]
  BY DEF Rebind
<1> HIDE DEF q
<1>4. row \in [Tokens -> Slots \cup Unbound] /\ Permutes(row, len)
  BY <1>t DEF TypeOK, CachePermutation, Permutes
<1>5. row' \in [Tokens -> Slots \cup Unbound] /\ Permutes(row', len)
  BY <1>1, <1>2, <1>3, <1>4, ReplacementPermutes
<1>6. CachePermutation'
  BY <1>5 DEF CachePermutation, Permutes
<1>7. missIdx' = missIdx + 1 /\ pc' = IF missIdx = missCount THEN "publish" ELSE pc
  BY DEF NextMiss
<1>8. ASSUME NEW j \in missIdx + 1 .. missCount PROVE row'[index[j]] < 0
  <2>1. j \in 1 .. K /\ j # missIdx /\ j \in missIdx .. missCount
    BY <1>1, SizeAssumption
  <2>2. index[j] # q /\ index[j] \in Tokens /\ row[index[j]] < 0
    BY <2>1, <1>1, <1>2, <1>t DEF Injective, TypeOK, SelectionOK, q
  <2> QED
    BY <2>2, <1>3, <1>4 DEF None
<1>9. \A t \in Tokens : t # victim /\ t \notin topk => row'[t] = row[t]
  BY <1>2, <1>3, <1>4
<1> QED
  BY <1>1, <1>5, <1>6, <1>7, <1>8, <1>9, SizeAssumption DEF MissesFrom

\* What is left to show of a replacement once ServeMiss applies: the plan is
\* not stale for the candidates behind the cursor.
LEMMA ReplacementInv ==
  ASSUME RowNeverStale, pc \in {"fast", "slow"},
         row' \in [Tokens -> Slots \cup Unbound], CachePermutation',
         missIdx' \in 1 .. K + 1,
         pc' = pc \/ pc' = "publish",
         pc' = pc => missIdx' <= missCount /\ MissesFrom(missIdx)',
         UNCHANGED <<len, score, chunk, topk, threshold, before>>,
         UNCHANGED <<index, missCount, plan, start, scanOffset, stop, cands>>,
         slots' \in [1 .. K -> Int], pc = "fast" => slots' = slots,
         candCursor' \in Nat, fallback' \in 0 .. len,
         pc' = pc =>
           \A i \in DOMAIN plan :
             i >= Consumed' /\ Usable(plan[i]) => row'[plan[i].tok] = plan[i].slot
  PROVE  RowNeverStale'
<1>t. TypeOK /\ ProgressOK /\ SelectionOK /\ PlanOK /\ FastOK
  BY DEF RowNeverStale
<1>1. TypeOK'
  BY <1>t DEF TypeOK
<1>2. ProgressOK' /\ CandidatesOK'
  BY DEF ProgressOK, CandidatesOK
<1>3. SelectionOK'
  BY <1>t DEF SelectionOK, Injective
<1>4. PlanOK'
  BY <1>t DEF PlanOK, Usable
<1>5. FastOK'
  BY <1>t DEF FastOK, Usable
<1> QED
  BY <1>1, <1>2, <1>3, <1>4, <1>5 DEF RowNeverStale

\* A candidate that passes the checks is a victim ServeMiss accepts.
LEMMA CandidateIsVictim ==
  ASSUME TypeOK, NEW i \in DOMAIN plan, Usable(plan[i])
  PROVE  /\ plan[i].tok \in 0 .. len - 1 /\ plan[i].slot \in Slots
         /\ plan[i].slot \in Int
<1>1. plan[i] \in [tok : Tokens, slot : 0 .. SlotField - 1]
  BY DEF TypeOK
<1>2. plan[i].tok < len /\ plan[i].slot < C
  BY DEF Usable
<1> QED
  BY <1>1, <1>2, CallFacts, SizeAssumption DEF Tokens, Slots

\* The fast path exchanges one usable candidate for one miss.
LEMMA FastReplaceStep ==
  ASSUME RowNeverStale, FastReplace
  PROVE  RowNeverStale'
<1>1. /\ pc = "fast" /\ Rebind(plan[missIdx].tok, slots[missIdx]) /\ NextMiss
      /\ UNCHANGED <<index, slots, missCount, plan, candCursor, fallback>>
      /\ UNCHANGED <<start, scanOffset, stop, cands>>
      /\ UNCHANGED <<len, score, chunk, topk, threshold, before>>
  BY DEF FastReplace, scanVars, callVars
<1>t. TypeOK /\ SelectionOK /\ PlanOK /\ FastOK
  BY DEF RowNeverStale
<1>2. missIdx \in 1 .. missCount /\ missIdx \in Int
  BY <1>1, <1>t, MissFacts
<1>3. missIdx \in DOMAIN plan /\ Usable(plan[missIdx]) /\ slots[missIdx] = plan[missIdx].slot
  BY <1>1, <1>2, <1>t DEF FastOK
<1>4. /\ plan[missIdx].tok \in 0 .. len - 1 /\ slots[missIdx] \in Slots
      /\ row[plan[missIdx].tok] = slots[missIdx]
  BY <1>1, <1>2, <1>3, <1>t, CandidateIsVictim DEF PlanOK, Consumed
<1>5. /\ row' \in [Tokens -> Slots \cup Unbound]
      /\ CachePermutation'
      /\ missIdx' \in 1 .. K + 1
      /\ pc' = pc \/ pc' = "publish"
      /\ pc' = pc => missIdx' <= missCount /\ MissesFrom(missIdx)'
      /\ \A t \in Tokens : t # plan[missIdx].tok /\ t \notin topk => row'[t] = row[t]
  BY <1>1, <1>4, ServeMiss
<1>6. missIdx' = missIdx + 1
  BY <1>1 DEF NextMiss
<1>7. ASSUME pc' = pc, NEW i \in DOMAIN plan, i >= Consumed', Usable(plan[i])
      PROVE  row'[plan[i].tok] = plan[i].slot
  <2>1. i >= missIdx + 1 /\ i \in Int /\ i >= Consumed
    BY <1>1, <1>2, <1>6, <1>7, <1>t DEF Consumed, PlanOK
  <2>2. /\ plan[i].tok # plan[missIdx].tok /\ plan[i].tok \notin topk
        /\ row[plan[i].tok] = plan[i].slot
    BY <1>1, <1>2, <1>3, <1>7, <2>1, <1>t DEF PlanOK
  <2>3. plan[i].tok \in Tokens
    BY <1>t DEF TypeOK
  <2> QED
    BY <1>5, <2>2, <2>3
<1>8. slots' \in [1 .. K -> Int] /\ candCursor' \in Nat /\ fallback' \in 0 .. len
  BY <1>1, <1>t DEF TypeOK
<1> QED
  BY <1>1, <1>5, <1>7, <1>8, ReplacementInv

\* The checked candidate still holds the slot packed with it.
LEMMA ReplaceByCandidateStep ==
  ASSUME RowNeverStale, ReplaceByCandidate
  PROVE  RowNeverStale'
<1>1. PICK i \in DOMAIN plan :
         /\ NextCandidate(i)
         /\ Rebind(plan[i].tok, plan[i].slot)
         /\ slots' = [slots EXCEPT ![missIdx] = plan[i].slot]
         /\ candCursor' = i + 1
  BY DEF ReplaceByCandidate
<1>2. /\ pc = "slow" /\ NextMiss
      /\ UNCHANGED <<index, missCount, plan, fallback>>
      /\ UNCHANGED <<start, scanOffset, stop, cands>>
      /\ UNCHANGED <<len, score, chunk, topk, threshold, before>>
  BY DEF ReplaceByCandidate, scanVars, callVars
<1>t. TypeOK /\ SelectionOK /\ PlanOK
  BY DEF RowNeverStale
<1>3. i \in Nat /\ i >= candCursor /\ candCursor \in Nat /\ Usable(plan[i])
  BY <1>1, <1>2, <1>t DEF NextCandidate, PlanOK, TypeOK
<1>4. /\ plan[i].tok \in 0 .. len - 1 /\ plan[i].slot \in Slots
      /\ row[plan[i].tok] = plan[i].slot
  BY <1>2, <1>3, <1>t, CandidateIsVictim DEF PlanOK, Consumed
<1>5. /\ row' \in [Tokens -> Slots \cup Unbound]
      /\ CachePermutation'
      /\ missIdx' \in 1 .. K + 1
      /\ pc' = pc \/ pc' = "publish"
      /\ pc' = pc => missIdx' <= missCount /\ MissesFrom(missIdx)'
      /\ \A t \in Tokens : t # plan[i].tok /\ t \notin topk => row'[t] = row[t]
  BY <1>1, <1>2, <1>4, ServeMiss
<1>6. ASSUME pc' = pc, NEW j \in DOMAIN plan, j >= Consumed', Usable(plan[j])
      PROVE  row'[plan[j].tok] = plan[j].slot
  <2>1. j >= i + 1 /\ j \in Int /\ j >= Consumed
    BY <1>1, <1>2, <1>3, <1>6, <1>t DEF Consumed, PlanOK
  <2>2. /\ plan[j].tok # plan[i].tok /\ plan[j].tok \notin topk
        /\ row[plan[j].tok] = plan[j].slot
    BY <1>2, <1>3, <1>6, <2>1, <1>t DEF PlanOK
  <2>3. plan[j].tok \in Tokens
    BY <1>t DEF TypeOK
  <2> QED
    BY <1>5, <2>2, <2>3
<1>7. slots' \in [1 .. K -> Int] /\ candCursor' \in Nat /\ fallback' \in 0 .. len
  <2>1. slots \in [1 .. K -> Int] /\ plan[i].slot \in Int
    BY <1>4, <1>t, RowValues DEF TypeOK
  <2>2. slots' \in [1 .. K -> Int]
    BY <1>1, <2>1
  <2> QED
    BY <1>1, <1>2, <1>3, <1>t, <2>2 DEF TypeOK
<1> QED
  BY <1>2, <1>5, <1>6, <1>7, ReplacementInv

\* The fallback starts when no candidate is left that it could make stale.
LEMMA ReplaceByFallbackStep ==
  ASSUME RowNeverStale, ReplaceByFallback
  PROVE  RowNeverStale'
<1>1. /\ pc = "slow" /\ NextMiss
      /\ candCursor' = Cardinality(DOMAIN plan) + 1
      /\ UNCHANGED <<index, missCount, plan>>
      /\ UNCHANGED <<start, scanOffset, stop, cands>>
      /\ UNCHANGED <<len, score, chunk, topk, threshold, before>>
  BY DEF ReplaceByFallback, scanVars, callVars
<1>t. TypeOK /\ SelectionOK /\ PlanOK /\ CachePermutation
  BY DEF RowNeverStale
\* No candidate is left behind the cursor.
<1>2. /\ candCursor' \in Nat
      /\ \A i \in DOMAIN plan : ~(i >= candCursor')
  <2>1. Cardinality(cands) \in Nat /\ candCursor' = Cardinality(cands) + 1
    BY <1>1, <1>t, CandidateCount DEF PlanOK
  <2> QED
    BY <1>1, <1>t, <2>1 DEF PlanOK
<1>3. pc' = pc => \A i \in DOMAIN plan :
                    i >= Consumed' /\ Usable(plan[i]) => row'[plan[i].tok] = plan[i].slot
  BY <1>1, <1>2 DEF Consumed
<1>4. fallback \in 0 .. len /\ len \in Nat /\ slots \in [1 .. K -> Int]
  BY <1>t, CallFacts DEF TypeOK
<1>5. CASE \E t \in fallback .. len - 1 : IsVictim(t)
  <2>1. PICK t \in fallback .. len - 1 :
           /\ IsVictim(t) /\ Rebind(t, row[t])
           /\ slots' = [slots EXCEPT ![missIdx] = row[t]]
           /\ fallback' = t + 1
    BY <1>5 DEF ReplaceByFallback
  <2>2. t \in 0 .. len - 1 /\ t \in Tokens
    BY <1>4, <1>t, CallFacts
  <2>3. row[t] \in Slots
    BY <2>1, <2>2, <1>t, RowValues DEF IsVictim, TypeOK
  <2>4. /\ row' \in [Tokens -> Slots \cup Unbound]
        /\ CachePermutation'
        /\ missIdx' \in 1 .. K + 1
        /\ pc' = pc \/ pc' = "publish"
        /\ pc' = pc => missIdx' <= missCount /\ MissesFrom(missIdx)'
    BY <1>1, <2>1, <2>2, <2>3, ServeMiss
  <2>5. slots' \in [1 .. K -> Int]
    BY <1>4, <2>1, <2>3, RowValues
  <2>6. fallback' \in 0 .. len
    BY <1>4, <2>1
  <2> QED
    BY <1>1, <1>2, <1>3, <2>4, <2>5, <2>6, ReplacementInv
<1>6. CASE ~(\E t \in fallback .. len - 1 : IsVictim(t))
  <2>1. row' = row /\ slots' = slots /\ fallback' = len
    BY <1>6 DEF ReplaceByFallback
  <2>2. row' \in [Tokens -> Slots \cup Unbound] /\ CachePermutation'
    BY <1>1, <2>1, <1>t DEF TypeOK, CachePermutation
  <2>3. missIdx' = missIdx + 1 /\ pc' = IF missIdx = missCount THEN "publish" ELSE pc
    BY <1>1 DEF NextMiss
  <2>4. missIdx \in Nat /\ missIdx > 0 /\ missCount \in Nat /\ missIdx <= missCount /\ missCount <= K
    BY <1>1, <1>t, MissFacts
  <2>5. missIdx' \in 1 .. K + 1 /\ (pc' = pc => missIdx' <= missCount)
    BY <1>1, <2>3, <2>4, SizeAssumption
  <2>6. MissesFrom(missIdx)'
    <3>1. \A j \in missIdx .. missCount : row[index[j]] < 0
      BY <1>1, <1>t DEF SelectionOK, MissesFrom
    <3> QED
      BY <1>1, <2>1, <2>3, <2>4, <3>1 DEF MissesFrom
  <2>7. fallback' \in 0 .. len /\ slots' \in [1 .. K -> Int]
    BY <1>4, <2>1
  <2> QED
    BY <1>1, <1>2, <1>3, <2>2, <2>3, <2>5, <2>6, <2>7, ReplacementInv
<1> QED
  BY <1>5, <1>6

\* Publishing leaves the row and drops everything remembered of it.
LEMMA PublishStep ==
  ASSUME RowNeverStale, Publish
  PROVE  RowNeverStale'
<1>1. /\ pc' = "idle"
      /\ score' = [t \in 0 .. len - 1 |-> CHOOSE s \in Scores : TRUE]
      /\ chunk' = 0 /\ topk' = {} /\ threshold' = 0
      /\ start' = 0 /\ scanOffset' = 0 /\ stop' = 0 /\ cands' = {}
      /\ plan' = << >> /\ candCursor' = 1 /\ fallback' = 0 /\ missIdx' = 1
      /\ UNCHANGED <<row, len, index, slots, missCount, before>>
  BY DEF Publish
<1>t. TypeOK /\ CachePermutation
  BY DEF RowNeverStale
<1>2. score' \in [0 .. len - 1 -> Scores]
  <2>1. (CHOOSE s \in Scores : TRUE) \in Scores
    BY InputAssumption
  <2> QED
    BY <1>1, <2>1
<1>3. /\ 0 \in 0 .. ChunkCount(len) /\ 0 \in 0 .. len /\ 1 \in 1 .. K + 1
  BY <1>t, CallFacts, SizeAssumption
<1>4. plan' \in [DOMAIN plan' -> [tok : Tokens, slot : 0 .. SlotField - 1]]
  BY <1>1
<1>5. TypeOK'
  BY <1>1, <1>2, <1>3, <1>4, <1>t DEF TypeOK
<1> QED
  BY <1>1, <1>5, <1>t
     DEF RowNeverStale, ProgressOK, CachePermutation, SelectionOK, CandidatesOK, PlanOK, FastOK

\* The invariant reads nothing but the variables of the specification.
LEMMA StutterStep ==
  ASSUME RowNeverStale, UNCHANGED vars
  PROVE  RowNeverStale'
<1> USE DEF vars
<1>1. TypeOK' /\ ProgressOK' /\ CachePermutation'
  BY DEF RowNeverStale, TypeOK, ProgressOK, CachePermutation
<1>2. SelectionOK' /\ CandidatesOK'
  BY DEF RowNeverStale, SelectionOK, MissesFrom, Injective, CandidatesOK
<1>3. PlanOK' /\ FastOK'
  BY DEF RowNeverStale, PlanOK, FastOK, Usable, Consumed
<1> QED
  BY <1>1, <1>2, <1>3 DEF RowNeverStale

-----------------------------------------------------------------------------
(* The theorems.                                                           *)

\* What a call remembers of the row is never stale when it is used.
THEOREM RowNeverStaleHolds == Spec => []RowNeverStale
<1>1. Init => RowNeverStale
  BY InitInv
<1>2. RowNeverStale /\ [Next]_vars => RowNeverStale'
  <2> SUFFICES ASSUME RowNeverStale, [Next]_vars PROVE RowNeverStale'
    OBVIOUS
  <2>1. ASSUME NEW n \in Lens, Call(n) \/ SkipCall(n) PROVE RowNeverStale'
    BY <2>1, CallStep, SkipCallStep
  <2>2. CASE Work
    BY <2>2, ScoreChunkStep, DecodeStep, ScanStep, ChoosePathStep, FastReplaceStep,
       ReplaceByCandidateStep, ReplaceByFallbackStep, PublishStep DEF Work
  <2>3. CASE UNCHANGED vars
    BY <2>3, StutterStep
  <2> QED
    BY <2>1, <2>2, <2>3 DEF Next
<1> QED
  BY <1>1, <1>2, PTL DEF Spec

\* Every variable keeps its type over every sequence of calls.
THEOREM TypeCorrect == Spec => []TypeOK
<1>1. RowNeverStale => TypeOK
  BY DEF RowNeverStale
<1> QED
  BY <1>1, RowNeverStaleHolds, PTL

\* The row binds each slot to exactly one token of the sequence in every state
\* of every sequence of calls: replacement preserves the cache's cardinality.
THEOREM CachePermutationHolds == Spec => []CachePermutation
<1>1. RowNeverStale => CachePermutation
  BY DEF RowNeverStale
<1> QED
  BY <1>1, RowNeverStaleHolds, PTL

\* A replacement by ServeMiss leaves what was not bound as it was, the miss
\* that is served excepted.
LEMMA ServeMissKeepsUnbound ==
  ASSUME RowNeverStale, pc \in {"fast", "slow"},
         NEW victim \in 0 .. len - 1, NEW slot \in Slots, row[victim] = slot,
         Rebind(victim, slot), NextMiss,
         UNCHANGED <<len, index, missCount>>
  PROVE  \A t \in Tokens : row[t] < 0 => row'[t] = row[t] \/ t \in topk
<1>1. \A t \in Tokens : t # victim /\ t \notin topk => row'[t] = row[t]
  BY ServeMiss
<1>2. row[victim] >= 0 /\ row[victim] \in Int
  BY RowValues
<1> QED
  BY <1>1, <1>2

\* Only cached tokens are evicted: an entry that is not bound, the empty marker
\* or a free binding, is never unpacked as a victim's slot.
THEOREM OnlyCachedEvictedHolds == Spec => OnlyCachedEvicted
<1> DEFINE Kept == \A t \in Tokens : row[t] < 0 => row'[t] = row[t] \/ t \in topk
<1>1. RowNeverStale /\ [Next]_vars => Kept
  <2> SUFFICES ASSUME RowNeverStale, [Next]_vars PROVE Kept
    OBVIOUS
  <2>t. TypeOK /\ SelectionOK /\ PlanOK /\ FastOK
    BY DEF RowNeverStale
  <2>1. CASE FastReplace
    <3>1. /\ pc = "fast" /\ Rebind(plan[missIdx].tok, slots[missIdx]) /\ NextMiss
          /\ UNCHANGED <<len, index, missCount>>
      BY <2>1 DEF FastReplace, callVars
    <3>2. missIdx \in 1 .. missCount /\ missIdx \in Int
      BY <3>1, <2>t, MissFacts
    <3>3. /\ missIdx \in DOMAIN plan /\ Usable(plan[missIdx])
          /\ slots[missIdx] = plan[missIdx].slot
      BY <3>1, <3>2, <2>t DEF FastOK
    <3>4. /\ plan[missIdx].tok \in 0 .. len - 1 /\ slots[missIdx] \in Slots
          /\ row[plan[missIdx].tok] = slots[missIdx]
      BY <3>1, <3>2, <3>3, <2>t, CandidateIsVictim DEF PlanOK, Consumed
    <3> QED
      BY <3>1, <3>4, ServeMissKeepsUnbound
  <2>2. CASE ReplaceByCandidate
    <3>1. PICK i \in DOMAIN plan : NextCandidate(i) /\ Rebind(plan[i].tok, plan[i].slot)
      BY <2>2 DEF ReplaceByCandidate
    <3>2. pc = "slow" /\ NextMiss /\ UNCHANGED <<len, index, missCount>>
      BY <2>2 DEF ReplaceByCandidate, callVars
    <3>3. i >= candCursor /\ Usable(plan[i])
      BY <3>1 DEF NextCandidate
    <3>4. /\ plan[i].tok \in 0 .. len - 1 /\ plan[i].slot \in Slots
          /\ row[plan[i].tok] = plan[i].slot
      BY <3>2, <3>3, <2>t, CandidateIsVictim DEF PlanOK, Consumed
    <3> QED
      BY <3>1, <3>2, <3>4, ServeMissKeepsUnbound
  <2>3. CASE ReplaceByFallback
    <3>1. pc = "slow" /\ NextMiss /\ UNCHANGED <<len, index, missCount>>
      BY <2>3 DEF ReplaceByFallback, callVars
    <3>2. CASE \E t \in fallback .. len - 1 : IsVictim(t)
      <4>1. PICK t \in fallback .. len - 1 : IsVictim(t) /\ Rebind(t, row[t])
        BY <2>3, <3>2 DEF ReplaceByFallback
      <4>2. t \in 0 .. len - 1 /\ t \in Tokens
        BY <2>t, CallFacts DEF TypeOK
      <4>3. row[t] \in Slots
        BY <4>1, <4>2, <2>t, RowValues DEF IsVictim, TypeOK
      <4> QED
        BY <3>1, <4>1, <4>2, <4>3, ServeMissKeepsUnbound
    <3>3. CASE ~(\E t \in fallback .. len - 1 : IsVictim(t))
      BY <2>3, <3>3 DEF ReplaceByFallback
    <3> QED
      BY <3>2, <3>3
  <2>4. CASE ~(FastReplace \/ ReplaceByCandidate \/ ReplaceByFallback)
    BY <2>4 DEF Next, Call, SkipCall, Work, ScoreChunk, Decode, Scan, ChoosePath, Publish, vars
  <2> QED
    BY <2>1, <2>2, <2>3, <2>4
<1>2. RowNeverStale /\ [Next]_vars => [Kept]_vars
  BY <1>1
<1> QED
  BY <1>2, RowNeverStaleHolds, PTL DEF Spec, OnlyCachedEvicted

-----------------------------------------------------------------------------
(* What a finished call publishes: SelectionServed is inductive on top of  *)
(* RowNeverStale.  The step that matters is a count: the C slots cannot    *)
(* all be held by fewer than K selected tokens, so the fallback search     *)
(* always finds a victim.                                                  *)

\* A token that decodes to a slot holds it.
LEMMA HitIsBound ==
  ASSUME NEW t, row[t] \in Slots \cup Unbound, HitSlot(t) # None
  PROVE  HitSlot(t) \in Slots /\ row[t] = HitSlot(t)
<1>1. CASE row[t] \in Slots
  <2>1. Normalised(row[t]) = row[t]
    BY <1>1, RowValues DEF Normalised, None
  <2> QED
    BY <1>1, <2>1, PackSlot DEF HitSlot, Unpack
<1>2. CASE row[t] \in Unbound
  <2>1. Normalised(row[t]) = -1
    BY <1>2, RowValues DEF Normalised, None
  <2>2. Pack(-1) = InvalidSlot
    BY SizeAssumption DEF Pack, InvalidSlot
  <2>3. HitSlot(t) = None
    BY <2>1, <2>2 DEF HitSlot, Unpack
  <2> QED
    BY <2>3
<1> QED
  BY <1>1, <1>2

\* The best k entries of a finite set are at most k.
LEMMA TopSetSize ==
  ASSUME NEW S, IsFiniteSet(S), NEW k \in Nat, NEW B \in TopSets(S, k)
  PROVE  Cardinality(B) <= k
<1>1. Cardinality(S) \in Nat
  BY FS_CardinalityType
<1>2. Cardinality(B) = Least(k, Cardinality(S))
  BY DEF TopSets
<1> QED
  BY <1>1, <1>2 DEF Least

\* An order that lists as many different entries as the set has lists them all.
LEMMA OrderListsAll ==
  ASSUME NEW S, IsFiniteSet(S), Cardinality(S) <= K,
         NEW f \in [1 .. K -> S], Injective(f)
  PROVE  \A t \in S : \E i \in 1 .. K : f[i] = t
<1>1. f \in Injection(1 .. K, S)
  BY DEF Injection, IsInjective, Injective
<1>2. IsFiniteSet(1 .. K) /\ Cardinality(1 .. K) = K
  BY FS_Interval, SizeAssumption
<1>3. Cardinality(S) \in Nat
  BY FS_CardinalityType
<1>4. Cardinality(1 .. K) <= Cardinality(S)
  BY <1>1, FS_Injection
<1>5. Cardinality(1 .. K) = Cardinality(S)
  BY <1>2, <1>3, <1>4, SizeAssumption
<1>6. f \in Surjection(1 .. K, S)
  BY <1>1, <1>5, FS_Injection
<1> QED
  BY <1>6 DEF Surjection

-----------------------------------------------------------------------------
(* The steps up to the selection.                                          *)

\* The invariant holds before the first call.
LEMMA InitServed == Init => SelectionServed
<1> SUFFICES ASSUME Init PROVE SelectionServed
  OBVIOUS
<1>1. topk = {} /\ pc = "idle" /\ index[1] = None
  BY SizeAssumption DEF Init
<1>2. Cardinality(topk) <= K
  BY <1>1, FS_EmptySet, SizeAssumption
<1> QED
  BY <1>1, <1>2 DEF SelectionServed, OrderOK, ServedOK, Selecting, PublishedMatchesRow

\* A call begins with nothing served.
LEMMA CallServed ==
  ASSUME SelectionServed, NEW n \in Lens, Call(n)
  PROVE  SelectionServed'
<1>1. pc' = "score" /\ topk' = {} /\ row' = row /\ before' = row
  BY DEF Call
<1>2. Cardinality(topk') <= K
  BY <1>1, FS_EmptySet, SizeAssumption
<1> QED
  BY <1>1, <1>2 DEF SelectionServed, OrderOK, ServedOK, Selecting, PublishedMatchesRow

\* What a call that is skipped leaves in the outputs is still true of the row.
LEMMA SkipCallServed ==
  ASSUME SelectionServed, NEW n \in Lens, SkipCall(n)
  PROVE  SelectionServed'
<1>1. pc = "idle" /\ UNCHANGED <<pc, row, topk, index, slots>>
  BY DEF SkipCall
<1> QED
  BY <1>1 DEF SelectionServed, OrderOK, ServedOK, Selecting, PublishedMatchesRow

\* Scoring serves nothing.
LEMMA ScoreChunkServed ==
  ASSUME RowNeverStale, SelectionServed, ScoreChunk
  PROVE  SelectionServed'
<1>1. /\ pc = "score" /\ pc' \in {"score", "decode"} /\ UNCHANGED <<row, before>>
      /\ topk' \in TopSets(topk \cup Pending, K) \/ topk' = topk
  BY DEF ScoreChunk
<1>2. IsFiniteSet(topk \cup Pending)
  <2>1. topk \subseteq 0 .. len - 1 /\ len \in Nat
    BY CallFacts DEF RowNeverStale, TypeOK
  <2>2. Pending \subseteq 0 .. len - 1
    BY DEF Pending, ChunkTokens
  <2>3. IsFiniteSet(0 .. len - 1)
    BY <2>1, FS_Interval
  <2>4. topk \cup Pending \in SUBSET (0 .. len - 1)
    BY <2>1, <2>2
  <2> QED
    BY <2>3, <2>4, FS_Subset
<1>3. Cardinality(topk') <= K
  BY <1>1, <1>2, TopSetSize, SizeAssumption DEF SelectionServed, OrderOK
<1> QED
  BY <1>1, <1>3 DEF SelectionServed, OrderOK, ServedOK, Selecting, PublishedMatchesRow

\* The decoder lists the whole top K; behind its miss prefix every entry is a
\* hit, and the slot published for a hit is the one the row holds.
LEMMA DecodeServed ==
  ASSUME RowNeverStale, SelectionServed, Decode
  PROVE  SelectionServed'
<1>t. TypeOK /\ Cardinality(topk) <= K
  BY DEF RowNeverStale, SelectionServed, OrderOK
<1>1. /\ pc = "decode" /\ pc' \in {"publish", "scan"} /\ (pc' = "publish" => missCount' = 0)
      /\ index' \in MissFirstOrders
      /\ slots' = [i \in 1 .. K |-> HitSlot(index'[i])]
      /\ missCount' \in 0 .. K /\ IsMissPrefix(slots', missCount')
      /\ UNCHANGED <<row, len, topk, before>>
  BY DEF Decode
<1>2. /\ index' \in [1 .. K -> topk] /\ Injective(index')
      /\ \A i, j \in 1 .. K :
            i < j /\ HitSlot(index'[j]) = None => HitSlot(index'[i]) = None
  BY <1>1 DEF MissFirstOrders
<1>3. topk \subseteq 0 .. len - 1 /\ len \in Nat /\ topk \subseteq Tokens
  BY <1>t, CallFacts DEF TypeOK
<1>4. \A i \in 1 .. K : row[index'[i]] \in Slots \cup Unbound
  BY <1>2, <1>3, <1>t DEF TypeOK
<1>5. \A t \in topk : \E i \in 1 .. K : index'[i] = t
  <2>1. IsFiniteSet(topk)
    <3>1. IsFiniteSet(0 .. len - 1)
      BY <1>3, FS_Interval
    <3> QED
      BY <1>3, <3>1, FS_Subset
  <2> QED
    BY <1>2, <1>t, <2>1, OrderListsAll
<1>6. ASSUME NEW i \in 1 .. K, i > missCount'
      PROVE  slots'[i] \in Slots /\ row[index'[i]] = slots'[i]
  <2> DEFINE first == missCount' + 1
  <2>1. first \in 1 .. K /\ (i = first \/ first < i)
    <3>1. \A m \in 0 .. K : i > m => m + 1 \in 1 .. K /\ (i = m + 1 \/ m + 1 < i)
      BY SizeAssumption
    <3> QED
      BY <1>1, <1>6, <3>1
  <2>2. HitSlot(index'[first]) # None
    <3>1. \A m \in 0 .. K : m + 1 \in 1 .. K => m < K
      BY SizeAssumption
    <3> QED
      BY <1>1, <2>1, <3>1 DEF IsMissPrefix
  <2> HIDE DEF first
  <2>4. HitSlot(index'[i]) # None
    BY <1>2, <2>1, <2>2
  <2> QED
    BY <1>1, <1>4, <2>4, HitIsBound
<1>7. ASSUME NEW i \in 1 .. K, i <= missCount' PROVE row[index'[i]] < 0
  <2>1. i \in 1 .. missCount'
    BY <1>1, <1>7
  <2>2. HitSlot(index'[i]) = None
    BY <1>1, <2>1 DEF IsMissPrefix
  <2> QED
    BY <1>4, <2>2, MissIsUnbound
<1>8. row = before
  BY <1>1 DEF SelectionServed, OrderOK
<1>9. \A i \in 1 .. K : i <= missCount' <=> before[index'[i]] < 0
  <2> SUFFICES ASSUME NEW i \in 1 .. K, i > missCount' PROVE ~(row[index'[i]] < 0)
    BY <1>1, <1>7, <1>8
  <2> QED
    BY <1>6, RowValues
<1>10. OrderOK'
  <2>1. \A t \in Tokens : SinceCall(t)'
    BY <1>1, <1>8 DEF SinceCall
  <2> QED
    BY <1>1, <1>2, <1>5, <1>8, <1>9, <1>t, <2>1 DEF OrderOK, Injective
<1>11. ServedOK'
  <2>1. Selecting' => \A i \in 1 .. K : i > missCount' => Settled(i)'
    BY <1>1, <1>6 DEF Settled
  <2>2. pc' = "publish" =>
          \A i \in 1 .. K : index'[i] \in Tokens /\ slots'[i] \in Slots /\ slots'[i] = row'[index'[i]]
    <3> SUFFICES ASSUME pc' = "publish", NEW i \in 1 .. K
                 PROVE  index'[i] \in Tokens /\ slots'[i] \in Slots /\ slots'[i] = row[index'[i]]
      BY <1>1
    <3>1. i > missCount'
      BY <1>1
    <3> QED
      BY <1>2, <1>3, <1>6, <3>1
  <2> QED
    BY <1>1, <2>1, <2>2 DEF ServedOK, PublishedMatchesRow
<1> QED
  BY <1>10, <1>11 DEF SelectionServed

\* Nor does the scan of the row.
LEMMA ScanServed ==
  ASSUME SelectionServed, Scan
  PROVE  SelectionServed'
<1>1. /\ pc = "scan" /\ pc' \in {"scan", "choose"}
      /\ UNCHANGED <<row, index, slots, missCount, topk, before>>
  BY DEF Scan, callVars
<1> QED
  BY <1>1 DEF SelectionServed, OrderOK, ServedOK, Selecting, Settled, SinceCall,
     Injective, PublishedMatchesRow

\* Unpacking the candidates writes over the miss prefix only.
LEMMA ChoosePathServed ==
  ASSUME RowNeverStale, SelectionServed, ChoosePath
  PROVE  SelectionServed'
<1>1. /\ pc = "choose" /\ pc' \in {"fast", "slow"} /\ fallback' = 0 /\ missIdx' = 1
      /\ UNCHANGED <<row, index, missCount, topk, before>>
  BY DEF ChoosePath, callVars
<1>2. \A i \in 1 .. K : i > missCount => slots'[i] = slots[i]
  BY DEF ChoosePath
<1>3. OrderOK'
  BY <1>1 DEF SelectionServed, OrderOK, Selecting, SinceCall, Injective
<1>4. \A i \in 1 .. K : i > missCount => Settled(i)'
  BY <1>1, <1>2 DEF SelectionServed, ServedOK, Selecting, Settled
<1> QED
  BY <1>1, <1>3, <1>4 DEF SelectionServed, ServedOK, Selecting, PublishedMatchesRow
-----------------------------------------------------------------------------
(* Serving a miss.                                                         *)

\* A step that gives slot s of token v, which is not selected, to the miss.
Serves(v, s) ==
  /\ pc \in {"fast", "slow"} /\ v \in 0 .. len - 1 /\ v \notin topk
  /\ s \in Slots /\ row[v] = s
  /\ Rebind(v, s) /\ NextMiss
  /\ slots' = [slots EXCEPT ![missIdx] = s]
  /\ UNCHANGED <<len, index, missCount, topk, before>>

\* The fast path serves one miss from its slot.
LEMMA FastServes ==
  ASSUME RowNeverStale, FastReplace
  PROVE  Serves(plan[missIdx].tok, slots[missIdx]) /\ pc = "fast"
<1>t. TypeOK /\ SelectionOK /\ PlanOK /\ FastOK
  BY DEF RowNeverStale
<1>1. /\ pc = "fast" /\ Rebind(plan[missIdx].tok, slots[missIdx]) /\ NextMiss
      /\ UNCHANGED <<len, index, slots, missCount, topk, before>>
  BY DEF FastReplace, callVars
<1>2. missIdx \in 1 .. missCount /\ missIdx \in 1 .. K /\ missIdx \in Int
  BY <1>1, <1>t, MissFacts
<1>3. /\ missIdx \in DOMAIN plan /\ Usable(plan[missIdx])
      /\ slots[missIdx] = plan[missIdx].slot
  BY <1>1, <1>2, <1>t DEF FastOK
<1>4. /\ plan[missIdx].tok \in 0 .. len - 1 /\ slots[missIdx] \in Slots
      /\ row[plan[missIdx].tok] = slots[missIdx] /\ plan[missIdx].tok \notin topk
  BY <1>1, <1>2, <1>3, <1>t, CandidateIsVictim DEF PlanOK, Consumed
<1>5. slots' = [slots EXCEPT ![missIdx] = slots[missIdx]]
  BY <1>1, <1>2, <1>t DEF TypeOK
<1> QED
  BY <1>1, <1>4, <1>5 DEF Serves

\* So does a cold candidate,
LEMMA CandidateServes ==
  ASSUME RowNeverStale, ReplaceByCandidate
  PROVE  /\ \E i \in DOMAIN plan : Serves(plan[i].tok, plan[i].slot)
         /\ pc = "slow" /\ fallback' = fallback
<1>t. TypeOK /\ PlanOK
  BY DEF RowNeverStale
<1>1. PICK i \in DOMAIN plan : /\ NextCandidate(i) /\ Rebind(plan[i].tok, plan[i].slot)
                               /\ slots' = [slots EXCEPT ![missIdx] = plan[i].slot]
  BY DEF ReplaceByCandidate
<1>2. pc = "slow" /\ NextMiss /\ UNCHANGED <<len, index, missCount, topk, before, fallback>>
  BY DEF ReplaceByCandidate, callVars
<1>3. i >= candCursor /\ Usable(plan[i])
  BY <1>1 DEF NextCandidate
<1>4. /\ plan[i].tok \in 0 .. len - 1 /\ plan[i].slot \in Slots
      /\ row[plan[i].tok] = plan[i].slot /\ plan[i].tok \notin topk
  BY <1>2, <1>3, <1>t, CandidateIsVictim DEF PlanOK, Consumed
<1>5. Serves(plan[i].tok, plan[i].slot)
  BY <1>1, <1>2, <1>4 DEF Serves
<1> QED
  BY <1>2, <1>5

\* While a miss is left, some token of the sequence is cached and not selected:
\* otherwise the C slots were all held by the other selected tokens, K - 1 at
\* most, although K <= C.
LEMMA VictimExists ==
  ASSUME RowNeverStale, SelectionServed, pc = "slow"
  PROVE  \E t \in 0 .. len - 1 : IsVictim(t)
<1>t. TypeOK /\ CachePermutation /\ SelectionOK /\ OrderOK
  BY DEF RowNeverStale, SelectionServed
<1>c. /\ len \in Nat /\ 0 .. len - 1 \subseteq Tokens /\ topk \subseteq 0 .. len - 1
      /\ K <= C /\ C \in Nat /\ K \in Nat \ {0}
  BY <1>t, CallFacts, LenFacts, SizeAssumption DEF TypeOK
<1> DEFINE q == index[missIdx]
           holder == [s \in Slots |-> CHOOSE t \in 0 .. len - 1 : row[t] = s]
           others == topk \ {q}
<1>1. q \in topk /\ row[q] < 0
  <2>1. missIdx \in 1 .. K /\ missIdx \in missIdx .. missCount
    BY <1>t, MissFacts
  <2> QED
    BY <2>1, <1>t DEF SelectionOK, MissesFrom
<1>2. \A s \in Slots : holder[s] \in 0 .. len - 1 /\ row[holder[s]] = s
  BY <1>t DEF CachePermutation
<1> HIDE DEF q, holder
<1> SUFFICES ASSUME \A t \in 0 .. len - 1 : ~IsVictim(t) PROVE FALSE
  OBVIOUS
<1>3. ASSUME NEW s \in Slots PROVE holder[s] \in others
  <2>1. holder[s] \in 0 .. len - 1 /\ row[holder[s]] = s /\ s \in Int /\ s >= 0 /\ s < C
    BY <1>2, SizeAssumption DEF Slots
  <2>2. \E i \in 1 .. K : index[i] = holder[s]
    BY <2>1 DEF IsVictim
  <2>3. holder[s] \in topk
    BY <2>2, <1>t DEF OrderOK, Selecting, SelectionOK
  <2>4. holder[s] # q
    BY <2>1, <1>1
  <2> QED
    BY <2>3, <2>4
<1>4. holder \in Injection(Slots, others)
  <2>1. holder \in [Slots -> others]
    BY <1>3 DEF holder
  <2>2. \A a, b \in Slots : holder[a] = holder[b] => a = b
    BY <1>2
  <2> QED
    BY <2>1, <2>2 DEF Injection, IsInjective, holder
<1>5. IsFiniteSet(topk) /\ Cardinality(topk) \in Nat /\ Cardinality(topk) <= K
  <2>1. IsFiniteSet(0 .. len - 1)
    BY <1>c, FS_Interval
  <2>2. IsFiniteSet(topk)
    BY <1>c, <2>1, FS_Subset
  <2> QED
    BY <2>2, <1>t, FS_CardinalityType DEF OrderOK
<1>6. IsFiniteSet(others) /\ Cardinality(others) = Cardinality(topk) - 1
  BY <1>1, <1>5, FS_RemoveElement
<1>7. Cardinality(Slots) <= Cardinality(others)
  BY <1>4, <1>6, FS_Injection
<1>8. Cardinality(Slots) = C
  BY <1>c, FS_Interval DEF Slots
<1> QED
  BY <1>c, <1>5, <1>6, <1>7, <1>8

\* and so does the fallback scan.
LEMMA FallbackServes ==
  ASSUME RowNeverStale, SelectionServed, ReplaceByFallback
  PROVE  \E v, s : /\ Serves(v, s) /\ pc = "slow" /\ fallback' = v + 1 /\ v \in 0 .. len - 1
                   /\ \A u \in 0 .. v - 1 : ~IsVictim(u)
<1>t. TypeOK /\ OrderOK /\ ServedOK
  BY DEF RowNeverStale, SelectionServed
<1>1. pc = "slow" /\ NextMiss /\ UNCHANGED <<len, index, missCount, topk, before>>
  BY DEF ReplaceByFallback, callVars
<1>2. len \in Nat /\ 0 .. len - 1 \subseteq Tokens /\ fallback \in 0 .. len
  BY <1>t, CallFacts DEF TypeOK
<1>3. \A t \in 0 .. fallback - 1 : ~IsVictim(t)
  BY <1>1, <1>t DEF ServedOK
<1>4. \E t \in fallback .. len - 1 : IsVictim(t)
  <2>1. PICK t \in 0 .. len - 1 : IsVictim(t)
    BY <1>1, VictimExists
  <2>2. t \notin 0 .. fallback - 1
    BY <2>1, <1>3
  <2>3. t \in fallback .. len - 1
    BY <2>2, <1>2
  <2> QED
    BY <2>1, <2>3
<1>5. PICK t \in fallback .. len - 1 :
        /\ IsVictim(t) /\ \A u \in fallback .. t - 1 : ~IsVictim(u)
        /\ Rebind(t, row[t])
        /\ slots' = [slots EXCEPT ![missIdx] = row[t]]
        /\ fallback' = t + 1
  BY <1>4 DEF ReplaceByFallback
<1>6. t \in 0 .. len - 1 /\ t \in Tokens
  BY <1>2
<1>7. row[t] \in Slots
  BY <1>5, <1>6, <1>t, RowValues DEF IsVictim, TypeOK
<1>8. t \notin topk
  <2>1. \A i \in 1 .. K : index[i] # t
    BY <1>5 DEF IsVictim
  <2> QED
    BY <2>1, <1>1, <1>t DEF OrderOK, Selecting
<1>9. Serves(t, row[t])
  BY <1>1, <1>5, <1>6, <1>7, <1>8 DEF Serves
<1>10. \A u \in 0 .. t - 1 : u \in 0 .. fallback - 1 \/ u \in fallback .. t - 1
  BY <1>2
<1>11. \A u \in 0 .. t - 1 : ~IsVictim(u)
  BY <1>3, <1>5, <1>10
<1> QED
  BY <1>1, <1>5, <1>6, <1>9, <1>11
\* What such a step does to the row: the miss gets the slot, its old token
\* loses it, and nothing else changes.
LEMMA ServesRow ==
  ASSUME RowNeverStale, NEW v, NEW s, Serves(v, s)
  PROVE  /\ missIdx \in 1 .. K /\ missIdx <= missCount /\ index[missIdx] \in topk
         /\ row[index[missIdx]] < 0 /\ row'[index[missIdx]] = s /\ row'[v] = None
         /\ \A t \in Tokens : t # v /\ t # index[missIdx] => row'[t] = row[t]
<1>t. TypeOK /\ SelectionOK
  BY DEF RowNeverStale
<1>1. missIdx \in 1 .. K /\ missIdx \in missIdx .. missCount /\ missIdx <= missCount
  BY <1>t, MissFacts DEF Serves
<1>2. index[missIdx] \in topk /\ row[index[missIdx]] < 0
  BY <1>1, <1>t DEF SelectionOK, MissesFrom, Serves
<1>3. v \in Tokens /\ index[missIdx] \in Tokens /\ index[missIdx] # v
  BY <1>2, <1>t, CallFacts DEF Serves, TypeOK
<1>4. row \in [Tokens -> Slots \cup Unbound]
  BY <1>t DEF TypeOK
<1>5. row' = [row EXCEPT ![v] = None, ![index[missIdx]] = s]
  BY DEF Serves, Rebind
<1> DEFINE q == index[missIdx]
<1>6. q \in Tokens /\ q # v /\ row' = [row EXCEPT ![v] = None, ![q] = s]
  BY <1>3, <1>5
<1> HIDE DEF q
<1>7. row'[q] = s /\ row'[v] = None /\ \A t \in Tokens : t # v /\ t # q => row'[t] = row[t]
  BY <1>3, <1>4, <1>6
<1> QED
  BY <1>1, <1>2, <1>7 DEF q

\* Whoever served the miss: hits and misses served before keep their slots,
\* and this miss has the slot published with it.
LEMMA ServesKeeps ==
  ASSUME RowNeverStale, SelectionServed, NEW v, NEW s, Serves(v, s),
         pc' = "slow" => \A u \in 0 .. fallback' - 1 : u = v \/ ~IsVictim(u),
         fallback' \in 0 .. len
  PROVE  SelectionServed'
<1>t. TypeOK /\ SelectionOK /\ OrderOK /\ ServedOK
  BY DEF RowNeverStale, SelectionServed
<1>1. /\ pc \in {"fast", "slow"} /\ v \notin topk /\ s \in Slots
      /\ slots' = [slots EXCEPT ![missIdx] = s]
      /\ UNCHANGED <<len, index, missCount, topk, before>>
      /\ missIdx' = missIdx + 1 /\ pc' = IF missIdx = missCount THEN "publish" ELSE pc
  BY DEF Serves, NextMiss
<1>2. /\ missIdx \in 1 .. K /\ missIdx <= missCount /\ index[missIdx] \in topk
      /\ row'[index[missIdx]] = s /\ row'[v] = None
      /\ \A t \in Tokens : t # v /\ t # index[missIdx] => row'[t] = row[t]
  BY ServesRow
<1>3. topk \subseteq Tokens /\ len \in Nat /\ 0 .. len - 1 \subseteq Tokens
  BY <1>t, CallFacts DEF TypeOK
<1>4. /\ Injective(index) /\ \A i \in 1 .. K : index[i] \in topk
      /\ index \in [1 .. K -> Tokens \cup {None}] /\ slots \in [1 .. K -> Int]
  BY <1>t, <1>1 DEF OrderOK, Selecting, TypeOK
<1>5. \A i \in 1 .. K : i = missIdx => Settled(i)'
  BY <1>1, <1>2, <1>4 DEF Settled
<1>6. ASSUME NEW i \in 1 .. K, i # missIdx, Settled(i) PROVE Settled(i)'
  <2>1. index[i] # index[missIdx] /\ index[i] # v /\ index[i] \in Tokens
    BY <1>1, <1>2, <1>3, <1>4, <1>6 DEF Injective
  <2>2. slots'[i] = slots[i] /\ row'[index[i]] = row[index[i]]
    BY <1>1, <1>2, <1>4, <1>6, <2>1
  <2> QED
    BY <1>1, <1>6, <2>2 DEF Settled
<1>7. \A i \in 1 .. K : i > missCount \/ i < missIdx => Settled(i)'
  <2> SUFFICES ASSUME NEW i \in 1 .. K, i > missCount \/ i < missIdx PROVE Settled(i)'
    OBVIOUS
  <2>1. i # missIdx
    BY <1>2, <1>t DEF TypeOK
  <2>2. Settled(i)
    BY <1>1, <1>t DEF ServedOK, Selecting
  <2> QED
    BY <1>6, <2>1, <2>2
<1>8. \A i \in 1 .. K : i < missIdx + 1 => Settled(i)'
  <2> SUFFICES ASSUME NEW i \in 1 .. K, i < missIdx + 1 PROVE Settled(i)'
    OBVIOUS
  <2>1. i < missIdx \/ i = missIdx
    BY <1>2
  <2> QED
    BY <1>5, <1>7, <2>1
<1>9. pc' = "publish" => \A i \in 1 .. K : Settled(i)'
  <2> SUFFICES ASSUME pc' = "publish", NEW i \in 1 .. K PROVE Settled(i)'
    OBVIOUS
  <2>1. missIdx = missCount
    BY <1>1
  <2>2. i > missCount \/ i < missIdx + 1
    BY <1>2, <2>1
  <2> QED
    BY <1>7, <1>8, <2>2
<1>10. ASSUME NEW u \in Tokens, u = v \/ ~IsVictim(u) PROVE ~IsVictim(u)'
  <2>1. CASE u = v
    BY <1>2, <2>1 DEF IsVictim, None
  <2>2. CASE u = index[missIdx]
    BY <1>1, <1>2, <2>2 DEF IsVictim
  <2>3. CASE u # v /\ u # index[missIdx]
    BY <1>1, <1>2, <1>10, <2>3 DEF IsVictim
  <2> QED
    BY <2>1, <2>2, <2>3
<1>11. pc' = "slow" => \A u \in 0 .. fallback' - 1 : ~IsVictim(u)'
  <2> SUFFICES ASSUME pc' = "slow", NEW u \in 0 .. fallback' - 1 PROVE ~IsVictim(u)'
    OBVIOUS
  <2>1. \A n \in 0 .. len : 0 .. n - 1 \subseteq 0 .. len - 1
    BY <1>3
  <2>2. u \in Tokens
    BY <1>3, <2>1
  <2> QED
    BY <1>10, <2>2
<1>12. \A t \in Tokens : SinceCall(t)'
  <2> SUFFICES ASSUME NEW t \in Tokens PROVE SinceCall(t)'
    OBVIOUS
  <2>1. before[index[missIdx]] < 0 /\ SinceCall(t)
    BY <1>1, <1>2, <1>t DEF OrderOK, Selecting
  <2> QED
    BY <1>1, <1>2, <2>1 DEF SinceCall
<1>13. OrderOK'
  <2>1. Selecting /\ \A i \in 1 .. K : i <= missCount <=> before[index[i]] < 0
    BY <1>1, <1>t DEF OrderOK, Selecting
  <2>2. \A t \in topk : \E i \in 1 .. K : index[i] = t
    BY <2>1, <1>t DEF OrderOK
  <2>3. Cardinality(topk) <= K /\ pc' \notin {"score", "decode", "scan", "choose"}
    BY <1>1, <1>t DEF OrderOK
  <2> QED
    BY <1>1, <1>4, <1>12, <2>1, <2>2, <2>3 DEF OrderOK, Injective
<1>14. PublishedMatchesRow'
  BY <1>1, <1>3, <1>4, <1>9 DEF PublishedMatchesRow, Settled
<1> QED
  BY <1>1, <1>7, <1>8, <1>11, <1>13, <1>14 DEF SelectionServed, ServedOK, Selecting

\* Whichever serves the next miss, what has been served stays.
LEMMA ServingServed ==
  ASSUME RowNeverStale, SelectionServed,
         FastReplace \/ ReplaceByCandidate \/ ReplaceByFallback
  PROVE  SelectionServed'
<1>1. TypeOK /\ ServedOK /\ len \in Nat
  BY CallFacts DEF RowNeverStale, SelectionServed
<1>2. fallback \in 0 .. len
  BY <1>1 DEF TypeOK
<1>3. CASE FastReplace
  <2>1. Serves(plan[missIdx].tok, slots[missIdx]) /\ pc = "fast"
    BY <1>3, FastServes
  <2>2. fallback' = fallback /\ pc' # "slow"
    BY <1>3, <2>1 DEF FastReplace, NextMiss
  <2> QED
    BY <1>2, <2>1, <2>2, ServesKeeps
<1>4. CASE ReplaceByCandidate
  <2>1. PICK v, s : Serves(v, s)
    BY <1>4, CandidateServes
  <2>2. pc = "slow" /\ fallback' = fallback
    BY <1>4, CandidateServes
  <2>3. \A u \in 0 .. fallback' - 1 : ~IsVictim(u)
    BY <1>1, <2>2 DEF ServedOK
  <2> QED
    BY <1>2, <2>1, <2>2, <2>3, ServesKeeps
<1>5. CASE ReplaceByFallback
  <2>1. PICK v, s : /\ Serves(v, s) /\ fallback' = v + 1 /\ v \in 0 .. len - 1
                    /\ \A u \in 0 .. v - 1 : ~IsVictim(u)
    BY <1>5, FallbackServes
  <2>2. fallback' \in 0 .. len /\ \A u \in 0 .. v + 1 - 1 : u = v \/ u \in 0 .. v - 1
    BY <1>1, <2>1
  <2>3. \A u \in 0 .. fallback' - 1 : u = v \/ ~IsVictim(u)
    BY <2>1, <2>2
  <2> QED
    BY <2>1, <2>2, <2>3, ServesKeeps
<1> QED
  BY <1>3, <1>4, <1>5

\* The call ends with all served.
LEMMA PublishServed ==
  ASSUME RowNeverStale, SelectionServed, Publish
  PROVE  SelectionServed'
<1>1. pc = "publish" /\ pc' = "idle" /\ topk' = {} /\ UNCHANGED <<row, index, slots>>
  BY DEF Publish
<1>2. Cardinality(topk') <= K
  BY <1>1, FS_EmptySet, SizeAssumption
<1>3. PublishedMatchesRow'
  BY <1>1 DEF SelectionServed, ServedOK, PublishedMatchesRow
<1> QED
  BY <1>1, <1>2, <1>3 DEF SelectionServed, OrderOK, ServedOK, Selecting

-----------------------------------------------------------------------------
(* The theorems.                                                           *)

\* What is published is kept in step with the row, miss by miss, and there is
\* always a victim for the next one.
THEOREM SelectionServedHolds == Spec => []SelectionServed
<1>1. Init => SelectionServed
  BY InitServed
<1>2. RowNeverStale /\ SelectionServed /\ [Next]_vars => SelectionServed'
  <2> SUFFICES ASSUME RowNeverStale, SelectionServed, [Next]_vars PROVE SelectionServed'
    OBVIOUS
  <2>1. ASSUME NEW n \in Lens, Call(n) \/ SkipCall(n) PROVE SelectionServed'
    BY <2>1, CallServed, SkipCallServed
  <2>2. CASE Work
    BY <2>2, ScoreChunkServed, DecodeServed, ScanServed, ChoosePathServed, ServingServed,
       PublishServed DEF Work
  <2>3. CASE UNCHANGED vars
    BY <2>3 DEF vars, SelectionServed, OrderOK, ServedOK, Selecting, Settled, SinceCall,
       IsVictim, Injective, PublishedMatchesRow
  <2> QED
    BY <2>1, <2>2, <2>3 DEF Next
<1> QED
  BY <1>1, <1>2, RowNeverStaleHolds, PTL DEF Spec

\* Every selected token is cached when the handler returns, in the slot that is
\* published with it, and still is after any calls that are skipped.
THEOREM PublishedMatchesRowHolds == Spec => []PublishedMatchesRow
<1>1. SelectionServed => PublishedMatchesRow
  BY DEF SelectionServed, ServedOK
<1> QED
  BY <1>1, SelectionServedHolds, PTL

\* The miss prefix names exactly the selected tokens that were not cached when
\* the call started.
THEOREM MissPrefixExactHolds == Spec => []MissPrefixExact
<1>1. SelectionServed => MissPrefixExact
  BY DEF SelectionServed, OrderOK, Selecting, MissPrefixExact
<1> QED
  BY <1>1, SelectionServedHolds, PTL

\* No step of a call takes a slot away from a token of its own top K.
THEOREM SelectedNeverEvictedHolds == Spec => SelectedNeverEvicted
<1> DEFINE Kept == \A t \in topk : row[t] >= 0 /\ pc # "publish" => row'[t] = row[t]
<1>1. ASSUME RowNeverStale, NEW v, NEW s, Serves(v, s) PROVE Kept
  <2>1. /\ \A t \in Tokens : t # v /\ t # index[missIdx] => row'[t] = row[t]
        /\ row[index[missIdx]] < 0
    BY <1>1, ServesRow
  <2>2. v \notin topk /\ topk \subseteq Tokens /\ row \in [Tokens -> Slots \cup Unbound]
    BY <1>1, CallFacts DEF Serves, RowNeverStale, TypeOK
  <2> SUFFICES ASSUME NEW t \in topk, row[t] >= 0 PROVE row'[t] = row[t]
    OBVIOUS
  <2>3. t # index[missIdx]
    BY <2>1, <2>2, RowValues
  <2> QED
    BY <2>1, <2>2, <2>3
<1>2. RowNeverStale /\ SelectionServed /\ [Next]_vars => Kept
  <2> SUFFICES ASSUME RowNeverStale, SelectionServed, [Next]_vars PROVE Kept
    OBVIOUS
  <2>1. CASE FastReplace
    BY <1>1, <2>1, FastServes
  <2>2. CASE ReplaceByCandidate
    BY <1>1, <2>2, CandidateServes
  <2>3. CASE ReplaceByFallback
    BY <1>1, <2>3, FallbackServes
  <2>4. CASE ~(FastReplace \/ ReplaceByCandidate \/ ReplaceByFallback)
    BY <2>4 DEF Next, Call, SkipCall, Work, ScoreChunk, Decode, Scan, ChoosePath, Publish, vars
  <2> QED
    BY <2>1, <2>2, <2>3, <2>4
<1>3. RowNeverStale /\ SelectionServed /\ [Next]_vars => [Kept]_vars
  BY <1>2
<1> QED
  BY <1>3, RowNeverStaleHolds, SelectionServedHolds, PTL DEF Spec, SelectedNeverEvicted
-----------------------------------------------------------------------------
(* CacheUpdate implements CachePromise.                                    *)

Held == [t \in Tokens |-> Normalised((IF pc = "idle" THEN row ELSE before)[t])]
Wanted == IF pc \in {"idle", "score", "decode"} THEN {} ELSE topk

\* What normalising an entry of the row does.
LEMMA NormalisedEntry ==
  \A x \in Slots \cup Unbound :
    /\ x \in Slots => Normalised(x) = x /\ x >= 0 /\ Normalised(x) # None
    /\ x < 0 => Normalised(x) = None
    /\ x >= 0 => x \in Slots
    /\ Normalised(x) \in Slots \cup {None}
<1> SUFFICES ASSUME NEW x \in Slots \cup Unbound
    PROVE  /\ x \in Slots => Normalised(x) = x /\ x >= 0 /\ Normalised(x) # None
           /\ x < 0 => Normalised(x) = None
           /\ x >= 0 => x \in Slots
           /\ Normalised(x) \in Slots \cup {None}
  OBVIOUS
<1>1. CASE x \in Slots
  BY <1>1, RowValues DEF Normalised, None
<1>2. CASE x \in Unbound
  BY <1>2, RowValues DEF Normalised, None
<1> QED
  BY <1>1, <1>2

\* A row that is a permutation is a one-to-one cache.
LEMMA RowIsOneToOne ==
  ASSUME TypeOK, CachePermutation
  PROVE  Promise!OneToOne([t \in Tokens |-> Normalised(row[t])])
<1> DEFINE h == [t \in Tokens |-> Normalised(row[t])]
<1>1. \A t \in Tokens : row[t] \in Slots \cup Unbound
  BY DEF TypeOK
<1>2. h \in [Tokens -> Slots \cup {None}]
  BY <1>1, NormalisedEntry
<1>3. \A s \in Slots : \E t \in Tokens : h[t] = s
  <2> SUFFICES ASSUME NEW s \in Slots PROVE \E t \in Tokens : h[t] = s
    OBVIOUS
  <2>1. PICK t \in 0 .. len - 1 : row[t] = s
    BY DEF CachePermutation
  <2>2. t \in Tokens
    BY CallFacts
  <2> QED
    BY <2>1, <2>2, NormalisedEntry
<1>4. \A t, u \in Tokens : h[t] # None /\ h[t] = h[u] => t = u
  <2> SUFFICES ASSUME NEW t \in Tokens, NEW u \in Tokens, h[t] # None, h[t] = h[u]
               PROVE  t = u
    OBVIOUS
  <2>1. row[t] \in Slots \cup Unbound /\ row[u] \in Slots \cup Unbound
    BY <1>1
  <2>2. ~(row[t] < 0) /\ ~(row[u] < 0)
    BY <2>1, NormalisedEntry
  <2>3. row[t] \in Slots /\ row[u] \in Slots /\ row[t] >= 0
    BY <2>1, <2>2, RowValues
  <2>4. row[t] = row[u]
    BY <2>3, NormalisedEntry
  <2> QED
    BY <2>3, <2>4 DEF CachePermutation
<1> QED
  BY <1>2, <1>3, <1>4 DEF Promise!OneToOne, Promise!CachedIn, Promise!None, None
\* Decoding selects K tokens; the caller's row is not touched.
LEMMA DecodeSelects ==
  ASSUME RowNeverStale, SelectionServed, Decode
  PROVE  Held' = Held /\ Wanted = {} /\ Wanted' \in SUBSET Tokens /\ Cardinality(Wanted') = K
<1>1. /\ pc = "decode" /\ pc' \in {"publish", "scan"} /\ index' \in MissFirstOrders
      /\ UNCHANGED <<before, topk>>
  BY DEF Decode
<1>2. TypeOK /\ Cardinality(topk) <= K
  BY DEF RowNeverStale, SelectionServed, OrderOK
<1>3. topk \subseteq 0 .. len - 1 /\ topk \subseteq Tokens /\ len \in Nat
  BY <1>2, CallFacts DEF TypeOK
<1>4. IsFiniteSet(topk)
  <2>1. IsFiniteSet(0 .. len - 1)
    BY <1>3, FS_Interval
  <2> QED
    BY <1>3, <2>1, FS_Subset
<1>5. index' \in Injection(1 .. K, topk)
  BY <1>1 DEF MissFirstOrders, Injective, Injection, IsInjective
<1>6. Cardinality(1 .. K) = K /\ Cardinality(1 .. K) <= Cardinality(topk)
  BY <1>4, <1>5, FS_Injection, FS_Interval, SizeAssumption
<1>7. Cardinality(topk) = K
  BY <1>2, <1>4, <1>6, FS_CardinalityType, SizeAssumption
<1> QED
  BY <1>1, <1>3, <1>7 DEF Held, Wanted

\* Returning serves the whole selection at once.
LEMMA PublishServes ==
  ASSUME RowNeverStale, SelectionServed, Publish
  PROVE  Promise!Serve
<1>1. /\ pc = "publish" /\ pc' = "idle" /\ UNCHANGED <<row, before, index, slots>>
  BY DEF Publish
<1>2. TypeOK /\ CachePermutation /\ OrderOK /\ PublishedMatchesRow
  BY DEF RowNeverStale, SelectionServed, ServedOK
<1> DEFINE h == [t \in Tokens |-> Normalised(before[t])]
           g == [t \in Tokens |-> Normalised(row[t])]
<1>3. Held = h /\ Held' = g /\ Wanted = topk /\ Wanted' = {}
  BY <1>1 DEF Held, Wanted
<1>4. Promise!OneToOne(g)
  BY <1>2, RowIsOneToOne
<1>5. topk # {}
  <2>1. 1 \in 1 .. K
    BY SizeAssumption
  <2> QED
    BY <1>1, <1>2, <2>1 DEF OrderOK, Selecting
<1>6. \A t \in topk : t \in Tokens /\ row[t] \in Slots
  BY <1>1, <1>2 DEF OrderOK, Selecting, PublishedMatchesRow
<1>7. \A t \in Tokens : row[t] \in Slots \cup Unbound /\ before[t] \in Slots \cup Unbound
  BY <1>2 DEF TypeOK
<1>8. \A t \in Tokens : SinceCall(t)
  BY <1>1, <1>2 DEF OrderOK, Selecting
<1>9. \A t \in topk : g[t] # None
  BY <1>6, <1>7, NormalisedEntry
<1>10. \A t \in Tokens : g[t] # None => h[t] # None \/ t \in topk
  <2> SUFFICES ASSUME NEW t \in Tokens, t \notin topk, h[t] = None PROVE g[t] = None
    OBVIOUS
  <2>1. row[t] = before[t] \/ row[t] = None
    BY <1>8 DEF SinceCall
  <2> QED
    BY <2>1 DEF Normalised, None
<1>11. \A t \in Tokens : h[t] # None => g[t] = h[t] \/ (t \notin topk /\ g[t] = None)
  <2> SUFFICES ASSUME NEW t \in Tokens, h[t] # None
               PROVE  g[t] = h[t] \/ (t \notin topk /\ g[t] = None)
    OBVIOUS
  <2>1. ~(before[t] < 0)
    BY <1>7, NormalisedEntry
  <2>2. row[t] = before[t] \/ (t \notin topk /\ row[t] = None)
    BY <1>8, <2>1 DEF SinceCall
  <2> QED
    BY <2>2 DEF Normalised, None
<1>12. topk \subseteq Tokens
  BY <1>6
<1> HIDE DEF g, h
<1>13. /\ topk \subseteq Promise!CachedIn(g)
       /\ Promise!CachedIn(g) \subseteq Promise!CachedIn(h) \cup topk
       /\ \A t \in Promise!CachedIn(h) : g[t] = h[t] \/ (t \notin topk /\ g[t] = Promise!None)
  BY <1>9, <1>10, <1>11, <1>12 DEF Promise!CachedIn, Promise!None, None
<1> QED
  BY <1>3, <1>4, <1>5, <1>13 DEF Promise!Serve, Held, Wanted

\* A call is a selection and a service; its other steps cannot be seen.
LEMMA PromiseStep ==
  ASSUME RowNeverStale, SelectionServed, [Next]_vars
  PROVE  [Promise!Next]_(Promise!vars)
<1>1. ASSUME Held' = Held, Wanted' = Wanted PROVE UNCHANGED Promise!vars
  BY <1>1 DEF Held, Wanted, Promise!vars
<1>2. CASE Decode
  <2>1. Held' = Held /\ Wanted = {} /\ Wanted' \in SUBSET Tokens /\ Cardinality(Wanted') = K
    BY <1>2, DecodeSelects
  <2>2. Promise!Cardinality(Wanted') = Cardinality(Wanted')
    BY DEF Cardinality, Promise!Cardinality
  <2>3. Promise!Select
    BY <2>1, <2>2 DEF Held, Wanted, Promise!Select
  <2> QED
    BY <2>3 DEF Promise!Next
<1>3. CASE Publish
  BY <1>3, PublishServes DEF Promise!Next
<1>4. ASSUME NEW n \in Lens, Call(n) \/ SkipCall(n) PROVE Held' = Held /\ Wanted' = Wanted
  BY <1>4 DEF Call, SkipCall, Held, Wanted
<1>5. CASE ScoreChunk
  BY <1>1, <1>5 DEF ScoreChunk, Held, Wanted
<1>6. CASE Scan \/ ChoosePath
  BY <1>1, <1>6 DEF Scan, ChoosePath, callVars, Held, Wanted
<1>7. CASE FastReplace \/ ReplaceByCandidate \/ ReplaceByFallback
  <2>1. pc \in {"fast", "slow"} /\ NextMiss /\ UNCHANGED <<before, topk>>
    BY <1>7 DEF FastReplace, ReplaceByCandidate, ReplaceByFallback, callVars
  <2> QED
    BY <1>1, <2>1 DEF NextMiss, Held, Wanted
<1>8. CASE UNCHANGED vars
  BY <1>1, <1>8 DEF vars, Held, Wanted
<1> QED
  BY <1>1, <1>2, <1>3, <1>4, <1>5, <1>6, <1>7, <1>8 DEF Next, Work

\* The initial states map to initial states of the promise.
LEMMA PromiseInit == Init => Promise!Init
<1> SUFFICES ASSUME Init PROVE Promise!Init
  OBVIOUS
<1>1. TypeOK /\ CachePermutation /\ pc = "idle"
  BY InitInv DEF RowNeverStale, Init
<1>2. Held = [t \in Tokens |-> Normalised(row[t])] /\ Wanted = {}
  BY <1>1 DEF Held, Wanted
<1> QED
  BY <1>1, <1>2, RowIsOneToOne DEF Held, Wanted, Promise!Init

\* The handler, whose buffers, paths and order of service a caller does not
\* see, implements the promise the tests check.
THEOREM PromiseImplemented == Spec => PromiseKept
<1>1. Init => Promise!Init
  BY PromiseInit
<1>2. RowNeverStale /\ SelectionServed /\ [Next]_vars => [Promise!Next]_(Promise!vars)
  BY PromiseStep
<1> QED
  BY <1>1, <1>2, RowNeverStaleHolds, SelectionServedHolds, PTL DEF Spec, PromiseKept, Promise!Spec

-----------------------------------------------------------------------------
(* Why merging the chunks into a running top K, BatchChunks of them at a   *)
(* time, selects a best K of the whole sequence, for every length and      *)
(* every number of chunks, full or not.                                    *)

-----------------------------------------------------------------------------
(* Arithmetic of chunks and batches.                                       *)

\* Quotient and remainder.
LEMMA Division ==
  \A a \in Nat, b \in Nat \ {0} :
    \E q \in Nat, r \in 0 .. b - 1 : a = b * q + r /\ a % b = r
<1>1. \A a \in Nat, b \in Nat \ {0} : a = b * (a \div b) + (a % b)
  BY SMT
<1>2. \A a \in Nat, b \in Nat \ {0} : a % b \in 0 .. b - 1 /\ a \div b \in Nat
  BY SMT
<1> QED
  BY <1>1, <1>2

\* Counting modulo b.
LEMMA Remainder ==
  \A q \in Nat, r \in Nat, b \in Nat \ {0} : r < b => (b * q + r) % b = r
  BY SMT

\* The place of a chunk in its batch moves on by one, and back to the front.
LEMMA NextInBatch ==
  ASSUME NEW c \in Nat, NEW b \in Nat \ {0}
  PROVE  (c + 1) % b = IF c % b = b - 1 THEN 0 ELSE (c % b) + 1
<1>1. PICK q \in Nat, r \in 0 .. b - 1 : c = b * q + r /\ c % b = r
  BY Division
<1>2. CASE r = b - 1
  <2>1. (b * (q + 1) + 0) % b = 0
    BY Remainder
  <2>2. b * (q + 1) + 0 = b * q + b
    OBVIOUS
  <2>3. c + 1 = b * q + b
    BY <1>1, <1>2
  <2> QED
    BY <2>1, <2>2, <2>3, <1>1, <1>2, Zenon
<1>3. CASE r # b - 1
  <2>1. r + 1 \in Nat /\ r + 1 < b
    BY <1>3
  <2>2. (b * q + (r + 1)) % b = r + 1
    BY <2>1, Remainder
  <2>3. c + 1 = b * q + (r + 1)
    BY <1>1
  <2> QED
    BY <2>2, <2>3, <1>1, <1>3, Zenon
<1> QED
  BY <1>2, <1>3

\* Every token of the sequence is in one of its chunks.
LEMMA ChunkOfToken ==
  \A n \in Nat, b \in Nat \ {0}, t \in Nat : t < n => t \div b < (n + b - 1) \div b
  BY SMT

-----------------------------------------------------------------------------
(* Merging.                                                                *)

\* A best k of what a best k of S and the set P have together is a best k of
\* all of S and P.
LEMMA MergeKeepsBest ==
  ASSUME NEW S, IsFiniteSet(S), NEW P, IsFiniteSet(P), NEW k \in Nat,
         \A t \in S \cup P : score[t] \in Int,
         NEW T \in TopSets(S, k), NEW B \in TopSets(T \cup P, k)
  PROVE  B \in TopSets(S \cup P, k)
<1>1. /\ T \subseteq S /\ Cardinality(T) = Least(k, Cardinality(S))
      /\ \A t \in T, o \in S \ T : score[t] >= score[o]
      /\ B \subseteq T \cup P /\ Cardinality(B) = Least(k, Cardinality(T \cup P))
      /\ \A b \in B, o \in (T \cup P) \ B : score[b] >= score[o]
  BY DEF TopSets
<1>2. /\ IsFiniteSet(T) /\ IsFiniteSet(T \cup P) /\ IsFiniteSet(S \cup P)
      /\ Cardinality(S) \in Nat /\ Cardinality(T) \in Nat
      /\ Cardinality(T \cup P) \in Nat /\ Cardinality(S \cup P) \in Nat
  <2>1. IsFiniteSet(T)
    BY <1>1, FS_Subset
  <2>2. IsFiniteSet(T \cup P) /\ IsFiniteSet(S \cup P)
    BY <2>1, FS_Union
  <2> QED
    BY <2>1, <2>2, FS_CardinalityType
<1>3. CASE Cardinality(S) <= k
  <2>1. Cardinality(T) = Cardinality(S)
    BY <1>1, <1>2, <1>3 DEF Least
  <2>2. T = S
    BY <1>1, <2>1, FS_Subset
  <2> QED
    BY <2>2
<1>4. CASE Cardinality(S) > k
  <2>1. Cardinality(T) = k
    BY <1>1, <1>2, <1>4 DEF Least
  <2>2. Cardinality(T) <= Cardinality(T \cup P) /\ Cardinality(S) <= Cardinality(S \cup P)
    BY <1>2, FS_Subset
  <2>3. Cardinality(B) = k /\ Cardinality(B) = Least(k, Cardinality(S \cup P))
    BY <1>1, <1>2, <1>4, <2>1, <2>2 DEF Least
  <2>4. ASSUME NEW b \in B, NEW o \in (S \cup P) \ B PROVE score[b] >= score[o]
    <3>1. score[b] \in Int /\ score[o] \in Int
      BY <1>1
    <3>2. CASE o \in T \cup P
      BY <1>1, <3>2
    <3>3. CASE o \notin T \cup P /\ b \in T
      BY <1>1, <3>3
    <3>4. CASE o \notin T \cup P /\ b \notin T
      <4>1. PICK x \in T : x \notin B
        <5>1. SUFFICES ASSUME T \subseteq B PROVE FALSE
          OBVIOUS
        <5>2. IsFiniteSet(B)
          BY <1>1, <1>2, FS_Subset
        <5>3. T = B
          BY <2>1, <2>3, <5>1, <5>2, FS_Subset
        <5> QED
          BY <3>4, <5>3
      <4>2. score[b] >= score[x] /\ score[x] >= score[o] /\ score[x] \in Int
        BY <1>1, <3>4, <4>1
      <4> QED
        BY <3>1, <4>2
    <3> QED
      BY <3>2, <3>3, <3>4
  <2>5. B \subseteq S \cup P
    BY <1>1
  <2> QED
    BY <2>3, <2>4, <2>5 DEF TopSets
<1> QED
  BY <1>2, <1>3, <1>4
-----------------------------------------------------------------------------
(* The steps.                                                              *)

\* Nothing is selected of nothing, which is all a call begins with.
LEMMA CallBest ==
  ASSUME RowNeverStale, NEW n \in Lens, Call(n)
  PROVE  BestSoFar'
<1>1. /\ pc' = "score" /\ len' = n /\ chunk' = 0 /\ topk' = {}
      /\ n \in Nat
  BY LenFacts DEF Call
<1>2. (BatchChunks * 0 + 0) % BatchChunks = 0
  BY Remainder, SizeAssumption
<1>3. 0 % BatchChunks = 0
  BY <1>2, SizeAssumption
<1>4. \A t \in 0 .. n - 1 : ~(t \div ChunkSize < 0)
  <2>1. \A a \in Nat, b \in Nat \ {0} : a \div b \in Nat
    BY SMT
  <2> QED
    BY <1>1, <2>1, SizeAssumption
<1>5. Merged' = {}
  BY <1>1, <1>3, <1>4 DEF Merged
<1>6. {} \in TopSets({}, K)'
  BY FS_EmptySet, SizeAssumption DEF TopSets, Least
<1> QED
  BY <1>1, <1>5, <1>6 DEF BestSoFar

\* A chunk that only waits leaves what is merged as it is; a merge adds the
\* pending chunks, and the last merge completes the sequence.
LEMMA ScoreChunkBest ==
  ASSUME RowNeverStale, BestSoFar, ScoreChunk
  PROVE  BestSoFar'
<1> DEFINE last == chunk + 1 = ChunkCount(len)
           merges == chunk % BatchChunks = BatchChunks - 1 \/ last
           at == chunk % BatchChunks
<1>t. TypeOK /\ topk \in TopSets(Merged, K)
  BY DEF RowNeverStale, BestSoFar, ScoreChunk
<1>1. /\ pc = "score" /\ chunk' = chunk + 1 /\ UNCHANGED <<len, score>>
      /\ pc' = IF last THEN "decode" ELSE "score"
      /\ merges => topk' \in TopSets(topk \cup Pending, K)
      /\ ~merges => topk' = topk
  BY DEF ScoreChunk
<1>2. /\ len \in Nat /\ chunk \in Nat /\ score \in [0 .. len - 1 -> Scores]
      /\ ChunkSize \in Nat \ {0} /\ BatchChunks \in Nat \ {0}
  <2>1. len \in Nat /\ ChunkCount(len) \in Nat
    BY <1>t, CallFacts
  <2>2. chunk \in 0 .. ChunkCount(len) /\ score \in [0 .. len - 1 -> Scores]
    BY <1>t DEF TypeOK
  <2> QED
    BY <2>1, <2>2, SizeAssumption
<1>3. at \in 0 .. BatchChunks - 1 /\ at <= chunk
  <2>1. PICK q \in Nat, r \in 0 .. BatchChunks - 1 : chunk = BatchChunks * q + r /\ at = r
    BY <1>2, Division
  <2>2. BatchChunks * q \in Nat
    BY <1>2
  <2> QED
    BY <1>2, <2>1, <2>2
<1>4. \A t \in 0 .. len - 1 : t \div ChunkSize \in Nat
  <2>1. \A a \in Nat, b \in Nat \ {0} : a \div b \in Nat
    BY SMT
  <2> QED
    BY <1>2, <2>1
<1>5. Merged = {t \in 0 .. len - 1 : t \div ChunkSize < chunk - at}
  BY <1>1 DEF Merged
<1>6. Pending = {t \in 0 .. len - 1 : t \div ChunkSize \in (chunk - at) .. chunk}
  BY DEF Pending, ChunkTokens
<1>7. (chunk + 1) % BatchChunks = IF at = BatchChunks - 1 THEN 0 ELSE at + 1
  BY <1>2, NextInBatch
<1> HIDE DEF at
<1>8. Merged \cup Pending = {t \in 0 .. len - 1 : t \div ChunkSize < chunk + 1}
  <2>1. ASSUME NEW t \in 0 .. len - 1
        PROVE  t \div ChunkSize < chunk - at \/ t \div ChunkSize \in (chunk - at) .. chunk
                 <=> t \div ChunkSize < chunk + 1
    <3>1. \A d \in Nat, a \in 0 .. BatchChunks - 1 :
            a <= chunk => (d < chunk - a \/ d \in (chunk - a) .. chunk <=> d < chunk + 1)
      BY <1>2
    <3> QED
      BY <1>3, <1>4, <3>1
  <2> QED
    BY <1>5, <1>6, <2>1
<1>9. CASE merges
  <2>1. Merged' = Merged \cup Pending
    <3>1. CASE last
      <4>1. \A t \in 0 .. len - 1 : t \div ChunkSize < chunk + 1
        BY <1>2, <3>1, ChunkOfToken DEF ChunkCount
      <4>2. Merged' = 0 .. len - 1
        BY <1>1, <3>1 DEF Merged
      <4> QED
        BY <1>8, <4>1, <4>2
    <3>2. CASE ~last
      <4>1. at = BatchChunks - 1
        BY <1>9, <3>2 DEF at
      <4>2. (chunk + 1) % BatchChunks = 0
        BY <1>7, <4>1
      <4>3. Merged' = {t \in 0 .. len - 1 : t \div ChunkSize < (chunk + 1) - 0}
        BY <1>1, <3>2, <4>2 DEF Merged
      <4>4. (chunk + 1) - 0 = chunk + 1
        BY <1>2
      <4> QED
        BY <1>8, <4>3, <4>4
    <3> QED
      BY <3>1, <3>2
  <2>2. IsFiniteSet(Merged) /\ IsFiniteSet(Pending)
    <3>1. IsFiniteSet(0 .. len - 1)
      BY <1>2, FS_Interval
    <3>2. Merged \in SUBSET (0 .. len - 1) /\ Pending \in SUBSET (0 .. len - 1)
      BY <1>5, <1>6
    <3> QED
      BY <3>1, <3>2, FS_Subset
  <2>3. \A t \in Merged \cup Pending : score[t] \in Int
    BY <1>2, <1>5, <1>6, InputAssumption
  <2>4. topk' \in TopSets(Merged \cup Pending, K)
    BY <1>1, <1>9, <1>t, <2>2, <2>3, MergeKeepsBest, SizeAssumption
  <2> QED
    BY <1>1, <2>1, <2>4 DEF BestSoFar, TopSets
<1>10. CASE ~merges
  <2>1. at # BatchChunks - 1 /\ ~last
    BY <1>10 DEF at
  <2>2. (chunk + 1) % BatchChunks = at + 1
    BY <1>7, <2>1
  <2>3. Merged' = {t \in 0 .. len - 1 : t \div ChunkSize < (chunk + 1) - (at + 1)}
    BY <1>1, <2>1, <2>2 DEF Merged
  <2>4. (chunk + 1) - (at + 1) = chunk - at
    BY <1>2, <1>3
  <2>5. Merged' = Merged
    BY <1>5, <2>3, <2>4
  <2> QED
    BY <1>1, <1>10, <1>t, <2>5 DEF BestSoFar, TopSets
<1> QED
  BY <1>9, <1>10

\* From the decoder on, top K and scores stay.
LEMMA OtherBest ==
  ASSUME BestSoFar, pc \notin {"idle", "score"}, pc' # "score",
         UNCHANGED <<len, score, topk>>
  PROVE  BestSoFar'
  BY DEF BestSoFar, Merged, TopSets

-----------------------------------------------------------------------------
(* The theorems.                                                           *)

\* What is selected is right at every step of the merge, and what is published
\* of it is right at every step of the update.
THEOREM SelectionSoundHolds == Spec => []SelectionSound
<1>1. Init => BestSoFar
  BY DEF Init, BestSoFar
<1>2. RowNeverStale /\ BestSoFar /\ [Next]_vars => BestSoFar'
  <2> SUFFICES ASSUME RowNeverStale, BestSoFar, [Next]_vars PROVE BestSoFar'
    OBVIOUS
  <2>1. ASSUME NEW n \in Lens, Call(n) PROVE BestSoFar'
    BY <2>1, CallBest
  <2>2. ASSUME NEW n \in Lens, SkipCall(n) PROVE BestSoFar'
    BY <2>2 DEF SkipCall, BestSoFar
  <2>3. CASE ScoreChunk
    BY <2>3, ScoreChunkBest
  <2>4. CASE Decode \/ Scan \/ ChoosePath
    BY <2>4, OtherBest DEF Decode, Scan, ChoosePath, callVars
  <2>5. CASE FastReplace \/ ReplaceByCandidate \/ ReplaceByFallback
    <3>1. pc \in {"fast", "slow"} /\ NextMiss /\ UNCHANGED <<len, score, topk>>
      BY <2>5 DEF FastReplace, ReplaceByCandidate, ReplaceByFallback, callVars
    <3> QED
      BY <3>1, OtherBest DEF NextMiss
  <2>6. CASE Publish
    BY <2>6 DEF Publish, BestSoFar
  <2>7. CASE UNCHANGED vars
    BY <2>7 DEF vars, BestSoFar, Merged, TopSets
  <2> QED
    BY <2>1, <2>2, <2>3, <2>4, <2>5, <2>6, <2>7 DEF Next, Work
<1> QED
  BY <1>1, <1>2, RowNeverStaleHolds, SelectionServedHolds, PTL DEF Spec, SelectionSound

\* Merging a few chunks at a time into a running top K loses nothing: K tokens
\* are published, and no other token of the sequence is better than any of them.
THEOREM TopKIsBestHolds == Spec => []TopKIsBest
<1>1. RowNeverStale /\ SelectionSound => TopKIsBest
  <2> SUFFICES ASSUME RowNeverStale, SelectionSound, pc = "publish"
               PROVE  /\ Cardinality(topk) = K
                      /\ topk = {index[i] : i \in 1 .. K}
                      /\ \A t \in topk, u \in (0 .. len - 1) \ topk : score[t] >= score[u]
    BY DEF TopKIsBest
  <2>1. topk \in TopSets(0 .. len - 1, K)
    BY DEF SelectionSound, BestSoFar, Merged
  <2>2. len \in Nat /\ K <= len /\ K \in Nat
    <3>1. TypeOK
      BY DEF RowNeverStale
    <3>2. len \in Lens /\ Accepts(len)
      BY <3>1, CallFacts
    <3>3. len \in Nat /\ C <= len /\ K <= C
      BY <3>2, LenFacts
    <3>4. K \in Nat /\ C \in Nat
      BY SizeAssumption
    <3> QED
      BY <3>3, <3>4
  <2>3. Cardinality(0 .. len - 1) = len
    BY <2>2, FS_Interval
  <2>4. Cardinality(topk) = K
    BY <2>1, <2>2, <2>3 DEF TopSets, Least
  <2>5. topk = {index[i] : i \in 1 .. K}
    BY DEF SelectionSound, SelectionServed, OrderOK, Selecting
  <2> QED
    BY <2>1, <2>4, <2>5 DEF TopSets
<1> QED
  BY <1>1, RowNeverStaleHolds, SelectionSoundHolds, PTL

-----------------------------------------------------------------------------
(* Cold tokens go first.                                                   *)

\* Where every marker packs to the invalid slot, the eligible tokens of a chunk
\* are its cached ones colder than the threshold.
LEMMA EligibleIsCold ==
  ASSUME TypeOK, OnlySlotsPacked
  PROVE  /\ \A t \in ColdCached : EvictField(t) < C /\ t \in Eligible(t \div ChunkSize)
         /\ \A c : Eligible(c) \subseteq ColdCached
<1>1. ASSUME NEW t \in 0 .. len - 1
      PROVE  /\ row[t] >= 0 <=> EvictField(t) # InvalidSlot
             /\ row[t] >= 0 => EvictField(t) < C
  <2>1. row[t] \in Slots \cup Unbound
    BY CallFacts DEF TypeOK
  <2>2. CASE row[t] \in Slots
    BY <2>2, PackSlot, SizeAssumption DEF EvictField, Slots
  <2>3. CASE row[t] \in Unbound
    <3>1. Pack(row[t]) = InvalidSlot /\ row[t] < 0 /\ row[t] \in Int
      BY <2>3, RowValues DEF OnlySlotsPacked
    <3> QED
      BY <3>1 DEF EvictField
  <2> QED
    BY <2>1, <2>2, <2>3
<1> QED
  BY <1>1 DEF Eligible, ChunkTokens, ColdCached

\* The scan meets the chunk of every token, whichever it starts with.
LEMMA AllChunksScanned ==
  ASSUME TypeOK, start \in 0 .. ChunkCount(len) - 1, NEW t \in 0 .. len - 1
  PROVE  \E o \in 0 .. ChunkCount(len) - 1 : ScanChunk(o) = t \div ChunkSize
<1> DEFINE num == ChunkCount(len)
           n == t \div ChunkSize
           o == IF n >= start THEN n - start ELSE n - start + num
<1>1. num \in Nat \ {0} /\ n \in 0 .. num - 1
  <2>1. num \in Nat \ {0} /\ len \in Nat
    BY CallFacts
  <2>2. t \in Nat /\ t < len
    BY <2>1
  <2>3. n < num
    BY <2>1, <2>2, ChunkOfToken, SizeAssumption DEF ChunkCount
  <2>4. n \in Nat
    BY <2>2, SizeAssumption
  <2> QED
    BY <2>1, <2>3, <2>4
<1> HIDE DEF n, num
<1>2. start \in 0 .. num - 1
  BY DEF num
<1>3. /\ o \in 0 .. num - 1 /\ start + o \in Nat
      /\ start + o = num * 0 + n \/ start + o = num * 1 + n
  BY <1>1, <1>2
<1>4. (start + o) % num = n
  <2>1. n \in Nat /\ num \in Nat \ {0} /\ n < num /\ 0 \in Nat /\ 1 \in Nat
    BY <1>1
  <2>2. (num * 0 + n) % num = n /\ (num * 1 + n) % num = n
    BY <2>1, Remainder
  <2> HIDE DEF o
  <2> QED
    BY <1>3, <2>2, Zenon
<1> QED
  BY <1>3, <1>4 DEF ScanChunk, num, n

\* The candidate buffer has room for one candidate per miss.
LEMMA CapCoversMisses ==
  TypeOK => CandidateCap \in Nat /\ missCount \in Nat /\ missCount <= CandidateCap
<1> SUFFICES ASSUME TypeOK
             PROVE  CandidateCap \in Nat /\ missCount \in Nat /\ missCount <= CandidateCap
  OBVIOUS
<1> DEFINE x == missCount + ChunkSize - 1
<1>1. missCount \in Nat /\ missCount <= K /\ K \in Nat /\ ChunkSize \in Nat \ {0} /\ x \in Nat
  <2>1. missCount \in 0 .. K /\ K \in Nat /\ ChunkSize \in Nat \ {0}
    BY SizeAssumption DEF TypeOK
  <2> QED
    BY <2>1
<1>2. x = ChunkSize * (x \div ChunkSize) + (x % ChunkSize) /\ x % ChunkSize \in 0 .. ChunkSize - 1
      /\ x \div ChunkSize \in Nat
  <2> HIDE DEF x
  <2> QED
    BY <1>1
<1> DEFINE p == (x \div ChunkSize) * ChunkSize
<1>3. p \in Nat /\ missCount <= p
  BY <1>1, <1>2
<1>4. CandidateCap = Least(p, K)
  BY DEF CandidateCap
<1> HIDE DEF p
<1> QED
  BY <1>1, <1>3, <1>4 DEF Least

\* The coldest k entries of a finite set that are fewer than k are all of it.
LEMMA FewColdAreAll ==
  ASSUME NEW S, IsFiniteSet(S), NEW k \in Nat, NEW B \in ColdSets(S, k)
  PROVE  /\ B \subseteq S /\ Cardinality(B) \in Nat /\ Cardinality(S) \in Nat
         /\ Cardinality(B) < k => B = S
<1>1. B \in SUBSET S /\ Cardinality(B) = Least(k, Cardinality(S))
  BY DEF ColdSets
<1>2. Cardinality(S) \in Nat /\ Cardinality(B) \in Nat
  BY <1>1, FS_Subset, FS_CardinalityType
<1>3. Cardinality(B) < k => Cardinality(S) = Cardinality(B)
  BY <1>1, <1>2 DEF Least
<1> QED
  BY <1>1, <1>2, <1>3, FS_Subset

\* The scan keeps every cold token it meets until it has enough of them, and
\* has met all when it ends without.
LEMMA ScanCold ==
  ASSUME RowNeverStale, OnlySlotsPacked, ScanKeepsCold, Scan
  PROVE  ScanKeepsCold'
<1> DEFINE num == ChunkCount(len)
           step == IF CandidateCap = ChunkSize THEN BatchChunks ELSE 1
           next == scanOffset + Least(step, stop - scanOffset)
           found == UNION {Eligible(ScanChunk(o)) : o \in scanOffset .. next - 1}
<1>1. /\ pc = "scan" /\ cands' \in ColdSets(cands \cup found, CandidateCap)
      /\ scanOffset' = next
      /\ stop' = IF stop = num /\ EnoughCold(cands')
                   THEN next + Least(ExtraChunks, num - next) ELSE stop
      /\ pc' = IF next < stop' THEN "scan" ELSE "choose"
      /\ UNCHANGED <<row, missCount, start, len, score, threshold>>
  BY DEF Scan, callVars
<1>t. TypeOK /\ CandidatesOK
  BY DEF RowNeverStale
<1>2. found \subseteq ColdCached /\ cands \subseteq ColdCached /\ IsFiniteSet(ColdCached)
  <2>1. IsFiniteSet(0 .. len - 1)
    BY <1>t, CallFacts, FS_Interval
  <2>2. IsFiniteSet(ColdCached)
    BY <2>1, FS_Subset DEF ColdCached
  <2>3. \A c : Eligible(c) \subseteq ColdCached
    BY <1>t, EligibleIsCold
  <2> QED
    BY <1>1, <2>2, <2>3 DEF ScanKeepsCold
<1>3. /\ ColdCached' = ColdCached /\ \A c : Eligible(c)' = Eligible(c)
      /\ \A o : ScanChunk(o)' = ScanChunk(o)
  BY <1>1 DEF ColdCached, Eligible, ChunkTokens, EvictField, ScanChunk
<1> HIDE DEF found
<1>4. /\ num \in Nat \ {0} /\ scanOffset \in 0 .. num /\ stop \in 0 .. num
      /\ next \in 0 .. num
  <2>1. num \in Nat \ {0} /\ scanOffset \in 0 .. num /\ stop \in 0 .. num /\ step \in Nat
    BY <1>t, CallFacts, SizeAssumption DEF TypeOK
  <2> HIDE DEF num, step
  <2> QED
    BY <2>1 DEF Least
<1>5. IsFiniteSet(cands \cup found)
  BY <1>2, FS_Subset
<1>6. cands' \subseteq cands \cup found
  BY <1>1 DEF ColdSets
<1>7. ASSUME ~EnoughCold(cands')
      PROVE  cands' = cands \cup found /\ ~EnoughCold(cands)
  <2>1. CandidateCap \in Nat /\ missCount \in Nat /\ missCount <= CandidateCap
    BY <1>t, CapCoversMisses
  <2>2. Cardinality(cands') \in Nat /\ (Cardinality(cands') < CandidateCap => cands' = cands \cup found)
    BY <1>1, <1>5, <2>1, FewColdAreAll
  <2>3. cands' = cands \cup found
    BY <1>7, <2>1, <2>2 DEF EnoughCold
  <2>4. Cardinality(cands) <= Cardinality(cands') /\ Cardinality(cands) \in Nat
    BY <1>5, <2>3, FS_Subset, FS_CardinalityType
  <2> QED
    BY <1>7, <2>1, <2>2, <2>3, <2>4 DEF EnoughCold
<1>8. EnoughCold(cands)' = EnoughCold(cands')
  BY <1>1 DEF EnoughCold
<1>9. ASSUME ~EnoughCold(cands')
      PROVE  stop' = num /\ ScannedEligible' \subseteq cands'
  <2>1. stop = num /\ ScannedEligible \subseteq cands
    BY <1>1, <1>7, <1>9 DEF ScanKeepsCold
  <2>2. stop' = num
    BY <1>1, <1>9, <2>1
  <2>3. ASSUME NEW t \in ScannedEligible' PROVE t \in cands'
    <3>1. PICK o \in 0 .. next - 1 : t \in Eligible(ScanChunk(o))
      BY <1>1, <1>3 DEF ScannedEligible
    <3>2. o \in 0 .. scanOffset - 1 \/ o \in scanOffset .. next - 1
      BY <1>4
    <3>3. t \in ScannedEligible \/ t \in found
      BY <3>1, <3>2 DEF ScannedEligible, found
    <3> QED
      BY <1>7, <1>9, <2>1, <3>3
  <2> QED
    BY <2>2, <2>3
<1>10. ASSUME pc' = "choose", ~EnoughCold(cands')
       PROVE  ColdCached \subseteq cands'
  <2>1. scanOffset' = num
    BY <1>1, <1>4, <1>9, <1>10
  <2>2. ASSUME NEW t \in ColdCached PROVE t \in cands'
    <3>1. t \in 0 .. len - 1 /\ start \in 0 .. num - 1
      BY <1>1 DEF ColdCached, ScanKeepsCold
    <3>2. PICK o \in 0 .. num - 1 : ScanChunk(o) = t \div ChunkSize
      BY <1>t, <3>1, AllChunksScanned
    <3>3. t \in Eligible(ScanChunk(o))
      BY <1>t, <3>2, EligibleIsCold
    <3>4. t \in ScannedEligible'
      BY <1>3, <2>1, <3>2, <3>3 DEF ScannedEligible
    <3> QED
      BY <1>9, <1>10, <3>4
  <2> QED
    BY <2>2
<1>11. start' \in 0 .. ChunkCount(len)' - 1
  BY <1>1 DEF ScanKeepsCold, ChunkCount
<1>12. ChunkCount(len)' = num
  BY <1>1 DEF ChunkCount
<1> QED
  BY <1>2, <1>3, <1>6, <1>8, <1>9, <1>10, <1>11, <1>12, <1>1 DEF ScanKeepsCold

\* Every candidate that is unpacked is usable, so each serves a miss.
LEMMA ChoosePathCold ==
  ASSUME RowNeverStale, OnlySlotsPacked, ScanKeepsCold, ChoosePath
  PROVE  PlanHasCold'
<1>t. TypeOK
  BY DEF RowNeverStale
<1>1. PICK p \in ColdOrders(cands) :
         plan' = [i \in DOMAIN p |-> [tok |-> p[i], slot |-> EvictField(p[i])]]
  BY DEF ChoosePath
<1>2. /\ pc = "choose" /\ candCursor' = 1 /\ missIdx' = 1
      /\ UNCHANGED <<row, missCount, cands, len, score, threshold>>
  BY DEF ChoosePath, scanVars, callVars
<1>3. /\ p \in Injection(1 .. Cardinality(cands), cands) /\ DOMAIN plan' = 1 .. Cardinality(cands)
      /\ \A i \in DOMAIN plan' : plan'[i] = [tok |-> p[i], slot |-> EvictField(p[i])]
  BY <1>1 DEF ColdOrders, Injection, IsInjective, Injective
<1>4. /\ IsFiniteSet(cands) /\ Cardinality(cands) \in Nat
      /\ Cardinality(1 .. Cardinality(cands)) = Cardinality(cands)
  <2>1. IsFiniteSet(0 .. len - 1)
    BY <1>t, CallFacts, FS_Interval
  <2>2. IsFiniteSet(cands)
    BY <1>t, <2>1, FS_Subset DEF TypeOK
  <2> QED
    BY <1>t, <2>2, CandidateCount
<1>5. \A t \in cands : \E i \in 1 .. Cardinality(cands) : p[i] = t
  <2>1. p \in Surjection(1 .. Cardinality(cands), cands)
    BY <1>3, <1>4, FS_Injection
  <2> QED
    BY <2>1 DEF Surjection
<1>6. ASSUME NEW i \in DOMAIN plan' PROVE Usable(plan[i])'
  <2>1. p[i] \in cands /\ p[i] \in ColdCached
    BY <1>2, <1>3 DEF Injection, ScanKeepsCold
  <2>2. p[i] < len /\ EvictField(p[i]) < C
    BY <1>t, <2>1, CallFacts, EligibleIsCold DEF ColdCached
  <2> QED
    BY <1>2, <1>3, <2>2 DEF Usable
<1>7. candCursor' = Least(missIdx', Cardinality(cands') + 1)
  BY <1>2, <1>4 DEF Least
<1>8. ASSUME ~EnoughCold(cands)', NEW t \in ColdCached'
      PROVE  \E i \in DOMAIN plan' : i >= candCursor' /\ plan'[i].tok = t
  <2>1. ~EnoughCold(cands) /\ t \in ColdCached
    BY <1>2, <1>8 DEF EnoughCold, ColdCached
  <2>2. t \in cands
    BY <1>2, <2>1 DEF ScanKeepsCold
  <2>3. PICK i \in 1 .. Cardinality(cands) : p[i] = t
    BY <1>5, <2>2
  <2>4. i >= 1 /\ plan'[i].tok = t
    BY <1>3, <1>4, <2>3
  <2> QED
    BY <1>2, <1>3, <2>3, <2>4
<1> QED
  BY <1>6, <1>7, <1>8 DEF PlanHasCold, Least

\* Serving a miss takes no other cold token's slot away, and gives none to one.
LEMMA ServesCold ==
  ASSUME RowNeverStale, NEW v, NEW s, Serves(v, s),
         UNCHANGED <<score, threshold>>
  PROVE  \A t \in ColdCached' : t \in ColdCached /\ t # v
<1>t. TypeOK /\ SelectionOK
  BY DEF RowNeverStale
<1>1. /\ index[missIdx] \in topk /\ row'[v] = None
      /\ \A t \in Tokens : t # v /\ t # index[missIdx] => row'[t] = row[t]
  BY ServesRow
<1>2. \A t \in topk : threshold <= score[t]
  BY <1>t DEF SelectionOK, Serves
<1>3. len' = len /\ 0 .. len - 1 \subseteq Tokens
  BY <1>t, CallFacts DEF Serves
<1> SUFFICES ASSUME NEW t \in ColdCached' PROVE t \in ColdCached /\ t # v
  OBVIOUS
<1>4. t \in 0 .. len - 1 /\ row'[t] >= 0 /\ score[t] < threshold
  BY <1>3 DEF ColdCached
<1>5. t # v
  BY <1>1, <1>4 DEF None
<1>6. t # index[missIdx]
  <2>1. score[t] \in Int /\ threshold \in Int
    BY <1>4, <1>t, InputAssumption DEF TypeOK
  <2> QED
    BY <1>1, <1>2, <1>4, <2>1
<1> QED
  BY <1>1, <1>3, <1>4, <1>5, <1>6 DEF ColdCached

\* The candidates are taken in turn.
LEMMA ReplaceByCandidateCold ==
  ASSUME RowNeverStale, PlanHasCold, ReplaceByCandidate
  PROVE  PlanHasCold'
<1>t. TypeOK /\ SelectionOK /\ PlanOK
  BY DEF RowNeverStale
<1>1. PICK i \in DOMAIN plan : /\ NextCandidate(i) /\ Rebind(plan[i].tok, plan[i].slot)
                               /\ slots' = [slots EXCEPT ![missIdx] = plan[i].slot]
                               /\ candCursor' = i + 1
  BY DEF ReplaceByCandidate
<1>2. /\ pc = "slow" /\ NextMiss
      /\ UNCHANGED <<len, index, missCount, topk, before, plan, cands, score, threshold>>
  BY DEF ReplaceByCandidate, scanVars, callVars
<1>3. /\ DOMAIN plan = 1 .. Cardinality(cands) /\ Cardinality(cands) \in Nat
      /\ missIdx \in Nat /\ missIdx > 0 /\ missIdx' = missIdx + 1
      /\ candCursor = Least(missIdx, Cardinality(cands) + 1)
      /\ \A j \in DOMAIN plan : Usable(plan[j])
  BY <1>2, <1>t, CandidateCount, MissFacts DEF PlanOK, PlanHasCold, NextMiss
<1>4. i = candCursor /\ i = missIdx
  <2>1. i >= candCursor /\ \A j \in DOMAIN plan : ~(j >= candCursor /\ j < i)
    BY <1>1, <1>3 DEF NextCandidate
  <2>2. candCursor = missIdx /\ candCursor \in DOMAIN plan
    BY <1>3, <2>1 DEF Least
  <2> QED
    BY <1>3, <2>1, <2>2
<1>5. candCursor' = Least(missIdx', Cardinality(cands') + 1)
  BY <1>1, <1>2, <1>3, <1>4 DEF Least
<1>6. Serves(plan[i].tok, plan[i].slot)
  <2>1. i >= candCursor /\ Usable(plan[i])
    BY <1>1 DEF NextCandidate
  <2>2. /\ plan[i].tok \in 0 .. len - 1 /\ plan[i].slot \in Slots
        /\ row[plan[i].tok] = plan[i].slot /\ plan[i].tok \notin topk
    BY <1>2, <2>1, <1>t, CandidateIsVictim DEF PlanOK, Consumed
  <2> QED
    BY <1>1, <1>2, <2>2 DEF Serves
<1>7. ASSUME ~EnoughCold(cands)', NEW t \in ColdCached'
      PROVE  \E j \in DOMAIN plan' : j >= candCursor' /\ plan'[j].tok = t
  <2>1. t \in ColdCached /\ t # plan[i].tok
    BY <1>2, <1>6, ServesCold
  <2>2. ~EnoughCold(cands)
    BY <1>2, <1>7 DEF EnoughCold
  <2>3. PICK j \in DOMAIN plan : j >= candCursor /\ plan[j].tok = t
    BY <1>2, <2>1, <2>2 DEF PlanHasCold
  <2>4. j # i
    BY <2>1, <2>3
  <2>5. j >= i + 1
    BY <1>3, <1>4, <2>3, <2>4
  <2> QED
    BY <1>1, <1>2, <2>3, <2>5
<1>8. \A j \in DOMAIN plan' : Usable(plan[j])'
  BY <1>2, <1>3 DEF Usable
<1> QED
  BY <1>5, <1>7, <1>8 DEF PlanHasCold, Least

\* The fallback finds no cold token cached.
LEMMA NoColdLeft ==
  ASSUME RowNeverStale, PlanHasCold, ReplaceByFallback
  PROVE  ColdCached = {}
<1>t. TypeOK /\ SelectionOK /\ PlanOK
  BY DEF RowNeverStale
<1>1. pc = "slow" /\ \A i \in DOMAIN plan : ~NextCandidate(i)
  BY DEF ReplaceByFallback
<1>2. /\ DOMAIN plan = 1 .. Cardinality(cands) /\ Cardinality(cands) \in Nat
      /\ missIdx \in Nat /\ missIdx > 0 /\ missIdx <= missCount /\ missCount \in Nat
      /\ candCursor = Least(missIdx, Cardinality(cands) + 1)
      /\ \A j \in DOMAIN plan : Usable(plan[j])
  BY <1>1, <1>t, CandidateCount, MissFacts DEF PlanOK, PlanHasCold
<1>3. candCursor \notin DOMAIN plan
  <2>1. candCursor \in Int
    BY <1>2 DEF Least
  <2>2. SUFFICES ASSUME candCursor \in DOMAIN plan PROVE NextCandidate(candCursor)
    BY <1>1
  <2> QED
    BY <1>2, <2>1, <2>2 DEF NextCandidate
<1>4. Cardinality(cands) < missIdx /\ candCursor = Cardinality(cands) + 1
  BY <1>2, <1>3 DEF Least
<1>5. ~EnoughCold(cands)
  BY <1>2, <1>4 DEF EnoughCold
<1>6. \A t \in ColdCached : \E i \in DOMAIN plan : i >= candCursor /\ plan[i].tok = t
  BY <1>1, <1>5 DEF PlanHasCold
<1>7. \A i \in DOMAIN plan : ~(i >= candCursor)
  BY <1>2, <1>4
<1> QED
  BY <1>6, <1>7

\* After it there is still none.
LEMMA ReplaceByFallbackCold ==
  ASSUME RowNeverStale, SelectionServed, PlanHasCold, ReplaceByFallback
  PROVE  PlanHasCold'
<1>t. TypeOK /\ SelectionOK /\ PlanOK
  BY DEF RowNeverStale
<1>1. /\ pc = "slow" /\ NextMiss /\ candCursor' = Cardinality(DOMAIN plan) + 1
      /\ \A i \in DOMAIN plan : ~NextCandidate(i)
      /\ UNCHANGED <<len, missCount, plan, cands, score, threshold>>
  BY DEF ReplaceByFallback, scanVars, callVars
<1>2. /\ DOMAIN plan = 1 .. Cardinality(cands) /\ Cardinality(cands) \in Nat
      /\ Cardinality(DOMAIN plan) = Cardinality(cands)
      /\ missIdx \in Nat /\ missIdx > 0 /\ missIdx' = missIdx + 1
      /\ candCursor = Least(missIdx, Cardinality(cands) + 1)
      /\ \A j \in DOMAIN plan : Usable(plan[j])
  BY <1>1, <1>t, CandidateCount, MissFacts DEF PlanOK, PlanHasCold, NextMiss
<1>3. candCursor' = Least(missIdx', Cardinality(cands') + 1)
  <2>1. candCursor \in Int
    BY <1>2 DEF Least
  <2>2. candCursor \in DOMAIN plan => NextCandidate(candCursor)
    BY <1>2, <2>1 DEF NextCandidate
  <2>3. candCursor \notin DOMAIN plan
    BY <1>1, <2>2
  <2>4. Cardinality(cands) < missIdx
    BY <1>2, <2>3 DEF Least
  <2> QED
    BY <1>1, <1>2, <2>4 DEF Least
<1>4. ColdCached' = {}
  <2>1. PICK v, s : Serves(v, s)
    BY FallbackServes
  <2> QED
    BY <1>1, <2>1, ServesCold, NoColdLeft
<1>5. \A j \in DOMAIN plan' : Usable(plan[j])'
  BY <1>1, <1>2 DEF Usable
<1> QED
  BY <1>3, <1>4, <1>5 DEF PlanHasCold, Least

\* No candidate is as good as the last selected token.
LEMMA PlanStaysCold ==
  ASSUME RowNeverStale, PlanIsCold, [Next]_vars
  PROVE  PlanIsCold'
<1>t. TypeOK /\ CandidatesOK
  BY DEF RowNeverStale
<1>1. CASE pc' \notin {"fast", "slow"}
  BY <1>1 DEF PlanIsCold
<1>2. CASE ChoosePath
  <2>1. PICK p \in ColdOrders(cands) :
           plan' = [i \in DOMAIN p |-> [tok |-> p[i], slot |-> EvictField(p[i])]]
    BY <1>2 DEF ChoosePath
  <2>2. pc = "choose" /\ UNCHANGED <<score, threshold>>
    BY <1>2 DEF ChoosePath, callVars
  <2>3. p \in [1 .. Cardinality(cands) -> cands] /\ DOMAIN plan' = DOMAIN p
    BY <2>1 DEF ColdOrders
  <2>4. \A i \in DOMAIN plan' : (plan[i].tok)' = p[i] /\ p[i] \in cands
    BY <2>1, <2>3
  <2> QED
    BY <2>2, <2>4, <1>t DEF PlanIsCold, CandidatesOK
<1>3. CASE UNCHANGED <<plan, score, threshold>> /\ (pc' \in {"fast", "slow"} => pc' = pc)
  BY <1>3 DEF PlanIsCold
<1> QED
  BY <1>1, <1>2, <1>3 DEF Next, Work, Call, SkipCall, ScoreChunk, Decode, Scan, FastReplace,
     ReplaceByCandidate, ReplaceByFallback, NextMiss, Publish, callVars, vars

\* The invariant over all calls, for rows whose markers are all invalid slots.
THEOREM ColdLeftHolds ==
  ASSUME OnlySlotsPacked PROVE Spec => []ColdLeft
<1>1. Init => ColdLeft
  BY DEF Init, ColdLeft, ScanKeepsCold, PlanHasCold, PlanIsCold
<1>2. RowNeverStale /\ SelectionServed /\ ColdLeft /\ [Next]_vars => ColdLeft'
  <2> SUFFICES ASSUME RowNeverStale, SelectionServed, ColdLeft, [Next]_vars PROVE ColdLeft'
    OBVIOUS
  <2>t. TypeOK /\ ScanKeepsCold /\ PlanHasCold
    BY DEF RowNeverStale, ColdLeft
  <2>p. PlanIsCold'
    BY PlanStaysCold DEF ColdLeft
  <2>1. CASE pc' \notin {"scan", "choose", "slow"}
    BY <2>1, <2>p DEF ColdLeft, ScanKeepsCold, PlanHasCold
  <2>2. CASE Decode /\ pc' \in {"scan", "choose", "slow"}
    <3>1. /\ pc' = "scan" /\ start' \in 0 .. ChunkCount(len) - 1
          /\ scanOffset' = 0 /\ stop' = ChunkCount(len) /\ cands' = {} /\ len' = len
      BY <2>2 DEF Decode
    <3>2. ScannedEligible' = {}
      BY <3>1, <2>p DEF ScannedEligible
    <3>3. ChunkCount(len)' = ChunkCount(len)
      BY <3>1, <2>p DEF ChunkCount
    <3> QED
      BY <3>1, <3>2, <3>3, <2>p DEF ColdLeft, ScanKeepsCold, PlanHasCold
  <2>3. CASE Scan
    <3>1. ScanKeepsCold' /\ pc' # "slow"
      BY <2>3, <2>t, ScanCold DEF Scan
    <3> QED
      BY <3>1, <2>p DEF ColdLeft, PlanHasCold
  <2>4. CASE ChoosePath
    <3>1. PlanHasCold' /\ pc' \in {"fast", "slow"}
      BY <2>4, <2>t, ChoosePathCold DEF ChoosePath, HasFullPrefix
    <3> QED
      BY <3>1, <2>p DEF ColdLeft, ScanKeepsCold
  <2>5. CASE (ReplaceByCandidate \/ ReplaceByFallback) /\ pc' \in {"scan", "choose", "slow"}
    <3>1. PlanHasCold' /\ pc' \notin {"scan", "choose"}
      BY <2>5, <2>t, ReplaceByCandidateCold, ReplaceByFallbackCold
      DEF ReplaceByCandidate, ReplaceByFallback, NextMiss
    <3> QED
      BY <3>1, <2>p DEF ColdLeft, ScanKeepsCold
  <2>6. CASE (\E n \in Lens : Call(n) \/ SkipCall(n)) \/ ScoreChunk \/ FastReplace \/ Publish
    BY <2>1, <2>6 DEF Call, SkipCall, ScoreChunk, FastReplace, NextMiss, Publish
  <2>7. CASE UNCHANGED vars
    BY <2>7, <2>t, <2>p DEF vars, ColdLeft, ScanKeepsCold, PlanHasCold, ColdCached, ScannedEligible,
       Eligible, ScanChunk, ChunkTokens, EvictField, EnoughCold, Usable, ChunkCount
  <2> QED
    BY <2>1, <2>2, <2>3, <2>4, <2>5, <2>6, <2>7 DEF Next, Work
<1> QED
  BY <1>1, <1>2, RowNeverStaleHolds, SelectionServedHolds, PTL DEF Spec

\* A token as good as the last selected one gives up its slot only when no
\* strictly colder token is cached any more, however early the scan stopped
\* and wherever it began.
THEOREM ColdGoFirstHolds ==
  ASSUME OnlySlotsPacked PROVE Spec => ColdGoFirst
<1> DEFINE Kept ==
      \A t \in 0 .. len - 1 :
        pc \in {"fast", "slow"} /\ row[t] >= 0 /\ row'[t] < 0 /\ score[t] >= threshold
          => \A u \in 0 .. len - 1 : row[u] >= 0 => score[u] >= threshold
<1>1. ASSUME RowNeverStale, NEW v, NEW s, Serves(v, s), score[v] < threshold PROVE Kept
  <2>1. /\ \A t \in Tokens : t # v /\ t # index[missIdx] => row'[t] = row[t]
        /\ row[index[missIdx]] < 0
    BY <1>1, ServesRow
  <2>2. /\ 0 .. len - 1 \subseteq Tokens /\ row \in [Tokens -> Slots \cup Unbound]
        /\ v \in 0 .. len - 1 /\ score[v] \in Int /\ threshold \in Int
    BY <1>1, CallFacts, InputAssumption DEF Serves, RowNeverStale, TypeOK
  <2> SUFFICES ASSUME NEW t \in 0 .. len - 1, row[t] >= 0, row'[t] < 0 PROVE t = v
    BY <1>1, <2>2
  <2>3. row[t] \in Int /\ t # index[missIdx]
    BY <2>1, <2>2, RowValues
  <2> QED
    BY <2>1, <2>2, <2>3
<1>2. ASSUME RowNeverStale, ColdLeft, ReplaceByFallback PROVE Kept
  <2>1. ColdCached = {}
    BY <1>2, NoColdLeft DEF ColdLeft
  <2>2. \A u \in 0 .. len - 1 : score[u] \in Int /\ threshold \in Int
    BY <1>2, InputAssumption DEF RowNeverStale, TypeOK
  <2> QED
    BY <2>1, <2>2 DEF ColdCached
<1>3. ASSUME RowNeverStale, ColdLeft, FastReplace PROVE Kept
  <2>1. Serves(plan[missIdx].tok, slots[missIdx]) /\ pc = "fast"
    BY <1>3, FastServes
  <2>2. missIdx \in DOMAIN plan
    BY <1>3, <2>1, MissFacts DEF RowNeverStale, FastOK
  <2>3. score[plan[missIdx].tok] < threshold
    BY <1>3, <2>1, <2>2 DEF ColdLeft, PlanIsCold
  <2> QED
    BY <1>1, <1>3, <2>1, <2>3
<1>4. ASSUME RowNeverStale, ColdLeft, ReplaceByCandidate PROVE Kept
  <2>1. PICK i \in DOMAIN plan : Serves(plan[i].tok, plan[i].slot) /\ pc = "slow"
    BY <1>4, CandidateServes
  <2>2. score[plan[i].tok] < threshold
    BY <1>4, <2>1 DEF ColdLeft, PlanIsCold
  <2> QED
    BY <1>1, <1>4, <2>1, <2>2
<1>5. RowNeverStale /\ ColdLeft /\ [Next]_vars => Kept
  <2> SUFFICES ASSUME RowNeverStale, ColdLeft, [Next]_vars PROVE Kept
    OBVIOUS
  <2>1. CASE FastReplace \/ ReplaceByCandidate \/ ReplaceByFallback
    BY <1>2, <1>3, <1>4, <2>1
  <2>2. CASE ~(FastReplace \/ ReplaceByCandidate \/ ReplaceByFallback)
    <3>1. row' = row \/ pc \notin {"fast", "slow"}
      BY <2>2 DEF Next, Call, SkipCall, Work, ScoreChunk, Decode, Scan, ChoosePath, Publish, vars
    <3>2. \A t \in 0 .. len - 1 : row[t] \in Int
      BY CallFacts, RowValues DEF RowNeverStale, TypeOK
    <3> QED
      BY <3>1, <3>2
  <2> QED
    BY <2>1, <2>2
<1>6. RowNeverStale /\ ColdLeft /\ [Next]_vars => [Kept]_vars
  BY <1>5
<1> QED
  BY <1>6, RowNeverStaleHolds, ColdLeftHolds, PTL DEF Spec, ColdGoFirst
=============================================================================
