-------------------------- MODULE CacheUpdateInv ---------------------------
(***************************************************************************)
(* Why CacheUpdate keeps the row a permutation of its slots, serves every  *)
(* selected token and evicts cold tokens first: the conditions on the      *)
(* packed slot field it depends on, and the invariants that are inductive  *)
(* under them.                                                             *)
(***************************************************************************)
EXTENDS CacheUpdate

\* The 14-bit field tells every slot of the request from InvalidSlot and from
\* the low bits of every negative entry the row may hold.
ASSUME FieldAssumption ==
  /\ C < SlotField
  /\ \A u \in Unbound : Pack(u) >= C

\* Between calls the scan is reset; while scoring, a chunk is left to score.
ProgressOK ==
  /\ pc = "idle" => scanOffset = 0 /\ stop = 0
  /\ pc = "score" => chunk < ChunkCount(len)

\* The published order lists tokens of the top K once each, the entries that
\* are still to be served are not bound, and no token of the top K is colder
\* than the threshold.
MissesFrom(i) == \A j \in i .. missCount : row[index[j]] < 0

SelectionOK ==
  pc \in {"scan", "choose", "fast", "slow"} =>
    /\ Injective(index) /\ \A i \in 1 .. K : index[i] \in topk
    /\ \A t \in topk : threshold <= score[t]
    /\ missCount > 0
    /\ MissesFrom(IF pc \in {"fast", "slow"} THEN missIdx ELSE 1)
    /\ pc \in {"fast", "slow"} => missIdx <= missCount

\* Candidates are colder than the threshold, hence outside the top K.
CandidatesOK ==
  pc \in {"scan", "choose"} => \A t \in cands : score[t] < threshold

\* A candidate not yet consumed whose unpacked entry passes the checks still
\* holds, in the row, the slot that was packed with it.
Consumed == IF pc = "fast" THEN missIdx ELSE candCursor

PlanOK ==
  pc \in {"fast", "slow"} =>
    /\ DOMAIN plan = 1 .. Cardinality(cands)
    /\ \A i, j \in DOMAIN plan : plan[i].tok = plan[j].tok => i = j
    /\ \A i \in DOMAIN plan : plan[i].tok \notin topk
    /\ \A i \in DOMAIN plan :
          i >= Consumed /\ Usable(plan[i]) => row[plan[i].tok] = plan[i].slot

\* The fast path has a valid candidate for every miss.
FastOK ==
  pc = "fast" =>
    \A i \in 1 .. missCount :
       i \in DOMAIN plan /\ Usable(plan[i]) /\ slots[i] = plan[i].slot

\* The inductive invariant: the row is a permutation because what the handler
\* remembers of it, the misses and the packed candidates, is never stale.
RowNeverStale ==
  /\ TypeOK /\ ProgressOK /\ CachePermutation
  /\ SelectionOK /\ CandidatesOK /\ PlanOK /\ FastOK

\* Why the outputs are right as well: the order lists the whole top K; what is
\* not a miss, and every miss served so far, is bound to the slot published
\* with it; and no token the fallback search has passed can be evicted.  Since
\* the call began, tokens that are not selected have kept or lost their slots,
\* and only selected ones have gained one.
Settled(i) == slots[i] \in Slots /\ row[index[i]] = slots[i]

SinceCall(t) ==
  \/ row[t] = before[t]
  \/ t \notin topk /\ row[t] = None
  \/ t \in topk /\ before[t] < 0

Selecting == pc \in {"scan", "choose", "fast", "slow", "publish"}

OrderOK ==
  /\ Cardinality(topk) <= K
  /\ pc \in {"score", "decode", "scan", "choose"} => row = before
  /\ Selecting =>
       /\ Injective(index) /\ \A i \in 1 .. K : index[i] \in topk
       /\ \A t \in topk : \E i \in 1 .. K : index[i] = t
       /\ \A i \in 1 .. K : i <= missCount <=> before[index[i]] < 0
       /\ \A t \in Tokens : SinceCall(t)

ServedOK ==
  /\ Selecting => \A i \in 1 .. K : i > missCount => Settled(i)
  /\ pc \in {"fast", "slow"} => \A i \in 1 .. K : i < missIdx => Settled(i)
  /\ pc = "slow" => \A t \in 0 .. fallback - 1 : ~IsVictim(t)
  /\ PublishedMatchesRow

SelectionServed == OrderOK /\ ServedOK

\* The running top K is a best K of the tokens merged into it: of the chunks
\* before those still pending, and in the end of all.
Merged ==
  IF pc = "score"
    THEN {t \in 0 .. len - 1 : t \div ChunkSize < chunk - (chunk % BatchChunks)}
    ELSE 0 .. len - 1

BestSoFar == pc # "idle" => topk \in TopSets(Merged, K)

SelectionSound == SelectionServed /\ BestSoFar
\* Why cold tokens go first where no entry but a slot passes for a candidate:
\* a scan that has not found enough has kept every cold token it has seen, all
\* in the end; every candidate serves a miss; and the fallback starts when the
\* last of them is used up.
OnlySlotsPacked == \A u \in Unbound : Pack(u) = InvalidSlot

ColdCached == {t \in 0 .. len - 1 : row[t] >= 0 /\ score[t] < threshold}
ScannedEligible == UNION {Eligible(ScanChunk(o)) : o \in 0 .. scanOffset - 1}

ScanKeepsCold ==
  /\ pc \in {"scan", "choose"} => cands \subseteq ColdCached
  /\ pc = "scan" => start \in 0 .. ChunkCount(len) - 1
  /\ pc = "scan" /\ ~EnoughCold(cands) =>
       stop = ChunkCount(len) /\ ScannedEligible \subseteq cands
  /\ pc = "choose" /\ ~EnoughCold(cands) => ColdCached \subseteq cands

PlanHasCold ==
  pc = "slow" =>
    /\ \A i \in DOMAIN plan : Usable(plan[i])
    /\ candCursor = Least(missIdx, Cardinality(cands) + 1)
    /\ ~EnoughCold(cands) =>
         \A t \in ColdCached : \E i \in DOMAIN plan : i >= candCursor /\ plan[i].tok = t

PlanIsCold ==
  pc \in {"fast", "slow"} => \A i \in DOMAIN plan : score[plan[i].tok] < threshold

ColdLeft == ScanKeepsCold /\ PlanHasCold /\ PlanIsCold
=============================================================================
