-------------------------- MODULE BalancedSchedule --------------------------
(***************************************************************************)
(* One launch of fused_li_manage over all AI cores: how the chunks of the  *)
(* batch are dealt out (fused_li_manage_kernel.h: Process and what it      *)
(* calls), how a request cut between cores leaves partial top-K results in *)
(* the workspace, and how one core merges them after the barrier           *)
(* (WritePartialTopK and FinalizePartialRequest of                         *)
(* fused_li_manage_service_vector.h).                                      *)
(*                                                                         *)
(* A core is the cube core with its even vector core.  A top-K result is   *)
(* represented by the set of chunks it was merged from; Stale stands for   *)
(* what an earlier launch left in the workspace.                           *)
(***************************************************************************)
EXTENDS Integers, FiniteSets, Functions

CONSTANTS
  NumCores,       \* aicNum, the blocks of the launch
  BatchSizes,     \* numbers of requests a batch may have
  MaxChunks,      \* bound on the chunks of a request
  MaxTotal,       \* bound on the chunks of the batch
  LocalExtra,     \* LOCAL_EXTRA_CHUNK_THRESHOLD (20)
  OldMeta         \* requests the metadata of an earlier launch may name

None == -1
Cores == 0 .. NumCores - 1
SlotsPerCore == 2                \* PARTIAL_SLOTS_PER_CORE
ResultSlots == 0 .. NumCores * SlotsPerCore - 1
Stale == {None}

ASSUME SizeAssumption ==
  /\ NumCores \in Nat \ {0} /\ BatchSizes \subseteq Nat \ {0}
  /\ MaxChunks \in Nat /\ MaxTotal \in Nat /\ LocalExtra \in Nat
  /\ OldMeta \subseteq Nat \cup {None} /\ OldMeta # {}

VARIABLES
  batch,         \* batchSize
  chunks,        \* chunks[b]: GetChunkCount(b), zero for a row not processed
  base,          \* base[b]: requestChunkBase, the chunks of the requests before b
  pc,            \* pc[c]: where core c is
  done,          \* done[c]: chunks or, in local mode, requests finished
  acc,           \* acc[c]: globalTopkUb_ of the segment being processed
  partialSlot,   \* partialSlot[c]
  meta,          \* partialMetaGm, per result slot
  partial,       \* partialTopkGm, per result slot
  finalize,      \* finalizeRequestIdx of each core
  answer,        \* answer[b]: what was published for request b
  answers        \* answers[b]: how often (missCountGm[b] was written)

Requests == 0 .. batch - 1

load == <<batch, chunks, base>>
vars == <<load, pc, done, acc, partialSlot, meta, partial, finalize, answer, answers>>

Least(a, b) == IF a <= b THEN a ELSE b
Greatest(a, b) == IF a >= b THEN a ELSE b

-----------------------------------------------------------------------------
(* The split of the batch.                                                 *)

\* Chunks are numbered across the batch; request b has base[b] .. End(b) - 1.
Total == base[batch]
End(b) == base[b] + chunks[b]

\* Chunks of core c when the requests are dealt out whole.
RequestsPerCore == batch \div NumCores
LocalLoad(c) ==
  SumFunctionOnSet(chunks, c * RequestsPerCore .. (c + 1) * RequestsPerCore - 1)

\* The host asks for balancing unless the batch divides evenly; then the
\* kernel balances only if a core would be LocalExtra chunks over the average.
Balanced ==
  \/ batch % NumCores # 0
  \/ \E c \in Cores :
        LocalLoad(c) > (Total + NumCores - 1) \div NumCores + LocalExtra

Active == Least(NumCores, Total)
PerCore == IF Active = 0 THEN 0 ELSE Total \div Active
Extra == IF Active = 0 THEN 0 ELSE Total % Active
ChunkStart(c) == IF c < Active THEN c * PerCore + Least(c, Extra) ELSE 0
ChunkShareTruncated(c) == IF c < Active THEN PerCore ELSE 0    \* mutant: remainder lost
ChunkShare(c) == IF c < Active THEN PerCore + (IF c < Extra THEN 1 ELSE 0) ELSE 0
ChunkEnd(c) == ChunkStart(c) + ChunkShare(c)

\* The part of request b that falls to core c, as chunk numbers of b.
SegStart(c, b) == Greatest(ChunkStart(c), base[b]) - base[b]
SegEnd(c, b) == Least(ChunkEnd(c), End(b)) - base[b]
IsPartialHeadOnly(c, b) == SegStart(c, b) # 0    \* mutant: a cut-off tail is not seen
IsPartialAlways(c, b) == TRUE    \* mutant: every segment goes through the workspace
IsPartial(c, b) == SegStart(c, b) # 0 \/ SegEnd(c, b) # chunks[b]

RequestOf(g) == CHOOSE b \in Requests : base[b] <= g /\ g < End(b)

\* The core that owns the last chunk of request b (lastOwner of ProcessBalanced).
LastOwnerEven(b) == (End(b) - 1) \div (PerCore + 1)    \* mutant: all shares taken as large
LastOwner(b) ==
  LET last == End(b) - 1
      large == Extra * (PerCore + 1)
  IN  IF last < large THEN last \div (PerCore + 1)
      ELSE Extra + (last - large) \div PerCore

Whole(b) == 0 .. chunks[b] - 1

-----------------------------------------------------------------------------
\* requestChunkBase, as it is stepped from request to request.
RequestChunkBase(count, sizes) ==
  LET upTo[b \in 0 .. count] == IF b = 0 THEN 0 ELSE upTo[b - 1] + sizes[b - 1]
  IN  upTo

Init ==
  /\ batch \in BatchSizes
  /\ chunks \in [Requests -> 0 .. MaxChunks]
  /\ base = RequestChunkBase(batch, chunks)
  /\ Total <= MaxTotal
  /\ pc = [c \in Cores |-> IF Balanced THEN "init" ELSE "local"]
  /\ done = [c \in Cores |-> 0]
  /\ acc = [c \in Cores |-> {}]
  /\ partialSlot = [c \in Cores |-> 0]
  /\ \E b \in OldMeta : meta = [r \in ResultSlots |-> b]
  /\ partial = [r \in ResultSlots |-> Stale]
  /\ finalize = [c \in Cores |-> None]
  /\ answer = [b \in Requests |-> {}]
  /\ answers = [b \in Requests |-> 0]

Publish(b, result) ==
  /\ answer' = [answer EXCEPT ![b] = result]
  /\ answers' = [answers EXCEPT ![b] = @ + 1]

\* InitPartialMetadata
SkipPartialMetadata(c) ==    \* mutant: the metadata of earlier launches is kept
  /\ pc[c] = "init" /\ pc' = [pc EXCEPT ![c] = "main"]
  /\ UNCHANGED <<load, done, acc, partialSlot, meta, partial, finalize, answer, answers>>
InitPartialMetadata(c) ==
  /\ pc[c] = "init"
  /\ meta' = [r \in ResultSlots |-> IF r \div SlotsPerCore = c THEN None ELSE meta[r]]
  /\ pc' = [pc EXCEPT ![c] = "main"]
  /\ UNCHANGED <<load, done, acc, partialSlot, partial, finalize, answer, answers>>

\* The segment is complete: a whole request is answered at once, a part of one
\* goes to the core's next result slot (WritePartialTopK).
EndSegment(c, b, result) ==
  IF IsPartial(c, b)
    THEN LET r == c * SlotsPerCore + partialSlot[c]
         IN  /\ meta' = [meta EXCEPT ![r] = b]
             /\ partial' = [partial EXCEPT ![r] = result]
             /\ partialSlot' = [partialSlot EXCEPT ![c] = @ + 1]
             /\ UNCHANGED <<answer, answers>>
    ELSE Publish(b, result) /\ UNCHANGED <<meta, partial, partialSlot>>

\* The core that has the head of a request it does not finish will merge it.
TouchesCut(c, b) == IsPartial(c, b)    \* mutant: every owner of a part finalizes
OwnsHead(c, b) == SegStart(c, b) = 0 /\ SegEnd(c, b) < chunks[b]

\* One ProcessChunk of ProcessBalancedMain / ProcessRequestSegment.
BalancedChunk(c) ==
  /\ pc[c] = "main" /\ done[c] < ChunkShare(c)
  /\ LET g == ChunkStart(c) + done[c]
         b == RequestOf(g)
         k == g - base[b]
         result == (IF k = SegStart(c, b) THEN {} ELSE acc[c]) \cup {k}
     IN  /\ acc' = [acc EXCEPT ![c] = result]
         /\ finalize' = [finalize EXCEPT ![c] = IF OwnsHead(c, b) THEN b ELSE @]
         /\ IF k + 1 = SegEnd(c, b)
              THEN EndSegment(c, b, result)
              ELSE UNCHANGED <<meta, partial, partialSlot, answer, answers>>
  /\ done' = [done EXCEPT ![c] = @ + 1]
  /\ UNCHANGED <<load, pc>>

\* SyncAll: a core waits once its share is done, and all leave together.
ArriveSyncActive(c) ==    \* mutant: a core without chunks does not join the barrier
  /\ pc[c] = "main" /\ done[c] = ChunkShare(c) /\ c < Active
  /\ pc' = [pc EXCEPT ![c] = "sync"]
  /\ UNCHANGED <<load, done, acc, partialSlot, meta, partial, finalize, answer, answers>>
ArriveSync(c) ==
  /\ pc[c] = "main" /\ done[c] = ChunkShare(c)
  /\ pc' = [pc EXCEPT ![c] = "sync"]
  /\ UNCHANGED <<load, done, acc, partialSlot, meta, partial, finalize, answer, answers>>

SyncSome ==    \* mutant: the barrier opens for those that have arrived
  /\ \E c \in Cores : pc[c] = "sync"
  /\ pc' = [c \in Cores |-> IF pc[c] = "sync" THEN "tail" ELSE pc[c]]
  /\ UNCHANGED <<load, done, acc, partialSlot, meta, partial, finalize, answer, answers>>
SyncAll ==
  /\ \A c \in Cores : pc[c] = "sync"
  /\ pc' = [c \in Cores |-> "tail"]
  /\ UNCHANGED <<load, done, acc, partialSlot, meta, partial, finalize, answer, answers>>

\* The rows without chunks are dealt out round robin; those of core c.
EmptyRowsActive(c) ==    \* mutant: only the cores that have chunks clean
  IF c < Active THEN {b \in Requests : b % NumCores = c /\ chunks[b] = 0} ELSE {}
EmptyRows(c) == {b \in Requests : b % NumCores = c /\ chunks[b] = 0}

\* CleanEmptyRequest writes only the zero miss count.
CleanEmpty(c) ==
  /\ pc[c] = "tail"
  /\ \E b \in EmptyRows(c) :
        /\ answers[b] = 0 /\ \A a \in EmptyRows(c) : a < b => answers[a] # 0
        /\ answers' = [answers EXCEPT ![b] = @ + 1]
  /\ UNCHANGED <<load, pc, done, acc, partialSlot, meta, partial, finalize, answer>>

\* The result slots FinalizePartialRequest finds for request b.
PartialsOf(c, b) ==
  {r \in ResultSlots : r \div SlotsPerCore \in c .. LastOwner(b) /\ meta[r] = b}

Finalize(c) ==
  /\ pc[c] = "tail" /\ \A b \in EmptyRows(c) : answers[b] # 0
  /\ LET b == finalize[c]
     IN  IF b # None /\ PartialsOf(c, b) # {}
           THEN Publish(b, UNION {partial[r] : r \in PartialsOf(c, b)})
           ELSE UNCHANGED <<answer, answers>>
  /\ pc' = [pc EXCEPT ![c] = "done"]
  /\ UNCHANGED <<load, done, acc, partialSlot, meta, partial, finalize>>

\* The last chunk of a request of its own: the top K is published and dropped.
EndLocalRequest(c, b, result) ==
  /\ Publish(b, result)
  /\ acc' = [acc EXCEPT ![c] = {}]
  /\ done' = [done EXCEPT ![c] = @ + 1]

\* ProcessMain: core c works through its own requests, without a barrier.
LocalRequest(c) ==
  /\ pc[c] = "local" /\ done[c] < RequestsPerCore
  /\ LET b == c * RequestsPerCore + done[c]
         k == Cardinality(acc[c])
     IN  IF chunks[b] = 0
           THEN /\ answers' = [answers EXCEPT ![b] = @ + 1]
                /\ done' = [done EXCEPT ![c] = @ + 1]
                /\ UNCHANGED <<acc, answer>>
           ELSE IF k + 1 < chunks[b]
             THEN acc' = [acc EXCEPT ![c] = @ \cup {k}] /\ UNCHANGED <<done, answer, answers>>
             ELSE EndLocalRequest(c, b, acc[c] \cup {k})
  /\ UNCHANGED <<load, pc, partialSlot, meta, partial, finalize>>

LocalEnd(c) ==
  /\ pc[c] = "local" /\ done[c] = RequestsPerCore
  /\ pc' = [pc EXCEPT ![c] = "done"]
  /\ UNCHANGED <<load, done, acc, partialSlot, meta, partial, finalize, answer, answers>>

CoreStep(c) ==
  \/ InitPartialMetadata(c) \/ BalancedChunk(c) \/ ArriveSync(c)
  \/ CleanEmpty(c) \/ Finalize(c) \/ LocalRequest(c) \/ LocalEnd(c)

AllDone == \A c \in Cores : pc[c] = "done"
Returned == AllDone /\ UNCHANGED vars

Next == (\E c \in Cores : CoreStep(c)) \/ SyncAll \/ Returned

Spec == Init /\ [][Next]_vars

\* As long as some core can go on, or a barrier can open, something happens.
FairSpec == Spec /\ WF_vars(Next)

-----------------------------------------------------------------------------
(* Properties.                                                             *)

TypeOK ==
  /\ batch \in BatchSizes /\ chunks \in [Requests -> 0 .. MaxChunks]
  /\ pc \in [Cores -> {"init", "main", "sync", "tail", "local", "done"}]
  /\ done \in [Cores -> 0 .. Greatest(Total, batch)]
  /\ acc \in [Cores -> SUBSET (0 .. MaxChunks - 1)]
  /\ partialSlot \in [Cores -> Nat]
  /\ meta \in [ResultSlots -> Requests \cup OldMeta \cup {None}]
  /\ finalize \in [Cores -> Requests \cup {None}]
  /\ answers \in [Requests -> Nat]

\* A request is answered with the top K of all its chunks and nothing else:
\* no part is missing, none is merged twice under another request's name and
\* nothing stale from an earlier launch gets in.
AnswersAreWhole ==
  \A b \in Requests : answers[b] > 0 => answer[b] = Whole(b)

\* No request is answered twice, and at the end of the launch each has been
\* answered: by a core of its own, by the one merging core, or, for a row that
\* is not processed, by one core's zero miss count.
AnsweredOnce ==
  \A b \in Requests : answers[b] <= 1 /\ (AllDone => answers[b] = 1)

\* A core never needs a third result slot, which would be its neighbour's.
PartialSlotsFit ==
  \A c \in Cores : partialSlot[c] <= SlotsPerCore

\* The cache row of a request is rewritten when it is answered; no core may
\* still have a chunk of it to score against the old row.
RowStableWhileScored ==
  \A c \in Cores : pc[c] = "main" =>
    \A g \in ChunkStart(c) + done[c] .. ChunkEnd(c) - 1 : answers[RequestOf(g)] = 0

\* The launch ends: every core reaches the barrier and leaves it.
LaunchEnds == <>AllDone
=============================================================================
