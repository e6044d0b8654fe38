# Verification of the fused_li_manage operators

TLA+ models, TLC runs and TLAPS proofs for the two Ascend NPU operators of this
repository: `fused_li_manage` (lightning indexer, top-2048 selection and HBM
cache management in one kernel launch) and `fused_li_manage_mtp`, its variant for
four query routes that share one cache row.  A decode step asks
the operator, for every request of a batch, which 2048 tokens of the sequence the
sparse attention should read, which of them are not in the request's HBM cache,
and which cached tokens give up their slots for them.  The cache bookkeeping is a
row of `cache_slots_pool`, updated in place by every call and never rebuilt, so an
error in one call is still there in every later one.

Abbreviations, under `src/csrc/nanovllm_ascend_ops/ops/`:

| | |
|---|---|
| K, SV, V, CU, T | in `fused_li_manage/`: `fused_li_manage_kernel.h`, `_service_vector.h`, `_vector.h`, `_service_cube.h`, `_tiling.cpp` |
| MK, MSV, MVV, MC | in `fused_li_manage_mtp/op_kernel/`: `lightning_indexer_kernel.h`, `_service_vector.h`, `_vector.h`, `_service_cube.h` |
| OA, AD, MAD | `../common/torch_adapter/op_api_common.h` and the two torch adapters, `fused_li_manage_torch_adpt.h` and its MTP twin |
| MU, MW, ME | with MK: `fused_li_manage_mtp_union.h`, `fused_li_manage_mtp_workspace.h` and the entry, `nanovllm_fused_li_manage_mtp.cpp` |

## 1. The system

| Part | State | Operations | Talks to | Hard behaviour |
|---|---|---|---|---|
| Cache row update (SV, V) | `cache_slots_pool` row, top-K buffer, candidate buffer, cursors | ProcessVec, SortTopKBySlot, CopyDecodedPayloadOut, FindEvictCandidates, UpdateCacheAndWriteTopkSlots | reads matmul results and the row, writes the row and three outputs | packed codecs, ties, early stop of a circular scan, three eviction paths, in-place update over many calls |
| Scores, pairs and sorts (V, SV, MVV, MSV) | words of the vector core | DoScale, DoReduce, PrepareSortScore, TagLongIndex, the payload codecs, the second sorts, the decoders | hands token and slot lists to the cache update and to the union | 21-bit indices in 18 bits of payload and three of score, negated keys, padding |
| Batch scheduling (K, SV, T) | chunk shares, two partial result slots per core, result metadata, finalize request | ResolveBalancedSchedule, ProcessBalanced, ProcessBalancedMain, WritePartialTopK, FinalizePartialRequest, ProcessMain | cores share the workspace and one barrier | interleaving of cores, requests cut between cores, stale workspace, idle cores |
| Cube/vector hand-over (K, CU, SV) | two halves of `mm1ResGm`, two flag counters per core | ProcessChunk, opening flags, closing waits | cube core and two vector cores | units that run ahead, flags that outlive a launch |
| Cube core pipeline (CU, MC) | three key buffers, one or two query buffers, two L0 buffers, event flags | ComputeMm1, AllocEventID, FreeEventID | pipes MTE2, MTE1, M, FIX | buffers reused while another pipe lags behind |
| Host tiling (T) | none | checks, schedule mode, workspace size | kernels, through tiling data | two layouts that must agree |
| MTP indexer (MK, MSV) | head and tail part of each core, their parameters, scores | SplitCore, ProcessInvalid, ProcessMain, ProcessVec, ProcessDecode, ProcessLD | cores, through the workspace; the union | a request spread over several cores, a walk over their parts, requests of length zero |
| MTP union (MU) | list of misses, candidate accumulator | ProcessBatch, FindEvictCandidates, BuildEvictCandidateChunk, MergeEvictCandidateChunk, CompactValidCandidates, WriteEvictSlots | reads the published pairs, scores and thresholds, and the row | misses shared by routes, candidates that may turn out to be selected, too many misses |
| Asynchronous launch (OA, AD, MAD) | descriptors, huge memory of a thread, the closure, the stream a thread uses | EXEC_NPU_CMD_ORDERED | allocator, queue and streams of torch_npu, the tiling | a launch by another thread after the caller has returned, any step failing, limits of cores that belong to streams |
| Torch bindings | none | schemas, argument checks | torch | none |
| Tests | none | build_case, validate_outputs | the operators | state what a call promises |

What makes each part correct:

* **cache row update** - the row stays a permutation of the request's C slots; the
  selection is a best K of the whole sequence; the miss prefix is exactly what the
  row lacked; every selected token ends up cached; no selected token is evicted;
  hot tokens are evicted only when no cold one is left; every call ends.
* **scheduling** - each request is answered exactly once, from all its chunks and
  nothing else, after everybody has stopped reading its old row; two result slots
  per core suffice; idle cores do not block the barrier.
* **hand-over** - a result is read whole, before it is overwritten; no deadlock; a
  launch leaves no flag behind.
* **cube core** - a product is made from the key block and the query it is meant
  for; the event flags balance; no pipe waits for ever.
* **scores and pairs** - what is decoded from the sorted words is a top K of the true
  sums over the heads, with the right slots; misses lead; no candidate for eviction
  is selected and none is lost, however long the sequence.
* **tiling** - the regions the kernel lays out are disjoint and fit.
* **launch** - a pending launch owns its memory; what a call creates it gives back
  unless it throws; a kernel finds its regions in the workspace it was given and as
  many cores as it has blocks.
* **MTP indexer** - each request is answered or cleaned by exactly one core, from
  all its blocks; a walk finds the end of its sequence; nobody reads a result that
  is not there yet.
* **MTP union** - the list of misses is the union and nothing else; binding the
  misses to the slots offered keeps the row a permutation with everything selected
  in it; slots are offered for all misses or for none.

## 2. Modules

| Module | What it is |
|---|---|
| `CacheUpdate` | one row over any number of calls, one action per phase of the handler |
| `CachePromise` | the abstract specification: what a call promises, as `validate_outputs` of `ut_ops/test_fused_li_manage.py` states it |
| `CacheUpdateInv` | the assumption on the packed slot field and the three inductive invariants |
| `CacheUpdate_proofs` | the proofs: the row; the selection, the outputs and the refinement of `CachePromise`; the order of eviction |
| `MCCacheUpdate`, `MCCacheUpdateInv` | instances for TLC |
| `BalancedSchedule` | one launch of fused_li_manage over all cores |
| `BalancedSchedule_proofs` | its proofs |
| `CrossCorePipe` | flags and result halves inside one core, over launches |
| `ResultQueue` | the abstract specification of the hand-over: a bounded queue |
| `CrossCorePipe_proofs` | its proofs |
| `CubePipe` | the four pipes of one cube core, over launches of either operator |
| `CubePipe_proofs` | its proofs |
| `MtpSplit` | one launch of MTP over all cores, up to the union |
| `MtpSplit_proofs` | its proofs |
| `MtpUnion`, `MCMtpUnion` | the union of one request and its instance for TLC |
| `MtpUnion_proofs` | its proofs |
| `PackedTopK`, `MCPackedTopK` | the words of one request and query: scores, tags, payloads, keys, decoders |
| `PackedTopK_proofs` | its proofs |
| `WorkspaceLayout` | size and regions of the workspace of either operator, as operators |
| `OrderedLaunch`, `MCOrderedLaunch` | a call on the host up to the end of its kernel; composes with `WorkspaceLayout` |
| `OrderedLaunch_proofs` | proofs about the layout and the launch |

The modules meet where the parts do.  What `BalancedSchedule` and `MtpSplit` call
the answer of a request, a set of chunks, is the top K that `CacheUpdate` and
`MtpUnion` start from; `CrossCorePipe` justifies that they may take the score of a
chunk as given, and `CubePipe` that it was computed from the chunk's keys.
`PackedTopK` justifies that `CacheUpdate` and `MtpUnion` may treat a sort key as a
number and a pair as its token and slot.  `OrderedLaunch` asks `WorkspaceLayout` for
sizes and is what brings the launches about that the kernels' modules start with.

### CacheUpdate

The variables are the buffers of the handler (`topk` is `globalTopkUb_`, `cands`
the entries of `evictCandidateUb_` above `stopKey`, `plan` the same buffer once
it is read item by item, and so on; the declarations name each one).  `row` is
the row of `cache_slots_pool` and the only state that outlives a call, with the
published outputs.  The actions follow the handler:

| Action | Code |
|---|---|
| `Call`, `SkipCall` | ProcessMain's checks of one request (K:274-306), CleanEmptyRequest |
| `ScoreChunk` | ProcessVec for one chunk: sort, and every fourth chunk or at the end merge (SV:803-872) |
| `Decode` | threshold, SortTopKBySlot, CopyDecodedPayloadOut, set-up of the scan |
| `Scan` | one iteration of either loop of FindEvictCandidates, with the batch of four chunks or the single one, and the early stop |
| `ChoosePath` | the packed fast path's unpacking, its check, and its clean-up when the check fails |
| `FastReplace`, `ReplaceByCandidate`, `ReplaceByFallback` | one iteration of the miss loops; the last one is FindFallbackEvict |
| `Publish` | the outputs, and return |

Abstractions: a sort key is an element of a small set of integers; the vector
sorters leave the order of equal keys open and so does the model (`TopSets`,
`ColdOrders`); the start chunk, a hash of length and row number, is any chunk;
the payload of a sort pair is the token and the 14-bit field of its entry, and
`Pack`/`Unpack`/`Normalised` do to the field what the shifts do.  The batch size
of a merge, the number of extra chunks, K and the chunk size are constants.

### BalancedSchedule

Requests differ only in their number of chunks, zero for a row that is not
processed.  A top-K result is the set of chunks it was merged from, `Stale` for
what an earlier launch left; this is enough to see a missing, a foreign or a
stale part.  The three phases of ProcessBalanced are states of each core
(`init`, `main`, `sync`, `tail`), ProcessMain is the state `local`.  One step is
one chunk, so that cores interleave between chunks; a row is rewritten in the
step that answers its request.

### CrossCorePipe

A flag is a counter.  Scalar units run ahead of the pipes: a wait blocks the
scalar unit (`Issue`, `AwaitResult`, `Drain`), while a flag is raised when the
pipe it is queued on gets there (`EndWrite`, `Release`).  A write and a read take
two steps, so that an overlap is visible.  The cube core's wait needs a flag from
both vector cores (mode 2), of which the odd one only passes flags on.  Flags
survive a launch; the next launch starts with what is left.

### CubePipe

Each pipe is a process that executes its instructions in program order, and a
flag is a counter between two of them.  A launch is given by its number of query
buffers (one in fused_li_manage, two in MTP), the tiles of each key block, and the
blocks that begin a segment, a run of chunks of one request.

| Actions | Code |
|---|---|
| `BeginKey`, `EndKey`, `BeginQuery`, `EndQuery` | KeyNd2NzForPA and QueryNd2Nz of ComputeMm1: wait for the buffer, copy, raise "loaded" |
| `BeginBlock`, `BeginTile`, `EndTile`, `EndBlock` | LoadQueryToL0a, LoadKeyToL0b and what stands around them; `ReleasesQuery` is the test for the last block of a segment |
| `BeginProduct`, `EndProduct`, `Fixp` | ComputeL0c, and the copy of its result |
| `FreeKeys`, `FreeL0` and the waits in MTE2 and MTE1 at the end | FreeEventID |
| `Launch` | the next kernel on this core, with AllocEventID |

The order of M and FIX on one tile is kept by the hardware (`unitFlag`), so it is
modelled as given: FIX takes the oldest product that M has finished, and M does
not start one on a buffer whose product is still there.  What a buffer holds is
the number of its block or segment, not its layout.

### MtpSplit

A request is a number of blocks; a result is, as in `BalancedSchedule`, the set
of blocks it was merged from.  `SplitCore` gives the shares in the closed form of
the loop in the code: first core's share, remainder, where a share begins when the
last one ended with a request; where a request begins is a running sum (`Base`).  A
core passes `init`, `main`, `sync`, `merge`, `walk`, `publish`, `union`; a core
without blocks cleans its slice of the batch if the batch is empty altogether
(ProcessInvalid), and joins both barriers.  The parts of an earlier launch are still
in the workspace at the start.  The hand-over between cube and vector core is that
of `CrossCorePipe` and not repeated.

### MtpUnion

One request after the first barrier of the union: row, scores and the routes' top
Ks are given.  `BuildUnion` is the first part of ProcessBatch, the binary search for
each route's miss prefix and the merge; `BeginFind` and `ScanBatch` are
FindEvictCandidates and `WriteEvictSlots` the function of that name, with the two
accumulators (`KeepColdest` at `CandidateCap`), the re-check of every candidate
against scores and thresholds, and the writing of slots, or of -1.  A candidate is represented by its token: the slot packed with it comes from the
same row, which nobody writes during the launch.  The model assumes as many tokens
as are selected (K <= Actual), as the tests do.

A candidate stands for its token here; how it is packed is `PackedTopK`'s subject,
and so is the padding of a list shorter than K.

### PackedTopK

One request and one query of either operator (`mtp`).  A score is an integer; the
sign-magnitude words of floats order alike, so clearing and adding tag bits acts on
the magnitude (`TagScore`), which raises a positive and lowers a negative score.  Both
zeros are one number.  A payload is the unsigned word with the slot field over the
low index bits, taken through the same shifts and masks as the code; the padding's is
`AllOnes`.  A group of bits is given by the number of its values (`IndexSize` is 2^18,
`HighSize` 2^3, `FieldSize` 2^14 in the code), so a shift is a product or a quotient and
a mask a remainder.  `Sum`, `Power` and the rounds of `DoReduce` are recursive functions
over the loops' counters.  `ScoreChunk` is ProcessVec up to the merge of one chunk (the caching of
four chunks is in `CacheUpdate` and `MtpSplit`), `PublishList` the threshold, the
second sort and the decoding, `FindEvictCandidates` the keys of all chunks and what
`UpdateCacheAndWriteTopkSlots` makes of those above the stop key; in which order they
are scanned and used is `CacheUpdate`'s subject.

### WorkspaceLayout and OrderedLaunch

`WorkspaceSize` is DoTiling's sum for the `UsedCores` of a batch, `DecodeRegions` and
`MtpRegions` are where the kernels place their regions.

`OrderedLaunch` follows the macro EXEC_NPU_CMD_ORDERED from line to line.  `Begin` is
the adapter's checks, the stream, InitHugeMem and the descriptors; `AskSize`,
`Allocate` and `Enqueue` go on in the calling thread, each with the failure that
leaves the macro by an exception (`SizeFails`, `OutOfMemory`); `Launch`,
`LaunchFails` and `Release` are the closure in the thread of the queue; `Drop` is the
caller letting go of its tensors.  Memory is a set of blocks per stream, and a block
is free when nothing refers to it any more.  Assumed of the outside: a tensor is used
on the stream it was allocated on (nothing in the code records another); the queue
and each stream work first in, first out; a thread sees the core limit of the stream
whose resources it took last, which is what UseStreamResIfNeeded is for; a kernel
with more blocks than cores never ends, because its blocks meet in SyncAll (of
fused_li_manage in balanced mode only; the model takes it to be so always).

## 3. Runs

| Run | Bounds | Question |
|---|---|---|
| `cache_core` | five one-token chunks, K = 2, C = 3, merges of two chunks, one extra chunk, two keys, every first row, lengths 5 and 0 (skipped) | everything a call promises, and `CachePromise` |
| `cache_bindings` | two-token chunks, lengths 4 and 5, K = 2, C = 3, free bindings -1 and -C, a field of eight values | negative entries are kept apart from slots; growth, a short last chunk, termination |
| `sched` | 3 cores, 2, 4 or 6 requests of 0..3 chunks, 7 in all, local mode tolerates one extra chunk, old metadata names request 1 | both schedules, in every interleaving |
| `pipe` | launches of 0..5 chunks | flags, halves, queue, termination |
| `cube` | launches of up to 5 blocks of 1 or 2 tiles in any segments; 3 key, 1 or 2 query, 2 L0 buffers | operands, event flags, termination |
| `mtp_split` | 4 cores, 3 requests of 0..4 blocks, merges of 2 | shares, walk, barriers, termination |
| `mtp_union` | 7 tokens in chunks of 2, two routes, K = 3, room for 4 misses, batches of 3 chunks, 2, 3 or 5 cached tokens, scores 0..3 | the two lists, and termination |
| `vector` | 2 index bits (`IndexSize` 4), 1 tag bit, 3 slot bits, chunks of 2, K = 3, lengths 2, 4 and 5, 1 or 3 slots, five heads in groups of three, sums -3, -1, 2, 3 | codec, sorts and decoders of both operators |
| `launch` | 2 calling threads, 2 calls, 2 streams with 2 and 3 cores and 3 blocks each, both operators | memory, clean-up, workspace, end of every launch |
| `cache_zero_marker` | as `cache_bindings`, with another marker | finding |
| `mtp_empty` | 2 cores, 2 requests of 0..2 blocks | finding |
| `mtp_tie` | 5 one-token chunks, K = 2, 3 cached tokens, two routes | finding |

Why these bounds are enough to meet the interesting cases.

* *Cache.*  With K = 2 and C = 3 a call has zero, one or two misses, one cached
  token outside the top K or more, and ties at the threshold with two keys; the
  fast path, the candidate path and the fallback are all taken, also in one call
  (candidates that run out after the first miss); five chunks make the scan wrap
  and stop early with chunks left.  Every first row is an initial state of
  `cache_core`; in `cache_bindings` the first C tokens are bound in order, and what
  the calls make of them is open.
* *Schedule.*  Three cores and seven chunks give requests that lie in one core,
  that are cut once, that are cut twice (a core with nothing but a middle part),
  cores whose share has two cut ends, and cores without work.
* *Hand-over, cube core.*  Five chunks are more than twice the depth of the result
  buffer; five blocks use every key buffer again, and segments of one block follow
  each other as well as segments of five.
* *MTP.*  Four cores and up to twelve blocks give walks over the parts of three
  other cores and empty requests at the front, in the middle and at the end.  In
  `mtp_union` one route's scores rise and fall and the other's are any wave of any
  phase, so that the routes agree, disagree and tie; seven tokens in chunks of two
  end in a short chunk, a batch of three does not divide four chunks, and up to six
  misses exceed the room for four.

* *Codec.*  Five tokens over two index bits put a tagged token next to a token with
  the same low bits; with one tag bit the sums 2 and 3 tie and -1 is cleared to zero;
  length 4 is the last without tags and its token 3 has the payload of the padding,
  length 2 needs padding, length 5 ends in a short chunk.  Five heads in groups of
  three fill the accumulation over groups and the fold of DoReduce.
* *Launch.*  Two calls are enough for one to take memory the other gave up and for the
  queue to hold launches of streams with different limits; batches fill the cores of
  one stream and not of the other; three blocks for two calls make the allocator fail.

The type invariants `TypeOK` are defined in each module; `mtp_union` checks its own, and
that of `CacheUpdate` and that of `MtpUnion` are proved.  The properties:

* `CachePermutation` (every state, not only between calls), `TopKIsBest`,
  `PublishedMatchesRow` (with it: every miss served), `MissPrefixExact` - the
  results of a call.
* `SelectedNeverEvicted`, `ColdGoFirst`, `OnlyCachedEvicted` - what a step may
  never do to the row.
* `PromiseKept` - `CacheUpdate` implements `CachePromise`: the row a caller sees
  changes in one abstract step, whatever the handler did in between.
* `AnswersAreWhole`, `AnsweredOnce`, `PartialSlotsFit`, `RowStableWhileScored` -
  the schedule.
* `ReadsItsChunk`, `FlagsDrained`, `QueueKept` - the hand-over.
* `OperandsMatch`, `EventsTakenBack` - the cube core.
* `AnswersAreWhole`, `HandledOnce`, `WalkStaysInside` - the MTP indexer.
* `UnionExact`, `Applicable`, `AllOrNothing`, `ColdestScannedGo` - the union.
* `ListIsTopK`, `MissesLead`, `ColdExact` - the codec: what is decoded against the
  true sums and the row.
* `OwnMemory`, `LeaksOnlyOnThrow`, `RegionsFit` - the launch.  The second states what
  the code does, clean-up on the paths that do not throw and on no other.
* `CallsEnd`, `LaunchEnds`, `Finishes`, `EveryLaunchRuns` - termination.
* `RowNeverStale`, `Accounting` - inductive invariants of the proofs, checked as well.

`ColdGoFirst` is asked of `cache_core` only, and proved for the rows that run has, those
whose markers pack to the invalid slot (`OnlySlotsPacked`; -1 does).  It does not hold of
rows with free bindings: the scan takes their entries for candidates, may stop early
because of them, and the fallback then takes any unselected token (TLC finds it within
the bounds of `cache_bindings`).  That costs a hot token its place but none of the
promises above.

Deadlock is checked in every run but `launch`, where callers may stop calling.  `Returned` in the modules of
one launch is the end of that launch, so a core that waits for ever is still a
deadlock.

Fairness.  `CacheUpdate`: weak fairness of the handler's steps, a launched kernel
being executed to its end; nothing obliges a caller to call.  `BalancedSchedule`,
`MtpSplit` and `MtpUnion`: weak fairness of the next-state relation only; in one
launch every core makes finitely many steps, so it is enough that something goes on
as long as some core can.  `CrossCorePipe` and `CubePipe`: weak fairness of each
scalar unit and each pipe, which is hardware that executes its queue; none is
assumed to be faster than another.  `Launch` is not fair.  `OrderedLaunch`: weak
fairness of the queue's thread and of each stream, which work as long as there is
something to do; callers owe nothing, and a call that never returns is one nobody
waits for.  `PackedTopK` has safety properties only and no fairness.

## 4. Findings

* **cache_zero_marker** (code).  SV:305 says that both -65536 and the bindings -s
  are normalised to one invalid slot.  The scoring pass does so; the evict scan
  (SV:436) shifts the raw entry, and the 14 low bits of -65536 are slot 0.  A cold
  token marked so is evicted "from" slot 0 although another token holds it, and
  two tokens end up with slot 0.  Entries -s are safe as long as 2^14 - s is not a
  slot, which `FieldAssumption` states and the proofs use.
* **mtp_empty** (code).  ME:32 says that all four top Ks are published before a
  union is computed.  A request of length zero gets -1 in `topk_index` (MK:357) and
  nothing else; its union is nevertheless built, from whatever pairs and scores
  are there.
* **mtp_tie** (documentation).  MU:282 refuses a candidate whose score equals a
  route's threshold, although of several such tokens only some are selected.  The
  test of the operator counts every unselected cached token as eligible and fails
  on a negative slot when there are enough; with ties the kernel returns them.
Two limits the proofs rest on are not findings of a run.  K:295 says the kernel does
not depend on a fixed C, but a cache of 16384 slots has one that reads as
`INVALID_SLOT14`; only the tests cap C at 16383, and `FieldAssumption` says so.
T:239 lets 64 heads pass for both operators, but with them MTP lays out tiles of 512
rows (MK:184) where the host (T:298) and MW count on 256; only the adapter insists on
32, which is the mutant of `RegionsFit` and the hypothesis `Served` of its proof.

## 5. Proofs

TLAPS checks, for all values of the constants under the named assumptions:

| Module | Theorems |
|---|---|
| `CacheUpdate_proofs` | `RowNeverStaleHolds`, `TypeCorrect`, `CachePermutationHolds`, `OnlyCachedEvictedHolds`; `SelectionSoundHolds`, `TopKIsBestHolds`, `SelectionServedHolds`, `PublishedMatchesRowHolds`, `MissPrefixExactHolds`, `SelectedNeverEvictedHolds`, `PromiseImplemented`; `ColdLeftHolds`, `ColdGoFirstHolds` |
| `BalancedSchedule_proofs` | `AnswersAreWholeHolds`, `AnsweredOnceHolds`, `PartialSlotsFitHolds`, `RowStableWhileScoredHolds` |
| `CrossCorePipe_proofs` | `AccountingHolds`, `ReadsItsChunkHolds`, `FlagsBoundedHolds`, `FlagsDrainedHolds`, `QueueImplemented` |
| `CubePipe_proofs` | `OperandsMatchHolds`, `EventsTakenBackHolds` |
| `MtpSplit_proofs` | `AnswersAreWholeHolds`, `HandledOnceHolds`, `WalkStaysInsideHolds` |
| `MtpUnion_proofs` | `TypeOKHolds`, `UnionExactHolds`, `ColdestScannedGoHolds`, `AllOrNothingHolds`, `ApplicableHolds` |
| `PackedTopK_proofs` | `PackedInvHolds`, `ListIsTopKHolds`, `MissesLeadHolds`, `ColdExactHolds` |
| `OrderedLaunch_proofs` | `ServedFits`, `RegionsFitHolds`, `OwnMemoryHolds`, `LeaksOnlyOnThrowHolds` |

Assumptions: `SizeAssumption` and `InputAssumption` of `CacheUpdate` (sizes are
naturals, scores integers, unbound entries negative), `FieldAssumption` (the
14-bit field tells the slots from the invalid slot and from the low bits of every
unbound entry: the condition the first finding violates), `BoundAssumption` of
`CrossCorePipe`, `SizeAssumption` of `BalancedSchedule` and of `MtpSplit`, `CubeAssumption` of `CubePipe`,
`MtpUnionAssumption` and `LaunchAssumption` (sizes and numbers of buffers, cores,
tokens or calls that are naturals, and finite sets); of `PackedTopK` the
`SizeAssumption` (positive sizes; a chunk divides the low index bits; K is below their
number, 2048 of 2^18; no sequence is longer than 21 bits can count), `RowAssumption`
(what `CachePermutation` and `FieldAssumption` say of a row) and `ProductAssumption`
(integers, as many for each token, with sums between the two infinities).  TLC
evaluates each of them in the passing runs.  The last two theorems of `CacheUpdate_proofs`
have a hypothesis of their own, `OnlySlotsPacked`.

*The row stays a permutation.*  `CachePermutation` alone is not inductive: the
handler works from copies.  A miss that is served must still be unbound, and a
candidate must still hold the slot packed with it, although the row changes
between the scan and its use.  `RowNeverStale` adds exactly this: the misses from
the current one on are unbound (`SelectionOK`); no candidate is in the top K,
because its key is strictly below the threshold (`CandidatesOK`), so serving a
miss never changes a candidate's entry; candidates are pairwise different and
those not consumed that pass the check on their slot still hold it (`PlanOK`),
which needs `FieldAssumption` because the check is made on the packed field; the
fast path has a usable candidate for every miss (`FastOK`).  The fallback cannot
invalidate a candidate because it starts only when none is left.  Each replacement
is then one exchange on a permutation (lemma `ReplacementPermutes`).

*The outputs are right.*  `SelectionServed` is inductive on top of
`RowNeverStale`.  Each of the three replacing steps is an instance of one
(`Serves`): a slot goes from a token outside the top K to the next miss; so hits
and misses served before keep theirs (`ServesKeeps`).  That there is such a token
is a count (`VictimExists`): if no token outside the top K were cached, the C slots
would all be held by selected tokens other than the miss, K - 1 at most, although
K <= C; and the linear search cannot have passed the last one, since what it has
passed stays unfit.  From the same invariant a finished call relates the row to
what it was before (`SinceCall`), which is the step `Serve` of `CachePromise`.

*The selection is best.*  `BestSoFar`: the running top K is one of the best K sets
of all tokens merged so far.  Its core is `MergeKeepsBest`, a best K of a best K
and the new chunks is a best K of everything; the rest is the arithmetic of batches
(`NextInBatch`) and of the last chunk (`ChunkOfToken`).

*Cold tokens go first.*  `ColdLeft` follows the cold tokens, cached and below the
threshold, from the scan to the fallback.  As long as the scan has fewer of them than
there are misses it has dropped none, since the buffer has room for one per miss
(`CapCoversMisses`, `FewColdAreAll`), and it does not stop early; when it ends so, it
has met every chunk, wherever it began (`AllChunksScanned`).  Where every marker packs
to the invalid slot each candidate is really cached and so serves a miss: the cursor
moves one by one with the misses.  When the candidates are used up before the misses,
there were too few, so these were all, and no cold token is cached any more
(`NoColdLeft`).  With enough candidates the fallback is not reached.

*The hand-over is a queue.*  `FlagsAddUp` is an account: the flags of a vector core
are those raised minus those spent and drained, and the cube core can be at most
two chunks ahead of the slower vector core.  `ResultsKept` says that the results
that wait to be read are all in the buffer; with at most two of them no write
touches one.  `ReadsItsChunk`, the bounds and the refinement of `ResultQueue`
follow.

*The regions fit.*  For the shapes of `Served`, all of fused_li_manage and MTP
with 32 heads, every region's bounds are sums of the same products as the
workspace's size; the products with the batch and the number of cores are named so
that linear arithmetic remains (`ServedFits`).  `RegionsFitHolds` carries this to
every launch of `OrderedLaunch`: its inductive invariant says that a call past its
size query has the size of the tiling its kernel will get, that its job passed the
adapter's checks, and that threads are in the call they think they are in, so that no
other call's step changes either (`OthersKeep`).

*A pending launch owns its memory.*  `Owned` is inductive: a descriptor or block is
referred to by its own call as long as that call waits, a call is in one place of the
queue and the streams at most, and one thread is in one call.  What a call allocates
was free, so nobody else's (`OwnMemory`), and what it leaves behind is what its
exceptional exits skip (`LeaksOnlyOnThrow`).

*The shares of a batch.*  In `BalancedSchedule` the bases of the requests are running
sums, and the shares of the cores lie end to end over the batch, so each chunk belongs
to one request and one core.  From this: a request that is cut has one core with its
head (`HeadUnique`), its parts are those on the cores from there to the one with its
last chunk and make up the whole (`RequestServed`, `CutParts`), and a core has parts
of two cut requests at most, the end of one before the head of another
(`CutsOrdered`), which is why two result slots suffice.  `ScheduleInv` says of each
core what it has scored, which result slots hold which parts, with the metadata naming
nothing else once it has been initialised, and whom it will finalize; that no core is
behind the barrier while another is before it is what makes a finalizing core find all
parts, and a row stable while it is read.  `LocalInv` says the same of the other mode.

*The walk over the parts.*  In `MtpSplit` a request is whole on one core, or one core
has its head and the cores behind that one join it in order up to the one with its
last block (`OwnerUnique`, `NextJoins`).  `SplitInv` says of each core how far it is in
its share, what it has merged of the part it is in (the cached blocks are the last
ones, `MergedFacts`), and what it has left behind: an answer to a request of its own,
a part where its merging core looks for any other.  Nobody walks before all cores have
passed the first barrier, so all parts are there; a walk has merged exactly the blocks
before the core it has come to, and the first part marked as the end is the last one.
Empty requests have no blocks to follow: each lies among the rows of exactly one core
(`CleanUnique`, `CleanServed`), or in one slice when the whole batch is empty
(`SliceFacts`), and no row is cleaned by both.

*The cube core's buffers are rings.*  `CubeInv` says one thing of keys, queries, L0
operands and products alike (`Ring`): the uses under way are consecutive and in
different buffers, a buffer's flag is down exactly while it is used, and it holds what
its use was meant to put there.  The flags that announce data do not say what has
arrived: MTE1 takes one for a block and two for the first of a segment.  `Arrived`
accounts for them, and with the order in which MTE2 loads (`Ahead`) the count is enough
to know that key and query are both there.  At the end of a launch the account is
empty, so the next begins like the first, of either operator.

*The union.*  `UnionInv` rests on three facts about the algorithms: the binary search
ends at the last miss (`SearchEnds`), so the merged prefixes are the ascending list of
all misses (`UnionOfMisses`); the accumulator of fixed size keeps the coldest of
everything scanned (`MergeKeepsColdest`); and a scan that does not stop early meets
every token, whatever chunk it starts with (`AllScanned`).  A candidate that passes the
check against the thresholds is selected by no route, so binding the misses to what is
offered is an exchange of slots (`Applicable`).

*The words.*  A field of a word is a quotient or a remainder, and there is only one of
each (`Quotient`); so a payload gives back its slot and low index bits (`Packed`), and
any word with a token's tag together with its payload gives back the token
(`IndexRead`), be the score negative, negated or turned into a key.  Tags in place of
the lowest bits do not turn the order of the scores they are put in (`TagOrder`).  The
sum over rows is the same before and after each fold (`FoldSum`), and `HighestBit`
starts the folds where one row is left at the end, so `DoReduce` after `DoScale` is the
sum over all heads (`ScoreIsSum`), whether or not the last group is full.  `PackedInv`
then says that the pairs kept are those of a top K of the tokens seen (`MergeBest`),
and of the list that it shows the kept tokens.  `SortedList` counts: with K places, as
many of them pairs of the top K as there are such pairs, each pair has one place and
the rest is padding, which is read as no token.  Misses have greater keys than hits
(`MissKeys`), so they are the prefix that the miss count measures (`Prefix`).

Sums and searches that the code computes by loops are recursive functions; what they
compute is proved from the least counterexample, not by the induction theorems.

Only model-checked: liveness (`CallsEnd`, `LaunchEnds`, `Finishes`,
`EveryLaunchRuns`), which with ENABLED is outside the prover's reach.  Every invariant
and action property of the passing runs, and both refinements, are proved.

## 6. Not modelled

* The matmul and its ReLU, and rounding: `PackedTopK` starts from weighted results
  and adds them exactly.  In the other modules scores are arbitrary keys.
* Top-K-only mode and metadata groups: the registered entry passes the defaults.
* Masked and TND layouts of MTP, which its entry never selects; the flags between
  its cube and vector cores, which are used as in `CrossCorePipe`; the union of lists
  with padding (`PackedTopK` shows where the padding stands in such a list).
* The paging of keys and their layout in L1 and L0.  The events between the pipes
  of one vector core: within a chunk the vector core waits for each transfer.
* The requirement that a batch names each pool row once: the tests assert it of
  their inputs, the operator does not check it, and the models assume it.
* Shape and dtype checks, registration, shape inference, build files, vendored
  CANN headers: stateless or not part of the operators.
* Of OA: the search for the libraries and their entry points, which is done once and
  keeps no other state, failures of UseStreamResIfNeeded, which happen before anything
  exists or end like a failed launch, descriptors of scalars and lists, which no
  operator passes, and EXEC_NPU_CMD, which neither adapter uses.

## 7. Plan

1. *Core*: `CacheUpdate` with `CachePromise`; `BalancedSchedule`;
   `CrossCorePipe` with `ResultQueue`; their first proofs.  Done.
2. *MTP*: `MtpSplit` and `MtpUnion`.  Done; an abstract promise of its own, like
   `CachePromise`, is left.
3. *Cube core*: `CubePipe`, and its proofs.  Done.
4. *Host and words*: `WorkspaceLayout`, `OrderedLaunch`, `PackedTopK`.  Done.
5. *Proofs*: every safety property of the passing runs.  Done; termination stays with
   TLC.
