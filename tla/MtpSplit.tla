------------------------------ MODULE MtpSplit ------------------------------
(***************************************************************************)
(* One launch of fused_li_manage_mtp over all AI cores, up to the union of *)
(* the routes: SplitCore and the main loop of lightning_indexer_kernel.h,  *)
(* ProcessVec and ProcessLD of lightning_indexer_service_vector.h, and the *)
(* two barriers around them.                                               *)
(*                                                                         *)
(* Unlike in BalancedSchedule, a core that has the head of a request walks *)
(* from core to core over the parts that follow, until one is marked as    *)
(* the end of the sequence.  The four routes of a request are cut alike,   *)
(* so one result stands for all of them.  A result is the set of blocks it *)
(* was merged from; Stale stands for what an earlier launch left.          *)
(***************************************************************************)
EXTENDS Integers, FiniteSets

CONSTANTS
  NumCores,      \* cube cores of the launch
  BatchSize,     \* requests of the batch
  MinBlocks,     \* bounds on the blocks of 512 tokens of a request
  MaxBlocks,
  MergeBlocks    \* sorted blocks kept until they are merged (4)

None == -1
Cores == 0 .. NumCores - 1
Requests == 0 .. BatchSize - 1
Stale == {None}

ASSUME SizeAssumption ==
  /\ NumCores \in Nat \ {0} /\ BatchSize \in Nat \ {0} /\ MergeBlocks \in Nat \ {0}
  /\ MinBlocks \in Nat /\ MaxBlocks \in Nat /\ MinBlocks <= MaxBlocks

VARIABLES
  blocks,       \* blocks[b]: of request b, zero when its length is zero
  split,        \* split[c]: splitCoreInfo, computed by SplitCore
  pc,           \* pc[c]: where core c is
  row, block,   \* bN2LoopIdx and s2LoopIdx of each core
  first,        \* first[c]: gloop is still 0
  start,        \* start[c]: blockS2StartIdx_
  cached,       \* cached[c]: blocks in SortedBasicBlock_
  acc,          \* acc[c]: globalTopkUb_, or curValueIdxUb of ProcessLD
  head, tail,   \* vec1ParamGm and vec1ResGm of each core: its two parts
  walk,         \* walk[c]: tmpCubeId of ProcessLD
  scored,       \* scored[b]: blocks of request b in scoreScratchGm
  answer,       \* answer[b]: the top K published for b (pairs and threshold)
  answers,      \* answers[b]: how often
  cleaned,      \* cleaned[b]: how often the outputs of b were set to -1
  united        \* requests whose union has been built

vars == <<blocks, split, pc, row, block, first, start, cached, acc, head, tail,
          walk, scored, answer, answers, cleaned, united>>
scoring == <<row, block, first, start, cached>>
outputs == <<scored, answer, answers, cleaned>>

Least(a, b) == IF a <= b THEN a ELSE b

-----------------------------------------------------------------------------
(* SplitCore: the blocks of the batch, in order, in shares that differ by  *)
(* one at most.                                                            *)

\* The blocks before each request, which the loop over the batch counts.
Bases ==
  LET upTo[b \in 0 .. BatchSize] == IF b = 0 THEN 0 ELSE upTo[b - 1] + blocks[b - 1]
  IN  upTo
Base(b) == Bases[b]
Total == Base(BatchSize)
RowOf(g) == CHOOSE b \in Requests : Base(b) <= g /\ g < Base(b) + blocks[b]

Share(c) == Total \div NumCores + (IF c < Total % NumCores THEN 1 ELSE 0)
ShareStart(c) == c * (Total \div NumCores) + Least(c, Total % NumCores)
Used == IF Total \div NumCores = 0 THEN Total % NumCores ELSE NumCores

\* A core merges when its last request starts with it and is cut behind it.
MustMerge(c, last, g) ==
  Base(last) >= ShareStart(c) /\ g + 1 < Base(last) + blocks[last]

\* Requests of length zero belong to the core that comes to them first; those
\* at the end of the batch to the last core.
EndRowOfBlocks(c, last) == last    \* mutant: nobody comes to the last empty requests
EndRow(c, last) == IF c = Used - 1 THEN BatchSize - 1 ELSE last

SplitCore(c) ==
  LET g == ShareStart(c)
      e == g + Share(c) - 1
      last == RowOf(e)
      cut == g > 0 /\ RowOf(g - 1) = RowOf(g)
      end == EndRow(c, last)
  IN  [bN2Start |-> IF g = 0 THEN 0 ELSE IF cut THEN RowOf(g) ELSE RowOf(g - 1) + 1,
       s2Start  |-> IF cut THEN g - Base(RowOf(g)) ELSE 0,
       bN2End   |-> end,
       s2End    |-> IF end = last THEN e - Base(last) ELSE 0,
       isLD     |-> MustMerge(c, last, e)]

NoWork == [bN2Start |-> 0, s2Start |-> 0, bN2End |-> 0, s2End |-> 0, isLD |-> FALSE]

-----------------------------------------------------------------------------
Whole(b) == 0 .. blocks[b] - 1

\* What an earlier launch left in a core's parameters is any of its parts.
OldParts == [needFd : BOOLEAN, isS2End : BOOLEAN, row : {0}, res : {Stale}]

Init ==
  /\ blocks \in [Requests -> MinBlocks .. MaxBlocks]
  /\ split = [c \in Cores |-> IF c < Used THEN SplitCore(c) ELSE NoWork]
  /\ pc = [c \in Cores |-> "init"]
  /\ row = [c \in Cores |-> split[c].bN2Start]
  /\ block = [c \in Cores |-> split[c].s2Start]
  /\ first = [c \in Cores |-> TRUE]
  /\ start = [c \in Cores |-> 0]
  /\ cached = [c \in Cores |-> {}]
  /\ acc = [c \in Cores |-> {}]
  /\ \E old \in OldParts : /\ head = [c \in Cores |-> old]
                           /\ tail = [c \in Cores |-> old]
  /\ walk = [c \in Cores |-> c]
  /\ scored = [b \in Requests |-> {}]
  /\ answer = [b \in Requests |-> {}]
  /\ answers = [b \in Requests |-> 0]
  /\ cleaned = [b \in Requests |-> 0]
  /\ united = {}

Goto(c, label) == pc' = [pc EXCEPT ![c] = label]

\* InitBuffers marks both parts of the core as absent; then Process.
ClearParts(c) ==
  /\ head' = [head EXCEPT ![c].needFd = FALSE]
  /\ tail' = [tail EXCEPT ![c].needFd = FALSE]

\* A core without blocks skips ProcessMain but not the barrier behind it.
IdleLeaves(c) ==    \* mutant: a core without blocks returns from the kernel
  IF Total = 0 THEN "invalid" ELSE IF c < Used THEN "main" ELSE "done"
Entry(c) ==
  IF Total = 0 THEN "invalid" ELSE IF c < Used THEN "main" ELSE "sync"

InitBuffers(c) ==
  /\ pc[c] = "init" /\ ClearParts(c) /\ Goto(c, Entry(c))
  /\ UNCHANGED <<blocks, split, acc, walk, united, scoring, outputs>>

\* ProcessInvalid: nothing to compute, every core cleans its slice of the output.
Slice(c) ==
  LET size == (BatchSize + NumCores - 1) \div NumCores
  IN  {b \in Requests : c * size <= b /\ b < (c + 1) * size}
ProcessInvalid(c) ==
  /\ pc[c] = "invalid" /\ Goto(c, "publish")
  /\ cleaned' = [b \in Requests |-> cleaned[b] + (IF b \in Slice(c) THEN 1 ELSE 0)]
  /\ UNCHANGED <<blocks, split, acc, head, tail, walk, united, scoring, scored, answer, answers>>

-----------------------------------------------------------------------------
(* The main loop of a core.                                                *)

InRange(c) == pc[c] = "main" /\ row[c] <= split[c].bN2End

\* DealActSeqLenIsZero
CleanEmpty(c) ==
  /\ InRange(c) /\ blocks[row[c]] = 0
  /\ cleaned' = [cleaned EXCEPT ![row[c]] = @ + 1]
  /\ row' = [row EXCEPT ![c] = @ + 1]
  /\ UNCHANGED <<blocks, split, pc, block, first, start, cached, acc, head, tail,
                 walk, scored, answer, answers, united>>

\* The first block of the core's part of the current request.
PartStart(c) ==
  IF first[c] THEN block[c] ELSE IF block[c] = 0 THEN 0 ELSE start[c]

\* The top K before the current block: initialised when a request begins.
Running(c) == IF block[c] = 0 /\ ~first[c] THEN {} ELSE acc[c]

IsS2End(c) == block[c] + 1 = blocks[row[c]]
IsAllLoopEnd(c) == row[c] = split[c].bN2End /\ block[c] = split[c].s2End
LastBlock(c) == IF row[c] = split[c].bN2End THEN split[c].s2End ELSE blocks[row[c]] - 1

\* The top K after the current block.  MergeBlocks sorted blocks are merged at
\* a time, fewer at the end; the first merge overwrites as much of the top K as
\* it has blocks for.
Position(c) == (block[c] - PartStart(c)) % MergeBlocks
Kept(c) == (IF Position(c) = 0 THEN {} ELSE cached[c]) \cup {block[c]}
MergesNowS2End(c) == Position(c) = MergeBlocks - 1 \/ IsS2End(c)  \* mutant: a part cut off is not merged
MergesNow(c) == Position(c) = MergeBlocks - 1 \/ IsS2End(c) \/ IsAllLoopEnd(c)
Merged(c) ==
  IF ~MergesNow(c) THEN Running(c)
  ELSE IF block[c] - PartStart(c) = MergeBlocks - 1 THEN Kept(c)
  ELSE Running(c) \cup Kept(c)

Publish(b, result) ==
  /\ answer' = [answer EXCEPT ![b] = result]
  /\ answers' = [answers EXCEPT ![b] = @ + 1]

\* A part is kept for the core that has the head of the request: in the second
\* place when it is that head itself, in the first one otherwise.
KeepPart(c) ==
  LET part == [needFd |-> TRUE, isS2End |-> IsS2End(c), row |-> row[c], res |-> Merged(c)]
  IN  IF PartStart(c) = 0
        THEN tail' = [tail EXCEPT ![c] = part] /\ UNCHANGED head
        ELSE head' = [head EXCEPT ![c] = part] /\ UNCHANGED tail

\* ProcessBaseBlock with ProcessVec, and the step of the three loops.
ScoreBlock(c) ==
  /\ InRange(c) /\ blocks[row[c]] > 0
  /\ scored' = [scored EXCEPT ![row[c]] = @ \cup {block[c]}]
  /\ cached' = [cached EXCEPT ![c] = Kept(c)]
  /\ first' = [first EXCEPT ![c] = FALSE]
  /\ IF IsS2End(c) /\ PartStart(c) = 0
       THEN /\ Publish(row[c], Merged(c)) /\ UNCHANGED <<head, tail>>
            /\ acc' = [acc EXCEPT ![c] = {}]
       ELSE /\ UNCHANGED <<answer, answers>>
            /\ acc' = [acc EXCEPT ![c] = Merged(c)]
            /\ IF IsS2End(c) \/ IsAllLoopEnd(c) THEN KeepPart(c) ELSE UNCHANGED <<head, tail>>
  /\ IF block[c] = LastBlock(c)
       THEN /\ row' = [row EXCEPT ![c] = @ + 1]
            /\ block' = [block EXCEPT ![c] = 0]
            /\ start' = [start EXCEPT ![c] = 0]
       ELSE /\ UNCHANGED row
            /\ block' = [block EXCEPT ![c] = @ + 1]
            /\ start' = [start EXCEPT ![c] = PartStart(c)]
  /\ UNCHANGED <<blocks, split, pc, walk, cleaned, united>>

EndMain(c) ==
  /\ pc[c] = "main" /\ row[c] > split[c].bN2End
  /\ Goto(c, "sync")
  /\ UNCHANGED <<blocks, split, acc, head, tail, walk, united, scoring, outputs>>

-----------------------------------------------------------------------------
(* ProcessDecode and the union.                                            *)

\* SyncAll waits for all cores; ProcessDecode has one and the kernel another.
Barrier(from, to) ==
  /\ \A c \in Cores : pc[c] = from
  /\ pc' = [c \in Cores |-> to]
  /\ UNCHANGED <<blocks, split, acc, head, tail, walk, united, scoring, outputs>>
SyncAll == Barrier("sync", "merge")
PublishAllEarly ==    \* mutant: the union starts without waiting for the other cores
  /\ \E c \in Cores : pc[c] = "publish" /\ Goto(c, "union")
  /\ UNCHANGED <<blocks, split, acc, head, tail, walk, united, scoring, outputs>>
PublishAll == Barrier("publish", "union")

\* ProcessLD: nothing to merge, or start with the core's own tail.
BeginMerge(c) ==
  /\ pc[c] = "merge"
  /\ IF split[c].isLD /\ tail[c].needFd
       THEN /\ Goto(c, "walk")
            /\ acc' = [acc EXCEPT ![c] = tail[c].res]
            /\ walk' = [walk EXCEPT ![c] = c + 1]
       ELSE Goto(c, "publish") /\ UNCHANGED <<acc, walk>>
  /\ UNCHANGED <<blocks, split, head, tail, united, scoring, outputs>>

\* Merge the head of the next core and go on behind it.
StopsAtFirst(h) == FALSE    \* mutant: only the neighbour's head is merged
IgnoresEnd(h) == h.needFd    \* mutant: the end of the sequence does not stop the walk
GoesOnBehind(h) == h.needFd /\ ~h.isS2End
WalkOn(c) ==
  LET h == head[walk[c]]
      result == acc[c] \cup (IF h.needFd THEN h.res ELSE {})
  IN  /\ pc[c] = "walk" /\ walk[c] \in Cores
      /\ acc' = [acc EXCEPT ![c] = result]
      /\ IF GoesOnBehind(h)
           THEN /\ walk' = [walk EXCEPT ![c] = @ + 1]
                /\ UNCHANGED <<pc, answer, answers>>
           ELSE /\ Publish(head[c + 1].row, result) /\ Goto(c, "publish")
                /\ UNCHANGED walk
      /\ UNCHANGED <<blocks, split, head, tail, united, scoring, scored, cleaned>>

\* MtpMissUnion::Process deals the requests out round robin.
Union(c) ==
  /\ pc[c] = "union"
  /\ LET todo == {b \in Requests : b % NumCores = c} \ united
     IN  IF todo = {} THEN Goto(c, "done") /\ UNCHANGED united
         ELSE /\ united' = united \cup {CHOOSE b \in todo : \A a \in todo : b <= a}
              /\ UNCHANGED pc
  /\ UNCHANGED <<blocks, split, acc, head, tail, walk, scoring, outputs>>

-----------------------------------------------------------------------------
CoreStep(c) ==
  \/ InitBuffers(c) \/ ProcessInvalid(c) \/ CleanEmpty(c) \/ ScoreBlock(c) \/ EndMain(c)
  \/ BeginMerge(c) \/ WalkOn(c) \/ Union(c)

AllDone == \A c \in Cores : pc[c] = "done"
Returned == AllDone /\ UNCHANGED vars

Next == (\E c \in Cores : CoreStep(c)) \/ SyncAll \/ PublishAll \/ Returned

Spec == Init /\ [][Next]_vars

\* As long as some core can go on, or a barrier can open, something happens.
FairSpec == Spec /\ WF_vars(Next)

-----------------------------------------------------------------------------
(* Properties.                                                             *)

Part == [needFd : BOOLEAN, isS2End : BOOLEAN, row : Requests,
         res : SUBSET (0 .. MaxBlocks - 1) \cup {Stale}]
TypeOK ==
  /\ blocks \in [Requests -> 0 .. MaxBlocks]
  /\ row \in [Cores -> 0 .. BatchSize] /\ block \in [Cores -> 0 .. MaxBlocks - 1]
  /\ start \in [Cores -> 0 .. MaxBlocks - 1]
  /\ head \in [Cores -> Part] /\ tail \in [Cores -> Part]
  /\ \A c \in Cores : acc[c] \subseteq 0 .. MaxBlocks - 1
  /\ walk \in [Cores -> 0 .. NumCores]
  /\ united \subseteq Requests

\* The top K published for a request was merged from all its blocks and from
\* nothing else, whether one core scored them all, or a chain of cores did.
AnswersAreWhole ==
  \A b \in Requests : answers[b] > 0 => answer[b] = Whole(b)

\* Every request is answered by exactly one core, or, when its length is zero,
\* cleaned by exactly one core; and no union starts before all of that is done
\* and the blocks whose scores it reads have been scored.
HandledOnce ==
  \A b \in Requests :
    /\ answers[b] + cleaned[b] <= 1
    /\ united # {} => answers[b] + cleaned[b] = 1 /\ (cleaned[b] = 1 <=> blocks[b] = 0)
    /\ b \in united => scored[b] = Whole(b)

\* The walk over the parts of a request ends before the last core: the one that
\* ends the sequence has always said so.
WalkStaysInside ==
  \A c \in Cores : pc[c] = "walk" => walk[c] < Used /\ head[walk[c]].needFd

\* The union of a request reads the four top Ks, the thresholds and the scores
\* of every block: all of them have been written by this launch.
PublishedBeforeUnion ==
  \A b \in united : answers[b] = 1 /\ scored[b] = Whole(b)

\* The launch ends: no core is left waiting at a barrier.
LaunchEnds == <>AllDone
=============================================================================
