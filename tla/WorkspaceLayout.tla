--------------------------- MODULE WorkspaceLayout ---------------------------
(***************************************************************************)
(* The workspace of a launch: the size the host asks for (DoTiling in      *)
(* fused_li_manage_tiling.cpp, which serves both operators) and the places *)
(* at which the kernels, with constants of their own, put their regions    *)
(* (Init in fused_li_manage_kernel.h and in lightning_indexer_kernel.h,    *)
(* fused_li_manage_mtp_workspace.h).  In bytes, behind the part that       *)
(* GetUserWorkspace leaves to the library.                                 *)
(***************************************************************************)
EXTENDS Integers

S2Base == 512         \* S2_BASE_SIZE
TopK == 2048          \* BASE_TOPK, DECODE_SPARSE_COUNT
Routes == 4
Float == 4
Int64 == 8

\* CheckShape: 32 or 64 heads, for either operator.
ShapesOf(coreNums, batches, capacities) ==
  [mtp : BOOLEAN, heads : {32, 64}, cores : coreNums, batch : batches, capacity : capacities]

\* A row of scores: the capacity, rounded up to whole chunks.
ScoreStride(s) == ((s.capacity + S2Base - 1) \div S2Base) * S2Base

-----------------------------------------------------------------------------
(* The host.                                                               *)

\* usedCoreNum, the blocks of the launch, when the host sees aicNum cube cores:
\* all of them in balanced mode, at most one for each row otherwise.
UsedCores(rows, aicNum) == IF rows % aicNum # 0 \/ rows >= aicNum THEN aicNum ELSE rows

\* bSize: the rows of the query, four for each request of MTP.
Rows(s) == IF s.mtp THEN Routes * s.batch ELSE s.batch
MBase(s) == IF s.mtp THEN 256 ELSE 64

WorkspaceSize(s) ==
  LET mm1 == MBase(s) * S2Base * Float * 2 * s.cores
      scores == Rows(s) * ScoreStride(s) * Float
      partials == s.cores * 2 * (TopK * 2) * Float + s.cores * 8 * Float
      merging == s.cores * 2 * 8 * 2 * TopK * Float + s.cores * 2 * 8 * 16 * Int64
      thresholds == Rows(s) * 8 * Float
  IN IF s.mtp THEN mm1 + merging + scores + thresholds ELSE mm1 + scores + partials

-----------------------------------------------------------------------------
(* The kernels.                                                            *)

Region(from, size) == [from |-> from, to |-> from + size]

\* mm1ResGm, scoresGm, partialTopkGm and partialMetaGm of fused_li_manage.
DecodeRegions(s) ==
  LET mm1 == Region(0, s.cores * 2 * s.heads * S2Base * Float)
      scores == Region(mm1.to, s.batch * ScoreStride(s) * Float)
      topk == Region(scores.to, s.cores * 2 * (TopK * 2) * Float)
      meta == Region(topk.to, s.cores * 8 * Float)
  IN <<mm1, scores, topk, meta>>

\* ScoreOffset and ThresholdOffset, by which the entry of MTP places its scores.
ScoreOffset(s) ==
  s.cores * 2 * 256 * S2Base * Float + s.cores * 8 * 2 * 2 * TopK * Float + s.cores * 8 * 2 * 16 * Int64
ThresholdOffset(s) == ScoreOffset(s) + s.batch * Routes * ScoreStride(s) * Float

\* mm1ResGm, vec1ResGm, vec1ParamGm, scoreScratch and thresholdScratch of MTP;
\* a tile has eight rows per head (s1BaseSize).
MtpRegions(s) ==
  LET mm1 == Region(0, s.cores * 2 * (8 * s.heads) * S2Base * Float)
      res == Region(mm1.to, s.cores * 8 * 2 * 2 * TopK * Float)
      param == Region(res.to, s.cores * 8 * 2 * 16 * Int64)
      scores == Region(ScoreOffset(s), s.batch * Routes * ScoreStride(s) * Float)
      thresholds == Region(ThresholdOffset(s), s.batch * Routes * 8 * Float)
  IN <<mm1, res, param, scores, thresholds>>

Regions(s) == IF s.mtp THEN MtpRegions(s) ELSE DecodeRegions(s)

-----------------------------------------------------------------------------
\* The regions follow one another without overlapping and end inside the
\* workspace of size bytes.
Fits(s, size) ==
  LET r == Regions(s)
  IN /\ \A i \in DOMAIN r : r[i].to <= size
     /\ \A i, j \in DOMAIN r : i < j => r[i].to <= r[j].from
==============================================================================
