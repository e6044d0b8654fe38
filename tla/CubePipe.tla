------------------------------ MODULE CubePipe ------------------------------
(***************************************************************************)
(* The pipeline inside one cube core: ComputeMm1 of both operators with    *)
(* AllocEventID and FreeEventID (fused_li_manage_service_cube.h and        *)
(* lightning_indexer_service_cube.h).                                      *)
(*                                                                         *)
(* Four pipes work through their instructions in program order, each at    *)
(* its own speed: MTE2 copies keys and queries to L1, MTE1 moves tiles of  *)
(* them to L0, M multiplies, FIX copies the product out.  Events order     *)
(* them: a flag is a counter that one pipe raises and another waits for.   *)
(* Between M and FIX the hardware does so itself (unitFlag).               *)
(*                                                                         *)
(* A segment is a run of chunks of one request; its query is loaded after  *)
(* its first key block and given up with its last.                         *)
(***************************************************************************)
EXTENDS Integers, FiniteSetsExt

CONSTANTS
  KeyBufs,       \* KEY_BUF_NUM (3)
  QueryBufNums,  \* query buffers of the kernels: 1, and QUERY_BUF_NUM (2) in MTP
  L0Bufs,        \* L0_BUF_NUM (2)
  MaxBlocks,     \* bound on the key blocks (256 tokens) of a launch
  FullTiles      \* tiles of a full block (2, and 4 in MTP)

None == -1

ASSUME CubeAssumption ==
  /\ KeyBufs \in Nat \ {0} /\ L0Bufs \in Nat \ {0}
  /\ QueryBufNums \subseteq Nat \ {0} /\ IsFiniteSet(QueryBufNums) /\ QueryBufNums # {}
  /\ MaxBlocks \in Nat /\ FullTiles \in Nat \ {0}

VARIABLES
  plan,         \* this launch: its query buffers, tiles of each block, heads of segments
  keyFree,      \* MTE1_MTE2 flags of the key buffers
  queryFree,    \* MTE1_MTE2 flags of the query buffers
  l0Free,       \* M_MTE1 flags
  loaded,       \* MTE2_MTE1 flags
  moved,        \* MTE1_M flags
  key, query,   \* what keyL1_ and queryL1_ hold: a block, a segment
  l0,           \* what queryL0_ and keyL0_ hold: [key, query]
  l0c,          \* what cL0_ holds: the operands of a product
  mte2, mte1, m,         \* what these pipes are doing
  fetched, asked,        \* key blocks and queries MTE2 has loaded
  at, tile,              \* block and tile MTE1 is at
  fed, computed, stored  \* tiles MTE1, M and FIX have finished

vars == <<plan, keyFree, queryFree, l0Free, loaded, moved, key, query, l0, l0c,
          mte2, mte1, m, fetched, asked, at, tile, fed, computed, stored>>
mte2Vars == <<key, query, mte2, fetched, asked>>
mte1Vars == <<l0, mte1, at, tile, fed>>
mVars == <<m, computed>>
fixVars == <<l0c, stored>>

Keys == 0 .. KeyBufs - 1
Queries == 0 .. Max(QueryBufNums) - 1
L0s == 0 .. L0Bufs - 1

KeyBuf(j) == j % KeyBufs
L0Buf(n) == n % L0Bufs
QueryBuf(s) == (s + 1) % plan.queries    \* the index is stepped before the load

\* Only the last block of a segment may be short.
EndsSegment(p, j) == j + 1 \in p.heads \cup {Cardinality(DOMAIN p.tiles)}
Plans ==
  UNION {{p \in [queries : QueryBufNums,
                 tiles : [0 .. n - 1 -> 1 .. FullTiles],
                 heads : {S \in SUBSET (0 .. n - 1) : n > 0 => 0 \in S}] :
             \A j \in 0 .. n - 1 : EndsSegment(p, j) \/ p.tiles[j] = FullTiles} :
         n \in 0 .. MaxBlocks}

Blocks == Cardinality(DOMAIN plan.tiles)
Segment(j) == Cardinality({h \in plan.heads : h <= j}) - 1

\* The operands of tile n of the launch.
TilesBefore(j) ==
  LET upTo[i \in 0 .. Blocks] == IF i = 0 THEN 0 ELSE upTo[i - 1] + plan.tiles[i - 1]
  IN  upTo[j]
BlockOf(n) == CHOOSE j \in DOMAIN plan.tiles : TilesBefore(j) <= n /\ n < TilesBefore(j + 1)
Operands(n) == [key |-> BlockOf(n), query |-> Segment(BlockOf(n))]

Raise(flags, i) == [flags EXCEPT ![i] = @ + 1]
Lower(flags, i) == [flags EXCEPT ![i] = @ - 1]

Nothing == [key |-> None, query |-> None]

\* AllocEventID: every buffer of the kernel is free.
QueryFlags(p) == [q \in Queries |-> IF q < p.queries THEN 1 ELSE 0]
AllocEventID ==
  /\ keyFree' = [k \in Keys |-> keyFree[k] + 1]
  /\ queryFree' = [q \in Queries |-> queryFree[q] + QueryFlags(plan')[q]]
  /\ l0Free' = [i \in L0s |-> l0Free[i] + 1]

Init ==
  /\ plan \in Plans
  /\ keyFree = [k \in Keys |-> 1] /\ queryFree = QueryFlags(plan)
  /\ l0Free = [i \in L0s |-> 1] /\ loaded = 0 /\ moved = 0
  /\ key = [k \in Keys |-> None] /\ query = [q \in Queries |-> None]
  /\ l0 = [i \in L0s |-> Nothing] /\ l0c = [i \in L0s |-> Nothing]
  /\ mte2 = "idle" /\ mte1 = "idle" /\ m = "idle"
  /\ fetched = 0 /\ asked = 0 /\ at = 0 /\ tile = 0
  /\ fed = 0 /\ computed = 0 /\ stored = 0

-----------------------------------------------------------------------------
(* MTE2: KeyNd2NzForPA and QueryNd2Nz.                                     *)

\* The query follows the first key block of its segment.
QueryDue == fetched > 0 /\ asked = Segment(fetched - 1)

BeginKey ==
  /\ mte2 = "idle" /\ ~QueryDue /\ fetched < Blocks
  /\ keyFree[KeyBuf(fetched)] > 0
  /\ keyFree' = Lower(keyFree, KeyBuf(fetched))
  /\ key' = [key EXCEPT ![KeyBuf(fetched)] = None]
  /\ mte2' = "key"
  /\ UNCHANGED <<plan, queryFree, l0Free, loaded, moved, query, fetched, asked, mte1Vars, mVars, fixVars>>

\* The tokens of block j, page by page.
KeyNd2NzForPA(j) == [key EXCEPT ![KeyBuf(j)] = j]
EndKey ==
  /\ mte2 = "key" /\ mte2' = "idle"
  /\ key' = KeyNd2NzForPA(fetched)
  /\ fetched' = fetched + 1 /\ loaded' = loaded + 1
  /\ UNCHANGED <<plan, keyFree, queryFree, l0Free, moved, query, asked, mte1Vars, mVars, fixVars>>

BeginQuery ==
  /\ mte2 = "idle" /\ QueryDue
  /\ queryFree[QueryBuf(asked)] > 0
  /\ queryFree' = Lower(queryFree, QueryBuf(asked))
  /\ query' = [query EXCEPT ![QueryBuf(asked)] = None]
  /\ mte2' = "query"
  /\ UNCHANGED <<plan, keyFree, l0Free, loaded, moved, key, fetched, asked, mte1Vars, mVars, fixVars>>

QueryNd2Nz(s) == [query EXCEPT ![QueryBuf(s)] = s]
EndQuery ==
  /\ mte2 = "query" /\ mte2' = "idle"
  /\ query' = QueryNd2Nz(asked)
  /\ asked' = asked + 1 /\ loaded' = loaded + 1
  /\ UNCHANGED <<plan, keyFree, queryFree, l0Free, moved, key, fetched, mte1Vars, mVars, fixVars>>

\* FreeEventID: MTE2 takes back the flags of all buffers.
FreeKeysTwo == IF KeyBufs = 1 THEN {0} ELSE Keys \ {KeyBufs - 1}    \* mutant: one buffer is forgotten
FreeKeys == Keys
FreeL1 ==
  /\ mte2 = "idle" /\ ~QueryDue /\ fetched = Blocks
  /\ \A k \in FreeKeys : keyFree[k] > 0
  /\ \A q \in 0 .. plan.queries - 1 : queryFree[q] > 0
  /\ keyFree' = [k \in Keys |-> IF k \in FreeKeys THEN keyFree[k] - 1 ELSE keyFree[k]]
  /\ queryFree' = [q \in Queries |-> queryFree[q] - QueryFlags(plan)[q]]
  /\ mte2' = "done"
  /\ UNCHANGED <<plan, l0Free, loaded, moved, key, query, fetched, asked, mte1Vars, mVars, fixVars>>

-----------------------------------------------------------------------------
(* MTE1: LoadQueryToL0a and LoadKeyToL0b.                                  *)

\* Wait for the key block, and for the query as well when it is a new one.
Awaited(j) == IF j \in plan.heads THEN 2 ELSE 1

BeginBlock ==
  /\ mte1 = "idle" /\ at < Blocks /\ loaded >= Awaited(at)
  /\ loaded' = loaded - Awaited(at)
  /\ mte1' = "block"
  /\ UNCHANGED <<plan, keyFree, queryFree, l0Free, moved, l0, at, tile, fed, mte2Vars, mVars, fixVars>>

BeginTile ==
  /\ mte1 = "block" /\ tile < plan.tiles[at]
  /\ l0Free[L0Buf(fed)] > 0
  /\ l0Free' = Lower(l0Free, L0Buf(fed))
  /\ l0' = [l0 EXCEPT ![L0Buf(fed)] = Nothing]
  /\ mte1' = "tile"
  /\ UNCHANGED <<plan, keyFree, queryFree, loaded, moved, at, tile, fed, mte2Vars, mVars, fixVars>>

LoadQueryToL0a == query[QueryBuf(Segment(at))]
LoadKeyToL0b == key[KeyBuf(at)]
EndTile ==
  /\ mte1 = "tile" /\ mte1' = "block"
  /\ l0' = [l0 EXCEPT ![L0Buf(fed)] = [key |-> LoadKeyToL0b, query |-> LoadQueryToL0a]]
  /\ tile' = tile + 1 /\ fed' = fed + 1 /\ moved' = moved + 1
  /\ UNCHANGED <<plan, keyFree, queryFree, l0Free, loaded, at, mte2Vars, mVars, fixVars>>

\* The key buffer is given up, with the last block of a segment the query too.
ReleasesAlways(j) == TRUE     \* mutant: the query is given up with every block
ReleasesBeforeHead(j) == j + 1 \in plan.heads    \* mutant: the end of the share is forgotten
ReleasesQuery(j) == EndsSegment(plan, j)
EndBlock ==
  /\ mte1 = "block" /\ tile = plan.tiles[at]
  /\ keyFree' = Raise(keyFree, KeyBuf(at))
  /\ queryFree' = IF ReleasesQuery(at) THEN Raise(queryFree, QueryBuf(Segment(at))) ELSE queryFree
  /\ at' = at + 1 /\ tile' = 0 /\ mte1' = "idle"
  /\ UNCHANGED <<plan, l0Free, loaded, moved, l0, fed, mte2Vars, mVars, fixVars>>

FreeL0 ==
  /\ mte1 = "idle" /\ at = Blocks
  /\ \A i \in L0s : l0Free[i] > 0
  /\ l0Free' = [i \in L0s |-> l0Free[i] - 1]
  /\ mte1' = "done"
  /\ UNCHANGED <<plan, keyFree, queryFree, loaded, moved, l0, at, tile, fed, mte2Vars, mVars, fixVars>>

-----------------------------------------------------------------------------
(* M and FIX.                                                              *)

\* unitFlag keeps M from a product that has not been copied out.
BeginProduct ==
  /\ m = "idle" /\ moved > 0 /\ l0c[L0Buf(computed)] = Nothing
  /\ moved' = moved - 1 /\ m' = "mul"
  /\ UNCHANGED <<plan, keyFree, queryFree, l0Free, loaded, computed, mte2Vars, mte1Vars, fixVars>>

ComuteL0c == [l0c EXCEPT ![L0Buf(computed)] = l0[L0Buf(computed)]]
EndProduct ==
  /\ m = "mul" /\ m' = "idle"
  /\ l0c' = ComuteL0c
  /\ l0Free' = Raise(l0Free, L0Buf(computed))
  /\ computed' = computed + 1
  /\ UNCHANGED <<plan, keyFree, queryFree, loaded, moved, stored, mte2Vars, mte1Vars>>

\* FIX copies the product out and frees its buffer by unitFlag.
Fixp ==
  /\ l0c[L0Buf(stored)] # Nothing
  /\ l0c' = [l0c EXCEPT ![L0Buf(stored)] = Nothing]
  /\ stored' = stored + 1
  /\ UNCHANGED <<plan, keyFree, queryFree, l0Free, loaded, moved, mte2Vars, mte1Vars, mVars>>

-----------------------------------------------------------------------------
LaunchDone == mte2 = "done" /\ mte1 = "done" /\ stored = TilesBefore(Blocks)

\* The next kernel on this core starts from the flags this one left.
Launch ==
  /\ LaunchDone
  /\ plan' \in Plans
  /\ AllocEventID
  /\ mte2' = "idle" /\ mte1' = "idle"
  /\ fetched' = 0 /\ asked' = 0 /\ at' = 0 /\ tile' = 0
  /\ fed' = 0 /\ computed' = 0 /\ stored' = 0
  /\ key' = [k \in Keys |-> None] /\ query' = [q \in Queries |-> None]
  /\ l0' = [i \in L0s |-> Nothing]
  /\ UNCHANGED <<loaded, moved, m, l0c>>

Mte2 == BeginKey \/ EndKey \/ BeginQuery \/ EndQuery \/ FreeL1
Mte1 == BeginBlock \/ BeginTile \/ EndTile \/ EndBlock \/ FreeL0
M == BeginProduct \/ EndProduct

Next == Mte2 \/ Mte1 \/ M \/ Fixp \/ Launch

Spec == Init /\ [][Next]_vars

\* Every pipe keeps executing what is queued on it.
FairSpec == Spec /\ WF_vars(Mte2) /\ WF_vars(Mte1) /\ WF_vars(M) /\ WF_vars(Fixp)

-----------------------------------------------------------------------------
(* Properties.                                                             *)

\* No flag of a buffer is ever raised twice; those that say that something has
\* arrived add up while the receiving pipe lags behind, to the buffers there are.
TypeOK ==
  /\ plan \in Plans
  /\ keyFree \in [Keys -> 0 .. 1] /\ queryFree \in [Queries -> 0 .. 1]
  /\ l0Free \in [L0s -> 0 .. 1]
  /\ loaded \in 0 .. KeyBufs + plan.queries /\ moved \in 0 .. L0Bufs
  /\ mte2 \in {"idle", "key", "query", "done"}
  /\ mte1 \in {"idle", "block", "tile", "done"} /\ m \in {"idle", "mul"}
  /\ fetched \in 0 .. Blocks /\ asked \in 0 .. Cardinality(plan.heads)
  /\ at \in 0 .. Blocks
  /\ stored <= computed /\ computed <= fed

\* While MTE1 moves a tile, and while M multiplies it, the buffers hold the key
\* block and the query this tile belongs to, however far MTE2 runs ahead; and
\* FIX copies every product out exactly in its turn.
OperandsMatch ==
  /\ mte1 = "tile" => /\ key[KeyBuf(at)] = at
                      /\ query[QueryBuf(Segment(at))] = Segment(at)
  /\ m = "mul" => l0[L0Buf(computed)] = Operands(computed)
  /\ l0c[L0Buf(stored)] # Nothing => l0c[L0Buf(stored)] = Operands(stored)

\* A launch takes back every flag it raised: what is left would let the next
\* kernel on this core overwrite a buffer in use.
EventsTakenBack ==
  LaunchDone =>
    /\ \A k \in Keys : keyFree[k] = 0
    /\ \A q \in Queries : queryFree[q] = 0
    /\ \A i \in L0s : l0Free[i] = 0
    /\ loaded = 0 /\ moved = 0

\* Every launch ends: no pipe waits for a flag that never comes.
LaunchEnds == []<>LaunchDone
=============================================================================
