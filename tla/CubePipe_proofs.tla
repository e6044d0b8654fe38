--------------------------- MODULE CubePipe_proofs ---------------------------
(***************************************************************************)
(* The cube core's pipeline, proved for every number of buffers and tiles, *)
(* and launches of any shape: OperandsMatch and EventsTakenBack.           *)
(*                                                                         *)
(* CubeInv is inductive.  It says of each kind of buffer which blocks,     *)
(* queries or tiles are under way in it (no two share one), that its flags *)
(* are down exactly then, and what it holds; and it accounts for the flags *)
(* that say something has arrived: what was loaded and not yet taken.  The *)
(* account is what lets MTE1 take one flag for a block and two for the     *)
(* first of a segment without asking which of the two loads it was.        *)
(***************************************************************************)
EXTENDS CubePipe, FiniteSetTheorems, TLAPS

\* The operators of CubePipe, for any plan.
NumBlocks(p) == Cardinality(DOMAIN p.tiles)
Sums(n, sizes) ==
  LET upTo[i \in 0 .. n] == IF i = 0 THEN 0 ELSE upTo[i - 1] + sizes[i - 1]
  IN  upTo
Base(p) == Sums(NumBlocks(p), p.tiles)
BufOf(p, s) == (s + 1) % p.queries

\* The segments that begin before block n.
Before(p, n) == Cardinality({h \in p.heads : h < n})
TileBlock(p, n) == CHOOSE j \in DOMAIN p.tiles : Base(p)[j] <= n /\ n < Base(p)[j + 1]
Pair(p, n) == [key |-> TileBlock(p, n), query |-> Before(p, TileBlock(p, n) + 1) - 1]

-----------------------------------------------------------------------------
(* A launch.                                                               *)
\* A non-empty set of natural numbers has a least element.
LEMMA LeastNat ==
  ASSUME NEW S \in SUBSET Nat, S # {}
  PROVE  \E n \in S : \A d \in S : n <= d
<1> DEFINE smaller == OpToRel(<, Nat)
<1>1. PICK n \in S : \A d \in S : <<d, n>> \notin smaller
  BY WFMin, NatLessThanWellFounded, Zenon
<1>2. \A d \in S : d < n => <<d, n>> \in smaller
  BY Zenon DEF OpToRel
<1> HIDE DEF smaller
<1>3. \A d \in S : d \in Nat /\ n \in Nat /\ ~ (d < n)
  BY <1>1, <1>2
<1> QED
  BY <1>3

\* A plan: so many blocks, their tiles, and the heads of segments.
LEMMA PlanFacts ==
  ASSUME NEW p \in Plans
  PROVE  /\ NumBlocks(p) \in Nat
         /\ p.queries \in QueryBufNums
         /\ p.tiles \in [0 .. NumBlocks(p) - 1 -> 1 .. FullTiles]
         /\ p.heads \in SUBSET (0 .. NumBlocks(p) - 1)
         /\ NumBlocks(p) > 0 => 0 \in p.heads
<1>1. PICK n \in 0 .. MaxBlocks :
        /\ p \in [queries : QueryBufNums, tiles : [0 .. n - 1 -> 1 .. FullTiles],
                  heads : {S \in SUBSET (0 .. n - 1) : n > 0 => 0 \in S}]
  BY Zenon DEF Plans
<1>2. n \in Nat
  BY CubeAssumption
<1>3. /\ p.queries \in QueryBufNums
      /\ p.tiles \in [0 .. n - 1 -> 1 .. FullTiles]
      /\ p.heads \in SUBSET (0 .. n - 1)
      /\ n > 0 => 0 \in p.heads
  BY <1>1
<1>4. DOMAIN p.tiles = 0 .. n - 1
  BY <1>3
<1>5. NumBlocks(p) = n
  <2>1. Cardinality(0 .. n - 1) = IF 0 > n - 1 THEN 0 ELSE n - 1 - 0 + 1
    BY <1>2, FS_Interval
  <2> QED
    BY <1>2, <1>4, <2>1 DEF NumBlocks
<1> QED
  BY <1>2, <1>3, <1>5

\* The greatest of a finite set of numbers.
LEMMA GreatestIs ==
  ASSUME NEW S \in SUBSET Nat, IsFiniteSet(S), S # {}
  PROVE  Max(S) \in S /\ \A y \in S : y <= Max(S)
<1> DEFINE Topped(T) == \E x \in T : \A y \in T : y <= x
           bad == {c \in Nat : \E T \in SUBSET S : T # {} /\ Cardinality(T) = c /\ ~Topped(T)}
<1>1. bad = {}
  <2>1. SUFFICES ASSUME bad # {} PROVE FALSE
    OBVIOUS
  <2>2. PICK c \in bad : \A k \in bad : c <= k
    BY <2>1, LeastNat
  <2>3. c \in Nat
    OBVIOUS
  <2>4. PICK T \in SUBSET S : T # {} /\ Cardinality(T) = c /\ ~Topped(T)
    OBVIOUS
  <2>5. PICK x \in T : TRUE
    BY <2>4
  <2>6. IsFiniteSet(T)
    BY FS_Subset
  <2>7. Cardinality(T \ {x}) = c - 1 /\ IsFiniteSet(T \ {x})
    BY <2>4, <2>5, <2>6, FS_RemoveElement
  <2>8. Cardinality(T \ {x}) \in Nat
    BY <2>7, FS_CardinalityType
  <2>9. CASE T \ {x} = {}
    <3>1. \A y \in T : y = x
      BY <2>9
    <3>2. x \in Nat
      OBVIOUS
    <3> QED
      BY <2>4, <2>5, <3>1, <3>2
  <2>10. CASE T \ {x} # {}
    <3>1. c - 1 \in Nat /\ ~ (c <= c - 1)
      BY <2>3, <2>7, <2>8
    <3>2. c - 1 \notin bad
      <4> HIDE DEF bad
      <4> QED
        BY <2>2, <3>1
    <3>3. T \ {x} \in SUBSET S
      OBVIOUS
    <3>4. Topped(T \ {x})
      <4> HIDE DEF Topped
      <4> QED
        BY <2>7, <2>10, <3>1, <3>2, <3>3
    <3>5. PICK z \in T \ {x} : \A y \in T \ {x} : y <= z
      BY <3>4
    <3>6. x \in Nat /\ z \in Nat /\ \A y \in T : y \in Nat
      OBVIOUS
    <3>7. CASE x <= z
      BY <2>4, <2>5, <3>5, <3>7
    <3>8. CASE ~ (x <= z)
      <4>1. \A y \in T : y <= x
        BY <3>5, <3>6, <3>8
      <4> QED
        BY <2>4, <2>5, <4>1
    <3> QED
      BY <3>7, <3>8
  <2> QED
    BY <2>9, <2>10
<1>2. Cardinality(S) \in Nat
  BY FS_CardinalityType
<1>3. \E x \in S : \A y \in S : x >= y
  <2>1. Topped(S)
    <3>1. Cardinality(S) \notin bad
      BY <1>1
    <3> HIDE DEF Topped
    <3> QED
      BY <1>2, <3>1
  <2> QED
    BY <2>1
<1> QED
  BY <1>3 DEF Max

\* Every query buffer of a kernel has its flag.
LEMMA QueriesFit ==
  ASSUME NEW p \in Plans
  PROVE  p.queries \in Nat \ {0} /\ \A q \in Nat : q < p.queries => q \in Queries
<1>1. p.queries \in QueryBufNums
  BY PlanFacts
<1>2. Max(QueryBufNums) \in Nat /\ p.queries <= Max(QueryBufNums)
  <2>1. QueryBufNums \in SUBSET Nat /\ IsFiniteSet(QueryBufNums) /\ QueryBufNums # {}
    BY CubeAssumption
  <2> QED
    BY <1>1, <2>1, GreatestIs
<1>3. p.queries \in Nat \ {0}
  BY <1>1, CubeAssumption
<1> QED
  BY <1>2, <1>3 DEF Queries

\* The buffers that are used in turn.
LEMMA Turns ==
  /\ \A j \in Nat : KeyBuf(j) \in Keys /\ L0Buf(j) \in L0s
  /\ \A p \in Plans, s \in Nat : BufOf(p, s) \in Queries /\ BufOf(p, s) < p.queries
<1>1. ASSUME NEW a \in Nat, NEW n \in Nat \ {0} PROVE (a % n) \in 0 .. n - 1
  BY <1>1
<1>2. \A j \in Nat : KeyBuf(j) \in Keys /\ L0Buf(j) \in L0s
  BY <1>1, CubeAssumption DEF KeyBuf, L0Buf, Keys, L0s
<1>3. ASSUME NEW p \in Plans, NEW s \in Nat
      PROVE  BufOf(p, s) \in Queries /\ BufOf(p, s) < p.queries
  <2>1. p.queries \in Nat \ {0} /\ \A q \in Nat : q < p.queries => q \in Queries
    BY QueriesFit
  <2>2. s + 1 \in Nat
    OBVIOUS
  <2>3. BufOf(p, s) \in 0 .. p.queries - 1
    BY <1>1, <2>1, <2>2 DEF BufOf
  <2> QED
    BY <2>1, <2>3
<1> QED
  BY <1>2, <1>3
-----------------------------------------------------------------------------
(* Tiles and segments of a launch, in the order of its blocks.             *)

\* The sums of the first sizes, step by step.
LEMMA SumSteps ==
  ASSUME NEW n \in Nat, NEW sizes \in [0 .. n - 1 -> Nat]
  PROVE  /\ Sums(n, sizes) \in [0 .. n -> Nat]
         /\ Sums(n, sizes)[0] = 0
         /\ \A b \in 0 .. n - 1 :
              Sums(n, sizes)[b + 1] = Sums(n, sizes)[b] + sizes[b]
<1> DEFINE IsSum(f, d) == /\ f \in [0 .. d -> Nat] /\ f[0] = 0
                          /\ \A b \in 1 .. d : f[b] = f[b - 1] + sizes[b - 1]
           F(f) == [b \in 0 .. n |-> IF b = 0 THEN 0 ELSE f[b - 1] + sizes[b - 1]]
           sum == CHOOSE f : f = F(f)
           bad == {d \in Nat : d <= n /\ ~ \E f : IsSum(f, d)}
<1>1. bad = {}
  <2>1. SUFFICES ASSUME bad # {} PROVE FALSE
    OBVIOUS
  <2>2. PICK d \in bad : \A k \in bad : d <= k
    BY <2>1, LeastNat
  <2>3. d \in Nat /\ d <= n /\ ~ \E f : IsSum(f, d)
    OBVIOUS
  <2>4. CASE d = 0
    <3> DEFINE zero == [b \in 0 .. 0 |-> 0]
    <3>1. IsSum(zero, 0)
      OBVIOUS
    <3> QED
      BY <2>3, <2>4, <3>1
  <2>5. CASE d # 0
    <3>1. d - 1 \in Nat /\ d - 1 <= n /\ ~ (d <= d - 1)
      BY <2>3, <2>5
    <3>2. d - 1 \notin bad
      <4> HIDE DEF bad
      <4> QED
        BY <2>2, <3>1
    <3> HIDE DEF IsSum
    <3>3. PICK f : IsSum(f, d - 1)
      BY <3>1, <3>2
    <3> DEFINE g == [b \in 0 .. d |-> IF b = d THEN f[d - 1] + sizes[d - 1] ELSE f[b]]
    <3>4. f \in [0 .. d - 1 -> Nat] /\ f[0] = 0
          /\ \A b \in 1 .. d - 1 : f[b] = f[b - 1] + sizes[b - 1]
      BY <3>3 DEF IsSum
    <3>5. sizes[d - 1] \in Nat /\ f[d - 1] \in Nat
      BY <2>3, <2>5, <3>1, <3>4
    <3>6. g \in [0 .. d -> Nat] /\ g[0] = 0
      BY <2>3, <2>5, <3>4, <3>5
    <3>7. ASSUME NEW b \in 1 .. d PROVE g[b] = g[b - 1] + sizes[b - 1]
      <4>1. CASE b = d
        BY <2>3, <2>5, <4>1
      <4>2. CASE b # d
        <5>1. b \in 1 .. d - 1 /\ b - 1 \in 0 .. d - 1 /\ b - 1 # d
          BY <2>3, <4>2
        <5> QED
          BY <3>4, <4>2, <5>1
      <4> QED
        BY <4>1, <4>2
    <3>8. IsSum(g, d)
      BY <3>6, <3>7 DEF IsSum
    <3> QED
      BY <2>3, <3>8
  <2> QED
    BY <2>4, <2>5
<1>2. PICK f : IsSum(f, n)
  <2> HIDE DEF IsSum
  <2>1. n \notin bad
    BY <1>1
  <2> QED
    BY <2>1
<1>3. f = F(f)
  <2>1. \A b \in 0 .. n : f[b] = IF b = 0 THEN 0 ELSE f[b - 1] + sizes[b - 1]
    BY <1>2
  <2> QED
    BY <1>2, <2>1
<1>4. sum = F(sum)
  <2> HIDE DEF F
  <2> QED
    BY <1>3
<1>5. Sums(n, sizes) = sum
  BY DEF Sums
<1>6. sum = f
  <2> HIDE DEF sum
  <2>1. DOMAIN sum = 0 .. n
    BY <1>4
  <2>2. \A b \in 0 .. n : sum[b] = IF b = 0 THEN 0 ELSE sum[b - 1] + sizes[b - 1]
    BY <1>4
  <2> DEFINE differ == {b \in Nat : b <= n /\ sum[b] # f[b]}
  <2>3. differ = {}
    <3>1. SUFFICES ASSUME differ # {} PROVE FALSE
      OBVIOUS
    <3>2. PICK d \in differ : \A k \in differ : d <= k
      BY <3>1, LeastNat
    <3>3. d \in Nat /\ d <= n /\ sum[d] # f[d]
      OBVIOUS
    <3>4. d # 0
      BY <1>2, <2>2, <3>3
    <3>5. d - 1 \in Nat /\ d - 1 <= n /\ ~ (d <= d - 1) /\ d \in 1 .. n
      BY <3>3, <3>4
    <3>6. sum[d - 1] = f[d - 1]
      BY <3>2, <3>5
    <3> QED
      BY <1>2, <2>2, <3>3, <3>4, <3>5, <3>6
  <2>4. \A b \in 0 .. n : sum[b] = f[b]
    BY <2>3
  <2>5. sum = [b \in 0 .. n |-> sum[b]] /\ f = [b \in 0 .. n |-> f[b]]
    BY <1>2, <1>4
  <2> HIDE DEF IsSum
  <2> QED
    BY <2>4, <2>5
<1>7. \A b \in 0 .. n - 1 : f[b + 1] = f[b] + sizes[b]
  <2>1. ASSUME NEW b \in 0 .. n - 1 PROVE f[b + 1] = f[b] + sizes[b]
    <3>1. b + 1 \in 1 .. n /\ (b + 1) - 1 = b
      OBVIOUS
    <3> QED
      BY <1>2, <3>1
  <2> QED
    BY <2>1
<1> QED
  BY <1>2, <1>5, <1>6, <1>7

\* The tiles before a block.
LEMMA BaseSteps ==
  ASSUME NEW p \in Plans
  PROVE  /\ Base(p) \in [0 .. NumBlocks(p) -> Nat]
         /\ Base(p)[0] = 0
         /\ \A j \in 0 .. NumBlocks(p) - 1 : Base(p)[j + 1] = Base(p)[j] + p.tiles[j]
<1>1. NumBlocks(p) \in Nat /\ p.tiles \in [0 .. NumBlocks(p) - 1 -> 1 .. FullTiles]
  BY PlanFacts
<1>2. p.tiles \in [0 .. NumBlocks(p) - 1 -> Nat]
  BY <1>1, CubeAssumption
<1> QED
  BY <1>1, <1>2, SumSteps DEF Base

\* They ascend.
LEMMA BaseGrows ==
  ASSUME NEW p \in Plans, NEW a \in 0 .. NumBlocks(p), NEW b \in 0 .. NumBlocks(p), a <= b
  PROVE  Base(p)[a] <= Base(p)[b]
<1> DEFINE n == NumBlocks(p)
           base == Base(p)
           lower == {k \in Nat : k <= n /\ a <= k /\ base[k] < base[a]}
<1>1. /\ n \in Nat /\ base \in [0 .. n -> Nat]
      /\ \A j \in 0 .. n - 1 : base[j + 1] = base[j] + p.tiles[j]
  BY PlanFacts, BaseSteps
<1>0. \A j \in 0 .. n - 1 : p.tiles[j] \in Nat
  BY PlanFacts, CubeAssumption
<1> HIDE DEF n, base
<1>2. lower = {}
  <2>1. SUFFICES ASSUME lower # {} PROVE FALSE
    OBVIOUS
  <2>2. PICK k \in lower : \A l \in lower : k <= l
    BY <2>1, LeastNat
  <2>3. k \in Nat /\ k <= n /\ a <= k /\ base[k] < base[a]
    OBVIOUS
  <2>4. a \in 0 .. n
    BY DEF n
  <2>5. k # a /\ base[a] \in Nat
    BY <1>1, <2>3, <2>4
  <2>6. k - 1 \in Nat /\ k - 1 <= n /\ a <= k - 1 /\ ~ (k <= k - 1) /\ k - 1 \in 0 .. n - 1
    BY <1>1, <2>3, <2>4, <2>5
  <2>7. ~ (base[k - 1] < base[a])
    BY <2>2, <2>6
  <2>8. base[k] = base[k - 1] + p.tiles[k - 1] /\ p.tiles[k - 1] \in Nat /\ base[k - 1] \in Nat
    BY <1>0, <1>1, <2>3, <2>6
  <2> QED
    BY <2>3, <2>5, <2>7, <2>8
<1>3. a \in 0 .. n /\ b \in 0 .. n /\ base[a] \in Nat /\ base[b] \in Nat
  BY <1>1 DEF n
<1>4. ~ (base[b] < base[a])
  <2>1. b \notin lower
    BY <1>2
  <2>2. b \in Nat /\ b <= n
    BY <1>1, <1>3
  <2> QED
    BY <2>1, <2>2
<1> QED
  BY <1>3, <1>4 DEF base

\* The block of a tile.
LEMMA TileBlockIs ==
  ASSUME NEW p \in Plans, NEW j \in 0 .. NumBlocks(p) - 1, NEW n \in Nat,
         Base(p)[j] <= n, n < Base(p)[j + 1]
  PROVE  TileBlock(p, n) = j
<1>1. NumBlocks(p) \in Nat /\ DOMAIN p.tiles = 0 .. NumBlocks(p) - 1
  BY PlanFacts
<1>2. \A i \in 0 .. NumBlocks(p) : Base(p)[i] \in Nat
  BY BaseSteps
<1>3. ASSUME NEW i \in 0 .. NumBlocks(p) - 1, Base(p)[i] <= n, n < Base(p)[i + 1]
      PROVE  i = j
  <2>1. CASE i + 1 <= j
    <3>1. Base(p)[i + 1] <= Base(p)[j]
      BY <1>1, <2>1, BaseGrows
    <3>2. Base(p)[i + 1] \in Nat /\ Base(p)[j] \in Nat
      BY <1>1, <1>2
    <3> QED
      BY <1>3, <3>1, <3>2
  <2>2. CASE j + 1 <= i
    <3>1. Base(p)[j + 1] <= Base(p)[i]
      BY <1>1, <2>2, BaseGrows
    <3>2. Base(p)[j + 1] \in Nat /\ Base(p)[i] \in Nat
      BY <1>1, <1>2
    <3> QED
      BY <1>3, <3>1, <3>2
  <2> QED
    BY <1>1, <2>1, <2>2
<1> QED
  BY <1>1, <1>3 DEF TileBlock

\* Every tile has a block.
LEMMA TileFound ==
  ASSUME NEW p \in Plans, NEW n \in Nat, NEW a \in 0 .. NumBlocks(p), n < Base(p)[a]
  PROVE  TileBlock(p, n) \in 0 .. NumBlocks(p) - 1
<1> DEFINE base == Base(p)
           above == {k \in Nat : k <= NumBlocks(p) /\ n < base[k]}
<1>1. NumBlocks(p) \in Nat /\ base \in [0 .. NumBlocks(p) -> Nat] /\ base[0] = 0
  BY PlanFacts, BaseSteps
<1> HIDE DEF base
<1>2. a \in above
  BY <1>1 DEF base
<1>3. PICK k \in above : \A l \in above : k <= l
  BY <1>2, LeastNat
<1>4. k \in Nat /\ k <= NumBlocks(p) /\ n < base[k] /\ k # 0
  BY <1>1
<1>5. k - 1 \in Nat /\ k - 1 <= NumBlocks(p) /\ ~ (k <= k - 1) /\ k - 1 \in 0 .. NumBlocks(p) - 1
      /\ (k - 1) + 1 = k /\ k - 1 \in 0 .. NumBlocks(p)
  BY <1>1, <1>4
<1>6. ~ (n < base[k - 1])
  BY <1>3, <1>5
<1>7. base[k - 1] \in Nat
  BY <1>1, <1>5
<1>8. TileBlock(p, n) = k - 1
  BY <1>4, <1>5, <1>6, <1>7, TileBlockIs DEF base
<1> QED
  BY <1>5, <1>8

\* A tile has operands.
LEMMA PairIsSomething ==
  ASSUME NEW p \in Plans, NEW n \in Nat, NEW a \in 0 .. NumBlocks(p), n < Base(p)[a]
  PROVE  Pair(p, n) # Nothing
<1>1. TileBlock(p, n) \in 0 .. NumBlocks(p) - 1
  BY TileFound
<1>2. Pair(p, n).key # None
  BY <1>1 DEF Pair, None
<1> QED
  BY <1>2 DEF Nothing

\* Segments are counted up from none.
LEMMA BeforeSteps ==
  ASSUME NEW p \in Plans
  PROVE  /\ \A n \in Nat : Before(p, n) \in Nat
         /\ Before(p, 0) = 0
         /\ \A n \in Nat : Before(p, n + 1) = IF n \in p.heads THEN Before(p, n) + 1 ELSE Before(p, n)
<1>1. NumBlocks(p) \in Nat /\ p.heads \in SUBSET (0 .. NumBlocks(p) - 1)
  BY PlanFacts
<1>2. IsFiniteSet(p.heads)
  <2>1. IsFiniteSet(0 .. NumBlocks(p) - 1)
    BY <1>1, FS_Interval
  <2> QED
    BY <1>1, <2>1, FS_Subset
<1>3. \A n \in Nat : IsFiniteSet({h \in p.heads : h < n})
  BY <1>2, FS_Subset
<1>4. \A n \in Nat : Before(p, n) \in Nat
  BY <1>3, FS_CardinalityType DEF Before
<1>5. Before(p, 0) = 0
  <2>1. {h \in p.heads : h < 0} = {}
    BY <1>1
  <2> QED
    BY <2>1, FS_EmptySet DEF Before
<1>6. ASSUME NEW n \in Nat
      PROVE  Before(p, n + 1) = IF n \in p.heads THEN Before(p, n) + 1 ELSE Before(p, n)
  <2>1. CASE n \in p.heads
    <3>1. {h \in p.heads : h < n + 1} = {h \in p.heads : h < n} \cup {n}
      BY <1>1, <2>1
    <3>2. n \notin {h \in p.heads : h < n}
      OBVIOUS
    <3>3. Cardinality({h \in p.heads : h < n} \cup {n}) = Cardinality({h \in p.heads : h < n}) + 1
      BY <1>3, <3>2, FS_AddElement
    <3> QED
      BY <2>1, <3>1, <3>3 DEF Before
  <2>2. CASE n \notin p.heads
    <3>1. {h \in p.heads : h < n + 1} = {h \in p.heads : h < n}
      BY <1>1, <2>2
    <3> QED
      BY <2>2, <3>1 DEF Before
  <2> QED
    BY <2>1, <2>2
<1> QED
  BY <1>4, <1>5, <1>6

\* They only grow.
LEMMA BeforeGrows ==
  ASSUME NEW p \in Plans, NEW a \in Nat, NEW b \in Nat, a <= b
  PROVE  Before(p, a) <= Before(p, b)
<1>1. NumBlocks(p) \in Nat /\ p.heads \in SUBSET (0 .. NumBlocks(p) - 1)
  BY PlanFacts
<1>2. IsFiniteSet(p.heads)
  <2>1. IsFiniteSet(0 .. NumBlocks(p) - 1)
    BY <1>1, FS_Interval
  <2> QED
    BY <1>1, <2>1, FS_Subset
<1>3. IsFiniteSet({h \in p.heads : h < b})
  BY <1>2, FS_Subset
<1>4. {h \in p.heads : h < a} \in SUBSET {h \in p.heads : h < b}
  BY <1>1
<1> QED
  BY <1>3, <1>4, FS_Subset DEF Before

\* The operators of CubePipe are those of the current plan.
LEMMA Now ==
  /\ Blocks = NumBlocks(plan)
  /\ \A j : TilesBefore(j) = Base(plan)[j]
  /\ \A s : QueryBuf(s) = BufOf(plan, s)
  /\ plan \in Plans =>
       /\ \A j \in Nat : Segment(j) = Before(plan, j + 1) - 1
       /\ \A n \in Nat : BlockOf(n) = TileBlock(plan, n)
       /\ \A n \in Nat, a \in 0 .. Blocks :
            n < Base(plan)[a] => Operands(n) = Pair(plan, n)
<1>1. Blocks = NumBlocks(plan)
  BY DEF Blocks, NumBlocks
<1>2. \A j : TilesBefore(j) = Base(plan)[j]
  BY <1>1 DEF TilesBefore, Base, Sums
<1>3. \A s : QueryBuf(s) = BufOf(plan, s)
  BY DEF QueryBuf, BufOf
<1>4. ASSUME plan \in Plans, NEW j \in Nat PROVE Segment(j) = Before(plan, j + 1) - 1
  <2>1. plan.heads \in SUBSET (0 .. NumBlocks(plan) - 1)
    BY <1>4, PlanFacts
  <2>2. NumBlocks(plan) \in Nat
    BY <1>4, PlanFacts
  <2>3. {h \in plan.heads : h <= j} = {h \in plan.heads : h < j + 1}
    BY <2>1, <2>2
  <2> QED
    BY <2>3 DEF Segment, Before
<1>5. \A n \in Nat : BlockOf(n) = TileBlock(plan, n)
  BY <1>2 DEF BlockOf, TileBlock
<1>6. ASSUME plan \in Plans, NEW n \in Nat, NEW a \in 0 .. Blocks, n < Base(plan)[a]
      PROVE  Operands(n) = Pair(plan, n)
  <2>1. TileBlock(plan, n) \in 0 .. NumBlocks(plan) - 1 /\ NumBlocks(plan) \in Nat
    BY <1>1, <1>6, TileFound, PlanFacts
  <2>2. TileBlock(plan, n) \in Nat
    BY <2>1
  <2>3. Segment(TileBlock(plan, n)) = Before(plan, TileBlock(plan, n) + 1) - 1
    BY <1>4, <1>6, <2>2
  <2> QED
    BY <1>5, <2>3 DEF Operands, Pair
<1> QED
  BY <1>1, <1>2, <1>3, <1>4, <1>5, <1>6
-----------------------------------------------------------------------------
(* Buffers that are used in turn.                                          *)

\* Users low to high - 1 have a buffer each; of those below full it holds the
\* value.  A flag is up while its buffer has no user and is not gone.
Ring(buf, low, full, high, gone, free, held, value) ==
  /\ \A i, j \in low .. high - 1 : buf[i] = buf[j] => i = j
  /\ \A b \in DOMAIN free :
       free[b] = IF b \in gone \/ \E j \in low .. high - 1 : buf[j] = b THEN 0 ELSE 1
  /\ \A j \in low .. full - 1 : held[buf[j]] = value[j]

\* f and g differ at most at x.
Elsewhere(B, x, f, g) == \A b \in B : b # x => g[b] = f[b]

\* The next user gets a buffer whose flag is up.
LEMMA RingBegin ==
  ASSUME NEW B, NEW buf \in [Nat -> B], NEW low \in Nat, NEW high \in Nat, low <= high,
         NEW gone, NEW free \in [B -> Nat], NEW held, NEW held2, NEW value,
         Ring(buf, low, high, high, gone, free, held, value),
         free[buf[high]] > 0,
         NEW free2 \in [B -> Nat], free2[buf[high]] = free[buf[high]] - 1,
         Elsewhere(B, buf[high], free, free2),
         Elsewhere(B, buf[high], held, held2)
  PROVE  Ring(buf, low, high, high + 1, gone, free2, held2, value)
<1> DEFINE b0 == buf[high]
<1>1. /\ \A i, j \in low .. high - 1 : buf[i] = buf[j] => i = j
      /\ \A b \in B : free[b] = IF b \in gone \/ \E j \in low .. high - 1 : buf[j] = b THEN 0 ELSE 1
      /\ \A j \in low .. high - 1 : held[buf[j]] = value[j]
  BY DEF Ring
<1>2. b0 \in B /\ free[b0] = 1 /\ b0 \notin gone /\ \A j \in low .. high - 1 : buf[j] # b0
  BY <1>1
<1>3. free2 \in [B -> Nat] /\ free2[b0] = 0 /\ \A b \in B : b # b0 => free2[b] = free[b]
  BY <1>2 DEF Elsewhere
<1>4. \A j \in low .. high : j = high \/ j \in low .. high - 1
  OBVIOUS
<1>5. \A j \in low .. high - 1 : j \in low .. high
  OBVIOUS
<1>6. high \in low .. high /\ (high + 1) - 1 = high
  OBVIOUS
<1>7. \A i, j \in low .. high : buf[i] = buf[j] => i = j
  BY <1>1, <1>2, <1>4
<1>8. \A b \in B : free2[b] = IF b \in gone \/ \E j \in low .. high : buf[j] = b THEN 0 ELSE 1
  <2> SUFFICES ASSUME NEW b \in B
               PROVE  free2[b] = IF b \in gone \/ \E j \in low .. high : buf[j] = b THEN 0 ELSE 1
    OBVIOUS
  <2>1. CASE b = b0
    <3>1. buf[high] = b
      BY <2>1
    <3> QED
      BY <1>3, <1>6, <2>1, <3>1
  <2>2. CASE b # b0
    <3>1. (\E j \in low .. high : buf[j] = b) <=> (\E j \in low .. high - 1 : buf[j] = b)
      BY <1>4, <1>5, <2>2
    <3> QED
      BY <1>1, <1>3, <2>2, <3>1
  <2> QED
    BY <2>1, <2>2
<1>9. \A j \in low .. high - 1 : held2[buf[j]] = value[j]
  BY <1>1, <1>2 DEF Elsewhere
<1>10. DOMAIN free2 = B
  BY <1>3
<1>11. Ring(buf, low, high, high + 1, gone, free2, held2, value)
  BY <1>6, <1>7, <1>8, <1>9, <1>10 DEF Ring
<1> QED
  BY <1>3, <1>11

\* It fills it.
LEMMA RingEnd ==
  ASSUME NEW B, NEW buf \in [Nat -> B], NEW low \in Nat, NEW full \in Nat, low <= full,
         NEW gone, NEW free, NEW held, NEW value,
         Ring(buf, low, full, full + 1, gone, free, held, value),
         NEW held2, held2[buf[full]] = value[full],
         Elsewhere(B, buf[full], held, held2)
  PROVE  Ring(buf, low, full + 1, full + 1, gone, free, held2, value)
<1>1. (full + 1) - 1 = full /\ full \in low .. full
  OBVIOUS
<1>2. /\ \A i, j \in low .. full : buf[i] = buf[j] => i = j
      /\ \A b \in DOMAIN free : free[b] = IF b \in gone \/ \E j \in low .. full : buf[j] = b THEN 0 ELSE 1
      /\ \A j \in low .. full - 1 : held[buf[j]] = value[j]
  BY <1>1 DEF Ring
<1>3. held2[buf[full]] = value[full]
      /\ \A b \in B : b # buf[full] => held2[b] = held[b]
  BY DEF Elsewhere
<1>4. ASSUME NEW j \in low .. full PROVE held2[buf[j]] = value[j]
  <2>1. CASE j = full
    BY <1>3, <2>1
  <2>2. CASE j # full
    <3>1. j \in low .. full - 1 /\ j \in Nat
      BY <2>2
    <3>2. buf[j] # buf[full] /\ buf[j] \in B
      BY <1>1, <1>2, <2>2, <3>1
    <3> QED
      BY <1>2, <1>3, <3>1, <3>2
  <2> QED
    BY <2>1, <2>2
<1> QED
  BY <1>1, <1>2, <1>4 DEF Ring

\* The first user gives its buffer up.
LEMMA RingGiveUp ==
  ASSUME NEW B, NEW buf \in [Nat -> B],
         NEW low \in Nat, NEW full \in Nat, NEW high \in Nat, low < full, full <= high,
         NEW gone, NEW free \in [B -> Nat], NEW held, NEW held2, NEW value,
         Ring(buf, low, full, high, gone, free, held, value),
         buf[low] \notin gone,
         NEW free2 \in [B -> Nat], free2[buf[low]] = free[buf[low]] + 1,
         Elsewhere(B, buf[low], free, free2),
         Elsewhere(B, buf[low], held, held2)
  PROVE  Ring(buf, low + 1, full, high, gone, free2, held2, value)
<1> DEFINE b0 == buf[low]
<1>1. /\ \A i, j \in low .. high - 1 : buf[i] = buf[j] => i = j
      /\ \A b \in B : free[b] = IF b \in gone \/ \E j \in low .. high - 1 : buf[j] = b THEN 0 ELSE 1
      /\ \A j \in low .. full - 1 : held[buf[j]] = value[j]
  BY DEF Ring
<1>2. low \in low .. high - 1 /\ b0 \in B
  OBVIOUS
<1>3. free[b0] = 0
  BY <1>1, <1>2
<1>4. free2 \in [B -> Nat] /\ free2[b0] = 1 /\ \A b \in B : b # b0 => free2[b] = free[b]
  BY <1>2, <1>3 DEF Elsewhere
<1>5. \A j \in low .. high - 1 : j = low \/ j \in low + 1 .. high - 1
  OBVIOUS
<1>6. \A j \in low + 1 .. high - 1 : j \in low .. high - 1 /\ j # low
  OBVIOUS
<1>7. \A j \in low + 1 .. high - 1 : buf[j] # b0
  BY <1>1, <1>2, <1>6
<1>8. \A i, j \in low + 1 .. high - 1 : buf[i] = buf[j] => i = j
  BY <1>1, <1>6
<1>9. \A b \in B : free2[b] = IF b \in gone \/ \E j \in low + 1 .. high - 1 : buf[j] = b THEN 0 ELSE 1
  <2> SUFFICES ASSUME NEW b \in B
               PROVE  free2[b] = IF b \in gone \/ \E j \in low + 1 .. high - 1 : buf[j] = b THEN 0 ELSE 1
    OBVIOUS
  <2>1. CASE b = b0
    BY <1>4, <1>7, <2>1
  <2>2. CASE b # b0
    <3>1. (\E j \in low .. high - 1 : buf[j] = b) <=> (\E j \in low + 1 .. high - 1 : buf[j] = b)
      BY <1>5, <1>6, <2>2
    <3> QED
      BY <1>1, <1>4, <2>2, <3>1
  <2> QED
    BY <2>1, <2>2
<1>10. ASSUME NEW j \in low + 1 .. full - 1 PROVE held2[buf[j]] = value[j]
  <2>1. j \in low + 1 .. high - 1 /\ j \in low .. full - 1 /\ j \in Nat
    OBVIOUS
  <2>2. buf[j] \in B /\ buf[j] # b0
    BY <1>7, <2>1
  <2> QED
    BY <1>1, <2>1, <2>2 DEF Elsewhere
<1>11. DOMAIN free2 = B
  BY <1>4
<1>12. Ring(buf, low + 1, full, high, gone, free2, held2, value)
  BY <1>8, <1>9, <1>10, <1>11 DEF Ring
<1> QED
  BY <1>4, <1>12

\* When all flags are up there is no user left.
LEMMA RingIdle ==
  ASSUME NEW B, NEW buf \in [Nat -> B],
         NEW low \in Nat, NEW full, NEW high \in Nat, low <= high,
         NEW gone, NEW free \in [B -> Nat], NEW held, NEW value,
         Ring(buf, low, full, high, gone, free, held, value),
         \A b \in B : b \notin gone => free[b] > 0,
         \A j \in Nat : buf[j] \notin gone
  PROVE  low = high
<1> SUFFICES ASSUME low < high PROVE FALSE
  OBVIOUS
<1>1. low \in low .. high - 1 /\ buf[low] \in B
  OBVIOUS
<1>2. free[buf[low]] = 0
  BY <1>1 DEF Ring
<1> QED
  BY <1>1, <1>2

\* Without users the flags of what is gone are down.
LEMMA RingEmpty ==
  ASSUME NEW B, NEW buf, NEW low \in Nat, NEW gone, NEW free, DOMAIN free = B, NEW held, NEW value,
         \A b \in B : free[b] = IF b \in gone THEN 0 ELSE 1
  PROVE  Ring(buf, low, low, low, gone, free, held, value)
<1>1. low .. low - 1 = {}
  OBVIOUS
<1> QED
  BY <1>1 DEF Ring

-----------------------------------------------------------------------------
(* The inductive invariant.                                                *)

\* Keys and queries MTE2 has begun to load, blocks and tiles MTE1 has begun,
\* products M has begun.
Keyed == IF mte2 = "key" THEN fetched + 1 ELSE fetched
Queried == IF mte2 = "query" THEN asked + 1 ELSE asked
Begun == IF mte1 \in {"block", "tile"} THEN at + 1 ELSE at
Filled == IF mte1 = "tile" THEN fed + 1 ELSE fed
Multiplied == IF m = "mul" THEN computed + 1 ELSE computed

\* The queries MTE1 has given up.
GivenUp ==
  IF at = NumBlocks(plan) THEN Before(plan, NumBlocks(plan)) ELSE Before(plan, at + 1) - 1

Due == fetched > 0 /\ asked = Before(plan, fetched) - 1 /\ fetched - 1 \in plan.heads

Types ==
  /\ plan \in Plans
  /\ keyFree \in [Keys -> Nat] /\ queryFree \in [Queries -> Nat] /\ l0Free \in [L0s -> Nat]
  /\ DOMAIN key = Keys /\ DOMAIN query = Queries /\ DOMAIN l0 = L0s
  /\ DOMAIN l0c = L0s /\ l0c = [b \in L0s |-> l0c[b]]
  /\ loaded \in Nat /\ moved \in Nat
  /\ fetched \in 0 .. NumBlocks(plan) /\ asked \in Nat
  /\ at \in 0 .. NumBlocks(plan) /\ tile \in Nat
  /\ fed \in Nat /\ computed \in Nat /\ stored \in Nat
  /\ mte2 \in {"idle", "key", "query", "done"}
  /\ mte1 \in {"idle", "block", "tile", "done"} /\ m \in {"idle", "mul"}

\* How far the pipes have come.
Places ==
  /\ mte2 = "key" => fetched < NumBlocks(plan)
  /\ mte2 = "query" => Due
  /\ mte2 = "done" => fetched = NumBlocks(plan) /\ at = NumBlocks(plan)
  /\ asked = Before(plan, fetched) \/ Due
  /\ mte2 \in {"key", "done"} => asked = Before(plan, fetched)
  /\ mte1 \in {"block", "tile"} => at < NumBlocks(plan) /\ tile <= plan.tiles[at]
  /\ mte1 \in {"idle", "done"} => tile = 0
  /\ mte1 = "tile" => tile < plan.tiles[at]
  /\ mte1 = "done" => at = NumBlocks(plan) /\ computed = fed
  /\ fed = Base(plan)[at] + tile
  /\ stored <= computed /\ Multiplied <= fed

\* Every flag that says something has arrived stands for something not taken
\* yet: of each block begun the key, of the first of a segment the query too.
Arrived ==
  /\ loaded + Begun + Before(plan, Begun) = fetched + asked
  /\ moved + Multiplied = fed

KeysKept ==
  Ring([j \in Nat |-> KeyBuf(j)], at, fetched, Keyed,
       IF mte2 = "done" THEN Keys ELSE {}, keyFree, key, [j \in Nat |-> j])

\* A kernel may have fewer query buffers than there are.
Unused(p) == {q \in Queries : q >= p.queries}
QueriesKept ==
  Ring([s \in Nat |-> BufOf(plan, s)], GivenUp, asked, Queried,
       IF mte2 = "done" THEN Queries ELSE Unused(plan), queryFree, query, [s \in Nat |-> s])

OperandsKept ==
  Ring([n \in Nat |-> L0Buf(n)], computed, fed, Filled,
       IF mte1 = "done" THEN L0s ELSE {}, l0Free, l0, [n \in Nat |-> Pair(plan, n)])

\* A product's buffer is free when there is nothing in it (unitFlag).
Vacant(held) == [b \in L0s |-> IF held[b] = Nothing THEN 1 ELSE 0]
ProductsKept ==
  /\ Ring([n \in Nat |-> L0Buf(n)], stored, computed, computed,
          {}, Vacant(l0c), l0c, [n \in Nat |-> Pair(plan, n)])
  /\ m = "mul" => l0c[L0Buf(computed)] = Nothing

CubeInv == Types /\ Places /\ Arrived /\ KeysKept /\ QueriesKept /\ OperandsKept /\ ProductsKept
-----------------------------------------------------------------------------
(* What the invariant says of the pipes.                                   *)

\* The shape of the plan, and where MTE2 and MTE1 are in it.
LEMMA InvShape ==
  ASSUME CubeInv
  PROVE  /\ plan \in Plans /\ NumBlocks(plan) \in Nat /\ Blocks = NumBlocks(plan)
         /\ plan.heads \in SUBSET (0 .. NumBlocks(plan) - 1)
         /\ NumBlocks(plan) > 0 => 0 \in plan.heads
         /\ \A n \in Nat : Before(plan, n) \in Nat
         /\ Before(plan, 0) = 0
         /\ \A n \in Nat : Before(plan, n + 1) =
              IF n \in plan.heads THEN Before(plan, n) + 1 ELSE Before(plan, n)
         /\ fetched \in Nat /\ fetched <= NumBlocks(plan)
         /\ at \in Nat /\ at <= NumBlocks(plan)
<1>1. plan \in Plans
  BY DEF CubeInv, Types
<1>2. /\ NumBlocks(plan) \in Nat /\ plan.heads \in SUBSET (0 .. NumBlocks(plan) - 1)
      /\ NumBlocks(plan) > 0 => 0 \in plan.heads
  BY <1>1, PlanFacts
<1>3. fetched \in 0 .. NumBlocks(plan) /\ at \in 0 .. NumBlocks(plan)
  BY DEF CubeInv, Types
<1>4. fetched \in Nat /\ fetched <= NumBlocks(plan) /\ at \in Nat /\ at <= NumBlocks(plan)
  BY <1>2, <1>3
<1> QED
  BY <1>1, <1>2, <1>4, BeforeSteps, Now

\* A query is due when the last key block fetched begins a segment.
LEMMA DueIs ==
  ASSUME CubeInv
  PROVE  QueryDue <=> Due
<1>1. fetched \in Nat /\ plan \in Plans
  BY InvShape
<1>2. fetched > 0 => Segment(fetched - 1) = Before(plan, fetched) - 1
  <2>1. SUFFICES ASSUME fetched > 0 PROVE Segment(fetched - 1) = Before(plan, fetched) - 1
    OBVIOUS
  <2>2. fetched - 1 \in Nat /\ (fetched - 1) + 1 = fetched
    BY <1>1, <2>1
  <2> QED
    BY <1>1, <2>2, Now
<1>3. Before(plan, fetched) \in Nat
  BY <1>1, InvShape
<1>4. asked = Before(plan, fetched) \/ Due
  BY DEF CubeInv, Places
<1> QED
  BY <1>2, <1>3, <1>4 DEF QueryDue, Due

\* MTE1 works only on what has been loaded: MTE2 is ahead of it.
LEMMA Ahead ==
  ASSUME CubeInv
  PROVE  /\ Begun \in Nat /\ at <= Begun /\ Begun <= fetched
         /\ Before(plan, Begun) <= asked /\ asked <= Before(plan, fetched)
         /\ GivenUp \in Nat /\ GivenUp <= asked
         /\ asked \in Nat /\ loaded \in Nat
<1>1. asked \in Nat /\ loaded \in Nat /\ fetched \in Nat /\ at \in Nat /\ plan \in Plans
  BY InvShape DEF CubeInv, Types
<1>2. Begun \in Nat /\ at <= Begun
  BY <1>1 DEF Begun
<1>3. loaded + Begun + Before(plan, Begun) = fetched + asked
  BY DEF CubeInv, Arrived
<1>4. Before(plan, fetched) \in Nat /\ Before(plan, Begun) \in Nat /\ Before(plan, at) \in Nat
  BY <1>1, <1>2, InvShape
<1>5. asked = Before(plan, fetched) \/ (Due /\ asked = Before(plan, fetched) - 1)
  BY DEF CubeInv, Places, Due
<1> HIDE DEF Begun
<1>6. asked <= Before(plan, fetched)
  BY <1>1, <1>4, <1>5
<1>7. Begun <= fetched
  <2>1. SUFFICES ASSUME fetched < Begun PROVE FALSE
    BY <1>1, <1>2
  <2>2. Before(plan, fetched) <= Before(plan, Begun)
    BY <1>1, <1>2, <2>1, BeforeGrows
  <2> QED
    BY <1>1, <1>2, <1>3, <1>4, <1>6, <2>1, <2>2
<1>8. Before(plan, Begun) <= asked
  <2>1. CASE Begun = fetched
    BY <1>1, <1>2, <1>3, <1>4, <2>1
  <2>2. CASE Begun < fetched
    <3>1. fetched - 1 \in Nat /\ (fetched - 1) + 1 = fetched /\ Begun <= fetched - 1
      BY <1>1, <1>2, <2>2
    <3>2. Before(plan, Begun) <= Before(plan, fetched - 1)
      BY <1>1, <1>2, <3>1, BeforeGrows
    <3>3. Before(plan, fetched - 1) \in Nat
      BY <3>1, InvShape
    <3>4. Before(plan, fetched) = IF fetched - 1 \in plan.heads THEN Before(plan, fetched - 1) + 1
                                  ELSE Before(plan, fetched - 1)
      BY <3>1, InvShape
    <3>5. CASE Due
      BY <1>1, <1>4, <1>5, <3>2, <3>3, <3>4, <3>5 DEF Due
    <3>6. CASE asked = Before(plan, fetched)
      BY <1>4, <3>2, <3>3, <3>4, <3>6
    <3> QED
      BY <1>5, <3>5, <3>6
  <2> QED
    BY <1>1, <1>2, <1>7, <2>1, <2>2
<1>9. Before(plan, at) <= asked
  <2>1. Before(plan, at) <= Before(plan, Begun)
    BY <1>1, <1>2, BeforeGrows
  <2> QED
    BY <1>1, <1>4, <1>8, <2>1
<1>10. GivenUp \in Nat /\ GivenUp <= asked
  <2>1. CASE at = NumBlocks(plan)
    BY <1>1, <1>4, <1>9, <2>1 DEF GivenUp
  <2>2. CASE at # NumBlocks(plan)
    <3>1. Before(plan, at + 1) = IF at \in plan.heads THEN Before(plan, at) + 1 ELSE Before(plan, at)
      BY <1>1, InvShape
    <3>2. 0 \in plan.heads
      BY <1>1, <2>2, InvShape
    <3>3. Before(plan, 0 + 1) = 1
      BY <3>2, InvShape
    <3>4. Before(plan, 1) <= Before(plan, at + 1)
      BY <1>1, BeforeGrows
    <3>5. Before(plan, at + 1) \in Nat /\ Before(plan, at + 1) >= 1
      BY <1>1, <3>3, <3>4, InvShape
    <3> QED
      BY <1>1, <1>4, <1>9, <2>2, <3>1, <3>5 DEF GivenUp
  <2> QED
    BY <2>1, <2>2
<1> QED
  BY <1>1, <1>2, <1>6, <1>7, <1>8, <1>10

\* While MTE1 is in a block, the query given up next is that block's.
LEMMA InBlock ==
  ASSUME CubeInv, mte1 \in {"block", "tile"}
  PROVE  /\ at \in 0 .. NumBlocks(plan) - 1 /\ at + 1 <= fetched
         /\ GivenUp = Before(plan, at + 1) - 1 /\ GivenUp < asked
         /\ Segment(at) = GivenUp
         /\ plan.tiles[at] \in Nat /\ mte2 # "done"
<1>1. at \in Nat /\ at < NumBlocks(plan) /\ NumBlocks(plan) \in Nat /\ plan \in Plans
  BY InvShape DEF CubeInv, Places
<1>2. Begun = at + 1
  BY DEF Begun
<1>3. at + 1 <= fetched /\ Before(plan, at + 1) <= asked
  BY <1>2, Ahead
<1>4. GivenUp = Before(plan, at + 1) - 1
  BY <1>1 DEF GivenUp
<1>5. Before(plan, at + 1) \in Nat /\ asked \in Nat
  BY <1>1, InvShape, Ahead
<1>6. Segment(at) = Before(plan, at + 1) - 1
  BY <1>1, Now
<1>7. plan.tiles[at] \in Nat
  BY <1>1, PlanFacts, CubeAssumption
<1>8. mte2 # "done"
  BY <1>1 DEF CubeInv, Places
<1> QED
  BY <1>1, <1>3, <1>4, <1>5, <1>6, <1>7, <1>8

\* The buffers of keys, queries and tiles.
LEMMA RingTypes ==
  /\ [j \in Nat |-> KeyBuf(j)] \in [Nat -> Keys]
  /\ [n \in Nat |-> L0Buf(n)] \in [Nat -> L0s]
  /\ \A p \in Plans : /\ [s \in Nat |-> BufOf(p, s)] \in [Nat -> Queries]
                      /\ \A s \in Nat : BufOf(p, s) \notin Unused(p)
<1>1. \A p \in Plans, s \in Nat : BufOf(p, s) \in Queries /\ BufOf(p, s) < p.queries
                                  /\ p.queries \in Nat /\ BufOf(p, s) \in Nat
  BY Turns, QueriesFit DEF Queries
<1>2. \A p \in Plans, s \in Nat : BufOf(p, s) \notin Unused(p)
  BY <1>1 DEF Unused
<1> QED
  BY <1>1, <1>2, Turns
-----------------------------------------------------------------------------
(* Steps that leave a kind of buffer alone.                                *)

\* Nothing happens to the keys.
LEMMA KeysStay ==
  ASSUME KeysKept, UNCHANGED <<at, fetched, keyFree, key>>, Keyed' = Keyed,
         mte2' = "done" <=> mte2 = "done"
  PROVE  KeysKept'
BY DEF KeysKept

\* Nothing happens to the queries.
LEMMA QueriesStay ==
  ASSUME QueriesKept, UNCHANGED <<plan, at, asked, queryFree, query>>, Queried' = Queried,
         mte2' = "done" <=> mte2 = "done"
  PROVE  QueriesKept'
<1>1. GivenUp' = GivenUp
  BY DEF GivenUp
<1> QED
  BY <1>1 DEF QueriesKept

\* Nothing happens to the operands.
LEMMA OperandsStay ==
  ASSUME OperandsKept, UNCHANGED <<plan, computed, fed, l0Free, l0>>, Filled' = Filled,
         mte1' = "done" <=> mte1 = "done"
  PROVE  OperandsKept'
BY DEF OperandsKept

\* Nothing happens to the products.
LEMMA ProductsStay ==
  ASSUME ProductsKept, UNCHANGED <<plan, stored, computed, l0c, m>>
  PROVE  ProductsKept'
BY DEF ProductsKept

\* What MTE2 does not touch.
LEMMA Mte2Stays ==
  ASSUME CubeInv, UNCHANGED <<plan, l0Free, moved, mte1Vars, mVars, fixVars>>
  PROVE  OperandsKept' /\ ProductsKept' /\ Begun' = Begun /\ Multiplied' = Multiplied
<1>1. Filled' = Filled
  BY DEF Filled, mte1Vars
<1>2. OperandsKept'
  BY <1>1, OperandsStay DEF CubeInv, mte1Vars, mVars
<1>3. ProductsKept'
  BY ProductsStay DEF CubeInv, mVars, fixVars
<1> QED
  BY <1>2, <1>3 DEF Begun, Multiplied, mte1Vars, mVars

\* What MTE1, M and FIX do not touch unless MTE1 ends a block.
LEMMA Mte1Stays ==
  ASSUME CubeInv, UNCHANGED <<plan, keyFree, queryFree, mte2Vars>>, at' = at
  PROVE  KeysKept' /\ QueriesKept'
<1>1. Keyed' = Keyed /\ Queried' = Queried
  BY DEF Keyed, Queried, mte2Vars
<1>2. KeysKept'
  BY <1>1, KeysStay DEF CubeInv, mte2Vars
<1>3. QueriesKept'
  BY <1>1, QueriesStay DEF CubeInv, mte2Vars
<1> QED
  BY <1>2, <1>3

-----------------------------------------------------------------------------
(* The invariant holds at the start of a launch.                           *)

\* The flags of the buffers a kernel has.
LEMMA StartInv ==
  ASSUME NEW p \in Plans
  PROVE  /\ QueryFlags(p) \in [Queries -> Nat]
         /\ \A q \in Queries : QueryFlags(p)[q] = IF q \in Unused(p) THEN 0 ELSE 1
<1>1. p.queries \in Nat /\ \A q \in Queries : q \in Nat
  BY QueriesFit DEF Queries
<1> QED
  BY <1>1 DEF QueryFlags, Unused

\* The state in which a launch starts: nothing begun, the flags of all buffers up.
Fresh ==
  /\ plan \in Plans
  /\ keyFree = [k \in Keys |-> 1] /\ queryFree = QueryFlags(plan) /\ l0Free = [i \in L0s |-> 1]
  /\ DOMAIN key = Keys /\ DOMAIN query = Queries /\ DOMAIN l0 = L0s
  /\ l0c = [i \in L0s |-> Nothing] /\ loaded = 0 /\ moved = 0
  /\ mte2 = "idle" /\ mte1 = "idle" /\ m = "idle"
  /\ fetched = 0 /\ asked = 0 /\ at = 0 /\ tile = 0 /\ fed = 0 /\ computed = 0 /\ stored = 0

\* It satisfies the invariant.
LEMMA FreshInv == Fresh => CubeInv
<1> SUFFICES ASSUME Fresh PROVE CubeInv
  OBVIOUS
<1> USE DEF Fresh
<1>1. /\ NumBlocks(plan) \in Nat
      /\ NumBlocks(plan) > 0 => 0 \in plan.heads
      /\ Before(plan, 0) = 0
      /\ Before(plan, 0 + 1) = IF 0 \in plan.heads THEN Before(plan, 0) + 1 ELSE Before(plan, 0)
      /\ Base(plan)[0] = 0
  BY PlanFacts, BeforeSteps, BaseSteps
<1>2. GivenUp = 0 /\ Keyed = 0 /\ Queried = 0 /\ Begun = 0 /\ Filled = 0 /\ Multiplied = 0
  BY <1>1 DEF GivenUp, Keyed, Queried, Begun, Filled, Multiplied
<1>3. Types
  <2>1. queryFree \in [Queries -> Nat]
    BY StartInv
  <2>2. 0 \in 0 .. NumBlocks(plan)
    BY <1>1
  <2> QED
    BY <2>1, <2>2 DEF Types
<1>4. Places
  BY <1>1, <1>2 DEF Places
<1>5. Arrived
  BY <1>1, <1>2 DEF Arrived
<1>6. KeysKept
  <2>1. DOMAIN keyFree = Keys /\ \A k \in Keys : keyFree[k] = IF k \in {} THEN 0 ELSE 1
    OBVIOUS
  <2>2. (IF mte2 = "done" THEN Keys ELSE {}) = {}
    OBVIOUS
  <2>3. Ring([j \in Nat |-> KeyBuf(j)], 0, 0, 0, {}, keyFree, key, [j \in Nat |-> j])
    BY <2>1, RingEmpty
  <2> QED
    BY <1>2, <2>2, <2>3 DEF KeysKept
<1>7. QueriesKept
  <2>1. DOMAIN queryFree = Queries /\ \A q \in Queries : queryFree[q] = IF q \in Unused(plan) THEN 0 ELSE 1
    BY StartInv
  <2>2. (IF mte2 = "done" THEN Queries ELSE Unused(plan)) = Unused(plan)
    OBVIOUS
  <2>3. Ring([s \in Nat |-> BufOf(plan, s)], 0, 0, 0, Unused(plan), queryFree, query, [s \in Nat |-> s])
    BY <2>1, RingEmpty
  <2> QED
    BY <1>2, <2>2, <2>3 DEF QueriesKept
<1>8. OperandsKept
  <2>1. DOMAIN l0Free = L0s /\ \A b \in L0s : l0Free[b] = IF b \in {} THEN 0 ELSE 1
    OBVIOUS
  <2>2. (IF mte1 = "done" THEN L0s ELSE {}) = {}
    OBVIOUS
  <2>3. Ring([n \in Nat |-> L0Buf(n)], 0, 0, 0, {}, l0Free, l0, [n \in Nat |-> Pair(plan, n)])
    BY <2>1, RingEmpty
  <2> QED
    BY <1>2, <2>2, <2>3 DEF OperandsKept
<1>9. ProductsKept
  <2>1. DOMAIN Vacant(l0c) = L0s /\ \A b \in L0s : Vacant(l0c)[b] = IF b \in {} THEN 0 ELSE 1
    BY DEF Vacant
  <2>2. Ring([n \in Nat |-> L0Buf(n)], 0, 0, 0, {}, Vacant(l0c), l0c, [n \in Nat |-> Pair(plan, n)])
    BY <2>1, RingEmpty
  <2> QED
    BY <2>2 DEF ProductsKept
<1> QED
  BY <1>3, <1>4, <1>5, <1>6, <1>7, <1>8, <1>9 DEF CubeInv

\* The invariant holds before the first launch.
LEMMA InitCubeInv == Init => CubeInv
<1> SUFFICES ASSUME Init PROVE CubeInv
  OBVIOUS
<1>1. DOMAIN key = Keys /\ DOMAIN query = Queries /\ DOMAIN l0 = L0s
  BY DEF Init
<1> QED
  BY <1>1, FreshInv DEF Init, Fresh

-----------------------------------------------------------------------------
(* MTE2.                                                                   *)

\* A key block gets the next buffer.
LEMMA BeginKeyInv == CubeInv /\ BeginKey => CubeInv'
<1> SUFFICES ASSUME CubeInv, BeginKey PROVE CubeInv'
  OBVIOUS
<1>1. /\ mte2 = "idle" /\ mte2' = "key" /\ ~Due
      /\ fetched \in Nat /\ fetched < NumBlocks(plan) /\ at \in Nat /\ at <= fetched
      /\ keyFree[KeyBuf(fetched)] > 0
  BY InvShape, DueIs, Ahead DEF BeginKey
<1>2. /\ UNCHANGED <<plan, queryFree, l0Free, loaded, moved, query, fetched, asked>>
      /\ UNCHANGED <<mte1Vars, mVars, fixVars>>
      /\ UNCHANGED <<at, tile, fed, computed, stored, mte1, m, l0, l0c>>
      /\ keyFree' = [keyFree EXCEPT ![KeyBuf(fetched)] = @ - 1]
      /\ key' = [key EXCEPT ![KeyBuf(fetched)] = None]
  BY DEF BeginKey, mte1Vars, mVars, fixVars, Lower
<1>3. /\ Keyed = fetched /\ Keyed' = fetched + 1 /\ Queried' = Queried
  BY <1>1, <1>2 DEF Keyed, Queried
<1>4. OperandsKept' /\ ProductsKept' /\ Begun' = Begun /\ Multiplied' = Multiplied
  BY <1>2, Mte2Stays
<1>5. KeysKept' /\ keyFree' \in [Keys -> Nat]
  <2> DEFINE buf == [j \in Nat |-> KeyBuf(j)]
             value == [j \in Nat |-> j]
  <2>1. Ring(buf, at, fetched, fetched, {}, keyFree, key, value)
    BY <1>1, <1>3 DEF CubeInv, KeysKept
  <2>2. keyFree \in [Keys -> Nat] /\ DOMAIN key = Keys
    BY DEF CubeInv, Types
  <2>3. buf \in [Nat -> Keys] /\ buf[fetched] = KeyBuf(fetched)
    BY <1>1, RingTypes
  <2>4. Elsewhere(Keys, buf[fetched], key, key')
    BY <1>2, <2>2, <2>3 DEF Elsewhere
  <2>5. /\ keyFree' \in [Keys -> Nat] /\ keyFree[buf[fetched]] > 0
        /\ keyFree'[buf[fetched]] = keyFree[buf[fetched]] - 1
        /\ Elsewhere(Keys, buf[fetched], keyFree, keyFree')
    BY <1>1, <1>2, <2>2, <2>3 DEF Elsewhere
  <2> HIDE DEF buf, value
  <2>6. at \in Nat /\ fetched \in Nat /\ at <= fetched
    BY <1>1
  <2>7. Ring(buf, at, fetched, fetched + 1, {}, keyFree', key', value)
    BY <2>1, <2>2, <2>3, <2>4, <2>5, <2>6, RingBegin
  <2>8. (IF mte2' = "done" THEN Keys ELSE {}) = {}
    BY <1>1
  <2>9. KeysKept'
    BY <1>2, <1>3, <2>7, <2>8 DEF KeysKept, buf, value
  <2> QED
    BY <2>5, <2>9
<1>6. QueriesKept'
  BY <1>1, <1>2, <1>3, QueriesStay DEF CubeInv
<1>7. Types'
  BY <1>1, <1>2, <1>5 DEF CubeInv, Types
<1>8. Places'
  BY <1>1, <1>2, <1>4 DEF CubeInv, Places, Due
<1>9. Arrived'
  BY <1>2, <1>4 DEF CubeInv, Arrived
<1> QED
  BY <1>4, <1>5, <1>6, <1>7, <1>8, <1>9 DEF CubeInv
\* It is there, and the query of a new segment is due.
LEMMA EndKeyInv == CubeInv /\ EndKey => CubeInv'
<1> SUFFICES ASSUME CubeInv, EndKey PROVE CubeInv'
  OBVIOUS
<1>1. /\ mte2 = "key" /\ mte2' = "idle" /\ NumBlocks(plan) \in Nat
      /\ fetched \in Nat /\ fetched < NumBlocks(plan) /\ at \in Nat /\ at <= fetched
      /\ asked = Before(plan, fetched) /\ asked \in Nat /\ loaded \in Nat
  BY InvShape, Ahead DEF EndKey, CubeInv, Places
<1>2. /\ UNCHANGED <<plan, keyFree, queryFree, l0Free, moved, query, asked>>
      /\ UNCHANGED <<mte1Vars, mVars, fixVars>>
      /\ UNCHANGED <<at, tile, fed, computed, stored, mte1, m, l0, l0c>>
      /\ key' = [key EXCEPT ![KeyBuf(fetched)] = fetched]
      /\ fetched' = fetched + 1 /\ loaded' = loaded + 1
  BY DEF EndKey, KeyNd2NzForPA, mte1Vars, mVars, fixVars
<1>3. /\ Keyed = fetched + 1 /\ Keyed' = fetched + 1 /\ Queried' = Queried
  BY <1>1, <1>2 DEF Keyed, Queried
<1>4. OperandsKept' /\ ProductsKept' /\ Begun' = Begun /\ Multiplied' = Multiplied
  BY <1>2, Mte2Stays
<1>5. KeysKept'
  <2> DEFINE buf == [j \in Nat |-> KeyBuf(j)]
             value == [j \in Nat |-> j]
  <2>1. Ring(buf, at, fetched, fetched + 1, {}, keyFree, key, value)
    BY <1>1, <1>3 DEF CubeInv, KeysKept
  <2>2. DOMAIN key = Keys
    BY DEF CubeInv, Types
  <2>3. buf \in [Nat -> Keys] /\ buf[fetched] = KeyBuf(fetched) /\ value[fetched] = fetched
    BY <1>1, RingTypes
  <2>4. KeyBuf(fetched) \in Keys
    BY <1>1, Turns
  <2> HIDE DEF buf, value
  <2>5. key'[buf[fetched]] = value[fetched] /\ Elsewhere(Keys, buf[fetched], key, key')
    BY <1>2, <2>2, <2>3, <2>4 DEF Elsewhere
  <2>6. Ring(buf, at, fetched + 1, fetched + 1, {}, keyFree, key', value)
    BY <1>1, <2>1, <2>3, <2>5, RingEnd
  <2>7. (IF mte2' = "done" THEN Keys ELSE {}) = {}
    BY <1>1
  <2> QED
    BY <1>2, <1>3, <2>6, <2>7 DEF KeysKept, buf, value
<1>6. QueriesKept'
  BY <1>1, <1>2, <1>3, QueriesStay DEF CubeInv
<1>7. Types'
  <2>1. fetched' \in 0 .. NumBlocks(plan)
    BY <1>1, <1>2
  <2> QED
    BY <1>1, <1>2, <2>1 DEF CubeInv, Types
<1>8. Places'
  <2>1. Before(plan, fetched + 1) =
          IF fetched \in plan.heads THEN Before(plan, fetched) + 1 ELSE Before(plan, fetched)
    BY <1>1, InvShape
  <2>2. asked = Before(plan, fetched + 1)
        \/ (asked = Before(plan, fetched + 1) - 1 /\ fetched \in plan.heads)
    BY <1>1, <2>1
  <2>3. (fetched + 1) - 1 = fetched /\ fetched + 1 > 0
    BY <1>1
  <2>4. asked' = Before(plan', fetched') \/ Due'
    BY <1>2, <2>2, <2>3 DEF Due
  <2> QED
    BY <1>1, <1>2, <1>4, <2>4 DEF CubeInv, Places
<1>9. Arrived'
  <2>1. Before(plan, Begun) \in Nat /\ Begun \in Nat
    BY InvShape, Ahead
  <2> QED
    BY <1>1, <1>2, <1>4, <2>1 DEF CubeInv, Arrived
<1> QED
  BY <1>4, <1>5, <1>6, <1>7, <1>8, <1>9 DEF CubeInv

\* A query gets the next buffer.
LEMMA BeginQueryInv == CubeInv /\ BeginQuery => CubeInv'
<1> SUFFICES ASSUME CubeInv, BeginQuery PROVE CubeInv'
  OBVIOUS
<1>1. /\ mte2 = "idle" /\ mte2' = "query" /\ Due /\ plan \in Plans
      /\ asked \in Nat /\ GivenUp \in Nat /\ GivenUp <= asked
      /\ QueryBuf(asked) = BufOf(plan, asked) /\ queryFree[QueryBuf(asked)] > 0
  BY InvShape, DueIs, Ahead, Now DEF BeginQuery
<1>2. /\ UNCHANGED <<plan, keyFree, l0Free, loaded, moved, key, fetched, asked>>
      /\ UNCHANGED <<mte1Vars, mVars, fixVars>>
      /\ UNCHANGED <<at, tile, fed, computed, stored, mte1, m, l0, l0c>>
      /\ queryFree' = [queryFree EXCEPT ![QueryBuf(asked)] = @ - 1]
      /\ query' = [query EXCEPT ![QueryBuf(asked)] = None]
  BY DEF BeginQuery, mte1Vars, mVars, fixVars, Lower
<1>3. Keyed' = Keyed /\ Queried = asked /\ Queried' = asked + 1 /\ GivenUp' = GivenUp
  BY <1>1, <1>2 DEF Keyed, Queried, GivenUp
<1>4. OperandsKept' /\ ProductsKept' /\ Begun' = Begun /\ Multiplied' = Multiplied
  BY <1>2, Mte2Stays
<1>5. QueriesKept' /\ queryFree' \in [Queries -> Nat]
  <2> DEFINE buf == [s \in Nat |-> BufOf(plan, s)]
             value == [s \in Nat |-> s]
  <2>1. Ring(buf, GivenUp, asked, asked, Unused(plan), queryFree, query, value)
    BY <1>1, <1>3 DEF CubeInv, QueriesKept
  <2>2. queryFree \in [Queries -> Nat] /\ DOMAIN query = Queries
    BY DEF CubeInv, Types
  <2>3. buf \in [Nat -> Queries] /\ buf[asked] = QueryBuf(asked)
    BY <1>1, RingTypes
  <2>4. QueryBuf(asked) \in Queries
    BY <1>1, Turns
  <2> HIDE DEF buf, value
  <2>5. Elsewhere(Queries, buf[asked], query, query')
    BY <1>2, <2>2, <2>3 DEF Elsewhere
  <2>6. /\ queryFree' \in [Queries -> Nat] /\ queryFree[buf[asked]] > 0
        /\ queryFree'[buf[asked]] = queryFree[buf[asked]] - 1
        /\ Elsewhere(Queries, buf[asked], queryFree, queryFree')
    BY <1>1, <1>2, <2>2, <2>3, <2>4 DEF Elsewhere
  <2>7. Ring(buf, GivenUp, asked, asked + 1, Unused(plan), queryFree', query', value)
    BY <1>1, <2>1, <2>2, <2>3, <2>5, <2>6, RingBegin
  <2>8. (IF mte2' = "done" THEN Queries ELSE Unused(plan)) = Unused(plan)
    BY <1>1
  <2>9. QueriesKept'
    BY <1>2, <1>3, <2>7, <2>8 DEF QueriesKept, buf, value
  <2> QED
    BY <2>6, <2>9
<1>6. KeysKept'
  BY <1>1, <1>2, <1>3, KeysStay DEF CubeInv
<1>7. Types'
  BY <1>1, <1>2, <1>5 DEF CubeInv, Types
<1>8. Places'
  BY <1>1, <1>2, <1>4 DEF CubeInv, Places, Due
<1>9. Arrived'
  BY <1>2, <1>4 DEF CubeInv, Arrived
<1> QED
  BY <1>4, <1>5, <1>6, <1>7, <1>8, <1>9 DEF CubeInv

\* It is there.
LEMMA EndQueryInv == CubeInv /\ EndQuery => CubeInv'
<1> SUFFICES ASSUME CubeInv, EndQuery PROVE CubeInv'
  OBVIOUS
<1>1. /\ mte2 = "query" /\ mte2' = "idle" /\ Due /\ plan \in Plans
      /\ asked \in Nat /\ GivenUp \in Nat /\ GivenUp <= asked /\ loaded \in Nat
      /\ QueryBuf(asked) = BufOf(plan, asked)
  BY InvShape, Ahead, Now DEF EndQuery, CubeInv, Places
<1>2. /\ UNCHANGED <<plan, keyFree, queryFree, l0Free, moved, key, fetched>>
      /\ UNCHANGED <<mte1Vars, mVars, fixVars>>
      /\ UNCHANGED <<at, tile, fed, computed, stored, mte1, m, l0, l0c>>
      /\ query' = [query EXCEPT ![QueryBuf(asked)] = asked]
      /\ asked' = asked + 1 /\ loaded' = loaded + 1
  BY DEF EndQuery, QueryNd2Nz, mte1Vars, mVars, fixVars
<1>3. Keyed' = Keyed /\ Queried = asked + 1 /\ Queried' = asked + 1 /\ GivenUp' = GivenUp
  BY <1>1, <1>2 DEF Keyed, Queried, GivenUp
<1>4. OperandsKept' /\ ProductsKept' /\ Begun' = Begun /\ Multiplied' = Multiplied
  BY <1>2, Mte2Stays
<1>5. QueriesKept'
  <2> DEFINE buf == [s \in Nat |-> BufOf(plan, s)]
             value == [s \in Nat |-> s]
  <2>1. Ring(buf, GivenUp, asked, asked + 1, Unused(plan), queryFree, query, value)
    BY <1>1, <1>3 DEF CubeInv, QueriesKept
  <2>2. DOMAIN query = Queries
    BY DEF CubeInv, Types
  <2>3. buf \in [Nat -> Queries] /\ buf[asked] = QueryBuf(asked) /\ value[asked] = asked
    BY <1>1, RingTypes
  <2>4. QueryBuf(asked) \in Queries
    BY <1>1, Turns
  <2> HIDE DEF buf, value
  <2>5. query'[buf[asked]] = value[asked] /\ Elsewhere(Queries, buf[asked], query, query')
    BY <1>2, <2>2, <2>3, <2>4 DEF Elsewhere
  <2>6. Ring(buf, GivenUp, asked + 1, asked + 1, Unused(plan), queryFree, query', value)
    BY <1>1, <2>1, <2>3, <2>5, RingEnd
  <2>7. (IF mte2' = "done" THEN Queries ELSE Unused(plan)) = Unused(plan)
    BY <1>1
  <2> QED
    BY <1>2, <1>3, <2>6, <2>7 DEF QueriesKept, buf, value
<1>6. KeysKept'
  BY <1>1, <1>2, <1>3, KeysStay DEF CubeInv
<1>7. Types'
  BY <1>1, <1>2 DEF CubeInv, Types
<1>8. Places'
  <2>1. Before(plan, fetched) \in Nat
    BY InvShape
  <2>2. asked + 1 = Before(plan, fetched)
    BY <1>1, <2>1 DEF Due
  <2> QED
    BY <1>1, <1>2, <1>4, <2>2 DEF CubeInv, Places
<1>9. Arrived'
  <2>1. Before(plan, Begun) \in Nat /\ Begun \in Nat /\ fetched \in Nat
    BY InvShape, Ahead
  <2> QED
    BY <1>1, <1>2, <1>4, <2>1 DEF CubeInv, Arrived
<1> QED
  BY <1>4, <1>5, <1>6, <1>7, <1>8, <1>9 DEF CubeInv
\* MTE2 takes the flags back only when MTE1 has given all buffers up.
LEMMA FreeL1Inv == CubeInv /\ FreeL1 => CubeInv'
<1> SUFFICES ASSUME CubeInv, FreeL1 PROVE CubeInv'
  OBVIOUS
<1>1. /\ mte2 = "idle" /\ mte2' = "done" /\ ~Due /\ fetched = NumBlocks(plan)
      /\ plan \in Plans /\ fetched \in Nat /\ at \in Nat /\ at <= fetched
      /\ asked \in Nat /\ GivenUp \in Nat /\ GivenUp <= asked
  BY InvShape, DueIs, Ahead DEF FreeL1
<1>2. /\ UNCHANGED <<plan, l0Free, loaded, moved, key, query, fetched, asked>>
      /\ UNCHANGED <<mte1Vars, mVars, fixVars>>
      /\ UNCHANGED <<at, tile, fed, computed, stored, mte1, m, l0, l0c>>
  BY DEF FreeL1, mte1Vars, mVars, fixVars
<1>3. Keyed = fetched /\ Keyed' = fetched /\ Queried = asked /\ Queried' = asked /\ GivenUp' = GivenUp
  BY <1>1, <1>2 DEF Keyed, Queried, GivenUp
<1>4. OperandsKept' /\ ProductsKept' /\ Begun' = Begun /\ Multiplied' = Multiplied
  BY <1>2, Mte2Stays
<1>5. KeysKept' /\ at = fetched /\ keyFree' = [k \in Keys |-> 0]
  <2> DEFINE buf == [j \in Nat |-> KeyBuf(j)]
             value == [j \in Nat |-> j]
  <2>1. Ring(buf, at, fetched, fetched, {}, keyFree, key, value)
    BY <1>1, <1>3 DEF CubeInv, KeysKept
  <2>2. keyFree \in [Keys -> Nat] /\ DOMAIN keyFree = Keys
    BY DEF CubeInv, Types
  <2>3. \A k \in Keys : keyFree[k] > 0
    BY DEF FreeL1, FreeKeys
  <2>4. buf \in [Nat -> Keys]
    BY RingTypes
  <2> HIDE DEF buf, value
  <2>5. at = fetched
    <3> DEFINE none == {}
    <3>1. (\A k \in Keys : k \notin none => keyFree[k] > 0) /\ \A j \in Nat : buf[j] \notin none
      BY <2>3
    <3>2. Ring(buf, at, fetched, fetched, none, keyFree, key, value)
      BY <2>1
    <3> HIDE DEF none
    <3> QED
      BY <1>1, <2>2, <2>4, <3>1, <3>2, RingIdle
  <2>6. \A k \in Keys : keyFree[k] = 1
    BY <2>1, <2>2, <2>3 DEF Ring
  <2>7. keyFree' = [k \in Keys |-> 0]
    BY <2>6 DEF FreeL1, FreeKeys
  <2>8. DOMAIN keyFree' = Keys /\ \A k \in Keys : keyFree'[k] = IF k \in Keys THEN 0 ELSE 1
    BY <2>7
  <2>9. Ring(buf, fetched, fetched, fetched, Keys, keyFree', key, value)
    BY <1>1, <2>8, RingEmpty
  <2>10. (IF mte2' = "done" THEN Keys ELSE {}) = Keys
    BY <1>1
  <2>11. KeysKept'
    BY <1>2, <1>3, <2>5, <2>9, <2>10 DEF KeysKept, buf, value
  <2> QED
    BY <2>5, <2>7, <2>11
<1>6. QueriesKept' /\ queryFree' = [q \in Queries |-> 0]
  <2> DEFINE buf == [s \in Nat |-> BufOf(plan, s)]
             value == [s \in Nat |-> s]
  <2>1. Ring(buf, GivenUp, asked, asked, Unused(plan), queryFree, query, value)
    BY <1>1, <1>3 DEF CubeInv, QueriesKept
  <2>2. queryFree \in [Queries -> Nat] /\ DOMAIN queryFree = Queries
    BY DEF CubeInv, Types
  <2>3. \A q \in Queries : q \notin Unused(plan) => queryFree[q] > 0
    <3>1. plan.queries \in Nat /\ \A q \in Queries : q \in Nat
      BY <1>1, QueriesFit DEF Queries
    <3> QED
      BY <3>1 DEF FreeL1, Unused
  <2>4. buf \in [Nat -> Queries] /\ \A s \in Nat : buf[s] \notin Unused(plan)
    BY <1>1, RingTypes
  <2> HIDE DEF buf, value
  <2>5. GivenUp = asked
    BY <1>1, <2>1, <2>2, <2>3, <2>4, RingIdle
  <2>6. \A q \in Queries : queryFree[q] = IF q \in Unused(plan) THEN 0 ELSE 1
    BY <2>1, <2>2, <2>3 DEF Ring
  <2>7. queryFree' = [q \in Queries |-> 0]
    <3>1. queryFree' = [q \in Queries |-> queryFree[q] - QueryFlags(plan)[q]]
      BY DEF FreeL1
    <3>2. \A q \in Queries : QueryFlags(plan)[q] = IF q \in Unused(plan) THEN 0 ELSE 1
      BY <1>1, StartInv
    <3> QED
      BY <2>6, <3>1, <3>2
  <2>8. DOMAIN queryFree' = Queries /\ \A q \in Queries : queryFree'[q] = IF q \in Queries THEN 0 ELSE 1
    BY <2>7
  <2>9. Ring(buf, asked, asked, asked, Queries, queryFree', query, value)
    BY <1>1, <2>8, RingEmpty
  <2>10. (IF mte2' = "done" THEN Queries ELSE Unused(plan)) = Queries
    BY <1>1
  <2>11. QueriesKept'
    BY <1>2, <1>3, <2>5, <2>9, <2>10 DEF QueriesKept, buf, value
  <2> QED
    BY <2>7, <2>11
<1>7. Types'
  <2>1. keyFree' \in [Keys -> Nat] /\ queryFree' \in [Queries -> Nat]
    BY <1>5, <1>6
  <2> QED
    BY <1>1, <1>2, <2>1 DEF CubeInv, Types
<1>8. Places'
  BY <1>1, <1>2, <1>4, <1>5 DEF CubeInv, Places, Due
<1>9. Arrived'
  BY <1>2, <1>4 DEF CubeInv, Arrived
<1> QED
  BY <1>4, <1>5, <1>6, <1>7, <1>8, <1>9 DEF CubeInv

-----------------------------------------------------------------------------
(* MTE1.                                                                   *)

\* One flag is taken for a block, and one more for the first of a segment.
LEMMA BeginBlockInv == CubeInv /\ BeginBlock => CubeInv'
<1> SUFFICES ASSUME CubeInv, BeginBlock PROVE CubeInv'
  OBVIOUS
<1>1. /\ mte1 = "idle" /\ mte1' = "block" /\ at \in Nat /\ at < NumBlocks(plan) /\ plan \in Plans
      /\ loaded \in Nat /\ loaded >= Awaited(at) /\ loaded' = loaded - Awaited(at)
  BY InvShape, Ahead DEF BeginBlock
<1>2. /\ UNCHANGED <<plan, keyFree, queryFree, l0Free, moved, l0, at, tile, fed>>
      /\ UNCHANGED <<mte2Vars, mVars, fixVars>>
      /\ UNCHANGED <<key, query, mte2, fetched, asked, m, computed, l0c, stored>>
  BY DEF BeginBlock, mte2Vars, mVars, fixVars
<1>3. Begun = at /\ Begun' = at + 1 /\ Filled' = Filled /\ Multiplied' = Multiplied
  BY <1>1, <1>2 DEF Begun, Filled, Multiplied
<1>4. KeysKept' /\ QueriesKept'
  BY <1>2, Mte1Stays
<1>5. OperandsKept' /\ ProductsKept'
  BY <1>1, <1>2, <1>3, OperandsStay, ProductsStay DEF CubeInv
<1>6. Types'
  <2>1. loaded' \in Nat
    BY <1>1 DEF Awaited
  <2> QED
    BY <1>1, <1>2, <2>1 DEF CubeInv, Types
<1>7. Places'
  <2>1. at \in 0 .. NumBlocks(plan) - 1
    BY <1>1, InvShape
  <2>2. plan.tiles[at] \in Nat /\ tile = 0
    BY <1>1, <2>1, PlanFacts, CubeAssumption DEF CubeInv, Places
  <2> QED
    BY <1>1, <1>2, <1>3, <2>2 DEF CubeInv, Places, Due
<1>8. Arrived'
  <2>1. /\ Before(plan, at) \in Nat
        /\ Before(plan, at + 1) = IF at \in plan.heads THEN Before(plan, at) + 1 ELSE Before(plan, at)
    BY <1>1, InvShape
  <2>2. loaded + at + Before(plan, at) = fetched + asked /\ moved + Multiplied = fed
    BY <1>3 DEF CubeInv, Arrived
  <2>3. fetched \in Nat /\ asked \in Nat
    BY InvShape, Ahead
  <2>4. loaded' + (at + 1) + Before(plan, at + 1) = fetched + asked
    BY <1>1, <2>1, <2>2, <2>3 DEF Awaited
  <2> QED
    BY <1>2, <1>3, <2>2, <2>4 DEF Arrived
<1> QED
  BY <1>4, <1>5, <1>6, <1>7, <1>8 DEF CubeInv

\* A tile gets the next buffers of L0.
LEMMA BeginTileInv == CubeInv /\ BeginTile => CubeInv'
<1> SUFFICES ASSUME CubeInv, BeginTile PROVE CubeInv'
  OBVIOUS
<1>1. /\ mte1 = "block" /\ mte1' = "tile" /\ tile < plan.tiles[at]
      /\ fed \in Nat /\ computed \in Nat /\ computed <= fed
      /\ l0Free[L0Buf(fed)] > 0
  BY DEF BeginTile, CubeInv, Types, Places, Multiplied
<1>2. /\ UNCHANGED <<plan, keyFree, queryFree, loaded, moved, at, tile, fed>>
      /\ UNCHANGED <<mte2Vars, mVars, fixVars>>
      /\ UNCHANGED <<key, query, mte2, fetched, asked, m, computed, l0c, stored>>
      /\ l0Free' = [l0Free EXCEPT ![L0Buf(fed)] = @ - 1]
      /\ l0' = [l0 EXCEPT ![L0Buf(fed)] = Nothing]
  BY DEF BeginTile, mte2Vars, mVars, fixVars, Lower
<1>3. Begun' = Begun /\ Filled = fed /\ Filled' = fed + 1 /\ Multiplied' = Multiplied
  BY <1>1, <1>2 DEF Begun, Filled, Multiplied
<1>4. KeysKept' /\ QueriesKept'
  BY <1>2, Mte1Stays
<1>5. ProductsKept'
  BY <1>2, ProductsStay DEF CubeInv
<1>6. OperandsKept' /\ l0Free' \in [L0s -> Nat]
  <2> DEFINE buf == [n \in Nat |-> L0Buf(n)]
             value == [n \in Nat |-> Pair(plan, n)]
  <2>1. Ring(buf, computed, fed, fed, {}, l0Free, l0, value)
    BY <1>1, <1>3 DEF CubeInv, OperandsKept
  <2>2. l0Free \in [L0s -> Nat] /\ DOMAIN l0 = L0s
    BY DEF CubeInv, Types
  <2>3. buf \in [Nat -> L0s] /\ buf[fed] = L0Buf(fed)
    BY <1>1, RingTypes
  <2>4. L0Buf(fed) \in L0s
    BY <1>1, Turns
  <2> HIDE DEF buf, value
  <2>5. Elsewhere(L0s, buf[fed], l0, l0')
    BY <1>2, <2>2, <2>3 DEF Elsewhere
  <2>6. /\ l0Free' \in [L0s -> Nat] /\ l0Free[buf[fed]] > 0
        /\ l0Free'[buf[fed]] = l0Free[buf[fed]] - 1
        /\ Elsewhere(L0s, buf[fed], l0Free, l0Free')
    BY <1>1, <1>2, <2>2, <2>3, <2>4 DEF Elsewhere
  <2>7. Ring(buf, computed, fed, fed + 1, {}, l0Free', l0', value)
    BY <1>1, <2>1, <2>2, <2>3, <2>5, <2>6, RingBegin
  <2>8. (IF mte1' = "done" THEN L0s ELSE {}) = {}
    BY <1>1
  <2>9. OperandsKept'
    BY <1>2, <1>3, <2>7, <2>8 DEF OperandsKept, buf, value
  <2> QED
    BY <2>6, <2>9
<1>7. Types'
  BY <1>1, <1>2, <1>6 DEF CubeInv, Types
<1>8. Places'
  BY <1>1, <1>2, <1>3 DEF CubeInv, Places, Due
<1>9. Arrived'
  BY <1>2, <1>3 DEF CubeInv, Arrived
<1> QED
  BY <1>4, <1>5, <1>6, <1>7, <1>8, <1>9 DEF CubeInv
\* MTE1 finds what the tile needs in the buffers.
LEMMA TileOperands ==
  ASSUME CubeInv, mte1 = "tile"
  PROVE  /\ key[KeyBuf(at)] = at /\ query[QueryBuf(Segment(at))] = Segment(at)
         /\ Pair(plan, fed) = [key |-> at, query |-> Segment(at)]
<1>1. /\ at \in 0 .. NumBlocks(plan) - 1 /\ at + 1 <= fetched
      /\ GivenUp = Before(plan, at + 1) - 1 /\ GivenUp < asked
      /\ Segment(at) = GivenUp /\ plan.tiles[at] \in Nat
  BY InBlock
<1>2. /\ plan \in Plans /\ NumBlocks(plan) \in Nat /\ fetched \in Nat /\ asked \in Nat
      /\ GivenUp \in Nat /\ QueryBuf(GivenUp) = BufOf(plan, GivenUp)
  BY InvShape, Ahead, Now
<1>3. key[KeyBuf(at)] = at
  <2>1. at \in at .. fetched - 1 /\ at \in Nat
    BY <1>1, <1>2
  <2>2. \A j \in at .. fetched - 1 : key[[i \in Nat |-> KeyBuf(i)][j]] = [i \in Nat |-> i][j]
    BY DEF CubeInv, KeysKept, Ring
  <2> QED
    BY <2>1, <2>2
<1>4. query[QueryBuf(GivenUp)] = GivenUp
  <2>1. GivenUp \in GivenUp .. asked - 1
    BY <1>1, <1>2
  <2>2. \A s \in GivenUp .. asked - 1 :
          query[[i \in Nat |-> BufOf(plan, i)][s]] = [i \in Nat |-> i][s]
    BY DEF CubeInv, QueriesKept, Ring
  <2> QED
    BY <1>2, <2>1, <2>2
<1>5. Pair(plan, fed) = [key |-> at, query |-> Segment(at)]
  <2>1. fed = Base(plan)[at] + tile /\ tile < plan.tiles[at] /\ tile \in Nat /\ fed \in Nat
    BY DEF CubeInv, Places, Types
  <2>2. /\ Base(plan)[at + 1] = Base(plan)[at] + plan.tiles[at]
        /\ Base(plan)[at] \in Nat
    <3>1. at \in 0 .. NumBlocks(plan)
      BY <1>1, <1>2
    <3>2. plan \in Plans
      BY <1>2
    <3>3. Base(plan) \in [0 .. NumBlocks(plan) -> Nat]
      BY <3>2, BaseSteps
    <3>4. \A j \in 0 .. NumBlocks(plan) - 1 : Base(plan)[j + 1] = Base(plan)[j] + plan.tiles[j]
      BY <3>2, BaseSteps
    <3> QED
      BY <1>1, <3>1, <3>3, <3>4
  <2>3. Base(plan)[at] <= fed /\ fed < Base(plan)[at + 1]
    BY <1>1, <2>1, <2>2
  <2>4. TileBlock(plan, fed) = at
    BY <1>1, <1>2, <2>1, <2>3, TileBlockIs
  <2> QED
    BY <1>1, <2>4 DEF Pair
<1> QED
  BY <1>1, <1>3, <1>4, <1>5

\* Its operands are there.
LEMMA EndTileInv == CubeInv /\ EndTile => CubeInv'
<1> SUFFICES ASSUME CubeInv, EndTile PROVE CubeInv'
  OBVIOUS
<1>1. /\ mte1 = "tile" /\ mte1' = "block" /\ tile < plan.tiles[at] /\ tile \in Nat
      /\ fed \in Nat /\ computed \in Nat /\ computed <= fed
      /\ at \in 0 .. NumBlocks(plan) - 1 /\ plan.tiles[at] \in Nat /\ moved \in Nat
  BY InBlock DEF EndTile, CubeInv, Types, Places, Multiplied
<1>2. /\ UNCHANGED <<plan, keyFree, queryFree, l0Free, loaded, at>>
      /\ UNCHANGED <<mte2Vars, mVars, fixVars>>
      /\ UNCHANGED <<key, query, mte2, fetched, asked, m, computed, l0c, stored>>
      /\ tile' = tile + 1 /\ fed' = fed + 1 /\ moved' = moved + 1
  BY DEF EndTile, mte2Vars, mVars, fixVars
<1>3. Begun' = Begun /\ Filled = fed + 1 /\ Filled' = fed + 1 /\ Multiplied' = Multiplied
  BY <1>1, <1>2 DEF Begun, Filled, Multiplied
<1>4. KeysKept' /\ QueriesKept'
  BY <1>2, Mte1Stays
<1>5. ProductsKept'
  BY <1>2, ProductsStay DEF CubeInv
<1>6. l0' = [l0 EXCEPT ![L0Buf(fed)] = Pair(plan, fed)]
  BY <1>1, TileOperands DEF EndTile, LoadKeyToL0b, LoadQueryToL0a
<1>7. OperandsKept'
  <2> DEFINE buf == [n \in Nat |-> L0Buf(n)]
             value == [n \in Nat |-> Pair(plan, n)]
  <2>1. Ring(buf, computed, fed, fed + 1, {}, l0Free, l0, value)
    BY <1>1, <1>3 DEF CubeInv, OperandsKept
  <2>2. DOMAIN l0 = L0s
    BY DEF CubeInv, Types
  <2>3. buf \in [Nat -> L0s] /\ buf[fed] = L0Buf(fed) /\ value[fed] = Pair(plan, fed)
    BY <1>1, RingTypes
  <2>4. L0Buf(fed) \in L0s
    BY <1>1, Turns
  <2> HIDE DEF buf, value
  <2>5. l0'[buf[fed]] = value[fed] /\ Elsewhere(L0s, buf[fed], l0, l0')
    BY <1>6, <2>2, <2>3, <2>4 DEF Elsewhere
  <2>6. Ring(buf, computed, fed + 1, fed + 1, {}, l0Free, l0', value)
    BY <1>1, <2>1, <2>3, <2>5, RingEnd
  <2>7. (IF mte1' = "done" THEN L0s ELSE {}) = {}
    BY <1>1
  <2> QED
    BY <1>2, <1>3, <2>6, <2>7 DEF OperandsKept, buf, value
<1>8. Types'
  <2>1. l0' = [l0 EXCEPT ![L0Buf(fed)] = Pair(plan, fed)] /\ DOMAIN l0' = L0s
    BY <1>6 DEF CubeInv, Types
  <2>2. tile' \in Nat /\ fed' \in Nat /\ moved' \in Nat
    BY <1>1, <1>2
  <2> QED
    BY <1>1, <1>2, <2>1, <2>2 DEF CubeInv, Types
<1>9. Places'
  <2>1. Base(plan)[at] \in Nat /\ at < NumBlocks(plan)
    <3>1. plan \in Plans /\ NumBlocks(plan) \in Nat
      BY InvShape
    <3>2. at \in 0 .. NumBlocks(plan)
      BY <1>1, <3>1
    <3> QED
      BY <1>1, <3>1, <3>2, BaseSteps
  <2>2. fed + 1 = Base(plan)[at] + (tile + 1) /\ tile + 1 <= plan.tiles[at]
    BY <1>1, <2>1 DEF CubeInv, Places
  <2>3. Multiplied <= fed + 1
    BY <1>1 DEF CubeInv, Places, Multiplied
  <2> QED
    BY <1>1, <1>2, <1>3, <2>1, <2>2, <2>3 DEF CubeInv, Places, Due
<1>10. Arrived'
  <2>1. Multiplied \in Nat
    BY <1>1 DEF Multiplied
  <2> QED
    BY <1>1, <1>2, <1>3, <2>1 DEF CubeInv, Arrived
<1> QED
  BY <1>4, <1>5, <1>7, <1>8, <1>9, <1>10 DEF CubeInv
\* The key buffer is given up with every block, the query with the last of its
\* segment.
LEMMA EndBlockInv == CubeInv /\ EndBlock => CubeInv'
<1> SUFFICES ASSUME CubeInv, EndBlock PROVE CubeInv'
  OBVIOUS
<1>1. /\ mte1 = "block" /\ mte1' = "idle" /\ tile = plan.tiles[at] /\ mte2 # "done"
      /\ at \in 0 .. NumBlocks(plan) - 1 /\ at + 1 <= fetched /\ at \in Nat
      /\ NumBlocks(plan) \in Nat /\ plan \in Plans /\ fetched \in Nat /\ asked \in Nat
      /\ GivenUp = Before(plan, at + 1) - 1 /\ GivenUp < asked /\ GivenUp \in Nat
      /\ Segment(at) = GivenUp /\ QueryBuf(GivenUp) = BufOf(plan, GivenUp)
  BY InBlock, InvShape, Ahead, Now DEF EndBlock
<1>2. /\ UNCHANGED <<plan, l0Free, loaded, moved, l0, fed>>
      /\ UNCHANGED <<mte2Vars, mVars, fixVars>>
      /\ UNCHANGED <<key, query, mte2, fetched, asked, m, computed, l0c, stored>>
      /\ keyFree' = [keyFree EXCEPT ![KeyBuf(at)] = @ + 1]
      /\ at' = at + 1 /\ tile' = 0
  BY DEF EndBlock, mte2Vars, mVars, fixVars, Raise
<1>3. /\ Begun = at + 1 /\ Begun' = at + 1 /\ Filled' = Filled /\ Multiplied' = Multiplied
      /\ Keyed' = Keyed /\ Queried' = Queried /\ fetched <= Keyed /\ asked <= Queried
      /\ Keyed \in Nat /\ Queried \in Nat
  BY <1>1, <1>2 DEF Begun, Filled, Multiplied, Keyed, Queried
<1>4. OperandsKept' /\ ProductsKept'
  BY <1>1, <1>2, <1>3, OperandsStay, ProductsStay DEF CubeInv
<1>5. KeysKept' /\ keyFree' \in [Keys -> Nat]
  <2> DEFINE buf == [j \in Nat |-> KeyBuf(j)]
             value == [j \in Nat |-> j]
  <2>1. Ring(buf, at, fetched, Keyed, {}, keyFree, key, value)
    BY <1>1 DEF CubeInv, KeysKept
  <2>2. keyFree \in [Keys -> Nat]
    BY DEF CubeInv, Types
  <2>3. buf \in [Nat -> Keys] /\ buf[at] = KeyBuf(at)
    BY <1>1, RingTypes
  <2>4. KeyBuf(at) \in Keys
    BY <1>1, Turns
  <2> HIDE DEF buf, value
  <2>5. buf[at] \notin {} /\ Elsewhere(Keys, buf[at], key, key)
    BY DEF Elsewhere
  <2>6. /\ keyFree' \in [Keys -> Nat] /\ keyFree'[buf[at]] = keyFree[buf[at]] + 1
        /\ Elsewhere(Keys, buf[at], keyFree, keyFree')
    BY <1>2, <2>2, <2>3, <2>4 DEF Elsewhere
  <2>7. at < fetched
    BY <1>1
  <2>8. Ring(buf, at + 1, fetched, Keyed, {}, keyFree', key, value)
    BY <1>1, <1>3, <2>1, <2>2, <2>3, <2>5, <2>6, <2>7, RingGiveUp
  <2>9. (IF mte2' = "done" THEN Keys ELSE {}) = {}
    BY <1>1, <1>2
  <2>10. KeysKept'
    BY <1>2, <1>3, <2>8, <2>9 DEF KeysKept, buf, value
  <2> QED
    BY <2>6, <2>10
<1>6. GivenUp' = IF ReleasesQuery(at) THEN GivenUp + 1 ELSE GivenUp
  <2>1. Before(plan, at + 1) \in Nat
    BY <1>1, InvShape
  <2>2. ReleasesQuery(at) <=> (at + 1 \in plan.heads \/ at + 1 = NumBlocks(plan))
    BY DEF ReleasesQuery, EndsSegment, NumBlocks
  <2>3. CASE at + 1 = NumBlocks(plan)
    <3>1. GivenUp' = Before(plan, at + 1)
      BY <1>2, <2>3 DEF GivenUp
    <3> QED
      BY <1>1, <2>1, <2>2, <2>3, <3>1
  <2>4. CASE at + 1 # NumBlocks(plan)
    <3>1. GivenUp' = Before(plan, (at + 1) + 1) - 1
      BY <1>2, <2>4 DEF GivenUp
    <3>2. Before(plan, (at + 1) + 1) =
            IF at + 1 \in plan.heads THEN Before(plan, at + 1) + 1 ELSE Before(plan, at + 1)
      BY <1>1, InvShape
    <3> QED
      BY <1>1, <2>1, <2>2, <2>4, <3>1, <3>2
  <2> QED
    BY <2>3, <2>4
<1>7. QueriesKept' /\ queryFree' \in [Queries -> Nat]
  <2> DEFINE buf == [s \in Nat |-> BufOf(plan, s)]
             value == [s \in Nat |-> s]
             gone == Unused(plan)
  <2>1. Ring(buf, GivenUp, asked, Queried, gone, queryFree, query, value)
    BY <1>1 DEF CubeInv, QueriesKept
  <2>2. queryFree \in [Queries -> Nat]
    BY DEF CubeInv, Types
  <2>3. /\ buf \in [Nat -> Queries] /\ buf[GivenUp] = QueryBuf(GivenUp)
        /\ buf[GivenUp] \notin gone
    BY <1>1, RingTypes
  <2>4. QueryBuf(GivenUp) \in Queries
    BY <1>1, Turns
  <2>5. (IF mte2' = "done" THEN Queries ELSE Unused(plan)) = gone
    BY <1>1, <1>2
  <2> HIDE DEF buf, value, gone
  <2>6. CASE ReleasesQuery(at)
    <3>1. queryFree' = [queryFree EXCEPT ![QueryBuf(GivenUp)] = @ + 1]
      BY <1>1, <2>6 DEF EndBlock, Raise
    <3>2. Elsewhere(Queries, buf[GivenUp], query, query)
      BY DEF Elsewhere
    <3>3. /\ queryFree' \in [Queries -> Nat] /\ queryFree'[buf[GivenUp]] = queryFree[buf[GivenUp]] + 1
          /\ Elsewhere(Queries, buf[GivenUp], queryFree, queryFree')
      BY <2>2, <2>3, <2>4, <3>1 DEF Elsewhere
    <3>4. Ring(buf, GivenUp + 1, asked, Queried, gone, queryFree', query, value)
      BY <1>1, <1>3, <2>1, <2>2, <2>3, <3>2, <3>3, RingGiveUp
    <3>5. GivenUp' = GivenUp + 1
      BY <1>6, <2>6
    <3>6. QueriesKept'
      BY <1>2, <1>3, <2>5, <3>4, <3>5 DEF QueriesKept, buf, value
    <3> QED
      BY <3>3, <3>6
  <2>7. CASE ~ReleasesQuery(at)
    <3>1. queryFree' = queryFree /\ GivenUp' = GivenUp
      BY <1>6, <2>7 DEF EndBlock
    <3>2. QueriesKept'
      BY <1>2, <1>3, <2>1, <2>5, <3>1 DEF QueriesKept, buf, value
    <3> QED
      BY <2>2, <3>1, <3>2
  <2> QED
    BY <2>6, <2>7
<1>8. Types'
  <2>1. at' \in 0 .. NumBlocks(plan)
    BY <1>1, <1>2
  <2> QED
    BY <1>1, <1>2, <1>5, <1>7, <2>1 DEF CubeInv, Types
<1>9. Places'
  <2>1. Base(plan)[at + 1] = Base(plan)[at] + plan.tiles[at] /\ Base(plan)[at + 1] \in Nat
    <3>1. at + 1 \in 0 .. NumBlocks(plan)
      BY <1>1
    <3> QED
      BY <1>1, <3>1, BaseSteps
  <2>2. fed = Base(plan)[at + 1] + 0
    BY <1>1, <2>1 DEF CubeInv, Places
  <2> QED
    BY <1>1, <1>2, <1>3, <2>2 DEF CubeInv, Places, Due
<1>10. Arrived'
  BY <1>2, <1>3 DEF CubeInv, Arrived
<1> QED
  BY <1>4, <1>5, <1>7, <1>8, <1>9, <1>10 DEF CubeInv

\* MTE1 takes the flags back only when M has given all buffers up.
LEMMA FreeL0Inv == CubeInv /\ FreeL0 => CubeInv'
<1> SUFFICES ASSUME CubeInv, FreeL0 PROVE CubeInv'
  OBVIOUS
<1>1. /\ mte1 = "idle" /\ mte1' = "done" /\ at = NumBlocks(plan)
      /\ fed \in Nat /\ computed \in Nat /\ computed <= fed
  BY InvShape DEF FreeL0, CubeInv, Types, Places, Multiplied
<1>2. /\ UNCHANGED <<plan, keyFree, queryFree, loaded, moved, l0, at, tile, fed>>
      /\ UNCHANGED <<mte2Vars, mVars, fixVars>>
      /\ UNCHANGED <<key, query, mte2, fetched, asked, m, computed, l0c, stored>>
      /\ l0Free' = [i \in L0s |-> l0Free[i] - 1]
      /\ \A i \in L0s : l0Free[i] > 0
  BY DEF FreeL0, mte2Vars, mVars, fixVars
<1>3. Begun' = Begun /\ Filled = fed /\ Filled' = fed /\ Multiplied' = Multiplied
  BY <1>1, <1>2 DEF Begun, Filled, Multiplied
<1>4. KeysKept' /\ QueriesKept'
  BY <1>2, Mte1Stays
<1>5. ProductsKept'
  BY <1>2, ProductsStay DEF CubeInv
<1>6. OperandsKept' /\ computed = fed /\ l0Free' = [i \in L0s |-> 0]
  <2> DEFINE buf == [n \in Nat |-> L0Buf(n)]
             value == [n \in Nat |-> Pair(plan, n)]
  <2>1. Ring(buf, computed, fed, fed, {}, l0Free, l0, value)
    BY <1>1, <1>3 DEF CubeInv, OperandsKept
  <2>2. l0Free \in [L0s -> Nat] /\ DOMAIN l0Free = L0s
    BY DEF CubeInv, Types
  <2>3. buf \in [Nat -> L0s]
    BY RingTypes
  <2> HIDE DEF buf, value
  <2>4. computed = fed
    <3> DEFINE none == {}
    <3>1. (\A i \in L0s : i \notin none => l0Free[i] > 0) /\ \A n \in Nat : buf[n] \notin none
      BY <1>2
    <3>2. Ring(buf, computed, fed, fed, none, l0Free, l0, value)
      BY <2>1
    <3> HIDE DEF none
    <3> QED
      BY <1>1, <2>2, <2>3, <3>1, <3>2, RingIdle
  <2>5. \A i \in L0s : l0Free[i] = 1
    BY <1>2, <2>1, <2>2 DEF Ring
  <2>6. l0Free' = [i \in L0s |-> 0]
    BY <1>2, <2>5
  <2>7. DOMAIN l0Free' = L0s /\ \A i \in L0s : l0Free'[i] = IF i \in L0s THEN 0 ELSE 1
    BY <2>6
  <2>8. Ring(buf, fed, fed, fed, L0s, l0Free', l0, value)
    BY <1>1, <2>7, RingEmpty
  <2>9. (IF mte1' = "done" THEN L0s ELSE {}) = L0s
    BY <1>1
  <2>10. OperandsKept'
    BY <1>2, <1>3, <2>4, <2>8, <2>9 DEF OperandsKept, buf, value
  <2> QED
    BY <2>4, <2>6, <2>10
<1>7. Types'
  <2>1. l0Free' \in [L0s -> Nat]
    BY <1>6
  <2> QED
    BY <1>1, <1>2, <2>1 DEF CubeInv, Types
<1>8. Places'
  BY <1>1, <1>2, <1>3, <1>6 DEF CubeInv, Places, Due
<1>9. Arrived'
  BY <1>2, <1>3 DEF CubeInv, Arrived
<1> QED
  BY <1>4, <1>5, <1>6, <1>7, <1>8, <1>9 DEF CubeInv
-----------------------------------------------------------------------------
(* M and FIX.                                                              *)

\* Every tile that was begun has operands.
LEMMA TileHas ==
  ASSUME CubeInv, NEW n \in Nat, n < fed
  PROVE  Pair(plan, n) # Nothing /\ Operands(n) = Pair(plan, n)
<1>1. /\ plan \in Plans /\ NumBlocks(plan) \in Nat /\ Blocks = NumBlocks(plan)
      /\ at \in 0 .. NumBlocks(plan) /\ fed \in Nat
  BY InvShape DEF CubeInv, Types
<1>2. Base(plan) \in [0 .. NumBlocks(plan) -> Nat]
  BY <1>1, BaseSteps
<1>3. fed = Base(plan)[at] + tile /\ tile \in Nat
  BY DEF CubeInv, Places, Types
<1>4. PICK a \in 0 .. NumBlocks(plan) : n < Base(plan)[a]
  <2>1. CASE mte1 \in {"block", "tile"}
    <3>1. /\ at \in 0 .. NumBlocks(plan) - 1 /\ tile <= plan.tiles[at] /\ plan.tiles[at] \in Nat
      BY <2>1, InBlock DEF CubeInv, Places
    <3>2. \A j \in 0 .. NumBlocks(plan) - 1 : Base(plan)[j + 1] = Base(plan)[j] + plan.tiles[j]
      BY <1>1, BaseSteps
    <3>3. /\ at + 1 \in 0 .. NumBlocks(plan) /\ Base(plan)[at] \in Nat
          /\ Base(plan)[at + 1] = Base(plan)[at] + plan.tiles[at]
      BY <1>1, <1>2, <3>1, <3>2
    <3>4. n < Base(plan)[at + 1]
      BY <1>3, <3>1, <3>3
    <3> QED
      BY <3>3, <3>4
  <2>2. CASE mte1 \notin {"block", "tile"}
    <3>1. tile = 0 /\ Base(plan)[at] \in Nat
      BY <1>1, <1>2, <2>2 DEF CubeInv, Types, Places
    <3>2. n < Base(plan)[at]
      BY <1>3, <3>1
    <3> QED
      BY <1>1, <3>2
  <2> QED
    BY <2>1, <2>2
<1> QED
  BY <1>1, <1>4, PairIsSomething, Now

\* A product gets a buffer that FIX has emptied.
LEMMA BeginProductInv == CubeInv /\ BeginProduct => CubeInv'
<1> SUFFICES ASSUME CubeInv, BeginProduct PROVE CubeInv'
  OBVIOUS
<1>1. /\ m = "idle" /\ m' = "mul" /\ moved > 0 /\ moved \in Nat
      /\ fed \in Nat /\ computed \in Nat /\ l0c[L0Buf(computed)] = Nothing
  BY DEF BeginProduct, CubeInv, Types
<1>2. /\ UNCHANGED <<plan, keyFree, queryFree, l0Free, loaded, computed>>
      /\ UNCHANGED <<mte2Vars, mte1Vars, fixVars>>
      /\ UNCHANGED <<key, query, mte2, fetched, asked, l0, mte1, at, tile, fed, l0c, stored>>
      /\ moved' = moved - 1
  BY DEF BeginProduct, mte2Vars, mte1Vars, fixVars
<1>3. Begun' = Begun /\ Filled' = Filled /\ Multiplied = computed /\ Multiplied' = computed + 1
  BY <1>1, <1>2 DEF Begun, Filled, Multiplied
<1>4. KeysKept' /\ QueriesKept'
  BY <1>2, Mte1Stays
<1>5. OperandsKept'
  BY <1>2, <1>3, OperandsStay DEF CubeInv
<1>6. ProductsKept'
  BY <1>1, <1>2 DEF CubeInv, ProductsKept
<1>7. Types'
  <2>1. moved' \in Nat
    BY <1>1, <1>2
  <2> QED
    BY <1>1, <1>2, <2>1 DEF CubeInv, Types
<1>8. moved + computed = fed
  BY <1>3 DEF CubeInv, Arrived
<1>9. Places'
  <2>1. computed + 1 <= fed
    BY <1>1, <1>8
  <2>2. (mte1' = "done" => computed' = fed')
    BY <1>2 DEF CubeInv, Places
  <2> QED
    BY <1>1, <1>2, <1>3, <2>1, <2>2 DEF CubeInv, Places, Due
<1>10. Arrived'
  <2>1. moved' + (computed + 1) = fed
    BY <1>1, <1>2, <1>8
  <2> QED
    BY <1>2, <1>3, <2>1 DEF CubeInv, Arrived
<1> QED
  BY <1>4, <1>5, <1>6, <1>7, <1>9, <1>10 DEF CubeInv

\* It is there, and the operands are given up.
LEMMA EndProductInv == CubeInv /\ EndProduct => CubeInv'
<1> SUFFICES ASSUME CubeInv, EndProduct PROVE CubeInv'
  OBVIOUS
<1>1. /\ m = "mul" /\ m' = "idle" /\ fed \in Nat /\ computed \in Nat /\ stored \in Nat
      /\ stored <= computed /\ computed < fed /\ L0Buf(computed) \in L0s
      /\ fed <= Filled /\ Filled \in Nat /\ mte1 # "done"
      /\ l0c[L0Buf(computed)] = Nothing
  <2>1. Multiplied = computed + 1 /\ m = "mul" /\ m' = "idle"
    BY DEF EndProduct, Multiplied
  <2>2. fed \in Nat /\ computed \in Nat /\ stored \in Nat /\ stored <= computed /\ Multiplied <= fed
    BY DEF CubeInv, Types, Places
  <2>3. computed < fed
    BY <2>1, <2>2
  <2>4. fed <= Filled /\ Filled \in Nat
    BY <2>2 DEF Filled
  <2>5. mte1 # "done"
    BY <2>2, <2>3 DEF CubeInv, Places
  <2>6. l0c[L0Buf(computed)] = Nothing
    BY <2>1 DEF CubeInv, ProductsKept
  <2> QED
    BY <2>1, <2>2, <2>3, <2>4, <2>5, <2>6, Turns
<1>2. /\ UNCHANGED <<plan, keyFree, queryFree, loaded, moved, stored>>
      /\ UNCHANGED <<mte2Vars, mte1Vars>>
      /\ UNCHANGED <<key, query, mte2, fetched, asked, l0, mte1, at, tile, fed>>
      /\ l0Free' = [l0Free EXCEPT ![L0Buf(computed)] = @ + 1]
      /\ computed' = computed + 1
  BY DEF EndProduct, mte2Vars, mte1Vars, Raise
<1>3. Begun' = Begun /\ Filled' = Filled /\ Multiplied = computed + 1 /\ Multiplied' = computed + 1
  BY <1>1, <1>2 DEF Begun, Filled, Multiplied
<1>4. KeysKept' /\ QueriesKept'
  BY <1>2, Mte1Stays
<1>5. OperandsKept' /\ l0Free' \in [L0s -> Nat] /\ l0[L0Buf(computed)] = Pair(plan, computed)
  <2> DEFINE buf == [n \in Nat |-> L0Buf(n)]
             value == [n \in Nat |-> Pair(plan, n)]
  <2>1. Ring(buf, computed, fed, Filled, {}, l0Free, l0, value)
    BY <1>1 DEF CubeInv, OperandsKept
  <2>2. l0Free \in [L0s -> Nat]
    BY DEF CubeInv, Types
  <2>3. /\ buf \in [Nat -> L0s] /\ buf[computed] = L0Buf(computed)
        /\ value[computed] = Pair(plan, computed)
    BY <1>1, RingTypes
  <2> HIDE DEF buf, value
  <2>4. buf[computed] \notin {} /\ Elsewhere(L0s, buf[computed], l0, l0)
    BY DEF Elsewhere
  <2>5. /\ l0Free' \in [L0s -> Nat] /\ l0Free'[buf[computed]] = l0Free[buf[computed]] + 1
        /\ Elsewhere(L0s, buf[computed], l0Free, l0Free')
    BY <1>1, <1>2, <2>2, <2>3 DEF Elsewhere
  <2>6. Ring(buf, computed + 1, fed, Filled, {}, l0Free', l0, value)
    BY <1>1, <2>1, <2>2, <2>3, <2>4, <2>5, RingGiveUp
  <2>7. (IF mte1' = "done" THEN L0s ELSE {}) = {}
    BY <1>1, <1>2
  <2>8. OperandsKept'
    BY <1>2, <1>3, <2>6, <2>7 DEF OperandsKept, buf, value
  <2>9. l0[buf[computed]] = value[computed]
    <3>1. computed \in computed .. fed - 1
      BY <1>1
    <3> QED
      BY <2>1, <3>1 DEF Ring
  <2> QED
    BY <2>3, <2>5, <2>8, <2>9
<1>6. l0c' = [l0c EXCEPT ![L0Buf(computed)] = Pair(plan, computed)]
  BY <1>5 DEF EndProduct, ComuteL0c
<1>7. Pair(plan, computed) # Nothing
  BY <1>1, TileHas
<1>8. ProductsKept'
  <2> DEFINE buf == [n \in Nat |-> L0Buf(n)]
             value == [n \in Nat |-> Pair(plan, n)]
             free == Vacant(l0c)
             free2 == Vacant(l0c')
             none == {}
  <2>1. Ring(buf, stored, computed, computed, none, free, l0c, value)
    BY DEF CubeInv, ProductsKept
  <2>2. DOMAIN l0c = L0s
    BY DEF CubeInv, Types
  <2>3. free \in [L0s -> Nat] /\ free2 \in [L0s -> Nat]
    BY DEF Vacant
  <2>4. /\ buf \in [Nat -> L0s] /\ buf[computed] = L0Buf(computed)
        /\ value[computed] = Pair(plan, computed)
    BY <1>1, RingTypes
  <2>5. l0c'[L0Buf(computed)] = Pair(plan, computed) /\ Elsewhere(L0s, L0Buf(computed), l0c, l0c')
    BY <1>1, <1>6, <2>2 DEF Elsewhere
  <2>6. free[L0Buf(computed)] = 1 /\ free2[L0Buf(computed)] = 0
        /\ Elsewhere(L0s, L0Buf(computed), free, free2)
    BY <1>1, <1>7, <2>5 DEF Elsewhere, Vacant
  <2> HIDE DEF buf, value, free, free2, none
  <2>7. free[buf[computed]] > 0 /\ free2[buf[computed]] = free[buf[computed]] - 1
    BY <2>4, <2>6
  <2>8. Elsewhere(L0s, buf[computed], free, free2) /\ Elsewhere(L0s, buf[computed], l0c, l0c')
    BY <2>4, <2>5, <2>6
  <2>9. Ring(buf, stored, computed, computed + 1, none, free2, l0c', value)
    BY <1>1, <2>1, <2>3, <2>4, <2>7, <2>8, RingBegin
  <2>10. l0c'[buf[computed]] = value[computed] /\ Elsewhere(L0s, buf[computed], l0c', l0c')
    BY <2>4, <2>5 DEF Elsewhere
  <2>11. Ring(buf, stored, computed + 1, computed + 1, none, free2, l0c', value)
    BY <1>1, <2>4, <2>9, <2>10, RingEnd
  <2> QED
    BY <1>1, <1>2, <2>11 DEF ProductsKept, buf, value, free2, none
<1>9. Types'
  <2>1. DOMAIN l0c' = L0s /\ l0c' = [b \in L0s |-> l0c'[b]]
    BY <1>6 DEF CubeInv, Types
  <2>2. computed' \in Nat
    BY <1>1, <1>2
  <2> QED
    BY <1>1, <1>2, <1>5, <2>1, <2>2 DEF CubeInv, Types
<1>10. Places'
  <2>1. stored <= computed + 1 /\ computed + 1 <= fed
    BY <1>1
  <2> QED
    BY <1>1, <1>2, <1>3, <2>1 DEF CubeInv, Places, Due
<1>11. Arrived'
  BY <1>2, <1>3 DEF CubeInv, Arrived
<1> QED
  BY <1>4, <1>5, <1>8, <1>9, <1>10, <1>11 DEF CubeInv

\* Only a product that was computed is copied out.
LEMMA InTurn ==
  ASSUME CubeInv, l0c[L0Buf(stored)] # Nothing
  PROVE  stored < computed /\ l0c[L0Buf(stored)] = Pair(plan, stored)
<1> DEFINE buf == [n \in Nat |-> L0Buf(n)]
           value == [n \in Nat |-> Pair(plan, n)]
<1>1. stored \in Nat /\ computed \in Nat /\ stored <= computed
  BY DEF CubeInv, Types, Places
<1>2. Ring(buf, stored, computed, computed, {}, Vacant(l0c), l0c, value)
  BY DEF CubeInv, ProductsKept
<1>3. L0Buf(stored) \in L0s /\ buf[stored] = L0Buf(stored) /\ value[stored] = Pair(plan, stored)
  BY <1>1, Turns
<1>4. DOMAIN Vacant(l0c) = L0s /\ Vacant(l0c)[L0Buf(stored)] = 0
  BY <1>3 DEF Vacant
<1> HIDE DEF buf, value
<1>5. \E n \in stored .. computed - 1 : buf[n] = L0Buf(stored)
  BY <1>2, <1>3, <1>4 DEF Ring
<1>6. stored < computed /\ stored \in stored .. computed - 1
  BY <1>1, <1>5
<1>7. l0c[buf[stored]] = value[stored]
  BY <1>2, <1>6 DEF Ring
<1> QED
  BY <1>3, <1>6, <1>7

\* FIX takes the oldest.
LEMMA FixpInv == CubeInv /\ Fixp => CubeInv'
<1> SUFFICES ASSUME CubeInv, Fixp PROVE CubeInv'
  OBVIOUS
<1>1. /\ stored \in Nat /\ computed \in Nat /\ stored < computed /\ L0Buf(stored) \in L0s
      /\ l0c[L0Buf(stored)] # Nothing
  BY InTurn, Turns DEF Fixp, CubeInv, Types
<1>2. /\ UNCHANGED <<plan, keyFree, queryFree, l0Free, loaded, moved>>
      /\ UNCHANGED <<mte2Vars, mte1Vars, mVars>>
      /\ UNCHANGED <<key, query, mte2, fetched, asked, l0, mte1, at, tile, fed, m, computed>>
      /\ l0c' = [l0c EXCEPT ![L0Buf(stored)] = Nothing]
      /\ stored' = stored + 1
  BY DEF Fixp, mte2Vars, mte1Vars, mVars
<1>3. Begun' = Begun /\ Filled' = Filled /\ Multiplied' = Multiplied
  BY <1>2 DEF Begun, Filled, Multiplied
<1>4. KeysKept' /\ QueriesKept'
  BY <1>2, Mte1Stays
<1>5. OperandsKept'
  BY <1>2, <1>3, OperandsStay DEF CubeInv
<1>6. l0c'[L0Buf(stored)] = Nothing /\ Elsewhere(L0s, L0Buf(stored), l0c, l0c')
      /\ DOMAIN l0c' = L0s /\ l0c' = [b \in L0s |-> l0c'[b]]
  BY <1>1, <1>2 DEF CubeInv, Types, Elsewhere
<1>7. ProductsKept'
  <2> DEFINE buf == [n \in Nat |-> L0Buf(n)]
             value == [n \in Nat |-> Pair(plan, n)]
             free == Vacant(l0c)
             free2 == Vacant(l0c')
             none == {}
  <2>1. Ring(buf, stored, computed, computed, none, free, l0c, value)
    BY DEF CubeInv, ProductsKept
  <2>2. free \in [L0s -> Nat] /\ free2 \in [L0s -> Nat]
    BY DEF Vacant
  <2>3. /\ buf \in [Nat -> L0s] /\ buf[stored] = L0Buf(stored) /\ buf[stored] \notin none
    BY <1>1, RingTypes
  <2>4. free[L0Buf(stored)] = 0 /\ free2[L0Buf(stored)] = 1
        /\ Elsewhere(L0s, L0Buf(stored), free, free2)
    BY <1>1, <1>6 DEF Elsewhere, Vacant
  <2> HIDE DEF buf, value, free, free2, none
  <2>5. free2[buf[stored]] = free[buf[stored]] + 1
    BY <2>3, <2>4
  <2>6. Elsewhere(L0s, buf[stored], free, free2) /\ Elsewhere(L0s, buf[stored], l0c, l0c')
    BY <1>6, <2>3, <2>4
  <2>7. computed <= computed
    BY <1>1
  <2>8. Ring(buf, stored + 1, computed, computed, none, free2, l0c', value)
    BY <1>1, <2>1, <2>2, <2>3, <2>5, <2>6, <2>7, RingGiveUp
  <2>9. m = "mul" => l0c'[L0Buf(computed)] = Nothing
    <3>1. m = "mul" => l0c[L0Buf(computed)] = Nothing
      BY DEF CubeInv, ProductsKept
    <3> QED
      BY <1>1, <1>2, <3>1
  <2> QED
    BY <1>2, <2>8, <2>9 DEF ProductsKept, buf, value, free2, none
<1>8. Types'
  <2>1. stored' \in Nat
    BY <1>1, <1>2
  <2> QED
    BY <1>2, <1>6, <2>1 DEF CubeInv, Types
<1>9. Places'
  <2>1. stored + 1 <= computed
    BY <1>1
  <2> QED
    BY <1>2, <1>3, <2>1 DEF CubeInv, Places, Due
<1>10. Arrived'
  BY <1>2, <1>3 DEF CubeInv, Arrived
<1> QED
  BY <1>4, <1>5, <1>7, <1>8, <1>9, <1>10 DEF CubeInv
-----------------------------------------------------------------------------
(* The end of a launch and the start of the next.                          *)

\* When a launch is done every flag is down and every product copied out.
LEMMA LaunchDrained ==
  ASSUME CubeInv, LaunchDone
  PROVE  /\ \A k \in Keys : keyFree[k] = 0
         /\ \A q \in Queries : queryFree[q] = 0
         /\ \A i \in L0s : l0Free[i] = 0
         /\ loaded = 0 /\ moved = 0 /\ m = "idle" /\ l0c = [i \in L0s |-> Nothing]
<1>1. /\ keyFree \in [Keys -> Nat] /\ queryFree \in [Queries -> Nat] /\ l0Free \in [L0s -> Nat]
      /\ loaded \in Nat /\ moved \in Nat /\ fed \in Nat /\ computed \in Nat /\ stored \in Nat
      /\ l0c = [b \in L0s |-> l0c[b]] /\ m \in {"idle", "mul"} /\ plan \in Plans
  BY DEF CubeInv, Types
<1>2. mte2 = "done" /\ mte1 = "done" /\ stored = Base(plan)[NumBlocks(plan)]
  BY Now DEF LaunchDone
<1>3. /\ fetched = NumBlocks(plan) /\ at = NumBlocks(plan) /\ tile = 0
      /\ asked = Before(plan, NumBlocks(plan)) /\ computed = fed
      /\ fed = Base(plan)[at] + tile /\ Multiplied <= fed
  BY <1>2 DEF CubeInv, Places
<1>4. NumBlocks(plan) \in Nat
  BY InvShape
<1>5. Base(plan)[NumBlocks(plan)] \in Nat /\ Before(plan, NumBlocks(plan)) \in Nat
  <2>1. NumBlocks(plan) \in 0 .. NumBlocks(plan)
    BY <1>4
  <2>2. Base(plan) \in [0 .. NumBlocks(plan) -> Nat]
    BY <1>1, BaseSteps
  <2>3. Base(plan)[NumBlocks(plan)] \in Nat
    BY <2>1, <2>2
  <2>4. Before(plan, NumBlocks(plan)) \in Nat
    BY <1>1, <1>4, BeforeSteps
  <2> QED
    BY <2>3, <2>4
<1>6. stored = computed /\ m = "idle" /\ Multiplied = computed
  <2>1. stored = computed
    BY <1>1, <1>2, <1>3, <1>5
  <2>2. m # "mul"
    BY <1>1, <1>3 DEF Multiplied
  <2> QED
    BY <1>1, <2>1, <2>2 DEF Multiplied
<1>7. loaded = 0 /\ moved = 0
  <2>1. Begun = NumBlocks(plan)
    BY <1>2, <1>3 DEF Begun
  <2>2. loaded + Begun + Before(plan, Begun) = fetched + asked /\ moved + Multiplied = fed
    BY DEF CubeInv, Arrived
  <2> QED
    BY <1>1, <1>3, <1>4, <1>5, <1>6, <2>1, <2>2
<1>8. \A k \in Keys : keyFree[k] = 0
  BY <1>1, <1>2 DEF CubeInv, KeysKept, Ring
<1>9. \A q \in Queries : queryFree[q] = 0
  BY <1>1, <1>2 DEF CubeInv, QueriesKept, Ring
<1>10. \A i \in L0s : l0Free[i] = 0
  BY <1>1, <1>2 DEF CubeInv, OperandsKept, Ring
<1>11. l0c = [i \in L0s |-> Nothing]
  <2>1. stored .. computed - 1 = {}
    BY <1>1, <1>6
  <2>2. DOMAIN Vacant(l0c) = L0s
    BY DEF Vacant
  <2>3. \A i \in L0s : Vacant(l0c)[i] = 1
    BY <2>1, <2>2 DEF CubeInv, ProductsKept, Ring
  <2>4. \A i \in L0s : l0c[i] = Nothing
    BY <2>3 DEF Vacant
  <2> QED
    BY <1>1, <2>4
<1> QED
  BY <1>6, <1>7, <1>8, <1>9, <1>10, <1>11

\* The same of the next state.
LEMMA FreshInvNext == (Fresh => CubeInv)'
BY FreshInv, PTL

\* The next launch starts as the first did.
LEMMA LaunchInv == CubeInv /\ Launch => CubeInv'
<1> SUFFICES ASSUME CubeInv, Launch PROVE CubeInv'
  OBVIOUS
<1>1. /\ \A k \in Keys : keyFree[k] = 0
      /\ \A q \in Queries : queryFree[q] = 0
      /\ \A i \in L0s : l0Free[i] = 0
      /\ loaded = 0 /\ moved = 0 /\ m = "idle" /\ l0c = [i \in L0s |-> Nothing]
  BY LaunchDrained DEF Launch
<1>2. /\ plan' \in Plans /\ loaded' = 0 /\ moved' = 0 /\ m' = "idle" /\ l0c' = [i \in L0s |-> Nothing]
      /\ mte2' = "idle" /\ mte1' = "idle" /\ fetched' = 0 /\ asked' = 0 /\ at' = 0 /\ tile' = 0
      /\ fed' = 0 /\ computed' = 0 /\ stored' = 0
      /\ DOMAIN key' = Keys /\ DOMAIN query' = Queries /\ DOMAIN l0' = L0s
  BY <1>1 DEF Launch
<1>3. keyFree' = [k \in Keys |-> 1] /\ l0Free' = [i \in L0s |-> 1]
  BY <1>1 DEF Launch, AllocEventID
<1>4. queryFree' = QueryFlags(plan')
  <2>1. queryFree' = [q \in Queries |-> queryFree[q] + QueryFlags(plan')[q]]
    BY DEF Launch, AllocEventID
  <2>2. QueryFlags(plan') \in [Queries -> Nat]
    BY <1>2, StartInv
  <2> DEFINE flags == QueryFlags(plan')
  <2>3. flags \in [Queries -> Nat] /\ queryFree' = [q \in Queries |-> queryFree[q] + flags[q]]
    BY <2>1, <2>2
  <2> HIDE DEF flags
  <2>4. \A q \in Queries : queryFree[q] + flags[q] = flags[q]
    BY <1>1, <2>3
  <2>5. queryFree' = flags
    BY <2>3, <2>4
  <2> QED
    BY <2>5 DEF flags
<1>5. Fresh'
  BY <1>2, <1>3, <1>4 DEF Fresh
<1> QED
  BY <1>5, FreshInvNext

-----------------------------------------------------------------------------
(* The theorems.                                                           *)

\* Every step keeps the invariant.
LEMMA StepCubeInv == CubeInv /\ [Next]_vars => CubeInv'
<1> SUFFICES ASSUME CubeInv, [Next]_vars PROVE CubeInv'
  OBVIOUS
<1>1. CASE Mte2
  BY <1>1, BeginKeyInv, EndKeyInv, BeginQueryInv, EndQueryInv, FreeL1Inv DEF Mte2
<1>2. CASE Mte1
  BY <1>2, BeginBlockInv, BeginTileInv, EndTileInv, EndBlockInv, FreeL0Inv DEF Mte1
<1>3. CASE M
  BY <1>3, BeginProductInv, EndProductInv DEF M
<1>4. CASE Fixp
  BY <1>4, FixpInv
<1>5. CASE Launch
  BY <1>5, LaunchInv
<1>6. CASE UNCHANGED vars
  <2>1. /\ UNCHANGED <<plan, keyFree, queryFree, l0Free, loaded, moved, mte2Vars, mVars, fixVars, at>>
        /\ UNCHANGED <<plan, keyFree, queryFree, l0Free, loaded, moved, mte1Vars>>
    BY <1>6 DEF vars, mte2Vars, mte1Vars, mVars, fixVars
  <2>2. KeysKept' /\ QueriesKept'
    BY <2>1, Mte1Stays
  <2>3. OperandsKept' /\ ProductsKept' /\ Begun' = Begun /\ Multiplied' = Multiplied
    BY <2>1, Mte2Stays
  <2>4. Types' /\ Places' /\ Arrived'
    BY <1>6, <2>3 DEF vars, CubeInv, Types, Places, Arrived, Due
  <2> QED
    BY <2>2, <2>3, <2>4 DEF CubeInv
<1> QED
  BY <1>1, <1>2, <1>3, <1>4, <1>5, <1>6 DEF Next

\* The invariant holds in every state of the pipeline.
LEMMA CubeInvHolds == Spec => []CubeInv
<1>1. Init => CubeInv
  BY InitCubeInv
<1>2. CubeInv /\ [Next]_vars => CubeInv'
  BY StepCubeInv
<1> QED
  BY <1>1, <1>2, PTL DEF Spec

\* Each pipe finds what it works on in the buffers, however far MTE2 is ahead:
\* ComputeMm1 multiplies every tile's own key block and query, and copies the
\* products out in their turn.
THEOREM OperandsMatchHolds == Spec => []OperandsMatch
<1>1. CubeInv => OperandsMatch
  <2> SUFFICES ASSUME CubeInv PROVE OperandsMatch
    OBVIOUS
  <2>1. mte1 = "tile" => key[KeyBuf(at)] = at /\ query[QueryBuf(Segment(at))] = Segment(at)
    BY TileOperands
  <2>2. ASSUME m = "mul" PROVE l0[L0Buf(computed)] = Operands(computed)
    <3>1. computed \in Nat /\ fed \in Nat /\ computed < fed
      BY <2>2 DEF CubeInv, Types, Places, Multiplied
    <3>2. Operands(computed) = Pair(plan, computed)
      BY <3>1, TileHas
    <3>3. \A n \in computed .. fed - 1 :
            l0[[i \in Nat |-> L0Buf(i)][n]] = [i \in Nat |-> Pair(plan, i)][n]
      BY DEF CubeInv, OperandsKept, Ring
    <3>4. computed \in computed .. fed - 1
      BY <3>1
    <3> QED
      BY <3>1, <3>2, <3>3, <3>4
  <2>3. ASSUME l0c[L0Buf(stored)] # Nothing PROVE l0c[L0Buf(stored)] = Operands(stored)
    <3>1. stored < computed /\ l0c[L0Buf(stored)] = Pair(plan, stored)
      BY <2>3, InTurn
    <3>2. stored \in Nat /\ stored < fed
      BY <3>1 DEF CubeInv, Types, Places, Multiplied
    <3>3. Operands(stored) = Pair(plan, stored)
      BY <3>2, TileHas
    <3> QED
      BY <3>1, <3>3
  <2> QED
    BY <2>1, <2>2, <2>3 DEF OperandsMatch
<1> QED
  BY <1>1, CubeInvHolds, PTL

\* A launch leaves no flag up: FreeEventID takes back what AllocEventID raised,
\* and every flag that says something has arrived has been waited for.
THEOREM EventsTakenBackHolds == Spec => []EventsTakenBack
<1>1. CubeInv => EventsTakenBack
  BY LaunchDrained DEF EventsTakenBack
<1> QED
  BY <1>1, CubeInvHolds, PTL
=============================================================================
