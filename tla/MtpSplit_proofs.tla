--------------------------- MODULE MtpSplit_proofs ---------------------------
(***************************************************************************)
(* AnswersAreWhole, HandledOnce and WalkStaysInside of MtpSplit, proved    *)
(* for every number of cores, every batch and every length of its          *)
(* requests, empty ones included.                                          *)
(*                                                                         *)
(* The shares lie end to end and so do the requests, so a request is a row *)
(* of parts, one per core it reaches into: it is whole on one core, or one *)
(* core has its head and the cores behind that one join it in order.  The  *)
(* invariant says, for every core, how far it is in its share, what it has *)
(* merged of the part it is in, and what it has left behind: an answer for *)
(* a request of its own, a part in the place its merging core looks in for *)
(* any other.  A walk then finds the parts it needs in order, the last one *)
(* marked, because every core has passed the first barrier.                *)
(***************************************************************************)
EXTENDS MtpSplit, FiniteSetTheorems, TLAPS

-----------------------------------------------------------------------------
(* The invariant.                                                          *)

\* What a launch is given, and what SplitCore makes of it.
Batch ==
  /\ blocks \in [Requests -> Nat]
  /\ split = [c \in Cores |-> IF c < Used THEN SplitCore(c) ELSE NoWork]

End(b) == Base(b) + blocks[b]
ShareEnd(c) == ShareStart(c) + Share(c)

\* The block core c is to score next, numbered across the batch.
At(c) == IF row[c] <= split[c].bN2End THEN Base(row[c]) + block[c] ELSE ShareEnd(c)

\* The part of request b that falls to core c.
Lo(c, b) == IF ShareStart(c) <= Base(b) THEN Base(b) ELSE ShareStart(c)
Hi(c, b) == Least(ShareEnd(c), End(b))
Has(c, b) == Lo(c, b) < Hi(c, b)
Ended(c, b) == Has(c, b) /\ Hi(c, b) <= At(c)
Piece(c, b) == Lo(c, b) - Base(b) .. Hi(c, b) - Base(b) - 1

\* A core has a request to itself, or its head, or a part of its rest; an empty
\* request is cleaned by the core whose rows it lies among.
Sole(c, b) == Has(c, b) /\ ShareStart(c) <= Base(b) /\ End(b) <= ShareEnd(c)
Heads(c, b) == Has(c, b) /\ ShareStart(c) <= Base(b) /\ ShareEnd(c) < End(b)
Joins(c, b) == Has(c, b) /\ Base(b) < ShareStart(c)
Cleans(c, b) ==
  /\ c < Used /\ blocks[b] = 0
  /\ split[c].bN2Start <= b /\ b <= split[c].bN2End

Before == {"init", "main"}
Merging == {"merge", "walk", "publish", "union", "done"}
Published == {"publish", "union", "done"}
Last == {"union", "done"}

Types ==
  /\ pc \in [Cores -> Before \cup Merging \cup {"invalid", "sync"}]
  /\ row \in [Cores -> Nat] /\ block \in [Cores -> Nat]
  /\ DOMAIN first = Cores /\ DOMAIN start = Cores /\ DOMAIN cached = Cores
  /\ DOMAIN acc = Cores /\ DOMAIN head = Cores /\ DOMAIN tail = Cores /\ DOMAIN walk = Cores
  /\ DOMAIN scored = Requests /\ DOMAIN answer = Requests
  /\ answers \in [Requests -> 0 .. 1] /\ cleaned \in [Requests -> 0 .. 1]
  /\ united \subseteq Requests

\* Where the cores are: nobody passes a barrier before all have come to it.
Places ==
  /\ \A c \in Cores :
       /\ pc[c] = "main" => c < Used
       /\ pc[c] \in {"sync", "merge", "walk"} => Total # 0
       /\ pc[c] = "invalid" => Total = 0
       /\ pc[c] = "init" => first[c] /\ row[c] = split[c].bN2Start
       /\ c < Used /\ pc[c] \notin Before => row[c] > split[c].bN2End
  /\ \A c, d \in Cores : pc[c] \in Merging /\ Total # 0 => pc[d] \in Merging
  /\ \A c, d \in Cores : pc[c] \in Last => pc[d] \in Last
  /\ united # {} => \A c \in Cores : pc[c] \in Last

\* How far a core is in its share.
Positions ==
  \A c \in Cores : c < Used =>
    /\ split[c].bN2Start <= row[c] /\ row[c] <= split[c].bN2End + 1
    /\ row[c] <= split[c].bN2End =>
         /\ ShareStart(c) <= At(c) /\ At(c) <= ShareEnd(c)
         /\ IF blocks[row[c]] = 0 THEN block[c] = 0
            ELSE block[c] < blocks[row[c]] /\ At(c) < ShareEnd(c)
    /\ first[c] <=> At(c) = ShareStart(c)

\* What a core has scored of the current part is merged, or cached to be merged.
Partway ==
  \A c \in Cores : c < Used =>
    /\ first[c] => acc[c] = {}
    /\ \A b \in Requests : b = row[c] /\ b <= split[c].bN2End /\ Lo(c, b) < At(c) =>
         LET from == Lo(c, b) - Base(b)
             waiting == (block[c] - from) % MergeBlocks
         IN  /\ start[c] = from
             /\ acc[c] = from .. block[c] - waiting - 1
             /\ waiting > 0 => cached[c] = block[c] - waiting .. block[c] - 1

\* Parts of requests that are cut are kept for the core with the head.
Parts ==
  \A c \in Cores, b \in Requests :
    /\ Joins(c, b) /\ Ended(c, b) =>
         head[c] = [needFd |-> TRUE, isS2End |-> End(b) <= ShareEnd(c),
                    row |-> b, res |-> Piece(c, b)]
    /\ Heads(c, b) /\ Ended(c, b) => tail[c].needFd /\ tail[c].res = Piece(c, b)

\* A walk has merged all parts before the core it has come to.
Walking ==
  \A c \in Cores : pc[c] = "walk" =>
    \E d \in Cores, b \in Requests :
      /\ d = walk[c] /\ c < d /\ Heads(c, b) /\ Joins(d, b)
      /\ acc[c] = 0 .. ShareStart(d) - Base(b) - 1

\* Which requests have been answered or cleaned, and by whom.
Answered ==
  /\ \A b \in Requests : /\ answers[b] = 1 => answer[b] = Whole(b)
                         /\ IF blocks[b] = 0 THEN answers[b] = 0 ELSE cleaned[b] = 0
  /\ \A c \in Cores, b \in Requests :
       /\ Sole(c, b) => (answers[b] = 1 <=> Ended(c, b))
       /\ Heads(c, b) => (answers[b] = 1 <=> pc[c] \in Published)
       /\ Cleans(c, b) => (cleaned[b] = 1 <=> b < row[c])
       /\ Total = 0 /\ b \in Slice(c) => (cleaned[b] = 1 <=> pc[c] \in Published)

\* The scores of the blocks a core has been through are there, and no others.
Scored ==
  /\ \A b \in Requests : scored[b] \subseteq Whole(b)
  /\ \A c \in Cores, b \in Requests : Has(c, b) =>
       \A k \in Piece(c, b) : Base(b) + k < At(c) => k \in scored[b]

SplitInv == Batch /\ Types /\ Places /\ Positions /\ Partway /\ Parts /\ Walking /\ Answered /\ Scored
-----------------------------------------------------------------------------
(* The blocks before every request.                                        *)

\* A non-empty set of natural numbers has a least element.
LEMMA LeastNat ==
  ASSUME NEW S \in SUBSET Nat, S # {}
  PROVE  \E n \in S : \A m \in S : n <= m
<1> DEFINE smaller == OpToRel(<, Nat)
<1>1. PICK n \in S : \A m \in S : <<m, n>> \notin smaller
  BY WFMin, NatLessThanWellFounded, Zenon
<1>2. \A m \in S : m < n => <<m, n>> \in smaller
  BY Zenon DEF OpToRel
<1> HIDE DEF smaller
<1>3. \A m \in S : m \in Nat /\ n \in Nat /\ ~ (m < n)
  BY <1>1, <1>2
<1> QED
  BY <1>3

\* The loop over the batch computes its running sums.
LEMMA BaseSteps ==
  ASSUME NEW n \in Nat, n = BatchSize, blocks \in [0 .. n - 1 -> Nat]
  PROVE  /\ Bases \in [0 .. n -> Nat]
         /\ Bases[0] = 0
         /\ \A b \in 0 .. n - 1 : Bases[b + 1] = Bases[b] + blocks[b]
<1> DEFINE IsSum(f, m) == /\ f \in [0 .. m -> Nat] /\ f[0] = 0
                          /\ \A b \in 1 .. m : f[b] = f[b - 1] + blocks[b - 1]
           F(f) == [b \in 0 .. n |-> IF b = 0 THEN 0 ELSE f[b - 1] + blocks[b - 1]]
           sum == CHOOSE f : f = F(f)
           bad == {m \in Nat : m <= n /\ ~ \E f : IsSum(f, m)}
<1>1. bad = {}
  <2>1. SUFFICES ASSUME bad # {} PROVE FALSE
    OBVIOUS
  <2>2. PICK m \in bad : \A k \in bad : m <= k
    BY <2>1, LeastNat
  <2>3. m \in Nat /\ m <= n /\ ~ \E f : IsSum(f, m)
    OBVIOUS
  <2>4. CASE m = 0
    <3> DEFINE zero == [b \in 0 .. 0 |-> 0]
    <3>1. IsSum(zero, 0)
      OBVIOUS
    <3> QED
      BY <2>3, <2>4, <3>1
  <2>5. CASE m # 0
    <3>1. m - 1 \in Nat /\ m - 1 <= n /\ ~ (m <= m - 1)
      BY <2>3, <2>5
    <3>2. m - 1 \notin bad
      <4> HIDE DEF bad
      <4> QED
        BY <2>2, <3>1
    <3> HIDE DEF IsSum
    <3>3. PICK f : IsSum(f, m - 1)
      BY <3>1, <3>2
    <3> DEFINE g == [b \in 0 .. m |-> IF b = m THEN f[m - 1] + blocks[m - 1] ELSE f[b]]
    <3>4. f \in [0 .. m - 1 -> Nat] /\ f[0] = 0
          /\ \A b \in 1 .. m - 1 : f[b] = f[b - 1] + blocks[b - 1]
      BY <3>3 DEF IsSum
    <3>5. blocks[m - 1] \in Nat /\ f[m - 1] \in Nat
      BY <2>3, <2>5, <3>1, <3>4
    <3>6. g \in [0 .. m -> Nat] /\ g[0] = 0
      BY <2>3, <2>5, <3>4, <3>5
    <3>7. ASSUME NEW b \in 1 .. m PROVE g[b] = g[b - 1] + blocks[b - 1]
      <4>1. CASE b = m
        BY <2>3, <2>5, <4>1
      <4>2. CASE b # m
        <5>1. b \in 1 .. m - 1 /\ b - 1 \in 0 .. m - 1 /\ b - 1 # m
          BY <2>3, <4>2
        <5> QED
          BY <3>4, <4>2, <5>1
      <4> QED
        BY <4>1, <4>2
    <3>8. IsSum(g, m)
      BY <3>6, <3>7 DEF IsSum
    <3> QED
      BY <2>3, <3>8
  <2> QED
    BY <2>4, <2>5
<1>2. PICK f : IsSum(f, n)
  <2> HIDE DEF IsSum
  <2>1. n \notin bad
    BY <1>1
  <2> QED
    BY <2>1
<1>3. f = F(f)
  <2>1. \A b \in 0 .. n : f[b] = IF b = 0 THEN 0 ELSE f[b - 1] + blocks[b - 1]
    BY <1>2
  <2> QED
    BY <1>2, <2>1
<1>4. sum = F(sum)
  <2> HIDE DEF F
  <2> QED
    BY <1>3
<1>5. Bases = sum
  BY DEF Bases
<1>6. sum = f
  <2> HIDE DEF sum
  <2>1. DOMAIN sum = 0 .. n
    BY <1>4
  <2>2. \A b \in 0 .. n : sum[b] = IF b = 0 THEN 0 ELSE sum[b - 1] + blocks[b - 1]
    BY <1>4
  <2> DEFINE differ == {b \in Nat : b <= n /\ sum[b] # f[b]}
  <2>3. differ = {}
    <3>1. SUFFICES ASSUME differ # {} PROVE FALSE
      OBVIOUS
    <3>2. PICK m \in differ : \A k \in differ : m <= k
      BY <3>1, LeastNat
    <3>3. m \in Nat /\ m <= n /\ sum[m] # f[m]
      OBVIOUS
    <3>4. m # 0
      BY <1>2, <2>2, <3>3
    <3>5. m - 1 \in Nat /\ m - 1 <= n /\ ~ (m <= m - 1) /\ m \in 1 .. n
      BY <3>3, <3>4
    <3>6. sum[m - 1] = f[m - 1]
      BY <3>2, <3>5
    <3> QED
      BY <1>2, <2>2, <3>3, <3>4, <3>5, <3>6
  <2>4. \A b \in 0 .. n : sum[b] = f[b]
    BY <2>3
  <2>5. sum = [b \in 0 .. n |-> sum[b]] /\ f = [b \in 0 .. n |-> f[b]]
    BY <1>2, <1>4
  <2> HIDE DEF IsSum
  <2> QED
    BY <2>4, <2>5
<1>7. \A b \in 0 .. n - 1 : f[b + 1] = f[b] + blocks[b]
  <2>1. ASSUME NEW b \in 0 .. n - 1 PROVE f[b + 1] = f[b] + blocks[b]
    <3>1. b + 1 \in 1 .. n /\ (b + 1) - 1 = b
      OBVIOUS
    <3> QED
      BY <1>2, <3>1
  <2> QED
    BY <2>1
<1> QED
  BY <1>2, <1>5, <1>6, <1>7
-----------------------------------------------------------------------------
(* Requests and cores in the order of their blocks.                        *)

\* The sizes, and the bases of the requests as running sums.
LEMMA BatchFacts ==
  ASSUME Batch
  PROVE  /\ BatchSize \in Nat \ {0} /\ NumCores \in Nat \ {0} /\ MergeBlocks \in Nat \ {0}
         /\ Base(0) = 0 /\ \A b \in 0 .. BatchSize : Base(b) \in Nat
         /\ \A b \in Requests : blocks[b] \in Nat /\ Base(b + 1) = Base(b) + blocks[b]
<1>1. BatchSize \in Nat \ {0} /\ NumCores \in Nat \ {0} /\ MergeBlocks \in Nat \ {0}
  BY SizeAssumption
<1>2. blocks \in [0 .. BatchSize - 1 -> Nat]
  BY DEF Batch, Requests
<1>3. /\ Bases \in [0 .. BatchSize -> Nat] /\ Bases[0] = 0
      /\ \A b \in 0 .. BatchSize - 1 : Bases[b + 1] = Bases[b] + blocks[b]
  BY <1>1, <1>2, BaseSteps
<1> QED
  BY <1>1, <1>2, <1>3 DEF Base, Requests

\* The bases ascend.
LEMMA BaseGrows ==
  ASSUME Batch, NEW a \in 0 .. BatchSize, NEW b \in 0 .. BatchSize, a <= b
  PROVE  Base(a) \in Nat /\ Base(b) \in Nat /\ Base(a) <= Base(b)
<1>0. Base(a) \in Nat /\ Base(b) \in Nat /\ BatchSize \in Nat
  BY BatchFacts
<1> DEFINE lower == {n \in Nat : n <= BatchSize /\ a <= n /\ Base(n) < Base(a)}
<1>1. lower = {}
  <2>1. SUFFICES ASSUME lower # {} PROVE FALSE
    OBVIOUS
  <2>2. PICK n \in lower : \A k \in lower : n <= k
    BY <2>1, LeastNat
  <2>3. n \in Nat /\ n <= BatchSize /\ a <= n /\ Base(n) < Base(a)
    OBVIOUS
  <2>4. n # a /\ n \in 0 .. BatchSize
    BY <1>0, <2>3
  <2>5. n - 1 \in Nat /\ n - 1 <= BatchSize /\ a <= n - 1 /\ ~ (n <= n - 1) /\ n - 1 \in Requests
    BY <1>0, <2>3, <2>4 DEF Requests
  <2>6. ~ (Base(n - 1) < Base(a))
    BY <2>2, <2>5
  <2>7. Base((n - 1) + 1) = Base(n - 1) + blocks[n - 1] /\ blocks[n - 1] \in Nat /\ Base(n - 1) \in Nat
    <3>1. n - 1 \in 0 .. BatchSize
      BY <2>5, <1>0
    <3> QED
      BY <2>5, <3>1, BatchFacts
  <2>8. (n - 1) + 1 = n
    BY <2>3
  <2> QED
    BY <1>0, <2>3, <2>6, <2>7, <2>8
<1>2. b \in Nat /\ b <= BatchSize
  BY <1>0
<1>3. ~ (Base(b) < Base(a))
  BY <1>1, <1>2
<1> QED
  BY <1>0, <1>3

\* The blocks of a request lie within the batch.
LEMMA RequestFacts ==
  ASSUME Batch, NEW b \in Requests
  PROVE  /\ b \in Nat /\ b \in 0 .. BatchSize /\ b < BatchSize /\ blocks[b] \in Nat
         /\ Base(b) \in Nat /\ End(b) \in Nat /\ End(b) = Base(b + 1)
         /\ Base(b) <= End(b) /\ End(b) <= Total /\ Total \in Nat
         /\ blocks[b] = End(b) - Base(b)
<1>1. /\ b \in Nat /\ b \in 0 .. BatchSize /\ b + 1 \in 0 .. BatchSize /\ b + 1 <= BatchSize
      /\ BatchSize \in 0 .. BatchSize /\ b < BatchSize
  BY SizeAssumption DEF Requests
<1>2. Base(b + 1) <= Base(BatchSize) /\ Base(BatchSize) \in Nat
  BY <1>1, BaseGrows
<1>3. Base(b) \in Nat /\ blocks[b] \in Nat /\ Base(b + 1) = Base(b) + blocks[b]
  BY <1>1, BatchFacts
<1> QED
  BY <1>1, <1>2, <1>3 DEF End, Total

\* A request ends where a later one begins, or before.
LEMMA RequestsOrdered ==
  ASSUME Batch, NEW a \in Requests, NEW b \in Requests, a < b
  PROVE  End(a) <= Base(b)
<1>1. a + 1 \in 0 .. BatchSize /\ b \in 0 .. BatchSize /\ a + 1 <= b
  BY SizeAssumption DEF Requests
<1>2. Base(a + 1) <= Base(b)
  BY <1>1, BaseGrows
<1> QED
  BY <1>2, RequestFacts

\* A block is of one request,
LEMMA RequestUnique ==
  ASSUME Batch, NEW a \in Requests, NEW b \in Requests, NEW g \in Int,
         Base(a) <= g, g < End(a), Base(b) <= g, g < End(b)
  PROVE  a = b
<1>1. /\ Base(a) \in Int /\ Base(b) \in Int /\ End(a) \in Int /\ End(b) \in Int
      /\ a \in Nat /\ b \in Nat
  BY RequestFacts
<1>2. ~ (a < b)
  BY <1>1, RequestsOrdered
<1>3. ~ (b < a)
  BY <1>1, RequestsOrdered
<1> QED
  BY <1>1, <1>2, <1>3

\* and each is of some request, which RowOf finds.
LEMMA RequestFound ==
  ASSUME Batch, NEW g \in 0 .. Total - 1
  PROVE  RowOf(g) \in Requests /\ Base(RowOf(g)) <= g /\ g < End(RowOf(g))
<1> DEFINE past == {n \in Nat : n <= BatchSize /\ g < Base(n)}
<1>1. BatchSize \in Nat /\ Base(BatchSize) \in Nat /\ Base(0) = 0 /\ Base(BatchSize) = Total
  BY BatchFacts DEF Total
<1>2. BatchSize \in past
  BY <1>1
<1>3. PICK n \in past : \A k \in past : n <= k
  BY <1>2, LeastNat
<1>4. n \in Nat /\ n <= BatchSize /\ g < Base(n) /\ n # 0
  BY <1>1
<1>5. n - 1 \in Requests /\ n - 1 \in Nat /\ n - 1 <= BatchSize /\ ~ (n <= n - 1) /\ (n - 1) + 1 = n
  BY <1>1, <1>4 DEF Requests
<1>6. ~ (g < Base(n - 1))
  BY <1>3, <1>5
<1>7. Base(n - 1) \in Nat /\ End(n - 1) = Base(n)
  BY <1>5, RequestFacts
<1>8. Base(n - 1) <= g /\ g < End(n - 1)
  BY <1>1, <1>4, <1>6, <1>7
<1>9. \E b \in Requests : Base(b) <= g /\ g < End(b)
  BY <1>5, <1>8
<1> QED
  BY <1>9 DEF RowOf, End

\* RowOf ascends.
LEMMA RowsAscend ==
  ASSUME Batch, NEW g \in 0 .. Total - 1, NEW h \in 0 .. Total - 1, g <= h
  PROVE  RowOf(g) <= RowOf(h)
<1>1. /\ RowOf(g) \in Requests /\ Base(RowOf(g)) <= g
      /\ RowOf(h) \in Requests /\ h < End(RowOf(h))
  BY RequestFound
<1>2. /\ RowOf(g) \in Nat /\ RowOf(h) \in Nat /\ Base(RowOf(g)) \in Nat /\ End(RowOf(h)) \in Nat
  BY <1>1, RequestFacts
<1>3. ~ (RowOf(h) < RowOf(g))
  BY <1>1, <1>2, RequestsOrdered
<1> QED
  BY <1>2, <1>3
\* Quotient and remainder.
LEMMA Division ==
  ASSUME NEW a \in Nat, NEW b \in Nat \ {0}
  PROVE  a \div b \in Nat /\ (a % b) \in 0 .. b - 1 /\ a = b * (a \div b) + (a % b)
BY SMT

\* The shares lie end to end, from the first block to the last; the cores that
\* are used, and no others, have one.
LEMMA ShareFacts ==
  ASSUME Batch
  PROVE  /\ Total \in Nat /\ Used \in Nat /\ Used <= NumCores /\ (Used = 0 <=> Total = 0)
         /\ ShareStart(0) = 0 /\ ShareStart(Used) = Total
         /\ \A c \in Nat : /\ ShareStart(c) \in Nat /\ Share(c) \in Nat
                           /\ ShareEnd(c) = ShareStart(c) + Share(c)
                           /\ ShareEnd(c) = ShareStart(c + 1)
                           /\ c < Used => Share(c) > 0
                           /\ c < NumCores /\ ~ (c < Used) => Share(c) = 0
<1> DEFINE q == Total \div NumCores
           r == Total % NumCores
<1>1. Total \in Nat /\ NumCores \in Nat \ {0}
  <2>1. BatchSize \in 0 .. BatchSize
    BY SizeAssumption
  <2> QED
    BY <2>1, BatchFacts DEF Total
<1>2. q \in Nat /\ r \in 0 .. NumCores - 1 /\ Total = NumCores * q + r
  BY <1>1, Division
<1>3. /\ Used = IF q = 0 THEN r ELSE NumCores
      /\ \A c : /\ Share(c) = q + (IF c < r THEN 1 ELSE 0)
                /\ ShareStart(c) = c * q + Least(c, r)
                /\ ShareEnd(c) = ShareStart(c) + Share(c)
  BY DEF Used, Share, ShareStart, ShareEnd
<1> HIDE DEF q, r
<1>4. ASSUME NEW c \in Nat
      PROVE  /\ c * q \in Nat /\ (c + 1) * q = c * q + q
             /\ Least(c, r) \in Nat
             /\ Least(c + 1, r) = Least(c, r) + (IF c < r THEN 1 ELSE 0)
  <2>1. c * q \in Nat /\ (c + 1) * q = c * q + q
    BY <1>2
  <2>2. Least(c, r) \in Nat /\ Least(c + 1, r) = Least(c, r) + (IF c < r THEN 1 ELSE 0)
    BY <1>2 DEF Least
  <2> QED
    BY <2>1, <2>2
<1>5. ASSUME NEW c \in Nat
      PROVE  /\ ShareStart(c) \in Nat /\ Share(c) \in Nat
             /\ ShareEnd(c) = ShareStart(c) + Share(c)
             /\ ShareEnd(c) = ShareStart(c + 1)
             /\ c < Used => Share(c) > 0
             /\ c < NumCores /\ ~ (c < Used) => Share(c) = 0
  <2> DEFINE m == c * q
             n == (c + 1) * q
  <2>a. m \in Nat /\ n = m + q
    BY <1>4
  <2>b. /\ Share(c) = q + (IF c < r THEN 1 ELSE 0)
        /\ ShareStart(c) = m + Least(c, r) /\ ShareStart(c + 1) = n + Least(c + 1, r)
        /\ ShareEnd(c) = ShareStart(c) + Share(c)
    BY <1>3
  <2> HIDE DEF m, n
  <2>c. Least(c, r) \in Nat /\ Least(c + 1, r) = Least(c, r) + (IF c < r THEN 1 ELSE 0)
    BY <1>4
  <2>1. ShareStart(c) \in Nat /\ Share(c) \in Nat
    BY <1>2, <2>a, <2>b, <2>c
  <2>2. ShareEnd(c) = ShareStart(c + 1)
    BY <1>2, <2>a, <2>b, <2>c
  <2>3. (c < Used => Share(c) > 0) /\ (c < NumCores /\ ~ (c < Used) => Share(c) = 0)
    BY <1>1, <1>2, <1>3
  <2> QED
    BY <1>3, <2>1, <2>2, <2>3
<1>6. Used \in Nat /\ Used <= NumCores
  BY <1>1, <1>2, <1>3
<1>7. Used = 0 <=> Total = 0
  <2>1. CASE q = 0
    BY <1>1, <1>2, <1>3, <2>1
  <2>2. CASE q # 0
    <3>1. NumCores * q > 0
      BY <1>1, <1>2, <2>2
    <3> QED
      BY <1>1, <1>2, <1>3, <2>2, <3>1
  <2> QED
    BY <2>1, <2>2
<1>8. ShareStart(0) = 0
  BY <1>2, <1>3 DEF Least
<1>9. ShareStart(Used) = Total
  <2>1. ShareStart(Used) = Used * q + Least(Used, r)
    BY <1>3
  <2>2. CASE q = 0
    <3>1. Used = r /\ Least(r, r) = r /\ r * q = 0 /\ NumCores * q = 0
      BY <1>1, <1>2, <1>3, <2>2 DEF Least
    <3> QED
      BY <1>2, <2>1, <3>1
  <2>3. CASE q # 0
    <3>1. Used = NumCores /\ Least(NumCores, r) = r
      BY <1>1, <1>2, <1>3, <2>3 DEF Least
    <3> QED
      BY <1>2, <2>1, <3>1
  <2> QED
    BY <2>2, <2>3
<1> QED
  BY <1>1, <1>5, <1>6, <1>7, <1>8, <1>9

\* The shares ascend.
LEMMA StartsAscend ==
  ASSUME Batch, NEW c \in Nat, NEW d \in Nat, c <= d
  PROVE  ShareStart(c) <= ShareStart(d)
<1> DEFINE lower == {n \in Nat : c <= n /\ ShareStart(n) < ShareStart(c)}
<1>1. \A e \in Nat : ShareStart(e) \in Nat /\ Share(e) \in Nat
  BY ShareFacts
<1>2. lower = {}
  <2>1. SUFFICES ASSUME lower # {} PROVE FALSE
    OBVIOUS
  <2>2. PICK n \in lower : \A k \in lower : n <= k
    BY <2>1, LeastNat
  <2>3. n \in Nat /\ c <= n /\ ShareStart(n) < ShareStart(c) /\ n # c
    BY <1>1
  <2>4. n - 1 \in Nat /\ c <= n - 1 /\ ~ (n <= n - 1) /\ (n - 1) + 1 = n
    BY <2>3
  <2>5. ~ (ShareStart(n - 1) < ShareStart(c))
    BY <2>2, <2>4
  <2>6. ShareStart(n) = ShareStart(n - 1) + Share(n - 1)
    BY <2>4, ShareFacts
  <2> QED
    BY <1>1, <2>3, <2>4, <2>5, <2>6
<1>3. ~ (ShareStart(d) < ShareStart(c))
  BY <1>2
<1> QED
  BY <1>1, <1>3

\* A core that is used has its share within the batch, before those of later cores.
LEMMA CoreFacts ==
  ASSUME Batch, NEW c \in Cores
  PROVE  /\ c \in Nat /\ c < NumCores /\ ShareStart(c) \in Nat /\ ShareEnd(c) \in Nat
         /\ ShareEnd(c) = ShareStart(c + 1) /\ ShareStart(c) <= ShareEnd(c)
         /\ c < Used => ShareStart(c) < ShareEnd(c) /\ ShareEnd(c) <= Total
         /\ ~ (c < Used) => ShareStart(c) = ShareEnd(c)
         /\ \A d \in Cores : c < d => ShareEnd(c) <= ShareStart(d)
<1>1. c \in Nat /\ c < NumCores /\ NumCores \in Nat
  BY SizeAssumption DEF Cores
<1>2. /\ ShareStart(c) \in Nat /\ Share(c) \in Nat /\ ShareEnd(c) = ShareStart(c) + Share(c)
      /\ ShareEnd(c) = ShareStart(c + 1)
      /\ c < Used => Share(c) > 0
      /\ ~ (c < Used) => Share(c) = 0
  BY <1>1, ShareFacts
<1>3. ASSUME NEW d \in Nat, c < d PROVE ShareEnd(c) <= ShareStart(d)
  <2>1. c + 1 \in Nat /\ c + 1 <= d
    BY <1>1, <1>3
  <2> QED
    BY <1>2, <2>1, StartsAscend
<1>4. c < Used => ShareEnd(c) <= Total
  <2>1. Used \in Nat /\ ShareStart(Used) = Total
    BY ShareFacts
  <2> QED
    BY <1>3, <2>1
<1>5. \A d \in Cores : d \in Nat
  BY DEF Cores
<1> QED
  BY <1>1, <1>2, <1>3, <1>4, <1>5

\* A block is of one core,
LEMMA CoreUnique ==
  ASSUME Batch, NEW c \in Cores, NEW d \in Cores, NEW g \in Int,
         ShareStart(c) <= g, g < ShareEnd(c), ShareStart(d) <= g, g < ShareEnd(d)
  PROVE  c = d
<1>1. /\ c \in Nat /\ d \in Nat /\ ShareStart(c) \in Nat /\ ShareStart(d) \in Nat
      /\ ShareEnd(c) \in Nat /\ ShareEnd(d) \in Nat
  BY CoreFacts
<1>2. ~ (c < d)
  BY <1>1, CoreFacts
<1>3. ~ (d < c)
  BY <1>1, CoreFacts
<1> QED
  BY <1>1, <1>2, <1>3

\* and each is of some core.
LEMMA CoreFound ==
  ASSUME Batch, NEW g \in 0 .. Total - 1
  PROVE  \E c \in Cores : c < Used /\ ShareStart(c) <= g /\ g < ShareEnd(c)
<1> DEFINE past == {n \in Nat : g < ShareStart(n)}
<1>1. /\ Used \in Nat /\ Used <= NumCores /\ NumCores \in Nat /\ Total \in Nat
      /\ ShareStart(Used) = Total /\ ShareStart(0) = 0
  BY ShareFacts, SizeAssumption
<1>2. Used \in past
  BY <1>1
<1>3. PICK n \in past : \A k \in past : n <= k
  BY <1>2, LeastNat
<1>4. n \in Nat /\ g < ShareStart(n) /\ n # 0 /\ n <= Used
  BY <1>1, <1>2, <1>3
<1>5. n - 1 \in Nat /\ ~ (n <= n - 1) /\ (n - 1) + 1 = n /\ n - 1 < Used /\ n - 1 \in Cores
  BY <1>1, <1>4 DEF Cores
<1>6. ~ (g < ShareStart(n - 1))
  BY <1>3, <1>5
<1>7. ShareStart(n - 1) \in Nat /\ ShareEnd(n - 1) = ShareStart(n)
  BY <1>5, CoreFacts
<1>8. ShareStart(n - 1) <= g /\ g < ShareEnd(n - 1)
  BY <1>4, <1>6, <1>7
<1> QED
  BY <1>5, <1>8
\* The part of a request on a core is what the share and the request have in common.
LEMMA PartFacts ==
  ASSUME Batch, NEW c \in Cores, NEW b \in Requests
  PROVE  /\ Lo(c, b) \in Nat /\ Hi(c, b) \in Nat
         /\ ShareStart(c) <= Lo(c, b) /\ Base(b) <= Lo(c, b)
         /\ Hi(c, b) <= ShareEnd(c) /\ Hi(c, b) <= End(b)
         /\ \A g \in Int : Lo(c, b) <= g /\ g < Hi(c, b) <=>
              /\ ShareStart(c) <= g /\ g < ShareEnd(c) /\ Base(b) <= g /\ g < End(b)
         /\ Has(c, b) => c < Used /\ blocks[b] # 0
<1>1. /\ ShareStart(c) \in Nat /\ ShareEnd(c) \in Nat /\ Base(b) \in Nat /\ End(b) \in Nat
      /\ blocks[b] = End(b) - Base(b)
      /\ ~ (c < Used) => ShareStart(c) = ShareEnd(c)
  BY CoreFacts, RequestFacts
<1> QED
  BY <1>1 DEF Lo, Hi, Has, Least

\* Where a core's rows begin: with the request of its first block, or behind
\* the request of the block before that.
LEMMA FirstRow ==
  ASSUME Batch, NEW c \in Cores, c < Used
  PROVE  /\ split[c].bN2Start \in Requests /\ split[c].s2Start \in Nat
         /\ split[c].bN2Start <= RowOf(ShareStart(c))
         /\ Base(split[c].bN2Start) + split[c].s2Start = ShareStart(c)
         /\ split[c].s2Start <= blocks[split[c].bN2Start]
         /\ blocks[split[c].bN2Start] # 0 => split[c].s2Start < blocks[split[c].bN2Start]
         /\ split[c].s2Start = 0 \/ split[c].bN2Start = RowOf(ShareStart(c))
         /\ \A b \in Requests : b < split[c].bN2Start => End(b) <= ShareStart(c)
         /\ split[c].bN2Start = (IF ShareStart(c) = 0 THEN 0
                                 ELSE IF RowOf(ShareStart(c) - 1) = RowOf(ShareStart(c))
                                   THEN RowOf(ShareStart(c))
                                   ELSE RowOf(ShareStart(c) - 1) + 1)
<1> DEFINE g == ShareStart(c)
           n == RowOf(g)
           p == RowOf(g - 1)
<1>1. /\ c \in Nat /\ g \in Nat /\ ShareEnd(c) \in Nat /\ g < ShareEnd(c) /\ ShareEnd(c) <= Total
      /\ Total \in Nat
  BY CoreFacts, ShareFacts
<1>2. n \in Requests /\ Base(n) <= g /\ g < End(n)
  BY <1>1, RequestFound
<1>3. /\ n \in Nat /\ Base(n) \in Nat /\ End(n) \in Nat /\ blocks[n] = End(n) - Base(n)
  BY <1>2, RequestFacts
<1>4. split[c] = SplitCore(c)
  BY DEF Batch
<1>5. /\ split[c].bN2Start = IF g = 0 THEN 0 ELSE IF g > 0 /\ p = n THEN n ELSE p + 1
      /\ split[c].s2Start = IF g > 0 /\ p = n THEN g - Base(n) ELSE 0
  BY <1>4 DEF SplitCore
<1> HIDE DEF g, n, p
<1>6. CASE g = 0
  <2>1. split[c].bN2Start = 0 /\ split[c].s2Start = 0
    BY <1>5, <1>6
  <2>2. 0 \in Requests /\ Base(0) = 0 /\ blocks[0] \in Nat
    BY BatchFacts, SizeAssumption DEF Requests
  <2>3. \A b \in Requests : b \in Nat
    BY DEF Requests
  <2> QED
    BY <1>3, <1>6, <2>1, <2>2, <2>3 DEF g, n
<1>7. CASE g > 0 /\ p = n
  <2>1. split[c].bN2Start = n /\ split[c].s2Start = g - Base(n)
    BY <1>1, <1>5, <1>7
  <2>2. \A b \in Requests : b < n => End(b) <= Base(n) /\ End(b) \in Nat
    BY <1>2, RequestsOrdered, RequestFacts
  <2>3. \A b \in Requests : b < n => End(b) <= g
    BY <1>1, <1>2, <1>3, <2>2
  <2> QED
    BY <1>1, <1>2, <1>3, <1>7, <2>1, <2>3 DEF g, n, p
<1>8. CASE g > 0 /\ p # n
  <2>1. split[c].bN2Start = p + 1 /\ split[c].s2Start = 0
    BY <1>1, <1>5, <1>8
  <2>2. p \in Requests /\ Base(p) <= g - 1 /\ g - 1 < End(p) /\ p <= n
    <3>1. g - 1 \in 0 .. Total - 1 /\ g \in 0 .. Total - 1 /\ g - 1 <= g
      BY <1>1, <1>8
    <3> QED
      BY <3>1, RequestFound, RowsAscend DEF n, p
  <2>3. p \in Nat /\ Base(p) \in Nat /\ End(p) \in Nat /\ End(p) = Base(p + 1)
    BY <2>2, RequestFacts
  <2>4. End(p) = g
    <3>1. g < End(p) => p = n
      BY <1>1, <1>2, <1>3, <2>2, <2>3, RequestUnique
    <3> QED
      BY <1>1, <1>8, <2>2, <2>3, <3>1
  <2>5. p + 1 \in Requests /\ p + 1 <= n
    BY <1>2, <1>3, <1>8, <2>2, <2>3, SizeAssumption DEF Requests
  <2>6. blocks[p + 1] \in Nat
    BY <2>5, RequestFacts
  <2>7. ASSUME NEW b \in Requests, b < p + 1 PROVE End(b) <= g
    <3>1. b \in Nat /\ End(b) \in Nat /\ Base(p + 1) \in Nat
      BY <2>5, RequestFacts
    <3> QED
      BY <2>3, <2>4, <2>5, <2>7, <3>1, RequestsOrdered
  <2> QED
    BY <1>1, <1>8, <2>1, <2>3, <2>4, <2>5, <2>6, <2>7 DEF g, n, p
<1> QED
  BY <1>1, <1>6, <1>7, <1>8

\* Where they end: with the request of its last block, or, for the last core
\* that is used, with the last request of the batch.
LEMMA FinalRow ==
  ASSUME Batch, NEW c \in Cores, c < Used, NEW last, last = RowOf(ShareEnd(c) - 1)
  PROVE  /\ last \in Requests /\ Base(last) < ShareEnd(c) /\ ShareEnd(c) <= End(last)
         /\ split[c].bN2End \in Requests /\ last <= split[c].bN2End
         /\ split[c].bN2End = last => split[c].s2End = ShareEnd(c) - 1 - Base(last)
         /\ split[c].bN2End # last => split[c].s2End = 0 /\ ShareEnd(c) = Total
         /\ ShareEnd(c) = Total => split[c].bN2End = BatchSize - 1
         /\ ShareEnd(c) # Total => split[c].bN2End = last
         /\ split[c].isLD = (Base(last) >= ShareStart(c) /\ ShareEnd(c) < End(last))
         /\ RowOf(ShareStart(c)) <= last
<1> DEFINE e == ShareEnd(c) - 1
<1>1. /\ c \in Nat /\ ShareStart(c) \in Nat /\ ShareEnd(c) \in Nat /\ ShareStart(c) < ShareEnd(c)
      /\ ShareEnd(c) <= Total /\ Total \in Nat /\ Used \in Nat
  BY CoreFacts, ShareFacts
<1>2. e \in 0 .. Total - 1 /\ ShareStart(c) \in 0 .. Total - 1 /\ ShareStart(c) <= e
  BY <1>1
<1>3. last \in Requests /\ Base(last) <= e /\ e < End(last)
  BY <1>2, RequestFound
<1>4. /\ last \in Nat /\ last < BatchSize /\ Base(last) \in Nat /\ End(last) \in Nat
      /\ BatchSize \in Nat
  BY <1>3, RequestFacts, SizeAssumption
<1>5. RowOf(ShareStart(c)) <= last
  BY <1>2, RowsAscend
<1>6. c = Used - 1 <=> ShareEnd(c) = Total
  <2>1. c = Used - 1 => ShareEnd(c) = Total
    <3>1. ShareEnd(c) = ShareStart(c + 1) /\ ShareStart(Used) = Total
      BY CoreFacts, ShareFacts
    <3>2. c = Used - 1 => c + 1 = Used
      BY <1>1
    <3> QED
      BY <3>1, <3>2
  <2>2. c # Used - 1 => ShareEnd(c) # Total
    <3>1. SUFFICES ASSUME c # Used - 1 PROVE ShareEnd(c) < Total
      BY <1>1
    <3>2. c + 1 \in Cores /\ c + 1 < Used /\ c < c + 1
      BY <1>1, <3>1, ShareFacts, SizeAssumption DEF Cores
    <3>3. ShareEnd(c) <= ShareStart(c + 1)
      BY <3>2, CoreFacts
    <3>4. ShareStart(c + 1) < ShareEnd(c + 1) /\ ShareEnd(c + 1) <= Total
          /\ ShareStart(c + 1) \in Nat /\ ShareEnd(c + 1) \in Nat
      BY <3>2, CoreFacts
    <3> QED
      BY <1>1, <3>3, <3>4
  <2> QED
    BY <2>1, <2>2
<1>7. split[c] = SplitCore(c) /\ ShareStart(c) + Share(c) - 1 = e
  <2>1. split[c] = SplitCore(c)
    BY DEF Batch
  <2>2. ShareEnd(c) = ShareStart(c) + Share(c) /\ Share(c) \in Nat
    BY <1>1, ShareFacts
  <2>3. ShareStart(c) + Share(c) - 1 = e
    BY <1>1, <2>2
  <2> QED
    BY <2>1, <2>3
<1>8. /\ split[c].bN2End = EndRow(c, last)
      /\ split[c].s2End = IF EndRow(c, last) = last THEN e - Base(last) ELSE 0
      /\ split[c].isLD = MustMerge(c, last, e)
  <2> HIDE DEF e
  <2>1. RowOf(e) = last
    BY DEF e
  <2> QED
    BY <1>7, <2>1 DEF SplitCore
<1>9. EndRow(c, last) = IF ShareEnd(c) = Total THEN BatchSize - 1 ELSE last
  BY <1>6 DEF EndRow
<1>10. MustMerge(c, last, e) = (Base(last) >= ShareStart(c) /\ ShareEnd(c) < End(last))
  <2>1. e + 1 = ShareEnd(c)
    BY <1>1
  <2> QED
    BY <2>1 DEF MustMerge, End
<1>11. BatchSize - 1 \in Requests /\ last <= BatchSize - 1
  BY <1>4 DEF Requests
<1> QED
  BY <1>1, <1>3, <1>4, <1>5, <1>8, <1>9, <1>10, <1>11\* The rows of a core are the requests it has parts of and the empty ones among
\* them: none but the first begins before its share, none but the last ends
\* behind it.
LEMMA RowFacts ==
  ASSUME Batch, NEW c \in Cores, c < Used
  PROVE  /\ split[c].bN2Start \in Requests /\ split[c].bN2End \in Requests
         /\ split[c].bN2Start \in Nat /\ split[c].bN2End \in Nat
         /\ split[c].bN2Start <= split[c].bN2End
         /\ \A b \in Requests : split[c].bN2Start <= b /\ b <= split[c].bN2End =>
              /\ Base(b) <= ShareEnd(c)
              /\ b # split[c].bN2Start => ShareStart(c) <= Base(b)
              /\ b # split[c].bN2End => End(b) <= ShareEnd(c)
              /\ blocks[b] # 0 => Has(c, b)
         /\ \A b \in Requests : Has(c, b) => split[c].bN2Start <= b /\ b <= split[c].bN2End
<1> DEFINE last == RowOf(ShareEnd(c) - 1)
           from == split[c].bN2Start
           to == split[c].bN2End
<1>1. /\ last \in Requests /\ Base(last) < ShareEnd(c) /\ ShareEnd(c) <= End(last)
      /\ to \in Requests /\ last <= to
      /\ to # last => ShareEnd(c) = Total
      /\ ShareEnd(c) = Total => to = BatchSize - 1
      /\ ShareEnd(c) # Total => to = last
      /\ RowOf(ShareStart(c)) <= last
  BY FinalRow
<1>2. /\ from \in Requests /\ split[c].s2Start \in Nat /\ from <= RowOf(ShareStart(c))
      /\ Base(from) + split[c].s2Start = ShareStart(c)
      /\ split[c].s2Start <= blocks[from]
      /\ blocks[from] # 0 => split[c].s2Start < blocks[from]
      /\ \A b \in Requests : b < from => End(b) <= ShareStart(c)
  BY FirstRow
<1>3. /\ ShareStart(c) \in Nat /\ ShareEnd(c) \in Nat /\ ShareStart(c) < ShareEnd(c)
      /\ ShareEnd(c) <= Total /\ Total \in Nat
  BY CoreFacts, ShareFacts
<1>4. \A b \in Requests : /\ b \in Nat /\ b < BatchSize /\ Base(b) \in Nat /\ End(b) \in Nat
                          /\ blocks[b] = End(b) - Base(b) /\ Base(b) <= End(b) /\ End(b) <= Total
                          /\ blocks[b] \in Nat
  BY RequestFacts
<1>5. BatchSize \in Nat
  BY SizeAssumption
<1> HIDE DEF last, from, to
<1>6. RowOf(ShareStart(c)) \in Nat
  <2>1. ShareStart(c) \in 0 .. Total - 1
    BY <1>3
  <2> QED
    BY <2>1, <1>4, RequestFound
<1>7. from <= to /\ from \in Nat /\ to \in Nat
  BY <1>1, <1>2, <1>4, <1>6
<1>8. ASSUME NEW b \in Requests, from <= b, b <= to
      PROVE  /\ Base(b) <= ShareEnd(c)
             /\ b # from => ShareStart(c) <= Base(b)
             /\ b # to => End(b) <= ShareEnd(c)
             /\ blocks[b] # 0 => Has(c, b)
  <2>1. Base(b) <= ShareEnd(c)
    <3>1. CASE to = last
      <4>1. b < last => End(b) <= Base(last)
        BY <1>1, RequestsOrdered
      <4> QED
        BY <1>1, <1>3, <1>4, <1>8, <3>1, <4>1
    <3>2. CASE to # last
      BY <1>1, <1>3, <1>4, <3>2
    <3> QED
      BY <3>1, <3>2
  <2>2. b # from => ShareStart(c) <= Base(b)
    <3>1. b # from => from < b
      BY <1>4, <1>7, <1>8
    <3>2. b # from => End(from) <= Base(b)
      BY <1>2, <3>1, RequestsOrdered
    <3> QED
      BY <1>2, <1>3, <1>4, <3>2
  <2>3. b # to => End(b) <= ShareEnd(c)
    <3>1. CASE to = last
      <4>1. b < last => End(b) <= Base(last)
        BY <1>1, RequestsOrdered
      <4> QED
        BY <1>1, <1>3, <1>4, <1>8, <3>1, <4>1
    <3>2. CASE to # last
      BY <1>1, <1>3, <1>4, <3>2
    <3> QED
      BY <3>1, <3>2
  <2>4. ASSUME blocks[b] # 0 PROVE Has(c, b)
    <3>1. Base(b) < End(b)
      BY <1>4, <2>4
    <3>2. ShareStart(c) < End(b)
      <4>1. CASE b = from
        BY <1>2, <1>3, <1>4, <2>4, <4>1
      <4> QED
        BY <1>3, <1>4, <2>2, <3>1, <4>1
    <3>3. Base(b) < ShareEnd(c)
      <4>1. CASE b = to
        <5>1. CASE to = last
          BY <1>1, <4>1, <5>1
        <5>2. CASE to # last
          BY <1>1, <1>3, <1>4, <3>1, <5>2
        <5> QED
          BY <5>1, <5>2
      <4>2. CASE b # to
        BY <1>3, <1>4, <2>3, <3>1, <4>2
      <4> QED
        BY <4>1, <4>2
    <3> QED
      BY <1>3, <1>4, <3>1, <3>2, <3>3 DEF Has, Lo, Hi, Least
  <2> QED
    BY <2>1, <2>2, <2>3, <2>4
<1>9. ASSUME NEW b \in Requests, Has(c, b) PROVE from <= b /\ b <= to
  <2>1. ShareStart(c) < End(b) /\ Base(b) < ShareEnd(c)
    BY <1>3, <1>4, <1>9 DEF Has, Lo, Hi, Least
  <2>2. from <= b
    <3>1. ~ (b < from)
      BY <1>2, <1>3, <1>4, <2>1
    <3> QED
      BY <1>4, <1>7, <3>1
  <2>3. b <= to
    <3>1. CASE ShareEnd(c) = Total
      BY <1>1, <1>4, <1>5, <3>1
    <3>2. CASE ShareEnd(c) # Total
      <4>1. last < b => End(last) <= Base(b)
        BY <1>1, RequestsOrdered
      <4> QED
        BY <1>1, <1>3, <1>4, <1>7, <2>1, <3>2, <4>1
    <3> QED
      BY <3>1, <3>2
  <2> QED
    BY <2>2, <2>3
<1>10. from \in Requests /\ to \in Requests
  BY <1>1, <1>2
<1> QED
  BY <1>7, <1>8, <1>9, <1>10 DEF from, to

\* A core's last block is at s2End of its last row, unless that is empty; and
\* it merges when it has the head of a request.
LEMMA LastFacts ==
  ASSUME Batch, NEW c \in Cores, c < Used
  PROVE  /\ blocks[split[c].bN2End] # 0 => /\ ShareEnd(c) <= End(split[c].bN2End)
                                           /\ split[c].s2End = ShareEnd(c) - 1 - Base(split[c].bN2End)
         /\ blocks[split[c].bN2End] = 0 => Base(split[c].bN2End) = ShareEnd(c)
         /\ split[c].isLD \in BOOLEAN
         /\ split[c].isLD <=> \E b \in Requests : Heads(c, b)
<1> DEFINE last == RowOf(ShareEnd(c) - 1)
           to == split[c].bN2End
<1>1. /\ last \in Requests /\ Base(last) < ShareEnd(c) /\ ShareEnd(c) <= End(last)
      /\ to \in Requests /\ last <= to
      /\ to = last => split[c].s2End = ShareEnd(c) - 1 - Base(last)
      /\ to # last => ShareEnd(c) = Total
      /\ split[c].isLD = (Base(last) >= ShareStart(c) /\ ShareEnd(c) < End(last))
  BY FinalRow
<1>3. /\ ShareStart(c) \in Nat /\ ShareEnd(c) \in Nat /\ ShareStart(c) < ShareEnd(c)
      /\ ShareEnd(c) <= Total /\ Total \in Nat
  BY CoreFacts, ShareFacts
<1>4. \A b \in Requests : /\ b \in Nat /\ Base(b) \in Nat /\ End(b) \in Nat
                          /\ blocks[b] = End(b) - Base(b) /\ Base(b) <= End(b) /\ End(b) <= Total
  BY RequestFacts
<1> HIDE DEF last, to
<1>5. to # last => End(last) <= Base(to)
  <2>1. to # last => last < to
    BY <1>1, <1>4
  <2> QED
    BY <1>1, <2>1, RequestsOrdered
<1>6. blocks[to] # 0 => ShareEnd(c) <= End(to) /\ split[c].s2End = ShareEnd(c) - 1 - Base(to)
  <2>1. CASE to = last
    BY <1>1, <2>1
  <2>2. CASE to # last
    BY <1>1, <1>3, <1>4, <1>5, <2>2
  <2> QED
    BY <2>1, <2>2
<1>7. blocks[to] = 0 => Base(to) = ShareEnd(c)
  <2>1. CASE to = last
    BY <1>1, <1>3, <1>4, <2>1
  <2>2. CASE to # last
    BY <1>1, <1>3, <1>4, <1>5, <2>2
  <2> QED
    BY <2>1, <2>2
<1>8. split[c].isLD => Heads(c, last)
  BY <1>1, <1>3, <1>4 DEF Heads, Has, Lo, Hi, Least
<1>9. ASSUME NEW b \in Requests, Heads(c, b) PROVE split[c].isLD
  <2>1. ShareStart(c) <= Base(b) /\ Base(b) < ShareEnd(c) /\ ShareEnd(c) < End(b)
    BY <1>3, <1>4, <1>9 DEF Heads, Has, Lo, Hi, Least
  <2>2. ShareEnd(c) - 1 \in Int
    BY <1>3
  <2>3. b = last
    <3>1. /\ Base(b) <= ShareEnd(c) - 1 /\ ShareEnd(c) - 1 < End(b)
          /\ Base(last) <= ShareEnd(c) - 1 /\ ShareEnd(c) - 1 < End(last)
      BY <1>1, <1>3, <1>4, <2>1
    <3> QED
      BY <1>1, <2>2, <3>1, RequestUnique
  <2> QED
    BY <1>1, <1>3, <1>4, <2>1, <2>3
<1>10. split[c].isLD \in BOOLEAN
  BY <1>1
<1> QED
  BY <1>1, <1>6, <1>7, <1>8, <1>9, <1>10 DEF to
\* The three ways a core has blocks of a request.
LEMMA PartSides ==
  ASSUME Batch, NEW c \in Cores, NEW b \in Requests
  PROVE  /\ Sole(c, b) <=> blocks[b] # 0 /\ ShareStart(c) <= Base(b) /\ End(b) <= ShareEnd(c)
         /\ Heads(c, b) <=> /\ ShareStart(c) <= Base(b) /\ Base(b) < ShareEnd(c)
                            /\ ShareEnd(c) < End(b)
         /\ Joins(c, b) <=> /\ Base(b) < ShareStart(c) /\ ShareStart(c) < End(b)
                            /\ ShareStart(c) < ShareEnd(c)
         /\ Sole(c, b) => Lo(c, b) = Base(b) /\ Hi(c, b) = End(b)
         /\ Heads(c, b) => Lo(c, b) = Base(b) /\ Hi(c, b) = ShareEnd(c)
         /\ Joins(c, b) => /\ Lo(c, b) = ShareStart(c)
                           /\ End(b) <= ShareEnd(c) => Hi(c, b) = End(b)
                           /\ ShareEnd(c) < End(b) => Hi(c, b) = ShareEnd(c)
<1>1. /\ ShareStart(c) \in Nat /\ ShareEnd(c) \in Nat /\ Base(b) \in Nat /\ End(b) \in Nat
      /\ blocks[b] = End(b) - Base(b) /\ Base(b) <= End(b) /\ ShareStart(c) <= ShareEnd(c)
  BY CoreFacts, RequestFacts
<1>2. Sole(c, b) <=> blocks[b] # 0 /\ ShareStart(c) <= Base(b) /\ End(b) <= ShareEnd(c)
  BY <1>1 DEF Sole, Has, Lo, Hi, Least
<1>3. Heads(c, b) <=> ShareStart(c) <= Base(b) /\ Base(b) < ShareEnd(c) /\ ShareEnd(c) < End(b)
  BY <1>1 DEF Heads, Has, Lo, Hi, Least
<1>4. Joins(c, b) <=> /\ Base(b) < ShareStart(c) /\ ShareStart(c) < End(b)
                      /\ ShareStart(c) < ShareEnd(c)
  BY <1>1 DEF Joins, Has, Lo, Hi, Least
<1>5. Sole(c, b) => Lo(c, b) = Base(b) /\ Hi(c, b) = End(b)
  BY <1>1, <1>2 DEF Lo, Hi, Least
<1>6. Heads(c, b) => Lo(c, b) = Base(b) /\ Hi(c, b) = ShareEnd(c)
  BY <1>1, <1>3 DEF Lo, Hi, Least
<1>7. Joins(c, b) => /\ Lo(c, b) = ShareStart(c)
                     /\ End(b) <= ShareEnd(c) => Hi(c, b) = End(b)
                     /\ ShareEnd(c) < End(b) => Hi(c, b) = ShareEnd(c)
  BY <1>1, <1>4 DEF Lo, Hi, Least
<1> QED
  BY <1>2, <1>3, <1>4, <1>5, <1>6, <1>7

\* A core has its part of a request whole, as the head or as a later part.
LEMMA PartKinds ==
  ASSUME Batch, NEW c \in Cores, NEW b \in Requests, Has(c, b)
  PROVE  /\ Sole(c, b) \/ Heads(c, b) \/ Joins(c, b)
         /\ ShareStart(c) <= Base(b) => Sole(c, b) \/ Heads(c, b)
         /\ Base(b) < ShareStart(c) => Joins(c, b)
<1>1. /\ ShareStart(c) \in Nat /\ ShareEnd(c) \in Nat /\ Base(b) \in Nat /\ End(b) \in Nat
  BY CoreFacts, RequestFacts
<1> QED
  BY <1>1 DEF Sole, Heads, Joins

\* One core begins a request, and to a core only one request is cut at each end.
LEMMA OwnerUnique ==
  ASSUME Batch, NEW c \in Cores, NEW b \in Requests
  PROVE  /\ \A d \in Cores : /\ Sole(c, b) /\ Has(d, b) => d = c
                             /\ Heads(c, b) /\ Heads(d, b) => d = c
         /\ Heads(c, b) => ~Sole(c, b)
         /\ \A a \in Requests : /\ Heads(c, b) /\ Heads(c, a) => a = b
                                /\ Joins(c, b) /\ Joins(c, a) => a = b
<1>1. \A d \in Cores : ShareStart(d) \in Nat /\ ShareEnd(d) \in Nat
  BY CoreFacts
<1>2. \A a \in Requests : Base(a) \in Nat /\ End(a) \in Nat
  BY RequestFacts
<1>3. ASSUME NEW d \in Cores, Sole(c, b), Has(d, b) PROVE d = c
  <2>1. /\ Lo(d, b) \in Nat /\ Lo(d, b) < Hi(d, b) /\ Hi(d, b) \in Nat
        /\ ShareStart(d) <= Lo(d, b) /\ Hi(d, b) <= ShareEnd(d)
        /\ Base(b) <= Lo(d, b) /\ Hi(d, b) <= End(b)
    BY <1>3, PartFacts DEF Has
  <2>2. ShareStart(c) <= Base(b) /\ End(b) <= ShareEnd(c)
    BY <1>3 DEF Sole
  <2>3. /\ ShareStart(c) <= Lo(d, b) /\ Lo(d, b) < ShareEnd(c)
        /\ ShareStart(d) <= Lo(d, b) /\ Lo(d, b) < ShareEnd(d) /\ Lo(d, b) \in Int
    BY <1>1, <1>2, <2>1, <2>2
  <2> QED
    BY <2>3, CoreUnique
<1>4. ASSUME NEW d \in Cores, Heads(c, b), Heads(d, b) PROVE d = c
  <2>1. /\ ShareStart(c) <= Base(b) /\ Base(b) < ShareEnd(c)
        /\ ShareStart(d) <= Base(b) /\ Base(b) < ShareEnd(d) /\ Base(b) \in Int
    BY <1>2, <1>4, PartSides
  <2> QED
    BY <2>1, CoreUnique
<1>5. Heads(c, b) => ~Sole(c, b)
  BY <1>1, <1>2 DEF Heads, Sole
<1>6. ASSUME NEW a \in Requests, Heads(c, b), Heads(c, a) PROVE a = b
  <2>1. /\ Base(a) < ShareEnd(c) /\ ShareEnd(c) < End(a)
        /\ Base(b) < ShareEnd(c) /\ ShareEnd(c) < End(b)
    BY <1>6, PartSides
  <2>2. ShareEnd(c) \in Int /\ Base(a) <= ShareEnd(c) /\ Base(b) <= ShareEnd(c)
    BY <1>1, <1>2, <2>1
  <2> QED
    BY <2>1, <2>2, RequestUnique
<1>7. ASSUME NEW a \in Requests, Joins(c, b), Joins(c, a) PROVE a = b
  <2>1. /\ Base(a) < ShareStart(c) /\ ShareStart(c) < End(a)
        /\ Base(b) < ShareStart(c) /\ ShareStart(c) < End(b)
    BY <1>7, PartSides
  <2>2. ShareStart(c) \in Int /\ Base(a) <= ShareStart(c) /\ Base(b) <= ShareStart(c)
    BY <1>1, <1>2, <2>1
  <2> QED
    BY <2>1, <2>2, RequestUnique
<1> QED
  BY <1>3, <1>4, <1>5, <1>6, <1>7

\* Some core begins every request that has blocks.
LEMMA RequestServed ==
  ASSUME Batch, NEW b \in Requests, blocks[b] # 0
  PROVE  \E c \in Cores : Sole(c, b) \/ Heads(c, b)
<1>1. /\ Base(b) \in Nat /\ End(b) \in Nat /\ blocks[b] = End(b) - Base(b) /\ Base(b) <= End(b)
      /\ End(b) <= Total /\ Total \in Nat
  BY RequestFacts
<1>2. Base(b) \in 0 .. Total - 1
  BY <1>1
<1>3. PICK c \in Cores : ShareStart(c) <= Base(b) /\ Base(b) < ShareEnd(c)
  BY <1>2, CoreFound
<1>4. ShareEnd(c) \in Nat
  BY CoreFacts
<1>5. End(b) <= ShareEnd(c) \/ ShareEnd(c) < End(b)
  BY <1>1, <1>4
<1> QED
  BY <1>3, <1>5, PartSides

\* Where a core's share ends within a request, the next core joins that request.
LEMMA NextJoins ==
  ASSUME Batch, NEW c \in Cores, NEW b \in Requests, Has(c, b), ShareEnd(c) < End(b)
  PROVE  c + 1 \in Cores /\ Joins(c + 1, b) /\ ShareEnd(c) = ShareStart(c + 1)
<1>1. /\ c \in Nat /\ c < NumCores /\ c < Used /\ ShareStart(c) \in Nat /\ ShareEnd(c) \in Nat
      /\ ShareEnd(c) = ShareStart(c + 1) /\ NumCores \in Nat
  BY CoreFacts, PartFacts, SizeAssumption
<1>2. /\ Used \in Nat /\ Used <= NumCores /\ ShareStart(Used) = Total
      /\ Base(b) \in Nat /\ End(b) \in Nat /\ End(b) <= Total /\ Total \in Nat
  BY ShareFacts, RequestFacts
<1>3. c + 1 # Used
  BY <1>1, <1>2
<1>4. c + 1 \in Cores /\ c + 1 < Used
  BY <1>1, <1>2, <1>3 DEF Cores
<1>5. ShareStart(c + 1) < ShareEnd(c + 1)
  BY <1>4, CoreFacts
<1>6. Base(b) < ShareEnd(c)
  BY <1>1, <1>2 DEF Has, Lo, Hi, Least
<1> QED
  BY <1>1, <1>4, <1>5, <1>6, PartSides
\* No request before a core's rows begins where its share does.
LEMMA RowsBehind ==
  ASSUME Batch, NEW c \in Cores, c < Used, NEW b \in Requests, ShareStart(c) <= Base(b)
  PROVE  split[c].bN2Start <= b
<1> DEFINE g == ShareStart(c)
           n == RowOf(g)
           p == RowOf(g - 1)
           from == split[c].bN2Start
<1>1. /\ from \in Requests
      /\ from = (IF g = 0 THEN 0 ELSE IF p = n THEN n ELSE p + 1)
  BY FirstRow
<1>2. g \in Nat /\ g < Total /\ Total \in Nat
  BY CoreFacts, ShareFacts
<1>3. \A a \in Requests : a \in Nat /\ Base(a) \in Nat /\ End(a) \in Nat /\ Base(a) <= End(a)
  BY RequestFacts
<1>4. g # 0 => p \in Requests /\ Base(p) <= g - 1
  <2>1. g # 0 => g - 1 \in 0 .. Total - 1
    BY <1>2
  <2> QED
    BY <2>1, RequestFound
<1>5. g <= Base(b)
  OBVIOUS
<1> HIDE DEF g, n, p, from
<1>6. CASE g = 0
  BY <1>1, <1>3, <1>6 DEF from
<1>7. CASE g # 0
  <2>1. b < p => End(b) <= Base(p)
    BY <1>4, <1>7, RequestsOrdered
  <2>2. ~ (b <= p)
    BY <1>2, <1>3, <1>4, <1>5, <1>7, <2>1
  <2>3. b >= p + 1
    BY <1>3, <1>4, <1>7, <2>2
  <2> QED
    BY <1>1, <1>3, <1>4, <1>7, <2>3 DEF from
<1> QED
  BY <1>6, <1>7

\* One core cleans an empty request,
LEMMA CleanUnique ==
  ASSUME Batch, NEW c \in Cores, NEW d \in Cores, NEW b \in Requests,
         Cleans(c, b), Cleans(d, b)
  PROVE  c = d
<1>1. ASSUME NEW i \in Cores, NEW j \in Cores, Cleans(i, b), Cleans(j, b), i < j PROVE FALSE
  <2> DEFINE g == ShareStart(j)
             n == RowOf(g)
             p == RowOf(g - 1)
             last == RowOf(ShareEnd(i) - 1)
  <2>1. /\ i < Used /\ j < Used /\ blocks[b] = 0
        /\ b <= split[i].bN2End /\ split[j].bN2Start <= b
    BY <1>1 DEF Cleans
  <2>2. /\ g \in Nat /\ ShareEnd(j) \in Nat /\ g < ShareEnd(j) /\ ShareEnd(j) <= Total /\ Total \in Nat
    BY <2>1, CoreFacts, ShareFacts
  <2>3. /\ ShareEnd(i) \in Nat /\ ShareStart(i) \in Nat /\ ShareStart(i) < ShareEnd(i)
        /\ ShareEnd(i) <= g
    BY <1>1, <2>1, CoreFacts
  <2>4. split[j].bN2Start = (IF g = 0 THEN 0 ELSE IF p = n THEN n ELSE p + 1)
    BY <2>1, FirstRow
  <2>5. ShareEnd(i) # Total => split[i].bN2End = last
    BY <2>1, FinalRow
  <2>6. g - 1 \in 0 .. Total - 1 /\ g \in 0 .. Total - 1 /\ ShareEnd(i) - 1 \in 0 .. Total - 1
        /\ ShareEnd(i) - 1 <= g - 1 /\ g # 0 /\ ShareEnd(i) # Total
    BY <2>2, <2>3
  <2> HIDE DEF g
  <2>7. p \in Requests /\ n \in Requests /\ last \in Requests /\ last <= p
        /\ Base(n) <= g /\ g < End(n)
    BY <2>6, RequestFound, RowsAscend
  <2>8. blocks[n] # 0
    BY <2>2, <2>7, RequestFacts
  <2> HIDE DEF n, p, last
  <2>9. p \in Nat /\ n \in Nat /\ last \in Nat /\ b \in Nat
    BY <2>7, RequestFacts
  <2>10. b <= last
    BY <2>1, <2>5, <2>6
  <2>11. p = n /\ n <= b
    BY <2>1, <2>4, <2>6, <2>7, <2>9, <2>10
  <2>12. n = b
    BY <2>7, <2>9, <2>10, <2>11
  <2> QED
    BY <2>1, <2>8, <2>12
<1>2. c \in Nat /\ d \in Nat
  BY CoreFacts
<1> QED
  BY <1>1, <1>2

\* and some core does, when there is anything to score.
LEMMA CleanServed ==
  ASSUME Batch, Total # 0, NEW b \in Requests, blocks[b] = 0
  PROVE  \E c \in Cores : Cleans(c, b)
<1>1. /\ Base(b) \in Nat /\ End(b) = Base(b) /\ End(b) <= Total /\ Total \in Nat
      /\ b \in Nat /\ b < BatchSize /\ BatchSize \in Nat
  BY RequestFacts, SizeAssumption
<1>2. Used \in Nat /\ Used <= NumCores /\ Used # 0 /\ ShareStart(Used) = Total /\ NumCores \in Nat
  BY ShareFacts, SizeAssumption
<1>3. ASSUME NEW c \in Cores, c < Used, ShareStart(c) <= Base(b),
             Base(b) < ShareEnd(c) \/ ShareEnd(c) = Total
      PROVE  Cleans(c, b)
  <2> DEFINE last == RowOf(ShareEnd(c) - 1)
  <2>1. split[c].bN2Start <= b
    BY <1>3, RowsBehind
  <2>2. /\ last \in Requests /\ ShareEnd(c) <= End(last)
        /\ split[c].bN2End \in Requests
        /\ ShareEnd(c) = Total => split[c].bN2End = BatchSize - 1
        /\ ShareEnd(c) # Total => split[c].bN2End = last
    BY <1>3, FinalRow
  <2> HIDE DEF last
  <2>3. last \in Nat /\ End(last) \in Nat /\ ShareEnd(c) \in Nat
    BY <2>2, RequestFacts, CoreFacts
  <2>4. b <= split[c].bN2End
    <3>1. CASE ShareEnd(c) = Total
      BY <1>1, <2>2, <3>1
    <3>2. CASE ShareEnd(c) # Total
      <4>1. last < b => End(last) <= Base(b)
        BY <2>2, RequestsOrdered
      <4> QED
        BY <1>1, <1>3, <2>2, <2>3, <3>2, <4>1
    <3> QED
      BY <3>1, <3>2
  <2> QED
    BY <1>3, <2>1, <2>4 DEF Cleans
<1>4. CASE Base(b) < Total
  <2>1. Base(b) \in 0 .. Total - 1
    BY <1>1, <1>4
  <2> QED
    BY <1>3, <2>1, CoreFound
<1>5. CASE ~ (Base(b) < Total)
  <2>1. Used - 1 \in Cores /\ Used - 1 < Used /\ (Used - 1) + 1 = Used
    BY <1>2 DEF Cores
  <2>2. ShareEnd(Used - 1) = Total
    BY <1>2, <2>1, CoreFacts
  <2>3. ShareStart(Used - 1) \in Nat /\ ShareStart(Used - 1) < Total
    BY <2>1, <2>2, CoreFacts
  <2>4. ShareStart(Used - 1) <= Base(b)
    BY <1>1, <1>5, <2>3
  <2> QED
    BY <1>3, <2>1, <2>2, <2>4
<1> QED
  BY <1>4, <1>5

\* When there is nothing to score, every request is in the slice of one core.
LEMMA SliceFacts ==
  ASSUME NEW b \in Requests
  PROVE  /\ \E c \in Cores : b \in Slice(c)
         /\ \A c, d \in Cores : b \in Slice(c) /\ b \in Slice(d) => c = d
<1> DEFINE size == (BatchSize + NumCores - 1) \div NumCores
           q == b \div size
<1>1. BatchSize \in Nat \ {0} /\ NumCores \in Nat \ {0} /\ b \in Nat /\ b < BatchSize
  BY SizeAssumption DEF Requests
<1>2. size \in Nat /\ size # 0 /\ BatchSize <= NumCores * size
  <2> DEFINE a == BatchSize + NumCores - 1
             m == NumCores * size
  <2>1. a \in Nat /\ a >= NumCores
    BY <1>1
  <2>2. size \in Nat /\ (a % NumCores) \in 0 .. NumCores - 1 /\ a = m + (a % NumCores)
    BY <1>1, <2>1, Division
  <2>3. size = 0 => m = 0
    BY <1>1
  <2>4. a = BatchSize + NumCores - 1 /\ m \in Int
    BY <1>1, <2>2
  <2> HIDE DEF a, m, size
  <2>5. size # 0
    BY <1>1, <2>1, <2>2, <2>3, <2>4
  <2>6. BatchSize <= m
    BY <1>1, <2>2, <2>4
  <2> QED
    BY <2>2, <2>5, <2>6 DEF m
<1>3. \A c : b \in Slice(c) <=> c * size <= b /\ b < (c + 1) * size
  BY DEF Slice
<1> HIDE DEF size
<1>4. ASSUME NEW c \in Nat, NEW d \in Nat, c < d PROVE (c + 1) * size <= d * size
  <2>1. d - (c + 1) \in Nat
    BY <1>4
  <2>2. (d - (c + 1)) * size >= 0
    BY <1>2, <2>1
  <2>3. (d - (c + 1)) * size = d * size - (c + 1) * size
    BY <1>2
  <2>4. d * size \in Int /\ (c + 1) * size \in Int
    BY <1>2
  <2> QED
    BY <2>2, <2>3, <2>4
<1>5. ASSUME NEW c \in Cores, NEW d \in Cores, b \in Slice(c), b \in Slice(d) PROVE c = d
  <2>1. c \in Nat /\ d \in Nat
    BY DEF Cores
  <2>2. c * size <= b /\ b < (c + 1) * size /\ d * size <= b /\ b < (d + 1) * size
    BY <1>3, <1>5
  <2>3. c * size \in Int /\ d * size \in Int /\ (c + 1) * size \in Int /\ (d + 1) * size \in Int
    BY <1>2, <2>1
  <2>4. ~ (c < d)
    BY <1>1, <1>4, <2>1, <2>2, <2>3
  <2>5. ~ (d < c)
    BY <1>1, <1>4, <2>1, <2>2, <2>3
  <2> QED
    BY <2>1, <2>4, <2>5
<1>6. \E c \in Cores : b \in Slice(c)
  <2> DEFINE m == size * q
             n == q * size
             o == (q + 1) * size
             r == b % size
  <2>1. q \in Nat /\ r \in 0 .. size - 1 /\ b = m + r
    BY <1>1, <1>2, Division
  <2>2. m = n /\ o = n + size /\ n \in Nat
    BY <1>2, <2>1
  <2>3. n <= b /\ b < o
    <3> HIDE DEF m, n, o, r
    <3> QED
      BY <1>1, <1>2, <2>1, <2>2
  <2>4. q < NumCores
    <3> HIDE DEF q
    <3>1. SUFFICES ASSUME ~ (q < NumCores) PROVE FALSE
      OBVIOUS
    <3>2. q = NumCores \/ (NumCores + 1) * size <= q * size
      BY <1>1, <1>4, <2>1, <3>1
    <3>3. (NumCores + 1) * size = NumCores * size + size /\ NumCores * size \in Int
      BY <1>1, <1>2
    <3>4. NumCores * size <= n
      <4>1. CASE q = NumCores
        BY <3>3, <4>1
      <4>2. CASE q # NumCores
        <5> HIDE DEF n
        <5>1. (NumCores + 1) * size <= n
          BY <3>2, <4>2 DEF n
        <5> QED
          BY <1>2, <2>2, <3>3, <5>1
      <4> QED
        BY <4>1, <4>2
    <3> HIDE DEF n, m, o
    <3> QED
      BY <1>1, <1>2, <2>2, <2>3, <3>3, <3>4
  <2>5. q \in Cores
    BY <1>1, <2>1, <2>4 DEF Cores
  <2> QED
    BY <1>3, <2>3, <2>5
<1> QED
  BY <1>5, <1>6-----------------------------------------------------------------------------
(* What a step leaves alone.                                               *)

\* The lengths and the shares, and all that is computed from them.
LEMMA BatchKept ==
  ASSUME UNCHANGED <<blocks, split>>
  PROVE  /\ Batch' = Batch /\ Total' = Total /\ Used' = Used
         /\ \A b : /\ Base(b)' = Base(b) /\ End(b)' = End(b) /\ Whole(b)' = Whole(b)
         /\ \A c : ShareStart(c)' = ShareStart(c) /\ ShareEnd(c)' = ShareEnd(c)
         /\ \A c, b : /\ Lo(c, b)' = Lo(c, b) /\ Hi(c, b)' = Hi(c, b)
                      /\ Has(c, b)' = Has(c, b) /\ Piece(c, b)' = Piece(c, b)
                      /\ Sole(c, b)' = Sole(c, b) /\ Heads(c, b)' = Heads(c, b)
                      /\ Joins(c, b)' = Joins(c, b) /\ Cleans(c, b)' = Cleans(c, b)
<1>1. blocks' = blocks /\ split' = split
  OBVIOUS
<1>2. Bases' = Bases
  BY <1>1 DEF Bases
<1>3. \A b : Base(b)' = Base(b)
  BY <1>2 DEF Base
<1>4. Total' = Total
  BY <1>3 DEF Total
<1>5. Used' = Used
  BY <1>4 DEF Used
<1>6. \A c : Share(c)' = Share(c) /\ ShareStart(c)' = ShareStart(c)
  BY <1>4 DEF Share, ShareStart
<1>7. \A c : ShareEnd(c)' = ShareEnd(c)
  BY <1>6 DEF ShareEnd
<1>8. \A b : End(b)' = End(b) /\ Whole(b)' = Whole(b)
  BY <1>1, <1>3 DEF End, Whole
<1>9. \A g : RowOf(g)' = RowOf(g)
  BY <1>1, <1>3 DEF RowOf
<1>10. \A c, last, g : MustMerge(c, last, g)' = MustMerge(c, last, g)
  BY <1>1, <1>3, <1>6 DEF MustMerge
<1>11. \A c, last : EndRow(c, last)' = EndRow(c, last)
  BY <1>5 DEF EndRow
<1>12. \A c : SplitCore(c)' = SplitCore(c)
  BY <1>3, <1>6, <1>9, <1>10, <1>11 DEF SplitCore
<1>13. Batch' = Batch
  BY <1>1, <1>5, <1>12 DEF Batch
<1>14. \A c, b : Lo(c, b)' = Lo(c, b) /\ Hi(c, b)' = Hi(c, b)
  BY <1>3, <1>6, <1>7, <1>8 DEF Lo, Hi
<1>15. \A c, b : Has(c, b)' = Has(c, b) /\ Piece(c, b)' = Piece(c, b)
  BY <1>3, <1>14 DEF Has, Piece
<1>16. \A c, b : /\ Sole(c, b)' = Sole(c, b) /\ Heads(c, b)' = Heads(c, b)
                 /\ Joins(c, b)' = Joins(c, b)
  BY <1>3, <1>6, <1>7, <1>8, <1>15 DEF Sole, Heads, Joins
<1>17. \A c, b : Cleans(c, b)' = Cleans(c, b)
  BY <1>1, <1>5 DEF Cleans
<1> QED
  BY <1>3, <1>4, <1>5, <1>6, <1>7, <1>8, <1>13, <1>14, <1>15, <1>16, <1>17
\* Where a core is in its share,
LEMMA AtKept ==
  ASSUME UNCHANGED <<blocks, split>>, NEW c, row'[c] = row[c], block'[c] = block[c]
  PROVE  At(c)' = At(c) /\ \A b : Ended(c, b)' = Ended(c, b)
<1>1. At(c)' = At(c)
  BY BatchKept DEF At
<1> QED
  BY <1>1, BatchKept DEF Ended

\* where it is in its share,
LEMMA PositionsKept ==
  ASSUME UNCHANGED <<blocks, split, row, block, first>>, Positions
  PROVE  Positions'
<1>1. \A c : At(c)' = At(c)
  BY AtKept
<1> QED
  BY <1>1, BatchKept DEF Positions

\* what it is merging, as long as it has anything left to score,
LEMMA PartwayKept ==
  ASSUME UNCHANGED <<blocks, split, row, block, first, start, cached>>, Partway,
         \A c \in Cores : c < Used /\ (first[c] \/ row[c] <= split[c].bN2End) => acc'[c] = acc[c]
  PROVE  Partway'
<1>1. \A c : At(c)' = At(c)
  BY AtKept
<1>2. ASSUME NEW c \in Cores, c < Used
      PROVE  /\ first'[c] => acc'[c] = {}
             /\ \A b \in Requests : b = row'[c] /\ b <= split'[c].bN2End /\ Lo(c, b)' < At(c)' =>
                  LET from == Lo(c, b)' - Base(b)'
                      waiting == (block'[c] - from) % MergeBlocks
                  IN  /\ start'[c] = from
                      /\ acc'[c] = from .. block'[c] - waiting - 1
                      /\ waiting > 0 => cached'[c] = block'[c] - waiting .. block'[c] - 1
  <2>1. first'[c] => acc'[c] = {}
    BY <1>2 DEF Partway
  <2>2. \A b : Lo(c, b)' = Lo(c, b) /\ Base(b)' = Base(b)
    BY BatchKept
  <2>3. row[c] <= split[c].bN2End => acc'[c] = acc[c]
    BY <1>2
  <2>4. At(c)' = At(c)
    BY <1>1
  <2> QED
    BY <1>2, <2>1, <2>2, <2>3, <2>4 DEF Partway
<1> QED
  BY <1>2, BatchKept DEF Partway

\* the parts that are kept,
LEMMA PartsKept ==
  ASSUME UNCHANGED <<blocks, split, row, block, head, tail>>, Parts
  PROVE  Parts'
<1>1. \A c, b : Ended(c, b)' = Ended(c, b)
  BY AtKept
<1> QED
  BY <1>1, BatchKept DEF Parts

\* what a walk has merged,
LEMMA WalkingKept ==
  ASSUME UNCHANGED <<blocks, split, walk, acc>>, Walking,
         \A c \in Cores : pc'[c] = "walk" => pc[c] = "walk"
  PROVE  Walking'
<1>1. ASSUME NEW c \in Cores, pc'[c] = "walk"
      PROVE  \E d \in Cores, b \in Requests :
               /\ d = walk'[c] /\ c < d /\ Heads(c, b)' /\ Joins(d, b)'
               /\ acc'[c] = 0 .. ShareStart(d)' - Base(b)' - 1
  <2>1. PICK d \in Cores, b \in Requests :
          /\ d = walk[c] /\ c < d /\ Heads(c, b) /\ Joins(d, b)
          /\ acc[c] = 0 .. ShareStart(d) - Base(b) - 1
    BY <1>1 DEF Walking
  <2>2. /\ Heads(c, b)' = Heads(c, b) /\ Joins(d, b)' = Joins(d, b)
        /\ ShareStart(d)' = ShareStart(d) /\ Base(b)' = Base(b)
    BY BatchKept
  <2> QED
    BY <2>1, <2>2
<1> QED
  BY <1>1 DEF Walking

\* what has been answered,
LEMMA AnsweredKept ==
  ASSUME UNCHANGED <<blocks, split, row, block, answer, answers, cleaned>>, Answered,
         \A c \in Cores : pc'[c] \in Published <=> pc[c] \in Published
  PROVE  Answered'
<1>1. \A c, b : Ended(c, b)' = Ended(c, b)
  BY AtKept
<1>2. \A c : Slice(c)' = Slice(c)
  BY DEF Slice
<1> QED
  BY <1>1, <1>2, BatchKept DEF Answered

\* and the scores.
LEMMA ScoredKept ==
  ASSUME UNCHANGED <<blocks, split, row, block, scored>>, Scored
  PROVE  Scored'
<1>1. \A c : At(c)' = At(c)
  BY AtKept
<1> QED
  BY <1>1, BatchKept DEF Scored-----------------------------------------------------------------------------
(* The steps before and after the main loop.                               *)

\* A core is within its share; it has ended every part once it is past its rows.
LEMMA AtFacts ==
  ASSUME Batch, Types, Positions, NEW c \in Cores, c < Used
  PROVE  /\ At(c) \in Nat /\ ShareStart(c) <= At(c) /\ At(c) <= ShareEnd(c)
         /\ ShareStart(c) < ShareEnd(c) /\ ShareStart(c) \in Nat /\ ShareEnd(c) \in Nat
         /\ row[c] \in Nat /\ block[c] \in Nat
         /\ row[c] > split[c].bN2End => /\ At(c) = ShareEnd(c) /\ ~first[c]
                                        /\ \A b \in Requests : Has(c, b) => Ended(c, b)
<1>1. ShareStart(c) \in Nat /\ ShareEnd(c) \in Nat /\ ShareStart(c) < ShareEnd(c)
  BY CoreFacts
<1>2. row[c] \in Nat /\ block[c] \in Nat
  BY DEF Types
<1>3. /\ split[c].bN2Start \in Nat /\ split[c].bN2End \in Nat /\ split[c].bN2End \in Requests
      /\ split[c].bN2End < BatchSize /\ BatchSize \in Nat
  BY RowFacts, RequestFacts, SizeAssumption
<1>4. CASE row[c] <= split[c].bN2End
  <2>1. row[c] \in Requests
    BY <1>2, <1>3, <1>4 DEF Requests
  <2>2. Base(row[c]) \in Nat
    BY <2>1, RequestFacts
  <2>3. At(c) = Base(row[c]) + block[c]
    BY <1>4 DEF At
  <2>4. ShareStart(c) <= At(c) /\ At(c) <= ShareEnd(c)
    BY <1>4 DEF Positions
  <2>5. ~ (row[c] > split[c].bN2End)
    BY <1>2, <1>3, <1>4
  <2> QED
    BY <1>1, <1>2, <2>2, <2>3, <2>4, <2>5
<1>5. CASE ~ (row[c] <= split[c].bN2End)
  <2>1. At(c) = ShareEnd(c)
    BY <1>5 DEF At
  <2>2. ~first[c]
    <3>1. first[c] <=> At(c) = ShareStart(c)
      BY DEF Positions
    <3> QED
      BY <1>1, <2>1, <3>1
  <2>3. \A b \in Requests : Has(c, b) => Ended(c, b)
    BY <2>1, PartFacts DEF Ended
  <2> QED
    BY <1>1, <1>2, <2>1, <2>2, <2>3
<1> QED
  BY <1>4, <1>5

\* A core past its main loop has ended all its requests.
LEMMA PastFacts ==
  ASSUME SplitInv, NEW c \in Cores, c < Used, pc[c] \notin Before
  PROVE  /\ At(c) = ShareEnd(c) /\ ~first[c] /\ row[c] > split[c].bN2End
         /\ ~ (row[c] <= split[c].bN2End)
         /\ \A b \in Requests : Has(c, b) => Ended(c, b)
<1>1. row[c] > split[c].bN2End
  BY DEF SplitInv, Places
<1>2. split[c].bN2End \in Nat /\ row[c] \in Nat
  BY RowFacts DEF SplitInv, Types
<1> QED
  BY <1>1, <1>2, AtFacts DEF SplitInv

\* A core that has scored nothing has ended nothing.
LEMMA InitBuffersKeeps ==
  ASSUME SplitInv, NEW c \in Cores, InitBuffers(c)
  PROVE  SplitInv'
<1>1. /\ pc[c] = "init" /\ pc' = [pc EXCEPT ![c] = Entry(c)]
      /\ head' = [head EXCEPT ![c].needFd = FALSE]
      /\ tail' = [tail EXCEPT ![c].needFd = FALSE]
      /\ UNCHANGED <<blocks, split, row, block, first, start, cached, acc, walk,
                     scored, answer, answers, cleaned, united>>
  BY DEF InitBuffers, ClearParts, Goto, scoring, outputs
<1>2. Batch /\ Types /\ Places /\ Positions /\ Partway /\ Parts /\ Walking /\ Answered /\ Scored
  BY DEF SplitInv
<1>3. Entry(c) = IF Total = 0 THEN "invalid" ELSE IF c < Used THEN "main" ELSE "sync"
  BY DEF Entry
<1>4. /\ pc'[c] = Entry(c) /\ \A d \in Cores : d # c => pc'[d] = pc[d]
      /\ Entry(c) \in {"invalid", "main", "sync"}
  BY <1>1, <1>2, <1>3 DEF Types
<1>5. Used \in Nat /\ (Used = 0 <=> Total = 0) /\ c \in Nat
  BY <1>2, ShareFacts, CoreFacts
<1>6. Types'
  BY <1>1, <1>2, <1>4 DEF Types, Before
<1>7. Places'
  <2>1. Total' = Total /\ Used' = Used
    BY <1>1, BatchKept
  <2>2. \A d \in Cores :
          /\ pc'[d] = "main" => d < Used
          /\ pc'[d] \in {"sync", "merge", "walk"} => Total # 0
          /\ pc'[d] = "invalid" => Total = 0
          /\ pc'[d] = "init" => first[d] /\ row[d] = split[d].bN2Start
          /\ d < Used /\ pc'[d] \notin Before => row[d] > split[d].bN2End
    <3>1. ASSUME NEW d \in Cores, d # c
          PROVE  /\ pc'[d] = "main" => d < Used
                 /\ pc'[d] \in {"sync", "merge", "walk"} => Total # 0
                 /\ pc'[d] = "invalid" => Total = 0
                 /\ pc'[d] = "init" => first[d] /\ row[d] = split[d].bN2Start
                 /\ d < Used /\ pc'[d] \notin Before => row[d] > split[d].bN2End
      BY <1>2, <1>4, <3>1 DEF Places
    <3>2. /\ pc'[c] = "main" => c < Used
          /\ pc'[c] \in {"sync", "merge", "walk"} => Total # 0
          /\ pc'[c] = "invalid" => Total = 0
          /\ pc'[c] = "init" => first[c] /\ row[c] = split[c].bN2Start
          /\ c < Used /\ pc'[c] \notin Before => row[c] > split[c].bN2End
      BY <1>3, <1>4, <1>5 DEF Before
    <3> QED
      BY <3>1, <3>2
  <2>3. pc[c] \notin Merging /\ pc'[c] \notin Merging /\ pc[c] \notin Last /\ pc'[c] \notin Last
    BY <1>1, <1>4 DEF Merging, Last
  <2>4. \A d \in Cores : pc[d] \in Merging => Total = 0
    BY <1>2, <2>3 DEF Places
  <2>5. \A d \in Cores : pc[d] \notin Last
    BY <1>2, <2>3 DEF Places
  <2>6. \A d \in Cores : pc'[d] \in Merging => Total = 0
    BY <1>4, <2>3, <2>4
  <2>7. \A d \in Cores : pc'[d] \notin Last
    BY <1>4, <2>3, <2>5
  <2>8. united = {}
    BY <1>2, <2>3 DEF Places
  <2> QED
    BY <1>1, <2>1, <2>2, <2>6, <2>7, <2>8 DEF Places
<1>8. Parts'
  <2>1. ASSUME NEW b \in Requests PROVE ~Ended(c, b)
    <3>1. SUFFICES ASSUME Has(c, b) PROVE ~ (Hi(c, b) <= At(c))
      BY DEF Ended
    <3>2. c < Used /\ ShareStart(c) <= Lo(c, b) /\ Lo(c, b) < Hi(c, b)
          /\ Lo(c, b) \in Nat /\ Hi(c, b) \in Nat
      BY <1>2, <3>1, PartFacts DEF Has
    <3>3. first[c] /\ At(c) = ShareStart(c)
      BY <1>1, <1>2, <3>2 DEF Places, Positions
    <3>4. At(c) \in Nat
      BY <1>2, <3>2, AtFacts
    <3> QED
      BY <3>2, <3>3, <3>4
  <2>2. \A d, b : Ended(d, b)' = Ended(d, b)
    BY <1>1, AtKept
  <2>3. \A d \in Cores : d # c => head'[d] = head[d] /\ tail'[d] = tail[d]
    BY <1>1, <1>2 DEF Types
  <2> QED
    BY <1>1, <1>2, <2>1, <2>2, <2>3, BatchKept DEF Parts
<1>9. \A d \in Cores : pc'[d] = "walk" => pc[d] = "walk"
  BY <1>4
<1>10. \A d \in Cores : pc'[d] \in Published <=> pc[d] \in Published
  BY <1>1, <1>4 DEF Published
<1>11. Batch' /\ Positions' /\ Partway'
  BY <1>1, <1>2, BatchKept, PositionsKept, PartwayKept
<1>12. Walking'
  BY <1>1, <1>2, <1>9, WalkingKept
<1>13. Answered' /\ Scored'
  BY <1>1, <1>2, <1>10, AnsweredKept, ScoredKept
<1> QED
  BY <1>6, <1>7, <1>8, <1>11, <1>12, <1>13 DEF SplitInv
\* With nothing to score, a core cleans its slice and no other core does.
LEMMA ProcessInvalidKeeps ==
  ASSUME SplitInv, NEW c \in Cores, ProcessInvalid(c)
  PROVE  SplitInv'
<1>1. /\ pc[c] = "invalid" /\ pc' = [pc EXCEPT ![c] = "publish"]
      /\ cleaned' = [b \in Requests |-> cleaned[b] + (IF b \in Slice(c) THEN 1 ELSE 0)]
      /\ UNCHANGED <<blocks, split, row, block, first, start, cached, acc, head, tail, walk,
                     scored, answer, answers, united>>
  BY DEF ProcessInvalid, Goto, scoring
<1>2. Batch /\ Types /\ Places /\ Positions /\ Partway /\ Parts /\ Walking /\ Answered /\ Scored
  BY DEF SplitInv
<1>3. pc'[c] = "publish" /\ \A d \in Cores : d # c => pc'[d] = pc[d]
  BY <1>1, <1>2 DEF Types
<1>4. Total = 0 /\ Used = 0
  BY <1>1, <1>2, ShareFacts DEF Places
<1>5. \A d \in Cores : d \in Nat /\ ~ (d < Used)
  BY <1>2, <1>4, CoreFacts
<1>6. \A b \in Requests : blocks[b] = 0
  <2>1. ASSUME NEW b \in Requests PROVE blocks[b] = 0
    <3>1. /\ Base(b) \in Nat /\ End(b) \in Nat /\ Base(b) <= End(b) /\ End(b) <= Total
          /\ blocks[b] = End(b) - Base(b)
      BY <1>2, RequestFacts
    <3> QED
      BY <1>4, <3>1
  <2> QED
    BY <2>1
<1>7. \A b \in Requests : b \in Slice(c) => cleaned[b] = 0 /\ cleaned'[b] = 1
  <2>1. ASSUME NEW b \in Requests, b \in Slice(c) PROVE cleaned[b] = 0 /\ cleaned'[b] = 1
    <3>1. pc[c] \notin Published
      BY <1>1 DEF Published
    <3>2. cleaned[b] # 1
      BY <1>2, <1>4, <2>1, <3>1 DEF Answered
    <3>3. cleaned[b] \in 0 .. 1
      BY <1>2 DEF Types
    <3>4. cleaned'[b] = cleaned[b] + 1
      BY <1>1, <2>1
    <3> QED
      BY <3>2, <3>3, <3>4
  <2> QED
    BY <2>1
<1>8. \A b \in Requests : b \notin Slice(c) => cleaned'[b] = cleaned[b]
  <2>1. ASSUME NEW b \in Requests, b \notin Slice(c) PROVE cleaned'[b] = cleaned[b]
    <3>1. cleaned[b] \in 0 .. 1
      BY <1>2 DEF Types
    <3>2. cleaned'[b] = cleaned[b] + 0
      BY <1>1, <2>1
    <3> QED
      BY <3>1, <3>2
  <2> QED
    BY <2>1
<1>9. Types'
  <2>1. cleaned' \in [Requests -> 0 .. 1]
    <3>1. \A b \in Requests : cleaned[b] \in 0 .. 1
      BY <1>2 DEF Types
    <3>2. \A b \in Requests : cleaned'[b] \in 0 .. 1
      BY <1>7, <1>8, <3>1
    <3> QED
      BY <1>1, <3>2
  <2> QED
    BY <1>1, <1>2, <2>1 DEF Types, Merging
<1>10. Places'
  <2>1. Total' = Total /\ Used' = Used
    BY <1>1, BatchKept
  <2>2. pc[c] \notin Last /\ pc'[c] \notin Last
    BY <1>1, <1>3 DEF Last
  <2>3. (\A d \in Cores : pc[d] \notin Last) /\ united = {}
    BY <1>2, <2>2 DEF Places
  <2>4. \A d \in Cores : pc'[d] \notin Last
    BY <1>3, <2>2, <2>3
  <2>5. \A d \in Cores : /\ pc'[d] # "main" /\ pc'[d] \notin {"sync", "merge", "walk"}
                         /\ pc'[d] = "init" => first[d] /\ row[d] = split[d].bN2Start
    BY <1>2, <1>3, <1>4, <1>5 DEF Places
  <2> QED
    BY <1>1, <1>4, <1>5, <2>1, <2>3, <2>4, <2>5 DEF Places
<1>11. Answered'
  <2>1. \A d, b : Ended(d, b)' = Ended(d, b)
    BY <1>1, AtKept
  <2>2. \A d \in Cores, b \in Requests : ~Sole(d, b) /\ ~Heads(d, b) /\ ~Cleans(d, b)
    BY <1>2, <1>5, PartFacts DEF Sole, Heads, Cleans
  <2>3. \A d \in Cores, b \in Requests :
          b \in Slice(d) => (cleaned'[b] = 1 <=> pc'[d] \in Published)
    <3>1. ASSUME NEW d \in Cores, NEW b \in Requests, b \in Slice(d)
          PROVE  cleaned'[b] = 1 <=> pc'[d] \in Published
      <4>1. CASE d = c
        BY <1>3, <1>7, <3>1, <4>1 DEF Published
      <4>2. CASE d # c
        <5>1. b \notin Slice(c)
          BY <3>1, <4>2, SliceFacts
        <5>2. cleaned[b] = 1 <=> pc[d] \in Published
          BY <1>2, <1>4, <3>1 DEF Answered
        <5> QED
          BY <1>3, <1>8, <4>2, <5>1, <5>2
      <4> QED
        BY <4>1, <4>2
    <3> QED
      BY <3>1
  <2>4. \A d \in Cores : Slice(d)' = Slice(d)
    BY DEF Slice
  <2>5. \A b \in Requests : Whole(b)' = Whole(b) /\ (answers[b] = 1 => answer[b] = Whole(b))
                            /\ answers[b] = 0
    BY <1>1, <1>2, <1>6, BatchKept DEF Answered
  <2>6. \A d \in Cores, b \in Requests : ~Sole(d, b)' /\ ~Heads(d, b)' /\ ~Cleans(d, b)'
    BY <1>1, <2>2, BatchKept
  <2> QED
    BY <1>1, <1>6, <2>3, <2>4, <2>5, <2>6 DEF Answered
<1>12. \A d \in Cores : pc'[d] = "walk" => pc[d] = "walk"
  BY <1>3
<1>13. Batch' /\ Positions' /\ Partway' /\ Parts' /\ Scored'
  BY <1>1, <1>2, BatchKept, PositionsKept, PartwayKept, PartsKept, ScoredKept
<1>14. Walking'
  BY <1>1, <1>2, <1>12, WalkingKept
<1> QED
  BY <1>9, <1>10, <1>11, <1>13, <1>14 DEF SplitInv

\* A core leaves the main loop behind its last row.
LEMMA EndMainKeeps ==
  ASSUME SplitInv, NEW c \in Cores, EndMain(c)
  PROVE  SplitInv'
<1>1. /\ pc[c] = "main" /\ pc' = [pc EXCEPT ![c] = "sync"] /\ row[c] > split[c].bN2End
      /\ UNCHANGED <<blocks, split, row, block, first, start, cached, acc, head, tail, walk,
                     scored, answer, answers, cleaned, united>>
  BY DEF EndMain, Goto, scoring, outputs
<1>2. Batch /\ Types /\ Places /\ Positions /\ Partway /\ Parts /\ Walking /\ Answered /\ Scored
  BY DEF SplitInv
<1>3. pc'[c] = "sync" /\ \A d \in Cores : d # c => pc'[d] = pc[d]
  BY <1>1, <1>2 DEF Types
<1>4. Total # 0
  <2>1. c < Used /\ c \in Nat
    BY <1>1, <1>2, CoreFacts DEF Places
  <2> QED
    BY <1>2, <2>1, ShareFacts
<1>5. Types'
  BY <1>1, <1>2 DEF Types
<1>6. Places'
  <2>1. Total' = Total /\ Used' = Used
    BY <1>1, BatchKept
  <2>2. \A d \in Cores :
          /\ pc'[d] = "main" => d < Used
          /\ pc'[d] \in {"sync", "merge", "walk"} => Total # 0
          /\ pc'[d] = "invalid" => Total = 0
          /\ pc'[d] = "init" => first[d] /\ row[d] = split[d].bN2Start
          /\ d < Used /\ pc'[d] \notin Before => row[d] > split[d].bN2End
    BY <1>1, <1>2, <1>3, <1>4 DEF Places
  <2>3. pc[c] \notin Merging /\ pc'[c] \notin Merging /\ pc[c] \notin Last /\ pc'[c] \notin Last
    BY <1>1, <1>3 DEF Merging, Last
  <2>4. (\A d \in Cores : pc[d] \notin Merging) /\ (\A d \in Cores : pc[d] \notin Last) /\ united = {}
    BY <1>2, <1>4, <2>3 DEF Places
  <2>5. (\A d \in Cores : pc'[d] \notin Merging) /\ (\A d \in Cores : pc'[d] \notin Last)
    BY <1>3, <2>3, <2>4
  <2> QED
    BY <1>1, <2>1, <2>2, <2>4, <2>5 DEF Places
<1>7. /\ \A d \in Cores : pc'[d] = "walk" => pc[d] = "walk"
      /\ \A d \in Cores : pc'[d] \in Published <=> pc[d] \in Published
  BY <1>1, <1>3 DEF Published
<1>8. Batch' /\ Positions' /\ Partway' /\ Parts' /\ Scored'
  BY <1>1, <1>2, BatchKept, PositionsKept, PartwayKept, PartsKept, ScoredKept
<1>9. Walking' /\ Answered'
  BY <1>1, <1>2, <1>7, WalkingKept, AnsweredKept
<1> QED
  BY <1>5, <1>6, <1>8, <1>9 DEF SplitInv

\* Behind a barrier every core is at the same place.
LEMMA BarrierKeeps ==
  ASSUME SplitInv, NEW from, NEW to, Barrier(from, to),
         (from = "sync" /\ to = "merge") \/ (from = "publish" /\ to = "union")
  PROVE  SplitInv'
<1>1. /\ \A c \in Cores : pc[c] = from
      /\ pc' = [c \in Cores |-> to]
      /\ UNCHANGED <<blocks, split, row, block, first, start, cached, acc, head, tail, walk,
                     scored, answer, answers, cleaned, united>>
  BY DEF Barrier, scoring, outputs
<1>2. Batch /\ Types /\ Places /\ Positions /\ Partway /\ Parts /\ Walking /\ Answered /\ Scored
  BY DEF SplitInv
<1>3. \A c \in Cores : pc'[c] = to /\ pc[c] = from
  BY <1>1
<1>4. /\ \A c \in Cores : pc'[c] # "walk"
      /\ \A c \in Cores : pc'[c] \in Published <=> pc[c] \in Published
  BY <1>3 DEF Published
<1>5. Types'
  BY <1>1, <1>2 DEF Types, Merging
<1>6. Places'
  <2>1. Total' = Total /\ Used' = Used
    BY <1>1, BatchKept
  <2>2. \A c \in Cores :
          /\ pc'[c] = "main" => c < Used
          /\ pc'[c] \in {"sync", "merge", "walk"} => Total # 0
          /\ pc'[c] = "invalid" => Total = 0
          /\ pc'[c] = "init" => first[c] /\ row[c] = split[c].bN2Start
          /\ c < Used /\ pc'[c] \notin Before => row[c] > split[c].bN2End
    BY <1>2, <1>3 DEF Places, Before
  <2>3. /\ \A c, d \in Cores : pc'[c] \in Merging => pc'[d] \in Merging
        /\ \A c, d \in Cores : pc'[c] \in Last => pc'[d] \in Last
    BY <1>3
  <2>4. united = {}
    <3>1. united # {} => FALSE
      <4>1. 0 \in Cores
        BY SizeAssumption DEF Cores
      <4>2. pc[0] \notin Last
        BY <1>3, <4>1 DEF Last
      <4> QED
        BY <1>2, <4>1, <4>2 DEF Places
    <3> QED
      BY <3>1
  <2> QED
    BY <1>1, <2>1, <2>2, <2>3, <2>4 DEF Places
<1>7. Batch' /\ Positions' /\ Partway' /\ Parts' /\ Scored'
  BY <1>1, <1>2, BatchKept, PositionsKept, PartwayKept, PartsKept, ScoredKept
<1>8. Walking' /\ Answered'
  BY <1>1, <1>2, <1>4, WalkingKept, AnsweredKept
<1> QED
  BY <1>5, <1>6, <1>7, <1>8 DEF SplitInv

\* The union comes behind everything the properties are about.
LEMMA UnionKeeps ==
  ASSUME SplitInv, NEW c \in Cores, Union(c)
  PROVE  SplitInv'
<1> DEFINE todo == {b \in Requests : b % NumCores = c} \ united
<1>1. /\ pc[c] = "union"
      /\ UNCHANGED <<blocks, split, row, block, first, start, cached, acc, head, tail, walk,
                     scored, answer, answers, cleaned>>
      /\ IF todo = {} THEN pc' = [pc EXCEPT ![c] = "done"] /\ united' = united
         ELSE /\ united' = united \cup {CHOOSE b \in todo : \A a \in todo : b <= a}
              /\ pc' = pc
  BY DEF Union, Goto, scoring, outputs
<1>2. Batch /\ Types /\ Places /\ Positions /\ Partway /\ Parts /\ Walking /\ Answered /\ Scored
  BY DEF SplitInv
<1>3. pc'[c] \in {"union", "done"} /\ \A d \in Cores : d # c => pc'[d] = pc[d]
  BY <1>1, <1>2 DEF Types
<1>4. \A d \in Cores : pc[d] \in Last
  BY <1>1, <1>2 DEF Places, Last
<1>5. \A d \in Cores : pc'[d] \in Last
  BY <1>3, <1>4 DEF Last
<1>6. united' \subseteq Requests
  <2>1. CASE todo = {}
    BY <1>1, <1>2, <2>1 DEF Types
  <2>2. CASE todo # {}
    <3>1. todo \in SUBSET Nat /\ todo \subseteq Requests
      BY DEF Requests
    <3>2. \E b \in todo : \A a \in todo : b <= a
      BY <2>2, <3>1, LeastNat
    <3> HIDE DEF todo
    <3>3. (CHOOSE b \in todo : \A a \in todo : b <= a) \in todo
      BY <3>2
    <3> QED
      BY <1>1, <1>2, <2>2, <3>1, <3>3 DEF Types
  <2> QED
    BY <2>1, <2>2
<1> HIDE DEF todo
<1>7. Types'
  <2>1. pc' \in [Cores -> Before \cup Merging \cup {"invalid", "sync"}]
    BY <1>1, <1>2 DEF Types, Merging
  <2> QED
    BY <1>1, <1>2, <1>6, <2>1 DEF Types
<1>8. Places'
  <2>1. Total' = Total /\ Used' = Used
    BY <1>1, BatchKept
  <2>2. \A d \in Cores : /\ pc'[d] \notin Before /\ pc[d] \notin Before /\ pc'[d] \in Merging
                         /\ pc'[d] \notin {"main", "init", "invalid", "sync", "merge", "walk"}
    BY <1>4, <1>5 DEF Last, Before, Merging
  <2>3. \A d \in Cores : d < Used => row[d] > split[d].bN2End
    BY <1>2, <2>2 DEF Places
  <2> QED
    BY <1>1, <1>5, <2>1, <2>2, <2>3 DEF Places
<1>9. /\ \A d \in Cores : pc'[d] # "walk"
      /\ \A d \in Cores : pc'[d] \in Published <=> pc[d] \in Published
  BY <1>4, <1>5 DEF Published, Last
<1>10. Batch' /\ Positions' /\ Partway' /\ Parts' /\ Scored'
  BY <1>1, <1>2, BatchKept, PositionsKept, PartwayKept, PartsKept, ScoredKept
<1>11. Walking' /\ Answered'
  BY <1>1, <1>2, <1>9, WalkingKept, AnsweredKept
<1> QED
  BY <1>7, <1>8, <1>10, <1>11 DEF SplitInv
\* Where a core that has come to the merge stands in Places, whatever it does next.
LEMMA MergePlaces ==
  ASSUME SplitInv, NEW c \in Cores, pc[c] \in {"merge", "walk"}, UNCHANGED <<blocks, split, row, first, united>>,
         NEW to \in {"walk", "publish"}, pc' = [pc EXCEPT ![c] = to] \/ pc' = pc
  PROVE  Places'
<1>1. Places /\ Types
  BY DEF SplitInv
<1>2. Total' = Total /\ Used' = Used
  BY BatchKept
<1>3. /\ pc'[c] \in {"merge", "walk", "publish"} /\ pc'[c] \in Merging /\ pc'[c] \notin Last
      /\ pc'[c] \notin Before /\ pc'[c] \notin {"main", "init", "invalid"}
      /\ pc[c] \notin Before /\ pc[c] \notin Last /\ pc[c] \in Merging
      /\ \A d \in Cores : d # c => pc'[d] = pc[d]
  BY <1>1 DEF Types, Merging, Last, Before
<1>4. Total # 0
  BY <1>1 DEF Places
<1>5. \A d \in Cores :
        /\ pc'[d] = "main" => d < Used
        /\ pc'[d] \in {"sync", "merge", "walk"} => Total # 0
        /\ pc'[d] = "invalid" => Total = 0
        /\ pc'[d] = "init" => first[d] /\ row[d] = split[d].bN2Start
        /\ d < Used /\ pc'[d] \notin Before => row[d] > split[d].bN2End
  BY <1>1, <1>3, <1>4 DEF Places
<1>6. (\A d \in Cores : pc[d] \in Merging) /\ (\A d \in Cores : pc[d] \notin Last) /\ united = {}
  BY <1>1, <1>3, <1>4 DEF Places
<1>7. (\A d \in Cores : pc'[d] \in Merging) /\ (\A d \in Cores : pc'[d] \notin Last)
  BY <1>3, <1>6
<1> QED
  BY <1>2, <1>5, <1>6, <1>7 DEF Places

\* By then every part of the batch is in its place.
LEMMA MergeFacts ==
  ASSUME SplitInv, NEW c \in Cores, pc[c] \in {"merge", "walk"}
  PROVE  \A d \in Cores : /\ pc[d] \notin Before
                          /\ d < Used => ~first[d] /\ ~ (row[d] <= split[d].bN2End)
                          /\ \A b \in Requests : Has(d, b) => Ended(d, b)
<1>1. Total # 0 /\ pc[c] \in Merging
  BY DEF SplitInv, Places, Merging
<1>2. \A d \in Cores : pc[d] \notin Before
  BY <1>1 DEF SplitInv, Places, Merging, Before
<1>3. \A d \in Cores, b \in Requests : Has(d, b) => d < Used
  BY PartFacts DEF SplitInv
<1> QED
  BY <1>2, <1>3, PastFacts

\* A core with the head of a request has kept it, and sets out to the next core,
\* which has the part that follows.
LEMMA BeginMergeKeeps ==
  ASSUME SplitInv, NEW c \in Cores, BeginMerge(c)
  PROVE  SplitInv'
<1>1. /\ pc[c] = "merge"
      /\ UNCHANGED <<blocks, split, row, block, first, start, cached, head, tail,
                     scored, answer, answers, cleaned, united>>
      /\ IF split[c].isLD /\ tail[c].needFd
           THEN /\ pc' = [pc EXCEPT ![c] = "walk"]
                /\ acc' = [acc EXCEPT ![c] = tail[c].res]
                /\ walk' = [walk EXCEPT ![c] = c + 1]
           ELSE pc' = [pc EXCEPT ![c] = "publish"] /\ UNCHANGED <<acc, walk>>
  BY DEF BeginMerge, Goto, scoring, outputs
<1>2. Batch /\ Types /\ Places /\ Positions /\ Partway /\ Parts /\ Walking /\ Answered /\ Scored
  BY DEF SplitInv
<1>3. \A d \in Cores : d # c => pc'[d] = pc[d] /\ acc'[d] = acc[d] /\ walk'[d] = walk[d]
  BY <1>1, <1>2 DEF Types
<1>4. /\ \A d \in Cores : d < Used => ~first[d] /\ ~ (row[d] <= split[d].bN2End)
      /\ \A d \in Cores, b \in Requests : Has(d, b) => Ended(d, b)
  BY <1>1, MergeFacts
<1>5. Places'
  BY <1>1, MergePlaces
<1>6. Types'
  BY <1>1, <1>2 DEF Types, Merging
<1>7. Partway'
  BY <1>1, <1>2, <1>4, PartwayKept
<1>8. Batch' /\ Positions' /\ Parts' /\ Scored'
  BY <1>1, <1>2, BatchKept, PositionsKept, PartsKept, ScoredKept
<1>9. CASE split[c].isLD /\ tail[c].needFd
  <2>1. /\ pc'[c] = "walk" /\ acc'[c] = tail[c].res /\ walk'[c] = c + 1
    BY <1>1, <1>2, <1>9 DEF Types
  <2>2. c < Used
    BY <1>2, <1>9 DEF Batch, NoWork
  <2>3. PICK b \in Requests : Heads(c, b)
    BY <1>2, <1>9, <2>2, LastFacts
  <2>4. Has(c, b) /\ ShareEnd(c) < End(b)
    BY <2>3 DEF Heads
  <2>5. tail[c].res = Piece(c, b)
    BY <1>2, <1>4, <2>3, <2>4 DEF Parts
  <2>6. c + 1 \in Cores /\ Joins(c + 1, b) /\ ShareEnd(c) = ShareStart(c + 1)
    BY <1>2, <2>4, NextJoins
  <2>7. Piece(c, b) = 0 .. ShareStart(c + 1) - Base(b) - 1
    <3>1. Lo(c, b) = Base(b) /\ Hi(c, b) = ShareEnd(c) /\ Base(b) \in Nat
      BY <1>2, <2>3, PartSides, RequestFacts
    <3>2. Lo(c, b) - Base(b) = 0 /\ Hi(c, b) - Base(b) - 1 = ShareStart(c + 1) - Base(b) - 1
      BY <2>6, <3>1
    <3> QED
      BY <3>2 DEF Piece
  <2>8. ASSUME NEW d \in Cores, pc'[d] = "walk"
        PROVE  \E e \in Cores, a \in Requests :
                 /\ e = walk'[d] /\ d < e /\ Heads(d, a)' /\ Joins(e, a)'
                 /\ acc'[d] = 0 .. ShareStart(e)' - Base(a)' - 1
    <3>1. \A e, a : /\ Heads(e, a)' = Heads(e, a) /\ Joins(e, a)' = Joins(e, a)
                    /\ ShareStart(e)' = ShareStart(e) /\ Base(a)' = Base(a)
      BY <1>1, BatchKept
    <3>2. CASE d = c
      <4>1. c < c + 1
        BY <1>2, CoreFacts
      <4>2. acc'[c] = 0 .. ShareStart(c + 1) - Base(b) - 1
        BY <2>1, <2>5, <2>7
      <4>3. Heads(c, b)' /\ Joins(c + 1, b)'
        BY <2>3, <2>6, <3>1
      <4>4. acc'[c] = 0 .. ShareStart(c + 1)' - Base(b)' - 1
        BY <3>1, <4>2
      <4> DEFINE e == c + 1
      <4>5. e \in Cores /\ e = walk'[c] /\ c < e /\ Joins(e, b)'
            /\ acc'[c] = 0 .. ShareStart(e)' - Base(b)' - 1
        BY <2>1, <2>6, <4>1, <4>3, <4>4
      <4> HIDE DEF e
      <4> QED
        BY <3>2, <4>3, <4>5
    <3>3. CASE d # c
      <4>1. PICK e \in Cores, a \in Requests :
              /\ e = walk[d] /\ d < e /\ Heads(d, a) /\ Joins(e, a)
              /\ acc[d] = 0 .. ShareStart(e) - Base(a) - 1
        BY <1>2, <1>3, <2>8, <3>3 DEF Walking
      <4> QED
        BY <1>3, <3>1, <3>3, <4>1
    <3> QED
      BY <3>2, <3>3
  <2>9. Walking'
    BY <2>8 DEF Walking
  <2>10. \A d \in Cores : pc'[d] \in Published <=> pc[d] \in Published
    BY <1>1, <1>3, <2>1 DEF Published
  <2>11. Answered'
    BY <1>1, <1>2, <2>10, AnsweredKept
  <2> QED
    BY <1>5, <1>6, <1>7, <1>8, <2>9, <2>11 DEF SplitInv
<1>10. CASE ~ (split[c].isLD /\ tail[c].needFd)
  <2>1. pc'[c] = "publish" /\ UNCHANGED <<acc, walk>>
    BY <1>1, <1>2, <1>10 DEF Types
  <2>2. \A b \in Requests : ~Heads(c, b)
    <3>1. ASSUME NEW b \in Requests, Heads(c, b) PROVE FALSE
      <4>1. Has(c, b) /\ c < Used
        BY <1>2, <3>1, PartFacts DEF Heads
      <4>2. split[c].isLD
        BY <1>2, <3>1, <4>1, LastFacts
      <4>3. tail[c].needFd
        BY <1>2, <1>4, <3>1, <4>1 DEF Parts
      <4> QED
        BY <1>10, <4>2, <4>3
    <3> QED
      BY <3>1
  <2>3. Walking'
    <3>1. \A d \in Cores : pc'[d] = "walk" => pc[d] = "walk"
      BY <1>3, <2>1
    <3> QED
      BY <1>1, <1>2, <2>1, <3>1, WalkingKept
  <2>4. Answered'
    <3>1. \A d, b : Ended(d, b)' = Ended(d, b)
      BY <1>1, AtKept
    <3>2. \A d \in Cores : Slice(d)' = Slice(d)
      BY DEF Slice
    <3>3. Total # 0 /\ Total' = Total
      BY <1>1, <1>2, BatchKept DEF Places
    <3>4. \A d \in Cores, b \in Requests :
            Heads(d, b) => (answers[b] = 1 <=> pc'[d] \in Published)
      BY <1>2, <1>3, <2>2 DEF Answered
    <3> QED
      BY <1>1, <1>2, <3>1, <3>2, <3>3, <3>4, BatchKept DEF Answered
  <2> QED
    BY <1>5, <1>6, <1>7, <1>8, <2>3, <2>4 DEF SplitInv
<1> QED
  BY <1>9, <1>10
\* The walk merges the parts in order, and the part that ends the sequence makes
\* the top K whole.
LEMMA WalkOnKeeps ==
  ASSUME SplitInv, NEW c \in Cores, WalkOn(c)
  PROVE  SplitInv'
<1> DEFINE h == head[walk[c]]
           result == acc[c] \cup (IF h.needFd THEN h.res ELSE {})
<1>1. /\ pc[c] = "walk" /\ walk[c] \in Cores
      /\ acc' = [acc EXCEPT ![c] = result]
      /\ UNCHANGED <<blocks, split, row, block, first, start, cached, head, tail,
                     scored, cleaned, united>>
      /\ IF h.needFd /\ ~h.isS2End
           THEN walk' = [walk EXCEPT ![c] = walk[c] + 1] /\ UNCHANGED <<pc, answer, answers>>
           ELSE /\ answer' = [answer EXCEPT ![head[c + 1].row] = result]
                /\ answers' = [answers EXCEPT ![head[c + 1].row] = answers[head[c + 1].row] + 1]
                /\ pc' = [pc EXCEPT ![c] = "publish"] /\ UNCHANGED walk
  BY DEF WalkOn, Goto, Publish, GoesOnBehind, scoring
<1>2. Batch /\ Types /\ Places /\ Positions /\ Partway /\ Parts /\ Walking /\ Answered /\ Scored
  BY DEF SplitInv
<1>3. /\ \A d \in Cores : d < Used => ~first[d] /\ ~ (row[d] <= split[d].bN2End)
      /\ \A d \in Cores, b \in Requests : Has(d, b) => Ended(d, b)
  BY <1>1, MergeFacts
<1>4. PICK w \in Cores, b \in Requests :
        /\ w = walk[c] /\ c < w /\ Heads(c, b) /\ Joins(w, b)
        /\ acc[c] = 0 .. ShareStart(w) - Base(b) - 1
  BY <1>1, <1>2 DEF Walking
<1>5. Has(c, b) /\ Has(w, b) /\ ShareEnd(c) < End(b) /\ Base(b) < ShareStart(w)
  BY <1>4 DEF Heads, Joins
<1>6. /\ h.needFd /\ (h.isS2End <=> End(b) <= ShareEnd(w)) /\ h.res = Piece(w, b)
  <2>1. Ended(w, b)
    BY <1>3, <1>5
  <2>2. head[w] = [needFd |-> TRUE, isS2End |-> End(b) <= ShareEnd(w),
                   row |-> b, res |-> Piece(w, b)]
    BY <1>2, <1>4, <2>1 DEF Parts
  <2>3. h = head[w]
    BY <1>4
  <2> DEFINE last == End(b) <= ShareEnd(w)
  <2>4. head[w] = [needFd |-> TRUE, isS2End |-> last, row |-> b, res |-> Piece(w, b)]
    BY <2>2
  <2> HIDE DEF h, last
  <2>5. h.needFd = TRUE /\ h.isS2End = last /\ h.res = Piece(w, b)
    BY <2>3, <2>4
  <2> QED
    BY <2>5, Zenon DEF last
<1>7. /\ ShareStart(w) \in Nat /\ ShareEnd(w) \in Nat /\ ShareStart(w) < ShareEnd(w)
      /\ Base(b) \in Nat /\ End(b) \in Nat /\ ShareStart(w) < End(b)
      /\ Hi(w, b) \in Nat /\ Lo(w, b) = ShareStart(w) /\ Lo(w, b) < Hi(w, b)
      /\ End(b) <= ShareEnd(w) => Hi(w, b) = End(b)
      /\ ShareEnd(w) < End(b) => Hi(w, b) = ShareEnd(w)
      /\ blocks[b] = End(b) - Base(b)
  BY <1>2, <1>4, <1>5, PartSides, CoreFacts, RequestFacts, PartFacts DEF Has
<1>8. result = 0 .. Hi(w, b) - Base(b) - 1
  <2>1. result = (0 .. ShareStart(w) - Base(b) - 1) \cup (ShareStart(w) - Base(b) .. Hi(w, b) - Base(b) - 1)
    BY <1>4, <1>6, <1>7 DEF Piece
  <2> DEFINE s == ShareStart(w) - Base(b)
             t == Hi(w, b) - Base(b)
  <2>2. s \in Nat /\ t \in Nat /\ s < t
    BY <1>5, <1>7
  <2>3. result = (0 .. s - 1) \cup (s .. t - 1)
    BY <2>1
  <2> HIDE DEF s, t, result
  <2>4. (0 .. s - 1) \cup (s .. t - 1) = 0 .. t - 1
    BY <2>2
  <2> QED
    BY <2>3, <2>4 DEF t
<1> HIDE DEF result, h
<1>9. /\ acc'[c] = result
      /\ \A d \in Cores : d # c => acc'[d] = acc[d]
  BY <1>1, <1>2 DEF Types
<1>10. Places'
  BY <1>1, MergePlaces
<1>11. Partway'
  BY <1>1, <1>2, <1>3, <1>9, PartwayKept
<1>12. Batch' /\ Positions' /\ Parts' /\ Scored'
  BY <1>1, <1>2, BatchKept, PositionsKept, PartsKept, ScoredKept
<1>13. \A e, a : /\ Heads(e, a)' = Heads(e, a) /\ Joins(e, a)' = Joins(e, a)
                 /\ ShareStart(e)' = ShareStart(e) /\ Base(a)' = Base(a)
  BY <1>1, BatchKept
<1>14. CASE ShareEnd(w) < End(b)
  <2>1. h.needFd /\ ~h.isS2End
    BY <1>6, <1>7, <1>14
  <2>2. walk' = [walk EXCEPT ![c] = walk[c] + 1] /\ UNCHANGED <<pc, answer, answers>>
    BY <1>1, <2>1
  <2>3. Types'
    BY <1>1, <1>2, <2>2 DEF Types
  <2>4. w + 1 \in Cores /\ Joins(w + 1, b) /\ ShareEnd(w) = ShareStart(w + 1)
    BY <1>2, <1>5, <1>14, NextJoins
  <2>5. ASSUME NEW d \in Cores, pc'[d] = "walk"
        PROVE  \E e \in Cores, a \in Requests :
                 /\ e = walk'[d] /\ d < e /\ Heads(d, a)' /\ Joins(e, a)'
                 /\ acc'[d] = 0 .. ShareStart(e)' - Base(a)' - 1
    <3>1. CASE d = c
      <4> DEFINE e == w + 1
      <4>1. c < w + 1
        BY <1>2, <1>4, CoreFacts
      <4>2. walk'[c] = w + 1
        BY <1>2, <1>4, <2>2 DEF Types
      <4>3. acc'[c] = 0 .. ShareStart(w + 1) - Base(b) - 1
        BY <1>7, <1>8, <1>9, <1>14, <2>4
      <4>4. e \in Cores /\ e = walk'[c] /\ c < e /\ Joins(e, b)
            /\ acc'[c] = 0 .. ShareStart(e) - Base(b) - 1
        BY <2>4, <4>1, <4>2, <4>3
      <4> HIDE DEF e
      <4> QED
        BY <1>4, <1>13, <3>1, <4>4
    <3>2. CASE d # c
      <4>1. PICK e \in Cores, a \in Requests :
              /\ e = walk[d] /\ d < e /\ Heads(d, a) /\ Joins(e, a)
              /\ acc[d] = 0 .. ShareStart(e) - Base(a) - 1
        BY <1>2, <2>2, <2>5 DEF Walking
      <4>2. walk'[d] = walk[d]
        BY <1>2, <2>2, <3>2 DEF Types
      <4> QED
        BY <1>9, <1>13, <3>2, <4>1, <4>2
    <3> QED
      BY <3>1, <3>2
  <2>6. Walking'
    BY <2>5 DEF Walking
  <2>7. Answered'
    BY <1>1, <1>2, <2>2, AnsweredKept
  <2> QED
    BY <1>10, <1>11, <1>12, <2>3, <2>6, <2>7 DEF SplitInv
<1>15. CASE ~ (ShareEnd(w) < End(b))
  <2>1. ~ (h.needFd /\ ~h.isS2End) /\ Hi(w, b) = End(b)
    BY <1>6, <1>7, <1>15
  <2>2. head[c + 1].row = b
    <3>1. c + 1 \in Cores /\ Joins(c + 1, b)
      BY <1>2, <1>5, NextJoins
    <3>2. Has(c + 1, b)
      BY <3>1 DEF Joins
    <3> DEFINE d == c + 1
    <3>3. d \in Cores /\ Joins(d, b) /\ Ended(d, b)
      BY <1>3, <3>1, <3>2
    <3> HIDE DEF d
    <3>4. head[d] = [needFd |-> TRUE, isS2End |-> End(b) <= ShareEnd(d),
                     row |-> b, res |-> Piece(d, b)]
      BY <1>2, <3>3 DEF Parts
    <3>5. head[d].row = b
      BY <3>4
    <3> QED
      BY <3>5 DEF d
  <2>3. /\ answer' = [answer EXCEPT ![b] = result]
        /\ answers' = [answers EXCEPT ![b] = answers[b] + 1]
        /\ pc' = [pc EXCEPT ![c] = "publish"] /\ UNCHANGED walk
    BY <1>1, <2>1, <2>2
  <2>4. pc'[c] = "publish" /\ \A d \in Cores : d # c => pc'[d] = pc[d]
    BY <1>2, <2>3 DEF Types
  <2>5. answers[b] = 0
    <3>1. pc[c] \notin Published
      BY <1>1 DEF Published
    <3>2. answers[b] # 1
      BY <1>2, <1>4, <3>1 DEF Answered
    <3>3. answers[b] \in 0 .. 1
      BY <1>2 DEF Types
    <3> QED
      BY <3>2, <3>3
  <2>6. /\ answers'[b] = 1 /\ answer'[b] = result
        /\ \A a \in Requests : a # b => answers'[a] = answers[a] /\ answer'[a] = answer[a]
    BY <1>2, <2>3, <2>5 DEF Types
  <2>7. result = Whole(b)
    <3>1. Hi(w, b) - Base(b) - 1 = blocks[b] - 1
      BY <1>7, <2>1
    <3> QED
      BY <1>8, <3>1 DEF Whole
  <2>8. Types'
    <3>1. answers' \in [Requests -> 0 .. 1] /\ DOMAIN answer' = Requests
      BY <1>2, <2>3, <2>5 DEF Types
    <3>2. pc' \in [Cores -> Before \cup Merging \cup {"invalid", "sync"}]
      BY <1>2, <2>3 DEF Types, Merging
    <3> QED
      BY <1>1, <1>2, <2>3, <3>1, <3>2 DEF Types
  <2>9. Walking'
    <3>1. ASSUME NEW d \in Cores, pc'[d] = "walk"
          PROVE  \E e \in Cores, a \in Requests :
                   /\ e = walk'[d] /\ d < e /\ Heads(d, a)' /\ Joins(e, a)'
                   /\ acc'[d] = 0 .. ShareStart(e)' - Base(a)' - 1
      <4>1. d # c /\ pc[d] = "walk"
        BY <2>4, <3>1
      <4>2. PICK e \in Cores, a \in Requests :
              /\ e = walk[d] /\ d < e /\ Heads(d, a) /\ Joins(e, a)
              /\ acc[d] = 0 .. ShareStart(e) - Base(a) - 1
        BY <1>2, <4>1 DEF Walking
      <4> QED
        BY <1>9, <1>13, <2>3, <4>1, <4>2
    <3> QED
      BY <3>1 DEF Walking
  <2>10. Answered'
    <3>1. \A d, a : Ended(d, a)' = Ended(d, a)
      BY <1>1, AtKept
    <3>2. \A d \in Cores : Slice(d)' = Slice(d)
      BY DEF Slice
    <3>3. Total # 0 /\ Total' = Total
      BY <1>1, <1>2, BatchKept DEF Places
    <3>4. blocks[b] # 0
      BY <1>2, <1>5, PartFacts
    <3>5. \A a \in Requests : /\ answers'[a] = 1 => answer'[a] = Whole(a)
                              /\ IF blocks[a] = 0 THEN answers'[a] = 0 ELSE cleaned[a] = 0
      BY <1>2, <2>6, <2>7, <3>4 DEF Answered
    <3>6. ASSUME NEW d \in Cores, NEW a \in Requests, Sole(d, a)
          PROVE  answers'[a] = 1 <=> Ended(d, a)
      <4>1. a # b
        <5>1. a = b => c = d
          BY <1>2, <1>5, <3>6, OwnerUnique
        <5> QED
          BY <1>2, <1>4, <3>6, <5>1, OwnerUnique
      <4> QED
        BY <1>2, <2>6, <3>6, <4>1 DEF Answered
    <3>7. ASSUME NEW d \in Cores, NEW a \in Requests, Heads(d, a)
          PROVE  answers'[a] = 1 <=> pc'[d] \in Published
      <4>1. CASE a = b
        <5>1. d = c
          BY <1>2, <1>4, <3>7, <4>1, OwnerUnique
        <5> QED
          BY <2>4, <2>6, <4>1, <5>1 DEF Published
      <4>2. CASE a # b
        <5>1. d # c
          BY <1>2, <1>4, <3>7, <4>2, OwnerUnique
        <5> QED
          BY <1>2, <2>4, <2>6, <3>7, <4>2, <5>1 DEF Answered
      <4> QED
        BY <4>1, <4>2
    <3>8. \A d \in Cores, a \in Requests : Cleans(d, a) => (cleaned[a] = 1 <=> a < row[d])
      BY <1>2 DEF Answered
    <3>9. UNCHANGED <<blocks, cleaned, row>>
      BY <1>1
    <3>10. \A d, a : /\ Sole(d, a)' = Sole(d, a) /\ Heads(d, a)' = Heads(d, a)
                     /\ Cleans(d, a)' = Cleans(d, a) /\ Whole(a)' = Whole(a)
      BY <1>1, BatchKept
    <3> QED
      BY <3>1, <3>2, <3>3, <3>5, <3>6, <3>7, <3>8, <3>9, <3>10 DEF Answered
  <2> QED
    BY <1>10, <1>11, <1>12, <2>8, <2>9, <2>10 DEF SplitInv
<1> QED
  BY <1>14, <1>15-----------------------------------------------------------------------------
(* The main loop.                                                          *)

\* Where a core comes to when it steps to its next row.
LEMMA NextRow ==
  ASSUME SplitInv, UNCHANGED <<blocks, split>>, NEW c \in Cores, c < Used,
         row[c] <= split[c].bN2End, row'[c] = row[c] + 1, block'[c] = 0
  PROVE  /\ row[c] \in Requests /\ row'[c] \in Nat
         /\ split[c].bN2Start <= row'[c] /\ row'[c] <= split[c].bN2End + 1
         /\ At(c)' = Least(End(row[c]), ShareEnd(c))
         /\ row'[c] <= split[c].bN2End =>
              /\ row'[c] \in Requests /\ At(c)' = Base(row'[c])
              /\ blocks[row'[c]] # 0 => At(c)' < ShareEnd(c)
<1>1. Batch /\ Types /\ Positions
  BY DEF SplitInv
<1>2. /\ row[c] \in Nat /\ ShareEnd(c) \in Nat
  BY <1>1, AtFacts
<1>3. /\ split[c].bN2Start \in Nat /\ split[c].bN2End \in Nat /\ split[c].bN2End \in Requests
      /\ split[c].bN2End < BatchSize /\ BatchSize \in Nat /\ split[c].bN2Start <= row[c]
  BY <1>1, RowFacts, RequestFacts, SizeAssumption DEF Positions
<1>4. row[c] \in Requests /\ row'[c] \in Nat
  BY <1>2, <1>3 DEF Requests
<1>5. split[c].bN2Start <= row'[c] /\ row'[c] <= split[c].bN2End + 1
  BY <1>2, <1>3
<1>6. /\ Base(row[c]) \in Nat /\ End(row[c]) \in Nat /\ blocks[row[c]] \in Nat
      /\ End(row[c]) = Base(row[c] + 1) /\ blocks[row[c]] = End(row[c]) - Base(row[c])
  BY <1>1, <1>4, RequestFacts
<1>7. At(c)' = IF row'[c] <= split[c].bN2End THEN Base(row'[c]) + block'[c] ELSE ShareEnd(c)
  BY BatchKept DEF At
<1>8. CASE row'[c] <= split[c].bN2End
  <2>1. row[c] # split[c].bN2End /\ row'[c] \in Requests
    BY <1>2, <1>3, <1>4, <1>8 DEF Requests
  <2>2. End(row[c]) <= ShareEnd(c)
    BY <1>1, <1>3, <1>4, <2>1, RowFacts
  <2>3. At(c)' = End(row[c])
    BY <1>6, <1>7, <1>8
  <2>4. At(c)' = Base(row'[c])
    BY <1>6, <2>3
  <2>5. ASSUME blocks[row'[c]] # 0 PROVE At(c)' < ShareEnd(c)
    <3> DEFINE r == row'[c]
    <3>1. r \in Requests /\ split[c].bN2Start <= r /\ r <= split[c].bN2End /\ blocks[r] # 0
      BY <1>5, <1>8, <2>1, <2>5
    <3>2. At(c)' = Base(r)
      BY <2>4
    <3> HIDE DEF r
    <3>3. Has(c, r)
      BY <1>1, <3>1, RowFacts
    <3>4. /\ Lo(c, r) \in Nat /\ Hi(c, r) \in Nat /\ Base(r) <= Lo(c, r)
          /\ Hi(c, r) <= ShareEnd(c) /\ Base(r) \in Nat
      BY <1>1, <3>1, PartFacts, RequestFacts
    <3> QED
      BY <1>2, <3>2, <3>3, <3>4 DEF Has
  <2> QED
    BY <1>2, <1>4, <1>5, <1>6, <2>1, <2>2, <2>3, <2>4, <2>5 DEF Least
<1>9. CASE ~ (row'[c] <= split[c].bN2End)
  <2>1. row[c] = split[c].bN2End
    BY <1>2, <1>3, <1>9
  <2>2. ShareEnd(c) <= End(row[c])
    BY <1>1, <1>2, <1>6, <2>1, LastFacts
  <2>3. At(c)' = ShareEnd(c)
    BY <1>7, <1>9
  <2>4. Least(End(row[c]), ShareEnd(c)) = ShareEnd(c)
    BY <1>2, <1>6, <2>2 DEF Least
  <2> QED
    BY <1>4, <1>5, <1>9, <2>3, <2>4
<1> QED
  BY <1>8, <1>9
\* An empty row is cleaned by the one core whose rows it lies among; it takes
\* that core no further in its share.
LEMMA CleanEmptyKeeps ==
  ASSUME SplitInv, NEW c \in Cores, CleanEmpty(c)
  PROVE  SplitInv'
<1> DEFINE r == row[c]
<1>1. /\ pc[c] = "main" /\ r <= split[c].bN2End /\ blocks[r] = 0
      /\ cleaned' = [cleaned EXCEPT ![r] = cleaned[r] + 1]
      /\ row' = [row EXCEPT ![c] = r + 1]
      /\ UNCHANGED <<blocks, split, pc, block, first, start, cached, acc, head, tail, walk,
                     scored, answer, answers, united>>
  BY DEF CleanEmpty, InRange
<1>2. Batch /\ Types /\ Places /\ Positions /\ Partway /\ Parts /\ Walking /\ Answered /\ Scored
  BY DEF SplitInv
<1>3. c < Used
  BY <1>1, <1>2 DEF Places
<1>4. /\ row'[c] = r + 1 /\ \A d \in Cores : d # c => row'[d] = row[d]
      /\ block'[c] = block[c] /\ block[c] = 0
      /\ first[c] <=> At(c) = ShareStart(c)
  BY <1>1, <1>2, <1>3 DEF Types, Positions
<1>5. /\ r \in Requests /\ row'[c] \in Nat
      /\ split[c].bN2Start <= row'[c] /\ row'[c] <= split[c].bN2End + 1
      /\ At(c)' = Least(End(r), ShareEnd(c))
      /\ row'[c] <= split[c].bN2End =>
           /\ row'[c] \in Requests /\ At(c)' = Base(row'[c])
           /\ blocks[row'[c]] # 0 => At(c)' < ShareEnd(c)
  BY <1>1, <1>3, <1>4, NextRow
<1>6. /\ At(c) \in Nat /\ ShareStart(c) <= At(c) /\ At(c) <= ShareEnd(c)
      /\ ShareStart(c) \in Nat /\ ShareEnd(c) \in Nat
  BY <1>2, <1>3, AtFacts
<1>7. At(c)' = At(c)
  <2>1. End(r) = Base(r) /\ Base(r) \in Nat
    BY <1>1, <1>2, <1>5, RequestFacts
  <2>2. At(c) = Base(r)
    BY <1>1, <1>4, <2>1 DEF At
  <2> QED
    BY <1>5, <1>6, <2>1, <2>2 DEF Least
<1>8. \A d \in Cores : At(d)' = At(d) /\ \A b : Ended(d, b)' = Ended(d, b)
  <2>1. \A d \in Cores : At(d)' = At(d)
    BY <1>1, <1>4, <1>7, AtKept
  <2> QED
    BY <1>1, <2>1, BatchKept DEF Ended
<1>9. /\ Batch' = Batch /\ Total' = Total /\ Used' = Used
      /\ \A b : /\ Base(b)' = Base(b) /\ Whole(b)' = Whole(b)
      /\ \A d : ShareStart(d)' = ShareStart(d) /\ ShareEnd(d)' = ShareEnd(d)
      /\ \A d, b : /\ Lo(d, b)' = Lo(d, b) /\ Has(d, b)' = Has(d, b)
                   /\ Sole(d, b)' = Sole(d, b) /\ Heads(d, b)' = Heads(d, b)
                   /\ Cleans(d, b)' = Cleans(d, b)
  BY <1>1, BatchKept
<1>10. Cleans(c, r) /\ cleaned[r] = 0 /\ r \in Nat
  <2>1. split[c].bN2Start <= r
    BY <1>2, <1>3 DEF Positions
  <2>2. Cleans(c, r) /\ r \in Nat
    BY <1>1, <1>2, <1>3, <2>1 DEF Cleans, Types
  <2>3. ~ (r < row[c])
    BY <2>2
  <2>4. cleaned[r] # 1 /\ cleaned[r] \in 0 .. 1
    BY <1>2, <1>5, <2>2, <2>3 DEF Answered, Types
  <2> QED
    BY <2>2, <2>4
<1>11. cleaned'[r] = 1 /\ \A b \in Requests : b # r => cleaned'[b] = cleaned[b]
  BY <1>1, <1>2, <1>5, <1>10 DEF Types
<1> HIDE DEF r
<1>12. Types'
  <2>1. row' \in [Cores -> Nat]
    BY <1>1, <1>2, <1>10 DEF Types
  <2>2. cleaned' \in [Requests -> 0 .. 1]
    BY <1>1, <1>2, <1>5, <1>10 DEF Types
  <2> QED
    BY <1>1, <1>2, <2>1, <2>2 DEF Types
<1>13. Places'
  BY <1>1, <1>2, <1>4, <1>9 DEF Places, Before
<1>14. Positions'
  <2>1. ASSUME NEW d \in Cores, d < Used, d # c
        PROVE  /\ split[d].bN2Start <= row'[d] /\ row'[d] <= split[d].bN2End + 1
               /\ row'[d] <= split[d].bN2End =>
                    /\ ShareStart(d) <= At(d) /\ At(d) <= ShareEnd(d)
                    /\ IF blocks[row'[d]] = 0 THEN block[d] = 0
                       ELSE block[d] < blocks[row'[d]] /\ At(d) < ShareEnd(d)
               /\ first[d] <=> At(d) = ShareStart(d)
    BY <1>2, <1>4, <2>1 DEF Positions
  <2>2. ASSUME row'[c] <= split[c].bN2End
        PROVE  IF blocks[row'[c]] = 0 THEN block[c] = 0
               ELSE block[c] < blocks[row'[c]] /\ At(c) < ShareEnd(c)
    <3>1. blocks[row'[c]] \in Nat
      BY <1>2, <1>5, <2>2, RequestFacts
    <3> QED
      BY <1>4, <1>5, <1>7, <2>2, <3>1
  <2>3. ASSUME NEW d \in Cores, d < Used
        PROVE  /\ split[d].bN2Start <= row'[d] /\ row'[d] <= split[d].bN2End + 1
               /\ row'[d] <= split[d].bN2End =>
                    /\ ShareStart(d) <= At(d) /\ At(d) <= ShareEnd(d)
                    /\ IF blocks[row'[d]] = 0 THEN block[d] = 0
                       ELSE block[d] < blocks[row'[d]] /\ At(d) < ShareEnd(d)
               /\ first[d] <=> At(d) = ShareStart(d)
    <3>1. CASE d = c
      BY <1>4, <1>5, <1>6, <2>2, <3>1
    <3> QED
      BY <2>1, <2>3, <3>1
  <2> QED
    BY <1>1, <1>8, <1>9, <2>3 DEF Positions
<1>15. Partway'
  <2>1. ASSUME NEW d \in Cores, d < Used, NEW b \in Requests,
               b = row'[d], b <= split[d].bN2End, Lo(d, b) < At(d)
        PROVE  b = row[d]
    <3>1. CASE d = c
      <4>1. At(c) = Base(b)
        BY <1>5, <1>7, <2>1, <3>1
      <4>2. Lo(c, b) \in Nat /\ Base(b) <= Lo(c, b)
        BY <1>2, PartFacts
      <4> QED
        BY <1>6, <2>1, <3>1, <4>1, <4>2
    <3>2. CASE d # c
      BY <1>4, <2>1, <3>2
    <3> QED
      BY <3>1, <3>2
  <2>2. ASSUME NEW d \in Cores, d < Used
        PROVE  /\ first[d] => acc[d] = {}
               /\ \A b \in Requests : b = row'[d] /\ b <= split[d].bN2End /\ Lo(d, b) < At(d) =>
                    LET from == Lo(d, b) - Base(b)
                        waiting == (block[d] - from) % MergeBlocks
                    IN  /\ start[d] = from
                        /\ acc[d] = from .. block[d] - waiting - 1
                        /\ waiting > 0 => cached[d] = block[d] - waiting .. block[d] - 1
    BY <1>2, <2>1, <2>2 DEF Partway
  <2> QED
    BY <1>1, <1>8, <1>9, <2>2 DEF Partway
<1>16. Parts'
  BY <1>1, <1>2, <1>8, BatchKept DEF Parts
<1>17. Walking'
  BY <1>1, <1>2, WalkingKept
<1>18. Scored'
  BY <1>1, <1>2, <1>8, BatchKept DEF Scored
<1>19. Answered'
  <2>1. \A d \in Cores : Slice(d)' = Slice(d)
    BY DEF Slice
  <2>2. Total # 0
    BY <1>2, <1>3, ShareFacts, CoreFacts
  <2>3. \A b \in Requests : /\ answers[b] = 1 => answer[b] = Whole(b)
                            /\ IF blocks[b] = 0 THEN answers[b] = 0 ELSE cleaned'[b] = 0
    <3>1. ASSUME NEW b \in Requests
          PROVE  /\ answers[b] = 1 => answer[b] = Whole(b)
                 /\ IF blocks[b] = 0 THEN answers[b] = 0 ELSE cleaned[b] = 0
      BY <1>2 DEF Answered
    <3>2. blocks[r] = 0
      BY <1>1 DEF r
    <3> QED
      BY <1>11, <3>1, <3>2
  <2>4. ASSUME NEW d \in Cores, NEW b \in Requests, Cleans(d, b)
        PROVE  cleaned'[b] = 1 <=> b < row'[d]
    <3>1. cleaned[b] = 1 <=> b < row[d]
      BY <1>2, <2>4 DEF Answered
    <3>2. b \in Nat
      BY DEF Requests
    <3>3. CASE b = r
      <4>1. d = c
        BY <1>2, <1>5, <1>10, <2>4, <3>3, CleanUnique
      <4> QED
        BY <1>4, <1>10, <1>11, <3>3, <4>1
    <3>4. CASE b # r
      <4>1. CASE d = c
        <5>1. row[c] = r
          BY DEF r
        <5> QED
          BY <1>4, <1>5, <1>10, <1>11, <3>1, <3>2, <3>4, <4>1, <5>1
      <4>2. CASE d # c
        BY <1>4, <1>11, <3>1, <3>4, <4>2
      <4> QED
        BY <4>1, <4>2
    <3> QED
      BY <3>3, <3>4
  <2>5. /\ \A d \in Cores, b \in Requests :
             /\ Sole(d, b) => (answers[b] = 1 <=> Ended(d, b))
             /\ Heads(d, b) => (answers[b] = 1 <=> pc[d] \in Published)
    BY <1>2 DEF Answered
  <2> QED
    BY <1>1, <1>8, <1>9, <2>1, <2>2, <2>3, <2>4, <2>5 DEF Answered
<1> QED
  BY <1>2, <1>9, <1>12, <1>13, <1>14, <1>15, <1>16, <1>17, <1>18, <1>19 DEF SplitInv
\* The place of the next block among those that are merged together.
LEMMA NextPlace ==
  ASSUME NEW a \in Nat, NEW m \in Nat \ {0}
  PROVE  (a + 1) % m = IF a % m = m - 1 THEN 0 ELSE (a % m) + 1
<1> DEFINE q == a \div m
           r == a % m
           s == (a + 1) \div m
           t == (a + 1) % m
           u == m * q
           v == m * s
<1>1. q \in Nat /\ r \in 0 .. m - 1 /\ a = u + r
  BY Division
<1>2. s \in Nat /\ t \in 0 .. m - 1 /\ a + 1 = v + t
  <2>1. a + 1 \in Nat
    OBVIOUS
  <2> QED
    BY <2>1, Division
<1>3. u \in Nat /\ v \in Nat
  BY <1>1, <1>2
<1>4. s = q => v = u
  OBVIOUS
<1>5. s < q => v <= u - m
  <2> HIDE DEF q, s
  <2>1. ASSUME s < q PROVE m * (q - s - 1) >= 0
    <3>1. q - s - 1 \in Nat
      BY <1>1, <1>2, <2>1
    <3> QED
      BY <3>1
  <2>2. m * (q - s - 1) = u - v - m
    BY <1>1, <1>2
  <2> HIDE DEF u, v
  <2> QED
    BY <1>3, <2>1, <2>2
<1>6. s > q => v >= u + m
  <2> HIDE DEF q, s
  <2>1. ASSUME s > q PROVE m * (s - q - 1) >= 0
    <3>1. s - q - 1 \in Nat
      BY <1>1, <1>2, <2>1
    <3> QED
      BY <3>1
  <2>2. m * (s - q - 1) = v - u - m
    BY <1>1, <1>2
  <2> HIDE DEF u, v
  <2> QED
    BY <1>3, <2>1, <2>2
<1>7. s > q => s = q + 1 \/ s >= q + 2
  BY <1>1, <1>2
<1>8. s = q + 1 => v = u + m
  <2> HIDE DEF q, s
  <2> QED
    BY <1>1, <1>2
<1>9. s >= q + 2 => v >= u + m + m
  <2> HIDE DEF q, s
  <2>1. ASSUME s >= q + 2 PROVE m * (s - q - 2) >= 0
    <3>1. s - q - 2 \in Nat
      BY <1>1, <1>2, <2>1
    <3> QED
      BY <3>1
  <2>2. m * (s - q - 2) = v - u - m - m
    BY <1>1, <1>2
  <2> HIDE DEF u, v
  <2> QED
    BY <1>3, <2>1, <2>2
<1> HIDE DEF q, r, s, t, u, v
<1>10. t = IF r = m - 1 THEN 0 ELSE r + 1
  BY <1>1, <1>2, <1>3, <1>4, <1>5, <1>6, <1>7, <1>8, <1>9
<1> QED
  BY <1>10 DEF r, t

\* The block a core scores next: where it is in the core's part of the request,
\* and whether it is the last one there.
LEMMA BlockFacts ==
  ASSUME SplitInv, NEW c \in Cores, pc[c] = "main", NEW r, r = row[c], NEW k, k = block[c],
         r <= split[c].bN2End, blocks[r] # 0
  PROVE  /\ c < Used /\ r \in Requests /\ k \in Nat /\ k < blocks[r]
         /\ At(c) = Base(r) + k /\ At(c) \in Nat
         /\ Has(c, r) /\ Lo(c, r) <= At(c) /\ At(c) < Hi(c, r)
         /\ Lo(c, r) - Base(r) \in Nat /\ PartStart(c) = Lo(c, r) - Base(r)
         /\ first[c] <=> At(c) = ShareStart(c)
         /\ IsS2End(c) <=> At(c) + 1 = End(r)
         /\ IsS2End(c) \/ IsAllLoopEnd(c) <=> At(c) + 1 = Hi(c, r)
         /\ k = LastBlock(c) <=> At(c) + 1 = Hi(c, r)
<1>1. Batch /\ Types /\ Places /\ Positions /\ Partway
  BY DEF SplitInv
<1>2. c < Used
  BY <1>1 DEF Places
<1>3. /\ ShareStart(c) \in Nat /\ ShareEnd(c) \in Nat /\ r \in Nat /\ k \in Nat
      /\ ShareStart(c) <= At(c) /\ At(c) \in Nat
  BY <1>1, <1>2, AtFacts
<1>4. /\ split[c].bN2Start <= r /\ k < blocks[r] /\ At(c) < ShareEnd(c)
      /\ first[c] <=> At(c) = ShareStart(c)
  BY <1>1, <1>2 DEF Positions
<1>5. r \in Requests /\ split[c].bN2End \in Requests
  <2>1. split[c].bN2End \in Requests /\ split[c].bN2End < BatchSize /\ BatchSize \in Nat
        /\ split[c].bN2End \in Nat
    BY <1>1, <1>2, RowFacts, RequestFacts, SizeAssumption
  <2> QED
    BY <1>3, <2>1 DEF Requests
<1>6. At(c) = Base(r) + k
  BY DEF At
<1>7. /\ Base(r) \in Nat /\ End(r) \in Nat /\ blocks[r] = End(r) - Base(r)
  BY <1>1, <1>5, RequestFacts
<1>8. Has(c, r) /\ (r # split[c].bN2End => End(r) <= ShareEnd(c))
  BY <1>1, <1>2, <1>4, <1>5, RowFacts
<1>9. At(c) < End(r) /\ Base(r) <= At(c)
  BY <1>3, <1>4, <1>6, <1>7
<1>10. /\ Lo(c, r) \in Nat /\ Hi(c, r) \in Nat
       /\ Lo(c, r) = (IF ShareStart(c) <= Base(r) THEN Base(r) ELSE ShareStart(c))
       /\ Hi(c, r) = (IF ShareEnd(c) <= End(r) THEN ShareEnd(c) ELSE End(r))
  BY <1>1, <1>5, PartFacts DEF Lo, Hi, Least
<1>11. Lo(c, r) <= At(c) /\ At(c) < Hi(c, r)
  BY <1>3, <1>4, <1>7, <1>9, <1>10
<1>12. Lo(c, r) - Base(r) \in Nat
  BY <1>3, <1>7, <1>10
<1>13. PartStart(c) = Lo(c, r) - Base(r)
  <2>1. CASE first[c]
    <3>1. At(c) = ShareStart(c) /\ PartStart(c) = k
      BY <1>4, <2>1 DEF PartStart
    <3> QED
      BY <1>3, <1>6, <1>7, <1>9, <1>10, <3>1
  <2>2. CASE ~first[c] /\ k = 0
    <3>1. At(c) # ShareStart(c) /\ PartStart(c) = 0
      BY <1>4, <2>2 DEF PartStart
    <3> QED
      BY <1>3, <1>6, <1>7, <1>10, <2>2, <3>1
  <2>3. CASE ~first[c] /\ k # 0
    <3>1. At(c) # ShareStart(c) /\ PartStart(c) = start[c]
      BY <1>4, <2>3 DEF PartStart
    <3>2. Lo(c, r) < At(c)
      BY <1>3, <1>6, <1>7, <1>10, <2>3, <3>1
    <3>3. start[c] = Lo(c, r) - Base(r)
      BY <1>1, <1>2, <1>5, <3>2 DEF Partway
    <3> QED
      BY <3>1, <3>3
  <2> QED
    BY <2>1, <2>2, <2>3
<1>14. IsS2End(c) <=> At(c) + 1 = End(r)
  <2>1. IsS2End(c) <=> k + 1 = blocks[r]
    BY DEF IsS2End
  <2> QED
    BY <1>3, <1>6, <1>7, <2>1
<1>15. /\ r = split[c].bN2End => /\ Hi(c, r) = ShareEnd(c)
                                 /\ split[c].s2End = ShareEnd(c) - 1 - Base(r)
       /\ r # split[c].bN2End => Hi(c, r) = End(r)
  <2>1. r = split[c].bN2End => ShareEnd(c) <= End(r) /\ split[c].s2End = ShareEnd(c) - 1 - Base(r)
    BY <1>1, <1>2, LastFacts
  <2> QED
    BY <1>3, <1>7, <1>8, <1>10, <2>1
<1>16. k = LastBlock(c) <=> At(c) + 1 = Hi(c, r)
  <2>1. LastBlock(c) = IF r = split[c].bN2End THEN split[c].s2End ELSE blocks[r] - 1
    BY DEF LastBlock
  <2>2. CASE r = split[c].bN2End
    <3>1. LastBlock(c) = ShareEnd(c) - 1 - Base(r) /\ Hi(c, r) = ShareEnd(c)
      BY <1>15, <2>1, <2>2
    <3> QED
      BY <1>3, <1>6, <1>7, <3>1
  <2>3. CASE r # split[c].bN2End
    <3>1. LastBlock(c) = blocks[r] - 1 /\ Hi(c, r) = End(r)
      BY <1>15, <2>1, <2>3
    <3> QED
      BY <1>3, <1>6, <1>7, <3>1
  <2> QED
    BY <2>2, <2>3
<1>17. IsS2End(c) \/ IsAllLoopEnd(c) <=> At(c) + 1 = Hi(c, r)
  <2>1. IsAllLoopEnd(c) <=> r = split[c].bN2End /\ k = split[c].s2End
    BY DEF IsAllLoopEnd
  <2>2. CASE r = split[c].bN2End
    <3>1. IsAllLoopEnd(c) <=> At(c) + 1 = Hi(c, r)
      BY <1>3, <1>6, <1>7, <1>15, <2>1, <2>2
    <3>2. IsS2End(c) => At(c) + 1 = Hi(c, r)
      BY <1>3, <1>7, <1>10, <1>11, <1>14
    <3> QED
      BY <3>1, <3>2
  <2>3. CASE r # split[c].bN2End
    BY <1>14, <1>15, <2>1, <2>3
  <2> QED
    BY <2>2, <2>3
<1> QED
  BY <1>2, <1>3, <1>4, <1>5, <1>6, <1>8, <1>11, <1>12, <1>13, <1>14, <1>16, <1>17
\* The running top K is all of the core's part, up to the blocks that wait to
\* be merged, which are the last ones.
LEMMA MergedFacts ==
  ASSUME SplitInv, NEW c \in Cores, pc[c] = "main", NEW r, r = row[c], NEW k, k = block[c],
         r <= split[c].bN2End, blocks[r] # 0, NEW from, from = Lo(c, r) - Base(r)
  PROVE  /\ Position(c) \in 0 .. MergeBlocks - 1 /\ Position(c) <= k - from
         /\ (k + 1 - from) % MergeBlocks = IF Position(c) = MergeBlocks - 1 THEN 0 ELSE Position(c) + 1
         /\ Kept(c) = k - Position(c) .. k
         /\ MergesNow(c) <=> Position(c) = MergeBlocks - 1 \/ At(c) + 1 = Hi(c, r)
         /\ Merged(c) = IF MergesNow(c) THEN from .. k ELSE from .. k - Position(c) - 1
<1> DEFINE p == (k - from) % MergeBlocks
<1>1. Batch /\ Types /\ Partway
  BY DEF SplitInv
<1>2. /\ c < Used /\ r \in Requests /\ k \in Nat
      /\ At(c) = Base(r) + k /\ At(c) \in Nat
      /\ Lo(c, r) <= At(c) /\ At(c) < Hi(c, r)
      /\ from \in Nat /\ PartStart(c) = from
      /\ first[c] <=> At(c) = ShareStart(c)
      /\ IsS2End(c) \/ IsAllLoopEnd(c) <=> At(c) + 1 = Hi(c, r)
  BY BlockFacts
<1>3. /\ Base(r) \in Nat /\ Lo(c, r) \in Nat /\ ShareStart(c) \in Nat
      /\ Lo(c, r) = (IF ShareStart(c) <= Base(r) THEN Base(r) ELSE ShareStart(c))
      /\ MergeBlocks \in Nat \ {0}
  BY <1>1, <1>2, RequestFacts, PartFacts, CoreFacts, SizeAssumption DEF Lo
<1>4. k - from \in Nat /\ Lo(c, r) = Base(r) + from
  BY <1>2, <1>3
<1>5. p \in 0 .. MergeBlocks - 1 /\ p <= k - from
  <2> DEFINE a == k - from
             m == MergeBlocks * (a \div MergeBlocks)
  <2>1. (a % MergeBlocks) \in 0 .. MergeBlocks - 1 /\ a = m + (a % MergeBlocks)
        /\ a \div MergeBlocks \in Nat
    BY <1>3, <1>4, Division
  <2>2. m \in Nat
    BY <1>3, <2>1
  <2> HIDE DEF m, a
  <2>3. (a % MergeBlocks) <= a
    BY <1>3, <2>1, <2>2
  <2> QED
    BY <2>1, <2>3 DEF a
<1>6. (k + 1 - from) % MergeBlocks = IF p = MergeBlocks - 1 THEN 0 ELSE p + 1
  <2> DEFINE a == k - from
  <2>1. (a + 1) % MergeBlocks = IF (a % MergeBlocks) = MergeBlocks - 1 THEN 0 ELSE (a % MergeBlocks) + 1
    <3> HIDE DEF a
    <3>1. a \in Nat
      BY <1>4 DEF a
    <3> QED
      BY <1>3, <3>1, NextPlace
  <2>2. a + 1 = k + 1 - from
    BY <1>2
  <2> QED
    BY <2>1, <2>2
<1>7. Position(c) = p
  BY <1>2 DEF Position
<1> HIDE DEF p
<1>8. (Lo(c, r) < At(c) => from < k) /\ (from < k => Lo(c, r) < At(c))
  <2>1. /\ At(c) = Base(r) + k /\ Lo(c, r) = Base(r) + from
        /\ Base(r) \in Nat /\ from \in Nat /\ k \in Nat
    BY <1>2, <1>3, <1>4
  <2>2. \A m, i, j \in Nat : (m + i < m + j => i < j) /\ (i < j => m + i < m + j)
    OBVIOUS
  <2> QED
    BY <2>1, <2>2
<1>9. from < k => /\ acc[c] = from .. k - p - 1
                  /\ p > 0 => cached[c] = k - p .. k - 1
  <2>1. ASSUME from < k
        PROVE  /\ acc[c] = from .. k - p - 1
               /\ p > 0 => cached[c] = k - p .. k - 1
    <3>1. r \in Requests /\ r = row[c] /\ r <= split[c].bN2End /\ Lo(c, r) < At(c)
      BY <1>2, <1>8, <2>1
    <3> QED
      BY <1>1, <1>2, <3>1 DEF Partway, p
  <2> QED
    BY <2>1
<1>10. Kept(c) = k - p .. k
  <2>1. CASE p = 0
    <3>1. Kept(c) = {k}
      BY <1>7, <2>1 DEF Kept
    <3> QED
      BY <1>2, <2>1, <3>1
  <2>2. CASE p # 0
    <3>1. from < k /\ p > 0
      BY <1>2, <1>5, <2>2
    <3>2. Kept(c) = (k - p .. k - 1) \cup {k}
      BY <1>7, <1>9, <2>2, <3>1 DEF Kept
    <3>3. (k - p .. k - 1) \cup {k} = k - p .. k
      BY <1>2, <1>3, <1>5
    <3> QED
      BY <3>2, <3>3
  <2> QED
    BY <2>1, <2>2
<1>11. Running(c) = from .. k - p - 1
  <2>1. CASE from < k
    <3>1. k # 0
      BY <1>2, <2>1
    <3> QED
      BY <1>9, <2>1, <3>1 DEF Running
  <2>2. CASE ~ (from < k)
    <3>1. k = from /\ p = 0
      <4>1. k \in Nat /\ from \in Nat /\ k - from \in Nat /\ p \in Nat /\ p <= k - from
        BY <1>2, <1>3, <1>4, <1>5
      <4> QED
        BY <2>2, <4>1
    <3>2. from .. k - p - 1 = {}
      BY <1>2, <3>1
    <3>3. Running(c) = {}
      <4>1. CASE first[c]
        BY <1>1, <1>2, <4>1 DEF Running, Partway
      <4>2. CASE ~first[c]
        <5>1. At(c) # ShareStart(c) /\ At(c) = Lo(c, r)
          BY <1>2, <1>4, <3>1, <4>2
        <5>2. k = 0
          BY <1>2, <1>3, <5>1
        <5> QED
          BY <4>2, <5>2 DEF Running
      <4> QED
        BY <4>1, <4>2
    <3> QED
      BY <3>2, <3>3
  <2> QED
    BY <2>1, <2>2
<1>12. MergesNow(c) <=> p = MergeBlocks - 1 \/ At(c) + 1 = Hi(c, r)
  BY <1>2, <1>7 DEF MergesNow
<1>13. Merged(c) = IF MergesNow(c) THEN from .. k ELSE from .. k - p - 1
  <2>1. CASE ~MergesNow(c)
    BY <1>11, <2>1 DEF Merged
  <2>2. CASE MergesNow(c) /\ k - from = MergeBlocks - 1
    <3>1. p = k - from
      <4>1. \A n \in Nat \ {0} : (n - 1) % n = n - 1
        OBVIOUS
      <4>2. (MergeBlocks - 1) % MergeBlocks = MergeBlocks - 1
        BY <1>3, <4>1
      <4> QED
        BY <2>2, <4>2 DEF p
    <3>2. k - p = from
      BY <1>2, <3>1
    <3>3. Merged(c) = Kept(c)
      BY <1>2, <2>2 DEF Merged
    <3> QED
      BY <1>10, <2>2, <3>2, <3>3
  <2>3. CASE MergesNow(c) /\ k - from # MergeBlocks - 1
    <3>1. Merged(c) = (from .. k - p - 1) \cup (k - p .. k)
      BY <1>2, <1>10, <1>11, <2>3 DEF Merged
    <3>2. (from .. k - p - 1) \cup (k - p .. k) = from .. k
      BY <1>2, <1>3, <1>5
    <3> QED
      BY <2>3, <3>1, <3>2
  <2> QED
    BY <2>1, <2>2, <2>3
<1> QED
  BY <1>5, <1>6, <1>7, <1>10, <1>12, <1>13
\* A step of the loop takes a core one block on in its share: it ends the part
\* it is in, or nothing.
LEMMA ScoreBlockMoves ==
  ASSUME SplitInv, NEW c \in Cores, ScoreBlock(c), NEW r, r = row[c], NEW k, k = block[c]
  PROVE  /\ pc[c] = "main" /\ r <= split[c].bN2End /\ blocks[r] # 0 /\ r \in Requests
         /\ UNCHANGED <<blocks, split, pc, walk, cleaned, united>>
         /\ At(c)' = At(c) + 1 /\ ~first'[c] /\ row'[c] \in Nat /\ block'[c] \in Nat
         /\ IF At(c) + 1 = Hi(c, r)
              THEN row'[c] = r + 1 /\ block'[c] = 0
              ELSE row'[c] = r /\ block'[c] = k + 1 /\ start'[c] = Lo(c, r) - Base(r)
         /\ \A d \in Cores : d # c => /\ row'[d] = row[d] /\ block'[d] = block[d] /\ start'[d] = start[d]
                                      /\ cached'[d] = cached[d] /\ acc'[d] = acc[d]
                                      /\ head'[d] = head[d] /\ tail'[d] = tail[d]
                                      /\ first'[d] = first[d] /\ At(d)' = At(d)
         /\ \A d \in Cores, b \in Requests :
              Ended(d, b)' <=> Ended(d, b) \/ (d = c /\ b = r /\ At(c) + 1 = Hi(c, r))
         /\ ~Ended(c, r)
<1>1. /\ pc[c] = "main" /\ r <= split[c].bN2End /\ blocks[r] > 0
      /\ cached' = [cached EXCEPT ![c] = Kept(c)]
      /\ first' = [first EXCEPT ![c] = FALSE]
      /\ \E x : acc' = [acc EXCEPT ![c] = x]
      /\ head' = head \/ \E x : head' = [head EXCEPT ![c] = x]
      /\ tail' = tail \/ \E x : tail' = [tail EXCEPT ![c] = x]
      /\ IF k = LastBlock(c)
           THEN /\ row' = [row EXCEPT ![c] = r + 1]
                /\ block' = [block EXCEPT ![c] = 0]
                /\ start' = [start EXCEPT ![c] = 0]
           ELSE /\ row' = row
                /\ block' = [block EXCEPT ![c] = k + 1]
                /\ start' = [start EXCEPT ![c] = PartStart(c)]
      /\ UNCHANGED <<blocks, split, pc, walk, cleaned, united>>
  BY DEF ScoreBlock, InRange, KeepPart
<1>2. Batch /\ Types /\ Places /\ Positions
  BY DEF SplitInv
<1>3. c < Used /\ r \in Nat
  BY <1>1, <1>2 DEF Places, Types
<1>4. r \in Requests /\ blocks[r] # 0
  <2>1. split[c].bN2End \in Nat /\ split[c].bN2End < BatchSize /\ BatchSize \in Nat
    BY <1>2, <1>3, RowFacts, RequestFacts, SizeAssumption
  <2> QED
    BY <1>1, <1>3, <2>1 DEF Requests
<1>5. /\ k \in Nat /\ At(c) = Base(r) + k /\ At(c) \in Nat
      /\ Has(c, r) /\ Lo(c, r) <= At(c) /\ At(c) < Hi(c, r)
      /\ PartStart(c) = Lo(c, r) - Base(r)
      /\ k = LastBlock(c) <=> At(c) + 1 = Hi(c, r)
  BY <1>1, <1>4, BlockFacts
<1>6. /\ Base(r) \in Nat /\ End(r) \in Nat /\ ShareEnd(c) \in Nat /\ Hi(c, r) \in Nat
      /\ Hi(c, r) = Least(ShareEnd(c), End(r))
  BY <1>2, <1>4, RequestFacts, CoreFacts, PartFacts DEF Hi
<1>7. ASSUME NEW d \in Cores, d # c
      PROVE  /\ row'[d] = row[d] /\ block'[d] = block[d] /\ start'[d] = start[d]
             /\ cached'[d] = cached[d] /\ acc'[d] = acc[d]
             /\ head'[d] = head[d] /\ tail'[d] = tail[d] /\ first'[d] = first[d]
  <2>1. row'[d] = row[d] /\ block'[d] = block[d] /\ start'[d] = start[d]
    BY <1>1, <1>2, <1>7 DEF Types
  <2>2. cached'[d] = cached[d] /\ first'[d] = first[d] /\ acc'[d] = acc[d]
    BY <1>1, <1>2, <1>7 DEF Types
  <2>3. head'[d] = head[d]
    BY <1>1, <1>2, <1>7 DEF Types
  <2>4. tail'[d] = tail[d]
    BY <1>1, <1>2, <1>7 DEF Types
  <2> QED
    BY <2>1, <2>2, <2>3, <2>4
<1>8. \A d \in Cores : d # c => At(d)' = At(d)
  BY <1>1, <1>7, AtKept
<1>9. /\ ~first'[c]
      /\ IF At(c) + 1 = Hi(c, r)
           THEN row'[c] = r + 1 /\ block'[c] = 0
           ELSE row'[c] = r /\ block'[c] = k + 1 /\ start'[c] = Lo(c, r) - Base(r)
  <2>1. ~first'[c]
    BY <1>1, <1>2 DEF Types
  <2>2. CASE At(c) + 1 = Hi(c, r)
    BY <1>1, <1>2, <1>5, <2>1, <2>2 DEF Types
  <2>3. CASE At(c) + 1 # Hi(c, r)
    BY <1>1, <1>2, <1>5, <2>1, <2>3 DEF Types
  <2> QED
    BY <2>2, <2>3
<1>10. At(c)' = At(c) + 1
  <2>1. CASE At(c) + 1 = Hi(c, r)
    <3>1. row'[c] = row[c] + 1 /\ block'[c] = 0
      BY <1>9, <2>1
    <3>2. At(c)' = Least(End(r), ShareEnd(c))
      BY <1>1, <1>3, <3>1, NextRow
    <3>3. Least(End(r), ShareEnd(c)) = Least(ShareEnd(c), End(r))
      BY <1>6 DEF Least
    <3> QED
      BY <1>6, <2>1, <3>2, <3>3
  <2>2. CASE At(c) + 1 # Hi(c, r)
    <3>1. row'[c] = r /\ block'[c] = k + 1 /\ r = row[c]
      BY <1>9, <2>2
    <3>2. At(c)' = Base(r) + (k + 1)
      BY <1>1, <3>1, BatchKept DEF At
    <3> QED
      BY <1>5, <1>6, <3>2
  <2> QED
    BY <2>1, <2>2
<1>11. row'[c] \in Nat /\ block'[c] \in Nat
  BY <1>3, <1>5, <1>9
<1>12. ~Ended(c, r)
  BY <1>5, <1>6 DEF Ended
<1>13. ASSUME NEW d \in Cores, NEW b \in Requests
       PROVE  Ended(d, b)' <=> Ended(d, b) \/ (d = c /\ b = r /\ At(c) + 1 = Hi(c, r))
  <2>1. Ended(d, b)' <=> Has(d, b) /\ Hi(d, b) <= At(d)'
    BY <1>1, BatchKept DEF Ended
  <2>2. CASE d # c
    BY <1>8, <2>1, <2>2 DEF Ended
  <2>3. CASE d = c
    <3>1. Ended(c, b)' <=> Has(c, b) /\ Hi(c, b) <= At(c) + 1
      BY <1>10, <2>1, <2>3
    <3>2. /\ Lo(c, b) \in Nat /\ Hi(c, b) \in Nat
          /\ Base(b) <= Lo(c, b) /\ Hi(c, b) <= End(b) /\ Base(b) \in Nat /\ End(b) \in Nat
      BY <1>2, PartFacts, RequestFacts
    <3>3. ASSUME Has(c, b), Hi(c, b) = At(c) + 1 PROVE b = r
      <4>1. Base(b) <= At(c) /\ At(c) < End(b)
        BY <1>5, <3>2, <3>3 DEF Has
      <4>2. Base(r) <= At(c) /\ At(c) < End(r)
        <5>1. Hi(c, r) <= End(r) /\ Base(r) <= Lo(c, r) /\ Lo(c, r) \in Nat
          BY <1>2, <1>4, PartFacts
        <5> QED
          BY <1>5, <1>6, <5>1
      <4>3. At(c) \in Int
        BY <1>5
      <4> QED
        BY <1>2, <1>4, <4>1, <4>2, <4>3, RequestUnique
    <3>4. Hi(c, b) <= At(c) + 1 <=> Hi(c, b) <= At(c) \/ Hi(c, b) = At(c) + 1
      BY <1>5, <3>2
    <3>5. Ended(c, b) <=> Has(c, b) /\ Hi(c, b) <= At(c)
      BY DEF Ended
    <3>6. Ended(c, b)' <=> Ended(c, b) \/ (b = r /\ At(c) + 1 = Hi(c, r))
      <4>1. ASSUME Ended(c, b)' PROVE Ended(c, b) \/ (b = r /\ At(c) + 1 = Hi(c, r))
        BY <3>1, <3>3, <3>4, <3>5, <4>1
      <4>2. ASSUME Ended(c, b) PROVE Ended(c, b)'
        BY <3>1, <3>4, <3>5, <4>2
      <4>3. ASSUME b = r, At(c) + 1 = Hi(c, r) PROVE Ended(c, b)'
        BY <1>5, <3>1, <3>4, <4>3
      <4> QED
        BY <4>1, <4>2, <4>3
    <3> QED
      BY <2>3, <3>6
  <2> QED
    BY <2>2, <2>3
<1> QED
  BY <1>1, <1>4, <1>7, <1>8, <1>9, <1>10, <1>11, <1>12, <1>13
\* What becomes of a part at its end: published when it is the whole request,
\* kept in the second place when it is the head, in the first one otherwise.
LEMMA ScoreBlockResults ==
  ASSUME SplitInv, NEW c \in Cores, ScoreBlock(c), NEW r, r = row[c], NEW k, k = block[c]
  PROVE  /\ scored' = [scored EXCEPT ![r] = scored[r] \cup {k}]
         /\ cached'[c] = Kept(c)
         /\ DOMAIN acc' = Cores /\ DOMAIN head' = Cores /\ DOMAIN tail' = Cores
         /\ At(c) + 1 # Hi(c, r) => acc'[c] = Merged(c) /\ UNCHANGED <<head, tail, answer, answers>>
         /\ At(c) + 1 = Hi(c, r) /\ Sole(c, r) =>
              /\ answers' = [answers EXCEPT ![r] = answers[r] + 1]
              /\ answer' = [answer EXCEPT ![r] = Whole(r)]
              /\ UNCHANGED <<head, tail>>
         /\ At(c) + 1 = Hi(c, r) /\ Heads(c, r) =>
              /\ tail'[c].needFd /\ tail'[c].res = Piece(c, r)
              /\ UNCHANGED <<head, answer, answers>>
         /\ At(c) + 1 = Hi(c, r) /\ Joins(c, r) =>
              /\ head'[c] = [needFd |-> TRUE, isS2End |-> End(r) <= ShareEnd(c),
                             row |-> r, res |-> Piece(c, r)]
              /\ UNCHANGED <<tail, answer, answers>>
<1> DEFINE part == [needFd |-> TRUE, isS2End |-> IsS2End(c), row |-> r, res |-> Merged(c)]
           keep == IF PartStart(c) = 0 THEN tail' = [tail EXCEPT ![c] = part] /\ UNCHANGED head
                   ELSE head' = [head EXCEPT ![c] = part] /\ UNCHANGED tail
           from == Lo(c, r) - Base(r)
<1>1. /\ scored' = [scored EXCEPT ![r] = scored[r] \cup {k}]
      /\ cached' = [cached EXCEPT ![c] = Kept(c)]
      /\ IF IsS2End(c) /\ PartStart(c) = 0
           THEN /\ answer' = [answer EXCEPT ![r] = Merged(c)]
                /\ answers' = [answers EXCEPT ![r] = answers[r] + 1]
                /\ UNCHANGED <<head, tail>>
                /\ acc' = [acc EXCEPT ![c] = {}]
           ELSE /\ UNCHANGED <<answer, answers>>
                /\ acc' = [acc EXCEPT ![c] = Merged(c)]
                /\ IF IsS2End(c) \/ IsAllLoopEnd(c) THEN keep ELSE UNCHANGED <<head, tail>>
  BY DEF ScoreBlock, Publish, KeepPart
<1>2. Batch /\ Types
  BY DEF SplitInv
<1>3. pc[c] = "main" /\ r <= split[c].bN2End /\ blocks[r] # 0 /\ r \in Requests
  BY ScoreBlockMoves
<1>4. /\ k \in Nat /\ At(c) = Base(r) + k /\ At(c) \in Nat /\ Has(c, r)
      /\ Lo(c, r) <= At(c) /\ At(c) < Hi(c, r)
      /\ from \in Nat /\ PartStart(c) = from
      /\ IsS2End(c) <=> At(c) + 1 = End(r)
      /\ IsS2End(c) \/ IsAllLoopEnd(c) <=> At(c) + 1 = Hi(c, r)
  BY <1>3, BlockFacts
<1>5. /\ MergesNow(c) <=> Position(c) = MergeBlocks - 1 \/ At(c) + 1 = Hi(c, r)
      /\ Merged(c) = IF MergesNow(c) THEN from .. k ELSE from .. k - Position(c) - 1
  BY <1>3, MergedFacts
<1>6. /\ Base(r) \in Nat /\ End(r) \in Nat /\ ShareEnd(c) \in Nat /\ ShareStart(c) \in Nat
      /\ Hi(c, r) \in Nat /\ Lo(c, r) \in Nat /\ blocks[r] = End(r) - Base(r)
      /\ Hi(c, r) <= End(r) /\ Hi(c, r) <= ShareEnd(c)
  BY <1>2, <1>3, RequestFacts, CoreFacts, PartFacts
<1>7. At(c) + 1 = Hi(c, r) => Merged(c) = Piece(c, r)
  <2>1. ASSUME At(c) + 1 = Hi(c, r) PROVE Merged(c) = Piece(c, r)
    <3>1. Merged(c) = from .. k
      BY <1>5, <2>1
    <3>2. k = Hi(c, r) - Base(r) - 1
      <4>1. k = At(c) - Base(r)
        BY <1>4, <1>6
      <4> QED
        BY <1>4, <1>6, <2>1, <4>1
    <3> QED
      BY <3>1, <3>2 DEF Piece
  <2> QED
    BY <2>1
<1>8. IsS2End(c) => At(c) + 1 = Hi(c, r)
  BY <1>4
<1>9. DOMAIN acc' = Cores /\ DOMAIN head' = Cores /\ DOMAIN tail' = Cores /\ cached'[c] = Kept(c)
  <2>1. DOMAIN acc' = Cores /\ cached'[c] = Kept(c)
    BY <1>1, <1>2 DEF Types
  <2>2. (head' = head \/ head' = [head EXCEPT ![c] = part])
        /\ (tail' = tail \/ tail' = [tail EXCEPT ![c] = part])
    <3> HIDE DEF part
    <3> QED
      BY <1>1
  <2> HIDE DEF part
  <2>3. DOMAIN head' = Cores /\ DOMAIN tail' = Cores
    BY <1>2, <2>2 DEF Types
  <2> QED
    BY <2>1, <2>3
<1> HIDE DEF part, from
<1>10. ASSUME At(c) + 1 # Hi(c, r)
       PROVE  acc'[c] = Merged(c) /\ UNCHANGED <<head, tail, answer, answers>>
  <2>1. ~IsS2End(c) /\ ~IsAllLoopEnd(c)
    BY <1>4, <1>10
  <2>2. acc' = [acc EXCEPT ![c] = Merged(c)] /\ UNCHANGED <<head, tail, answer, answers>>
    BY <1>1, <2>1
  <2> QED
    BY <1>2, <2>2 DEF Types
<1>11. ASSUME At(c) + 1 = Hi(c, r), Sole(c, r)
       PROVE  /\ answers' = [answers EXCEPT ![r] = answers[r] + 1]
              /\ answer' = [answer EXCEPT ![r] = Whole(r)]
              /\ UNCHANGED <<head, tail>>
  <2>1. Lo(c, r) = Base(r) /\ Hi(c, r) = End(r)
    BY <1>2, <1>3, <1>11, PartSides
  <2>2. IsS2End(c) /\ PartStart(c) = 0
    <3>1. from = 0
      BY <1>6, <2>1 DEF from
    <3> QED
      BY <1>4, <1>11, <2>1, <3>1
  <2>3. Merged(c) = Whole(r)
    <3>1. Lo(c, r) - Base(r) = 0 /\ Hi(c, r) - Base(r) - 1 = blocks[r] - 1
      BY <1>6, <2>1
    <3> QED
      BY <1>7, <1>11, <3>1 DEF Piece, Whole
  <2> QED
    BY <1>1, <2>2, <2>3
<1>12. ASSUME At(c) + 1 = Hi(c, r), Heads(c, r)
       PROVE  /\ tail'[c].needFd /\ tail'[c].res = Piece(c, r)
              /\ UNCHANGED <<head, answer, answers>>
  <2>1. Lo(c, r) = Base(r) /\ Hi(c, r) = ShareEnd(c) /\ ShareEnd(c) < End(r)
    BY <1>2, <1>3, <1>12, PartSides
  <2>2. ~IsS2End(c) /\ IsAllLoopEnd(c) /\ PartStart(c) = 0
    <3>1. from = 0
      BY <1>6, <2>1 DEF from
    <3>2. At(c) + 1 # End(r)
      BY <1>6, <1>12, <2>1
    <3> QED
      BY <1>4, <1>12, <3>1, <3>2
  <2>3. tail' = [tail EXCEPT ![c] = part] /\ UNCHANGED <<head, answer, answers>>
    BY <1>1, <2>2
  <2>4. tail'[c] = part
    BY <1>2, <2>3 DEF Types
  <2>5. part.needFd = TRUE /\ part.res = Merged(c)
    BY DEF part
  <2> QED
    BY <1>7, <1>12, <2>3, <2>4, <2>5
<1>13. ASSUME At(c) + 1 = Hi(c, r), Joins(c, r)
       PROVE  /\ head'[c] = [needFd |-> TRUE, isS2End |-> End(r) <= ShareEnd(c),
                             row |-> r, res |-> Piece(c, r)]
              /\ UNCHANGED <<tail, answer, answers>>
  <2>1. /\ Lo(c, r) = ShareStart(c) /\ Base(r) < ShareStart(c)
        /\ End(r) <= ShareEnd(c) => Hi(c, r) = End(r)
        /\ ShareEnd(c) < End(r) => Hi(c, r) = ShareEnd(c)
    BY <1>2, <1>3, <1>13, PartSides
  <2>2. PartStart(c) # 0
    <3>1. from # 0
      BY <1>6, <2>1 DEF from
    <3> QED
      BY <1>4, <3>1
  <2>3. IsS2End(c) \/ IsAllLoopEnd(c)
    BY <1>4, <1>13
  <2>4. head' = [head EXCEPT ![c] = part] /\ UNCHANGED <<tail, answer, answers>>
    BY <1>1, <2>2, <2>3
  <2>5. IsS2End(c) <=> End(r) <= ShareEnd(c)
    <3>1. IsS2End(c) <=> Hi(c, r) = End(r)
      BY <1>4, <1>13
    <3> QED
      BY <1>6, <2>1, <3>1
  <2>6. head'[c] = part
    BY <1>2, <2>4 DEF Types
  <2>7. IsS2End(c) = (End(r) <= ShareEnd(c))
    <3>1. IsS2End(c) \in BOOLEAN
      BY DEF IsS2End
    <3> QED
      BY <2>5, <3>1
  <2>8. part = [needFd |-> TRUE, isS2End |-> End(r) <= ShareEnd(c), row |-> r, res |-> Piece(c, r)]
    BY <1>7, <1>13, <2>7, Zenon DEF part
  <2> QED
    BY <2>4, <2>6, <2>8
<1> QED
  BY <1>1, <1>9, <1>10, <1>11, <1>12, <1>13
\* A step that scores a block keeps the invariant.
LEMMA ScoreBlockKeeps ==
  ASSUME SplitInv, NEW c \in Cores, ScoreBlock(c)
  PROVE  SplitInv'
<1> DEFINE r == row[c]
           k == block[c]
           from == Lo(c, r) - Base(r)
           ends == At(c) + 1 = Hi(c, r)
<1>1. Batch /\ Types /\ Places /\ Positions /\ Partway /\ Parts /\ Walking /\ Answered /\ Scored
  BY DEF SplitInv
<1>2. /\ pc[c] = "main" /\ r <= split[c].bN2End /\ blocks[r] # 0 /\ r \in Requests
      /\ UNCHANGED <<blocks, split, pc, walk, cleaned, united>>
      /\ At(c)' = At(c) + 1 /\ ~first'[c] /\ row'[c] \in Nat /\ block'[c] \in Nat
      /\ IF ends THEN row'[c] = r + 1 /\ block'[c] = 0
                 ELSE row'[c] = r /\ block'[c] = k + 1 /\ start'[c] = from
      /\ \A d \in Cores : d # c => /\ row'[d] = row[d] /\ block'[d] = block[d] /\ start'[d] = start[d]
                                   /\ cached'[d] = cached[d] /\ acc'[d] = acc[d]
                                   /\ head'[d] = head[d] /\ tail'[d] = tail[d]
                                   /\ first'[d] = first[d] /\ At(d)' = At(d)
      /\ \A d \in Cores, b \in Requests :
           Ended(d, b)' <=> Ended(d, b) \/ (d = c /\ b = r /\ ends)
      /\ ~Ended(c, r)
  BY ScoreBlockMoves
<1>3. /\ scored' = [scored EXCEPT ![r] = scored[r] \cup {k}]
      /\ cached'[c] = Kept(c)
      /\ DOMAIN acc' = Cores /\ DOMAIN head' = Cores /\ DOMAIN tail' = Cores
      /\ ~ends => acc'[c] = Merged(c) /\ UNCHANGED <<head, tail, answer, answers>>
      /\ ends /\ Sole(c, r) => /\ answers' = [answers EXCEPT ![r] = answers[r] + 1]
                               /\ answer' = [answer EXCEPT ![r] = Whole(r)]
                               /\ UNCHANGED <<head, tail>>
      /\ ends /\ Heads(c, r) => /\ tail'[c].needFd /\ tail'[c].res = Piece(c, r)
                                /\ UNCHANGED <<head, answer, answers>>
      /\ ends /\ Joins(c, r) => /\ head'[c] = [needFd |-> TRUE, isS2End |-> End(r) <= ShareEnd(c),
                                               row |-> r, res |-> Piece(c, r)]
                                /\ UNCHANGED <<tail, answer, answers>>
  BY ScoreBlockResults
<1>4. /\ c < Used /\ k \in Nat /\ k < blocks[r] /\ At(c) = Base(r) + k /\ At(c) \in Nat
      /\ Has(c, r) /\ Lo(c, r) <= At(c) /\ At(c) < Hi(c, r) /\ from \in Nat
  BY <1>2, BlockFacts
<1>5. /\ Position(c) \in 0 .. MergeBlocks - 1 /\ Position(c) <= k - from
      /\ (k + 1 - from) % MergeBlocks = IF Position(c) = MergeBlocks - 1 THEN 0 ELSE Position(c) + 1
      /\ Kept(c) = k - Position(c) .. k
      /\ MergesNow(c) <=> Position(c) = MergeBlocks - 1 \/ ends
      /\ Merged(c) = IF MergesNow(c) THEN from .. k ELSE from .. k - Position(c) - 1
  BY <1>2, MergedFacts
<1>6. /\ Base(r) \in Nat /\ End(r) \in Nat /\ blocks[r] = End(r) - Base(r) /\ r \in Nat
      /\ Lo(c, r) \in Nat /\ Hi(c, r) \in Nat /\ Hi(c, r) <= End(r) /\ Hi(c, r) <= ShareEnd(c)
      /\ ShareStart(c) <= Lo(c, r) /\ ShareStart(c) \in Nat /\ ShareEnd(c) \in Nat
      /\ MergeBlocks \in Nat \ {0}
  BY <1>1, <1>2, RequestFacts, PartFacts, CoreFacts, SizeAssumption
<1>7. Sole(c, r) \/ Heads(c, r) \/ Joins(c, r)
  BY <1>1, <1>2, <1>4, PartKinds
<1>8. /\ Batch' = Batch /\ Total' = Total /\ Used' = Used
      /\ \A b : Base(b)' = Base(b) /\ End(b)' = End(b) /\ Whole(b)' = Whole(b)
      /\ \A d : ShareStart(d)' = ShareStart(d) /\ ShareEnd(d)' = ShareEnd(d)
      /\ \A d, b : /\ Lo(d, b)' = Lo(d, b) /\ Hi(d, b)' = Hi(d, b)
                   /\ Has(d, b)' = Has(d, b) /\ Piece(d, b)' = Piece(d, b)
                   /\ Sole(d, b)' = Sole(d, b) /\ Heads(d, b)' = Heads(d, b)
                   /\ Joins(d, b)' = Joins(d, b) /\ Cleans(d, b)' = Cleans(d, b)
  BY <1>2, BatchKept
<1>9. row[c] = r /\ block[c] = k
  OBVIOUS
<1>10. ends => /\ row'[c] <= split[c].bN2End + 1 /\ split[c].bN2Start <= row'[c]
               /\ row'[c] <= split[c].bN2End =>
                    /\ row'[c] \in Requests /\ At(c)' = Base(row'[c])
                    /\ blocks[row'[c]] # 0 => At(c)' < ShareEnd(c)
  BY <1>2, <1>4, NextRow
<1>11. /\ split[c].bN2Start \in Nat /\ split[c].bN2End \in Nat /\ split[c].bN2Start <= r
       /\ ShareStart(c) <= At(c)
  BY <1>1, <1>4, RowFacts, AtFacts DEF Positions
<1>12. answers[r] \in 0 .. 1 /\ (Sole(c, r) => answers[r] = 0)
  <2>1. answers[r] \in 0 .. 1
    BY <1>1, <1>2 DEF Types
  <2>2. Sole(c, r) => answers[r] # 1
    BY <1>1, <1>2 DEF Answered
  <2> QED
    BY <2>1, <2>2
<1>13. /\ ends /\ Sole(c, r) => /\ answers'[r] = 1 /\ answer'[r] = Whole(r)
                                /\ \A b \in Requests : b # r => /\ answers'[b] = answers[b]
                                                                /\ answer'[b] = answer[b]
       /\ ~ (ends /\ Sole(c, r)) => UNCHANGED <<answer, answers>>
  <2>1. ASSUME ends, Sole(c, r)
        PROVE  /\ answers'[r] = 1 /\ answer'[r] = Whole(r)
               /\ \A b \in Requests : b # r => answers'[b] = answers[b] /\ answer'[b] = answer[b]
    <3>1. /\ answers' = [answers EXCEPT ![r] = answers[r] + 1]
          /\ answer' = [answer EXCEPT ![r] = Whole(r)]
          /\ answers[r] = 0
      BY <1>3, <1>12, <2>1
    <3> HIDE DEF r
    <3> QED
      BY <1>1, <1>2, <3>1 DEF Types
  <2>2. ~ (ends /\ Sole(c, r)) => UNCHANGED <<answer, answers>>
    BY <1>3, <1>7
  <2> QED
    BY <2>1, <2>2
<1> HIDE DEF r, k, from, ends
<1>14. Types'
  <2>1. row' \in [Cores -> Nat] /\ block' \in [Cores -> Nat]
    <3>1. DOMAIN row' = Cores /\ DOMAIN block' = Cores /\ DOMAIN first' = Cores
          /\ DOMAIN start' = Cores /\ DOMAIN cached' = Cores /\ DOMAIN scored' = Requests
      BY <1>1 DEF ScoreBlock, Types
    <3>2. \A d \in Cores : row'[d] \in Nat /\ block'[d] \in Nat
      BY <1>1, <1>2 DEF Types
    <3>3. row' = [d \in Cores |-> row'[d]] /\ block' = [d \in Cores |-> block'[d]]
      BY <1>1 DEF ScoreBlock, Types
    <3> QED
      BY <3>2, <3>3
  <2>2. /\ DOMAIN first' = Cores /\ DOMAIN start' = Cores /\ DOMAIN cached' = Cores
        /\ DOMAIN scored' = Requests
    BY <1>1 DEF ScoreBlock, Types
  <2>3. answers' \in [Requests -> 0 .. 1] /\ DOMAIN answer' = Requests
    <3>1. CASE ends /\ Sole(c, r)
      BY <1>1, <1>2, <1>3, <1>12, <3>1 DEF Types
    <3>2. CASE ~ (ends /\ Sole(c, r))
      BY <1>1, <1>13, <3>2 DEF Types
    <3> QED
      BY <3>1, <3>2
  <2> QED
    BY <1>1, <1>2, <1>3, <2>1, <2>2, <2>3 DEF Types
<1>15. Places'
  <2>1. \A d \in Cores :
          /\ pc[d] = "main" => d < Used
          /\ pc[d] \in {"sync", "merge", "walk"} => Total # 0
          /\ pc[d] = "invalid" => Total = 0
          /\ pc[d] = "init" => first'[d] /\ row'[d] = split[d].bN2Start
          /\ d < Used /\ pc[d] \notin Before => row'[d] > split[d].bN2End
    BY <1>1, <1>2 DEF Places, Before
  <2>2. /\ \A d, e \in Cores : pc[d] \in Merging /\ Total # 0 => pc[e] \in Merging
        /\ \A d, e \in Cores : pc[d] \in Last => pc[e] \in Last
        /\ united # {} => \A d \in Cores : pc[d] \in Last
    BY <1>1 DEF Places
  <2> QED
    BY <1>2, <1>8, <2>1, <2>2 DEF Places
<1>16. Positions'
  <2>1. ASSUME NEW d \in Cores, d < Used, d # c
        PROVE  /\ split[d].bN2Start <= row'[d] /\ row'[d] <= split[d].bN2End + 1
               /\ row'[d] <= split[d].bN2End =>
                    /\ ShareStart(d) <= At(d)' /\ At(d)' <= ShareEnd(d)
                    /\ IF blocks[row'[d]] = 0 THEN block'[d] = 0
                       ELSE block'[d] < blocks[row'[d]] /\ At(d)' < ShareEnd(d)
               /\ first'[d] <=> At(d)' = ShareStart(d)
    BY <1>1, <1>2, <2>1 DEF Positions
  <2>2. /\ ShareStart(c) <= At(c)' /\ At(c)' <= ShareEnd(c) /\ At(c)' # ShareStart(c)
    BY <1>2, <1>4, <1>6, <1>11
  <2>3. /\ split[c].bN2Start <= row'[c] /\ row'[c] <= split[c].bN2End + 1
        /\ row'[c] <= split[c].bN2End =>
             IF blocks[row'[c]] = 0 THEN block'[c] = 0
             ELSE block'[c] < blocks[row'[c]] /\ At(c)' < ShareEnd(c)
    <3>1. CASE ends
      <4>1. ASSUME row'[c] <= split[c].bN2End, blocks[row'[c]] # 0
            PROVE  block'[c] < blocks[row'[c]] /\ At(c)' < ShareEnd(c)
        <5>1. blocks[row'[c]] \in Nat
          BY <1>1, <1>10, <3>1, <4>1, RequestFacts
        <5> QED
          BY <1>2, <1>10, <3>1, <4>1, <5>1
      <4> QED
        BY <1>2, <1>10, <3>1, <4>1
    <3>2. CASE ~ends
      <4>1. row'[c] = r /\ block'[c] = k + 1 /\ At(c) + 1 # Hi(c, r)
        BY <1>2, <3>2 DEF ends
      <4>2. At(c) + 1 < Hi(c, r)
        BY <1>4, <1>6, <4>1
      <4>3. k + 1 < blocks[r] /\ At(c) + 1 < ShareEnd(c)
        BY <1>4, <1>6, <4>2
      <4>4. r <= split[c].bN2End + 1
        BY <1>2, <1>6, <1>11
      <4> QED
        BY <1>2, <1>11, <4>1, <4>3, <4>4
    <3> QED
      BY <3>1, <3>2
  <2>4. ASSUME NEW d \in Cores, d < Used
        PROVE  /\ split[d].bN2Start <= row'[d] /\ row'[d] <= split[d].bN2End + 1
               /\ row'[d] <= split[d].bN2End =>
                    /\ ShareStart(d) <= At(d)' /\ At(d)' <= ShareEnd(d)
                    /\ IF blocks[row'[d]] = 0 THEN block'[d] = 0
                       ELSE block'[d] < blocks[row'[d]] /\ At(d)' < ShareEnd(d)
               /\ first'[d] <=> At(d)' = ShareStart(d)
    <3>1. CASE d = c
      BY <1>2, <2>2, <2>3, <3>1
    <3> QED
      BY <2>1, <2>4, <3>1
  <2> QED
    BY <1>2, <1>8, <2>4 DEF Positions
<1>17. Partway'
  <2>1. ASSUME NEW b \in Requests, b = row'[c], b <= split[c].bN2End, Lo(c, b) < At(c)'
        PROVE  LET lo == Lo(c, b) - Base(b)
                   waiting == (block'[c] - lo) % MergeBlocks
               IN  /\ start'[c] = lo
                   /\ acc'[c] = lo .. block'[c] - waiting - 1
                   /\ waiting > 0 => cached'[c] = block'[c] - waiting .. block'[c] - 1
    <3>1. ~ends
      <4>1. Lo(c, b) \in Nat /\ Base(b) <= Lo(c, b) /\ Base(b) \in Nat
        BY <1>1, PartFacts, RequestFacts
      <4>2. ends => At(c)' = Base(b)
        BY <1>10, <2>1
      <4> QED
        BY <2>1, <4>1, <4>2
    <3>2. b = r /\ block'[c] = k + 1 /\ start'[c] = from
      BY <1>2, <2>1, <3>1
    <3>3. Lo(c, b) - Base(b) = from
      BY <3>2 DEF from
    <3>4. acc'[c] = Merged(c) /\ cached'[c] = k - Position(c) .. k
      BY <1>3, <1>5, <3>1
    <3>5. (block'[c] - from) % MergeBlocks =
            IF Position(c) = MergeBlocks - 1 THEN 0 ELSE Position(c) + 1
      BY <1>4, <1>5, <3>2
    <3> DEFINE waiting == (block'[c] - from) % MergeBlocks
               p == Position(c)
    <3>6. p \in Nat /\ waiting = IF p = MergeBlocks - 1 THEN 0 ELSE p + 1
      BY <1>5, <1>6, <3>5
    <3>7. Merged(c) = IF p = MergeBlocks - 1 THEN from .. k ELSE from .. k - p - 1
      BY <1>5, <3>1
    <3> HIDE DEF waiting, p
    <3>8. acc'[c] = from .. block'[c] - waiting - 1
      <4>1. CASE p = MergeBlocks - 1
        <5>1. block'[c] - waiting - 1 = k
          BY <1>4, <3>2, <3>6, <4>1
        <5> QED
          BY <3>4, <3>7, <4>1, <5>1
      <4>2. CASE p # MergeBlocks - 1
        <5>1. block'[c] - waiting - 1 = k - p - 1
          BY <1>4, <3>2, <3>6, <4>2
        <5> QED
          BY <3>4, <3>7, <4>2, <5>1
      <4> QED
        BY <4>1, <4>2
    <3>9. waiting > 0 => cached'[c] = block'[c] - waiting .. block'[c] - 1
      <4>1. ASSUME waiting > 0 PROVE cached'[c] = block'[c] - waiting .. block'[c] - 1
        <5>1. block'[c] - waiting = k - p /\ block'[c] - 1 = k
          BY <1>4, <3>2, <3>6, <4>1
        <5>2. cached'[c] = k - p .. k
          BY <3>4 DEF p
        <5> QED
          BY <5>1, <5>2
      <4> QED
        BY <4>1
    <3> QED
      BY <3>2, <3>3, <3>8, <3>9 DEF waiting
  <2>2. ASSUME NEW d \in Cores, d < Used
        PROVE  /\ first'[d] => acc'[d] = {}
               /\ \A b \in Requests : b = row'[d] /\ b <= split[d].bN2End /\ Lo(d, b) < At(d)' =>
                    LET lo == Lo(d, b) - Base(b)
                        waiting == (block'[d] - lo) % MergeBlocks
                    IN  /\ start'[d] = lo
                        /\ acc'[d] = lo .. block'[d] - waiting - 1
                        /\ waiting > 0 => cached'[d] = block'[d] - waiting .. block'[d] - 1
    <3>1. CASE d = c
      BY <1>2, <2>1, <3>1
    <3>2. CASE d # c
      <4>1. /\ row'[d] = row[d] /\ block'[d] = block[d] /\ start'[d] = start[d]
            /\ cached'[d] = cached[d] /\ acc'[d] = acc[d]
            /\ first'[d] = first[d] /\ At(d)' = At(d)
        BY <1>2, <3>2
      <4> QED
        BY <1>1, <2>2, <4>1 DEF Partway
    <3> QED
      BY <3>1, <3>2
  <2> QED
    BY <1>2, <1>8, <2>2 DEF Partway
<1>18. Parts'
  <2>1. ASSUME NEW d \in Cores, NEW b \in Requests, Joins(d, b), Ended(d, b)'
        PROVE  head'[d] = [needFd |-> TRUE, isS2End |-> End(b) <= ShareEnd(d),
                           row |-> b, res |-> Piece(d, b)]
    <3>1. CASE d = c /\ b = r /\ ends
      BY <1>3, <2>1, <3>1
    <3>2. CASE ~ (d = c /\ b = r /\ ends)
      <4>1. Ended(d, b)
        BY <1>2, <2>1, <3>2
      <4>2. head[d] = [needFd |-> TRUE, isS2End |-> End(b) <= ShareEnd(d),
                       row |-> b, res |-> Piece(d, b)]
        BY <1>1, <2>1, <4>1 DEF Parts
      <4>3. head'[d] = head[d]
        <5>1. CASE d = c
          <6>1. ~ (ends /\ Joins(c, r))
            BY <1>1, <1>2, <2>1, <3>2, <5>1, OwnerUnique
          <6> QED
            BY <1>3, <1>7, <5>1, <6>1
        <5> QED
          BY <1>2, <5>1
      <4> QED
        BY <4>2, <4>3
    <3> QED
      BY <3>1, <3>2
  <2>2. ASSUME NEW d \in Cores, NEW b \in Requests, Heads(d, b), Ended(d, b)'
        PROVE  tail'[d].needFd /\ tail'[d].res = Piece(d, b)
    <3>1. CASE d = c /\ b = r /\ ends
      BY <1>3, <2>2, <3>1
    <3>2. CASE ~ (d = c /\ b = r /\ ends)
      <4>1. Ended(d, b)
        BY <1>2, <2>2, <3>2
      <4>2. tail[d].needFd /\ tail[d].res = Piece(d, b)
        BY <1>1, <2>2, <4>1 DEF Parts
      <4>3. tail'[d] = tail[d]
        <5>1. CASE d = c
          <6>1. ~ (ends /\ Heads(c, r))
            BY <1>1, <1>2, <2>2, <3>2, <5>1, OwnerUnique
          <6> QED
            BY <1>3, <1>7, <5>1, <6>1
        <5> QED
          BY <1>2, <5>1
      <4> QED
        BY <4>2, <4>3
    <3> QED
      BY <3>1, <3>2
  <2> QED
    BY <1>8, <2>1, <2>2 DEF Parts
<1>19. Walking'
  <2>1. \A d \in Cores : pc[d] # "walk"
    <3>1. pc[c] \notin Merging /\ Total # 0
      <4>1. Total # 0
        BY <1>1, <1>4, ShareFacts, CoreFacts
      <4> QED
        BY <1>2, <4>1 DEF Merging
    <3> QED
      BY <1>1, <1>2, <3>1 DEF Places, Merging
  <2> QED
    BY <1>2, <2>1 DEF Walking
<1>20. Answered'
  <2>1. \A d \in Cores : Slice(d)' = Slice(d)
    BY DEF Slice
  <2>2. \A b \in Requests : /\ answers'[b] = 1 => answer'[b] = Whole(b)
                            /\ IF blocks[b] = 0 THEN answers'[b] = 0 ELSE cleaned[b] = 0
    <3>1. ASSUME NEW b \in Requests
          PROVE  /\ answers'[b] = 1 => answer'[b] = Whole(b)
                 /\ IF blocks[b] = 0 THEN answers'[b] = 0 ELSE cleaned[b] = 0
      <4>1. /\ answers[b] = 1 => answer[b] = Whole(b)
            /\ IF blocks[b] = 0 THEN answers[b] = 0 ELSE cleaned[b] = 0
        BY <1>1 DEF Answered
      <4> QED
        BY <1>2, <1>13, <4>1
    <3> QED
      BY <3>1
  <2>3. ASSUME NEW d \in Cores, NEW b \in Requests, Sole(d, b)
        PROVE  answers'[b] = 1 <=> Ended(d, b)'
    <3>1. answers[b] = 1 <=> Ended(d, b)
      BY <1>1, <2>3 DEF Answered
    <3>2. CASE b = r
      <4>1. d = c
        BY <1>1, <1>2, <1>4, <2>3, <3>2, OwnerUnique
      <4>2. CASE ends
        BY <1>2, <1>13, <2>3, <3>2, <4>1, <4>2
      <4>3. CASE ~ends
        BY <1>2, <1>13, <3>1, <4>3
      <4> QED
        BY <4>2, <4>3
    <3>3. CASE b # r
      BY <1>2, <1>13, <3>1, <3>3
    <3> QED
      BY <3>2, <3>3
  <2>4. ASSUME NEW d \in Cores, NEW b \in Requests, Heads(d, b)
        PROVE  answers'[b] = 1 <=> pc[d] \in Published
    <3>1. answers[b] = 1 <=> pc[d] \in Published
      BY <1>1, <2>4 DEF Answered
    <3>2. CASE ends /\ Sole(c, r)
      <4>1. b # r
        <5>1. ASSUME b = r PROVE FALSE
          <6>1. Has(d, r)
            BY <2>4, <5>1 DEF Heads
          <6>2. d = c
            BY <1>1, <1>2, <3>2, <6>1, OwnerUnique
          <6> QED
            BY <1>1, <1>2, <2>4, <3>2, <5>1, <6>2, OwnerUnique
        <5> QED
          BY <5>1
      <4> QED
        BY <1>13, <3>1, <3>2, <4>1
    <3>3. CASE ~ (ends /\ Sole(c, r))
      BY <1>13, <3>1, <3>3
    <3> QED
      BY <3>2, <3>3
  <2>5. ASSUME NEW d \in Cores, NEW b \in Requests, Cleans(d, b)
        PROVE  cleaned[b] = 1 <=> b < row'[d]
    <3>1. cleaned[b] = 1 <=> b < row[d]
      BY <1>1, <2>5 DEF Answered
    <3>2. blocks[b] = 0 /\ b \in Nat
      BY <2>5 DEF Cleans, Requests
    <3>3. CASE d = c
      <4>1. b # r
        BY <1>2, <3>2
      <4>2. row'[c] = r \/ row'[c] = r + 1
        BY <1>2
      <4>3. row[c] = r
        BY DEF r
      <4> QED
        BY <1>6, <3>1, <3>2, <3>3, <4>1, <4>2, <4>3
    <3>4. CASE d # c
      BY <1>2, <3>1, <3>4
    <3> QED
      BY <3>3, <3>4
  <2>6. Total # 0
    BY <1>1, <1>4, ShareFacts, CoreFacts
  <2> QED
    BY <1>2, <1>8, <2>1, <2>2, <2>3, <2>4, <2>5, <2>6 DEF Answered
<1>21. Scored'
  <2>1. scored'[r] = scored[r] \cup {k} /\ \A b \in Requests : b # r => scored'[b] = scored[b]
    BY <1>1, <1>2, <1>3 DEF Types
  <2>2. \A b \in Requests : scored'[b] \subseteq Whole(b)
    <3>1. \A b \in Requests : scored[b] \subseteq Whole(b)
      BY <1>1 DEF Scored
    <3>2. k \in Whole(r)
      BY <1>4, <1>6 DEF Whole
    <3> QED
      BY <2>1, <3>1, <3>2
  <2>3. ASSUME NEW d \in Cores, NEW b \in Requests, Has(d, b), NEW j \in Piece(d, b),
               Base(b) + j < At(d)'
        PROVE  j \in scored'[b]
    <3>1. CASE Base(b) + j < At(d)
      <4>1. j \in scored[b]
        BY <1>1, <2>3, <3>1 DEF Scored
      <4> QED
        BY <2>1, <4>1
    <3>2. CASE ~ (Base(b) + j < At(d))
      <4>1. d = c /\ At(d)' = At(c) + 1
        BY <1>2, <2>3, <3>2
      <4>2. /\ Base(b) \in Nat /\ Lo(c, b) \in Nat /\ Hi(c, b) \in Nat
            /\ Base(b) <= Lo(c, b) /\ Hi(c, b) <= End(b) /\ End(b) \in Nat
        BY <1>1, RequestFacts, PartFacts
      <4>3. j \in Int /\ Lo(c, b) - Base(b) <= j /\ j <= Hi(c, b) - Base(b) - 1
        BY <2>3, <4>1, <4>2 DEF Piece
      <4>4. Base(b) + j = At(c)
        BY <1>4, <2>3, <3>2, <4>1, <4>2, <4>3
      <4>5. Base(b) <= At(c) /\ At(c) < End(b)
        BY <4>2, <4>3, <4>4
      <4>6. Base(r) <= At(c) /\ At(c) < End(r) /\ At(c) \in Int
        BY <1>4, <1>6
      <4>7. b = r
        BY <1>1, <1>2, <4>5, <4>6, RequestUnique
      <4>8. j = k
        BY <1>4, <1>6, <4>3, <4>4, <4>7
      <4> QED
        BY <2>1, <4>7, <4>8
    <3> QED
      BY <3>1, <3>2
  <2> QED
    BY <1>8, <2>2, <2>3 DEF Scored
<1> QED
  BY <1>1, <1>8, <1>14, <1>15, <1>16, <1>17, <1>18, <1>19, <1>20, <1>21 DEF SplitInv

-----------------------------------------------------------------------------
(* The invariant holds, and the properties with it.                        *)

\* It holds when the launch begins.
LEMMA InitEstablishes ==
  ASSUME Init
  PROVE  SplitInv
<1>1. Batch
  <2>1. MinBlocks .. MaxBlocks \subseteq Nat
    BY SizeAssumption
  <2> QED
    BY <2>1 DEF Init, Batch
<1>2. /\ \A c \in Cores : /\ pc[c] = "init" /\ row[c] = split[c].bN2Start
                          /\ block[c] = split[c].s2Start /\ first[c] /\ acc[c] = {}
      /\ \A b \in Requests : scored[b] = {} /\ answers[b] = 0 /\ cleaned[b] = 0
      /\ united = {}
  BY DEF Init
<1>3. ASSUME NEW c \in Cores
      PROVE  split[c].bN2Start \in Nat /\ split[c].s2Start \in Nat
  <2>1. CASE c < Used
    BY <1>1, <2>1, FirstRow, RowFacts
  <2>2. CASE ~ (c < Used)
    <3>1. split[c] = NoWork
      BY <1>1, <2>2 DEF Batch
    <3> QED
      BY <3>1 DEF NoWork
  <2> QED
    BY <2>1, <2>2
<1>4. Types
  <2>1. \A c \in Cores : row[c] \in Nat /\ block[c] \in Nat
    BY <1>2, <1>3
  <2>2. row = [c \in Cores |-> row[c]] /\ block = [c \in Cores |-> block[c]]
    BY DEF Init
  <2>3. row \in [Cores -> Nat] /\ block \in [Cores -> Nat]
    BY <2>1, <2>2
  <2>4. pc \in [Cores -> Before \cup Merging \cup {"invalid", "sync"}]
    BY DEF Init, Before
  <2>5. DOMAIN head = Cores /\ DOMAIN tail = Cores
    BY DEF Init
  <2> QED
    BY <2>3, <2>4, <2>5 DEF Init, Types
<1>5. Places
  BY <1>2 DEF Places, Before, Merging, Last
<1>6. ASSUME NEW c \in Cores, c < Used
      PROVE  At(c) = ShareStart(c)
  <2>1. Base(split[c].bN2Start) + split[c].s2Start = ShareStart(c)
    BY <1>1, <1>6, FirstRow
  <2>2. split[c].bN2Start <= split[c].bN2End
    BY <1>1, <1>6, RowFacts
  <2> QED
    BY <1>2, <2>1, <2>2 DEF At
<1>7. Positions
  <2>1. ASSUME NEW c \in Cores, c < Used
        PROVE  /\ split[c].bN2Start <= row[c] /\ row[c] <= split[c].bN2End + 1
               /\ ShareStart(c) <= At(c) /\ At(c) < ShareEnd(c) /\ At(c) <= ShareEnd(c)
               /\ IF blocks[row[c]] = 0 THEN block[c] = 0 ELSE block[c] < blocks[row[c]]
               /\ first[c] <=> At(c) = ShareStart(c)
    <3>1. /\ split[c].bN2Start \in Nat /\ split[c].bN2End \in Nat
          /\ split[c].bN2Start <= split[c].bN2End
      BY <1>1, <2>1, RowFacts
    <3>2. ShareStart(c) \in Nat /\ ShareEnd(c) \in Nat /\ ShareStart(c) < ShareEnd(c)
      BY <1>1, <2>1, CoreFacts
    <3>3. /\ split[c].s2Start \in Nat /\ split[c].s2Start <= blocks[split[c].bN2Start]
          /\ blocks[split[c].bN2Start] # 0 => split[c].s2Start < blocks[split[c].bN2Start]
      BY <1>1, <2>1, FirstRow
    <3> QED
      BY <1>2, <1>6, <2>1, <3>1, <3>2, <3>3
  <2> QED
    BY <2>1 DEF Positions
<1>8. \A c \in Cores, b \in Requests : ~Ended(c, b) /\ (c < Used => ~ (Lo(c, b) < At(c)))
  <2>1. ASSUME NEW c \in Cores, NEW b \in Requests
        PROVE  ~Ended(c, b) /\ (c < Used => ~ (Lo(c, b) < At(c)))
    <3>1. /\ Lo(c, b) \in Nat /\ Hi(c, b) \in Nat /\ ShareStart(c) <= Lo(c, b)
          /\ ShareStart(c) \in Nat
          /\ Has(c, b) => c < Used
      BY <1>1, PartFacts, CoreFacts
    <3> QED
      BY <1>6, <3>1 DEF Ended, Has
  <2> QED
    BY <2>1
<1>9. Partway
  BY <1>2, <1>8 DEF Partway
<1>10. Parts
  BY <1>8 DEF Parts
<1>11. Walking
  BY <1>2 DEF Walking
<1>12. Answered
  <2>1. \A c \in Cores, b \in Requests : Cleans(c, b) => ~ (b < row[c])
    <3>1. ASSUME NEW c \in Cores, NEW b \in Requests, Cleans(c, b) PROVE ~ (b < row[c])
      <4>1. row[c] <= b /\ row[c] \in Nat /\ b \in Nat
        BY <1>2, <1>3, <3>1 DEF Cleans, Requests
      <4> QED
        BY <4>1
    <3> QED
      BY <3>1
  <2>2. \A c \in Cores : pc[c] \notin Published
    BY <1>2 DEF Published
  <2> QED
    BY <1>2, <1>8, <2>1, <2>2 DEF Answered
<1>13. Scored
  <2>1. ASSUME NEW c \in Cores, NEW b \in Requests, Has(c, b), NEW j \in Piece(c, b),
               Base(b) + j < At(c)
        PROVE  FALSE
    <3>1. /\ Lo(c, b) \in Nat /\ Hi(c, b) \in Nat /\ Base(b) \in Nat /\ c < Used
          /\ At(c) = ShareStart(c) /\ ShareStart(c) \in Nat
      BY <1>1, <1>6, <2>1, PartFacts, RequestFacts, CoreFacts
    <3>2. j \in Int /\ Lo(c, b) - Base(b) <= j
      BY <2>1, <3>1 DEF Piece
    <3>3. ~ (Lo(c, b) < At(c))
      BY <1>8, <3>1
    <3> QED
      BY <2>1, <3>1, <3>2, <3>3
  <2> QED
    BY <1>2, <2>1 DEF Scored
<1> QED
  BY <1>1, <1>4, <1>5, <1>7, <1>9, <1>10, <1>11, <1>12, <1>13 DEF SplitInv

\* It holds throughout.
LEMMA SplitInvHolds == Spec => []SplitInv
<1>1. SplitInv /\ [Next]_vars => SplitInv'
  <2>1. SUFFICES ASSUME SplitInv, [Next]_vars PROVE SplitInv'
    OBVIOUS
  <2>2. CASE \E c \in Cores : CoreStep(c)
    <3>1. PICK c \in Cores : CoreStep(c)
      BY <2>2
    <3>2. CASE InitBuffers(c)
      BY <2>1, <3>2, InitBuffersKeeps
    <3>3. CASE ProcessInvalid(c)
      BY <2>1, <3>3, ProcessInvalidKeeps
    <3>4. CASE CleanEmpty(c)
      BY <2>1, <3>4, CleanEmptyKeeps
    <3>5. CASE ScoreBlock(c)
      BY <2>1, <3>5, ScoreBlockKeeps
    <3>6. CASE EndMain(c)
      BY <2>1, <3>6, EndMainKeeps
    <3>7. CASE BeginMerge(c)
      BY <2>1, <3>7, BeginMergeKeeps
    <3>8. CASE WalkOn(c)
      BY <2>1, <3>8, WalkOnKeeps
    <3>9. CASE Union(c)
      BY <2>1, <3>9, UnionKeeps
    <3> QED
      BY <3>1, <3>2, <3>3, <3>4, <3>5, <3>6, <3>7, <3>8, <3>9 DEF CoreStep
  <2>3. CASE SyncAll
    BY <2>1, <2>3, BarrierKeeps DEF SyncAll
  <2>4. CASE PublishAll
    BY <2>1, <2>4, BarrierKeeps DEF PublishAll
  <2>5. CASE UNCHANGED vars
    <3>1. /\ UNCHANGED <<blocks, split, pc, row, block, first, start, cached, acc, head, tail,
                         walk, scored, answer, answers, cleaned, united>>
      BY <2>5 DEF vars
    <3>2. Batch /\ Types /\ Places /\ Positions /\ Partway /\ Parts /\ Walking /\ Answered /\ Scored
      BY <2>1 DEF SplitInv
    <3>3. Types'
      BY <3>1, <3>2 DEF Types
    <3>4. Places'
      BY <3>1, <3>2, BatchKept DEF Places
    <3>5. Batch' /\ Positions' /\ Partway' /\ Parts' /\ Scored'
      BY <3>1, <3>2, BatchKept, PositionsKept, PartwayKept, PartsKept, ScoredKept
    <3>6. Walking' /\ Answered'
      BY <3>1, <3>2, WalkingKept, AnsweredKept
    <3> QED
      BY <3>3, <3>4, <3>5, <3>6 DEF SplitInv
  <2> QED
    BY <2>1, <2>2, <2>3, <2>4, <2>5 DEF Next, Returned
<1> QED
  BY InitEstablishes, <1>1, PTL DEF Spec

\* The top K published for a request was merged from all its blocks and from
\* nothing else, whether one core scored them all or a chain of cores did.
THEOREM AnswersAreWholeHolds == Spec => []AnswersAreWhole
<1>1. SplitInv => AnswersAreWhole
  <2>1. ASSUME SplitInv, NEW b \in Requests, answers[b] > 0 PROVE answer[b] = Whole(b)
    <3>1. answers[b] \in 0 .. 1
      BY <2>1 DEF SplitInv, Types
    <3>2. answers[b] = 1
      BY <2>1, <3>1
    <3> QED
      BY <2>1, <3>2 DEF SplitInv, Answered
  <2> QED
    BY <2>1 DEF AnswersAreWhole
<1> QED
  BY <1>1, SplitInvHolds, PTL

\* Every request is answered by one core, or, when its length is zero, cleaned by
\* one core, and that and the scores of its blocks are there before any union.
THEOREM HandledOnceHolds == Spec => []HandledOnce
<1>1. SplitInv => HandledOnce
  <2>1. SUFFICES ASSUME SplitInv, NEW b \in Requests
                 PROVE  /\ answers[b] + cleaned[b] <= 1
                        /\ united # {} => /\ answers[b] + cleaned[b] = 1
                                          /\ (cleaned[b] = 1 <=> blocks[b] = 0)
                        /\ b \in united => scored[b] = Whole(b)
    BY DEF HandledOnce
  <2>2. Batch /\ Types /\ Places /\ Answered /\ Scored
    BY <2>1 DEF SplitInv
  <2>3. answers[b] \in 0 .. 1 /\ cleaned[b] \in 0 .. 1
    BY <2>2 DEF Types
  <2>4. IF blocks[b] = 0 THEN answers[b] = 0 ELSE cleaned[b] = 0
    BY <2>2 DEF Answered
  <2>5. ASSUME united # {}
        PROVE  \A c \in Cores : /\ pc[c] \in Published /\ pc[c] \notin Before
                                /\ c < Used => At(c) = ShareEnd(c) /\ row[c] > split[c].bN2End
                                /\ \A a \in Requests : Has(c, a) => Ended(c, a)
    <3>1. \A c \in Cores : pc[c] \in Published /\ pc[c] \notin Before
      BY <2>2, <2>5 DEF Places, Last, Published, Before
    <3>2. \A c \in Cores, a \in Requests : Has(c, a) => c < Used
      BY <2>2, PartFacts
    <3> QED
      BY <2>1, <3>1, <3>2, PastFacts
  <2>6. ASSUME united # {} PROVE answers[b] + cleaned[b] = 1 /\ (cleaned[b] = 1 <=> blocks[b] = 0)
    <3>1. CASE blocks[b] # 0
      <4>1. PICK c \in Cores : Sole(c, b) \/ Heads(c, b)
        BY <2>2, <3>1, RequestServed
      <4>2. Sole(c, b) => Ended(c, b)
        BY <2>5, <2>6 DEF Sole
      <4>3. pc[c] \in Published
        BY <2>5, <2>6
      <4>4. answers[b] = 1
        BY <2>2, <4>1, <4>2, <4>3 DEF Answered
      <4> QED
        BY <2>4, <3>1, <4>4
    <3>2. CASE blocks[b] = 0 /\ Total # 0
      <4>1. PICK c \in Cores : Cleans(c, b)
        BY <2>2, <3>2, CleanServed
      <4>2. c < Used /\ b <= split[c].bN2End /\ b \in Nat
        BY <4>1 DEF Cleans, Requests
      <4>3. row[c] > split[c].bN2End /\ row[c] \in Nat /\ split[c].bN2End \in Nat
        BY <2>2, <2>5, <2>6, <4>2, RowFacts DEF Types
      <4>4. b < row[c]
        BY <4>2, <4>3
      <4>5. cleaned[b] = 1
        BY <2>2, <4>1, <4>4 DEF Answered
      <4> QED
        BY <2>4, <3>2, <4>5
    <3>3. CASE blocks[b] = 0 /\ Total = 0
      <4>1. PICK c \in Cores : b \in Slice(c)
        BY SliceFacts
      <4>2. cleaned[b] = 1
        BY <2>2, <2>5, <2>6, <3>3, <4>1 DEF Answered
      <4> QED
        BY <2>4, <3>3, <4>2
    <3> QED
      BY <3>1, <3>2, <3>3
  <2>7. ASSUME b \in united PROVE scored[b] = Whole(b)
    <3>1. scored[b] \subseteq Whole(b)
      BY <2>2 DEF Scored
    <3>2. ASSUME NEW k \in Whole(b) PROVE k \in scored[b]
      <4> DEFINE g == Base(b) + k
      <4>1. /\ Base(b) \in Nat /\ End(b) \in Nat /\ blocks[b] = End(b) - Base(b)
            /\ End(b) <= Total /\ Total \in Nat
        BY <2>2, RequestFacts
      <4>2. k \in Nat /\ g \in Nat /\ g < End(b) /\ Base(b) <= g /\ k = g - Base(b)
        BY <3>2, <4>1 DEF Whole
      <4>3. g \in 0 .. Total - 1
        BY <4>1, <4>2
      <4> HIDE DEF g
      <4>4. PICK c \in Cores : c < Used /\ ShareStart(c) <= g /\ g < ShareEnd(c)
        BY <2>2, <4>3, CoreFound
      <4>5. /\ Lo(c, b) \in Nat /\ Hi(c, b) \in Nat
            /\ Lo(c, b) <= g /\ g < Hi(c, b)
        BY <2>2, <4>2, <4>4, PartFacts
      <4>6. Has(c, b)
        BY <4>2, <4>5 DEF Has
      <4>7. k \in Piece(c, b)
        BY <4>1, <4>2, <4>5 DEF Piece
      <4>8. Base(b) + k < At(c)
        <5>1. At(c) = ShareEnd(c)
          BY <2>5, <2>7, <4>4
        <5> QED
          BY <4>4, <5>1 DEF g
      <4> QED
        BY <2>2, <4>6, <4>7, <4>8 DEF Scored
    <3> QED
      BY <3>1, <3>2
  <2>8. answers[b] + cleaned[b] <= 1
    BY <2>3, <2>4
  <2> QED
    BY <2>6, <2>7, <2>8
<1> QED
  BY <1>1, SplitInvHolds, PTL

\* The walk over the parts of a request ends before the last core, and all the
\* parts it merges have been kept.
THEOREM WalkStaysInsideHolds == Spec => []WalkStaysInside
<1>1. SplitInv => WalkStaysInside
  <2>1. SUFFICES ASSUME SplitInv, NEW c \in Cores, pc[c] = "walk"
                 PROVE  walk[c] < Used /\ head[walk[c]].needFd
    BY DEF WalkStaysInside
  <2>2. PICK d \in Cores, b \in Requests : d = walk[c] /\ Joins(d, b)
    BY <2>1 DEF SplitInv, Walking
  <2>3. Has(d, b) /\ d < Used
    BY <2>1, <2>2, PartFacts DEF SplitInv, Joins
  <2>4. Ended(d, b)
    BY <2>1, <2>3, MergeFacts
  <2>5. head[d] = [needFd |-> TRUE, isS2End |-> End(b) <= ShareEnd(d),
                   row |-> b, res |-> Piece(d, b)]
    BY <2>1, <2>2, <2>4 DEF SplitInv, Parts
  <2>6. head[d].needFd
    BY <2>5
  <2> QED
    BY <2>2, <2>3, <2>6
<1> QED
  BY <1>1, SplitInvHolds, PTL
=============================================================================
