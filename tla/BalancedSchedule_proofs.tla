----------------------- MODULE BalancedSchedule_proofs -----------------------
(***************************************************************************)
(* AnswersAreWhole, AnsweredOnce, PartialSlotsFit and RowStableWhileScored *)
(* of BalancedSchedule, proved for every number of cores, every batch and  *)
(* every size of its requests.                                             *)
(*                                                                         *)
(* The first half is about the split of the batch alone: the bases of the  *)
(* requests are running sums, the shares of the cores lie end to end over  *)
(* the batch (CoresOrdered, OwnerFacts), so each chunk has one request and *)
(* one core; a request is scored by one core, or the core with its head    *)
(* merges the parts on the cores up to the one with its last chunk         *)
(* (RequestServed, CutParts); and a core has at most two parts of cut      *)
(* requests, in a fixed order (CutsOrdered).  The second half shows        *)
(* ScheduleInv inductive: it says what each core has scored, which parts   *)
(* the result slots hold, which request a core will merge and which        *)
(* requests have been answered, and LocalInv says it of the other mode.    *)
(***************************************************************************)
EXTENDS BalancedSchedule, FiniteSetTheorems, TLAPS

-----------------------------------------------------------------------------
(* The invariant.                                                          *)

\* What a launch is given.
Batch ==
  /\ batch \in Nat \ {0} /\ chunks \in [Requests -> Nat]
  /\ base \in [0 .. batch -> Nat] /\ base[0] = 0
  /\ \A b \in Requests : base[b + 1] = base[b] + chunks[b]

\* The chunk core c is to score next.
At(c) == ChunkStart(c) + done[c]

\* The part of request b that falls to core c, numbered across the batch.
Lo(c, b) == Greatest(ChunkStart(c), base[b])
Hi(c, b) == Least(ChunkEnd(c), End(b))
Has(c, b) == Lo(c, b) < Hi(c, b)
Ended(c, b) == Has(c, b) /\ Hi(c, b) <= At(c)
Part(c, b) == SegStart(c, b) .. SegEnd(c, b) - 1

\* A core has at most two parts of cut requests: the end of one and the head of
\* another, in this order.
Cut(c, b) == Has(c, b) /\ IsPartial(c, b)
Sole(c, b) == Has(c, b) /\ ~IsPartial(c, b)
Heads(c, b) == Has(c, b) /\ OwnsHead(c, b)
SlotNo(c, b) == IF \E a \in Requests : a < b /\ Cut(c, a) THEN 1 ELSE 0
ResultSlot(c, b) == c * SlotsPerCore + SlotNo(c, b)

Types ==
  /\ pc \in [Cores -> {"init", "main", "sync", "tail", "local", "done"}]
  /\ done \in [Cores -> Nat] /\ partialSlot \in [Cores -> 0 .. SlotsPerCore]
  /\ DOMAIN acc = Cores /\ DOMAIN meta = ResultSlots /\ DOMAIN partial = ResultSlots
  /\ finalize \in [Cores -> Requests \cup {None}]
  /\ DOMAIN answer = Requests /\ answers \in [Requests -> 0 .. 1]

\* Where the cores are: nobody leaves the barrier before all have scored their share.
Places ==
  /\ \A c \in Cores :
       /\ pc[c] # "local" /\ done[c] <= ChunkShare(c)
       /\ pc[c] = "init" => done[c] = 0
       /\ pc[c] \in {"sync", "tail", "done"} => done[c] = ChunkShare(c)
  /\ \A c, d \in Cores : pc[c] \in {"tail", "done"} => pc[d] \in {"tail", "done"}

\* The running top K holds the chunks of the current part scored so far.
Running ==
  \A c \in Cores, b \in Requests : Lo(c, b) < At(c) /\ At(c) < Hi(c, b) =>
    acc[c] = SegStart(c, b) .. At(c) - 1 - base[b]

\* Parts of cut requests are in the workspace, each in its own result slot, and
\* the metadata names nothing else once it has been initialised.
Parts ==
  /\ \A c \in Cores, b \in Requests : Cut(c, b) =>
       /\ Ended(c, b) <=> SlotNo(c, b) < partialSlot[c]
       /\ Ended(c, b) => /\ meta[ResultSlot(c, b)] = b
                         /\ partial[ResultSlot(c, b)] = Part(c, b)
  /\ \A c \in Cores, s \in 0 .. SlotsPerCore - 1 :
       pc[c] # "init" /\ meta[c * SlotsPerCore + s] # None =>
         \E b \in Requests : /\ meta[c * SlotsPerCore + s] = b
                             /\ Cut(c, b) /\ Ended(c, b) /\ SlotNo(c, b) = s

\* The request a core will merge is the one it has the head of.
Merging ==
  \A c \in Cores :
    /\ finalize[c] # None => Heads(c, finalize[c])
    /\ \A b \in Requests : Heads(c, b) /\ base[b] < At(c) => finalize[c] = b

\* When a request is answered, and by whom.
Answered ==
  /\ \A b \in Requests : answers[b] = 1 \/ chunks[b] = 0 => answer[b] = Whole(b)
  /\ \A c \in Cores, b \in Requests :
       /\ Sole(c, b) => (answers[b] = 1 <=> Ended(c, b))
       /\ Heads(c, b) => (answers[b] = 1 <=> pc[c] = "done")
       /\ b \in EmptyRows(c) =>
            /\ answers[b] = 1 => pc[c] \in {"tail", "done"}
            /\ pc[c] = "done" => answers[b] = 1

BalancedInv == Places /\ Running /\ Parts /\ Merging /\ Answered

\* Without balancing a core answers its own requests one after the other.
LocalInv ==
  /\ batch % NumCores = 0
  /\ \A c \in Cores :
       /\ pc[c] \in {"local", "done"} /\ done[c] <= RequestsPerCore
       /\ pc[c] = "done" => done[c] = RequestsPerCore
       /\ \E k \in Nat :
            /\ acc[c] = 0 .. k - 1
            /\ k = 0 \/ (done[c] < RequestsPerCore /\ k < chunks[c * RequestsPerCore + done[c]])
       /\ \A i \in 0 .. RequestsPerCore - 1 :
            LET b == c * RequestsPerCore + i
            IN  /\ answers[b] = IF i < done[c] THEN 1 ELSE 0
                /\ answer[b] = IF i < done[c] THEN Whole(b) ELSE {}

ScheduleInv == Batch /\ Types /\ (LocalInv \/ BalancedInv)
-----------------------------------------------------------------------------
(* The base of every request.                                              *)

\* A non-empty set of natural numbers has a least element.
LEMMA LeastNat ==
  ASSUME NEW S \in SUBSET Nat, S # {}
  PROVE  \E n \in S : \A m \in S : n <= m
<1> DEFINE smaller == OpToRel(<, Nat)
<1>1. PICK n \in S : \A m \in S : <<m, n>> \notin smaller
  BY WFMin, NatLessThanWellFounded, Zenon
<1>2. \A m \in S : m < n => <<m, n>> \in smaller
  BY Zenon DEF OpToRel
<1> HIDE DEF smaller
<1>3. \A m \in S : m \in Nat /\ n \in Nat /\ ~ (m < n)
  BY <1>1, <1>2
<1> QED
  BY <1>3

\* The loop that steps requestChunkBase computes its running sums.
LEMMA BaseSteps ==
  ASSUME NEW n \in Nat, NEW sizes \in [0 .. n - 1 -> Nat]
  PROVE  /\ RequestChunkBase(n, sizes) \in [0 .. n -> Nat]
         /\ RequestChunkBase(n, sizes)[0] = 0
         /\ \A b \in 0 .. n - 1 :
              RequestChunkBase(n, sizes)[b + 1] = RequestChunkBase(n, sizes)[b] + sizes[b]
<1> DEFINE IsSum(f, m) == /\ f \in [0 .. m -> Nat] /\ f[0] = 0
                          /\ \A b \in 1 .. m : f[b] = f[b - 1] + sizes[b - 1]
           F(f) == [b \in 0 .. n |-> IF b = 0 THEN 0 ELSE f[b - 1] + sizes[b - 1]]
           sum == CHOOSE f : f = F(f)
           bad == {m \in Nat : m <= n /\ ~ \E f : IsSum(f, m)}
<1>1. bad = {}
  <2>1. SUFFICES ASSUME bad # {} PROVE FALSE
    OBVIOUS
  <2>2. PICK m \in bad : \A k \in bad : m <= k
    BY <2>1, LeastNat
  <2>3. m \in Nat /\ m <= n /\ ~ \E f : IsSum(f, m)
    OBVIOUS
  <2>4. CASE m = 0
    <3> DEFINE zero == [b \in 0 .. 0 |-> 0]
    <3>1. IsSum(zero, 0)
      OBVIOUS
    <3> QED
      BY <2>3, <2>4, <3>1
  <2>5. CASE m # 0
    <3>1. m - 1 \in Nat /\ m - 1 <= n /\ ~ (m <= m - 1)
      BY <2>3, <2>5
    <3>2. m - 1 \notin bad
      <4> HIDE DEF bad
      <4> QED
        BY <2>2, <3>1
    <3> HIDE DEF IsSum
    <3>3. PICK f : IsSum(f, m - 1)
      BY <3>1, <3>2
    <3> DEFINE g == [b \in 0 .. m |-> IF b = m THEN f[m - 1] + sizes[m - 1] ELSE f[b]]
    <3>4. f \in [0 .. m - 1 -> Nat] /\ f[0] = 0
          /\ \A b \in 1 .. m - 1 : f[b] = f[b - 1] + sizes[b - 1]
      BY <3>3 DEF IsSum
    <3>5. sizes[m - 1] \in Nat /\ f[m - 1] \in Nat
      BY <2>3, <2>5, <3>1, <3>4
    <3>6. g \in [0 .. m -> Nat] /\ g[0] = 0
      BY <2>3, <2>5, <3>4, <3>5
    <3>7. ASSUME NEW b \in 1 .. m PROVE g[b] = g[b - 1] + sizes[b - 1]
      <4>1. CASE b = m
        BY <2>3, <2>5, <4>1
      <4>2. CASE b # m
        <5>1. b \in 1 .. m - 1 /\ b - 1 \in 0 .. m - 1 /\ b - 1 # m
          BY <2>3, <4>2
        <5> QED
          BY <3>4, <4>2, <5>1
      <4> QED
        BY <4>1, <4>2
    <3>8. IsSum(g, m)
      BY <3>6, <3>7 DEF IsSum
    <3> QED
      BY <2>3, <3>8
  <2> QED
    BY <2>4, <2>5
<1>2. PICK f : IsSum(f, n)
  <2> HIDE DEF IsSum
  <2>1. n \notin bad
    BY <1>1
  <2> QED
    BY <2>1
<1>3. f = F(f)
  <2>1. \A b \in 0 .. n : f[b] = IF b = 0 THEN 0 ELSE f[b - 1] + sizes[b - 1]
    BY <1>2
  <2> QED
    BY <1>2, <2>1
<1>4. sum = F(sum)
  <2> HIDE DEF F
  <2> QED
    BY <1>3
<1>5. RequestChunkBase(n, sizes) = sum
  BY DEF RequestChunkBase
<1>6. sum = f
  <2> HIDE DEF sum
  <2>1. DOMAIN sum = 0 .. n
    BY <1>4
  <2>2. \A b \in 0 .. n : sum[b] = IF b = 0 THEN 0 ELSE sum[b - 1] + sizes[b - 1]
    BY <1>4
  <2> DEFINE differ == {b \in Nat : b <= n /\ sum[b] # f[b]}
  <2>3. differ = {}
    <3>1. SUFFICES ASSUME differ # {} PROVE FALSE
      OBVIOUS
    <3>2. PICK m \in differ : \A k \in differ : m <= k
      BY <3>1, LeastNat
    <3>3. m \in Nat /\ m <= n /\ sum[m] # f[m]
      OBVIOUS
    <3>4. m # 0
      BY <1>2, <2>2, <3>3
    <3>5. m - 1 \in Nat /\ m - 1 <= n /\ ~ (m <= m - 1) /\ m \in 1 .. n
      BY <3>3, <3>4
    <3>6. sum[m - 1] = f[m - 1]
      BY <3>2, <3>5
    <3> QED
      BY <1>2, <2>2, <3>3, <3>4, <3>5, <3>6
  <2>4. \A b \in 0 .. n : sum[b] = f[b]
    BY <2>3
  <2>5. sum = [b \in 0 .. n |-> sum[b]] /\ f = [b \in 0 .. n |-> f[b]]
    BY <1>2, <1>4
  <2> HIDE DEF IsSum
  <2> QED
    BY <2>4, <2>5
<1>7. \A b \in 0 .. n - 1 : f[b + 1] = f[b] + sizes[b]
  <2>1. ASSUME NEW b \in 0 .. n - 1 PROVE f[b + 1] = f[b] + sizes[b]
    <3>1. b + 1 \in 1 .. n /\ (b + 1) - 1 = b
      OBVIOUS
    <3> QED
      BY <1>2, <3>1
  <2> QED
    BY <2>1
<1> QED
  BY <1>2, <1>5, <1>6, <1>7
-----------------------------------------------------------------------------
(* Requests and cores in the order of their chunks.                        *)

\* The bases ascend.
LEMMA BaseGrows ==
  ASSUME Batch, NEW a \in 0 .. batch, NEW b \in 0 .. batch, a <= b
  PROVE  base[a] \in Nat /\ base[b] \in Nat /\ base[a] <= base[b]
<1>0. base[a] \in Nat /\ base[b] \in Nat
  BY DEF Batch
<1> DEFINE lower == {n \in Nat : n <= batch /\ a <= n /\ base[n] < base[a]}
<1>1. lower = {}
  <2>1. SUFFICES ASSUME lower # {} PROVE FALSE
    OBVIOUS
  <2>2. PICK n \in lower : \A k \in lower : n <= k
    BY <2>1, LeastNat
  <2>3. n \in Nat /\ n <= batch /\ a <= n /\ base[n] < base[a]
    OBVIOUS
  <2>4. n # a /\ n \in 0 .. batch /\ batch \in Nat
    BY <1>0, <2>3 DEF Batch
  <2>5. n - 1 \in Nat /\ n - 1 <= batch /\ a <= n - 1 /\ ~ (n <= n - 1) /\ n - 1 \in Requests
    BY <2>3, <2>4 DEF Requests
  <2>6. ~ (base[n - 1] < base[a])
    BY <2>2, <2>5
  <2>7. base[n] = base[n - 1] + chunks[n - 1] /\ chunks[n - 1] \in Nat /\ base[n - 1] \in Nat
    BY <2>4, <2>5 DEF Batch, Requests
  <2> QED
    BY <1>0, <2>3, <2>6, <2>7
<1>2. b \in Nat /\ b <= batch
  BY DEF Batch
<1>3. ~ (base[b] < base[a])
  BY <1>1, <1>2
<1> QED
  BY <1>0, <1>3

\* The chunks of a request lie within the batch.
LEMMA RequestFacts ==
  ASSUME Batch, NEW b \in Requests
  PROVE  /\ b \in Nat /\ b \in 0 .. batch /\ chunks[b] \in Nat
         /\ base[b] \in Nat /\ End(b) \in Nat /\ End(b) = base[b + 1]
         /\ base[b] <= End(b) /\ End(b) <= Total /\ Total \in Nat
         /\ chunks[b] = End(b) - base[b]
<1>1. b \in Nat /\ b \in 0 .. batch /\ b + 1 \in 0 .. batch /\ b + 1 <= batch /\ batch \in 0 .. batch
  BY DEF Batch, Requests
<1>2. base[b + 1] <= base[batch] /\ base[batch] \in Nat
  BY <1>1, BaseGrows
<1>3. /\ base[b] \in Nat /\ chunks[b] \in Nat /\ base[b + 1] = base[b] + chunks[b]
  BY <1>1 DEF Batch
<1> QED
  BY <1>1, <1>2, <1>3 DEF End, Total

\* A request ends where a later one begins, or before.
LEMMA RequestsOrdered ==
  ASSUME Batch, NEW a \in Requests, NEW b \in Requests, a < b
  PROVE  End(a) <= base[b]
<1>1. a + 1 \in 0 .. batch /\ b \in 0 .. batch /\ a + 1 <= b
  BY DEF Batch, Requests
<1>2. base[a + 1] <= base[b]
  BY <1>1, BaseGrows
<1> QED
  BY <1>2, RequestFacts

\* A chunk is of one request,
LEMMA RequestUnique ==
  ASSUME Batch, NEW a \in Requests, NEW b \in Requests, NEW g \in Int,
         base[a] <= g, g < End(a), base[b] <= g, g < End(b)
  PROVE  a = b
<1>1. /\ base[a] \in Int /\ base[b] \in Int /\ End(a) \in Int /\ End(b) \in Int
      /\ a \in Nat /\ b \in Nat
  BY RequestFacts
<1>2. ~ (a < b)
  BY <1>1, RequestsOrdered
<1>3. ~ (b < a)
  BY <1>1, RequestsOrdered
<1> QED
  BY <1>1, <1>2, <1>3

\* and each is of some request, which RequestOf finds.
LEMMA RequestFound ==
  ASSUME Batch, NEW g \in 0 .. Total - 1
  PROVE  RequestOf(g) \in Requests /\ base[RequestOf(g)] <= g /\ g < End(RequestOf(g))
<1> DEFINE past == {n \in Nat : n <= batch /\ g < base[n]}
<1>1. batch \in Nat /\ base[batch] \in Nat /\ base[0] = 0 /\ base[batch] = Total
  BY DEF Batch, Total
<1>2. batch \in past
  BY <1>1
<1>3. PICK n \in past : \A k \in past : n <= k
  BY <1>2, LeastNat
<1>4. n \in Nat /\ n <= batch /\ g < base[n] /\ n # 0
  BY <1>1
<1>5. n - 1 \in Requests /\ n - 1 \in Nat /\ n - 1 <= batch /\ ~ (n <= n - 1)
  BY <1>1, <1>4 DEF Requests
<1>6. ~ (g < base[n - 1])
  BY <1>3, <1>5
<1>7. base[n - 1] \in Nat /\ End(n - 1) = base[(n - 1) + 1]
  BY <1>5, RequestFacts
<1>8. base[n - 1] <= g /\ g < End(n - 1)
  BY <1>1, <1>4, <1>6, <1>7
<1>9. \E b \in Requests : base[b] <= g /\ g < End(b)
  BY <1>5, <1>8
<1> QED
  BY <1>9 DEF RequestOf

\* Quotient and remainder.
LEMMA Division ==
  ASSUME NEW a \in Nat, NEW b \in Nat \ {0}
  PROVE  /\ a \div b \in Nat /\ b * (a \div b) <= a /\ a < b * (a \div b) + b
         /\ a % b \in 0 .. b - 1 /\ a = b * (a \div b) + (a % b)
BY SMT

\* The shares of the active cores differ by at most one and add up to the batch.
LEMMA ShareFacts ==
  ASSUME Batch
  PROVE  /\ Total \in Nat /\ Active \in Nat /\ Active <= NumCores /\ NumCores \in Nat \ {0}
         /\ PerCore \in Nat /\ Extra \in Nat
         /\ Active = 0 <=> Total = 0
         /\ Active # 0 => /\ PerCore # 0 /\ Extra < Active
                          /\ Total = Active * PerCore + Extra
<1>1. Total \in Nat /\ NumCores \in Nat \ {0}
  BY SizeAssumption DEF Batch, Total
<1>2. Active \in Nat /\ Active <= NumCores /\ Active <= Total /\ (Active = 0 <=> Total = 0)
  BY <1>1 DEF Active, Least
<1>3. CASE Active = 0
  BY <1>1, <1>2, <1>3 DEF PerCore, Extra
<1>4. CASE Active # 0
  <2> DEFINE p == Total \div Active
             e == Total % Active
  <2>1. p \in Nat /\ e \in 0 .. Active - 1 /\ Total = Active * p + e
    BY <1>1, <1>2, <1>4, Division
  <2>2. PerCore = p /\ Extra = e
    BY <1>4 DEF PerCore, Extra
  <2> HIDE DEF p, e
  <2>3. p # 0
    <3>1. SUFFICES ASSUME p = 0 PROVE FALSE
      OBVIOUS
    <3>2. Active * p = 0
      BY <1>2, <3>1
    <3> QED
      BY <1>1, <1>2, <2>1, <3>2
  <2> QED
    BY <1>1, <1>2, <1>4, <2>1, <2>2, <2>3
<1> QED
  BY <1>3, <1>4

\* The share of a core lies within the batch; only active cores have one.
LEMMA CoreFacts ==
  ASSUME Batch, NEW c \in Cores
  PROVE  /\ c \in Nat /\ ChunkStart(c) \in Nat /\ ChunkShare(c) \in Nat /\ ChunkEnd(c) \in Nat
         /\ ChunkEnd(c) = ChunkStart(c) + ChunkShare(c) /\ ChunkEnd(c) <= Total
         /\ c < Active => /\ ChunkStart(c) = c * PerCore + Least(c, Extra)
                          /\ ChunkEnd(c) = (c + 1) * PerCore + Least(c + 1, Extra)
                          /\ ChunkStart(c) < ChunkEnd(c)
         /\ ~ (c < Active) => ChunkEnd(c) = 0
<1>1. /\ Total \in Nat /\ Active \in Nat /\ PerCore \in Nat /\ Extra \in Nat
      /\ Active # 0 => PerCore # 0 /\ Extra < Active /\ Total = Active * PerCore + Extra
  BY ShareFacts
<1>2. c \in Nat
  BY SizeAssumption DEF Cores
<1>3. CASE ~ (c < Active)
  BY <1>1, <1>2, <1>3 DEF ChunkStart, ChunkShare, ChunkEnd
<1>4. CASE c < Active
  <2>1. /\ ChunkStart(c) = c * PerCore + Least(c, Extra)
        /\ ChunkShare(c) = PerCore + (IF c < Extra THEN 1 ELSE 0)
        /\ ChunkEnd(c) = ChunkStart(c) + ChunkShare(c)
    BY <1>4 DEF ChunkStart, ChunkShare, ChunkEnd
  <2>2. c * PerCore \in Nat /\ (c + 1) * PerCore = c * PerCore + PerCore
    BY <1>1, <1>2
  <2>3. Least(c, Extra) \in Nat /\ Least(c + 1, Extra) = Least(c, Extra) + (IF c < Extra THEN 1 ELSE 0)
        /\ Least(c + 1, Extra) <= Extra
    BY <1>1, <1>2 DEF Least
  <2>4. ChunkEnd(c) = (c + 1) * PerCore + Least(c + 1, Extra)
    BY <1>1, <2>1, <2>2, <2>3
  <2>5. (c + 1) * PerCore <= Active * PerCore
    <3>1. c + 1 <= Active /\ c + 1 \in Nat
      BY <1>1, <1>2, <1>4
    <3> QED
      BY <1>1, <3>1
  <2>6. PerCore # 0 /\ Total = Active * PerCore + Extra /\ Active * PerCore \in Nat
    BY <1>1, <1>2, <1>4
  <2> QED
    BY <1>1, <1>2, <1>4, <2>1, <2>2, <2>3, <2>4, <2>5, <2>6
<1> QED
  BY <1>3, <1>4

\* The shares of the active cores do not overlap,
LEMMA CoresOrdered ==
  ASSUME Batch, NEW c \in Cores, NEW d \in Cores, c < d, d < Active
  PROVE  ChunkEnd(c) <= ChunkStart(d)
<1>1. PerCore \in Nat /\ Extra \in Nat /\ Active \in Nat /\ c \in Nat /\ d \in Nat /\ c < Active
  BY ShareFacts, CoreFacts
<1>2. /\ ChunkEnd(c) = (c + 1) * PerCore + Least(c + 1, Extra)
      /\ ChunkStart(d) = d * PerCore + Least(d, Extra)
  BY <1>1, CoreFacts
<1>3. c + 1 <= d /\ c + 1 \in Nat
  BY <1>1
<1>4. (c + 1) * PerCore <= d * PerCore /\ (c + 1) * PerCore \in Nat /\ d * PerCore \in Nat
  BY <1>1, <1>3
<1>5. Least(c + 1, Extra) <= Least(d, Extra) /\ Least(c + 1, Extra) \in Nat /\ Least(d, Extra) \in Nat
  BY <1>1, <1>3 DEF Least
<1> QED
  BY <1>2, <1>4, <1>5

\* so a chunk is of one core,
LEMMA CoreUnique ==
  ASSUME Batch, NEW c \in Cores, NEW d \in Cores, NEW g \in Int,
         ChunkStart(c) <= g, g < ChunkEnd(c), ChunkStart(d) <= g, g < ChunkEnd(d)
  PROVE  c = d
<1>1. /\ c \in Nat /\ d \in Nat /\ ChunkStart(c) \in Nat /\ ChunkStart(d) \in Nat
      /\ ChunkEnd(c) \in Nat /\ ChunkEnd(d) \in Nat /\ Active \in Nat
  BY CoreFacts, ShareFacts
<1>2. c < Active /\ d < Active
  BY <1>1, CoreFacts
<1>3. ~ (c < d)
  BY <1>1, <1>2, CoresOrdered
<1>4. ~ (d < c)
  BY <1>1, <1>2, CoresOrdered
<1> QED
  BY <1>1, <1>3, <1>4

\* The core that owns chunk g; LastOwner asks for that of a request's last chunk.
Owner(g) ==
  LET large == Extra * (PerCore + 1)
  IN  IF g < large THEN g \div (PerCore + 1) ELSE Extra + (g - large) \div PerCore

\* and each is of some core, which Owner finds.
LEMMA OwnerFacts ==
  ASSUME Batch, NEW g \in 0 .. Total - 1
  PROVE  Owner(g) \in Cores /\ ChunkStart(Owner(g)) <= g /\ g < ChunkEnd(Owner(g))
<1>1. /\ Total \in Nat /\ Active \in Nat /\ PerCore \in Nat \ {0} /\ Extra \in Nat
      /\ Extra < Active /\ Total = Active * PerCore + Extra
      /\ Active <= NumCores /\ NumCores \in Nat
  <2>1. Total \in Nat /\ Total # 0
    BY ShareFacts
  <2> QED
    BY <2>1, ShareFacts
<1> DEFINE P == PerCore
           E == Extra
           large == E * (P + 1)
           o == Owner(g)
<1>2. o = IF g < large THEN g \div (P + 1) ELSE E + (g - large) \div P
  BY DEF Owner
<1>3. large = E * P + E /\ large \in Nat /\ E * P \in Nat /\ g \in Nat /\ P \in Nat \ {0}
  BY <1>1
<1> HIDE DEF large, o
<1>4. CASE g < large
  <2>1. o \in Nat /\ (P + 1) * o <= g /\ g < (P + 1) * o + (P + 1)
    <3> DEFINE n == P + 1
    <3>1. n \in Nat \ {0} /\ o = g \div n
      BY <1>2, <1>3, <1>4
    <3> HIDE DEF n
    <3>2. o \in Nat /\ n * o <= g /\ g < n * o + n
      BY <1>3, <3>1, Division
    <3> QED
      BY <3>2 DEF n
  <2>2. o < E
    <3>1. SUFFICES ASSUME E <= o PROVE FALSE
      BY <1>1, <2>1
    <3>2. (P + 1) * E <= (P + 1) * o
      BY <1>1, <1>3, <2>1, <3>1
    <3>3. (P + 1) * E = large
      BY <1>1, <1>3 DEF large
    <3> QED
      BY <1>1, <1>3, <1>4, <2>1, <3>2, <3>3
  <2>3. o \in Cores /\ o < Active
    BY <1>1, <2>1, <2>2 DEF Cores
  <2>4. ChunkStart(o) = o * P + Least(o, E) /\ ChunkEnd(o) = (o + 1) * P + Least(o + 1, E)
    BY <2>3, CoreFacts
  <2>5. Least(o, E) = o /\ Least(o + 1, E) = o + 1
    BY <1>1, <2>1, <2>2 DEF Least
  <2>6. (P + 1) * o = o * P + o /\ (o + 1) * P = o * P + P /\ o * P \in Nat
    BY <1>3, <2>1
  <2> HIDE DEF P
  <2> QED
    BY <1>3, <2>1, <2>3, <2>4, <2>5, <2>6 DEF o
<1>5. CASE ~ (g < large)
  <2> DEFINE q == (g - large) \div P
  <2>1. g - large \in Nat
    BY <1>3, <1>5
  <2>2. q \in Nat /\ P * q <= g - large /\ g - large < P * q + P /\ o = E + q
    BY <1>2, <1>3, <1>5, <2>1, Division
  <2> HIDE DEF q
  <2>3. P * q \in Nat /\ (E + q) * P = E * P + P * q
    BY <1>1, <1>3, <2>2
  <2>4. o < Active
    <3>1. SUFFICES ASSUME Active <= E + q PROVE FALSE
      BY <1>1, <2>2
    <3>2. Active * P <= (E + q) * P
      BY <1>1, <1>3, <2>2, <3>1
    <3>3. Active * P \in Nat /\ g < Active * P + E
      BY <1>1, <1>3
    <3> QED
      BY <1>1, <1>3, <2>2, <2>3, <3>2, <3>3
  <2>5. o \in Cores /\ o \in Nat
    BY <1>1, <2>2, <2>4 DEF Cores
  <2>6. ChunkStart(o) = o * P + Least(o, E) /\ ChunkEnd(o) = (o + 1) * P + Least(o + 1, E)
    BY <2>4, <2>5, CoreFacts
  <2>7. Least(o, E) = E /\ Least(o + 1, E) = E
    BY <1>1, <2>2 DEF Least
  <2>8. (o + 1) * P = o * P + P /\ o * P = E * P + P * q
    BY <1>3, <2>2, <2>3, <2>5
  <2> HIDE DEF P, E
  <2> QED
    BY <1>1, <1>3, <2>2, <2>3, <2>5, <2>6, <2>7, <2>8 DEF o, P, E
<1> QED
  BY <1>4, <1>5

-----------------------------------------------------------------------------
(* The parts of requests that fall to a core.                              *)

\* What Has, IsPartial and OwnsHead say in numbers of the batch.
LEMMA PartFacts ==
  ASSUME Batch, NEW c \in Cores, NEW b \in Requests
  PROVE  /\ Lo(c, b) \in Nat /\ Hi(c, b) \in Nat
         /\ base[b] <= Lo(c, b) /\ ChunkStart(c) <= Lo(c, b)
         /\ Hi(c, b) <= End(b) /\ Hi(c, b) <= ChunkEnd(c)
         /\ SegStart(c, b) = Lo(c, b) - base[b] /\ SegEnd(c, b) = Hi(c, b) - base[b]
         /\ \A g \in Int : g < Hi(c, b) /\ Lo(c, b) <= g <=>
              ChunkStart(c) <= g /\ g < ChunkEnd(c) /\ base[b] <= g /\ g < End(b)
         /\ Has(c, b) =>
              /\ Sole(c, b) <=> ChunkStart(c) <= base[b] /\ End(b) <= ChunkEnd(c)
              /\ Cut(c, b) <=> base[b] < ChunkStart(c) \/ ChunkEnd(c) < End(b)
              /\ Heads(c, b) <=> ChunkStart(c) <= base[b] /\ ChunkEnd(c) < End(b)
              /\ c < Active /\ chunks[b] # 0
<1>1. /\ ChunkStart(c) \in Nat /\ ChunkEnd(c) \in Nat /\ base[b] \in Nat /\ End(b) \in Nat
      /\ chunks[b] = End(b) - base[b] /\ c \in Nat /\ Active \in Nat
      /\ ~ (c < Active) => ChunkEnd(c) = 0
  BY CoreFacts, RequestFacts, ShareFacts
<1> DEFINE cs == ChunkStart(c)
           ce == ChunkEnd(c)
           lo == Lo(c, b)
           hi == Hi(c, b)
           e == End(b)
           x == base[b]
<1>2. /\ lo = IF cs >= x THEN cs ELSE x
      /\ hi = IF ce <= e THEN ce ELSE e
      /\ SegStart(c, b) = lo - x /\ SegEnd(c, b) = hi - x
  BY DEF Lo, Hi, SegStart, SegEnd, Least, Greatest
<1>3. /\ Has(c, b) <=> lo < hi
      /\ Sole(c, b) <=> lo < hi /\ lo - x = 0 /\ hi - x = chunks[b]
      /\ Cut(c, b) <=> lo < hi /\ (lo - x # 0 \/ hi - x # chunks[b])
      /\ Heads(c, b) <=> lo < hi /\ lo - x = 0 /\ hi - x < chunks[b]
  BY <1>2 DEF Has, Sole, Cut, Heads, IsPartial, OwnsHead
<1> HIDE DEF cs, ce, lo, hi, e, x
<1>4. cs \in Nat /\ ce \in Nat /\ e \in Nat /\ x \in Nat /\ chunks[b] = e - x
      /\ (~ (c < Active) => ce = 0)
  BY <1>1 DEF cs, ce, e, x
<1>5. lo \in Nat /\ hi \in Nat /\ x <= lo /\ cs <= lo /\ hi <= e /\ hi <= ce
  BY <1>2, <1>4
<1>6. \A g \in Int : g < hi /\ lo <= g <=> cs <= g /\ g < ce /\ x <= g /\ g < e
  BY <1>2, <1>4
<1>7. Has(c, b) =>
        /\ Sole(c, b) <=> cs <= x /\ e <= ce
        /\ Cut(c, b) <=> x < cs \/ ce < e
        /\ Heads(c, b) <=> cs <= x /\ ce < e
        /\ c < Active /\ chunks[b] # 0
  BY <1>2, <1>3, <1>4, <1>5
<1> QED
  BY <1>2, <1>5, <1>6, <1>7 DEF cs, ce, lo, hi, e, x

\* A part runs up to the end of its core's share or of its request.
LEMMA PartsOrdered ==
  ASSUME Batch, NEW c \in Cores, NEW a \in Requests, NEW b \in Requests,
         Has(c, a), Has(c, b), a < b
  PROVE  /\ Hi(c, a) <= Lo(c, b) /\ Hi(c, a) = End(a) /\ Lo(c, b) = base[b]
         /\ ChunkStart(c) < base[b] /\ End(a) < ChunkEnd(c)
<1>1. End(a) <= base[b]
  BY RequestsOrdered
<1>2. /\ ChunkStart(c) \in Nat /\ ChunkEnd(c) \in Nat /\ base[a] \in Nat /\ End(a) \in Nat
      /\ base[b] \in Nat /\ End(b) \in Nat
  BY CoreFacts, RequestFacts
<1> QED
  BY <1>1, <1>2 DEF Has, Lo, Hi, Least, Greatest

\* So of two parts of cut requests on a core the first is the end of its request
\* and the second the head of its own, and there are no more than two.
LEMMA CutsOrdered ==
  ASSUME Batch, NEW c \in Cores, NEW a \in Requests, NEW b \in Requests, Cut(c, a), Cut(c, b), a < b
  PROVE  /\ base[a] < ChunkStart(c) /\ SlotNo(c, a) = 0 /\ SlotNo(c, b) = 1
         /\ Hi(c, a) <= Lo(c, b)
<1>1. Has(c, a) /\ Has(c, b)
  BY DEF Cut
<1>2. ASSUME NEW d \in Requests, NEW f \in Requests, Cut(c, d), Cut(c, f), d < f
      PROVE  base[d] < ChunkStart(c) /\ ~ (base[f] < ChunkStart(c))
  <2>1. Has(c, d) /\ Has(c, f)
    BY <1>2 DEF Cut
  <2>2. ChunkStart(c) < base[f] /\ End(d) < ChunkEnd(c)
    BY <1>2, <2>1, PartsOrdered
  <2>3. base[d] < ChunkStart(c) \/ ChunkEnd(c) < End(d)
    BY <1>2, <2>1, PartFacts
  <2> QED
    BY <2>2, <2>3, CoreFacts, RequestFacts
<1>3. base[a] < ChunkStart(c)
  BY <1>2
<1>4. SlotNo(c, b) = 1
  BY DEF SlotNo
<1>5. SlotNo(c, a) = 0
  BY <1>2, <1>3 DEF SlotNo
<1> QED
  BY <1>1, <1>3, <1>4, <1>5, PartsOrdered

\* A request is scored by one core, or its head is on one and merged there.
LEMMA SoleUnique ==
  ASSUME Batch, NEW c \in Cores, NEW d \in Cores, NEW b \in Requests, Sole(c, b), Has(d, b)
  PROVE  c = d
<1>1. Has(c, b)
  BY DEF Sole
<1>2. ChunkStart(c) <= base[b] /\ End(b) <= ChunkEnd(c)
  BY <1>1, PartFacts
<1>3. /\ Lo(d, b) \in Nat /\ Hi(d, b) \in Nat /\ Lo(d, b) < Hi(d, b)
      /\ base[b] \in Nat /\ End(b) \in Nat /\ ChunkStart(c) \in Nat /\ ChunkEnd(c) \in Nat
  BY PartFacts, RequestFacts, CoreFacts DEF Has
<1>4. /\ ChunkStart(d) <= Lo(d, b) /\ Lo(d, b) < ChunkEnd(d)
      /\ base[b] <= Lo(d, b) /\ Lo(d, b) < End(b)
  BY <1>3, PartFacts
<1> QED
  BY <1>2, <1>3, <1>4, CoreUnique

\* One core has the head of a request, and then no core has all of it.
LEMMA HeadUnique ==
  ASSUME Batch, NEW c \in Cores, NEW d \in Cores, NEW b \in Requests,
         Heads(c, b), Heads(d, b) \/ Sole(d, b)
  PROVE  c = d /\ ~Sole(d, b)
<1>1. Has(c, b) /\ Has(d, b)
  BY DEF Heads, Sole
<1>2. /\ ChunkStart(c) <= base[b] /\ ChunkEnd(c) < End(b)
      /\ ChunkStart(d) <= base[b]
  BY <1>1, PartFacts
<1>3. /\ Lo(c, b) \in Nat /\ Hi(c, b) \in Nat /\ Lo(c, b) < Hi(c, b)
      /\ Lo(d, b) \in Nat /\ Hi(d, b) \in Nat /\ Lo(d, b) < Hi(d, b)
      /\ base[b] \in Nat /\ ChunkStart(c) \in Nat /\ ChunkStart(d) \in Nat
      /\ Lo(c, b) < ChunkEnd(c) /\ Lo(d, b) < ChunkEnd(d)
      /\ ChunkEnd(c) \in Nat /\ ChunkEnd(d) \in Nat /\ End(b) \in Nat
  BY <1>1, PartFacts, RequestFacts, CoreFacts DEF Has
<1>4. Lo(c, b) = base[b] /\ Lo(d, b) = base[b]
  BY <1>2, <1>3 DEF Lo, Greatest
<1>5. c = d
  BY <1>2, <1>3, <1>4, CoreUnique
<1>6. ~Sole(d, b)
  BY <1>1, <1>2, <1>3, <1>5, PartFacts
<1> QED
  BY <1>5, <1>6

\* A request with chunks is all on one core, or one core has its head.
LEMMA RequestServed ==
  ASSUME Batch, NEW b \in Requests, chunks[b] # 0
  PROVE  \E c \in Cores : Sole(c, b) \/ Heads(c, b)
<1> DEFINE c == Owner(base[b])
<1>1. base[b] \in 0 .. Total - 1 /\ base[b] \in Nat /\ End(b) \in Nat /\ base[b] < End(b)
  BY RequestFacts
<1>2. c \in Cores /\ ChunkStart(c) <= base[b] /\ base[b] < ChunkEnd(c)
  BY <1>1, OwnerFacts
<1> HIDE DEF c
<1>3. Has(c, b)
  BY <1>1, <1>2, CoreFacts DEF Has, Lo, Hi, Least, Greatest
<1>4. Sole(c, b) \/ Heads(c, b)
  BY <1>1, <1>2, <1>3, PartFacts, CoreFacts
<1> QED
  BY <1>2, <1>4

\* The core of chunk g of request b has a part of b with g in it.
LEMMA OwnerHas ==
  ASSUME Batch, NEW b \in Requests, NEW g \in Int, base[b] <= g, g < End(b)
  PROVE  /\ g \in 0 .. Total - 1 /\ Owner(g) \in Cores /\ Has(Owner(g), b)
         /\ Lo(Owner(g), b) <= g /\ g < Hi(Owner(g), b)
<1>1. g \in 0 .. Total - 1
  BY RequestFacts
<1>2. Owner(g) \in Cores /\ ChunkStart(Owner(g)) <= g /\ g < ChunkEnd(Owner(g))
  BY <1>1, OwnerFacts
<1>3. Lo(Owner(g), b) <= g /\ g < Hi(Owner(g), b)
  BY <1>2, PartFacts
<1>4. Lo(Owner(g), b) \in Nat /\ Hi(Owner(g), b) \in Nat
  BY <1>2, PartFacts
<1> QED
  BY <1>1, <1>2, <1>3, <1>4 DEF Has

\* The parts of a cut request are on the cores from the one with its head up to
\* the one with its last chunk, and together they are all of it.
LEMMA CutParts ==
  ASSUME Batch, NEW c \in Cores, NEW b \in Requests, Heads(c, b)
  PROVE  /\ \A d \in Cores : d \in c .. LastOwner(b) <=> Has(d, b)
         /\ \A d \in Cores : Has(d, b) => Cut(d, b)
         /\ UNION {Part(d, b) : d \in {e \in Cores : Has(e, b)}} = Whole(b)
<1>1. /\ base[b] \in Nat /\ End(b) \in Nat /\ chunks[b] = End(b) - base[b] /\ b \in Nat
      /\ ChunkStart(c) \in Nat /\ ChunkEnd(c) \in Nat /\ c \in Nat
  BY RequestFacts, CoreFacts
<1>2. /\ Has(c, b) /\ ChunkStart(c) <= base[b] /\ ChunkEnd(c) < End(b) /\ c < Active
      /\ base[b] < End(b) /\ base[b] < ChunkEnd(c)
  <2>1. Has(c, b) /\ ChunkStart(c) <= base[b] /\ ChunkEnd(c) < End(b) /\ c < Active
    BY PartFacts DEF Heads
  <2> QED
    BY <1>1, <2>1 DEF Has, Lo, Hi, Least, Greatest
<1>3. LastOwner(b) = Owner(End(b) - 1)
  BY DEF LastOwner, Owner
<1> DEFINE last == LastOwner(b)
<1>4. last \in Cores /\ Has(last, b) /\ Lo(last, b) <= End(b) - 1 /\ End(b) - 1 < Hi(last, b)
      /\ last \in Nat /\ last < Active
  <2>1. End(b) - 1 \in Int /\ base[b] <= End(b) - 1 /\ End(b) - 1 < End(b)
    BY <1>1, <1>2
  <2>2. last \in Cores /\ Has(last, b) /\ Lo(last, b) <= End(b) - 1 /\ End(b) - 1 < Hi(last, b)
    BY <1>3, <2>1, OwnerHas
  <2> QED
    BY <2>2, PartFacts, CoreFacts
<1>5. /\ ChunkStart(last) \in Nat /\ ChunkEnd(last) \in Nat
      /\ ChunkStart(last) < End(b) /\ End(b) <= ChunkEnd(last)
  <2>1. /\ Lo(last, b) \in Nat /\ Hi(last, b) \in Nat /\ ChunkStart(last) <= Lo(last, b)
        /\ Hi(last, b) <= ChunkEnd(last) /\ ChunkStart(last) \in Nat /\ ChunkEnd(last) \in Nat
    BY <1>4, PartFacts, CoreFacts
  <2> HIDE DEF last
  <2> QED
    BY <1>1, <1>4, <2>1
<1> HIDE DEF last
<1>6. ASSUME NEW d \in Cores, d \in c .. last PROVE Has(d, b)
  <2>1. d \in Nat /\ ChunkStart(d) \in Nat /\ ChunkEnd(d) \in Nat /\ d < Active /\ Active \in Nat
    BY <1>4, <1>6, CoreFacts, ShareFacts
  <2>2. ChunkStart(d) < ChunkEnd(d)
    BY <2>1, CoreFacts
  <2>3. base[b] < ChunkEnd(d)
    <3>1. CASE d = c
      BY <1>2, <3>1
    <3>2. CASE d # c
      <4>1. c < d
        BY <1>1, <1>6, <2>1, <3>2
      <4>2. ChunkEnd(c) <= ChunkStart(d)
        BY <2>1, <4>1, CoresOrdered
      <4>3. base[b] < ChunkEnd(c)
        BY <1>1, <1>2 DEF Has, Lo, Hi, Least, Greatest
      <4> QED
        BY <1>1, <2>1, <2>2, <4>2, <4>3
    <3> QED
      BY <3>1, <3>2
  <2>4. ChunkStart(d) < End(b)
    <3>1. CASE d = last
      BY <1>5, <3>1
    <3>2. CASE d # last
      <4>1. d < last
        BY <1>4, <1>6, <2>1, <3>2
      <4>2. ChunkEnd(d) <= ChunkStart(last)
        BY <1>4, <2>1, <4>1, CoresOrdered
      <4> QED
        BY <1>1, <1>5, <2>1, <2>2, <4>2
    <3> QED
      BY <3>1, <3>2
  <2>5. base[b] < End(b)
    BY <1>1, <1>2
  <2> QED
    BY <1>1, <2>1, <2>2, <2>3, <2>4, <2>5 DEF Has, Lo, Hi, Least, Greatest
<1>7. ASSUME NEW d \in Cores, Has(d, b) PROVE d \in c .. last
  <2>1. /\ d \in Nat /\ ChunkStart(d) \in Nat /\ ChunkEnd(d) \in Nat /\ d < Active
        /\ base[b] < ChunkEnd(d) /\ ChunkStart(d) < End(b)
    <3>1. d < Active
      BY <1>7, PartFacts
    <3>2. d \in Nat /\ ChunkStart(d) \in Nat /\ ChunkEnd(d) \in Nat
      BY CoreFacts
    <3> QED
      BY <1>1, <1>7, <3>1, <3>2 DEF Has, Lo, Hi, Least, Greatest
  <2>2. ~ (d < c)
    <3>1. SUFFICES ASSUME d < c PROVE FALSE
      OBVIOUS
    <3>2. ChunkEnd(d) <= ChunkStart(c)
      BY <1>2, <3>1, CoresOrdered
    <3> QED
      BY <1>1, <1>2, <2>1, <3>2
  <2>3. ~ (last < d)
    <3>1. SUFFICES ASSUME last < d PROVE FALSE
      OBVIOUS
    <3>2. ChunkEnd(last) <= ChunkStart(d)
      BY <1>4, <2>1, <3>1, CoresOrdered
    <3> QED
      BY <1>1, <1>5, <2>1, <3>2
  <2> QED
    BY <1>1, <1>4, <2>1, <2>2, <2>3
<1>8. ASSUME NEW d \in Cores, Has(d, b) PROVE Cut(d, b)
  <2>1. ~Sole(d, b)
    BY HeadUnique
  <2> QED
    BY <1>8, <2>1 DEF Sole, Cut
<1>9. UNION {Part(d, b) : d \in {e \in Cores : Has(e, b)}} = Whole(b)
  <2>1. ASSUME NEW d \in Cores, Has(d, b), NEW k \in Part(d, b) PROVE k \in Whole(b)
    <3>1. /\ Lo(d, b) \in Nat /\ Hi(d, b) \in Nat /\ base[b] <= Lo(d, b) /\ Hi(d, b) <= End(b)
          /\ SegStart(d, b) = Lo(d, b) - base[b] /\ SegEnd(d, b) = Hi(d, b) - base[b]
      BY PartFacts
    <3> QED
      BY <1>1, <3>1 DEF Part, Whole
  <2>2. ASSUME NEW k \in Whole(b) PROVE \E d \in Cores : Has(d, b) /\ k \in Part(d, b)
    <3>1. k \in Int /\ base[b] + k \in Int /\ base[b] <= base[b] + k /\ base[b] + k < End(b)
      BY <1>1 DEF Whole
    <3>2. PICK d \in Cores : Has(d, b) /\ Lo(d, b) <= base[b] + k /\ base[b] + k < Hi(d, b)
      BY <3>1, OwnerHas
    <3>3. /\ Lo(d, b) \in Nat /\ Hi(d, b) \in Nat
          /\ SegStart(d, b) = Lo(d, b) - base[b] /\ SegEnd(d, b) = Hi(d, b) - base[b]
      BY PartFacts
    <3>4. k \in Part(d, b)
      BY <1>1, <3>1, <3>2, <3>3 DEF Part
    <3> QED
      BY <3>2, <3>4
  <2> QED
    BY <2>1, <2>2
<1> QED
  BY <1>6, <1>7, <1>8, <1>9 DEF last

\* A core has the head of one cut request at most.
LEMMA HeadsOnce ==
  ASSUME Batch, NEW c \in Cores, NEW a \in Requests, NEW b \in Requests, Heads(c, a), Heads(c, b)
  PROVE  a = b
<1>1. Has(c, a) /\ Has(c, b)
  BY DEF Heads
<1>2. /\ ChunkEnd(c) < End(a) /\ ChunkEnd(c) < End(b)
      /\ ChunkEnd(c) \in Nat /\ End(a) \in Nat /\ End(b) \in Nat /\ a \in Nat /\ b \in Nat
  BY <1>1, PartFacts, RequestFacts, CoreFacts
<1>3. ~ (a < b)
  BY <1>1, <1>2, PartsOrdered
<1>4. ~ (b < a)
  BY <1>1, <1>2, PartsOrdered
<1> QED
  BY <1>2, <1>3, <1>4

\* The result slots of the cores are distinct,
LEMMA SlotFacts ==
  ASSUME NEW c \in Cores, NEW s \in 0 .. SlotsPerCore - 1
  PROVE  /\ c \in Nat /\ s \in {0, 1} /\ c * SlotsPerCore + s \in ResultSlots
         /\ (c * SlotsPerCore + s) \div SlotsPerCore = c
         /\ \A d \in Cores, t \in 0 .. SlotsPerCore - 1 :
              c * SlotsPerCore + s = d * SlotsPerCore + t => c = d /\ s = t
<1>1. c \in Nat /\ c < NumCores /\ NumCores \in Nat /\ \A d \in Cores : d \in Nat
  BY SizeAssumption DEF Cores
<1> QED
  BY <1>1 DEF SlotsPerCore, ResultSlots

\* and every result slot is of some core.
LEMMA SlotSplit ==
  ASSUME NEW r \in ResultSlots
  PROVE  /\ r \div SlotsPerCore \in Cores
         /\ \E s \in 0 .. SlotsPerCore - 1 : r = (r \div SlotsPerCore) * SlotsPerCore + s
<1>1. NumCores \in Nat /\ r \in Nat /\ r < NumCores * 2
  BY SizeAssumption DEF ResultSlots, SlotsPerCore
<1> DEFINE q == r \div 2
<1>2. q \in Nat /\ (r = q * 2 + 0 \/ r = q * 2 + 1) /\ q < NumCores
  BY <1>1
<1> QED
  BY <1>1, <1>2 DEF SlotsPerCore, Cores

\* A part goes to one of the slots of its core.
LEMMA SlotNoFacts ==
  ASSUME NEW c, NEW b
  PROVE  SlotNo(c, b) \in 0 .. SlotsPerCore - 1
BY DEF SlotNo, SlotsPerCore

-----------------------------------------------------------------------------
(* The invariant holds.                                                    *)

\* No step changes what a launch was given.
LEMMA LoadKept ==
  ASSUME UNCHANGED load
  PROVE  /\ Batch' = Batch /\ Requests' = Requests /\ Total' = Total
         /\ RequestsPerCore' = RequestsPerCore
         /\ \A c : /\ ChunkStart(c)' = ChunkStart(c) /\ ChunkShare(c)' = ChunkShare(c)
                   /\ ChunkEnd(c)' = ChunkEnd(c) /\ EmptyRows(c)' = EmptyRows(c)
         /\ \A b : Whole(b)' = Whole(b) /\ End(b)' = End(b)
         /\ \A g : RequestOf(g)' = RequestOf(g)
         /\ \A c, b : /\ Lo(c, b)' = Lo(c, b) /\ Hi(c, b)' = Hi(c, b) /\ Has(c, b)' = Has(c, b)
                      /\ SegStart(c, b)' = SegStart(c, b) /\ Part(c, b)' = Part(c, b)
                      /\ Sole(c, b)' = Sole(c, b) /\ Cut(c, b)' = Cut(c, b)
                      /\ Heads(c, b)' = Heads(c, b)
                      /\ SlotNo(c, b)' = SlotNo(c, b) /\ ResultSlot(c, b)' = ResultSlot(c, b)
<1>1. batch' = batch /\ chunks' = chunks /\ base' = base
  BY DEF load
<1>2. Requests' = Requests /\ Total' = Total /\ RequestsPerCore' = RequestsPerCore
      /\ \A b : Whole(b)' = Whole(b) /\ End(b)' = End(b)
  BY <1>1 DEF Requests, Total, RequestsPerCore, Whole, End
<1>3. Batch' = Batch
  BY <1>1, <1>2 DEF Batch
<1>4. Active' = Active
  BY <1>2 DEF Active
<1>5. PerCore' = PerCore /\ Extra' = Extra
  BY <1>2, <1>4 DEF PerCore, Extra
<1>6. \A c : ChunkStart(c)' = ChunkStart(c) /\ ChunkShare(c)' = ChunkShare(c)
  BY <1>4, <1>5 DEF ChunkStart, ChunkShare
<1>7. \A c : ChunkEnd(c)' = ChunkEnd(c)
  BY <1>6 DEF ChunkEnd
<1>8. \A c : EmptyRows(c)' = EmptyRows(c)
  BY <1>1, <1>2 DEF EmptyRows
<1>9. \A g : RequestOf(g)' = RequestOf(g)
  BY <1>1, <1>2 DEF RequestOf
<1>10. \A c, b : Lo(c, b)' = Lo(c, b) /\ Hi(c, b)' = Hi(c, b)
                 /\ SegStart(c, b)' = SegStart(c, b) /\ SegEnd(c, b)' = SegEnd(c, b)
  BY <1>1, <1>2, <1>6, <1>7 DEF Lo, Hi, SegStart, SegEnd
<1>11. \A c, b : Has(c, b)' = Has(c, b) /\ Part(c, b)' = Part(c, b)
                 /\ IsPartial(c, b)' = IsPartial(c, b) /\ OwnsHead(c, b)' = OwnsHead(c, b)
  BY <1>1, <1>10 DEF Has, Part, IsPartial, OwnsHead
<1>12. \A c, b : Sole(c, b)' = Sole(c, b) /\ Cut(c, b)' = Cut(c, b) /\ Heads(c, b)' = Heads(c, b)
  BY <1>11 DEF Sole, Cut, Heads
<1>13. \A c, b : SlotNo(c, b)' = SlotNo(c, b)
  BY <1>2, <1>12 DEF SlotNo
<1>14. \A c, b : ResultSlot(c, b)' = ResultSlot(c, b)
  BY <1>13 DEF ResultSlot
<1> QED
  BY <1>2, <1>3, <1>6, <1>7, <1>8, <1>9, <1>10, <1>11, <1>12, <1>13, <1>14

\* What is left of each share depends on the load and on done alone.
LEMMA ShareKept ==
  ASSUME UNCHANGED <<load, done>>
  PROVE  /\ \A c : At(c)' = At(c)
         /\ \A c, b : Ended(c, b)' = Ended(c, b)
BY LoadKept DEF At, Ended

\* The running top K is not touched by a step that scores nothing.
LEMMA RunningKept ==
  ASSUME UNCHANGED <<load, done, acc>>, Running
  PROVE  Running'
BY LoadKept, ShareKept DEF Running, load

\* Nor is the request a core will merge.
LEMMA MergingKept ==
  ASSUME UNCHANGED <<load, done, finalize>>, Merging
  PROVE  Merging'
BY LoadKept, ShareKept DEF Merging, load

\* Nor are the parts in the result slots.
LEMMA PartsKept ==
  ASSUME UNCHANGED <<load, done, partialSlot, meta, partial>>, Parts,
         \A c \in Cores : pc[c] = "init" => pc'[c] = "init"
  PROVE  Parts'
BY LoadKept, ShareKept DEF Parts

\* A core that has scored nothing has ended and begun nothing.
LEMMA NothingEnded ==
  ASSUME Batch, NEW c \in Cores, done[c] = 0, NEW b \in Requests
  PROVE  ~Ended(c, b) /\ ~ (Lo(c, b) < At(c)) /\ (Heads(c, b) => ~ (base[b] < At(c)))
<1>1. /\ ChunkStart(c) \in Nat /\ Lo(c, b) \in Nat /\ Hi(c, b) \in Nat /\ ChunkStart(c) <= Lo(c, b)
      /\ base[b] \in Nat
  BY PartFacts, CoreFacts, RequestFacts
<1>2. At(c) = ChunkStart(c)
  BY <1>1 DEF At
<1>3. Heads(c, b) => ChunkStart(c) <= base[b]
  BY PartFacts DEF Heads
<1> QED
  BY <1>1, <1>2, <1>3 DEF Ended, Has

\* Dealt out whole, every request is one core's, at one place of its work.
LEMMA LocalFacts ==
  ASSUME Batch, batch % NumCores = 0
  PROVE  /\ RequestsPerCore \in Nat
         /\ \A c \in Cores, i \in 0 .. RequestsPerCore - 1 : c * RequestsPerCore + i \in Requests
         /\ \A b \in Requests : \E c \in Cores, i \in 0 .. RequestsPerCore - 1 :
              b = c * RequestsPerCore + i
         /\ \A c, d \in Cores, i, j \in 0 .. RequestsPerCore - 1 :
              c * RequestsPerCore + i = d * RequestsPerCore + j => c = d /\ i = j
<1> DEFINE R == RequestsPerCore
<1>1. NumCores \in Nat \ {0} /\ batch \in Nat /\ Cores = 0 .. NumCores - 1
  BY SizeAssumption DEF Batch, Cores
<1>2. R \in Nat /\ batch = NumCores * R
  <2> DEFINE q == batch \div NumCores
             e == batch % NumCores
  <2>1. q \in Nat /\ batch = NumCores * q + e
    BY <1>1, Division
  <2>2. e = 0 /\ q = R
    BY DEF RequestsPerCore
  <2> HIDE DEF q, e
  <2>3. NumCores * q \in Nat
    BY <1>1, <2>1
  <2> QED
    BY <2>1, <2>2, <2>3
<1> HIDE DEF R
<1>3. ASSUME NEW c \in Cores, NEW i \in 0 .. R - 1
      PROVE  /\ c \in Nat /\ i \in Nat /\ c * R \in Nat /\ c * R + R = (c + 1) * R
             /\ (c + 1) * R <= batch /\ c * R + i \in Requests
  <2>1. c \in Nat /\ c + 1 <= NumCores
    BY <1>1
  <2>2. c * R \in Nat /\ c * R + R = (c + 1) * R
    BY <1>2, <2>1
  <2>3. (c + 1) * R <= NumCores * R
    BY <1>1, <1>2, <2>1
  <2> QED
    BY <1>1, <1>2, <2>1, <2>2, <2>3 DEF Requests
<1>4. ASSUME NEW b \in Requests PROVE \E c \in Cores, i \in 0 .. R - 1 : b = c * R + i
  <2> DEFINE c == b \div R
             i == b % R
  <2>1. b \in Nat /\ b < NumCores * R /\ R # 0
    <3>1. b \in Nat /\ b < NumCores * R
      BY <1>1, <1>2 DEF Requests
    <3>2. R = 0 => NumCores * R = 0
      BY <1>1
    <3> QED
      BY <3>1, <3>2
  <2>2. c \in Nat /\ R * c <= b /\ i \in 0 .. R - 1 /\ b = R * c + i
    BY <1>2, <2>1, Division
  <2> HIDE DEF c, i
  <2>3. c < NumCores
    <3>1. SUFFICES ASSUME NumCores <= c PROVE FALSE
      BY <1>1, <2>2
    <3>2. R * NumCores <= R * c /\ R * NumCores = NumCores * R /\ R * c \in Nat
      BY <1>1, <1>2, <2>2, <3>1
    <3> QED
      BY <1>1, <1>2, <2>1, <2>2, <3>2
  <2>4. R * c = c * R
    BY <1>2, <2>2
  <2> QED
    BY <1>1, <2>2, <2>3, <2>4
<1>5. ASSUME NEW c \in Cores, NEW d \in Cores, NEW i \in 0 .. R - 1, NEW j \in 0 .. R - 1, c < d
      PROVE  c * R + i # d * R + j
  <2>1. (c + 1) * R <= d * R
    <3>1. c + 1 \in Nat /\ d \in Nat /\ c + 1 <= d
      BY <1>3, <1>5
    <3> QED
      BY <1>2, <3>1
  <2>2. /\ c * R \in Nat /\ d * R \in Nat /\ c * R + R = (c + 1) * R /\ i \in Nat /\ j \in Nat
    BY <1>3
  <2> QED
    BY <1>2, <2>1, <2>2
<1>6. ASSUME NEW c \in Cores, NEW d \in Cores, NEW i \in 0 .. R - 1, NEW j \in 0 .. R - 1,
             c * R + i = d * R + j
      PROVE  c = d /\ i = j
  <2>1. c \in Nat /\ d \in Nat /\ i \in Nat /\ j \in Nat /\ c * R \in Nat /\ d * R \in Nat
    BY <1>3
  <2>2. c = d
    BY <1>5, <1>6, <2>1
  <2> QED
    BY <1>6, <2>1, <2>2
<1> QED
  BY <1>2, <1>3, <1>4, <1>6 DEF R

\* The invariant holds when the launch begins, in either mode.
LEMMA InitScheduleInv == Init => ScheduleInv
<1> SUFFICES ASSUME Init PROVE ScheduleInv
  OBVIOUS
<1>1. Batch
  <2>1. batch \in Nat \ {0} /\ chunks \in [Requests -> Nat] /\ Requests = 0 .. batch - 1
    BY SizeAssumption DEF Init, Requests
  <2>2. base = RequestChunkBase(batch, chunks)
    BY DEF Init
  <2> QED
    BY <2>1, <2>2, BaseSteps DEF Batch
<1>2. Types
  BY DEF Init, Types, SlotsPerCore
<1>3. CASE Balanced
  <2>1. /\ \A c \in Cores : pc[c] = "init" /\ done[c] = 0 /\ partialSlot[c] = 0 /\ finalize[c] = None
        /\ \A b \in Requests : answer[b] = {} /\ answers[b] = 0
    BY <1>3 DEF Init
  <2>2. \A c \in Cores, b \in Requests :
          ~Ended(c, b) /\ ~ (Lo(c, b) < At(c)) /\ (Heads(c, b) => ~ (base[b] < At(c)))
    BY <1>1, <2>1, NothingEnded
  <2>3. Places
    BY <1>1, <2>1, CoreFacts DEF Places
  <2>4. Running /\ Merging
    BY <2>1, <2>2 DEF Running, Merging
  <2>5. Parts
    <3>1. \A c, b : ~ (SlotNo(c, b) < 0)
      BY DEF SlotNo
    <3> QED
      BY <2>1, <2>2, <3>1 DEF Parts
  <2>6. Answered
    <3>1. \A b \in Requests : answers[b] # 1 /\ (chunks[b] = 0 => answer[b] = Whole(b))
      <4>1. ASSUME NEW b \in Requests, chunks[b] = 0 PROVE Whole(b) = {}
        BY <4>1 DEF Whole
      <4> QED
        BY <2>1, <4>1
    <3>2. \A c \in Cores : pc[c] # "done"
      BY <2>1
    <3> QED
      BY <2>2, <3>1, <3>2 DEF Answered
  <2> QED
    BY <1>1, <1>2, <2>3, <2>4, <2>5, <2>6 DEF ScheduleInv, BalancedInv
<1>4. CASE ~Balanced
  <2>1. batch % NumCores = 0
    BY <1>4 DEF Balanced
  <2>2. RequestsPerCore \in Nat
    BY <1>1, SizeAssumption, Division DEF Batch, RequestsPerCore
  <2>3. \A c \in Cores : pc[c] = "local" /\ done[c] = 0 /\ acc[c] = {}
    BY <1>4 DEF Init
  <2>4. ASSUME NEW c \in Cores, NEW i \in 0 .. RequestsPerCore - 1
        PROVE  answers[c * RequestsPerCore + i] = 0 /\ answer[c * RequestsPerCore + i] = {}
    <3>1. c * RequestsPerCore + i \in Requests
      BY <1>1, <2>1, LocalFacts
    <3> QED
      BY <3>1 DEF Init
  <2>5. LocalInv
    <3>1. ASSUME NEW c \in Cores PROVE \E k \in Nat : acc[c] = 0 .. k - 1 /\ k = 0
      <4>1. 0 .. 0 - 1 = {}
        OBVIOUS
      <4> QED
        BY <2>3, <4>1
    <3>2. ASSUME NEW c \in Cores, NEW i \in 0 .. RequestsPerCore - 1
          PROVE  /\ answers[c * RequestsPerCore + i] = IF i < done[c] THEN 1 ELSE 0
                 /\ answer[c * RequestsPerCore + i] =
                      IF i < done[c] THEN Whole(c * RequestsPerCore + i) ELSE {}
      <4>1. ~ (i < done[c])
        BY <2>2, <2>3
      <4> QED
        BY <2>4, <4>1
    <3>3. \A c \in Cores : pc[c] = "local" /\ done[c] <= RequestsPerCore
      BY <2>2, <2>3
    <3>4. \A c \in Cores : \E k \in Nat :
            /\ acc[c] = 0 .. k - 1
            /\ k = 0 \/ (done[c] < RequestsPerCore /\ k < chunks[c * RequestsPerCore + done[c]])
      BY <3>1
    <3> QED
      BY <2>1, <3>2, <3>3, <3>4 DEF LocalInv
  <2> QED
    BY <1>1, <1>2, <2>5 DEF ScheduleInv
<1> QED
  BY <1>3, <1>4

\* Without an answer or an end of a part, Answered stays, as long as no core is done.
LEMMA AnsweredKept ==
  ASSUME UNCHANGED <<load, done, answer, answers>>, Answered,
         \A c \in Cores : /\ pc[c] \in {"tail", "done"} => pc'[c] \in {"tail", "done"}
                          /\ pc[c] = "done" <=> pc'[c] = "done"
  PROVE  Answered'
BY LoadKept, ShareKept DEF Answered, load

\* A core drops what earlier launches left in its result slots before it has scored anything.
LEMMA InitPartialMetadataInv ==
  ASSUME Batch, Types, BalancedInv, NEW c \in Cores, InitPartialMetadata(c)
  PROVE  Types' /\ BalancedInv'
<1>1. /\ pc[c] = "init" /\ pc' = [pc EXCEPT ![c] = "main"] /\ done[c] = 0
      /\ UNCHANGED <<load, done, acc, partialSlot, partial, finalize, answer, answers>>
  BY DEF InitPartialMetadata, BalancedInv, Places
<1>2. \A r \in ResultSlots : meta'[r] = IF r \div SlotsPerCore = c THEN None ELSE meta[r]
  BY DEF InitPartialMetadata
<1>3. /\ pc' \in [Cores -> {"init", "main", "sync", "tail", "local", "done"}] /\ pc'[c] = "main"
      /\ \A d \in Cores \ {c} : pc'[d] = pc[d]
  BY <1>1 DEF Types
<1>4. Types'
  <2>1. Requests' = Requests /\ DOMAIN meta' = ResultSlots
    BY <1>1, LoadKept DEF InitPartialMetadata
  <2> QED
    BY <1>1, <1>3, <2>1 DEF Types
<1>5. Places'
  BY <1>1, <1>3, LoadKept DEF BalancedInv, Places
<1>6. Running' /\ Merging'
  BY <1>1, RunningKept, MergingKept DEF BalancedInv
<1>7. Answered'
  BY <1>1, <1>3, AnsweredKept DEF BalancedInv
<1>8. Parts'
  <2>1. ASSUME NEW d \in Cores, NEW s \in 0 .. SlotsPerCore - 1
        PROVE  meta'[d * SlotsPerCore + s] = IF d = c THEN None ELSE meta[d * SlotsPerCore + s]
    BY <1>2, SlotFacts
  <2>2. ASSUME NEW d \in Cores, NEW b \in Requests, Cut(d, b)
        PROVE  /\ Ended(d, b) <=> SlotNo(d, b) < partialSlot'[d]
               /\ Ended(d, b) => /\ meta'[ResultSlot(d, b)] = b
                                 /\ partial'[ResultSlot(d, b)] = Part(d, b)
    <3>1. /\ Ended(d, b) <=> SlotNo(d, b) < partialSlot[d]
          /\ Ended(d, b) => meta[ResultSlot(d, b)] = b /\ partial[ResultSlot(d, b)] = Part(d, b)
      BY <2>2 DEF BalancedInv, Parts
    <3>2. Ended(d, b) => d # c
      BY <1>1, NothingEnded
    <3>3. Ended(d, b) => meta'[ResultSlot(d, b)] = meta[ResultSlot(d, b)]
      BY <2>1, <3>2, SlotNoFacts DEF ResultSlot
    <3> QED
      BY <1>1, <3>1, <3>3
  <2>3. ASSUME NEW d \in Cores, pc'[d] # "init", NEW s \in 0 .. SlotsPerCore - 1,
               meta'[d * SlotsPerCore + s] # None
        PROVE  \E b \in Requests : /\ meta'[d * SlotsPerCore + s] = b
                                   /\ Cut(d, b) /\ Ended(d, b) /\ SlotNo(d, b) = s
    <3>1. d # c /\ meta'[d * SlotsPerCore + s] = meta[d * SlotsPerCore + s]
      BY <2>1, <2>3
    <3>2. pc[d] # "init"
      BY <1>3, <2>3, <3>1
    <3> QED
      BY <2>3, <3>1, <3>2 DEF BalancedInv, Parts
  <2> QED
    BY <1>1, <2>2, <2>3, LoadKept, ShareKept DEF Parts
<1> QED
  BY <1>4, <1>5, <1>6, <1>7, <1>8 DEF BalancedInv

\* A core at the barrier has scored all of its share.
LEMMA ArriveSyncInv ==
  ASSUME Batch, Types, BalancedInv, NEW c \in Cores, ArriveSync(c)
  PROVE  Types' /\ BalancedInv'
<1>1. /\ pc[c] = "main" /\ pc' = [pc EXCEPT ![c] = "sync"] /\ done[c] = ChunkShare(c)
      /\ UNCHANGED <<load, done, acc, partialSlot, meta, partial, finalize, answer, answers>>
  BY DEF ArriveSync
<1>2. /\ pc' \in [Cores -> {"init", "main", "sync", "tail", "local", "done"}] /\ pc'[c] = "sync"
      /\ \A d \in Cores \ {c} : pc'[d] = pc[d]
  BY <1>1 DEF Types
<1>3. Types'
  BY <1>1, <1>2, LoadKept DEF Types
<1>4. Places'
  BY <1>1, <1>2, LoadKept DEF BalancedInv, Places
<1>5. Running' /\ Merging' /\ Parts' /\ Answered'
  BY <1>1, <1>2, RunningKept, MergingKept, PartsKept, AnsweredKept DEF BalancedInv
<1> QED
  BY <1>3, <1>4, <1>5 DEF BalancedInv

\* The barrier opens when all have.
LEMMA SyncAllInv ==
  ASSUME Batch, Types, BalancedInv, SyncAll
  PROVE  Types' /\ BalancedInv'
<1>1. /\ \A c \in Cores : pc[c] = "sync"
      /\ pc' = [c \in Cores |-> "tail"]
      /\ UNCHANGED <<load, done, acc, partialSlot, meta, partial, finalize, answer, answers>>
  BY DEF SyncAll
<1>2. Types'
  BY <1>1, LoadKept DEF Types
<1>3. Places'
  BY <1>1, LoadKept DEF BalancedInv, Places
<1>4. Running' /\ Merging' /\ Parts' /\ Answered'
  BY <1>1, RunningKept, MergingKept, PartsKept, AnsweredKept DEF BalancedInv
<1> QED
  BY <1>2, <1>3, <1>4 DEF BalancedInv

\* What one ProcessChunk scores, and which part it may end.
LEMMA ChunkFacts ==
  ASSUME Batch, Types, BalancedInv, NEW c \in Cores, BalancedChunk(c), NEW b, b = RequestOf(At(c))
  PROVE  /\ b \in Requests /\ Has(c, b) /\ ~Ended(c, b)
         /\ At(c) \in Nat /\ Lo(c, b) <= At(c) /\ At(c) < Hi(c, b)
         /\ \A a \in Requests : Lo(c, a) <= At(c) /\ At(c) < Hi(c, a) => a = b
         /\ At(c)' = At(c) + 1 /\ \A d \in Cores \ {c} : At(d)' = At(d)
         /\ \A a \in Requests :
              Ended(c, a)' <=> Ended(c, a) \/ (a = b /\ At(c) + 1 = Hi(c, b))
         /\ \A d \in Cores \ {c}, a \in Requests : Ended(d, a)' <=> Ended(d, a)
<1>1. /\ pc[c] = "main" /\ done[c] < ChunkShare(c) /\ UNCHANGED load
      /\ done' = [done EXCEPT ![c] = @ + 1] /\ done \in [Cores -> Nat]
  BY DEF BalancedChunk, Types
<1>2. /\ ChunkStart(c) \in Nat /\ ChunkShare(c) \in Nat /\ Total \in Nat
      /\ ChunkEnd(c) = ChunkStart(c) + ChunkShare(c) /\ ChunkEnd(c) <= Total
  BY CoreFacts, ShareFacts
<1> DEFINE g == At(c)
<1>3. g = ChunkStart(c) + done[c] /\ done[c] \in Nat
  BY <1>1 DEF At
<1>4. At(c)' = g + 1 /\ \A d \in Cores \ {c} : At(d)' = At(d)
  <2>1. done'[c] = done[c] + 1 /\ \A d \in Cores \ {c} : done'[d] = done[d]
    BY <1>1
  <2>2. \A d : ChunkStart(d)' = ChunkStart(d)
    BY <1>1, LoadKept
  <2> QED
    BY <1>2, <1>3, <2>1, <2>2 DEF At
<1> HIDE DEF g
<1>5. g \in 0 .. Total - 1 /\ ChunkStart(c) <= g /\ g < ChunkEnd(c)
  BY <1>1, <1>2, <1>3
<1>6. b \in Requests /\ base[b] <= g /\ g < End(b)
  BY <1>5, RequestFound DEF g
<1>7. ASSUME NEW a \in Requests
      PROVE  /\ Lo(c, a) <= g /\ g < Hi(c, a) <=> base[a] <= g /\ g < End(a)
             /\ Lo(c, a) \in Nat /\ Hi(c, a) \in Nat
  BY <1>5, PartFacts
<1>8. ASSUME NEW a \in Requests, Lo(c, a) <= g, g < Hi(c, a) PROVE a = b
  BY <1>5, <1>6, <1>7, <1>8, RequestUnique
<1>9. Has(c, b) /\ ~Ended(c, b) /\ Lo(c, b) <= g /\ g < Hi(c, b)
  BY <1>5, <1>6, <1>7 DEF Has, Ended, g
<1>10. ASSUME NEW a \in Requests
       PROVE  Ended(c, a)' <=> Ended(c, a) \/ (a = b /\ g + 1 = Hi(c, b))
  <2>1. Ended(c, a)' <=> Has(c, a) /\ Hi(c, a) <= g + 1
    BY <1>1, <1>4, LoadKept DEF Ended
  <2>2. Ended(c, a) <=> Has(c, a) /\ Hi(c, a) <= g
    BY DEF Ended, g
  <2>3. Has(c, a) /\ Hi(c, a) = g + 1 => Lo(c, a) <= g /\ g < Hi(c, a)
    BY <1>5, <1>7 DEF Has
  <2> QED
    BY <1>5, <1>7, <1>8, <1>9, <2>1, <2>2, <2>3
<1>11. ASSUME NEW d \in Cores \ {c}, NEW a \in Requests PROVE Ended(d, a)' <=> Ended(d, a)
  BY <1>1, <1>4, LoadKept DEF Ended
<1> QED
  BY <1>4, <1>5, <1>6, <1>8, <1>9, <1>10, <1>11 DEF g

\* What the running top K of a core holds after the chunk, and the request the core will merge.
LEMMA ChunkResult ==
  ASSUME Batch, Types, BalancedInv, NEW c \in Cores, BalancedChunk(c), NEW b, b = RequestOf(At(c))
  PROVE  /\ UNCHANGED <<load, pc>> /\ pc[c] = "main"
         /\ Places' /\ Running' /\ Merging' /\ DOMAIN acc' = Cores
         /\ done' \in [Cores -> Nat] /\ finalize' \in [Cores -> Requests \cup {None}]
         /\ acc'[c] = SegStart(c, b) .. At(c) - base[b]
         /\ IF At(c) + 1 = Hi(c, b)
              THEN EndSegment(c, b, acc'[c])
              ELSE UNCHANGED <<meta, partial, partialSlot, answer, answers>>
<1> DEFINE g == At(c)
           k == g - base[b]
           result == (IF k = SegStart(c, b) THEN {} ELSE acc[c]) \cup {k}
<1>1. /\ UNCHANGED <<load, pc>> /\ pc[c] = "main" /\ done[c] < ChunkShare(c)
      /\ done' = [done EXCEPT ![c] = @ + 1]
      /\ acc' = [acc EXCEPT ![c] = result]
      /\ finalize' = [finalize EXCEPT ![c] = IF OwnsHead(c, b) THEN b ELSE @]
      /\ IF k + 1 = SegEnd(c, b)
           THEN EndSegment(c, b, result)
           ELSE UNCHANGED <<meta, partial, partialSlot, answer, answers>>
  BY Zenon DEF BalancedChunk, At
<1>2. /\ b \in Requests /\ Has(c, b)
      /\ g \in Nat /\ Lo(c, b) <= g /\ g < Hi(c, b)
      /\ \A a \in Requests : Lo(c, a) <= g /\ g < Hi(c, a) => a = b
      /\ At(c)' = g + 1 /\ \A d \in Cores \ {c} : At(d)' = At(d)
  BY ChunkFacts
<1>3. /\ Lo(c, b) \in Nat /\ Hi(c, b) \in Nat /\ base[b] \in Nat
      /\ SegStart(c, b) = Lo(c, b) - base[b] /\ SegEnd(c, b) = Hi(c, b) - base[b]
  BY <1>2, PartFacts, RequestFacts
<1>4. DOMAIN acc = Cores /\ done \in [Cores -> Nat] /\ finalize \in [Cores -> Requests \cup {None}]
  BY DEF Types
<1>5. result = SegStart(c, b) .. k
  <2>1. CASE k = SegStart(c, b)
    <3>1. k \in Int /\ result = {k}
      BY <1>2, <1>3, <2>1
    <3> HIDE DEF k, result
    <3> QED
      BY <2>1, <3>1
  <2>2. CASE k # SegStart(c, b)
    <3>1. Lo(c, b) < g
      BY <1>2, <1>3, <2>2
    <3>2. acc[c] = SegStart(c, b) .. g - 1 - base[b]
      BY <1>2, <3>1 DEF BalancedInv, Running
    <3>3. result = (SegStart(c, b) .. g - 1 - base[b]) \cup {k}
      BY <2>2, <3>2
    <3> HIDE DEF result, g
    <3> QED
      BY <1>2, <1>3, <3>1, <3>3
  <2> QED
    BY <2>1, <2>2
<1> HIDE DEF g, result
<1>6. k + 1 = SegEnd(c, b) <=> g + 1 = Hi(c, b)
  BY <1>2, <1>3
<1> HIDE DEF k
<1>7. acc'[c] = result /\ DOMAIN acc' = Cores /\ \A d \in Cores \ {c} : acc'[d] = acc[d]
  BY <1>1, <1>4
<1>8. Running'
  <2>1. ASSUME NEW d \in Cores, NEW a \in Requests, Lo(d, a) < At(d)', At(d)' < Hi(d, a)
        PROVE  acc'[d] = SegStart(d, a) .. At(d)' - 1 - base[a]
    <3>1. CASE d = c
      <4>1. Lo(c, a) \in Nat /\ Hi(c, a) \in Nat
        BY PartFacts
      <4>2. Lo(c, a) <= g /\ g < Hi(c, a)
        BY <1>2, <2>1, <3>1, <4>1
      <4>3. a = b /\ (g + 1) - 1 = g
        BY <1>2, <4>2
      <4>4. acc'[c] = SegStart(c, b) .. g - base[b]
        BY <1>5, <1>7 DEF k
      <4> QED
        BY <1>2, <3>1, <4>3, <4>4
    <3>2. CASE d # c
      BY <1>2, <1>7, <2>1, <3>2 DEF BalancedInv, Running
    <3> QED
      BY <3>1, <3>2
  <2>2. base' = base
    BY <1>1 DEF load
  <2> QED
    BY <1>1, <2>1, <2>2, LoadKept DEF Running
<1>9. Merging'
  <2>1. finalize'[c] = IF OwnsHead(c, b) THEN b ELSE finalize[c]
    BY <1>1, <1>4
  <2>2. \A d \in Cores \ {c} : finalize'[d] = finalize[d]
    BY <1>1, <1>4
  <2>3. OwnsHead(c, b) <=> Heads(c, b)
    BY <1>2 DEF Heads
  <2>4. ASSUME NEW d \in Cores, finalize'[d] # None PROVE Heads(d, finalize'[d])
    BY <2>1, <2>2, <2>3, <2>4 DEF BalancedInv, Merging
  <2>5. ASSUME NEW d \in Cores, NEW a \in Requests, Heads(d, a), base[a] < At(d)'
        PROVE  finalize'[d] = a
    <3>1. CASE d # c
      BY <1>2, <2>2, <2>5, <3>1 DEF BalancedInv, Merging
    <3>2. CASE d = c /\ a = b
      BY <2>1, <2>3, <2>5, <3>2
    <3>3. CASE d = c /\ a # b
      <4>1. ~Heads(c, b)
        BY <1>2, <2>5, <3>3, HeadsOnce
      <4>2. /\ Has(c, a) /\ ChunkStart(c) <= base[a] /\ base[a] \in Nat
            /\ Lo(c, a) \in Nat /\ Hi(c, a) \in Nat /\ ChunkStart(c) \in Nat
        BY <2>5, <3>3, PartFacts, RequestFacts, CoreFacts DEF Heads
      <4>3. Lo(c, a) = base[a] /\ Lo(c, a) < Hi(c, a)
        BY <4>2 DEF Lo, Greatest, Has
      <4>4. base[a] # g
        BY <1>2, <3>3, <4>2, <4>3
      <4>5. base[a] < g
        BY <1>2, <2>5, <3>3, <4>2, <4>4
      <4>6. finalize[c] = a
        BY <2>5, <3>3, <4>5 DEF BalancedInv, Merging, g
      <4> QED
        BY <2>1, <2>3, <3>3, <4>1, <4>6
    <3> QED
      BY <3>1, <3>2, <3>3
  <2>6. base' = base
    BY <1>1 DEF load
  <2> QED
    BY <1>1, <2>4, <2>5, <2>6, LoadKept DEF Merging
<1>10. Places'
  <2>1. done'[c] = done[c] + 1 /\ \A d \in Cores \ {c} : done'[d] = done[d]
    BY <1>1, <1>4
  <2>2. done'[c] <= ChunkShare(c)
    BY <1>1, <1>4, <2>1, CoreFacts
  <2> QED
    BY <1>1, <2>1, <2>2, LoadKept DEF BalancedInv, Places
<1>11. done' \in [Cores -> Nat] /\ finalize' \in [Cores -> Requests \cup {None}]
  BY <1>1, <1>2, <1>4
<1>12. acc'[c] = SegStart(c, b) .. g - base[b]
  BY <1>5, <1>7 DEF k
<1> QED
  BY <1>1, <1>6, <1>7, <1>8, <1>9, <1>10, <1>11, <1>12 DEF g

\* A core that ends a part of a cut request has its next result slot at hand.
LEMMA NextSlot ==
  ASSUME Batch, Types, BalancedInv, NEW c \in Cores, NEW b \in Requests, Cut(c, b), ~Ended(c, b),
         Lo(c, b) <= At(c)
  PROVE  partialSlot[c] = SlotNo(c, b)
<1>1. partialSlot[c] \in 0 .. 2 /\ SlotNo(c, b) \in {0, 1}
  BY SlotNoFacts DEF Types, SlotsPerCore
<1>2. \A a \in Requests : Cut(c, a) => (Ended(c, a) <=> SlotNo(c, a) < partialSlot[c])
  BY DEF BalancedInv, Parts
<1>3. partialSlot[c] <= SlotNo(c, b)
  BY <1>1, <1>2
<1>4. CASE SlotNo(c, b) = 0
  BY <1>1, <1>3, <1>4
<1>5. CASE SlotNo(c, b) = 1
  <2>1. PICK a \in Requests : a < b /\ Cut(c, a)
    BY <1>5 DEF SlotNo
  <2>2. SlotNo(c, a) = 0 /\ Hi(c, a) <= Lo(c, b)
    BY <2>1, CutsOrdered
  <2>3. Hi(c, a) \in Nat /\ Lo(c, b) \in Nat /\ ChunkStart(c) \in Nat /\ done[c] \in Nat
    BY PartFacts, CoreFacts DEF Types
  <2>4. Ended(c, a)
    BY <2>1, <2>2, <2>3 DEF Ended, Cut, At
  <2>5. 0 < partialSlot[c]
    BY <1>2, <2>1, <2>2, <2>4
  <2> QED
    BY <1>1, <1>3, <1>5, <2>5
<1> QED
  BY <1>1, <1>4, <1>5

\* The last chunk of a part of a cut request: the part is in the next result slot.
LEMMA CutEnds ==
  ASSUME Batch, Types, BalancedInv, NEW c \in Cores, BalancedChunk(c), NEW b, b = RequestOf(At(c)),
         At(c) + 1 = Hi(c, b), IsPartial(c, b)
  PROVE  Types' /\ Parts' /\ Answered'
<1> DEFINE r == ResultSlot(c, b)
<1>1. /\ b \in Requests /\ Has(c, b) /\ ~Ended(c, b) /\ Lo(c, b) <= At(c) /\ At(c) \in Nat
      /\ \A a \in Requests : Ended(c, a)' <=> Ended(c, a) \/ a = b
      /\ \A d \in Cores \ {c}, a \in Requests : Ended(d, a)' <=> Ended(d, a)
  BY ChunkFacts
<1>2. /\ UNCHANGED <<load, pc>> /\ pc[c] = "main" /\ DOMAIN acc' = Cores
      /\ done' \in [Cores -> Nat] /\ finalize' \in [Cores -> Requests \cup {None}]
      /\ acc'[c] = SegStart(c, b) .. At(c) - base[b]
      /\ EndSegment(c, b, acc'[c])
  BY ChunkResult
<1>3. Cut(c, b)
  BY <1>1 DEF Cut
<1>4. partialSlot[c] = SlotNo(c, b) /\ SlotNo(c, b) \in 0 .. 1
  BY <1>1, <1>3, NextSlot, SlotNoFacts DEF SlotsPerCore
<1>5. acc'[c] = Part(c, b)
  <2>1. SegEnd(c, b) = Hi(c, b) - base[b] /\ base[b] \in Nat /\ Hi(c, b) \in Nat
    BY <1>1, PartFacts, RequestFacts
  <2>2. SegEnd(c, b) - 1 = At(c) - base[b]
    BY <1>1, <2>1
  <2> QED
    BY <1>2, <2>2 DEF Part
<1>6. /\ meta' = [meta EXCEPT ![r] = b] /\ partial' = [partial EXCEPT ![r] = Part(c, b)]
      /\ partialSlot' = [partialSlot EXCEPT ![c] = @ + 1] /\ UNCHANGED <<answer, answers>>
  BY <1>2, <1>4, <1>5 DEF EndSegment, ResultSlot
<1>7. r \in ResultSlots /\ DOMAIN meta = ResultSlots /\ DOMAIN partial = ResultSlots
      /\ partialSlot \in [Cores -> 0 .. SlotsPerCore]
  BY SlotFacts, SlotNoFacts DEF Types, ResultSlot
<1>8. meta'[r] = b /\ partial'[r] = Part(c, b)
      /\ \A q \in ResultSlots : q # r => meta'[q] = meta[q] /\ partial'[q] = partial[q]
  BY <1>6, <1>7
<1> HIDE DEF r
<1>9. partialSlot'[c] = SlotNo(c, b) + 1 /\ partialSlot' \in [Cores -> 0 .. SlotsPerCore]
      /\ \A d \in Cores \ {c} : partialSlot'[d] = partialSlot[d]
  BY <1>4, <1>6, <1>7 DEF SlotsPerCore
<1>10. Types'
  <2>1. Requests' = Requests /\ DOMAIN meta' = ResultSlots /\ DOMAIN partial' = ResultSlots
    BY <1>2, <1>6, <1>7, LoadKept
  <2> QED
    BY <1>2, <1>6, <1>9, <2>1 DEF Types
<1>11. ASSUME NEW d \in Cores, NEW s \in 0 .. SlotsPerCore - 1
       PROVE  LET q == d * SlotsPerCore + s
              IN  /\ d = c /\ s = SlotNo(c, b) => q = r
                  /\ ~ (d = c /\ s = SlotNo(c, b)) => meta'[q] = meta[q] /\ partial'[q] = partial[q]
  <2> DEFINE q == d * SlotsPerCore + s
  <2>1. SlotNo(c, b) \in 0 .. SlotsPerCore - 1 /\ r = c * SlotsPerCore + SlotNo(c, b)
    BY SlotNoFacts DEF ResultSlot, r
  <2>2. q \in ResultSlots /\ (q = r <=> d = c /\ s = SlotNo(c, b))
    BY <2>1, SlotFacts
  <2> QED
    BY <1>8, <2>2
<1>12. ASSUME NEW d \in Cores, NEW a \in Requests, Cut(d, a)
       PROVE  /\ Ended(d, a)' <=> SlotNo(d, a) < partialSlot'[d]
              /\ Ended(d, a)' => /\ meta'[ResultSlot(d, a)] = a
                                 /\ partial'[ResultSlot(d, a)] = Part(d, a)
  <2>0. SlotNo(d, a) \in 0 .. SlotsPerCore - 1 /\ ResultSlot(d, a) = d * SlotsPerCore + SlotNo(d, a)
    BY SlotNoFacts DEF ResultSlot
  <2>1. /\ Ended(d, a) <=> SlotNo(d, a) < partialSlot[d]
        /\ Ended(d, a) => meta[ResultSlot(d, a)] = a /\ partial[ResultSlot(d, a)] = Part(d, a)
    BY <1>12 DEF BalancedInv, Parts
  <2>2. CASE d # c
    BY <1>1, <1>9, <1>11, <2>0, <2>1, <2>2
  <2>3. CASE d = c /\ a = b
    <3>1. ResultSlot(d, a) = r
      BY <2>3 DEF r
    <3> QED
      BY <1>1, <1>4, <1>8, <1>9, <2>3, <3>1
  <2>4. CASE d = c /\ a # b
    <3>1. a \in Nat /\ b \in Nat /\ Cut(c, a)
      BY <1>1, <1>12, <2>4, RequestFacts
    <3>2. SlotNo(c, a) # SlotNo(c, b) /\ SlotNo(c, a) \in {0, 1}
      <4>1. a < b \/ b < a
        BY <2>4, <3>1
      <4>2. ASSUME a < b PROVE SlotNo(c, a) = 0 /\ SlotNo(c, b) = 1
        BY <1>1, <1>3, <3>1, <4>2, CutsOrdered
      <4>3. ASSUME b < a PROVE SlotNo(c, a) = 1 /\ SlotNo(c, b) = 0
        BY <1>1, <1>3, <3>1, <4>3, CutsOrdered
      <4> QED
        BY <4>1, <4>2, <4>3
    <3>3. Ended(c, a)' <=> Ended(c, a)
      BY <1>1, <2>4
    <3> QED
      BY <1>4, <1>9, <1>11, <2>0, <2>1, <2>4, <3>2, <3>3
  <2> QED
    BY <2>2, <2>3, <2>4
<1>13. ASSUME NEW d \in Cores, pc[d] # "init", NEW s \in 0 .. SlotsPerCore - 1,
              meta'[d * SlotsPerCore + s] # None
       PROVE  \E a \in Requests : /\ meta'[d * SlotsPerCore + s] = a
                                  /\ Cut(d, a) /\ Ended(d, a)' /\ SlotNo(d, a) = s
  <2>1. CASE d = c /\ s = SlotNo(c, b)
    <3>1. meta'[d * SlotsPerCore + s] = b
      BY <1>8, <1>11, <2>1
    <3> QED
      BY <1>1, <1>3, <2>1, <3>1
  <2>2. CASE ~ (d = c /\ s = SlotNo(c, b))
    <3>1. meta'[d * SlotsPerCore + s] = meta[d * SlotsPerCore + s]
      BY <1>11, <2>2
    <3>2. PICK a \in Requests : /\ meta[d * SlotsPerCore + s] = a
                                /\ Cut(d, a) /\ Ended(d, a) /\ SlotNo(d, a) = s
      BY <1>13, <3>1 DEF BalancedInv, Parts
    <3>3. Ended(d, a)'
      BY <1>1, <3>2
    <3> QED
      BY <3>1, <3>2, <3>3
  <2> QED
    BY <2>1, <2>2
<1>14. Parts'
  <2>1. pc' = pc
    BY <1>2
  <2> QED
    BY <1>2, <1>12, <1>13, <2>1, LoadKept DEF Parts
<1>15. Answered'
  <2>1. \A d \in Cores, a \in Requests : Sole(d, a) => (Ended(d, a)' <=> Ended(d, a))
    BY <1>1, <1>3 DEF Sole, Cut
  <2>2. chunks' = chunks /\ pc' = pc /\ answer' = answer /\ answers' = answers
    BY <1>2, <1>6 DEF load
  <2> QED
    BY <1>2, <2>1, <2>2, LoadKept DEF BalancedInv, Answered
<1> QED
  BY <1>10, <1>14, <1>15

\* The last chunk of a request of one core: the request is answered, for the first time.
LEMMA SoleEnds ==
  ASSUME Batch, Types, BalancedInv, NEW c \in Cores, BalancedChunk(c), NEW b, b = RequestOf(At(c)),
         At(c) + 1 = Hi(c, b), ~IsPartial(c, b)
  PROVE  Types' /\ Parts' /\ Answered'
<1>1. /\ b \in Requests /\ Has(c, b) /\ ~Ended(c, b) /\ At(c) \in Nat
      /\ \A a \in Requests : Ended(c, a)' <=> Ended(c, a) \/ a = b
      /\ \A d \in Cores \ {c}, a \in Requests : Ended(d, a)' <=> Ended(d, a)
  BY ChunkFacts
<1>2. /\ UNCHANGED <<load, pc>> /\ DOMAIN acc' = Cores
      /\ done' \in [Cores -> Nat] /\ finalize' \in [Cores -> Requests \cup {None}]
      /\ acc'[c] = SegStart(c, b) .. At(c) - base[b]
      /\ EndSegment(c, b, acc'[c])
  BY ChunkResult
<1>3. Sole(c, b) /\ ~Cut(c, b)
  BY <1>1 DEF Sole, Cut
<1>4. acc'[c] = Whole(b)
  <2>1. SegStart(c, b) = 0 /\ SegEnd(c, b) = chunks[b]
    BY DEF IsPartial
  <2>2. SegEnd(c, b) = Hi(c, b) - base[b] /\ base[b] \in Nat /\ Hi(c, b) \in Nat
    BY <1>1, PartFacts, RequestFacts
  <2>3. At(c) - base[b] = chunks[b] - 1
    BY <1>1, <2>1, <2>2
  <2> QED
    BY <1>2, <2>1, <2>3 DEF Whole
<1>5. Publish(b, Whole(b)) /\ UNCHANGED <<meta, partial, partialSlot>>
  BY <1>2, <1>4 DEF EndSegment
<1>6. answers[b] = 0
  <2>1. answers[b] # 1 /\ answers[b] \in 0 .. 1
    BY <1>1, <1>3 DEF BalancedInv, Answered, Types
  <2> QED
    BY <2>1
<1>7. /\ answer'[b] = Whole(b) /\ answers'[b] = 1
      /\ \A a \in Requests : a # b => answer'[a] = answer[a] /\ answers'[a] = answers[a]
      /\ DOMAIN answer' = Requests /\ answers' \in [Requests -> 0 .. 1]
  <2>1. DOMAIN answer = Requests /\ answers \in [Requests -> 0 .. 1]
    BY DEF Types
  <2> QED
    BY <1>1, <1>5, <1>6, <2>1 DEF Publish
<1>8. Types'
  <2>1. Requests' = Requests
    BY <1>2, LoadKept
  <2> QED
    BY <1>2, <1>5, <1>7, <2>1 DEF Types
<1>9. Parts'
  <2>1. \A d \in Cores, a \in Requests : Cut(d, a) => (Ended(d, a)' <=> Ended(d, a))
    BY <1>1, <1>3
  <2> QED
    BY <1>2, <1>5, <2>1, LoadKept DEF BalancedInv, Parts
<1>10. Answered'
  <2>1. chunks' = chunks /\ pc' = pc
    BY <1>2 DEF load
  <2>2. \A a \in Requests : answers'[a] = 1 \/ chunks[a] = 0 => answer'[a] = Whole(a)
    BY <1>7 DEF BalancedInv, Answered
  <2>3. ASSUME NEW d \in Cores, NEW a \in Requests
        PROVE  /\ Sole(d, a) => (answers'[a] = 1 <=> Ended(d, a)')
               /\ Heads(d, a) => (answers'[a] = 1 <=> pc[d] = "done")
               /\ a \in EmptyRows(d) =>
                    /\ answers'[a] = 1 => pc[d] \in {"tail", "done"}
                    /\ pc[d] = "done" => answers'[a] = 1
    <3>1. CASE a = b
      <4>1. chunks[b] # 0
        BY <1>1, PartFacts
      <4>2. Sole(d, a) => d = c
        BY <1>1, <1>3, <3>1, SoleUnique
      <4>3. ~Heads(d, a)
        BY <1>1, <1>3, <3>1, HeadUnique
      <4> QED
        BY <1>1, <1>7, <3>1, <4>1, <4>2, <4>3 DEF EmptyRows
    <3>2. CASE a # b
      <4>1. Ended(d, a)' <=> Ended(d, a)
        BY <1>1, <3>2
      <4> QED
        BY <1>7, <3>2, <4>1 DEF BalancedInv, Answered
    <3> QED
      BY <3>1, <3>2
  <2> QED
    BY <1>2, <2>1, <2>2, <2>3, LoadKept DEF Answered
<1> QED
  BY <1>8, <1>9, <1>10

\* One ProcessChunk, whether it ends a part or not.
LEMMA BalancedChunkInv ==
  ASSUME Batch, Types, BalancedInv, NEW c \in Cores, BalancedChunk(c)
  PROVE  Types' /\ BalancedInv'
<1> DEFINE b == RequestOf(At(c))
<1>1. /\ UNCHANGED <<load, pc>> /\ DOMAIN acc' = Cores
      /\ Places' /\ Running' /\ Merging'
      /\ done' \in [Cores -> Nat] /\ finalize' \in [Cores -> Requests \cup {None}]
      /\ At(c) + 1 # Hi(c, b) => UNCHANGED <<meta, partial, partialSlot, answer, answers>>
  BY ChunkResult
<1>2. CASE At(c) + 1 = Hi(c, b) /\ IsPartial(c, b)
  BY <1>1, <1>2, CutEnds DEF BalancedInv
<1>3. CASE At(c) + 1 = Hi(c, b) /\ ~IsPartial(c, b)
  BY <1>1, <1>3, SoleEnds DEF BalancedInv
<1>4. CASE At(c) + 1 # Hi(c, b)
  <2>1. \A d \in Cores, a \in Requests : Ended(d, a)' <=> Ended(d, a)
    <3>1. \A a \in Requests : Ended(c, a)' <=> Ended(c, a)
      BY <1>4, ChunkFacts
    <3>2. \A d \in Cores \ {c}, a \in Requests : Ended(d, a)' <=> Ended(d, a)
      BY ChunkFacts
    <3> QED
      BY <3>1, <3>2
  <2>2. chunks' = chunks /\ pc' = pc /\ Requests' = Requests
    BY <1>1, LoadKept DEF load
  <2>3. UNCHANGED <<meta, partial, partialSlot, answer, answers>>
    BY <1>1, <1>4
  <2>4. Types'
    BY <1>1, <2>2, <2>3 DEF Types
  <2>5. Parts'
    BY <1>1, <2>1, <2>2, <2>3, LoadKept DEF BalancedInv, Parts
  <2>6. Answered'
    BY <1>1, <2>1, <2>2, <2>3, LoadKept DEF BalancedInv, Answered
  <2> QED
    BY <1>1, <2>4, <2>5, <2>6 DEF BalancedInv
<1> QED
  BY <1>2, <1>3, <1>4

\* A row without chunks is answered by the one core it falls to.
LEMMA CleanEmptyInv ==
  ASSUME Batch, Types, BalancedInv, NEW c \in Cores, CleanEmpty(c)
  PROVE  Types' /\ BalancedInv'
<1>1. PICK b \in EmptyRows(c) : answers[b] = 0 /\ answers' = [answers EXCEPT ![b] = @ + 1]
  BY Zenon DEF CleanEmpty
<1>2. /\ pc[c] = "tail"
      /\ UNCHANGED <<load, pc, done, acc, partialSlot, meta, partial, finalize, answer>>
  BY DEF CleanEmpty
<1>3. b \in Requests /\ chunks[b] = 0 /\ b % NumCores = c
  BY DEF EmptyRows
<1>4. /\ answers'[b] = 1 /\ answers' \in [Requests -> 0 .. 1]
      /\ \A a \in Requests : a # b => answers'[a] = answers[a]
  <2>1. answers \in [Requests -> 0 .. 1]
    BY DEF Types
  <2> QED
    BY <1>1, <1>3, <2>1
<1>5. Types'
  BY <1>2, <1>4, LoadKept DEF Types
<1>6. Places'
  BY <1>2, LoadKept DEF BalancedInv, Places
<1>7. Running' /\ Merging' /\ Parts'
  BY <1>2, RunningKept, MergingKept, PartsKept DEF BalancedInv
<1>8. Answered'
  <2>1. chunks' = chunks /\ pc' = pc /\ answer' = answer
    BY <1>2 DEF load
  <2>2. \A a \in Requests : answers'[a] = 1 \/ chunks[a] = 0 => answer[a] = Whole(a)
    BY <1>3, <1>4 DEF BalancedInv, Answered
  <2>3. ASSUME NEW d \in Cores, NEW a \in Requests
        PROVE  /\ Sole(d, a) => (answers'[a] = 1 <=> Ended(d, a))
               /\ Heads(d, a) => (answers'[a] = 1 <=> pc[d] = "done")
               /\ a \in EmptyRows(d) =>
                    /\ answers'[a] = 1 => pc[d] \in {"tail", "done"}
                    /\ pc[d] = "done" => answers'[a] = 1
    <3>1. CASE a = b
      <4>1. ~Sole(d, a) /\ ~Heads(d, a)
        BY <1>3, <3>1, PartFacts DEF Sole, Heads
      <4>2. a \in EmptyRows(d) => d = c
        BY <1>3, <3>1 DEF EmptyRows
      <4> QED
        BY <1>2, <1>4, <3>1, <4>1, <4>2
    <3>2. CASE a # b
      BY <1>4, <3>2 DEF BalancedInv, Answered
    <3> QED
      BY <3>1, <3>2
  <2> QED
    BY <1>2, <2>1, <2>2, <2>3, LoadKept, ShareKept DEF Answered
<1> QED
  BY <1>5, <1>6, <1>7, <1>8 DEF BalancedInv

\* What FinalizePartialRequest finds in the result slots is all of the request.
LEMMA MergedWhole ==
  ASSUME Batch, Types, BalancedInv, NEW c \in Cores, pc[c] \in {"tail", "done"},
         NEW b \in Requests, Heads(c, b)
  PROVE  PartialsOf(c, b) # {} /\ UNION {partial[r] : r \in PartialsOf(c, b)} = Whole(b)
<1>1. /\ \A d \in Cores : d \in c .. LastOwner(b) <=> Has(d, b)
      /\ \A d \in Cores : Has(d, b) => Cut(d, b)
      /\ UNION {Part(d, b) : d \in {e \in Cores : Has(e, b)}} = Whole(b)
  BY CutParts
<1>2. ASSUME NEW d \in Cores PROVE pc[d] # "init" /\ (Has(d, b) => Ended(d, b))
  <2>1. pc[d] \in {"tail", "done"} /\ done[d] = ChunkShare(d)
    BY DEF BalancedInv, Places
  <2>2. At(d) = ChunkEnd(d)
    BY <2>1 DEF At, ChunkEnd
  <2>3. Hi(d, b) <= ChunkEnd(d)
    BY PartFacts
  <2> QED
    BY <2>1, <2>2, <2>3 DEF Ended
<1>3. ASSUME NEW d \in Cores, Has(d, b)
      PROVE  ResultSlot(d, b) \in PartialsOf(c, b) /\ partial[ResultSlot(d, b)] = Part(d, b)
  <2>1. /\ ResultSlot(d, b) \in ResultSlots /\ ResultSlot(d, b) \div SlotsPerCore = d
    BY SlotFacts, SlotNoFacts DEF ResultSlot
  <2>2. meta[ResultSlot(d, b)] = b /\ partial[ResultSlot(d, b)] = Part(d, b)
    BY <1>1, <1>2, <1>3 DEF BalancedInv, Parts
  <2> QED
    BY <1>1, <1>3, <2>1, <2>2 DEF PartialsOf
<1>4. ASSUME NEW r \in PartialsOf(c, b)
      PROVE  \E d \in Cores : Has(d, b) /\ partial[r] = Part(d, b)
  <2> DEFINE d == r \div SlotsPerCore
  <2>1. r \in ResultSlots /\ d \in c .. LastOwner(b) /\ meta[r] = b
    BY DEF PartialsOf
  <2>2. d \in Cores /\ \E s \in 0 .. SlotsPerCore - 1 : r = d * SlotsPerCore + s
    BY <2>1, SlotSplit
  <2> HIDE DEF d
  <2>3. PICK s \in 0 .. SlotsPerCore - 1 : r = d * SlotsPerCore + s
    BY <2>2
  <2>4. b # None /\ pc[d] # "init"
    BY <1>2, <2>2, RequestFacts DEF None
  <2>5. Cut(d, b) /\ Ended(d, b) /\ SlotNo(d, b) = s
    BY <2>1, <2>2, <2>3, <2>4 DEF BalancedInv, Parts
  <2>6. ResultSlot(d, b) = r /\ Has(d, b)
    BY <2>3, <2>5 DEF ResultSlot, Cut
  <2> QED
    BY <1>3, <2>2, <2>6
<1>5. UNION {partial[r] : r \in PartialsOf(c, b)} = UNION {Part(d, b) : d \in {e \in Cores : Has(e, b)}}
  <2>1. ASSUME NEW k, NEW r \in PartialsOf(c, b), k \in partial[r]
        PROVE  \E d \in {e \in Cores : Has(e, b)} : k \in Part(d, b)
    BY <1>4, <2>1
  <2>2. ASSUME NEW k, NEW d \in {e \in Cores : Has(e, b)}, k \in Part(d, b)
        PROVE  \E r \in PartialsOf(c, b) : k \in partial[r]
    BY <1>3, <2>2
  <2> QED
    BY <2>1, <2>2
<1>6. Has(c, b)
  BY DEF Heads
<1> QED
  BY <1>1, <1>3, <1>5, <1>6

\* The merging core answers the request it has the head of, for the first time.
LEMMA FinalizeInv ==
  ASSUME Batch, Types, BalancedInv, NEW c \in Cores, Finalize(c)
  PROVE  Types' /\ BalancedInv'
<1> DEFINE f == finalize[c]
<1>1. /\ pc[c] = "tail" /\ pc' = [pc EXCEPT ![c] = "done"]
      /\ \A b \in EmptyRows(c) : answers[b] # 0
      /\ UNCHANGED <<load, done, acc, partialSlot, meta, partial, finalize>>
      /\ IF f # None /\ PartialsOf(c, f) # {}
           THEN Publish(f, UNION {partial[r] : r \in PartialsOf(c, f)})
           ELSE UNCHANGED <<answer, answers>>
  BY DEF Finalize
<1>2. /\ pc' \in [Cores -> {"init", "main", "sync", "tail", "local", "done"}] /\ pc'[c] = "done"
      /\ \A d \in Cores \ {c} : pc'[d] = pc[d]
      /\ DOMAIN answer = Requests /\ answers \in [Requests -> 0 .. 1]
      /\ f \in Requests \cup {None}
  BY <1>1 DEF Types
<1> HIDE DEF f
<1>3. \A d \in Cores : pc[d] \in {"tail", "done"}
  BY <1>1 DEF BalancedInv, Places
<1>4. ASSUME NEW b \in Requests PROVE Heads(c, b) <=> f = b
  <2>1. ASSUME Heads(c, b) PROVE base[b] < At(c)
    <3>1. done[c] = ChunkShare(c)
      BY <1>1 DEF BalancedInv, Places
    <3>2. At(c) = ChunkEnd(c)
      BY <3>1 DEF At, ChunkEnd
    <3>3. Has(c, b)
      BY <2>1 DEF Heads
    <3>4. Lo(c, b) < Hi(c, b) /\ base[b] <= Lo(c, b) /\ Hi(c, b) <= ChunkEnd(c)
          /\ Lo(c, b) \in Nat /\ Hi(c, b) \in Nat /\ base[b] \in Nat /\ ChunkEnd(c) \in Nat
      BY <3>3, PartFacts, RequestFacts, CoreFacts DEF Has
    <3> QED
      BY <3>2, <3>4
  <2>2. Heads(c, b) => f = b
    BY <2>1 DEF BalancedInv, Merging, f
  <2>3. b # None
    BY RequestFacts DEF None
  <2> QED
    BY <2>2, <2>3 DEF BalancedInv, Merging, f
<1>5. IF f \in Requests
        THEN /\ answers[f] = 0 /\ answers'[f] = 1 /\ answer'[f] = Whole(f)
             /\ \A a \in Requests : a # f => answer'[a] = answer[a] /\ answers'[a] = answers[a]
             /\ DOMAIN answer' = Requests /\ answers' \in [Requests -> 0 .. 1]
        ELSE UNCHANGED <<answer, answers>>
  <2>1. CASE f \in Requests
    <3>1. Heads(c, f) /\ f # None
      BY <1>4, <2>1, RequestFacts DEF None
    <3>2. Publish(f, Whole(f))
      BY <1>1, <2>1, <3>1, MergedWhole
    <3>3. answers[f] # 1 /\ answers[f] \in 0 .. 1
      BY <1>1, <1>2, <2>1, <3>1 DEF BalancedInv, Answered
    <3>4. answers[f] = 0
      BY <3>3
    <3>5. answer' = [answer EXCEPT ![f] = Whole(f)] /\ answers' = [answers EXCEPT ![f] = @ + 1]
      BY <3>2 DEF Publish
    <3> QED
      BY <1>2, <2>1, <3>4, <3>5
  <2>2. CASE f \notin Requests
    BY <1>1, <1>2, <2>2
  <2> QED
    BY <2>1, <2>2
<1>6. Types'
  <2>1. DOMAIN answer' = Requests /\ answers' \in [Requests -> 0 .. 1]
    BY <1>2, <1>5
  <2> QED
    BY <1>1, <1>2, <2>1, LoadKept DEF Types
<1>7. Places'
  BY <1>1, <1>2, <1>3, LoadKept DEF BalancedInv, Places
<1>8. Running' /\ Merging' /\ Parts'
  BY <1>1, <1>2, <1>3, RunningKept, MergingKept, PartsKept DEF BalancedInv
<1>9. Answered'
  <2>1. chunks' = chunks
    BY <1>1 DEF load
  <2>2. \A a \in Requests : answers'[a] = 1 \/ chunks[a] = 0 => answer'[a] = Whole(a)
    BY <1>5 DEF BalancedInv, Answered
  <2>3. ASSUME NEW d \in Cores, NEW a \in Requests
        PROVE  /\ Sole(d, a) => (answers'[a] = 1 <=> Ended(d, a))
               /\ Heads(d, a) => (answers'[a] = 1 <=> pc'[d] = "done")
               /\ a \in EmptyRows(d) =>
                    /\ answers'[a] = 1 => pc'[d] \in {"tail", "done"}
                    /\ pc'[d] = "done" => answers'[a] = 1
    <3>0. pc'[d] \in {"tail", "done"}
      BY <1>2, <1>3
    <3>1. CASE a = f
      <4>1. Heads(c, a) /\ answers'[a] = 1
        BY <1>4, <1>5, <3>1
      <4>2. ~Sole(d, a) /\ (Heads(d, a) => d = c)
        BY <4>1, HeadUnique
      <4> QED
        BY <1>2, <3>0, <4>1, <4>2
    <3>2. CASE a # f
      <4>1. answers'[a] = answers[a] /\ answers[a] \in 0 .. 1
        BY <1>2, <1>5, <3>2
      <4>2. CASE d = c
        <5>1. ~Heads(d, a)
          BY <1>4, <3>2, <4>2
        <5>2. a \in EmptyRows(d) => answers[a] = 1
          BY <1>1, <4>1, <4>2
        <5>3. Sole(d, a) => (answers[a] = 1 <=> Ended(d, a))
          BY DEF BalancedInv, Answered
        <5> QED
          BY <3>0, <4>1, <5>1, <5>2, <5>3
      <4>3. CASE d # c
        BY <1>2, <4>1, <4>3 DEF BalancedInv, Answered
      <4> QED
        BY <4>2, <4>3
    <3> QED
      BY <3>1, <3>2
  <2> QED
    BY <1>1, <2>1, <2>2, <2>3, LoadKept, ShareKept DEF Answered
<1> QED
  BY <1>6, <1>7, <1>8, <1>9 DEF BalancedInv
-----------------------------------------------------------------------------
(* Without balancing.                                                      *)

\* One chunk of a request that is all on its core.
LEMMA LocalRequestInv ==
  ASSUME Batch, Types, LocalInv, NEW c \in Cores, LocalRequest(c)
  PROVE  Types' /\ LocalInv'
<1> DEFINE R == RequestsPerCore
           b == c * R + done[c]
           k == Cardinality(acc[c])
<1>1. /\ pc[c] = "local" /\ done[c] < R
      /\ UNCHANGED <<load, pc, partialSlot, meta, partial, finalize>>
  BY DEF LocalRequest
<1>2. \/ /\ chunks[b] = 0
         /\ answers' = [answers EXCEPT ![b] = @ + 1]
         /\ done' = [done EXCEPT ![c] = @ + 1] /\ UNCHANGED <<acc, answer>>
      \/ /\ chunks[b] # 0 /\ k + 1 < chunks[b]
         /\ acc' = [acc EXCEPT ![c] = @ \cup {k}] /\ UNCHANGED <<done, answer, answers>>
      \/ /\ chunks[b] # 0 /\ ~ (k + 1 < chunks[b])
         /\ answer' = [answer EXCEPT ![b] = acc[c] \cup {k}]
         /\ answers' = [answers EXCEPT ![b] = @ + 1]
         /\ acc' = [acc EXCEPT ![c] = {}] /\ done' = [done EXCEPT ![c] = @ + 1]
  BY Zenon DEF LocalRequest, EndLocalRequest, Publish
<1>3. /\ batch % NumCores = 0 /\ R \in Nat
      /\ DOMAIN acc = Cores /\ done \in [Cores -> Nat]
      /\ DOMAIN answer = Requests /\ answers \in [Requests -> 0 .. 1]
  BY LocalFacts DEF LocalInv, Types
<1>4. PICK m \in Nat : /\ acc[c] = 0 .. m - 1
                       /\ m = 0 \/ (done[c] < R /\ m < chunks[b])
  BY DEF LocalInv
<1>5. k = m
  BY <1>4, FS_Interval
<1>6. done[c] \in 0 .. R - 1 /\ done[c] \in Nat
  BY <1>1, <1>3
<1>7. b \in Requests /\ chunks[b] \in Nat
  BY <1>3, <1>6, LocalFacts, RequestFacts
<1>8. ASSUME NEW d \in Cores, NEW i \in 0 .. R - 1
      PROVE  /\ d * R + i \in Requests
             /\ d * R + i = b <=> d = c /\ i = done[c]
             /\ answers[d * R + i] = IF i < done[d] THEN 1 ELSE 0
             /\ answer[d * R + i] = IF i < done[d] THEN Whole(d * R + i) ELSE {}
  <2>1. d * R + i \in Requests /\ (d * R + i = b => d = c /\ i = done[c])
    BY <1>3, <1>6, LocalFacts
  <2> QED
    BY <2>1 DEF LocalInv
<1>9. answers[b] = 0 /\ answer[b] = {}
  <2>1. ~ (done[c] < done[c])
    BY <1>6
  <2> QED
    BY <1>6, <1>8, <2>1
<1> HIDE DEF b, k, R
<1>10. \A d \in Cores : d # c => acc'[d] = acc[d] /\ done'[d] = done[d]
  BY <1>2, <1>3
<1> DEFINE GoesOn(d) == \E n \in Nat :
             /\ acc'[d] = 0 .. n - 1
             /\ n = 0 \/ (done'[d] < R /\ n < chunks[d * R + done'[d]])
<1>11. ASSUME NEW d \in Cores, d # c PROVE GoesOn(d)
  <2>1. PICK n \in Nat : /\ acc[d] = 0 .. n - 1
                         /\ n = 0 \/ (done[d] < R /\ n < chunks[d * R + done[d]])
    BY DEF LocalInv, R
  <2>2. acc'[d] = acc[d] /\ done'[d] = done[d]
    BY <1>10, <1>11
  <2> QED
    BY <2>1, <2>2
<1> HIDE DEF GoesOn
<1>12. /\ pc' = pc /\ chunks' = chunks /\ batch' = batch /\ Requests' = Requests
       /\ R' = R /\ \A a : Whole(a)' = Whole(a)
  BY <1>1, LoadKept DEF load, R
<1>13. CASE k + 1 < chunks[b] /\ chunks[b] # 0
  <2>1. /\ acc' = [acc EXCEPT ![c] = @ \cup {k}] /\ UNCHANGED <<done, answer, answers>>
    BY <1>2, <1>13
  <2>2. acc'[c] = 0 .. (m + 1) - 1
    BY <1>3, <1>4, <1>5, <2>1
  <2>3. Types'
    BY <1>1, <1>12, <2>1 DEF Types
  <2>4. \E n \in Nat : /\ acc'[c] = 0 .. n - 1
                       /\ n = 0 \/ (done'[c] < R /\ n < chunks[b])
    BY <1>1, <1>5, <1>13, <2>1, <2>2
  <2>5. \A d \in Cores : GoesOn(d)
    <3>1. b = c * R + done'[c]
      BY <2>1 DEF b
    <3>2. GoesOn(c)
      BY <2>4, <3>1 DEF GoesOn
    <3> QED
      BY <1>11, <3>2
  <2>6. \A d \in Cores : /\ pc[d] \in {"local", "done"} /\ done[d] <= R
                         /\ pc[d] = "done" => done[d] = R
    BY DEF LocalInv, R
  <2>7. \A d \in Cores, i \in 0 .. R - 1 :
          /\ answers[d * R + i] = IF i < done[d] THEN 1 ELSE 0
          /\ answer[d * R + i] = IF i < done[d] THEN Whole(d * R + i) ELSE {}
    BY <1>8
  <2>8. done' = done /\ answer' = answer /\ answers' = answers
    BY <2>1
  <2>9. LocalInv'
    BY <1>3, <1>12, <2>5, <2>6, <2>7, <2>8 DEF LocalInv, R, GoesOn
  <2> QED
    BY <2>3, <2>9
<1>14. CASE ~ (k + 1 < chunks[b] /\ chunks[b] # 0)
  <2>1. done' = [done EXCEPT ![c] = @ + 1] /\ answers' = [answers EXCEPT ![b] = @ + 1]
    BY <1>2, <1>14
  <2>2. /\ DOMAIN answer' = Requests /\ answer'[b] = Whole(b) /\ DOMAIN acc' = Cores
        /\ \A a \in Requests : a # b => answer'[a] = answer[a]
        /\ acc'[c] = 0 .. 0 - 1
    <3>1. CASE chunks[b] = 0
      <4>1. m = 0 /\ Whole(b) = {}
        BY <1>4, <3>1 DEF Whole
      <4>2. UNCHANGED <<acc, answer>>
        BY <1>2, <3>1
      <4> QED
        BY <1>3, <1>4, <1>9, <4>1, <4>2
    <3>2. CASE chunks[b] # 0
      <4>1. m + 1 = chunks[b]
        BY <1>4, <1>5, <1>7, <1>14, <3>2
      <4>2. acc[c] \cup {k} = 0 .. m
        BY <1>4, <1>5
      <4>3. acc[c] \cup {k} = Whole(b)
        BY <1>7, <4>1, <4>2 DEF Whole
      <4>4. answer' = [answer EXCEPT ![b] = acc[c] \cup {k}] /\ acc' = [acc EXCEPT ![c] = {}]
        BY <1>2, <1>14, <3>2
      <4>5. 0 .. 0 - 1 = {}
        OBVIOUS
      <4> QED
        BY <1>3, <1>7, <4>3, <4>4, <4>5
    <3> QED
      BY <3>1, <3>2
  <2>3. /\ answers' \in [Requests -> 0 .. 1] /\ answers'[b] = 1
        /\ \A a \in Requests : a # b => answers'[a] = answers[a]
        /\ done' \in [Cores -> Nat] /\ done'[c] = done[c] + 1
    BY <1>3, <1>7, <1>9, <2>1
  <2>4. Types'
    BY <1>1, <1>12, <2>2, <2>3 DEF Types
  <2>5. \A d \in Cores : GoesOn(d)
    <3>1. GoesOn(c)
      BY <2>2 DEF GoesOn
    <3> QED
      BY <1>11, <3>1
  <2>6. ASSUME NEW d \in Cores, NEW i \in 0 .. R - 1
        PROVE  /\ answers'[d * R + i] = IF i < done'[d] THEN 1 ELSE 0
               /\ answer'[d * R + i] = IF i < done'[d] THEN Whole(d * R + i) ELSE {}
    <3>1. CASE d = c /\ i = done[c]
      <4>1. d * R + i = b /\ i < done'[d]
        BY <1>6, <1>8, <2>3, <3>1
      <4> QED
        BY <2>2, <2>3, <4>1
    <3>2. CASE ~ (d = c /\ i = done[c])
      <4>1. i < done'[d] <=> i < done[d]
        BY <1>6, <1>10, <2>3, <3>2
      <4>2. d * R + i # b /\ d * R + i \in Requests
        BY <1>8, <3>2
      <4> QED
        BY <1>8, <2>2, <2>3, <4>1, <4>2
    <3> QED
      BY <3>1, <3>2
  <2>7. \A d \in Cores : /\ pc[d] \in {"local", "done"} /\ done'[d] <= R
                         /\ pc[d] = "done" => done'[d] = R
    <3>1. done'[c] <= R /\ pc[c] # "done"
      BY <1>1, <1>3, <1>6, <2>3
    <3> QED
      BY <1>10, <3>1 DEF LocalInv, R
  <2> QED
    BY <1>3, <1>12, <2>4, <2>5, <2>6, <2>7 DEF LocalInv, R, GoesOn
<1> QED
  BY <1>13, <1>14

\* A core that has answered its own requests is done.
LEMMA LocalEndInv ==
  ASSUME Batch, Types, LocalInv, NEW c \in Cores, LocalEnd(c)
  PROVE  Types' /\ LocalInv'
<1>1. /\ pc[c] = "local" /\ done[c] = RequestsPerCore /\ pc' = [pc EXCEPT ![c] = "done"]
      /\ UNCHANGED <<load, done, acc, partialSlot, meta, partial, finalize, answer, answers>>
  BY DEF LocalEnd
<1>2. /\ pc' \in [Cores -> {"init", "main", "sync", "tail", "local", "done"}] /\ pc'[c] = "done"
      /\ \A d \in Cores \ {c} : pc'[d] = pc[d]
  BY <1>1 DEF Types
<1>3. Types'
  BY <1>1, <1>2, LoadKept DEF Types
<1>4. chunks' = chunks /\ batch' = batch
  BY <1>1 DEF load
<1>5. LocalInv'
  BY <1>1, <1>2, <1>4, LoadKept DEF LocalInv
<1> QED
  BY <1>3, <1>5
-----------------------------------------------------------------------------
(* The theorems.                                                           *)

\* Every step keeps the invariant.
LEMMA StepScheduleInv == ScheduleInv /\ [Next]_vars => ScheduleInv'
<1> SUFFICES ASSUME ScheduleInv, [Next]_vars PROVE ScheduleInv'
  OBVIOUS
<1>1. Batch /\ Types
  BY DEF ScheduleInv
<1>2. Batch' \/ ~ UNCHANGED load
  BY <1>1, LoadKept
<1>3. CASE UNCHANGED vars
  <2>1. UNCHANGED <<load, pc, done, acc, partialSlot, meta, partial, finalize, answer, answers>>
    BY <1>3 DEF vars
  <2>2. Batch' /\ Types'
    BY <1>1, <2>1, LoadKept DEF Types
  <2>3. BalancedInv => BalancedInv'
    <3> SUFFICES ASSUME BalancedInv PROVE BalancedInv'
      OBVIOUS
    <3>1. Places'
      BY <2>1, LoadKept DEF BalancedInv, Places
    <3>2. Running' /\ Parts' /\ Merging' /\ Answered'
      BY <2>1, RunningKept, PartsKept, MergingKept, AnsweredKept DEF BalancedInv
    <3> QED
      BY <3>1, <3>2 DEF BalancedInv
  <2>4. LocalInv => LocalInv'
    <3>1. chunks' = chunks /\ batch' = batch
      BY <2>1 DEF load
    <3> QED
      BY <2>1, <3>1, LoadKept DEF LocalInv
  <2> QED
    BY <2>2, <2>3, <2>4 DEF ScheduleInv
<1>4. CASE Returned
  BY <1>3, <1>4 DEF Returned
<1>5. ASSUME BalancedInv, (\E c \in Cores : CoreStep(c)) \/ SyncAll PROVE ScheduleInv'
  <2>1. UNCHANGED load
    BY <1>5 DEF CoreStep, InitPartialMetadata, BalancedChunk, ArriveSync, CleanEmpty, Finalize,
                LocalRequest, LocalEnd, SyncAll
  <2>2. CASE SyncAll
    BY <1>1, <1>2, <1>5, <2>1, <2>2, SyncAllInv DEF ScheduleInv
  <2>3. ASSUME NEW c \in Cores, CoreStep(c) PROVE ScheduleInv'
    <3>1. CASE InitPartialMetadata(c)
      BY <1>1, <1>2, <1>5, <2>1, <3>1, InitPartialMetadataInv DEF ScheduleInv
    <3>2. CASE BalancedChunk(c)
      BY <1>1, <1>2, <1>5, <2>1, <3>2, BalancedChunkInv DEF ScheduleInv
    <3>3. CASE ArriveSync(c)
      BY <1>1, <1>2, <1>5, <2>1, <3>3, ArriveSyncInv DEF ScheduleInv
    <3>4. CASE CleanEmpty(c)
      BY <1>1, <1>2, <1>5, <2>1, <3>4, CleanEmptyInv DEF ScheduleInv
    <3>5. CASE Finalize(c)
      BY <1>1, <1>2, <1>5, <2>1, <3>5, FinalizeInv DEF ScheduleInv
    <3>6. ~LocalRequest(c) /\ ~LocalEnd(c)
      BY <1>5 DEF BalancedInv, Places, LocalRequest, LocalEnd
    <3> QED
      BY <2>3, <3>1, <3>2, <3>3, <3>4, <3>5, <3>6 DEF CoreStep
  <2> QED
    BY <1>5, <2>2, <2>3
<1>6. ASSUME LocalInv, (\E c \in Cores : CoreStep(c)) \/ SyncAll PROVE ScheduleInv'
  <2>1. UNCHANGED load
    BY <1>6 DEF CoreStep, InitPartialMetadata, BalancedChunk, ArriveSync, CleanEmpty, Finalize,
                LocalRequest, LocalEnd, SyncAll
  <2>2. \A c \in Cores : pc[c] \in {"local", "done"}
    BY <1>6 DEF LocalInv
  <2>3. ~SyncAll
    <3>1. 0 \in Cores
      BY SizeAssumption DEF Cores
    <3> QED
      BY <2>2, <3>1 DEF SyncAll
  <2>4. ASSUME NEW c \in Cores, CoreStep(c) PROVE ScheduleInv'
    <3>1. LocalRequest(c) \/ LocalEnd(c)
      BY <2>2, <2>4 DEF CoreStep, InitPartialMetadata, BalancedChunk, ArriveSync, CleanEmpty, Finalize
    <3>2. Types' /\ LocalInv'
      BY <1>1, <1>6, <3>1, LocalRequestInv, LocalEndInv
    <3> QED
      BY <1>2, <2>1, <3>2 DEF ScheduleInv
  <2> QED
    BY <1>6, <2>3, <2>4
<1> QED
  BY <1>3, <1>4, <1>5, <1>6 DEF ScheduleInv, Next

\* So it holds throughout.
LEMMA ScheduleInvHolds == Spec => []ScheduleInv
<1>1. Init => ScheduleInv
  BY InitScheduleInv
<1>2. ScheduleInv /\ [Next]_vars => ScheduleInv'
  BY StepScheduleInv
<1> QED
  BY <1>1, <1>2, PTL DEF Spec

\* Every published answer is the top K of all chunks of its request: whatever
\* the shares, the parts the merging core finds are disjoint pieces that make it
\* up, and nothing of an earlier launch is among them.
THEOREM AnswersAreWholeHolds == Spec => []AnswersAreWhole
<1>1. ScheduleInv => AnswersAreWhole
  <2> SUFFICES ASSUME ScheduleInv, NEW b \in Requests, answers[b] > 0 PROVE answer[b] = Whole(b)
    BY DEF AnswersAreWhole
  <2>1. Batch /\ Types
    BY DEF ScheduleInv
  <2>2. answers[b] = 1
    BY <2>1 DEF Types
  <2>3. CASE BalancedInv
    BY <2>2, <2>3 DEF BalancedInv, Answered
  <2>4. CASE LocalInv
    <3>1. PICK c \in Cores, i \in 0 .. RequestsPerCore - 1 : b = c * RequestsPerCore + i
      BY <2>1, <2>4, LocalFacts DEF LocalInv
    <3> QED
      BY <2>2, <2>4, <3>1 DEF LocalInv
  <2> QED
    BY <2>3, <2>4 DEF ScheduleInv
<1> QED
  BY <1>1, ScheduleInvHolds, PTL

\* No request is answered twice, and none is forgotten: when all cores are done,
\* each has been answered once, with balancing and without.
THEOREM AnsweredOnceHolds == Spec => []AnsweredOnce
<1>1. ScheduleInv => AnsweredOnce
  <2> SUFFICES ASSUME ScheduleInv, NEW b \in Requests
               PROVE  answers[b] <= 1 /\ (AllDone => answers[b] = 1)
    BY DEF AnsweredOnce
  <2>1. Batch /\ Types
    BY DEF ScheduleInv
  <2>2. answers[b] <= 1
    BY <2>1 DEF Types
  <2>3. ASSUME BalancedInv, AllDone PROVE answers[b] = 1
    <3>1. CASE chunks[b] = 0
      <4>1. b % NumCores \in Cores
        BY <2>1, SizeAssumption, RequestFacts, Division DEF Cores
      <4>2. b \in EmptyRows(b % NumCores)
        BY <3>1 DEF EmptyRows
      <4> QED
        BY <2>3, <4>1, <4>2 DEF AllDone, BalancedInv, Answered
    <3>2. CASE chunks[b] # 0
      <4>1. PICK c \in Cores : Sole(c, b) \/ Heads(c, b)
        BY <2>1, <3>2, RequestServed
      <4>2. Sole(c, b) => Ended(c, b)
        <5>1. At(c) = ChunkEnd(c)
          BY <2>3 DEF AllDone, BalancedInv, Places, At, ChunkEnd
        <5> QED
          BY <2>1, <5>1, PartFacts DEF Sole, Ended
      <4> QED
        BY <2>3, <4>1, <4>2 DEF AllDone, BalancedInv, Answered
    <3> QED
      BY <3>1, <3>2
  <2>4. ASSUME LocalInv, AllDone PROVE answers[b] = 1
    <3>1. PICK c \in Cores, i \in 0 .. RequestsPerCore - 1 : b = c * RequestsPerCore + i
      BY <2>1, <2>4, LocalFacts DEF LocalInv
    <3>2. done[c] = RequestsPerCore /\ RequestsPerCore \in Nat
      BY <2>1, <2>4, LocalFacts DEF LocalInv, AllDone
    <3>3. i < done[c]
      BY <3>2
    <3> QED
      BY <2>4, <3>1, <3>3 DEF LocalInv
  <2> QED
    BY <2>2, <2>3, <2>4 DEF ScheduleInv
<1> QED
  BY <1>1, ScheduleInvHolds, PTL

\* A core never leaves more partial results than it has result slots, for it cuts
\* at most the request at each end of its share.
THEOREM PartialSlotsFitHolds == Spec => []PartialSlotsFit
<1>1. ScheduleInv => PartialSlotsFit
  BY DEF ScheduleInv, Types, PartialSlotsFit, SlotsPerCore
<1> QED
  BY <1>1, ScheduleInvHolds, PTL

\* The cache row of a request is not rewritten by its merging core, or by the one
\* core that scores it, while any core still has a chunk of it to score: a merge
\* waits for the barrier, and the last chunk of a request of one core comes last.
THEOREM RowStableWhileScoredHolds == Spec => []RowStableWhileScored
<1>1. ScheduleInv => RowStableWhileScored
  <2> SUFFICES ASSUME ScheduleInv, NEW c \in Cores, pc[c] = "main",
                      NEW g \in ChunkStart(c) + done[c] .. ChunkEnd(c) - 1
               PROVE  answers[RequestOf(g)] = 0
    BY DEF RowStableWhileScored
  <2> DEFINE b == RequestOf(g)
  <2>1. Batch /\ Types /\ BalancedInv
    BY DEF ScheduleInv, LocalInv
  <2>2. /\ ChunkStart(c) \in Nat /\ done[c] \in Nat /\ ChunkEnd(c) \in Nat /\ Total \in Nat
        /\ ChunkEnd(c) <= Total
    BY <2>1, CoreFacts, ShareFacts DEF Types
  <2>3. g \in 0 .. Total - 1 /\ ChunkStart(c) <= g /\ At(c) <= g /\ g < ChunkEnd(c)
    BY <2>2 DEF At
  <2>4. b \in Requests /\ base[b] <= g /\ g < End(b)
    BY <2>1, <2>3, RequestFound
  <2> HIDE DEF b
  <2>5. Lo(c, b) <= g /\ g < Hi(c, b) /\ Lo(c, b) \in Nat /\ Hi(c, b) \in Nat
    BY <2>1, <2>3, <2>4, PartFacts
  <2>6. Has(c, b) /\ ~Ended(c, b)
    BY <2>2, <2>3, <2>5 DEF Has, Ended, At
  <2>7. PICK d \in Cores : Sole(d, b) \/ Heads(d, b)
    BY <2>1, <2>4, <2>6, PartFacts, RequestServed
  <2>8. answers[b] # 1
    <3>1. CASE Sole(d, b)
      <4>1. d = c
        BY <2>1, <2>4, <2>6, <3>1, SoleUnique
      <4> QED
        BY <2>1, <2>4, <2>6, <3>1, <4>1 DEF BalancedInv, Answered
    <3>2. CASE Heads(d, b)
      <4>1. pc[d] # "done"
        BY <2>1 DEF BalancedInv, Places
      <4> QED
        BY <2>1, <2>4, <3>2, <4>1 DEF BalancedInv, Answered
    <3> QED
      BY <2>7, <3>1, <3>2
  <2>9. answers[b] \in 0 .. 1
    BY <2>1, <2>4 DEF Types
  <2> QED
    BY <2>8, <2>9 DEF b
<1> QED
  BY <1>1, ScheduleInvHolds, PTL
=============================================================================
