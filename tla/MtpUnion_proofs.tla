--------------------------- MODULE MtpUnion_proofs ---------------------------
(***************************************************************************)
(* What MtpUnion's two lists promise, proved for every number of tokens    *)
(* and routes, every chunk size and capacity, and every row and scores:    *)
(* TypeOK, UnionExact, AllOrNothing, ColdestScannedGo and Applicable.      *)
(*                                                                         *)
(* Three facts about the algorithms carry them.  The binary search ends at *)
(* the last miss (SearchEnds), so the merged prefixes without repetitions  *)
(* are the ascending list of all misses (UnionOfMisses).  Merging chunk by *)
(* chunk into an accumulator of fixed size keeps the coldest of all that   *)
(* was scanned (MergeKeepsColdest).  And a scan of Chunks chunks from any  *)
(* start chunk meets every token (AllScanned).  UnionInv is inductive: it  *)
(* says what the list and the accumulator hold at each place of            *)
(* ProcessBatch.                                                           *)
(***************************************************************************)
EXTENDS MtpUnion, FiniteSetTheorems, TLAPS

-----------------------------------------------------------------------------
(* The binary search for the end of the misses.                            *)

\* A non-empty set of natural numbers has a least element.
LEMMA LeastNat ==
  ASSUME NEW S \in SUBSET Nat, S # {}
  PROVE  \E n \in S : \A m \in S : n <= m
<1> DEFINE smaller == OpToRel(<, Nat)
<1>1. PICK n \in S : \A m \in S : <<m, n>> \notin smaller
  BY WFMin, NatLessThanWellFounded, Zenon
<1>2. \A m \in S : m < n => <<m, n>> \in smaller
  BY Zenon DEF OpToRel
<1> HIDE DEF smaller
<1>3. \A m \in S : m \in Nat /\ n \in Nat /\ ~ (m < n)
  BY <1>1, <1>2
<1> QED
  BY <1>3

\* The middle of a non-empty range lies in it, and not at its end.
LEMMA Middle ==
  ASSUME NEW low \in Nat, NEW high \in Nat, low < high
  PROVE  (low + high) \div 2 \in low .. high - 1
OBVIOUS

\* Where the first m of K pairs are misses, the search from 0 to K ends at m.
LEMMA SearchEnds ==
  ASSUME NEW pairs, K \in Nat, NEW m \in 0 .. K,
         \A i \in 1 .. K : row[pairs[i]] < 0 <=> i <= m
  PROVE  MissPrefix(pairs, 0, K) = m
<1> DEFINE middle(low, high) == (low + high) \div 2
           body(f, low, high) ==
             IF low >= high THEN low
             ELSE IF row[pairs[middle(low, high) + 1]] < 0 THEN f[<<middle(low, high) + 1, high>>]
             ELSE f[<<low, middle(low, high)>>]
           F(f) == [range \in (0 .. K) \X (0 .. K) |-> body(f, range[1], range[2])]
           search == CHOOSE f : f = F(f)
           clamp(low, high) ==
             IF low >= high THEN low
             ELSE IF m < low THEN low ELSE IF m > high THEN high ELSE m
           ends == [range \in (0 .. K) \X (0 .. K) |-> clamp(range[1], range[2])]
<1>1. MissPrefix(pairs, 0, K) = search[<<0, K>>]
  BY DEF MissPrefix
<1>2. ASSUME NEW low \in 0 .. K, NEW high \in 0 .. K, low < high
      PROVE  /\ middle(low, high) \in low .. high - 1
             /\ middle(low, high) \in 0 .. K /\ middle(low, high) + 1 \in 0 .. K
             /\ row[pairs[middle(low, high) + 1]] < 0 <=> middle(low, high) < m
  <2>1. middle(low, high) \in low .. high - 1
    BY <1>2, Middle
  <2>2. middle(low, high) + 1 \in 1 .. K
    BY <2>1
  <2> QED
    BY <2>1, <2>2
<1> HIDE DEF middle
<1>3. \A low, high \in 0 .. K : ends[<<low, high>>] = clamp(low, high)
  OBVIOUS
<1>4. search = F(search)
  <2>1. ASSUME NEW low \in 0 .. K, NEW high \in 0 .. K
        PROVE  clamp(low, high) = body(ends, low, high)
    <3> HIDE DEF ends
    <3>1. CASE low >= high
      BY <3>1
    <3>2. CASE low < high /\ middle(low, high) < m
      <4>1. /\ middle(low, high) + 1 \in 0 .. K /\ middle(low, high) \in low .. high - 1
            /\ row[pairs[middle(low, high) + 1]] < 0
        BY <1>2, <3>2
      <4>2. ends[<<middle(low, high) + 1, high>>] = clamp(middle(low, high) + 1, high)
        BY <1>3, <4>1
      <4>3. clamp(low, high) = clamp(middle(low, high) + 1, high)
        BY <3>2, <4>1
      <4> HIDE DEF clamp
      <4> QED
        BY <3>2, <4>1, <4>2, <4>3
    <3>3. CASE low < high /\ middle(low, high) >= m
      <4>1. /\ middle(low, high) \in 0 .. K /\ middle(low, high) \in low .. high - 1
            /\ ~ (row[pairs[middle(low, high) + 1]] < 0)
        BY <1>2, <3>3
      <4>2. ends[<<low, middle(low, high)>>] = clamp(low, middle(low, high))
        BY <1>3, <4>1
      <4>3. clamp(low, high) = clamp(low, middle(low, high))
        BY <3>3, <4>1
      <4> HIDE DEF clamp
      <4> QED
        BY <3>3, <4>1, <4>2, <4>3
    <3> QED
      BY <1>2, <3>1, <3>2, <3>3
  <2> HIDE DEF clamp, body
  <2>2. ends = F(ends)
    BY <2>1
  <2> HIDE DEF F, ends
  <2> QED
    BY <2>2
<1>5. \A low, high \in 0 .. K : search[<<low, high>>] = body(search, low, high)
  <2> HIDE DEF search, body
  <2>1. \A low, high \in 0 .. K : F(search)[<<low, high>>] = body(search, low, high)
    OBVIOUS
  <2> HIDE DEF F
  <2> QED
    BY <1>4, <2>1
<1> HIDE DEF search
<1>6. ASSUME NEW low \in 0 .. K, NEW high \in 0 .. K, low <= m, m <= high,
             search[<<low, high>>] # m
      PROVE  FALSE
  <2> DEFINE wrong(d) == \E l, h \in 0 .. K : l <= m /\ m <= h /\ d = h - l /\ search[<<l, h>>] # m
             Wrong == {d \in Nat : wrong(d)}
  <2>1. high - low \in Wrong
    BY <1>6
  <2>2. PICK d \in Wrong : \A e \in Wrong : d <= e
    BY <2>1, LeastNat
  <2>3. PICK l \in 0 .. K, h \in 0 .. K : l <= m /\ m <= h /\ d = h - l /\ search[<<l, h>>] # m
    BY <2>2
  <2>4. ASSUME NEW a \in 0 .. K, NEW b \in 0 .. K, a <= m, m <= b, b - a < d
        PROVE  search[<<a, b>>] = m
    <3>1. b - a \in Nat /\ d \in Nat
      BY <2>3, <2>4
    <3>2. b - a \notin Wrong
      <4> HIDE DEF Wrong
      <4> QED
        BY <2>2, <2>4, <3>1
    <3> QED
      BY <2>4, <3>1, <3>2
  <2>5. search[<<l, h>>] = body(search, l, h)
    BY <1>5
  <2>6. CASE l = h
    BY <2>3, <2>5, <2>6
  <2>7. CASE l < h /\ middle(l, h) < m
    <3>1. search[<<middle(l, h) + 1, h>>] = m
      BY <1>2, <2>3, <2>4, <2>7
    <3> QED
      BY <1>2, <2>3, <2>5, <2>7, <3>1
  <2>8. CASE l < h /\ middle(l, h) >= m
    <3>1. middle(l, h) \in 0 .. K /\ middle(l, h) \in l .. h - 1
      BY <1>2, <2>8
    <3>2. search[<<l, middle(l, h)>>] = m
      BY <2>3, <2>4, <2>8, <3>1
    <3> QED
      BY <1>2, <2>3, <2>5, <2>8, <3>2
  <2> QED
    BY <1>2, <2>3, <2>6, <2>7, <2>8
<1> QED
  BY <1>1, <1>6

-----------------------------------------------------------------------------
(* Sets of numbers in ascending order.                                     *)

Below(S, x) == {y \in S : y < x}

\* More members of a set lie below the larger of two.
LEMMA RankGrows ==
  ASSUME NEW S \in SUBSET Int, IsFiniteSet(S), NEW x \in S, NEW z \in S, x < z
  PROVE  Cardinality(Below(S, x)) < Cardinality(Below(S, z))
<1>1. x \in Int /\ z \in Int /\ \A y \in S : y \in Int /\ (y < x => y < z)
  OBVIOUS
<1>2. /\ Below(S, x) \subseteq Below(S, z) /\ Below(S, z) \subseteq S
      /\ x \in Below(S, z) /\ x \notin Below(S, x)
  <2>1. \A y \in S : /\ y \in Below(S, x) <=> y < x
                     /\ y \in Below(S, z) <=> y < z
    BY DEF Below
  <2>2. Below(S, x) \subseteq S /\ Below(S, z) \subseteq S
    BY DEF Below
  <2>3. x \in Below(S, z) /\ x \notin Below(S, x)
    BY <1>1, <2>1
  <2> QED
    BY <1>1, <2>1, <2>2, <2>3
<1>3. IsFiniteSet(Below(S, z))
  BY <1>2, FS_Subset
<1>4. /\ IsFiniteSet(Below(S, x)) /\ Cardinality(Below(S, x)) <= Cardinality(Below(S, z))
      /\ Cardinality(Below(S, x)) # Cardinality(Below(S, z))
  BY <1>2, <1>3, FS_Subset
<1>5. Cardinality(Below(S, x)) \in Nat /\ Cardinality(Below(S, z)) \in Nat
  BY <1>3, <1>4, FS_CardinalityType
<1> QED
  BY <1>4, <1>5

\* So the number of members below orders a set as its members are ordered.
LEMMA RankOrders ==
  ASSUME NEW S \in SUBSET Int, IsFiniteSet(S), NEW x \in S, NEW z \in S
  PROVE  Cardinality(Below(S, x)) < Cardinality(Below(S, z)) <=> x < z
<1>1. x \in Int /\ z \in Int
  OBVIOUS
<1>2. IsFiniteSet(Below(S, x)) /\ IsFiniteSet(Below(S, z))
  BY FS_Subset DEF Below
<1>3. Cardinality(Below(S, x)) \in Nat /\ Cardinality(Below(S, z)) \in Nat
  BY <1>2, FS_CardinalityType
<1>4. z < x => Cardinality(Below(S, z)) < Cardinality(Below(S, x))
  BY RankGrows
<1>5. x < z => Cardinality(Below(S, x)) < Cardinality(Below(S, z))
  BY RankGrows
<1> QED
  BY <1>1, <1>3, <1>4, <1>5

\* A member of a set has between none and all but itself below it.
LEMMA RankInRange ==
  ASSUME NEW S, IsFiniteSet(S), NEW x \in S, x \in Int
  PROVE  Cardinality(S) \in Nat /\ Cardinality(Below(S, x)) \in 0 .. Cardinality(S) - 1
<1>1. Below(S, x) \subseteq S /\ Below(S, x) # S
  BY DEF Below
<1>2. /\ IsFiniteSet(Below(S, x)) /\ Cardinality(Below(S, x)) <= Cardinality(S)
      /\ Cardinality(Below(S, x)) # Cardinality(S)
  BY <1>1, FS_Subset
<1> QED
  BY <1>2, FS_CardinalityType

\* Every rank is taken: n numbers have n different ranks below n.
LEMMA RankOnto ==
  ASSUME NEW S \in SUBSET Int, IsFiniteSet(S), NEW i \in 1 .. Cardinality(S)
  PROVE  \E x \in S : Cardinality(Below(S, x)) = i - 1
<1> DEFINE n == Cardinality(S)
           rank == [x \in S |-> Cardinality(Below(S, x))]
<1>1. n \in Nat
  BY FS_CardinalityType
<1>2. rank \in [S -> 0 .. n - 1]
  BY RankInRange
<1>3. \A x, z \in S : rank[x] = rank[z] => x = z
  <2>1. ASSUME NEW x \in S, NEW z \in S, rank[x] = rank[z] PROVE x = z
    <3>1. x \in Int /\ z \in Int
      OBVIOUS
    <3>2. ~ (x < z) /\ ~ (z < x)
      BY <1>1, <1>2, <2>1, RankGrows
    <3> QED
      BY <3>1, <3>2
  <2> QED
    BY <2>1
<1> HIDE DEF n
<1>4. rank \in Injection(S, 0 .. n - 1)
  BY <1>2, <1>3 DEF Injection, IsInjective
<1>5. IsFiniteSet(0 .. n - 1) /\ Cardinality(0 .. n - 1) = n
  BY <1>1, FS_Interval
<1>6. rank \in Surjection(S, 0 .. n - 1)
  BY <1>4, <1>5, FS_Injection DEF n
<1>7. i - 1 \in 0 .. n - 1
  BY <1>1 DEF n
<1>8. \E x \in S : rank[x] = i - 1
  <2> HIDE DEF rank
  <2> QED
    BY <1>6, <1>7 DEF Surjection
<1> QED
  BY <1>8

\* The list holds every member of the set, in its order.
LEMMA AscendingLists ==
  ASSUME NEW S \in SUBSET Int, IsFiniteSet(S)
  PROVE  /\ Cardinality(S) \in Nat /\ DOMAIN Ascending(S) = 1 .. Cardinality(S)
         /\ Ascending(S) \in Seq(S) /\ Ascending(S) \in [1 .. Cardinality(S) -> S]
         /\ \A i \in 1 .. Cardinality(S) : Ascending(S)[i] \in S
         /\ \A x \in S : \E i \in 1 .. Cardinality(S) : Ascending(S)[i] = x
         /\ \A i, j \in 1 .. Cardinality(S) : i < j => Ascending(S)[i] < Ascending(S)[j]
<1> DEFINE n == Cardinality(S)
           list == Ascending(S)
<1>1. n \in Nat
  BY FS_CardinalityType
<1>2. \A i \in 1 .. n : list[i] \in S /\ Cardinality(Below(S, list[i])) = i - 1
  BY RankOnto DEF Ascending, Below
<1>3. DOMAIN list = 1 .. n /\ list \in [1 .. n -> S]
  BY <1>2 DEF Ascending
<1>4. list \in Seq(S)
  BY <1>1, <1>3
<1> HIDE DEF list, n
<1>5. ASSUME NEW x \in S PROVE \E i \in 1 .. n : list[i] = x
  <2>0. x \in Int
    OBVIOUS
  <2>1. PICK i \in 1 .. n : i - 1 = Cardinality(Below(S, x))
    <3>1. Cardinality(Below(S, x)) \in 0 .. n - 1
      BY <2>0, RankInRange DEF n
    <3>2. Cardinality(Below(S, x)) + 1 \in 1 .. n
      BY <1>1, <3>1
    <3> QED
      BY <3>1, <3>2
  <2>2. list[i] \in S /\ Cardinality(Below(S, list[i])) = i - 1
    BY <1>2, <2>1
  <2>3. Cardinality(Below(S, list[i])) = Cardinality(Below(S, x))
    BY <2>1, <2>2
  <2>4. ~ (list[i] < x) /\ ~ (x < list[i])
    <3>1. /\ ~ (Cardinality(Below(S, list[i])) < Cardinality(Below(S, x)))
          /\ ~ (Cardinality(Below(S, x)) < Cardinality(Below(S, list[i])))
      BY <2>0, <2>3, RankInRange
    <3>2. list[i] \in S
      BY <2>2
    <3> QED
      BY <3>1, <3>2, RankOrders
  <2>5. list[i] \in Int /\ x \in Int
    BY <2>2
  <2> QED
    BY <2>1, <2>4, <2>5
<1>6. ASSUME NEW i \in 1 .. n, NEW j \in 1 .. n, i < j PROVE list[i] < list[j]
  <2>1. list[i] \in S /\ list[j] \in S
    BY <1>2
  <2>2. Cardinality(Below(S, list[i])) < Cardinality(Below(S, list[j]))
    BY <1>2, <1>6
  <2> QED
    BY <2>1, <2>2, RankOrders
<1> QED
  BY <1>1, <1>3, <1>4, <1>2, <1>5, <1>6 DEF n, list

\* A strictly ascending sequence is the ascending list of what it holds.
LEMMA AscendingUnique ==
  ASSUME NEW m \in Nat, NEW s \in [1 .. m -> Int],
         \A i, j \in 1 .. m : i < j => s[i] < s[j]
  PROVE  /\ s = Ascending(Range(s)) /\ IsFiniteSet(Range(s)) /\ Cardinality(Range(s)) = m
         /\ Range(s) \in SUBSET Int
<1> DEFINE S == Range(s)
<1>1. S = {s[i] : i \in 1 .. m} /\ S \in SUBSET Int
  BY DEF Range
<1>2. \A i, j \in 1 .. m : s[i] = s[j] => i = j
  <2>1. \A i, j \in 1 .. m : i < j \/ j < i \/ i = j
    OBVIOUS
  <2> QED
    BY <2>1
<1>3. IsFiniteSet(S) /\ Cardinality(S) = m
  <2>1. s \in Bijection(1 .. m, S)
    BY <1>1, <1>2 DEF Bijection, Injection, Surjection, IsInjective
  <2>2. IsFiniteSet(1 .. m) /\ Cardinality(1 .. m) = m
    BY FS_Interval
  <2> QED
    BY <2>1, <2>2, FS_Bijection DEF ExistsBijection
<1>4. ASSUME NEW i \in 1 .. m PROVE Cardinality(Below(S, s[i])) = i - 1
  <2> DEFINE front == [j \in 1 .. i - 1 |-> s[j]]
  <2>1. \A j \in 1 .. m : s[j] < s[i] <=> j \in 1 .. i - 1
    OBVIOUS
  <2>2. Below(S, s[i]) = {s[j] : j \in 1 .. i - 1}
    BY <1>1, <2>1 DEF Below
  <2>3. front \in Bijection(1 .. i - 1, Below(S, s[i]))
    BY <1>2, <2>2 DEF Bijection, Injection, Surjection, IsInjective
  <2>4. IsFiniteSet(1 .. i - 1) /\ Cardinality(1 .. i - 1) = i - 1
    BY FS_Interval
  <2> QED
    BY <2>3, <2>4, FS_Bijection DEF ExistsBijection
<1>5. ASSUME NEW i \in 1 .. m PROVE Ascending(S)[i] = s[i]
  <2>1. s[i] \in S /\ S \in SUBSET Int
    BY <1>1
  <2>2. \A x \in S : Cardinality(Below(S, x)) = i - 1 => x = s[i]
    <3>1. ASSUME NEW x \in S, Cardinality(Below(S, x)) = i - 1 PROVE x = s[i]
      <4>1. ~ (x < s[i]) /\ ~ (s[i] < x)
        BY <1>3, <1>4, <2>1, <3>1, RankOrders
      <4> QED
        BY <2>1, <4>1
    <3> QED
      BY <3>1
  <2>3. Ascending(S)[i] = CHOOSE x \in S : Cardinality(Below(S, x)) = i - 1
    BY <1>3 DEF Ascending, Below
  <2> QED
    BY <1>4, <2>1, <2>2, <2>3
<1>6. Ascending(S) = s
  <2> DEFINE nth(i) == CHOOSE x \in S : Cardinality({y \in S : y < x}) = i - 1
  <2>1. Ascending(S) = [i \in 1 .. m |-> nth(i)]
    BY <1>3 DEF Ascending
  <2> HIDE DEF nth
  <2>2. Ascending(S) = [i \in 1 .. m |-> Ascending(S)[i]]
    BY <2>1
  <2>3. s = [i \in 1 .. m |-> s[i]]
    OBVIOUS
  <2> QED
    BY <1>5, <2>2, <2>3, Zenon
<1> QED
  BY <1>1, <1>3, <1>6

-----------------------------------------------------------------------------
(* The union of the misses.                                                *)

\* What a request is given: a row, scores, and a top K of every route.
Inputs ==
  /\ row \in Rows /\ score \in Profiles
  /\ topk \in [Routes -> SUBSET Tokens] /\ \A r \in Routes : IsTopK(r, topk[r])

Missing == {t \in Selected : row[t] < 0}

\* What the inputs are, written out.
LEMMA InputFacts ==
  ASSUME Inputs
  PROVE  /\ row \in [Tokens -> Int] /\ IsSlotPermutation(row)
         /\ \A r \in Routes, t \in Tokens : score[r][t] \in Nat
         /\ IsFiniteSet(Tokens) /\ Tokens \in SUBSET Nat /\ Tokens \in SUBSET Int
         /\ Routes # {} /\ IsFiniteSet(Routes)
         /\ \A r \in Routes : topk[r] \subseteq Tokens /\ Cardinality(topk[r]) = K
         /\ K \in Nat \ {0} /\ Actual \in Nat \ {0}
<1>1. row \in [Tokens -> Int] /\ IsSlotPermutation(row)
  BY MtpUnionAssumption DEF Inputs
<1>2. score \in [Routes -> [Tokens -> Nat]]
  BY MtpUnionAssumption DEF Inputs
<1>3. IsFiniteSet(Tokens) /\ IsFiniteSet(Routes)
  BY MtpUnionAssumption, FS_Interval DEF Tokens, Routes
<1>4. K \in Nat \ {0} /\ Actual \in Nat \ {0} /\ Routes # {}
  BY MtpUnionAssumption DEF Routes
<1>5. Tokens \in SUBSET Nat /\ Tokens \in SUBSET Int
  BY <1>4 DEF Tokens
<1>6. \A r \in Routes : topk[r] \subseteq Tokens /\ Cardinality(topk[r]) = K
  BY DEF Inputs, IsTopK
<1> QED
  BY <1>1, <1>2, <1>3, <1>4, <1>5, <1>6

\* The elements of two sequences put together.
LEMMA Concatenation ==
  ASSUME NEW T, NEW p \in Seq(T), NEW q \in Seq(T)
  PROVE  /\ p \o q \in Seq(T) /\ Len(p \o q) = Len(p) + Len(q)
         /\ \A i \in 1 .. Len(p) : (p \o q)[i] = p[i]
         /\ \A i \in Len(p) + 1 .. Len(p) + Len(q) : (p \o q)[i] = q[i - Len(p)]
<1>1. p \o q \in Seq(T) /\ Len(p \o q) = Len(p) + Len(q)
  OBVIOUS
<1>2. \A i \in 1 .. Len(p) : (p \o q)[i] = p[i]
  OBVIOUS
<1>3. \A i \in Len(p) + 1 .. Len(p) + Len(q) : (p \o q)[i] = q[i - Len(p)]
  OBVIOUS
<1> QED
  BY <1>1, <1>2, <1>3

\* The misses of a route are listed first, and the search cuts off the rest.
LEMMA MissesExact ==
  ASSUME Inputs, NEW r \in Routes
  PROVE  Range(Misses(r)) = {t \in topk[r] : row[t] < 0}
<1> DEFINE miss == {t \in topk[r] : row[t] < 0}
           hit == {t \in topk[r] : row[t] >= 0}
           m == Cardinality(miss)
           h == Cardinality(hit)
<1>1. /\ topk[r] \in SUBSET Int /\ IsFiniteSet(topk[r]) /\ Cardinality(topk[r]) = K
      /\ K \in Nat /\ \A t \in topk[r] : row[t] \in Int
  <2>1. topk[r] \subseteq Tokens /\ Cardinality(topk[r]) = K /\ K \in Nat
    BY InputFacts
  <2>2. IsFiniteSet(topk[r])
    BY <2>1, InputFacts, FS_Subset
  <2> QED
    BY <2>1, <2>2, InputFacts
<1>2. /\ IsFiniteSet(miss) /\ IsFiniteSet(hit) /\ m \in Nat /\ h \in Nat
      /\ miss \in SUBSET Int /\ hit \in SUBSET Int
  BY <1>1, FS_Subset, FS_CardinalityType
<1>3. m + h = K
  <2>1. miss \cup hit = topk[r] /\ miss \cap hit = {}
    BY <1>1
  <2>2. Cardinality(miss \cup hit) = m + h - Cardinality(miss \cap hit)
    BY <1>2, FS_Union
  <2>3. Cardinality(miss \cap hit) = 0
    BY <2>1, FS_EmptySet
  <2>4. Cardinality(miss \cup hit) = K
    BY <1>1, <2>1
  <2> HIDE DEF miss, hit
  <2> QED
    BY <1>1, <1>2, <2>2, <2>3, <2>4
<1>4. /\ Ascending(miss) \in [1 .. m -> miss]
      /\ \A i \in 1 .. m : Ascending(miss)[i] \in miss
      /\ \A x \in miss : \E i \in 1 .. m : Ascending(miss)[i] = x
  BY <1>2, AscendingLists
<1>5. /\ Ascending(hit) \in [1 .. h -> hit]
      /\ \A i \in 1 .. h : Ascending(hit)[i] \in hit
  BY <1>2, AscendingLists
<1> DEFINE first == Ascending(miss)
           last == Ascending(hit)
<1>6. Pairs(r) = first \o last
  BY DEF Pairs
<1>7. \A t \in miss : row[t] < 0
  OBVIOUS
<1>8. \A t \in hit : ~ (row[t] < 0)
  BY <1>1
<1>9. miss \subseteq topk[r] /\ hit \subseteq topk[r]
  OBVIOUS
<1> HIDE DEF miss, hit, m, h, first, last
<1>10. /\ Pairs(r) \in Seq(topk[r]) /\ Len(Pairs(r)) = K
       /\ \A i \in 1 .. m : Pairs(r)[i] = first[i]
       /\ \A i \in m + 1 .. K : Pairs(r)[i] = last[i - m]
  <2>1. first \in [1 .. m -> topk[r]] /\ last \in [1 .. h -> topk[r]]
    BY <1>4, <1>5, <1>9 DEF first, last
  <2>2. /\ first \in Seq(topk[r]) /\ last \in Seq(topk[r])
        /\ Len(first) = m /\ Len(last) = h
    BY <1>2, <2>1
  <2>3. /\ first \o last \in Seq(topk[r]) /\ Len(first \o last) = Len(first) + Len(last)
        /\ \A i \in 1 .. Len(first) : (first \o last)[i] = first[i]
        /\ \A i \in Len(first) + 1 .. Len(first) + Len(last) :
             (first \o last)[i] = last[i - Len(first)]
    BY <2>2, Concatenation
  <2> QED
    BY <1>3, <1>6, <2>2, <2>3
<1>11. \A i \in 1 .. K : row[Pairs(r)[i]] < 0 <=> i <= m
  <2>1. ASSUME NEW i \in 1 .. K PROVE row[Pairs(r)[i]] < 0 <=> i <= m
    <3>1. CASE i <= m
      <4>1. Pairs(r)[i] \in miss
        BY <1>2, <1>4, <1>10, <3>1 DEF first
      <4> QED
        BY <1>7, <3>1, <4>1
    <3>2. CASE ~ (i <= m)
      <4>1. i - m \in 1 .. h /\ i \in m + 1 .. K
        BY <1>1, <1>2, <1>3, <3>2
      <4>2. Pairs(r)[i] \in hit
        BY <1>5, <1>10, <4>1 DEF last
      <4> QED
        BY <1>8, <3>2, <4>2
    <3> QED
      BY <3>1, <3>2
  <2> QED
    BY <2>1
<1>12. MissPrefix(Pairs(r), 0, K) = m
  <2>1. m \in 0 .. K
    BY <1>1, <1>2, <1>3
  <2> QED
    BY <1>1, <1>11, <2>1, SearchEnds
<1>13. Misses(r) = SubSeq(Pairs(r), 1, m)
  BY <1>12 DEF Misses
<1>14. DOMAIN Misses(r) = 1 .. m /\ \A i \in 1 .. m : Misses(r)[i] = first[i]
  BY <1>1, <1>2, <1>3, <1>10, <1>13
<1>15. Range(Misses(r)) = miss
  <2>1. \A x \in miss : \E i \in 1 .. m : first[i] = x
    BY <1>4 DEF first
  <2>2. \A i \in 1 .. m : first[i] \in miss
    BY <1>4 DEF first
  <2> QED
    BY <1>14, <2>1, <2>2 DEF Range
<1> QED
  BY <1>15 DEF miss

\* Dropping what equals its predecessor leaves the ascending list of all there is.
LEMMA DistinctLists ==
  ASSUME NEW n \in Nat, NEW s \in [1 .. n -> Int],
         \A i, j \in 1 .. n : i <= j => s[i] <= s[j]
  PROVE  Distinct(s) = Ascending(Range(s))
<1> DEFINE D == {i \in 1 .. n : i = 1 \/ s[i] # s[i - 1]}
           m == Cardinality(D)
           kept == Ascending(D)
           d == [j \in 1 .. m |-> s[kept[j]]]
<1>1. IsFiniteSet(D) /\ D \in SUBSET Int
  <2>1. IsFiniteSet(1 .. n)
    BY FS_Interval
  <2> QED
    BY <2>1, FS_Subset
<1>2. /\ m \in Nat /\ DOMAIN kept = 1 .. m
      /\ \A i \in 1 .. m : kept[i] \in D
      /\ \A x \in D : \E i \in 1 .. m : kept[i] = x
      /\ \A i, j \in 1 .. m : i < j => kept[i] < kept[j]
  BY <1>1, AscendingLists
<1>3. Distinct(s) = d
  <2>1. DOMAIN s = 1 .. n
    OBVIOUS
  <2>2. Distinct(s) = [j \in DOMAIN kept |-> s[kept[j]]]
    BY <2>1 DEF Distinct
  <2> HIDE DEF kept, m
  <2> QED
    BY <1>2, <2>2
<1>4. \A i \in D : i \in 1 .. n /\ (i = 1 \/ s[i] # s[i - 1])
  OBVIOUS
<1> HIDE DEF kept, m
<1>5. d \in [1 .. m -> Int]
  BY <1>2, <1>4
<1>6. ASSUME NEW i \in 1 .. m, NEW j \in 1 .. m, i < j PROVE d[i] < d[j]
  <2>1. kept[i] \in 1 .. n /\ kept[j] \in 1 .. n /\ kept[i] < kept[j] /\ kept[j] \in D
    BY <1>2, <1>4, <1>6
  <2>2. kept[j] - 1 \in 1 .. n /\ kept[i] <= kept[j] - 1 /\ kept[j] # 1
    BY <2>1
  <2>3. s[kept[i]] <= s[kept[j] - 1] /\ s[kept[j] - 1] <= s[kept[j]] /\ s[kept[j] - 1] # s[kept[j]]
    BY <1>4, <2>1, <2>2
  <2>4. s[kept[i]] \in Int /\ s[kept[j] - 1] \in Int /\ s[kept[j]] \in Int
    BY <2>1, <2>2
  <2> QED
    BY <2>3, <2>4
<1>7. Range(d) = Range(s)
  <2>1. ASSUME NEW x \in Range(s) PROVE x \in Range(d)
    <3> DEFINE places == {i \in 1 .. n : s[i] = x}
    <3>1. PICK i \in places : \A k \in places : i <= k
      <4>1. places # {} /\ places \in SUBSET Nat
        BY DEF Range
      <4> QED
        BY <4>1, LeastNat
    <3>2. i \in D
      <4>1. CASE i = 1
        BY <4>1
      <4>2. CASE i # 1
        <5>1. i - 1 \in 1 .. n /\ ~ (i <= i - 1)
          BY <4>2
        <5>2. i - 1 \notin places
          BY <3>1, <5>1
        <5> QED
          BY <5>1, <5>2
      <4> QED
        BY <4>1, <4>2
    <3>3. PICK j \in 1 .. m : kept[j] = i
      BY <1>2, <3>2
    <3> QED
      BY <3>1, <3>3 DEF Range
  <2>2. ASSUME NEW x \in Range(d) PROVE x \in Range(s)
    BY <1>2, <1>4 DEF Range
  <2> QED
    BY <2>1, <2>2
<1>8. d = Ascending(Range(d))
  <2> HIDE DEF d
  <2> QED
    BY <1>2, <1>5, <1>6, AscendingUnique
<1> QED
  BY <1>3, <1>7, <1>8

\* The merged list has the missing tokens of all routes, in weakly ascending order.
LEMMA MergedLists ==
  ASSUME Inputs
  PROVE  \E n \in Nat :
           /\ MergedMisses \in [1 .. n -> Int]
           /\ \A i, j \in 1 .. n : i <= j => MergedMisses[i] <= MergedMisses[j]
           /\ Range(MergedMisses) = Missing
<1> DEFINE missed == [r \in Routes |-> Range(Misses(r))]
           listed(x) == {p \in Routes \X Tokens : p[2] \in missed[p[1]] /\ p[2] <= x}
           upTo(x) == Cardinality(listed(x))
           n == upTo(Actual)
           nth(i) == CHOOSE x \in Tokens : upTo(x - 1) < i /\ i <= upTo(x)
<1>1. MergedMisses = [i \in 1 .. n |-> nth(i)]
  BY DEF MergedMisses
<1>2. \A r \in Routes : missed[r] = {t \in topk[r] : row[t] < 0}
  BY MissesExact
<1> HIDE DEF missed
<1>3. ASSUME NEW x, NEW y, listed(x) \subseteq listed(y)
      PROVE  /\ upTo(x) \in Nat /\ upTo(y) \in Nat /\ upTo(x) <= upTo(y)
             /\ upTo(x) = upTo(y) => listed(x) = listed(y)
  <2>1. IsFiniteSet(Routes \X Tokens)
    BY InputFacts, FS_Product
  <2>2. IsFiniteSet(listed(y))
    BY <2>1, FS_Subset
  <2> HIDE DEF listed
  <2>3. IsFiniteSet(listed(x)) /\ upTo(x) <= upTo(y) /\ (upTo(x) = upTo(y) => listed(x) = listed(y))
    BY <1>3, <2>2, FS_Subset
  <2> QED
    BY <2>2, <2>3, FS_CardinalityType
<1>4. \A t \in Tokens : t \in Nat /\ t < Actual
  BY InputFacts DEF Tokens
<1>5. \A p \in Routes \X Tokens : p[2] \in Nat /\ p[2] < Actual
  BY <1>4
<1>6. ASSUME NEW x \in Int, NEW y \in Int, x <= y
      PROVE  upTo(x) \in Nat /\ upTo(y) \in Nat /\ upTo(x) <= upTo(y)
  <2>1. listed(x) \subseteq listed(y)
    BY <1>5, <1>6
  <2> QED
    BY <1>3, <2>1
<1>7. upTo(-1) = 0
  <2>1. listed(-1) = {}
    BY <1>5
  <2> QED
    BY <2>1, FS_EmptySet
<1>8. Actual \in Nat \ {0} /\ Actual - 1 \in Tokens /\ n \in Nat /\ n = upTo(Actual - 1)
  <2>1. Actual \in Nat \ {0} /\ Actual - 1 \in Tokens
    BY InputFacts DEF Tokens
  <2>2. listed(Actual) = listed(Actual - 1)
    BY <1>5, <2>1
  <2>3. upTo(Actual) \in Nat
    <3>1. Actual \in Int /\ Actual <= Actual
      BY <2>1
    <3> HIDE DEF upTo
    <3> QED
      BY <1>6, <3>1
  <2> QED
    BY <2>1, <2>2, <2>3
<1>9. ASSUME NEW x \in Tokens
      PROVE  upTo(x - 1) \in Nat /\ upTo(x) \in Nat /\ (upTo(x - 1) < upTo(x) <=> x \in Missing)
  <2>1. x \in Nat /\ x - 1 \in Int /\ x - 1 <= x
    BY <1>4
  <2>2. upTo(x - 1) \in Nat /\ upTo(x) \in Nat /\ upTo(x - 1) <= upTo(x)
    <3>1. x \in Int /\ x - 1 \in Int /\ x - 1 <= x
      BY <2>1
    <3> HIDE DEF upTo
    <3> QED
      BY <1>6, <3>1
  <2>3. listed(x - 1) \subseteq listed(x)
    BY <2>1, <1>5
  <2>4. upTo(x - 1) = upTo(x) <=> listed(x - 1) = listed(x)
    BY <1>3, <2>3
  <2>5. CASE x \in Missing
    <3>1. PICK r \in Routes : x \in topk[r] /\ row[x] < 0
      BY <2>5 DEF Missing, Selected
    <3>2. <<r, x>> \in listed(x) /\ <<r, x>> \notin listed(x - 1)
      BY <1>2, <2>1, <3>1
    <3> QED
      BY <2>2, <2>4, <2>5, <3>2
  <2>6. CASE x \notin Missing
    <3>1. \A r \in Routes : x \notin missed[r]
      BY <1>2, <2>6 DEF Missing, Selected
    <3>2. \A p \in listed(x) : p \in listed(x - 1)
      <4>1. ASSUME NEW p \in listed(x) PROVE p \in listed(x - 1)
        <5>1. p \in Routes \X Tokens /\ p[1] \in Routes /\ p[2] \in missed[p[1]] /\ p[2] <= x
          OBVIOUS
        <5>2. p[2] # x /\ p[2] \in Nat
          BY <3>1, <1>5, <5>1
        <5> QED
          BY <2>1, <5>1, <5>2
      <4> QED
        BY <4>1
    <3>3. listed(x - 1) = listed(x)
      BY <2>3, <3>2
    <3> QED
      BY <2>2, <2>4, <2>6, <3>3
  <2> QED
    BY <2>2, <2>5, <2>6
<1>10. ASSUME NEW i \in 1 .. n
       PROVE  nth(i) \in Tokens /\ upTo(nth(i) - 1) < i /\ i <= upTo(nth(i))
  <2> DEFINE reach == {x \in Tokens : i <= upTo(x)}
  <2>1. Actual - 1 \in reach /\ reach \in SUBSET Nat
    <3>1. i <= upTo(Actual - 1)
      BY <1>8
    <3> HIDE DEF upTo
    <3> QED
      BY <1>4, <1>8, <3>1
  <2>2. PICK x \in reach : \A y \in reach : x <= y
    BY <2>1, LeastNat
  <2>3. x \in Tokens /\ i <= upTo(x) /\ x \in Nat
    BY <1>4
  <2>4. upTo(x - 1) < i
    <3>1. CASE x = 0
      BY <1>7, <3>1
    <3>2. CASE x # 0
      <4>1. x - 1 \in Tokens /\ ~ (x <= x - 1)
        BY <1>8, <2>3, <3>2 DEF Tokens
      <4>2. ~ (i <= upTo(x - 1))
        BY <2>2, <4>1
      <4>3. upTo(x - 1) \in Nat
        BY <1>9, <2>3
      <4> HIDE DEF upTo
      <4> QED
        BY <1>8, <4>2, <4>3
    <3> QED
      BY <3>1, <3>2
  <2> HIDE DEF upTo
  <2> QED
    BY <2>3, <2>4
<1> HIDE DEF upTo, n, nth
<1>11. MergedMisses \in [1 .. n -> Int] /\ \A i \in 1 .. n : MergedMisses[i] = nth(i)
  BY <1>1, <1>4, <1>10
<1>12. ASSUME NEW i \in 1 .. n, NEW j \in 1 .. n, i <= j, nth(j) < nth(i)
       PROVE  FALSE
  <2>1. /\ nth(i) \in Nat /\ nth(j) \in Nat /\ upTo(nth(i) - 1) < i /\ j <= upTo(nth(j))
        /\ i \in Nat /\ j \in Nat
    BY <1>4, <1>8, <1>10
  <2>2. /\ upTo(nth(j)) \in Nat /\ upTo(nth(i) - 1) \in Nat
        /\ upTo(nth(j)) <= upTo(nth(i) - 1)
    <3>1. nth(j) \in Int /\ nth(i) - 1 \in Int /\ nth(j) <= nth(i) - 1
      BY <1>12, <2>1
    <3> QED
      BY <1>6, <3>1
  <2> QED
    BY <1>12, <2>1, <2>2
<1>13. \A i \in 1 .. n : nth(i) \in Missing
  <2>1. ASSUME NEW i \in 1 .. n PROVE nth(i) \in Missing
    <3>1. /\ nth(i) \in Tokens /\ upTo(nth(i) - 1) < i /\ i <= upTo(nth(i)) /\ i \in Nat
      BY <1>8, <1>10
    <3>2. upTo(nth(i) - 1) \in Nat /\ upTo(nth(i)) \in Nat
      BY <1>9, <3>1
    <3>3. upTo(nth(i) - 1) < upTo(nth(i))
      BY <3>1, <3>2
    <3> QED
      BY <1>9, <3>1, <3>3
  <2> QED
    BY <2>1
<1>14. ASSUME NEW x \in Missing PROVE \E i \in 1 .. n : nth(i) = x
  <2>1. x \in Tokens
    BY InputFacts DEF Missing, Selected
  <2>2. upTo(x - 1) < upTo(x) /\ upTo(x - 1) \in Nat /\ upTo(x) \in Nat
    BY <1>9, <2>1
  <2>3. upTo(x) <= n
    BY <1>4, <1>6, <1>8, <2>1 DEF n
  <2>4. PICK i \in 1 .. n : i = upTo(x)
    BY <1>8, <2>2, <2>3
  <2>5. nth(i) \in Tokens /\ upTo(nth(i) - 1) < i /\ i <= upTo(nth(i))
    BY <1>10
  <2>6. /\ upTo(nth(i) - 1) \in Nat /\ upTo(nth(i)) \in Nat
        /\ x \in Int /\ nth(i) \in Int
    BY <1>4, <1>9, <2>1, <2>5
  <2>7. ~ (nth(i) < x)
    <3>1. SUFFICES ASSUME nth(i) < x PROVE FALSE
      OBVIOUS
    <3>2. nth(i) <= x - 1 /\ x - 1 \in Int
      BY <2>6, <3>1
    <3>3. upTo(nth(i)) <= upTo(x - 1)
      BY <1>6, <2>6, <3>2
    <3> QED
      BY <2>2, <2>4, <2>5, <2>6, <3>3
  <2>8. ~ (x < nth(i))
    <3>1. SUFFICES ASSUME x < nth(i) PROVE FALSE
      OBVIOUS
    <3>2. x <= nth(i) - 1 /\ nth(i) - 1 \in Int
      BY <2>6, <3>1
    <3>3. upTo(x) <= upTo(nth(i) - 1)
      BY <1>6, <2>6, <3>2
    <3> QED
      BY <2>2, <2>4, <2>5, <2>6, <3>3
  <2> QED
    BY <2>6, <2>7, <2>8
<1>15. Range(MergedMisses) = Missing
  BY <1>11, <1>13, <1>14 DEF Range
<1>16. \A i, j \in 1 .. n : i <= j => MergedMisses[i] <= MergedMisses[j]
  <2>1. \A i \in 1 .. n : nth(i) \in Int
    BY <1>4, <1>10
  <2> QED
    BY <1>11, <1>12, <2>1
<1> QED
  BY <1>8, <1>11, <1>15, <1>16

\* What BuildUnion writes.
LEMMA UnionOfMisses ==
  ASSUME Inputs
  PROVE  /\ Distinct(MergedMisses) = Ascending(Missing)
         /\ MergedMisses = << >> => Ascending(Missing) = << >>
<1>1. PICK n \in Nat :
        /\ MergedMisses \in [1 .. n -> Int]
        /\ \A i, j \in 1 .. n : i <= j => MergedMisses[i] <= MergedMisses[j]
        /\ Range(MergedMisses) = Missing
  BY MergedLists
<1>2. Distinct(MergedMisses) = Ascending(Missing)
  BY <1>1, DistinctLists
<1>3. ASSUME MergedMisses = << >> PROVE Ascending(Missing) = << >>
  <2>1. Missing = {}
    BY <1>1, <1>3 DEF Range
  <2>2. Cardinality(Missing) = 0
    BY <2>1, FS_EmptySet
  <2> QED
    BY <2>2 DEF Ascending
<1> QED
  BY <1>2, <1>3
-----------------------------------------------------------------------------
(* Margins.                                                                *)

\* Greatest is a member, and none exceeds it.
LEMMA GreatestIs ==
  ASSUME NEW S \in SUBSET Int, IsFiniteSet(S), S # {}
  PROVE  Greatest(S) \in S /\ \A y \in S : y <= Greatest(S)
<1> DEFINE n == Cardinality(S)
           list == Ascending(S)
<1>1. /\ n \in Nat
      /\ \A i \in 1 .. n : list[i] \in S
      /\ \A x \in S : \E i \in 1 .. n : list[i] = x
      /\ \A i, j \in 1 .. n : i < j => list[i] < list[j]
  BY AscendingLists
<1>2. n # 0
  BY FS_EmptySet
<1> HIDE DEF n, list
<1>3. n \in 1 .. n
  BY <1>1, <1>2
<1>4. ASSUME NEW y \in S PROVE y <= list[n]
  <2>1. PICK i \in 1 .. n : list[i] = y
    BY <1>1
  <2>2. i = n \/ i < n
    BY <1>1
  <2>3. list[i] \in Int /\ list[n] \in Int
    BY <1>1, <1>3
  <2> QED
    BY <1>1, <1>3, <2>1, <2>2, <2>3
<1>5. \E x \in S : \A y \in S : y <= x
  BY <1>1, <1>3, <1>4
<1> QED
  BY <1>5 DEF Greatest

\* The values of a function on a finite set are finitely many.
LEMMA Images ==
  ASSUME NEW S, IsFiniteSet(S), NEW f, DOMAIN f = S
  PROVE  IsFiniteSet({f[x] : x \in S})
<1> DEFINE T == {f[x] : x \in S}
           g == [x \in S |-> f[x]]
<1>1. g \in Surjection(S, T)
  BY DEF Surjection
<1> HIDE DEF g, T
<1> QED
  BY <1>1, FS_Surjection DEF T

\* A token's margin is at least zero for a route that has selected it.
LEMMA Margins ==
  ASSUME Inputs
  PROVE  /\ \A t \in Tokens : Margin(t) \in Int
         /\ \A t \in Selected : t \in Tokens /\ Margin(t) >= 0 /\ ~Eligible(t)
<1>1. ASSUME NEW r \in Routes
      PROVE  Threshold(r) \in Int /\ \A t \in topk[r] : Threshold(r) <= score[r][t]
  <2> DEFINE negated == {-score[r][t] : t \in topk[r]}
  <2>1. /\ topk[r] \subseteq Tokens /\ Cardinality(topk[r]) = K /\ K \in Nat \ {0}
        /\ IsFiniteSet(Tokens) /\ \A t \in Tokens : score[r][t] \in Nat
    BY InputFacts
  <2>2. IsFiniteSet(topk[r]) /\ topk[r] # {}
    BY <2>1, FS_Subset, FS_EmptySet
  <2>3. negated \in SUBSET Int /\ negated # {}
    BY <2>1, <2>2
  <2>4. IsFiniteSet(negated)
    <3> DEFINE f == [t \in topk[r] |-> -score[r][t]]
    <3>1. negated = {f[t] : t \in topk[r]} /\ DOMAIN f = topk[r]
      OBVIOUS
    <3> HIDE DEF f, negated
    <3> QED
      BY <2>2, <3>1, Images
  <2>5. Greatest(negated) \in negated /\ \A y \in negated : y <= Greatest(negated)
    BY <2>3, <2>4, GreatestIs
  <2>6. Threshold(r) = -Greatest(negated)
    BY DEF Threshold
  <2>7. Greatest(negated) \in Int
    BY <2>3, <2>5
  <2>8. ASSUME NEW t \in topk[r] PROVE Threshold(r) <= score[r][t]
    <3>1. -score[r][t] <= Greatest(negated) /\ score[r][t] \in Nat
      BY <2>1, <2>5
    <3> HIDE DEF negated
    <3> QED
      BY <2>6, <2>7, <3>1
  <2> HIDE DEF negated
  <2> QED
    BY <2>6, <2>7, <2>8
<1>2. ASSUME NEW t \in Tokens
      PROVE  Margin(t) \in Int /\ \A r \in Routes : score[r][t] - Threshold(r) <= Margin(t)
  <2> DEFINE margins == {score[r][t] - Threshold(r) : r \in Routes}
  <2>1. Routes # {} /\ IsFiniteSet(Routes) /\ \A r \in Routes : score[r][t] \in Nat
    BY InputFacts
  <2>2. margins \in SUBSET Int /\ margins # {}
    BY <1>1, <2>1
  <2>3. IsFiniteSet(margins)
    <3> DEFINE f == [r \in Routes |-> score[r][t] - Threshold(r)]
    <3>1. margins = {f[r] : r \in Routes} /\ DOMAIN f = Routes
      OBVIOUS
    <3> HIDE DEF f, margins
    <3> QED
      BY <2>1, <3>1, Images
  <2>4. Greatest(margins) \in margins /\ \A y \in margins : y <= Greatest(margins)
    BY <2>2, <2>3, GreatestIs
  <2>5. Margin(t) = Greatest(margins)
    BY DEF Margin
  <2> QED
    BY <2>2, <2>4, <2>5
<1>3. ASSUME NEW t \in Selected PROVE t \in Tokens /\ Margin(t) >= 0
  <2>1. PICK r \in Routes : t \in topk[r]
    BY DEF Selected
  <2>2. t \in Tokens /\ score[r][t] \in Nat
    BY <2>1, InputFacts
  <2> QED
    BY <1>1, <1>2, <2>1, <2>2
<1>4. \A t \in Selected : ~Eligible(t)
  <2>1. ASSUME NEW t \in Selected PROVE ~Eligible(t)
    <3>1. Margin(t) \in Int /\ Margin(t) >= 0
      BY <1>2, <1>3
    <3> QED
      BY <3>1 DEF Eligible
  <2> QED
    BY <2>1
<1> QED
  BY <1>2, <1>3, <1>4
-----------------------------------------------------------------------------
(* Chunks.                                                                 *)

\* Quotient and remainder.
LEMMA Division ==
  ASSUME NEW a \in Nat, NEW b \in Nat \ {0}
  PROVE  /\ a \div b \in Nat /\ b * (a \div b) <= a /\ a < b * (a \div b) + b
BY SMT

\* The remainder of a number less than twice the divisor.
LEMMA Remainder ==
  ASSUME NEW n \in Nat \ {0}, NEW a \in 0 .. 2 * n - 1
  PROVE  a % n = IF a < n THEN a ELSE a - n
BY SMT

\* CeilDiv rounds up.
LEMMA RoundedUp ==
  ASSUME NEW a \in Nat, NEW b \in Nat \ {0}
  PROVE  /\ CeilDiv(a, b) \in Nat /\ a <= CeilDiv(a, b) * b /\ CeilDiv(a, b) * b < a + b
         /\ a # 0 => CeilDiv(a, b) # 0
<1> DEFINE q == (a + b - 1) \div b
<1>1. a + b - 1 \in Nat
  OBVIOUS
<1>2. q \in Nat /\ b * q <= a + b - 1 /\ a + b - 1 < b * q + b
  BY <1>1, Division
<1>3. CeilDiv(a, b) = q
  BY DEF CeilDiv
<1> HIDE DEF q
<1>4. q * b = b * q /\ b * q \in Nat
  BY <1>2
<1>5. q = 0 => b * q = 0
  BY <1>2
<1> QED
  BY <1>2, <1>3, <1>4, <1>5

\* Dividing a number below b * q by b gives less than q.
LEMMA SmallerQuotient ==
  ASSUME NEW a \in Nat, NEW b \in Nat \ {0}, NEW q \in Nat, a < b * q
  PROVE  a \div b < q
<1>1. a \div b \in Nat /\ b * (a \div b) <= a
  BY Division
<1>2. SUFFICES ASSUME q <= a \div b PROVE FALSE
  BY <1>1
<1> DEFINE d == a \div b
<1> HIDE DEF d
<1>3. d \in Nat /\ b * d <= a /\ q <= d
  BY <1>1, <1>2 DEF d
<1>4. b * q <= b * d
  BY <1>3
<1> QED
  BY <1>3, <1>4

\* The chunks of the row cover it, and a batch of them is not empty.
LEMMA ChunkFacts ==
  ASSUME Inputs
  PROVE  /\ Chunk \in Nat \ {0} /\ BatchChunks \in Nat \ {0} /\ Capacity \in Nat
         /\ Chunks \in Nat \ {0}
         /\ \A t \in Tokens : t \div Chunk \in 0 .. Chunks - 1
<1>1. Chunk \in Nat \ {0} /\ BatchChunks \in Nat \ {0} /\ Capacity \in Nat
  BY MtpUnionAssumption
<1>2. Actual \in Nat \ {0}
  BY InputFacts
<1>3. Chunks \in Nat \ {0} /\ Actual <= Chunks * Chunk
  BY <1>1, <1>2, RoundedUp DEF Chunks
<1>4. ASSUME NEW t \in Tokens PROVE t \div Chunk \in 0 .. Chunks - 1
  <2>1. t \in Nat /\ t < Actual
    BY <1>2 DEF Tokens
  <2>2. Chunks * Chunk = Chunk * Chunks /\ Chunk * Chunks \in Nat
    BY <1>1, <1>3
  <2>3. t < Chunk * Chunks
    BY <1>2, <1>3, <2>1, <2>2
  <2>4. t \div Chunk < Chunks /\ t \div Chunk \in Nat
    BY <1>1, <1>3, <2>1, <2>3, SmallerQuotient, Division
  <2> QED
    BY <1>3, <2>4
<1> QED
  BY <1>1, <1>3, <1>4

\* The accumulator has room for a slot per miss, and fits its buffer.
LEMMA CapFacts ==
  ASSUME Inputs, count \in Nat
  PROVE  /\ CandidateCap \in Nat /\ count <= CandidateCap
         /\ count <= Capacity => CandidateCap <= Capacity
<1>1. Chunk \in Nat \ {0} /\ Capacity \in Nat /\ Capacity % Chunk = 0
  BY MtpUnionAssumption
<1> DEFINE c == CeilDiv(count, Chunk)
           q == Capacity \div Chunk
           n == count
<1>2. c \in Nat /\ n <= c * Chunk /\ c * Chunk < n + Chunk /\ CandidateCap = c * Chunk
  BY <1>1, RoundedUp DEF CandidateCap
<1>3. q \in Nat /\ Capacity = q * Chunk
  BY <1>1
<1> HIDE DEF c, q, n
<1>4. c * Chunk \in Nat /\ n \in Nat
  BY <1>1, <1>2 DEF n
<1>5. ASSUME n <= Capacity PROVE c * Chunk <= Capacity
  <2>1. c * Chunk < q * Chunk + Chunk
    BY <1>1, <1>2, <1>3, <1>4, <1>5
  <2>2. SUFFICES ASSUME q + 1 <= c PROVE FALSE
    <3>1. c <= q => c * Chunk <= q * Chunk
      BY <1>1, <1>2, <1>3
    <3> QED
      BY <1>2, <1>3, <2>2, <3>1
  <2>3. (q + 1) * Chunk <= c * Chunk
    BY <1>1, <1>2, <1>3, <2>2
  <2>4. (q + 1) * Chunk = q * Chunk + Chunk /\ q * Chunk \in Nat
    BY <1>1, <1>3
  <2> QED
    BY <1>1, <1>4, <2>1, <2>3, <2>4
<1> QED
  BY <1>2, <1>4, <1>5 DEF n
-----------------------------------------------------------------------------
(* The accumulator.                                                        *)

\* A coldest cap of S: S is what has been kept before, and nothing outside it
\* that was scanned earlier is colder.
IsColdest(A, S, cap) ==
  /\ A \subseteq S /\ Cardinality(A) = Least(cap, Cardinality(S))
  /\ \A t \in A, u \in S \ A : Margin(t) <= Margin(u)

\* What is coldest among the kept and the new tokens is coldest among all.
LEMMA MergeKeepsColdest ==
  ASSUME NEW old, IsFiniteSet(old), NEW new, IsFiniteSet(new), NEW cap \in Nat,
         \A t \in old \cup new : Margin(t) \in Int,
         NEW A, IsColdest(A, old, cap), NEW B, IsColdest(B, A \cup new, cap)
  PROVE  IsColdest(B, old \cup new, cap)
<1> DEFINE S == A \cup new
           all == old \cup new
<1>1. /\ A \subseteq old /\ Cardinality(A) = Least(cap, Cardinality(old))
      /\ \A t \in A, u \in old \ A : Margin(t) <= Margin(u)
  BY DEF IsColdest
<1>2. /\ B \subseteq S /\ Cardinality(B) = Least(cap, Cardinality(S))
      /\ \A t \in B, u \in S \ B : Margin(t) <= Margin(u)
  BY DEF IsColdest
<1>3. /\ IsFiniteSet(A) /\ IsFiniteSet(S) /\ IsFiniteSet(all) /\ IsFiniteSet(B)
      /\ A \subseteq S /\ S \subseteq all /\ B \subseteq all
  <2>1. IsFiniteSet(A)
    BY <1>1, FS_Subset
  <2>2. IsFiniteSet(S) /\ IsFiniteSet(all)
    BY <2>1, FS_Union
  <2>3. IsFiniteSet(B)
    BY <1>2, <2>2, FS_Subset
  <2> QED
    BY <1>1, <1>2, <2>1, <2>2, <2>3
<1>4. /\ Cardinality(A) \in Nat /\ Cardinality(S) \in Nat /\ Cardinality(all) \in Nat
      /\ Cardinality(B) \in Nat /\ Cardinality(old) \in Nat
      /\ Cardinality(A) <= Cardinality(S) /\ Cardinality(S) <= Cardinality(all)
  <2>1. Cardinality(A) <= Cardinality(S) /\ Cardinality(S) <= Cardinality(all)
    BY <1>3, FS_Subset
  <2> QED
    BY <1>3, <2>1, FS_CardinalityType
<1>5. CASE A = old
  <2>1. S = all
    BY <1>5
  <2> QED
    BY <1>2, <2>1 DEF IsColdest
<1>6. CASE A # old
  <2>1. Cardinality(A) = cap
    <3>1. Cardinality(A) # Cardinality(old)
      BY <1>1, <1>6, FS_Subset
    <3> QED
      BY <1>1, <1>4, <3>1 DEF Least
  <2>2. Cardinality(B) = cap /\ Cardinality(B) = Least(cap, Cardinality(all))
    BY <1>2, <1>4, <2>1 DEF Least
  <2>3. ASSUME NEW t \in B, NEW u \in all \ B PROVE Margin(t) <= Margin(u)
    <3>1. Margin(t) \in Int /\ Margin(u) \in Int /\ \A w \in A : Margin(w) \in Int
      BY <1>1, <1>3
    <3>2. CASE u \in S
      BY <1>2, <3>2
    <3>3. CASE u \notin S /\ t \in A
      BY <1>1, <3>3
    <3>4. CASE u \notin S /\ t \notin A
      <4>1. PICK w \in A : w \notin B
        <5>1. SUFFICES ASSUME A \subseteq B PROVE FALSE
          OBVIOUS
        <5>2. A = B
          BY <1>3, <2>1, <2>2, <5>1, FS_Subset
        <5> QED
          BY <3>4, <5>2
      <4>2. Margin(t) <= Margin(w)
        BY <1>2, <1>3, <4>1
      <4>3. Margin(w) <= Margin(u)
        BY <1>1, <3>4, <4>1
      <4> QED
        BY <3>1, <4>1, <4>2, <4>3
    <3> QED
      BY <3>2, <3>3, <3>4
  <2> QED
    BY <1>3, <2>2, <2>3 DEF IsColdest
<1> QED
  BY <1>5, <1>6

\* A batch that is merged: false positives are gone before they can take a place.
LEMMA KeptIsColdest ==
  ASSUME NEW A, NEW tokens, NEW noise, NEW cap \in Nat,
         \A t \in A : Eligible(t), \A t \in noise : ~Eligible(t),
         IsFiniteSet(A), IsFiniteSet(tokens),
         NEW kept \in KeepColdest(A \cup CompactChunk({t \in tokens : Eligible(t)} \cup noise), cap)
  PROVE  /\ CompactValidCandidates(kept) = kept
         /\ IsColdest(kept, A \cup {t \in tokens : Eligible(t)}, cap)
<1> DEFINE new == {t \in tokens : Eligible(t)}
           S == A \cup new
<1>1. CompactChunk(new \cup noise) = new
  BY DEF CompactChunk, CompactValidCandidates
<1>2. /\ kept \in SUBSET S /\ Cardinality(kept) = Least(cap, Cardinality(S))
      /\ \A t \in kept, u \in S \ kept : Colder(t, u)
  <2>1. kept \in KeepColdest(S, cap)
    BY <1>1
  <2> HIDE DEF S
  <2> QED
    BY <2>1 DEF KeepColdest, kSubset
<1>3. \A t \in S : Eligible(t)
  OBVIOUS
<1>4. CompactValidCandidates(kept) = kept
  BY <1>2, <1>3 DEF CompactValidCandidates
<1>5. \A t \in kept, u \in S \ kept : Margin(t) <= Margin(u)
  BY <1>2, <1>3 DEF Colder
<1> QED
  BY <1>2, <1>4, <1>5 DEF IsColdest
-----------------------------------------------------------------------------
(* The inductive invariant.                                                *)

ColdScanned == {t \in Scanned : Eligible(t)}

\* Once built, the list is the union of the misses.
Listed == missSrc = IF pc = "union" THEN << >> ELSE Ascending(Missing)

\* The accumulator holds the coldest of the eligible tokens scanned.
Coldest == IsColdest(acc, ColdScanned, CandidateCap)

\* What is known of the search at each place of ProcessBatch.
Phases ==
  /\ pc # "done" => missDst = << >>
  /\ pc \in {"union", "find"} => scan = 0 /\ ~found
  /\ pc = "scan" => scan < Chunks /\ count <= Capacity /\ ~found
  /\ found => count <= Capacity /\ count <= Cardinality(acc)
  /\ pc \in {"write", "done"} /\ ~found /\ count # 0 /\ count <= Capacity =>
       scan = Chunks /\ Cardinality(acc) < count

\* The slots of the victims, coldest first.
Offered(victims) ==
  /\ \A i \in 1 .. count, t \in acc :
       t \notin {victims[j] : j \in 1 .. i} => Colder(victims[i], t)
  /\ missDst = [i \in 1 .. count |-> row[victims[i]]]

Outcome ==
  pc = "done" =>
    IF found THEN \E victims \in Injection(1 .. count, acc) : Offered(victims)
    ELSE missDst = [i \in 1 .. count |-> None]

UnionInv == Inputs /\ TypeOK /\ Listed /\ Coldest /\ Phases /\ Outcome

\* The list of misses is within its capacity.
LEMMA ListFacts ==
  ASSUME Inputs, Listed
  PROVE  /\ count \in Nat /\ missSrc \in Seq(Tokens)
         /\ IsFiniteSet(Missing) /\ Missing \subseteq Tokens
         /\ pc # "union" => count = Cardinality(Missing)
         /\ pc = "union" => count = 0
<1>1. IsFiniteSet(Missing) /\ Missing \subseteq Tokens /\ Missing \in SUBSET Int
  <2>1. Missing \subseteq Tokens
    BY InputFacts DEF Missing, Selected
  <2> QED
    BY <2>1, InputFacts, FS_Subset
<1>2. CASE pc = "union"
  <2>1. missSrc = << >>
    BY <1>2 DEF Listed
  <2>2. count = 0
    <3>1. DOMAIN missSrc = {}
      BY <2>1
    <3> QED
      BY <3>1, FS_EmptySet DEF count
  <2> QED
    BY <1>1, <1>2, <2>1, <2>2
<1>3. CASE pc # "union"
  <2>1. missSrc = Ascending(Missing)
    BY <1>3 DEF Listed
  <2>2. Cardinality(Missing) \in Nat /\ DOMAIN missSrc = 1 .. Cardinality(Missing)
        /\ missSrc \in [1 .. Cardinality(Missing) -> Missing]
    BY <1>1, <2>1, AscendingLists
  <2>3. missSrc \in Seq(Tokens)
    <3>1. missSrc \in [1 .. Cardinality(Missing) -> Tokens]
      BY <1>1, <2>2
    <3> QED
      BY <2>2, <3>1
  <2>4. count = Cardinality(Missing)
    BY <2>2, FS_Interval DEF count
  <2> QED
    BY <1>1, <1>3, <2>2, <2>3, <2>4
<1> QED
  BY <1>2, <1>3

\* Finitely many tokens have been scanned.
LEMMA ScannedFacts ==
  ASSUME Inputs
  PROVE  IsFiniteSet(ColdScanned) /\ ColdScanned \subseteq Tokens
         /\ \A t \in ColdScanned : Eligible(t) /\ Margin(t) \in Int
<1>1. ColdScanned \subseteq Tokens
  BY DEF ColdScanned, Scanned, ChunkTokens
<1> QED
  BY <1>1, InputFacts, FS_Subset, Margins DEF ColdScanned

\* When all chunks have been scanned, so have all tokens.
LEMMA AllScanned ==
  ASSUME Inputs, start \in 0 .. Chunks - 1, scan = Chunks
  PROVE  Scanned = Tokens
<1>1. ASSUME NEW t \in Tokens PROVE t \in Scanned
  <2> DEFINE n == t \div Chunk
             i == IF n >= start THEN n - start ELSE n - start + Chunks
  <2>1. Chunks \in Nat \ {0} /\ n \in 0 .. Chunks - 1
    BY ChunkFacts
  <2> HIDE DEF n
  <2>2. i \in 0 .. Chunks - 1 /\ start + i \in 0 .. 2 * Chunks - 1
        /\ n = IF start + i < Chunks THEN start + i ELSE start + i - Chunks
    BY <2>1
  <2>3. (start + i) % Chunks = n
    BY <2>1, <2>2, Remainder
  <2> HIDE DEF i
  <2>4. i \in 0 .. scan - 1 /\ t \in ChunkTokens((start + i) % Chunks)
    BY <2>2, <2>3 DEF ChunkTokens, n
  <2> QED
    BY <2>4 DEF Scanned
<1> QED
  BY <1>1 DEF Scanned, ChunkTokens

\* The invariant holds when the launch begins.
LEMMA InitUnionInv == Init => UnionInv
<1> SUFFICES ASSUME Init PROVE UnionInv
  OBVIOUS
<1>1. Inputs
  BY DEF Init, Inputs, kSubset
<1>2. Listed /\ Phases /\ Outcome
  BY DEF Init, Listed, Phases, Outcome
<1>3. scan = 0 /\ acc = {} /\ start = 0 /\ missSrc = << >> /\ missDst = << >>
      /\ pc = "union" /\ found = FALSE
  BY DEF Init
<1>4. Coldest
  <2>1. ColdScanned = {}
    BY <1>3 DEF ColdScanned, Scanned
  <2>2. CandidateCap \in Nat
    BY <1>1, <1>2, ListFacts, CapFacts
  <2> QED
    BY <1>3, <2>1, <2>2, FS_EmptySet DEF Coldest, IsColdest, Least
<1>5. TypeOK
  <2>1. Chunks \in Nat \ {0} /\ Capacity \in Nat
    BY <1>1, ChunkFacts
  <2>2. Cardinality(acc) = 0
    BY <1>3, FS_EmptySet
  <2>3. \A T : << >> \in Seq(T)
    OBVIOUS
  <2>4. missSrc \in Seq(Tokens) /\ missDst \in Seq({None} \cup 0 .. Cardinality(Cached(row)) - 1)
    BY <1>3, <2>3
  <2>5. start \in 0 .. Chunks - 1 /\ scan \in 0 .. Chunks /\ Cardinality(acc) <= Capacity
    BY <1>3, <2>1, <2>2
  <2> QED
    BY <1>3, <2>4, <2>5 DEF TypeOK
<1> QED
  BY <1>1, <1>2, <1>4, <1>5 DEF UnionInv

\* What depends on the inputs alone stays.
LEMMA InputsKept ==
  ASSUME UNCHANGED input
  PROVE  /\ Inputs' = Inputs /\ Missing' = Missing
         /\ \A t : Margin(t)' = Margin(t) /\ Eligible(t)' = Eligible(t)
         /\ \A t, u : Colder(t, u)' = Colder(t, u)
<1>1. row' = row /\ score' = score /\ topk' = topk
  BY DEF input
<1>2. Inputs' = Inputs
  BY <1>1 DEF Inputs, IsTopK
<1>3. Missing' = Missing
  BY <1>1 DEF Missing, Selected
<1>4. \A r : Threshold(r)' = Threshold(r)
  BY <1>1 DEF Threshold
<1>5. \A t : Margin(t)' = Margin(t)
  BY <1>1, <1>4 DEF Margin
<1>6. \A t : Eligible(t)' = Eligible(t)
  BY <1>1, <1>5 DEF Eligible
<1>7. \A t, u : Colder(t, u)' = Colder(t, u)
  BY <1>5, <1>6 DEF Colder
<1> QED
  BY <1>2, <1>3, <1>5, <1>6, <1>7
\* What depends on the list of misses alone stays.
LEMMA ListKept ==
  ASSUME UNCHANGED missSrc
  PROVE  count' = count /\ CandidateCap' = CandidateCap
BY DEF count, CandidateCap

\* What has been scanned stays while the scan does not go on.
LEMMA ScannedKept ==
  ASSUME UNCHANGED <<input, start, scan>>
  PROVE  ColdScanned' = ColdScanned
BY InputsKept DEF ColdScanned, Scanned

\* A step that leaves the search alone.
LEMMA ColdestKept ==
  ASSUME UNCHANGED <<input, missSrc, start, scan, acc>>, Coldest
  PROVE  Coldest'
BY ListKept, ScannedKept, InputsKept DEF Coldest, IsColdest, Least

\* The list of the misses of all routes is built; without any there is nothing left to do.
LEMMA BuildUnionInv == UnionInv /\ BuildUnion => UnionInv'
<1> SUFFICES ASSUME UnionInv, BuildUnion PROVE UnionInv'
  OBVIOUS
<1>1. /\ Inputs /\ TypeOK /\ Listed /\ Coldest /\ Phases
      /\ pc = "union" /\ missDst = << >> /\ scan = 0 /\ ~found
  BY DEF UnionInv, BuildUnion, Phases
<1>2. /\ missSrc' = Ascending(Missing)
      /\ pc' = "done" \/ pc' = "find"
      /\ pc' = "done" => Ascending(Missing) = << >>
      /\ UNCHANGED <<input, start, scan, acc, found, missDst>>
  BY <1>1, UnionOfMisses DEF BuildUnion
<1>3. Inputs' /\ Missing' = Missing /\ row' = row /\ scan' = 0 /\ ~found' /\ missDst' = << >>
  BY <1>1, <1>2, InputsKept DEF input
<1>4. Listed'
  BY <1>2, <1>3 DEF Listed
<1>5. IsFiniteSet(Missing) /\ Missing \in SUBSET Int /\ Missing \subseteq Tokens
  <2>1. IsFiniteSet(Missing) /\ Missing \subseteq Tokens
    BY <1>1, ListFacts
  <2> QED
    BY <1>1, <2>1, InputFacts
<1>6. count' \in Nat /\ missSrc' \in Seq(Tokens) /\ (pc' = "done" => count' = 0)
  <2>1. /\ Cardinality(Missing) \in Nat /\ DOMAIN missSrc' = 1 .. Cardinality(Missing)
        /\ missSrc' \in [1 .. Cardinality(Missing) -> Missing]
    BY <1>2, <1>5, AscendingLists
  <2>2. count' = Cardinality(Missing)
    BY <2>1, FS_Interval DEF count
  <2>3. missSrc' \in Seq(Tokens)
    <3>1. missSrc' \in [1 .. Cardinality(Missing) -> Tokens]
      BY <1>5, <2>1
    <3> QED
      BY <2>1, <3>1
  <2>4. ASSUME pc' = "done" PROVE Cardinality(Missing) = 0
    <3>1. DOMAIN missSrc' = {}
      BY <1>2, <2>4
    <3> QED
      BY <2>1, <3>1
  <2> QED
    BY <2>1, <2>2, <2>3, <2>4
<1>7. Coldest'
  <2>1. ColdScanned' = {} /\ acc' = {}
    <3>1. ColdScanned = {}
      BY <1>1 DEF ColdScanned, Scanned
    <3> QED
      BY <1>1, <1>2, <3>1, ScannedKept DEF Coldest, IsColdest
  <2>2. CandidateCap' \in Nat
    <3>1. CandidateCap' = CeilDiv(count', Chunk) * Chunk /\ Chunk \in Nat \ {0}
      BY <1>1, ChunkFacts DEF CandidateCap
    <3>2. CeilDiv(count', Chunk) \in Nat
      BY <1>6, <3>1, RoundedUp
    <3> QED
      BY <3>1, <3>2
  <2> QED
    BY <2>1, <2>2, FS_EmptySet DEF Coldest, IsColdest, Least
<1>8. Phases'
  BY <1>1, <1>2, <1>3, <1>6 DEF Phases
<1>9. Outcome'
  BY <1>2, <1>3, <1>6 DEF Outcome
<1>10. TypeOK'
  BY <1>1, <1>2, <1>3, <1>6 DEF TypeOK, Cached, Chunks
<1> QED
  BY <1>3, <1>4, <1>7, <1>8, <1>9, <1>10 DEF UnionInv

\* The scan begins with an accumulator that holds nothing.
LEMMA BeginFindInv == UnionInv /\ BeginFind => UnionInv'
<1> SUFFICES ASSUME UnionInv, BeginFind PROVE UnionInv'
  OBVIOUS
<1>1. /\ Inputs /\ TypeOK /\ Listed /\ Coldest /\ Phases
      /\ pc = "find" /\ missDst = << >> /\ scan = 0 /\ ~found
  BY DEF UnionInv, BeginFind, Phases
<1>2. /\ UNCHANGED <<input, missSrc, scan, acc, found, missDst>> /\ start' \in 0 .. Chunks - 1
      /\ \/ pc' = "write" /\ count > Capacity
         \/ pc' = "scan" /\ ~ (count > Capacity)
  BY <1>1 DEF BeginFind, TypeOK
<1>3. Inputs' /\ Missing' = Missing /\ row' = row /\ count' = count /\ CandidateCap' = CandidateCap
  BY <1>1, <1>2, InputsKept, ListKept DEF input
<1>4. Listed'
  BY <1>1, <1>2, <1>3 DEF Listed
<1>5. ColdScanned = {} /\ ColdScanned' = {}
  BY <1>1, <1>2 DEF ColdScanned, Scanned
<1>6. Coldest'
  BY <1>1, <1>2, <1>3, <1>5 DEF Coldest, IsColdest, Least
<1>7. count \in Nat /\ Capacity \in Nat /\ Chunks \in Nat \ {0}
  BY <1>1, ListFacts, ChunkFacts
<1>8. Phases'
  BY <1>1, <1>2, <1>3, <1>7 DEF Phases, Chunks
<1>9. Outcome'
  BY <1>2 DEF Outcome
<1>10. TypeOK'
  BY <1>1, <1>2, <1>3 DEF TypeOK, Cached, Chunks
<1> QED
  BY <1>3, <1>4, <1>6, <1>8, <1>9, <1>10 DEF UnionInv

\* A batch stays within the row.
LEMMA BatchFacts ==
  ASSUME UnionInv, pc = "scan"
  PROVE  /\ Batch \in Nat \ {0} /\ scan + Batch \in 0 .. Chunks
         /\ BatchTokens \subseteq Tokens /\ IsFiniteSet(BatchTokens)
<1>1. Inputs /\ scan \in 0 .. Chunks /\ scan < Chunks
  BY DEF UnionInv, TypeOK, Phases
<1>2. BatchChunks \in Nat \ {0} /\ Chunks \in Nat \ {0}
  BY <1>1, ChunkFacts
<1>3. Batch \in Nat \ {0} /\ scan + Batch \in 0 .. Chunks
  BY <1>1, <1>2 DEF Batch, Least
<1>4. BatchTokens \subseteq Tokens
  BY DEF BatchTokens, ChunkTokens
<1> QED
  BY <1>1, <1>3, <1>4, InputFacts, FS_Subset

\* A batch adds its eligible tokens to what has been scanned.
LEMMA ScannedGrows ==
  ASSUME UnionInv, ScanBatch
  PROVE  ColdScanned' = ColdScanned \cup {t \in BatchTokens : Eligible(t)}
<1>1. /\ UNCHANGED input /\ start' = start /\ scan' = scan + Batch
      /\ scan \in Nat /\ start \in Nat /\ Batch \in Nat \ {0}
  <2>1. pc = "scan" /\ start \in 0 .. Chunks - 1 /\ scan \in 0 .. Chunks
    BY DEF ScanBatch, UnionInv, TypeOK
  <2>2. Chunks \in Nat \ {0}
    BY ChunkFacts DEF UnionInv
  <2> QED
    BY <2>1, <2>2, BatchFacts DEF ScanBatch
<1> DEFINE b == Batch
           inChunk(i) == ChunkTokens((start + i) % Chunks)
<1>2. Scanned' = UNION {inChunk(i) : i \in 0 .. scan + b - 1}
  BY <1>1 DEF Scanned, ChunkTokens, Chunks
<1>3. Scanned = UNION {inChunk(i) : i \in 0 .. scan - 1}
  BY DEF Scanned
<1>4. BatchTokens = UNION {inChunk(scan + i) : i \in 0 .. b - 1}
  <2>1. \A i \in 0 .. b - 1 : start + (scan + i) = start + scan + i
    BY <1>1
  <2>2. \A i \in 0 .. b - 1 : inChunk(scan + i) = ChunkTokens((start + scan + i) % Chunks)
    BY <2>1
  <2> HIDE DEF inChunk
  <2> QED
    BY <2>2 DEF BatchTokens
<1> HIDE DEF inChunk, b
<1>5. \A i : i \in 0 .. scan + b - 1 <=> i \in 0 .. scan - 1 \/ \E j \in 0 .. b - 1 : i = scan + j
  <2>1. b \in Nat \ {0}
    BY <1>1 DEF b
  <2>2. ASSUME NEW i \in 0 .. scan + b - 1, i \notin 0 .. scan - 1
        PROVE  \E j \in 0 .. b - 1 : i = scan + j
    <3>1. i - scan \in 0 .. b - 1 /\ i = scan + (i - scan)
      BY <1>1, <2>1, <2>2
    <3> QED
      BY <3>1
  <2> QED
    BY <1>1, <2>1, <2>2
<1>6. Scanned' = Scanned \cup BatchTokens
  BY <1>2, <1>3, <1>4, <1>5
<1>7. \A t : Eligible(t)' = Eligible(t)
  BY <1>1, InputsKept
<1> QED
  BY <1>6, <1>7 DEF ColdScanned
\* A batch is merged: the accumulator still holds the coldest of the scanned.
LEMMA ScanBatchInv == UnionInv /\ ScanBatch => UnionInv'
<1> SUFFICES ASSUME UnionInv, ScanBatch PROVE UnionInv'
  OBVIOUS
<1>1. /\ Inputs /\ TypeOK /\ Listed /\ Coldest /\ Phases
      /\ pc = "scan" /\ missDst = << >> /\ count <= Capacity /\ ~found
  BY DEF UnionInv, ScanBatch, Phases
<1>2. /\ UNCHANGED <<input, missSrc, start, missDst>>
      /\ scan' = scan + Batch /\ found' = (Cardinality(acc') >= count)
      /\ pc' = IF found' \/ scan' >= Chunks THEN "write" ELSE "scan"
  BY DEF ScanBatch
<1>3. Inputs' /\ Missing' = Missing /\ row' = row /\ count' = count /\ CandidateCap' = CandidateCap
  BY <1>1, <1>2, InputsKept, ListKept DEF input
<1>4. /\ count \in Nat /\ CandidateCap \in Nat /\ count <= CandidateCap
      /\ CandidateCap <= Capacity /\ Capacity \in Nat /\ Chunks \in Nat \ {0}
  BY <1>1, ListFacts, CapFacts, ChunkFacts
<1>5. scan' \in 0 .. Chunks
  BY <1>1, <1>2, BatchFacts
<1>6. acc \subseteq ColdScanned
  BY <1>1 DEF Coldest, IsColdest
<1>7. IsFiniteSet(ColdScanned) /\ ColdScanned \subseteq Tokens
      /\ \A t \in ColdScanned : Eligible(t) /\ Margin(t) \in Int
  BY <1>1, ScannedFacts
<1> DEFINE new == {t \in BatchTokens : Eligible(t)}
           scanned == ColdScanned \cup new
<1>8. IsFiniteSet(BatchTokens) /\ BatchTokens \subseteq Tokens
  BY <1>1, BatchFacts
<1>9. IsFiniteSet(acc) /\ IsFiniteSet(new)
  BY <1>6, <1>7, <1>8, FS_Subset
<1>10. \A t \in scanned : Margin(t) \in Int
  BY <1>1, <1>7, <1>8, Margins
<1>11. IsColdest(acc', scanned, CandidateCap)
  <2>1. PICK noise \in SUBSET {t \in BatchTokens : ~Eligible(t)} :
        \E kept \in KeepColdest(acc \cup CompactChunk(new \cup noise), CandidateCap) :
          acc' = CompactValidCandidates(kept)
    BY DEF ScanBatch
  <2>2. PICK kept \in KeepColdest(acc \cup CompactChunk(new \cup noise), CandidateCap) :
          acc' = CompactValidCandidates(kept)
    BY <2>1
  <2>3. CompactValidCandidates(kept) = kept /\ IsColdest(kept, acc \cup new, CandidateCap)
    <3>1. /\ \A t \in acc : Eligible(t)
          /\ \A t \in noise : ~Eligible(t)
      BY <1>6, <1>7
    <3> QED
      BY <1>4, <1>8, <1>9, <3>1, KeptIsColdest
  <2>4. IsColdest(acc, ColdScanned, CandidateCap)
    BY <1>1 DEF Coldest
  <2> HIDE DEF new
  <2>5. IsColdest(kept, scanned, CandidateCap)
    BY <1>4, <1>7, <1>9, <1>10, <2>3, <2>4, MergeKeepsColdest
  <2> QED
    BY <2>2, <2>3, <2>5
<1>12. Coldest'
  <2>1. ColdScanned' = scanned
    BY ScannedGrows
  <2>2. \A t : Margin(t)' = Margin(t)
    BY <1>2, InputsKept
  <2> HIDE DEF scanned
  <2> QED
    BY <1>3, <1>11, <2>1, <2>2 DEF Coldest, IsColdest, Least
<1>13. acc' \subseteq Tokens /\ Cardinality(acc') \in Nat /\ Cardinality(acc') <= CandidateCap
  <2>1. IsFiniteSet(scanned) /\ scanned \subseteq Tokens
    BY <1>7, <1>8, <1>9, FS_Union
  <2> HIDE DEF scanned
  <2>2. acc' \subseteq scanned /\ Cardinality(acc') = Least(CandidateCap, Cardinality(scanned))
    BY <1>11 DEF IsColdest
  <2>3. Cardinality(scanned) \in Nat
    BY <2>1, FS_CardinalityType
  <2> QED
    BY <1>4, <2>1, <2>2, <2>3 DEF Least
<1>14. Listed'
  BY <1>1, <1>2, <1>3 DEF Listed
<1>15. Phases'
  <2>1. Chunks' = Chunks
    BY DEF Chunks
  <2>2. /\ found' => count <= Cardinality(acc')
        /\ ~found' => Cardinality(acc') < count
    <3>1. found' = (Cardinality(acc') >= count)
      BY <1>2
    <3>2. found' <=> Cardinality(acc') >= count
      BY <3>1, Zenon
    <3> QED
      BY <1>4, <1>13, <3>2
  <2>3. /\ pc' = "scan" => ~found' /\ scan' < Chunks
        /\ pc' = "write" /\ ~found' => scan' = Chunks
        /\ pc' \in {"scan", "write"}
    <3>1. scan' >= Chunks <=> scan' = Chunks
      BY <1>4, <1>5
    <3>2. ~ (scan' >= Chunks) => scan' < Chunks
      BY <1>4, <1>5
    <3> QED
      BY <1>2, <3>1, <3>2
  <2>4. missDst' = << >>
    BY <1>1, <1>2
  <2> QED
    BY <1>1, <1>3, <2>1, <2>2, <2>3, <2>4 DEF Phases
<1>16. Outcome'
  BY <1>2 DEF Outcome
<1>17. TypeOK'
  BY <1>1, <1>2, <1>3, <1>4, <1>5, <1>13 DEF TypeOK, Cached, Chunks
<1> QED
  BY <1>3, <1>12, <1>14, <1>15, <1>16, <1>17 DEF UnionInv

\* The slots are written, all or none.
LEMMA WriteEvictSlotsInv == UnionInv /\ WriteEvictSlots => UnionInv'
<1> SUFFICES ASSUME UnionInv, WriteEvictSlots PROVE UnionInv'
  OBVIOUS
<1>1. /\ Inputs /\ TypeOK /\ Listed /\ Coldest /\ Phases /\ pc = "write"
  BY DEF UnionInv, WriteEvictSlots
<1>2. /\ UNCHANGED <<input, missSrc, start, scan, acc, found>> /\ pc' = "done"
  BY DEF WriteEvictSlots
<1>3. Inputs' /\ Missing' = Missing /\ row' = row /\ count' = count /\ CandidateCap' = CandidateCap
  BY <1>1, <1>2, InputsKept, ListKept DEF input
<1>4. count \in Nat /\ Chunks \in Nat
  BY <1>1, ListFacts, ChunkFacts
<1>5. Listed' /\ Coldest'
  BY <1>1, <1>2, <1>3, ColdestKept DEF Listed
<1>6. Phases'
  BY <1>1, <1>2, <1>3 DEF Phases, Chunks
<1>7. ASSUME found, NEW victims \in Injection(1 .. count, acc),
             \A i \in 1 .. count, t \in acc :
               t \notin {victims[j] : j \in 1 .. i} => Colder(victims[i], t),
             missDst' = [i \in 1 .. count |-> row[victims[i]]]
      PROVE  Outcome' /\ missDst' \in Seq({None} \cup 0 .. Cardinality(Cached(row)) - 1)
  <2>1. Offered(victims)'
    <3>1. \A t, u : Colder(t, u)' = Colder(t, u)
      BY <1>2, InputsKept
    <3> QED
      BY <1>2, <1>3, <1>7, <3>1 DEF Offered
  <2>2. Outcome'
    BY <1>2, <1>3, <1>7, <2>1 DEF Outcome
  <2>3. ASSUME NEW i \in 1 .. count PROVE row[victims[i]] \in 0 .. Cardinality(Cached(row)) - 1
    <3>1. victims[i] \in acc
      BY <1>7 DEF Injection
    <3>2. victims[i] \in Tokens /\ Eligible(victims[i])
      BY <1>1, <3>1, ScannedFacts DEF Coldest, IsColdest
    <3>3. victims[i] \in Cached(row)
      BY <3>2 DEF Eligible, Cached
    <3> QED
      BY <1>1, <3>3, InputFacts DEF IsSlotPermutation
  <2>4. missDst' \in [1 .. count -> {None} \cup 0 .. Cardinality(Cached(row)) - 1]
    BY <1>7, <2>3
  <2> QED
    BY <1>4, <2>2, <2>4
<1>8. ASSUME ~found, missDst' = [i \in 1 .. count |-> None]
      PROVE  Outcome' /\ missDst' \in Seq({None} \cup 0 .. Cardinality(Cached(row)) - 1)
  <2>1. Outcome'
    BY <1>2, <1>3, <1>8 DEF Outcome
  <2>2. missDst' \in [1 .. count -> {None} \cup 0 .. Cardinality(Cached(row)) - 1]
    BY <1>8
  <2> QED
    BY <1>4, <2>1, <2>2
<1>9. Outcome' /\ missDst' \in Seq({None} \cup 0 .. Cardinality(Cached(row)) - 1)
  <2>1. CASE found
    <3>1. PICK victims \in Injection(1 .. count, acc) :
            /\ \A i \in 1 .. count, t \in acc :
                 t \notin {victims[j] : j \in 1 .. i} => Colder(victims[i], t)
            /\ missDst' = [i \in 1 .. count |-> row[victims[i]]]
      BY <2>1 DEF WriteEvictSlots
    <3> QED
      BY <1>7, <2>1, <3>1
  <2>2. CASE ~found
    BY <1>8, <2>2 DEF WriteEvictSlots
  <2> QED
    BY <2>1, <2>2
<1>10. TypeOK'
  BY <1>1, <1>2, <1>3, <1>9 DEF TypeOK, Cached, Chunks
<1> QED
  BY <1>3, <1>5, <1>6, <1>9, <1>10 DEF UnionInv

\* Every step keeps the invariant.
LEMMA StepUnionInv == UnionInv /\ [Next]_vars => UnionInv'
<1> SUFFICES ASSUME UnionInv, [Next]_vars PROVE UnionInv'
  OBVIOUS
<1>1. CASE BuildUnion
  BY <1>1, BuildUnionInv
<1>2. CASE BeginFind
  BY <1>2, BeginFindInv
<1>3. CASE ScanBatch
  BY <1>3, ScanBatchInv
<1>4. CASE WriteEvictSlots
  BY <1>4, WriteEvictSlotsInv
<1>5. CASE UNCHANGED vars
  <2>1. /\ UNCHANGED <<input, missSrc, start, scan, acc, found, missDst, pc>>
        /\ Inputs' = Inputs /\ Missing' = Missing /\ row' = row /\ count' = count
    BY <1>5, InputsKept, ListKept DEF vars, input
  <2>2. Listed' /\ Coldest' /\ Phases'
    BY <2>1, ColdestKept DEF UnionInv, Listed, Phases, Chunks
  <2>3. Outcome'
    <3>1. \A t, u : Colder(t, u)' = Colder(t, u)
      BY <2>1, InputsKept
    <3>2. \A victims : Offered(victims)' = Offered(victims)
      BY <2>1, <3>1 DEF Offered
    <3> QED
      BY <2>1, <3>2 DEF UnionInv, Outcome
  <2>4. TypeOK'
    BY <2>1 DEF UnionInv, TypeOK, Cached, Chunks
  <2> QED
    BY <2>1, <2>2, <2>3, <2>4 DEF UnionInv
<1> QED
  BY <1>1, <1>2, <1>3, <1>4, <1>5 DEF Next, Returned

\* So it holds throughout.
LEMMA UnionInvHolds == Spec => []UnionInv
BY InitUnionInv, StepUnionInv, PTL DEF Spec
-----------------------------------------------------------------------------
(* The promises of the two lists.                                          *)

\* No two tokens of a row have the same slot.
LEMMA SlotsDiffer ==
  ASSUME NEW r, IsSlotPermutation(r), IsFiniteSet(Cached(r))
  PROVE  \A t, u \in Cached(r) : r[t] = r[u] => t = u
<1> DEFINE S == Cached(r)
           n == Cardinality(S)
           slot == [t \in S |-> r[t]]
<1>1. n \in Nat
  BY FS_CardinalityType
<1>2. IsFiniteSet(0 .. n - 1) /\ Cardinality(0 .. n - 1) = n
  BY <1>1, FS_Interval
<1>3. {r[t] : t \in S} = 0 .. n - 1
  BY DEF IsSlotPermutation
<1> HIDE DEF n, S
<1>4. slot \in Surjection(S, 0 .. n - 1)
  BY <1>3 DEF Surjection
<1>5. slot \in Injection(S, 0 .. n - 1)
  <2> HIDE DEF slot
  <2> QED
    BY <1>2, <1>4, FS_Surjection DEF n, S
<1>6. \A t, u \in S : slot[t] = slot[u] => t = u
  <2> HIDE DEF slot
  <2> QED
    BY <1>5 DEF Injection, IsInjective
<1> QED
  BY <1>6 DEF S

\* What is given up when slots are offered: a token per miss, all of them
\* scanned, cached and selected by no route.
LEMMA Victims ==
  ASSUME UnionInv, pc = "done", found
  PROVE  \E victims \in Injection(1 .. count, acc) :
           /\ Offered(victims)
           /\ Evicted = {victims[i] : i \in 1 .. count}
           /\ \A i \in 1 .. count :
                /\ victims[i] \in ColdScanned /\ Eligible(victims[i])
                /\ victims[i] \in Cached(row) \ Selected
                /\ row[victims[i]] \in 0 .. Cardinality(Cached(row)) - 1
<1>1. /\ Inputs /\ Coldest
      /\ \E victims \in Injection(1 .. count, acc) : Offered(victims)
  BY DEF UnionInv, Outcome
<1>2. PICK victims \in Injection(1 .. count, acc) : Offered(victims)
  BY <1>1
<1>3. IsSlotPermutation(row) /\ IsFiniteSet(Cached(row))
  BY <1>1, InputFacts, FS_Subset DEF Cached
<1>4. ASSUME NEW i \in 1 .. count
      PROVE  /\ victims[i] \in ColdScanned /\ Eligible(victims[i])
             /\ victims[i] \in Cached(row) \ Selected
             /\ row[victims[i]] \in 0 .. Cardinality(Cached(row)) - 1
  <2>1. victims[i] \in acc
    BY <1>2 DEF Injection
  <2>2. victims[i] \in ColdScanned /\ victims[i] \in Tokens /\ Eligible(victims[i])
    BY <1>1, <2>1, ScannedFacts DEF Coldest, IsColdest
  <2>3. victims[i] \in Cached(row) /\ victims[i] \notin Selected
    BY <1>1, <2>2, Margins DEF Eligible, Cached
  <2> QED
    BY <1>3, <2>2, <2>3 DEF IsSlotPermutation
<1>5. Evicted = {victims[i] : i \in 1 .. count}
  <2>1. DOMAIN missDst = 1 .. count /\ \A i \in 1 .. count : missDst[i] = row[victims[i]]
    BY <1>2 DEF Offered
  <2>2. ASSUME NEW t \in Cached(row), NEW i \in 1 .. count
        PROVE  missDst[i] = row[t] <=> t = victims[i]
    BY <1>3, <1>4, <2>1, SlotsDiffer
  <2> QED
    BY <1>4, <2>1, <2>2 DEF Evicted
<1> QED
  BY <1>2, <1>4, <1>5

\* The model's data keep their types: the lists hold tokens of the request and
\* slots of its row, and the accumulator fits its buffer of Capacity entries.
THEOREM TypeOKHolds == Spec => []TypeOK
BY UnionInvHolds, PTL DEF UnionInv

\* MtpMissUnion's list of misses is the ascending list of the selected tokens
\* that are not cached, each once, for any number of routes.
THEOREM UnionExactHolds == Spec => []UnionExact
<1>1. UnionInv => UnionExact
  BY DEF UnionInv, Listed, UnionExact, Missing
<1> QED
  BY <1>1, UnionInvHolds, PTL

\* No token that ProcessBatch has scanned and kept is colder than one it gives up.
THEOREM ColdestScannedGoHolds == Spec => []ColdestScannedGo
<1>1. ASSUME UnionInv, pc = "done", found, NEW v \in Evicted, NEW u \in Scanned \ Evicted, row[u] >= 0
      PROVE  Margin(v) <= Margin(u)
  <2>1. Inputs /\ Coldest /\ count \in Nat
    BY <1>1, ListFacts DEF UnionInv
  <2>2. PICK victims \in Injection(1 .. count, acc) :
          /\ Offered(victims)
          /\ Evicted = {victims[i] : i \in 1 .. count}
          /\ \A i \in 1 .. count : victims[i] \in ColdScanned /\ Eligible(victims[i])
    BY <1>1, Victims
  <2>3. PICK i \in 1 .. count : v = victims[i]
    BY <2>2
  <2>4. v \in acc /\ Eligible(v) /\ v \in Tokens /\ u \in Tokens
    BY <2>1, <2>2, <2>3, ScannedFacts DEF Injection, Scanned, ChunkTokens
  <2>5. Margin(v) \in Int /\ Margin(u) \in Int
    BY <2>1, <2>4, Margins
  <2>6. CASE ~Eligible(u)
    BY <1>1, <2>4, <2>5, <2>6 DEF Eligible
  <2>7. CASE u \in acc
    <3>1. u \notin {victims[j] : j \in 1 .. i}
      BY <2>1, <2>2
    <3>2. Colder(v, u)
      BY <2>2, <2>3, <2>7, <3>1 DEF Offered
    <3> QED
      BY <2>4, <3>2 DEF Colder
  <2>8. CASE Eligible(u) /\ u \notin acc
    BY <2>1, <2>4, <2>8 DEF Coldest, IsColdest, ColdScanned
  <2> QED
    BY <2>6, <2>7, <2>8
<1>2. UnionInv => ColdestScannedGo
  BY <1>1 DEF ColdestScannedGo
<1> QED
  BY <1>2, UnionInvHolds, PTL

\* FindEvictCandidates offers slots for all misses or for none, and gives up
\* only when there are more misses than it can serve, or fewer tokens below all
\* thresholds than misses: no chunk is left out and no candidate is lost.
THEOREM AllOrNothingHolds == Spec => []AllOrNothing
<1>1. ASSUME UnionInv, pc = "done"
      PROVE  LET enough == Cardinality({t \in Tokens : Eligible(t)}) >= count
             IN  /\ found \/ count = 0 <=> count = 0 \/ (count <= Capacity /\ enough)
                 /\ \A i \in 1 .. count : (missDst[i] # None) = found
  <2> DEFINE eligible == {t \in Tokens : Eligible(t)}
  <2>1. Inputs /\ TypeOK /\ Listed /\ Coldest /\ Phases /\ Outcome /\ found \in BOOLEAN
    BY <1>1 DEF UnionInv, TypeOK
  <2>2. count \in Nat /\ Capacity \in Nat
    BY <2>1, ListFacts, ChunkFacts
  <2>3. /\ IsFiniteSet(eligible) /\ ColdScanned \subseteq eligible /\ acc \subseteq ColdScanned
        /\ IsFiniteSet(ColdScanned)
    BY <2>1, InputFacts, FS_Subset, ScannedFacts DEF Coldest, IsColdest
  <2>4. /\ Cardinality(acc) \in Nat /\ Cardinality(eligible) \in Nat
        /\ Cardinality(acc) <= Cardinality(eligible)
    <3>1. acc \subseteq eligible
      BY <2>3
    <3> HIDE DEF eligible
    <3> QED
      BY <2>3, <3>1, FS_Subset, FS_CardinalityType
  <2>5. ASSUME found
        PROVE  count <= Capacity /\ Cardinality(eligible) >= count
    <3> HIDE DEF eligible
    <3> QED
      BY <2>1, <2>2, <2>4, <2>5 DEF Phases
  <2>6. ASSUME ~found, count # 0, count <= Capacity
        PROVE  Cardinality(eligible) < count
    <3>1. scan = Chunks /\ Cardinality(acc) < count
      BY <1>1, <2>1, <2>6 DEF Phases
    <3>2. Scanned = Tokens
      BY <2>1, <3>1, AllScanned DEF TypeOK
    <3>3. Cardinality(acc) = Least(CandidateCap, Cardinality(eligible))
      BY <2>1, <3>2 DEF Coldest, IsColdest, ColdScanned
    <3>4. CandidateCap \in Nat /\ count <= CandidateCap
      BY <2>1, <2>2, CapFacts
    <3> HIDE DEF eligible
    <3> QED
      BY <2>2, <2>4, <3>1, <3>3, <3>4 DEF Least
  <2>7. ASSUME NEW i \in 1 .. count PROVE (missDst[i] # None) = found
    <3>1. CASE found
      <4>1. PICK victims \in Injection(1 .. count, acc) :
              /\ Offered(victims)
              /\ row[victims[i]] \in 0 .. Cardinality(Cached(row)) - 1
        BY <1>1, <3>1, Victims
      <4>2. missDst[i] = row[victims[i]]
        BY <4>1 DEF Offered
      <4>3. missDst[i] # None
        BY <4>1, <4>2 DEF None
      <4> QED
        BY <2>1, <3>1, <4>3
    <3>2. CASE ~found
      <4>1. missDst[i] = None
        BY <1>1, <2>1, <3>2 DEF Outcome
      <4> QED
        BY <2>1, <3>2, <4>1
    <3> QED
      BY <3>1, <3>2
  <2> HIDE DEF eligible
  <2>8. found \/ count = 0 <=> count = 0 \/ (count <= Capacity /\ Cardinality(eligible) >= count)
    BY <2>2, <2>4, <2>5, <2>6
  <2> QED
    BY <2>7, <2>8 DEF eligible
<1>2. UnionInv => AllOrNothing
  BY <1>1 DEF AllOrNothing
<1> QED
  BY <1>2, UnionInvHolds, PTL
\* Once the caller has bound every miss to the slot offered for it, the row is a
\* permutation of the same slots as before and holds all that any route selected.
THEOREM ApplicableHolds == Spec => []Applicable
<1>1. ASSUME UnionInv, pc = "done", found \/ count = 0
      PROVE  /\ IsSlotPermutation(Rebound)
             /\ Cardinality(Cached(Rebound)) = Cardinality(Cached(row))
             /\ Selected \subseteq Cached(Rebound)
  <2> DEFINE V == Evicted
             C == Cached(row)
             new == Rebound
             n == Cardinality(C)
             index(t) == CHOOSE i \in 1 .. count : missSrc[i] = t
  <2>1. Inputs /\ Listed /\ Outcome
    BY <1>1 DEF UnionInv
  <2>2. /\ row \in [Tokens -> Int] /\ IsSlotPermutation(row)
        /\ IsFiniteSet(C) /\ C \subseteq Tokens /\ Selected \subseteq Tokens
    <3>1. C \subseteq Tokens /\ Selected \subseteq Tokens
      BY <2>1, InputFacts DEF Cached, Selected
    <3> QED
      BY <2>1, <3>1, InputFacts, FS_Subset
  <2>3. /\ count = Cardinality(Missing) /\ count \in Nat /\ IsFiniteSet(Missing)
        /\ Missing \subseteq Tokens /\ Missing \in SUBSET Int
        /\ missSrc = Ascending(Missing)
    <3>1. /\ count = Cardinality(Missing) /\ count \in Nat /\ IsFiniteSet(Missing)
          /\ Missing \subseteq Tokens
      BY <1>1, <2>1, ListFacts
    <3> QED
      BY <1>1, <2>1, <3>1, InputFacts DEF Listed
  <2>4. /\ \A i \in 1 .. count : missSrc[i] \in Missing
        /\ \A t \in Missing : \E i \in 1 .. count : missSrc[i] = t
        /\ \A i, j \in 1 .. count : i < j => missSrc[i] < missSrc[j]
    BY <2>3, AscendingLists
  <2>5. PICK victims :
          /\ victims \in Injection(1 .. count, V)
          /\ V = {victims[i] : i \in 1 .. count} /\ V \subseteq C \ Selected
          /\ \A i \in 1 .. count : missDst[i] = row[victims[i]]
    <3>1. CASE found
      <4>1. PICK victims \in Injection(1 .. count, acc) :
              /\ Offered(victims)
              /\ Evicted = {victims[i] : i \in 1 .. count}
              /\ \A i \in 1 .. count : victims[i] \in Cached(row) \ Selected
        BY <1>1, <3>1, Victims
      <4>2. victims \in Injection(1 .. count, V)
        BY <4>1 DEF Injection, IsInjective
      <4> QED
        BY <4>1, <4>2 DEF Offered
    <3>2. CASE ~found
      <4> DEFINE none == [i \in 1 .. count |-> row[i]]
      <4>1. count = 0 /\ missDst = [i \in 1 .. count |-> None]
        BY <1>1, <2>1, <3>2 DEF Outcome
      <4>2. 1 .. count = {}
        BY <4>1
      <4>3. V = {}
        BY <4>1, <4>2 DEF Evicted
      <4>4. none \in Injection(1 .. count, V)
        BY <4>2 DEF Injection, IsInjective
      <4> QED
        BY <4>2, <4>3, <4>4
    <3> QED
      BY <3>1, <3>2
  <2>6. IsFiniteSet(V) /\ Cardinality(V) = count
    <3>1. victims \in Bijection(1 .. count, V)
      BY <2>5 DEF Injection, Bijection, Surjection
    <3>2. count \in Nat
      BY <2>3
    <3>3. IsFiniteSet(1 .. count) /\ Cardinality(1 .. count) = count
      BY <3>2, FS_Interval
    <3> HIDE DEF V
    <3> QED
      BY <3>1, <3>3, FS_Bijection DEF ExistsBijection
  <2>7. /\ Missing \cap V = {} /\ Missing \cap C = {} /\ V \subseteq C
        /\ Selected \subseteq Missing \cup (C \ V)
    <3>1. \A t \in Missing : t \notin C
      BY <2>2 DEF Missing, Cached
    <3>2. \A t \in Selected : t \in Missing \/ t \in C
      BY <2>2 DEF Missing, Cached
    <3> HIDE DEF V, C
    <3> QED
      BY <2>5, <3>1, <3>2
  <2> HIDE DEF V, C
  <2>8. ASSUME NEW t \in Missing
        PROVE  index(t) \in 1 .. count /\ missSrc[index(t)] = t
    BY <2>4
  <2>9. ASSUME NEW i \in 1 .. count PROVE index(missSrc[i]) = i
    <3> DEFINE j == index(missSrc[i])
    <3>1. j \in 1 .. count /\ missSrc[j] = missSrc[i]
      BY <2>4, <2>8
    <3> HIDE DEF j
    <3>2. missSrc[i] \in Int /\ ~ (missSrc[i] < missSrc[i])
      <4>1. missSrc[i] \in Missing
        BY <2>4
      <4>2. missSrc[i] \in Int
        BY <2>3, <4>1
      <4> QED
        BY <4>2
    <3>3. ~ (i < j) /\ ~ (j < i)
      BY <2>4, <3>1, <3>2
    <3> QED
      BY <2>3, <3>1, <3>3 DEF j
  <2>10. /\ \A t \in Missing : new[t] = row[victims[index(t)]]
         /\ \A t \in V : new[t] = None
         /\ \A t \in Tokens : t \notin Missing /\ t \notin V => new[t] = row[t]
    <3>1. \A t \in Tokens : (\E i \in 1 .. count : missSrc[i] = t) <=> t \in Missing
      BY <2>4
    <3>2. \A t \in Tokens : new[t] =
            IF \E i \in 1 .. count : missSrc[i] = t THEN missDst[index(t)]
            ELSE IF t \in V THEN None ELSE row[t]
      BY DEF Rebound, V
    <3> HIDE DEF new, index
    <3>3. \A t \in Missing : t \in Tokens /\ missDst[index(t)] = row[victims[index(t)]]
      BY <2>3, <2>5, <2>8
    <3>4. \A t \in V : t \in Tokens /\ t \notin Missing
      BY <2>2, <2>7
    <3> QED
      BY <3>1, <3>2, <3>3, <3>4
  <2> HIDE DEF new, index
  <2>11. \A t \in Tokens : t \in C <=> row[t] >= 0
    BY DEF C, Cached
  <2>12. \A t \in Tokens : t \in Cached(new) <=> new[t] >= 0
    BY DEF Cached
  <2>13. Cached(new) = (C \ V) \cup Missing
    <3>1. ASSUME NEW t \in Missing PROVE new[t] >= 0
      <4>1. victims[index(t)] \in V
        BY <2>5, <2>8
      <4> QED
        BY <2>2, <2>7, <2>10, <2>11, <4>1
    <3>2. \A t \in V : ~ (new[t] >= 0)
      BY <2>10 DEF None
    <3>3. Cached(new) \subseteq Tokens
      BY DEF Cached
    <3>4. \A t \in Tokens : t \in Cached(new) <=> t \in (C \ V) \cup Missing
      BY <2>10, <2>11, <2>12, <3>1, <3>2
    <3> QED
      BY <2>2, <2>3, <3>3, <3>4
  <2>14. Cardinality(Cached(new)) = n
    <3>1. /\ IsFiniteSet(C \ V) /\ Cardinality(C \ V) = n - Cardinality(V)
          /\ n \in Nat
      <4>1. Cardinality(C \ V) = Cardinality(C) - Cardinality(C \cap V) /\ IsFiniteSet(C \ V)
        BY <2>2, FS_Difference
      <4>2. C \cap V = V
        BY <2>7
      <4> QED
        BY <2>2, <4>1, <4>2, FS_CardinalityType
    <3>2. (C \ V) \cap Missing = {}
      BY <2>7
    <3>3. Cardinality((C \ V) \cup Missing) = Cardinality(C \ V) + Cardinality(Missing) - 0
      BY <2>3, <3>1, <3>2, FS_Union, FS_EmptySet
    <3> HIDE DEF n
    <3> QED
      BY <2>3, <2>6, <2>13, <3>1, <3>3
  <2>15. {new[t] : t \in Cached(new)} = {row[t] : t \in C}
    <3>1. ASSUME NEW t \in Cached(new) PROVE \E u \in C : new[t] = row[u]
      <4>1. CASE t \in Missing
        <5>1. victims[index(t)] \in C
          BY <2>5, <2>7, <2>8, <4>1
        <5> QED
          BY <2>10, <4>1, <5>1
      <4>2. CASE t \notin Missing
        BY <2>2, <2>10, <2>13, <4>2
      <4> QED
        BY <4>1, <4>2
    <3>2. ASSUME NEW u \in C PROVE \E t \in Cached(new) : new[t] = row[u]
      <4>1. CASE u \in V
        <5>1. PICK i \in 1 .. count : u = victims[i]
          BY <2>5, <4>1
        <5>2. missSrc[i] \in Missing /\ index(missSrc[i]) = i
          BY <2>4, <2>9
        <5> QED
          BY <2>10, <2>13, <5>1, <5>2
      <4>2. CASE u \notin V
        BY <2>2, <2>7, <2>10, <2>13, <4>2
      <4> QED
        BY <4>1, <4>2
    <3> QED
      BY <3>1, <3>2
  <2>16. IsSlotPermutation(new)
    <3>1. {row[t] : t \in C} = 0 .. n - 1
      BY <2>2 DEF IsSlotPermutation, C
    <3> HIDE DEF n
    <3> QED
      BY <2>14, <2>15, <3>1 DEF IsSlotPermutation
  <2>17. Selected \subseteq Cached(new)
    BY <2>7, <2>13
  <2> QED
    BY <2>14, <2>16, <2>17 DEF new, n, C
<1>2. UnionInv => Applicable
  BY <1>1 DEF Applicable
<1> QED
  BY <1>2, UnionInvHolds, PTL
=============================================================================
