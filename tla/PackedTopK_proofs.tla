-------------------------- MODULE PackedTopK_proofs --------------------------
(***************************************************************************)
(* That what the vector cores pack they read back, for every division of a *)
(* word into bits and every number of heads, tokens and slots.             *)
(*                                                                         *)
(* The loops over heads and rows are recursive functions; what they add up *)
(* is proved by counting up (UpTo), and the sum of every fold is the sum   *)
(* over all heads.  The fields of the words are quotients and remainders   *)
(* (Division, Quotient), which give back a token from any word that has    *)
(* its tag and any payload that has its low bits (IndexRead).  On top of   *)
(* that, PackedInv follows the top K through the merges, the sort by key   *)
(* and the second packing of the candidates.                               *)
(***************************************************************************)
EXTENDS PackedTopK, FiniteSetTheorems, TLAPS

-----------------------------------------------------------------------------
(* Counting up.                                                            *)

\* A non-empty set of natural numbers has a least element.
LEMMA LeastNat ==
  ASSUME NEW S \in SUBSET Nat, S # {}
  PROVE  \E n \in S : \A m \in S : n <= m
<1> DEFINE smaller == OpToRel(<, Nat)
<1>1. PICK n \in S : \A m \in S : <<m, n>> \notin smaller
  BY WFMin, NatLessThanWellFounded, Zenon
<1>2. \A m \in S : m < n => <<m, n>> \in smaller
  BY Zenon DEF OpToRel
<1> HIDE DEF smaller
<1>3. \A m \in S : m \in Nat /\ n \in Nat /\ ~ (m < n)
  BY <1>1, <1>2
<1> QED
  BY <1>3

\* What holds of zero and is passed on holds of all numbers up to n.
LEMMA UpTo ==
  ASSUME NEW n \in Nat, NEW S, 0 \in S, \A i \in 0 .. n - 1 : i \in S => i + 1 \in S
  PROVE  \A i \in 0 .. n : i \in S
<1> DEFINE bad == {i \in Nat : i <= n /\ i \notin S}
<1>1. SUFFICES ASSUME bad # {} PROVE FALSE
  OBVIOUS
<1>2. PICK i \in bad : \A j \in bad : i <= j
  BY <1>1, LeastNat
<1>3. i \in Nat /\ i <= n /\ i \notin S /\ i # 0
  OBVIOUS
<1>4. i - 1 \in 0 .. n - 1 /\ i - 1 \in Nat /\ i - 1 <= n /\ ~ (i <= i - 1)
  BY <1>3
<1>5. i - 1 \in S
  BY <1>2, <1>4
<1>6. (i - 1) + 1 \in S
  BY <1>4, <1>5
<1> QED
  BY <1>3, <1>6

\* The values a loop of n steps runs through.
Runs(f, V, v, step, n) ==
  f \in [0 .. n -> V] /\ f[0] = v /\ \A i \in 1 .. n : f[i] = step[i][f[i - 1]]

\* There are such values.
LEMMA Iterates ==
  ASSUME NEW V, NEW v \in V, NEW n \in Nat, NEW step, \A i \in 1 .. n : step[i] \in [V -> V]
  PROVE  \E f : Runs(f, V, v, step, n)
<1> DEFINE Goes(f, m) == f[0] = v /\ \A i \in 1 .. m : f[i] = step[i][f[i - 1]]
           S == {m \in Nat : \E f \in [0 .. m -> V] : Goes(f, m)}
<1>1. 0 \in S
  <2> DEFINE f == [i \in 0 .. 0 |-> v]
  <2>1. f \in [0 .. 0 -> V] /\ Goes(f, 0)
    OBVIOUS
  <2> QED
    BY <2>1
<1>2. ASSUME NEW m \in 0 .. n - 1, m \in S PROVE m + 1 \in S
  <2>1. PICK f \in [0 .. m -> V] : Goes(f, m)
    BY <1>2
  <2> DEFINE g == [i \in 0 .. m + 1 |-> IF i = m + 1 THEN step[m + 1][f[m]] ELSE f[i]]
  <2>2. m + 1 \in 1 .. n /\ m \in 0 .. m /\ m \in Nat /\ m + 1 \in Nat
    OBVIOUS
  <2>3. step[m + 1][f[m]] \in V
    BY <2>1, <2>2
  <2>4. g \in [0 .. m + 1 -> V]
    BY <2>3
  <2>5. g[0] = v
    BY <2>1, <2>2
  <2>6. ASSUME NEW i \in 1 .. m + 1 PROVE g[i] = step[i][g[i - 1]]
    <3>1. CASE i = m + 1
      BY <2>2, <3>1
    <3>2. CASE i # m + 1
      <4>1. i \in 1 .. m /\ i \in 0 .. m + 1 /\ i - 1 \in 0 .. m + 1 /\ i - 1 # m + 1
        BY <3>2
      <4> QED
        BY <2>1, <3>2, <4>1
    <3> QED
      BY <3>1, <3>2
  <2> HIDE DEF g
  <2> QED
    BY <2>2, <2>4, <2>5, <2>6
<1>3. n \in S
  <2> HIDE DEF S
  <2>1. \A i \in 0 .. n : i \in S
    BY <1>1, <1>2, UpTo, Zenon
  <2> QED
    BY <2>1
<1>4. PICK f \in [0 .. n -> V] : Goes(f, n)
  BY <1>3
<1> QED
  BY <1>4 DEF Runs

-----------------------------------------------------------------------------
(* Sums.                                                                   *)

\* The loop behind a sum.
RunningSum(s, f, n) ==
  s \in [0 .. n -> Int] /\ s[0] = 0 /\ \A i \in 1 .. n : s[i] = s[i - 1] + f[i]

\* Its last value is the sum.
LEMMA SumLoop ==
  ASSUME NEW n \in Nat, NEW f, \A i \in 1 .. n : f[i] \in Int
  PROVE  \E s : RunningSum(s, f, n) /\ Sum(f, n) = s[n]
<1> DEFINE step == [i \in 1 .. n |-> [x \in Int |-> x + f[i]]]
           F(s) == [i \in 0 .. n |-> IF i = 0 THEN 0 ELSE s[i - 1] + f[i]]
           sum == CHOOSE s : s = F(s)
<1>1. \A i \in 1 .. n : step[i] \in [Int -> Int]
  OBVIOUS
<1>2. PICK s : Runs(s, Int, 0, step, n)
  <2> HIDE DEF step
  <2>1. 0 \in Int
    OBVIOUS
  <2> QED
    BY <1>1, <2>1, Iterates, Zenon
<1>3. /\ s \in [0 .. n -> Int] /\ s[0] = 0
      /\ \A i \in 1 .. n : s[i] = s[i - 1] + f[i]
  <2>1. s \in [0 .. n -> Int] /\ s[0] = 0 /\ \A i \in 1 .. n : s[i] = step[i][s[i - 1]]
    <3> HIDE DEF step
    <3> QED
      BY <1>2 DEF Runs
  <2>2. ASSUME NEW i \in 1 .. n PROVE s[i] = s[i - 1] + f[i]
    <3>1. i - 1 \in 0 .. n /\ s[i - 1] \in Int
      BY <2>1
    <3>2. step[i][s[i - 1]] = s[i - 1] + f[i]
      BY <3>1
    <3> QED
      BY <2>1, <3>2, Zenon
  <2> QED
    BY <2>1, <2>2
<1>4. s = F(s)
  <2>1. \A i \in 0 .. n : s[i] = IF i = 0 THEN 0 ELSE s[i - 1] + f[i]
    BY <1>3
  <2> QED
    BY <1>3, <2>1
<1>5. sum = F(sum)
  <2> HIDE DEF F
  <2> QED
    BY <1>4
<1>6. Sum(f, n) = sum[n]
  BY DEF Sum
<1> HIDE DEF sum, step
<1>7. sum[0] = 0 /\ \A i \in 1 .. n : sum[i] = sum[i - 1] + f[i]
  BY <1>5
<1>8. \A i \in 0 .. n : i \in {j \in 0 .. n : sum[j] = s[j]}
  <2> DEFINE S == {j \in 0 .. n : sum[j] = s[j]}
  <2>1. 0 \in S
    BY <1>3, <1>7
  <2>2. ASSUME NEW i \in 0 .. n - 1, i \in S PROVE i + 1 \in S
    <3>1. i + 1 \in 1 .. n /\ (i + 1) - 1 = i
      OBVIOUS
    <3>2. sum[i + 1] = sum[i] + f[i + 1] /\ s[i + 1] = s[i] + f[i + 1]
      BY <1>3, <1>7, <3>1
    <3> QED
      BY <2>2, <3>1, <3>2
  <2> HIDE DEF S
  <2>3. \A i \in 0 .. n : i \in S
    BY <2>1, <2>2, UpTo
  <2> QED
    BY <2>3 DEF S
<1>9. sum[n] = s[n]
  BY <1>8
<1> QED
  BY <1>3, <1>6, <1>9 DEF RunningSum

\* A sum is a number; of nothing it is zero.
LEMMA SumType ==
  ASSUME NEW n \in Nat, NEW f, \A i \in 1 .. n : f[i] \in Int
  PROVE  Sum(f, n) \in Int /\ (n = 0 => Sum(f, n) = 0)
BY SumLoop DEF RunningSum

\* One more summand.
LEMMA SumNext ==
  ASSUME NEW n \in Nat, NEW f, \A i \in 1 .. n + 1 : f[i] \in Int
  PROVE  Sum(f, n + 1) = Sum(f, n) + f[n + 1]
<1>1. PICK s : RunningSum(s, f, n) /\ Sum(f, n) = s[n]
  <2>1. \A i \in 1 .. n : f[i] \in Int
    OBVIOUS
  <2> QED
    BY <2>1, SumLoop
<1>2. PICK t : RunningSum(t, f, n + 1) /\ Sum(f, n + 1) = t[n + 1]
  <2>1. n + 1 \in Nat
    OBVIOUS
  <2> QED
    BY <2>1, SumLoop
<1> DEFINE S == {j \in 0 .. n : s[j] = t[j]}
<1>3. 0 \in S
  BY <1>1, <1>2 DEF RunningSum
<1>4. ASSUME NEW i \in 0 .. n - 1, i \in S PROVE i + 1 \in S
  <2>1. i + 1 \in 1 .. n /\ i + 1 \in 1 .. n + 1 /\ (i + 1) - 1 = i /\ i + 1 \in 0 .. n
    OBVIOUS
  <2>2. s[i + 1] = s[i] + f[i + 1] /\ t[i + 1] = t[i] + f[i + 1]
    BY <1>1, <1>2, <2>1 DEF RunningSum
  <2> QED
    BY <1>4, <2>1, <2>2
<1>5. n \in S
  <2> HIDE DEF S
  <2>1. \A i \in 0 .. n : i \in S
    BY <1>3, <1>4, UpTo, Zenon
  <2> QED
    BY <2>1
<1>6. t[n + 1] = t[n] + f[n + 1]
  <2>1. n + 1 \in 1 .. n + 1 /\ (n + 1) - 1 = n
    OBVIOUS
  <2> QED
    BY <1>2, <2>1 DEF RunningSum
<1> QED
  BY <1>1, <1>2, <1>5, <1>6

\* f and g differ in one summand at most.
DifferAt(f, g, n, k) ==
  /\ \A i \in 1 .. n : f[i] \in Int /\ g[i] \in Int
  /\ \A i \in 1 .. n : i # k => g[i] = f[i]

\* The change of one summand changes the sum by as much.
LEMMA SumPoint ==
  ASSUME NEW n \in Nat, NEW f, NEW g, NEW k \in 1 .. n, DifferAt(f, g, n, k)
  PROVE  Sum(g, n) = Sum(f, n) + (g[k] - f[k])
<1>1. /\ \A i \in 1 .. n : f[i] \in Int /\ g[i] \in Int
      /\ \A i \in 1 .. n : i # k => g[i] = f[i]
  BY DEF DifferAt
<1> DEFINE S == {j \in 0 .. n : Sum(g, j) = Sum(f, j) + IF k <= j THEN g[k] - f[k] ELSE 0}
<1>2. 0 \in S
  <2>1. Sum(f, 0) = 0 /\ Sum(g, 0) = 0
    BY SumType
  <2> QED
    BY <2>1
<1>3. ASSUME NEW j \in 0 .. n - 1, j \in S PROVE j + 1 \in S
  <2>1. j \in Nat /\ (\A i \in 1 .. j + 1 : f[i] \in Int /\ g[i] \in Int)
    BY <1>1
  <2>2. Sum(f, j + 1) = Sum(f, j) + f[j + 1] /\ Sum(g, j + 1) = Sum(g, j) + g[j + 1]
    BY <2>1, SumNext
  <2>3. Sum(f, j) \in Int /\ Sum(g, j) \in Int
    BY <2>1, SumType
  <2>4. Sum(g, j) = Sum(f, j) + IF k <= j THEN g[k] - f[k] ELSE 0
    BY <1>3
  <2>5. f[j + 1] \in Int /\ g[j + 1] \in Int /\ f[k] \in Int /\ g[k] \in Int
    BY <1>1, <2>1
  <2>6. CASE j + 1 = k
    BY <2>2, <2>3, <2>4, <2>5, <2>6
  <2>7. CASE j + 1 # k
    <3>1. g[j + 1] = f[j + 1]
      BY <1>1, <2>7
    <3>2. k <= j <=> k <= j + 1
      BY <2>7
    <3>3. Sum(g, j + 1) = Sum(f, j + 1) + IF k <= j + 1 THEN g[k] - f[k] ELSE 0
      BY <2>2, <2>3, <2>4, <2>5, <3>1, <3>2
    <3> QED
      BY <3>3
  <2> QED
    BY <2>6, <2>7
<1>4. n \in S
  <2> HIDE DEF S
  <2>1. \A j \in 0 .. n : j \in S
    BY <1>2, <1>3, UpTo, Zenon
  <2> QED
    BY <2>1
<1> QED
  BY <1>4

\* A sum of zeros.
LEMMA SumZeros ==
  ASSUME NEW n \in Nat, NEW f, \A i \in 1 .. n : f[i] = 0
  PROVE  Sum(f, n) = 0
<1> DEFINE S == {j \in 0 .. n : Sum(f, j) = 0}
<1>1. 0 \in S
  BY SumType
<1>2. ASSUME NEW j \in 0 .. n - 1, j \in S PROVE j + 1 \in S
  <2>1. j \in Nat /\ (\A i \in 1 .. j + 1 : f[i] \in Int) /\ f[j + 1] = 0
    OBVIOUS
  <2>2. Sum(f, j + 1) = Sum(f, j) + f[j + 1]
    BY <2>1, SumNext
  <2> QED
    BY <1>2, <2>1, <2>2
<1>3. n \in S
  <2> HIDE DEF S
  <2>1. \A i \in 0 .. n : i \in S
    BY <1>1, <1>2, UpTo, Zenon
  <2> QED
    BY <2>1
<1> QED
  BY <1>3

\* b has rows w + 1 to c of a folded onto the first ones.
Folded(b, w, a, c) ==
  /\ w <= c /\ c <= 2 * w
  /\ \A i \in 1 .. c : a[i] \in Int
  /\ \A i \in 1 .. w : b[i] = a[i] + IF i <= c - w THEN a[w + i] ELSE 0

\* Folding keeps the sum.
LEMMA FoldSum ==
  ASSUME NEW w \in Nat, NEW c \in Nat, NEW a, NEW b, Folded(b, w, a, c)
  PROVE  Sum(b, w) = Sum(a, c)
<1> USE DEF Folded
<1> DEFINE q == c - w
           To(j) == w + Min({j, q})
           S == {j \in 0 .. w : Sum(b, j) = Sum(a, j) + (Sum(a, To(j)) - Sum(a, w))}
<1>1. q \in Nat /\ q <= w /\ w + q = c
  OBVIOUS
<1>2. \A j \in Nat : Min({j, q}) = IF j <= q THEN j ELSE q
  BY <1>1 DEF Min
<1>3. \A j \in 0 .. c : Sum(a, j) \in Int
  <2>1. ASSUME NEW j \in 0 .. c PROVE Sum(a, j) \in Int
    <3>1. j \in Nat /\ \A i \in 1 .. j : a[i] \in Int
      OBVIOUS
    <3> QED
      BY <3>1, SumType
  <2> QED
    BY <2>1
<1>4. \A i \in 1 .. w : b[i] \in Int
  OBVIOUS
<1>5. \A j \in 0 .. w : To(j) = (IF j <= q THEN w + j ELSE c) /\ To(j) \in 0 .. c
  BY <1>1, <1>2
<1> HIDE DEF To, q
<1>6. 0 \in S
  <2>1. Sum(b, 0) = 0 /\ Sum(a, 0) = 0
    BY SumType
  <2>2. To(0) = w /\ Sum(a, w) \in Int
    BY <1>1, <1>3, <1>5
  <2> QED
    BY <2>1, <2>2
<1>7. ASSUME NEW j \in 0 .. w - 1, j \in S PROVE j + 1 \in S
  <2>1. /\ j \in Nat /\ j + 1 \in 0 .. w /\ j + 1 \in 1 .. w /\ j \in 0 .. w
        /\ (\A i \in 1 .. j + 1 : a[i] \in Int /\ b[i] \in Int)
    BY <1>4
  <2>2. Sum(a, j + 1) = Sum(a, j) + a[j + 1] /\ Sum(b, j + 1) = Sum(b, j) + b[j + 1]
    BY <2>1, SumNext
  <2>3. /\ Sum(a, j) \in Int /\ Sum(a, j + 1) \in Int /\ Sum(a, w) \in Int
        /\ Sum(a, To(j)) \in Int /\ Sum(a, To(j + 1)) \in Int
    BY <1>3, <1>5, <2>1
  <2>4. Sum(b, j) = Sum(a, j) + (Sum(a, To(j)) - Sum(a, w))
    BY <1>7
  <2>5. CASE j + 1 <= q
    <3>1. To(j + 1) = w + j + 1 /\ To(j) = w + j /\ w + j + 1 \in 1 .. c /\ w + j \in Nat
      BY <1>1, <1>5, <2>1, <2>5
    <3>2. Sum(a, w + j + 1) = Sum(a, w + j) + a[w + j + 1]
      <4>1. \A i \in 1 .. (w + j) + 1 : a[i] \in Int
        BY <3>1
      <4> QED
        BY <3>1, <4>1, SumNext
    <3>3. b[j + 1] = a[j + 1] + a[w + j + 1]
      BY <2>1, <2>5 DEF q
    <3>4. a[j + 1] \in Int /\ a[w + j + 1] \in Int
      BY <2>1, <3>1
    <3>5. Sum(b, j + 1) = Sum(a, j + 1) + (Sum(a, To(j + 1)) - Sum(a, w))
      BY <2>2, <2>3, <2>4, <3>1, <3>2, <3>3, <3>4
    <3> QED
      BY <2>1, <3>5
  <2>6. CASE ~ (j + 1 <= q)
    <3>1. To(j + 1) = c /\ To(j) = c
      BY <1>1, <1>5, <2>1, <2>6
    <3>2. b[j + 1] = a[j + 1] /\ a[j + 1] \in Int
      BY <2>1, <2>6 DEF q
    <3>3. Sum(b, j + 1) = Sum(a, j + 1) + (Sum(a, To(j + 1)) - Sum(a, w))
      BY <2>2, <2>3, <2>4, <3>1, <3>2
    <3> QED
      BY <2>1, <3>3
  <2> QED
    BY <2>5, <2>6
<1>8. w \in S
  <2> HIDE DEF S
  <2> QED
    BY <1>6, <1>7, UpTo
<1>9. To(w) = c
  BY <1>1, <1>5
<1> QED
  BY <1>3, <1>8, <1>9

-----------------------------------------------------------------------------
(* The reduction.                                                          *)

\* Powers of two.
LEMMA PowerNext ==
  ASSUME NEW m \in Nat
  PROVE  Power(m) \in Nat \ {0} /\ Power(0) = 1 /\ Power(m + 1) = 2 * Power(m)
<1> DEFINE IsDouble(f, n) == f[0] = 1 /\ \A i \in 1 .. n : f[i] = 2 * f[i - 1]
<1>1. ASSUME NEW n \in Nat
      PROVE  \E f \in [0 .. n -> Nat \ {0}] : IsDouble(f, n) /\ Power(n) = f[n]
  <2> DEFINE V == Nat \ {0}
             step == [i \in 1 .. n |-> [x \in V |-> 2 * x]]
             F(f) == [i \in 0 .. n |-> IF i = 0 THEN 1 ELSE 2 * f[i - 1]]
             double == CHOOSE f : f = F(f)
  <2>1. \A i \in 1 .. n : step[i] \in [V -> V]
    OBVIOUS
  <2>2. 1 \in V
    OBVIOUS
  <2>3. PICK f : Runs(f, V, 1, step, n)
    <3> HIDE DEF step, V
    <3> QED
      BY <2>1, <2>2, Iterates, Zenon
  <2>4. f \in [0 .. n -> V] /\ IsDouble(f, n)
    <3>1. f \in [0 .. n -> V] /\ f[0] = 1 /\ \A i \in 1 .. n : f[i] = step[i][f[i - 1]]
      <4> HIDE DEF step, V
      <4> QED
        BY <2>3 DEF Runs
    <3>2. ASSUME NEW i \in 1 .. n PROVE f[i] = 2 * f[i - 1]
      <4>1. i - 1 \in 0 .. n /\ f[i - 1] \in V
        BY <3>1
      <4>2. step[i][f[i - 1]] = 2 * f[i - 1]
        BY <4>1
      <4> QED
        BY <3>1, <4>2, Zenon
    <3> QED
      BY <3>1, <3>2
  <2>5. f = F(f)
    <3>1. \A i \in 0 .. n : f[i] = IF i = 0 THEN 1 ELSE 2 * f[i - 1]
      BY <2>4
    <3> QED
      BY <2>4, <3>1
  <2>6. double = F(double)
    <3> HIDE DEF F
    <3> QED
      BY <2>5
  <2>7. Power(n) = double[n]
    BY DEF Power
  <2> HIDE DEF double, step
  <2>8. double[0] = 1 /\ \A i \in 1 .. n : double[i] = 2 * double[i - 1]
    BY <2>6
  <2>9. n \in {j \in 0 .. n : double[j] = f[j]}
    <3> DEFINE S == {j \in 0 .. n : double[j] = f[j]}
    <3>1. 0 \in S
      BY <2>4, <2>8
    <3>2. ASSUME NEW i \in 0 .. n - 1, i \in S PROVE i + 1 \in S
      <4>1. i + 1 \in 1 .. n /\ (i + 1) - 1 = i
        OBVIOUS
      <4>2. double[i + 1] = 2 * double[i] /\ f[i + 1] = 2 * f[i]
        BY <2>4, <2>8, <4>1
      <4> QED
        BY <3>2, <4>1, <4>2
    <3> HIDE DEF S
    <3>3. \A j \in 0 .. n : j \in S
      BY <3>1, <3>2, UpTo, Zenon
    <3> QED
      BY <3>3 DEF S
  <2> QED
    BY <2>4, <2>7, <2>9
<1>2. PICK f \in [0 .. m -> Nat \ {0}] : IsDouble(f, m) /\ Power(m) = f[m]
  BY <1>1
<1>3. PICK g \in [0 .. m + 1 -> Nat \ {0}] : IsDouble(g, m + 1) /\ Power(m + 1) = g[m + 1]
  <2>1. m + 1 \in Nat
    OBVIOUS
  <2> QED
    BY <1>1, <2>1
<1>4. Power(0) = 1
  BY <1>1
<1>5. m \in {j \in 0 .. m : f[j] = g[j]}
  <2> DEFINE S == {j \in 0 .. m : f[j] = g[j]}
  <2>1. 0 \in S
    BY <1>2, <1>3
  <2>2. ASSUME NEW i \in 0 .. m - 1, i \in S PROVE i + 1 \in S
    <3>1. i + 1 \in 1 .. m /\ i + 1 \in 1 .. m + 1 /\ (i + 1) - 1 = i
      OBVIOUS
    <3>2. f[i + 1] = 2 * f[i] /\ g[i + 1] = 2 * g[i]
      BY <1>2, <1>3, <3>1
    <3> QED
      BY <2>2, <3>1, <3>2
  <2> HIDE DEF S
  <2>3. \A j \in 0 .. m : j \in S
    BY <2>1, <2>2, UpTo, Zenon
  <2> QED
    BY <2>3 DEF S
<1>6. g[m + 1] = 2 * g[m]
  <2>1. m + 1 \in 1 .. m + 1 /\ (m + 1) - 1 = m
    OBVIOUS
  <2> QED
    BY <1>3, <2>1
<1> QED
  BY <1>2, <1>3, <1>4, <1>5, <1>6

\* The highest bit of a positive number is where the code looks for it.
LEMMA HighestBitIs ==
  ASSUME NEW n \in Nat, n # 0
  PROVE  /\ HighestBit(n) \in Nat
         /\ Power(HighestBit(n)) <= n /\ n < 2 * Power(HighestBit(n))
<1> DEFINE S == {i \in 0 .. n : i < Power(i)}
           over == {i \in Nat : n < Power(i)}
<1>1. n \in S
  <2>1. 0 \in S
    BY PowerNext
  <2>2. ASSUME NEW i \in 0 .. n - 1, i \in S PROVE i + 1 \in S
    BY <2>2, PowerNext
  <2> HIDE DEF S
  <2>3. \A i \in 0 .. n : i \in S
    BY <2>1, <2>2, UpTo, Zenon
  <2> QED
    BY <2>3
<1>2. PICK i \in over : \A j \in over : i <= j
  <2>1. over # {}
    BY <1>1
  <2> HIDE DEF over
  <2>2. over \in SUBSET Nat
    BY DEF over
  <2> QED
    BY <2>1, <2>2, LeastNat
<1>3. i \in Nat /\ n < Power(i) /\ i <= n
  BY <1>1, <1>2
<1>4. i # 0
  BY <1>3, PowerNext
<1>5. i - 1 \in Nat /\ i - 1 \in 0 .. n /\ ~ (i <= i - 1) /\ (i - 1) + 1 = i
  BY <1>3, <1>4
<1>6. ~ (n < Power(i - 1)) /\ Power(i - 1) \in Nat
  BY <1>2, <1>5, PowerNext
<1>7. \E k \in 0 .. n : Power(k) <= n /\ n < Power(k + 1)
  BY <1>3, <1>5, <1>6
<1>8. /\ HighestBit(n) \in 0 .. n
      /\ Power(HighestBit(n)) <= n /\ n < Power(HighestBit(n) + 1)
  BY <1>7 DEF HighestBit
<1> QED
  BY <1>8, PowerNext

\* Adding rows yields rows.
LEMMA AddUpperType ==
  ASSUME NEW n \in Nat, NEW w \in Nat, NEW rows \in [1 .. n -> Int]
  PROVE  AddUpper(rows, n, w) \in [1 .. n -> Int]
<1>1. ASSUME NEW i \in 1 .. n
      PROVE  (IF i <= w /\ w + i <= n THEN rows[i] + rows[w + i] ELSE rows[i]) \in Int
  <2>1. CASE w + i <= n
    <3>1. w + i \in 1 .. n
      BY <2>1
    <3> QED
      BY <3>1
  <2>2. CASE ~ (w + i <= n)
    BY <2>2
  <2> QED
    BY <2>1, <2>2
<1> QED
  BY <1>1 DEF AddUpper

\* DoReduce adds up all rows, whatever their number.
LEMMA ReduceIsSum ==
  ASSUME NEW n \in Nat \ {0}, NEW rows \in [1 .. n -> Int]
  PROVE  DoReduce(rows, n) = Sum(rows, n)
<1> DEFINE steps == HighestBit(n) + 1
           V == [1 .. n -> Int]
           width(k) == Power(steps - k)
           step == [k \in 1 .. steps |-> [r \in V |-> AddUpper(r, n, width(k))]]
           F(f) == [k \in 0 .. steps |->
                      IF k = 0 THEN rows ELSE AddUpper(f[k - 1], n, width(k))]
           added == CHOOSE f : f = F(f)
<1>1. steps \in Nat \ {0} /\ Power(steps - 1) <= n /\ n < 2 * Power(steps - 1)
  BY HighestBitIs
<1> HIDE DEF steps
<1>2. \A k \in 0 .. steps : steps - k \in Nat /\ width(k) \in Nat \ {0}
  <2>1. \A k \in 0 .. steps : steps - k \in Nat
    BY <1>1
  <2> QED
    BY <2>1, PowerNext
<1>3. \A k \in 1 .. steps - 1 : width(k) = 2 * width(k + 1)
  <2>1. ASSUME NEW k \in 1 .. steps - 1 PROVE width(k) = 2 * width(k + 1)
    <3>1. steps - (k + 1) \in Nat /\ (steps - (k + 1)) + 1 = steps - k
      BY <1>1
    <3> QED
      BY <3>1, PowerNext
  <2> QED
    BY <2>1
<1>4. width(1) <= n /\ n < 2 * width(1) /\ width(steps) = 1
  <2>1. steps - steps = 0
    BY <1>1
  <2> QED
    BY <1>1, <2>1, PowerNext
<1> HIDE DEF width
<1>5. \A k \in 1 .. steps : step[k] \in [V -> V]
  <2>1. ASSUME NEW k \in 1 .. steps, NEW r \in V PROVE AddUpper(r, n, width(k)) \in V
    <3>1. n \in Nat /\ width(k) \in Nat /\ r \in [1 .. n -> Int]
      BY <1>1, <1>2
    <3> QED
      BY <3>1, AddUpperType
  <2> HIDE DEF V
  <2> QED
    BY <2>1
<1>6. PICK f : Runs(f, V, rows, step, steps)
  <2> HIDE DEF V, step
  <2>1. rows \in V /\ steps \in Nat
    BY <1>1 DEF V
  <2> QED
    BY <1>5, <2>1, Iterates, Zenon
<1>7. /\ f \in [0 .. steps -> V] /\ f[0] = rows
      /\ \A k \in 1 .. steps : f[k] = AddUpper(f[k - 1], n, width(k))
  <2> HIDE DEF V
  <2>1. f \in [0 .. steps -> V] /\ f[0] = rows /\ \A k \in 1 .. steps : f[k] = step[k][f[k - 1]]
    <3> HIDE DEF step
    <3> QED
      BY <1>6 DEF Runs
  <2>2. ASSUME NEW k \in 1 .. steps PROVE f[k] = AddUpper(f[k - 1], n, width(k))
    <3>1. f[k - 1] \in V
      BY <1>1, <2>1
    <3>2. step[k][f[k - 1]] = AddUpper(f[k - 1], n, width(k))
      BY <3>1
    <3> QED
      BY <2>1, <3>2, Zenon
  <2> QED
    BY <2>1, <2>2
<1> HIDE DEF V, step
<1>8. f = F(f)
  <2>1. \A k \in 0 .. steps : f[k] = IF k = 0 THEN rows ELSE AddUpper(f[k - 1], n, width(k))
    BY <1>7
  <2> QED
    BY <1>7, <2>1
<1>9. added = F(added)
  <2> HIDE DEF F
  <2> QED
    BY <1>8
<1>10. DoReduce(rows, n) = added[steps][1]
  BY DEF DoReduce, steps, width
<1> HIDE DEF added
<1>11. added[0] = rows /\ \A k \in 1 .. steps : added[k] = AddUpper(added[k - 1], n, width(k))
  BY <1>1, <1>9
<1>12. \A k \in 0 .. steps : added[k] = f[k]
  <2> DEFINE S == {k \in 0 .. steps : added[k] = f[k]}
  <2>1. 0 \in S
    BY <1>1, <1>7, <1>11
  <2>2. ASSUME NEW k \in 0 .. steps - 1, k \in S PROVE k + 1 \in S
    <3>1. k + 1 \in 1 .. steps /\ (k + 1) - 1 = k /\ k + 1 \in 0 .. steps
      BY <1>1
    <3>2. added[k + 1] = AddUpper(added[k], n, width(k + 1)) /\ f[k + 1] = AddUpper(f[k], n, width(k + 1))
      BY <1>7, <1>11, <3>1
    <3> QED
      BY <2>2, <3>1, <3>2
  <2> HIDE DEF S
  <2>3. \A k \in 0 .. steps : k \in S
    BY <1>1, <2>1, <2>2, UpTo, Zenon
  <2> QED
    BY <2>3 DEF S
<1>13. \A k \in 1 .. steps : Sum(f[k], width(k)) = Sum(rows, n)
  <2> DEFINE S == {k \in 0 .. steps : k = 0 \/ Sum(f[k], width(k)) = Sum(rows, n)}
  <2>1. 0 \in S
    BY <1>1
  <2>2. ASSUME NEW k \in 0 .. steps - 1, k \in S PROVE k + 1 \in S
    <3>1. k + 1 \in 1 .. steps /\ (k + 1) - 1 = k /\ k \in 0 .. steps /\ k + 1 \in 0 .. steps
      BY <1>1
    <3>2. f[k + 1] = AddUpper(f[k], n, width(k + 1)) /\ f[k] \in [1 .. n -> Int]
      BY <1>7, <3>1 DEF V
    <3> DEFINE w == width(k + 1)
               c == IF k = 0 THEN n ELSE 2 * w
               a == f[k]
               b == f[k + 1]
    <3>3. w \in Nat \ {0}
      BY <1>2, <3>1
    <3>4. c \in Nat /\ w <= c /\ c <= 2 * w /\ c <= n
      <4>1. CASE k = 0
        BY <1>4, <3>3, <4>1
      <4>2. CASE k # 0
        <5>1. k \in 1 .. steps - 1 /\ width(k) = 2 * w
          BY <1>1, <1>3, <4>2
        <5>2. \A j \in 1 .. steps : width(j) <= n
          <6> DEFINE T == {j \in 0 .. steps : j = 0 \/ width(j) <= n}
          <6>1. 0 \in T
            BY <1>1
          <6>2. ASSUME NEW j \in 0 .. steps - 1, j \in T PROVE j + 1 \in T
            <7>1. CASE j = 0
              BY <1>1, <1>4, <7>1
            <7>2. CASE j # 0
              <8>1. /\ j \in 1 .. steps - 1 /\ j + 1 \in 0 .. steps /\ j \in 0 .. steps
                    /\ width(j) <= n
                BY <1>1, <6>2, <7>2
              <8>2. width(j) = 2 * width(j + 1) /\ width(j + 1) \in Nat
                BY <1>2, <1>3, <8>1
              <8> QED
                BY <8>1, <8>2
            <7> QED
              BY <7>1, <7>2
          <6> HIDE DEF T
          <6>3. \A j \in 0 .. steps : j \in T
            BY <1>1, <6>1, <6>2, UpTo, Zenon
          <6> QED
            BY <6>3 DEF T
        <5>3. width(k) <= n
          BY <1>1, <5>1, <5>2
        <5> QED
          BY <3>3, <4>2, <5>1, <5>3
      <4> QED
        BY <4>1, <4>2
    <3>5. \A i \in 1 .. c : a[i] \in Int
      BY <3>2, <3>4
    <3>6. ASSUME NEW i \in 1 .. w
          PROVE  b[i] = a[i] + IF i <= c - w THEN a[w + i] ELSE 0
      <4>1. i \in 1 .. n /\ a[i] \in Int
        BY <3>2, <3>3, <3>4
      <4>2. b[i] = IF i <= w /\ w + i <= n THEN a[i] + a[w + i] ELSE a[i]
        BY <3>2, <4>1 DEF AddUpper
      <4>3. i <= c - w <=> w + i <= n
        <5>1. CASE k = 0
          BY <3>3, <5>1
        <5>2. CASE k # 0
          BY <3>3, <3>4, <5>2
        <5> QED
          BY <5>1, <5>2
      <4> QED
        BY <3>3, <4>1, <4>2, <4>3
    <3> HIDE DEF w, c, a, b
    <3>7. Sum(b, w) = Sum(a, c)
      <4>1. Folded(b, w, a, c)
        BY <3>3, <3>4, <3>5, <3>6 DEF Folded
      <4> QED
        BY <3>3, <3>4, <4>1, FoldSum
    <3>8. CASE k = 0
      BY <1>7, <3>1, <3>7, <3>8 DEF w, c, a, b
    <3>9. CASE k # 0
      <4>1. k \in 1 .. steps - 1
        BY <1>1, <3>9
      <4>2. width(k) = 2 * w
        BY <1>3, <4>1 DEF w
      <4>3. Sum(f[k], width(k)) = Sum(rows, n)
        BY <2>2, <3>9
      <4> QED
        BY <3>1, <3>7, <3>9, <4>2, <4>3 DEF w, c, a, b
    <3> QED
      BY <3>8, <3>9
  <2> HIDE DEF S
  <2>3. \A k \in 0 .. steps : k \in S
    BY <1>1, <2>1, <2>2, UpTo, Zenon
  <2> QED
    BY <1>1, <2>3 DEF S
<1>14. Sum(f[steps], 1) = f[steps][1]
  <2>1. f[steps] \in [1 .. n -> Int]
    BY <1>1, <1>7 DEF V
  <2>2. (\A i \in 1 .. 0 + 1 : f[steps][i] \in Int) /\ f[steps][1] \in Int
    BY <2>1
  <2>3. Sum(f[steps], 0 + 1) = Sum(f[steps], 0) + f[steps][0 + 1]
    BY <2>2, SumNext
  <2>4. Sum(f[steps], 0) = 0
    BY SumType
  <2> QED
    BY <2>2, <2>3, <2>4
<1>15. added[steps] = f[steps] /\ Sum(f[steps], 1) = Sum(rows, n)
  BY <1>1, <1>4, <1>12, <1>13
<1> QED
  BY <1>10, <1>14, <1>15

-----------------------------------------------------------------------------
(* Arithmetic of groups of bits.                                           *)

\* Quotient and remainder.
LEMMA Division ==
  ASSUME NEW a \in Nat, NEW b \in Nat \ {0}
  PROVE  /\ a \div b \in Nat /\ a % b \in Nat /\ a % b < b
         /\ a = b * (a \div b) + (a % b)
BY SMT

\* There is one quotient and one remainder.
LEMMA Quotient ==
  ASSUME NEW q \in Nat, NEW r \in Nat, NEW b \in Nat \ {0}, r < b
  PROVE  (b * q + r) \div b = q /\ (b * q + r) % b = r
BY SMT

-----------------------------------------------------------------------------
(* The score of a token.                                                   *)

\* The rows of DoScale hold all products, each once.
LEMMA ScaleIsSum ==
  ASSUME NEW p \in Seq(Int), p # << >>
  PROVE  /\ RowCount(p) \in Nat \ {0}
         /\ DoScale(p) \in [1 .. RowCount(p) -> Int]
         /\ Sum(DoScale(p), RowCount(p)) = Sum(p, Len(p))
<1> DEFINE b == GroupInner
           L == Len(p)
           m == RowCount(p)
           G == Groups(p)
           HeadAt(g, i) == b * (g - 1) + i
           Part(h, i) == [g \in 1 .. G |-> IF HeadAt(g, i) <= h THEN p[HeadAt(g, i)] ELSE 0]
           Held(h) == [i \in 1 .. m |-> Sum(Part(h, i), G)]
<1>1. b \in Nat \ {0} /\ L \in Nat \ {0} /\ \A h \in 1 .. L : p[h] \in Int
  BY SizeAssumption
<1>2. m \in Nat \ {0} /\ m <= b /\ m <= L /\ (m = b \/ m = L)
  <2>1. Min({b, L}) = IF b <= L THEN b ELSE L
    BY <1>1 DEF Min
  <2> QED
    BY <1>1, <2>1 DEF RowCount
<1>3. G \in Nat /\ \A h \in Nat : h < L => h \div b < G
  <2>1. \A x \in Nat, y \in Nat \ {0}, t \in Nat : t < x => t \div y < (x + y - 1) \div y
    BY SMT
  <2>2. L + b - 1 \in Nat
    BY <1>1
  <2>3. G \in Nat
    BY <1>1, <2>2, Division DEF Groups
  <2> QED
    BY <1>1, <2>1, <2>3 DEF Groups
<1> HIDE DEF b, L, m, G
<1>4. \A g \in 1 .. G, i \in 1 .. m : HeadAt(g, i) \in Nat \ {0}
  <2>1. ASSUME NEW g \in 1 .. G, NEW i \in 1 .. m PROVE HeadAt(g, i) \in Nat \ {0}
    <3>1. g - 1 \in Nat /\ b * (g - 1) \in Nat
      BY <1>1, <1>3
    <3> QED
      BY <1>2, <3>1
  <2> QED
    BY <2>1
<1>5. ASSUME NEW h \in Nat, h < L
      PROVE  \E i \in 1 .. m, g \in 1 .. G :
               /\ HeadAt(g, i) = h + 1
               /\ \A j \in 1 .. m, k \in 1 .. G : HeadAt(k, j) = h + 1 => j = i /\ k = g
  <2> DEFINE i == (h % b) + 1
             g == (h \div b) + 1
  <2>1. h \div b \in Nat /\ h % b \in Nat /\ h % b < b /\ h = b * (h \div b) + (h % b)
    BY <1>1, Division
  <2>2. b * (h \div b) \in Nat
    BY <1>1, <2>1
  <2>3. i \in 1 .. m
    <3>1. h % b <= h
      BY <2>1, <2>2
    <3>2. \A r \in Nat : r < b /\ r <= h => r + 1 \in 1 .. m
      BY <1>1, <1>2, <1>5
    <3> QED
      BY <2>1, <3>1, <3>2
  <2>4. g \in 1 .. G /\ g - 1 = h \div b
    BY <1>3, <1>5, <2>1
  <2>5. HeadAt(g, i) = h + 1
    <3>1. HeadAt(g, i) = b * (h \div b) + ((h % b) + 1)
      BY <2>4
    <3>2. \A x, r \in Nat : h = x + r => x + (r + 1) = h + 1
      OBVIOUS
    <3> QED
      BY <2>1, <2>2, <3>1, <3>2
  <2>6. ASSUME NEW j \in 1 .. m, NEW k \in 1 .. G, HeadAt(k, j) = h + 1 PROVE j = i /\ k = g
    <3>1. k - 1 \in Nat /\ j - 1 \in Nat /\ j - 1 < b /\ b * (k - 1) \in Nat
      BY <1>1, <1>2, <1>3
    <3>2. h = b * (k - 1) + (j - 1)
      <4>1. \A x \in Nat : x + j = h + 1 => h = x + (j - 1)
        BY <1>2
      <4> QED
        BY <2>6, <3>1, <4>1
    <3>3. h \div b = k - 1 /\ h % b = j - 1
      BY <1>1, <3>1, <3>2, Quotient
    <3> QED
      BY <3>1, <3>3
  <2> HIDE DEF i, g, HeadAt
  <2> QED
    BY <2>3, <2>4, <2>5, <2>6
<1>6. ASSUME NEW h \in 0 .. L, NEW i \in 1 .. m, NEW g \in 1 .. G
      PROVE  Part(h, i)[g] \in Int
  <2>1. CASE HeadAt(g, i) <= h
    <3>1. HeadAt(g, i) \in 1 .. L
      BY <1>1, <1>4, <2>1
    <3> HIDE DEF HeadAt
    <3> QED
      BY <1>1, <2>1, <3>1
  <2>2. CASE ~ (HeadAt(g, i) <= h)
    BY <2>2
  <2> QED
    BY <2>1, <2>2
<1>7. \A h \in 0 .. L, i \in 1 .. m : Held(h)[i] \in Int /\ Held(h)[i] = Sum(Part(h, i), G)
  <2>1. ASSUME NEW h \in 0 .. L, NEW i \in 1 .. m PROVE Sum(Part(h, i), G) \in Int
    <3> HIDE DEF Part
    <3> QED
      BY <1>3, <1>6, SumType
  <2> HIDE DEF Part
  <2> QED
    BY <2>1
<1>8. ASSUME NEW h \in Nat, h < L
      PROVE  Sum(Held(h + 1), m) = Sum(Held(h), m) + p[h + 1]
  <2>1. PICK i \in 1 .. m, g \in 1 .. G :
          /\ HeadAt(g, i) = h + 1
          /\ \A j \in 1 .. m, k \in 1 .. G : HeadAt(k, j) = h + 1 => j = i /\ k = g
    BY <1>5, <1>8
  <2>2. h \in 0 .. L /\ h + 1 \in 0 .. L /\ h + 1 \in 1 .. L /\ p[h + 1] \in Int
    BY <1>1, <1>8
  <2>3. ASSUME NEW j \in 1 .. m, NEW k \in 1 .. G, j # i \/ k # g
        PROVE  Part(h + 1, j)[k] = Part(h, j)[k]
    <3>1. HeadAt(k, j) # h + 1 /\ HeadAt(k, j) \in Nat
      BY <1>4, <2>1, <2>3
    <3>2. HeadAt(k, j) <= h + 1 <=> HeadAt(k, j) <= h
      <4> HIDE DEF HeadAt
      <4> QED
        BY <3>1
    <3> HIDE DEF HeadAt
    <3> QED
      BY <3>2
  <2>4. Part(h + 1, i)[g] = p[h + 1] /\ Part(h, i)[g] = 0
    <3> HIDE DEF HeadAt
    <3> QED
      BY <2>1
  <2>5. \A j \in 1 .. m : j # i => Held(h + 1)[j] = Held(h)[j]
    <3>1. ASSUME NEW j \in 1 .. m, j # i PROVE Part(h + 1, j) = Part(h, j)
      <4>1. \A k \in 1 .. G : Part(h + 1, j)[k] = Part(h, j)[k]
        BY <2>3, <3>1
      <4> HIDE DEF HeadAt
      <4> QED
        BY <4>1
    <3> HIDE DEF Part, Held
    <3> QED
      BY <1>7, <2>2, <3>1
  <2>6. Held(h + 1)[i] = Held(h)[i] + p[h + 1]
    <3>1. \A k \in 1 .. G : Part(h, i)[k] \in Int /\ Part(h + 1, i)[k] \in Int
      BY <1>6, <2>2
    <3>2. \A k \in 1 .. G : k # g => Part(h + 1, i)[k] = Part(h, i)[k]
      BY <2>3
    <3> HIDE DEF Part, Held
    <3>3. Sum(Part(h + 1, i), G) = Sum(Part(h, i), G) + (Part(h + 1, i)[g] - Part(h, i)[g])
      <4>1. DifferAt(Part(h, i), Part(h + 1, i), G, g)
        BY <3>1, <3>2 DEF DifferAt
      <4> QED
        BY <1>3, <4>1, SumPoint
    <3>4. /\ Held(h + 1)[i] = Sum(Part(h + 1, i), G) /\ Held(h)[i] = Sum(Part(h, i), G)
          /\ Held(h)[i] \in Int
      BY <1>7, <2>2
    <3> QED
      BY <2>2, <2>4, <3>3, <3>4
  <2>7. \A j \in 1 .. m : Held(h)[j] \in Int /\ Held(h + 1)[j] \in Int
    BY <1>7, <2>2
  <2> HIDE DEF Held
  <2>8. Sum(Held(h + 1), m) = Sum(Held(h), m) + (Held(h + 1)[i] - Held(h)[i])
    <3>1. DifferAt(Held(h), Held(h + 1), m, i)
      BY <2>5, <2>7 DEF DifferAt
    <3> QED
      BY <1>2, <3>1, SumPoint
  <2>9. Held(h)[i] \in Int
    BY <2>7
  <2> QED
    BY <2>2, <2>6, <2>8, <2>9
<1>9. Sum(Held(0), m) = 0
  <2>1. ASSUME NEW i \in 1 .. m PROVE Held(0)[i] = 0
    <3>1. \A g \in 1 .. G : Part(0, i)[g] = 0
      <4>1. \A g \in 1 .. G : ~ (HeadAt(g, i) <= 0)
        <5> HIDE DEF HeadAt
        <5> QED
          BY <1>4
      <4> HIDE DEF HeadAt
      <4> QED
        BY <4>1
    <3>2. Sum(Part(0, i), G) = 0
      <4> HIDE DEF Part
      <4> QED
        BY <1>3, <3>1, SumZeros
    <3>3. 0 \in 0 .. L
      BY <1>1
    <3> HIDE DEF Part, Held
    <3> QED
      BY <1>7, <3>2, <3>3
  <2> HIDE DEF Held
  <2> QED
    BY <1>2, <2>1, SumZeros
<1>10. \A h \in 0 .. L : Sum(Held(h), m) = Sum(p, h)
  <2> HIDE DEF Held
  <2> DEFINE S == {h \in 0 .. L : Sum(Held(h), m) = Sum(p, h)}
  <2>1. 0 \in S
    <3>1. Sum(p, 0) = 0 /\ 0 \in 0 .. L
      BY <1>1, SumType
    <3> QED
      BY <1>9, <3>1
  <2>2. ASSUME NEW h \in 0 .. L - 1, h \in S PROVE h + 1 \in S
    <3>1. h \in Nat /\ h < L /\ h + 1 \in 0 .. L /\ \A j \in 1 .. h + 1 : p[j] \in Int
      BY <1>1
    <3>2. Sum(p, h + 1) = Sum(p, h) + p[h + 1]
      BY <3>1, SumNext
    <3>3. Sum(Held(h + 1), m) = Sum(Held(h), m) + p[h + 1]
      BY <1>8, <3>1
    <3>4. Sum(Held(h), m) = Sum(p, h)
      BY <2>2
    <3>5. Sum(Held(h + 1), m) = Sum(p, h + 1)
      BY <3>2, <3>3, <3>4
    <3> QED
      BY <3>1, <3>5
  <2> HIDE DEF S
  <2>3. \A h \in 0 .. L : h \in S
    BY <1>1, <2>1, <2>2, UpTo, Zenon
  <2> QED
    BY <2>3 DEF S
<1>11. DoScale(p) = Held(L)
  <2>1. ASSUME NEW i \in 1 .. m, NEW g \in 1 .. G
        PROVE  Product(p, (g - 1) * GroupInner + i) = IF HeadAt(g, i) <= L THEN p[HeadAt(g, i)] ELSE 0
    <3>1. (g - 1) * GroupInner = b * (g - 1)
      BY <1>1, <1>3 DEF b
    <3> QED
      BY <3>1 DEF Product, L
  <2>2. ASSUME NEW i \in 1 .. m
        PROVE  [g \in 1 .. G |-> Product(p, (g - 1) * GroupInner + i)] = Part(L, i)
    <3> HIDE DEF HeadAt
    <3> QED
      BY <2>1
  <2>3. DoScale(p) = [i \in 1 .. m |-> Sum([g \in 1 .. G |-> Product(p, (g - 1) * GroupInner + i)], G)]
    BY DEF DoScale, m, G
  <2> HIDE DEF Part
  <2> QED
    BY <2>2, <2>3
<1>12. DoScale(p) \in [1 .. m -> Int]
  <2>1. L \in 0 .. L
    BY <1>1
  <2>2. \A i \in 1 .. m : Held(L)[i] \in Int
    BY <1>7, <2>1
  <2>3. DOMAIN Held(L) = 1 .. m /\ Held(L) = [i \in DOMAIN Held(L) |-> Held(L)[i]]
    BY Zenon
  <2> HIDE DEF Held
  <2> QED
    BY <1>11, <2>2, <2>3
<1>13. Sum(Held(L), m) = Sum(p, L)
  <2>1. L \in 0 .. L
    BY <1>1
  <2> HIDE DEF Held
  <2> QED
    BY <1>10, <2>1
<1> HIDE DEF Held
<1> QED
  BY <1>2, <1>11, <1>12, <1>13 DEF m, L

\* The sum over groups and folds is the sum over the heads.
LEMMA ScoreIsSum ==
  ASSUME NEW p \in Products
  PROVE  /\ DoReduce(DoScale(p), RowCount(p)) = Sum(p, Len(p))
         /\ Sum(p, Len(p)) \in Int
<1>1. p \in Seq(Int) /\ p # << >>
  BY ProductAssumption
<1>2. Sum(p, Len(p)) \in Int
  <2>1. Len(p) \in Nat /\ \A i \in 1 .. Len(p) : p[i] \in Int
    BY <1>1
  <2> QED
    BY <2>1, SumType
<1>3. /\ RowCount(p) \in Nat \ {0} /\ DoScale(p) \in [1 .. RowCount(p) -> Int]
      /\ Sum(DoScale(p), RowCount(p)) = Sum(p, Len(p))
  BY <1>1, ScaleIsSum
<1> QED
  BY <1>2, <1>3, ReduceIsSum

-----------------------------------------------------------------------------
(* The words of a pair.                                                    *)

\* The constants are positive numbers; the padding of a short list fits the index bits.
LEMMA Sizes ==
  /\ IndexSize \in Nat \ {0} /\ HighSize \in Nat \ {0} /\ FieldSize \in Nat \ {0}
  /\ Chunk \in Nat \ {0} /\ K \in Nat \ {0} /\ Infinity \in Nat \ {0} /\ K < IndexSize
BY SizeAssumption

\* The low and the high bits of an index; the chunk's base and the place in the
\* chunk have no bit in common.
LEMMA IndexParts ==
  ASSUME NEW n \in Lengths, NEW t \in Tokens(n)
  PROVE  /\ t \in Nat /\ t % IndexSize \in 0 .. IndexSize - 1 /\ t \div IndexSize \in 0 .. HighSize - 1
         /\ t = IndexSize * (t \div IndexSize) + (t % IndexSize)
         /\ (Base(t) % IndexSize) + (t % Chunk) = t % IndexSize
         /\ High(t) = t \div IndexSize
         /\ n <= IndexSize => t \div IndexSize = 0 /\ t % IndexSize = t
<1> DEFINE q == t \div Chunk
           r == t % Chunk
           m == IndexSize \div Chunk
           a == q \div m
           c == q % m
<1>1. n \in Nat /\ n <= IndexSize * HighSize /\ t \in Nat /\ t < n
  BY SizeAssumption DEF Tokens
<1>2. q \in Nat /\ r \in Nat /\ r < Chunk /\ t = Chunk * q + r
  BY <1>1, Sizes, Division
<1>3. m \in Nat \ {0} /\ IndexSize = Chunk * m
  <2>1. m \in Nat /\ IndexSize = Chunk * m + (IndexSize % Chunk)
    BY Sizes, Division
  <2>2. IndexSize % Chunk = 0
    BY SizeAssumption
  <2>3. m # 0
    BY Sizes, <2>1, <2>2
  <2> QED
    BY Sizes, <2>1, <2>2, <2>3
<1>4. a \in Nat /\ c \in Nat /\ c < m /\ q = m * a + c
  BY <1>2, <1>3, Division
<1>5. Base(t) = Chunk * q
  BY <1>1, <1>2, Sizes DEF Base
<1> HIDE DEF q, r, m, a, c
<1> DEFINE low == Chunk * c
           top1 == IndexSize * a
<1>6. low \in Nat /\ top1 \in Nat /\ Chunk * q = top1 + low
  BY <1>3, <1>4, Sizes
<1>7. low + Chunk <= IndexSize
  <2>1. \A x \in Nat, y \in Nat : c + y = m => low + Chunk * y = IndexSize
    BY <1>3, <1>4, Sizes
  <2>2. PICK y \in Nat \ {0} : c + y = m
    <3>1. m - c \in Nat \ {0} /\ c + (m - c) = m
      BY <1>3, <1>4
    <3> QED
      BY <3>1
  <2>3. Chunk * y >= Chunk
    BY Sizes
  <2>4. low + Chunk * y = IndexSize /\ Chunk * y \in Nat
    BY <2>1, <2>2, Sizes
  <2> HIDE DEF low
  <2> QED
    BY <1>6, <2>3, <2>4, Sizes
<1>8. low + r \in Nat /\ low + r < IndexSize /\ low < IndexSize
  <2> HIDE DEF low
  <2> QED
    BY <1>2, <1>6, <1>7, Sizes
<1>9. t = top1 + (low + r)
  <2> HIDE DEF low, top1
  <2> QED
    BY <1>2, <1>6, Sizes
<1>10. t \div IndexSize = a /\ t % IndexSize = low + r
  <2> HIDE DEF low
  <2> QED
    BY <1>4, <1>8, <1>9, Sizes, Quotient
<1>11. Base(t) \div IndexSize = a /\ Base(t) % IndexSize = low
  <2> HIDE DEF low
  <2> QED
    BY <1>4, <1>5, <1>6, <1>8, Sizes, Quotient
<1>12. a < HighSize
  <2>1. top1 < IndexSize * HighSize
    <3> HIDE DEF low, top1
    <3> QED
      BY <1>1, <1>6, <1>8, <1>9, Sizes
  <2>2. \A x \in Nat : x >= HighSize => IndexSize * x >= IndexSize * HighSize
    BY Sizes
  <2> QED
    BY <1>4, <2>1, <2>2, Sizes
<1>13. High(t) = a
  BY <1>4, <1>11, <1>12, Sizes DEF High
<1>14. n <= IndexSize => a = 0 /\ low + r = t
  <2>1. \A x \in Nat \ {0} : IndexSize * x >= IndexSize
    BY Sizes
  <2>2. n <= IndexSize => top1 < IndexSize
    <3> HIDE DEF low, top1
    <3> QED
      BY <1>1, <1>6, <1>8, <1>9, Sizes
  <2>3. n <= IndexSize => a = 0
    BY <1>4, <2>1, <2>2, Sizes
  <2>4. a = 0 => top1 = 0
    BY Sizes
  <2> HIDE DEF low, top1
  <2> QED
    BY <1>2, <1>6, <1>9, <2>3, <2>4
<1> HIDE DEF low, top1
<1>15. t % IndexSize \in 0 .. IndexSize - 1 /\ t \div IndexSize \in 0 .. HighSize - 1
  BY <1>4, <1>8, <1>10, <1>12, Sizes
<1>16. (Base(t) % IndexSize) + (t % Chunk) = t % IndexSize
  BY <1>10, <1>11 DEF r
<1>17. t = IndexSize * (t \div IndexSize) + (t % IndexSize)
  BY <1>1, Sizes, Division
<1> QED
  BY <1>1, <1>10, <1>13, <1>14, <1>15, <1>16, <1>17

\* The fields of a payload.
LEMMA Packed ==
  ASSUME NEW f \in 0 .. FieldSize - 1, NEW l \in 0 .. IndexSize - 1
  PROVE  /\ Field(f * IndexSize + l) = f
         /\ LowIndex(f * IndexSize + l) = l
<1>1. f * IndexSize = IndexSize * f
  BY Sizes
<1>2. f \in Nat /\ l \in Nat /\ l < IndexSize
  BY Sizes
<1> QED
  BY <1>1, <1>2, Sizes, Quotient DEF Field, LowIndex

\* All bits of the padding are set.
LEMMA Ones == Field(AllOnes) = InvalidField /\ LowIndex(AllOnes) = IndexMask
<1>1. AllOnes = InvalidField * IndexSize + IndexMask
  BY Sizes DEF AllOnes, InvalidField, IndexMask
<1>2. InvalidField \in 0 .. FieldSize - 1 /\ IndexMask \in 0 .. IndexSize - 1
  BY Sizes DEF InvalidField, IndexMask
<1> QED
  BY <1>1, <1>2, Packed

\* The invalid field is no slot, any other is the slot.
LEMMA SlotOfField ==
  ASSUME NEW p, Field(p) \in 0 .. FieldSize - 1
  PROVE  /\ DecodeSlot(p) = IF Field(p) = InvalidField THEN None ELSE Field(p)
         /\ (Field(p) + 1) \div FieldSize = IF Field(p) = InvalidField THEN 1 ELSE 0
<1> DEFINE f == Field(p)
<1>1. f = InvalidField => (f + 1) \div FieldSize = 1
  BY Sizes DEF InvalidField
<1>2. f # InvalidField => (f + 1) \div FieldSize = 0
  BY Sizes DEF InvalidField
<1> QED
  BY <1>1, <1>2, Sizes DEF DecodeSlot, InvalidField, None

\* The number of whole tags in a score.
LEMMA ClearedIs ==
  ASSUME NEW x \in Int
  PROVE  \E k \in Nat : /\ Abs(x) \in Nat /\ LowBits(x) \in 0 .. HighSize - 1
                        /\ Abs(x) = HighSize * k + LowBits(x) /\ HighSize * k \in Nat
                        /\ Abs(x) - LowBits(x) = HighSize * k
<1>1. Abs(x) \in Nat
  BY DEF Abs
<1>2. LET k == Abs(x) \div HighSize
      IN  /\ k \in Nat /\ LowBits(x) \in Nat /\ LowBits(x) < HighSize
          /\ Abs(x) = HighSize * k + LowBits(x)
  BY <1>1, Sizes, Division DEF LowBits
<1>3. PICK k \in Nat : /\ LowBits(x) \in Nat /\ LowBits(x) < HighSize
                       /\ Abs(x) = HighSize * k + LowBits(x)
  BY <1>2
<1>4. HighSize * k \in Nat
  BY Sizes
<1>5. Abs(x) - LowBits(x) = HighSize * k
  <2>1. \A y \in Nat, l \in Nat : (y + l) - l = y
    OBVIOUS
  <2> QED
    BY <1>3, <1>4, <2>1
<1>6. LowBits(x) \in 0 .. HighSize - 1
  BY <1>3, Sizes
<1> QED
  BY <1>1, <1>3, <1>4, <1>5, <1>6

\* The tag of a score is read back, from its negation too.
LEMMA Tagged ==
  ASSUME NEW x \in Int, NEW h \in 0 .. HighSize - 1
  PROVE  /\ TagScore(x, h) \in Int /\ TagScore(x, h) > -(Abs(x) + HighSize) /\ Abs(x) \in Nat
         /\ LowBits(TagScore(x, h)) = h /\ LowBits(-TagScore(x, h)) = h
<1>1. PICK k \in Nat : /\ Abs(x) \in Nat /\ LowBits(x) \in 0 .. HighSize - 1
                       /\ Abs(x) = HighSize * k + LowBits(x) /\ HighSize * k \in Nat
                       /\ Abs(x) - LowBits(x) = HighSize * k
  BY ClearedIs
<1> DEFINE c == HighSize * k
<1>2. (c + h) % HighSize = h
  BY Sizes, Quotient
<1>3. TagScore(x, h) = Signed(x, c + h)
  BY <1>1 DEF TagScore
<1>4. c \in Nat /\ c <= Abs(x)
  <2> HIDE DEF c
  <2>1. c \in Nat /\ Abs(x) = c + LowBits(x)
    BY <1>1 DEF c
  <2> QED
    BY <1>1, <2>1, Sizes
<1> HIDE DEF c
<1>5. Signed(x, c + h) = c + h \/ Signed(x, c + h) = -(c + h)
  BY DEF Signed
<1>6. Abs(c + h) = c + h /\ Abs(-(c + h)) = c + h /\ -(-(c + h)) = c + h
  BY <1>4, Sizes DEF Abs
<1>7. c + h \in Int /\ -(c + h) \in Int /\ c + h > -(Abs(x) + HighSize) /\ -(c + h) > -(Abs(x) + HighSize)
  BY <1>1, <1>4, Sizes
<1> QED
  BY <1>1, <1>2, <1>3, <1>5, <1>6, <1>7 DEF LowBits

\* Whatever the tags, they do not turn the order of the scores they are put in.
LEMMA TagOrder ==
  ASSUME NEW x \in Int, NEW y \in Int, NEW h \in 0 .. HighSize - 1, NEW g \in 0 .. HighSize - 1,
         TagScore(x, h) >= TagScore(y, g)
  PROVE  Cleared(x) >= Cleared(y)
<1>1. PICK k \in Nat : HighSize * k \in Nat /\ Abs(x) - LowBits(x) = HighSize * k
  BY ClearedIs
<1>2. PICK l \in Nat : HighSize * l \in Nat /\ Abs(y) - LowBits(y) = HighSize * l
  BY ClearedIs
<1>3. \A i, j \in Nat, f, e \in 0 .. HighSize - 1 :
        HighSize * i + f >= HighSize * j + e => HighSize * i >= HighSize * j
  <2>1. ASSUME NEW i \in Nat, NEW j \in Nat, NEW f \in 0 .. HighSize - 1, NEW e \in 0 .. HighSize - 1,
               HighSize * i + f >= HighSize * j + e
        PROVE  HighSize * i >= HighSize * j
    <3>1. CASE i >= j
      BY <3>1, Sizes
    <3>2. CASE i < j
      <4>1. HighSize * j >= HighSize * i + HighSize
        BY <3>2, Sizes
      <4>2. \A v, w \in Nat : w >= v + HighSize => ~ (v + f >= w + e)
        BY Sizes
      <4>3. HighSize * i \in Nat /\ HighSize * j \in Nat
        BY Sizes
      <4> QED
        BY <2>1, <4>1, <4>2, <4>3
    <3> QED
      BY <3>1, <3>2
  <2> QED
    BY <2>1
<1> DEFINE c == HighSize * k
           d == HighSize * l
<1>4. c \in Nat /\ d \in Nat /\ (c + h >= d + g => c >= d) /\ (d + g >= c + h => d >= c)
  BY <1>1, <1>2, <1>3
<1>5. Signed(x, c + h) >= Signed(y, d + g) /\ Cleared(x) = Signed(x, c) /\ Cleared(y) = Signed(y, d)
  BY <1>1, <1>2 DEF TagScore, Cleared
<1> HIDE DEF c, d
<1> QED
  BY <1>4, <1>5, Sizes DEF Signed

-----------------------------------------------------------------------------
(* The pair of a token.                                                    *)

Pair(t) == [key |-> SortScore(t), payload |-> Payload(t)]

Input ==
  /\ mtp \in BOOLEAN /\ len \in Lengths /\ row \in Rows[len]
  /\ product \in [Tokens(len) -> Products]

\* The lengths and rows of the inputs.
LEMMA RowIs ==
  ASSUME Input
  PROVE  /\ len \in Nat \ {0} /\ len <= IndexSize * HighSize
         /\ Cardinality(CachedIn(row)) \in Nat /\ Cardinality(CachedIn(row)) <= InvalidField
         /\ \A t \in Tokens(len) :
              /\ row[t] \in Int
              /\ row[t] >= 0 => row[t] < Cardinality(CachedIn(row)) /\ row[t] % FieldSize = row[t]
              /\ ~ (row[t] >= 0) => row[t] % FieldSize >= Cardinality(CachedIn(row))
              /\ row[t] % FieldSize \in 0 .. FieldSize - 1
<1> DEFINE n == Cardinality(CachedIn(row))
<1>1. len \in Nat \ {0} /\ len <= IndexSize * HighSize
  BY Sizes, SizeAssumption DEF Input
<1>2. /\ row \in [Tokens(len) -> Int] /\ n <= InvalidField
      /\ \A t \in Tokens(len) : row[t] < n
      /\ \A t \in Tokens(len) \ CachedIn(row) : row[t] % FieldSize >= n
  BY RowAssumption DEF Input
<1>3. n \in Nat
  <2>1. IsFiniteSet(Tokens(len))
    BY <1>1, FS_Interval DEF Tokens
  <2>2. CachedIn(row) \subseteq Tokens(len)
    BY <1>2 DEF CachedIn
  <2> QED
    BY <2>1, <2>2, FS_Subset, FS_CardinalityType
<1> HIDE DEF n
<1>4. ASSUME NEW t \in Tokens(len)
      PROVE  /\ row[t] \in Int
             /\ row[t] >= 0 => row[t] < n /\ row[t] % FieldSize = row[t]
             /\ ~ (row[t] >= 0) => row[t] % FieldSize >= n
             /\ row[t] % FieldSize \in 0 .. FieldSize - 1
  <2>1. row[t] \in Int /\ row[t] < n
    BY <1>2
  <2>2. \A x \in Int : x % FieldSize \in 0 .. FieldSize - 1
    BY Sizes
  <2>3. \A x \in Nat : x < FieldSize => x % FieldSize = x
    BY Sizes
  <2>4. row[t] >= 0 => row[t] \in Nat /\ row[t] < FieldSize
    BY <1>2, <1>3, <2>1, Sizes DEF InvalidField
  <2>5. ~ (row[t] >= 0) => t \in Tokens(len) \ CachedIn(row)
    BY DEF CachedIn
  <2>6. ~ (row[t] >= 0) => row[t] % FieldSize >= n
    BY <1>2, <2>5
  <2> QED
    BY <2>1, <2>2, <2>3, <2>4, <2>6
<1> QED
  BY <1>1, <1>2, <1>3, <1>4 DEF n

\* The score is the sum over all heads, but for the tag.
LEMMA ScoreWord ==
  ASSUME Input, NEW t \in Tokens(len)
  PROVE  /\ TrueScore(t) \in Int
         /\ SortScore(t) = IF Long THEN TagScore(TrueScore(t), t \div IndexSize) ELSE TrueScore(t)
         /\ SortScore(t) \in Int /\ SortScore(t) > -(Infinity + HighSize)
         /\ ~Long => SortScore(t) > NegInf
         /\ Long => LowBits(SortScore(t)) = t \div IndexSize /\ LowBits(-SortScore(t)) = t \div IndexSize
<1> DEFINE p == product[t]
           x == TrueScore(t)
           h == t \div IndexSize
<1>1. p \in Products
  BY DEF Input
<1>2. x = Sum(p, Len(p))
  BY DEF TrueScore
<1>3. x \in Int /\ DoReduce(DoScale(p), RowCount(p)) = x
  BY <1>1, <1>2, ScoreIsSum
<1>4. -Infinity < x /\ x < Infinity
  BY <1>1, <1>2, ProductAssumption
<1>5. High(t) = h /\ h \in 0 .. HighSize - 1
  BY IndexParts DEF Input
<1>6. SortScore(t) = IF Long THEN TagScore(x, h) ELSE x
  BY <1>3, <1>5 DEF SortScore
<1> HIDE DEF p, x, h
<1>7. /\ TagScore(x, h) \in Int /\ TagScore(x, h) > -(Abs(x) + HighSize) /\ Abs(x) \in Nat
      /\ LowBits(TagScore(x, h)) = h /\ LowBits(-TagScore(x, h)) = h
  BY <1>3, <1>5, Tagged
<1>8. Abs(x) < Infinity
  BY <1>3, <1>4, Sizes DEF Abs
<1>9. TagScore(x, h) > -(Infinity + HighSize) /\ x > -(Infinity + HighSize)
  BY <1>3, <1>4, <1>7, <1>8, Sizes
<1> QED
  BY <1>3, <1>4, <1>6, <1>7, <1>9 DEF NegInf, x, h

\* Whatever word has the tag, together with the payload it has the token.
LEMMA IndexRead ==
  ASSUME Input, NEW t \in Tokens(len), NEW payload, LowIndex(payload) = t % IndexSize, NEW bits,
         Long => LowBits(bits) = t \div IndexSize
  PROVE  LongIndex(payload, bits) = t
<1>1. /\ t \in Nat /\ t % IndexSize \in 0 .. IndexSize - 1 /\ t \div IndexSize \in 0 .. HighSize - 1
      /\ t = IndexSize * (t \div IndexSize) + (t % IndexSize)
      /\ len <= IndexSize => t \div IndexSize = 0 /\ t % IndexSize = t
  BY IndexParts DEF Input
<1>2. ~Long => len <= IndexSize
  BY RowIs, Sizes DEF Long, IndexMask
<1>3. \A a \in Nat, l \in Nat : IndexSize * a + l = l + a * IndexSize
  BY Sizes
<1>4. CASE Long
  <2>1. t \div IndexSize \in Nat /\ t % IndexSize \in Nat
    BY <1>1, Sizes
  <2>2. t = (t % IndexSize) + (t \div IndexSize) * IndexSize
    BY <1>1, <1>3, <2>1
  <2> QED
    BY <1>4, <2>2 DEF LongIndex
<1>5. CASE ~Long
  BY <1>1, <1>2, <1>5 DEF LongIndex
<1> QED
  BY <1>4, <1>5

\* The payload of the top K has the slot or the invalid one.
LEMMA PayloadIs ==
  ASSUME Input, NEW t \in Tokens(len)
  PROVE  /\ Field(Payload(t)) = IF row[t] >= 0 THEN row[t] ELSE InvalidField
         /\ Field(Payload(t)) \in 0 .. FieldSize - 1
         /\ Field(Payload(t)) = InvalidField <=> SlotOf(t) = None
         /\ DecodeSlot(Payload(t)) = SlotOf(t)
         /\ LowIndex(Payload(t)) = t % IndexSize
         /\ len < K => Payload(t) # AllOnes
<1> DEFINE f == IF row[t] >= 0 THEN row[t] ELSE InvalidField
<1>1. /\ row[t] \in Int /\ Cardinality(CachedIn(row)) \in Nat
      /\ Cardinality(CachedIn(row)) <= InvalidField
      /\ row[t] >= 0 => row[t] < Cardinality(CachedIn(row)) /\ row[t] % FieldSize = row[t]
  BY RowIs
<1>2. (-1) % FieldSize = FieldSize - 1
  BY Sizes
<1>3. Max({row[t], None}) = IF row[t] >= 0 THEN row[t] ELSE None
  BY <1>1 DEF Max, None
<1>4. Max({row[t], None}) % FieldSize = f
  BY <1>1, <1>2, <1>3 DEF None, InvalidField
<1>5. f \in 0 .. FieldSize - 1 /\ (f = InvalidField <=> ~ (row[t] >= 0))
  BY <1>1, Sizes DEF InvalidField
<1> HIDE DEF f
<1>6. /\ t \in Nat /\ t % IndexSize \in 0 .. IndexSize - 1
      /\ (Base(t) % IndexSize) + (t % Chunk) = t % IndexSize
      /\ len <= IndexSize => t % IndexSize = t
  BY IndexParts DEF Input
<1>7. Payload(t) = f * IndexSize + (t % IndexSize)
  BY <1>4, <1>6 DEF Payload
<1>8. Field(Payload(t)) = f /\ LowIndex(Payload(t)) = t % IndexSize
  BY <1>5, <1>6, <1>7, Packed
<1>9. f = InvalidField <=> SlotOf(t) = None
  BY <1>1, <1>5 DEF SlotOf, None
<1>10. DecodeSlot(Payload(t)) = SlotOf(t)
  <2>1. DecodeSlot(Payload(t)) = IF f = InvalidField THEN None ELSE f
    BY <1>5, <1>8, SlotOfField
  <2> QED
    BY <1>5, <2>1 DEF SlotOf, f
<1>11. len < K => Payload(t) # AllOnes
  <2>1. len \in Nat /\ t < len
    BY <1>6, RowIs DEF Tokens
  <2>2. len < K => t % IndexSize # IndexMask
    BY <1>6, <2>1, Sizes DEF IndexMask
  <2> QED
    BY <1>8, <2>2, Ones
<1> QED
  BY <1>5, <1>8, <1>9, <1>10, <1>11 DEF f

\* The payload of a candidate has the field of the binding as it is.
LEMMA CandidateIs ==
  ASSUME Input, NEW t \in Tokens(len)
  PROVE  /\ Field(CandidatePayload(t)) = row[t] % FieldSize
         /\ LowIndex(CandidatePayload(t)) = t % IndexSize
<1>1. row[t] % FieldSize \in 0 .. FieldSize - 1
  BY RowIs
<1>2. t % IndexSize \in 0 .. IndexSize - 1 /\ (Base(t) % IndexSize) + (t % Chunk) = t % IndexSize
  BY IndexParts DEF Input
<1> QED
  BY <1>1, <1>2, Packed DEF CandidatePayload

\* A token is read back from its pair; so no two tokens have the same.
LEMMA PairRead ==
  ASSUME Input, NEW t \in Tokens(len)
  PROVE  LongIndex(Payload(t), SortScore(t)) = t /\ LongIndex(Payload(t), -SortScore(t)) = t
<1>1. LowIndex(Payload(t)) = t % IndexSize
  BY PayloadIs
<1>2. Long => LowBits(SortScore(t)) = t \div IndexSize /\ LowBits(-SortScore(t)) = t \div IndexSize
  BY ScoreWord
<1> QED
  BY <1>1, <1>2, IndexRead

\* No two tokens have the same pair.
LEMMA PairDistinct ==
  ASSUME Input, NEW t \in Tokens(len), NEW u \in Tokens(len), Pair(t) = Pair(u)
  PROVE  t = u
<1>1. SortScore(t) = SortScore(u) /\ Payload(t) = Payload(u)
  BY DEF Pair
<1> QED
  BY <1>1, PairRead, Zenon
-----------------------------------------------------------------------------
(* The keys of the list.                                                   *)

Miss(t) == SlotOf(t) = None

\* The high bits of an index travel in a key, complemented and under the flag.
LEMMA KeyBits ==
  ASSUME NEW a \in 0 .. HighSize - 1, NEW l \in 0 .. IndexSize - 1, NEW flag \in {0, 1}
  PROVE  ((flag * (IndexSize * HighSize) + (IndexSize * HighSize - 1) - (IndexSize * a + l))
            \div IndexSize) % HighSize = HighSize - 1 - a
<1> DEFINE b == HighSize - 1 - a
           e == IndexSize - 1 - l
           z == IndexSize * HighSize
           w == IndexSize * a
           v == IndexSize * b
<1>1. a \in Nat /\ b \in Nat /\ b < HighSize /\ HighSize = (a + b) + 1 /\ e \in Nat /\ e < IndexSize
      /\ l \in Nat /\ l = IndexSize - 1 - e
  BY Sizes
<1> HIDE DEF b, e
<1>2. z = w + v + IndexSize
  BY <1>1, Sizes
<1>3. IndexSize * (HighSize + b) = z + v
  BY <1>1, Sizes
<1>4. z \in Nat /\ w \in Nat /\ v \in Nat
  BY <1>1, Sizes
<1>5. CASE flag = 0
  <2>1. flag * z + (z - 1) - (w + l) = v + e
    <3> HIDE DEF z, w, v
    <3> QED
      BY <1>1, <1>2, <1>4, <1>5, Sizes
  <2>2. (v + e) \div IndexSize = b
    BY <1>1, Sizes, Quotient
  <2>3. b % HighSize = b
    BY <1>1, Sizes
  <2> QED
    BY <2>1, <2>2, <2>3 DEF b
<1>6. CASE flag = 1
  <2>1. flag * z + (z - 1) - (w + l) = IndexSize * (HighSize + b) + e
    <3> HIDE DEF z, w, v
    <3> QED
      BY <1>1, <1>2, <1>3, <1>4, <1>6, Sizes
  <2>2. HighSize + b \in Nat
    BY <1>1, Sizes
  <2>3. (IndexSize * (HighSize + b) + e) \div IndexSize = HighSize + b
    BY <1>1, <2>2, Sizes, Quotient
  <2>4. (HighSize + b) % HighSize = b
    BY <1>1, Sizes
  <2> QED
    BY <2>1, <2>3, <2>4 DEF b
<1> QED
  BY <1>5, <1>6

\* With speculative tokens a key is an index from the other end, above all
\* hits if it is a miss.
LEMMA SlotIndexKeyIs ==
  ASSUME Input, NEW t \in Tokens(len)
  PROVE  SlotIndexKey(Pair(t)) =
           (IF Miss(t) THEN 1 ELSE 0) * (IndexSize * HighSize)
             + (IF Long THEN IndexSize * HighSize - 1 ELSE IndexSize - 1) - t
<1> DEFINE p == Pair(t)
           z == IndexSize * HighSize
<1>1. p.payload = Payload(t) /\ p.key = SortScore(t)
  BY DEF Pair
<1>2. (Field(p.payload) + 1) \div FieldSize = IF Miss(t) THEN 1 ELSE 0
  BY <1>1, PayloadIs, SlotOfField DEF Miss
<1>3. LongIndex(p.payload, p.key) = t
  BY <1>1, PairRead
<1>4. z \in Nat
  BY Sizes
<1>5. LongMask + 1 = z /\ LongMask = z - 1 /\ IndexMask = IndexSize - 1
  <2> HIDE DEF z
  <2>1. LongMask = z - 1
    BY DEF LongMask, z
  <2> QED
    BY <1>4, <2>1 DEF IndexMask
<1> HIDE DEF p
<1> QED
  BY <1>2, <1>3, <1>5 DEF SlotIndexKey, p

\* The other operator's keys tell misses from hits and keep the tag.
LEMMA HitMissKeyIs ==
  ASSUME Input, NEW t \in Tokens(len)
  PROVE  /\ ~Long => /\ HitMissKey(Pair(t)) \in 0 .. InvalidField
                     /\ HitMissKey(Pair(t)) = InvalidField <=> Miss(t)
         /\ Long => /\ HitMissKey(Pair(t)) = (IF Miss(t) THEN 2 * HighSize ELSE HighSize) + (t \div IndexSize)
                    /\ LowBits(HitMissKey(Pair(t))) = t \div IndexSize
<1>1. Pair(t).payload = Payload(t) /\ Pair(t).key = SortScore(t)
  BY DEF Pair
<1>2. Field(Payload(t)) \in 0 .. FieldSize - 1 /\ (Field(Payload(t)) = InvalidField <=> Miss(t))
  BY PayloadIs DEF Miss
<1>3. ASSUME ~Long
      PROVE  /\ HitMissKey(Pair(t)) \in 0 .. InvalidField
             /\ HitMissKey(Pair(t)) = InvalidField <=> Miss(t)
  BY <1>1, <1>2, <1>3 DEF HitMissKey, InvalidField
<1>4. ASSUME Long
      PROVE  /\ HitMissKey(Pair(t)) = (IF Miss(t) THEN 2 * HighSize ELSE HighSize) + (t \div IndexSize)
             /\ LowBits(HitMissKey(Pair(t))) = t \div IndexSize
  <2>1. LowBits(SortScore(t)) = t \div IndexSize
    BY <1>4, ScoreWord
  <2>2. HitMissKey(Pair(t)) = (IF Miss(t) THEN 2 * HighSize ELSE HighSize) + (t \div IndexSize)
    BY <1>1, <1>2, <1>4, <2>1 DEF HitMissKey
  <2>3. t \div IndexSize \in 0 .. HighSize - 1
    BY IndexParts DEF Input
  <2>4. \A h \in 0 .. HighSize - 1 :
          /\ Abs(2 * HighSize + h) = 2 * HighSize + h /\ Abs(HighSize + h) = HighSize + h
          /\ (2 * HighSize + h) % HighSize = h /\ (HighSize + h) % HighSize = h
    <3>1. \A x \in Nat : Abs(x) = x
      BY DEF Abs
    <3>2. ASSUME NEW h \in 0 .. HighSize - 1
          PROVE  (HighSize * 2 + h) % HighSize = h /\ (HighSize * 1 + h) % HighSize = h
      BY Sizes, Quotient
    <3> QED
      BY <3>1, <3>2, Sizes
  <2> QED
    BY <2>2, <2>3, <2>4 DEF LowBits
<1> QED
  BY <1>3, <1>4

\* Every token of the list is read back from its key and payload.
LEMMA ListedRead ==
  ASSUME Input, NEW t \in Tokens(len)
  PROVE  /\ DecodeIndex(Rekey(Pair(t))) = t
         /\ DecodeSlot(Rekey(Pair(t)).payload) = SlotOf(t)
<1> DEFINE p == Rekey(Pair(t))
           a == t \div IndexSize
           l == t % IndexSize
<1>1. /\ p.payload = Payload(t)
      /\ p.key = IF mtp THEN SlotIndexKey(Pair(t)) ELSE HitMissKey(Pair(t))
  BY DEF Pair, Rekey
<1>2. ~ FixInvalid(p)
  BY <1>1, PayloadIs DEF FixInvalid
<1>3. LowIndex(p.payload) = l /\ DecodeSlot(p.payload) = SlotOf(t)
  BY <1>1, PayloadIs
<1>4. l \in 0 .. IndexSize - 1 /\ a \in 0 .. HighSize - 1 /\ t = IndexSize * a + l /\ t \in Nat
  BY IndexParts DEF Input
<1> HIDE DEF p, a, l
<1>5. CASE mtp /\ Long
  <2>1. PICK flag \in {0, 1} : p.key = flag * (IndexSize * HighSize) + (IndexSize * HighSize - 1) - (IndexSize * a + l)
    BY <1>1, <1>4, <1>5, SlotIndexKeyIs
  <2>2. (p.key \div IndexSize) % HighSize = HighSize - 1 - a
    BY <1>4, <2>1, KeyBits
  <2>3. HighSize - 1 - (HighSize - 1 - a) = a
    BY <1>4, Sizes
  <2>4. DecodeIndex(p) = l + a * IndexSize
    BY <1>2, <1>3, <1>5, <2>2, <2>3 DEF DecodeIndex
  <2>5. a * IndexSize = IndexSize * a /\ IndexSize * a \in Nat
    BY <1>4, Sizes
  <2>6. \A x, y \in Nat : x + y = y + x
    OBVIOUS
  <2> QED
    BY <1>3, <1>4, <2>4, <2>5, <2>6 DEF p
<1>6. CASE ~ (mtp /\ Long)
  <2>1. DecodeIndex(p) = LongIndex(p.payload, p.key)
    BY <1>2, <1>6 DEF DecodeIndex
  <2>2. Long => LowBits(p.key) = a
    BY <1>1, <1>6, HitMissKeyIs DEF a, Input
  <2>3. LongIndex(p.payload, p.key) = t
    BY <1>3, <2>2, IndexRead DEF a, l
  <2> QED
    BY <1>3, <2>1, <2>3 DEF p
<1> QED
  BY <1>5, <1>6

\* All misses come before all hits.
LEMMA MissKeys ==
  ASSUME Input, NEW t \in Tokens(len), NEW u \in Tokens(len), Miss(t), ~Miss(u)
  PROVE  /\ Rekey(Pair(t)).key \in Int /\ Rekey(Pair(u)).key \in Int
         /\ Rekey(Pair(t)).key > Rekey(Pair(u)).key
<1> DEFINE z == IndexSize * HighSize
<1>1. \A x \in Tokens(len) : Rekey(Pair(x)).key = IF mtp THEN SlotIndexKey(Pair(x)) ELSE HitMissKey(Pair(x))
  BY DEF Rekey
<1>2. t \in Nat /\ u \in Nat /\ t < len /\ u < len /\ len \in Nat /\ len <= z /\ z \in Nat
  BY RowIs, Sizes DEF Tokens
<1>3. ~Long => len <= IndexSize
  BY <1>2, Sizes DEF Long, IndexMask
<1>4. IndexSize <= z
  BY Sizes
<1>5. CASE mtp
  <2>1. /\ SlotIndexKey(Pair(t)) = 1 * z + (IF Long THEN z - 1 ELSE IndexSize - 1) - t
        /\ SlotIndexKey(Pair(u)) = 0 * z + (IF Long THEN z - 1 ELSE IndexSize - 1) - u
    BY SlotIndexKeyIs
  <2> HIDE DEF z
  <2> QED
    BY <1>1, <1>2, <1>3, <1>4, <1>5, <2>1, Sizes
<1>6. CASE ~mtp /\ Long
  <2>1. \A x \in {t, u} : x \div IndexSize \in 0 .. HighSize - 1
    BY IndexParts DEF Input
  <2>2. /\ HitMissKey(Pair(t)) = 2 * HighSize + (t \div IndexSize)
        /\ HitMissKey(Pair(u)) = HighSize + (u \div IndexSize)
    BY <1>6, HitMissKeyIs
  <2>3. \A f, g \in 0 .. HighSize - 1 : 2 * HighSize + f > HighSize + g
    BY Sizes
  <2>4. \A f \in 0 .. HighSize - 1 : 2 * HighSize + f \in Int /\ HighSize + f \in Int
    BY Sizes
  <2> QED
    BY <1>1, <1>6, <2>1, <2>2, <2>3, <2>4
<1>7. CASE ~mtp /\ ~Long
  <2>1. /\ HitMissKey(Pair(t)) = InvalidField
        /\ HitMissKey(Pair(u)) \in 0 .. InvalidField /\ HitMissKey(Pair(u)) # InvalidField
    BY <1>7, HitMissKeyIs
  <2> QED
    BY <1>1, <1>7, <2>1, Sizes DEF InvalidField
<1> QED
  BY <1>5, <1>6, <1>7 DEF Input

\* Every key is a number.
LEMMA KeyType ==
  ASSUME Input, NEW t \in Tokens(len)
  PROVE  Rekey(Pair(t)).key \in Int
<1> DEFINE z == IndexSize * HighSize
<1>1. Rekey(Pair(t)).key = IF mtp THEN SlotIndexKey(Pair(t)) ELSE HitMissKey(Pair(t))
  BY DEF Rekey
<1>2. t \in Nat /\ z \in Nat
  BY RowIs, Sizes DEF Tokens
<1>3. SlotIndexKey(Pair(t)) \in Int
  <2>1. \A f \in {0, 1} : f * z \in Int
    BY <1>2
  <2>2. PICK f \in {0, 1} : SlotIndexKey(Pair(t)) = f * z + (IF Long THEN z - 1 ELSE IndexSize - 1) - t
    BY SlotIndexKeyIs
  <2>3. \A x \in Int : x + (IF Long THEN z - 1 ELSE IndexSize - 1) - t \in Int
    <3> HIDE DEF z
    <3> QED
      BY <1>2, Sizes
  <2> QED
    BY <2>1, <2>2, <2>3
<1>4. HitMissKey(Pair(t)) \in Int
  <2>1. t \div IndexSize \in 0 .. HighSize - 1
    BY IndexParts DEF Input
  <2>2. \A f \in 0 .. HighSize - 1 : 2 * HighSize + f \in Int /\ HighSize + f \in Int
    BY Sizes
  <2>3. 0 .. InvalidField \subseteq Int
    BY Sizes DEF InvalidField
  <2> QED
    BY <2>1, <2>2, <2>3, HitMissKeyIs
<1> QED
  BY <1>1, <1>3, <1>4

\* With speculative tokens the greater key has the smaller index.
LEMMA MtpKeys ==
  ASSUME Input, mtp, NEW t \in Tokens(len), NEW u \in Tokens(len), Miss(t) <=> Miss(u),
         Rekey(Pair(t)).key >= Rekey(Pair(u)).key
  PROVE  t <= u
<1> DEFINE f == (IF Miss(t) THEN 1 ELSE 0) * (IndexSize * HighSize)
           g == IF Long THEN IndexSize * HighSize - 1 ELSE IndexSize - 1
<1>1. Rekey(Pair(t)).key = f + g - t /\ Rekey(Pair(u)).key = f + g - u
  BY SlotIndexKeyIs DEF Rekey
<1>2. f \in Int /\ g \in Int /\ t \in Nat /\ u \in Nat
  BY RowIs, Sizes DEF Tokens
<1> HIDE DEF f, g
<1> QED
  BY <1>1, <1>2

\* The padding sorts as a miss and is read as neither a token nor a slot.
LEMMA PadKey ==
  ASSUME Input, len < K
  PROVE  /\ ~Long
         /\ Rekey(Pad).key \in Int
         /\ DecodeIndex(Rekey(Pad)) \notin Tokens(len) /\ DecodeIndex(Rekey(Pad)) \in Int
         /\ DecodeSlot(Rekey(Pad).payload) = None
         /\ \A t \in Tokens(len) : /\ Rekey(Pair(t)) # Rekey(Pad)
                                   /\ ~Miss(t) => Rekey(Pad).key > Rekey(Pair(t)).key
<1> DEFINE p == Rekey(Pad)
<1>1. ~Long /\ len \in Nat /\ len < IndexMask
  BY RowIs, Sizes DEF Long, IndexMask
<1>2. p.payload = AllOnes /\ p.key = IF mtp THEN SlotIndexKey(Pad) ELSE HitMissKey(Pad)
  BY DEF Rekey, Pad
<1>3. Field(AllOnes) = InvalidField /\ LowIndex(AllOnes) = IndexMask /\ InvalidField \in 0 .. FieldSize - 1
  BY Ones, Sizes DEF InvalidField
<1>4. DecodeSlot(p.payload) = None
  BY <1>2, <1>3, SlotOfField
<1>5. HitMissKey(Pad) = InvalidField
  BY <1>1, <1>3 DEF HitMissKey, Pad
<1>6. SlotIndexKey(Pad) = LongMask + 1
  <2>1. (Field(AllOnes) + 1) \div FieldSize = 1
    BY <1>3, SlotOfField
  <2>2. LongIndex(AllOnes, NegInf) = IndexMask
    BY <1>1, <1>3, Sizes DEF LongIndex, IndexMask
  <2>3. SlotIndexKey(Pad) = 1 * (LongMask + 1) + IndexMask - IndexMask
    BY <1>1, <2>1, <2>2 DEF SlotIndexKey, Pad
  <2>4. LongMask + 1 \in Int /\ IndexMask \in Int
    BY Sizes DEF LongMask, IndexMask
  <2> QED
    BY <2>3, <2>4
<1>7. IndexSize * HighSize \in Nat /\ IndexSize <= IndexSize * HighSize /\ LongMask + 1 = IndexSize * HighSize
  BY Sizes DEF LongMask
<1>8. p.key \in Int
  BY <1>2, <1>3, <1>5, <1>6, <1>7, Sizes
<1>9. DecodeIndex(p) = IF mtp THEN IndexMask ELSE None
  <2>1. LongIndex(p.payload, p.key) = IndexMask
    BY <1>1, <1>2, <1>3, Sizes DEF LongIndex, IndexMask
  <2>2. FixInvalid(p) <=> ~mtp
    BY <1>2 DEF FixInvalid
  <2> QED
    BY <1>1, <2>1, <2>2 DEF DecodeIndex
<1>10. DecodeIndex(p) \notin Tokens(len) /\ DecodeIndex(p) \in Int
  BY <1>1, <1>9, Sizes DEF Tokens, IndexMask, None
<1>11. ASSUME NEW t \in Tokens(len) PROVE Rekey(Pair(t)) # p
  <2>1. Rekey(Pair(t)).payload = Payload(t) /\ Payload(t) # AllOnes
    BY PayloadIs DEF Rekey, Pair
  <2> HIDE DEF p
  <2> QED
    BY <1>2, <2>1
<1>12. ASSUME NEW t \in Tokens(len), ~Miss(t) PROVE p.key > Rekey(Pair(t)).key
  <2>1. Rekey(Pair(t)).key = IF mtp THEN SlotIndexKey(Pair(t)) ELSE HitMissKey(Pair(t))
    BY DEF Rekey
  <2>2. CASE mtp
    <3>1. SlotIndexKey(Pair(t)) = 0 * (IndexSize * HighSize) + (IndexSize - 1) - t
      BY <1>1, <1>12, SlotIndexKeyIs
    <3>2. t \in Nat
      BY <1>1 DEF Tokens
    <3>3. \A z \in Nat : IndexSize <= z => z > 0 * z + (IndexSize - 1) - t
      BY <3>2, Sizes
    <3>4. p.key = IndexSize * HighSize
      BY <1>2, <1>6, <1>7, <2>2
    <3>5. Rekey(Pair(t)).key = 0 * (IndexSize * HighSize) + (IndexSize - 1) - t
      BY <2>1, <2>2, <3>1
    <3> QED
      BY <1>7, <3>3, <3>4, <3>5
  <2>3. CASE ~mtp
    <3>1. HitMissKey(Pair(t)) \in 0 .. InvalidField /\ HitMissKey(Pair(t)) # InvalidField
      BY <1>1, <1>12, HitMissKeyIs
    <3> QED
      BY <1>2, <1>3, <1>5, <2>1, <2>3, <3>1, Sizes
  <2> QED
    BY <2>2, <2>3 DEF Input
<1> HIDE DEF p
<1> QED
  BY <1>1, <1>4, <1>8, <1>10, <1>11, <1>12 DEF p
-----------------------------------------------------------------------------
(* The invariant.                                                          *)

Kept == {t \in Tokens(Scored) : Pair(t) \in top}

\* The scores written are those of the tokens seen so far.
ScoresInv ==
  /\ Scored \in 0 .. len /\ DOMAIN scores = Tokens(Scored)
  /\ \A t \in Tokens(Scored) : scores[t] = SortScore(t)

\* The top K is one of them.
TopInv ==
  /\ top = {Pair(t) : t \in Kept}
  /\ Cardinality(Kept) = Min({K, Scored})
  /\ \A t \in Kept, u \in Tokens(Scored) \ Kept : SortScore(t) >= SortScore(u)

\* It is what the list shows, and the threshold is its least score.
ListInv ==
  /\ list # << >> =>
       /\ Scored = len /\ Selected = Kept
       /\ IF len < K THEN threshold = NegInf
          ELSE /\ \E t \in Kept : threshold = SortScore(t)
               /\ \A t \in Kept : threshold <= SortScore(t)
  /\ done => list # << >>

\* The inductive invariant.
PackedInv == Input /\ ScoresInv /\ TopInv /\ ListInv /\ ListIsTopK /\ MissesLead /\ ColdExact

\* The least of two numbers.
LEMMA LeastOfTwo ==
  ASSUME NEW a \in Nat, NEW b \in Nat
  PROVE  Min({a, b}) = IF a <= b THEN a ELSE b
BY DEF Min

\* There are as many tokens as the length says.
LEMMA TokensCount ==
  ASSUME NEW n \in Nat
  PROVE  IsFiniteSet(Tokens(n)) /\ Cardinality(Tokens(n)) = n
BY FS_Interval DEF Tokens

\* As many pairs as tokens.
LEMMA PairCount ==
  ASSUME Input, NEW S \in SUBSET Tokens(len)
  PROVE  /\ IsFiniteSet(S) /\ IsFiniteSet({Pair(t) : t \in S})
         /\ Cardinality(S) \in Nat /\ Cardinality({Pair(t) : t \in S}) = Cardinality(S)
<1> DEFINE T == {Pair(t) : t \in S}
           f == [t \in S |-> Pair(t)]
<1>1. IsFiniteSet(S)
  <2>1. IsFiniteSet(Tokens(len))
    BY RowIs, TokensCount
  <2> QED
    BY <2>1, FS_Subset
<1>2. \A t, u \in S : Pair(t) = Pair(u) => t = u
  BY PairDistinct
<1>3. f \in Bijection(S, T)
  BY <1>2, Zenon DEF Bijection, Injection, Surjection, IsInjective
<1>4. ExistsBijection(S, T)
  BY <1>3, Zenon DEF ExistsBijection
<1> HIDE DEF f, T
<1>5. IsFiniteSet(T) /\ Cardinality(T) = Cardinality(S)
  BY <1>1, <1>4, FS_Bijection
<1> QED
  BY <1>1, <1>5, FS_CardinalityType DEF T

\* T is a top K of S by f.
Best(f, T, S) ==
  /\ T \subseteq S /\ Cardinality(T) = Min({K, Cardinality(S)})
  /\ \A t \in T, u \in S \ T : f[t] >= f[u]

\* The best of the best so far and a next chunk are the best of all.
LEMMA MergeBest ==
  ASSUME NEW s \in Nat, NEW e \in Nat, s <= e,
         NEW f, \A t \in Tokens(e) : f[t] \in Int,
         NEW A, Best(f, A, Tokens(s)), NEW B, Best(f, B, A \cup (s .. e - 1))
  PROVE  Best(f, B, Tokens(e))
<1> DEFINE C == s .. e - 1
<1>1. /\ IsFiniteSet(Tokens(s)) /\ Cardinality(Tokens(s)) = s
      /\ IsFiniteSet(C) /\ Cardinality(C) = e - s
  <2>1. IsFiniteSet(C) /\ Cardinality(C) = IF s > e - 1 THEN 0 ELSE (e - 1) - s + 1
    BY FS_Interval
  <2> HIDE DEF C
  <2> QED
    BY <2>1, TokensCount
<1>2. Tokens(s) \cap C = {} /\ Tokens(e) = Tokens(s) \cup C
  BY DEF Tokens
<1> HIDE DEF C
<1>3. /\ A \subseteq Tokens(s) /\ Cardinality(A) = Min({K, s})
      /\ \A t \in A, u \in Tokens(s) \ A : f[t] >= f[u]
      /\ B \subseteq A \cup C /\ Cardinality(B) = Min({K, Cardinality(A \cup C)})
      /\ \A t \in B, u \in (A \cup C) \ B : f[t] >= f[u]
  BY <1>1 DEF Best, C
<1>4. IsFiniteSet(A) /\ Cardinality(A) \in Nat /\ (Cardinality(A) = s => A = Tokens(s))
  BY <1>1, <1>3, FS_Subset, FS_CardinalityType
<1>5. IsFiniteSet(A \cup C) /\ Cardinality(A \cup C) = Cardinality(A) + (e - s)
  <2>1. A \cap C = {}
    BY <1>2, <1>3
  <2> QED
    BY <1>1, <1>4, <2>1, FS_Union, FS_EmptySet
<1>6. IsFiniteSet(B) /\ Cardinality(B) \in Nat
  BY <1>5, <1>3, FS_Subset, FS_CardinalityType
<1>7. /\ Cardinality(A) = IF K <= s THEN K ELSE s
      /\ Cardinality(B) = IF K <= Cardinality(A) + (e - s) THEN K ELSE Cardinality(A) + (e - s)
  <2>1. Cardinality(A) + (e - s) \in Nat
    BY <1>4
  <2>2. Cardinality(B) = Min({K, Cardinality(A) + (e - s)})
    BY <1>5, <1>3
  <2>3. \A n \in Nat : Min({K, n}) = IF K <= n THEN K ELSE n
    BY LeastOfTwo, Sizes
  <2> QED
    BY <1>3, <2>1, <2>2, <2>3
<1>8. Cardinality(B) = Min({K, e})
  BY <1>7, LeastOfTwo, Sizes
<1>9. ASSUME NEW t \in B, NEW u \in Tokens(e) \ B PROVE f[t] >= f[u]
  <2>1. f[t] \in Int /\ f[u] \in Int
    BY <1>2, <1>3
  <2>2. CASE u \in A \cup C
    BY <1>3, <2>2
  <2>3. CASE u \notin A \cup C
    <3>1. u \in Tokens(s) \ A
      BY <1>2, <2>3
    <3>2. Cardinality(A) = K /\ Cardinality(B) = K
      BY <1>4, <1>7, <3>1, Sizes
    <3>3. CASE t \in A
      BY <1>3, <3>1, <3>3
    <3>4. CASE t \notin A
      <4>1. PICK w \in A : w \notin B
        <5>1. SUFFICES ASSUME A \subseteq B PROVE FALSE
          OBVIOUS
        <5>2. A = B
          BY <1>6, <3>2, <5>1, FS_Subset
        <5> QED
          BY <3>4, <5>2
      <4>2. f[t] >= f[w] /\ f[w] >= f[u]
        BY <1>3, <3>1, <3>4, <4>1
      <4>3. f[w] \in Int
        BY <1>2, <1>3, <4>1
      <4> QED
        BY <2>1, <4>2, <4>3
    <3> QED
      BY <3>3, <3>4
  <2> QED
    BY <2>2, <2>3
<1>10. B \subseteq Tokens(e) /\ Cardinality(Tokens(e)) = e
  BY <1>2, <1>3, TokensCount
<1> QED
  BY <1>1, <1>8, <1>9, <1>10 DEF Best

-----------------------------------------------------------------------------
(* A chunk.                                                                *)

\* What a pair is does not change.
LEMMA PairStays ==
  ASSUME Input, UNCHANGED input
  PROVE  /\ Input' /\ len' = len /\ row' = row /\ mtp' = mtp /\ product' = product
         /\ \A t : SortScore(t)' = SortScore(t) /\ Payload(t)' = Payload(t) /\ Pair(t)' = Pair(t)
<1>1. len' = len /\ row' = row /\ mtp' = mtp /\ product' = product
  BY DEF input
<1>2. Input'
  BY <1>1 DEF Input
<1>3. ASSUME NEW t PROVE SortScore(t)' = SortScore(t)
  BY <1>1 DEF SortScore, Long
<1>4. ASSUME NEW t PROVE Payload(t)' = Payload(t)
  BY <1>1 DEF Payload
<1>5. ASSUME NEW t PROVE Pair(t)' = Pair(t)
  BY <1>3, <1>4 DEF Pair
<1> QED
  BY <1>1, <1>2, <1>3, <1>4, <1>5

\* A chunk writes the scores of its tokens and keeps those before.
LEMMA ChunkScores ==
  ASSUME Input, ScoresInv, ScoreChunk
  PROVE  /\ NextChunk = Scored .. Scored' - 1 /\ Scored' \in Nat /\ Scored < Scored' /\ Scored' <= len
         /\ ScoresInv'
<1> DEFINE e == Min({Scored + Chunk, len})
<1>1. len \in Nat /\ Scored \in Nat /\ Scored < len
  BY RowIs DEF ScoresInv, ScoreChunk
<1>2. e \in Nat /\ Scored < e /\ e <= len
  BY <1>1, LeastOfTwo, Sizes
<1>3. NextChunk = Scored .. e - 1
  BY DEF NextChunk
<1>4. Cardinality(NextChunk) = e - Scored
  BY <1>1, <1>2, <1>3, FS_Interval
<1> HIDE DEF e
<1>5. Scored + Cardinality(NextChunk) = e
  BY <1>1, <1>2, <1>4
<1>6. scores' = [t \in Tokens(e) |-> IF t \in NextChunk THEN [u \in NextChunk |-> SortScore(u)][t] ELSE scores[t]]
  BY <1>5 DEF ScoreChunk
<1>7. Scored' = e
  <2>1. DOMAIN scores' = Tokens(e)
    BY <1>6
  <2> QED
    BY <1>2, <2>1, TokensCount DEF Scored
<1>8. ASSUME NEW t \in Tokens(e) PROVE scores'[t] = SortScore(t)'
  <2>1. SortScore(t)' = SortScore(t)
    BY PairStays DEF ScoreChunk
  <2>2. CASE t \in NextChunk
    BY <1>6, <2>1, <2>2
  <2>3. CASE t \notin NextChunk
    <3>1. t \in Tokens(Scored)
      BY <1>1, <1>2, <1>3, <2>3 DEF Tokens
    <3> QED
      BY <1>6, <2>1, <2>3, <3>1 DEF ScoresInv
  <2> QED
    BY <2>2, <2>3
<1>9. len' = len
  BY DEF ScoreChunk, input
<1>10. ScoresInv'
  <2>1. DOMAIN scores' = Tokens(e)
    BY <1>6
  <2> QED
    BY <1>2, <1>7, <1>8, <1>9, <2>1 DEF ScoresInv
<1> QED
  BY <1>2, <1>3, <1>7, <1>10

\* Merging a chunk leaves a top K of all tokens seen.
LEMMA ChunkTop ==
  ASSUME Input, ScoresInv, TopInv, ScoreChunk
  PROVE  TopInv'
<1> DEFINE s == Scored
           e == Scored'
           C == s .. e - 1
           B == {t \in Tokens(e) : Pair(t) \in top'}
           f == [t \in Tokens(e) |-> SortScore(t)]
           Pool == {Pair(t) : t \in Kept \cup C}
<1>1. NextChunk = C /\ s \in Nat /\ e \in Nat /\ s < e /\ e <= len /\ len \in Nat
  BY ChunkScores, RowIs DEF ScoresInv
<1>2. Tokens(s) \subseteq Tokens(e) /\ C \subseteq Tokens(e) /\ Tokens(e) \subseteq Tokens(len)
  <2> HIDE DEF s, e
  <2> QED
    BY <1>1 DEF Tokens
<1>3. Kept \subseteq Tokens(s)
  BY DEF Kept
<1>4. top' \in KeepBest(Pool)
  <2>1. top \cup {[key |-> [u \in NextChunk |-> SortScore(u)][t], payload |-> Payload(t)] : t \in NextChunk} = Pool
    BY <1>1 DEF TopInv, Pair
  <2> QED
    BY <2>1 DEF ScoreChunk
<1> HIDE DEF s, e, C, B, Pool, f
<1>5. /\ top' \subseteq Pool /\ Cardinality(top') = Min({K, Cardinality(Pool)})
      /\ \A p \in top', q \in Pool \ top' : p.key >= q.key
  BY <1>4, Zenon DEF KeepBest, kSubset
<1>6. Kept \cup C \subseteq Tokens(e)
  BY <1>2, <1>3
<1>7. B \subseteq Kept \cup C
  <2>1. ASSUME NEW t \in B PROVE t \in Kept \cup C
    <3>1. t \in Tokens(len) /\ Pair(t) \in Pool
      BY <1>2, <1>5 DEF B
    <3>2. PICK u \in Kept \cup C : Pair(t) = Pair(u)
      BY <3>1 DEF Pool
    <3>3. u \in Tokens(len)
      BY <1>2, <1>6
    <3> QED
      BY <3>1, <3>2, <3>3, PairDistinct
  <2> QED
    BY <2>1
<1>8. top' = {Pair(t) : t \in B}
  <2>1. ASSUME NEW p \in top' PROVE \E t \in B : p = Pair(t)
    <3>1. PICK t \in Kept \cup C : p = Pair(t)
      BY <1>5 DEF Pool
    <3> QED
      BY <1>6, <3>1 DEF B
  <2> QED
    BY <2>1 DEF B
<1>9. Cardinality(B) = Cardinality(top') /\ Cardinality(Pool) = Cardinality(Kept \cup C)
  <2>1. B \in SUBSET Tokens(len) /\ Kept \cup C \in SUBSET Tokens(len)
    BY <1>2, <1>6, <1>7
  <2> QED
    BY <1>8, <2>1, PairCount DEF Pool
<1>10. \A t \in Tokens(e) : f[t] = SortScore(t) /\ f[t] \in Int
  BY <1>2, ScoreWord DEF f
<1>11. \A t \in Kept, u \in Tokens(s) \ Kept : f[t] >= f[u]
  BY <1>2, <1>3, <1>10 DEF TopInv, s
<1>12. ASSUME NEW t \in B, NEW u \in (Kept \cup C) \ B PROVE f[t] >= f[u]
  <2>1. Pair(t) \in top' /\ t \in Tokens(e) /\ u \in Tokens(e) /\ Pair(u) \notin top' /\ Pair(u) \in Pool
    BY <1>6 DEF B, Pool
  <2>2. Pair(t).key >= Pair(u).key
    BY <1>5, <2>1
  <2> QED
    BY <1>10, <2>1, <2>2 DEF Pair
<1>13. /\ Cardinality(B) = Min({K, e})
       /\ \A t \in B, u \in Tokens(e) \ B : f[t] >= f[u]
  <2>1. Best(f, Kept, Tokens(s))
    BY <1>1, <1>3, <1>11, TokensCount DEF Best, TopInv, s
  <2>2. Best(f, B, Kept \cup C)
    BY <1>5, <1>7, <1>9, <1>12 DEF Best
  <2>3. Best(f, B, Tokens(e))
    BY <1>1, <1>10, <2>1, <2>2, MergeBest DEF C
  <2> QED
    BY <1>1, <2>3, TokensCount DEF Best
<1>14. \A t : SortScore(t)' = SortScore(t) /\ Pair(t)' = Pair(t)
  BY PairStays DEF ScoreChunk
<1>15. Kept' = B
  BY <1>14 DEF Kept, B, e
<1>16. ASSUME NEW t \in Kept', NEW u \in Tokens(Scored') \ Kept' PROVE SortScore(t)' >= SortScore(u)'
  BY <1>10, <1>13, <1>14, <1>15 DEF e, B
<1> QED
  BY <1>8, <1>13, <1>14, <1>15, <1>16 DEF TopInv, e
-----------------------------------------------------------------------------
(* The list.                                                               *)

\* What goes down from each to the next goes down from each to all later ones.
LEMMA Descending ==
  ASSUME NEW n \in Nat, NEW f, \A i \in 1 .. n : f[i] \in Int,
         \A i \in 1 .. n - 1 : f[i] >= f[i + 1]
  PROVE  \A i, j \in 1 .. n : i <= j => f[i] >= f[j]
<1> DEFINE S == {d \in 0 .. n : \A i \in 1 .. n : i + d <= n => f[i] >= f[i + d]}
<1>1. 0 \in S
  OBVIOUS
<1>2. ASSUME NEW d \in 0 .. n - 1, d \in S PROVE d + 1 \in S
  <2>1. ASSUME NEW i \in 1 .. n, i + (d + 1) <= n PROVE f[i] >= f[i + (d + 1)]
    <3>1. i + d \in 1 .. n - 1 /\ i + d \in 1 .. n /\ (i + d) + 1 = i + (d + 1) /\ i + (d + 1) \in 1 .. n
      BY <2>1
    <3>2. f[i] >= f[i + d] /\ f[i + d] >= f[i + (d + 1)]
      BY <1>2, <3>1
    <3>3. f[i] \in Int /\ f[i + d] \in Int /\ f[i + (d + 1)] \in Int
      BY <3>1
    <3> QED
      BY <3>2, <3>3
  <2> QED
    BY <2>1
<1> HIDE DEF S
<1>3. \A d \in 0 .. n : d \in S
  BY <1>1, <1>2, UpTo, Zenon
<1>4. ASSUME NEW i \in 1 .. n, NEW j \in 1 .. n, i <= j PROVE f[i] >= f[j]
  <2>1. PICK d \in 0 .. n : i + d = j
    <3>1. j - i \in 0 .. n /\ i + (j - i) = j
      BY <1>4
    <3> QED
      BY <3>1
  <2>2. \A k \in 1 .. n : k + d <= n => f[k] >= f[k + d]
    BY <1>3 DEF S
  <2> QED
    BY <2>1, <2>2
<1> QED
  BY <1>4

\* A set of places that has with each all earlier ones is the prefix of its length.
LEMMA Prefix ==
  ASSUME NEW n \in Nat, NEW M \in SUBSET (1 .. n), \A i \in M, j \in 1 .. n : j <= i => j \in M
  PROVE  \A i \in 1 .. n : i \in M <=> i <= Cardinality(M)
<1>1. CASE M = 1 .. n
  <2>1. Cardinality(1 .. n) = IF 1 > n THEN 0 ELSE n - 1 + 1
    BY FS_Interval
  <2> QED
    BY <1>1, <2>1
<1>2. CASE M # 1 .. n
  <2>1. PICK x \in (1 .. n) \ M : \A y \in (1 .. n) \ M : x <= y
    <3>1. (1 .. n) \ M # {}
      BY <1>2, Zenon
    <3>2. (1 .. n) \ M \in SUBSET Nat
      <4>1. \A i \in 1 .. n : i \in Nat
        OBVIOUS
      <4> QED
        BY <4>1, Zenon
    <3> QED
      BY <3>1, <3>2, LeastNat
  <2>2. M = 1 .. x - 1
    <3>1. x \in 1 .. n /\ x \notin M
      BY <2>1
    <3>2. \A i \in 1 .. n : i \in M <=> i < x
      BY <2>1, <3>1
    <3>3. \A i : i \in M => i \in 1 .. n
      OBVIOUS
    <3>4. \A i : i \in 1 .. x - 1 <=> i \in 1 .. n /\ i < x
      BY <3>1
    <3>5. \A i : i \in M <=> i \in 1 .. x - 1
      BY <3>2, <3>3, <3>4, Zenon
    <3> QED
      BY <3>5, Zenon
  <2>3. Cardinality(M) = x - 1
    BY <2>2, FS_Interval
  <2> QED
    BY <2>2, <2>3
<1> QED
  BY <1>1, <1>2

\* Scores with tags order tokens as their sums without the bits of the tag do.
LEMMA SeenOrder ==
  ASSUME Input, NEW t \in Tokens(len), NEW u \in Tokens(len), SortScore(t) >= SortScore(u)
  PROVE  Seen(t) >= Seen(u)
<1>1. \A x \in Tokens(len) :
        /\ TrueScore(x) \in Int /\ x \div IndexSize \in 0 .. HighSize - 1
        /\ SortScore(x) = IF Long THEN TagScore(TrueScore(x), x \div IndexSize) ELSE TrueScore(x)
  BY ScoreWord, IndexParts DEF Input
<1>2. CASE Long
  <2>1. TagScore(TrueScore(t), t \div IndexSize) >= TagScore(TrueScore(u), u \div IndexSize)
    BY <1>1, <1>2
  <2>2. Cleared(TrueScore(t)) >= Cleared(TrueScore(u))
    BY <1>1, <2>1, TagOrder
  <2> QED
    BY <1>2, <2>2 DEF Seen
<1>3. CASE ~Long
  BY <1>1, <1>3 DEF Seen
<1> QED
  BY <1>2, <1>3

\* The threshold is the least score of the top K.
LEMMA ThresholdIs ==
  ASSUME Input, TopInv, Scored = len, ~ (len < K)
  PROVE  /\ \E t \in Kept : Min({p.key : p \in top}) = SortScore(t)
         /\ \A t \in Kept : Min({p.key : p \in top}) <= SortScore(t)
<1> DEFINE c == Infinity + HighSize
           S == {SortScore(t) + c : t \in Kept}
<1>1. c \in Nat /\ \A t \in Kept : SortScore(t) \in Int /\ SortScore(t) > -c
  BY ScoreWord, Sizes DEF Kept
<1>2. S \in SUBSET Nat
  <2> HIDE DEF c
  <2> QED
    BY <1>1
<1>3. Kept # {}
  <2>1. Cardinality(Kept) = K
    BY RowIs, LeastOfTwo, Sizes DEF TopInv
  <2> QED
    BY <2>1, Sizes, FS_EmptySet
<1>4. PICK x \in S : \A y \in S : x <= y
  <2>1. S # {}
    BY <1>3
  <2> HIDE DEF S
  <2> QED
    BY <1>2, <2>1, LeastNat
<1>5. PICK w \in Kept : x = SortScore(w) + c
  OBVIOUS
<1>6. \A t \in Kept : SortScore(w) <= SortScore(t)
  <2>1. \A t \in Kept : SortScore(w) + c <= SortScore(t) + c
    BY <1>4, <1>5
  <2> HIDE DEF c
  <2> QED
    BY <1>1, <2>1
<1>7. {p.key : p \in top} = {SortScore(t) : t \in Kept}
  <2>1. top = {Pair(t) : t \in Kept}
    BY DEF TopInv
  <2>2. \A t \in Kept : Pair(t).key = SortScore(t)
    BY DEF Pair
  <2> QED
    BY <2>1, <2>2, Zenon
<1>8. SortScore(w) \in {SortScore(t) : t \in Kept} /\ \A y \in {SortScore(t) : t \in Kept} : SortScore(w) <= y
  BY <1>6
<1>9. /\ Min({SortScore(t) : t \in Kept}) \in {SortScore(t) : t \in Kept}
      /\ \A y \in {SortScore(t) : t \in Kept} : Min({SortScore(t) : t \in Kept}) <= y
  BY <1>8, Zenon DEF Min
<1> QED
  BY <1>7, <1>9

\* The sorted pairs are those of the top K, each once, and padding.
LEMMA SortedList ==
  ASSUME Input, TopInv, Scored = len, NEW sorted \in SortedByKey({Rekey(p) : p \in top})
  PROVE  LET at == {i \in 1 .. K : DecodeIndex(sorted[i]) \in Tokens(len)}
         IN  /\ \A i \in at : /\ DecodeIndex(sorted[i]) \in Kept
                              /\ sorted[i] = Rekey(Pair(DecodeIndex(sorted[i])))
                              /\ DecodeSlot(sorted[i].payload) = SlotOf(DecodeIndex(sorted[i]))
             /\ \A i \in (1 .. K) \ at : /\ len < K /\ sorted[i] = Rekey(Pad)
                                         /\ DecodeSlot(sorted[i].payload) = None
             /\ \A t \in Kept : \E i \in at : DecodeIndex(sorted[i]) = t
             /\ \A i, j \in at : DecodeIndex(sorted[i]) = DecodeIndex(sorted[j]) => i = j
             /\ Cardinality(at) = Cardinality(Kept)
             /\ \A i, j \in 1 .. K : i <= j => sorted[i].key >= sorted[j].key
             /\ \A i \in 1 .. K : sorted[i].key \in Int
<1> DEFINE S == {Rekey(p) : p \in top}
           I == {i \in 1 .. K : sorted[i] \in S}
           Dec(i) == DecodeIndex(sorted[i])
           at == {i \in 1 .. K : Dec(i) \in Tokens(len)}
<1>1. /\ \A i \in 1 .. K : sorted[i] \in S \cup {Rekey(Pad)}
      /\ \A p \in S : \E i \in 1 .. K : sorted[i] = p
      /\ Cardinality(I) = Cardinality(S)
      /\ \A i \in 1 .. K - 1 : sorted[i].key >= sorted[i + 1].key
  BY DEF SortedByKey
<1>2. S = {Rekey(Pair(t)) : t \in Kept}
  BY DEF TopInv
<1>3. Kept \subseteq Tokens(len)
  BY DEF Kept
<1> HIDE DEF S
<1>4. \A t \in Kept : /\ DecodeIndex(Rekey(Pair(t))) = t
                      /\ DecodeSlot(Rekey(Pair(t)).payload) = SlotOf(t)
                      /\ Rekey(Pair(t)).key \in Int
  BY <1>3, ListedRead, KeyType
<1>5. IsFiniteSet(Kept) /\ Cardinality(Kept) \in Nat /\ Cardinality(S) = Cardinality(Kept)
  <2> DEFINE f == [t \in Kept |-> Rekey(Pair(t))]
  <2>1. IsFiniteSet(Kept) /\ Cardinality(Kept) \in Nat
    BY <1>3, PairCount
  <2>2. \A t, u \in Kept : Rekey(Pair(t)) = Rekey(Pair(u)) => t = u
    BY <1>4, Zenon
  <2>3. f \in Bijection(Kept, S)
    BY <1>2, <2>2, Zenon DEF Bijection, Injection, Surjection, IsInjective
  <2>4. ExistsBijection(Kept, S)
    BY <2>3, Zenon DEF ExistsBijection
  <2> QED
    BY <2>1, <2>4, FS_Bijection
<1>6. \A i \in I : \E t \in Kept : sorted[i] = Rekey(Pair(t)) /\ Dec(i) = t
  BY <1>2, <1>4
<1>7. ASSUME NEW i \in (1 .. K) \ I PROVE len < K /\ sorted[i] = Rekey(Pad)
  <2>1. IsFiniteSet(1 .. K) /\ Cardinality(1 .. K) = K /\ IsFiniteSet(I) /\ Cardinality(I) <= K
    BY FS_Interval, FS_Subset, Sizes
  <2>2. Cardinality(I) # K
    BY <1>7, <2>1, FS_Subset
  <2>3. Cardinality(Kept) = IF K <= len THEN K ELSE len
    BY RowIs, LeastOfTwo, Sizes DEF TopInv
  <2>4. len < K
    BY <1>1, <1>5, <2>1, <2>2, <2>3, RowIs, Sizes
  <2> QED
    BY <1>1, <1>7, <2>4
<1>8. ASSUME NEW i \in (1 .. K) \ I
      PROVE  Dec(i) \notin Tokens(len) /\ DecodeSlot(sorted[i].payload) = None /\ sorted[i].key \in Int
  BY <1>7, PadKey
<1>9. at = I
  BY <1>3, <1>6, <1>8
<1>10. \A t \in Kept : \E i \in I : Dec(i) = t
  <2>1. ASSUME NEW t \in Kept PROVE \E i \in I : Dec(i) = t
    <3>1. Rekey(Pair(t)) \in S
      BY <1>2
    <3>2. PICK i \in 1 .. K : sorted[i] = Rekey(Pair(t))
      BY <1>1, <3>1
    <3> QED
      BY <1>4, <3>1, <3>2
  <2> QED
    BY <2>1
<1>11. \A i \in I : Dec(i) \in Kept
  BY <1>6
<1> HIDE DEF Dec
<1>12. IsFiniteSet(I)
  <2>1. IsFiniteSet(1 .. K) /\ I \subseteq 1 .. K
    BY FS_Interval, Sizes
  <2> QED
    BY <2>1, FS_Subset
<1>13. \A i, j \in I : Dec(i) = Dec(j) => i = j
  <2> HIDE DEF I
  <2> DEFINE f == [i \in I |-> Dec(i)]
  <2>1. f \in Surjection(I, Kept)
    BY <1>10, <1>11, Zenon DEF Surjection
  <2>2. Cardinality(I) = Cardinality(Kept)
    BY <1>1, <1>5
  <2> HIDE DEF f
  <2>3. f \in Injection(I, Kept)
    BY <1>12, <2>1, <2>2, FS_SurjSameCardinalityImpliesInj
  <2>4. \A i, j \in I : f[i] = f[j] => i = j
    BY <2>3, Zenon DEF Injection, IsInjective
  <2> QED
    BY <2>4 DEF f
<1>14. \A i \in 1 .. K : sorted[i].key \in Int
  BY <1>4, <1>6, <1>8
<1>15. \A i, j \in 1 .. K : i <= j => sorted[i].key >= sorted[j].key
  <2> DEFINE f == [i \in 1 .. K |-> sorted[i].key]
  <2>1. (\A i \in 1 .. K : f[i] \in Int) /\ (\A i \in 1 .. K - 1 : f[i] >= f[i + 1])
    BY <1>1, <1>14, Sizes
  <2> HIDE DEF f
  <2>2. \A i, j \in 1 .. K : i <= j => f[i] >= f[j]
    BY <2>1, Descending, Sizes
  <2> QED
    BY <2>2 DEF f
<1>16. \A i \in I : sorted[i] = Rekey(Pair(Dec(i))) /\ DecodeSlot(sorted[i].payload) = SlotOf(Dec(i))
  BY <1>4, <1>6
<1>17. Cardinality(at) = Cardinality(Kept)
  BY <1>1, <1>5, <1>9
<1> HIDE DEF I, at
<1>18. /\ \A i \in at : Dec(i) \in Kept /\ sorted[i] = Rekey(Pair(Dec(i))) /\ DecodeSlot(sorted[i].payload) = SlotOf(Dec(i))
       /\ \A i \in (1 .. K) \ at : /\ len < K /\ sorted[i] = Rekey(Pad)
                                   /\ DecodeSlot(sorted[i].payload) = None
       /\ \A t \in Kept : \E i \in at : Dec(i) = t
       /\ \A i, j \in at : Dec(i) = Dec(j) => i = j
  BY <1>7, <1>8, <1>9, <1>10, <1>11, <1>13, <1>16
<1> QED
  BY <1>14, <1>15, <1>17, <1>18 DEF at, Dec
\* What the list is checked against does not change.
LEMMA SeenStays ==
  ASSUME Input, UNCHANGED input
  PROVE  \A t : Seen(t)' = Seen(t) /\ SlotOf(t)' = SlotOf(t)
<1>1. len' = len /\ row' = row /\ product' = product
  BY DEF input
<1> QED
  BY <1>1 DEF Seen, SlotOf, TrueScore, Long

\* The published list shows the top K, in the order of its keys.
LEMMA Publish ==
  ASSUME Input, ScoresInv, TopInv, PublishList, done => list # << >>
  PROVE  ScoresInv' /\ TopInv' /\ ListInv' /\ ListIsTopK' /\ MissesLead' /\ ColdExact'
<1>1. PICK sorted \in SortedByKey({Rekey(p) : p \in top}) :
        /\ list' = [i \in 1 .. K |-> DecodeIndex(sorted[i])]
        /\ slots' = [i \in 1 .. K |-> DecodeSlot(sorted[i].payload)]
  BY DEF PublishList
<1>2. /\ Scored = len /\ list = << >> /\ UNCHANGED <<input, scores, top, cold, done>>
      /\ threshold' = IF len < K THEN NegInf ELSE Min({p.key : p \in top})
  BY DEF PublishList
<1>3. /\ len' = len /\ row' = row /\ mtp' = mtp
      /\ \A t : SortScore(t)' = SortScore(t) /\ Pair(t)' = Pair(t)
      /\ \A t : Seen(t)' = Seen(t) /\ SlotOf(t)' = SlotOf(t)
  BY <1>2, PairStays, SeenStays
<1>4. ScoresInv' /\ Scored' = Scored
  BY <1>2, <1>3 DEF ScoresInv, Scored
<1>5. Kept' = Kept /\ Kept \subseteq Tokens(len)
  BY <1>2, <1>3, <1>4 DEF Kept
<1>6. TopInv'
  BY <1>2, <1>3, <1>4, <1>5 DEF TopInv
<1> DEFINE at == {i \in 1 .. K : DecodeIndex(sorted[i]) \in Tokens(len)}
           l(i) == list'[i]
<1>7. /\ \A i \in at : /\ DecodeIndex(sorted[i]) \in Kept
                       /\ sorted[i] = Rekey(Pair(DecodeIndex(sorted[i])))
                       /\ DecodeSlot(sorted[i].payload) = SlotOf(DecodeIndex(sorted[i]))
      /\ \A i \in (1 .. K) \ at : /\ len < K /\ sorted[i] = Rekey(Pad)
                                  /\ DecodeSlot(sorted[i].payload) = None
      /\ \A t \in Kept : \E i \in at : DecodeIndex(sorted[i]) = t
      /\ \A i, j \in at : DecodeIndex(sorted[i]) = DecodeIndex(sorted[j]) => i = j
      /\ Cardinality(at) = Cardinality(Kept)
      /\ \A i, j \in 1 .. K : i <= j => sorted[i].key >= sorted[j].key
      /\ \A i \in 1 .. K : sorted[i].key \in Int
  BY <1>1, <1>2, SortedList
<1>8. DOMAIN list' = 1 .. K /\ DOMAIN slots' = 1 .. K /\ list' # << >>
  <2>1. DOMAIN list' = 1 .. K /\ DOMAIN slots' = 1 .. K
    BY <1>1
  <2>2. 1 \in DOMAIN list'
    BY <2>1, Sizes
  <2>3. DOMAIN << >> = {}
    BY SMT
  <2> QED
    BY <2>1, <2>2, <2>3
<1>9. \A i \in 1 .. K : l(i) = DecodeIndex(sorted[i]) /\ slots'[i] = DecodeSlot(sorted[i].payload)
  BY <1>1
<1>10. at = {i \in 1 .. K : l(i) \in Tokens(len)}
  BY <1>9
<1>11. at \subseteq 1 .. K
  OBVIOUS
<1> HIDE DEF at
<1>12. /\ \A i \in at : l(i) \in Kept /\ sorted[i] = Rekey(Pair(l(i))) /\ slots'[i] = SlotOf(l(i))
       /\ \A i \in (1 .. K) \ at : len < K /\ sorted[i] = Rekey(Pad) /\ slots'[i] = None
       /\ \A t \in Kept : \E i \in at : l(i) = t
       /\ \A i, j \in at : l(i) = l(j) => i = j
  BY <1>7, <1>9, <1>11
<1>13. Listed' = at
  <2>1. Listed' = {i \in DOMAIN list' : l(i) \in Tokens(len')}
    BY DEF Listed
  <2> QED
    BY <1>3, <1>8, <1>10, <2>1
<1> HIDE DEF l
<1>14. Selected' = Kept
  <2>1. Selected' = {l(i) : i \in at}
    BY <1>13 DEF Selected, l
  <2> QED
    BY <1>12, <2>1
<1>15. ListInv'
  <2>1. ~ (len < K) => /\ \E t \in Kept : threshold' = SortScore(t)
                       /\ \A t \in Kept : threshold' <= SortScore(t)
    BY <1>2, ThresholdIs
  <2>2. len < K => threshold' = NegInf
    BY <1>2
  <2> HIDE DEF NegInf
  <2>3. IF len' < K THEN threshold' = NegInf
        ELSE /\ \E t \in Kept' : threshold' = SortScore(t)'
             /\ \A t \in Kept' : threshold' <= SortScore(t)'
    BY <1>3, <1>5, <2>1, <2>2
  <2> QED
    BY <1>2, <1>3, <1>4, <1>5, <1>8, <1>14, <2>3 DEF ListInv
<1>16. ListIsTopK'
  <2>1. Cardinality(Selected') = Cardinality(Listed') /\ Cardinality(Listed') = Min({K, len'})
    BY <1>2, <1>3, <1>7, <1>13, <1>14 DEF TopInv
  <2>2. \A t \in Kept, u \in Tokens(len) \ Kept : Seen(t) >= Seen(u)
    <3>1. \A t \in Kept, u \in Tokens(len) \ Kept : SortScore(t) >= SortScore(u)
      BY <1>2 DEF TopInv
    <3> QED
      BY <1>5, <3>1, SeenOrder
  <2>3. \A t \in Selected', u \in Tokens(len') \ Selected' : Seen(t)' >= Seen(u)'
    BY <1>3, <1>14, <2>2
  <2>4. ASSUME NEW i \in DOMAIN list'
        PROVE  slots'[i] = IF i \in Listed' THEN SlotOf(list[i])' ELSE None
    <3>1. i \in 1 .. K
      BY <1>8
    <3>2. CASE i \in at
      <4>1. SlotOf(list[i])' = SlotOf(l(i))
        BY <1>3 DEF SlotOf, l
      <4> QED
        BY <1>12, <1>13, <3>2, <4>1
    <3>3. CASE i \notin at
      BY <1>12, <1>13, <3>1, <3>3
    <3> QED
      BY <3>2, <3>3
  <2>5. \A i \in DOMAIN list' : slots'[i] = IF i \in Listed' THEN SlotOf(list[i])' ELSE None
    BY <2>4
  <2> QED
    BY <2>1, <2>3, <2>5 DEF ListIsTopK
<1>17. MissesLead'
  <2> DEFINE M == {i \in 1 .. K : slots'[i] = None}
  <2>1. ASSUME NEW i \in M, NEW j \in 1 .. K, j <= i PROVE j \in M
    <3>1. SUFFICES ASSUME j \notin M PROVE FALSE
      OBVIOUS
    <3>2. j \in at /\ l(j) \in Tokens(len) /\ ~Miss(l(j)) /\ sorted[j] = Rekey(Pair(l(j)))
      BY <1>5, <1>12, <3>1 DEF Miss
    <3>3. sorted[j].key >= sorted[i].key /\ sorted[i].key \in Int /\ sorted[j].key \in Int
      BY <1>7, <2>1
    <3>4. CASE i \in at
      <4>1. l(i) \in Tokens(len) /\ Miss(l(i)) /\ sorted[i] = Rekey(Pair(l(i)))
        BY <1>5, <1>12, <3>4 DEF Miss
      <4>2. sorted[i].key > sorted[j].key
        BY <3>2, <4>1, MissKeys
      <4> QED
        BY <3>3, <4>2
    <3>5. CASE i \notin at
      <4>1. len < K /\ sorted[i] = Rekey(Pad)
        BY <1>12, <3>5
      <4>2. sorted[i].key > sorted[j].key
        BY <3>2, <4>1, PadKey
      <4> QED
        BY <3>3, <4>2
    <3> QED
      BY <3>4, <3>5
  <2>2. MissCount' = Cardinality(M)
    <3>1. ASSUME NEW i \in 1 .. K PROVE (\A j \in 1 .. i : slots'[j] = None) <=> i \in M
      <4>1. i \in 1 .. i /\ \A j \in 1 .. i : j \in 1 .. K /\ j <= i
        BY Sizes
      <4> QED
        BY <2>1, <4>1
    <3>2. {i \in 1 .. K : \A j \in 1 .. i : slots'[j] = None} = M
      <4> HIDE DEF M
      <4>1. {i \in 1 .. K : \A j \in 1 .. i : slots'[j] = None} = {i \in 1 .. K : i \in M}
        BY <3>1
      <4>2. {i \in 1 .. K : i \in M} = M
        BY DEF M
      <4> QED
        BY <4>1, <4>2
    <3> HIDE DEF M
    <3> QED
      BY <3>2 DEF MissCount
  <2>3. \A i \in 1 .. K : i \in M <=> i <= Cardinality(M)
    <3>1. M \in SUBSET (1 .. K)
      OBVIOUS
    <3> HIDE DEF M
    <3> QED
      BY <2>1, <3>1, Prefix, Sizes
  <2>4. \A i \in DOMAIN list' : slots'[i] = None <=> i <= MissCount'
    BY <1>8, <2>2, <2>3
  <2>5. ASSUME mtp, NEW i \in 1 .. K, NEW j \in 1 .. K,
               i < j, i <= MissCount' <=> j <= MissCount', l(i) \in Tokens(len), j \in at
        PROVE  l(i) < l(j)
    <3>1. i \in at /\ l(i) \in Kept /\ l(j) \in Kept
      BY <1>10, <1>12, <2>5
    <3>2. Miss(l(i)) <=> Miss(l(j))
      BY <1>8, <1>12, <2>4, <2>5, <3>1 DEF Miss
    <3>3. Rekey(Pair(l(i))).key >= Rekey(Pair(l(j))).key
      <4>1. sorted[i].key >= sorted[j].key
        BY <1>7, <2>5
      <4> QED
        BY <1>12, <2>5, <3>1, <4>1
    <3>4. l(i) <= l(j)
      BY <1>5, <2>5, <3>1, <3>2, <3>3, MtpKeys
    <3>5. l(i) # l(j)
      BY <1>12, <2>5, <3>1
    <3>6. l(i) \in Int /\ l(j) \in Int
      <4>1. \A t \in Tokens(len) : t \in Int
        BY DEF Tokens
      <4> QED
        BY <1>5, <3>1, <4>1
    <3> QED
      BY <3>4, <3>5, <3>6
  <2> HIDE DEF M
  <2>6. mtp' => \A i, j \in DOMAIN list' :
                  i < j /\ (i <= MissCount' <=> j <= MissCount') /\ list'[i] \in Tokens(len') =>
                    list'[i] < list'[j] \/ j \notin Listed'
    BY <1>3, <1>8, <1>13, <2>5 DEF l
  <2> QED
    BY <2>4, <2>6 DEF MissesLead
<1>18. ColdExact'
  BY <1>2 DEF ColdExact
<1> QED
  BY <1>4, <1>6, <1>15, <1>16, <1>17, <1>18

-----------------------------------------------------------------------------
(* The candidates.                                                         *)

\* The candidates above the stop key are read back as what they are.
LEMMA Cold ==
  ASSUME Input, ScoresInv, TopInv, ListInv, FindEvictCandidates
  PROVE  ColdExact'
<1> DEFINE n == Cardinality(CachedIn(row))
           Of(t) == [key |-> EvictKey(scores[t], CandidatePayload(t)), payload |-> CandidatePayload(t)]
           Taken(p) == AboveStop(p) /\ CandidateIndex(p) < len /\ Field(p.payload) < n
<1>1. /\ UNCHANGED <<input, scores, top, threshold, list, slots>> /\ list # << >> /\ Scored = len
      /\ Selected = Kept
      /\ cold' = {<<CandidateIndex(p), Field(p.payload)>> : p \in {q \in Candidates : Taken(q)}}
  BY DEF FindEvictCandidates, ListInv, CacheTokenCount
<1>2. len' = len /\ row' = row /\ \A t : Seen(t)' = Seen(t) /\ SlotOf(t)' = SlotOf(t)
  BY <1>1, PairStays, SeenStays
<1>3. n \in Nat /\ n <= InvalidField
  BY RowIs
<1>4. ASSUME NEW t \in Tokens(len)
      PROVE  /\ row[t] \in Int /\ SortScore(t) \in Int
             /\ row[t] >= 0 => /\ Of(t).key = -SortScore(t) /\ CandidateIndex(Of(t)) = t
                               /\ Field(Of(t).payload) = row[t] /\ row[t] < n
             /\ ~ (row[t] >= 0) => Field(Of(t).payload) >= n
  <2>1. Field(CandidatePayload(t)) = row[t] % FieldSize /\ LowIndex(CandidatePayload(t)) = t % IndexSize
    BY CandidateIs
  <2>2. /\ row[t] \in Int
        /\ row[t] >= 0 => row[t] < n /\ row[t] % FieldSize = row[t]
        /\ ~ (row[t] >= 0) => row[t] % FieldSize >= n
    BY RowIs
  <2>3. scores[t] = SortScore(t) /\ SortScore(t) \in Int
    BY <1>1, ScoreWord DEF ScoresInv
  <2>4. ASSUME row[t] >= 0
        PROVE  /\ Of(t).key = -SortScore(t) /\ CandidateIndex(Of(t)) = t
               /\ Field(Of(t).payload) = row[t]
    <3>1. Field(CandidatePayload(t)) = row[t] /\ row[t] # InvalidField
      BY <1>3, <2>1, <2>2, <2>4, Sizes DEF InvalidField
    <3>2. Of(t).key = -SortScore(t)
      BY <2>3, <3>1 DEF EvictKey
    <3>3. Long => LowBits(-SortScore(t)) = t \div IndexSize
      BY ScoreWord
    <3>4. LongIndex(CandidatePayload(t), -SortScore(t)) = t
      BY <2>1, <3>3, IndexRead
    <3>5. Of(t).payload = CandidatePayload(t)
      OBVIOUS
    <3> HIDE DEF Of
    <3> QED
      BY <3>1, <3>2, <3>4, <3>5 DEF CandidateIndex
  <2>5. Of(t).payload = CandidatePayload(t)
    OBVIOUS
  <2> HIDE DEF Of
  <2> QED
    BY <2>1, <2>2, <2>3, <2>4, <2>5
<1>5. ASSUME NEW p \in BehindEnd PROVE ~ (Field(p.payload) < n)
  <2>1. p.payload = AllOnes
    BY <1>5 DEF BehindEnd
  <2> QED
    BY <1>3, <2>1, Ones, Sizes DEF InvalidField
<1>6. Candidates = BehindEnd \cup {Of(t) : t \in Tokens(len)}
  BY DEF Candidates
<1> HIDE DEF Of
<1>7. ASSUME NEW t \in Tokens(len), AboveStop(Of(t)), row[t] >= 0 PROVE t \notin Selected
  <2>1. -SortScore(t) > -threshold /\ SortScore(t) \in Int
    BY <1>4, <1>7 DEF AboveStop
  <2>2. CASE len < K
    <3>1. threshold = -Infinity
      BY <1>1, <2>2 DEF ListInv, NegInf
    <3>2. ~Long
      BY <2>2, PadKey
    <3>3. SortScore(t) > -Infinity
      BY <3>2, ScoreWord DEF NegInf
    <3> QED
      BY <2>1, <3>1, <3>3, Sizes
  <2>3. CASE ~ (len < K)
    <3>1. (\E w \in Kept : threshold = SortScore(w)) /\ \A w \in Kept : threshold <= SortScore(w)
      BY <1>1, <2>3 DEF ListInv
    <3>2. threshold \in Int
      BY <3>1, <1>1, ScoreWord DEF Kept
    <3> QED
      BY <1>1, <2>1, <3>1, <3>2
  <2> QED
    BY <2>2, <2>3
<1>8. ASSUME NEW c \in cold' PROVE c[1] \notin Selected /\ c[2] = row[c[1]]
  <2>1. PICK p \in Candidates : Taken(p) /\ c = <<CandidateIndex(p), Field(p.payload)>>
    BY <1>1
  <2>2. PICK t \in Tokens(len) : p = Of(t)
    BY <1>5, <1>6, <2>1
  <2>3. row[t] >= 0
    <3>1. Field(Of(t).payload) < n
      BY <2>1, <2>2
    <3>2. row[t] >= 0 \/ Field(Of(t).payload) >= n
      BY <1>4
    <3>3. CASE Field(Of(t).payload) >= n
      <4>1. Field(Of(t).payload) \in Int
        BY CandidateIs, RowIs, Sizes DEF Of
      <4> QED
        BY <1>3, <3>1, <3>3, <4>1
    <3> QED
      BY <3>2, <3>3
  <2>4. c = <<t, row[t]>>
    BY <1>4, <2>1, <2>2, <2>3
  <2>5. t \notin Selected
    BY <1>7, <2>1, <2>2, <2>3
  <2> QED
    BY <2>4, <2>5
<1>9. ASSUME NEW t \in Tokens(len), row[t] >= 0, len >= K, \A u \in Selected : Seen(t) < Seen(u)
      PROVE  <<t, row[t]>> \in cold'
  <2>1. len \in Nat /\ ~ (len < K)
    BY <1>9, RowIs, Sizes
  <2>2. PICK w \in Kept : threshold = SortScore(w)
    BY <1>1, <2>1 DEF ListInv
  <2>3. w \in Tokens(len) /\ SortScore(w) \in Int /\ SortScore(t) \in Int
    BY <1>1, ScoreWord DEF Kept
  <2>4. Seen(t) < Seen(w)
    BY <1>1, <1>9, <2>2
  <2>5. Seen(t) \in Int /\ Seen(w) \in Int
    <3>1. \A x \in Int : Cleared(x) \in Int
      <4>1. ASSUME NEW x \in Int PROVE Cleared(x) \in Int
        <5>1. PICK k \in Nat : HighSize * k \in Nat /\ Abs(x) - LowBits(x) = HighSize * k
          BY ClearedIs
        <5> DEFINE y == HighSize * k
        <5>2. y \in Nat /\ Cleared(x) = Signed(x, y)
          BY <5>1 DEF Cleared
        <5> HIDE DEF y
        <5> QED
          BY <5>2 DEF Signed
      <4> QED
        BY <4>1
    <3>2. TrueScore(t) \in Int /\ TrueScore(w) \in Int
      BY <2>3, ScoreWord
    <3> QED
      BY <3>1, <3>2 DEF Seen
  <2>6. SortScore(t) < SortScore(w)
    <3>1. SUFFICES ASSUME ~ (SortScore(t) < SortScore(w)) PROVE FALSE
      OBVIOUS
    <3>2. SortScore(t) >= SortScore(w)
      BY <2>3, <3>1
    <3>3. Seen(t) >= Seen(w)
      BY <2>3, <3>2, SeenOrder
    <3> QED
      BY <2>4, <2>5, <3>3
  <2>7. /\ Of(t).key = -SortScore(t) /\ CandidateIndex(Of(t)) = t
        /\ Field(Of(t).payload) = row[t] /\ row[t] < n
    BY <1>4, <1>9
  <2>8. AboveStop(Of(t))
    BY <2>2, <2>3, <2>6, <2>7 DEF AboveStop
  <2>9. t < len
    BY <2>1 DEF Tokens
  <2>10. Of(t) \in Candidates /\ Taken(Of(t))
    BY <1>6, <2>7, <2>8, <2>9
  <2>11. <<t, row[t]>> = <<CandidateIndex(Of(t)), Field(Of(t).payload)>>
    BY <2>7
  <2> HIDE DEF Taken
  <2> QED
    BY <1>1, <2>10, <2>11
<1>10. Selected' = Selected
  BY <1>1, <1>2 DEF Selected, Listed
<1>11. \A c \in cold' : c[1] \notin Selected' /\ c[2] = row'[c[1]]
  BY <1>2, <1>8, <1>10
<1>12. \A t \in Tokens(len') :
         row'[t] >= 0 /\ len' >= K /\ (\A u \in Selected' : Seen(t)' < Seen(u)') => <<t, row'[t]>> \in cold'
  BY <1>2, <1>9, <1>10
<1> QED
  BY <1>11, <1>12 DEF ColdExact
-----------------------------------------------------------------------------
(* The theorems.                                                           *)

\* The invariant holds before the first chunk.
LEMMA PackedInit == Init => PackedInv
<1> SUFFICES ASSUME Init PROVE PackedInv
  OBVIOUS
<1>1. Input
  BY DEF Init, Input
<1>2. Scored = 0 /\ scores = << >> /\ DOMAIN scores = {}
  <2>1. scores = << >>
    BY DEF Init
  <2>2. DOMAIN << >> = {}
    BY SMT
  <2> QED
    BY <2>1, <2>2, FS_EmptySet DEF Scored
<1>3. Tokens(0) = {}
  BY DEF Tokens
<1>4. ScoresInv
  BY <1>1, <1>2, <1>3, RowIs DEF ScoresInv
<1>5. Kept = {} /\ top = {}
  BY <1>2, <1>3 DEF Kept, Init
<1>6. Cardinality(Kept) = Min({K, Scored})
  BY <1>2, <1>5, FS_EmptySet, LeastOfTwo, Sizes
<1>7. TopInv
  BY <1>5, <1>6 DEF TopInv
<1>8. ListInv /\ ListIsTopK /\ MissesLead /\ ColdExact
  BY DEF Init, ListInv, ListIsTopK, MissesLead, ColdExact
<1> QED
  BY <1>1, <1>4, <1>7, <1>8 DEF PackedInv

\* Every step preserves it.
LEMMA PackedNext == PackedInv /\ [Next]_vars => PackedInv'
<1> SUFFICES ASSUME PackedInv, [Next]_vars PROVE PackedInv'
  OBVIOUS
<1>1. Input /\ ScoresInv /\ TopInv /\ ListInv
  BY DEF PackedInv
<1>2. CASE ScoreChunk
  <2>1. ScoresInv' /\ TopInv'
    BY <1>1, <1>2, ChunkScores, ChunkTop
  <2>2. Input'
    BY <1>1, <1>2, PairStays DEF ScoreChunk
  <2>3. list = << >> /\ ~done
    <3>1. Scored < len /\ Scored \in Nat /\ len \in Nat
      BY <1>1, <1>2, ChunkScores, RowIs DEF ScoreChunk, ScoresInv
    <3> QED
      BY <1>1, <3>1 DEF ListInv
  <2>4. list' = << >> /\ ~done'
    BY <1>2, <2>3 DEF ScoreChunk
  <2>5. ListInv' /\ ListIsTopK' /\ MissesLead' /\ ColdExact'
    BY <2>4 DEF ListInv, ListIsTopK, MissesLead, ColdExact
  <2> QED
    BY <2>1, <2>2, <2>5 DEF PackedInv
<1>3. CASE PublishList
  <2>1. ScoresInv' /\ TopInv' /\ ListInv' /\ ListIsTopK' /\ MissesLead' /\ ColdExact'
    BY <1>1, <1>3, Publish DEF ListInv
  <2>2. Input'
    BY <1>1, <1>3, PairStays DEF PublishList
  <2> QED
    BY <2>1, <2>2 DEF PackedInv
<1>4. CASE FindEvictCandidates
  <2>1. /\ UNCHANGED <<input, scores, top, threshold, list, slots>>
        /\ UNCHANGED <<mtp, len, row, product, scores, top, threshold, list, slots>>
        /\ list # << >>
    BY <1>4 DEF FindEvictCandidates, input
  <2>2. Input' /\ \A t : SortScore(t)' = SortScore(t) /\ Pair(t)' = Pair(t)
    BY <1>1, <2>1, PairStays
  <2>3. \A t : Seen(t)' = Seen(t) /\ SlotOf(t)' = SlotOf(t)
    BY <1>1, <2>1, SeenStays
  <2>4. Scored' = Scored /\ Kept' = Kept /\ Selected' = Selected /\ Listed' = Listed
    BY <2>1, <2>2 DEF Scored, Kept, Selected, Listed
  <2>5. ScoresInv' /\ TopInv'
    BY <1>1, <2>1, <2>2, <2>4 DEF ScoresInv, TopInv
  <2>6. ListInv'
    BY <1>1, <2>1, <2>2, <2>4 DEF ListInv
  <2>7. ListIsTopK' /\ MissesLead'
    <3>1. ListIsTopK'
      BY <2>1, <2>3, <2>4 DEF PackedInv, ListIsTopK, SlotOf
    <3>2. MissesLead'
      BY <2>1, <2>4 DEF PackedInv, MissesLead, MissCount
    <3> QED
      BY <3>1, <3>2
  <2>8. ColdExact'
    BY <1>1, <1>4, Cold
  <2> QED
    BY <2>2, <2>5, <2>6, <2>7, <2>8 DEF PackedInv
<1>5. CASE Returned \/ UNCHANGED vars
  <2>1. /\ UNCHANGED <<mtp, len, row, product, scores, top, threshold, list, slots, cold, done>>
        /\ UNCHANGED input
    BY <1>5 DEF Returned, vars, input
  <2>2. Input' /\ \A t : SortScore(t)' = SortScore(t) /\ Pair(t)' = Pair(t)
    BY <1>1, <2>1, PairStays
  <2>3. \A t : Seen(t)' = Seen(t) /\ SlotOf(t)' = SlotOf(t)
    BY <1>1, <2>1, SeenStays
  <2>4. Scored' = Scored /\ Kept' = Kept /\ Selected' = Selected /\ Listed' = Listed
    BY <2>1, <2>2 DEF Scored, Kept, Selected, Listed
  <2>5. ScoresInv' /\ TopInv'
    BY <1>1, <2>1, <2>2, <2>4 DEF ScoresInv, TopInv
  <2>6. ListInv'
    BY <1>1, <2>1, <2>2, <2>4 DEF ListInv
  <2>7. ListIsTopK' /\ MissesLead'
    <3>1. ListIsTopK'
      BY <2>1, <2>3, <2>4 DEF PackedInv, ListIsTopK, SlotOf
    <3>2. MissesLead'
      BY <2>1, <2>4 DEF PackedInv, MissesLead, MissCount
    <3> QED
      BY <3>1, <3>2
  <2>8. ColdExact'
    BY <2>1, <2>3, <2>4 DEF PackedInv, ColdExact
  <2> QED
    BY <2>2, <2>5, <2>6, <2>7, <2>8 DEF PackedInv
<1> QED
  BY <1>2, <1>3, <1>4, <1>5 DEF Next

\* The kept pairs are a top K of the scores so far at every merge, and the list
\* and the threshold are theirs.
THEOREM PackedInvHolds == Spec => []PackedInv
BY PackedInit, PackedNext, PTL DEF Spec

\* However the bits are divided and the heads grouped, the list that leaves the
\* vector cores is a top K of the sums over all heads, every token once and
\* with its own slot.
THEOREM ListIsTopKHolds == Spec => []ListIsTopK
<1>1. PackedInv => ListIsTopK
  BY DEF PackedInv
<1> QED
  BY <1>1, PackedInvHolds, PTL

\* Under either operator's keys the misses are a prefix of the list, as long as
\* the count says; with speculative tokens both parts ascend.
THEOREM MissesLeadHolds == Spec => []MissesLead
<1>1. PackedInv => MissesLead
  BY DEF PackedInv
<1> QED
  BY <1>1, PackedInvHolds, PTL

\* Every candidate above the stop key is a cached token outside the list with
\* the slot it has, and no token colder than the whole list is missed.
THEOREM ColdExactHolds == Spec => []ColdExact
<1>1. PackedInv => ColdExact
  BY DEF PackedInv
<1> QED
  BY <1>1, PackedInvHolds, PTL
=============================================================================
