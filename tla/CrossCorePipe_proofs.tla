------------------------ MODULE CrossCorePipe_proofs ------------------------
(* Proofs about CrossCorePipe, for launches of any number of chunks.       *)
EXTENDS CrossCorePipe, Sequences, TLAPS

\* The first launch starts with no flag raised and no result kept.
LEMMA InitAccounting == Init => Accounting
<1> SUFFICES ASSUME Init PROVE Accounting
  OBVIOUS
<1>1. work \in 0 .. MaxChunks /\ flagged \in BOOLEAN /\ (work > 0 => flagged)
  BY DEF Init, Shares
<1>2. TypeOK
  <2>1. \A S, c : c \in S => [v \in Vectors |-> c] \in [Vectors -> S]
    OBVIOUS
  <2>2. 0 \in 0 .. work
    BY <1>1, BoundAssumption
  <2>3. half \in [Halves -> (0 .. MaxChunks - 1) \cup {None}]
    BY DEF Init
  <2>4. writing \in BOOLEAN /\ reading \in BOOLEAN
    BY DEF Init
  <2>5. /\ pc \in [Vectors -> {"start", "loop", "done"}]
        /\ credit \in [Vectors -> Nat] /\ ready \in [Vectors -> Nat]
        /\ taken \in [Vectors -> 0 .. work] /\ released \in [Vectors -> 0 .. work]
    BY <2>1, <2>2 DEF Init
  <2>6. issued \in 0 .. work /\ written \in 0 .. work /\ drained \in 0 .. 2
    BY <2>2 DEF Init
  <2> QED
    BY <1>1, <2>3, <2>4, <2>5, <2>6 DEF TypeOK
<1>3. FlagsAddUp
  BY <1>1, BoundAssumption DEF Init, FlagsAddUp, FlagsOf, Vectors, Reader
<1>4. ResultsKept
  BY DEF Init, ResultsKept, Reader, Vectors
<1> QED
  BY <1>2, <1>3, <1>4 DEF Accounting

\* Two neighbouring chunks never share a half.
LEMMA HalvesAlternate ==
  ASSUME NEW l \in Nat
  PROVE  /\ Half(l) \in Halves
         /\ Half(l + 1) # Half(l)
  BY DEF Half, Halves

\* Accounting is preserved by every step.
LEMMA StepAccounting == Accounting /\ [Next]_vars => Accounting'
<1> SUFFICES ASSUME Accounting, [Next]_vars PROVE Accounting'
  OBVIOUS
<1> USE BoundAssumption
<1>t. TypeOK BY DEF Accounting
<1>f. FlagsAddUp BY DEF Accounting
<1>r. ResultsKept BY DEF Accounting
<1>n. /\ work \in Nat /\ issued \in Nat /\ written \in Nat /\ drained \in Nat
      /\ \A v \in Vectors : /\ taken[v] \in Nat /\ released[v] \in Nat
                            /\ credit[v] \in Nat /\ ready[v] \in Nat
      /\ Reader \in Vectors
  BY <1>t DEF TypeOK, Vectors, Reader
\* No more than two results wait, and only one if the next is being written.
<1>b. /\ released[Reader] <= written
      /\ issued <= released[Reader] + 2
  BY <1>f, <1>n DEF FlagsAddUp, FlagsOf
<1>1. ASSUME Launch PROVE Accounting'
  <2>1. CubeDone /\ \A v \in Vectors : pc[v] = "done"
    BY <1>1 DEF Launch, LaunchDone
  <2>2. ASSUME NEW v \in Vectors PROVE credit[v] = 0 /\ ready[v] = 0
    <3>1. /\ released[v] <= taken[v] /\ taken[v] <= written /\ ready[v] = written - taken[v]
          /\ credit[v] = FlagsOf(v) + released[v] - issued - drained /\ released[v] = work
      BY <2>1, <1>f DEF FlagsAddUp
    <3>2. issued = work /\ written = work /\ drained = FlagsOf(v)
      BY <2>1 DEF CubeDone, ClosingWaits, FlagsOf
    <3> QED
      BY <1>n, <3>1, <3>2
  <2>3. work' \in 0 .. MaxChunks /\ flagged' \in BOOLEAN /\ (work' > 0 => flagged')
    BY <1>1 DEF Launch, Shares
  <2>4. writing = FALSE /\ reading = FALSE
    BY <2>1, <1>t, <1>f, <1>n DEF FlagsAddUp, CubeDone, TypeOK
  <2>5. TypeOK'
    BY <1>1, <1>t, <2>3 DEF Launch, TypeOK, Halves, Vectors
  <2>6. FlagsAddUp'
    BY <1>1, <2>2, <2>3, <2>4, <1>n DEF Launch, FlagsAddUp, FlagsOf
  <2>7. ResultsKept'
    BY <1>1, <1>n DEF Launch, ResultsKept
  <2> QED
    BY <2>5, <2>6, <2>7 DEF Accounting
<1>2. ASSUME Issue PROVE Accounting'
  <2>1. TypeOK'
    BY <1>2, <1>t, <1>n DEF Issue, SpendCredit, TypeOK, vectorVars
  <2>2. FlagsAddUp'
    BY <1>2, <1>t, <1>f, <1>n DEF Issue, SpendCredit, FlagsAddUp, FlagsOf, vectorVars
  <2>3. ResultsKept'
    BY <1>2, <1>r DEF Issue, ResultsKept, vectorVars
  <2> QED
    BY <2>1, <2>2, <2>3 DEF Accounting
<1>3. ASSUME Drain PROVE Accounting'
  <2>1. TypeOK'
    BY <1>3, <1>t, <1>n DEF Drain, SpendCredit, ClosingWaits, TypeOK, vectorVars
  <2>2. FlagsAddUp'
    BY <1>3, <1>t, <1>f, <1>n
       DEF Drain, SpendCredit, ClosingWaits, FlagsAddUp, FlagsOf, vectorVars
  <2>3. ResultsKept'
    BY <1>3, <1>r DEF Drain, ResultsKept, vectorVars
  <2> QED
    BY <2>1, <2>2, <2>3 DEF Accounting
<1>4. ASSUME BeginWrite PROVE Accounting'
  <2>1. TypeOK'
    BY <1>4, <1>t DEF BeginWrite, TypeOK, vectorVars
  <2>2. FlagsAddUp'
    BY <1>4, <1>f DEF BeginWrite, FlagsAddUp, FlagsOf, vectorVars
  <2>3. ASSUME NEW l \in released[Reader] .. written - 1
        PROVE  Half(l) # Half(written)
    <3>1. l + 1 = written /\ l \in Nat
      BY <1>b, <1>4, <1>n DEF BeginWrite
    <3> QED
      BY <3>1, HalvesAlternate
  <2>4. ResultsKept'
    BY <1>4, <1>r, <1>t, <1>n, <2>3, HalvesAlternate
       DEF BeginWrite, ResultsKept, TypeOK, vectorVars
  <2> QED
    BY <2>1, <2>2, <2>4 DEF Accounting
<1>5. ASSUME EndWrite PROVE Accounting'
  <2>1. written < issued /\ issued <= work
    BY <1>5, <1>f, <1>t DEF EndWrite, FlagsAddUp, TypeOK
  <2>2. TypeOK'
    <3>1. written \in 0 .. MaxChunks - 1 /\ Half(written) \in Halves
      BY <1>t, <1>n, <2>1, HalvesAlternate DEF TypeOK
    <3>2. half' \in [Halves -> (0 .. MaxChunks - 1) \cup {None}]
      BY <1>5, <1>t, <3>1 DEF EndWrite, TypeOK
    <3>3. writing' \in BOOLEAN /\ reading' \in BOOLEAN /\ flagged' \in BOOLEAN
      BY <1>5, <1>t DEF EndWrite, TypeOK, vectorVars
    <3>4. /\ work' = work /\ written' = written + 1 /\ issued' = issued
          /\ drained' = drained /\ pc' = pc /\ credit' = credit
          /\ taken' = taken /\ released' = released
          /\ ready' = [v \in Vectors |-> ready[v] + 1]
      BY <1>5 DEF EndWrite, vectorVars
    <3> QED
      BY <1>t, <1>n, <2>1, <3>2, <3>3, <3>4 DEF TypeOK
  <2>3. FlagsAddUp'
    BY <1>5, <1>t, <1>f, <1>n, <2>1 DEF EndWrite, FlagsAddUp, FlagsOf, vectorVars
  <2>4. ASSUME NEW l \in released[Reader] .. written - 1
        PROVE  Half(l) # Half(written)
    <3>1. l + 1 = written /\ l \in Nat
      BY <1>b, <2>1, <1>n
    <3> QED
      BY <3>1, HalvesAlternate
  <2>5. half' = [half EXCEPT ![Half(written)] = written] /\ Half(written) \in Halves
    BY <1>5, <1>n, HalvesAlternate DEF EndWrite
  <2>6. ASSUME NEW l \in released[Reader] .. written PROVE half'[Half(l)] = l
    <3>1. CASE l = written
      BY <3>1, <2>5, <1>t DEF TypeOK
    <3>2. CASE l \in released[Reader] .. written - 1
      BY <3>2, <2>4, <2>5, <1>t, <1>n, <1>r, HalvesAlternate DEF TypeOK, ResultsKept
    <3> QED
      BY <3>1, <3>2, <1>n
  <2>7. ResultsKept'
    BY <2>6, <1>5, <1>n DEF EndWrite, ResultsKept, vectorVars
  <2> QED
    BY <2>2, <2>3, <2>7 DEF Accounting
<1>6. ASSUME BeginRead PROVE Accounting'
  BY <1>6, <1>t, <1>f, <1>r
     DEF BeginRead, Accounting, TypeOK, FlagsAddUp, FlagsOf, ResultsKept, cubeVars
<1>7. ASSUME EndRead PROVE Accounting'
  <2>1. TypeOK'
    <3>1. writing' \in BOOLEAN /\ reading' \in BOOLEAN /\ flagged' \in BOOLEAN
      BY <1>7, <1>t DEF EndRead, Release, TypeOK, cubeVars
    <3>2. released[Reader] < taken[Reader] /\ taken[Reader] \in 0 .. work
      BY <1>7, <1>f, <1>t, <1>n DEF EndRead, FlagsAddUp, TypeOK
    <3>3. /\ work' = work /\ written' = written /\ issued' = issued
          /\ drained' = drained /\ pc' = pc /\ ready' = ready
          /\ taken' = taken /\ half' = half
          /\ released' = [released EXCEPT ![Reader] = @ + 1]
          /\ credit' = [credit EXCEPT ![Reader] = @ + 1]
      BY <1>7 DEF EndRead, Release, cubeVars
    <3> QED
      BY <1>t, <1>n, <3>1, <3>2, <3>3 DEF TypeOK
  <2>2. FlagsAddUp'
    BY <1>7, <1>t, <1>f, <1>n DEF EndRead, Release, FlagsAddUp, FlagsOf, TypeOK, cubeVars
  <2>3. ResultsKept'
    BY <1>7, <1>r, <1>t, <1>n DEF EndRead, Release, ResultsKept, TypeOK, cubeVars
  <2> QED
    BY <2>1, <2>2, <2>3 DEF Accounting
<1>8. ASSUME NEW v \in Vectors, PassOn(v) PROVE Accounting'
  <2>1. TypeOK'
    BY <1>8, <1>t, <1>n, <1>f DEF PassOn, Release, TypeOK, FlagsAddUp, cubeVars
  <2>2. FlagsAddUp'
    BY <1>8, <1>t, <1>f, <1>n DEF PassOn, Release, FlagsAddUp, FlagsOf, TypeOK, cubeVars
  <2>3. ResultsKept'
    BY <1>8, <1>r, <1>t, <1>n DEF PassOn, Release, ResultsKept, TypeOK, cubeVars
  <2> QED
    BY <2>1, <2>2, <2>3 DEF Accounting
<1>9. ASSUME NEW v \in Vectors, Open(v) PROVE Accounting'
  <2>1. TypeOK'
    BY <1>9, <1>t, <1>n DEF Open, OpeningFlags, TypeOK, cubeVars
  <2>2. FlagsAddUp'
    BY <1>9, <1>t, <1>f, <1>n
       DEF Open, OpeningFlags, FlagsAddUp, FlagsOf, TypeOK, cubeVars
  <2>3. ResultsKept'
    BY <1>9, <1>r DEF Open, ResultsKept, cubeVars
  <2> QED
    BY <2>1, <2>2, <2>3 DEF Accounting
<1>10. ASSUME NEW v \in Vectors, AwaitResult(v) PROVE Accounting'
  <2>1. TypeOK'
    BY <1>10, <1>t, <1>n DEF AwaitResult, TypeOK, cubeVars
  <2>2. FlagsAddUp'
    BY <1>10, <1>t, <1>f, <1>n DEF AwaitResult, FlagsAddUp, FlagsOf, TypeOK, cubeVars
  <2>3. ResultsKept'
    BY <1>10, <1>r DEF AwaitResult, ResultsKept, cubeVars
  <2> QED
    BY <2>1, <2>2, <2>3 DEF Accounting
<1>11. ASSUME NEW v \in Vectors, Close(v) PROVE Accounting'
  <2>1. TypeOK'
    BY <1>11, <1>t DEF Close, TypeOK, cubeVars
  <2>2. FlagsAddUp'
    BY <1>11, <1>t, <1>f, <1>n DEF Close, FlagsAddUp, FlagsOf, TypeOK, cubeVars
  <2>3. ResultsKept'
    BY <1>11, <1>r DEF Close, ResultsKept, cubeVars
  <2> QED
    BY <2>1, <2>2, <2>3 DEF Accounting
<1>12. CASE UNCHANGED vars
  BY <1>12, <1>t, <1>f, <1>r
     DEF vars, Accounting, TypeOK, FlagsAddUp, FlagsOf, ResultsKept
<1> QED
  BY <1>1, <1>2, <1>3, <1>4, <1>5, <1>6, <1>7, <1>8, <1>9, <1>10, <1>11, <1>12
     DEF Next, Vector, Copy, Cube, Fix

-----------------------------------------------------------------------------
\* The flags add up in every state of every sequence of launches, and the
\* results that wait for the vector core are in the buffer.
THEOREM AccountingHolds == Spec => []Accounting
<1>1. Init => Accounting
  BY InitAccounting
<1>2. Accounting /\ [Next]_vars => Accounting'
  BY StepAccounting
<1> QED
  BY <1>1, <1>2, PTL DEF Spec

\* The vector core never copies from a half the cube core is writing or has
\* written again: what it reads is the whole result of its own chunk.
THEOREM ReadsItsChunkHolds == Spec => []ReadsItsChunk
<1>1. Accounting => ReadsItsChunk
  <2> SUFFICES ASSUME Accounting, reading
               PROVE  half[Half(released[Reader])] = released[Reader]
    BY DEF ReadsItsChunk
  <2>1. /\ released[Reader] < taken[Reader] /\ taken[Reader] <= written
        /\ released[Reader] \in 0 .. work /\ taken[Reader] \in 0 .. work
        /\ written \in 0 .. work /\ work \in 0 .. MaxChunks
    BY DEF Accounting, TypeOK, FlagsAddUp, Vectors, Reader
  <2>2. released[Reader] \in released[Reader] .. written - 1
    BY <2>1, BoundAssumption
  <2> QED
    BY <2>2 DEF Accounting, ResultsKept
<1> QED
  BY <1>1, AccountingHolds, PTL

\* No flag counter ever exceeds two.
THEOREM FlagsBoundedHolds == Spec => []FlagsBounded
<1>1. Accounting => FlagsBounded
  <2> SUFFICES ASSUME Accounting, NEW v \in Vectors
               PROVE  credit[v] <= 2 /\ ready[v] <= 2
    BY DEF FlagsBounded
  <2>1. /\ work \in Nat /\ issued \in Nat /\ written \in Nat /\ drained \in Nat
        /\ taken[v] \in Nat /\ released[v] \in Nat
        /\ credit[v] \in Nat /\ ready[v] \in Nat
    BY BoundAssumption DEF Accounting, TypeOK
  <2>2. /\ released[v] <= taken[v] /\ taken[v] <= written /\ written <= issued
        /\ credit[v] = FlagsOf(v) + released[v] - issued - drained
        /\ ready[v] = written - taken[v]
    BY DEF Accounting, FlagsAddUp
  <2>3. FlagsOf(v) \in 0 .. 2
    BY DEF FlagsOf
  <2> QED
    BY <2>1, <2>2, <2>3
<1> QED
  BY <1>1, AccountingHolds, PTL

\* A launch that is over has left no flag to the next one.
THEOREM FlagsDrainedHolds == Spec => []FlagsDrained
<1>1. Accounting => FlagsDrained
  <2> SUFFICES ASSUME Accounting, LaunchDone, NEW v \in Vectors
               PROVE  credit[v] = 0 /\ ready[v] = 0
    BY DEF FlagsDrained
  <2>1. /\ work \in Nat /\ taken[v] \in Nat /\ released[v] \in Nat
    BY BoundAssumption DEF Accounting, TypeOK
  <2>2. /\ released[v] <= taken[v] /\ taken[v] <= written
        /\ credit[v] = FlagsOf(v) + released[v] - issued - drained
        /\ ready[v] = written - taken[v] /\ released[v] = work
    BY DEF Accounting, FlagsAddUp, LaunchDone
  <2>3. issued = work /\ written = work /\ drained = ClosingWaits /\ pc[v] = "done"
    BY DEF LaunchDone, CubeDone
  <2> QED
    BY <2>1, <2>2, <2>3 DEF FlagsOf, ClosingWaits
<1> QED
  BY <1>1, AccountingHolds, PTL

-----------------------------------------------------------------------------
(* The two halves and the flags implement the queue of results.            *)

\* What waits is the run of chunks that are written and not yet read.
WaitingRun ==
  /\ released[Reader] \in Nat /\ written \in Nat /\ work \in 0 .. MaxChunks
  /\ written - released[Reader] \in 0 .. 2 /\ written <= work
  /\ Waiting = [i \in 1 .. written - released[Reader] |-> released[Reader] + i - 1]

\* The account bounds the run: the cube core is at most two chunks ahead.
LEMMA WaitingIsRun == Accounting => WaitingRun
<1> SUFFICES ASSUME Accounting PROVE WaitingRun
  OBVIOUS
<1>1. /\ work \in 0 .. MaxChunks /\ work \in Nat
      /\ issued \in Nat /\ written \in Nat /\ written <= work
      /\ drained \in Nat /\ taken[Reader] \in Nat /\ released[Reader] \in Nat
      /\ credit[Reader] \in Nat
  BY BoundAssumption DEF Accounting, TypeOK, Vectors, Reader
<1>2. /\ released[Reader] <= taken[Reader] /\ taken[Reader] <= written
      /\ written <= issued
      /\ credit[Reader] = FlagsOf(Reader) + released[Reader] - issued - drained
  BY DEF Accounting, FlagsAddUp, Vectors, Reader
<1>3. FlagsOf(Reader) \in Nat /\ FlagsOf(Reader) <= 2
  BY DEF FlagsOf
<1> DEFINE r == released[Reader]
           t == taken[Reader]
           c == credit[Reader]
           f == FlagsOf(Reader)
<1> HIDE DEF r, t, c, f
<1>4. written - r \in 0 .. 2
  <2>1. /\ r \in Nat /\ t \in Nat /\ c \in Nat /\ f \in Nat /\ f <= 2
        /\ r <= t /\ t <= written /\ c = f + r - issued - drained
    BY <1>1, <1>2, <1>3 DEF r, t, c, f
  <2> QED
    BY <2>1, <1>1, <1>2
<1> USE DEF r
<1>5. ASSUME NEW i \in 1 .. written - released[Reader]
      PROVE  half[Half(released[Reader] + i - 1)] = released[Reader] + i - 1
  <2>1. released[Reader] + i - 1 \in released[Reader] .. written - 1
    BY <1>1, BoundAssumption
  <2> QED
    BY <2>1 DEF Accounting, ResultsKept
<1> QED
  BY <1>1, <1>4, <1>5 DEF Waiting, WaitingRun

\* At first nothing waits.
LEMMA QueueInit == Init => Queue!Init
<1> SUFFICES ASSUME Init PROVE Queue!Init
  OBVIOUS
<1>1. work \in 0 .. MaxChunks
  BY DEF Init, Shares
<1>2. written = 0 /\ released[Reader] = 0
  BY DEF Init, Reader, Vectors
<1>3. Waiting = << >>
  BY <1>2 DEF Waiting
<1> QED
  BY <1>1, <1>2, <1>3 DEF Queue!Init

\* A step ends a write, ends a read, starts a launch, or leaves the queue alone.
LEMMA QueueStep == Accounting /\ [Next]_vars => [Queue!Next]_(Queue!vars)
<1> SUFFICES ASSUME Accounting, [Next]_vars PROVE [Queue!Next]_(Queue!vars)
  OBVIOUS
<1>a. Accounting'
  BY StepAccounting
<1>1. WaitingRun /\ WaitingRun'
  BY <1>a, WaitingIsRun, PTL
<1> DEFINE r == released[Reader]
<1>2. /\ r \in Nat /\ written \in Nat /\ work \in 0 .. MaxChunks /\ work \in Nat
      /\ written - r \in 0 .. 2 /\ written <= work
      /\ Waiting = [i \in 1 .. written - r |-> r + i - 1]
  BY <1>1, BoundAssumption DEF WaitingRun
<1>3. /\ r' \in Nat /\ written' \in Nat /\ work' \in 0 .. MaxChunks
      /\ written' - r' \in 0 .. 2 /\ written' <= work'
      /\ Waiting' = [i \in 1 .. written' - r' |-> r' + i - 1]
  BY <1>1 DEF WaitingRun
<1> HIDE DEF r
<1>t. TypeOK /\ FlagsAddUp
  BY DEF Accounting
\* Steps that move neither end of the run.
<1>4. ASSUME work' = work, written' = written, r' = r
      PROVE  UNCHANGED Queue!vars
  BY <1>2, <1>3, <1>4 DEF Queue!vars
<1>5. ASSUME EndWrite PROVE Queue!Put
  <2>1. work' = work /\ written' = written + 1 /\ r' = r /\ written < work
    BY <1>5, <1>t DEF EndWrite, vectorVars, r, TypeOK, FlagsAddUp
  <2>2. Len(Waiting) = written - r /\ written - r < 2
    BY <1>2, <1>3, <2>1
  <2>3. Waiting' = Append(Waiting, written)
    BY <1>2, <1>3, <2>1, <2>2
  <2> QED
    BY <2>1, <2>2, <2>3 DEF Queue!Put
<1>6. ASSUME EndRead PROVE Queue!Take
  <2>1. work' = work /\ written' = written /\ r' = r + 1 /\ r < written
    BY <1>6, <1>t, <1>2 DEF EndRead, Release, cubeVars, r, TypeOK, FlagsAddUp, Vectors, Reader
  <2>2. Waiting \in Seq(Nat) /\ Waiting # << >> /\ Len(Waiting) = written - r
    BY <1>2, <2>1
  <2>3. Waiting' = Tail(Waiting)
    BY <1>2, <1>3, <2>1, <2>2
  <2> QED
    BY <2>1, <2>2, <2>3 DEF Queue!Take
<1>7. ASSUME Launch PROVE Queue!Launch
  <2>1. written = work /\ r = work /\ written' = 0 /\ r' = 0
    BY <1>7, <1>t DEF Launch, LaunchDone, CubeDone, r, FlagsAddUp, Vectors, Reader
  <2>2. Waiting = << >> /\ Waiting' = << >>
    BY <1>2, <1>3, <2>1
  <2> QED
    BY <1>3, <2>1, <2>2 DEF Queue!Launch
<1>8. CASE Cube
  BY <1>4, <1>8 DEF Cube, Issue, Drain, vectorVars, r
<1>9. CASE BeginWrite \/ BeginRead
  BY <1>4, <1>9 DEF BeginWrite, BeginRead, vectorVars, cubeVars, r
<1>10. ASSUME NEW v \in Vectors, Vector(v) PROVE UNCHANGED Queue!vars
  <2>1. CASE Open(v) \/ AwaitResult(v) \/ Close(v)
    BY <1>4, <2>1 DEF Open, AwaitResult, Close, cubeVars, r
  <2>2. CASE PassOn(v)
    <3>1. released'[Reader] = released[Reader]
      BY <2>2, <1>t DEF PassOn, Release, TypeOK, Vectors, Reader
    <3> QED
      BY <1>4, <2>2, <3>1 DEF PassOn, Release, cubeVars, r
  <2> QED
    BY <1>10, <2>1, <2>2 DEF Vector
<1>11. CASE UNCHANGED vars
  BY <1>4, <1>11 DEF vars, r
<1> QED
  BY <1>5, <1>6, <1>7, <1>8, <1>9, <1>10, <1>11, <1>4 DEF Next, Fix, Copy, Queue!Next

\* For launches of any length the hand-over behaves like a queue of at most
\* two whole results, taken out in order, empty when a launch begins.
THEOREM QueueImplemented == Spec => QueueKept
<1>1. Init => Queue!Init
  BY QueueInit
<1>2. Accounting /\ [Next]_vars => [Queue!Next]_(Queue!vars)
  BY QueueStep
<1> QED
  BY <1>1, <1>2, AccountingHolds, PTL DEF Spec, QueueKept, Queue!Spec
=============================================================================
