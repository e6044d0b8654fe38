------------------------ MODULE OrderedLaunch_proofs ------------------------
(***************************************************************************)
(* Of the calls that go through an adapter, for any number of threads,     *)
(* streams, cores and calls, and any shapes: every kernel finds its        *)
(* regions inside the workspace of its own call, no two waiting calls      *)
(* share memory, and only a failed call leaves anything behind.            *)
(***************************************************************************)
EXTENDS OrderedLaunch, TLAPS

-----------------------------------------------------------------------------
(* For which shapes the workspace is large enough: every one of            *)
(* fused_li_manage, and MTP with the 32 heads its adapter insists on.      *)

\* The shapes a caller of the adapters can produce, of any size.
Served ==
  {s \in ShapesOf(Nat \ {0}, Nat \ {0}, Nat \ {0}) : s.mtp => s.heads = 32}

\* A row of scores has room for the whole capacity.
LEMMA ScoreStrideBound ==
  ASSUME NEW s \in ShapesOf(Nat \ {0}, Nat \ {0}, Nat \ {0})
  PROVE  ScoreStride(s) \in Nat /\ s.capacity <= ScoreStride(s)
BY SMT DEF ShapesOf, ScoreStride, S2Base

\* The regions of fused_li_manage fit, with 32 heads as with 64.
LEMMA DecodeFits ==
  ASSUME NEW s \in Served, ~s.mtp
  PROVE  Fits(s, WorkspaceSize(s))
<1> DEFINE stride == ScoreStride(s)
           size == s.batch * stride
           r == DecodeRegions(s)
<1>1. s.cores \in Nat /\ s.batch \in Nat /\ stride \in Nat /\ s.heads \in {32, 64}
  BY ScoreStrideBound DEF Served, ShapesOf
<1>2. size \in Nat
  BY <1>1
<1>3. s.batch * stride * Float = 4 * size
  BY <1>1 DEF Float
<1> HIDE DEF stride
<1>4. /\ r[1].to = 4096 * (s.cores * s.heads)
      /\ r[2] = Region(r[1].to, 4 * size)
      /\ r[3] = Region(r[2].to, 32768 * s.cores)
      /\ r[4] = Region(r[3].to, 32 * s.cores)
  BY <1>1, <1>3 DEF DecodeRegions, Region, S2Base, TopK, Float, stride
<1>5. WorkspaceSize(s) = 262144 * s.cores + 4 * size + 32800 * s.cores
  BY <1>1, <1>3 DEF WorkspaceSize, MBase, Rows, S2Base, TopK, Float, stride
<1>6. s.cores * s.heads <= 64 * s.cores /\ s.cores * s.heads \in Nat
  BY <1>1
<1>7. Regions(s) = r /\ DOMAIN r = 1 .. 4
  BY DEF Regions, DecodeRegions
<1> HIDE DEF size, r
<1> QED
  BY <1>1, <1>2, <1>4, <1>5, <1>6, <1>7, SMTT(30) DEF Fits, Region

\* So do those of MTP with 32 heads: then eight rows per head make the 256 rows
\* that the host and the entry count on.
LEMMA MtpFits ==
  ASSUME NEW s \in Served, s.mtp
  PROVE  Fits(s, WorkspaceSize(s))
<1> DEFINE stride == ScoreStride(s)
           size == s.batch * stride
           r == MtpRegions(s)
<1>1. s.cores \in Nat /\ s.batch \in Nat /\ stride \in Nat /\ s.heads = 32
  BY ScoreStrideBound DEF Served, ShapesOf
<1>2. size \in Nat
  BY <1>1
<1>3. /\ s.batch * Routes * stride * Float = 16 * size
      /\ (Routes * s.batch) * stride * Float = 16 * size
  BY <1>1 DEF Float, Routes
<1> HIDE DEF stride
<1>4. /\ ScoreOffset(s) = 1312768 * s.cores
      /\ ThresholdOffset(s) = 1312768 * s.cores + 16 * size
  BY <1>1, <1>3 DEF ScoreOffset, ThresholdOffset, S2Base, TopK, Float, Int64, stride
<1>5. /\ r[1] = Region(0, 1048576 * s.cores)
      /\ r[2] = Region(r[1].to, 262144 * s.cores)
      /\ r[3] = Region(r[2].to, 2048 * s.cores)
      /\ r[4] = Region(ScoreOffset(s), 16 * size)
      /\ r[5] = Region(ThresholdOffset(s), 128 * s.batch)
  BY <1>1, <1>3 DEF MtpRegions, Region, S2Base, TopK, Float, Int64, Routes, stride
<1>6. WorkspaceSize(s) = 1312768 * s.cores + 16 * size + 128 * s.batch
  BY <1>1, <1>3 DEF WorkspaceSize, MBase, Rows, S2Base, TopK, Float, Int64, Routes, stride
<1>7. Regions(s) = r /\ DOMAIN r = 1 .. 5
  BY DEF Regions, MtpRegions
<1> HIDE DEF size, r
<1> QED
  BY <1>1, <1>2, <1>4, <1>5, <1>6, <1>7, SMTT(30) DEF Fits, Region

\* As long as the operators are called through their adapters, no region of a
\* kernel overlaps another or ends behind the workspace DoTiling has asked for.
THEOREM ServedFits == ASSUME NEW s \in Served PROVE Fits(s, WorkspaceSize(s))
BY DecodeFits, MtpFits, Zenon

-----------------------------------------------------------------------------
(* The launch.                                                             *)

Stages == {"none", "begun", "sized", "ready", "queued", "sent", "done", "threw", "broken"}
Tiled == {"sized", "ready", "queued", "sent", "done", "broken"}
Sizes == {WorkspaceSize(s) : s \in Served}
Blocks == UNION {Pool[s] : s \in Streams}

CallType ==
  [at : Stages, job : Jobs \cup {None}, stream : Streams \cup {NoStream},
   tensors : SUBSET Blocks, workspace : SUBSET Blocks, size : Sizes \cup {None},
   blocks : Nat, given : Nat]

TypeOK ==
  /\ res \in [Threads -> Streams \cup {NoStream}]
  /\ running \in [Hosts -> Calls \cup {None}]
  /\ call \in [Calls -> CallType]
  /\ queue \in Seq(Calls) /\ inHand \in Calls \cup {None}
  /\ order \in [Streams -> Seq(Calls)]

\* What an accepted call asks for, and the tiling that suits it.
Asked(c) == call[c].job \in Jobs /\ Accepts(call[c].job) /\ call[c].stream \in Streams
Suits(c) ==
  /\ Asked(c) /\ call[c].blocks \in Nat \ {0}
  /\ call[c].size = WorkspaceSize(Tiling(call[c].job, call[c].blocks))
Past(c) == Suits(c) /\ call[c].at \notin {"none", "begun"}

\* A call is tiled once, before it gets into the queue, and keeps its tiling; a
\* thread in a call uses the resources of a stream.
IInv ==
  /\ TypeOK
  /\ \A c \in Calls : call[c].at # "none" => Asked(c)
  /\ \A c \in Calls : call[c].at \in Tiled => Suits(c)
  /\ \A i \in DOMAIN queue : Past(queue[i])
  /\ \A s \in Streams : \A i \in DOMAIN order[s] : Past(order[s][i])
  /\ inHand # None => Past(inHand)
  /\ \A h \in Hosts : running[h] # None => res[h] \in Streams

\* The tiling of an accepted call is a shape the workspace is large enough for.
LEMMA AcceptedServed ==
  ASSUME NEW j \in Jobs, Accepts(j), NEW n \in Nat \ {0}
  PROVE  Tiling(j, n) \in Served
BY LaunchAssumption DEF Accepts, Tiling, Served, ShapesOf

\* A launch has at least one block.
LEMMA UsedCoresPositive ==
  ASSUME NEW j \in Jobs, NEW n \in Nat \ {0}
  PROVE  UsedCores(RowsOf(j), n) \in Nat \ {0}
<1>1. RowsOf(j) \in Nat \ {0}
  BY LaunchAssumption DEF RowsOf, Routes
<1> QED
  BY <1>1 DEF UsedCores

\* The invariant holds before anything is launched.
LEMMA InitInv == Init => IInv
<1> SUFFICES ASSUME Init PROVE IInv
  OBVIOUS
<1>1. NoCall \in CallType
  BY DEF NoCall, CallType, Stages, None
<1>2. TypeOK
  BY <1>1 DEF Init, TypeOK
<1> QED
  BY <1>2 DEF Init, IInv, NoCall, Tiled

\* A step that neither makes nor tiles a call keeps what is known of all of them.
LEMMA KeepsTiling ==
  ASSUME IInv, NEW c \in Calls, NEW r \in CallType,
         r.job = call[c].job, r.stream = call[c].stream,
         r.size = call[c].size, r.blocks = call[c].blocks,
         call[c].at # "none", r.at \notin {"none", "begun"}, r.at \in Tiled => Suits(c),
         call' = [call EXCEPT ![c] = r]
  PROVE  /\ call' \in [Calls -> CallType]
         /\ \A d \in Calls : call'[d].at # "none" => Asked(d)'
         /\ \A d \in Calls : call'[d].at \in Tiled => Suits(d)'
         /\ \A d \in Calls : Past(d) => Past(d)'
         /\ Suits(c) => Past(c)'
<1>1. call \in [Calls -> CallType]
  BY DEF IInv, TypeOK
<1>2. call' \in [Calls -> CallType]
  BY <1>1
<1>3. \A d \in Calls : /\ call'[d].job = call[d].job /\ call'[d].stream = call[d].stream
                       /\ call'[d].size = call[d].size /\ call'[d].blocks = call[d].blocks
  BY <1>1
<1>4. \A d \in Calls : Asked(d)' <=> Asked(d)
  BY <1>3 DEF Asked, Accepts
<1>5. \A d \in Calls : Suits(d)' <=> Suits(d)
  BY <1>3, <1>4 DEF Suits, Tiling
<1>6. call'[c].at = r.at /\ \A d \in Calls : d # c => call'[d].at = call[d].at
  BY <1>1
<1> QED
  BY <1>2, <1>4, <1>5, <1>6 DEF IInv, Past

\* A failing call leaves queue and streams alone.
LEMMA ThrowsKeeps ==
  ASSUME IInv, NEW h \in Hosts, running[h] # None,
         call[running[h]].at \in {"begun", "sized"}, Throws(h)
  PROVE  IInv'
<1> DEFINE c == running[h]
           r == [call[c] EXCEPT !.at = "threw"]
<1>1. c \in Calls /\ call[c] \in CallType /\ call \in [Calls -> CallType]
  BY DEF IInv, TypeOK
<1>2. r \in CallType /\ r.at = "threw"
  BY <1>1 DEF CallType, Stages
<1>3. r.job = call[c].job /\ r.stream = call[c].stream /\ r.size = call[c].size /\ r.blocks = call[c].blocks
  BY <1>1 DEF CallType
<1>4. call' = [call EXCEPT ![c] = r]
  BY <1>1 DEF Throws
<1> HIDE DEF r
<1>5. /\ call' \in [Calls -> CallType]
      /\ \A d \in Calls : call'[d].at # "none" => Asked(d)'
      /\ \A d \in Calls : call'[d].at \in Tiled => Suits(d)'
      /\ \A d \in Calls : Past(d) => Past(d)'
  BY <1>1, <1>2, <1>3, <1>4, KeepsTiling DEF Tiled
<1>6. UNCHANGED <<res, queue, inHand, order>> /\ running' = [running EXCEPT ![h] = None]
  BY DEF Throws
<1>7. TypeOK'
  BY <1>5, <1>6 DEF IInv, TypeOK
<1> QED
  BY <1>5, <1>6, <1>7 DEF IInv, TypeOK

\* Only a call without a place in queue or stream is tiled.
LEMMA AskSizeKeeps ==
  ASSUME IInv, NEW h \in Hosts, AskSize(h)
  PROVE  IInv'
<1>0. PICK c \in Calls : c = running[h]
  BY DEF IInv, TypeOK, AskSize
<1> DEFINE n == UsedCores(RowsOf(call[c].job), CubeCores[res[h]])
           r == [call[c] EXCEPT !.at = "sized", !.blocks = n,
                                !.size = WorkspaceSize(Tiling(call[c].job, n))]
<1>1. /\ call[c] \in CallType /\ call \in [Calls -> CallType]
      /\ call[c].at = "begun" /\ res[h] \in Streams
  BY <1>0 DEF IInv, TypeOK, AskSize
<1>2. Asked(c)
  BY <1>1 DEF IInv
<1>3. n \in Nat \ {0}
  BY <1>1, <1>2, UsedCoresPositive, LaunchAssumption DEF Asked
<1>4. WorkspaceSize(Tiling(call[c].job, n)) \in Sizes
  BY <1>2, <1>3, AcceptedServed DEF Sizes, Asked
<1> HIDE DEF n
<1>5. /\ r \in CallType /\ r.at = "sized" /\ r.blocks = n
      /\ r.size = WorkspaceSize(Tiling(call[c].job, n))
      /\ r.job = call[c].job /\ r.stream = call[c].stream
  BY <1>1, <1>3, <1>4 DEF CallType, Stages
<1>6. call' = [call EXCEPT ![c] = r]
  BY <1>0, <1>1 DEF AskSize, n
<1> HIDE DEF r
<1>7. /\ call' \in [Calls -> CallType] /\ call'[c] = r
      /\ \A d \in Calls : d # c => call'[d] = call[d]
  BY <1>1, <1>5, <1>6
<1>8. Suits(c)'
  BY <1>2, <1>3, <1>5, <1>7 DEF Suits, Asked, Accepts, Tiling
<1>9. \A d \in Calls : d # c => (Asked(d)' <=> Asked(d)) /\ (Suits(d)' <=> Suits(d))
  BY <1>7 DEF Suits, Asked, Accepts, Tiling
<1>10. ~Past(c)
  BY <1>1 DEF Past
<1>11. \A d \in Calls : Past(d) => Past(d)'
  BY <1>7, <1>9, <1>10 DEF Past
<1>12. UNCHANGED <<res, running, queue, inHand, order>>
  BY DEF AskSize
<1>13. TypeOK'
  BY <1>7, <1>12 DEF IInv, TypeOK
<1>14. /\ \A d \in Calls : call'[d].at # "none" => Asked(d)'
       /\ \A d \in Calls : call'[d].at \in Tiled => Suits(d)'
  BY <1>7, <1>8, <1>9 DEF IInv, Suits
<1> QED
  BY <1>11, <1>12, <1>13, <1>14 DEF IInv, TypeOK

\* A new call has no place in the queue or on a stream.
LEMMA BeginKeeps ==
  ASSUME IInv, NEW h \in Hosts, Begin(h)
  PROVE  IInv'
<1>0. PICK c \in Calls, j \in Jobs, s \in Streams : \E b \in Free(s) :
        /\ call[c].at = "none" /\ Accepts(j)
        /\ call' = [call EXCEPT ![c] = [NoCall EXCEPT !.at = "begun", !.job = j, !.stream = s,
                                                     !.tensors = {b}]]
        /\ running' = [running EXCEPT ![h] = c]
        /\ res' = [res EXCEPT ![h] = s]
  BY DEF Begin, UseStreamRes
<1>1. PICK b \in Free(s) :
        /\ call[c].at = "none" /\ Accepts(j)
        /\ call' = [call EXCEPT ![c] = [NoCall EXCEPT !.at = "begun", !.job = j, !.stream = s,
                                                     !.tensors = {b}]]
        /\ running' = [running EXCEPT ![h] = c]
        /\ res' = [res EXCEPT ![h] = s]
  BY <1>0
<1> DEFINE r == [NoCall EXCEPT !.at = "begun", !.job = j, !.stream = s, !.tensors = {b}]
<1>2. b \in Blocks
  BY DEF Free, Blocks
<1>3. r \in CallType /\ r.at = "begun" /\ r.job = j /\ r.stream = s
  BY <1>2 DEF CallType, Stages, NoCall, None
<1>4. call \in [Calls -> CallType] /\ call' = [call EXCEPT ![c] = r]
  BY <1>1 DEF IInv, TypeOK
<1> HIDE DEF r
<1>5. /\ call' \in [Calls -> CallType] /\ call'[c] = r
      /\ \A d \in Calls : d # c => call'[d] = call[d]
  BY <1>3, <1>4
<1>6. Asked(c)'
  BY <1>1, <1>3, <1>5 DEF Asked, Accepts
<1>7. \A d \in Calls : d # c => (Asked(d)' <=> Asked(d)) /\ (Suits(d)' <=> Suits(d))
  BY <1>5 DEF Suits, Asked, Accepts, Tiling
<1>8. \A d \in Calls : Past(d) => Past(d)'
  BY <1>1, <1>5, <1>7 DEF Past
<1>9. /\ \A d \in Calls : call'[d].at # "none" => Asked(d)'
      /\ \A d \in Calls : call'[d].at \in Tiled => Suits(d)'
  BY <1>3, <1>5, <1>6, <1>7 DEF IInv, Tiled
<1>10. UNCHANGED <<queue, inHand, order>>
  BY DEF Begin
<1>11. TypeOK'
  BY <1>1, <1>5, <1>10 DEF IInv, TypeOK, Threads
<1>12. \A g \in Hosts : running'[g] # None => res'[g] \in Streams
  BY <1>1 DEF IInv, TypeOK, Threads
<1> QED
  BY <1>8, <1>9, <1>10, <1>11, <1>12 DEF IInv, TypeOK

\* A thread goes on with its call.
LEMMA HostGoesOn ==
  ASSUME IInv, NEW h \in Hosts, Allocate(h) \/ Enqueue(h)
  PROVE  IInv'
<1>1. PICK c \in Calls : c = running[h]
  BY DEF IInv, TypeOK, Allocate, Enqueue
<1>2. call[c] \in CallType /\ call \in [Calls -> CallType]
  BY DEF IInv, TypeOK
<1>3. call[c].at \in {"sized", "ready"}
  BY <1>1 DEF Allocate, Enqueue
<1>4. Suits(c) /\ Past(c)
  BY <1>3 DEF IInv, Past, Tiled
<1>5. CASE Allocate(h)
  <2>1. PICK b \in Free(call[c].stream) :
          call' = [call EXCEPT ![c].at = "ready", ![c].workspace = {b}]
    BY <1>1, <1>5 DEF Allocate
  <2>2. b \in Blocks
    BY <1>4 DEF Suits, Asked, Free, Blocks
  <2> DEFINE r == [call[c] EXCEPT !.at = "ready", !.workspace = {b}]
  <2>3. /\ r \in CallType /\ r.at = "ready"
        /\ r.job = call[c].job /\ r.stream = call[c].stream
        /\ r.size = call[c].size /\ r.blocks = call[c].blocks
    BY <1>2, <2>2 DEF CallType, Stages
  <2>4. call' = [call EXCEPT ![c] = r]
    BY <1>2, <2>1
  <2> HIDE DEF r
  <2>5. /\ call' \in [Calls -> CallType]
        /\ \A d \in Calls : call'[d].at # "none" => Asked(d)'
        /\ \A d \in Calls : call'[d].at \in Tiled => Suits(d)'
        /\ \A d \in Calls : Past(d) => Past(d)'
    BY <1>3, <1>4, <2>3, <2>4, KeepsTiling
  <2>6. UNCHANGED <<res, running, queue, inHand, order>>
    BY <1>5 DEF Allocate
  <2>7. TypeOK'
    BY <2>5, <2>6 DEF IInv, TypeOK
  <2> QED
    BY <2>5, <2>6, <2>7 DEF IInv, TypeOK
<1>6. CASE Enqueue(h)
  <2> DEFINE r == [call[c] EXCEPT !.at = "queued"]
  <2>1. /\ r \in CallType /\ r.at = "queued"
        /\ r.job = call[c].job /\ r.stream = call[c].stream
        /\ r.size = call[c].size /\ r.blocks = call[c].blocks
    BY <1>2 DEF CallType, Stages
  <2>2. call' = [call EXCEPT ![c] = r]
    BY <1>1, <1>2, <1>6 DEF Enqueue
  <2> HIDE DEF r
  <2>3. /\ call' \in [Calls -> CallType]
        /\ \A d \in Calls : call'[d].at # "none" => Asked(d)'
        /\ \A d \in Calls : call'[d].at \in Tiled => Suits(d)'
        /\ \A d \in Calls : Past(d) => Past(d)'
    BY <1>3, <1>4, <2>1, <2>2, KeepsTiling
  <2>4. /\ UNCHANGED <<res, inHand, order>> /\ queue' = Append(queue, c)
        /\ running' = [running EXCEPT ![h] = None]
    BY <1>1, <1>6 DEF Enqueue
  <2>5. queue' \in Seq(Calls) /\ (\A i \in DOMAIN queue : Past(queue[i]))'
    <3>1. queue \in Seq(Calls) /\ \A i \in DOMAIN queue : Past(queue[i]) /\ queue[i] \in Calls
      BY DEF IInv, TypeOK
    <3>2. \A i \in DOMAIN queue' : \E d \in Calls : d = queue'[i] /\ Past(d)
      BY <1>4, <2>4, <3>1
    <3> QED
      BY <2>3, <2>4, <3>1, <3>2
  <2>6. TypeOK'
    BY <2>3, <2>4, <2>5 DEF IInv, TypeOK
  <2> QED
    BY <2>3, <2>4, <2>5, <2>6 DEF IInv, TypeOK
<1> QED
  BY <1>5, <1>6

\* The consumer moves the first call of the queue to its stream or drops it.
LEMMA ConsumerKeeps ==
  ASSUME IInv, Launch \/ LaunchFails
  PROVE  IInv'
<1>1. queue # << >> /\ queue \in Seq(Calls)
  BY DEF IInv, TypeOK, Launch, LaunchFails
<1>2. PICK c \in Calls : c = Head(queue) /\ Past(c)
  BY <1>1 DEF IInv
<1>3. call[c] \in CallType /\ call \in [Calls -> CallType]
  BY DEF IInv, TypeOK
<1>4. Suits(c) /\ call[c].at # "none" /\ call[c].stream \in Streams
  BY <1>2 DEF Past, Suits, Asked
<1> DEFINE s == call[c].stream
           given == CubeCores[res'[Consumer]]
<1>5. res' = [res EXCEPT ![Consumer] = s] /\ queue' = Tail(queue) /\ UNCHANGED running
  BY <1>2 DEF Launch, LaunchFails, UseStreamRes
<1>6. res' \in [Threads -> Streams \cup {NoStream}] /\ res'[Consumer] = s
  BY <1>4, <1>5 DEF IInv, TypeOK, Threads
<1>7. given \in Nat
  BY <1>4, <1>6, LaunchAssumption
<1>8. \A h \in Hosts : running'[h] # None => res'[h] \in Streams
  BY <1>5, LaunchAssumption DEF IInv, TypeOK, Threads
<1>9. \A i \in DOMAIN queue' : queue'[i] = queue[i + 1] /\ i + 1 \in DOMAIN queue
  BY <1>1, <1>5
<1>10. queue' \in Seq(Calls)
  BY <1>1, <1>5
<1>11. CASE Launch
  <2> DEFINE r == [call[c] EXCEPT !.at = "sent", !.given = given]
  <2>1. call' = [call EXCEPT ![c] = r]
    BY <1>2, <1>3, <1>11 DEF Launch
  <2> HIDE DEF given
  <2>2. /\ r \in CallType /\ r.at = "sent"
        /\ r.job = call[c].job /\ r.stream = call[c].stream
        /\ r.size = call[c].size /\ r.blocks = call[c].blocks
    BY <1>3, <1>7 DEF CallType, Stages
  <2> HIDE DEF r
  <2>3. /\ call' \in [Calls -> CallType]
        /\ \A d \in Calls : call'[d].at # "none" => Asked(d)'
        /\ \A d \in Calls : call'[d].at \in Tiled => Suits(d)'
        /\ \A d \in Calls : Past(d) => Past(d)'
    BY <1>4, <2>1, <2>2, KeepsTiling
  <2>4. order' = [order EXCEPT ![s] = Append(@, c)] /\ inHand' = c
    BY <1>2, <1>11 DEF Launch
  <2>5. order \in [Streams -> Seq(Calls)]
    BY DEF IInv, TypeOK
  <2>6. order' \in [Streams -> Seq(Calls)]
    BY <1>4, <2>4, <2>5
  <2>7. ASSUME NEW t \in Streams, NEW i \in DOMAIN order'[t]
        PROVE  \E d \in Calls : d = order'[t][i] /\ Past(d)
    <3>1. order[t] \in Seq(Calls) /\ \A k \in DOMAIN order[t] : Past(order[t][k])
      BY <2>5 DEF IInv
    <3>2. CASE t = s
      BY <1>2, <2>4, <2>5, <3>1, <3>2
    <3>3. CASE t # s
      BY <2>4, <2>5, <3>1, <3>3
    <3> QED
      BY <3>2, <3>3
  <2>8. TypeOK'
    BY <1>5, <1>6, <1>10, <2>3, <2>4, <2>6 DEF IInv, TypeOK
  <2> QED
    BY <1>1, <1>2, <1>8, <1>9, <2>3, <2>4, <2>7, <2>8 DEF IInv, TypeOK
<1>12. CASE LaunchFails
  <2> DEFINE r == [call[c] EXCEPT !.at = "broken"]
  <2>1. call' = [call EXCEPT ![c] = r] /\ UNCHANGED <<inHand, order>>
    BY <1>2, <1>3, <1>12 DEF LaunchFails
  <2>2. /\ r \in CallType /\ r.at = "broken"
        /\ r.job = call[c].job /\ r.stream = call[c].stream
        /\ r.size = call[c].size /\ r.blocks = call[c].blocks
    BY <1>3 DEF CallType, Stages
  <2> HIDE DEF r
  <2>3. /\ call' \in [Calls -> CallType]
        /\ \A d \in Calls : call'[d].at # "none" => Asked(d)'
        /\ \A d \in Calls : call'[d].at \in Tiled => Suits(d)'
        /\ \A d \in Calls : Past(d) => Past(d)'
    BY <1>4, <2>1, <2>2, KeepsTiling
  <2>4. TypeOK'
    BY <1>5, <1>6, <1>10, <2>1, <2>3 DEF IInv, TypeOK
  <2> QED
    BY <1>1, <1>8, <1>9, <2>1, <2>3, <2>4 DEF IInv, TypeOK
<1> QED
  BY <1>11, <1>12

\* The kernel that ends was tiled like the others.
LEMMA KernelEndKeeps ==
  ASSUME IInv, NEW s \in Streams, KernelEnd(s)
  PROVE  IInv'
<1>1. order \in [Streams -> Seq(Calls)] /\ order[s] # << >>
  BY DEF IInv, TypeOK, KernelEnd
<1>2. PICK c \in Calls : c = Head(order[s]) /\ Past(c)
  BY <1>1 DEF IInv
<1>3. call[c] \in CallType /\ call \in [Calls -> CallType]
  BY DEF IInv, TypeOK
<1>4. Suits(c) /\ call[c].at # "none"
  BY <1>2 DEF Past, Suits
<1> DEFINE r == [call[c] EXCEPT !.at = "done"]
<1>5. /\ call' = [call EXCEPT ![c] = r] /\ order' = [order EXCEPT ![s] = Tail(@)]
      /\ UNCHANGED <<res, running, queue, inHand>>
  BY <1>2, <1>3 DEF KernelEnd
<1>6. /\ r \in CallType /\ r.at = "done"
      /\ r.job = call[c].job /\ r.stream = call[c].stream
      /\ r.size = call[c].size /\ r.blocks = call[c].blocks
  BY <1>3 DEF CallType, Stages
<1> HIDE DEF r
<1>7. /\ call' \in [Calls -> CallType]
      /\ \A d \in Calls : call'[d].at # "none" => Asked(d)'
      /\ \A d \in Calls : call'[d].at \in Tiled => Suits(d)'
      /\ \A d \in Calls : Past(d) => Past(d)'
  BY <1>4, <1>5, <1>6, KeepsTiling
<1>8. order' \in [Streams -> Seq(Calls)]
  BY <1>1, <1>5
<1>9. ASSUME NEW t \in Streams, NEW i \in DOMAIN order'[t]
      PROVE  \E d \in Calls : d = order'[t][i] /\ Past(d)
  <2>1. order[t] \in Seq(Calls) /\ \A k \in DOMAIN order[t] : Past(order[t][k])
    BY <1>1 DEF IInv
  <2>2. CASE t = s
    <3>1. order'[t] = Tail(order[t])
      BY <1>1, <1>5, <2>2
    <3>2. order'[t][i] = order[t][i + 1] /\ i + 1 \in DOMAIN order[t]
      BY <1>1, <2>1, <2>2, <3>1
    <3> QED
      BY <2>1, <3>2
  <2>3. CASE t # s
    BY <1>1, <1>5, <2>1, <2>3
  <2> QED
    BY <2>2, <2>3
<1>10. TypeOK'
  BY <1>5, <1>7, <1>8 DEF IInv, TypeOK
<1> QED
  BY <1>5, <1>7, <1>9, <1>10 DEF IInv, TypeOK

\* Nothing else touches a call.
LEMMA OthersKeep ==
  ASSUME IInv, (\E c \in Calls : Drop(c)) \/ Release \/ UNCHANGED vars
  PROVE  IInv'
<1>1. UNCHANGED <<res, running, call, queue, order>> /\ inHand' \in {inHand, None}
  BY DEF Drop, Release, vars
<1>2. \A c \in Calls : (Asked(c)' <=> Asked(c)) /\ (Suits(c)' <=> Suits(c)) /\ (Past(c)' <=> Past(c))
  BY <1>1 DEF Asked, Suits, Past, Accepts, Tiling
<1>3. TypeOK'
  BY <1>1 DEF IInv, TypeOK
<1> QED
  BY <1>1, <1>2, <1>3 DEF IInv, TypeOK

\* Every step keeps it.
LEMMA StepInv == IInv /\ [Next]_vars => IInv'
<1> SUFFICES ASSUME IInv, [Next]_vars
             PROVE  IInv'
  OBVIOUS
<1>1. ASSUME NEW h \in Hosts, HostStep(h) PROVE IInv'
  <2>1. CASE Begin(h)
    BY <2>1, BeginKeeps
  <2>2. CASE AskSize(h)
    BY <2>2, AskSizeKeeps
  <2>3. CASE SizeFails(h) \/ OutOfMemory(h)
    BY <2>3, ThrowsKeeps DEF SizeFails, OutOfMemory
  <2>4. CASE Allocate(h) \/ Enqueue(h)
    BY <2>4, HostGoesOn
  <2> QED
    BY <1>1, <2>1, <2>2, <2>3, <2>4 DEF HostStep
<1>2. CASE Consume
  BY <1>2, ConsumerKeeps, OthersKeep DEF Consume
<1>3. ASSUME NEW s \in Streams, KernelEnd(s) PROVE IInv'
  BY <1>3, KernelEndKeeps
<1>4. CASE (\E c \in Calls : Drop(c)) \/ UNCHANGED vars
  BY <1>4, OthersKeep
<1> QED
  BY <1>1, <1>2, <1>3, <1>4 DEF Next

\* A kernel that was launched got the workspace its own tiling needs.
LEMMA InvFits == IInv => RegionsFit
<1> SUFFICES ASSUME IInv, NEW c \in Calls, call[c].at \in {"sent", "done"}
             PROVE  Fits(Tiling(call[c].job, call[c].blocks), call[c].size)
  BY DEF RegionsFit
<1>1. Suits(c)
  BY DEF IInv, Tiled
<1> QED
  BY <1>1, AcceptedServed, ServedFits DEF Suits, Asked

\* As long as the operators are called through their adapters, no region of a
\* kernel overlaps another or ends behind the workspace of its call.
THEOREM RegionsFitHolds == Spec => []RegionsFit
<1>1. Spec => []IInv
  BY InitInv, StepInv, PTL DEF Spec
<1> QED
  BY <1>1, InvFits, PTL

-----------------------------------------------------------------------------
(* Who owns which memory.                                                  *)

InHost == {"begun", "sized", "ready"}

\* A call in progress is in one thread, whose caller keeps the tensors.
OneThread ==
  /\ \A h \in Hosts : running[h] # None => call[running[h]].at \in InHost
  /\ \A g, h \in Hosts : running[g] # None /\ running[g] = running[h] => g = h
  /\ \A c \in Calls : call[c].at \in InHost => InCall(c) /\ c \in held

\* A call has one place in the queue, then one on its stream.
OnePlace ==
  /\ \A i \in DOMAIN queue : call[queue[i]].at = "queued"
  /\ \A i, j \in DOMAIN queue : queue[i] = queue[j] => i = j
  /\ \A s \in Streams : \A i \in DOMAIN order[s] :
       call[order[s][i]].at = "sent" /\ call[order[s][i]].stream = s
  /\ \A s \in Streams : \A i, j \in DOMAIN order[s] : order[s][i] = order[s][j] => i = j
  /\ inHand # None => call[inHand].at \in {"sent", "done"}

\* Every call is at one place, so one party answers for its memory, its
\* descriptors and its huge memory.
Owned == TypeOK /\ OneThread /\ OnePlace /\ OwnMemory /\ LeaksOnlyOnThrow

\* What the tail of a queue of calls holds.
LEMMA TailHolds ==
  ASSUME NEW q \in Seq(Calls), q # << >>, NEW i \in DOMAIN Tail(q)
  PROVE  i \in Nat \ {0} /\ i + 1 \in DOMAIN q /\ Tail(q)[i] = q[i + 1] /\ q[i + 1] \in Calls
OBVIOUS

\* Nothing is owned before anything is launched.
LEMMA InitOwned == Init => Owned
<1> SUFFICES ASSUME Init PROVE Owned
  OBVIOUS
<1>1. TypeOK
  BY InitInv DEF IInv
<1>2. \A c \in Calls : call[c].at = "none" /\ ~Waiting(c)
  BY DEF Init, NoCall, Waiting, Calls, None
<1>3. OneThread /\ OnePlace
  BY <1>2 DEF Init, OneThread, OnePlace, InHost
<1>4. OwnMemory /\ LeaksOnlyOnThrow
  BY <1>2 DEF Init, OwnMemory, LeaksOnlyOnThrow
<1> QED
  BY <1>1, <1>3, <1>4 DEF Owned

\* What a waiting call still needs is kept by the caller, the running call or
\* the closure, so the allocator does not hand it out.
LEMMA WaitingKeepsMemory ==
  ASSUME Owned, NEW c \in Calls, Waiting(c), NEW s, NEW b \in Free(s)
  PROVE  b \notin call[c].tensors \cup call[c].workspace
<1>1. call[c].at \in InHost => InCall(c) /\ c \in held
  BY DEF Owned, OneThread
<1>2. call[c].tensors \cup call[c].workspace \subseteq Memory(c)
  BY <1>1 DEF Waiting, InHost, Memory, InClosure, Captured
<1> QED
  BY <1>2 DEF Free

\* The tensors and workspaces of the waiting calls stay apart while no call
\* begins to wait or gets memory.
LEMMA MemoryKept ==
  ASSUME OwnMemory,
         \A c \in Calls : /\ call'[c].tensors = call[c].tensors
                          /\ call'[c].workspace = call[c].workspace
                          /\ Waiting(c)' => Waiting(c)
  PROVE  OwnMemory'
BY DEF OwnMemory

\* A call that has not got into the queue changes alone.
LEMMA PlaceKept ==
  ASSUME Owned, NEW c \in Calls, call[c].at \notin {"queued", "sent", "done"},
         \A d \in Calls : d # c => call'[d] = call[d],
         UNCHANGED <<queue, inHand, order>>
  PROVE  OnePlace'
<1>1. /\ queue \in Seq(Calls) /\ order \in [Streams -> Seq(Calls)]
      /\ inHand \in Calls \cup {None}
  BY DEF Owned, TypeOK
<1>2. \A i \in DOMAIN queue : call'[queue[i]].at = "queued"
  BY <1>1 DEF Owned, OnePlace
<1>3. \A s \in Streams : \A i \in DOMAIN order[s] :
        call'[order[s][i]].at = "sent" /\ call'[order[s][i]].stream = s
  BY <1>1 DEF Owned, OnePlace
<1>4. inHand # None => call'[inHand].at \in {"sent", "done"}
  BY <1>1 DEF Owned, OnePlace
<1> QED
  BY <1>2, <1>3, <1>4 DEF Owned, OnePlace

\* A launch that begins gets memory nobody owns.
LEMMA BeginOwned ==
  ASSUME Owned, TypeOK', NEW h \in Hosts, Begin(h)
  PROVE  Owned'
<1>1. PICK c \in Calls, s \in Streams : \E b \in Free(s) : \E r \in CallType :
        /\ call[c].at = "none" /\ r.at = "begun" /\ r.tensors = {b} /\ r.workspace = {}
        /\ call' = [call EXCEPT ![c] = r] /\ running' = [running EXCEPT ![h] = c]
        /\ held' = held \cup {c} /\ desc' = desc \cup {c}
  <2>1. PICK c \in Calls, j \in Jobs, s \in Streams : \E b \in Free(s) :
          /\ call[c].at = "none"
          /\ call' = [call EXCEPT ![c] = [NoCall EXCEPT !.at = "begun", !.job = j, !.stream = s,
                                                       !.tensors = {b}]]
          /\ running' = [running EXCEPT ![h] = c]
          /\ held' = held \cup {c} /\ desc' = desc \cup {c}
    BY Zenon DEF Begin, Converted
  <2>2. PICK b \in Free(s) :
          /\ call[c].at = "none"
          /\ call' = [call EXCEPT ![c] = [NoCall EXCEPT !.at = "begun", !.job = j, !.stream = s,
                                                       !.tensors = {b}]]
          /\ running' = [running EXCEPT ![h] = c]
          /\ held' = held \cup {c} /\ desc' = desc \cup {c}
    BY <2>1, Zenon
  <2> DEFINE r == [NoCall EXCEPT !.at = "begun", !.job = j, !.stream = s, !.tensors = {b}]
  <2>3. b \in Blocks
    BY DEF Free, Blocks
  <2>4. r \in CallType /\ r.at = "begun" /\ r.tensors = {b} /\ r.workspace = {}
    BY <2>3 DEF CallType, Stages, NoCall, None
  <2> QED
    BY <2>2, <2>4
<1>2. PICK b \in Free(s), r \in CallType :
        /\ call[c].at = "none" /\ r.at = "begun" /\ r.tensors = {b} /\ r.workspace = {}
        /\ call' = [call EXCEPT ![c] = r] /\ running' = [running EXCEPT ![h] = c]
        /\ held' = held \cup {c} /\ desc' = desc \cup {c}
  BY <1>1
<1>3. /\ running[h] = None /\ huge' = huge \cup {h} /\ UNCHANGED <<queue, inHand, order>>
      /\ call \in [Calls -> CallType] /\ running \in [Hosts -> Calls \cup {None}]
      /\ queue \in Seq(Calls) /\ order \in [Streams -> Seq(Calls)]
      /\ inHand \in Calls \cup {None} /\ None \notin Calls
  BY DEF Begin, Owned, TypeOK, Calls, None
<1>4. call'[c] = r /\ \A d \in Calls : d # c => call'[d] = call[d]
  BY <1>2, <1>3
<1>5. /\ running'[h] = c /\ \A g \in Hosts : g # h => running'[g] = running[g] /\ running[g] # c
  BY <1>2, <1>3 DEF Owned, OneThread, InHost
<1>6. inHand # c /\ \A d \in Calls : d # c => (Waiting(d)' <=> Waiting(d))
  BY <1>2, <1>3, <1>4 DEF Waiting, Owned, OnePlace
<1>7. ~Waiting(c) /\ Waiting(c)'
  BY <1>2, <1>3, <1>4, <1>6 DEF Waiting
<1>8. OneThread'
  <2>1. \A g \in Hosts : running'[g] # None => call'[running'[g]].at \in InHost
    BY <1>2, <1>3, <1>4, <1>5 DEF Owned, OneThread, InHost
  <2>2. \A f, g \in Hosts : running'[f] # None /\ running'[f] = running'[g] => f = g
    BY <1>5 DEF Owned, OneThread
  <2>3. \A d \in Calls : d # c /\ InCall(d) => InCall(d)'
    BY <1>3, <1>5 DEF InCall
  <2>4. \A d \in Calls : call'[d].at \in InHost => InCall(d)' /\ d \in held'
    BY <1>2, <1>4, <1>5, <2>3 DEF InCall, Owned, OneThread
  <2> QED
    BY <2>1, <2>2, <2>4 DEF OneThread
<1>9. OnePlace'
  BY <1>2, <1>3, <1>4, <1>6 DEF Owned, OnePlace
<1>10. OwnMemory'
  <2>1. \A d \in Calls : d # c /\ Waiting(d) => b \notin call[d].tensors \cup call[d].workspace
    BY WaitingKeepsMemory
  <2> QED
    BY <1>2, <1>4, <1>6, <2>1 DEF Owned, OwnMemory
<1>11. LeaksOnlyOnThrow'
  <2>1. desc' = {d \in Calls : Waiting(d)' \/ call'[d].at \in {"threw", "broken"}}
    BY <1>2, <1>4, <1>6, <1>7 DEF Owned, LeaksOnlyOnThrow
  <2>2. \A g \in huge' : running'[g] # None \/ \E d \in Calls : call'[d].at = "threw"
    BY <1>2, <1>3, <1>4 DEF Owned, LeaksOnlyOnThrow
  <2>3. \A g \in Hosts : running'[g] # None => g \in huge'
    BY <1>3, <1>5 DEF Owned, LeaksOnlyOnThrow
  <2> QED
    BY <2>1, <2>2, <2>3 DEF LeaksOnlyOnThrow
<1> QED
  BY <1>8, <1>9, <1>10, <1>11 DEF Owned
\* A thread that goes on with its call keeps everything the call has.
LEMMA HostOwned ==
  ASSUME Owned, TypeOK', NEW h \in Hosts, AskSize(h) \/ Allocate(h)
  PROVE  Owned'
<1>1. PICK c \in Calls : c = running[h] /\ call[c].at \in InHost
  BY DEF Owned, TypeOK, AskSize, Allocate, InHost
<1>2. /\ call[c] \in CallType /\ call \in [Calls -> CallType]
      /\ queue \in Seq(Calls) /\ order \in [Streams -> Seq(Calls)]
      /\ inHand \in Calls \cup {None} /\ running \in [Hosts -> Calls \cup {None}]
  BY DEF Owned, TypeOK
<1>3. UNCHANGED <<running, held, desc, huge, queue, inHand, order>>
  BY DEF AskSize, Allocate
<1>4. /\ call'[c].at \in InHost /\ call'[c].stream = call[c].stream
      /\ call'[c].tensors = call[c].tensors
      /\ \A d \in Calls : d # c => call'[d] = call[d]
  <2>1. CASE AskSize(h)
    BY <1>1, <1>2, <2>1 DEF AskSize, CallType, InHost
  <2>2. CASE Allocate(h)
    <3>1. PICK b \in Free(call[c].stream) :
            call' = [call EXCEPT ![c].at = "ready", ![c].workspace = {b}]
      BY <1>1, <2>2 DEF Allocate
    <3> QED
      BY <1>2, <3>1 DEF CallType, InHost
  <2> QED
    BY <2>1, <2>2
<1>5. \A d \in Calls : Waiting(d)' <=> Waiting(d)
  BY <1>1, <1>3, <1>4 DEF Waiting, InHost
<1>6. OneThread' /\ OnePlace'
  <2>1. OneThread'
    BY <1>1, <1>2, <1>3, <1>4 DEF Owned, OneThread, InCall
  <2>2. OnePlace'
    BY <1>1, <1>3, <1>4, PlaceKept DEF InHost
  <2> QED
    BY <2>1, <2>2
<1>7. LeaksOnlyOnThrow'
  BY <1>1, <1>3, <1>4, <1>5 DEF Owned, LeaksOnlyOnThrow, InHost
<1>8. CASE AskSize(h)
  <2>1. call'[c].workspace = call[c].workspace
    BY <1>1, <1>2, <1>8 DEF AskSize, CallType
  <2>2. OwnMemory'
    BY <1>4, <1>5, <2>1, MemoryKept DEF Owned
  <2> QED
    BY <1>6, <1>7, <2>2 DEF Owned
<1>9. CASE Allocate(h)
  <2>1. PICK b \in Free(call[c].stream) :
          call' = [call EXCEPT ![c].at = "ready", ![c].workspace = {b}]
    BY <1>1, <1>9 DEF Allocate
  <2>2. call'[c].workspace = {b}
    BY <1>2, <2>1 DEF CallType
  <2>3. \A d \in Calls : Waiting(d) => b \notin call[d].tensors \cup call[d].workspace
    BY WaitingKeepsMemory
  <2>4. Waiting(c)
    BY <1>1 DEF Waiting, InHost
  <2>5. OwnMemory'
    BY <1>4, <1>5, <2>2, <2>3, <2>4 DEF Owned, OwnMemory
  <2> QED
    BY <1>6, <1>7, <2>5 DEF Owned
<1> QED
  BY <1>8, <1>9

\* A call that fails leaves its thread, but neither its descriptors nor the huge
\* memory.
LEMMA ThrowsOwned ==
  ASSUME Owned, TypeOK', NEW h \in Hosts, running[h] # None, Throws(h)
  PROVE  Owned'
<1>1. PICK c \in Calls : c = running[h] /\ call[c].at \in InHost
  BY DEF Owned, TypeOK, OneThread
<1>2. /\ call[c] \in CallType /\ call \in [Calls -> CallType]
      /\ queue \in Seq(Calls) /\ order \in [Streams -> Seq(Calls)]
      /\ inHand \in Calls \cup {None} /\ running \in [Hosts -> Calls \cup {None}]
  BY DEF Owned, TypeOK
<1>3. UNCHANGED <<held, desc, huge, queue, inHand, order>> /\ running' = [running EXCEPT ![h] = None]
  BY DEF Throws
<1>4. /\ call'[c].at = "threw" /\ call'[c].tensors = call[c].tensors
      /\ call'[c].workspace = call[c].workspace
      /\ \A d \in Calls : d # c => call'[d] = call[d]
  BY <1>1, <1>2 DEF Throws, CallType
<1>5. inHand # c /\ Waiting(c) /\ ~Waiting(c)' /\ \A d \in Calls : d # c => (Waiting(d)' <=> Waiting(d))
  BY <1>1, <1>3, <1>4 DEF Waiting, InHost, Owned, OnePlace
<1>6. running'[h] = None /\ \A g \in Hosts : g # h => running'[g] = running[g] /\ running[g] # c
  BY <1>1, <1>2, <1>3 DEF Owned, OneThread, Calls, None
<1>7. \A d \in Calls : d # c /\ InCall(d) => InCall(d)'
  BY <1>1, <1>6 DEF InCall
<1>8. OneThread'
  <2>1. \A g \in Hosts : running'[g] # None =>
          running'[g] = running[g] /\ running[g] \in Calls \ {c} /\ call'[running[g]] = call[running[g]]
    BY <1>2, <1>4, <1>6
  <2>2. \A g \in Hosts : running'[g] # None => call'[running'[g]].at \in InHost
    BY <2>1 DEF Owned, OneThread
  <2>3. \A f, g \in Hosts : running'[f] # None /\ running'[f] = running'[g] => f = g
    BY <2>1 DEF Owned, OneThread
  <2>4. \A d \in Calls : call'[d].at \in InHost => InCall(d)' /\ d \in held'
    BY <1>3, <1>4, <1>7 DEF Owned, OneThread, InHost
  <2> QED
    BY <2>2, <2>3, <2>4 DEF OneThread
<1>9. OnePlace'
  BY <1>1, <1>3, <1>4, PlaceKept DEF InHost
<1>10. OwnMemory'
  BY <1>4, <1>5, MemoryKept DEF Owned
<1>11. LeaksOnlyOnThrow'
  <2>1. desc' = {d \in Calls : Waiting(d)' \/ call'[d].at \in {"threw", "broken"}}
    BY <1>3, <1>4, <1>5 DEF Owned, LeaksOnlyOnThrow
  <2> QED
    BY <1>3, <1>4, <1>6, <2>1 DEF Owned, LeaksOnlyOnThrow
<1> QED
  BY <1>8, <1>9, <1>10, <1>11 DEF Owned

\* The closure takes over from the thread.
LEMMA EnqueueOwned ==
  ASSUME Owned, TypeOK', NEW h \in Hosts, Enqueue(h)
  PROVE  Owned'
<1>1. PICK c \in Calls : c = running[h] /\ call[c].at = "ready"
  BY DEF Owned, TypeOK, Enqueue
<1>2. /\ call[c] \in CallType /\ call \in [Calls -> CallType]
      /\ queue \in Seq(Calls) /\ order \in [Streams -> Seq(Calls)]
      /\ inHand \in Calls \cup {None} /\ running \in [Hosts -> Calls \cup {None}]
  BY DEF Owned, TypeOK
<1>3. /\ UNCHANGED <<held, desc, inHand, order>> /\ running' = [running EXCEPT ![h] = None]
      /\ queue' = Append(queue, c) /\ huge' = huge \ {h}
  BY <1>1 DEF Enqueue
<1>4. /\ call'[c].at = "queued" /\ call'[c].tensors = call[c].tensors
      /\ call'[c].workspace = call[c].workspace
      /\ \A d \in Calls : d # c => call'[d] = call[d]
  BY <1>1, <1>2 DEF Enqueue, CallType
<1>5. inHand # c /\ \A d \in Calls : Waiting(d)' <=> Waiting(d)
  <2>1. inHand # c
    BY <1>1, <1>2 DEF Owned, OnePlace, Calls, None
  <2> QED
    BY <1>1, <1>3, <1>4, <2>1 DEF Waiting
<1>6. running'[h] = None /\ \A g \in Hosts : g # h => running'[g] = running[g] /\ running[g] # c
  BY <1>1, <1>2, <1>3 DEF Owned, OneThread, Calls, None, Enqueue
<1>7. \A d \in Calls : d # c /\ InCall(d) => InCall(d)'
  BY <1>1, <1>6 DEF InCall
<1>8. OneThread'
  <2>1. \A g \in Hosts : running'[g] # None => call'[running'[g]].at \in InHost
    BY <1>2, <1>4, <1>6 DEF Owned, OneThread
  <2>2. \A f, g \in Hosts : running'[f] # None /\ running'[f] = running'[g] => f = g
    BY <1>6 DEF Owned, OneThread
  <2>3. \A d \in Calls : call'[d].at \in InHost => InCall(d)' /\ d \in held'
    BY <1>3, <1>4, <1>7 DEF Owned, OneThread, InHost
  <2> QED
    BY <2>1, <2>2, <2>3 DEF OneThread
<1>9. OnePlace'
  <2>1. \A i \in DOMAIN queue : queue[i] # c
    BY <1>1 DEF Owned, OnePlace
  <2>2. /\ DOMAIN queue' = 1 .. Len(queue) + 1 /\ queue'[Len(queue) + 1] = c
        /\ \A i \in DOMAIN queue : queue'[i] = queue[i]
        /\ DOMAIN queue = 1 .. Len(queue)
    BY <1>2, <1>3
  <2>3. \A i \in DOMAIN queue' : call'[queue'[i]].at = "queued"
    BY <1>2, <1>4, <2>2 DEF Owned, OnePlace
  <2>4. \A i, j \in DOMAIN queue' : queue'[i] = queue'[j] => i = j
    BY <1>2, <2>1, <2>2 DEF Owned, OnePlace
  <2>5. \A s \in Streams : \A i \in DOMAIN order[s] :
          call'[order[s][i]].at = "sent" /\ call'[order[s][i]].stream = s
    BY <1>1, <1>2, <1>4 DEF Owned, OnePlace
  <2>6. inHand # None => call'[inHand].at \in {"sent", "done"}
    BY <1>2, <1>4, <1>5 DEF Owned, OnePlace
  <2> QED
    BY <1>3, <2>3, <2>4, <2>5, <2>6 DEF Owned, OnePlace
<1>10. OwnMemory'
  BY <1>4, <1>5, MemoryKept DEF Owned
<1>11. LeaksOnlyOnThrow'
  <2>1. desc' = {d \in Calls : Waiting(d)' \/ call'[d].at \in {"threw", "broken"}}
    BY <1>1, <1>3, <1>4, <1>5 DEF Owned, LeaksOnlyOnThrow
  <2> QED
    BY <1>1, <1>3, <1>4, <1>6, <2>1 DEF Owned, LeaksOnlyOnThrow
<1> QED
  BY <1>8, <1>9, <1>10, <1>11 DEF Owned


\* The caller drops only what a call that has returned does not need.
LEMMA DropOwned ==
  ASSUME Owned, TypeOK', NEW c \in Calls, Drop(c)
  PROVE  Owned'
<1>1. /\ UNCHANGED <<res, running, call, desc, huge, queue, inHand, order>>
      /\ held' = held \ {c} /\ ~InCall(c)
  BY DEF Drop
<1>2. \A d \in Calls : (Waiting(d)' <=> Waiting(d)) /\ (InCall(d)' <=> InCall(d))
  BY <1>1 DEF Waiting, InCall
<1>3. OneThread' /\ OnePlace'
  BY <1>1, <1>2 DEF Owned, OneThread, OnePlace
<1>4. OwnMemory' /\ LeaksOnlyOnThrow'
  BY <1>1, <1>2 DEF Owned, OwnMemory, LeaksOnlyOnThrow
<1> QED
  BY <1>3, <1>4 DEF Owned

\* The first call leaves the queue, for the hand of the consumer and its stream
\* or for good.
LEMMA ConsumerOwned ==
  ASSUME Owned, TypeOK', Launch \/ LaunchFails
  PROVE  Owned'
<1>1. /\ queue # << >> /\ inHand = None /\ queue' = Tail(queue)
      /\ UNCHANGED <<running, held, desc, huge>>
  BY DEF Launch, LaunchFails
<1>2. /\ call \in [Calls -> CallType]
      /\ queue \in Seq(Calls) /\ order \in [Streams -> Seq(Calls)]
      /\ running \in [Hosts -> Calls \cup {None}] /\ None \notin Calls
  BY DEF Owned, TypeOK, Calls, None
<1>3. PICK c \in Calls : c = Head(queue)
  BY <1>1, <1>2
<1>4. call[c] \in CallType /\ call[c].at = "queued" /\ \A i \in DOMAIN queue' : queue'[i] # c
  <2>1. queue[1] = c /\ 1 \in DOMAIN queue
    BY <1>1, <1>2, <1>3
  <2>2. \A i \in DOMAIN queue' : i \in Nat /\ i # 0 /\ queue'[i] = queue[i + 1] /\ i + 1 \in DOMAIN queue
    BY <1>1, <1>2
  <2> QED
    BY <1>2, <2>1, <2>2 DEF Owned, OnePlace
<1>5. /\ call'[c].at \in {"sent", "broken"} /\ call'[c].stream = call[c].stream
      /\ call'[c].tensors = call[c].tensors /\ call'[c].workspace = call[c].workspace
      /\ \A d \in Calls : d # c => call'[d] = call[d]
  <2>1. CASE Launch
    BY <1>2, <1>3, <1>4, <2>1 DEF Launch, CallType
  <2>2. CASE LaunchFails
    BY <1>2, <1>3, <1>4, <2>2 DEF LaunchFails, CallType
  <2> QED
    BY <2>1, <2>2
<1>6. /\ \A i \in DOMAIN queue' : call'[queue'[i]].at = "queued"
      /\ \A i, j \in DOMAIN queue' : queue'[i] = queue'[j] => i = j
  <2>1. \A i \in DOMAIN queue' :
          i \in Nat /\ queue'[i] = queue[i + 1] /\ i + 1 \in DOMAIN queue /\ queue[i + 1] \in Calls
    BY <1>1, <1>2
  <2>2. \A i \in DOMAIN queue' : call'[queue'[i]].at = "queued"
    BY <1>4, <1>5, <2>1 DEF Owned, OnePlace
  <2>3. \A i, j \in DOMAIN queue' : queue'[i] = queue'[j] => i = j
    BY <2>1 DEF Owned, OnePlace
  <2> QED
    BY <2>2, <2>3
<1>7. OneThread'
  <2>1. \A d \in Calls : InCall(d)' <=> InCall(d)
    BY <1>1 DEF InCall
  <2>2. \A h \in Hosts : running[h] # c
    BY <1>2, <1>4 DEF Owned, OneThread, InHost
  <2>3. \A h \in Hosts : running[h] # None => call'[running[h]].at \in InHost
    BY <1>2, <1>5, <2>2 DEF Owned, OneThread
  <2>4. \A d \in Calls : call'[d].at \in InHost => InCall(d) /\ d \in held
    BY <1>5 DEF Owned, OneThread, InHost
  <2> QED
    BY <1>1, <2>1, <2>3, <2>4 DEF Owned, OneThread
<1>8. \A s \in Streams : \A i \in DOMAIN order[s] :
        /\ order[s][i] \in Calls /\ order[s][i] # c
        /\ call'[order[s][i]].at = "sent" /\ call'[order[s][i]].stream = s
  BY <1>2, <1>4, <1>5 DEF Owned, OnePlace
<1>9. Waiting(c)
  BY <1>4 DEF Waiting
<1>10. CASE Launch
  <2>1. /\ inHand' = c /\ call'[c].at = "sent"
        /\ order' = [order EXCEPT ![call[c].stream] = Append(@, c)]
    BY <1>2, <1>3, <1>10 DEF Launch, CallType
  <2>2. Waiting(c)' /\ \A d \in Calls : d # c => (Waiting(d)' <=> Waiting(d))
    BY <1>1, <1>2, <1>5, <2>1 DEF Waiting
  <2>3. ASSUME NEW s \in Streams
        PROVE  /\ \A i \in DOMAIN order'[s] :
                    call'[order'[s][i]].at = "sent" /\ call'[order'[s][i]].stream = s
               /\ \A i, j \in DOMAIN order'[s] : order'[s][i] = order'[s][j] => i = j
    <3>1. CASE s # call[c].stream
      <4>1. order'[s] = order[s]
        BY <1>2, <2>1, <3>1
      <4> QED
        BY <1>8, <4>1 DEF Owned, OnePlace
    <3>2. CASE s = call[c].stream
      <4>1. order[s] \in Seq(Calls) /\ order'[s] = Append(order[s], c)
        BY <1>2, <2>1, <3>2
      <4>2. /\ DOMAIN order'[s] = 1 .. Len(order[s]) + 1 /\ order'[s][Len(order[s]) + 1] = c
            /\ \A i \in DOMAIN order[s] : order'[s][i] = order[s][i]
            /\ DOMAIN order[s] = 1 .. Len(order[s]) /\ Len(order[s]) \in Nat
        BY <4>1
      <4>3. \A i \in DOMAIN order'[s] : i \in DOMAIN order[s] \/ i = Len(order[s]) + 1
        BY <4>2
      <4>4. \A i \in DOMAIN order'[s] :
              call'[order'[s][i]].at = "sent" /\ call'[order'[s][i]].stream = s
        BY <1>5, <1>8, <2>1, <3>2, <4>2, <4>3
      <4>5. \A i, j \in DOMAIN order'[s] : order'[s][i] = order'[s][j] => i = j
        BY <1>8, <4>2, <4>3 DEF Owned, OnePlace
      <4> QED
        BY <4>4, <4>5
    <3> QED
      BY <3>1, <3>2
  <2>4. OnePlace'
    BY <1>6, <2>1, <2>3 DEF OnePlace
  <2>5. OwnMemory'
    BY <1>5, <1>9, <2>2, MemoryKept DEF Owned
  <2>6. LeaksOnlyOnThrow'
    BY <1>1, <1>4, <1>5, <1>9, <2>1, <2>2 DEF Owned, LeaksOnlyOnThrow
  <2> QED
    BY <1>7, <2>4, <2>5, <2>6 DEF Owned
<1>11. CASE LaunchFails
  <2>1. UNCHANGED <<inHand, order>> /\ call'[c].at = "broken"
    BY <1>2, <1>3, <1>11 DEF LaunchFails, CallType
  <2>2. ~Waiting(c)' /\ \A d \in Calls : d # c => (Waiting(d)' <=> Waiting(d))
    BY <1>1, <1>2, <1>5, <2>1 DEF Waiting
  <2>3. OnePlace'
    BY <1>1, <1>6, <1>8, <2>1 DEF Owned, OnePlace
  <2>4. OwnMemory'
    BY <1>5, <2>2, MemoryKept DEF Owned
  <2>5. LeaksOnlyOnThrow'
    BY <1>1, <1>4, <1>5, <1>9, <2>1, <2>2 DEF Owned, LeaksOnlyOnThrow
  <2> QED
    BY <1>7, <2>3, <2>4, <2>5 DEF Owned
<1> QED
  BY <1>10, <1>11

\* The closure ends after the launch: the call waits for nothing any more.
LEMMA ReleaseOwned ==
  ASSUME Owned, TypeOK', Release
  PROVE  Owned'
<1>1. PICK c \in Calls : c = inHand
  BY DEF Owned, TypeOK, Release
<1>2. /\ UNCHANGED <<res, running, call, held, huge, queue, order>>
      /\ inHand' = None /\ desc' = desc \ {c} /\ c # None /\ None \notin Calls
  BY <1>1 DEF Release, Released, Calls, None
<1>3. call[c].at \in {"sent", "done"}
  BY <1>1, <1>2 DEF Owned, OnePlace
<1>4. ~Waiting(c)' /\ \A d \in Calls : d # c => (Waiting(d)' <=> Waiting(d))
  BY <1>1, <1>2, <1>3 DEF Waiting
<1>5. OneThread' /\ OnePlace'
  BY <1>2 DEF Owned, OneThread, OnePlace, InCall
<1>6. OwnMemory'
  BY <1>2, <1>4, MemoryKept DEF Owned
<1>7. LeaksOnlyOnThrow'
  BY <1>2, <1>3, <1>4 DEF Owned, LeaksOnlyOnThrow
<1> QED
  BY <1>5, <1>6, <1>7 DEF Owned

\* A kernel ends on the stream its call was made for.
LEMMA KernelEndOwned ==
  ASSUME Owned, TypeOK', NEW s \in Streams, KernelEnd(s)
  PROVE  Owned'
<1>1. /\ call \in [Calls -> CallType]
      /\ queue \in Seq(Calls) /\ order \in [Streams -> Seq(Calls)]
      /\ running \in [Hosts -> Calls \cup {None}] /\ inHand \in Calls \cup {None}
  BY DEF Owned, TypeOK
<1>2. /\ order[s] # << >> /\ order[s] \in Seq(Calls)
      /\ order' = [order EXCEPT ![s] = Tail(@)]
      /\ UNCHANGED <<res, running, held, desc, huge, queue, inHand>>
  BY <1>1 DEF KernelEnd
<1>3. PICK c \in Calls : c = Head(order[s])
  BY <1>2
<1>4. 1 \in DOMAIN order[s] /\ order[s][1] = c
  BY <1>2, <1>3
<1>5. call[c] \in CallType /\ call[c].at = "sent" /\ call[c].stream = s
  BY <1>1, <1>4 DEF Owned, OnePlace
<1>6. /\ call'[c].at = "done" /\ call'[c].tensors = call[c].tensors
      /\ call'[c].workspace = call[c].workspace
      /\ \A d \in Calls : d # c => call'[d] = call[d]
  BY <1>1, <1>3, <1>5 DEF KernelEnd, CallType
<1>7. \A d \in Calls : Waiting(d)' <=> Waiting(d)
  BY <1>2, <1>5, <1>6 DEF Waiting
<1>8. OneThread'
  <2>1. \A d \in Calls : InCall(d)' <=> InCall(d)
    BY <1>2 DEF InCall
  <2>2. \A h \in Hosts : running[h] # None => call'[running[h]].at \in InHost
    BY <1>1, <1>5, <1>6 DEF Owned, OneThread, InHost
  <2>3. \A d \in Calls : call'[d].at \in InHost => InCall(d) /\ d \in held
    BY <1>6 DEF Owned, OneThread, InHost
  <2> QED
    BY <1>2, <2>1, <2>2, <2>3 DEF Owned, OneThread
<1>9. OnePlace'
  <2>1. ASSUME NEW i \in DOMAIN queue PROVE call'[queue[i]].at = "queued"
    <3>1. queue[i] \in Calls
      BY <1>1
    <3>2. call[queue[i]].at = "queued"
      BY DEF Owned, OnePlace
    <3>3. queue[i] # c
      BY <1>5, <3>2
    <3> QED
      BY <1>6, <3>1, <3>2, <3>3
  <2>2. inHand # None => call'[inHand].at \in {"sent", "done"}
    BY <1>1, <1>6 DEF Owned, OnePlace
  <2>3. ASSUME NEW t \in Streams
        PROVE  /\ \A i \in DOMAIN order'[t] :
                    call'[order'[t][i]].at = "sent" /\ call'[order'[t][i]].stream = t
               /\ \A i, j \in DOMAIN order'[t] : order'[t][i] = order'[t][j] => i = j
    <3>1. CASE t # s
      <4>1. order'[t] = order[t] /\ \A i \in DOMAIN order[t] : order[t][i] \in Calls
        BY <1>1, <1>2, <3>1
      <4>2. \A i \in DOMAIN order[t] : order[t][i] # c
        BY <1>5, <3>1 DEF Owned, OnePlace
      <4>3. \A i \in DOMAIN order[t] : call'[order[t][i]] = call[order[t][i]]
        BY <1>6, <4>1, <4>2
      <4>4. /\ \A i \in DOMAIN order[t] : call[order[t][i]].at = "sent" /\ call[order[t][i]].stream = t
            /\ \A i, j \in DOMAIN order[t] : order[t][i] = order[t][j] => i = j
        BY DEF Owned, OnePlace
      <4> QED
        BY <4>1, <4>3, <4>4
    <3>2. CASE t = s
      <4>1. order'[s] = Tail(order[s])
        BY <1>1, <1>2
      <4>2. \A i \in DOMAIN order'[s] :
              /\ i \in Nat \ {0} /\ i + 1 \in DOMAIN order[s]
              /\ order'[s][i] = order[s][i + 1] /\ order[s][i + 1] \in Calls
        BY <1>2, <4>1, TailHolds
      <4>3. \A i \in DOMAIN order'[s] : order[s][i + 1] # c
        <5>1. \A i, j \in DOMAIN order[s] : order[s][i] = order[s][j] => i = j
          BY DEF Owned, OnePlace
        <5>2. \A i \in DOMAIN order'[s] : i + 1 \in DOMAIN order[s] /\ i + 1 # 1
          BY <4>2
        <5> QED
          BY <1>4, <5>1, <5>2
      <4>4. \A i \in DOMAIN order'[s] :
              call'[order'[s][i]].at = "sent" /\ call'[order'[s][i]].stream = s
        BY <1>6, <4>2, <4>3 DEF Owned, OnePlace
      <4>5. \A i, j \in DOMAIN order'[s] : order'[s][i] = order'[s][j] => i = j
        BY <4>2 DEF Owned, OnePlace
      <4> QED
        BY <3>2, <4>4, <4>5
    <3> QED
      BY <3>1, <3>2
  <2> QED
    BY <1>2, <2>1, <2>2, <2>3 DEF Owned, OnePlace
<1>10. OwnMemory'
  BY <1>6, <1>7, MemoryKept DEF Owned
<1>11. LeaksOnlyOnThrow'
  <2>1. \A d \in Calls : call'[d].at \in {"threw", "broken"} <=> call[d].at \in {"threw", "broken"}
    BY <1>5, <1>6
  <2>2. \A d \in Calls : call'[d].at = "threw" <=> call[d].at = "threw"
    BY <1>5, <1>6
  <2> QED
    BY <1>2, <1>7, <2>1, <2>2 DEF Owned, LeaksOnlyOnThrow
<1> QED
  BY <1>8, <1>9, <1>10, <1>11 DEF Owned

\* Every step keeps Owned.
LEMMA StepOwned == Owned /\ TypeOK' /\ [Next]_vars => Owned'
<1> SUFFICES ASSUME Owned, TypeOK', [Next]_vars
             PROVE  Owned'
  OBVIOUS
<1>1. ASSUME NEW h \in Hosts, HostStep(h) PROVE Owned'
  <2>1. CASE Begin(h)
    BY <2>1, BeginOwned
  <2>2. CASE AskSize(h) \/ Allocate(h)
    BY <2>2, HostOwned
  <2>3. CASE SizeFails(h) \/ OutOfMemory(h)
    BY <2>3, ThrowsOwned DEF SizeFails, OutOfMemory
  <2>4. CASE Enqueue(h)
    BY <2>4, EnqueueOwned
  <2> QED
    BY <1>1, <2>1, <2>2, <2>3, <2>4 DEF HostStep
<1>2. CASE Consume
  BY <1>2, ConsumerOwned, ReleaseOwned DEF Consume
<1>3. ASSUME NEW c \in Calls, Drop(c) PROVE Owned'
  BY <1>3, DropOwned
<1>4. ASSUME NEW s \in Streams, KernelEnd(s) PROVE Owned'
  BY <1>4, KernelEndOwned
<1>5. CASE UNCHANGED vars
  <2>1. \A c \in Calls : Waiting(c)' <=> Waiting(c)
    BY <1>5 DEF Waiting, vars
  <2>2. OneThread' /\ OnePlace'
    BY <1>5 DEF Owned, OneThread, OnePlace, InCall, vars
  <2>3. OwnMemory' /\ LeaksOnlyOnThrow'
    BY <1>5, <2>1 DEF Owned, OwnMemory, LeaksOnlyOnThrow, vars
  <2> QED
    BY <2>2, <2>3 DEF Owned
<1> QED
  BY <1>1, <1>2, <1>3, <1>4, <1>5 DEF Next

\* So it holds throughout.
LEMMA OwnedAlways == Spec => []Owned
<1>1. IInv => TypeOK
  BY DEF IInv
<1> QED
  BY <1>1, InitInv, StepInv, InitOwned, StepOwned, PTL DEF Spec

\* However calling threads, the queue, the streams and the allocator interleave,
\* no two calls that still wait for their launch share a block.
THEOREM OwnMemoryHolds == Spec => []OwnMemory
BY OwnedAlways, PTL DEF Owned

\* Nothing of a call stays behind unless it or its launch failed.
THEOREM LeaksOnlyOnThrowHolds == Spec => []LeaksOnlyOnThrow
BY OwnedAlways, PTL DEF Owned
=============================================================================
