--------------------------- MODULE CrossCorePipe ---------------------------
(***************************************************************************)
(* The hand-over of matmul results inside one AI core: the cube core (AIC) *)
(* writes the result of chunk l into half l % 2 of mm1ResGm, the even one  *)
(* of its two vector cores (AIV) reads it, and cross-core flags order the  *)
(* two (ProcessChunk, ProcessMain and ProcessBalancedMain of               *)
(* fused_li_manage_kernel.h).                                              *)
(*                                                                         *)
(* A flag is a counter.  The cube core's flag goes to both vector cores,   *)
(* and its own wait needs a flag from each.  The scalar units run ahead of *)
(* the copy pipes: a wait stops the scalar unit, while a flag is raised    *)
(* when the pipe it is queued on has finished what was queued before it.   *)
(* Flags survive the end of a launch.                                      *)
(***************************************************************************)
EXTENDS Integers

CONSTANT MaxChunks    \* bound on the chunks a core gets in a launch

ASSUME BoundAssumption == MaxChunks \in Nat

None == -1
Halves == 0 .. 1
Vectors == 0 .. 1        \* the sub-block numbers of the two AIVs
Reader == 0              \* the odd AIV returns from ProcessVec at once

HalfSingle(l) == 0       \* mutant: one half for all chunks
Half(l) == l % 2

VARIABLES
  work,       \* chunks of this core in this launch
  flagged,    \* whether the launch gets as far as raising flags
  pc,         \* pc[v]: where AIV v is
  credit,     \* credit[v]: syncV1C1 flags of AIV v the cube core has not used
  ready,      \* ready[v]: syncC1V1 flags AIV v has not used
  issued,     \* chunks whose wait the cube core has passed
  written,    \* chunks whose result is complete (PIPE_FIX)
  writing,    \* PIPE_FIX is writing result number written
  drained,    \* closing waits the cube core has passed
  taken,      \* taken[v]: chunks whose wait AIV v has passed
  released,   \* released[v]: chunks AIV v has finished with (PIPE_MTE2)
  reading,    \* PIPE_MTE2 of the reader is copying result released[Reader]
  half        \* half[h]: the chunk of this launch whose result it holds

vars == <<work, flagged, pc, credit, ready, issued, written, writing, drained,
          taken, released, reading, half>>

cubeVars == <<issued, written, writing, drained, half>>
vectorVars == <<pc, taken, released, reading>>

\* What a launch may bring: a core without chunks skips the flags in balanced
\* mode; in local mode it raises and drains them all the same.
Shares == {s \in (0 .. MaxChunks) \X BOOLEAN : s[1] > 0 => s[2]}

Init ==
  /\ \E s \in Shares : work = s[1] /\ flagged = s[2]
  /\ pc = [v \in Vectors |-> "start"]
  /\ credit = [v \in Vectors |-> 0] /\ ready = [v \in Vectors |-> 0]
  /\ issued = 0 /\ written = 0 /\ writing = FALSE /\ drained = 0
  /\ taken = [v \in Vectors |-> 0] /\ released = [v \in Vectors |-> 0]
  /\ reading = FALSE
  /\ half = [h \in Halves |-> None]

-----------------------------------------------------------------------------
(* The vector cores.                                                       *)

\* Both halves are free at first.
OpeningFlagsThree == 3    \* mutant: one flag more than there are halves
OpeningFlagsOne == 1      \* mutant: one flag less
OpeningFlags == 2

Open(v) ==
  /\ pc[v] = "start"
  /\ pc' = [pc EXCEPT ![v] = "loop"]
  /\ credit' = [credit EXCEPT ![v] = @ + (IF flagged THEN OpeningFlags ELSE 0)]
  /\ UNCHANGED <<work, flagged, ready, cubeVars, taken, released, reading>>

\* CrossCoreWaitFlag(syncC1V1)
AwaitResult(v) ==
  /\ pc[v] = "loop" /\ taken[v] < work /\ ready[v] > 0
  /\ ready' = [ready EXCEPT ![v] = @ - 1]
  /\ taken' = [taken EXCEPT ![v] = @ + 1]
  /\ UNCHANGED <<work, flagged, pc, credit, cubeVars, released, reading>>

\* AIV v has finished with a chunk, and PIPE_MTE2 raises syncV1C1.
Release(v) ==
  /\ released' = [released EXCEPT ![v] = @ + 1]
  /\ credit' = [credit EXCEPT ![v] = @ + 1]
  /\ UNCHANGED <<work, flagged, pc, ready, cubeVars, taken>>

\* ProcessVec of the even AIV copies the result in, bank by bank.
BeginRead ==
  /\ ~reading /\ released[Reader] < taken[Reader]
  /\ reading' = TRUE
  /\ UNCHANGED <<work, flagged, pc, credit, ready, cubeVars, taken, released>>

EndRead ==
  /\ reading /\ reading' = FALSE
  /\ Release(Reader)

\* The odd AIV only passes the flag on.
PassOn(v) ==
  /\ v # Reader /\ released[v] < taken[v]
  /\ Release(v) /\ UNCHANGED reading

Close(v) ==
  /\ pc[v] = "loop" /\ taken[v] = work /\ released[v] = work
  /\ pc' = [pc EXCEPT ![v] = "done"]
  /\ UNCHANGED <<work, flagged, credit, ready, cubeVars, taken, released, reading>>

-----------------------------------------------------------------------------
(* The cube core.                                                          *)

\* CrossCoreWaitFlag(syncV1C1): one flag of each AIV.
SpendCreditFirst ==    \* mutant: waits for one AIV only
  /\ \E v \in Vectors : credit[v] > 0
  /\ credit' = [v \in Vectors |-> IF credit[v] > 0 THEN credit[v] - 1 ELSE 0]
SpendCredit ==
  /\ \A v \in Vectors : credit[v] > 0
  /\ credit' = [v \in Vectors |-> credit[v] - 1]

Issue ==
  /\ issued < work
  /\ SpendCredit
  /\ issued' = issued + 1
  /\ UNCHANGED <<work, flagged, ready, written, writing, drained, half, vectorVars>>

\* Fixp writes the result block by block.
BeginWrite ==
  /\ ~writing /\ written < issued
  /\ writing' = TRUE
  /\ half' = [half EXCEPT ![Half(written)] = None]
  /\ UNCHANGED <<work, flagged, credit, ready, issued, written, drained, vectorVars>>

EndWrite ==
  /\ writing /\ writing' = FALSE
  /\ half' = [half EXCEPT ![Half(written)] = written]
  /\ written' = written + 1
  /\ ready' = [v \in Vectors |-> ready[v] + 1]
  /\ UNCHANGED <<work, flagged, credit, issued, drained, vectorVars>>

\* Two closing waits take the flags no chunk will use.
ClosingWaitsOne == IF flagged THEN 1 ELSE 0    \* mutant: one wait left out
ClosingWaits == IF flagged THEN 2 ELSE 0

Drain ==
  /\ issued = work /\ drained < ClosingWaits
  /\ SpendCredit
  /\ drained' = drained + 1
  /\ UNCHANGED <<work, flagged, ready, issued, written, writing, half, vectorVars>>

-----------------------------------------------------------------------------
CubeDone == issued = work /\ written = work /\ drained = ClosingWaits
LaunchDone == CubeDone /\ \A v \in Vectors : pc[v] = "done"

\* The next kernel on this core; its flags are those the last one left.
Launch ==
  /\ LaunchDone
  /\ \E s \in Shares : work' = s[1] /\ flagged' = s[2]
  /\ pc' = [v \in Vectors |-> "start"]
  /\ issued' = 0 /\ written' = 0 /\ drained' = 0
  /\ taken' = [v \in Vectors |-> 0] /\ released' = [v \in Vectors |-> 0]
  /\ half' = [h \in Halves |-> None]
  /\ UNCHANGED <<credit, ready, writing, reading>>

Vector(v) == Open(v) \/ AwaitResult(v) \/ PassOn(v) \/ Close(v)
Copy == BeginRead \/ EndRead
Cube == Issue \/ Drain
Fix == BeginWrite \/ EndWrite

Next == Launch \/ Cube \/ Fix \/ Copy \/ \E v \in Vectors : Vector(v)

Spec == Init /\ [][Next]_vars

\* Every unit keeps executing what is queued on it.
FairSpec ==
  Spec /\ WF_vars(Cube) /\ WF_vars(Fix) /\ WF_vars(Copy)
       /\ \A v \in Vectors : WF_vars(Vector(v))

-----------------------------------------------------------------------------
(* Properties.                                                             *)

TypeOK ==
  /\ work \in 0 .. MaxChunks /\ flagged \in BOOLEAN
  /\ pc \in [Vectors -> {"start", "loop", "done"}]
  /\ credit \in [Vectors -> Nat] /\ ready \in [Vectors -> Nat]
  /\ issued \in 0 .. work /\ written \in 0 .. work
  /\ writing \in BOOLEAN /\ drained \in 0 .. 2
  /\ taken \in [Vectors -> 0 .. work] /\ released \in [Vectors -> 0 .. work]
  /\ reading \in BOOLEAN
  /\ half \in [Halves -> (0 .. MaxChunks - 1) \cup {None}]

\* While the even AIV copies the result of a chunk, that half of the buffer
\* holds exactly this result: the cube core has finished writing it and has
\* not begun to write the chunk after next, however far it runs ahead.
ReadsItsChunk ==
  reading => half[Half(released[Reader])] = released[Reader]

\* A flag counter never holds more than two flags, one for each half of the
\* buffer, whichever core runs ahead.
FlagsBounded ==
  \A v \in Vectors : credit[v] <= 2 /\ ready[v] <= 2

\* A launch leaves no flag behind: the next kernel on this core would take it
\* for one of its own.
FlagsDrained ==
  LaunchDone => \A v \in Vectors : credit[v] = 0 /\ ready[v] = 0

\* Every launch ends: cube and vector cores never wait for each other.
LaunchEnds == []<>LaunchDone

\* Why the flags are enough.  A flag of AIV v is either still there, or was
\* spent on a chunk AIV v has yet to finish, or was drained; and the results
\* that wait to be read are all still in the buffer.
FlagsOf(v) == IF pc[v] = "start" \/ ~flagged THEN 0 ELSE 2

FlagsAddUp ==
  /\ work > 0 => flagged
  /\ drained > 0 => issued = work /\ flagged
  /\ writing => written < issued
  /\ reading => released[Reader] < taken[Reader]
  /\ written <= issued
  /\ \A v \in Vectors :
        /\ released[v] <= taken[v] /\ taken[v] <= written
        /\ credit[v] = FlagsOf(v) + released[v] - issued - drained
        /\ ready[v] = written - taken[v]
        /\ pc[v] = "start" => taken[v] = 0
        /\ pc[v] = "done" => released[v] = work

ResultsKept == \A l \in released[Reader] .. written - 1 : half[Half(l)] = l

Accounting == TypeOK /\ FlagsAddUp /\ ResultsKept

\* The halves behave like a queue of whole results.
Waiting ==
  [i \in 1 .. written - released[Reader] |-> half[Half(released[Reader] + i - 1)]]

Queue == INSTANCE ResultQueue WITH
           Depth <- 2, size <- work, sent <- written, queue <- Waiting

QueueKept == Queue!Spec
=============================================================================
