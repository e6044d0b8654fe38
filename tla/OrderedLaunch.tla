---------------------------- MODULE OrderedLaunch ----------------------------
(***************************************************************************)
(* One call of an operator on the host, from the torch adapter to the      *)
(* kernel (EXEC_NPU_CMD_ORDERED in op_api_common.h).  The calling thread   *)
(* converts the tensors to descriptors, asks for the size of the           *)
(* workspace, allocates it and hands a closure to the queue of torch_npu;  *)
(* the thread of the queue launches the kernel later and gives the         *)
(* descriptors back.  Memory belongs to whatever still refers to it: the   *)
(* caller, the running call, the closure.                                  *)
(*                                                                         *)
(* Queue, streams, allocator and the limit of cores that belongs to a      *)
(* stream are external: the queue and a stream run first things first, the *)
(* allocator keeps free blocks by stream, and a thread sees the limit of   *)
(* the stream whose resources it has taken last.                           *)
(***************************************************************************)
EXTENDS WorkspaceLayout, Sequences

CONSTANTS
  Hosts,      \* calling threads
  Consumer,   \* the thread of the queue
  Streams,
  MaxCalls,   \* bound on the calls
  Pool,       \* Pool[s]: memory blocks of stream s
  CubeCores,  \* CubeCores[s]: cube cores stream s may use
  Jobs        \* shapes callers ask for: [mtp, heads, batch, capacity]

ASSUME LaunchAssumption ==
  /\ Consumer \notin Hosts /\ MaxCalls \in Nat
  /\ CubeCores \in [Streams -> Nat \ {0}]
  /\ Jobs \subseteq [mtp : BOOLEAN, heads : Nat, batch : Nat \ {0}, capacity : Nat \ {0}]
  /\ \A s, t \in Streams : s # t => Pool[s] \cap Pool[t] = {}

Calls == 1 .. MaxCalls
Threads == Hosts \cup {Consumer}
None == 0             \* no call; no block, no size yet
NoStream == "none"

VARIABLES
  res,        \* res[t]: the stream whose resources thread t uses
  running,    \* running[h]: the call thread h is in
  call,       \* call[c]: its progress, its memory and its launch
  held,       \* calls whose tensors the caller refers to
  desc,       \* calls whose descriptors are not destroyed
  huge,       \* threads that have not undone InitHugeMemThreadLocal
  queue,      \* closures in the queue, first one first
  inHand,     \* the closure the consumer runs, once it has launched the kernel
  order       \* order[s]: kernels launched on stream s and not finished

vars == <<res, running, call, held, desc, huge, queue, inHand, order>>

NoCall == [at |-> "none", job |-> None, stream |-> NoStream, tensors |-> {}, workspace |-> {},
           size |-> None, blocks |-> None, given |-> None]

Init ==
  /\ res = [t \in Threads |-> NoStream]
  /\ running = [h \in Hosts |-> None]
  /\ call = [c \in Calls |-> NoCall]
  /\ held = {} /\ desc = {} /\ huge = {}
  /\ queue = << >> /\ inHand = None
  /\ order = [s \in Streams |-> << >>]

-----------------------------------------------------------------------------
(* Who keeps the memory of a call.                                         *)

\* The closure lives in the queue and until the consumer is done with it.
InClosure(c) == call[c].at = "queued" \/ inHand = c
InCall(c) == \E h \in Hosts : running[h] = c

\* It captures the keepalive tuple of the adapter and the workspace tensor.
CapturedAddresses(c) == {}    \* mutant: EXEC_NPU_CMD, which captures only addresses
Captured(c) == call[c].tensors \cup call[c].workspace

Memory(c) ==
  (IF c \in held THEN call[c].tensors ELSE {})
    \cup (IF InCall(c) THEN call[c].workspace ELSE {})
    \cup (IF InClosure(c) THEN Captured(c) ELSE {})

Free(s) == Pool[s] \ UNION {Memory(c) : c \in Calls}

\* The call fails with an exception: what it has created stays behind.
Throws(h) ==
  /\ call' = [call EXCEPT ![running[h]].at = "threw"]
  /\ running' = [running EXCEPT ![h] = None]
  /\ UNCHANGED <<res, held, desc, huge, queue, inHand, order>>

-----------------------------------------------------------------------------
(* The calling thread.                                                     *)

\* The adapters' TORCH_CHECKs.
AcceptsAnyHeads(j) == j.heads \in {32, 64}    \* mutant: those of CheckShape
Accepts(j) == IF j.mtp THEN j.heads = 32 ELSE j.heads \in {32, 64}

\* UseStreamResIfNeeded, on either side of the queue.
UseStreamResOnce(t, s) ==     \* mutant: only a thread that has used none yet
  res' = [res EXCEPT ![t] = IF @ = NoStream THEN s ELSE @]
UseStreamRes(t, s) == res' = [res EXCEPT ![t] = s]

\* ConvertTypes: a descriptor for every tensor.
Converted(c) == desc \cup {c}

\* Thread h, on stream s, calls an operator with tensors in block b.
Begin(h) ==
  /\ running[h] = None
  /\ \E c \in Calls, j \in Jobs, s \in Streams : \E b \in Free(s) :
       /\ call[c].at = "none" /\ \A d \in 1 .. c - 1 : call[d].at # "none"
       /\ Accepts(j)
       /\ call' = [call EXCEPT ![c] = [NoCall EXCEPT !.at = "begun", !.job = j, !.stream = s,
                                                    !.tensors = {b}]]
       /\ running' = [running EXCEPT ![h] = c]
       /\ held' = held \cup {c} /\ desc' = Converted(c)
       /\ UseStreamRes(h, s)
  /\ huge' = huge \cup {h}
  /\ UNCHANGED <<queue, inHand, order>>

\* GetWorkspaceSize runs the tiling of the host for the cores h may use ...
RowsOf(j) == IF j.mtp THEN Routes * j.batch ELSE j.batch
Tiling(j, cores) == [mtp |-> j.mtp, heads |-> j.heads, cores |-> cores,
                     batch |-> j.batch, capacity |-> j.capacity]
AskSize(h) ==
  /\ running[h] # None /\ call[running[h]].at = "begun"
  /\ LET c == running[h]
         blocks == UsedCores(RowsOf(call[c].job), CubeCores[res[h]])
     IN call' = [call EXCEPT ![c].at = "sized", ![c].blocks = blocks,
                             ![c].size = WorkspaceSize(Tiling(call[c].job, blocks))]
  /\ UNCHANGED <<res, running, held, desc, huge, queue, inHand, order>>

\* ... or fails.
SizeFails(h) == running[h] # None /\ call[running[h]].at = "begun" /\ Throws(h)

\* at::empty takes a free block of the stream ...
Allocate(h) ==
  /\ running[h] # None /\ call[running[h]].at = "sized"
  /\ \E b \in Free(call[running[h]].stream) :
       call' = [call EXCEPT ![running[h]].at = "ready", ![running[h]].workspace = {b}]
  /\ UNCHANGED <<res, running, held, desc, huge, queue, inHand, order>>

\* ... or throws when there is none.
OutOfMemory(h) ==
  /\ running[h] # None /\ call[running[h]].at = "sized"
  /\ Free(call[running[h]].stream) = {}
  /\ Throws(h)

\* RunOpApiV2, UnInitHugeMemThreadLocal, and the return to the caller.
Enqueue(h) ==
  /\ running[h] # None /\ call[running[h]].at = "ready"
  /\ queue' = Append(queue, running[h])
  /\ call' = [call EXCEPT ![running[h]].at = "queued"]
  /\ running' = [running EXCEPT ![h] = None]
  /\ huge' = huge \ {h}
  /\ UNCHANGED <<res, held, desc, inHand, order>>

\* The caller lets go of the tensors of a call that has returned.
Drop(c) ==
  /\ c \in held /\ ~InCall(c)
  /\ held' = held \ {c}
  /\ UNCHANGED <<res, running, call, desc, huge, queue, inHand, order>>

-----------------------------------------------------------------------------
(* The consumer of the queue and the streams.                              *)

\* The closure takes the resources of its stream and launches the kernel ...
Launch ==
  /\ inHand = None /\ queue # << >>
  /\ LET c == Head(queue) s == call[c].stream
     IN /\ UseStreamRes(Consumer, s)
        /\ call' = [call EXCEPT ![c].at = "sent", ![c].given = CubeCores[res'[Consumer]]]
        /\ order' = [order EXCEPT ![s] = Append(@, c)]
        /\ inHand' = c
  /\ queue' = Tail(queue)
  /\ UNCHANGED <<running, held, desc, huge>>

\* ... or the entry point fails, and the exception skips what follows.
LaunchFails ==
  /\ inHand = None /\ queue # << >>
  /\ UseStreamRes(Consumer, call[Head(queue)].stream)
  /\ call' = [call EXCEPT ![Head(queue)].at = "broken"]
  /\ queue' = Tail(queue)
  /\ UNCHANGED <<running, held, desc, huge, inHand, order>>

\* ReleaseConvertTypes, ReleaseHugeMem, and the end of the closure.
ReleasedNone(c) == desc    \* mutant: the closure keeps them
Released(c) == desc \ {c}
Release ==
  /\ inHand # None
  /\ desc' = Released(inHand) /\ inHand' = None
  /\ UNCHANGED <<res, running, call, held, huge, queue, order>>

\* The first kernel of a stream ends.  Its blocks meet in barriers (SyncAll):
\* they get through only when all of them have a core.
KernelEnd(s) ==
  /\ order[s] # << >>
  /\ call[Head(order[s])].blocks <= call[Head(order[s])].given
  /\ call' = [call EXCEPT ![Head(order[s])].at = "done"]
  /\ order' = [order EXCEPT ![s] = Tail(@)]
  /\ UNCHANGED <<res, running, held, desc, huge, queue, inHand>>

HostStep(h) ==
  Begin(h) \/ AskSize(h) \/ SizeFails(h) \/ Allocate(h) \/ OutOfMemory(h) \/ Enqueue(h)
Consume == Launch \/ LaunchFails \/ Release

Next ==
  \/ \E h \in Hosts : HostStep(h)
  \/ \E c \in Calls : Drop(c)
  \/ Consume
  \/ \E s \in Streams : KernelEnd(s)

\* The consumer works as long as there is something in the queue, the device as
\* long as there is something on the stream; callers owe nothing.
Spec ==
  /\ Init /\ [][Next]_vars
  /\ WF_vars(Consume) /\ \A s \in Streams : WF_vars(KernelEnd(s))

-----------------------------------------------------------------------------
(* Properties.                                                             *)

\* Until its kernel is launched, the tensors and the workspace of a call belong
\* to no other call that is also waiting, whatever the callers have dropped: the
\* keepalive tuple of the adapters and the workspace tensor in the closure.
Waiting(c) == call[c].at \in {"begun", "sized", "ready", "queued"} \/ inHand = c
OwnMemory ==
  \A c, d \in Calls :
    c # d /\ Waiting(c) /\ Waiting(d) =>
      (call[c].tensors \cup call[c].workspace) \cap (call[d].tensors \cup call[d].workspace) = {}

\* Descriptors and the huge memory of a thread outlive a call only when it threw:
\* TORCH_CHECK leaves the macro without ReleaseConvertTypes and UnInitHugeMem.
LeaksOnlyOnThrow ==
  /\ desc = {c \in Calls : Waiting(c) \/ call[c].at \in {"threw", "broken"}}
  /\ \A h \in huge : running[h] # None \/ \E c \in Calls : call[c].at = "threw"
  /\ \A h \in Hosts : running[h] # None => h \in huge

\* A kernel finds its regions, placed by its own constants for the blocks it was
\* launched with, inside the workspace its host thread asked for.
RegionsFit ==
  \A c \in Calls :
    call[c].at \in {"sent", "done"} => Fits(Tiling(call[c].job, call[c].blocks), call[c].size)

\* Every call that got into the queue runs to its end or fails at the launch: the
\* tiling sees the cores of the stream the kernel runs on, so no barrier hangs.
EveryLaunchRuns ==
  \A c \in Calls : call[c].at = "queued" ~> call[c].at \in {"done", "broken"}
=============================================================================
