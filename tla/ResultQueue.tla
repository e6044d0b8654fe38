---------------------------- MODULE ResultQueue ----------------------------
(* What the cube core and the vector core of a launch rely on when they    *)
(* exchange matmul results: a bounded queue of whole results, taken out in *)
(* the order they were put in, empty again when the next launch begins.    *)
EXTENDS Integers, Sequences

CONSTANTS
  Depth,       \* results that fit
  MaxChunks    \* bound on the chunks of a launch

VARIABLES
  size,        \* chunks of the launch
  queue,       \* results put in and not yet taken out
  sent         \* results put in during the launch

vars == <<size, queue, sent>>

Init == size \in 0 .. MaxChunks /\ queue = << >> /\ sent = 0

\* The cube core finishes the next chunk.
Put ==
  /\ sent < size /\ Len(queue) < Depth
  /\ queue' = Append(queue, sent) /\ sent' = sent + 1
  /\ UNCHANGED size

\* The vector core has read the oldest result.
Take ==
  /\ queue # << >>
  /\ queue' = Tail(queue)
  /\ UNCHANGED <<size, sent>>

Launch ==
  /\ sent = size /\ queue = << >>
  /\ size' \in 0 .. MaxChunks /\ sent' = 0
  /\ UNCHANGED queue

Next == Put \/ Take \/ Launch

Spec == Init /\ [][Next]_vars
=============================================================================
