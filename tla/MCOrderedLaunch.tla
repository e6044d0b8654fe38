--------------------------- MODULE MCOrderedLaunch ---------------------------
(* Two calling threads over a stream with few cores and one with more.      *)
EXTENDS OrderedLaunch

MCPool == [s \in Streams |-> IF s = "few" THEN {1, 2, 3} ELSE {4, 5, 6}]
MCCubeCores == [s \in Streams |-> IF s = "few" THEN 2 ELSE 3]

\* fused_li_manage with the most heads, MTP with those its adapter asks for and
\* with those CheckShape would let pass; rows that fill the cores and some more.
MCJobs ==
  {[mtp |-> FALSE, heads |-> 64, batch |-> 2, capacity |-> 640],
   [mtp |-> TRUE, heads |-> 32, batch |-> 1, capacity |-> 2048],
   [mtp |-> TRUE, heads |-> 64, batch |-> 1, capacity |-> 2048]}
==============================================================================
