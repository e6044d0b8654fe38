--------------------------- MODULE MCCacheUpdate ---------------------------
(* Instances of CacheUpdate for TLC. *)
EXTENDS CacheUpdate

CONSTANT FirstRows    \* how the caller may have filled the first row

MCInit == Init /\ (FirstRows = "prefix" => \A t \in 0 .. C - 1 : row[t] = t)
MCSpec == MCInit /\ [][Next]_vars /\ WF_vars(Work)

\* Entries a row may hold for a token that is not cached.
OnlyNone == {-1}
\* The one-based free-slot binding of the last slot next to the empty marker,
\* which is also the binding of the first one.
FreeBindings == {-C, -1}
\* The other empty marker named by FinishPayload: -65536, whose low bits are
\* all zero.
ZeroFieldMarker == {-1, -SlotField}
=============================================================================
