------------------------- MODULE MCCacheUpdateInv --------------------------
(* The instances of CacheUpdate whose packed slot field is wide enough.    *)
EXTENDS MCCacheUpdate, CacheUpdateInv
=============================================================================
