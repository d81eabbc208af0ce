-------------------------- MODULE MCFlashAndCache --------------------------
(* flash(), or the cache of hashes: the two do not meet, so a behaviour is  *)
(* one of either, chosen at the start, while the other part is not used.    *)
EXTENDS MCGroupFlash, MCMd5Cache

VARIABLE part   \* which of the two: "flash", "cache"

MCInit == Init /\ CacheInit /\ part \in {"flash", "cache"}

MCNext ==
  /\ UNCHANGED part
  /\ \/ part = "flash" /\ Next /\ UNCHANGED cacheVars
     \/ part = "cache" /\ CacheNext /\ UNCHANGED vars

MCSpec == MCInit /\ [][MCNext]_<<part, vars, cacheVars>>
=============================================================================
