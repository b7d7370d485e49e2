--------------------------- MODULE MCMemoryCache ---------------------------
(* Instances of MemoryCache.                                               *)
EXTENDS MemoryCache, TLC

CONSTANTS t1, t2, d1, d2, r1, r2

\* Two documents on two stripes, one region each; r1 has a remote part.
TwoDocOf == r1 :> d1 @@ r2 :> d2
TwoStripeOf == d1 :> 1 @@ d2 :> 2

\* One document with two regions, only one of which fits the cache.
OneDocOf == r1 :> d1 @@ r2 :> d1
OneStripeOf == d1 :> 1
=============================================================================
