--------------------------- MODULE MCRedisClient ---------------------------
(* RedisClient on a small instance.                                        *)
EXTENDS RedisClient

CONSTANTS c1, c2, n1, n2, s1, s2

MCSeeds == <<s1, s2>>
=============================================================================
