\* Two servers that crash and take the canvas over from each other, with every
\* failure of Redis and Elasticsearch.
SPECIFICATION Spec
CONSTANTS
    s1 = s1  s2 = s2  w1 = w1  w2 = w2
    Servers = {s1, s2}
    None = None
    Writes = {w1, w2}
    MaxGen = 5
    Faults = {"crash", "redis", "es"}
SYMMETRY Symmetry
INVARIANTS TypeOK NoLostWrite SingleOwner CacheExists NoResurrection
PROPERTIES DeleteOnlySaved
