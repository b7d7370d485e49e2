\* One server whose requests to the three stores fail in every way, and that is
\* shut down: the unload's early returns.
SPECIFICATION FairSpec
CONSTANTS
    s1 = s1  s2 = s2  w1 = w1  w2 = w2
    Servers = {s1}
    None = None
    Writes = {w1}
    MaxGen = 3
    Faults = {"crash", "stop", "redis", "sql", "es"}
PROPERTY FreezeEnds
