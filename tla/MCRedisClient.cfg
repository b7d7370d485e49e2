\* Two nodes, two Sentinels, and three faults of any kind.
SPECIFICATION FairSpec
CONSTANTS
    c1 = c1  c2 = c2  n1 = n1  n2 = n2  s1 = s1  s2 = s2
    Calls = {c1, c2}
    NoCall = NoCall
    Nodes = {n1, n2}
    First = n1
    Seeds <- MCSeeds
    MaxAttempts = 3
    MaxFaults = 3
PROPERTIES CallsExact CallReturns FailoverRecovers
