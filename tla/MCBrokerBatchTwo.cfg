SPECIFICATION Spec
CONSTANTS
    Clients = {"a", "b"}
    Items = {"x", "y"}
    Requests <- MCRequests
    ClientOf <- MCClientOf
    CountOf <- MCCountOf
    Ops <- MCOps
    Existing = {"x"}
    Servers = {s1, s2}
    NoRequest = NoRequest
    ClientLimit = 2
    RevisionLimit = 4
    Failover = FALSE
INVARIANTS TypeOK OncePerCount
PROPERTIES ReplyTrue Atomic CountNeverBack
SYMMETRY MCSymmetry
