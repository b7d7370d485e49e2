SPECIFICATION Spec
CONSTANTS
    Clients = {"a"}
    Items = {"x", "y"}
    Requests <- MCFewRequests
    ClientOf <- MCClientOf
    CountOf <- MCCountOf
    Ops <- MCOps
    Existing = {"x"}
    Servers = {s1, s2}
    NoRequest = NoRequest
    ClientLimit = 2
    RevisionLimit = 4
    Failover = TRUE
INVARIANTS OncePerCount RevisionsContiguous
SYMMETRY MCSymmetry
