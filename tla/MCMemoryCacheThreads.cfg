SPECIFICATION FairSpec
CONSTANTS
    t1 = t1
    t2 = t2
    d1 = d1
    d2 = d2
    r1 = r1
    r2 = r2
    Docs = {d1, d2}
    Regions = {r1, r2}
    DocOf <- TwoDocOf
    ChatRegions = {r1}
    Vals = {"a", "b", "c"}
    BigVals = {"c"}
    DataVals = {"x"}
    Nil = Nil
    Unknown = Unknown
    Threads = {t1, t2}
    NoThread = NoThread
    NumStripes = 2
    StripeOf <- TwoStripeOf
    MaxDocuments = 1
    Capacity = 1
    LostReplies = TRUE
    ShallowErase = FALSE
    MetaReplace = FALSE
INVARIANTS AckedReadable AckedDurable
PROPERTIES StripeProtects EvictionEnds
