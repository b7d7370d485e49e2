SPECIFICATION Spec
CONSTANTS
    t1 = t1
    t2 = t2
    d1 = d1
    d2 = d2
    r1 = r1
    r2 = r2
    Docs = {d1}
    Regions = {r1, r2}
    DocOf <- OneDocOf
    ChatRegions = {r1}
    Vals = {"a", "b", "c"}
    BigVals = {"c"}
    DataVals = {"x"}
    Nil = Nil
    Unknown = Unknown
    Threads = {t1}
    NoThread = NoThread
    NumStripes = 1
    StripeOf <- OneStripeOf
    MaxDocuments = 1
    Capacity = 1
    LostReplies = TRUE
    ShallowErase = FALSE
    MetaReplace = FALSE
INVARIANTS AckedReadable AckedDurable DirtyWritable RemoteKept

