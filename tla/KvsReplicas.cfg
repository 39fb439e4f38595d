CONSTANTS
    Node = {n1, n2}
    Router = {r}
    Monitor = {}
    SeedRouter = r
    Initial = {n1, n2}
    TMax = 1
    RTMax = 0
    MaxCount = 0
    MayCrash = {}
    MayDepart = {}
    n1 = n1
    n2 = n2
    k1 = k1
    k2 = k2
    a = a
    b = b
    c = c
    Key = {k1}
    Op = {a, b}
    OpKey <- AllK1
    OpType <- PutGet
    NoReply = {}
    MaxTries = 2
    Change = {}
    ChangeKey <- OnK1
    ChangeFactor <- Grow
    DefaultFactor <- MemoryAndDisk
    NoFactor = NoFactor
    LocalDefault = 2
    TierOf <- LastOnDisk
    Rank <- DataNewMetaOld
    LRank <- ByTid
    Threshold = 1
SPECIFICATION KFairSpec
INVARIANTS OneAnswer Converged
PROPERTIES Answered
CHECK_DEADLOCK FALSE
