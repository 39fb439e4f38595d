CONSTANTS
    Node = {n1, n2}
    Router = {r}
    Monitor = {}
    SeedRouter = r
    Initial = {n1}
    TMax = 0
    RTMax = 0
    MaxCount = 0
    MayCrash = {}
    MayDepart = {}
    n1 = n1
    n2 = n2
    k1 = k1
    k2 = k2
    a = a
    b = b
    c = c
    Key = {k1, k2}
    Op = {a, c}
    OpKey <- KeyOf
    OpType <- Puts
    NoReply = {}
    MaxTries = 2
    Change = {}
    ChangeKey <- OnK1
    ChangeFactor <- Grow
    DefaultFactor <- One
    NoFactor = NoFactor
    LocalDefault = 1
    TierOf <- AllMemory
    Rank <- Split
    LRank <- ByTid
    Threshold = 1
SPECIFICATION KFairSpec
INVARIANTS LookupUnderWay AckedDurable Converged
PROPERTIES DropsOnlyUnowned Quiesces Answered
CHECK_DEADLOCK FALSE
