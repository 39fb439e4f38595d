CONSTANTS
    Node = {n1, n2}
    Router = {r}
    Monitor = {mon}
    SeedRouter = r
    Initial = {n1, n2}
    TMax = 1
    RTMax = 0
    MaxCount = 1
    MayCrash = {n2}
    MayDepart = {n2}
    n1 = n1
    n2 = n2
    k1 = k1
    k2 = k2
    a = a
    b = b
    c = c
    Key = {k1}
    Op = {b}
    OpKey <- AllK1
    OpType <- Puts
    NoReply = {}
    MaxTries = 1
    Change = {}
    ChangeKey <- OnK1
    ChangeFactor <- Grow
    DefaultFactor <- One
    NoFactor = NoFactor
    LocalDefault = 1
    TierOf <- AllMemory
    Rank <- DataNewMetaOld
    LRank <- ByTid
    Threshold = 1
SPECIFICATION KSpec
INVARIANTS OneAnswer SelfInRing CountsReal ViewsAgree
PROPERTIES OnlyDepartedForgotten
CHECK_DEADLOCK FALSE
