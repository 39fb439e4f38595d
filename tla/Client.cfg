CONSTANTS
    k1 = k1
    w1 = w1
    w2 = w2
    Key = {k1}
    RThread = {r1}
    Lead = r1
    Worker = {w1, w2}
    TierOf <- W1Memory
    Walk <- W1First
    Known <- Nobody
    MayJoin = {w1, w2}
    MayDepart = {w1}
    Factors <- OneThenTwo
    NoFactor = NoFactor
    MaxRefusals = 1
    Get = {g}
    Put = {p}
    CallKey <- OnK1
    IpOf <- OwnHost
    None = None
SPECIFICATION CSpec
INVARIANTS AddressLookupUnderWay OpenIsPending AckedIsLast QueryUnderWay
PROPERTIES ImplementsCalls
CHECK_DEADLOCK FALSE
