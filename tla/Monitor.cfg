CONSTANTS
    m1 = m1
    m2 = m2
    m3 = m3
    d1 = d1
    Node = {m1, m2, m3, d1}
    Initial = {m1, m2}
    TierOf <- MCTierOf
    Key = {k1}
    Empty = {k1}
    Configurations <- MCConfigurations
    kMinimumReplicaNumber = 1
    kMemoryThreadCount = 2
    kNodeAdditionBatchSize = 2
    Word = 16
    NoFactor = NoFactor
    NoNode = NoNode
SPECIFICATION Spec
INVARIANTS TierSurvives OrdersCounted NeverHangs
CHECK_DEADLOCK FALSE
SYMMETRY Symmetry
