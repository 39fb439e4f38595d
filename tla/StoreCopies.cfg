CONSTANTS
    Replica = {m1, d1, d2}
    OnDisk <- SomeOnDisk
    Kinds = {"LWW", "SET", "ORDERED_SET", "SINGLE_CAUSAL", "MULTI_CAUSAL", "PRIORITY"}
    Written <- ThenOneMore
    Client = {x, y}
    d1 = d1
    d2 = d2
    x = x
    y = y
    Value = {1, 2, 3, 4}
    IntMax = 4
SPECIFICATION Spec
INVARIANTS KeepsWrites
PROPERTIES NeverBack
