CONSTANTS
    Replica = {m1, d1, d2}
    OnDisk <- SomeOnDisk
    Kinds = {"SINGLE_CAUSAL"}
    Written <- Concurrent
    Client = {x, y}
    d1 = d1
    d2 = d2
    x = x
    y = y
    Value = {1, 2, 3, 4}
    IntMax = 4
SPECIFICATION Spec
INVARIANTS SameWritesSameValue
