CONSTANTS
    Cache = {c1, c2}
    Key = {k1}
    Nothing = Nothing
    MaxPending = 1
SPECIFICATION Spec
INVARIANT InverseMaps
PROPERTY Tracked
