SPECIFICATION Spec
CONSTANTS
    Digest = {d1, d2}
    Writer = {w1, w2}
    Pid = {1, 2}
    None = None
    MaxPuts = 3
    MaxCrashes = 1
CHECK_DEADLOCK FALSE
INVARIANT StoreInv
PROPERTY ImplementsStore
