SPECIFICATION HistorySpec
CONSTANTS
    u1 = u1
    u2 = u2
    u3 = u3
    k1 = k1
    k2 = k2
    k3 = k3
    b1 = b1
    b2 = b2
    e1 = e1
    e2 = e2
    e3 = e3
    v1 = v1
    v2 = v2
    Users = {u1, u2, u3}
    Keys = {k1, k2, k3}
    Values = {v1, v2}
    Buckets = {b1,b2}
    Hash <- MCHash
    Entries = {e1, e2, e3}
    NULL = NULL
    MaxCalls = 5
SYMMETRY MCSymmetry
INVARIANTS
    NoUseAfterFree
    BucketsIntact
    CacheEmptyAtDestroy
    GetLinearizable
\* The calls are bounded, and the module may end unloaded or in an oops.
CHECK_DEADLOCK FALSE
