SPECIFICATION Spec
CONSTANTS
    k1 = k1
    k2 = k2
    k3 = k3
    b1 = b1
    b2 = b2
    Users = {u1, u2}
    Keys = {k1, k2, k3}
    Values = {v1, v2}
    Buckets = {b1, b2}
    Hash <- MCHash
    Entries = {e1, e2, e3}
    NULL = NULL
    MaxCalls = 4
INVARIANTS
    EntriesAccounted
PROPERTIES
    ImplementsMap
\* The calls are bounded, and the module may end unloaded.
CHECK_DEADLOCK FALSE
