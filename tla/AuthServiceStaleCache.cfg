SPECIFICATION Spec
CONSTANTS
    States = {s1}
    Callbacks = {c1}
    Requests = {r1, r2}
    Faults = FALSE
SYMMETRY Symmetry
INVARIANT CacheInvalidated
CHECK_DEADLOCK FALSE
