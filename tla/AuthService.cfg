SPECIFICATION Spec
CONSTANTS
    States = {s1, s2}
    Callbacks = {c1, c2}
    Requests = {r1, r2}
    Faults = TRUE
SYMMETRY Symmetry
INVARIANTS
    StateConsumedOnce
    IssuedComplete
    
    
 
CHECK_DEADLOCK FALSE
