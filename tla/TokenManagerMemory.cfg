SPECIFICATION FairSpec
CONSTANTS
    Callers = {c1, c2, c3}
    LockExpires = FALSE
    Faults = FALSE
    IdPFaults = TRUE
    MaxRotations = 3
    None = None
    Free = Free
    Forgotten = Forgotten
    Elsewhere = Elsewhere
INVARIANTS
    NeverSpent
    FailsClosed
PROPERTY CallsReturn
