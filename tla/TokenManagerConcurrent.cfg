SPECIFICATION Spec
CONSTANTS
    Callers = {c1, c2}
    LockExpires = TRUE
    Faults = FALSE
    IdPFaults = FALSE
    MaxRotations = 3
    None = None
    Free = Free
    Forgotten = Forgotten
    Elsewhere = Elsewhere
SYMMETRY CallerSymmetry
INVARIANT OneRefreshPerToken
