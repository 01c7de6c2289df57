SPECIFICATION FairSpec
CONSTANTS
    Callers = {c1, c2}
    LockExpires = TRUE
    Faults = TRUE
    IdPFaults = TRUE
    MaxRotations = 1
    None = None
    Free = Free
    Forgotten = Forgotten
    Elsewhere = Elsewhere
PROPERTIES
    LockNotStolen
    RefreshKeepsRecords
    
