SPECIFICATION Spec
CONSTANTS
    Readers = {r1, r2}
    Redis = TRUE
    Faults = FALSE
    MaxLifetime = 4
    IdleTimeout = 2
    TouchInterval = 1
    Minute = 1
    SessionTTL = 4
    MaxTime = 7
    NoSession = NoSession
PROPERTY
    EndedForGood
