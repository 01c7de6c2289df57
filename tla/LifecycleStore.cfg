SPECIFICATION FairSpec
CONSTANTS
    Readers = {r1, r2}
    Redis = TRUE
    Faults = TRUE
    MaxLifetime = 4
    IdleTimeout = 2
    TouchInterval = 1
    Minute = 1
    SessionTTL = 5
    MaxTime = 7
    NoSession = NoSession
INVARIANTS
    NeverOutlivesLogin
PROPERTIES
    IdleBound
    
    ImplementsContract
    EventuallyForgotten
