SPECIFICATION FairSpec
CONSTANTS
    Calls = {c1, c2, c3}
    MaxConcurrent = 2
    FailureThreshold = 2
    OpenFor = 2
INVARIANTS
    PermitsAccounted
    HalfOpenHasProbe
PROPERTIES
    ProbesSpaced
    Recovers
