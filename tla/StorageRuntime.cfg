SPECIFICATION Spec
CONSTANTS
    Targets <- MCTargets
    Buckets <- MCBuckets
    Providers <- MCProviders
    Settings <- MCSettings
    Seconds <- MCSeconds
    PartLists <- MCPartLists
    Implements = {"multipart", "metadata"}
    MaxPart = 2
    Second = 12
    DurationBits = 8
INVARIANTS
    
    CallAuthorized
    
    ReadyServes
    ConfigSuffices
    VerifiedSound
CHECK_DEADLOCK FALSE
