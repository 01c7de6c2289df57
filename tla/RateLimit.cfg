SPECIFICATION Spec
CONSTANTS
    Requests = {r1, r2}
    Clients = {c1, c2}
    Proxies = {p1, p2}
    Junk = Junk
    MaxForged = 2
    MaxHops = 2
    Overflow = Overflow
    Token = 2
    Rate = 1
    Burst = 1
    IdleTTL = 4
    MaxEntries = 1
    MaxStall = 1
    MaxTime = 8
SYMMETRY Symmetry
INVARIANTS
    BoundedBuckets
    WindowBound
    ChargedToSender
PROPERTY PatientAdmitted
CHECK_DEADLOCK FALSE
