SPECIFICATION Spec
CONSTANTS
    Calls = {c1, c2, c3}
    MaxConcurrent = 0
    FailureThreshold = 2
    OpenFor = 2
SYMMETRY CallSymmetry
INVARIANT OneProbe
