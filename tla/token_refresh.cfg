SPECIFICATION Spec
CONSTANTS
    p1 = p1
    p2 = p2
    p3 = p3
    Process <- Requests
    NoProcess = NoProcess
    MaxTries = 3
    MaxOverruns = 2
SYMMETRY Symmetry
INVARIANTS
    TypeOK
    RefreshersBounded
