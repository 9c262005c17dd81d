SPECIFICATION Spec
CONSTANTS
    auto1 = auto1
    auto2 = auto2
    Autos <- TwoAutos
    MaxRequests = 1
    MaxJobs = 1
INVARIANTS
    Exclusion
    ReturnIsClean
CHECK_DEADLOCK FALSE
SYMMETRY AutoSymmetry
