SPECIFICATION FairSpec
CONSTANTS
    auto1 = auto1
    auto2 = auto2
    Autos <- OneAuto
    MaxRequests = 2
    MaxJobs = 0
INVARIANTS
    TypeOK
    Exclusion
    NoStaleLock
    CancelTakesEffect
PROPERTIES
    ImplementsGate
    ShutdownEnds
CHECK_DEADLOCK FALSE
