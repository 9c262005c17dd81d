SPECIFICATION Spec
CONSTANTS
    src = src
    aux = aux
    doc = doc
    Files <- TwoFiles
    FastSkipped <- DocSkipped
    MaxClock = 2
    MaxAdr = 1
    MaxFaults = 0
INVARIANT ReindexKeepsAdr
