SPECIFICATION FairSpec
CONSTANTS
    src = src
    aux = aux
    doc = doc
    Files <- ThreeFiles
    FastSkipped <- TwoSkipped
    MaxClock = 1
    MaxAdr = 0
    MaxFaults = 1
INVARIANTS RowsMatchNodes MergeIsAdditive
PROPERTY RunTerminates
