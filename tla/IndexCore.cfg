SPECIFICATION Spec
CONSTANTS
    src = src
    aux = aux
    doc = doc
    Files <- TwoFiles
    FastSkipped <- DocSkipped
    MaxClock = 2
    MaxAdr = 1
    MaxFaults = 1
INVARIANTS TypeOK RowsMatchNodes QuietRunIsExact MergeIsAdditive FullRunKeepsAdr
