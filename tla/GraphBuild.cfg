SPECIFICATION Spec
CONSTANTS
    Order <- ThreeFiles
    BySize <- LargestLast
    Stem <- SharedStem
    ModuleOf <- SharedStem
    Directory = "dir"
    Texts <- FourTexts
    Absent = Absent
    Repositories <- Mixed
    Workers = 2
    ParallelOver = 1
    MaxRuns = 2
    MaxEdits = 2
INVARIANTS TypeOK FullRunIsExact IncrementalIsExact OwnerDefines
PROPERTY EdgesSurvive
CHECK_DEADLOCK FALSE
