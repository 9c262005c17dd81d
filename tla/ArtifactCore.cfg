SPECIFICATION Spec
CONSTANTS
    app = app
    lib = lib
    c1 = c1
    c2 = c2
    Clients <- TwoClients
    Projects <- TwoProjects
    Process <- OneProcess
    Elsewhere = Elsewhere
    None = None
    Torn = Torn
    Corrupt = Corrupt
    MaxVersion = 2
    MaxCalls = 3
    MaxFaults = 1
INVARIANTS TypeOK RowsTellTruth AnswersHold PairMatches
SYMMETRY Alike
CHECK_DEADLOCK FALSE
