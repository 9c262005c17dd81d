SPECIFICATION Spec
CONSTANTS
    app = app
    lib = lib
    c1 = c1
    c2 = c2
    Clients <- TwoClients
    Projects <- OneProject
    Process <- OneProcess
    Elsewhere = Elsewhere
    None = None
    Torn = Torn
    Corrupt = Corrupt
    MaxVersion = 2
    MaxCalls = 2
    MaxFaults = 0
PROPERTY PersistenceWrites
CHECK_DEADLOCK FALSE
