SPECIFICATION FairSpec
CONSTANTS
    MaxSlots = 2
    MaxProcesses = 2
    MaxInFlight = 2
INVARIANTS TypeOK SlotsExclusive DashboardTellsTruth
PROPERTIES JobsEnd StatusConverges
