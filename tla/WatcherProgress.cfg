SPECIFICATION FairSpec
CONSTANTS
    repo = repo
    Projects <- OneRepo
    GitProjects <- OneRepo
    MaxVersion = 2
    MaxStates = 1
    MaxOthers = 1
    MaxFaults = 1
PROPERTIES DirtyIsIndexed StopEnds
CHECK_DEADLOCK FALSE
