SPECIFICATION Spec
CONSTANTS
    repo = repo
    Projects <- OneRepo
    GitProjects <- OneRepo
    MaxVersion = 2
    MaxStates = 2
    MaxOthers = 1
    MaxFaults = 1
INVARIANTS TypeOK NothingForgotten
