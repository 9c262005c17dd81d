SPECIFICATION FairSpec
CONSTANTS
    p1 = p1
    p2 = p2
    Projects <- TwoProjects
    Watched <- OneProject
    Legacy <- OneProject
    Main = Main
    Ui = Ui
    Calls <- NoIndexOnUi
    Browsed <- OneProject
    MaxFiles = 4
    MaxAdr = 1
INVARIANTS TypeOK AnswersOwnProject SeesOwnChanges RunOutputIsVisible
PROPERTIES SilentClientReleases
