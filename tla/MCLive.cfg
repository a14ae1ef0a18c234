SPECIFICATION SystemSpec
CONSTANTS
    Selections <- MCShared
    TakenNames <- MCTaken
    Commands = {c1}
    CleanupDuringRun = TRUE
    PowerMayFail = TRUE
INVARIANTS
    DocumentAccounts
    SuccessIsClean
PROPERTIES
    RemovesOnlyRecorded
    CommandEnds
