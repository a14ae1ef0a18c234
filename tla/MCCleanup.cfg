SPECIFICATION SystemSpec
CONSTANTS
    Selections <- MCPair
    TakenNames <- MCUntaken
    Commands = {c1, c2}
    CleanupDuringRun = FALSE
    PowerMayFail = TRUE
INVARIANTS
    SystemTypeOK
PROPERTIES
    ForgetsOnlyWhatIsGone
    CommandZeroIsClean
SYMMETRY Symmetry
VIEW WithoutDocument
