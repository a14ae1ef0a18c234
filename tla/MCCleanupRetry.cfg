SPECIFICATION SystemSpec
CONSTANTS
    Selections <- MCPair
    TakenNames <- MCUntaken
    Commands = {c1}
    CleanupDuringRun = FALSE
    PowerMayFail = FALSE
PROPERTY FailureMeansLeftover
