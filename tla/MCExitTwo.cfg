SPECIFICATION Spec
CONSTANTS
    Selections <- MCSmall
    TakenNames <- MCUntaken
INVARIANT ExitTwoRanNothing
