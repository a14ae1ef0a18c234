SPECIFICATION Spec
CONSTANTS
    Selections <- MCSelections
    TakenNames <- MCTaken
INVARIANTS
    TypeOK
    MeasuredIsRecorded
    OneEntryPerResource
    DeletedIsGone
    CleanupAttempted
    LeftoverIsReported
    ExitZeroIsClean
    KeptIsRecoverable
PROPERTIES
    KeepsPromise
    BoundedRunEnds
