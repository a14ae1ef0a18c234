SPECIFICATION ComponentsSpec
CONSTANTS
    Workers = {w1, w2, w3}
    Count = 4
    Configurable <- MCConfigurable
    Asked <- MCAsked
    Given <- MCGiven
    Volatile <- MCVolatile
    Processes = {p1, p2, p3}
    Loaders = {q1, q2}
    FileBlocks = 3
    MaxOperations = 7
    Queries = 5
    Trials = 3
    CPUs <- MCCPUs
INVARIANTS
    ComponentsTypeOK
    ErrorsAreExact
    MeasuredOnce
    CreatesOnlyApproved
    SharesOnlyApproved
    RunsOnlyReleased
    ReportsWhatItHashed
    StaysUsable
    LosesOneBlockPerPass
    StaysInTheFile
    LabelsAreTrue
    NamesAreDistinct
    PlanCoversTheRun
    StrongestSourceWins
PROPERTIES
    QuietAfterReturn
    CancelledReturns
