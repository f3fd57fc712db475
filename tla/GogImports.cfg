CONSTANTS
    j1 = j1  j2 = j2
    Jobs = {j1, j2}
    Watched = {j1}
    Permits = 1
    Capacity = 1
    MaxEvents = 8
    MaxOutput <- MCMaxOutput
    MaxStuck <- MCMaxStuck
SPECIFICATION FairSpec
CHECK_DEADLOCK FALSE
INVARIANTS
    NothingLeftBehind
    OutcomesAreTrue
    PollersMissNothing
PROPERTIES
    CancelledStaysOut
    AdmittedImportsEnd
