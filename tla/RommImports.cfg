SPECIFICATION FairSpec
CONSTANTS
    import1 = import1
    import2 = import2
    game = game
    Jobs = {import1, import2}
    Admissible = {import1, import2}
    Files <- MCFiles
    Game <- MCGame
    MaxStuck = 1
    Permits = 2
    Capacity = 1
    MaxPhase = 6
CHECK_DEADLOCK FALSE
INVARIANTS
    StagedIsAccounted
    OutcomesAreTrue
    CopiesMet
PROPERTIES
    TerminalIsFinal
    JobsSettle
