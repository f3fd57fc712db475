SPECIFICATION FairSpec
CONSTANTS
    import1 = import1
    import2 = import2
    import3 = import3
    Jobs = {import1, import2, import3}
    Format <- MCFormat
    Discs = 1
    Places = 2
    UploadPermits = 1
    Sticky = {import1}
    Capacity = 1
    MaxPhase = 10
INVARIANTS
    StagingIsHeld
PROPERTIES
    PublishedWhileRunning
    LaunchedImportsEnd
