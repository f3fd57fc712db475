SPECIFICATION FairSpec
CONSTANTS
    u1 = u1
    u2 = u2
    Uploads = {u1, u2}
    Size <- MCSize
    Generated <- MCGenerated
    Paths = {p1, p2}
    Foreign = {f}
    Nobody = Nobody
    MaxFaults = 1
    MaxCrashes = 2
CHECK_DEADLOCK FALSE
INVARIANTS
    IndexedFilesIntact
    NothingIsStranded
PROPERTIES
    RemovalsStayClaimed
    ImplementsCatalog
    
