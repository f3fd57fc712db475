SPECIFICATION FairSpec
CONSTANTS
    all = all
    one = one
    side = side
    a = a
    b = b
    c = c
    n = n
    a1 = a1
    a2 = a2
    b1 = b1
    c1 = c1
    cb = cb
    folder = folder
    Nobody = Nobody
    Deletes = {all, one, side}
    Games = {a, b, c, n}
    Fresh = {c, n}
    Paths = {a1, a2, b1, c1, cb}
    Folders = {folder}
    Roots = {1, 2}
    AssetRoot = 2
    Copyable = {a1}
    Wants <- MCWants
    Sidecars <- MCSidecars
    FilesOf <- MCFilesOf
    RootOf <- MCRootOf
    FolderOf <- MCFolderOf
    MaxFaults = 1
    MaxCrashes = 1
CHECK_DEADLOCK FALSE
INVARIANTS
    GamesKeepTheirFiles
    TrashIsJournaled
PROPERTIES
    WaitersAreAnswered
