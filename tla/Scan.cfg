SPECIFICATION FairScans
CONSTANTS
    Dirs <- MCDirs
    Kind <- MCKind
    Info <- MCInfo
    NameOrder <- MCNameOrder
    Sort <- MCSort
    Playlist <- MCPlaylist
    Home <- MCHome
    Layouts <- MCLayouts
    MaxFaults = 1
    MaxStops = 2
    MaxUser = 1
    UserPaths <- MCUserPaths
    MaxOps = 4
INVARIANTS
    OneDisposition
    IndexedFilesExist
    NothingLeftOut
PROPERTIES
    GamesAreWhole
    ScansFinish
