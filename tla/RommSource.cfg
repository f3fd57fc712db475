SPECIFICATION SourceSpec
CONSTANTS
    r1 = r1
    r2 = r2
    Requests = {r1, r2}
    Accounts = {"a", "b"}
    Catalogs <- MCCatalogs
    PageSize = 2
    MaxRemoteGames = 3
    MaxTokens = 2
SYMMETRY Alike
INVARIANTS TokensStayHome
PROPERTY SnapshotsAreTrue
