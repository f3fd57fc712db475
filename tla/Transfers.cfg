SPECIFICATION FairTransfers
CONSTANTS
    upload = upload
    gog = gog
    first = first
    second = second
    third = third
    Keys = {upload, gog}
    Requests = {first, second, third}
    TerminalCapacity = 1
    NoKey = NoKey
    NoRequest = NoRequest
CHECK_DEADLOCK FALSE
INVARIANTS
    EntryTellsTheOwner
PROPERTIES
    OutcomeIsFinal
    CancelStopsTheOwner
