SPECIFICATION Spec
CONSTANTS
    igdb = igdb
    again = again
    manual = manual
    del = del
    large = large
    small = small
    up = up
    Nobody = Nobody
    Saves = {igdb, again, manual}
    Deleters = {del}
    Paths = {large, small, up}
    FirstPath = large
    New <- MCNew
    MaxFaults = 0
    MaxRecoveryFaults = 1
    MaxCrashes = 2
CHECK_DEADLOCK FALSE
INVARIANTS
    CoversAreThere
