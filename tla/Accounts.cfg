SPECIFICATION Spec
CONSTANTS
    r1 = r1
    r2 = r2
    r3 = r3
    Requests = {r1, r2, r3}
    Names = {"ann", "bob"}
    Passwords = {"p", "n"}
    MaxIds = 3
    MaxTime = 2
    MaxFailures = 2
    Window = 1
    Lockout = 2
    MaxEntries = 1
    Workers = 1
    QueueDepth = 1
    MaxSessions = 1
    Calls <- MCCalls
    Founded <- MCFounded
SYMMETRY Alike
INVARIANTS WorkIsBounded SessionsFollowThePassword
PROPERTIES AdministratorsRemain LockoutsHold
