SPECIFICATION FairSpec
CONSTANTS
    AlertId = {a1, a2}
    NoAlert = NoAlert
    Upgraded = {a1}
    Fingerprint = {f1}
    Wheres <- MCWheres
    Raisers = {p1, p2}
    Closers = {p1, p2}
    Operators = {p1, p2}
    Ackers = {p1, p2}
    Migrators = {p1, p2}
    Deleters = {p1, p2}
    MaxTime = 2
    MaxCalls = 3
    MaxCrashes = 1
INVARIANTS ClosedIsStamped TransitionsLogged
PROPERTIES CloseSticks FoundIsClosed
CHECK_DEADLOCK FALSE
