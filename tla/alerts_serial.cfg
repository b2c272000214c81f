SPECIFICATION Spec
CONSTANTS
    AlertId = {a1, a2}
    NoAlert = NoAlert
    Upgraded = {a1}
    Fingerprint = {f1, f2}
    Wheres <- MCWheres
    Raisers = {p1}
    Closers = {p1}
    Operators = {p1}
    Ackers = {p1}
    Migrators = {p1}
    Deleters = {p1}
    MaxTime = 2
    MaxCalls = 4
    MaxCrashes = 1
SYMMETRY AlertSymmetry
INVARIANTS TypeOK OneRowPerIncident
PROPERTIES ImplementsIncident
CHECK_DEADLOCK FALSE
