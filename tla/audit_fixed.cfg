SPECIFICATION Spec
CONSTANTS
    Auditors = {"dashboard", "bridge"}
    Worlds <- Failing
    KeepRuns = 1
INVARIANTS FixedIsGone
CHECK_DEADLOCK FALSE
