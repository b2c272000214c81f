SPECIFICATION Spec
CONSTANTS
    Auditors = {"dashboard", "bridge"}
    Worlds <- All
    KeepRuns = 1
INVARIANTS TypeOK NothingAlleged FixedReopens
PROPERTIES ManualStatusKept
CHECK_DEADLOCK FALSE
