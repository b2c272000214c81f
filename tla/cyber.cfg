SPECIFICATION FairSpec
CONSTANTS
    Site = {s1, s2}
    Steady = {s2}
    Ticks = {t1, t2}
    Operators = {o1}
    Workers = 1
    Interval = 1
    Day = 2
    Hour = 2
    NoSlot = NoSlot
    DailyTimes = {0, 1}
    MaxFaults = 1
INVARIANTS TypeOK IdleBridgeIsIdle
PROPERTIES SettledStaysSettled ScansKeepDistance TargetsAreScanned OrphansArePurged
