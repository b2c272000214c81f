SPECIFICATION FairSpec
CONSTANTS
    Item = {"d1", "d2"}
    RowId = {r1, r2, r3, r4}
    NoRow = NoRow
    Pushes = {"p1", "p2"}
    Operators = {"o1", "o2"}
    Worlds <- AllWorlds
    MaxServers = 2
INVARIANTS TypeOK
PROPERTIES RemovedStaysRemoved ManualSitesSpared HostIsReflected
