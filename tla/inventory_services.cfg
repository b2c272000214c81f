SPECIFICATION FairSpec
CONSTANTS
    Item = {"d1"}
    RowId = {r1, r2, r3}
    NoRow = NoRow
    Pushes = {"p1"}
    Operators = {"o1"}
    Worlds <- Services
    MaxServers = 2
PROPERTIES ServiceAlertEnds
