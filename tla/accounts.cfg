SPECIFICATION FairConsole
CONSTANTS
    User = {"u1"}
    SeedUser = "u1"
    Profile = {"admins", "custom"}
    SystemRole <- Roles
    Grants <- TwoGrants
    Secret = {"x1", "x2"}
    Code = {"k1"}
    MaxTokens = 3
    Slot = {"c1", "c2"}
    MaxInvites = 2
    MaxFailed = 2
    MaxRestarts = 1
    Workloads <- All
    Tab = {"t1"}
    Pending = {"r1"}
INVARIANTS TypeOK TotpUsable OneTokenPerSignIn RolesInSync
PROPERTIES InvitationLeadsIn SessionKept
CHECK_DEADLOCK FALSE
