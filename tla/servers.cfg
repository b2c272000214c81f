SPECIFICATION FairSpec
CONSTANTS
    Server = {s1}
    Pingers = {s1}
    NoServer = NoServer
    Crons = {c1}
    Operators = {o1}
    OfflineAfter = 2
    AlertAfter = 4
    MaxGap = 1
    RecoverStreak = 3
    MaxTickAge = 1
    MaxRestarts = 1
INVARIANTS TypeOK
PROPERTIES SteadyServerNotAccused RecoveryConfirmed AlertsFollowReports
