SPECIFICATION FairSpec
CONSTANTS
    Site = {s1}
    NoSite = NoSite
    Ticks = {"t1", "t2"}
    Operators = {"o1"}
    Worlds <- SerialOrOverlapping
    Interval = 1
    FailStreak = 2
    RecoverStreak = 2
INVARIANTS TypeOK
PROPERTIES AvailabilityConfirmed AvailabilitySettles CertificateAlertsFollow HostFollows
