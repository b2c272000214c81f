SPECIFICATION FairSpec
CONSTANTS
    Vm = {v1}
    NoVm = NoVm
    Containing <- NoOverlap
    JobLabels = {v1, NoVm}
    HandClosed = {"failed", "warning", "long", "missing"}
    MaxJobs = 2
INVARIANTS TypeOK
PROPERTIES ClosedFailureStaysClosed RecoveryEndsAlerts LastingTroubleIsAlerted
