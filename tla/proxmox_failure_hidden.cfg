SPECIFICATION FairSpec
CONSTANTS
    Vm = {v1}
    NoVm = NoVm
    Containing <- NoOverlap
    JobLabels = {v1}
    HandClosed = {}
    MaxJobs = 3

PROPERTIES FailedBackupIsAlerted
