SPECIFICATION LiveSpec
CONSTANTS
    n1 = n1
    p1 = p1
    m1 = m1
    m2 = m2
    NoJob = NoJob
    NoName = NoName
    JobNames = {"network", "preset", "manual"}
    Jobs = {n1, m1}
    Kind <- MCKind
    QueueSize = 1
    BusSize = 1
INVARIANTS TypeOK AcceptedOrder PauseAdmitsOne NoLostWakeup SyncingWhileRunning WatchOnlyCurrent
PROPERTIES AcceptedJobsReport SuccessRecorded ShutdownStops
