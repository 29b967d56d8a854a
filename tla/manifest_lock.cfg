SPECIFICATION LiveSpec
CONSTANTS
    w1 = w1
    w2 = w2
    w3 = w3
    A = A
    B = B
    Writers = {w1, w2, w3}
    Machines = {A, B}
    Host <- MCHost
    CtxTimeout = 2
    StaleTimeout = 4
    SlowOpen = FALSE
    MaxFaults = 2
    NoManifest = NoManifest
    Torn = Torn
CHECK_DEADLOCK TRUE
INVARIANTS TypeOK MutualExclusion HolderKeepsLockFile WrittenIntact
PROPERTIES OnlyHolderWrites ImplementsMutex CallReturns
