SPECIFICATION LiveBackupSpec
CONSTANTS
    w1 = w1
    w2 = w2
    w3 = w3
    A = A
    B = B
    Writers = {w1, w3}
    Machines = {A, B}
    Host <- MCHost
    CtxTimeout = 4
    StaleTimeout = 2
    SlowOpen = TRUE
    MaxFaults = 2
    NoManifest = NoManifest
    Torn = Torn
CHECK_DEADLOCK TRUE
PROPERTY StaleLockBroken
