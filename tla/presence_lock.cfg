SPECIFICATION LiveSpec
CONSTANTS
    A = A
    B = B
    Machines = {A, B}
    MaxRenames = 2
    MaxRetries = 2
    Upsets <- OneAtATime
    MaxFaults = 2
    MaxStarts <- TwiceOnA
    NoLock = NoLock
    Torn = Torn
INVARIANTS TypeOK OfflineLast
PROPERTY KeepsBeating
CHECK_DEADLOCK FALSE
