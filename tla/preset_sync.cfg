SPECIFICATION LiveSpec
CONSTANTS
    A = A
    B = B
    Machines = {A, B}
    p1 = p1
    Presets = {p1}
    Watermarks = {p1}
    Tolerance = 1
    Share = Share
    Nowhere = Nowhere
    NoPreset = NoPreset
    MaxNow = 3
    Upsets <- OneAtATime
    MaxFaults = 1
    MaxOverlaps = 1
    MaxSelects = 2
INVARIANTS TypeOK DeletionStays SharedLogoExists
PROPERTIES RemovesOnlyKnown EditKept Converges
CHECK_DEADLOCK FALSE
