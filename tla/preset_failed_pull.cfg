SPECIFICATION Spec
CONSTANTS
    A = A
    B = B
    Machines = {A, B}
    p1 = p1
    Presets = {p1}
    Watermarks = {}
    Tolerance = 1
    Share = Share
    Nowhere = Nowhere
    NoPreset = NoPreset
    MaxNow = 3
    Upsets <- OnlyFaults
    MaxFaults = 1
    MaxOverlaps = 0
    MaxSelects = 0
PROPERTY NewestNotRemoved
CHECK_DEADLOCK FALSE
