SPECIFICATION Spec
CONSTANTS
    H1 = H1
    H2 = H2
    Handlers = {H1, H2}
    Worker = Worker
    Startup = Startup
    NoConfig = NoConfig
    Patches <- MCPatches
    OwnFiles <- MCOwnFiles
    LegacyFiles <- MCLegacyFiles
    Stamps = {3, 4}
    Upsets <- OneAtATime
    MaxPatches = 2
    MaxFaults = 2
INVARIANTS TypeOK DiskFollowsMemory SettingsKept
PROPERTIES RestartKnown SyncedKept
CHECK_DEADLOCK FALSE
