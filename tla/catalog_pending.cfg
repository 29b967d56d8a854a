SPECIFICATION LiveSpec
CONSTANTS
    A = A
    B = B
    dirA = dirA
    dirB = dirB
    share = share
    Machines = {A, B}
    Zips = {z1}
    Dirs = {dirA, dirB, share}
    CatalogDir <- OwnCatalogDir
    ManifestDir <- SharedManifestDir
    AutoSync = {B}
    FirstLaunch = {}
    PresetUsers = {B}
    UnsafeSaves = {}
    MaxBackups = 2
    QueueSize = 2
    MaxRestarts <- OnceOnB
    MaxOpens <- Each
    MaxManual <- Never
    NoZip = NoZip
    NoManifest = NoManifest
    Wiped = Wiped
    Partial = Partial
INVARIANT PendingNotForgotten
PROPERTY PendingRuns
CHECK_DEADLOCK FALSE
