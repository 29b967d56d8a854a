SPECIFICATION Spec
CONSTANTS
    A = A
    B = B
    dirA = dirA
    dirB = dirB
    share = share
    Machines = {A, B}
    Zips = {z1, z2}
    Dirs = {dirA, dirB, share}
    CatalogDir <- OwnCatalogDir
    ManifestDir <- SharedManifestDir
    AutoSync = {B}
    FirstLaunch = {}
    PresetUsers = {}
    UnsafeSaves = {}
    MaxBackups = 2
    QueueSize = 2
    MaxRestarts <- OnceOnB
    MaxOpens <- OnceOnA
    MaxManual <- Never
    NoZip = NoZip
    NoManifest = NoManifest
    Wiped = Wiped
    Partial = Partial
PROPERTY SkippedOnlyIfSynced
CHECK_DEADLOCK FALSE
