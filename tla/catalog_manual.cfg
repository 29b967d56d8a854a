SPECIFICATION Spec
CONSTANTS
    A = A
    B = B
    dirA = dirA
    dirB = dirB
    share = share
    Machines = {A, B}
    Zips = {z1}
    Dirs = {dirA, dirB, share}
    CatalogDir <- OwnCatalogDir
    ManifestDir <- SharedManifestDir
    AutoSync = {B}
    FirstLaunch = {B}
    PresetUsers = {}
    UnsafeSaves = {B}
    MaxBackups = 1
    QueueSize = 1
    MaxRestarts <- OnceOnB
    MaxOpens <- OnceOnA
    MaxManual <- OnceOnB
    NoZip = NoZip
    NoManifest = NoManifest
    Wiped = Wiped
    Partial = Partial
INVARIANTS FirstLaunchProtected NoRepeatSync
CHECK_DEADLOCK FALSE
