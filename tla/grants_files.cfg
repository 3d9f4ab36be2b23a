SPECIFICATION Spec
CONSTANTS
    Ids = {g1, g2}
    Admins = {a1}
    Sweeper = sw
    NoId = noid
    TtlInputs = {1, 2}
    MaxTtl = 2
    MaxTime = 2
    MaxCrashes = 2
    HelperFaults = {"refuse", "killed"}
    PersistFaults = {"write", "spec"}
    TimelyInstall = FALSE
    DirReadable = TRUE
SYMMETRY Symmetry
INVARIANT MemOnDisk
PROPERTY NoEarlyRemoval
PROPERTY ReconcileExact
