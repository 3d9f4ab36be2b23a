SPECIFICATION Spec
CONSTANTS
    Ids = {g1, g2}
    Admins = {a1}
    Sweeper = sw
    NoId = noid
    TtlInputs = {0, 1, 2, 3}
    MaxTtl = 2
    MaxTime = 3
    MaxCrashes = 2
    HelperFaults = {"refuse"}
    PersistFaults = {"write", "rename", "spec"}
    TimelyInstall = TRUE
    DirReadable = TRUE
SYMMETRY Symmetry
INVARIANT TypeOK
INVARIANT NoUntrackedDropIn
INVARIANT RevokedMeansRemoved
