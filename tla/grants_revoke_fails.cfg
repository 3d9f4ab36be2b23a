SPECIFICATION Spec
CONSTANTS
    Ids = {g1, g2}
    Admins = {a1}
    Sweeper = sw
    NoId = noid
    TtlInputs = {2}
    MaxTtl = 2
    MaxTime = 2
    MaxCrashes = 0
    HelperFaults = {"revoke"}
    PersistFaults = {}
    TimelyInstall = TRUE
    DirReadable = TRUE
SYMMETRY Symmetry
INVARIANT RevokedMeansRemoved
