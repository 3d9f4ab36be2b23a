SPECIFICATION FairSpec
CONSTANTS
    Ids = {g1, g2}
    Admins = {a1}
    Sweeper = sw
    NoId = noid
    TtlInputs = {1, 2}
    MaxTtl = 2
    MaxTime = 2
    MaxCrashes = 1
    HelperFaults = {"refuse"}
    PersistFaults = {"write"}
    TimelyInstall = TRUE
    DirReadable = TRUE
PROPERTY ExpiredRemoved
PROPERTY LeaseSpec
