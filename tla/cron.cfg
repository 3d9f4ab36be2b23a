SPECIFICATION AllSpec
CONSTANTS
    Jobs = {j1, j2}
    Users = {u1, u2}
    Threads = {t1, t2}
    Edits = {e1, e2}
    Nothing = nothing
    Platforms = {"linux", "windows"}
    Faults = {"persist", "meta", "install"}
    OneAtATime = TRUE
    Numbers = {0, 1, 6, 7, 15, 23, 24, 31, 32, 59, 60, 1439, 1440}
    MaxCrashes = 1
    JobIds = {i1, i2}
    OwnLines = {l1, l2}
    MaxLines = 4
    MaxJobs = 2
SYMMETRY Symmetry
INVARIANT TypeOK
INVARIANT CrontabTypeOK
INVARIANT TextExact
INVARIANT StoreDurable
INVARIANT OnlyOwnerDecides
 
 
INVARIANT AcceptedRunsAsWritten
 
