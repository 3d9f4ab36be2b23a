SPECIFICATION AllSpec
CONSTANTS
    Jobs = {j1}
    Users = {u1}
    Threads = {t1}
    Edits = {e1, e2}
    Nothing = nothing
    Platforms = {"linux", "windows"}
    Faults = {"meta", "install"}
    OneAtATime = TRUE
    Numbers = {}
    MaxCrashes = 0
    JobIds = {}
    OwnLines = {}
    MaxLines = 0
    MaxJobs = 0
SYMMETRY Symmetry
PROPERTY FailedUpdateUndone
