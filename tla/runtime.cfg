SPECIFICATION Spec
CONSTANTS
    UserIds = {u1, u2}
    NoUser = nouser
    Existing = {u1}
    Threads = {t1}
    Procs = {p1}
    Urls = {"a"}
    Secrets = {"s"}
    Faults = {"account", "config", "dir", "file", "helper", "restart"}
    MaxFaults = 1
    AfterReload = TRUE
SYMMETRY Symmetry
INVARIANT TypeOK
 
 
