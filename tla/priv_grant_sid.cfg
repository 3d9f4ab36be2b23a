SPECIFICATION Spec
CONSTANTS
    Users = {u1, u2}
    Callers = {c1, c2}
    GrantIds = {g1}
    Admin = admin
    Nothing = nothing
    Torn = torn
    Ttls = {1}
    RecordSids = {"empty"}
    Faults = {}
    OneAtATime = TRUE
    Readd = FALSE
    MaxSid = 2
    MaxTime = 1
SYMMETRY Symmetry
INVARIANT GrantNotInherited
