SPECIFICATION AllSpec
CONSTANTS
    Sids = {s1, s2}
    NoSid = nosid
    Bearers = {b1, b2}
    Threads = {t1, t2}
    IdleTtl = 2
    GcEvery = 1
    MaxTime = 3
    MaxDelay = 1
    Keys = {k1, k2}
    Minute = 2
    Stale = 3
    Limits = {0, 1, 2}
    Gaps = {0, 1, 2, 3, 4}
    MaxCalls = 5
SYMMETRY Symmetry
INVARIANT TypeOK
INVARIANT ServedSessionIsOwn
INVARIANT LimiterTypeOK
INVARIANT LimitHeld
INVARIANT RefusedAtLimit
INVARIANT BucketsCollected
PROPERTY InUseIsKept
