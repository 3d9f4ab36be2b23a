SPECIFICATION Spec
CONSTANTS
    Calls = {c1, c2}
    Platforms = {"linux", "windows"}
    Commands <- Shapes
    Cap = 1
    Bound = 1
INVARIANT TypeOK
INVARIANT OutputComplete
INVARIANT NothingLeftBehind
PROPERTY Returns
CHECK_DEADLOCK FALSE
