SPECIFICATION Spec
CONSTANTS
    c1 = c1
    c2 = c2
    c3 = c3
    k1 = k1
    k2 = k2
    Calls <- Three
    Keys <- Both
    MaxEntries = 1
    MaxBytes = 1
    TTL = 1
    MaxClears = 1
    MaxTime = 1
SYMMETRY Symmetry
INVARIANTS BytesAreExact SingleFlight FreshAfterClear NobodyIsLeftBehind
CHECK_DEADLOCK FALSE
