SPECIFICATION Spec
CONSTANTS
    o1 = o1
    o2 = o2
    r1 = r1
    r2 = r2
    Observations <- Both
    Rows <- Two
    RowOf <- RowsOf
    MaxRows = 1
    Retention = 2
    MarkerTTL = 4
    MaxSkew = 1
    MaxTime = 5
    MaxCrashes = 1
INVARIANTS CountedOnce LossIsReported DrainedOnStop
CHECK_DEADLOCK FALSE
