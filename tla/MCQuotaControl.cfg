CONSTANTS
    A = A  B = B  C = C
    k1 = k1  k2 = k2  r1 = r1  r2 = r2
    m1 = m1  m2 = m2  m3 = m3
    Users <- MCUsers
    FirstAccounts <- MCFirstAccounts
    DefaultPolicy <- MCDefaultPolicy
    Submissions <- MCSubmissions
    Slots <- MCSlots
    MaxInstances = 2
    Markers <- MCMarkers
    Kind <- MCKind
    Hour = 1
    Day = 2
    MarkerTTL = 0
    SubjectTTL = 2
    MaxMarkers = 2
    Batch = 1
    MaxTime = 3
SPECIFICATION ControlSpec
CONSTRAINT OneIsQuiet
INVARIANT AnAdminRemains
INVARIANT CountersMatchTheLedger
PROPERTY ActsAreSerial
PROPERTY AdmittedWithinPolicy
