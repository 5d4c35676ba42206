CONSTANTS
  x = x
  y = y
  xa = xa
  xb = xb
  ya = ya
  k1 = k1
  k2 = k2
  k3 = k3
  k4 = k4
  k5 = k5
  k6 = k6
  k7 = k7
  NoCandidate = NoCandidate
  Resolutions = {x, y}
  Candidates = {xa, xb, ya}
  Owner <- MCOwner
  Confirmable = {xa, xb, ya}
  Keys = {k1, k2, k3, k4, k5, k6, k7}
  Submissions <- MCSubmissions
  Requests = {r1, r2}
  MaxCases = 2
  MaxCaseVersion = 2
SYMMETRY Symmetry
SPECIFICATION Spec
INVARIANTS
  VersionsAreDense
  ClosedForGood
  SucceededIffRecorded
  LinksFormAChain
PROPERTY DecisionsAreSerial
