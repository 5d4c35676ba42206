CONSTANTS
  MaxLive = 2
  MaxAdmitted = 4
  Requests = {r1, r2}
  Resisting <- MCNone
  MaxShutdowns = 2
SYMMETRY RequestSymmetry
SPECIFICATION Spec
INVARIANT StoppedMeansNoWorker
CHECK_DEADLOCK FALSE
