CONSTANTS
  MaxLive = 2
  MaxAdmitted = 4
  Requests = {r1, r2}
  Resisting <- MCNone
  MaxShutdowns = 1
SYMMETRY RequestSymmetry
SPECIFICATION Spec
INVARIANTS
  OneOwner
  IdleIsClean
  AnswerIsOwn
  NoCapacityLost
  FailedPoolIsEmpty
  StoppedMeansNoWorker
CHECK_DEADLOCK FALSE
