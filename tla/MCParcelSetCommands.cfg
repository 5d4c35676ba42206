CONSTANTS
  p1 = p1
  p2 = p2
  k1 = k1
  k2 = k2
  k3 = k3
  NoRef = NoRef
  Refs <- MCRefs
  ParcelRefs <- MCRefs
  MaxMembers = 2
  Commands <- MCCommands
  Keys = {k1, k2, k3}
  Submissions <- MCSubmissions
  Requests = {r1, r2}
SPECIFICATION Spec
INVARIANTS
  SucceededIffApplied
  NoLostUpdate
  TransactionIsFresh
  OkMeansApplied
PROPERTY OutcomeIsFinal
PROPERTY ArchivedCaseGetsNoSet
PROPERTY KeepsPromise
PROPERTY EveryRequestEnds
