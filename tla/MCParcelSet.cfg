CONSTANTS
  p1 = p1
  p2 = p2
  p3 = p3
  b1 = b1
  NoRef = NoRef
  Refs <- MCRefs
  ParcelRefs <- MCParcels
  MaxMembers = 2
  Commands <- MCCommands
  Keys = {k1, k2, k3, k4, k5, k6}
SYMMETRY KeySymmetry
SPECIFICATION Spec
INVARIANTS
  SetTypeOK
  ReviewedIsComplete
  PositionsAreDense
  ActiveIsMember
CHECK_DEADLOCK FALSE
