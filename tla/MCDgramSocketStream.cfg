SPECIFICATION Spec
CONSTANTS
  Peer = {p1, p2}
  Garbage = Garbage
  PutCap = 2
  GetCap = 2
  MaxOut = 3
  MaxIn = 2
  MaxLength = 3
SYMMETRY Symmetry
CHECK_DEADLOCK FALSE
INVARIANT TypeOK
INVARIANT OutputIntact
INVARIANT ReachesItsTarget
INVARIANT UnreadComesFromInpeer
