SPECIFICATION Spec
CONSTANTS
  Obj = {o1, o2}
  NumFd = 2
  Event = {READ, WRITE}
SYMMETRY Symmetry
INVARIANT TypeOK
INVARIANT ReportsWhatWasReady
INVARIANT NothingUnasked
