SPECIFICATION Spec
CONSTANTS
  Fd = {f1, f2, f3}
  NoFd = NoFd
  MaxAddrs = 2
  Backlog = 2
  CloseMayFail = FALSE
SYMMETRY Symmetry
INVARIANT TypeOK
INVARIANT OwnsItsSocket
INVARIANT NoSocketLeak
INVARIANT OpenMeansOpen
PROPERTY OthersUntouched
