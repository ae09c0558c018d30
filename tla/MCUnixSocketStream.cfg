SPECIFICATION Spec
CONSTANTS
  Fd = {f1, f2, f3}
  NoFd = NoFd
  CloseMayFail = FALSE
SYMMETRY Symmetry
INVARIANT TypeOK
INVARIANT NoDescriptorLeak
PROPERTY OthersUntouchedButOnce
PROPERTY AdoptsOnlyConnected
