SPECIFICATION Spec
CONSTANTS
  Fd = {f1, f2, f3}
  NoFd = NoFd
  AddrList = {l1, l2}
  NoList = NoList
  Caller = Caller
  MaxAddrs = 3
  CloseMayFail = FALSE
SYMMETRY Symmetry
INVARIANT TypeOK
INVARIANT OwnsItsDescriptors
INVARIANT NoDescriptorLeak
INVARIANT PendingCursorLive
INVARIANT BlockingModes
INVARIANT ResultMatchesPhase
PROPERTY OthersUntouched
PROPERTY ListFreedWhenDropped
PROPERTY OpenNextAdvances
