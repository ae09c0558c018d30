SPECIFICATION Spec
CONSTANTS
  Fd = {f1, f2, f3}
  NoFd = NoFd
  AddrList = {l1, l2}
  NoList = NoList
  Caller = Caller
  MaxAddrs = 3
  CloseMayFail = FALSE
SYMMETRY Symmetry
PROPERTY AdoptsOnlyConnected
