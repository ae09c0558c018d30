SPECIFICATION CatFairSpec
CONSTANTS
  Fd = {f1, f2}
  NoFd = NoFd
  AddrList = {l1, l2}
  NoList = NoList
  Caller = Caller
  MaxAddrs = 5
  CloseMayFail = FALSE
  MaxTries = 4
INVARIANT CatTypeOK
INVARIANT EndsClean
PROPERTY CatAdoptsOnlyConnected
PROPERTY CatDecides
