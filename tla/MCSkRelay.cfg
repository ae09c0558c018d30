SPECIFICATION RelayFairSpec
CONSTANTS
  PutCap = 2
  GetCap = 2
  MaxOut = 6
  MaxIn = 3
  PartialSends = FALSE
  Chunk = 1
  MaxLine = 3
  MaxLines = 2
INVARIANT WaitsWithNothingRead
PROPERTY OutputChannel
PROPERTY RelayEnds
