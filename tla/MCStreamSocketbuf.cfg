SPECIFICATION Spec
CONSTANTS
  PutCap = 2
  GetCap = 2
  MaxOut = 5
  MaxIn = 3
  PartialSends = TRUE
INVARIANT TypeOK
INVARIANT FailHidesNoTransfer
INVARIANT OutputConserved
PROPERTY InputChannel
