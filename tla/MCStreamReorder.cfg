SPECIFICATION Spec
CONSTANTS
  PutCap = 2
  GetCap = 2
  MaxOut = 4
  MaxIn = 0
  PartialSends = TRUE
PROPERTY RemainderFirst
