SPECIFICATION PingSpec
CONSTANTS
  Peer = {p1}
  Garbage = Garbage
  PutCap = 6
  GetCap = 6
  MaxOut = 6
  MaxIn = 3
  MaxLength = 6
  Ping_Count = 2
  ReqSize = 2
  ReplySize = 3
  Word = 8
  Header = 4
  Data = 7
INVARIANT PingTypeOK
INVARIANT RequestsWhole
INVARIANT LostInRange
INVARIANT ChecksumVerifies
