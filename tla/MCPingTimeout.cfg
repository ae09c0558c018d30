SPECIFICATION PingFairSpec
CONSTANTS
  Peer = {p1}
  Garbage = Garbage
  PutCap = 6
  GetCap = 6
  MaxOut = 6
  MaxIn = 3
  MaxLength = 3
  Ping_Count = 2
  ReqSize = 2
  ReplySize = 3
  Word = 2
  Header = 1
  Data = 0
PROPERTY PingQuits
