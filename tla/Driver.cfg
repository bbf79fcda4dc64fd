SPECIFICATION FairSpec
CONSTANTS
  Param = {q1}
  Length = {2, 3}
  MaxRefusals = 1
  MaxArrivals = 2
  MaxAlive = 2
  MaxPolls = 3
  MaxLate = 1
  Wrap = 16
  ByteRange = 5
INVARIANTS
  TypeOK
  ConnectedIndeed
  PendingIsBacked
  StoredIsWhole
  CopyEnds
PROPERTIES
  AllIsRead
  Connects
