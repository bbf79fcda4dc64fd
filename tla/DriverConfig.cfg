SPECIFICATION Spec
CONSTANTS
  Param = {q1}
  Length = {2}
  MaxRefusals = 1
  MaxArrivals = 1
  MaxAlive = 2
  MaxPolls = 2
  MaxLate = 0
  Wrap = 16
  ByteRange = 4
INVARIANT
  ConnectedConfigured
