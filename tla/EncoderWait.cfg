SPECIFICATION FairSpec
CONSTANTS
  Device = {d1}
  Address = {a1}
  Password = {p1}
  ObjectId = {o1}
  Inbound = {s1}
  Outbound = {r1}
  NoDevice = NoDevice
  NoAddress = NoAddress
  NoPassword = NoPassword
  NoObject = NoObject
  MaxInFlight = 1
  CredentialsOnce = TRUE
  MaxRemovals = 0
  MaxRestarts = 1
  MaxRebinds = 0
PROPERTY
  WaitEndsWhenPacketArrives
