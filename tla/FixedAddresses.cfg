SPECIFICATION Spec
CONSTANTS
  Device = {d1, d2}
  Address = {a1, a2}
  Password = {p1, p2}
  ObjectId = {o1, o2}
  Inbound = {s1}
  Outbound = {r1}
  NoDevice = NoDevice
  NoAddress = NoAddress
  NoPassword = NoPassword
  NoObject = NoObject
  MaxInFlight = 1
  CredentialsOnce = FALSE
  MaxRemovals = 1
  MaxRestarts = 0
  MaxRebinds = 0
SYMMETRY Symmetry
INVARIANTS
  OwnCredentials
PROPERTY
  ImplementsEnrollment
