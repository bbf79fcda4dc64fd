SPECIFICATION Spec
CONSTANTS
  Device = {d1, d2}
  Address = {a1, a2}
  Password = {p1, p2}
  ObjectId = {o1}
  Inbound = {s1}
  Outbound = {r1}
  NoDevice = NoDevice
  NoAddress = NoAddress
  NoPassword = NoPassword
  NoObject = NoObject
  MaxInFlight = 1
  CredentialsOnce = TRUE
  MaxRemovals = 0
  MaxRestarts = 0
  MaxRebinds = 1
SYMMETRY Symmetry
INVARIANTS
  AuthenticCredentials
  MeasurementsUnderOwnObject
