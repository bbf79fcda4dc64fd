SPECIFICATION Spec
CONSTANTS
  Device = {d1}
  Address = {a1}
  Password = {p1, p2}
  ObjectId = {o1, o2}
  Inbound = {s1, s2}
  Outbound = {r1}
  NoDevice = NoDevice
  NoAddress = NoAddress
  NoPassword = NoPassword
  NoObject = NoObject
  MaxInFlight = 1
  CredentialsOnce = TRUE
  MaxRemovals = 1
  MaxRestarts = 1
  MaxRebinds = 0
SYMMETRY Symmetry
INVARIANTS
  TypeOK
  AuthenticCredentials
  OneObjectPerPassword
  QueuesCarryTheirMessages
PROPERTY
  ImplementsEnrollment
