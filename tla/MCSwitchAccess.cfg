CONSTANTS
  c1 = c1
  c2 = c2
  c3 = c3
  u1 = u1
  u2 = u2
  admin = admin
  guest = guest
  NoClient = NoClient
  NoUUID = NoUUID
  Clients = {c1, c2, c3}
  Users = {admin, guest}
  Guests = {guest}
  UUIDs = {u1, u2}
  UserOf <- MCUserOf
  UUIDOf <- MCUUIDOf
  LastIp = 2
  StaticIp <- OneHost
  Serial = TRUE
SPECIFICATION Spec
INVARIANTS
  TypeOK
  OneSession
  LeasesExclusive
  
CHECK_DEADLOCK FALSE
