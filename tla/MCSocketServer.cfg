CONSTANTS
  c1 = c1
  c2 = c2
  c3 = c3
  a1 = a1
  a2 = a2
  NoClient = NoClient
  Clients = {c1, c2, c3}
  Addrs = {a1, a2}
  AddrOf <- ReusedAddrs
  MaxClient = 2
  OnCap = 1
  OffCap = 1
  WrQus = 1
SYMMETRY Symmetry
SPECIFICATION Spec
INVARIANTS
  TypeOK
  SlotsAccounted
  NoOrphan
PROPERTIES
  ImplementsPool
