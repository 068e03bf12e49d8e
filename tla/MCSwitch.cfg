CONSTANTS
  Flows <- MCFlows
  Acls <- MCAcls
  Nets <- MCNets
  MaxStarts = 2
  MaxReloads = 1
  EarlyReload = FALSE
  Conns <- MCConns
  Routes <- MCRoutes
  Peer = TRUE
  TunnelPorts <- MCPorts
  Vnets <- MCVnets
  Macs = {"m1", "m2"}
  NoFlow = NoFlow
  Members <- MCMembers
  VxMembers = {"v1"}
  Handlers = {"h1", "h2"}
  MaxEspReloads = 3
  MaxFaults = 1
  MaxLost = 1
  Clients = {"c1"}
  Fixed = {"c1"}
  MaxProcs = 2
  MaxWrites = 1
  Logins = {"n1", "n2"}
  Passes <- MCPasses
  Roles = {"", "guest"}
  Leases = {0, 1}
  Ldap <- MCLdap
  NoUser = NoUser
  NoPass <- MCNoPass
  MaxCalls = 2
  Workers = {"w1", "w2"}
  Listers = {"l1"}
  Lines = {"k1", "k2", "k3"}
  Ips = {"i1", "i2"}
  MaxSize = 2
  NbrSize = 1
  ChanCap = 1
  MaxFrames = 3
  Requests = {"r1"}
  Points = {"p1", "p2"}
  Links = {"l1", "l2", "l3"}
  EspLinks = {"l1", "l2", "l3"}
  Addressed = {"l1", "l3"}
  SpiOf <- MCSpiOf
  Hosts = {"n1"}
  NoIp = NoIp
  MaxChanges = 3
  Targets = 2
  RRSize = 2
  Streams = {"s1"}
  Requested = {"t1"}
  MaxTurns = 2
SPECIFICATION Spec
INVARIANTS
  TypeOK
  
  
  
  
  RowsFollowed
PROPERTIES
  RulesKept
  NetworkKept
  TablesAgree
  WebServed
  
CHECK_DEADLOCK FALSE
