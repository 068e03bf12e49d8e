CONSTANTS
    Clients = {"c1", "c2"}
    Addrs = {"a1", "a2"}
    AddrOf <- MCAddrOf
    NoClient = "none"
    MaxClient = 1
    OnCap = 1
    OffCap = 1
    WrQus = 1
    Remotes = {"r1", "r2"}
    MaxSessions = 2
    QueueSize = 2
    AcceptSize = 1
    MaxConns = 2
    MaxData = 3
    NoSession = 0
    Closers = {"x1", "x2"}
    DoneSize = 2
    MaxDials = 4
    Free = "free"
SPECIFICATION Spec
INVARIANT
    TypeOK

    
    
    
CHECK_DEADLOCK FALSE
