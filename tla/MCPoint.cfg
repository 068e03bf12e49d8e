CONSTANTS
    Addrs = {"a1", "a2"}
    Peers = {"p1"}
    MaxDevices = 3
    QueueSize = 2
    MaxFaults = 1
    MaxAddrs = 2
    NoAddr = "none"
    NoDevice = 0
    Nets = {"n1", "n2"}
    AddrOf <- MCAddrOf
    SubnetOf <- MCSubnetOf
    RoutesOf <- MCRoutesOf
    IfAddr = "a0"
    Bridge = TRUE
    ByPass = TRUE
    Serial = TRUE
    MaxRules = 6
    NoNet = "nonet"
    Sizes = {2, 4, 9}
    BufSize = 3
    MinSize = 2
    MaxSize = 3
    SizeLimit = 6
    MaxMsgs = 3
    MaxConns = 2
    Lengths = {0, 13, 14, 17, 18, 21, 22, 33, 34, 41, 42, 53, 54, 60}
SPECIFICATION Spec
INVARIANTS
    TypeOK
    
    MessagesRead

    
CHECK_DEADLOCK FALSE
