CONSTANTS
    UNITS = {"dijkstra"}
    Keys = {k1, k2}
    Data = {d1, d2}
    ROWS = 2
    WRITE_CYCLES = 2
    NoKey = NoKey
    NoData = NoData
    None = None
    r1 = r1  r2 = r2  r3 = r3
    s12 = s12  s13 = s13  s23 = s23  stub = stub
    eth0 = eth0  eth1 = eth1
    Routers = {r1, r2, r3}
    Subnets = {s12, s13, s23, stub}
    Us = r1
    NoRouter = NoRouter
    Null = Null
    Freed = Freed
    IfList <- TriangleIfs
    SubnetOf <- TriangleSubnet
    NbrOn <- TriangleNbrs
    Lsus <- TriangleLsus
SPECIFICATION MCSpec
INVARIANT GatewayIsNeighbour
CHECK_DEADLOCK FALSE
