CONSTANTS
    i1 = i1
    i2 = i2
    Ifaces = {i1, i2}
    VipIps = {v}
    NatIps = {x}
    Ranges <- MCRanges
    Dsts = {d1}
    SrcPorts = {2}
    Protos = {"UDP", "ICMP"}
    hash <- MCHash
    Faults = {"memory"}
    CntMod = 16
    MaxConns = 2
    MaxStuck = 1
    MaxLeaked = 1
    None = None
SPECIFICATION Spec
SYMMETRY Symmetry
INVARIANTS
    OverloadExact
    PortmapBounded
    
    UnderlayExact
    NeighbourReachable
