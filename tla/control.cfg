CONSTANTS
    p1 = p1
    p2 = p2
    PortSeq <- MCPortSeq
    Pf0 = pf0
    Vnis = {v1}
    a = a
    b = b
    l1 = l1
    l2 = l2
    Ids = {a, b}
    Addrs4 = {x}
    Addrs6 = {y}
    Pfxs = {x}
    LbIps = {l1, l2}
    LbIds = {m}
    Faults = {"vnf value", "vni", "start", "stop", "lb id"}
    MaxUnderlays = 2
    None = None
SPECIFICATION Spec
INVARIANTS VniRefExact InterfaceWhole LocalRouteOwned LbIdLive
SYMMETRY Symmetry
