CONSTANTS
    v1 = v1
    v2 = v2
    vip1 = vip1
    VMs = {v1, v2}
    Exts = {e1}
    Nats = {n1, n2}
    NeighNats = {m1}
    Vips = {vip1}
    SnatOf <- NatAndVip
    PFs = {pf0}
    Protos = {"UDP"}
    Flows = {f1, f2}
    Ctxs = {}
    Pkts = {p1, p2}
    Requests <- NatRequests
    offload_mode_enabled = FALSE
    Faults = {"memory", "hash"}
    Captured = {}
    AgeCtxCapacity = 6
    None = None
SPECIFICATION Spec
SYMMETRY Symmetry
INVARIANTS
    TypeOK
    TableEntriesLive
    CacheCoherent
    PacketFlowLive
    
    NatFlowFound
PROPERTY NatBindingStable
