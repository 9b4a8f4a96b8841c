CONSTANTS
    v1 = v1
    v2 = v2
    vip1 = vip1
    VMs = {v1}
    Exts = {e1}
    Nats = {}
    NeighNats = {m1}
    Vips = {}
    SnatOf <- NoSnat
    PFs = {pf0, pf1}
    Protos = {"UDP"}
    Flows = {f1, f2}
    Ctxs = {c1, c2}
    Pkts = {p1, p2}
    Requests <- NoRequests
    offload_mode_enabled = TRUE
    Faults = {"nic"}
    Captured = {}
    AgeCtxCapacity = 6
    None = None
SPECIFICATION Spec
SYMMETRY Symmetry
INVARIANTS
    RefCountExact
    NoUseAfterFree
