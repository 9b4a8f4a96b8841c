CONSTANTS
    v1 = v1
    v2 = v2
    vip1 = vip1
    VMs = {v1}
    Exts = {e1}
    Nats = {}
    NeighNats = {}
    Vips = {}
    SnatOf <- NoSnat
    PFs = {pf0}
    Protos = {"TCP"}
    Flows = {f1, f2}
    Ctxs = {c1, c2, c3}
    Pkts = {p1, p2}
    Requests <- IfaceRequests
    offload_mode_enabled = TRUE
    Faults = {"nic"}
    Captured = {pf0}
    AgeCtxCapacity = 2
    None = None
SPECIFICATION Spec
SYMMETRY Symmetry
INVARIANTS
    RulesFit
    RefCountExact
CHECK_DEADLOCK FALSE
