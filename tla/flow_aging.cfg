CONSTANTS
    v1 = v1
    v2 = v2
    vip1 = vip1
    VMs = {v1, v2}
    Exts = {e1}
    Nats = {}
    NeighNats = {m1}
    Vips = {}
    SnatOf <- NoSnat
    PFs = {pf0}
    Protos = {"UDP"}
    Flows = {f1, f2}
    Ctxs = {}
    Pkts = {p1, p2}
    Requests <- IfaceRequests
    offload_mode_enabled = FALSE
    Faults = {"memory", "hash"}
    Captured = {}
    AgeCtxCapacity = 6
    None = None
SPECIFICATION FairSpec
INVARIANT NoOrphanFlow
PROPERTY IdleFlowFreed
