CONSTANTS
    Vfs = {vf1, vf2}
    L4Ports = {a, b}
    PortCount = 2
    proto = "TCP"
    port_timeout = 1
    established_port_timeout = 2
    StartTime = 2
    MaxTime = 5
    Faults = {"hash", "stop"}
    None = None
SPECIFICATION Spec
SYMMETRY Symmetry
INVARIANTS
    TypeOK
    OpenPortsMatch
    ReplyReachesSender
    InterfaceForgotten
    NoLostConnection
PROPERTY PortKept
