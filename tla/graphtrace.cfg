CONSTANTS
    RingBufSize = 4
    MaxBurst = 2
    MaxClients = 4
SPECIFICATION Spec
INVARIANTS RingNeverFull OnlyOwnPackets
PROPERTY ClientEnds
CHECK_DEADLOCK FALSE
