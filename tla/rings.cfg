CONSTANTS
    init = init
    check = check
    get = get
    list = list
    Calls <- MCCalls
    call_type <- MCCallType
    QSize = 4
    EventQSize = 2
    PeriodicQSize = 2
    BurstSize = 1
    Vfs = 1
    MsgCap = 1
    MaxItems = 4
    Cycles = 1
    None = None
SPECIFICATION Spec
INVARIANTS
    RepliesMatch
    NoMbufLeak
PROPERTIES
    CallsLinearized
    
    TimerBacksOff
CHECK_DEADLOCK FALSE
