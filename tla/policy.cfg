CONSTANTS
    vf1 = vf1
    vf2 = vf2
    balanced = balanced
    outward = outward
    echo = echo
    b1 = b1
    b2 = b2
    b3 = b3
    UINT16_MAX = 65535
    Vfs = {vf1, vf2}
    Flows <- MCFlows
    LbIp = 0
    Listens <- MCListens
    MaxPorts = 3
    MaxIps = 3
    Backends = {b1, b2, b3}
    Zero = Zero
    RuleSet <- MCRuleSet
    MaxRules = 2
    MaxMiscounts = 1
    None = None
SPECIFICATION Spec
INVARIANTS  FirewallVerdict
 
SYMMETRY Symmetry
CHECK_DEADLOCK FALSE
