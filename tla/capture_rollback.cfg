CONSTANTS
    vf1 = vf1
    vf2 = vf2
    s1 = s1
    s2 = s2
    Vfs = {vf1, vf2}
    Pf = pf
    Sinks = {s1, s2}
    MaxTargets = 2
    None = None
SPECIFICATION Spec
INVARIANT CaptureRolledBack
SYMMETRY Symmetry
