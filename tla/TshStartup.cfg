CONSTANTS
    MaxJobs = 2
    Pids = {p1, p2}
    NoPid = NoPid
    JidBound = 2
    UserSignals = {"INT", "TSTP"}
    Faults = {}
SPECIFICATION Spec
SYMMETRY PidSymmetry
INVARIANT ForwardFindsGroup
