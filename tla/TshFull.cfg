CONSTANTS
    MaxJobs = 1
    Pids = {p1, p2}
    NoPid = NoPid
    JidBound = 2
    UserSignals = {"INT", "TSTP"}
    Faults = {}
SPECIFICATION Spec
SYMMETRY PidSymmetry
INVARIANT WaitsForForeground
