CONSTANTS
    MaxJobs = 2
    Pids = {p1, p2}
    NoPid = NoPid
    JidBound = 2
    UserSignals = {"INT", "TSTP"}
    Faults = {"fork"}
SPECIFICATION Spec
SYMMETRY PidSymmetry
INVARIANT ExecUnblocked
