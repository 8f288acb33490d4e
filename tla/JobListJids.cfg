CONSTANTS
    MaxJobs = 4
    Pids = {p1, p2, p3, p4, p5}
    NoPid = NoPid
    JidBound = 5
SPECIFICATION ListSpec
SYMMETRY PidSymmetry
INVARIANT JidsUnique
CHECK_DEADLOCK FALSE
