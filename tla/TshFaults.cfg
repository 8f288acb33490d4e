\* Every fault, and a list that overflows.
CONSTANTS
    MaxJobs = 1
    Pids = {p1, p2}
    NoPid = NoPid
    JidBound = 2
    UserSignals = {"INT", "QUIT"}
    Faults = {"fork", "execve", "badjob", "cont"}
SPECIFICATION Spec
SYMMETRY PidSymmetry
PROPERTY ListSpec
