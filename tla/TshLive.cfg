CONSTANTS
    MaxJobs = 1
    Pids = {p1}
    NoPid = NoPid
    JidBound = 1
    UserSignals = {"INT", "TSTP"}
    Faults = {}
SPECIFICATION FairSpec
PROPERTIES
    EveryChildReaped
    ForegroundWaitEnds
    InterruptReachesJob
