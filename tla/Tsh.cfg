\* As many slots as processes, so that the list never overflows.
CONSTANTS
    MaxJobs = 2
    Pids = {p1, p2}
    NoPid = NoPid
    JidBound = 2
    UserSignals = {"INT", "TSTP"}
    Faults = {"execve"}
SPECIFICATION Spec
SYMMETRY PidSymmetry
INVARIANTS
    TypeOK
    ListAccessGuarded
    SignalsOwnJob
    NoMissedEvent
    ListIsChildren
    ListTellsStopped
    ForegroundOnlyWhileWaiting
    WaitsForForeground
    PromptUnblocked
    ExecUnblocked
    NoNullPointer
PROPERTY ListSpec
