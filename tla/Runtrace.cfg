CONSTANTS
    MaxJobs = 2
    Pids = {p1, p2}
    NoPid = NoPid
    JidBound = 3
    UserSignals = {"INT", "TSTP"}
    Faults = {}
    Traces <- MCTraces
    RoughTraces <- MCRoughTraces
SPECIFICATION RunFairSpec
INVARIANTS
    RunTypeOK
    OutputMatches
    HandshakesPair
    RendezvousBalance
    NextMeansPrompt
    ZeroStatus
    CleanedOnExit
PROPERTIES
    ForeignFolderKept
    RunsTheShell
    TracesComplete
    EveryTraceEnds
