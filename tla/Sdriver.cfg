CONSTANTS
    NumTracefiles = 2
    ITERS = 2
    MaxIters = 3
    CommandLines <- MCCommandLines
    Texts = {"A", "B"}
    Layouts = {"wide", "narrow"}
    Faults = {"missing", "signal", "start", "filter", "diff", "remove", "folder"}
SPECIFICATION Spec
INVARIANTS
    ScoreIsEarned
    TemporariesRemoved
    NoScoreWithFolder
