\* Three slots and four processes: the list fills up, slots free up in the
\* middle, and nextjid wraps around.
CONSTANTS
    MaxJobs = 3
    Pids = {p1, p2, p3, p4}
    NoPid = NoPid
    JidBound = 5
SPECIFICATION ListSpec
INVARIANTS
    ListTypeOK
    SlotsCoherent
    JidsCompact
PROPERTY ImplementsTable
CHECK_DEADLOCK FALSE
