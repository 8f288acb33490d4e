CONSTANTS
    MAXARGS = 3
    OPEN_MAX = 6
    Sessions <- MCSessions
    Contents <- MCContents
    Writable <- MCWritable
    Missing <- MCMissing
SPECIFICATION FairSpec
INVARIANTS
    TypeOK
    TokensTile
PROPERTIES
    TypedInputLost
    EverySessionEnds
