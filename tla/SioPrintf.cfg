CONSTANTS
    Formats <- MCFormats
    IntBits = 4
    LongBits = 5
    Strings <- MCStrings
    JobWrites = 1
SPECIFICATION Spec
INVARIANTS
    OutputIsFormatted
    StaysInFormat
