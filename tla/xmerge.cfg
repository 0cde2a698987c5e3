\* Up to two inputs out of one file and the output file itself, read two bytes
\* at a time; an int holds at most 4.
CONSTANTS
    OutFile = out
    InFile = {a}
    MaxFiles = 2
    MaxLen = 4
    PAGE_SIZE = 2
    INT_MAX = 4
SPECIFICATION FairSpec
INVARIANTS ResultHonest
PROPERTIES ReturnsClean
CHECK_DEADLOCK FALSE
