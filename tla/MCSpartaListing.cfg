\* Directories of one map, with entries deleted or not.
SPECIFICATION Spec
CONSTANTS
    Streams <- MCStreams
    SECTOR = 4
    MAP = 3
    ENTRY = 3
    MaxDirSize = 100
INVARIANTS DirListedWhole
\* unpack ends
CHECK_DEADLOCK FALSE
