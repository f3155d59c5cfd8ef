\* Three sectors in a map; entries across the edges of sectors.
SPECIFICATION Spec
CONSTANTS
    Streams <- MCStreams
    SECTOR = 4
    MAP = 3
    ENTRY = 3
    MaxDirSize = 100
INVARIANTS TypeOK ReadsInOrder EntriesInOrder
PROPERTIES ReadingEnds
\* unpack ends
CHECK_DEADLOCK FALSE
