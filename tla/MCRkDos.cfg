\* A disk without room, with room for a directory, and for two sectors more.
SPECIFICATION Spec
CONSTANTS
    SECTOR = 9
    Counts = {3, 4, 6, 7}
    Foreign <- MCForeign
    Sizes = {0, 1, 8, 9, 10, 18, 19, 27, 28}
    MaxFiles = 2
INVARIANTS TypeOK SpaceKept ListedWhole SavedBytes
PROPERTIES ListEnds
\* the programs end
CHECK_DEADLOCK FALSE
