\* Links of 3 bits, 2 bytes in a sector, the first five sectors for DOS 2, and
\* directories of 3 entries in 2 sectors that split the free sectors in two parts.
SPECIFICATION Spec
CONSTANTS
    Disks <- MCDisks
    System = {1, 4}
    ROOT = 4
    DIR_SIZE = 2
    DIR_ENTRIES = 3
    PAYLOAD = 2
    LINKS = 8
    DOS2_LAST = 5
    MaxCreated = 5
    MaxBytes = 5
    NoFile = NoFile
INVARIANTS TypeOK FilesInv SizeExact
PROPERTIES RefinesFileStore
\* pack ends, or an error ends it
CHECK_DEADLOCK FALSE
