\* Links of 4 bits, 2 bytes in a sector, a directory of 4 entries in 2 sectors
\* that splits the free sectors in two parts, and a smaller disk.
SPECIFICATION Spec
CONSTANTS
    Disks <- MCDisks
    DIR_FIRST_SECTOR = 11
    DIR_SIZE = 2
    PER_SECTOR = 2
    PAYLOAD = 2
    LINKS = 16
    BootWords = {0, 9, 13, 99}
    Leftover = {0, 11, 99}
    MaxCreated = 5
    MaxBytes = 7
    NoFile = NoFile
INVARIANTS TypeOK FilesInv DosFileMarked
PROPERTIES RefinesFileStore
\* pack ends, or an error ends it
CHECK_DEADLOCK FALSE
