\* The member that next() goes on from holds a sector of the directory, zero, or
\* a number beyond the directory.
SPECIFICATION Spec
CONSTANTS
    Disks <- MCDisks
    DIR_FIRST_SECTOR = 11
    DIR_SIZE = 2
    PER_SECTOR = 2
    PAYLOAD = 2
    LINKS = 16
    BootWords = {0, 9, 13, 99}
    Leftover = {0, 11, 99}
    MaxCreated = 5
    MaxBytes = 7
    NoFile = NoFile
INVARIANTS ListingComplete
\* pack ends, or an error ends it
CHECK_DEADLOCK FALSE
