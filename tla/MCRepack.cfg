\* Any name of one entry; trees with one to four directories.
SPECIFICATION Spec
CONSTANTS
    NAME = 2
    EXT = 2
    Chars <- MCChars
    Commands = {"DISK"}
    Disks <- MCDisks
    MaxRemoved = 1
INVARIANTS TypeOK RoundTrip UnpackedPacks DosFileKept
PROPERTIES ProgramsEnd
\* the programs end
CHECK_DEADLOCK FALSE
