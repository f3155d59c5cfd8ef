\* Two files with escaped names.
SPECIFICATION Spec
CONSTANTS
    NAME = 2
    EXT = 2
    Chars <- MCChars
    Commands = {"DISK"}
    Disks <- EscapedDisks
    MaxRemoved = 0
INVARIANTS SeparateFiles
CHECK_DEADLOCK FALSE
