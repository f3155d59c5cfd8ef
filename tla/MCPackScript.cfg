\* A boot sector of nine bytes; disks of five to seven sectors.
SPECIFICATION ScriptSpec
CONSTANTS
    BOOT = 9
    PARAGRAPH = 3
    PAGE = 18
    SMALL = 5
    Lines <- MCLines
    Images <- MCImages
    Cuts = {1, 9, 20, 36}
    MaxLines = 4
INVARIANTS ScriptTypeOK BootKept TablesKept LoadsBack UnpackedSame
\* a script ends
CHECK_DEADLOCK FALSE
