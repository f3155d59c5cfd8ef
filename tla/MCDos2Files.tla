----------------------------- MODULE MCDos2Files -----------------------------
(* Instances of Dos2Files for TLC.                                         *)
EXTENDS Dos2Files

Disk(dos, sector_count, long_sectors, ndebug) ==
    [sector_count |-> sector_count,
     use_file_number |-> dos # "MyDOS" \/ long_sectors,
     force_dos2_flag |-> dos = "II+",
     subdirs |-> dos = "MyDOS", ndebug |-> ndebug]

(* DOS 2 and DOS II+; MyDOS with short sectors, on a disk with more        *)
(* sectors than DOS 2 can number; MyDOS with long sectors, on disks too    *)
(* large for its links, in builds with assertions and without.             *)
MCDisks == { Disk("2", 7, FALSE, FALSE), Disk("II+", 7, FALSE, TRUE),
             Disk("MyDOS", 11, FALSE, FALSE),
             Disk("MyDOS", 10, TRUE, FALSE), Disk("MyDOS", 9, TRUE, TRUE) }

=============================================================================
