-------------------------------- MODULE MCVtoc --------------------------------
(* Instances of Vtoc for TLC: disks of the sizes the formats are used with *)
(* and at the boundaries of a page of the table.                           *)
EXTENDS Vtoc

Disk(dos, sector_size, sector_count, subdirs) ==
    [dos |-> dos, sector_size |-> sector_size, sector_count |-> sector_count,
     subdirs |-> subdirs]

(* Single density, one sector over the first page, enhanced density with   *)
(* sector 720 reserved, and double density with directories.               *)
RegularDisks ==
    { Disk("2", 128, 720, FALSE), Disk("MyDOS", 128, 945, FALSE),
      Disk("II+", 128, 1040, FALSE), Disk("MyDOS", 256, 720, TRUE) }

(* The last sector is the first of a page of the bitmap.                   *)
PageBoundaryDisk == {Disk("MyDOS", 128, 944, FALSE)}

(* More sectors than the table of DOS II+ has bits.                        *)
LargeDosIIDisk == {Disk("II+", 128, 1969, FALSE)}

(* Fewer sectors than the number of the reserved one.                      *)
SmallDosIIDisk == {Disk("II+", 128, 500, FALSE)}

(* Short sectors and directories: one page of table, and two.              *)
ShortSectorsWithDirs == {Disk("MyDOS", 128, 370, TRUE), Disk("MyDOS", 128, 945, TRUE)}

AllDisks ==
    RegularDisks \cup PageBoundaryDisk \cup LargeDosIIDisk \cup SmallDosIIDisk
        \cup ShortSectorsWithDirs

(* The regular disks are those the conditions of Vtoc ask for.             *)
ASSUME RegularAssumption == \A d \in AllDisks : Regular(d) <=> d \in RegularDisks

=============================================================================
