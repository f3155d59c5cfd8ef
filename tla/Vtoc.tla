--------------------------------- MODULE Vtoc ---------------------------------
(***************************************************************************)
(* The volume table of contents of DOS 2 (libatr/dos2_filesystem.cpp) and  *)
(* of the file systems with an expanded one (libatr/expanded_vtoc.cpp):    *)
(* DOS II+, XDOS, which formats as II+ does, and MyDOS.                    *)
(*                                                                         *)
(* The table is a bitmap with a bit set for every free sector, a word that *)
(* counts the free sectors and a word with the capacity.  It starts in     *)
(* sector 360; an expanded one goes on in 359, 358, ... its pages.         *)
(***************************************************************************)
EXTENDS Integers, FiniteSets

CONSTANTS
    Disks,  \* disks to format: [dos, sector_size, sector_count], and whether
            \* the files to pack are in directories: subdirs
    None,   \* result: nothing was allocated yet
    Full,   \* result: "disk full" was thrown
    MaxDataAllocs   \* bound on the allocations of AllocFromData and, in
                    \* StraysBounded, on how far they set the count off

VTOC_SECTOR      == 360
DIR_FIRST_SECTOR == 361
DIR_SIZE         == 8
WORD             == 65536

(* DISK of a script takes any size.  The table and the directory have to   *)
(* be on the disk: on a smaller one the code writes outside the image.     *)
ASSUME DisksAssumption ==
    \A d \in Disks :
        /\ d.dos \in {"2", "II+", "MyDOS"}
        /\ d.sector_size \in {128, 256}
        /\ d.subdirs \in (IF d.dos = "MyDOS" THEN BOOLEAN ELSE {FALSE})
        /\ d.sector_count \in DIR_FIRST_SECTOR + DIR_SIZE .. WORD - 1

ASSUME ResultAssumption ==
    None \notin Int /\ Full \notin Int /\ None # Full /\ MaxDataAllocs \in Nat

VARIABLES
    disk,       \* the disk
    phase,      \* "format": writing the pages; "system": taking out the
                \* sectors the file system needs itself; "ready"
    vtoc_size,  \* pages written so far
    start,      \* the sector of the first bit of the next page
    size,       \* sectors whose bit is not set yet
    bitmap,     \* the sectors whose bit is set
    free_sec,   \* VTOC_FREE_SEC
    capacity,   \* VTOC_CAPACITY
    result      \* what the last alloc_sector or alloc_dir returned

formatVars == <<vtoc_size, start, size>>
vars == <<disk, phase, formatVars, bitmap, free_sec, capacity, result>>

Expanded(d)      == d.dos # "2"
ReservesSector720(d) == d.dos = "II+"
MinOf(a, b)      == IF a < b THEN a ELSE b

(* The sectors vtoc_format manages.                                        *)
DiskSize(d) ==
    IF d.dos = "2" THEN 719
    ELSE MinOf(d.sector_count, IF d.dos = "MyDOS" THEN WORD - 1 ELSE 1023)

(* The bits a page holds: the first has 10 bytes of other data in front;   *)
(* that of DOS 2 has 90 bytes of bitmap.                                   *)
FirstPageBits(d) == IF d.dos = "2" THEN 720 ELSE (d.sector_size - 10) * 8
PageBits(d)      == d.sector_size * 8

PageOf(d, s) ==
    IF s < FirstPageBits(d) THEN 0 ELSE 1 + (s - FirstPageBits(d)) \div PageBits(d)
PageStart(d, p) ==
    IF p = 0 THEN 0 ELSE FirstPageBits(d) + (p - 1) * PageBits(d)

SystemSectors(d, pages) ==
    ((VTOC_SECTOR + 1 - pages) .. VTOC_SECTOR)
        \cup (DIR_FIRST_SECTOR .. DIR_FIRST_SECTOR + DIR_SIZE - 1)
        \cup (IF ReservesSector720(d) THEN {720} ELSE {})

-----------------------------------------------------------------------------
Init ==
    /\ disk \in Disks
    /\ phase = "format"
    /\ vtoc_size = 0
    /\ start = 0
    /\ size = DiskSize(disk) - 3
    /\ bitmap = {}
    /\ free_sec = 0
    /\ capacity = 0
    /\ result = None

(* switch_sector_use for the sectors of S: every bit is turned over, and   *)
(* the count follows what it became.                                       *)
(* Variants: the count only ever goes down; it follows what the bit was.   *)
SwitchCountDown(S) ==
    /\ bitmap' = (bitmap \ S) \cup (S \ bitmap)
    /\ free_sec' = free_sec - Cardinality(S)
SwitchCountInverted(S) ==
    /\ bitmap' = (bitmap \ S) \cup (S \ bitmap)
    /\ free_sec' = (free_sec + Cardinality(S \cap bitmap) - Cardinality(S \ bitmap)) % WORD
SwitchSectorUse(S) ==
    /\ bitmap' = (bitmap \ S) \cup (S \ bitmap)
    /\ free_sec' = (free_sec + Cardinality(S \ bitmap) - Cardinality(S \cap bitmap)) % WORD

(* dos2::vtoc_format up to the sectors the file system takes: one page,    *)
(* all bits set but those of the boot sectors.                             *)
FormatDos2 ==
    /\ phase = "format" /\ ~Expanded(disk)
    /\ bitmap' = 4 .. 719
    /\ free_sec' = 707 + 8 + 1
    /\ vtoc_size' = 1
    /\ start' = FirstPageBits(disk)
    /\ size' = 0
    /\ phase' = "system"
    /\ UNCHANGED <<disk, capacity, result>>

(* A pass of the loop of expanded_vtoc::vtoc_format.  The first byte of    *)
(* the first page is written by hand: sectors 4 to 7 are free.             *)
FormatPage ==
    /\ phase = "format" /\ Expanded(disk)
    /\ LET first == vtoc_size = 0
           left == IF first THEN size - 4 ELSE size
           from == IF first THEN 8 ELSE start
           room == IF first THEN FirstPageBits(disk) - 8 ELSE PageBits(disk)
           x == MinOf(room, left)
       IN  /\ bitmap' = bitmap \cup (IF first THEN 4 .. 7 ELSE {})
                               \cup (from .. from + x - 1)
           /\ free_sec' = IF first THEN size ELSE free_sec
           /\ start' = from + room
           /\ size' = left - x
           /\ phase' = IF left - x > 0 THEN "format" ELSE "system"
    /\ vtoc_size' = vtoc_size + 1
    /\ UNCHANGED <<disk, capacity, result>>

(* The rest of vtoc_format, with dir_format: the sectors of the table, of  *)
(* the directory and sector 720 are taken, and what is left is the         *)
(* capacity.  DOS 2 has its capacity as a constant.                        *)
ReserveSystem ==
    /\ phase = "system"
    /\ SwitchSectorUse(SystemSectors(disk, vtoc_size))
    /\ capacity' = IF Expanded(disk) THEN free_sec' ELSE 707
    /\ phase' = "ready"
    /\ UNCHANGED <<disk, formatVars, result>>

(* The pages alloc_sector looks at: the first, and then all that start     *)
(* below the number of sectors of the disk.                                *)
Searched(d, s) ==
    \/ PageOf(d, s) = 0
    \/ Expanded(d) /\ PageStart(d, PageOf(d, s)) < d.sector_count

AllocSector ==
    /\ phase = "ready"
    /\ \E s \in bitmap :
        /\ Searched(disk, s)
        /\ \A t \in bitmap : t < s => ~Searched(disk, t)
        /\ SwitchSectorUse({s})
        /\ result' = s
    /\ UNCHANGED <<disk, phase, formatVars, capacity>>

NothingFound == \A s \in bitmap : ~Searched(disk, s)

(* The search may go on past the last page of the table, into whatever the *)
(* sectors below it hold: the bit it finds there, and turns over, is one   *)
(* of a file's data.  All sectors are taken by then, so the free count     *)
(* goes 0, 65535, ... and bounds the number of steps.                      *)
AllocFromData ==
    /\ phase = "ready"
    /\ NothingFound
    /\ (WORD - free_sec) % WORD < MaxDataAllocs
    /\ \E s \in PageStart(disk, vtoc_size) .. disk.sector_count + PageBits(disk) :
        /\ PageOf(disk, s) >= vtoc_size
        /\ Searched(disk, s)
        /\ result' = s
    /\ free_sec' = (free_sec - 1) % WORD
    /\ UNCHANGED <<disk, phase, formatVars, bitmap, capacity>>

DiskFull ==
    /\ phase = "ready"
    /\ NothingFound
    /\ result' = Full
    /\ UNCHANGED <<disk, phase, formatVars, bitmap, free_sec, capacity>>

(* mydos::alloc_dir looks for 8 free sectors in a row among the bits of    *)
(* 128 bytes.  The first page of a disk with short sectors has only 118 of *)
(* them; the last 80 bits are read from behind the buffer.                 *)
DirBits == 1024
DirRun(s) == s .. s + DIR_SIZE - 1
TableBits   == bitmap \cap (0 .. MinOf(FirstPageBits(disk), DirBits) - 1)
UnknownBits == FirstPageBits(disk) .. DirBits - 1

(* The first run.  Variant: one sector too short.                          *)
FirstShortRun(seen, s) ==
    /\ s .. s + DIR_SIZE - 2 \subseteq seen
    /\ \A t \in seen : t < s => ~(t .. t + DIR_SIZE - 2 \subseteq seen)
FirstDirRun(seen, s) ==
    /\ DirRun(s) \subseteq seen
    /\ \A t \in seen : t < s => ~(DirRun(t) \subseteq seen)
NoDirRun(seen) == \A s \in seen : ~(DirRun(s) \subseteq seen)

(* The sectors of a run are switched one by one.  Of those with no page in *)
(* the table the bits are in sector 359 nevertheless, which may be of a    *)
(* file by now: its data is turned over there, and the count follows it,   *)
(* so many of those bits as ones become ones.                              *)
TakeRun(R) ==
    LET inTable == {t \in R : PageOf(disk, t) < vtoc_size}
        behind  == Cardinality(R \ inTable)
    IN  /\ bitmap' = (bitmap \ inTable) \cup (inTable \ bitmap)
        /\ \E ones \in 0 .. behind :
             free_sec' = (free_sec + Cardinality(inTable \ bitmap)
                            - Cardinality(inTable \cap bitmap)
                            + ones - (behind - ones)) % WORD

(* Bound on the directories CreateStrayDir makes: no bit of a sector that  *)
(* is not there is set, and the count is off by no more than this.         *)
StraysBounded ==
    /\ bitmap \subseteq 4 .. DiskSize(disk)
    /\ \E off \in -MaxDataAllocs .. MaxDataAllocs :
         free_sec = (Cardinality(bitmap) + off) % WORD

(* mydos_dir::create_dir: alloc_dir, then format takes the sectors out.    *)
CreateDir ==
    /\ phase = "ready" /\ disk.subdirs
    /\ LET known == TableBits
       IN  \E s \in known :
            /\ FirstDirRun(known, s)
            /\ SwitchSectorUse(DirRun(s))
            /\ result' = s
    /\ UNCHANGED <<disk, phase, formatVars, capacity>>

(* No run is free, and the unknown bits complete one.  When any value of   *)
(* them makes s the first, the one with only the bits of the run set does. *)
(* Behind the end of the disk there is nothing to write the directory to:  *)
(* only the table is followed then.                                        *)
CreateStrayDir ==
    /\ phase = "ready" /\ disk.subdirs /\ StraysBounded
    /\ LET known == TableBits
       IN  /\ NoDirRun(known)
           /\ \E s \in FirstPageBits(disk) + 1 - DIR_SIZE .. DirBits - DIR_SIZE :
                /\ FirstDirRun(known \cup (DirRun(s) \cap UnknownBits), s)
                /\ TakeRun(DirRun(s))
                /\ result' = s
    /\ UNCHANGED <<disk, phase, formatVars, capacity>>

NoRoomForDir ==
    /\ phase = "ready" /\ disk.subdirs
    /\ NoDirRun(TableBits)
    /\ result' = Full
    /\ UNCHANGED <<disk, phase, formatVars, bitmap, free_sec, capacity>>

Next ==
    \/ FormatDos2 \/ FormatPage \/ ReserveSystem
    \/ AllocSector \/ AllocFromData \/ DiskFull
    \/ CreateDir \/ CreateStrayDir \/ NoRoomForDir

Spec == Init /\ [][Next]_vars

-----------------------------------------------------------------------------
TypeOK ==
    /\ disk \in Disks
    /\ phase \in {"format", "system", "ready"}
    /\ vtoc_size \in Nat /\ start \in Nat /\ size \in Nat
    /\ bitmap \subseteq 1 .. WORD - 1
    /\ free_sec \in 0 .. WORD - 1
    /\ capacity \in 0 .. WORD - 1
    /\ result \in Nat \cup {None, Full}

(* The pages a disk needs, and the sectors that are left for files.        *)
PagesNeeded(d) == PageOf(d, DiskSize(d)) + 1
Usable(d) == (4 .. DiskSize(d)) \ SystemSectors(d, PagesNeeded(d))

(* Conditions on the disk, which the code leaves to its user.              *)

(* Every sector the format marks free is on the disk.                      *)
AllBitsOnDisk(d) ==
    /\ DiskSize(d) <= d.sector_count
    /\ ReservesSector720(d) => 720 <= DiskSize(d)
(* The search of alloc_sector sees the page of the last sector ...         *)
LastPageSearched(d) == Searched(d, DiskSize(d))
(* ... and none that is not there.                                         *)
SearchStaysInTable(d) ==
    Expanded(d) => PageStart(d, PagesNeeded(d)) >= d.sector_count
(* The table has a bit for every sector alloc_dir can find.                *)
DirSearchInTable(d) ==
    d.subdirs => PageOf(d, DirBits - 1) < PagesNeeded(d)
(* alloc_dir sees all sectors, and nothing else.                           *)
DirSearchExact(d) ==
    d.subdirs => d.sector_size = 256 /\ DiskSize(d) < DirBits

Regular(d) ==
    AllBitsOnDisk(d) /\ LastPageSearched(d) /\ SearchStaysInTable(d) /\ DirSearchExact(d)

(***************************************************************************)
(* VTOC_FREE_SEC counts the bits that are set, however the sectors came    *)
(* and went: formatting writes the count before most bits, turns bits over *)
(* to reserve sectors, and a directory may get bits turned over that were  *)
(* never set.  Both searches have to end in the table: the other bits are  *)
(* of files.                                                               *)
(***************************************************************************)
FreeCountExact ==
    phase = "ready" /\ SearchStaysInTable(disk) /\ DirSearchInTable(disk)
        => free_sec = Cardinality(bitmap)

(***************************************************************************)
(* No sector of the system is ever free again, and none is off the disk.   *)
(***************************************************************************)
OnlyUsableFree ==
    phase = "ready" /\ AllBitsOnDisk(disk) /\ DirSearchExact(disk)
        => bitmap \subseteq Usable(disk)

(***************************************************************************)
(* VTOC_CAPACITY is what the fresh disk has free, whether it was computed  *)
(* or, for DOS 2, written as 707.                                          *)
(***************************************************************************)
CapacityExact ==
    phase = "ready" /\ AllBitsOnDisk(disk) => capacity = Cardinality(Usable(disk))

(***************************************************************************)
(* "Disk full" is said when no sector is free, but for one case: a last    *)
(* sector that is the first of a page of the bitmap has a page and a bit   *)
(* and is never found (expanded_vtoc.cpp, alloc_sector stops before that   *)
(* page).  No other sector is ever forgotten.                              *)
(***************************************************************************)
FullLeavesNothing ==
    result = Full /\ ~disk.subdirs
        => bitmap = IF LastPageSearched(disk) THEN {} ELSE {DiskSize(disk)}

VtocInv == FreeCountExact /\ OnlyUsableFree /\ CapacityExact /\ FullLeavesNothing

Allocator ==
    INSTANCE SectorAllocator
    WITH usable <- Usable(disk),
         formatted <- phase = "ready",
         free <- IF phase = "ready" THEN bitmap ELSE {},
         RunLength <- DIR_SIZE

(***************************************************************************)
(* On a regular disk the bitmap is a sector allocator: formatting frees    *)
(* what is usable and nothing else, a sector is handed out once, and "disk *)
(* full" is said when nothing fits.                                        *)
(***************************************************************************)
RefinesAllocator ==
    /\ Allocator!AllocatorInit
    /\ [][Regular(disk) => Allocator!AllocatorNext]_(Allocator!allocatorVars)

=============================================================================
