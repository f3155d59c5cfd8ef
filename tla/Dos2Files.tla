------------------------------ MODULE Dos2Files ------------------------------
(***************************************************************************)
(* Directories and files of DOS 2 (dos2_dir and dos2_file of               *)
(* libatr/dos2_filesystem.cpp), used by II+, XDOS and MyDOS too, with the  *)
(* directories of MyDOS (libatr/mydos.cpp), driven the way pack and        *)
(* unpack (src/main.cpp) drive them.                                       *)
(*                                                                         *)
(* A file is a chain of sectors.  The last three bytes of a sector hold    *)
(* the number of the next one and the number of bytes in use.  DOS 2 gives *)
(* the link 10 bits and the file's number in the directory the other 6;    *)
(* MyDOS with short sectors gives the link all 16.                         *)
(*                                                                         *)
(* Free sectors come from Vtoc: here they are a set.  Sectors are reached  *)
(* through the cache: SectorCache shows that one may think of them as an   *)
(* array.                                                                  *)
(***************************************************************************)
EXTENDS Integers, Sequences, FiniteSets, SectorChains

CONSTANTS
    Disks,      \* disks: [sector_count, use_file_number, force_dos2_flag,
                \* subdirs, ndebug]; ndebug: the program was compiled without
                \* assertions
    System,     \* boot sectors, table and root directory
    ROOT,       \* the first sector of the root directory, 361
    DIR_SIZE,   \* sectors in a directory, 8
    DIR_ENTRIES,\* entries in a directory, 64
    PAYLOAD,    \* bytes of a sector a file gets: the sector size less 3
    LINKS,      \* the values of a 10-bit link, 1024
    DOS2_LAST,  \* the last sector DOS 2 uses, 720
    MaxCreated, \* bound on the files and directories of a script
    MaxBytes,   \* bound on the length of a file
    NoFile      \* no file is open

ASSUME ScaleAssumption ==
    /\ DIR_SIZE \in Nat \ {0} /\ DIR_ENTRIES \in Nat \ {0} /\ PAYLOAD \in Nat \ {0}
    /\ LINKS \in Nat \ {0} /\ DOS2_LAST \in Nat /\ MaxCreated \in Nat /\ MaxBytes \in Nat
ASSUME DisksAssumption ==
    \A d \in Disks :
        /\ d.sector_count \in Nat
        /\ d.use_file_number \in BOOLEAN /\ d.force_dos2_flag \in BOOLEAN
        /\ d.subdirs \in BOOLEAN /\ d.ndebug \in BOOLEAN
ASSUME SystemAssumption == System \subseteq Nat \ {0} /\ ROOT \in System

VARIABLES
    disk,
    free,       \* the sectors whose bit is set in the table
    sec,        \* sec[s]: bytes, count and link of sector s
    dir,        \* dir[d][k]: entry k of the directory that starts at sector d
    dir_stack,  \* the directories of pack that are open; the last is current
    file,       \* the dos2_file that is written, or NoFile
    created,    \* files and directories created so far
    error       \* what was thrown, or "": pack is over then

vars == <<disk, free, sec, dir, dir_stack, file, created, error>>

Usable(d) == (1 .. d.sector_count) \ System
Entries   == 0 .. DIR_ENTRIES - 1

(* A dos2_file; NoFile is none, and none of what FileStore sees of one.    *)
FileObjects ==
    [name : Nat, dir : Nat, file_no : Entries, first_sec : Nat, sector : Nat, pos : Nat,
     sec_cnt : Nat, size : Nat, dos2_compatible : BOOLEAN]
ASSUME NoFileAssumption ==
    NoFile \notin FileObjects \cup [name : Nat, bytes : Seq(Nat \X Nat)]

ClearSector == [bytes |-> [i \in 1 .. PAYLOAD |-> ZERO], count |-> 0, link |-> 0]

FreeEntry == [flag |-> "never used", dos2 |-> FALSE, name |-> 0, start |-> 0, count |-> 0]
EmptyDir == [k \in Entries |-> FreeEntry]

Current == dir_stack[Len(dir_stack)]
Running == error = ""

-----------------------------------------------------------------------------
(* A formatted disk.                                                       *)
Init ==
    /\ disk \in Disks
    /\ free = Usable(disk)
    /\ sec = [s \in 1 .. disk.sector_count |-> ClearSector]
    /\ dir = [d \in {ROOT} |-> EmptyDir]
    /\ dir_stack = <<ROOT>>
    /\ file = NoFile
    /\ created = 0
    /\ error = ""

Throw(what) ==
    /\ error' = what
    /\ UNCHANGED <<disk, free, sec, dir, dir_stack, file, created>>

FreeEntries(d) == {k \in Entries : dir[d][k].flag = "never used"}

(* alloc_entry: the first entry that is not used.                          *)
AllocEntry(d, flag, start, k) ==
    /\ FreeEntries(d) # {}
    /\ k = First(FreeEntries(d))
    /\ dir' = [dir EXCEPT ![d][k] =
                [FreeEntry EXCEPT !.flag = flag, !.name = created + 1, !.start = start]]

MayCreate == Running /\ file = NoFile /\ created < MaxCreated

(* dos2_dir::create_file.                                                  *)
CreateFile ==
    /\ MayCreate
    /\ \E k \in Entries :
        /\ AllocEntry(Current, "opened", 0, k)
        /\ file' = [name |-> created + 1, dir |-> Current, file_no |-> k,
                    first_sec |-> 0, sector |-> 0, pos |-> 0, sec_cnt |-> 0, size |-> 0,
                    dos2_compatible |-> TRUE]
    /\ created' = created + 1
    /\ UNCHANGED <<disk, free, sec, dir_stack, error>>

DirFull ==
    /\ MayCreate
    /\ FreeEntries(Current) = {}
    /\ Throw("dir full")

(* dos2_file::write and what it calls.  The sector a byte goes to is       *)
(* allocated when the byte is there.                                       *)
NextByte == <<file.name, file.size + 1>>
MayWrite == Running /\ file # NoFile /\ file.size < MaxBytes

(* The first byte takes the first sector.                                  *)
WriteFirst ==
    /\ MayWrite
    /\ file.first_sec = 0
    /\ free # {}
    /\ LET s == First(free)
       IN  /\ free' = free \ {s}
           /\ sec' = [sec EXCEPT ![s].bytes[1] = NextByte]
           /\ file' = [file EXCEPT !.first_sec = s, !.sector = s, !.pos = 1, !.size = 1]
    /\ UNCHANGED <<disk, dir, dir_stack, created, error>>

(* There is room in the current sector.                                    *)
WriteMore ==
    /\ MayWrite
    /\ file.first_sec # 0 /\ file.pos < PAYLOAD
    /\ sec' = [sec EXCEPT ![file.sector].bytes[file.pos + 1] = NextByte]
    /\ file' = [file EXCEPT !.pos = @ + 1, !.size = @ + 1]
    /\ UNCHANGED <<disk, free, dir, dir_stack, created, error>>

(* write_data_sector refuses a link that does not fit, unless the          *)
(* assertion was compiled out: the number's high bits then go to those of  *)
(* the file's number.                                                      *)
LinkAllowed(next) == disk.use_file_number /\ ~disk.ndebug => next < LINKS

(* write_data_sector.  Variants: the size of the sector in place of the    *)
(* number of bytes, and no number.                                         *)
SectorLinkedWhole(next) ==
    [sec EXCEPT ![file.sector].count = PAYLOAD + 3, ![file.sector].link = next]
SectorLinkedUncounted(next) == [sec EXCEPT ![file.sector].link = next]
SectorLinked(next) ==
    [sec EXCEPT ![file.sector].count = file.pos, ![file.sector].link = next]

(* dos2_compatible, once a sector is linked to the next one.  Variant: the *)
(* sector that is left is looked at.                                       *)
CompatibleBefore(next) ==
    file.dos2_compatible /\ (file.sector > DOS2_LAST => disk.force_dos2_flag)
Compatible(next) ==
    file.dos2_compatible /\ (next > DOS2_LAST => disk.force_dos2_flag)

(* The current sector is full: it is linked to a new one.                  *)
WriteNext ==
    /\ MayWrite
    /\ file.first_sec # 0 /\ file.pos = PAYLOAD
    /\ free # {}
    /\ LET s == First(free)
       IN  /\ LinkAllowed(s)
           /\ free' = free \ {s}
           /\ sec' = [SectorLinked(s) EXCEPT ![s].bytes[1] = NextByte]
           /\ file' = [file EXCEPT !.sector = s, !.pos = 1,
                                   !.sec_cnt = @ + 1, !.size = @ + 1,
                                   !.dos2_compatible = Compatible(s)]
    /\ UNCHANGED <<disk, dir, dir_stack, created, error>>

AssertionFails ==
    /\ MayWrite
    /\ file.first_sec # 0 /\ file.pos = PAYLOAD
    /\ free # {} /\ ~LinkAllowed(First(free))
    /\ Throw("assertion")

DiskFull ==
    /\ MayWrite
    /\ file.first_sec = 0 \/ file.pos = PAYLOAD
    /\ free = {}
    /\ Throw("disk full")

(* The sectors the entry says the file has.                                *)
SectorsWritten == file.sec_cnt + (IF file.pos > 0 THEN 1 ELSE 0)

(* ~dos2_file: the last sector gets link 0 and the entry its final values. *)
(* (Its branch that allocates a first sector is never taken: write has     *)
(* done so when pos > 0.)                                                  *)
Close ==
    /\ Running /\ file # NoFile
    /\ sec' = IF file.pos > 0 THEN SectorLinked(0) ELSE sec
    /\ dir' = [dir EXCEPT ![file.dir][file.file_no] =
                [@ EXCEPT !.flag = "in use", !.start = file.first_sec,
                          !.dos2 = IF file.pos > 0 THEN Compatible(0)
                                                   ELSE file.dos2_compatible,
                          !.count = SectorsWritten]]
    /\ file' = NoFile
    /\ UNCHANGED <<disk, free, dir_stack, created, error>>

(* mydos::alloc_dir: the first run of free sectors that is long enough.    *)
DirRun(s) == s .. s + DIR_SIZE - 1
DirRuns == {s \in free : DirRun(s) \subseteq free}

(* dos2_dir::format takes the sectors of a new directory out of the table. *)
(* Variant: only the first.                                                *)
FreeAfterFormatFirst(s) == free \ {s}
FreeAfterFormat(s) == free \ DirRun(s)

(* mydos_dir::create_dir, and pack makes the new directory current.        *)
CreateDir ==
    /\ MayCreate /\ disk.subdirs
    /\ DirRuns # {}
    /\ LET s == First(DirRuns)
       IN  /\ FreeEntries(Current) # {}
           /\ dir' = [d \in DOMAIN dir \cup {s} |->
                        IF d = s THEN EmptyDir
                        ELSE IF d = Current
                        THEN [dir[d] EXCEPT ![First(FreeEntries(d))] =
                                [FreeEntry EXCEPT !.flag = "directory",
                                                  !.name = created + 1, !.start = s]]
                        ELSE dir[d]]
           /\ free' = FreeAfterFormat(s)
           /\ dir_stack' = Append(dir_stack, s)
    /\ created' = created + 1
    /\ UNCHANGED <<disk, sec, file, error>>

NoRoomForDir ==
    /\ MayCreate /\ disk.subdirs
    /\ DirRuns = {}
    /\ Throw("disk full")

(* pack, when a line is nested less deeply than the one before.            *)
LeaveDir ==
    /\ Running /\ file = NoFile
    /\ Len(dir_stack) > 1
    /\ dir_stack' = SubSeq(dir_stack, 1, Len(dir_stack) - 1)
    /\ UNCHANGED <<disk, free, sec, dir, file, created, error>>

Next ==
    \/ CreateFile \/ DirFull
    \/ WriteFirst \/ WriteMore \/ WriteNext \/ AssertionFails \/ DiskFull
    \/ Close
    \/ CreateDir \/ NoRoomForDir \/ LeaveDir

Spec == Init /\ [][Next]_vars

-----------------------------------------------------------------------------
(* Reading, as unpack does.                                                *)

(* sector_next and next_sector: the link, as far as it is one, and nothing *)
(* past the end of the disk.                                               *)
ReadLink ==
    LET next(s) == IF disk.use_file_number THEN sec[s].link % LINKS ELSE sec[s].link
    IN  [s \in DOMAIN sec |-> IF next(s) > disk.sector_count THEN 0 ELSE next(s)]

(* size() always takes 10 bits of the link.  Variant: one bit less.        *)
SizeLinkNarrow == [s \in DOMAIN sec |-> sec[s].link % (LINKS \div 2)]
SizeLink == [s \in DOMAIN sec |-> sec[s].link % LINKS]

FileSectors(d, k) == Chain(dir[d][k].start, ReadLink, disk.sector_count)

(* size(): what the listing shows.                                         *)
Size(d, k) == CountedBytes(Chain(dir[d][k].start, SizeLink, disk.sector_count), sec)

(* save, with eof and read: the bytes in use of the sectors of the chain.  *)
SavedBytes(d, k) == ChainBytes(FileSectors(d, k), sec)

(* unpack_dir: a file of size 0 is listed as empty and not opened.         *)
Unpacked(d, k) ==
    IF Size(d, k) = 0 THEN <<>> ELSE SavedBytes(d, k)

(* dos2_dir::next: the entries of a directory unpack meets.  The first is  *)
(* not looked at before it is listed.                                      *)
Listed(d) == {k \in Entries : \A j \in 1 .. k : dir[d][j].flag # "never used"}

-----------------------------------------------------------------------------
UsedEntries(flag) ==
    {e \in UNION {{d} \X Entries : d \in DOMAIN dir} : dir[e[1]][e[2]].flag = flag}

TypeOK ==
    /\ disk \in Disks
    /\ free \subseteq Usable(disk)
    /\ sec \in [1 .. disk.sector_count ->
                [bytes : [1 .. PAYLOAD -> (0 .. MaxCreated) \X (0 .. MaxBytes)],
                 count : 0 .. PAYLOAD, link : 0 .. disk.sector_count]]
    /\ \A d \in DOMAIN dir : \A k \in Entries :
        /\ dir[d][k].flag \in {"never used", "opened", "in use", "directory"}
        /\ dir[d][k].dos2 \in BOOLEAN
        /\ dir[d][k].start \in 0 .. disk.sector_count
        /\ dir[d][k].count \in 0 .. disk.sector_count
    /\ DOMAIN dir \subseteq Usable(disk) \cup {ROOT}
    /\ dir_stack \in Seq(DOMAIN dir) /\ dir_stack # <<>>
    /\ file \in FileObjects \cup {NoFile}
    /\ created \in 0 .. MaxCreated
    /\ error \in {"", "dir full", "disk full", "assertion"}

(* The sectors that are taken have numbers of 10 bits.                     *)
TakenBelowLinks == \A s \in Usable(disk) \ free : s < LINKS

(* No link is too large for its field: MyDOS with short sectors has all 16 *)
(* bits, and an assertion, where it was compiled, ends pack before a link  *)
(* is cut.                                                                 *)
LinksFit == disk.use_file_number /\ disk.ndebug => TakenBelowLinks

(* The sectors of the file that is written.                                *)
OpenSectors == IF file = NoFile THEN <<>> ELSE Chain(file.first_sec, ReadLink, disk.sector_count)

(* What holds sector s: the file with this entry, or this directory.       *)
SectorsOf(e) ==
    LET chain == IF dir[e[1]][e[2]].flag = "opened" THEN OpenSectors ELSE FileSectors(e[1], e[2])
    IN  {chain[i] : i \in DOMAIN chain}
Owners(s) ==
    {e \in UsedEntries("in use") \cup UsedEntries("opened") : s \in SectorsOf(e)}
        \cup {<<d, -1>> : d \in {d \in DOMAIN dir \ {ROOT} : s \in d .. d + DIR_SIZE - 1}}

(***************************************************************************)
(* No sector is lost and none is shared: each is free, or belongs to one   *)
(* file or one directory.                                                  *)
(***************************************************************************)
SectorsOwned ==
    \A s \in Usable(disk) : Cardinality(Owners(s)) = IF s \in free THEN 0 ELSE 1

(***************************************************************************)
(* The number of sectors in the entry of a closed file is that of its      *)
(* chain, which DOS follows to delete the file.                            *)
(***************************************************************************)
CountsExact ==
    \A e \in UsedEntries("in use") :
        dir[e[1]][e[2]].count = Len(FileSectors(e[1], e[2]))

(***************************************************************************)
(* Every directory has one entry that names its first sector, so unpack    *)
(* comes to it, and once.                                                  *)
(***************************************************************************)
DirsAreTree ==
    \A d \in DOMAIN dir :
        Cardinality({e \in UsedEntries("directory") : dir[e[1]][e[2]].start = d})
            = IF d = ROOT THEN 0 ELSE 1

(***************************************************************************)
(* Unpack meets all the entries in use of a directory, and, if there is    *)
(* one, no others.                                                         *)
(***************************************************************************)
ListingExact ==
    \A d \in DOMAIN dir :
        LET used == Entries \ FreeEntries(d)
        IN  used \subseteq Listed(d) /\ (used # {} => Listed(d) = used)

(***************************************************************************)
(* FLAG_DOS2 is set on the files whose sectors after the first are all     *)
(* ones that DOS 2 can use, and on every file where DOS II+ forces it.     *)
(* The number of the first sector is never looked at.                      *)
(***************************************************************************)
Dos2FlagExact ==
    \A e \in UsedEntries("in use") :
        LET chain == FileSectors(e[1], e[2])
        IN  dir[e[1]][e[2]].dos2 <=>
                \/ disk.force_dos2_flag
                \/ \A i \in 2 .. Len(chain) : chain[i] <= DOS2_LAST

FilesInv ==
    LinksFit => /\ SectorsOwned /\ CountsExact
                /\ DirsAreTree /\ ListingExact /\ Dos2FlagExact

(***************************************************************************)
(* The size the listing shows is the number of bytes unpack writes, as     *)
(* long as no sector beyond the first 1023 was taken.                      *)
(***************************************************************************)
SizeExact ==
    TakenBelowLinks =>
        \A e \in UsedEntries("in use") :
            Size(e[1], e[2]) = Len(SavedBytes(e[1], e[2]))

(* The name of a closed file, and what unpacking it gives.                 *)
Names == {dir[e[1]][e[2]].name : e \in UsedEntries("in use")}
EntryOf(f) == CHOOSE e \in UsedEntries("in use") : dir[e[1]][e[2]].name = f

Store ==
    INSTANCE FileStore
    WITH files <- [f \in Names |-> Unpacked(EntryOf(f)[1], EntryOf(f)[2])],
         open <- IF file = NoFile THEN NoFile
                 ELSE [name |-> file.name, bytes |-> Bytes(file.name, file.size)]

(***************************************************************************)
(* Directories, links and byte counts are a file store: what pack closed   *)
(* unpacks as it was written, and stays so while other files, directories  *)
(* and chains are written.  Only a build without assertions breaks this,   *)
(* on a disk with more sectors than a link can name, once it has taken one *)
(* of those.                                                               *)
(***************************************************************************)
RefinesFileStore ==
    /\ Store!FileStoreInit
    /\ [][LinksFit' => Store!FileStoreNext]_(Store!storeVars)

=============================================================================
