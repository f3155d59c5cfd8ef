----------------------------- MODULE Dos25Files -----------------------------
(***************************************************************************)
(* The directory and the files of DOS 2.5 (dos2_dir and dos2_file of       *)
(* libatr/dos_2_5.cpp), driven the way pack and unpack (src/main.cpp)      *)
(* drive them, with the DOS command of a script and its BOOT line.         *)
(*                                                                         *)
(* A file is written into a buffer of its own, which goes to the disk when *)
(* it is full and another byte comes, or when the file is closed.  The     *)
(* first sector is therefore allocated together with the second, or by the *)
(* destructor.                                                             *)
(*                                                                         *)
(* Free sectors come from Dos25Vtoc: here they are a set.  Sectors are     *)
(* written to the image past the cache.                                    *)
(***************************************************************************)
EXTENDS Integers, Sequences, FiniteSets, SectorChains

CONSTANTS
    Disks,      \* the sets of sectors that are free on formatted disks
    DIR_FIRST_SECTOR,
    DIR_SIZE,   \* sectors in the directory, 8
    PER_SECTOR, \* entries in a sector of it, 8
    PAYLOAD,    \* bytes of a sector a file gets: the sector size less 3
    LINKS,      \* the values of a link, 1024
    BootWords,  \* what bytes 0x0f and 0x10 of a boot record may be
    Leftover,   \* what a word of memory may hold before it is assigned
    MaxCreated, \* bound on the files of a script
    MaxBytes,   \* bound on the length of a file
    NoFile      \* no file is open

DirSectors == DIR_FIRST_SECTOR .. DIR_FIRST_SECTOR + DIR_SIZE - 1
END_SECTOR == DIR_FIRST_SECTOR + DIR_SIZE

ASSUME ScaleAssumption ==
    /\ DIR_FIRST_SECTOR \in Nat \ {0}
    /\ DIR_SIZE \in Nat \ {0} /\ PER_SECTOR \in Nat \ {0} /\ PAYLOAD \in Nat \ {0}
    /\ LINKS \in Nat \ {0} /\ MaxCreated \in Nat /\ MaxBytes \in Nat
    /\ BootWords \subseteq Nat /\ Leftover \subseteq Nat
(* The table of contents ends with sector 1023 (Dos25Vtoc, LastBit), the   *)
(* last one a link can name.                                               *)
ASSUME DisksAssumption ==
    \A d \in Disks : d \subseteq (1 .. LINKS - 1) \ DirSectors

VARIABLES
    usable,     \* the disk: the sectors that were free when it was formatted
    free,       \* those that still are
    sec,        \* sec[s]: bytes, count and link of sector s
    dir,        \* dir[k]: entry k
    file,       \* the dos2_file that is written, or NoFile
    dos_start,  \* the first sector of DOS, in the boot sector
    dos_file,   \* the file of the last DOS command since a BOOT line, or 0
    created,    \* files created so far
    error       \* what was thrown, or "": pack is over then

vars == <<usable, free, sec, dir, file, dos_start, dos_file, created, error>>

Entries == 0 .. DIR_SIZE * PER_SECTOR - 1
Running == error = ""

(* A dos2_file; NoFile is none, and none of what FileStore sees of one.    *)
FileObjects ==
    [name : Nat, file_no : Entries, first_sec : Nat, sector : Nat, sec_cnt : Nat,
     pos : Nat, buf : [1 .. PAYLOAD -> Nat \X Nat], size : Nat]
ASSUME NoFileAssumption ==
    NoFile \notin FileObjects \cup [name : Nat, bytes : Seq(Nat \X Nat)]

NoBytes == [i \in 1 .. PAYLOAD |-> ZERO]
FreeEntry == [flag |-> "never used", name |-> 0, start |-> 0, count |-> 0]

-----------------------------------------------------------------------------
(* format.                                                                 *)
Init ==
    /\ usable \in Disks
    /\ free = usable
    /\ sec = [s \in usable |-> [bytes |-> NoBytes, count |-> 0, link |-> 0]]
    /\ dir = [k \in Entries |-> FreeEntry]
    /\ file = NoFile
    /\ dos_start = 0 /\ dos_file = 0
    /\ created = 0
    /\ error = ""

FreeEntries == {k \in Entries : dir[k].flag = "never used"}
MayCreate == Running /\ file = NoFile /\ created < MaxCreated

(* dos2_dir::create_file and alloc_entry.                                  *)
CreateFile ==
    /\ MayCreate
    /\ FreeEntries # {}
    /\ LET k == First(FreeEntries)
       IN  /\ dir' = [dir EXCEPT ![k] = [flag |-> "opened", name |-> created + 1,
                                         start |-> 0, count |-> 0]]
           /\ file' = [name |-> created + 1, file_no |-> k, first_sec |-> 0,
                       sector |-> 0, sec_cnt |-> 0, pos |-> 0, buf |-> NoBytes, size |-> 0]
    /\ created' = created + 1
    /\ UNCHANGED <<usable, free, sec, dos_start, dos_file, error>>

DirFull ==
    /\ MayCreate
    /\ FreeEntries = {}
    /\ error' = "dir full"
    /\ UNCHANGED <<usable, free, sec, dir, file, dos_start, dos_file, created>>

(* A file that got sector s for its first.                                 *)
WithFirst(s) == [file EXCEPT !.first_sec = s, !.sector = s]

(* write_sec: the disk and the file after it.  Variants: the last sector   *)
(* is taken to be full, a count that stays behind, and a position that is  *)
(* not set back.                                                           *)
SectorWrittenFull(f, next) ==
    [sec EXCEPT ![f.sector] = [bytes |-> f.buf, count |-> PAYLOAD, link |-> next]]
SectorWritten(f, next) ==
    [sec EXCEPT ![f.sector] = [bytes |-> f.buf, count |-> f.pos, link |-> next]]
AfterWriteSecUncounted(f, next) == [f EXCEPT !.sector = next, !.pos = 0]
AfterWriteSecNoReset(f, next) == [f EXCEPT !.sector = next, !.sec_cnt = @ + 1]
AfterWriteSec(f, next) == [f EXCEPT !.sector = next, !.sec_cnt = @ + 1, !.pos = 0]

(* The last statements of write: the byte goes to the buffer.              *)
WithByte(f) ==
    [f EXCEPT !.buf[f.pos + 1] = <<f.name, f.size + 1>>, !.pos = @ + 1, !.size = @ + 1]

MayWrite == Running /\ file # NoFile /\ file.size < MaxBytes

(* dos2_file::write, when there is room in the buffer,                     *)
WriteByte ==
    /\ MayWrite /\ file.pos < PAYLOAD
    /\ file' = WithByte(file)
    /\ UNCHANGED <<usable, free, sec, dir, dos_start, dos_file, created, error>>

(* when it is full for the first time,                                     *)
WriteSecond ==
    /\ MayWrite /\ file.pos = PAYLOAD
    /\ file.first_sec = 0
    /\ Cardinality(free) >= 2
    /\ LET s == First(free)
           next == First(free \ {s})
           f == WithFirst(s)
       IN  /\ free' = free \ {s, next}
           /\ sec' = SectorWritten(f, next)
           /\ file' = WithByte(AfterWriteSec(f, next))
    /\ UNCHANGED <<usable, dir, dos_start, dos_file, created, error>>

(* and when it is full again.                                              *)
WriteNext ==
    /\ MayWrite /\ file.pos = PAYLOAD
    /\ file.first_sec # 0
    /\ free # {}
    /\ LET next == First(free)
       IN  /\ free' = free \ {next}
           /\ sec' = SectorWritten(file, next)
           /\ file' = WithByte(AfterWriteSec(file, next))
    /\ UNCHANGED <<usable, dir, dos_start, dos_file, created, error>>

(* alloc_sector throws; the first of two calls may have succeeded.         *)
DiskFull ==
    /\ MayWrite /\ file.pos = PAYLOAD
    /\ Cardinality(free) < (IF file.first_sec = 0 THEN 2 ELSE 1)
    /\ free' = {}
    /\ file' = IF free = {} THEN file ELSE WithFirst(First(free))
    /\ error' = "disk full"
    /\ UNCHANGED <<usable, sec, dir, dos_start, dos_file, created>>

(* The destructor has to allocate the only sector of the file.             *)
AllocatesLate == file.pos > 0 /\ file.first_sec = 0

(* The sector a DOS command writes to the boot sector, before the file is  *)
(* closed.  Variant: the last sector.                                      *)
DosSectorLast == file.sector
DosSector == file.first_sec

(* The end of a line of the script: the DOS command, then ~dos2_file.      *)
Close ==
    /\ Running /\ file # NoFile
    /\ AllocatesLate => free # {}
    /\ \E is_dos \in BOOLEAN :
        /\ dos_start' = IF is_dos THEN DosSector ELSE dos_start
        /\ dos_file' = IF is_dos THEN file.name ELSE dos_file
    /\ LET f == IF AllocatesLate THEN WithFirst(First(free)) ELSE file
           closed == IF f.pos > 0 THEN AfterWriteSec(f, 0) ELSE f
       IN  /\ free' = free \ {f.first_sec}
           /\ sec' = IF f.pos > 0 THEN SectorWritten(f, 0) ELSE sec
           /\ dir' = [dir EXCEPT ![f.file_no] =
                        [@ EXCEPT !.flag = "in use", !.start = closed.first_sec,
                                  !.count = closed.sec_cnt]]
    /\ file' = NoFile
    /\ UNCHANGED <<usable, created, error>>

(* The BOOT line of a script, which every unpacked script has: the boot    *)
(* record it names was made for another disk, and says itself where DOS    *)
(* begins.  One that is cut off in front of that leaves dos_start alone.   *)
Boot ==
    /\ Running /\ file = NoFile
    /\ \E word \in BootWords : dos_start' = word
    /\ dos_file' = 0
    /\ UNCHANGED <<usable, free, sec, dir, file, created, error>>

(* alloc_sector throws in the destructor, which ends the program.          *)
Terminate ==
    /\ Running /\ file # NoFile
    /\ AllocatesLate /\ free = {}
    /\ error' = "terminated"
    /\ UNCHANGED <<usable, free, sec, dir, file, dos_start, dos_file, created>>

Next ==
    \/ CreateFile \/ DirFull
    \/ WriteByte \/ WriteSecond \/ WriteNext \/ DiskFull
    \/ Close \/ Boot \/ Terminate

Spec == Init /\ [][Next]_vars

-----------------------------------------------------------------------------
(* Reading, as unpack does.                                                *)

(* sector_next.                                                            *)
ReadLink == [s \in usable |-> sec[s].link % LINKS]

FileSectors(k) == Chain(dir[k].start, ReadLink, Cardinality(usable))

(* size(): the sectors of the entry, as if each was full.                  *)
Size(k) == dir[k].count * PAYLOAD

SavedBytes(k) == ChainBytes(FileSectors(k), sec)

(* unpack_dir: a file of size 0 is listed as empty and not opened; the     *)
(* one that starts where the boot sector says is marked as DOS.            *)
Unpacked(k) == IF Size(k) = 0 THEN <<>> ELSE SavedBytes(k)
MarkedDos(k) == Size(k) # 0 /\ dir[k].start = dos_start

(* The sectors whose entries dos2_dir reads.  The constructor reads the    *)
(* first, but assigns its parameter `sector' and not the member of that    *)
(* name, from which next() goes on: the member keeps what was in memory.   *)
PagesRead(sector) ==
    IF sector >= END_SECTOR THEN <<>>
    ELSE <<DIR_FIRST_SECTOR>> \o [i \in 1 .. END_SECTOR - 1 - sector |-> sector + i]

(* Entry i of sector s.  Outside of the directory, where an entry may be   *)
(* anything, it is one that ends the listing, as in an empty boot sector.  *)
FlagRead(s, i) ==
    IF s \in DirSectors THEN dir[(s - DIR_FIRST_SECTOR) * PER_SECTOR + i].flag
    ELSE "never used"

(* next() and at_end: the entries listed, up to the first one after the    *)
(* very first that was never used.                                         *)
Listed(sector) ==
    LET pages == PagesRead(sector)
        page(n) == pages[n \div PER_SECTOR + 1]
        met(n) == \A m \in 1 .. n : FlagRead(page(m), m % PER_SECTOR) # "never used"
    IN  {(page(n) - DIR_FIRST_SECTOR) * PER_SECTOR + (n % PER_SECTOR) :
            n \in {n \in 0 .. Len(pages) * PER_SECTOR - 1 : met(n)}}

-----------------------------------------------------------------------------
Closed == {k \in Entries : dir[k].flag = "in use"}

TypeOK ==
    /\ usable \in Disks /\ free \subseteq usable
    /\ sec \in [usable -> [bytes : [1 .. PAYLOAD -> (0 .. MaxCreated) \X (0 .. MaxBytes)],
                           count : 0 .. PAYLOAD, link : usable \cup {0}]]
    /\ dir \in [Entries -> [flag : {"never used", "opened", "in use"}, name : 0 .. MaxCreated,
                            start : usable \cup {0}, count : 0 .. Cardinality(usable)]]
    /\ file \in FileObjects \cup {NoFile}
    /\ file # NoFile =>
        /\ file.pos \in 0 .. PAYLOAD /\ file.size \in 0 .. MaxBytes
        /\ file.file_no \in Entries /\ file.sec_cnt \in 0 .. Cardinality(usable)
        /\ {file.first_sec, file.sector} \subseteq usable \cup {0}
    /\ dos_start \in usable \cup {0} \cup BootWords /\ {dos_file, created} \subseteq 0 .. MaxCreated
    /\ error \in {"", "dir full", "disk full", "terminated"}

(* The files that hold sector s.                                           *)
OpenSectors == Chain(file.first_sec, ReadLink, Cardinality(usable))
SectorsOf(k) ==
    LET chain == IF dir[k].flag = "opened" THEN OpenSectors ELSE FileSectors(k)
    IN  {chain[i] : i \in DOMAIN chain}
Owners(s) == {k \in Entries \ FreeEntries : s \in SectorsOf(k)}

(***************************************************************************)
(* No sector is lost and none is shared: each is free or belongs to one    *)
(* file, also while the bytes of a file are still in its buffer, and after *)
(* the second of two allocations failed.                                   *)
(***************************************************************************)
SectorsOwned ==
    \A s \in usable : Cardinality(Owners(s)) = IF s \in free THEN 0 ELSE 1

(***************************************************************************)
(* The number of sectors in the entry of a closed file is that of its      *)
(* chain, and the size the listing shows is the true one rounded up to     *)
(* full sectors: it is 0 exactly for empty files, which unpack skips.      *)
(***************************************************************************)
SizesRoundUp ==
    \A k \in Closed :
        /\ dir[k].count = Len(FileSectors(k))
        /\ Size(k) - Len(SavedBytes(k)) \in 0 .. PAYLOAD - 1

(***************************************************************************)
(* A listing that goes on from the first sector of the directory meets all *)
(* the entries in use, and, if there is one, no others.                    *)
(***************************************************************************)
ListingExact ==
    LET used == Entries \ FreeEntries
        listed == Listed(DIR_FIRST_SECTOR)
    IN  used \subseteq listed /\ (used # {} => listed = used)

FilesInv == SectorsOwned /\ SizesRoundUp /\ ListingExact

(***************************************************************************)
(* Unpack marks one file as DOS at most, also when a BOOT line brought a   *)
(* boot record that names any sector.  After a DOS command it is the file  *)
(* of that command and no other, provided it has more bytes than a sector: *)
(* for shorter files pack asks for the first sector before there is one,   *)
(* and none is marked.                                                     *)
(***************************************************************************)
Marked == {dir[k].name : k \in {k \in Closed : MarkedDos(k)}}
DosFileMarked ==
    /\ \A f, g \in Marked : f = g
    /\ dos_file # 0 => Marked \subseteq {dos_file}
    /\ \A k \in Closed :
        dir[k].name = dos_file /\ Len(SavedBytes(k)) > PAYLOAD => dos_file \in Marked

(* The name of a closed file, and what unpacking it gives.                 *)
EntryOf(f) == CHOOSE k \in Closed : dir[k].name = f

Store ==
    INSTANCE FileStore
    WITH files <- [f \in {dir[k].name : k \in Closed} |-> Unpacked(EntryOf(f))],
         open <- IF file = NoFile THEN NoFile
                 ELSE [name |-> file.name, bytes |-> Bytes(file.name, file.size)]

(***************************************************************************)
(* The file system of DOS 2.5 is a file store too: what pack closed        *)
(* unpacks as it was written, wherever its buffer was cut into sectors.    *)
(***************************************************************************)
RefinesFileStore == Store!FileStoreSpec

(***************************************************************************)
(* "AtrCompiler can unpack contents of a ATR disk to a folder as separate  *)
(* files" (README.md): the listing comes to every file.                    *)
(***************************************************************************)
ListingComplete ==
    \A sector \in Leftover : Closed \subseteq Listed(sector)

=============================================================================
