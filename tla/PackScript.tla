----------------------------- MODULE PackScript -----------------------------
(***************************************************************************)
(* The commands of a script in any order, as pack takes them; the image    *)
(* saved, perhaps cut short, and loaded; the file system unpack detects,   *)
(* the first lines of the script it writes, and pack again with those      *)
(* (src/main.cpp, libatr/libatr.cpp, disk.cpp and filesystem.cpp).         *)
(*                                                                         *)
(* Most file systems reach the disk through the cache, DOS 2.5 writes its  *)
(* table and directory past it.  Which sectors the cache holds is left     *)
(* open: SectorCache models it.  Of each sector, only bytes that detection *)
(* or a command is about are told apart; the table and the directory are   *)
(* one sector each.  Repack has the lines of files and directories.        *)
(***************************************************************************)
EXTENDS AtrImage, FiniteSets, FiniteSetsExt

CONSTANTS
    Lines,      \* the lines a script may have, see IsLine
    Images,     \* images made by other programs, and the disks: [disk, image]
    SMALL,      \* sectors of a disk of DOS 2, 720
    Cuts,       \* numbers of bytes an image may lack
    MaxLines    \* bound on the lines of a script

(* Sectors, and bytes of sector 1; a byte is called as its offset is.      *)
VTOC_SECTOR == 4
DIR_SECTOR == 5
BootSectors == 1 .. 3
X00 == 1
X09 == 2
X0A == 3
X0B == 4
X0E == 5
X0F == 6
X10 == 7
X32 == 8
X3D == 9

(***************************************************************************)
(* Disks and images.  No sector is shorter than a boot sector; a disk has  *)
(* the sectors of the directory, and load finds them again: it would have  *)
(* fewer of a disk of few long sectors, whose image may look as if it had  *)
(* the first sectors in full.                                              *)
(***************************************************************************)
IsSize(size, count) ==
    /\ size \in Nat /\ size >= BOOT /\ count \in Nat /\ count >= DIR_SECTOR
    /\ LoadedCount(Image(NewDisk(size, count))) >= DIR_SECTOR
IsDisk(disk) ==
    /\ disk.size \in Nat /\ disk.size >= BOOT /\ disk.count \in Nat /\ disk.count >= DIR_SECTOR
    /\ disk = [size |-> disk.size, count |-> disk.count, data |-> disk.data]
    /\ disk.data \in [1 .. disk.count -> Seq(Nat)]
    /\ \A s \in 1 .. disk.count : Len(disk.data[s]) = SectorSize(disk.size, s)
IsImage(i) ==
    /\ i.size \in Nat /\ i.size >= BOOT /\ i.paragraphs \in Nat /\ i.bytes \in Seq(Nat)
    /\ i = [size |-> i.size, paragraphs |-> i.paragraphs, bytes |-> i.bytes]
    /\ LoadedCount(i) >= DIR_SECTOR

(* The first three sectors in full: what follows their bytes is no matter. *)
InFull(disk) ==
    [size |-> disk.size, paragraphs |-> (disk.size * disk.count) \div PARAGRAPH,
     bytes |-> FlattenSeq([s \in 1 .. disk.count |->
                disk.data[s] \o [p \in 1 .. disk.size - Len(disk.data[s]) |-> 255]])]

(* A line of a user's script; the bytes of the file come with BOOT.        *)
IsLine(line) ==
    CASE line.command = "DISK" -> IsSize(line.size, line.count)
      [] line.command = "BOOT" -> line.file # "boot.bin" /\ line.bytes \in Seq(Nat)
      [] line.command = "SET" -> line.value \in Nat
      [] line.command = "FILE" -> line.dos \in BOOLEAN /\ line.first \in Nat
      [] OTHER -> line.command = "FORMAT"

ASSUME ScriptAssumption ==
    /\ BOOT >= X3D /\ SMALL \in Nat /\ IsSize(BOOT, SMALL + 1)
    /\ MaxLines \in Nat /\ Cuts \subseteq Nat
ASSUME LinesAssumption == \A line \in Lines : IsLine(line)
ASSUME ImagesAssumption ==
    /\ PAGE % PARAGRAPH = 0
    /\ \A made \in Images :
        /\ IsDisk(made.disk) /\ IsImage(made.image)
        /\ \/ made.image = Image(made.disk)
           \/ made.disk.size % PAGE = 0 /\ made.image = InFull(made.disk)

VARIABLES
    sector_size, sector_count,  \* what DISK said last
    d,          \* the disk, its data without what is in the cache
    cache,      \* cache[s]: bytes of sector s that are to be written
    fs,         \* the file system: [name, vtoc_buf]
    script,     \* lines that unpack wrote and pack has not read yet
    taken,      \* lines of the user's script, read
    boot_bin,   \* the file unpack writes the first sectors to
    image,      \* the image file
    origin,     \* the disk that was loaded, or should have been
    cut,        \* bytes the image lacks
    phase       \* see ScriptTypeOK

scriptVars ==
    <<sector_size, sector_count, d, cache, fs, script, taken, boot_bin, image, origin, cut, phase>>

NoDisk == [size |-> 0, count |-> 0, data |-> <<>>]
NoFs == [name |-> "", vtoc_buf |-> <<>>]
NoImage == [size |-> 0, paragraphs |-> 0, bytes |-> <<>>]

ScriptInit ==
    /\ sector_size = BOOT /\ sector_count = SMALL + 1
    /\ d = NoDisk /\ cache = [s \in {} |-> <<>>] /\ fs = NoFs
    /\ script = <<>> /\ taken = <<>> /\ boot_bin = <<>>
    /\ cut = 0
    /\ \/ phase = "script" /\ image = NoImage /\ origin = NoDisk
       \/ /\ phase = "saved"
          /\ \E made \in Images : image = made.image /\ origin = made.disk

-----------------------------------------------------------------------------
(* The disk, by way of the cache and past it.                              *)

Disk == IF d = NoDisk THEN NewDisk(sector_size, sector_count) ELSE d
Through(s) == IF s \in DOMAIN cache THEN cache[s] ELSE Disk.data[s]
IntoCache(news) == [s \in DOMAIN cache \cup DOMAIN news |->
                    IF s \in DOMAIN news THEN news[s] ELSE cache[s]]

(* init_sector: what is in the cache is not cleared.                       *)
Inited(s) ==
    IF s \in DOMAIN cache THEN cache[s] ELSE [p \in 1 .. SectorSize(Disk.size, s) |-> 0]

(* Some sector has to make room for another.                               *)
Evict ==
    /\ phase = "script"
    /\ \E s \in DOMAIN cache :
        /\ d' = [d EXCEPT !.data[s] = cache[s]]
        /\ cache' = [t \in DOMAIN cache \ {s} |-> cache[t]]
    /\ UNCHANGED <<sector_size, sector_count, fs, script, taken, boot_bin, image, origin,
                   cut, phase>>

-----------------------------------------------------------------------------
(* File systems.                                                           *)

(* properties(): the byte of sector 1 for each property.                   *)
Dos2Properties == [DRIVES |-> X0A, BUFFERS |-> X09]
Dos25Properties == [DRIVES |-> X0A, BUFFERS |-> X09]
DosIIplusProperties == [BUFFERS |-> X09, RAMDISK |-> X0E]
XdosProperties == [BUFFERS |-> X09, RAMDISK |-> X0B, COLOR |-> X10]
MydosProperties == [BUFFERS |-> X09, RAMDISK_UNIT |-> X0A, DEFAULT_UNIT |-> X0B]
Properties(dos) ==
    CASE dos = "2" -> Dos2Properties
      [] dos = "2.5" -> Dos25Properties
      [] dos = "II+" -> DosIIplusProperties
      [] dos = "xdos" -> XdosProperties
      [] dos = "mydos" -> MydosProperties

(* set_dos_first_sector: the low and high bytes of the number, where they  *)
(* are next to each other; the place of both, as one, where they are not.  *)
BOOT_FILE_LO == X0F
BOOT_FILE_HI == X10
X_BOOT_FILE == X32
yBOOT_FILE == X3D
WithDosFile(boot, dos, first) ==
    CASE dos = "xdos" -> [boot EXCEPT ![X_BOOT_FILE] = first]
      [] dos = "II+" -> [boot EXCEPT ![yBOOT_FILE] = first]
      [] OTHER -> [boot EXCEPT ![BOOT_FILE_LO] = first, ![BOOT_FILE_HI] = 0]

(* The table as it is formatted: the version, a number that differs from   *)
(* one DOS to another, and the sectors taken.                              *)
Version(dos, size) == IF dos \in {"2", "2.5"} \/ size = BOOT THEN 2 ELSE 3
Code(dos) == CASE dos = "2" -> 1 [] dos = "2.5" -> 2 [] dos = "II+" -> 3
               [] dos = "xdos" -> 4 [] dos = "mydos" -> 5
FormattedTable(dos, size) ==
    [p \in 1 .. size |-> CASE p = 1 -> Version(dos, size) [] p = 2 -> Code(dos) [] OTHER -> 0]

Installed(type) == IF type = "2.0" THEN "2.5" ELSE type
Formats == {"2", "2.0", "2.5", "II+", "xdos", "mydos"}
FormatsNotHere == {"sparta", "rkdos"}

WritesPast(name) == name = "2.5"

(* detect_filesystem, on a disk just loaded.  The bytes each system looks  *)
(* for are one byte here, so no disk is claimed by two of them but DOS 2   *)
(* and DOS 2.5.  Variant: DOS 2 is looked for first.                       *)
IsDos2(disk) ==
    disk.count <= SMALL /\ disk.data[1][X00] = 0 /\ disk.data[VTOC_SECTOR][1] = 2
Magic == [xdos |-> 88, IIplus |-> 196, mydos |-> 77, rkdos |-> 82, sparta |-> 76]
DetectEarly(disk) ==
    IF disk.count <= SMALL /\ disk.data[VTOC_SECTOR][1] = 2 THEN "2"
    ELSE CASE disk.data[1][X00] = Magic.xdos -> "xdos"
           [] disk.data[1][X00] = Magic.IIplus -> "II+"
           [] disk.data[1][X00] = Magic.rkdos -> "rkdos"
           [] disk.data[1][X00] = Magic.sparta -> "sparta"
           [] disk.data[1][X00] = Magic.mydos -> "mydos"
           [] OTHER -> "2.5"
Detect(disk) ==
    LET magic == disk.data[1][X00]
    IN  CASE magic = Magic.xdos -> "xdos"
          [] magic = Magic.IIplus -> "II+"
          [] magic = Magic.rkdos -> "rkdos"
          [] magic = Magic.sparta -> "sparta"
          [] magic = Magic.mydos -> "mydos"
          [] OTHER -> IF IsDos2(disk) THEN "2" ELSE "2.5"

-----------------------------------------------------------------------------
(* The lines of a script.  "crash" is the use of a null pointer.           *)

Kept == UNCHANGED <<boot_bin, image, origin, cut>>

Stops(how) ==
    /\ phase' = how
    /\ UNCHANGED <<sector_size, sector_count, d, cache, fs>> /\ Kept

DiskLine(line) ==
    /\ line.command = "DISK"
    /\ sector_count' = line.count /\ sector_size' = line.size
    /\ UNCHANGED <<d, cache, fs, phase>> /\ Kept

(* The disk is made once.  The file system before is forgotten.            *)
FormatThrough(line) ==
    /\ line.command = "FORMAT" /\ line.dos \in Formats /\ ~WritesPast(Installed(line.dos))
    /\ d' = Disk
    /\ cache' = IntoCache([s \in {VTOC_SECTOR, DIR_SECTOR} |->
                    IF s = VTOC_SECTOR THEN FormattedTable(line.dos, Disk.size) ELSE Inited(s)])
    /\ fs' = [name |-> line.dos, vtoc_buf |-> <<>>]
    /\ UNCHANGED <<sector_size, sector_count, phase>> /\ Kept

FormatPast(line) ==
    /\ line.command = "FORMAT" /\ WritesPast(Installed(line.dos))
    /\ LET table == FormattedTable("2.5", Disk.size)
       IN  /\ d' = [Disk EXCEPT !.data[VTOC_SECTOR] = table,
                                !.data[DIR_SECTOR] = [p \in 1 .. Disk.size |-> 0]]
           /\ fs' = [name |-> "2.5", vtoc_buf |-> table]
    /\ UNCHANGED <<sector_size, sector_count, cache, phase>> /\ Kept

(* SpartaReader and RkDos are about those.                                 *)
FormatNotHere(line) ==
    line.command = "FORMAT" /\ line.dos \in FormatsNotHere /\ Stops("elsewhere")
UnknownFormat(line) ==
    line.command = "FORMAT" /\ line.dos \notin Formats \cup FormatsNotHere /\ Stops("error")

(* install_boot.  A file that is too short or missing leaves the rest.     *)
(* Variant: a sector that is in the cache is written past it.              *)
BootRead(bytes, s) ==
    [p \in 1 .. BOOT |->
        IF (s - 1) * BOOT + p <= Len(bytes) THEN bytes[(s - 1) * BOOT + p] ELSE Through(s)[p]]
InstalledNotCached(bytes) == cache
InstalledBoot(bytes) == IntoCache([s \in BootSectors |-> BootRead(bytes, s)])

BootLine(line) ==
    /\ line.command = "BOOT"
    /\ d' = Disk
    /\ cache' = InstalledBoot(IF line.file = "boot.bin" THEN boot_bin ELSE line.bytes)
    /\ UNCHANGED <<sector_size, sector_count, fs, phase>> /\ Kept

(* A property.  The name of one that the file system does not have is that *)
(* of a file, which is not there; without a file system there is no        *)
(* directory either.                                                       *)
HasProperty(name) == fs # NoFs => name \in DOMAIN Properties(fs.name)
PropertyLine(line) ==
    /\ line.command = "SET" /\ fs # NoFs /\ HasProperty(line.property)
    /\ cache' = IntoCache([s \in {1} |->
                    [Through(1) EXCEPT ![Properties(fs.name)[line.property]] = line.value]])
    /\ UNCHANGED <<sector_size, sector_count, d, fs, phase>> /\ Kept
NoSuchProperty(line) ==
    /\ line.command = "SET" /\ fs # NoFs /\ ~HasProperty(line.property)
    /\ Stops("error")
NoDir(line) ==
    /\ line.command \in {"SET", "FILE"} /\ fs = NoFs
    /\ Stops("crash")

(* A file takes a sector of the table and an entry of the directory; DOS   *)
(* puts the number of its sector in the boot sector.  DOS 2.5 has a copy   *)
(* of the table, and reads the directory past the cache.                   *)
OneMore(sector, p) == [sector EXCEPT ![p] = @ + 1]
DosFile(line) == IF line.dos THEN [s \in {1} |-> WithDosFile(Through(1), fs.name, line.first)]
                 ELSE [s \in {} |-> <<>>]

FileThrough(line) ==
    /\ line.command = "FILE" /\ fs # NoFs /\ ~WritesPast(fs.name)
    /\ cache' = [s \in DOMAIN IntoCache(DosFile(line)) \cup {VTOC_SECTOR, DIR_SECTOR} |->
                    CASE s = VTOC_SECTOR -> OneMore(Through(s), 3)
                      [] s = DIR_SECTOR -> OneMore(Through(s), 1)
                      [] OTHER -> IntoCache(DosFile(line))[s]]
    /\ UNCHANGED <<sector_size, sector_count, d, fs, phase>> /\ Kept

FilePast(line) ==
    /\ line.command = "FILE" /\ fs # NoFs /\ WritesPast(fs.name)
    /\ fs' = [fs EXCEPT !.vtoc_buf = OneMore(fs.vtoc_buf, 3)]
    /\ d' = [d EXCEPT !.data[VTOC_SECTOR] = fs'.vtoc_buf,
                      !.data[DIR_SECTOR] = OneMore(d.data[DIR_SECTOR], 1)]
    /\ cache' = IntoCache(DosFile(line))
    /\ UNCHANGED <<sector_size, sector_count, phase>> /\ Kept

Run(line) ==
    \/ DiskLine(line)
    \/ FormatThrough(line) \/ FormatPast(line) \/ FormatNotHere(line) \/ UnknownFormat(line)
    \/ BootLine(line)
    \/ PropertyLine(line) \/ NoSuchProperty(line) \/ NoDir(line)
    \/ FileThrough(line) \/ FilePast(line)

(* The next line of what unpack wrote, or any line.                        *)
NextLine ==
    /\ phase = "script"
    /\ \/ /\ script # <<>>
          /\ Run(Head(script))
          /\ script' = Tail(script)
          /\ UNCHANGED taken
       \/ /\ boot_bin = <<>> /\ Len(taken) < MaxLines
          /\ \E line \in Lines : Run(line) /\ taken' = Append(taken, line)
          /\ UNCHANGED script

(* The end of the script: save, which writes what is in the cache first.   *)
(* Variant: it does not.                                                   *)
FlushedNot == d
Flushed == [d EXCEPT !.data = [s \in DOMAIN d.data |-> Through(s)]]

SaveDisk ==
    /\ phase = "script" /\ script = <<>>
    /\ IF d = NoDisk
       THEN phase' = "crash" /\ UNCHANGED <<d, cache, image, origin>>
       ELSE /\ d' = Flushed /\ cache' = [s \in {} |-> <<>>]
            /\ image' = Image(Flushed)
            /\ IF boot_bin = <<>> THEN phase' = "saved" /\ origin' = Flushed
               ELSE phase' = "again" /\ UNCHANGED origin
    /\ UNCHANGED <<sector_size, sector_count, fs, script, taken, boot_bin, cut>>

-----------------------------------------------------------------------------
(* Someone cuts the image; unpack loads it.                                *)

CutShort ==
    /\ phase = "saved" /\ cut = 0
    /\ \E n \in Cuts :
        /\ n < Len(image.bytes) - 3 * BootSize(image)
        /\ image' = [image EXCEPT !.bytes = SubSeq(@, 1, Len(@) - n)]
        /\ cut' = n
    /\ UNCHANGED <<sector_size, sector_count, d, cache, fs, script, taken, boot_bin, origin,
                   phase>>

(* load and the new program's variables.                                   *)
Load ==
    /\ phase = "saved"
    /\ d' = Loaded(image)
    /\ cache' = [s \in {} |-> <<>>] /\ fs' = NoFs /\ taken' = <<>>
    /\ phase' = "loaded"
    /\ UNCHANGED <<sector_size, sector_count, script, boot_bin, image, origin, cut>>

(* The first lines that unpack writes, and boot.bin.                       *)
Header(dos) ==
    <<[command |-> "DISK", count |-> d.count, size |-> d.size],
      [command |-> "FORMAT", dos |-> dos], [command |-> "BOOT", file |-> "boot.bin"]>>
PropertyLines(dos) ==
    SetToSeq({[command |-> "SET", property |-> name,
               value |-> d.data[1][Properties(dos)[name]]] : name \in DOMAIN Properties(dos)})

(* unpack; then pack is started with its script.                           *)
Unpack ==
    /\ phase = "loaded"
    /\ IF Detect(d) \in FormatsNotHere
       THEN phase' = "elsewhere"
            /\ UNCHANGED <<sector_size, sector_count, d, script, boot_bin, origin>>
       ELSE /\ script' = Header(Detect(d)) \o PropertyLines(Detect(d))
            /\ boot_bin' = d.data[1] \o d.data[2] \o d.data[3]
            /\ origin' = d /\ d' = NoDisk
            /\ sector_size' = BOOT /\ sector_count' = SMALL + 1
            /\ phase' = "script"
    /\ UNCHANGED <<cache, fs, taken, image, cut>>

ScriptNext == Evict \/ NextLine \/ SaveDisk \/ CutShort \/ Load \/ Unpack

ScriptSpec == ScriptInit /\ [][ScriptNext]_scriptVars

-----------------------------------------------------------------------------
ScriptTypeOK ==
    /\ sector_size \in Nat /\ sector_count \in Nat
    /\ d # NoDisk => \A s \in 1 .. d.count : Len(d.data[s]) = SectorSize(d.size, s)
    /\ DOMAIN cache \subseteq DOMAIN d.data
    /\ \A s \in DOMAIN cache : Len(cache[s]) = SectorSize(d.size, s)
    /\ fs # NoFs => fs.name \in {"2", "2.5", "II+", "xdos", "mydos"} /\ d # NoDisk
    /\ Len(taken) <= MaxLines
    /\ phase \in {"script", "saved", "loaded", "again", "elsewhere", "error", "crash"}

(***************************************************************************)
(* What the lines of a script say of the sectors of the disk when each is  *)
(* carried out in turn: the boot sectors, the table and the directory.     *)
(***************************************************************************)
FormatOf(lines) ==
    LET formats == {k \in DOMAIN lines : lines[k].command = "FORMAT"}
    IN  IF formats = {} THEN "" ELSE Installed(lines[Max(formats)].dos)

Said(sectors, lines, size) ==
    LET line == Last(lines)
        dos == FormatOf(lines)
    IN  CASE line.command = "BOOT" ->
                [s \in DOMAIN sectors |->
                    IF s \notin BootSectors THEN sectors[s]
                    ELSE [p \in 1 .. BOOT |->
                            IF (s - 1) * BOOT + p <= Len(line.bytes)
                            THEN line.bytes[(s - 1) * BOOT + p] ELSE sectors[s][p]]]
          [] line.command = "SET" ->
                [sectors EXCEPT ![1][Properties(dos)[line.property]] = line.value]
          [] line.command = "FORMAT" ->
                [sectors EXCEPT ![VTOC_SECTOR] = FormattedTable(dos, size),
                                ![DIR_SECTOR] = [p \in 1 .. size |-> 0]]
          [] line.command = "FILE" ->
                [sectors EXCEPT ![VTOC_SECTOR] = OneMore(sectors[VTOC_SECTOR], 3),
                                ![DIR_SECTOR] = OneMore(sectors[DIR_SECTOR], 1),
                                ![1] = IF line.dos THEN WithDosFile(sectors[1], dos, line.first)
                                       ELSE sectors[1]]
          [] OTHER -> sectors

SaidBy(lines, size) ==
    LET after[k \in 0 .. Len(lines)] ==
            IF k = 0 THEN [s \in 1 .. DIR_SECTOR |-> [p \in 1 .. SectorSize(size, s) |-> 0]]
            ELSE Said(after[k - 1], SubSeq(lines, 1, k), size)
    IN  after[Len(lines)]

SavedNow == phase = "saved" /\ cut = 0 /\ taken # <<>>

(***************************************************************************)
(* The boot sectors of a saved disk are what BOOT, properties and DOS have *)
(* said of them, in the order of the script, whichever the file systems:   *)
(* all of them write these sectors through the cache.                      *)
(***************************************************************************)
BootKept ==
    SavedNow => \A s \in BootSectors : d.data[s] = SaidBy(taken, d.size)[s]

(***************************************************************************)
(* The table and the directory of a saved disk are those of the last       *)
(* FORMAT and the files after it, if the script does not format with DOS   *)
(* 2.5 what it has formatted through the cache, whose sectors are written  *)
(* over those of DOS 2.5, nor format what has files, since the directory   *)
(* is not cleared while it is in the cache.                                *)
(***************************************************************************)
FormatsInOrder ==
    \A j, k \in DOMAIN taken :
        j < k /\ taken[k].command = "FORMAT" =>
            /\ taken[j].command # "FILE"
            /\ WritesPast(Installed(taken[k].dos)) /\ taken[j].command = "FORMAT"
                => WritesPast(Installed(taken[j].dos))
TablesKept ==
    SavedNow /\ FormatsInOrder =>
        \A s \in {VTOC_SECTOR, DIR_SECTOR} : d.data[s] = SaidBy(taken, d.size)[s]

(***************************************************************************)
(* load gives what save was given: all sectors the file still has in full, *)
(* and the same number of them, for sectors of 128 bytes or powers of two  *)
(* times that (`Regular': the disk is whole paragraphs, and not whole      *)
(* pages that would mean the first sectors are in full).                   *)
(***************************************************************************)
Regular(disk) ==
    /\ ByteSize(disk.size, disk.count) % PARAGRAPH = 0
    /\ disk.size >= PAGE => ByteSize(disk.size, disk.count) % PAGE # 0
LoadsBack ==
    phase = "loaded" /\ Regular(origin) =>
        /\ d.size = origin.size /\ d.count = origin.count
        /\ \A s \in 1 .. d.count :
            Start(image, s) + SectorSize(d.size, s) <= Len(image.bytes)
                => d.data[s] = origin.data[s]

(***************************************************************************)
(* The script that unpack writes makes a disk of the same sizes with the   *)
(* same boot sectors, and that is taken for the same file system again,    *)
(* except that a small disk no one else claims becomes one of DOS 2: the   *)
(* table is made by DOS 2.5, with the version of DOS 2.                    *)
(***************************************************************************)
UnpackedSame ==
    phase = "again" =>
        /\ d.size = origin.size /\ d.count = origin.count
        /\ \A s \in BootSectors : d.data[s] = origin.data[s]
        /\ Detect(d) = IF Detect(origin) = "2.5" /\ d.count <= SMALL /\ d.data[1][X00] = 0
                       THEN "2" ELSE Detect(origin)

=============================================================================
