------------------------------- MODULE RkDos -------------------------------
(***************************************************************************)
(* RK DOS (libatr/rkdos.cpp): pack of a new disk, and unpack or list of    *)
(* that disk or of one made elsewhere.                                     *)
(*                                                                         *)
(* A directory is a file of entries of different lengths; the root sector  *)
(* has the entry of the root directory.  Files are contiguous.  A byte or  *)
(* word of the code is one cell here, so an entry has fewer cells than     *)
(* bytes; as there, entries go on over the edges of sectors.  All sectors  *)
(* are accessed through the cache, which SectorCache shows to be one map.  *)
(***************************************************************************)
EXTENDS Integers, Sequences, SequencesExt, FiniteSetsExt

CONSTANTS
    SECTOR,     \* cells in a sector
    Counts,     \* numbers of sectors of the disks formatted
    Foreign,    \* disks made elsewhere: [disk, files, at], see IsImage
    Sizes,      \* sizes of the files packed
    MaxFiles    \* bound on the files packed

VARIABLES
    disk,       \* disk[s][c]: cell c of sector s
    free,       \* the rkdos object: [start, size]
    dirfile,    \* the rkdos_file of the directory
    file,       \* that of the file being packed or saved
    todo,       \* the bytes still to be written to one of them
    buf,        \* the entry next() has read
    packed,     \* whether pack makes the disk
    files,      \* what should be on the disk: [name, flags, bytes]
    host,       \* host[name]: the bytes saved
    listed,     \* the entries that list shows
    mode,       \* "pack", "list" or "unpack"
    phase       \* see TypeOK

vars == <<disk, free, dirfile, file, todo, buf, packed, files, host, listed, mode, phase>>

(* The cells of an entry, and of the root sector.                          *)
dir_entry_size == 0
dir_flags == 1
dir_cluster_start == 2
dir_cluster_size == 3
dir_file_size == 4
dir_date == 5
dir_name == 6
root_sec == 1
root_first_free == 0
root_free_size == 1
root_entry == 2

(* Bytes of buf, 40 there: the room for the name is larger than a name.    *)
BUF == dir_name + 4
ROOT_FILE_SIZE == root_entry + dir_name
DIR == 1
DELETED == 4

ASSUME ScaleAssumption == SECTOR \in Nat /\ SECTOR >= ROOT_FILE_SIZE
ASSUME CountsAssumption == Counts \subseteq Nat /\ \A count \in Counts : count >= 3
ASSUME SizesAssumption == Sizes \subseteq Nat

COUNT == Max(DOMAIN disk)
ClearSector == [c \in 0 .. SECTOR - 1 |-> 0]
Disks(count) == [1 .. count -> [0 .. SECTOR - 1 -> Nat]]
Files == [name : Nat, flags : Nat, bytes : Seq(Nat)]

(***************************************************************************)
(* A disk made elsewhere.  Behind its free part nothing is written, and    *)
(* its directory is before that: the entry of fs[k] is from cell at[k] of  *)
(* the directory on, without a gap, and its name fits in buf.              *)
(***************************************************************************)
EntriesAt(d, fs, at) ==
    LET first == d[root_sec][root_entry + dir_cluster_start]
        Dir(p) == d[first + p \div SECTOR][p % SECTOR]
    IN  /\ at \in [1 .. Len(fs) + 1 -> Nat] /\ at[1] = 0
        /\ at[Len(fs) + 1] = d[root_sec][root_entry + dir_file_size]
        /\ \A k \in DOMAIN fs :
            /\ Dir(at[k]) \in dir_name .. BUF - 1
            /\ at[k + 1] = at[k] + Dir(at[k]) + 1 /\ at[k + 1] <= at[Len(fs) + 1]
            /\ Dir(at[k] + dir_name) = fs[k].name
            /\ Dir(at[k] + dir_file_size) = Len(fs[k].bytes)

(* Its files are where their entries say, and not in the first sector of   *)
(* the directory, which unpack writes to.                                  *)
FilesAt(d, fs, at) ==
    LET first == d[root_sec][root_entry + dir_cluster_start]
        Dir(p) == d[first + p \div SECTOR][p % SECTOR]
    IN  \A k \in DOMAIN fs : \A j \in DOMAIN fs[k].bytes :
            LET s == Dir(at[k] + dir_cluster_start) + (j - 1) \div SECTOR
            IN  s \in DOMAIN d /\ s # first /\ d[s][(j - 1) % SECTOR] = fs[k].bytes[j]

DirIn(first, size, free_start) ==
    \/ first = 0 /\ size = 0
    \/ /\ first >= 4 /\ size > dir_name
       /\ first + (size - 1) \div SECTOR < free_start

IsImage(d) ==
    LET count == Max(DOMAIN d)
        root == d[root_sec]
    IN  /\ count \in Nat /\ count >= 3 /\ d \in Disks(count)
        /\ root[root_first_free] >= 4
        /\ root[root_first_free] + root[root_free_size] = count + 1
        /\ \A s \in root[root_first_free] .. count : d[s] = ClearSector
        /\ root[root_entry + dir_cluster_size] <= count
        /\ DirIn(root[root_entry + dir_cluster_start], root[root_entry + dir_file_size],
                 root[root_first_free])

ASSUME ForeignAssumption ==
    \A image \in Foreign :
        /\ IsImage(image.disk) /\ image.files \in Seq(Files)
        /\ EntriesAt(image.disk, image.files, image.at)
        /\ FilesAt(image.disk, image.files, image.at)

-----------------------------------------------------------------------------
(* rkdos_file.  first_cluster is 0 until a byte is written.                *)
NewFile(first_cluster, cluster_size, file_size) ==
    [first |-> first_cluster, cluster_size |-> cluster_size,
     cluster_end |-> first_cluster + cluster_size - 1, end_offset |-> 0,
     sector |-> first_cluster, offset |-> 0, pos |-> 0, size |-> file_size]

(* dir_pos of root_file: 0 is that of all the others.                      *)
RootFile == NewFile(root_sec, 1, ROOT_FILE_SIZE)

Eof(f) == f.pos = f.size

Seek(f, to) ==
    LET pos == IF to > f.size THEN f.size ELSE to
        sector == f.first + pos \div SECTOR
    IN  [f EXCEPT !.sector = sector, !.offset = pos % SECTOR, !.pos = pos,
                  !.cluster_end = sector, !.end_offset = SECTOR]

SeekEnd(f) ==
    [f EXCEPT !.sector = f.first + f.cluster_size, !.offset = 0, !.pos = f.size,
              !.cluster_end = f.first + f.cluster_size, !.end_offset = 0]

Cell(f) == disk[f.sector][f.offset]
IsOnDisk(f) == f.sector \in DOMAIN disk

(* The position after n bytes are read.  Variant: the sector is kept.      *)
AfterReadSameSector(f, n) == [f EXCEPT !.pos = @ + n, !.offset = (@ + n) % SECTOR]
AfterRead(f, n) ==
    [f EXCEPT !.pos = @ + n, !.offset = (@ + n) % SECTOR,
              !.sector = @ + (f.offset + n) \div SECTOR]

(***************************************************************************)
(* write, of w: [disk, free, file, outcome].                               *)
(***************************************************************************)
Work(d, f) == [disk |-> d, free |-> free, file |-> f, outcome |-> "ok"]

(* alloc_sector: 0 when there is none.                                     *)
Taken(w) == IF w.free.size > 0 THEN w.free.start ELSE 0
AfterAlloc(w) ==
    IF w.free.size > 0
    THEN [w EXCEPT !.free = [start |-> @.start + 1, size |-> @.size - 1]]
    ELSE w

FirstAllocated(w) ==
    IF w.file.first # 0 THEN w
    ELSE [AfterAlloc(w) EXCEPT
            !.file = [w.file EXCEPT !.first = Taken(w), !.sector = Taken(w),
                                    !.cluster_end = Taken(w), !.end_offset = SECTOR]]

AtClusterEnd(f) == f.offset = f.end_offset /\ f.sector = f.cluster_end

(* Variant: the offset is kept.                                            *)
ClusterGrownNoReset(w) ==
    IF ~AtClusterEnd(w.file) THEN w
    ELSE [AfterAlloc(w) EXCEPT
            !.file = [w.file EXCEPT !.sector = Taken(w),
                                    !.cluster_end = w.file.cluster_end + 1]]
ClusterGrown(w) ==
    IF ~AtClusterEnd(w.file) THEN w
    ELSE [AfterAlloc(w) EXCEPT
            !.file = [w.file EXCEPT !.sector = Taken(w), !.offset = 0,
                                    !.cluster_end = w.file.cluster_end + 1]]

Failed(w, how) == [w EXCEPT !.outcome = how]

(* The sector `s' is read before the file grows, so the first byte of a    *)
(* new sector is written to the one before.  Sector 0 is before the data.  *)
(* When the new sector is not next to the last one, its number is written  *)
(* behind the buffer of the cache.                                         *)
Written(w, b) ==
    LET before == FirstAllocated(w)
        s == before.file.sector
        after == ClusterGrown(before)
        f == after.file
    IN  IF s = 0 THEN Failed(w, "undefined")
        ELSE IF AtClusterEnd(before.file) /\ f.sector = 0 THEN Failed(w, "error")
        ELSE IF AtClusterEnd(before.file) /\ f.sector # f.cluster_end
        THEN Failed(w, "undefined")
        ELSE [after EXCEPT
                !.disk[s][f.offset] = b,
                !.file = [f EXCEPT !.offset = f.offset + 1, !.pos = f.pos + 1,
                                   !.size = Max({f.size, f.pos + 1})]]

(* An error or undefined behaviour ends the program without saving.        *)
PhaseAfter(w, next) == IF w.outcome = "ok" THEN next ELSE w.outcome

-----------------------------------------------------------------------------
(* pack.                                                                   *)

RootSector(count) ==
    [ClearSector EXCEPT ![root_first_free] = 4, ![root_free_size] = count - 3,
                        ![root_entry + dir_entry_size] = dir_name,
                        ![root_entry + dir_flags] = DIR]

FormattedDisk(count) ==
    [s \in 1 .. count |-> IF s = root_sec THEN RootSector(count) ELSE ClearSector]

(* root_dir, of the cells of the root entry.                               *)
RootCell(c) == disk[root_sec][root_entry + c]
RootDirFile == NewFile(RootCell(dir_cluster_start), RootCell(dir_cluster_size),
                       RootCell(dir_file_size))

NoFile == NewFile(0, 0, 0)
ClearBuf == [c \in 0 .. BUF - 1 |-> 0]

Init ==
    /\ \/ \E count \in Counts : disk = FormattedDisk(count) /\ packed = TRUE /\ files = <<>>
                                    /\ mode = "pack"
       \/ \E image \in Foreign :
            /\ disk = image.disk /\ packed = FALSE /\ files = image.files
            /\ mode \in {"list", "unpack"}
    /\ free = [start |-> disk[root_sec][root_first_free],
               size |-> disk[root_sec][root_free_size]]
    /\ dirfile = RootDirFile
    /\ file = NoFile /\ todo = <<>> /\ buf = ClearBuf
    /\ host = [name \in {} |-> <<>>] /\ listed = <<>>
    /\ phase = IF mode = "pack" THEN "pack" ELSE "open"

(* The entry has the name, and zeros up to it.                             *)
NewEntry(name) == [c \in 1 .. dir_name + 1 |->
    IF c = dir_entry_size + 1 THEN dir_name ELSE IF c = dir_name + 1 THEN name ELSE 0]

CreateFile(name, bytes) ==
    /\ phase = "pack"
    /\ dirfile' = SeekEnd(dirfile) /\ file' = NoFile
    /\ todo' = NewEntry(name)
    /\ files' = Append(files, [name |-> name, flags |-> 0, bytes |-> bytes])
    /\ phase' = "entry"
    /\ UNCHANGED <<disk, free, buf, packed, host, listed, mode>>

WriteByte ==
    /\ phase \in {"entry", "import"} /\ todo # <<>>
    /\ \E w \in {Written(Work(disk, IF phase = "entry" THEN dirfile ELSE file), Head(todo))} :
        /\ disk' = w.disk /\ free' = w.free
        /\ IF phase = "entry" THEN dirfile' = w.file /\ UNCHANGED file
           ELSE file' = w.file /\ UNCHANGED dirfile
        /\ phase' = PhaseAfter(w, phase)
    /\ todo' = Tail(todo)
    /\ UNCHANGED <<buf, packed, files, host, listed, mode>>

StartImport ==
    /\ phase = "entry" /\ todo = <<>>
    /\ phase' = "import"
    /\ todo' = Last(files).bytes
    /\ UNCHANGED <<disk, free, dirfile, file, buf, packed, files, host, listed, mode>>

(* ~rkdos_file: start and sizes are written to an entry of the directory,  *)
(* from where its file goes on.  dir_pos is 0 for each file, so it is the  *)
(* first one's.                                                            *)
ClusterSize(f) == IF f.cluster_size # 0 THEN f.cluster_size
                  ELSE f.cluster_end - f.first + 1

EntryWritten(parent, dir_pos, f) ==
    LET at == dir_pos + dir_cluster_start
    IN  [disk EXCEPT ![parent.first] =
            [@ EXCEPT ![at] = f.first, ![at + 1] = ClusterSize(f), ![at + 2] = f.size]]

CloseFile ==
    /\ \/ phase = "import" /\ todo = <<>>
       \/ phase = "save" /\ Eof(file)
    /\ disk' = EntryWritten(dirfile, 0, file)
    /\ dirfile' = [Seek(dirfile, dir_cluster_start) EXCEPT !.pos = @ + 3, !.offset = @ + 3]
    /\ phase' = IF phase = "import" THEN "pack" ELSE "next"
    /\ UNCHANGED <<free, file, todo, buf, packed, files, host, listed, mode>>

(* The end of pack: ~rkdos_dir deletes the file of the directory, whose    *)
(* entry is in the root sector, and ~rkdos stores the free sectors there.  *)
(* Variant: it does not.                                                   *)
FreeStoredNot(d) == d
FreeStored(d) ==
    [d EXCEPT ![root_sec] = [@ EXCEPT ![root_first_free] = free.start,
                                      ![root_free_size] = free.size]]

EndPack ==
    /\ phase = "pack"
    /\ disk' = FreeStored(EntryWritten(RootFile, root_entry, dirfile))
    /\ phase' = "open"
    /\ mode' \in {"list", "unpack"}
    /\ UNCHANGED <<free, dirfile, file, todo, buf, packed, files, host, listed>>

-----------------------------------------------------------------------------
(* unpack and list: rkdos, root_dir, and the loop of unpack_dir.           *)

OpenRootDir ==
    /\ phase = "open"
    /\ free' = [start |-> disk[root_sec][root_first_free],
                size |-> disk[root_sec][root_free_size]]
    /\ dirfile' = RootDirFile
    /\ phase' = "next"
    /\ UNCHANGED <<disk, file, todo, buf, packed, files, host, listed, mode>>

(* next(), which the constructor of rkdos_dir calls as well: at the end of *)
(* the file it ends the directory.                                         *)
NextAtEnd ==
    /\ phase = "next" /\ Eof(dirfile)
    /\ phase' = "done"
    /\ UNCHANGED <<disk, free, dirfile, file, todo, buf, packed, files, host, listed, mode>>

(* The size of an entry is without the byte of the size itself.  Variant:  *)
(* with it.                                                                *)
RestOfEntryShort(size) == size - 1
RestOfEntry(size) == size

(* How the reading of the rest of an entry ends: the bytes may be more     *)
(* than buf has, or than the file has.                                     *)
EntryOutcome(rest, left) ==
    IF Min({rest, left}) >= BUF THEN "undefined"
    ELSE IF rest > left THEN "error" ELSE "loop"

NextEntry ==
    /\ phase = "next" /\ ~Eof(dirfile)
    /\ LET rest == RestOfEntry(Cell(dirfile))
           outcome == EntryOutcome(rest, dirfile.size - dirfile.pos - 1)
       IN  /\ phase' = outcome
           /\ IF outcome # "loop" THEN UNCHANGED <<dirfile, buf>>
              ELSE /\ buf' = [c \in DOMAIN buf |->
                                IF c <= rest THEN Cell(AfterRead(dirfile, c)) ELSE buf[c]]
                   /\ dirfile' = AfterRead(dirfile, rest + 1)
    /\ UNCHANGED <<disk, free, file, todo, packed, files, host, listed, mode>>

IsDir == buf[dir_flags] % 2 = DIR

(* open_dir has no directory to return, and unpack_dir goes on with that.  *)
EnterDir ==
    /\ phase = "loop" /\ IsDir
    /\ phase' = "undefined"
    /\ UNCHANGED <<disk, free, dirfile, file, todo, buf, packed, files, host, listed, mode>>

(* A line for the entry, deleted or not: is_deleted does not look.         *)
ListEntry ==
    /\ phase = "loop" /\ ~IsDir
    /\ mode = "list" \/ buf[dir_file_size] = 0
    /\ listed' = IF mode = "list"
                 THEN Append(listed, [name |-> buf[dir_name], size |-> buf[dir_file_size]])
                 ELSE listed
    /\ phase' = "next"
    /\ UNCHANGED <<disk, free, dirfile, file, todo, buf, packed, files, host, mode>>

OpenFile ==
    /\ phase = "loop" /\ ~IsDir /\ mode = "unpack" /\ buf[dir_file_size] # 0
    /\ file' = NewFile(buf[dir_cluster_start], buf[dir_cluster_size], buf[dir_file_size])
    /\ host' = [n \in DOMAIN host \cup {buf[dir_name]} |->
                    IF n = buf[dir_name] THEN <<>> ELSE host[n]]
    /\ phase' = "save"
    /\ UNCHANGED <<disk, free, dirfile, todo, buf, packed, files, listed, mode>>

SaveByte ==
    /\ phase = "save" /\ ~Eof(file)
    /\ IF IsOnDisk(file)
       THEN /\ host' = [host EXCEPT ![buf[dir_name]] = Append(@, Cell(file))]
            /\ file' = AfterRead(file, 1)
            /\ UNCHANGED phase
       ELSE phase' = "undefined" /\ UNCHANGED <<host, file>>
    /\ UNCHANGED <<disk, free, dirfile, todo, buf, packed, files, listed, mode>>

(* Bytes of the file number n that pack imports.                           *)
Bytes(n, size) == [k \in 1 .. size |-> 1000 * n + k]
FileName(n) == 100 + n

Next ==
    \/ \E size \in Sizes :
        /\ Len(files) < MaxFiles
        /\ CreateFile(FileName(Len(files) + 1), Bytes(Len(files) + 1, size))
    \/ WriteByte \/ StartImport \/ CloseFile \/ EndPack
    \/ OpenRootDir \/ NextAtEnd \/ NextEntry \/ EnterDir \/ ListEntry \/ OpenFile \/ SaveByte

(* Each program goes on until it ends.                                     *)
Spec == Init /\ [][Next]_vars /\ WF_vars(Next)

-----------------------------------------------------------------------------
TypeOK ==
    /\ \A s \in DOMAIN disk : DOMAIN disk[s] = 0 .. SECTOR - 1
    /\ free \in [start : 4 .. COUNT + 1, size : 0 .. COUNT - 3]
    /\ \A f \in {dirfile, file} :
        phase \notin {"error", "undefined"} => f.pos <= f.size /\ f.offset \in 0 .. SECTOR
    /\ dirfile.cluster_size \in 0 .. COUNT /\ file.cluster_size \in Nat
    /\ \A s \in DOMAIN disk : \A c \in 0 .. SECTOR - 1 : disk[s][c] \in Nat
    /\ DOMAIN buf = 0 .. BUF - 1
    /\ mode \in {"pack", "list", "unpack"}
    /\ phase \in {"pack", "entry", "import", "open", "next", "loop", "save", "done", "error",
                  "undefined"}

(***************************************************************************)
(* What pack counts as free is free: the sectors from free_start on, to    *)
(* the last of the disk, and none of them has a byte of a file or          *)
(* directory.  The root sector of a packed disk says the same, though it   *)
(* is written by destructors, the entry of the directory before it.  A     *)
(* write that throws "disk full" half-way leaves it so too.                *)
(***************************************************************************)
SpaceKept ==
    phase # "undefined" =>
        /\ free.start + free.size = COUNT + 1
        /\ \A s \in free.start .. COUNT : disk[s] = ClearSector
        /\ mode # "pack" =>
            disk[root_sec][root_first_free] = free.start
                /\ disk[root_sec][root_free_size] = free.size

(* The disks below have the directory that their files make: those made    *)
(* elsewhere, and those packed with one file or none.                      *)
IsWhole == packed => Len(files) <= 1
HasDir == \E k \in DOMAIN files : files[k].flags % 2 = DIR

(***************************************************************************)
(* list shows each entry of such a directory once, in order, whatever the  *)
(* lengths of the entries and wherever a sector ends.                      *)
(***************************************************************************)
ListedWhole ==
    phase = "done" /\ mode = "list" /\ IsWhole =>
        listed = [k \in DOMAIN files |-> [name |-> files[k].name, size |-> Len(files[k].bytes)]]

(***************************************************************************)
(* The bytes unpack saves of the first file are those of the file: all of  *)
(* them for a disk made elsewhere or a packed file of one sector, and for  *)
(* a longer one that was packed all but the first of each sector.  After   *)
(* it next() goes on at the date of the first entry.  While that is 0, as  *)
(* pack leaves it, the same file is saved again; any other date is taken   *)
(* for the size of an entry, and the bytes behind it for one that may have *)
(* the same name.                                                          *)
(***************************************************************************)
FirstFile == SelectInSeq(files, LAMBDA f : f.bytes # <<>>)
Undated == disk[dirfile.first][dir_date] = 0
FromFirstEntry == phase = "save" /\ dirfile.pos = buf[dir_entry_size] + 1
SavedBytes ==
    phase \in {"save", "next"} /\ IsWhole /\ FirstFile # 0
        /\ DOMAIN host = {files[FirstFile].name} /\ (packed \/ Undated \/ FromFirstEntry) =>
        LET saved == host[files[FirstFile].name]
            bytes == files[FirstFile].bytes
        IN  /\ Len(saved) <= Len(bytes) /\ (phase = "next" => Len(saved) = Len(bytes))
            /\ \A k \in DOMAIN saved :
                saved[k] = bytes[k] \/ (packed /\ Len(bytes) > SECTOR /\ k % SECTOR = 1)

(***************************************************************************)
(* list ends for a directory without directories, and so does unpack if no *)
(* file has a byte.  (After a file is saved, next() goes on in the middle  *)
(* of the first entry: its date is taken for the size of an entry, and as  *)
(* pack writes none, unpack saves the same file for ever.)                 *)
(***************************************************************************)
ListEnds ==
    (phase = "open" /\ IsWhole /\ ~HasDir
        /\ (mode = "list" \/ \A k \in DOMAIN files : files[k].bytes = <<>>)) ~> phase = "done"

=============================================================================
