# AtrCompiler: TLA+ models and proofs

AtrCompiler packs files into an Atari disk image (an ATR file) and unpacks
them. It is a sequential program: `pack` reads a script, builds the image in
memory and saves it; `unpack` and `list` load an image, find out its file
system and walk its directories. What is hard in it is not concurrency but
state that several pieces of code share and change in turn: a write-back cache
under everything, bitmaps and counters that must agree, chains of sectors that
different files thread through one disk, and limits (full disks, links of 10
bits, pages of a bitmap) that are met only after long sequences of legal calls.

## Inventory of the system

| Part | State | Operations | What makes it correct |
|---|---|---|---|
| Disk image and sector cache (`libatr/disk.*`) | the image `data`; four cache slots in a doubly linked ring | `get_sector`, `init_sector`, reads and writes of bytes and words, `write_sector`/`read_sector` past the cache, `flush`, `save`, `load`, boot files | it behaves as an array of sectors; saving loses nothing; no slot of the cache is lost |
| Table of contents of DOS 2, II+, XDOS, MyDOS (`dos2_filesystem.cpp`, `expanded_vtoc.cpp`, `mydos.cpp`) | bitmap of free sectors over one or more pages, free count, capacity | `vtoc_format`, `switch_sector_use`, `alloc_sector`, `alloc_dir` | counts equal bits; system sectors stay taken; a sector is handed out once; "disk full" means full |
| Table of contents of DOS 2.5 (`dos_2_5.cpp`) | a buffer, and two sectors of the image that overlap; two counts | `vtoc_format`, `vtoc_read`, `vtoc_write`, `alloc_sector` | the copies agree; DOS 2 sees a correct table; remounting forgets nothing |
| Directories and files of the DOS 2 family (`dos2_filesystem.cpp`, `mydos.cpp`) | directory entries, chains of linked sectors, the open file, the stack of open directories | `create_file`, `write`, `~dos2_file`, `create_dir`, `open_file`, `read`, `eof`, `size`, `next` | what was packed unpacks the same; sectors are neither shared nor lost; sizes, counts and the flag of files DOS 2 can read are right |
| Directories and files of DOS 2.5 (`dos_2_5.cpp`) | as above, in buffers of its own, not through the cache | as above, and the `DOS` command of a script | as above, with allocation put off until the second sector; unpack finds the DOS file again |
| SpartaDOS (`sparta_dos.cpp`) | position in a file, sector map buffer | reading only | all bytes of a file, all entries of a directory |
| RK DOS (`rkdos.cpp`) | the free part of the disk, files as runs of sectors, the file that holds a directory | `format`, `create_file`, `write`, `seek`, `read`, `next`, and destructors that write to the directory | what counts as free is free; entries of any length are listed; a file's bytes come back |
| Base classes (`filesystem.*`) | none of their own | `import`, `save`, `set_property`, `get_property`, `format_atari_name` | names and property values survive unpack and pack |
| Detection (`libatr.cpp`) | none | `detect_filesystem`, `install_filesystem` | what was formatted is detected as that |
| `pack`, `unpack`, `main` (`src/main.cpp`) | position in the script, stack of directories, current folder of the host, disk, file system | the commands of a script, `unpack_dir` | a disk unpacked and packed again is the same disk; both programs end |

The parts call each other from top to bottom: `main` drives a file system's
directories and files, those ask the table of contents for sectors, and all
reach the image through the cache, except `dos25`, which keeps buffers of its
own and reads and writes the image directly. The cache and the direct path do
not know of each other. `main` also walks the folders of the host along with the
directories of the disk, and only the nesting of the script's lines keeps the two
together. An error is a thrown string; it ends the program
without saving, so what memory holds after it no longer matters.

## Modules

`SectorStore`, `SectorAllocator` and `FileStore` are abstract: they say what a
layer promises to the one above. Each detailed module implements one of them.

    main: PackScript  (commands)     Repack  (files, directories, folders)
              extends AtrImage             extends AtariNames
      Dos2Files    implements  FileStore        uses the promise of SectorAllocator
      Dos25Files   implements  FileStore        uses the promise of SectorAllocator
      SpartaReader (reads only)
      RkDos        (all of RK DOS)              uses the promise of SectorStore
      Vtoc         implements  SectorAllocator  uses the promise of SectorStore
      Dos25Vtoc    implements  SectorAllocator
      SectorCache  implements  SectorStore

* **SectorCache** models `class disk`. `data`, `last`, `next`, `prev`, `num`,
  `dirty` and `buf` are the fields of `disk` and `disk::sector`; `out` is the
  byte a read returned. `HitRecent`, `HitOther` and `Miss` are the three ways
  out of `get_sector`; every operation that goes through the cache is one of
  them with the bytes the caller then stores. `MoveBeforeLast` has the pointer
  assignments of a hit in the code's order, aliases included. `init_sector` of a
  sector that is in the cache does not clear it, as in the code. The four sets
  `CacheRead`, `CacheWritten`, `RawRead` and `RawWritten` say which sectors a file
  system reaches by which path; `DisciplineAssumption` is the rule the file systems
  keep and the disk does not enforce.
* **Vtoc** models the bitmap over its pages. `FormatPage` is one pass of the loop
  of `expanded_vtoc::vtoc_format`, `ReserveSystem` the rest of it with
  `dir_format`; `FormatDos2` is `dos2::vtoc_format`. `AllocSector` and `DiskFull` are
  the outcomes of `alloc_sector`, `AllocFromData` what it does when its search
  leaves the table, `CreateDir` and `NoRoomForDir` those of MyDOS's `create_dir`.
  With short sectors `alloc_dir` reads ten bytes from behind the buffer, which may be anything:
  `CreateStrayDir` is what it does with a run it completes there. `TakeRun` then turns over bits of
  sector 359, and where the table has one page only, that sector may be of a file: the bits
  are any, and the count follows them. Of the values the unknown bits may have, those with
  only the bits of the run set are enough (lemma `FewestUnknownBits` of VtocProofs). A
  run behind the end of the disk has no sectors to write the directory to, so only
  the table is followed there.
* **Dos25Vtoc** keeps the buffer of a `dos25` object (`bitmap`, `free_sec`,
  `free_sec2`) apart from the two sectors of the image; `Unmount` and `Mount` end
  one object and make another.
* **Dos2Files** models directories, entries and chains. A file's bytes are tagged
  with the file and their position, so any mix-up shows. `WriteFirst`, `WriteMore` and
  `WriteNext` are the branches of `dos2_file::write`, `Close` is its destructor.
  Reading does not change the disk, so `size`, `save` and the listing are operators
  (`Size`, `SavedBytes`, `Unpacked`, `Listed`) that the properties apply to every state.
  `Compatible` is `dos2_compatible`, asked of each sector when it is linked to.
* **Dos25Files** is the same for DOS 2.5, whose files have a buffer of their own:
  `WriteByte`, `WriteSecond` and `WriteNext` are the branches of `dos25`'s `write`,
  `DiskFull` and `Terminate` the two places where `alloc_sector` may throw, the second
  in a destructor. `Close` is the end of a line of a script: the `DOS` command,
  which asks for the first sector while the file is open, then the destructor. `Boot`
  is a line `BOOT`: it brings a boot record, which says for itself where DOS begins.
  `Listed` takes as parameter what the member `sector` of the directory holds before
  anything is assigned to it.
* **SectorChains** has the chains of sectors both read.
* **SpartaReader** models one `sparta_dos_file`, with `sparta_dos_dir` on top of it when it
  reads a directory. Byte k of a file is the number k, so `got` shows what was
  read in which order. `MapEntry` is always a number of the first map, because
  the code never reads another into `map_buf`.
* **AtariNames** has the conversions of names: `NameText` is `name()` of a directory,
  `Parse` is `format_atari_name`, `HostName` the file of the host `unpack_dir` chooses.
  They work byte by byte, because the properties are about which bytes come back: `AfterByte`
  is one turn of the loop of `name()`, `AfterChar` one character read by `format_atari_name`,
  whose `state` says whether a backslash or `\x` came before.
* **Repack** is `unpack_dir` and the lines of files and directories of `pack`, with the
  host between them. `frames` are the calls of `unpack_dir`, `script` is `dir.txt`;
  `host`, `folders` and `cwd` are the host. `UnpackFile`, `UnpackEmpty` and `UnpackDir`
  are the branches of its loop, `PackLine` one turn of `pack`'s: it counts bars
  (`Start`), pops directories (`Popped`), takes the words apart (`Parsed`) and then
  one of the actions before it applies. `UserRemoves` is the user, who may change what
  was unpacked before packing it, as the repository's README.md says. A file is an
  entry with a value as contents: `Dos2Files` has the bytes.
* **AtrImage** has `disk::save` and `disk::load` as conversions between a disk and the
  bytes of an image file, with the arithmetic of the header.
* **PackScript** composes the commands of a script with the two access paths to the
  disk: `d` is the image in memory, `cache` the sectors that are newer in the cache.
  Which sectors the cache holds is left open (`Evict`); `SectorCache` has the details.
  `FormatThrough` and `FormatPast`, `FileThrough` and `FilePast` are the same commands for
  file systems of either path. `SaveDisk`, `CutShort`, `Load` and `Unpack` go once round: the
  script unpack writes is packed again (phase "again").
* **RkDos** is RK DOS from `format` to `unpack`. `dirfile` is the `rkdos_file` behind a
  directory and `file` the one packed or saved; both use `Written` (`write`), `Seek` and
  `AfterRead`. `CloseFile` is `~rkdos_file`, which writes to the directory whether the
  file was written or read; `EndPack` is the destructors of the directory and of the
  file system. Use of objects that are not there ends in the phase "undefined".

* **SharedFacts** and the modules whose names end in **Proofs** hold the theorems about the
  module they are named for; **DiskProofs** those about the cache and scripts.

Definitions that begin with "Variant" in a comment are wrong versions of the
one that follows. No specification uses them; they are there to see that a
property fails when the code is wrong in that way.

## Runs

| Run | Instance | Shows |
|---|---|---|
| `sector_cache` | 3 slots, 4 cached sectors (one a boot sector), 1 raw sector, 1-byte sectors of 2 values | the cache is an array of sectors; the ring keeps all slots; `save` leaves no byte behind |
| `vtoc` | real sizes: DOS 2 with 720 sectors, II+ with 1040, MyDOS with 945 short and 720 long sectors, and one disk for each way of being irregular, two of them MyDOS with directories on short sectors (a table of one page and of two) | counts, capacity, system sectors; regular disks are allocators |
| `dos25_vtoc` | 720 and 1040 sectors | overlapping copies agree, remounts forget nothing |
| `dos2_files` | five disks of 7 to 11 sectors: DOS 2, II+, MyDOS with links of 16 and of 3 bits, with and without assertions; sectors of 2 bytes, the first five for DOS 2, directories of 3 entries in 2 sectors, 5 files or directories of up to 5 bytes | every closed file unpacks as written; no sector is shared or lost; sizes; the DOS 2 flag |
| `dos25_files` | 6 or 3 sectors of 2 bytes, a directory of 4 entries in 2 sectors, 5 files of up to 7 bytes, boot records that name no sector, two of files and one off the disk | as `dos2_files`, with sectors allocated late; the DOS file is the one unpack marks, whatever boot record came before |
| `sparta_reader` | sectors of 4 bytes, 3 sectors in a map, entries of 3 bytes; files of 1 to 28 bytes, directories of 0 to 4 entries with any of them deleted | the bytes of what fits in a map come in order; whole entries are listed, in order, none passed over; reading ends |
| `repack` | names of 2 + 2 bytes: one entry with any of 392 names as a file, an empty file or a directory; trees of two directories with equal, escaped, blank and command-like names; four directories; one file or folder removed | names, contents, order and the DOS file come back; pack accepts what unpack wrote; both end |
| `pack_script` | boot sectors of 9 bytes, disks of 5 to 8 sectors, scripts of up to 4 of 16 lines, images with five sizes of sectors, whole or cut by up to 36 bytes | boot sectors, table and directory are what the script says; load is the inverse of save; the second disk is taken for the same system |
| `rkdos` | sectors of 9 cells, disks of 3 to 7 sectors with up to 2 packed files, and some 260 disks made elsewhere with entries of all lengths | what counts as free is free; all entries are listed; which bytes of a packed file are lost; when unpack ends |
| `dos25_listing` | the member holds 0, the right sector, or a large number | violation: the listing misses files |
| `sparta_listing` | directories of `sparta_reader` | violation: the last entry is not listed |
| `unpack_names` | two files whose names need escapes | violation: both are unpacked to `F1.bin` |

Why these bounds are enough. In the cache, a slot's neighbours alias only when
there are few slots, so three slots show every aliasing the code can meet, and
one sector more than slots forces reuse; the theorems are for any number of slots, the code's
four among them. The pages of a bitmap have real sizes:
a run fills the whole disk, because the boundaries are what matters. In
`dos2_files` the constants keep the order of the code's: more sectors than a
directory, more entries than fit, files of no, part, one, two and three sectors,
disks with more sectors than links or than DOS 2 knows, and system sectors in the
middle so that the free ones are in two parts; `dos25_files` has the same, and a
disk so small that the two allocations of a first link fail together or one by one.
In `sparta_reader` files have up to three maps and end at every place of a sector
and of a map, and entries lie across sectors. In `repack` the two bytes of a name are
every pair of plain, inverse, blank, escaped, hex and dot bytes, with extensions of none to
two bytes, plain or inverse or with a dot; nested directories with one
after them pop none, one and two at a time; one removal is enough for every way back
to go wrong. In `pack_script` four lines are two formats with something before,
between or after them; a boot sector has one byte for each byte anything is about;
sectors are as long as a boot sector, a byte more, and two to four times as
long, so the size of the disk is and is not whole paragraphs and pages. In `rkdos` a
sector has one cell more than the entry in the root sector needs, entries lie
across its edge at every place, and files have zero to three sectors and a byte.
`MaxDataAllocs` (with `StraysBounded`, which uses it), `MaxCreated`, `MaxBytes`, `MaxRemoved`, `MaxLines` and
`MaxFiles` bound the runs and are named in the modules.

Conditions. A property that does not hold everywhere says where it does, in a
definition with a name:

* `Vtoc`: `DISK` in a script accepts any size, and *regular* disks are those with all
  bits the format sets on the disk, a search that sees the last page and none that
  is not there, and a search for a directory's sectors that sees the whole bitmap and nothing else.
  The free count is that of the bits also on others, as long as neither search leaves the
  table (`SearchStaysInTable`, `DirSearchInTable`). One disk for each way of being irregular
  is in run `vtoc`.
* `Dos2Files`: `LinksFit`, until a build without assertions has taken a sector whose
  number does not fit a link.
* `Dos25Files`: the bitmap ends at sector 1023 (`LastBit` of `Dos25Vtoc`).
  `DosFileMarked` says of every script that at most one file is marked, and that after a
  `DOS` command it is the file of that command or none. That it is marked holds for files longer
  than a sector: for a shorter one `pack` asks for the first sector before it is allocated
  and stores 0. After a `BOOT` line with no `DOS` command behind it the boot record decides.
* `SpartaReader`: `OneMap`. Of a file that needs a second map the code reads the
  first map's sectors again.
* `Repack`: `PlainDisk`, whose names survive printing and parsing (`Survives`), whose lines
  are not taken for something else (`PlainEntry`; nor may a name with `/` be that of a folder or of a file
  on the host, where it is a path: of those only `/` itself is in the runs), and whose files have names of
  their own on the host (`DistinctNames`). When a folder was removed, all names must
  differ, since `pack` then looks in the folder above.
* `PackScript`: `FormatsInOrder`, for the table and the directory, and `Regular` sizes, for
  `LoadsBack`.
* `RkDos`: `IsWhole`, at most one packed file, since each further one overwrites the first
  one's entry, and `HasDir`, since directories cannot be opened. `SavedBytes` holds from the
  second save on only if the date of the first entry is 0 (`Undated`), which a packed one
  is. With another date it speaks of the first save, when the first entry is that
  of the file (`FromFirstEntry`).

Disks of fewer than 369 sectors are excluded by an assumption: on them the code
writes outside the image. Images that lack a part of the boot sectors are not in the runs:
the buffer of `load` then holds bytes that were never set.

Fairness. `SpartaReader`, `Repack` and `RkDos` assume weak fairness of their next step: the
loops of `save`, `unpack_dir` and `pack` run on one thread that waits for nothing, so
a step that can be taken is. The user between unpack and pack need not do anything,
but starts `pack`. In the other modules each action is a call made by a script, and a
script may end anywhere. Deadlock is not checked where `pack` and `unpack` end, or are
ended by an error.

## What the runs say of the code that its documents do not

Passing properties, or the definitions named, have these exactly, so each is as far as it
goes and no farther:

* "Disk full" with one sector free, on disks of 944, 1968 and so on short sectors whose last
  sector is the first of a page (`FullLeavesNothing`).
* DOS 2.5 on 1040 sectors: one sector fewer counted above 719 than is free; the last allocation
  makes the count 65535 (`HighCountOneLess`).
* II+ disks of more than 1968 sectors: sectors that are not free are handed out (action
  `AllocFromData`).
* MyDOS with long sectors and more than 1023 of them: an assertion fails, or links are
  cut to 10 bits and files with them (`LinksFit`).
* A file of one sector beyond 720 is marked as readable by DOS 2 (`Dos2FlagExact`).
* SpartaDOS: a file of more sectors than a map has is unpacked with those of its first map again
  (`OneMap`, `MapEntry`).
* MyDOS directories on short sectors: a run of "free" sectors may end in bits that are of
  nothing, the sectors of the directory may be in use, and bits of a file's sector may be turned
  over (action `CreateStrayDir`); `FreeCountExact` excludes those of them with a table
  of one page, `OnlyUsableFree` all.
* RK DOS: of a packed file of more than a sector the first byte of each sector is lost
  (`SavedBytes`), and unpacking a disk that has a packed file with any byte saves it for ever
  (`ListEnds`). On a disk made elsewhere, once a file is saved, the date of the first
  entry is taken for the size of an entry: by it, bytes are saved under the name of a
  file that are not its own (`Undated` in `SavedBytes`).
* A line of bars only, which unpack writes for a blank name in a directory, makes pack
  run for ever (`ProgramsEnd`).
* Sectors of DOS 2.5 are overwritten by the cache when a script formats twice (`FormatsInOrder`).

The three runs that expect a violation are about what README.md:6 of the repository promises: the
files of a disk are unpacked, each to a file of its own. DOS 2.5 directories are listed from a
member that was never set (`dos25_listing`); of a SpartaDOS directory the last entry is not
listed, and one without entries ends the program (`sparta_listing`); and names that need escapes share one file of the host
(`unpack_names`). README.md:147 says that reading SpartaDOS is supported.

## Proofs

All theorems are checked by TLAPS and hold for every value of the constants that the
named assumptions allow: sectors, caches, disks, directories, files and scripts of any
size. Each listed theorem but two has the formula a run checks on a
small instance. `LastEntryLeftOut` says of directories of every length what run `sparta_listing` finds in
small ones. `NamesComeBack` is a lemma of `RoundTrip`, for names of any length, such as the 8 + 3 bytes of the
code, where run `repack` has 2 + 2.

| Module | Theorems | Of |
|---|---|---|
| DiskProofs | `CacheTypeOK`, `CacheCorrect`, `SaveCorrect`, `RingStaysWhole`, `CacheRefinesStore`; `ScriptTypesKept`, `BootsKept`, `TablesInOrder`, `UnpackedAgain`, `DiskLoadsBack` | SectorCache; PackScript |
| VtocProofs | `VtocTypeOK`, `VtocCorrect`, `VtocRefinesAllocator` | Vtoc |
| Dos25VtocProofs | `Dos25TypeOK`, `Dos25VtocCorrect`, `Dos25RefinesAllocator` | Dos25Vtoc |
| Dos2FilesProofs | `Dos2TypeOK`, `FilesCorrect`, `SizesCorrect`, `Dos2RefinesFileStore`; `NamesComeBack` | Dos2Files; AtariNames |
| Dos25FilesProofs | `Dos25FilesTypeOK`, `Dos25FilesCorrect`, `Dos25MarksDos`, `Dos25RefinesFileStore` | Dos25Files |
| SpartaReaderProofs | `ReaderTypeOK`, `BytesComeInOrder`, `ListedInOrder`, `LastEntryLeftOut` | SpartaReader |
| RkDosProofs | `RkTypes`, `RkSpace`, `RkListed`, `RkSaved` | RkDos |

`SharedFacts` has the lemmas several of them need: the least element of a set of numbers,
remainders, cardinalities of intervals and of sets that lose or turn elements, what the
operators of `SectorChains` compute, and what the bytes of a file are.

**The cache.** `CacheInv` is inductive as it stands. It has the two directions of the
ring (`RingLinked`), that no sector is in two slots, that a slot which is not dirty agrees
with the image, that dirty slots hold sectors the file system writes through the cache, and
that no slot holds a raw sector. `RingMove` is the lemma on the pointer assignments: one
case for each way in which the slot, its neighbours and `last` coincide.
`CacheRefinesStore` takes `Content` (the cache's copy where there is one, otherwise the
image's) as the refinement mapping; that a miss does not change it is where write-back,
the discipline and `NoDuplicates` come together. `RingLinked` does not say that there is
one cycle: for that the invariant (`Ordered`) has a numbering of the slots in the order
of the ring, from `last` on, and a hit renumbers those between. The order is quantified inside the
invariant, so the model needs no variable for it.

**Tables of contents.** `VtocIInv` adds to `VtocInv` the loop of `vtoc_format`: after a pass the
bits of all pages so far are set, and the count is already that of the whole disk, less the
three boot sectors (`InLoop`, `AfterLoop`); on a formatted disk, which bits can be set at all and
which one no search finds (`Formatted`). A directory whose sectors all have a bit in the table keeps the
count, wherever the bits were found (`TakeRunKeeps`); of one with bits behind it nothing is said, and that
`CreateStrayDir` tries every run `alloc_dir` may find is `FewestUnknownBits`. `Dos25IInv` adds to `Dos25Inv` that the buffer
of a mounted disk is what `vtoc_read` would make of the image (`BufferInImage`). Both hold for every size of a disk, regular or not; the
refinement of `SectorAllocator` needs the regular ones, as the property says. The proof of `VtocTypeOK` showed that
`alloc_sector` of II+ may return a number of more than 16 bits when its search leaves the
table of a disk of almost 65535 sectors; the type of `result` says so, since a
`sector_num` of the code is not a word.

**Directories and files.** `FilesIInv` says that there is a function `path` from the entries of files
to sequences of sectors for which: each path starts at the first sector of its file and each link leads on along
it (`PathFrom`); no sector is on two paths, or twice on one (`PathsApart`), or in
a directory (`PathsTaken`); every sector that is taken is on a path or in a directory (`AllHeld`); every
sector of a closed file but the last is full and byte j of its sector i is byte
(i - 1) * `PAYLOAD` + j of the file (`ClosedPath`), and the file that is open is the same but for its last
sector (`OpenPath`). With it go the names of entries, which are all different, the order in which
entries are taken, the directories and the links (`Shape`). The invariant speaks of links before they are cut
to 10 bits; it holds also where `LinksFit` does not, and only what is read
needs the condition. `FilesInv`, `SizeExact` and the refinement follow from it by the lemmas on
chains: `ChainOfPath` says that `Chain` finds a path, `CountOfPath` and `BytesOfPath` what is
counted and read along it. For the refinement, a step leaves the sectors of closed files alone
(`SectorsStay`) and their entries (`ClosedStay`), so the same path shows that they
unpack to the same bytes; `Close` turns the path of the open file into that of a closed one.

**Files of DOS 2.5.** The paths are those of `Dos2Files`, and the theorems need no condition on links, since the
table ends with sector 1023. What differs is the buffer: until the second
sector is needed a file has none at all, and afterwards its last sector is taken but has not been written, so
`HoldsSoFar` says that all sectors on the path but the last hold their bytes, that the buffer has
those of the last, and `HoldsOpen` adds that the buffer of a file with sectors is not empty, for the code writes it only
when another byte follows: so the last sector that `Close` writes is never an empty one. That a sector just taken ends its path
needs `FreshLinks` (free sectors are linked to none), and that the first of two allocations may succeed alone
is why `FirstWritten` holds only while pack runs. A step changes the path of the open file and sectors on it, and nothing
else (`WrittenOn`, `OthersKept`), which gives both the invariant and, with `ClosedKept`, the refinement.
For `DosFileMarked` the invariant says what the boot sector names after a DOS command (`DosHeld`): the first sector of its file,
or 0 if that has no more than one sector, since pack asks before the destructor allocates. After a `BOOT` line
it may name any sector, and one file at most begins there, since no two paths share one. That a listing meets
the entries in use is arithmetic on sectors and places (`PlaceOf`, `EntryListed`) and the order in which entries are taken.

**The SpartaDOS reader.** `ReaderIInv` relates the position in the file to the index in the map and the
position in the sector; `DirIInv` adds how many entries were read and listed in each
phase of the directory's constructor and loop. What is listed then are always the first n entries less the
deleted ones (`ListedInOrder`), and n stops one short of the last (`LastEntryLeftOut`).

**RK DOS.** `RkIInv` has five parts. `Space`: the sectors from `free_start` on are clear and run to the end of
the disk, and those behind the root sector are not its own. `Types`. `Pack`, while pack runs: `free_start` alone
does not say that no sector of the directory or of a file is free, and what says so is the order in which they
are taken. The first entry takes the first sector of the directory before its file takes any (`EntryBegun`,
`FileBegun`); a later file starts its own entry at the end of the first sector (`EntryToBegin`), where another
sector is taken only if it is the next one, so the directory has at most two entries (`DirKept`), and the
first bytes that `~rkdos_file` overwrites are those of the first entry. `Read`, after
it: the root sector agrees with the object (`Root`, by `EndPack`'s two writes to it in either order), and
position, sector and offset of the directory agree (`DirRead`), which `next()` keeps for every length of an entry and over every edge of a sector.
`Listing`, for disks with the directory their files make: cell `at[k]` is where entry k starts, and list has shown the entries before
the position it has come to. The places are quantified in the invariant (`EntriesAt`): for a disk made elsewhere they
are given, and for a packed one `Pack` shows what they are. `RkTypes` bounds the cluster size of the directory
only: that of a file that is saved may be any number, since after the first file `next()` takes a date for a size.
`SaveIInv` adds where bytes are, for `RkSaved`. `PackData`: those written of the one packed file are after the first sector of
the directory and before the free part, but for the first of each sector, and the date of its entry stays 0 through
the destructors. `OpenData`: then every file is where its entry says (`AllKept`; for disks made elsewhere by
`FilesAt`), outside the sector that unpack writes to, so no destructor changes a byte of one. `Unpacking` has four
cases: no file with a byte was met (`Before`), the first is being saved (`Saving`), `next()` goes on at the date
0 and finds the same entry in `buf` (`Again`), or at another date and is lost (`Astray`); in the last position and
size never match as they do in the first entry, which is what `FromFirstEntry` tells apart.

**Scripts.** Three invariants, each with the types (`ScriptInv`) as its base. `ScriptIInv` is for `BootKept` and `TablesKept`: at every
turn of a script each boot sector has, in the cache where it is there and otherwise in the image, what the lines so
far say (`InTurn`), and so have table and directory while formats are in order (`TablesInTurn`). What the lines
say is the recursive function `SaidBy`; a turn is one step of it. The properties speak of what is saved only, the invariant of
the disk seen through the cache, since a line may leave either copy behind. `AgainIInv` is for `UnpackedSame`: while the
script of unpack is packed, it is at one of four places (`Remakes`): nothing is read, `DISK` is read, the disk is
formatted for the origin's file system (`Remade`), or it has the origin's boot sectors (`BootRemade`) and only lines of
properties are left, each of which writes the byte that is there already. `LoadIInv` is for `LoadsBack`: an image that was saved
or made elsewhere is `Stored`, that is the bytes of each sector are where `load` looks for them (`Holds`) if the size is `Regular`. That
`save` puts them there is `FlattenAt` with `StartNext`; that cutting the image short leaves those before
the cut is `CutStored`; and `LoadFinds` is that the buffer of `load`, whatever it held, has the whole sectors of the file.

**Names.** `NamesComeBack` relates what was printed to what is read of it, byte by byte of the name. `Reads` says which
state the reader is in after a text, and `ReadAs` names the states met: i bytes of the name are set, the next is
inverse or not, and a backslash came before or did not. `TextGood` is the invariant of the printer after k bytes: read, its text
gives those k bytes, and the part of it that is kept gives those up to the last one that is not a space, with the inverse bit of
that one (`LastInked`, `InverseAt`). The dot is put after the kept part, when the byte before is not inverse; the
reader then still has the inverse bit of the last byte kept, and `Survives` is needed where the two differ
(`DotRight`). A reader that meets the end of the text leaves spaces, as the printer cut them.

Recursion and induction. The models follow chains with recursive functions on numbers (`Chain`, `CountedBytes`,
`ChainBytes`), `RingIsOneCycle` walks the ring with one, `SaidBy` goes through a script, `Loaded` through
an image, and `NameText` and `Parse` through the bytes of a name and of a text. The induction theorems
of the library take a predicate as a parameter, which the installed provers cannot instantiate. `NatSetInduction`
states induction for a set in place of the predicate, and follows from `LeastNat`, that is from
`NatLessThanWellFounded`; `NatRecursion` uses it to show that a function defined by recursion
on numbers exists and satisfies its definition.

Assumptions. Beside the ranges of numbers, those that matter: `DisciplineAssumption` of
`SectorCache`, the rule the file systems keep; `SystemAssumption` of `Dos2Files`, that sector 0 and
the root directory are never handed out; `DisksAssumption` of `Dos25Files`, that sectors of files can
be named by a link and are outside the directory; `NamesAssumption` of `AtariNames`, that characters are
strings; `NoFileAssumption` of both, that no file equals
the model value for none; `StreamsAssumption` of `SpartaReader`, that directories have whole entries, the first
their own, and are shorter than the size the constructor starts with; in `RkDos` `CountsAssumption`, that a disk has
the three sectors that are never free, and `ForeignAssumption`, what a disk made elsewhere is (`IsImage`) and that
its directory and sectors are those of its files (`EntriesAt`, `FilesAt`); and in `PackScript` `LinesAssumption`, that the disks of a script have the
sectors of table and directory, also in the number of sectors `load` would find (`IsSize`), and that no user's file has the name unpack
gives to the boot sectors, and `ImagesAssumption`, that an image made elsewhere is as `save` writes it or has the
first sectors in full, with sectors of whole pages.

Only model-checked: all properties of `Repack`, and what is out of the provers'
reach, liveness under fairness (`ReadingEnds`, `ProgramsEnd`, `ListEnds`) and `ENABLED`. Of `Repack`, `NamesComeBack`
proves what happens to one name; that lines, folders and nested directories bring a whole disk back
would need an induction over trees and the words of lines (`NextWord`, `HostName`).

## Not modelled

* In `Repack`, the files `dir.txt` and `boot.bin` that unpack itself writes to the folder, which a file of
  the disk may have the name of, and a disk or directory that is full while it is packed again.
* In `Dos2Files`, MyDOS directories on short sectors, where bits of a file's sector may be turned over
  (`CreateStrayDir` of `Vtoc`): its directories are runs of sectors that are free.
* `free_sector`: nothing calls it. Locked files and the dates of entries: nothing looks
  at them.
* The magic number of an image file, whose absence ends the program, and how numbers
  are read from a script. (`DISK` takes the number of sectors first and their size
  second, as unpack writes them; README.md:26 has them the other way round.)
* Signatures of several bytes are one byte in `PackScript`, so no disk has the signatures
  of two systems; the order of the tests matters for DOS 2 and DOS 2.5 only.
* Properties of two bytes and of text: only the volume name of SpartaDOS is one, and no
  disk can be formatted for that.
* SpartaDOS: maps with holes and files without a map, for which bytes come from a buffer
  that was never set; names, printed as those of DOS 2; `format` and writing are empty
  functions or use buffers that were never allocated, and `set_dos_first_sector` is not
  reached without them.
* Deleted entries are in the listing of `Repack` and `RkDos`, not in `Dos2Files` and
  `Dos25Files`: `pack` deletes nothing.
* Names are one value in `RkDos`: its `name()` prints eleven bytes as that of DOS 2 does but puts
  no dot before the extension. Directories of RK DOS cannot be created or opened.
* Sector sizes other than 128 and 256 outside `AtrImage`, and DOS 2.5 on 256-byte sectors.

## Plan

1. Done: all modules above, and the proofs of the cache, of the tables of contents, of the
   directories and files of DOS 2, its relatives and DOS 2.5, of the SpartaDOS reader, of RK DOS, of
   scripts, images and what unpacking makes of them, and of what becomes of a name in a script.
2. Open: the rest of `Repack`, trees of directories of any shape, which needs an induction over
   the calls of `unpack_dir` and the lines they write.
