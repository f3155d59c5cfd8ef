---------------------------- MODULE RkDosProofs ----------------------------
(* Theorems about RkDos, for every size of a sector, all disks formatted   *)
(* and made elsewhere, and any sizes and number of the files packed.       *)
EXTENDS RkDos, SequenceTheorems, TLAPS

RkFiles ==
    [first : Nat, cluster_size : Nat, cluster_end : Int, end_offset : Nat,
     sector : Nat, offset : Nat, pos : Nat, size : Nat]

Ended == phase \in {"error", "undefined"}
Packing == phase \in {"pack", "entry", "import"}

(* A disk of n sectors, and what of it is free.                            *)
SpaceOf(d, room, n) ==
    /\ n \in Nat /\ n >= 3 /\ d \in Disks(n)
    /\ room \in [start : Nat, size : Nat]
    /\ room.start >= 4 /\ room.start + room.size = n + 1
    /\ \A s \in room.start .. n : d[s] = ClearSector

Space == SpaceOf(disk, free, COUNT)

(* What the root sector says after pack, or of a disk made elsewhere.      *)
Root ==
    /\ disk[root_sec][root_first_free] = free.start
    /\ disk[root_sec][root_free_size] = free.size
    /\ RootCell(dir_cluster_size) <= COUNT
    /\ DirIn(RootCell(dir_cluster_start), RootCell(dir_file_size), free.start)

Types ==
    /\ dirfile \in RkFiles /\ dirfile.cluster_end >= dirfile.first - 1
    /\ file \in RkFiles /\ file.cluster_end >= file.first - 1
    /\ buf \in [0 .. BUF - 1 -> Nat]
    /\ files \in Seq(Files) /\ todo \in Seq(Nat)
    /\ listed \in Seq([name : Nat, size : Nat])
    /\ phase \in {"pack", "entry", "import", "open", "next", "loop", "save", "done", "error",
                  "undefined"}
    /\ mode \in {"pack", "list", "unpack"}
    /\ Packing => mode = "pack"
    /\ phase = "save" => mode = "unpack"
    /\ mode = "pack" => Packing \/ Ended
    /\ mode = "pack" => /\ packed = TRUE /\ listed = <<>>
                        /\ dirfile.cluster_size = 0 /\ file.cluster_size = 0

(* The directory of a disk being packed.  The entry of the first file      *)
(* takes its first sector; one more is possible after it if that file has  *)
(* no byte, and a third never.                                             *)
Entries == Len(files)
ENTRY == dir_name + 1

NoDir ==
    /\ dirfile.first = 0 /\ dirfile.size = 0 /\ dirfile.pos = 0
    /\ dirfile.sector = 0 /\ dirfile.offset = 0 /\ dirfile.cluster_end = 0 - 1

DirKept ==
    /\ dirfile.first >= 4 /\ dirfile.cluster_end >= dirfile.first
    /\ dirfile.size = ENTRY * Entries /\ Entries >= 1 /\ Entries <= 2
    /\ dirfile.first + Entries <= free.start
    /\ dirfile.pos <= dirfile.size /\ dirfile.offset <= SECTOR

EntryToBegin ==
    /\ Len(todo) = ENTRY /\ dirfile.offset = 0 /\ dirfile.sector = dirfile.first
    /\ \/ Entries = 1 /\ dirfile.first = 0
       \/ /\ Entries >= 2 /\ Entries <= 3 /\ dirfile.first >= 4
          /\ dirfile.cluster_end = dirfile.first /\ dirfile.end_offset = 0
          /\ dirfile.first + Entries - 1 <= free.start

EntryBegun ==
    /\ Len(todo) < ENTRY /\ dirfile.offset = ENTRY - Len(todo)
    /\ dirfile.first >= 4 /\ dirfile.sector = dirfile.cluster_end
    /\ dirfile.sector < free.start
    /\ \/ Entries = 1 /\ dirfile.end_offset = SECTOR /\ dirfile.sector = dirfile.first
       \/ Entries = 2 /\ dirfile.end_offset = 0 /\ dirfile.sector = dirfile.first + 1

PackEntry ==
    phase = "entry" =>
        /\ dirfile.pos = ENTRY * Entries - Len(todo) /\ dirfile.size = dirfile.pos
        /\ file = NoFile
        /\ Entries >= 1 /\ (EntryToBegin \/ EntryBegun)

(* The file being imported: its sectors are behind that of the directory.  *)
FileBegun ==
    /\ file.first > dirfile.first /\ file.first <= file.sector
    /\ file.sector = file.cluster_end /\ file.sector < free.start
    /\ file.end_offset = SECTOR /\ file.offset <= SECTOR

PackImport ==
    phase = "import" =>
        /\ DirKept /\ file.pos = file.size
        /\ file.size + Len(todo) = Len(files[Entries].bytes)
        /\ file = NoFile \/ FileBegun

(* Entry e is written to sector s up to the cells of rest.                 *)
EntrySoFar(d, s, rest, e) ==
    /\ \A c \in 1 .. ENTRY - Len(rest) : d[s][c - 1] = e[c]
    /\ \A c \in 1 .. Len(rest) : rest[c] = e[ENTRY - Len(rest) + c]

(* What list needs of the entry of the only file packed.                   *)
OnlyEntry ==
    packed /\ Entries = 1 =>
        /\ phase = "entry" =>
            EntrySoFar(disk, dirfile.first, todo, NewEntry(files[1].name))
        /\ phase \in {"import", "pack"} =>
            /\ disk[dirfile.first][dir_entry_size] = dir_name
            /\ disk[dirfile.first][dir_name] = files[1].name
        /\ phase = "pack" => disk[dirfile.first][dir_file_size] = Len(files[1].bytes)

Pack ==
    Packing =>
        /\ dirfile.cluster_size = 0 /\ file.cluster_size = 0
        /\ file.pos <= file.size /\ file.offset <= SECTOR
        /\ phase = "pack" => \/ Entries = 0 /\ NoDir
                             \/ DirKept /\ dirfile.cluster_end = dirfile.first
        /\ PackEntry /\ PackImport /\ OnlyEntry

(* The directory being read.                                               *)
DirRead ==
    /\ dirfile.first = RootCell(dir_cluster_start)
    /\ dirfile.cluster_size = RootCell(dir_cluster_size)
    /\ dirfile.size = RootCell(dir_file_size)
    /\ dirfile.pos <= dirfile.size
    /\ dirfile.sector = dirfile.first + dirfile.pos \div SECTOR
    /\ dirfile.offset = dirfile.pos % SECTOR

Read ==
    mode # "pack" =>
        /\ Root
        /\ dirfile.cluster_size <= COUNT
        /\ phase \in {"next", "loop", "save", "done"} => DirRead
        /\ phase \in {"loop", "save"} => dirfile.size > 0
        /\ ~Ended => /\ dirfile.pos <= dirfile.size /\ dirfile.offset <= SECTOR
                     /\ file.pos <= file.size /\ file.offset <= SECTOR

(* What of a whole directory list has shown.                               *)
ListedTo(k) ==
    /\ k \in 0 .. Len(files)
    /\ listed = [e \in 1 .. k |-> [name |-> files[e].name, size |-> Len(files[e].bytes)]]

Shown(at) ==
    /\ phase = "open" => listed = <<>>
    /\ phase = "next" => \E k \in 0 .. Len(files) : ListedTo(k) /\ dirfile.pos = at[k + 1]
    /\ phase = "loop" => \E k \in 1 .. Len(files) :
        /\ ListedTo(k - 1) /\ dirfile.pos = at[k + 1]
        /\ buf[dir_name] = files[k].name /\ buf[dir_file_size] = Len(files[k].bytes)
    /\ phase = "done" => ListedTo(Len(files))

Listing ==
    /\ phase = "open" /\ IsWhole => \E at : EntriesAt(disk, files, at)
    /\ mode = "list" /\ IsWhole => \E at : EntriesAt(disk, files, at) /\ Shown(at)

RkIInv == Space /\ Types /\ Pack /\ Read /\ Listing
-----------------------------------------------------------------------------
(* The cells of an entry and of the root sector, as numbers.               *)
LEMMA CellNumbers ==
    /\ dir_entry_size = 0 /\ dir_flags = 1 /\ dir_cluster_start = 2 /\ dir_cluster_size = 3
    /\ dir_file_size = 4 /\ dir_date = 5 /\ dir_name = 6 /\ BUF = 10 /\ ENTRY = 7
    /\ root_sec = 1 /\ root_first_free = 0 /\ root_free_size = 1 /\ root_entry = 2
    /\ SECTOR \in Nat /\ SECTOR >= 8 /\ DIR = 1
BY ScaleAssumption DEF dir_entry_size, dir_flags, dir_cluster_start, dir_cluster_size,
    dir_file_size, dir_date, dir_name, BUF, ENTRY, root_sec, root_first_free, root_free_size,
    root_entry, ROOT_FILE_SIZE, DIR

(* What is left of a number of cells, in sectors of S.                     *)
LEMMA DivFacts ==
    ASSUME NEW S \in Nat, S > 0, NEW a \in Nat
    PROVE  /\ a \div S \in Nat /\ a % S \in Nat /\ a % S < S
           /\ a < S => a \div S = 0 /\ a % S = a
<1>1. a \div S \in Nat
  OBVIOUS
<1>2. a % S \in Nat /\ a % S < S
  OBVIOUS
<1>3. a < S => a \div S = 0 /\ a % S = a
  OBVIOUS
<1>4. QED
  BY <1>1, <1>2, <1>3

LEMMA DivSum ==
    ASSUME NEW S \in Nat, S > 0, NEW a \in Nat, NEW n \in Nat
    PROVE  /\ (a + n) \div S = (a \div S) + (((a % S) + n) \div S)
           /\ (a + n) % S = ((a % S) + n) % S
OBVIOUS

LEMMA DivMonotone ==
    ASSUME NEW S \in Nat, S > 0, NEW a \in Nat, NEW b \in Nat, a <= b
    PROVE  a \div S <= b \div S
OBVIOUS

(* The greater of two numbers, and the last of the sectors.                *)
LEMMA MaxOfTwo ==
    ASSUME NEW a \in Nat, NEW b \in Nat
    PROVE  Max({a, b}) = IF b > a THEN b ELSE a
<1> DEFINE m == IF b > a THEN b ELSE a
<1>1. m \in {a, b} /\ \A y \in {a, b} : m >= y
  OBVIOUS
<1>2. Max({a, b}) \in {a, b} /\ \A y \in {a, b} : Max({a, b}) >= y
  BY <1>1, Zenon DEF Max
<1>3. Max({a, b}) = a \/ Max({a, b}) = b
  BY <1>2, Zenon
<1>4. Max({a, b}) >= a /\ Max({a, b}) >= b
  BY <1>2, Zenon
<1>5. QED
  BY <1>3, <1>4

LEMMA LastSector ==
    ASSUME NEW n \in Nat, n >= 1, NEW d, DOMAIN d = 1 .. n
    PROVE  Max(DOMAIN d) = n
<1>1. n \in 1 .. n /\ \A y \in 1 .. n : n >= y
  OBVIOUS
<1>2. Max(1 .. n) \in 1 .. n /\ \A y \in 1 .. n : Max(1 .. n) >= y
  BY <1>1, Zenon DEF Max
<1>3. Max(1 .. n) >= n /\ Max(1 .. n) \in 1 .. n
  BY <1>1, <1>2, Zenon
<1>4. Max(1 .. n) = n
  BY <1>3
<1>5. QED
  BY <1>4

-----------------------------------------------------------------------------
(* A new line of a sector that is not free.                                *)
LEMMA SpaceLine ==
    ASSUME NEW d, NEW room, NEW n, SpaceOf(d, room, n),
           NEW s \in Nat, NEW line, NEW after \in [start : Nat, size : Nat],
           s \in 1 .. n => line \in [0 .. SECTOR - 1 -> Nat],
           after.start >= room.start, after.start + after.size = n + 1,
           s < after.start
    PROVE  SpaceOf([d EXCEPT ![s] = line], after, n)
<1>1. [d EXCEPT ![s] = line] \in Disks(n)
  BY DEF SpaceOf, Disks
<1>2. ASSUME NEW t \in after.start .. n PROVE [d EXCEPT ![s] = line][t] = ClearSector
  <2>1. t \in room.start .. n /\ t \in 1 .. n /\ t # s
    BY DEF SpaceOf
  <2>2. QED
    BY <2>1 DEF SpaceOf, Disks
<1>3. QED
  BY <1>1, <1>2 DEF SpaceOf

LEMMA SpaceCell ==
    ASSUME NEW d, NEW room, NEW n, SpaceOf(d, room, n),
           NEW s \in Nat, NEW c, NEW b \in Nat, NEW after \in [start : Nat, size : Nat],
           after.start >= room.start, after.start + after.size = n + 1,
           s < after.start
    PROVE  SpaceOf([d EXCEPT ![s][c] = b], after, n)
<1>1. s \in 1 .. n => [d[s] EXCEPT ![c] = b] \in [0 .. SECTOR - 1 -> Nat]
  BY DEF SpaceOf, Disks
<1>2. SpaceOf([d EXCEPT ![s] = [d[s] EXCEPT ![c] = b]], after, n)
  BY <1>1, SpaceLine
<1>3. QED
  BY <1>2

LEMMA SpaceNext ==
    ASSUME Space, SpaceOf(disk', free', COUNT)
    PROVE  COUNT' = COUNT /\ Space'
<1>1. DOMAIN disk' = 1 .. COUNT /\ COUNT \in Nat /\ COUNT >= 1
  BY DEF SpaceOf, Disks
<1>2. COUNT' = Max(DOMAIN disk')
  BY DEF COUNT
<1>3. COUNT' = COUNT
  BY <1>1, <1>2, LastSector, Zenon
<1>4. QED
  BY <1>3 DEF Space

LEMMA SpaceSame ==
    ASSUME Space, UNCHANGED <<disk, free>>
    PROVE  COUNT' = COUNT /\ Space'
BY DEF Space, SpaceOf, COUNT

-----------------------------------------------------------------------------
(* What write does, for a file f: nothing, if it fails; otherwise b goes   *)
(* to the first sector of the file, to the one it was in, or to that one   *)
(* as the next one is taken.                                               *)
SizeAfter(f) == IF f.pos + 1 > f.size THEN f.pos + 1 ELSE f.size

WriteFails(w, f) ==
    /\ w.outcome \in {"error", "undefined"}
    /\ w.disk = disk /\ w.free = free /\ w.file = f

WriteFirst(w, f, b) ==
    /\ w.outcome = "ok" /\ f.first = 0 /\ free.size > 0
    /\ w.disk = [disk EXCEPT ![free.start][f.offset] = b]
    /\ w.free = [start |-> free.start + 1, size |-> free.size - 1]
    /\ w.file = [first |-> free.start, cluster_size |-> f.cluster_size,
                 cluster_end |-> free.start, end_offset |-> SECTOR,
                 sector |-> free.start, offset |-> f.offset + 1,
                 pos |-> f.pos + 1, size |-> SizeAfter(f)]

WriteSame(w, f, b) ==
    /\ w.outcome = "ok" /\ f.first # 0 /\ f.sector # 0 /\ ~AtClusterEnd(f)
    /\ w.disk = [disk EXCEPT ![f.sector][f.offset] = b]
    /\ w.free = free
    /\ w.file = [first |-> f.first, cluster_size |-> f.cluster_size,
                 cluster_end |-> f.cluster_end, end_offset |-> f.end_offset,
                 sector |-> f.sector, offset |-> f.offset + 1,
                 pos |-> f.pos + 1, size |-> SizeAfter(f)]

WriteGrown(w, f, b) ==
    /\ w.outcome = "ok" /\ f.first # 0 /\ f.sector # 0 /\ AtClusterEnd(f)
    /\ free.size > 0 /\ free.start = f.cluster_end + 1
    /\ w.disk = [disk EXCEPT ![f.sector][0] = b]
    /\ w.free = [start |-> free.start + 1, size |-> free.size - 1]
    /\ w.file = [first |-> f.first, cluster_size |-> f.cluster_size,
                 cluster_end |-> free.start, end_offset |-> f.end_offset,
                 sector |-> free.start, offset |-> 1,
                 pos |-> f.pos + 1, size |-> SizeAfter(f)]

LEMMA SizeIsMax ==
    ASSUME NEW f \in RkFiles
    PROVE  Max({f.size, f.pos + 1}) = SizeAfter(f) /\ SizeAfter(f) \in Nat
<1>1. f.size \in Nat /\ f.pos + 1 \in Nat
  BY DEF RkFiles
<1>2. QED
  BY <1>1, MaxOfTwo DEF SizeAfter

(* The byte in its cell, and the file after it.                            *)
Put(h, s, b) ==
    [h EXCEPT !.disk[s][h.file.offset] = b,
              !.file = [h.file EXCEPT !.offset = h.file.offset + 1, !.pos = h.file.pos + 1,
                                      !.size = Max({h.file.size, h.file.pos + 1})]]

(* The file before the byte is written, and how it ends.                   *)
LEMMA WrittenFrom ==
    ASSUME NEW f, NEW b, NEW w, w = Written(Work(disk, f), b),
           NEW g, g = FirstAllocated(Work(disk, f)),
           NEW h, h = ClusterGrown(g)
    PROVE  /\ g.file.sector = 0 => WriteFails(w, f)
           /\ AtClusterEnd(g.file) /\ (h.file.sector = 0 \/ h.file.sector # h.file.cluster_end)
                => WriteFails(w, f)
           /\ g.file.sector # 0
                /\ (AtClusterEnd(g.file) => h.file.sector # 0 /\ h.file.sector = h.file.cluster_end)
                => w = Put(h, g.file.sector, b)
<1>1. g.file.sector = 0 => WriteFails(w, f)
  BY DEF Written, Failed, Work, WriteFails
<1>2. AtClusterEnd(g.file) /\ (h.file.sector = 0 \/ h.file.sector # h.file.cluster_end)
        => WriteFails(w, f)
  BY DEF Written, Failed, Work, WriteFails
<1>3. g.file.sector # 0
        /\ (AtClusterEnd(g.file) => h.file.sector # 0 /\ h.file.sector = h.file.cluster_end)
      => w = Put(h, g.file.sector, b)
  BY Zenon DEF Written, Put
<1>4. QED
  BY <1>1, <1>2, <1>3, Zenon

PutIn(w, d, r, f, s, b) ==
    /\ w.outcome = "ok" /\ w.disk = [d EXCEPT ![s][f.offset] = b] /\ w.free = r
    /\ w.file = [first |-> f.first, cluster_size |-> f.cluster_size,
                 cluster_end |-> f.cluster_end, end_offset |-> f.end_offset,
                 sector |-> f.sector, offset |-> f.offset + 1,
                 pos |-> f.pos + 1, size |-> SizeAfter(f)]

LEMMA CellPut ==
    ASSUME NEW d, NEW r, NEW f \in RkFiles, NEW s, NEW b
    PROVE  PutIn(Put([disk |-> d, free |-> r, file |-> f, outcome |-> "ok"], s, b), d, r, f, s, b)
<1> DEFINE w == Put([disk |-> d, free |-> r, file |-> f, outcome |-> "ok"], s, b)
<1> DEFINE h == [disk |-> d, free |-> r, file |-> f, outcome |-> "ok"]
           q == [f EXCEPT !.offset = f.offset + 1, !.pos = f.pos + 1, !.size = SizeAfter(f)]
<1>1. Max({f.size, f.pos + 1}) = SizeAfter(f)
  BY SizeIsMax
<1>2. w = [h EXCEPT !.disk[s][f.offset] = b, !.file = q]
  BY <1>1 DEF Put
<1> HIDE DEF q, w
<1>3. w.outcome = "ok" /\ w.disk = [d EXCEPT ![s][f.offset] = b] /\ w.free = r /\ w.file = q
  BY <1>2
<1>4. QED
  <2>1. PutIn(w, d, r, f, s, b)
    BY <1>3 DEF PutIn, RkFiles, q
  <2>2. QED
    BY <2>1 DEF w

LEMMA FileFields ==
    ASSUME NEW f \in RkFiles, NEW s \in Nat, NEW o \in Nat, NEW c \in Int
    PROVE  [f EXCEPT !.sector = s, !.offset = o, !.cluster_end = c] =
               [first |-> f.first, cluster_size |-> f.cluster_size,
                cluster_end |-> c, end_offset |-> f.end_offset,
                sector |-> s, offset |-> o, pos |-> f.pos, size |-> f.size]
<1> DEFINE g == [f EXCEPT !.sector = s, !.offset = o, !.cluster_end = c]
<1>1. g \in RkFiles
  BY DEF RkFiles
<1>2. /\ g.first = f.first /\ g.cluster_size = f.cluster_size /\ g.cluster_end = c
      /\ g.end_offset = f.end_offset /\ g.sector = s /\ g.offset = o
      /\ g.pos = f.pos /\ g.size = f.size
  BY DEF RkFiles
<1> HIDE DEF g
<1>3. g = [first |-> g.first, cluster_size |-> g.cluster_size,
           cluster_end |-> g.cluster_end, end_offset |-> g.end_offset,
           sector |-> g.sector, offset |-> g.offset, pos |-> g.pos, size |-> g.size]
  BY <1>1 DEF RkFiles
<1>4. g = [first |-> f.first, cluster_size |-> f.cluster_size,
           cluster_end |-> c, end_offset |-> f.end_offset,
           sector |-> s, offset |-> o, pos |-> f.pos, size |-> f.size]
  BY <1>2, <1>3
<1>5. QED
  BY <1>4 DEF g

LEMMA WrittenCases ==
    ASSUME NEW f \in RkFiles, NEW b, NEW w, w = Written(Work(disk, f), b),
           free \in [start : Nat, size : Nat], free.start >= 4,
           f.first = 0 => f.offset < SECTOR
    PROVE  WriteFails(w, f) \/ WriteFirst(w, f, b) \/ WriteSame(w, f, b) \/ WriteGrown(w, f, b)
<1> DEFINE g == FirstAllocated(Work(disk, f))
           h == ClusterGrown(g)
           taken == [start |-> free.start + 1, size |-> free.size - 1]
<1>a. g = FirstAllocated(Work(disk, f)) /\ h = ClusterGrown(g)
  OBVIOUS
<1> HIDE DEF g, h
<1>0. SECTOR \in Nat /\ SECTOR >= 8
  BY CellNumbers
<1>1. /\ g.file.sector = 0 => WriteFails(w, f)
      /\ AtClusterEnd(g.file) /\ (h.file.sector = 0 \/ h.file.sector # h.file.cluster_end)
           => WriteFails(w, f)
      /\ g.file.sector # 0
           /\ (AtClusterEnd(g.file) => h.file.sector # 0 /\ h.file.sector = h.file.cluster_end)
           => w = Put(h, g.file.sector, b)
  BY <1>a, WrittenFrom
<1> USE DEF g
<1>2. CASE f.first = 0 /\ free.size = 0
  <2>1. g.file.sector = 0
    BY <1>2 DEF FirstAllocated, AfterAlloc, Taken, Work, RkFiles
  <2>2. QED
    BY <1>1, <2>1, Zenon
<1>3. CASE f.first = 0 /\ free.size > 0
  <2> DEFINE k == [first |-> free.start, cluster_size |-> f.cluster_size,
                   cluster_end |-> free.start, end_offset |-> SECTOR,
                   sector |-> free.start, offset |-> f.offset,
                   pos |-> f.pos, size |-> f.size]
  <2>1. g = [disk |-> disk, free |-> taken, file |-> k, outcome |-> "ok"]
    BY <1>3 DEF FirstAllocated, AfterAlloc, Taken, Work, RkFiles
  <2>2. g.file = k
    BY <2>1
  <2>3. f.offset # SECTOR /\ free.start # 0 /\ k \in RkFiles
    BY <1>0, <1>3 DEF RkFiles
  <2>4. ~AtClusterEnd(g.file) /\ g.file.sector # 0
    BY <2>2, <2>3 DEF AtClusterEnd
  <2>5. h = g
    BY <1>a, <2>4 DEF ClusterGrown
  <2>6. k.sector = free.start /\ k.offset = f.offset /\ SizeAfter(k) = SizeAfter(f)
    BY DEF SizeAfter
  <2> HIDE DEF g, k, taken
  <2>7. w = Put([disk |-> disk, free |-> taken, file |-> k, outcome |-> "ok"], k.sector, b)
    BY <1>1, <2>1, <2>2, <2>4, <2>5, Zenon
  <2>8. PutIn(w, disk, taken, k, k.sector, b)
    BY <2>3, <2>7, CellPut
  <2>9. WriteFirst(w, f, b)
    BY <1>3, <2>6, <2>8 DEF PutIn, WriteFirst, k, taken
  <2>10. QED
    BY <2>9
<1>4. CASE f.first # 0
  <2>1. g = [disk |-> disk, free |-> free, file |-> f, outcome |-> "ok"]
    BY <1>4 DEF FirstAllocated, Work
  <2>2. g.file = f
    BY <2>1
  <2>3. CASE f.sector = 0
    BY <1>1, <2>2, <2>3, Zenon
  <2>4. CASE f.sector # 0 /\ ~AtClusterEnd(f)
    <3>1. h = g
      BY <1>a, <2>2, <2>4 DEF ClusterGrown
    <3> HIDE DEF g
    <3>2. w = Put([disk |-> disk, free |-> free, file |-> f, outcome |-> "ok"], f.sector, b)
      BY <1>1, <2>1, <2>2, <2>4, <3>1, Zenon
    <3>3. PutIn(w, disk, free, f, f.sector, b)
      BY <3>2, CellPut
    <3>4. WriteSame(w, f, b)
      BY <1>4, <2>4, <3>3 DEF PutIn, WriteSame
    <3>5. QED
      BY <3>4
  <2>5. CASE f.sector # 0 /\ AtClusterEnd(f)
    <3>1. AtClusterEnd(g.file) /\ g.free = free /\ g.disk = disk /\ g.outcome = "ok"
      BY <2>1, <2>2, <2>5
    <3>2. h = [AfterAlloc(g) EXCEPT
                !.file = [f EXCEPT !.sector = Taken(g), !.offset = 0,
                                   !.cluster_end = f.cluster_end + 1]]
      BY <1>a, <2>2, <3>1 DEF ClusterGrown
    <3>3. Taken(g) = IF free.size > 0 THEN free.start ELSE 0
      BY <3>1 DEF Taken
    <3> HIDE DEF g
    <3>4. CASE free.size = 0
      <4>1. AfterAlloc(g) = g /\ Taken(g) = 0
        BY <3>1, <3>3, <3>4 DEF AfterAlloc
      <4>2. h.file.sector = 0
        BY <2>1, <3>2, <4>1 DEF RkFiles
      <4>3. QED
        BY <1>1, <3>1, <4>2, Zenon
    <3>5. CASE free.size > 0
      <4> DEFINE k == [first |-> f.first, cluster_size |-> f.cluster_size,
                       cluster_end |-> f.cluster_end + 1, end_offset |-> f.end_offset,
                       sector |-> free.start, offset |-> 0,
                       pos |-> f.pos, size |-> f.size]
      <4>0. k = [f EXCEPT !.sector = free.start, !.offset = 0,
                          !.cluster_end = f.cluster_end + 1]
        BY f.cluster_end + 1 \in Int, FileFields DEF RkFiles
      <4>1. AfterAlloc(g) = [disk |-> disk, free |-> taken, file |-> f, outcome |-> "ok"]
        BY <2>1, <3>1, <3>5 DEF AfterAlloc
      <4>2. h = [disk |-> disk, free |-> taken, file |-> k, outcome |-> "ok"]
        BY <3>2, <3>3, <3>5, <4>0, <4>1
      <4>3. h.file.sector = free.start /\ h.file.cluster_end = f.cluster_end + 1
        BY <4>2
      <4>4. k \in RkFiles /\ k.offset = 0 /\ SizeAfter(k) = SizeAfter(f)
        BY DEF RkFiles, SizeAfter
      <4>5. free.start # 0
        OBVIOUS
      <4>6. h.file = k
        BY <4>2
      <4> HIDE DEF k, taken
      <4>7. CASE free.start # f.cluster_end + 1
        BY <1>1, <3>1, <4>3, <4>7, Zenon
      <4>8. CASE free.start = f.cluster_end + 1
        <5>1. w = Put([disk |-> disk, free |-> taken, file |-> k, outcome |-> "ok"], f.sector, b)
          BY <1>1, <2>2, <2>5, <4>2, <4>3, <4>5, <4>6, <4>8, Zenon
        <5>2. PutIn(w, disk, taken, k, f.sector, b)
          BY <4>4, <5>1, CellPut
        <5>3. WriteGrown(w, f, b)
          BY <1>4, <2>5, <3>5, <4>4, <4>8, <5>2 DEF PutIn, WriteGrown, k, taken
        <5>4. QED
          BY <5>3
      <4>9. QED
        BY <4>7, <4>8
    <3>6. QED
      BY <3>4, <3>5
  <2>6. QED
    BY <2>3, <2>4, <2>5
<1>5. QED
  BY <1>2, <1>3, <1>4

LEMMA SpaceFacts ==
    ASSUME Space
    PROVE  /\ COUNT \in Nat /\ COUNT >= 3 /\ disk \in Disks(COUNT)
           /\ free \in [start : Nat, size : Nat]
           /\ free.start \in Nat /\ free.size \in Nat
           /\ free.start >= 4 /\ free.start + free.size = COUNT + 1
BY DEF Space, SpaceOf

LEMMA FileTypes ==
    ASSUME NEW f \in RkFiles
    PROVE  /\ f.first \in Nat /\ f.cluster_size \in Nat /\ f.cluster_end \in Int
           /\ f.end_offset \in Nat /\ f.sector \in Nat /\ f.offset \in Nat
           /\ f.pos \in Nat /\ f.size \in Nat
BY DEF RkFiles

(* Whatever write does, the space is kept.                                 *)
LEMMA WriteSpace ==
    ASSUME Space, NEW f \in RkFiles, NEW b \in Nat, NEW w,
           \/ WriteFails(w, f) \/ WriteFirst(w, f, b) \/ WriteSame(w, f, b)
           \/ WriteGrown(w, f, b),
           f.sector < free.start, f.cluster_end >= f.first - 1
    PROVE  /\ SpaceOf(w.disk, w.free, COUNT)
           /\ w.file \in RkFiles /\ w.file.cluster_end >= w.file.first - 1
           /\ w.outcome \in {"ok", "error", "undefined"}
           /\ w.outcome # "ok" => WriteFails(w, f)
<1> DEFINE n == COUNT
           taken == [start |-> free.start + 1, size |-> free.size - 1]
<1>1. /\ n \in Nat /\ free \in [start : Nat, size : Nat] /\ free.start \in Nat
      /\ free.size \in Nat /\ free.start >= 4 /\ free.start + free.size = n + 1
  BY SpaceFacts
<1>2. /\ f.first \in Nat /\ f.cluster_size \in Nat /\ f.cluster_end \in Int
      /\ f.end_offset \in Nat /\ f.sector \in Nat /\ f.offset \in Nat
      /\ f.pos \in Nat /\ f.size \in Nat /\ SizeAfter(f) \in Nat
  BY FileTypes, SizeIsMax
<1>3. SECTOR \in Nat
  BY CellNumbers
<1>4. SpaceOf(disk, free, n)
  BY DEF Space
<1> HIDE DEF n
<1>10. f.sector < free.start /\ free.start >= free.start
  BY <1>1
<1>5. CASE WriteFails(w, f)
  BY <1>4, <1>5 DEF WriteFails, n
<1>6. CASE WriteFirst(w, f, b)
  <2>1. free.size > 0
    BY <1>6 DEF WriteFirst
  <2>2. taken \in [start : Nat, size : Nat] /\ taken.start = free.start + 1
        /\ taken.start + taken.size = n + 1
    BY <1>1, <2>1
  <2>3. SpaceOf([disk EXCEPT ![free.start][f.offset] = b], taken, n)
    BY <1>1, <1>4, <2>2, SpaceCell
  <2>4. w.file \in RkFiles /\ w.file.cluster_end >= w.file.first - 1
    BY <1>1, <1>2, <1>3, <1>6 DEF WriteFirst, RkFiles
  <2>5. QED
    BY <1>6, <2>3, <2>4 DEF WriteFirst, n
<1>7. CASE WriteSame(w, f, b)
  <2>1. SpaceOf([disk EXCEPT ![f.sector][f.offset] = b], free, n)
    BY <1>1, <1>2, <1>4, <1>10, SpaceCell
  <2>2. w.file \in RkFiles /\ w.file.cluster_end >= w.file.first - 1
    BY <1>1, <1>2, <1>3, <1>7 DEF WriteSame, RkFiles
  <2>3. QED
    BY <1>7, <2>1, <2>2 DEF WriteSame, n
<1>8. CASE WriteGrown(w, f, b)
  <2>1. free.size > 0 /\ free.start = f.cluster_end + 1
    BY <1>8 DEF WriteGrown
  <2>2. taken \in [start : Nat, size : Nat] /\ taken.start >= free.start
        /\ taken.start + taken.size = n + 1 /\ f.sector < taken.start
    BY <1>1, <1>2, <2>1
  <2>3. SpaceOf([disk EXCEPT ![f.sector][0] = b], taken, n)
    BY <1>2, <1>4, <2>2, SpaceCell
  <2>4. w.file \in RkFiles /\ w.file.cluster_end >= w.file.first - 1
    BY <1>1, <1>2, <1>3, <1>8, <2>1 DEF WriteGrown, RkFiles
  <2>5. QED
    BY <1>8, <2>3, <2>4 DEF WriteGrown, n
<1>9. QED
  BY <1>5, <1>6, <1>7, <1>8

(* While pack goes on, no more is to be shown.                             *)
LEMMA PackStays ==
    ASSUME mode' = "pack", phase' # "open"
    PROVE  Read' /\ Listing'
BY DEF Read, Listing

(* The bytes still to be written.                                          *)
LEMMA TailFacts ==
    ASSUME NEW s \in Seq(Nat), s # <<>>
    PROVE  /\ Head(s) \in Nat /\ Tail(s) \in Seq(Nat) /\ Len(s) \in Nat /\ Len(s) >= 1
           /\ Head(s) = s[1] /\ Len(Tail(s)) = Len(s) - 1
           /\ \A c \in 1 .. Len(s) - 1 : Tail(s)[c] = s[c + 1]
<1>1. Head(s) \in Nat /\ Tail(s) \in Seq(Nat) /\ Len(s) \in Nat /\ Len(s) >= 1
  OBVIOUS
<1>2. Head(s) = s[1] /\ Len(Tail(s)) = Len(s) - 1
  OBVIOUS
<1>3. \A c \in 1 .. Len(s) - 1 : Tail(s)[c] = s[c + 1]
  OBVIOUS
<1>4. QED
  BY <1>1, <1>2, <1>3

(* A cell of a disk, written.                                              *)
CellSet(d, s, c, b) == [d EXCEPT ![s][c] = b]

CellWritten(e, d, n, s, c, b) ==
    /\ e[s][c] = b
    /\ \A k \in 0 .. SECTOR - 1 : k # c => e[s][k] = d[s][k]
    /\ \A t \in 1 .. n : t # s => e[t] = d[t]

LEMMA CellOfDisk ==
    ASSUME NEW n \in Nat, NEW d \in Disks(n), NEW s \in 1 .. n, NEW c \in Nat, c < SECTOR,
           NEW b
    PROVE  CellWritten(CellSet(d, s, c, b), d, n, s, c, b)
<1>1. SECTOR \in Nat /\ c \in 0 .. SECTOR - 1
  BY CellNumbers
<1>2. d[s] \in [0 .. SECTOR - 1 -> Nat] /\ DOMAIN d = 1 .. n
  BY DEF Disks
<1>3. CellSet(d, s, c, b) = [d EXCEPT ![s] = [d[s] EXCEPT ![c] = b]]
  BY DEF CellSet
<1> DEFINE line == [d[s] EXCEPT ![c] = b]
<1>4. line[c] = b /\ \A e \in 0 .. SECTOR - 1 : e # c => line[e] = d[s][e]
  BY <1>1, <1>2
<1> HIDE DEF line
<1>5. /\ [d EXCEPT ![s] = line][s] = line
      /\ \A t \in 1 .. n : t # s => [d EXCEPT ![s] = line][t] = d[t]
  BY <1>2
<1>6. QED
  BY <1>3, <1>4, <1>5 DEF line, CellWritten

LEMMA DiskCell ==
    ASSUME NEW n \in Nat, NEW d \in Disks(n), NEW s \in 1 .. n, NEW c \in Nat, c < SECTOR
    PROVE  d[s][c] \in Nat
BY CellNumbers DEF Disks

LEMMA EntryGrows ==
    ASSUME NEW n \in Nat, NEW d \in Disks(n), NEW s \in 1 .. n, NEW t \in Seq(Nat), t # <<>>,
           Len(t) <= ENTRY, NEW e, NEW first, EntrySoFar(d, first, t, e),
           Len(t) = ENTRY \/ first = s
    PROVE  EntrySoFar(CellSet(d, s, ENTRY - Len(t), Head(t)), s, Tail(t), e)
<1> DEFINE k == ENTRY - Len(t)
           h == Head(t)
           new == CellSet(d, s, k, h)
           rest == Tail(t)
<1>1. Len(t) \in Nat /\ Len(t) >= 1 /\ Head(t) = t[1] /\ Len(rest) = Len(t) - 1
      /\ \A c \in 1 .. Len(t) - 1 : rest[c] = t[c + 1]
  BY TailFacts
<1>2. ENTRY \in Nat /\ ENTRY < SECTOR /\ SECTOR \in Nat
  BY CellNumbers
<1>11. Len(t) \in Nat /\ Len(t) >= 1 /\ Len(rest) = Len(t) - 1
  BY <1>1
<1> HIDE DEF rest
<1>3. k \in Nat /\ k < SECTOR /\ ENTRY - Len(rest) = k + 1
  BY <1>2, <1>11
<1>4. /\ \A c \in 1 .. k : d[first][c - 1] = e[c]
      /\ \A c \in 1 .. Len(t) : t[c] = e[k + c]
  BY DEF EntrySoFar
<1>6. k = 0 \/ first = s
  BY <1>2, <1>11
<1>12. h = t[1]
  BY <1>1
<1> HIDE DEF k, h
<1>13. CellWritten(new, d, n, s, k, h)
  BY <1>3, CellOfDisk
<1> HIDE DEF new
<1>5. new[s][k] = h /\ \A c \in 0 .. SECTOR - 1 : c # k => new[s][c] = d[s][c]
  BY <1>13 DEF CellWritten
<1>7. ASSUME NEW c \in 1 .. k + 1 PROVE new[s][c - 1] = e[c]
  <2>1. CASE c = k + 1
    <3>1. new[s][c - 1] = t[1]
      BY <1>3, <1>5, <1>12, <2>1
    <3>2. t[1] = e[k + 1]
      BY <1>1, <1>4
    <3>3. QED
      BY <2>1, <3>1, <3>2
  <2>2. CASE c # k + 1
    <3>1. c \in 1 .. k /\ c - 1 \in 0 .. SECTOR - 1 /\ c - 1 # k /\ k # 0
      BY <1>2, <1>3, <2>2
    <3>2. new[s][c - 1] = d[s][c - 1]
      BY <1>5, <3>1
    <3>3. QED
      BY <1>4, <1>6, <3>1, <3>2
  <2>3. QED
    BY <2>1, <2>2
<1>8. ASSUME NEW c \in 1 .. Len(rest) PROVE rest[c] = e[k + 1 + c]
  <2>1. c \in 1 .. Len(t) - 1 /\ c + 1 \in 1 .. Len(t) /\ k + (c + 1) = k + 1 + c
    BY <1>1, <1>3
  <2>2. rest[c] = t[c + 1] /\ t[c + 1] = e[k + (c + 1)]
    BY <1>1, <1>4, <2>1
  <2>3. QED
    BY <2>1, <2>2
<1>9. EntrySoFar(new, s, rest, e)
  BY <1>3, <1>7, <1>8 DEF EntrySoFar
<1>10. QED
  BY <1>9 DEF new, rest, k, h

LEMMA WriteEntry ==
    ASSUME RkIInv, WriteByte, phase = "entry"
    PROVE  RkIInv'
<1> DEFINE b == Head(todo)
           w == Written(Work(disk, dirfile), b)
<1>1. /\ todo # <<>> /\ disk' = w.disk /\ free' = w.free /\ dirfile' = w.file
      /\ phase' = PhaseAfter(w, "entry") /\ todo' = Tail(todo)
      /\ UNCHANGED <<file, buf, packed, files, host, listed, mode>>
  BY DEF WriteByte
<1>2. /\ Space /\ Types /\ mode = "pack" /\ packed = TRUE
      /\ dirfile \in RkFiles /\ dirfile.cluster_end >= dirfile.first - 1
      /\ todo \in Seq(Nat) /\ files \in Seq(Files)
  BY DEF RkIInv, Types, Packing
<1>3. /\ dirfile.cluster_size = 0 /\ file.cluster_size = 0
      /\ file.pos <= file.size /\ file.offset <= SECTOR
      /\ dirfile.pos = ENTRY * Entries - Len(todo) /\ dirfile.size = dirfile.pos
      /\ file = NoFile
      /\ Entries >= 1 /\ (EntryToBegin \/ EntryBegun)
      /\ Entries = 1 => EntrySoFar(disk, dirfile.first, todo, NewEntry(files[1].name))
  BY <1>2 DEF RkIInv, Pack, Packing, PackEntry, OnlyEntry
<1>4. /\ b \in Nat /\ Len(todo) \in Nat /\ Len(todo) >= 1 /\ Len(todo') = Len(todo) - 1
      /\ todo' \in Seq(Nat) /\ Entries \in Nat
  BY <1>1, <1>2, TailFacts DEF Entries
<1>5. /\ ENTRY = 7 /\ SECTOR \in Nat /\ SECTOR >= 8
      /\ COUNT \in Nat /\ disk \in Disks(COUNT)
      /\ free \in [start : Nat, size : Nat]
      /\ free.start \in Nat /\ free.size \in Nat
      /\ free.start >= 4 /\ free.start + free.size = COUNT + 1
  BY <1>2, CellNumbers, SpaceFacts
<1>6. /\ dirfile.first \in Nat /\ dirfile.cluster_size \in Nat /\ dirfile.cluster_end \in Int
      /\ dirfile.end_offset \in Nat /\ dirfile.sector \in Nat /\ dirfile.offset \in Nat
      /\ dirfile.pos \in Nat /\ dirfile.size \in Nat
  BY <1>2, FileTypes
<1>7. dirfile.sector < free.start /\ (dirfile.first = 0 => dirfile.offset < SECTOR)
  <2>1. CASE EntryToBegin
    <3>1. /\ dirfile.offset = 0 /\ dirfile.sector = dirfile.first
          /\ \/ dirfile.first = 0
             \/ Entries >= 2 /\ dirfile.first + Entries - 1 <= free.start
      BY <2>1 DEF EntryToBegin
    <3>2. QED
      BY <1>4, <1>5, <1>6, <3>1
  <2>2. CASE EntryBegun
    <3>1. dirfile.first >= 4 /\ dirfile.sector < free.start
      BY <2>2 DEF EntryBegun
    <3>2. QED
      BY <3>1
  <2>3. QED
    BY <1>3, <2>1, <2>2
<1> HIDE DEF w, b
<1>8. \/ WriteFails(w, dirfile) \/ WriteFirst(w, dirfile, b)
      \/ WriteSame(w, dirfile, b) \/ WriteGrown(w, dirfile, b)
  BY <1>2, <1>5, <1>7, WrittenCases DEF w
<1>9. /\ SpaceOf(w.disk, w.free, COUNT)
      /\ w.file \in RkFiles /\ w.file.cluster_end >= w.file.first - 1
      /\ w.outcome \in {"ok", "error", "undefined"}
      /\ w.outcome # "ok" => WriteFails(w, dirfile)
  BY <1>2, <1>4, <1>7, <1>8, WriteSpace
<1>10. COUNT' = COUNT /\ Space'
  BY <1>1, <1>2, <1>9, SpaceNext
<1>11. phase' \in {"entry", "error", "undefined"} /\ (w.outcome = "ok" <=> phase' = "entry")
  BY <1>1, <1>9 DEF PhaseAfter
<1>12. Types'
  <2>1. dirfile'.cluster_size = 0 /\ file'.cluster_size = 0
    BY <1>1, <1>3, <1>8 DEF WriteFails, WriteFirst, WriteSame, WriteGrown
  <2>2. QED
    BY <1>1, <1>2, <1>4, <1>9, <1>11, <2>1 DEF Types, Packing, Ended
<1>13. Pack'
  <2>1. CASE phase' # "entry"
    BY <1>11, <2>1 DEF Pack, Packing
  <2>2. CASE phase' = "entry"
    <3>1. w.outcome = "ok"
      BY <1>11, <2>2
    <3>2. ~WriteFails(w, dirfile)
      BY <3>1 DEF WriteFails
    <3>3. /\ dirfile'.pos = dirfile.pos + 1 /\ dirfile'.size = SizeAfter(dirfile)
          /\ dirfile'.cluster_size = dirfile.cluster_size
      BY <1>1, <1>8, <3>2 DEF WriteFirst, WriteSame, WriteGrown
    <3>4. dirfile'.size = dirfile'.pos
      BY <1>3, <1>6, <3>3 DEF SizeAfter
    <3>5. Entries' = Entries /\ dirfile'.pos = ENTRY * Entries' - Len(todo')
      BY <1>1, <1>3, <1>4, <1>5, <1>6, <3>3 DEF Entries
    <3>6. EntryBegun' /\ (Entries = 1 =>
                    EntrySoFar(disk', dirfile'.first, todo', NewEntry(files[1].name)))
      <4>1. CASE EntryToBegin /\ Entries = 1 /\ dirfile.first = 0
        <5>1. WriteFirst(w, dirfile, b)
          BY <1>8, <3>2, <4>1 DEF WriteSame, WriteGrown
        <5>2. Len(todo) = ENTRY /\ dirfile.offset = 0 /\ Len(todo') = ENTRY - 1
          BY <1>4, <4>1 DEF EntryToBegin
        <5>3. /\ free.size > 0 /\ disk' = [disk EXCEPT ![free.start][dirfile.offset] = b]
              /\ free'.start = free.start + 1
              /\ dirfile'.first = free.start /\ dirfile'.sector = free.start
              /\ dirfile'.cluster_end = free.start /\ dirfile'.end_offset = SECTOR
              /\ dirfile'.offset = dirfile.offset + 1
          BY <1>1, <5>1 DEF WriteFirst
        <5>4. EntryBegun'
          BY <1>4, <1>5, <3>5, <4>1, <5>2, <5>3 DEF EntryBegun
        <5>5. free.start \in 1 .. COUNT /\ dirfile.offset = ENTRY - Len(todo)
          BY <1>5, <5>2, <5>3
        <5>6. EntrySoFar(disk', free.start, todo', NewEntry(files[1].name))
          <6>1. EntrySoFar(CellSet(disk, free.start, ENTRY - Len(todo), Head(todo)),
                           free.start, Tail(todo), NewEntry(files[1].name))
            <7>1. Len(todo) <= ENTRY
              BY <1>5, <5>2
            <7>2. QED
              BY <1>1, <1>2, <1>3, <1>5, <4>1, <5>2, <5>5, <7>1, EntryGrows
          <6>2. QED
            BY <1>1, <5>3, <5>5, <6>1 DEF b, CellSet
        <5>7. QED
          BY <5>3, <5>4, <5>6
      <4>2. CASE EntryToBegin /\ ~(Entries = 1 /\ dirfile.first = 0)
        <5>1. /\ Len(todo) = ENTRY /\ dirfile.offset = 0 /\ dirfile.sector = dirfile.first
              /\ Entries >= 2 /\ Entries <= 3 /\ dirfile.first >= 4
              /\ dirfile.cluster_end = dirfile.first /\ dirfile.end_offset = 0
              /\ dirfile.first + Entries - 1 <= free.start
          BY <4>2 DEF EntryToBegin
        <5>2. AtClusterEnd(dirfile) /\ dirfile.first # 0
          BY <5>1 DEF AtClusterEnd
        <5>3. WriteGrown(w, dirfile, b)
          BY <1>8, <3>2, <5>2 DEF WriteFirst, WriteSame
        <5>4. /\ free.start = dirfile.cluster_end + 1 /\ free'.start = free.start + 1
              /\ dirfile'.first = dirfile.first /\ dirfile'.sector = free.start
              /\ dirfile'.cluster_end = free.start
              /\ dirfile'.end_offset = dirfile.end_offset /\ dirfile'.offset = 1
          BY <1>1, <5>3 DEF WriteGrown
        <5>5. Entries = 2
          BY <1>4, <1>5, <1>6, <5>1, <5>4
        <5>6. EntryBegun'
          BY <1>4, <1>5, <1>6, <3>5, <5>1, <5>4, <5>5 DEF EntryBegun
        <5>7. QED
          BY <5>5, <5>6
      <4>3. CASE EntryBegun
        <5>1. /\ Len(todo) < ENTRY /\ dirfile.offset = ENTRY - Len(todo)
              /\ dirfile.first >= 4 /\ dirfile.sector = dirfile.cluster_end
              /\ dirfile.sector < free.start
              /\ \/ Entries = 1 /\ dirfile.end_offset = SECTOR /\ dirfile.sector = dirfile.first
                 \/ Entries = 2 /\ dirfile.end_offset = 0 /\ dirfile.sector = dirfile.first + 1
          BY <4>3 DEF EntryBegun
        <5>2. dirfile.offset # dirfile.end_offset /\ dirfile.first # 0
          BY <1>4, <1>5, <1>6, <5>1, SMTT(30)
        <5>3. WriteSame(w, dirfile, b)
          BY <1>8, <3>2, <5>2 DEF WriteFirst, WriteGrown, AtClusterEnd
        <5>4. /\ disk' = [disk EXCEPT ![dirfile.sector][dirfile.offset] = b]
              /\ free' = free
              /\ dirfile'.first = dirfile.first /\ dirfile'.sector = dirfile.sector
              /\ dirfile'.cluster_end = dirfile.cluster_end
              /\ dirfile'.end_offset = dirfile.end_offset
              /\ dirfile'.offset = dirfile.offset + 1
          BY <1>1, <5>3 DEF WriteSame
        <5>5. EntryBegun'
          BY <1>4, <1>5, <1>6, <3>5, <5>1, <5>4 DEF EntryBegun
        <5>6. CASE Entries = 1
          <6>1. dirfile.sector = dirfile.first /\ dirfile.first \in 1 .. COUNT
                /\ Len(todo) <= ENTRY
            BY <1>4, <1>5, <1>6, <5>1, <5>6, SMTT(30)
          <6>2. EntrySoFar(disk', dirfile.first, todo', NewEntry(files[1].name))
            <7>1. EntrySoFar(CellSet(disk, dirfile.first, ENTRY - Len(todo), Head(todo)),
                             dirfile.first, Tail(todo), NewEntry(files[1].name))
              BY <1>1, <1>2, <1>3, <1>5, <5>6, <6>1, EntryGrows
            <7>2. QED
              BY <1>1, <5>1, <5>4, <6>1, <7>1 DEF b, CellSet
          <6>3. QED
            BY <5>4, <5>5, <6>2
        <5>7. QED
          BY <5>5, <5>6
      <4>4. QED
        BY <1>3, <4>1, <4>2, <4>3
    <3>7. /\ file' = file /\ files' = files
      BY <1>1
    <3>8. PackEntry' /\ PackImport'
      BY <1>3, <1>4, <2>2, <3>4, <3>5, <3>6, <3>7 DEF PackEntry, PackImport, NoFile
    <3>9. OnlyEntry'
      BY <2>2, <3>5, <3>6, <3>7 DEF OnlyEntry
    <3>10. QED
      BY <1>3, <2>2, <3>3, <3>7, <3>8, <3>9 DEF Pack
  <2>3. QED
    BY <2>1, <2>2
<1>14. Read' /\ Listing'
  BY <1>1, <1>2, <1>11, PackStays
<1>15. QED
  BY <1>10, <1>12, <1>13, <1>14 DEF RkIInv

LEMMA NewEntrySeq ==
    ASSUME NEW name \in Nat
    PROVE  NewEntry(name) \in Seq(Nat) /\ Len(NewEntry(name)) = ENTRY
<1> DEFINE n == dir_name + 1
<1>1. n \in Nat /\ dir_name \in Nat /\ n = ENTRY
  BY CellNumbers
<1>2. NewEntry(name) = [c \in 1 .. n |->
          IF c = dir_entry_size + 1 THEN dir_name ELSE IF c = dir_name + 1 THEN name ELSE 0]
  BY DEF NewEntry
<1> HIDE DEF n
<1>3. QED
  BY <1>1, <1>2

LEMMA NewEntryCells ==
    ASSUME NEW name \in Nat
    PROVE  /\ NewEntry(name)[dir_entry_size + 1] = dir_name
           /\ NewEntry(name)[dir_name + 1] = name
<1> DEFINE n == dir_name + 1
           first == dir_entry_size + 1
<1>1. n \in Nat /\ first \in 1 .. n /\ n \in 1 .. n /\ first # n
  BY CellNumbers
<1>2. NewEntry(name) = [c \in 1 .. n |->
          IF c = first THEN dir_name ELSE IF c = n THEN name ELSE 0]
  BY DEF NewEntry
<1> HIDE DEF n, first
<1>3. NewEntry(name)[first] = dir_name /\ NewEntry(name)[n] = name
  BY <1>1, <1>2
<1>4. QED
  BY <1>3 DEF n, first

LEMMA BytesSeq ==
    ASSUME NEW n \in Nat, NEW size \in Nat
    PROVE  Bytes(n, size) \in Seq(Nat) /\ Len(Bytes(n, size)) = size
<1>1. \A k \in 1 .. size : 1000 * n + k \in Nat
  OBVIOUS
<1>2. QED
  BY <1>1 DEF Bytes

WithEnd(f, s, o) == [f EXCEPT !.cluster_end = s, !.end_offset = o]
WithPos(f, p, o) == [f EXCEPT !.pos = p, !.offset = o]

LEMMA EndType ==
    ASSUME NEW f \in RkFiles, NEW s \in Int, NEW o \in Nat
    PROVE  WithEnd(f, s, o) \in RkFiles
BY DEF RkFiles, WithEnd

LEMMA PosType ==
    ASSUME NEW f \in RkFiles, NEW p \in Nat, NEW o \in Nat
    PROVE  WithPos(f, p, o) \in RkFiles
BY DEF RkFiles, WithPos

LEMMA SeekEndType ==
    ASSUME NEW f \in RkFiles
    PROVE  SeekEnd(f) \in RkFiles
<1> DEFINE s == f.first + f.cluster_size
<1>1. s \in Nat /\ s \in Int /\ f.size \in Nat
  BY FileTypes
<1> DEFINE g == [f EXCEPT !.sector = s, !.offset = 0, !.pos = f.size]
<1>2. SeekEnd(f) = WithEnd(g, s, 0)
  BY DEF SeekEnd, WithEnd
<1> HIDE DEF s
<1>3. g \in RkFiles
  BY <1>1 DEF RkFiles
<1> HIDE DEF g
<1>4. QED
  BY <1>1, <1>2, <1>3, EndType

LEMMA CreateFileStep ==
    ASSUME RkIInv, NEW name \in Nat, NEW bytes \in Seq(Nat), CreateFile(name, bytes)
    PROVE  RkIInv'
<1> DEFINE item == [name |-> name, flags |-> 0, bytes |-> bytes]
<1>1. /\ phase = "pack" /\ phase' = "entry"
      /\ dirfile' = SeekEnd(dirfile) /\ file' = NoFile /\ todo' = NewEntry(name)
      /\ files' = Append(files, item)
      /\ UNCHANGED <<disk, free, buf, packed, host, listed, mode>>
  BY DEF CreateFile
<1>2. /\ Space /\ Types /\ mode = "pack" /\ packed = TRUE
      /\ dirfile \in RkFiles /\ dirfile.cluster_end >= dirfile.first - 1
      /\ files \in Seq(Files)
  BY <1>1 DEF RkIInv, Types, Packing
<1>3. /\ dirfile.cluster_size = 0
      /\ (Entries = 0 /\ NoDir) \/ (DirKept /\ dirfile.cluster_end = dirfile.first)
  BY <1>1 DEF RkIInv, Pack, Packing
<1>4. /\ dirfile.first \in Nat /\ dirfile.cluster_size \in Nat /\ dirfile.cluster_end \in Int
      /\ dirfile.end_offset \in Nat /\ dirfile.sector \in Nat /\ dirfile.offset \in Nat
      /\ dirfile.pos \in Nat /\ dirfile.size \in Nat
  BY <1>2, FileTypes
<1>5. ENTRY = 7 /\ SECTOR \in Nat /\ free.start \in Nat
  BY <1>2, CellNumbers, SpaceFacts
<1>6. todo' \in Seq(Nat) /\ Len(todo') = ENTRY
  BY <1>1, NewEntrySeq
<1>7. item \in Files /\ item.name = name
  BY DEF Files
<1>8. files' \in Seq(Files) /\ Len(files') = Len(files) + 1 /\ Len(files) \in Nat
      /\ files'[Len(files) + 1] = item
  BY <1>1, <1>2, <1>7
<1>9. Entries' = Entries + 1 /\ Entries \in Nat
  BY <1>8 DEF Entries
<1>10. /\ dirfile'.first = dirfile.first /\ dirfile'.cluster_size = dirfile.cluster_size
       /\ dirfile'.sector = dirfile.first /\ dirfile'.offset = 0
       /\ dirfile'.cluster_end = dirfile.first /\ dirfile'.end_offset = 0
       /\ dirfile'.pos = dirfile.size /\ dirfile'.size = dirfile.size
  BY <1>1, <1>2, <1>3, <1>4 DEF SeekEnd, RkFiles
<1>11. dirfile' \in RkFiles /\ dirfile'.cluster_end >= dirfile'.first - 1
  BY <1>1, <1>2, <1>4, <1>10, SeekEndType
<1>12. file' \in RkFiles /\ file'.cluster_end >= file'.first - 1
       /\ file'.cluster_size = 0 /\ file'.pos = 0 /\ file'.size = 0 /\ file'.offset = 0
  BY <1>1 DEF NoFile, NewFile, RkFiles
<1>13. Space'
  BY <1>1, <1>2, SpaceSame
<1>14. Types'
  BY <1>1, <1>2, <1>3, <1>6, <1>8, <1>10, <1>11, <1>12 DEF Types, Packing, Ended
<1>15. dirfile'.pos = ENTRY * Entries' - Len(todo') /\ Entries' >= 1
  BY <1>3, <1>4, <1>5, <1>6, <1>9, <1>10 DEF NoDir, DirKept
<1>16. EntryToBegin'
  <2>1. CASE Entries = 0 /\ NoDir
    BY <1>5, <1>6, <1>9, <1>10, <2>1 DEF NoDir, EntryToBegin
  <2>2. CASE DirKept /\ dirfile.cluster_end = dirfile.first
    <3>1. /\ dirfile.first >= 4 /\ Entries >= 1 /\ Entries <= 2
          /\ dirfile.first + Entries <= free.start
      BY <2>2 DEF DirKept
    <3>2. /\ Entries' >= 2 /\ Entries' <= 3 /\ dirfile'.first >= 4
          /\ dirfile'.cluster_end = dirfile'.first /\ dirfile'.end_offset = 0
          /\ dirfile'.first + Entries' - 1 <= free'.start
      BY <1>1, <1>4, <1>5, <1>9, <1>10, <3>1
    <3>3. QED
      BY <1>6, <1>10, <3>2 DEF EntryToBegin
  <2>3. QED
    BY <1>3, <2>1, <2>2
<1>17. PackEntry' /\ PackImport'
  BY <1>1, <1>10, <1>15, <1>16 DEF PackEntry, PackImport, NoFile
<1>18. OnlyEntry'
  <2>1. CASE Entries' # 1
    BY <2>1 DEF OnlyEntry
  <2>2. CASE Entries' = 1
    <3>1. files'[1].name = name
      BY <1>7, <1>8, <1>9, <2>2 DEF Entries
    <3>2. EntrySoFar(disk', dirfile'.first, todo', NewEntry(name))
      <4>1. ENTRY - Len(todo') = 0 /\ Len(todo') \in Nat
        BY <1>5, <1>6
      <4>2. \A c \in 1 .. Len(todo') : 0 + c = c
        OBVIOUS
      <4>3. QED
        BY <1>1, <4>1, <4>2 DEF EntrySoFar
    <3>3. QED
      BY <1>1, <3>1, <3>2 DEF OnlyEntry
  <2>3. QED
    BY <2>1, <2>2
<1>19. Pack'
  BY <1>1, <1>3, <1>5, <1>10, <1>12, <1>17, <1>18 DEF Pack
<1>20. Read' /\ Listing'
  BY <1>1, <1>2, PackStays
<1>21. QED
  BY <1>13, <1>14, <1>19, <1>20 DEF RkIInv

LEMMA StartImportStep ==
    ASSUME RkIInv, StartImport
    PROVE  RkIInv'
<1>1. /\ phase = "entry" /\ todo = <<>> /\ phase' = "import" /\ todo' = Last(files).bytes
      /\ UNCHANGED <<disk, free, dirfile, file, buf, packed, files, host, listed, mode>>
  BY DEF StartImport
<1>2. /\ Space /\ Types /\ mode = "pack" /\ packed = TRUE
      /\ dirfile \in RkFiles /\ dirfile.cluster_end >= dirfile.first - 1
      /\ files \in Seq(Files)
  BY <1>1 DEF RkIInv, Types, Packing
<1>3. /\ dirfile.cluster_size = 0 /\ file.cluster_size = 0
      /\ file.pos <= file.size /\ file.offset <= SECTOR
      /\ dirfile.pos = ENTRY * Entries - Len(todo) /\ dirfile.size = dirfile.pos
      /\ file = NoFile
      /\ Entries >= 1 /\ (EntryToBegin \/ EntryBegun)
      /\ Entries = 1 => EntrySoFar(disk, dirfile.first, todo, NewEntry(files[1].name))
  BY <1>1, <1>2 DEF RkIInv, Pack, Packing, PackEntry, OnlyEntry
<1>4. /\ dirfile.first \in Nat /\ dirfile.cluster_end \in Int
      /\ dirfile.sector \in Nat /\ dirfile.offset \in Nat
      /\ dirfile.pos \in Nat /\ dirfile.size \in Nat
  BY <1>2, FileTypes
<1>5. ENTRY = 7 /\ SECTOR \in Nat /\ SECTOR >= 8 /\ free.start \in Nat /\ Len(todo) = 0
  BY <1>1, <1>2, CellNumbers, SpaceFacts
<1>6. Entries \in Nat /\ Entries \in 1 .. Len(files) /\ Last(files) = files[Entries]
  BY <1>2, <1>3 DEF Entries, Last
<1>7. files[Entries] \in Files
  BY <1>2, <1>6
<1>8. todo' \in Seq(Nat) /\ Len(todo') = Len(files'[Entries'].bytes)
  BY <1>1, <1>6, <1>7 DEF Files, Entries
<1>9. DirKept
  <2>1. ~EntryToBegin
    BY <1>5 DEF EntryToBegin
  <2>2. /\ dirfile.offset = ENTRY - Len(todo)
        /\ dirfile.first >= 4 /\ dirfile.sector = dirfile.cluster_end
        /\ dirfile.sector < free.start
        /\ \/ Entries = 1 /\ dirfile.sector = dirfile.first
           \/ Entries = 2 /\ dirfile.sector = dirfile.first + 1
    BY <1>3, <2>1 DEF EntryBegun
  <2>3. QED
    BY <1>3, <1>4, <1>5, <1>6, <2>2 DEF DirKept
<1>10. file.pos = 0 /\ file.size = 0
  BY <1>3 DEF NoFile, NewFile
<1>11. Space' /\ Types'
  BY <1>1, <1>2, <1>8, SpaceSame DEF Types, Packing, Ended
<1>12. PackImport' /\ PackEntry'
  <2>1. DirKept' /\ file' = NoFile
    BY <1>1, <1>3, <1>9 DEF DirKept, Entries
  <2>2. file'.pos = file'.size /\ file'.size + Len(todo') = Len(files'[Entries'].bytes)
    BY <1>1, <1>8, <1>10
  <2>3. QED
    BY <1>1, <2>1, <2>2 DEF PackImport, PackEntry, NoFile
<1>13. OnlyEntry'
  <2>1. CASE Entries # 1
    BY <1>1, <2>1 DEF OnlyEntry, Entries
  <2>2. CASE Entries = 1
    <3> DEFINE e == NewEntry(files[1].name)
    <3>1. files[1].name \in Nat
      BY <1>6, <1>7, <2>2 DEF Files
    <3>2. e[dir_entry_size + 1] = dir_name /\ e[dir_name + 1] = files[1].name
      BY <3>1, NewEntryCells
    <3> HIDE DEF e
    <3>3. \A c \in 1 .. ENTRY : disk[dirfile.first][c - 1] = e[c]
      BY <1>3, <1>5, <2>2 DEF EntrySoFar, e
    <3>4. /\ dir_entry_size + 1 \in 1 .. ENTRY /\ (dir_entry_size + 1) - 1 = dir_entry_size
          /\ dir_name + 1 \in 1 .. ENTRY /\ (dir_name + 1) - 1 = dir_name
      BY CellNumbers
    <3>5. /\ disk[dirfile.first][dir_entry_size] = dir_name
          /\ disk[dirfile.first][dir_name] = files[1].name
      BY <3>2, <3>3, <3>4
    <3>6. QED
      BY <1>1, <3>5 DEF OnlyEntry
  <2>3. QED
    BY <2>1, <2>2
<1>14. Pack'
  BY <1>1, <1>3, <1>12, <1>13 DEF Pack
<1>15. Read' /\ Listing'
  BY <1>1, <1>2, PackStays
<1>16. QED
  BY <1>11, <1>14, <1>15 DEF RkIInv

LEMMA WriteImport ==
    ASSUME RkIInv, WriteByte, phase = "import"
    PROVE  RkIInv'
<1> DEFINE b == Head(todo)
           w == Written(Work(disk, file), b)
<1>1. /\ todo # <<>> /\ disk' = w.disk /\ free' = w.free /\ file' = w.file
      /\ phase' = PhaseAfter(w, "import") /\ todo' = Tail(todo)
      /\ UNCHANGED <<dirfile, buf, packed, files, host, listed, mode>>
  BY DEF WriteByte
<1>2. /\ Space /\ Types /\ mode = "pack" /\ packed = TRUE
      /\ file \in RkFiles /\ file.cluster_end >= file.first - 1 /\ dirfile \in RkFiles
      /\ todo \in Seq(Nat) /\ files \in Seq(Files)
  BY DEF RkIInv, Types, Packing
<1>3. /\ dirfile.cluster_size = 0 /\ file.cluster_size = 0
      /\ file.pos <= file.size /\ file.offset <= SECTOR
      /\ DirKept /\ file.pos = file.size
      /\ file.size + Len(todo) = Len(files[Entries].bytes)
      /\ file = NoFile \/ FileBegun
      /\ Entries = 1 =>
          /\ disk[dirfile.first][dir_entry_size] = dir_name
          /\ disk[dirfile.first][dir_name] = files[1].name
  BY <1>2 DEF RkIInv, Pack, Packing, PackImport, OnlyEntry
<1>4. /\ b \in Nat /\ Len(todo) \in Nat /\ Len(todo) >= 1 /\ Len(todo') = Len(todo) - 1
      /\ todo' \in Seq(Nat)
  BY <1>1, <1>2, TailFacts
<1>5. /\ SECTOR \in Nat /\ SECTOR >= 8
      /\ COUNT \in Nat /\ disk \in Disks(COUNT)
      /\ free \in [start : Nat, size : Nat]
      /\ free.start \in Nat /\ free.size \in Nat
      /\ free.start >= 4 /\ free.start + free.size = COUNT + 1
  BY <1>2, CellNumbers, SpaceFacts
<1>6. /\ file.first \in Nat /\ file.cluster_size \in Nat /\ file.cluster_end \in Int
      /\ file.end_offset \in Nat /\ file.sector \in Nat /\ file.offset \in Nat
      /\ file.pos \in Nat /\ file.size \in Nat /\ dirfile.first \in Nat
  BY <1>2, FileTypes
<1>7. /\ dirfile.first >= 4 /\ dirfile.first < free.start
  BY <1>3, <1>5, <1>6 DEF DirKept, Entries
<1>8. file = NoFile => file.first = 0 /\ file.offset = 0 /\ file.sector = 0
  BY DEF NoFile, NewFile
<1>9. file.sector < free.start /\ (file.first = 0 => file.offset < SECTOR)
  BY <1>3, <1>5, <1>6, <1>7, <1>8 DEF FileBegun
<1>18. dirfile' = dirfile /\ Entries' = Entries /\ files' = files
  BY <1>1 DEF Entries
<1>19. file.first = 0 \/ (file.first > dirfile.first /\ file.first <= file.sector)
  BY <1>3, <1>8 DEF FileBegun
<1> HIDE DEF w, b
<1>10. \/ WriteFails(w, file) \/ WriteFirst(w, file, b)
       \/ WriteSame(w, file, b) \/ WriteGrown(w, file, b)
  BY <1>2, <1>5, <1>9, WrittenCases DEF w
<1>11. /\ SpaceOf(w.disk, w.free, COUNT)
       /\ w.file \in RkFiles /\ w.file.cluster_end >= w.file.first - 1
       /\ w.outcome \in {"ok", "error", "undefined"}
       /\ w.outcome # "ok" => WriteFails(w, file)
  BY <1>2, <1>4, <1>9, <1>10, WriteSpace
<1>12. COUNT' = COUNT /\ Space'
  BY <1>1, <1>2, <1>11, SpaceNext
<1>13. phase' \in {"import", "error", "undefined"} /\ (w.outcome = "ok" <=> phase' = "import")
  BY <1>1, <1>11 DEF PhaseAfter
<1>14. Types'
  <2>1. dirfile'.cluster_size = 0 /\ file'.cluster_size = 0
    BY <1>1, <1>3, <1>10 DEF WriteFails, WriteFirst, WriteSame, WriteGrown
  <2>2. QED
    BY <1>1, <1>2, <1>4, <1>11, <1>13, <2>1 DEF Types, Packing, Ended
<1>15. Pack'
  <2>1. CASE phase' # "import"
    BY <1>13, <2>1 DEF Pack, Packing
  <2>2. CASE phase' = "import"
    <3>1. w.outcome = "ok"
      BY <1>13, <2>2
    <3>2. ~WriteFails(w, file)
      BY <3>1 DEF WriteFails
    <3>3. /\ file'.pos = file.pos + 1 /\ file'.size = SizeAfter(file)
          /\ file'.cluster_size = file.cluster_size
      BY <1>1, <1>10, <3>2 DEF WriteFirst, WriteSame, WriteGrown
    <3>4. file'.pos = file.pos + 1 /\ file'.size = file.size + 1
      BY <1>3, <1>6, <3>3 DEF SizeAfter
    <3>5. file'.pos = file'.size /\ file'.size + Len(todo') = Len(files[Entries].bytes)
      BY <1>3, <1>4, <1>6, <3>4
    <3>6. /\ FileBegun' /\ free'.start >= free.start
          /\ \A s \in 1 .. COUNT : s < free.start /\ s # file.sector => disk'[s] = disk[s]
      <4>1. CASE file.first = 0
        <5>1. WriteFirst(w, file, b)
          BY <1>10, <3>2, <4>1 DEF WriteSame, WriteGrown
        <5>2. /\ disk' = [disk EXCEPT ![free.start][file.offset] = b]
              /\ free'.start = free.start + 1
              /\ file'.first = free.start /\ file'.sector = free.start
              /\ file'.cluster_end = free.start /\ file'.end_offset = SECTOR
              /\ file'.offset = file.offset + 1
          BY <1>1, <5>1 DEF WriteFirst
        <5>3. FileBegun'
          BY <1>5, <1>6, <1>7, <1>9, <1>18, <4>1, <5>2 DEF FileBegun
        <5>4. \A s \in 1 .. COUNT : s < free.start => disk'[s] = disk[s]
          BY <1>5, <5>2 DEF Disks
        <5>5. QED
          BY <1>5, <5>2, <5>3, <5>4
      <4>2. CASE file.first # 0
        <5>1. FileBegun
          BY <1>3, <1>8, <4>2
        <5>2. /\ file.first > dirfile.first /\ file.first <= file.sector
              /\ file.sector = file.cluster_end /\ file.sector < free.start
              /\ file.end_offset = SECTOR /\ file.offset <= SECTOR
          BY <5>1 DEF FileBegun
        <5>3. CASE WriteSame(w, file, b)
          <6>1. /\ disk' = [disk EXCEPT ![file.sector][file.offset] = b]
                /\ free' = free
                /\ file'.first = file.first /\ file'.sector = file.sector
                /\ file'.cluster_end = file.cluster_end
                /\ file'.end_offset = file.end_offset
                /\ file'.offset = file.offset + 1
            BY <1>1, <5>3 DEF WriteSame
          <6>2. file.offset # SECTOR
            BY <5>2, <5>3 DEF WriteSame, AtClusterEnd
          <6>3. FileBegun'
            BY <1>5, <1>6, <1>18, <5>2, <6>1, <6>2 DEF FileBegun
          <6>4. \A s \in 1 .. COUNT : s # file.sector => disk'[s] = disk[s]
            BY <1>5, <6>1 DEF Disks
          <6>5. QED
            BY <1>5, <6>1, <6>3, <6>4
        <5>4. CASE WriteGrown(w, file, b)
          <6>1. /\ disk' = [disk EXCEPT ![file.sector][0] = b]
                /\ free'.start = free.start + 1 /\ free.start = file.cluster_end + 1
                /\ file'.first = file.first /\ file'.sector = free.start
                /\ file'.cluster_end = free.start
                /\ file'.end_offset = file.end_offset /\ file'.offset = 1
            BY <1>1, <5>4 DEF WriteGrown
          <6>2. FileBegun'
            BY <1>5, <1>6, <1>18, <5>2, <6>1 DEF FileBegun
          <6>3. \A s \in 1 .. COUNT : s # file.sector => disk'[s] = disk[s]
            BY <1>5, <6>1 DEF Disks
          <6>4. QED
            BY <1>5, <6>1, <6>2, <6>3
        <5>5. QED
          BY <1>10, <3>2, <4>2, <5>3, <5>4 DEF WriteFirst
      <4>3. QED
        BY <4>1, <4>2
    <3>7. DirKept'
      <4>1. dirfile.first + Entries <= free.start /\ free'.start \in Nat /\ Entries \in Nat
      BY <1>3, <1>5, <1>12, <1>2, SpaceFacts DEF DirKept, Entries, Space, SpaceOf
    <4>2. dirfile'.first + Entries' <= free'.start
      BY <1>5, <1>6, <1>18, <3>6, <4>1
    <4>3. QED
      BY <1>3, <1>18, <4>2 DEF DirKept
    <3>8. PackImport' /\ PackEntry'
      BY <1>1, <2>2, <3>5, <3>6, <3>7 DEF PackImport, PackEntry, Entries
    <3>13. file.first = 0 => file.sector = 0
      BY <1>3, <1>6, <1>8 DEF FileBegun
    <3>9. disk'[dirfile.first] = disk[dirfile.first]
      <4>1. dirfile.first \in 1 .. COUNT /\ dirfile.first # file.sector
        BY <1>5, <1>6, <1>7, <1>19, <3>13
      <4>2. QED
        BY <1>7, <3>6, <4>1
    <3>10. OnlyEntry'
      BY <1>1, <1>3, <2>2, <3>9 DEF OnlyEntry, Entries
    <3>11. file'.pos <= file'.size /\ file'.offset <= SECTOR
      BY <1>6, <3>4, <3>5, <3>6 DEF FileBegun
    <3>12. QED
      BY <1>1, <1>3, <2>2, <3>3, <3>8, <3>10, <3>11 DEF Pack
  <2>3. QED
    BY <2>1, <2>2
<1>16. Read' /\ Listing'
  BY <1>1, <1>2, <1>13, PackStays
<1>17. QED
  BY <1>12, <1>14, <1>15, <1>16 DEF RkIInv

(* Three cells of a sector that is not free, written.                      *)
LineSet(d, s, at, x, y, z) ==
    [d EXCEPT ![s] = [d[s] EXCEPT ![at] = x, ![at + 1] = y, ![at + 2] = z]]

LineWritten(e, d, n, s, at, x, y, z) ==
    /\ e[s][at] = x /\ e[s][at + 1] = y /\ e[s][at + 2] = z
    /\ \A c \in 0 .. SECTOR - 1 : c # at /\ c # at + 1 /\ c # at + 2 => e[s][c] = d[s][c]
    /\ \A t \in 1 .. n : t # s => e[t] = d[t]

LEMMA LineOfDisk ==
    ASSUME NEW d, NEW room, NEW n, SpaceOf(d, room, n), NEW s \in 1 .. n, s < room.start,
           NEW at \in Nat, at + 2 < SECTOR, NEW x \in Nat, NEW y \in Nat, NEW z \in Nat
    PROVE  /\ SpaceOf(LineSet(d, s, at, x, y, z), room, n)
           /\ LineWritten(LineSet(d, s, at, x, y, z), d, n, s, at, x, y, z)
<1> DEFINE a == at + 1
           c2 == at + 2
           u == d[s]
           line == [u EXCEPT ![at] = x, ![a] = y, ![c2] = z]
<1>1. /\ SECTOR \in Nat /\ at \in 0 .. SECTOR - 1 /\ a \in 0 .. SECTOR - 1
      /\ c2 \in 0 .. SECTOR - 1 /\ at # a /\ at # c2 /\ a # c2
  BY CellNumbers
<1>2. u \in [0 .. SECTOR - 1 -> Nat] /\ DOMAIN d = 1 .. n
  BY DEF SpaceOf, Disks
<1>3. LineSet(d, s, at, x, y, z) = [d EXCEPT ![s] = line]
  BY DEF LineSet
<1> HIDE DEF a, c2, u
<1>4. line \in [0 .. SECTOR - 1 -> Nat]
  BY <1>1, <1>2
<1>5. line[at] = x /\ line[a] = y /\ line[c2] = z
  BY <1>1, <1>2
<1>9. ASSUME NEW c \in 0 .. SECTOR - 1, c # at, c # a, c # c2 PROVE line[c] = u[c]
  BY <1>2, <1>9
<1> HIDE DEF line
<1>6. /\ [d EXCEPT ![s] = line][s] = line
      /\ \A t \in 1 .. n : t # s => [d EXCEPT ![s] = line][t] = d[t]
  BY <1>2
<1>7. SpaceOf([d EXCEPT ![s] = line], room, n)
  <2>1. /\ s \in Nat /\ room \in [start : Nat, size : Nat] /\ room.start >= room.start
        /\ room.start + room.size = n + 1
    BY DEF SpaceOf
  <2>2. QED
    BY <1>4, <2>1, SpaceLine
<1>8. QED
  BY <1>3, <1>5, <1>6, <1>7, <1>9 DEF a, c2, u, LineWritten

LEMMA ClusterSizeNat ==
    ASSUME NEW f \in RkFiles, f.cluster_end >= f.first - 1
    PROVE  ClusterSize(f) \in Nat
BY FileTypes DEF ClusterSize

(* The file of the directory after a file of it is closed.                 *)
LEMMA ClosedIn ==
    ASSUME NEW f \in RkFiles, f.size > dir_name,
           NEW g, g = [Seek(f, dir_cluster_start) EXCEPT !.pos = @ + 3, !.offset = @ + 3]
    PROVE  /\ g \in RkFiles
           /\ g.first = f.first /\ g.cluster_size = f.cluster_size /\ g.size = f.size
           /\ g.sector = f.first /\ g.offset = 5 /\ g.pos = 5
           /\ g.cluster_end = f.first /\ g.end_offset = SECTOR
<1>1. /\ f.first \in Nat /\ f.cluster_size \in Nat /\ f.cluster_end \in Int
      /\ f.end_offset \in Nat /\ f.sector \in Nat /\ f.offset \in Nat
      /\ f.pos \in Nat /\ f.size \in Nat
  BY FileTypes
<1>2. /\ dir_cluster_start = 2 /\ dir_name = 6 /\ SECTOR \in Nat /\ SECTOR >= 8
  BY CellNumbers
<1>3. 2 \div SECTOR = 0 /\ 2 % SECTOR = 2
  BY <1>2, DivFacts
<1>4. (IF dir_cluster_start > f.size THEN f.size ELSE dir_cluster_start) = 2
  BY <1>1, <1>2
<1>5. f.first + 2 \div SECTOR = f.first
  BY <1>1, <1>3
<1> DEFINE h == [f EXCEPT !.sector = f.first, !.offset = 2, !.pos = 2]
<1>6. Seek(f, dir_cluster_start) = WithEnd(h, f.first, SECTOR)
  BY <1>3, <1>4, <1>5 DEF Seek, WithEnd
<1>7. h \in RkFiles
  BY <1>1 DEF RkFiles
<1>8. /\ h.first = f.first /\ h.cluster_size = f.cluster_size /\ h.size = f.size
      /\ h.sector = f.first /\ h.offset = 2 /\ h.pos = 2
  BY DEF RkFiles
<1> HIDE DEF h
<1> DEFINE k == Seek(f, dir_cluster_start)
<1> HIDE DEF k
<1>9. k \in RkFiles
  <2>1. f.first \in Int
    BY <1>1
  <2>2. QED
    BY <1>2, <1>6, <1>7, <2>1, EndType DEF k
<1>10. /\ k.first = f.first /\ k.cluster_size = f.cluster_size /\ k.size = f.size
       /\ k.sector = f.first /\ k.offset = 2 /\ k.pos = 2
       /\ k.cluster_end = f.first /\ k.end_offset = SECTOR
  BY <1>6, <1>7, <1>8 DEF RkFiles, WithEnd, k
<1>11. g = [k EXCEPT !.pos = @ + 3, !.offset = @ + 3]
  BY DEF k
<1>12. g = WithPos(k, 5, 5)
  BY <1>10, <1>11 DEF WithPos
<1>13. g \in RkFiles
  <2> DEFINE p == 5
  <2>1. p \in Nat /\ g = WithPos(k, p, p)
    BY <1>12
  <2> HIDE DEF p
  <2>2. WithPos(k, p, p) \in RkFiles
    BY <1>9, <2>1, PosType
  <2>3. QED
    BY <2>1, <2>2
<1>14. /\ g.first = k.first /\ g.cluster_size = k.cluster_size /\ g.size = k.size
       /\ g.sector = k.sector /\ g.offset = 5 /\ g.pos = 5
       /\ g.cluster_end = k.cluster_end /\ g.end_offset = k.end_offset
  BY <1>9, <1>12 DEF RkFiles, WithPos
<1>15. QED
  BY <1>10, <1>13, <1>14

LEMMA CloseStart ==
    ASSUME Space, Types, CloseFile, dirfile.size > dir_name,
           dirfile.first >= 4, dirfile.first < free.start
    PROVE  /\ disk' = LineSet(disk, dirfile.first, dir_cluster_start, file.first,
                              ClusterSize(file), file.size)
           /\ Space' /\ COUNT' = COUNT /\ dirfile' \in RkFiles
           /\ dirfile'.first = dirfile.first /\ dirfile'.cluster_size = dirfile.cluster_size
           /\ dirfile'.size = dirfile.size /\ dirfile'.sector = dirfile.first
           /\ dirfile'.offset = 5 /\ dirfile'.pos = 5
           /\ dirfile'.cluster_end = dirfile.first /\ dirfile'.end_offset = SECTOR
           /\ dirfile.first \in 1 .. COUNT
           /\ disk'[dirfile.first][dir_file_size] = file.size
           /\ disk'[dirfile.first][dir_cluster_start] = file.first
           /\ \A c \in 0 .. SECTOR - 1 :
                c # dir_cluster_start /\ c # dir_cluster_size /\ c # dir_file_size =>
                    disk'[dirfile.first][c] = disk[dirfile.first][c]
           /\ \A t \in 1 .. COUNT : t # dirfile.first => disk'[t] = disk[t]
<1>1. /\ disk' = EntryWritten(dirfile, 0, file) /\ free' = free
      /\ dirfile' = [Seek(dirfile, dir_cluster_start) EXCEPT !.pos = @ + 3, !.offset = @ + 3]
  BY DEF CloseFile
<1>2. /\ dirfile \in RkFiles /\ file \in RkFiles /\ file.cluster_end >= file.first - 1
      /\ dirfile.cluster_end >= dirfile.first - 1
  BY DEF Types
<1>3. /\ dir_cluster_start = 2 /\ dir_cluster_size = dir_cluster_start + 1
      /\ dir_file_size = dir_cluster_start + 2 /\ dir_name = 6
      /\ SECTOR \in Nat /\ SECTOR >= 8 /\ 0 + dir_cluster_start = dir_cluster_start
  BY CellNumbers
<1>4. /\ COUNT \in Nat /\ free.start \in Nat /\ free.size \in Nat
      /\ free.start + free.size = COUNT + 1
      /\ file.first \in Nat /\ file.size \in Nat /\ dirfile.first \in Nat
  BY <1>2, FileTypes, SpaceFacts
<1>5. ClusterSize(file) \in Nat
  BY <1>2, ClusterSizeNat
<1>6. dirfile.first \in 1 .. COUNT
  BY <1>4
<1> DEFINE s == dirfile.first
           x == file.first
           y == ClusterSize(file)
           z == file.size
           at == dir_cluster_start
           n == COUNT
<1>7. disk' = LineSet(disk, s, at, x, y, z)
  BY <1>1, <1>3 DEF EntryWritten, LineSet
<1>8. /\ SpaceOf(disk, free, n) /\ s \in 1 .. n /\ s < free.start /\ at \in Nat
      /\ at + 2 < SECTOR /\ x \in Nat /\ y \in Nat /\ z \in Nat
  BY <1>3, <1>4, <1>5, <1>6 DEF Space
<1> HIDE DEF s, x, y, z, at, n
<1>9. /\ SpaceOf(disk', free, n)
      /\ disk'[s][at + 2] = z /\ disk'[s][at] = x
      /\ \A c \in 0 .. SECTOR - 1 : c # at /\ c # at + 1 /\ c # at + 2 =>
              disk'[s][c] = disk[s][c]
      /\ \A t \in 1 .. n : t # s => disk'[t] = disk[t]
  <2> DEFINE line == LineSet(disk, s, at, x, y, z)
  <2>1. SpaceOf(line, free, n) /\ LineWritten(line, disk, n, s, at, x, y, z)
    BY <1>8, LineOfDisk
  <2> HIDE DEF line
  <2>2. disk' = line
    BY <1>7 DEF line
  <2>3. QED
    BY <2>1, <2>2, Zenon DEF LineWritten
<1>10. COUNT' = COUNT /\ Space'
  BY <1>1, <1>9, SpaceNext DEF n
<1>11. /\ dirfile' \in RkFiles
       /\ dirfile'.first = dirfile.first /\ dirfile'.cluster_size = dirfile.cluster_size
       /\ dirfile'.size = dirfile.size /\ dirfile'.sector = dirfile.first
       /\ dirfile'.offset = 5 /\ dirfile'.pos = 5
       /\ dirfile'.cluster_end = dirfile.first /\ dirfile'.end_offset = SECTOR
  BY <1>1, <1>2, ClosedIn
<1>12. /\ disk'[dirfile.first][dir_file_size] = file.size
       /\ disk'[dirfile.first][dir_cluster_start] = file.first
       /\ \A c \in 0 .. SECTOR - 1 :
            c # dir_cluster_start /\ c # dir_cluster_size /\ c # dir_file_size =>
                disk'[dirfile.first][c] = disk[dirfile.first][c]
       /\ \A t \in 1 .. COUNT : t # dirfile.first => disk'[t] = disk[t]
  BY <1>3, <1>9, Zenon DEF s, at, x, z, n
<1>13. disk' = LineSet(disk, dirfile.first, dir_cluster_start, file.first,
                       ClusterSize(file), file.size)
  BY <1>7 DEF s, x, y, z, at
<1>14. QED
  BY <1>6, <1>10, <1>11, <1>12, <1>13

LEMMA CloseImported ==
    ASSUME RkIInv, CloseFile, phase = "import"
    PROVE  RkIInv'
<1>1. /\ todo = <<>> /\ phase' = "pack"
      /\ UNCHANGED <<free, file, todo, buf, packed, files, host, listed, mode>>
  BY DEF CloseFile
<1>2. /\ Space /\ Types /\ mode = "pack" /\ packed = TRUE
      /\ file \in RkFiles /\ file.cluster_end >= file.first - 1 /\ dirfile \in RkFiles
      /\ files \in Seq(Files)
  BY DEF RkIInv, Types, Packing
<1>3. /\ dirfile.cluster_size = 0 /\ file.cluster_size = 0
      /\ file.pos <= file.size /\ file.offset <= SECTOR
      /\ DirKept
      /\ file.size + Len(todo) = Len(files[Entries].bytes)
      /\ Entries = 1 =>
          /\ disk[dirfile.first][dir_entry_size] = dir_name
          /\ disk[dirfile.first][dir_name] = files[1].name
  BY <1>2 DEF RkIInv, Pack, Packing, PackImport, OnlyEntry
<1>4. /\ SECTOR \in Nat /\ SECTOR >= 8 /\ ENTRY = 7 /\ dir_name = 6
      /\ COUNT \in Nat /\ free.start \in Nat /\ Len(todo) = 0
      /\ dirfile.first \in Nat /\ dirfile.size \in Nat /\ file.size \in Nat
  BY <1>1, <1>2, CellNumbers, SpaceFacts, FileTypes
<1>5. /\ dirfile.first >= 4 /\ dirfile.first < free.start /\ dirfile.size > dir_name
      /\ Entries \in Nat
  BY <1>2, <1>3, <1>4 DEF DirKept, Entries
<1>6. /\ Space' /\ COUNT' = COUNT /\ dirfile' \in RkFiles
      /\ dirfile'.first = dirfile.first /\ dirfile'.cluster_size = dirfile.cluster_size
      /\ dirfile'.size = dirfile.size
      /\ dirfile'.offset = 5 /\ dirfile'.pos = 5 /\ dirfile'.cluster_end = dirfile.first
      /\ disk'[dirfile.first][dir_file_size] = file.size
      /\ \A c \in 0 .. SECTOR - 1 :
           c # dir_cluster_start /\ c # dir_cluster_size /\ c # dir_file_size =>
               disk'[dirfile.first][c] = disk[dirfile.first][c]
  BY <1>2, <1>5, CloseStart
<1>7. free' = free /\ file' = file /\ Entries' = Entries /\ files' = files
  BY <1>1 DEF Entries
<1>8. Types'
  <2>1. dirfile'.cluster_end >= dirfile'.first - 1
    BY <1>4, <1>6
  <2>2. QED
    BY <1>1, <1>2, <1>6, <2>1 DEF Types, Packing, Ended
<1>9. DirKept' /\ dirfile'.cluster_end = dirfile'.first
  <2>1. /\ dirfile'.pos <= dirfile'.size /\ dirfile'.offset <= SECTOR
        /\ dirfile'.cluster_end >= dirfile'.first
    BY <1>4, <1>5, <1>6
  <2>2. QED
    BY <1>3, <1>6, <1>7, <2>1 DEF DirKept
<1>10. OnlyEntry'
  <2>1. CASE Entries # 1
    BY <1>7, <2>1 DEF OnlyEntry
  <2>2. CASE Entries = 1
    <3>1. file.size = Len(files[1].bytes)
      BY <1>3, <1>4, <2>2
    <3>2. /\ dir_entry_size \in 0 .. SECTOR - 1 /\ dir_name \in 0 .. SECTOR - 1
          /\ dir_entry_size # dir_cluster_start /\ dir_entry_size # dir_cluster_size
          /\ dir_entry_size # dir_file_size
          /\ dir_name # dir_cluster_start /\ dir_name # dir_cluster_size
          /\ dir_name # dir_file_size
      BY CellNumbers
    <3>3. /\ disk'[dirfile.first][dir_entry_size] = dir_name
          /\ disk'[dirfile.first][dir_name] = files[1].name
      BY <1>3, <1>6, <2>2, <3>2, Zenon
    <3>4. QED
      BY <1>1, <1>6, <1>7, <3>1, <3>3 DEF OnlyEntry
  <2>3. QED
    BY <2>1, <2>2
<1>11. Pack'
  BY <1>1, <1>3, <1>6, <1>7, <1>9, <1>10 DEF Pack, PackEntry, PackImport
<1>12. Read' /\ Listing'
  BY <1>1, <1>2, PackStays
<1>13. QED
  BY <1>6, <1>8, <1>11, <1>12 DEF RkIInv

LEMMA SpaceRoot ==
    ASSUME NEW d, NEW room, NEW n, SpaceOf(d, room, n), NEW e, e = FreeStored(d),
           room = free
    PROVE  /\ SpaceOf(e, free, n)
           /\ e[root_sec][root_first_free] = free.start
           /\ e[root_sec][root_free_size] = free.size
           /\ \A c \in 0 .. SECTOR - 1 : c # root_first_free /\ c # root_free_size =>
                e[root_sec][c] = d[root_sec][c]
           /\ \A t \in 1 .. n : t # root_sec => e[t] = d[t]
<1> DEFINE s == root_sec
           a == root_first_free
           b == root_free_size
           u == d[s]
           x == free.start
           y == free.size
           line == [u EXCEPT ![a] = x, ![b] = y]
<1>1. /\ s \in 1 .. n /\ s \in Nat /\ s < free.start /\ n \in Nat
      /\ SECTOR \in Nat /\ a \in 0 .. SECTOR - 1 /\ b \in 0 .. SECTOR - 1 /\ a # b
      /\ free \in [start : Nat, size : Nat] /\ x \in Nat /\ y \in Nat
      /\ free.start >= free.start /\ free.start + free.size = n + 1
  BY CellNumbers DEF SpaceOf
<1>2. u \in [0 .. SECTOR - 1 -> Nat] /\ DOMAIN d = 1 .. n
  BY <1>1 DEF SpaceOf, Disks
<1>3. e = [d EXCEPT ![s] = line]
  BY DEF FreeStored
<1> HIDE DEF s, a, b, u, x, y
<1>4. line \in [0 .. SECTOR - 1 -> Nat]
  BY <1>1, <1>2
<1>5. line[a] = x /\ line[b] = y
  BY <1>1, <1>2
<1>6. ASSUME NEW c \in 0 .. SECTOR - 1, c # a, c # b PROVE line[c] = u[c]
  BY <1>2, <1>6
<1> HIDE DEF line
<1>7. SpaceOf([d EXCEPT ![s] = line], free, n)
  BY <1>1, <1>4, SpaceLine
<1>8. /\ [d EXCEPT ![s] = line][s] = line
      /\ \A t \in 1 .. n : t # s => [d EXCEPT ![s] = line][t] = d[t]
  BY <1>1, <1>2
<1>9. QED
  BY <1>3, <1>5, <1>6, <1>7, <1>8, Zenon DEF s, a, b, u, x, y

LEMMA EndedDir ==
    ASSUME Space, dirfile \in RkFiles, dirfile.cluster_end >= dirfile.first - 1, EndPack
    PROVE  /\ Space' /\ COUNT' = COUNT /\ UNCHANGED <<free, dirfile, file, files, packed>>
           /\ disk'[root_sec][root_first_free] = free.start
           /\ disk'[root_sec][root_free_size] = free.size
           /\ RootCell(dir_cluster_start)' = dirfile.first
           /\ RootCell(dir_cluster_size)' = ClusterSize(dirfile)
           /\ RootCell(dir_file_size)' = dirfile.size
           /\ \A t \in 1 .. COUNT : t # root_sec => disk'[t] = disk[t]
<1> DEFINE d == EntryWritten(RootFile, root_entry, dirfile)
           at == root_entry + dir_cluster_start
           s == root_sec
           x == dirfile.first
           y == ClusterSize(dirfile)
           z == dirfile.size
           n == COUNT
           line == LineSet(disk, s, at, x, y, z)
<1>1. disk' = FreeStored(d) /\ UNCHANGED <<free, dirfile, file, files, packed>>
  BY DEF EndPack
<1>2. /\ SECTOR \in Nat /\ at \in Nat /\ at + 2 < SECTOR /\ at = 4
      /\ at = root_entry + dir_cluster_start
      /\ at + 1 = root_entry + dir_cluster_size /\ at + 2 = root_entry + dir_file_size
      /\ root_first_free # at /\ root_first_free # at + 1 /\ root_first_free # at + 2
      /\ root_free_size # at /\ root_free_size # at + 1 /\ root_free_size # at + 2
      /\ at \in 0 .. SECTOR - 1 /\ at + 1 \in 0 .. SECTOR - 1 /\ at + 2 \in 0 .. SECTOR - 1
  BY CellNumbers
<1>3. x \in Nat /\ y \in Nat /\ z \in Nat
  BY FileTypes, ClusterSizeNat
<1>4. s \in 1 .. n /\ s < free.start /\ SpaceOf(disk, free, n)
  BY SpaceFacts, CellNumbers DEF Space
<1>5. RootFile.first = s
  BY DEF RootFile, NewFile
<1>6. d = line
  BY <1>5 DEF EntryWritten, LineSet
<1> HIDE DEF d, at, s, x, y, z, n
<1>7. /\ SpaceOf(line, free, n)
      /\ line[s][at] = x /\ line[s][at + 1] = y /\ line[s][at + 2] = z
      /\ \A t \in 1 .. n : t # s => line[t] = disk[t]
  <2>1. at \in Nat /\ at + 2 < SECTOR
    BY <1>2
  <2>2. SpaceOf(line, free, n) /\ LineWritten(line, disk, n, s, at, x, y, z)
    BY <1>3, <1>4, <2>1, LineOfDisk
  <2> HIDE DEF line
  <2>3. QED
    BY <2>2, Zenon DEF LineWritten
<1> HIDE DEF line
<1>9. /\ SpaceOf(disk', free, n)
      /\ disk'[s][root_first_free] = free.start /\ disk'[s][root_free_size] = free.size
      /\ \A c \in 0 .. SECTOR - 1 : c # root_first_free /\ c # root_free_size =>
              disk'[s][c] = line[s][c]
      /\ \A t \in 1 .. n : t # s => disk'[t] = line[t]
  BY <1>1, <1>6, <1>7, SpaceRoot DEF s
<1>10. disk'[s][at] = x /\ disk'[s][at + 1] = y /\ disk'[s][at + 2] = z
  BY <1>2, <1>7, <1>9
<1>11. /\ RootCell(dir_cluster_start)' = x /\ RootCell(dir_cluster_size)' = y
       /\ RootCell(dir_file_size)' = z
  BY <1>2, <1>10, Zenon DEF RootCell, s
<1>12. COUNT' = COUNT /\ Space'
  BY <1>1, <1>9, SpaceNext DEF n
<1>13. \A t \in 1 .. n : t # s => disk'[t] = disk[t]
  BY <1>7, <1>9, Zenon
<1>14. QED
  BY <1>1, <1>9, <1>11, <1>12, <1>13, Zenon DEF s, x, y, z, n

LEMMA EndPackStep ==
    ASSUME RkIInv, EndPack
    PROVE  RkIInv'
<1>1. /\ phase = "pack" /\ phase' = "open" /\ mode' \in {"list", "unpack"}
      /\ UNCHANGED <<free, dirfile, file, todo, buf, packed, files, host, listed>>
  BY DEF EndPack
<1>2. /\ Space /\ Types /\ mode = "pack" /\ packed = TRUE /\ listed = <<>>
      /\ file \in RkFiles /\ file.cluster_end >= file.first - 1 /\ dirfile \in RkFiles
      /\ dirfile.cluster_end >= dirfile.first - 1
      /\ files \in Seq(Files)
  BY <1>1 DEF RkIInv, Types, Packing
<1>3. /\ dirfile.cluster_size = 0 /\ file.cluster_size = 0
      /\ file.pos <= file.size /\ file.offset <= SECTOR
      /\ (Entries = 0 /\ NoDir) \/ (DirKept /\ dirfile.cluster_end = dirfile.first)
      /\ Entries = 1 =>
          /\ disk[dirfile.first][dir_entry_size] = dir_name
          /\ disk[dirfile.first][dir_name] = files[1].name
          /\ disk[dirfile.first][dir_file_size] = Len(files[1].bytes)
  BY <1>1, <1>2 DEF RkIInv, Pack, Packing, OnlyEntry
<1>4. /\ SECTOR \in Nat /\ SECTOR >= 8 /\ ENTRY = 7 /\ dir_name = 6 /\ root_sec = 1
      /\ COUNT \in Nat /\ COUNT >= 3 /\ free.start \in Nat /\ free.size \in Nat
      /\ free.start + free.size = COUNT + 1
  BY <1>2, CellNumbers, SpaceFacts
<1>5. /\ dirfile.first \in Nat /\ dirfile.size \in Nat /\ dirfile.pos \in Nat
      /\ dirfile.offset \in Nat /\ dirfile.cluster_end \in Int /\ Entries \in Nat
  BY <1>2, FileTypes DEF Entries
<1>6. /\ Space' /\ COUNT' = COUNT
      /\ disk'[root_sec][root_first_free] = free.start
      /\ disk'[root_sec][root_free_size] = free.size
      /\ RootCell(dir_cluster_start)' = dirfile.first
      /\ RootCell(dir_cluster_size)' = ClusterSize(dirfile)
      /\ RootCell(dir_file_size)' = dirfile.size
      /\ \A t \in 1 .. COUNT : t # root_sec => disk'[t] = disk[t]
  BY <1>2, EndedDir
<1>7. free' = free /\ file' = file /\ dirfile' = dirfile /\ files' = files /\ listed' = <<>>
      /\ packed' = TRUE
  BY <1>1, <1>2
<1>8. Types'
  BY <1>1, <1>2 DEF Types, Packing, Ended
<1>9. ClusterSize(dirfile) <= COUNT
  BY <1>3, <1>4, <1>5 DEF ClusterSize, NoDir, DirKept
<1>10. /\ dirfile.size = ENTRY * Entries /\ Entries <= 2
       /\ dirfile.pos <= dirfile.size /\ dirfile.offset <= SECTOR
       /\ Entries >= 1 => dirfile.first >= 4 /\ dirfile.first + Entries <= free.start
       /\ Entries = 0 => dirfile.first = 0
  BY <1>3, <1>4, <1>5 DEF NoDir, DirKept
<1>11. DirIn(dirfile.first, dirfile.size, free.start)
  <2>1. CASE Entries = 0
    BY <1>4, <1>10, <2>1 DEF DirIn
  <2>2. CASE Entries = 1
    <3>1. dirfile.size = 7
      BY <1>4, <1>10, <2>2
    <3>2. 6 \div SECTOR = 0
      BY <1>4, DivFacts
    <3>3. QED
      BY <1>4, <1>5, <1>10, <2>2, <3>1, <3>2 DEF DirIn
  <2>3. CASE Entries = 2
    <3>1. dirfile.size = 14
      BY <1>4, <1>10, <2>3
    <3>2. 13 \div SECTOR <= 1 /\ 13 \div SECTOR \in Nat
      BY <1>4
    <3>3. QED
      BY <1>4, <1>5, <1>10, <2>3, <3>1, <3>2 DEF DirIn
  <2>4. QED
    BY <1>5, <1>10, <2>1, <2>2, <2>3
<1>12. Root'
  BY <1>6, <1>7, <1>9, <1>11 DEF Root
<1>13. Read'
  BY <1>1, <1>3, <1>4, <1>6, <1>7, <1>10, <1>12 DEF Read, Ended
<1>14. Pack'
  BY <1>1 DEF Pack, Packing
<1>15. ASSUME Entries <= 1 PROVE \E at : EntriesAt(disk', files, at)
  <2> DEFINE n == Entries
             at == [k \in 1 .. n + 1 |-> (k - 1) * ENTRY]
             Dir(p) == disk'[dirfile.first + p \div SECTOR][p % SECTOR]
  <2>1. at \in [1 .. n + 1 -> Nat] /\ at[1] = 0 /\ at[n + 1] = n * ENTRY
    BY <1>4, <1>5
  <2>2. n * ENTRY = dirfile.size
    BY <1>4, <1>5, <1>10, <1>15
  <2>3. ASSUME NEW k \in DOMAIN files
        PROVE  /\ Dir(at[k]) \in dir_name .. BUF - 1
               /\ at[k + 1] = at[k] + Dir(at[k]) + 1 /\ at[k + 1] <= at[n + 1]
               /\ Dir(at[k] + dir_name) = files[k].name
               /\ Dir(at[k] + dir_file_size) = Len(files[k].bytes)
    <3>1. DOMAIN files = 1 .. n
      BY <1>2 DEF Entries
    <3>2. n = 1 /\ k = 1
      BY <1>5, <1>15, <3>1
    <3>3. at[k] = 0 /\ at[k + 1] = ENTRY /\ at[n + 1] = ENTRY
      BY <1>4, <2>1, <3>2
    <3>4. dirfile.first \in 1 .. COUNT /\ dirfile.first # root_sec
      BY <1>4, <1>5, <1>10, <3>2
    <3>5. disk'[dirfile.first] = disk[dirfile.first]
      BY <1>6, <3>4
    <3>6. \A p \in Nat : p < SECTOR => Dir(p) = disk[dirfile.first][p]
      BY <1>4, <1>5, <3>5, DivFacts
    <3>7. /\ 0 + dir_name = dir_name /\ 0 + dir_file_size = dir_file_size
          /\ dir_name \in Nat /\ dir_name < SECTOR /\ dir_file_size \in Nat
          /\ dir_file_size < SECTOR /\ dir_entry_size = 0 /\ 0 < SECTOR /\ BUF = 10
      BY CellNumbers
    <3> HIDE DEF Dir, at, n
    <3>8. /\ Dir(0) = dir_name /\ Dir(dir_name) = files[1].name
          /\ Dir(dir_file_size) = Len(files[1].bytes)
      BY <1>3, <3>2, <3>6, <3>7 DEF n
    <3>9. /\ Dir(at[k]) \in dir_name .. BUF - 1
          /\ at[k + 1] = at[k] + Dir(at[k]) + 1 /\ at[k + 1] <= at[n + 1]
      BY <1>4, <3>3, <3>7, <3>8
    <3>10. /\ Dir(at[k] + dir_name) = files[k].name
           /\ Dir(at[k] + dir_file_size) = Len(files[k].bytes)
      BY <3>2, <3>3, <3>7, <3>8
    <3>11. QED
      BY <3>9, <3>10
  <2>4. /\ disk'[root_sec][root_entry + dir_cluster_start] = dirfile.first
        /\ disk'[root_sec][root_entry + dir_file_size] = dirfile.size
    BY <1>6 DEF RootCell
  <2>5. n = Len(files)
    BY DEF Entries
  <2> HIDE DEF n, at
  <2>6. EntriesAt(disk', files, at)
    BY <2>1, <2>2, <2>3, <2>4, <2>5, Zenon DEF EntriesAt
  <2>7. QED
    BY <2>6
<1>16. Listing'
  <2>1. IsWhole' => Entries <= 1
    BY <1>7 DEF IsWhole, Entries
  <2>2. IsWhole' => \E at : EntriesAt(disk', files', at)
    BY <1>7, <1>15, <2>1
  <2>3. ASSUME NEW at PROVE Shown(at)'
    BY <1>1, <1>7 DEF Shown
  <2>4. QED
    BY <2>2, <2>3, Zenon DEF Listing
<1>17. QED
  BY <1>6, <1>8, <1>13, <1>14, <1>16 DEF RkIInv

-----------------------------------------------------------------------------
(* Reading: n cells further in a file.                                     *)
At(f) == f.sector = f.first + f.pos \div SECTOR /\ f.offset = f.pos % SECTOR

LEMMA ReadType ==
    ASSUME NEW f \in RkFiles, NEW n \in Nat
    PROVE  /\ AfterRead(f, n) \in RkFiles
           /\ AfterRead(f, n).first = f.first
           /\ AfterRead(f, n).cluster_size = f.cluster_size
           /\ AfterRead(f, n).cluster_end = f.cluster_end
           /\ AfterRead(f, n).size = f.size /\ AfterRead(f, n).pos = f.pos + n
           /\ AfterRead(f, n).offset = (f.offset + n) % SECTOR
           /\ AfterRead(f, n).sector = f.sector + (f.offset + n) \div SECTOR
           /\ AfterRead(f, n).offset < SECTOR
<1> DEFINE p == f.pos + n
           o == (f.offset + n) % SECTOR
           s == f.sector + (f.offset + n) \div SECTOR
<1>1. SECTOR \in Nat /\ SECTOR > 0 /\ f.offset \in Nat /\ f.sector \in Nat /\ f.pos \in Nat
  BY CellNumbers, FileTypes
<1>2. f.offset + n \in Nat
  BY <1>1
<1>3. p \in Nat /\ o \in Nat /\ o < SECTOR /\ s \in Nat
  <2> DEFINE k == f.offset + n
  <2>1. k \in Nat
    BY <1>2
  <2> HIDE DEF k
  <2>2. k \div SECTOR \in Nat /\ k % SECTOR \in Nat /\ k % SECTOR < SECTOR
    BY <1>1, <2>1, DivFacts
  <2>3. p \in Nat
    BY <1>1
  <2>4. o = k % SECTOR /\ s = f.sector + k \div SECTOR
    BY DEF k
  <2>5. QED
    BY <1>1, <2>2, <2>3, <2>4
<1>4. AfterRead(f, n) = [f EXCEPT !.pos = p, !.offset = o, !.sector = s]
  BY DEF AfterRead
<1> HIDE DEF p, o, s
<1>5. AfterRead(f, n) \in RkFiles
  BY <1>3, <1>4 DEF RkFiles
<1>6. /\ AfterRead(f, n).first = f.first
      /\ AfterRead(f, n).cluster_size = f.cluster_size
      /\ AfterRead(f, n).cluster_end = f.cluster_end
      /\ AfterRead(f, n).size = f.size /\ AfterRead(f, n).pos = p
      /\ AfterRead(f, n).offset = o /\ AfterRead(f, n).sector = s
  BY <1>4 DEF RkFiles
<1>7. QED
  BY <1>3, <1>5, <1>6 DEF p, o, s

LEMMA ReadAt ==
    ASSUME NEW f \in RkFiles, NEW n \in Nat, At(f)
    PROVE  At(AfterRead(f, n))
<1>1. /\ SECTOR \in Nat /\ SECTOR > 0 /\ f.first \in Nat /\ f.pos \in Nat
  BY CellNumbers, FileTypes
<1>2. /\ (f.pos + n) \div SECTOR = f.pos \div SECTOR + (((f.pos % SECTOR) + n) \div SECTOR)
      /\ (f.pos + n) % SECTOR = ((f.pos % SECTOR) + n) % SECTOR
  BY <1>1, DivSum
<1>3. (f.pos % SECTOR) + n \in Nat
  BY <1>1, DivFacts
<1>4. f.pos \div SECTOR \in Nat /\ (((f.pos % SECTOR) + n) \div SECTOR) \in Nat
  BY <1>1, <1>3, DivFacts
<1>5. /\ AfterRead(f, n).first = f.first /\ AfterRead(f, n).pos = f.pos + n
      /\ AfterRead(f, n).offset = ((f.pos % SECTOR) + n) % SECTOR
      /\ AfterRead(f, n).sector
           = (f.first + f.pos \div SECTOR) + (((f.pos % SECTOR) + n) \div SECTOR)
  BY ReadType DEF At
<1>6. QED
  BY <1>1, <1>2, <1>4, <1>5 DEF At

(* The cells of the directory are on the disk, before what is free.        *)
DirCell(p) == disk[dirfile.first + p \div SECTOR][p % SECTOR]

LEMMA DirOnDisk ==
    ASSUME Space, Root, DirRead, dirfile \in RkFiles, NEW p \in Nat, p < dirfile.size
    PROVE  /\ dirfile.first >= 4 /\ dirfile.first < free.start /\ dirfile.size > dir_name
           /\ DirCell(p) \in Nat
<1>1. /\ SECTOR \in Nat /\ SECTOR > 0 /\ dirfile.first \in Nat /\ dirfile.size \in Nat
      /\ COUNT \in Nat /\ disk \in Disks(COUNT) /\ free.start \in Nat /\ free.size \in Nat
      /\ free.start + free.size = COUNT + 1
  BY CellNumbers, FileTypes, SpaceFacts
<1>2. DirIn(dirfile.first, dirfile.size, free.start)
  BY DEF Root, DirRead
<1>3. /\ dirfile.first >= 4 /\ dirfile.size > dir_name
      /\ dirfile.first + (dirfile.size - 1) \div SECTOR < free.start
  BY <1>1, <1>2 DEF DirIn
<1>4. dirfile.size - 1 \in Nat /\ p <= dirfile.size - 1
  BY <1>1
<1>5. p \div SECTOR <= (dirfile.size - 1) \div SECTOR
  BY <1>1, <1>4, DivMonotone
<1>6. /\ p \div SECTOR \in Nat /\ (dirfile.size - 1) \div SECTOR \in Nat
      /\ p % SECTOR \in Nat /\ p % SECTOR < SECTOR
  BY <1>1, <1>4, DivFacts
<1>7. dirfile.first + p \div SECTOR \in 1 .. COUNT /\ dirfile.first < free.start
  BY <1>1, <1>3, <1>5, <1>6
<1>8. DirCell(p) \in Nat
  BY <1>1, <1>6, <1>7, DiskCell DEF DirCell
<1>9. QED
  BY <1>3, <1>7, <1>8

LEMMA CellIsDirCell ==
    ASSUME DirRead, dirfile \in RkFiles, NEW n \in Nat
    PROVE  /\ Cell(AfterRead(dirfile, n)) = DirCell(dirfile.pos + n)
           /\ Cell(dirfile) = DirCell(dirfile.pos)
<1>1. At(dirfile)
  BY DEF DirRead, At
<1>2. At(AfterRead(dirfile, n))
  BY <1>1, ReadAt
<1>3. AfterRead(dirfile, n).first = dirfile.first /\ AfterRead(dirfile, n).pos = dirfile.pos + n
  BY ReadType
<1>4. QED
  BY <1>1, <1>2, <1>3 DEF At, Cell, DirCell

-----------------------------------------------------------------------------
(* Neither pack nor the disk goes on while a directory is read.            *)
LEMMA ReadingFacts ==
    ASSUME RkIInv, phase \in {"open", "next", "loop", "save", "done"}
    PROVE  /\ mode # "pack" /\ Space /\ Types /\ Root
           /\ dirfile \in RkFiles /\ file \in RkFiles
           /\ dirfile.cluster_size <= COUNT
           /\ phase # "open" => DirRead
           /\ phase \in {"loop", "save"} => dirfile.size > 0
           /\ dirfile.pos <= dirfile.size /\ dirfile.offset <= SECTOR
           /\ file.pos <= file.size /\ file.offset <= SECTOR
<1>1. mode # "pack" /\ ~Ended
  BY DEF RkIInv, Types, Packing, Ended
<1>2. QED
  BY <1>1 DEF RkIInv, Types, Read

LEMMA RootSame ==
    ASSUME Root, COUNT' = COUNT, UNCHANGED <<disk, free>>
    PROVE  Root'
BY DEF Root, RootCell

LEMMA NotPacking ==
    ASSUME phase' \in {"open", "next", "loop", "save", "done", "error", "undefined"}
    PROVE  Pack' /\ ~Packing'
BY DEF Pack, Packing

LEMMA OpenRootDirStep ==
    ASSUME RkIInv, OpenRootDir
    PROVE  RkIInv'
<1>1. /\ phase = "open" /\ phase' = "next" /\ dirfile' = RootDirFile
      /\ free' = [start |-> disk[root_sec][root_first_free],
                  size |-> disk[root_sec][root_free_size]]
      /\ UNCHANGED <<disk, file, todo, buf, packed, files, host, listed, mode>>
  BY DEF OpenRootDir
<1>2. /\ mode # "pack" /\ Space /\ Types /\ Root /\ file \in RkFiles
      /\ file.pos <= file.size /\ file.offset <= SECTOR
  BY <1>1, ReadingFacts
<1>3. /\ SECTOR \in Nat /\ SECTOR >= 8 /\ COUNT \in Nat /\ COUNT >= 3 /\ disk \in Disks(COUNT)
      /\ free \in [start : Nat, size : Nat]
  BY <1>2, CellNumbers, SpaceFacts
<1>4. free' = free
  BY <1>1, <1>2, <1>3 DEF Root
<1>5. COUNT' = COUNT /\ Space'
  BY <1>1, <1>2, <1>4, SpaceSame
<1>6. /\ RootCell(dir_cluster_start) \in Nat /\ RootCell(dir_cluster_size) \in Nat
      /\ RootCell(dir_file_size) \in Nat
  <2>1. /\ root_sec \in 1 .. COUNT
        /\ root_entry + dir_cluster_start \in Nat /\ root_entry + dir_cluster_start < SECTOR
        /\ root_entry + dir_cluster_size \in Nat /\ root_entry + dir_cluster_size < SECTOR
        /\ root_entry + dir_file_size \in Nat /\ root_entry + dir_file_size < SECTOR
    BY <1>3, CellNumbers
  <2>2. QED
    BY <1>3, <2>1, DiskCell DEF RootCell
<1>7. /\ dirfile' \in RkFiles /\ dirfile'.cluster_end >= dirfile'.first - 1
      /\ dirfile'.first = RootCell(dir_cluster_start)
      /\ dirfile'.cluster_size = RootCell(dir_cluster_size)
      /\ dirfile'.size = RootCell(dir_file_size)
      /\ dirfile'.pos = 0 /\ dirfile'.offset = 0
      /\ dirfile'.sector = RootCell(dir_cluster_start)
  BY <1>1, <1>6 DEF RootDirFile, NewFile, RkFiles
<1>8. Root' /\ Pack' /\ ~Packing'
  BY <1>1, <1>2, <1>4, <1>5, RootSame, NotPacking
<1>9. \A c : RootCell(c)' = RootCell(c)
  BY <1>1 DEF RootCell
<1>10. DirRead'
  <2>1. 0 \div SECTOR = 0 /\ 0 % SECTOR = 0
    BY <1>3, DivFacts
  <2>2. RootCell(dir_cluster_start) + 0 = RootCell(dir_cluster_start)
    BY <1>6
  <2>3. 0 <= RootCell(dir_file_size)
    BY <1>6
  <2>4. QED
    BY <1>7, <1>9, <2>1, <2>2, <2>3 DEF DirRead
<1>11. Types'
  BY <1>1, <1>2, <1>7 DEF Types, Packing, Ended
<1>12. Read'
  <2>1. /\ dirfile'.cluster_size <= COUNT' /\ dirfile'.pos <= dirfile'.size
        /\ dirfile'.offset <= SECTOR
    BY <1>2, <1>3, <1>5, <1>6, <1>7 DEF Root
  <2>2. QED
    BY <1>1, <1>2, <1>8, <1>10, <2>1 DEF Read
<1>13. Listing'
  <2>1. CASE mode = "list" /\ IsWhole
    <3>1. PICK at : EntriesAt(disk, files, at) /\ Shown(at)
      BY <2>1 DEF RkIInv, Listing
    <3>2. listed = <<>> /\ at[1] = 0
      BY <1>1, <3>1 DEF Shown, EntriesAt
    <3>3. Len(files) \in Nat /\ files' = files /\ listed' = <<>>
      BY <1>1, <1>2, <3>2 DEF Types
    <3>4. ListedTo(0)' /\ 0 \in 0 .. Len(files')
      BY <3>3 DEF ListedTo
    <3>5. dirfile'.pos = at[0 + 1]
      BY <1>7, <3>2
    <3>6. Shown(at)'
      BY <1>1, <3>4, <3>5 DEF Shown
    <3>7. EntriesAt(disk', files', at)
      BY <1>1, <3>1
    <3>8. QED
      BY <1>1, <3>6, <3>7 DEF Listing
  <2>2. CASE ~(mode = "list" /\ IsWhole)
    BY <1>1, <2>2 DEF Listing, IsWhole
  <2>3. QED
    BY <2>1, <2>2
<1>14. QED
  BY <1>5, <1>8, <1>11, <1>12, <1>13 DEF RkIInv

LEMMA NextAtEndStep ==
    ASSUME RkIInv, NextAtEnd
    PROVE  RkIInv'
<1>1. /\ phase = "next" /\ phase' = "done" /\ dirfile.pos = dirfile.size
      /\ UNCHANGED <<disk, free, dirfile, file, todo, buf, packed, files, host, listed, mode>>
  BY DEF NextAtEnd, Eof
<1>2. /\ mode # "pack" /\ Space /\ Types /\ Root /\ DirRead
      /\ dirfile.cluster_size <= COUNT
      /\ dirfile.pos <= dirfile.size /\ dirfile.offset <= SECTOR
      /\ file.pos <= file.size /\ file.offset <= SECTOR
  BY <1>1, ReadingFacts
<1>3. COUNT' = COUNT /\ Space'
  BY <1>1, <1>2, SpaceSame
<1>4. Root' /\ Pack' /\ ~Packing'
  BY <1>1, <1>2, <1>3, RootSame, NotPacking
<1>5. Types'
  BY <1>1, <1>2 DEF Types, Packing, Ended
<1>6. DirRead'
  BY <1>1, <1>2 DEF DirRead, RootCell
<1>7. Read'
  BY <1>1, <1>2, <1>3, <1>4, <1>6 DEF Read
<1>8. Listing'
  <2>1. CASE mode = "list" /\ IsWhole
    <3>1. PICK at : EntriesAt(disk, files, at) /\ Shown(at)
      BY <2>1 DEF RkIInv, Listing
    <3>2. PICK k \in 0 .. Len(files) : ListedTo(k) /\ dirfile.pos = at[k + 1]
      BY <1>1, <3>1 DEF Shown
    <3>3. Len(files) \in Nat /\ DOMAIN files = 1 .. Len(files)
      BY <1>2 DEF Types
    <3>4. dirfile.pos = at[Len(files) + 1]
      BY <1>1, <1>2, <3>1 DEF DirRead, RootCell, EntriesAt
    <3>5. k = Len(files)
      <4>1. SUFFICES ASSUME k # Len(files) PROVE FALSE
        OBVIOUS
      <4>2. k + 1 \in DOMAIN files /\ k \in Nat
        <5>1. k \in 0 .. Len(files)
          BY <3>2
        <5> DEFINE n == Len(files)
        <5>2. n \in Nat /\ k \in 0 .. n /\ k # n /\ DOMAIN files = 1 .. n
          BY <3>3, <4>1, <5>1
        <5> HIDE DEF n
        <5>3. k + 1 \in 1 .. n /\ k \in Nat
          BY <5>2
        <5>4. QED
          BY <5>2, <5>3
      <4> DEFINE a == at[k + 1]
                 b == at[(k + 1) + 1]
                 e == at[Len(files) + 1]
                 x == disk[disk[root_sec][root_entry + dir_cluster_start] + at[k + 1] \div SECTOR]
                          [at[k + 1] % SECTOR]
      <4>3. x \in dir_name .. BUF - 1 /\ b = a + x + 1 /\ b <= e
        BY <3>1, <4>2 DEF EntriesAt
      <4>4. a \in Nat /\ b \in Nat /\ e \in Nat
        BY <3>1, <3>3, <4>2 DEF EntriesAt
      <4>5. a = e
        BY <3>2, <3>4
      <4> HIDE DEF a, b, e, x
      <4>6. dir_name = 6 /\ BUF = 10
        BY CellNumbers
      <4>7. x \in Int /\ x >= 6
        BY <4>3, <4>6
      <4>8. QED
        BY <4>3, <4>4, <4>5, <4>7
    <3>6. Shown(at)'
      BY <1>1, <3>2, <3>5 DEF Shown, ListedTo
    <3>7. QED
      BY <1>1, <3>1, <3>6 DEF Listing
  <2>2. CASE ~(mode = "list" /\ IsWhole)
    BY <1>1, <2>2 DEF Listing, IsWhole
  <2>3. QED
    BY <2>1, <2>2
<1>9. QED
  BY <1>3, <1>4, <1>5, <1>7, <1>8 DEF RkIInv

(* An error, or undefined behaviour, while a directory is read.            *)
LEMMA StopReading ==
    ASSUME RkIInv, phase \in {"open", "next", "loop", "save", "done"},
           phase' \in {"error", "undefined"},
           UNCHANGED <<disk, free, dirfile, file, todo, buf, packed, files, listed, mode>>
    PROVE  RkIInv'
<1>1. /\ mode # "pack" /\ Space /\ Types /\ Root /\ dirfile.cluster_size <= COUNT
  BY ReadingFacts
<1>2. COUNT' = COUNT /\ Space'
  BY <1>1, SpaceSame
<1>3. Root' /\ Pack' /\ ~Packing'
  BY <1>1, <1>2, RootSame, NotPacking
<1>4. Types'
  BY <1>1 DEF Types, Packing, Ended
<1>5. Read'
  BY <1>1, <1>2, <1>3 DEF Read, Ended
<1>6. Listing'
  <2>1. \A at : Shown(at)'
    BY DEF Shown
  <2>2. IsWhole' = IsWhole
    BY DEF IsWhole
  <2>3. \A at : EntriesAt(disk', files', at) = EntriesAt(disk, files, at)
    OBVIOUS
  <2>4. phase' # "open"
    OBVIOUS
  <2>5. mode' = mode
    OBVIOUS
  <2>6. QED
    BY <2>1, <2>2, <2>3, <2>4, <2>5 DEF RkIInv, Listing
<1>7. QED
  BY <1>2, <1>3, <1>4, <1>5, <1>6 DEF RkIInv

LEMMA MinOfTwo ==
    ASSUME NEW a \in Nat, NEW b \in Nat
    PROVE  Min({a, b}) = IF b < a THEN b ELSE a
<1> DEFINE m == IF b < a THEN b ELSE a
<1>1. m \in {a, b} /\ \A y \in {a, b} : m <= y
  OBVIOUS
<1>2. Min({a, b}) \in {a, b} /\ \A y \in {a, b} : Min({a, b}) <= y
  BY <1>1, Zenon DEF Min
<1>3. Min({a, b}) = a \/ Min({a, b}) = b
  BY <1>2, Zenon
<1>4. Min({a, b}) <= a /\ Min({a, b}) <= b
  BY <1>2, Zenon
<1>5. QED
  BY <1>3, <1>4

LEMMA OutcomeOfEntry ==
    ASSUME NEW rest \in Nat, NEW left \in Nat
    PROVE  /\ EntryOutcome(rest, left) \in {"undefined", "error", "loop"}
           /\ EntryOutcome(rest, left) = "loop" <=> rest <= left /\ rest < BUF
<1> DEFINE m == Min({rest, left})
<1>1. m = IF left < rest THEN left ELSE rest
  BY MinOfTwo
<1>2. BUF = 10
  BY CellNumbers
<1>3. EntryOutcome(rest, left)
        = IF m >= BUF THEN "undefined" ELSE IF rest > left THEN "error" ELSE "loop"
  BY DEF EntryOutcome
<1> HIDE DEF m
<1>4. m >= BUF => ~(rest <= left /\ rest < BUF)
  BY <1>1, <1>2
<1>5. m < BUF <=> ~(m >= BUF)
  BY <1>1, <1>2
<1>6. m < BUF /\ ~(rest > left) <=> rest <= left /\ rest < BUF
  BY <1>1, <1>2
<1>7. QED
  BY <1>3, <1>4, <1>5, <1>6

(* The entry read: where the directory is, and what buf has of it.         *)
LEMMA EntryRead ==
    ASSUME RkIInv, NextEntry
    PROVE  LET rest == Cell(dirfile)
           IN  \/ phase' \in {"error", "undefined"} /\ UNCHANGED <<dirfile, buf>>
               \/ /\ phase' = "loop" /\ rest \in Nat /\ rest < BUF
                  /\ dirfile.pos + rest + 1 <= dirfile.size
                  /\ rest = DirCell(dirfile.pos) /\ dirfile' = AfterRead(dirfile, rest + 1)
                  /\ buf' \in [0 .. BUF - 1 -> Nat]
                  /\ \A c \in 0 .. BUF - 1 : c <= rest => buf'[c] = DirCell(dirfile.pos + c)
<1> DEFINE rest == Cell(dirfile)
           left == dirfile.size - dirfile.pos - 1
<1>1. /\ phase = "next" /\ dirfile.pos # dirfile.size
      /\ phase' = EntryOutcome(rest, left)
      /\ phase' # "loop" => UNCHANGED <<dirfile, buf>>
      /\ phase' = "loop" =>
          /\ buf' = [c \in DOMAIN buf |->
                        IF c <= rest THEN Cell(AfterRead(dirfile, c)) ELSE buf[c]]
          /\ dirfile' = AfterRead(dirfile, rest + 1)
  BY DEF NextEntry, Eof, RestOfEntry
<1>2. /\ Space /\ Types /\ Root /\ DirRead /\ dirfile \in RkFiles /\ dirfile.pos <= dirfile.size
      /\ buf \in [0 .. BUF - 1 -> Nat]
  BY <1>1, ReadingFacts DEF Types
<1>3. dirfile.pos \in Nat /\ dirfile.size \in Nat
  BY <1>2, FileTypes
<1>4. dirfile.pos < dirfile.size /\ left \in Nat
  BY <1>1, <1>2, <1>3
<1>5. rest = DirCell(dirfile.pos) /\ rest \in Nat
  <2>1. Cell(dirfile) = DirCell(dirfile.pos)
    BY <1>2, CellIsDirCell
  <2>2. DirCell(dirfile.pos) \in Nat
    BY <1>2, <1>3, <1>4, DirOnDisk
  <2>3. QED
    BY <2>1, <2>2
<1> HIDE DEF rest, left
<1>6. CASE phase' # "loop"
  BY <1>1, <1>4, <1>5, <1>6, OutcomeOfEntry
<1>7. CASE phase' = "loop"
  <2>1. rest <= left /\ rest < BUF
    BY <1>1, <1>4, <1>5, <1>7, OutcomeOfEntry
  <2>2. dirfile.pos + rest + 1 <= dirfile.size
    BY <1>3, <1>4, <1>5, <2>1 DEF left
  <2>3. BUF \in Nat
    BY CellNumbers
  <2>4. ASSUME NEW c \in 0 .. BUF - 1, c <= rest
        PROVE  Cell(AfterRead(dirfile, c)) = DirCell(dirfile.pos + c)
               /\ DirCell(dirfile.pos + c) \in Nat
    <3>1. c \in Nat /\ dirfile.pos + c \in Nat /\ dirfile.pos + c < dirfile.size
      BY <1>3, <1>5, <2>2, <2>3, <2>4
    <3>2. Cell(AfterRead(dirfile, c)) = DirCell(dirfile.pos + c)
      BY <1>2, <3>1, CellIsDirCell
    <3>3. DirCell(dirfile.pos + c) \in Nat
      BY <1>2, <3>1, DirOnDisk
    <3>4. QED
      BY <3>2, <3>3
  <2>5. buf' = [c \in 0 .. BUF - 1 |->
                    IF c <= rest THEN Cell(AfterRead(dirfile, c)) ELSE buf[c]]
    BY <1>1, <1>2, <1>7
  <2>6. buf' \in [0 .. BUF - 1 -> Nat]
    <3>1. ASSUME NEW c \in 0 .. BUF - 1
          PROVE  (IF c <= rest THEN Cell(AfterRead(dirfile, c)) ELSE buf[c]) \in Nat
      <4>1. CASE c <= rest
        <5>1. Cell(AfterRead(dirfile, c)) \in Nat
          BY <2>4, <4>1
        <5>2. QED
          BY <4>1, <5>1
      <4>2. CASE ~(c <= rest)
        <5>1. buf[c] \in Nat
          BY <1>2, <3>1
        <5>2. QED
          BY <4>2, <5>1
      <4>3. QED
        BY <4>1, <4>2
    <3>2. QED
      BY <2>5, <3>1, Zenon
  <2>7. \A c \in 0 .. BUF - 1 : c <= rest => buf'[c] = DirCell(dirfile.pos + c)
    BY <2>4, <2>5
  <2>8. QED
    BY <1>1, <1>5, <1>7, <2>1, <2>2, <2>6, <2>7 DEF rest
<1>8. QED
  BY <1>6, <1>7

(* The entry of fs[k] starts in the directory, before its end.             *)
LEMMA EntryIn ==
    ASSUME NEW fs \in Seq(Files), NEW d, NEW at, EntriesAt(d, fs, at), NEW k \in 1 .. Len(fs)
    PROVE  LET first == d[root_sec][root_entry + dir_cluster_start]
               Dir(p) == d[first + p \div SECTOR][p % SECTOR]
           IN  /\ at[k] \in Nat /\ at[k + 1] \in Nat /\ at[Len(fs) + 1] \in Nat
               /\ Dir(at[k]) \in dir_name .. BUF - 1
               /\ at[k + 1] = at[k] + Dir(at[k]) + 1 /\ at[k + 1] <= at[Len(fs) + 1]
               /\ Dir(at[k] + dir_name) = fs[k].name
               /\ Dir(at[k] + dir_file_size) = Len(fs[k].bytes)
               /\ at[k] < at[Len(fs) + 1]
<1> DEFINE n == Len(fs)
           first == d[root_sec][root_entry + dir_cluster_start]
           Dir(p) == d[first + p \div SECTOR][p % SECTOR]
           a == at[k]
           b == at[k + 1]
           e == at[n + 1]
           x == Dir(at[k])
<1>1. DOMAIN fs = 1 .. n /\ n \in Nat /\ k \in DOMAIN fs
  OBVIOUS
<1>2. /\ at \in [1 .. n + 1 -> Nat] /\ x \in dir_name .. BUF - 1 /\ b = a + x + 1 /\ b <= e
      /\ Dir(at[k] + dir_name) = fs[k].name
      /\ Dir(at[k] + dir_file_size) = Len(fs[k].bytes)
  BY <1>1 DEF EntriesAt
<1> HIDE DEF first, Dir, n
<1>3. k \in 1 .. n + 1 /\ k + 1 \in 1 .. n + 1 /\ n + 1 \in 1 .. n + 1
  BY <1>1 DEF n
<1>4. a \in Nat /\ b \in Nat /\ e \in Nat
  BY <1>2, <1>3
<1> HIDE DEF a, b, e, x
<1>5. x \in Int /\ x >= 6
  BY <1>2, CellNumbers
<1>6. a < e
  BY <1>2, <1>4, <1>5
<1>7. QED
  BY <1>2, <1>4, <1>6 DEF a, b, e, x, Dir, first, n

(* Where an entry of the directory starts, that entry is read.             *)
LEMMA EntryAtPos ==
    ASSUME RkIInv, NextEntry, phase' = "loop", NEW at, EntriesAt(disk, files, at),
           NEW k \in 0 .. Len(files), dirfile.pos = at[k + 1]
    PROVE  /\ k + 1 \in 1 .. Len(files) /\ dirfile'.pos = at[(k + 1) + 1]
           /\ buf'[dir_name] = files[k + 1].name
           /\ buf'[dir_file_size] = Len(files[k + 1].bytes)
           /\ buf'[dir_cluster_start] = DirCell(at[k + 1] + dir_cluster_start)
<1> DEFINE rest == Cell(dirfile)
           n == Len(files)
           j == k + 1
<1>1. /\ rest \in Nat /\ rest < BUF /\ dirfile.pos + rest + 1 <= dirfile.size
      /\ rest = DirCell(dirfile.pos) /\ dirfile' = AfterRead(dirfile, rest + 1)
      /\ \A c \in 0 .. BUF - 1 : c <= rest => buf'[c] = DirCell(dirfile.pos + c)
  BY EntryRead
<1>2. /\ DirRead /\ dirfile \in RkFiles /\ files \in Seq(Files) /\ n \in Nat
  BY ReadingFacts DEF NextEntry, Types
<1>3. dirfile.pos \in Nat /\ dirfile.size \in Nat
  BY <1>2, FileTypes
<1>4. dirfile.size = at[n + 1]
  BY <1>2 DEF DirRead, RootCell, EntriesAt
<1>5. dirfile'.pos = dirfile.pos + (rest + 1)
  <2>1. rest + 1 \in Nat
    BY <1>1
  <2> HIDE DEF rest
  <2>2. QED
    BY <1>1, <1>2, <2>1, ReadType
<1>6. j \in 1 .. n
  <2>1. dirfile.pos < dirfile.size
    BY <1>1, <1>3
  <2>2. k # n
    BY <1>3, <1>4, <2>1
  <2>3. k \in 0 .. n
    OBVIOUS
  <2> HIDE DEF n
  <2>4. QED
    BY <1>2, <2>2, <2>3
<1>7. /\ DirCell(at[j]) \in dir_name .. BUF - 1
      /\ at[j + 1] = at[j] + DirCell(at[j]) + 1
      /\ DirCell(at[j] + dir_name) = files[j].name
      /\ DirCell(at[j] + dir_file_size) = Len(files[j].bytes)
  <2>1. dirfile.first = disk[root_sec][root_entry + dir_cluster_start]
    BY <1>2 DEF DirRead, RootCell
  <2>2. j \in 1 .. Len(files)
    BY <1>6
  <2> HIDE DEF j, n
  <2>3. QED
    BY <1>2, <2>1, <2>2, EntryIn, SMTT(30) DEF DirCell
<1>8. dirfile.pos = at[j] /\ rest = DirCell(at[j])
  BY <1>1
<1>9. rest >= dir_name /\ dirfile'.pos = at[j + 1]
  <2>1. dirfile'.pos = dirfile.pos + rest + 1 /\ rest \in Nat
    BY <1>1, <1>3, <1>5
  <2> HIDE DEF rest, j
  <2>2. QED
    BY <1>7, <1>8, <2>1, CellNumbers
<1>10. /\ dir_name \in 0 .. BUF - 1 /\ dir_file_size \in 0 .. BUF - 1
       /\ dir_cluster_start \in 0 .. BUF - 1
       /\ dir_name <= rest /\ dir_file_size <= rest /\ dir_cluster_start <= rest
  <2> HIDE DEF rest
  <2>1. QED
    BY <1>1, <1>9, CellNumbers
<1>11. /\ buf'[dir_name] = files[j].name /\ buf'[dir_file_size] = Len(files[j].bytes)
       /\ buf'[dir_cluster_start] = DirCell(at[j] + dir_cluster_start)
  BY <1>1, <1>7, <1>8, <1>10
<1>12. QED
  BY <1>6, <1>9, <1>11

LEMMA NextEntryStep ==
    ASSUME RkIInv, NextEntry
    PROVE  RkIInv'
<1> DEFINE rest == Cell(dirfile)
<1>1. /\ phase = "next"
      /\ UNCHANGED <<disk, free, file, todo, packed, files, host, listed, mode>>
  BY DEF NextEntry
<1>2. CASE phase' \in {"error", "undefined"} /\ UNCHANGED <<dirfile, buf>>
  BY <1>1, <1>2, StopReading
<1>3. CASE /\ phase' = "loop" /\ rest \in Nat /\ rest < BUF
           /\ dirfile.pos + rest + 1 <= dirfile.size
           /\ rest = DirCell(dirfile.pos) /\ dirfile' = AfterRead(dirfile, rest + 1)
           /\ buf' \in [0 .. BUF - 1 -> Nat]
           /\ \A c \in 0 .. BUF - 1 : c <= rest => buf'[c] = DirCell(dirfile.pos + c)
  <2>1. /\ mode # "pack" /\ Space /\ Types /\ Root /\ DirRead
        /\ dirfile \in RkFiles /\ dirfile.cluster_end >= dirfile.first - 1
        /\ dirfile.cluster_size <= COUNT
        /\ file.pos <= file.size /\ file.offset <= SECTOR
    BY <1>1, ReadingFacts DEF Types
  <2>2. COUNT' = COUNT /\ Space'
    BY <1>1, <2>1, SpaceSame
  <2>3. Root' /\ Pack' /\ ~Packing'
    BY <1>1, <1>3, <2>1, <2>2, RootSame, NotPacking
  <2>4. /\ dirfile' \in RkFiles /\ dirfile'.first = dirfile.first
        /\ dirfile'.cluster_size = dirfile.cluster_size
        /\ dirfile'.cluster_end = dirfile.cluster_end
        /\ dirfile'.size = dirfile.size /\ dirfile'.pos = dirfile.pos + (rest + 1)
        /\ dirfile'.offset < SECTOR
    <3>1. rest + 1 \in Nat
      BY <1>3
    <3>2. dirfile' = AfterRead(dirfile, rest + 1)
      BY <1>3
    <3> HIDE DEF rest
    <3>3. QED
      BY <2>1, <3>1, <3>2, ReadType
  <2>5. /\ SECTOR \in Nat /\ dirfile.pos \in Nat /\ dirfile.size \in Nat
        /\ dirfile.cluster_end \in Int /\ dirfile.first \in Nat /\ dirfile'.offset \in Nat
    BY <2>1, <2>4, CellNumbers, FileTypes
  <2>6. dirfile'.pos <= dirfile'.size /\ dirfile'.size > 0 /\ dirfile'.offset <= SECTOR
        /\ dirfile'.cluster_end >= dirfile'.first - 1
    <3>1. dirfile'.pos = dirfile.pos + rest + 1 /\ rest \in Nat
      BY <1>3, <2>4, <2>5
    <3>2. dirfile'.pos <= dirfile'.size /\ dirfile'.size > 0
      BY <1>3, <2>4, <2>5, <3>1
    <3>3. QED
      BY <2>1, <2>4, <2>5, <3>2
  <2>7. Types'
    BY <1>1, <1>3, <2>1, <2>4, <2>6 DEF Types, Packing, Ended
  <2>8. DirRead'
    <3>1. At(dirfile)
      BY <2>1 DEF DirRead, At
    <3>2. rest + 1 \in Nat /\ dirfile' = AfterRead(dirfile, rest + 1)
      BY <1>3
    <3> HIDE DEF rest
    <3>3. At(dirfile')
      BY <2>1, <3>1, <3>2, ReadAt
    <3>4. \A c : RootCell(c)' = RootCell(c)
      BY <1>1 DEF RootCell
    <3>5. QED
      BY <2>1, <2>4, <2>6, <3>3, <3>4 DEF DirRead, At
  <2>9. Read'
    BY <1>1, <2>1, <2>2, <2>3, <2>4, <2>6, <2>8 DEF Read
  <2>10. ASSUME mode = "list" /\ IsWhole
         PROVE  \E at : EntriesAt(disk, files, at) /\ Shown(at)'
    <3>1. PICK at : EntriesAt(disk, files, at) /\ Shown(at)
      BY <2>10 DEF RkIInv, Listing
    <3>2. PICK k \in 0 .. Len(files) : ListedTo(k) /\ dirfile.pos = at[k + 1]
      BY <1>1, <3>1 DEF Shown
    <3> DEFINE j == k + 1
    <3>3. /\ j \in 1 .. Len(files) /\ dirfile'.pos = at[j + 1] /\ k \in Nat
          /\ buf'[dir_name] = files[j].name /\ buf'[dir_file_size] = Len(files[j].bytes)
      BY <1>3, <3>1, <3>2, EntryAtPos
    <3>4. ListedTo(j - 1)'
      <4>1. j - 1 = k
        BY <3>3
      <4>2. ListedTo(k)'
        BY <1>1, <3>2 DEF ListedTo
      <4>3. QED
        BY <4>1, <4>2
    <3> HIDE DEF j
    <3>5. Shown(at)'
      BY <1>1, <1>3, <3>3, <3>4 DEF Shown
    <3>6. QED
      BY <3>1, <3>5
  <2>11. Listing'
    BY <1>1, <1>3, <2>10 DEF Listing, IsWhole
  <2>12. QED
    BY <2>2, <2>3, <2>7, <2>9, <2>11 DEF RkIInv
<1>4. QED
  BY <1>2, <1>3, EntryRead

LEMMA EnterDirStep ==
    ASSUME RkIInv, EnterDir
    PROVE  RkIInv'
BY StopReading DEF EnterDir

(* One more line of the list.                                              *)
Line(f) == [name |-> f.name, size |-> Len(f.bytes)]

LEMMA LineAppended ==
    ASSUME NEW fs, NEW k \in Nat, k >= 1, NEW l, l = [e \in 1 .. k - 1 |-> Line(fs[e])]
    PROVE  Append(l, Line(fs[k])) = [e \in 1 .. k |-> Line(fs[e])]
<1> DEFINE x == Line(fs[k])
           m == [e \in 1 .. k |-> Line(fs[e])]
           T == {Line(fs[e]) : e \in 1 .. k}
<1>1. l \in Seq(T) /\ Len(l) = k - 1
  <2>1. l \in [1 .. k - 1 -> T]
    <3>1. ASSUME NEW e \in 1 .. k - 1 PROVE Line(fs[e]) \in T
      BY e \in 1 .. k
    <3> HIDE DEF T
    <3>2. QED
      BY <3>1
  <2> HIDE DEF T
  <2>2. k - 1 \in Nat
    OBVIOUS
  <2>3. QED
    BY <2>1, <2>2
<1>2. m \in Seq(T) /\ Len(m) = k
  <2>1. m \in [1 .. k -> T]
    OBVIOUS
  <2> HIDE DEF T, m
  <2>2. DOMAIN m = 1 .. k
    BY <2>1
  <2>3. QED
    BY <2>1, <2>2
<1>3. x \in T
  BY k \in 1 .. k
<1>4. \A e \in 1 .. k - 1 : l[e] = m[e]
  OBVIOUS
<1>5. m[k] = x
  BY k \in 1 .. k
<1> HIDE DEF x, m, T
<1>6. Append(l, x) \in Seq(T) /\ Len(Append(l, x)) = k
  BY <1>1, <1>3
<1>7. ASSUME NEW e \in 1 .. k PROVE Append(l, x)[e] = m[e]
  <2>1. CASE e = k
    BY <1>1, <1>3, <1>5, <2>1
  <2>2. CASE e # k
    BY <1>1, <1>3, <1>4, <2>2
  <2>3. QED
    BY <2>1, <2>2
<1>8. Append(l, x) = m
  BY <1>2, <1>6, <1>7, SeqEqual
<1>9. QED
  BY <1>8 DEF x, m

LEMMA ListEntryStep ==
    ASSUME RkIInv, ListEntry
    PROVE  RkIInv'
<1> DEFINE line == [name |-> buf[dir_name], size |-> buf[dir_file_size]]
<1>1. /\ phase = "loop" /\ phase' = "next"
      /\ mode = "list" => listed' = Append(listed, line)
      /\ mode # "list" => listed' = listed
      /\ UNCHANGED <<disk, free, dirfile, file, todo, buf, packed, files, host, mode>>
  BY DEF ListEntry
<1>2. /\ mode # "pack" /\ Space /\ Types /\ Root /\ DirRead
      /\ dirfile.cluster_size <= COUNT
      /\ dirfile.pos <= dirfile.size /\ dirfile.offset <= SECTOR
      /\ file.pos <= file.size /\ file.offset <= SECTOR
  BY <1>1, ReadingFacts
<1>3. COUNT' = COUNT /\ Space'
  BY <1>1, <1>2, SpaceSame
<1>4. Root' /\ Pack' /\ ~Packing'
  BY <1>1, <1>2, <1>3, RootSame, NotPacking
<1>5. listed' \in Seq([name : Nat, size : Nat])
  <2>1. line \in [name : Nat, size : Nat]
    <3>1. dir_name \in 0 .. BUF - 1 /\ dir_file_size \in 0 .. BUF - 1
      BY CellNumbers
    <3>2. buf[dir_name] \in Nat /\ buf[dir_file_size] \in Nat
      BY <1>2, <3>1 DEF Types
    <3>3. QED
      BY <3>2
  <2> HIDE DEF line
  <2>2. listed \in Seq([name : Nat, size : Nat])
    BY <1>2 DEF Types
  <2>3. listed' = listed \/ listed' = Append(listed, line)
    BY <1>1
  <2> DEFINE R == [name : Nat, size : Nat]
             m == listed'
  <2>4. line \in R /\ listed \in Seq(R) /\ (m = listed \/ m = Append(listed, line))
    BY <2>1, <2>2, <2>3
  <2> HIDE DEF R, m
  <2>5. m \in Seq(R)
    BY <2>4
  <2>6. QED
    BY <2>5 DEF R, m
<1>6. Types'
  BY <1>1, <1>2, <1>5 DEF Types, Packing, Ended
<1>7. DirRead'
  BY <1>1, <1>2 DEF DirRead, RootCell
<1>8. Read'
  BY <1>1, <1>2, <1>3, <1>4, <1>7 DEF Read
<1>9. ASSUME mode = "list" /\ IsWhole
      PROVE  \E at : EntriesAt(disk, files, at) /\ Shown(at)'
  <2>1. PICK at : EntriesAt(disk, files, at) /\ Shown(at)
    BY <1>9 DEF RkIInv, Listing
  <2>2. PICK k \in 1 .. Len(files) :
            /\ ListedTo(k - 1) /\ dirfile.pos = at[k + 1]
            /\ buf[dir_name] = files[k].name /\ buf[dir_file_size] = Len(files[k].bytes)
    BY <1>1, <2>1 DEF Shown
  <2>3. line = Line(files[k])
    BY <2>2 DEF Line
  <2>4. k \in Nat /\ k >= 1 /\ k \in 0 .. Len(files)
    BY <1>2, <2>2 DEF Types
  <2>5. listed = [e \in 1 .. k - 1 |-> Line(files[e])]
    BY <2>2 DEF ListedTo, Line
  <2>6. listed' = [e \in 1 .. k |-> Line(files[e])]
    <3>1. listed' = Append(listed, Line(files[k]))
      BY <1>1, <1>9, <2>3
    <3>2. Append(listed, Line(files[k])) = [e \in 1 .. k |-> Line(files[e])]
      BY <2>4, <2>5, LineAppended
    <3>3. QED
      BY <3>1, <3>2
  <2>7. ListedTo(k)'
    BY <1>1, <2>4, <2>6 DEF ListedTo, Line
  <2>8. Shown(at)'
    BY <1>1, <2>2, <2>4, <2>7 DEF Shown
  <2>9. QED
    BY <2>1, <2>8
<1>10. Listing'
  BY <1>1, <1>9 DEF Listing, IsWhole
<1>11. QED
  BY <1>3, <1>4, <1>6, <1>8, <1>10 DEF RkIInv

LEMMA OpenFileStep ==
    ASSUME RkIInv, OpenFile
    PROVE  RkIInv'
<1>1. /\ phase = "loop" /\ mode = "unpack" /\ phase' = "save"
      /\ file' = NewFile(buf[dir_cluster_start], buf[dir_cluster_size], buf[dir_file_size])
      /\ UNCHANGED <<disk, free, dirfile, todo, buf, packed, files, listed, mode>>
  BY DEF OpenFile
<1>2. /\ Space /\ Types /\ Root /\ DirRead /\ dirfile.size > 0
      /\ dirfile.cluster_size <= COUNT
      /\ dirfile.pos <= dirfile.size /\ dirfile.offset <= SECTOR
  BY <1>1, ReadingFacts
<1>3. COUNT' = COUNT /\ Space'
  BY <1>1, <1>2, SpaceSame
<1>4. Root' /\ Pack' /\ ~Packing'
  BY <1>1, <1>2, <1>3, RootSame, NotPacking
<1>5. /\ file' \in RkFiles /\ file'.cluster_end >= file'.first - 1
      /\ file'.pos <= file'.size /\ file'.offset <= SECTOR
  <2>1. /\ dir_cluster_start \in 0 .. BUF - 1 /\ dir_cluster_size \in 0 .. BUF - 1
        /\ dir_file_size \in 0 .. BUF - 1 /\ SECTOR \in Nat
    BY CellNumbers
  <2>2. /\ buf[dir_cluster_start] \in Nat /\ buf[dir_cluster_size] \in Nat
        /\ buf[dir_file_size] \in Nat
    BY <1>2, <2>1 DEF Types
  <2>3. file' = NewFile(buf[dir_cluster_start], buf[dir_cluster_size], buf[dir_file_size])
    BY <1>1
  <2>4. QED
    BY <2>1, <2>2, <2>3 DEF NewFile, RkFiles
<1>6. Types'
  BY <1>1, <1>2, <1>5 DEF Types, Packing, Ended
<1>7. DirRead'
  BY <1>1, <1>2 DEF DirRead, RootCell
<1>8. Read'
  BY <1>1, <1>2, <1>3, <1>4, <1>5, <1>7 DEF Read
<1>9. Listing'
  BY <1>1 DEF Listing
<1>10. QED
  BY <1>3, <1>4, <1>6, <1>8, <1>9 DEF RkIInv

LEMMA SaveByteStep ==
    ASSUME RkIInv, SaveByte
    PROVE  RkIInv'
<1>1. /\ phase = "save" /\ file.pos # file.size
      /\ \/ phase' = "undefined" /\ file' = file
         \/ phase' = phase /\ file' = AfterRead(file, 1)
      /\ UNCHANGED <<disk, free, dirfile, todo, buf, packed, files, listed, mode>>
  BY DEF SaveByte, Eof
<1>2. CASE phase' = "undefined" /\ file' = file
  BY <1>1, <1>2, StopReading
<1>3. CASE phase' = phase /\ file' = AfterRead(file, 1)
  <2>1. /\ mode # "pack" /\ mode = "unpack" /\ Space /\ Types /\ Root /\ DirRead
        /\ dirfile.size > 0 /\ dirfile.cluster_size <= COUNT
        /\ dirfile.pos <= dirfile.size /\ dirfile.offset <= SECTOR
        /\ file \in RkFiles /\ file.cluster_end >= file.first - 1 /\ file.pos <= file.size
    BY <1>1, ReadingFacts DEF Types
  <2>2. COUNT' = COUNT /\ Space'
    BY <1>1, <2>1, SpaceSame
  <2>3. Root' /\ Pack' /\ ~Packing'
    BY <1>1, <1>3, <2>1, <2>2, RootSame, NotPacking
  <2>4. /\ file' \in RkFiles /\ file'.cluster_end >= file'.first - 1
        /\ file'.pos <= file'.size /\ file'.offset <= SECTOR
    <3> DEFINE i == 1
    <3>1. file' = AfterRead(file, i) /\ i \in Nat
      BY <1>3
    <3>2. file.pos \in Nat /\ file.size \in Nat /\ file.pos + i <= file.size /\ SECTOR \in Nat
      BY <1>1, <2>1, FileTypes, CellNumbers
    <3> HIDE DEF i
    <3>3. /\ file' \in RkFiles /\ file'.first = file.first
          /\ file'.cluster_end = file.cluster_end
          /\ file'.pos = file.pos + i /\ file'.size = file.size /\ file'.offset < SECTOR
      BY <2>1, <3>1, ReadType
    <3>4. file'.offset \in Nat
      BY <3>3, FileTypes
    <3>5. QED
      BY <2>1, <3>2, <3>3, <3>4
  <2>5. Types'
    BY <1>1, <1>3, <2>1, <2>4 DEF Types, Packing, Ended
  <2>6. DirRead'
    BY <1>1, <2>1 DEF DirRead, RootCell
  <2>7. Read'
    BY <1>1, <1>3, <2>1, <2>2, <2>3, <2>4, <2>6 DEF Read
  <2>8. Listing'
    BY <1>1, <1>3, <2>1 DEF Listing
  <2>9. QED
    BY <2>2, <2>3, <2>5, <2>7, <2>8 DEF RkIInv
<1>4. QED
  BY <1>1, <1>2, <1>3

(* The file saved is closed: next() goes on in the first entry, at what is *)
(* behind its start and sizes.  The root sector is another one.            *)
LEMMA CloseSaved ==
    ASSUME RkIInv, CloseFile, phase = "save"
    PROVE  RkIInv'
<1>1. /\ phase' = "next"
      /\ UNCHANGED <<free, file, todo, buf, packed, files, host, listed, mode>>
  BY DEF CloseFile
<1>2. /\ mode # "pack" /\ mode = "unpack" /\ Space /\ Types /\ Root /\ DirRead
      /\ dirfile \in RkFiles /\ dirfile.size > 0 /\ dirfile.cluster_size <= COUNT
      /\ file.pos <= file.size /\ file.offset <= SECTOR
  BY ReadingFacts DEF RkIInv, Types
<1>3. /\ SECTOR \in Nat /\ SECTOR >= 8 /\ dir_name = 6 /\ root_sec = 1 /\ COUNT \in Nat
      /\ dirfile.first \in Nat /\ dirfile.size \in Nat /\ COUNT >= 3
  BY <1>2, CellNumbers, FileTypes, SpaceFacts
<1>4. dirfile.first >= 4 /\ dirfile.first < free.start /\ dirfile.size > dir_name
  <2> DEFINE p == 0
  <2>1. p \in Nat /\ p < dirfile.size
    BY <1>2, <1>3
  <2> HIDE DEF p
  <2>2. QED
    BY <1>2, <2>1, DirOnDisk
<1>5. /\ Space' /\ COUNT' = COUNT /\ dirfile' \in RkFiles
      /\ dirfile'.first = dirfile.first /\ dirfile'.cluster_size = dirfile.cluster_size
      /\ dirfile'.size = dirfile.size /\ dirfile'.sector = dirfile.first
      /\ dirfile'.offset = 5 /\ dirfile'.pos = 5 /\ dirfile'.cluster_end = dirfile.first
      /\ \A t \in 1 .. COUNT : t # dirfile.first => disk'[t] = disk[t]
  BY <1>2, <1>4, CloseStart
<1>6. disk'[root_sec] = disk[root_sec]
  <2>1. root_sec \in 1 .. COUNT /\ root_sec # dirfile.first
    BY <1>3, <1>4
  <2>2. QED
    BY <1>5, <2>1
<1>7. \A c : RootCell(c)' = RootCell(c)
  BY <1>6 DEF RootCell
<1>8. Root'
  BY <1>1, <1>2, <1>5, <1>6, <1>7 DEF Root
<1>9. Pack' /\ ~Packing'
  BY <1>1, NotPacking
<1>10. DirRead'
  <2>1. 5 \div SECTOR = 0 /\ 5 % SECTOR = 5
    BY <1>3, DivFacts
  <2>2. dirfile'.sector = dirfile'.first + dirfile'.pos \div SECTOR
    BY <1>3, <1>5, <2>1
  <2>3. dirfile'.offset = dirfile'.pos % SECTOR /\ dirfile'.pos <= dirfile'.size
    BY <1>3, <1>4, <1>5, <2>1
  <2>4. QED
    BY <1>2, <1>5, <1>7, <2>2, <2>3 DEF DirRead
<1>11. dirfile'.cluster_end >= dirfile'.first - 1
  BY <1>3, <1>5
<1>12. Types'
  BY <1>1, <1>2, <1>5, <1>11 DEF Types, Packing, Ended
<1>13. Read'
  <2>1. dirfile'.pos <= dirfile'.size /\ dirfile'.offset <= SECTOR
    BY <1>3, <1>4, <1>5
  <2>2. /\ dirfile'.cluster_size <= COUNT' /\ file'.pos <= file'.size /\ file'.offset <= SECTOR
    BY <1>1, <1>2, <1>5
  <2>3. phase' = "next"
    BY <1>1
  <2>4. QED
    BY <1>8, <1>10, <2>1, <2>2, <2>3 DEF Read
<1>14. Listing'
  BY <1>1, <1>2 DEF Listing
<1>15. QED
  BY <1>5, <1>9, <1>12, <1>13, <1>14 DEF RkIInv

LEMMA CloseFileStep ==
    ASSUME RkIInv, CloseFile
    PROVE  RkIInv'
BY CloseImported, CloseSaved DEF CloseFile

-----------------------------------------------------------------------------
(* The disks to begin with.                                                *)
LEMMA FormattedFacts ==
    ASSUME NEW n \in Nat, n >= 3, NEW d, d = FormattedDisk(n)
    PROVE  /\ d \in Disks(n) /\ Max(DOMAIN d) = n
           /\ d[root_sec][root_first_free] = 4 /\ d[root_sec][root_free_size] = n - 3
           /\ d[root_sec][root_entry + dir_cluster_start] = 0
           /\ d[root_sec][root_entry + dir_cluster_size] = 0
           /\ d[root_sec][root_entry + dir_file_size] = 0
           /\ \A s \in 1 .. n : s # root_sec => d[s] = ClearSector
<1> DEFINE r == RootSector(n)
           a == root_first_free
           b == root_free_size
           e == root_entry + dir_entry_size
           g == root_entry + dir_flags
<1>1. /\ a = 0 /\ b = 1 /\ e = 2 /\ g = 3 /\ root_sec = 1 /\ dir_name \in Nat /\ DIR \in Nat
      /\ root_entry + dir_cluster_start = 4 /\ root_entry + dir_cluster_size = 5
      /\ root_entry + dir_file_size = 6 /\ SECTOR \in Nat /\ SECTOR >= 8
  BY CellNumbers
<1>2. r = [ClearSector EXCEPT ![a] = 4, ![b] = n - 3, ![e] = dir_name, ![g] = DIR]
  BY DEF RootSector
<1> HIDE DEF r, a, b, e, g
<1>3. ClearSector \in [0 .. SECTOR - 1 -> Nat]
      /\ \A c \in 0 .. SECTOR - 1 : ClearSector[c] = 0
  BY DEF ClearSector
<1> DEFINE p == 4
<1>4. p \in Nat /\ n - 3 \in Nat
  OBVIOUS
<1>5. r \in [0 .. SECTOR - 1 -> Nat]
  BY <1>1, <1>2, <1>3, <1>4
<1>6. /\ r[a] = 4 /\ r[b] = n - 3
      /\ \A c \in 0 .. SECTOR - 1 : c >= 4 => r[c] = 0
  BY <1>1, <1>2, <1>3
<1>7. d = [s \in 1 .. n |-> IF s = root_sec THEN r ELSE ClearSector]
  BY DEF FormattedDisk, r
<1>8. d \in Disks(n)
  BY <1>3, <1>5, <1>7 DEF Disks
<1>9. d[root_sec] = r /\ \A s \in 1 .. n : s # root_sec => d[s] = ClearSector
  BY <1>1, <1>7
<1>10. Max(DOMAIN d) = n
  <2>1. DOMAIN d = 1 .. n /\ n >= 1
    BY <1>7
  <2>2. QED
    BY <2>1, LastSector
<1>11. /\ d[root_sec][root_entry + dir_cluster_start] = 0
       /\ d[root_sec][root_entry + dir_cluster_size] = 0
       /\ d[root_sec][root_entry + dir_file_size] = 0
  BY <1>1, <1>6, <1>9
<1>12. QED
  BY <1>6, <1>8, <1>9, <1>10, <1>11 DEF a, b

LEMMA NewFileType ==
    ASSUME NEW first \in Nat, NEW cluster_size \in Nat, NEW size \in Nat
    PROVE  LET f == NewFile(first, cluster_size, size)
           IN  /\ f \in RkFiles /\ f.cluster_end >= f.first - 1
               /\ f.pos = 0 /\ f.offset = 0 /\ f.first = first /\ f.sector = first
               /\ f.size = size /\ f.cluster_size = cluster_size
               /\ f.cluster_end = first + cluster_size - 1
BY DEF NewFile, RkFiles

LEMMA RkInit == Init => RkIInv
<1> SUFFICES ASSUME Init PROVE RkIInv
  OBVIOUS
<1>1. /\ free = [start |-> disk[root_sec][root_first_free],
                 size |-> disk[root_sec][root_free_size]]
      /\ dirfile = RootDirFile /\ file = NoFile /\ todo = <<>> /\ buf = ClearBuf /\ listed = <<>>
      /\ phase = IF mode = "pack" THEN "pack" ELSE "open"
  BY DEF Init
<1>2. SECTOR \in Nat /\ SECTOR >= 8 /\ BUF = 10
  BY CellNumbers
<1>3. /\ file \in RkFiles /\ file.cluster_end >= file.first - 1 /\ file.cluster_size = 0
      /\ file.pos <= file.size /\ file.offset <= SECTOR
  <2>1. file = NewFile(0, 0, 0)
    BY <1>1 DEF NoFile
  <2>2. QED
    BY <1>2, <2>1 DEF NewFile, RkFiles
<1>4. buf \in [0 .. BUF - 1 -> Nat] /\ todo \in Seq(Nat)
  BY <1>1 DEF ClearBuf
<1>5. listed \in Seq([name : Nat, size : Nat])
  BY <1>1
<1>6. CASE /\ \E count \in Counts : disk = FormattedDisk(count)
           /\ packed = TRUE /\ files = <<>> /\ mode = "pack"
  <2>1. PICK n \in Counts : disk = FormattedDisk(n)
    BY <1>6
  <2>2. n \in Nat /\ n >= 3
    BY CountsAssumption
  <2>3. /\ disk \in Disks(n) /\ COUNT = n
        /\ disk[root_sec][root_first_free] = 4 /\ disk[root_sec][root_free_size] = n - 3
        /\ RootCell(dir_cluster_start) = 0 /\ RootCell(dir_cluster_size) = 0
        /\ RootCell(dir_file_size) = 0
        /\ \A s \in 1 .. n : s # root_sec => disk[s] = ClearSector
    BY <2>1, <2>2, FormattedFacts DEF COUNT, RootCell
  <2>4. Space
    <3>1. /\ free.start = 4 /\ free.size = n - 3 /\ free.start \in Nat /\ free.size \in Nat
          /\ root_sec = 1 /\ free \in [start : Nat, size : Nat]
      BY <1>1, <2>2, <2>3, CellNumbers
    <3>2. \A s \in free.start .. n : s \in 1 .. n /\ s # root_sec
      BY <2>2, <3>1
    <3>3. free.start >= 4 /\ free.start + free.size = n + 1
      BY <2>2, <3>1
    <3>4. QED
      BY <2>2, <2>3, <3>1, <3>2, <3>3 DEF Space, SpaceOf
  <2>5. /\ dirfile \in RkFiles /\ dirfile.cluster_end >= dirfile.first - 1
        /\ dirfile.cluster_size = 0 /\ NoDir
    <3>1. dirfile = NewFile(0, 0, 0)
      BY <1>1, <2>3 DEF RootDirFile
    <3>2. QED
      BY <3>1 DEF NewFile, RkFiles, NoDir
  <2>6. phase = "pack" /\ files \in Seq(Files) /\ Entries = 0
    BY <1>1, <1>6 DEF Entries
  <2>7. Types
    BY <1>1, <1>3, <1>4, <1>5, <1>6, <2>5, <2>6 DEF Types, Packing, Ended
  <2>8. Pack
    BY <1>3, <2>5, <2>6 DEF Pack, PackEntry, PackImport, OnlyEntry
  <2>9. Read /\ Listing
    BY <1>6, <2>6 DEF Read, Listing
  <2>10. QED
    BY <2>4, <2>7, <2>8, <2>9 DEF RkIInv
<1>7. CASE \E image \in Foreign :
            /\ disk = image.disk /\ packed = FALSE /\ files = image.files
            /\ mode \in {"list", "unpack"}
  <2>1. PICK image \in Foreign :
            /\ disk = image.disk /\ packed = FALSE /\ files = image.files
            /\ mode \in {"list", "unpack"}
    BY <1>7
  <2>2. IsImage(disk) /\ files \in Seq(Files) /\ EntriesAt(disk, files, image.at)
    BY <2>1, ForeignAssumption
  <2>3. /\ COUNT \in Nat /\ COUNT >= 3 /\ disk \in Disks(COUNT)
        /\ disk[root_sec][root_first_free] >= 4
        /\ disk[root_sec][root_first_free] + disk[root_sec][root_free_size] = COUNT + 1
        /\ \A s \in disk[root_sec][root_first_free] .. COUNT : disk[s] = ClearSector
        /\ RootCell(dir_cluster_size) <= COUNT
        /\ DirIn(RootCell(dir_cluster_start), RootCell(dir_file_size),
                 disk[root_sec][root_first_free])
    BY <2>2 DEF IsImage, COUNT, RootCell
  <2>4. /\ disk[root_sec][root_first_free] \in Nat /\ disk[root_sec][root_free_size] \in Nat
        /\ RootCell(dir_cluster_start) \in Nat /\ RootCell(dir_cluster_size) \in Nat
        /\ RootCell(dir_file_size) \in Nat
    <3>1. /\ root_sec \in 1 .. COUNT
          /\ root_first_free \in Nat /\ root_first_free < SECTOR
          /\ root_free_size \in Nat /\ root_free_size < SECTOR
          /\ root_entry + dir_cluster_start \in Nat /\ root_entry + dir_cluster_start < SECTOR
          /\ root_entry + dir_cluster_size \in Nat /\ root_entry + dir_cluster_size < SECTOR
          /\ root_entry + dir_file_size \in Nat /\ root_entry + dir_file_size < SECTOR
      BY <2>3, CellNumbers
    <3>2. QED
      BY <2>3, <3>1, DiskCell DEF RootCell
  <2>5. /\ free.start = disk[root_sec][root_first_free]
        /\ free.size = disk[root_sec][root_free_size]
        /\ free \in [start : Nat, size : Nat]
    BY <1>1, <2>4
  <2>6. Space
    BY <2>3, <2>5 DEF Space, SpaceOf
  <2>7. Root
    BY <2>3, <2>5 DEF Root
  <2>8. /\ dirfile \in RkFiles /\ dirfile.cluster_end >= dirfile.first - 1
        /\ dirfile.pos = 0 /\ dirfile.offset = 0 /\ dirfile.size = RootCell(dir_file_size)
        /\ dirfile.cluster_size = RootCell(dir_cluster_size)
    <3> DEFINE x == RootCell(dir_cluster_start)
               y == RootCell(dir_cluster_size)
               z == RootCell(dir_file_size)
    <3>1. dirfile = NewFile(x, y, z) /\ x \in Nat /\ y \in Nat /\ z \in Nat
      BY <1>1, <2>4 DEF RootDirFile
    <3> HIDE DEF x, y, z
    <3>2. /\ dirfile \in RkFiles /\ dirfile.cluster_end >= dirfile.first - 1
          /\ dirfile.pos = 0 /\ dirfile.offset = 0 /\ dirfile.size = z
          /\ dirfile.cluster_size = y
      BY <3>1, NewFileType
    <3>3. QED
      BY <3>2 DEF y, z
  <2>9. phase = "open" /\ mode # "pack"
    BY <1>1, <2>1
  <2>10. Types
    BY <1>1, <1>3, <1>4, <1>5, <2>1, <2>2, <2>8, <2>9 DEF Types, Packing, Ended
  <2>11. Pack
    BY <2>9 DEF Pack, Packing
  <2>12. Read
    BY <1>2, <1>3, <2>3, <2>4, <2>7, <2>8, <2>9 DEF Read
  <2>13. Listing
    <3>1. Shown(image.at)
      BY <1>1, <2>9 DEF Shown
    <3>2. QED
      BY <2>2, <3>1 DEF Listing
  <2>14. QED
    BY <2>6, <2>10, <2>11, <2>12, <2>13 DEF RkIInv
<1>8. QED
  BY <1>6, <1>7 DEF Init

LEMMA RkStep == RkIInv /\ [Next]_vars => RkIInv'
<1> SUFFICES ASSUME RkIInv, [Next]_vars PROVE RkIInv'
  OBVIOUS
<1>1. ASSUME NEW size \in Sizes,
             CreateFile(FileName(Len(files) + 1), Bytes(Len(files) + 1, size))
      PROVE  RkIInv'
  <2>1. size \in Nat /\ Len(files) + 1 \in Nat
    BY SizesAssumption DEF RkIInv, Types
  <2>2. FileName(Len(files) + 1) \in Nat /\ Bytes(Len(files) + 1, size) \in Seq(Nat)
    BY <2>1, BytesSeq DEF FileName
  <2>3. QED
    BY <1>1, <2>2, CreateFileStep
<1>2. ASSUME WriteByte PROVE RkIInv'
  BY <1>2, WriteEntry, WriteImport DEF WriteByte
<1>3. ASSUME StartImport PROVE RkIInv'
  BY <1>3, StartImportStep
<1>4. ASSUME CloseFile PROVE RkIInv'
  BY <1>4, CloseFileStep
<1>5. ASSUME EndPack PROVE RkIInv'
  BY <1>5, EndPackStep
<1>6. ASSUME OpenRootDir PROVE RkIInv'
  BY <1>6, OpenRootDirStep
<1>7. ASSUME NextAtEnd PROVE RkIInv'
  BY <1>7, NextAtEndStep
<1>8. ASSUME NextEntry PROVE RkIInv'
  BY <1>8, NextEntryStep
<1>9. ASSUME EnterDir PROVE RkIInv'
  BY <1>9, EnterDirStep
<1>10. ASSUME ListEntry PROVE RkIInv'
  BY <1>10, ListEntryStep
<1>11. ASSUME OpenFile PROVE RkIInv'
  BY <1>11, OpenFileStep
<1>12. ASSUME SaveByte PROVE RkIInv'
  BY <1>12, SaveByteStep
<1>13. ASSUME UNCHANGED vars PROVE RkIInv'
  <2>1. Space' /\ COUNT' = COUNT
    BY <1>13, SpaceSame DEF vars, RkIInv
  <2>2. Types'
    BY <1>13 DEF vars, RkIInv, Types, Packing, Ended
  <2>3. Pack'
    BY <1>13 DEF vars, RkIInv, Pack, Packing, PackEntry, PackImport, OnlyEntry, EntryToBegin,
        EntryBegun, FileBegun, DirKept, NoDir, Entries
  <2>4. Read'
    BY <1>13, <2>1 DEF vars, RkIInv, Read, Root, RootCell, DirRead, Ended
  <2>5. Listing'
    BY <1>13 DEF vars, RkIInv, Listing, Shown, ListedTo, IsWhole
  <2>6. QED
    BY <2>1, <2>2, <2>3, <2>4, <2>5 DEF RkIInv
<1>14. QED
  BY <1>1, <1>2, <1>3, <1>4, <1>5, <1>6, <1>7, <1>8, <1>9, <1>10, <1>11, <1>12, <1>13 DEF Next

(* The inductive invariant holds in every state.                           *)
LEMMA RkInvariant == Spec => []RkIInv
<1>1. Init => RkIInv
  BY RkInit
<1>2. RkIInv /\ [Next]_vars => RkIInv'
  BY RkStep
<1>3. QED
  BY <1>1, <1>2, PTL DEF Spec

-----------------------------------------------------------------------------
(* The bytes of files: byte k is in this cell.                             *)
SectorOf(first, k) == first + (k - 1) \div SECTOR
OffsetOf(k) == (k - 1) % SECTOR
ByteIn(d, first, k) == d[SectorOf(first, k)][OffsetOf(k)]
DirStart == RootCell(dir_cluster_start)
Date == disk[DirStart][dir_date]
DirByte(p) == disk[DirStart + p \div SECTOR][p % SECTOR]

(* n bytes of a file are in sectors after `low', before `high'.  When      *)
(* there is more than a sector, the first of each sector is lost.          *)
PackedIn(d, low, high, first, n, bytes) ==
    \A k \in 1 .. n :
        /\ low < SectorOf(first, k) /\ SectorOf(first, k) < high
        /\ ByteIn(d, first, k) = bytes[k] \/ (n > SECTOR /\ k % SECTOR = 1)

(* The only file packed is behind the directory.                           *)
PackedTo(first, n) == PackedIn(disk, dirfile.first, free.start, first, n, files[1].bytes)

ImportSoFar ==
    /\ \A k \in 1 .. Len(todo) : todo[k] = files[1].bytes[file.pos + k]
    /\ PackedTo(file.first, file.pos)
    /\ IF file.pos = 0 THEN file = NoFile
       ELSE /\ file.sector = SectorOf(file.first, file.pos)
            /\ file.offset = OffsetOf(file.pos) + 1

PackData ==
    packed /\ Entries = 1 =>
        /\ phase \in {"import", "pack"} => disk[dirfile.first][dir_date] = 0
        /\ phase = "import" => ImportSoFar
        /\ phase = "pack" =>
            PackedTo(disk[dirfile.first][dir_cluster_start], Len(files[1].bytes))

(* Bytes are held from a sector on, outside the sector that unpack writes. *)
Lost(lossy, bytes, k) == lossy /\ Len(bytes) > SECTOR /\ k % SECTOR = 1
HeldIn(d, n, dir, lossy, first, bytes) ==
    \A k \in 1 .. Len(bytes) :
        /\ SectorOf(first, k) \in 1 .. n /\ SectorOf(first, k) # dir
        /\ ByteIn(d, first, k) = bytes[k] \/ Lost(lossy, bytes, k)
Held(first, bytes) == HeldIn(disk, COUNT, DirStart, packed, first, bytes)

AllKept(at) ==
    /\ EntriesAt(disk, files, at)
    /\ \A k \in 1 .. Len(files) : Held(DirByte(at[k] + dir_cluster_start), files[k].bytes)

NoDate == packed /\ files # <<>> => Date = 0
OpenData ==
    phase = "open" /\ IsWhole => NoDate /\ \E at : AllKept(at)

(* Nothing is saved but by unpack.                                         *)
HostEmpty == mode # "unpack" \/ phase = "open" => DOMAIN host = {}

(* Before a file with a byte is met.                                       *)
NoneTo(k) == \A e \in 1 .. k : files[e].bytes = <<>>
EntryInBuf(at, k) ==
    /\ buf[dir_name] = files[k].name /\ buf[dir_file_size] = Len(files[k].bytes)
    /\ buf[dir_cluster_start] = DirByte(at[k] + dir_cluster_start)
NoneYet(at) ==
    /\ AllKept(at)
    /\ phase = "next" => \E k \in 0 .. Len(files) : dirfile.pos = at[k + 1] /\ NoneTo(k)
    /\ phase = "loop" => \E k \in 1 .. Len(files) :
                            dirfile.pos = at[k + 1] /\ NoneTo(k - 1) /\ EntryInBuf(at, k)
Before == phase \in {"next", "loop"} /\ DOMAIN host = {} /\ NoDate /\ \E at : NoneYet(at)

(* While the first one is saved, and before it is saved again.             *)
First == files[FirstFile]
FirstInBuf ==
    /\ FirstFile \in 1 .. Len(files) /\ First.bytes # <<>> /\ NoDate
    /\ buf[dir_name] = First.name /\ buf[dir_file_size] = Len(First.bytes)
    /\ Held(buf[dir_cluster_start], First.bytes)
SavedTo(n) ==
    /\ DOMAIN host = {First.name} /\ host[First.name] \in Seq(Nat)
    /\ Len(host[First.name]) = n
    /\ \A k \in 1 .. n : host[First.name][k] = First.bytes[k] \/ Lost(packed, First.bytes, k)
Saving ==
    /\ phase = "save" /\ FirstInBuf /\ SavedTo(file.pos)
    /\ file.first = buf[dir_cluster_start] /\ file.size = Len(First.bytes) /\ At(file)
Again ==
    /\ phase \in {"next", "loop"} /\ FirstInBuf /\ SavedTo(Len(First.bytes)) /\ Date = 0
    /\ dirfile.pos = IF phase = "next" THEN dir_date ELSE dir_date + 1

(* A date is taken for the size of an entry: no entry is read from the     *)
(* start of the directory any more.                                        *)
Astray ==
    /\ phase \in {"next", "loop", "save"} /\ ~packed /\ Date # 0 /\ dirfile.pos > 0
    /\ phase # "next" => dirfile.pos # buf[dir_entry_size] + 1

Unpacking ==
    mode = "unpack" /\ IsWhole /\ phase \in {"next", "loop", "save"} =>
        Before \/ Saving \/ Again \/ Astray

SaveIInv == RkIInv /\ HostEmpty /\ PackData /\ OpenData /\ Unpacking
-----------------------------------------------------------------------------
(* Where bytes are.                                                        *)
LEMMA CellIndex ==
    ASSUME NEW first \in Nat, NEW k \in Nat, k >= 1
    PROVE  /\ k - 1 \in Nat /\ SectorOf(first, k) \in Nat /\ SectorOf(first, k) >= first
           /\ OffsetOf(k) \in Nat /\ OffsetOf(k) < SECTOR
<1>1. SECTOR \in Nat /\ SECTOR > 0 /\ k - 1 \in Nat
  BY CellNumbers
<1> DEFINE a == k - 1
<1> HIDE DEF a
<1>2. a \in Nat
  BY <1>1 DEF a
<1>3. a \div SECTOR \in Nat /\ a % SECTOR \in Nat /\ a % SECTOR < SECTOR
  BY <1>1, <1>2, DivFacts
<1>4. SectorOf(first, k) = first + a \div SECTOR /\ OffsetOf(k) = a % SECTOR
  BY DEF SectorOf, OffsetOf, a
<1>5. QED
  BY <1>1, <1>3, <1>4

LEMMA FirstCell ==
    ASSUME NEW first \in Nat
    PROVE  SectorOf(first, 1) = first /\ OffsetOf(1) = 0
<1> DEFINE z == 0
<1>1. SECTOR \in Nat /\ SECTOR > 0 /\ z \in Nat /\ z < SECTOR /\ 1 - 1 = z
  BY CellNumbers
<1>2. z \div SECTOR = 0 /\ z % SECTOR = z
  BY <1>1, DivFacts
<1>3. SectorOf(first, 1) = first + z \div SECTOR /\ OffsetOf(1) = z % SECTOR
  BY <1>1 DEF SectorOf, OffsetOf
<1>4. QED
  BY <1>2, <1>3

LEMMA NextCell ==
    ASSUME NEW first \in Nat, NEW k \in Nat, k >= 1
    PROVE  /\ OffsetOf(k) + 1 < SECTOR =>
                SectorOf(first, k + 1) = SectorOf(first, k) /\ OffsetOf(k + 1) = OffsetOf(k) + 1
           /\ OffsetOf(k) + 1 = SECTOR =>
                SectorOf(first, k + 1) = SectorOf(first, k) + 1 /\ OffsetOf(k + 1) = 0
<1> DEFINE a == k - 1
           o == a % SECTOR
           q == a \div SECTOR
           i == 1
<1>1. SECTOR \in Nat /\ SECTOR > 0 /\ a \in Nat /\ i \in Nat /\ a + i = k
      /\ (k + 1) - 1 = k
  BY CellNumbers
<1>2. q \in Nat /\ o \in Nat /\ o < SECTOR
  <2> HIDE DEF a
  <2>1. QED
    BY <1>1, DivFacts
<1>3. k \div SECTOR = q + ((o + i) \div SECTOR) /\ k % SECTOR = (o + i) % SECTOR
  <2>1. /\ (a + i) \div SECTOR = (a \div SECTOR) + (((a % SECTOR) + i) \div SECTOR)
        /\ (a + i) % SECTOR = ((a % SECTOR) + i) % SECTOR
    <3> HIDE DEF a, i
    <3>1. QED
      BY <1>1, DivSum
  <2>2. QED
    BY <1>1, <2>1
<1>4. /\ SectorOf(first, k) = first + q /\ OffsetOf(k) = o
      /\ SectorOf(first, k + 1) = first + k \div SECTOR /\ OffsetOf(k + 1) = k % SECTOR
  BY <1>1 DEF SectorOf, OffsetOf
<1> DEFINE p == o + i
<1>5. p \in Nat /\ p = o + 1
  BY <1>2
<1> HIDE DEF a, o, q, i
<1>6. k \div SECTOR = q + p \div SECTOR /\ k % SECTOR = p % SECTOR
  BY <1>3
<1> HIDE DEF p
<1>7. p < SECTOR => p \div SECTOR = 0 /\ p % SECTOR = p
  BY <1>1, <1>5, DivFacts
<1>8. SECTOR \div SECTOR = 1 /\ SECTOR % SECTOR = 0
  BY <1>1
<1>9. CASE p < SECTOR
  BY <1>2, <1>4, <1>5, <1>6, <1>7, <1>9
<1>10. CASE p = SECTOR
  BY <1>2, <1>4, <1>5, <1>6, <1>8, <1>10
<1>11. QED
  BY <1>4, <1>5, <1>9, <1>10

(* The first byte of a sector.                                             *)
LEMMA FirstOfSector ==
    ASSUME NEW k \in Nat, k >= 1, OffsetOf(k) = 0
    PROVE  k % SECTOR = 1
<1> DEFINE a == k - 1
           i == 1
<1>1. SECTOR \in Nat /\ SECTOR > 1 /\ SECTOR > 0 /\ a \in Nat /\ i \in Nat /\ a + i = k /\ i < SECTOR
  BY CellNumbers
<1>2. a % SECTOR = 0
  BY DEF OffsetOf
<1> HIDE DEF a, i
<1>3. (a + i) % SECTOR = ((a % SECTOR) + i) % SECTOR
  BY <1>1, DivSum
<1>4. i % SECTOR = i
  BY <1>1, DivFacts
<1>5. QED
  BY <1>1, <1>2, <1>3, <1>4 DEF i

LEMMA SameParts ==
    ASSUME NEW S \in Nat, S > 0, NEW a \in Nat, NEW b \in Nat,
           a \div S = b \div S, a % S = b % S
    PROVE  a = b
OBVIOUS

LEMMA CellsApart ==
    ASSUME NEW first \in Nat, NEW j \in Nat, NEW k \in Nat, j >= 1, k >= 1,
           SectorOf(first, j) = SectorOf(first, k), OffsetOf(j) = OffsetOf(k)
    PROVE  j = k
<1> DEFINE a == j - 1
           b == k - 1
           p == a \div SECTOR
           q == b \div SECTOR
<1>1. SECTOR \in Nat /\ SECTOR > 0 /\ a \in Nat /\ b \in Nat
  BY CellNumbers
<1>2. first + p = first + q /\ a % SECTOR = b % SECTOR
  BY DEF SectorOf, OffsetOf
<1> HIDE DEF a, b
<1>3. p \in Nat /\ q \in Nat
  BY <1>1, DivFacts
<1>4. p = q
  <2> HIDE DEF p, q
  <2>1. QED
    BY <1>2, <1>3
<1>5. a = b
  BY <1>1, <1>2, <1>4, SameParts
<1>6. QED
  BY <1>5 DEF a, b

(* Packing is not yet unpacking, and unpacking not packing any more.       *)
LEMMA StillPacking ==
    ASSUME mode' = "pack", phase' # "open" PROVE OpenData' /\ Unpacking'
BY DEF OpenData, Unpacking

LEMMA PackingPast ==
    ASSUME phase' \notin {"import", "pack"} PROVE PackData'
BY DEF PackData

LEMMA NotToOpen ==
    ASSUME phase' # "open" PROVE OpenData'
BY DEF OpenData

LEMMA NewEntryDate ==
    ASSUME NEW name \in Nat
    PROVE  NewEntry(name)[dir_date + 1] = 0
<1> DEFINE n == dir_name + 1
           first == dir_entry_size + 1
           date == dir_date + 1
<1>1. n \in Nat /\ date \in 1 .. n /\ date # n /\ date # first
  BY CellNumbers
<1>2. NewEntry(name) = [c \in 1 .. n |->
          IF c = first THEN dir_name ELSE IF c = n THEN name ELSE 0]
  BY DEF NewEntry
<1> HIDE DEF n, first, date
<1>3. NewEntry(name)[date] = 0
  BY <1>1, <1>2
<1>4. QED
  BY <1>3 DEF date

(* The file to be imported has all its bytes before it.                    *)
LEMMA StartImportSaves ==
    ASSUME SaveIInv, StartImport
    PROVE  PackData' /\ OpenData' /\ Unpacking'
<1>1. /\ phase = "entry" /\ todo = <<>> /\ phase' = "import" /\ todo' = Last(files).bytes
      /\ UNCHANGED <<disk, free, dirfile, file, buf, packed, files, host, listed, mode>>
  BY DEF StartImport
<1>2. mode = "pack" /\ packed = TRUE /\ files \in Seq(Files)
  BY <1>1 DEF SaveIInv, RkIInv, Types, Packing
<1>3. OpenData' /\ Unpacking'
  BY <1>1, <1>2, StillPacking
<1>4. ASSUME Entries = 1
      PROVE  disk[dirfile.first][dir_date] = 0 /\ ImportSoFar'
  <2>1. /\ file = NoFile
        /\ EntrySoFar(disk, dirfile.first, todo, NewEntry(files[1].name))
    BY <1>1, <1>2, <1>4 DEF SaveIInv, RkIInv, Pack, Packing, PackEntry, OnlyEntry
  <2>2. files[1] \in Files /\ Last(files) = files[1]
    BY <1>2, <1>4 DEF Entries, Last
  <2>3. files[1].name \in Nat
    BY <2>2 DEF Files
  <2> DEFINE e == NewEntry(files[1].name)
  <2>4. e[dir_date + 1] = 0
    BY <2>3, NewEntryDate
  <2> HIDE DEF e
  <2>5. \A c \in 1 .. ENTRY : disk[dirfile.first][c - 1] = e[c]
    <3>1. Len(todo) = 0 /\ ENTRY = 7
      BY <1>1, CellNumbers
    <3>2. QED
      BY <2>1, <3>1 DEF EntrySoFar, e
  <2>6. dir_date + 1 \in 1 .. ENTRY /\ (dir_date + 1) - 1 = dir_date
    BY CellNumbers
  <2>7. disk[dirfile.first][dir_date] = 0
    BY <2>4, <2>5, <2>6
  <2>8. file'.pos = 0 /\ file' = NoFile
    BY <1>1, <2>1 DEF NoFile, NewFile
  <2>9. ImportSoFar'
    <3> DEFINE bytes == files[1].bytes
    <3>1. todo' = bytes /\ files' = files
      BY <1>1, <2>2
    <3>2. bytes \in Seq(Nat)
      BY <2>2 DEF Files
    <3>3. \A k \in 1 .. Len(bytes) : bytes[k] = bytes[0 + k]
      BY <3>2
    <3>4. \A k \in 1 .. Len(todo') : todo'[k] = files'[1].bytes[file'.pos + k]
      BY <2>8, <3>1, <3>3
    <3>5. \A k \in 1 .. file'.pos : FALSE
      BY <2>8
    <3>6. PackedTo(file.first, file.pos)'
      BY <3>5 DEF PackedTo, PackedIn
    <3>7. QED
      BY <2>8, <3>4, <3>6 DEF ImportSoFar, NoFile
  <2>10. QED
    BY <2>7, <2>9
<1>5. PackData'
  BY <1>1, <1>4 DEF PackData, Entries
<1>6. QED
  BY <1>3, <1>5

(* What writing a byte of the only file does: it is the first one, or in   *)
(* the sector of the one before, or the first of another sector.           *)
PutFirst(b) ==
    /\ file.pos = 0 /\ free.start \in 1 .. COUNT
    /\ disk' = CellSet(disk, free.start, 0, b) /\ free'.start = free.start + 1
    /\ file'.first = free.start /\ file'.sector = free.start /\ file'.offset = 1
PutNext(b) ==
    /\ file.pos > 0 /\ file.sector \in 1 .. COUNT /\ file.offset < SECTOR
    /\ disk' = CellSet(disk, file.sector, file.offset, b) /\ free' = free
    /\ file'.first = file.first /\ file'.sector = file.sector
    /\ file'.offset = file.offset + 1
PutOver(b) ==
    /\ file.pos > 0 /\ file.sector \in 1 .. COUNT /\ file.offset = SECTOR
    /\ free.start = file.sector + 1 /\ free.start <= COUNT
    /\ disk' = CellSet(disk, file.sector, 0, b) /\ free'.start = free.start + 1
    /\ file'.first = file.first /\ file'.sector = free.start /\ file'.offset = 1

LEMMA ImportedByte ==
    ASSUME SaveIInv, WriteByte, phase = "import", phase' = "import", packed, Entries = 1
    PROVE  /\ PutFirst(Head(todo)) \/ PutNext(Head(todo)) \/ PutOver(Head(todo))
           /\ file'.pos = file.pos + 1
<1> DEFINE b == Head(todo)
           w == Written(Work(disk, file), b)
<1>1. /\ disk' = w.disk /\ free' = w.free /\ file' = w.file /\ phase' = PhaseAfter(w, "import")
  BY DEF WriteByte
<1>2. /\ Space /\ Types /\ file \in RkFiles /\ dirfile \in RkFiles /\ DirKept
      /\ file = NoFile \/ FileBegun
      /\ file.pos <= file.size /\ ImportSoFar
  BY DEF SaveIInv, RkIInv, Types, Packing, Pack, PackImport, PackData
<1>3. /\ SECTOR \in Nat /\ SECTOR >= 8
      /\ COUNT \in Nat /\ free \in [start : Nat, size : Nat]
      /\ free.start \in Nat /\ free.size \in Nat
      /\ free.start >= 4 /\ free.start + free.size = COUNT + 1
  BY <1>2, CellNumbers, SpaceFacts
<1>4. /\ file.first \in Nat /\ file.cluster_end \in Int /\ file.end_offset \in Nat
      /\ file.sector \in Nat /\ file.offset \in Nat /\ file.pos \in Nat /\ dirfile.first \in Nat
  BY <1>2, FileTypes
<1>5. file = NoFile => file.first = 0 /\ file.offset = 0 /\ file.sector = 0 /\ file.pos = 0
  BY DEF NoFile, NewFile
<1>6. FileBegun =>
        /\ file.first > 0 /\ file.sector >= 1 /\ file.sector < free.start
        /\ file.sector = file.cluster_end /\ file.end_offset = SECTOR /\ file.offset <= SECTOR
        /\ file.pos > 0
  <2>1. file.pos = 0 => file = NoFile
    BY <1>2 DEF ImportSoFar
  <2>2. QED
    BY <1>3, <1>4, <1>5, <2>1 DEF FileBegun
<1>7. file.first = 0 => file.offset < SECTOR
  BY <1>2, <1>3, <1>5, <1>6
<1> HIDE DEF w, b
<1>8. \/ WriteFails(w, file) \/ WriteFirst(w, file, b)
      \/ WriteSame(w, file, b) \/ WriteGrown(w, file, b)
  BY <1>2, <1>3, <1>7, WrittenCases DEF w
<1>9. ~WriteFails(w, file)
  BY <1>1 DEF WriteFails, PhaseAfter
<1>10. CASE WriteFirst(w, file, b)
  <2>1. file = NoFile
    BY <1>2, <1>6, <1>10 DEF WriteFirst
  <2>2. /\ file.pos = 0 /\ file.offset = 0 /\ free.start \in 1 .. COUNT
    BY <1>3, <1>5, <1>10, <2>1 DEF WriteFirst
  <2>4. /\ disk' = CellSet(disk, free.start, file.offset, b) /\ free'.start = free.start + 1
        /\ file'.first = free.start /\ file'.sector = free.start
        /\ file'.offset = file.offset + 1 /\ file'.pos = file.pos + 1
    BY <1>1, <1>10 DEF WriteFirst, CellSet
  <2>5. PutFirst(b)
    BY <2>2, <2>4 DEF PutFirst
  <2>3. QED
    BY <2>4, <2>5 DEF b
<1>11. CASE WriteSame(w, file, b)
  <2>1. FileBegun
    BY <1>2, <1>5, <1>11 DEF WriteSame
  <2>2. file.offset # SECTOR
    BY <1>6, <1>11, <2>1 DEF WriteSame, AtClusterEnd
  <2>3. PutNext(b) /\ file'.pos = file.pos + 1
    BY <1>1, <1>3, <1>4, <1>6, <1>11, <2>1, <2>2 DEF WriteSame, PutNext, CellSet
  <2>4. QED
    BY <2>3 DEF b
<1>12. CASE WriteGrown(w, file, b)
  <2>1. FileBegun
    BY <1>2, <1>5, <1>12 DEF WriteGrown
  <2>2. file.offset = SECTOR
    BY <1>6, <1>12, <2>1 DEF WriteGrown, AtClusterEnd
  <2>3. PutOver(b) /\ file'.pos = file.pos + 1
    BY <1>1, <1>3, <1>4, <1>6, <1>12, <2>1, <2>2 DEF WriteGrown, PutOver, CellSet
  <2>4. QED
    BY <2>3 DEF b
<1>13. QED
  BY <1>8, <1>9, <1>10, <1>11, <1>12

(* What a written cell is for the byte number k of a file.                 *)
LEMMA ByteWritten ==
    ASSUME NEW e, NEW d, NEW n \in Nat, NEW s, NEW c, NEW b, CellWritten(e, d, n, s, c, b),
           NEW first \in Nat, NEW k \in Nat, k >= 1, SectorOf(first, k) \in 1 .. n
    PROVE  \/ SectorOf(first, k) = s /\ OffsetOf(k) = c /\ ByteIn(e, first, k) = b
           \/ /\ ~(SectorOf(first, k) = s /\ OffsetOf(k) = c)
              /\ ByteIn(e, first, k) = ByteIn(d, first, k)
<1> DEFINE t == SectorOf(first, k)
           o == OffsetOf(k)
<1>1. o \in 0 .. SECTOR - 1
  BY CellIndex, CellNumbers
<1>2. ByteIn(e, first, k) = e[t][o] /\ ByteIn(d, first, k) = d[t][o] /\ t \in 1 .. n
  BY DEF ByteIn
<1> HIDE DEF t, o
<1>3. CASE t = s /\ o = c
  <2>1. e[t][o] = b
    BY <1>3 DEF CellWritten
  <2>2. QED
    BY <1>2, <1>3, <2>1 DEF t, o
<1>4. CASE t = s /\ o # c
  <2>1. e[t][o] = d[t][o]
    BY <1>1, <1>4 DEF CellWritten
  <2>2. QED
    BY <1>2, <1>4, <2>1 DEF t, o
<1>5. CASE t # s
  <2>1. e[t] = d[t]
    BY <1>2, <1>5 DEF CellWritten
  <2>2. QED
    BY <1>2, <1>5, <2>1 DEF t, o
<1>6. QED
  BY <1>3, <1>4, <1>5

(* The last cell of a sector is not that of one of the first bytes.        *)
LEMMA LastOfSector ==
    ASSUME NEW k \in Nat, k >= 1, OffsetOf(k) + 1 = SECTOR
    PROVE  k >= SECTOR
<1> DEFINE a == k - 1
<1>1. SECTOR \in Nat /\ SECTOR > 0 /\ a \in Nat /\ (a % SECTOR) + 1 = SECTOR
  BY CellNumbers DEF OffsetOf
<1> HIDE DEF a
<1>2. a < SECTOR => a % SECTOR = a
  BY <1>1, DivFacts
<1>3. a >= SECTOR \/ a + 1 = SECTOR
  BY <1>1, <1>2
<1>4. QED
  BY <1>1, <1>3 DEF a

(* One more byte of the file, in its cell or, when it is the first of a    *)
(* sector, lost.                                                           *)
LEMMA PackedMore ==
    ASSUME NEW n \in Nat, NEW d, NEW e, NEW s, NEW c, NEW b, CellWritten(e, d, n, s, c, b),
           NEW first \in Nat, NEW p \in Nat, NEW low \in Nat, NEW high \in Nat, NEW top \in Nat,
           NEW bytes, high <= top, top <= n + 1, PackedIn(d, low, high, first, p, bytes),
           low < SectorOf(first, p + 1), SectorOf(first, p + 1) < top, bytes[p + 1] = b,
           \/ s = SectorOf(first, p + 1) /\ c = OffsetOf(p + 1)
           \/ c = 0 /\ OffsetOf(p + 1) = 0 /\ p >= SECTOR
    PROVE  PackedIn(e, low, top, first, p + 1, bytes)
<1> DEFINE q == p + 1
<1>1. q \in Nat /\ q >= 1 /\ q > p /\ SECTOR \in Nat
  BY CellNumbers
<1>2. /\ low < SectorOf(first, q) /\ SectorOf(first, q) < top /\ bytes[q] = b
      /\ \/ s = SectorOf(first, q) /\ c = OffsetOf(q)
         \/ c = 0 /\ OffsetOf(q) = 0 /\ p >= SECTOR
  OBVIOUS
<1>3. p >= SECTOR => q > SECTOR
  BY <1>1
<1>4. \A k \in 1 .. q : k \in Nat /\ k >= 1 /\ (k # q => k \in 1 .. p)
  OBVIOUS
<1>8. p > SECTOR => q > SECTOR
  BY <1>1
<1> HIDE DEF q
<1>5. ASSUME NEW k \in 1 .. q, k # q
      PROVE  /\ low < SectorOf(first, k) /\ SectorOf(first, k) < top
             /\ ByteIn(e, first, k) = bytes[k] \/ (q > SECTOR /\ k % SECTOR = 1)
  <2>1. k \in Nat /\ k >= 1 /\ k \in 1 .. p
    BY <1>4, <1>5
  <2>2. /\ low < SectorOf(first, k) /\ SectorOf(first, k) < high
        /\ ByteIn(d, first, k) = bytes[k] \/ (p > SECTOR /\ k % SECTOR = 1)
    BY <2>1 DEF PackedIn
  <2>3. SectorOf(first, k) \in Nat
    BY <2>1, CellIndex
  <2>4. SectorOf(first, k) < top /\ SectorOf(first, k) \in 1 .. n
    <3> DEFINE t == SectorOf(first, k)
    <3>1. t \in Nat /\ low < t /\ t < high
      BY <2>2, <2>3
    <3> HIDE DEF t
    <3>2. t < top /\ t \in 1 .. n
      BY <3>1
    <3>3. QED
      BY <3>2 DEF t
  <2>5. CASE SectorOf(first, k) = s /\ OffsetOf(k) = c
    <3>1. ~(s = SectorOf(first, q) /\ c = OffsetOf(q))
      BY <1>1, <1>5, <2>1, <2>5, CellsApart
    <3>2. OffsetOf(k) = 0 /\ q > SECTOR
      BY <1>2, <1>3, <2>5, <3>1
    <3>3. k % SECTOR = 1
      BY <2>1, <3>2, FirstOfSector
    <3>4. QED
      BY <2>2, <2>4, <3>2, <3>3
  <2>6. CASE ~(SectorOf(first, k) = s /\ OffsetOf(k) = c)
    <3>1. ByteIn(e, first, k) = ByteIn(d, first, k)
      BY <2>1, <2>4, <2>6, ByteWritten
    <3>2. QED
      BY <1>8, <2>2, <2>4, <3>1
  <2>7. QED
    BY <2>5, <2>6
<1>6. ByteIn(e, first, q) = bytes[q] \/ (q > SECTOR /\ q % SECTOR = 1)
  <2>1. SectorOf(first, q) \in 1 .. n
    <3> DEFINE t == SectorOf(first, q)
    <3>1. t \in Nat /\ low < t /\ t < top
      BY <1>1, <1>2, CellIndex
    <3> HIDE DEF t
    <3>2. t \in 1 .. n
      BY <3>1
    <3>3. QED
      BY <3>2 DEF t
  <2>2. CASE s = SectorOf(first, q) /\ c = OffsetOf(q)
    <3>1. ByteIn(e, first, q) = b
      BY <1>1, <2>1, <2>2, ByteWritten
    <3>2. QED
      BY <1>2, <3>1
  <2>3. CASE c = 0 /\ OffsetOf(q) = 0 /\ p >= SECTOR
    BY <1>1, <1>3, <2>3, FirstOfSector
  <2>4. QED
    BY <1>2, <2>2, <2>3
<1>7. PackedIn(e, low, top, first, q, bytes)
  BY <1>2, <1>5, <1>6 DEF PackedIn
<1>9. QED
  BY <1>7 DEF q

(* The first byte, one in the same sector, and the first one of another.   *)
LEMMA PackedFirst ==
    ASSUME NEW n \in Nat, NEW d \in Disks(n), NEW low \in 1 .. n, NEW high \in 1 .. n, low < high,
           NEW b, NEW bytes, bytes[1] = b, NEW p, p = 0, NEW e, e = CellSet(d, high, 0, b)
    PROVE  /\ PackedIn(e, low, high + 1, high, p + 1, bytes) /\ e[low] = d[low]
           /\ high = SectorOf(high, p + 1) /\ 1 = OffsetOf(p + 1) + 1
<1> DEFINE zero == 0
           top == high + 1
<1>1. zero \in Nat /\ zero < SECTOR /\ e = CellSet(d, high, zero, b) /\ high \in Nat
  BY CellNumbers
<1>2. SectorOf(high, 1) = high /\ OffsetOf(1) = zero
  BY <1>1, FirstCell
<1>3. top \in Nat /\ high <= top /\ top <= n + 1 /\ high < top /\ low \in Nat /\ p \in Nat
      /\ p + 1 = 1
  OBVIOUS
<1>4. 1 = zero + 1
  OBVIOUS
<1> HIDE DEF zero, top
<1>5. CellWritten(e, d, n, high, zero, b)
  BY <1>1, CellOfDisk
<1>6. PackedIn(d, low, high, high, p, bytes)
  <2>1. \A k \in 1 .. p : FALSE
    OBVIOUS
  <2>2. QED
    BY <2>1 DEF PackedIn
<1>7. /\ low < SectorOf(high, p + 1) /\ SectorOf(high, p + 1) < top /\ bytes[p + 1] = b
      /\ high = SectorOf(high, p + 1) /\ zero = OffsetOf(p + 1)
  BY <1>2, <1>3
<1>8. PackedIn(e, low, top, high, p + 1, bytes)
  BY <1>1, <1>3, <1>5, <1>6, <1>7, PackedMore
<1>9. e[low] = d[low]
  BY <1>5 DEF CellWritten
<1>10. QED
  BY <1>4, <1>7, <1>8, <1>9 DEF top

LEMMA PackedNext ==
    ASSUME NEW n \in Nat, NEW d \in Disks(n), NEW low \in 1 .. n, NEW high \in Nat, high <= n + 1,
           NEW b, NEW bytes, NEW p \in Nat, p >= 1, bytes[p + 1] = b,
           NEW f \in Nat, PackedIn(d, low, high, f, p, bytes),
           NEW s, s = SectorOf(f, p), NEW o, o = OffsetOf(p) + 1, o < SECTOR,
           NEW e, e = CellSet(d, s, o, b)
    PROVE  /\ PackedIn(e, low, high, f, p + 1, bytes) /\ e[low] = d[low]
           /\ s = SectorOf(f, p + 1) /\ o = OffsetOf(p + 1)
<1>1. low < s /\ s < high
  BY DEF PackedIn
<1>2. s \in Nat /\ o \in Nat
  <2>1. SectorOf(f, p) \in Nat /\ OffsetOf(p) \in Nat
    BY CellIndex
  <2>2. QED
    BY <2>1
<1>3. s \in 1 .. n /\ low \in Nat /\ high <= high
  BY <1>1, <1>2
<1>4. s = SectorOf(f, p + 1) /\ o = OffsetOf(p + 1)
  BY NextCell
<1>5. CellWritten(e, d, n, s, o, b)
  BY <1>2, <1>3, CellOfDisk
<1>6. PackedIn(e, low, high, f, p + 1, bytes)
  BY <1>1, <1>3, <1>4, <1>5, PackedMore
<1>7. e[low] = d[low]
  BY <1>1, <1>3, <1>5 DEF CellWritten
<1>8. QED
  BY <1>4, <1>6, <1>7

LEMMA PackedOver ==
    ASSUME NEW n \in Nat, NEW d \in Disks(n), NEW low \in 1 .. n, NEW high \in Nat, high <= n,
           NEW b, NEW bytes, NEW p \in Nat, p >= 1, bytes[p + 1] = b,
           NEW f \in Nat, PackedIn(d, low, high, f, p, bytes),
           NEW s, s = SectorOf(f, p), OffsetOf(p) + 1 = SECTOR, high = s + 1,
           NEW e, e = CellSet(d, s, 0, b)
    PROVE  /\ PackedIn(e, low, high + 1, f, p + 1, bytes) /\ e[low] = d[low]
           /\ high = SectorOf(f, p + 1) /\ 1 = OffsetOf(p + 1) + 1
<1> DEFINE zero == 0
           top == high + 1
<1>1. low < s /\ s < high
  BY DEF PackedIn
<1>2. s \in Nat
  BY CellIndex
<1>3. /\ s \in 1 .. n /\ low \in Nat /\ top \in Nat /\ high <= top /\ high < top /\ top <= n + 1
      /\ zero \in Nat /\ zero < SECTOR /\ e = CellSet(d, s, zero, b)
  BY <1>1, <1>2, CellNumbers
<1>4. high = SectorOf(f, p + 1) /\ OffsetOf(p + 1) = zero
  BY NextCell
<1>5. p >= SECTOR
  BY LastOfSector
<1>6. 1 = zero + 1 /\ zero = 0
  OBVIOUS
<1>10. low < high
  BY <1>1, <1>2
<1> HIDE DEF zero, top
<1>7. CellWritten(e, d, n, s, zero, b)
  BY <1>3, CellOfDisk
<1>8. PackedIn(e, low, top, f, p + 1, bytes)
  <2>1. /\ low < SectorOf(f, p + 1) /\ SectorOf(f, p + 1) < top /\ bytes[p + 1] = b
        /\ zero = 0 /\ OffsetOf(p + 1) = 0 /\ p >= SECTOR
    BY <1>3, <1>4, <1>5, <1>6, <1>10
  <2>2. /\ n \in Nat /\ f \in Nat /\ p \in Nat /\ low \in Nat /\ high \in Nat /\ top \in Nat
        /\ high <= top /\ top <= n + 1 /\ PackedIn(d, low, high, f, p, bytes)
    BY <1>3
  <2>3. QED
    BY <1>7, <2>1, <2>2, PackedMore
<1>9. e[low] = d[low]
  BY <1>1, <1>3, <1>7 DEF CellWritten
<1>11. QED
  BY <1>4, <1>6, <1>8, <1>9 DEF top

(* What is left of the bytes, after one of them.                           *)
LEMMA LeftAfter ==
    ASSUME NEW t \in Seq(Nat), t # <<>>, NEW p \in Nat, NEW bytes,
           \A k \in 1 .. Len(t) : t[k] = bytes[p + k]
    PROVE  /\ Head(t) = bytes[p + 1]
           /\ \A k \in 1 .. Len(Tail(t)) : Tail(t)[k] = bytes[(p + 1) + k]
<1> DEFINE u == Tail(t)
           n == Len(t)
<1>1. /\ n \in Nat /\ n >= 1 /\ Head(t) = t[1] /\ Len(u) = n - 1
      /\ \A k \in 1 .. n - 1 : u[k] = t[k + 1]
  BY TailFacts
<1>2. Head(t) = bytes[p + 1]
  BY <1>1
<1> HIDE DEF u, n
<1>3. ASSUME NEW k \in 1 .. Len(u) PROVE u[k] = bytes[(p + 1) + k]
  <2>1. k \in 1 .. n - 1 /\ k + 1 \in 1 .. n /\ p + (k + 1) = (p + 1) + k
    BY <1>1
  <2>2. u[k] = t[k + 1]
    BY <1>1, <2>1
  <2>3. t[k + 1] = bytes[p + (k + 1)]
    BY <2>1 DEF n
  <2>4. QED
    BY <2>1, <2>2, <2>3
<1>4. QED
  BY <1>2, <1>3 DEF u

(* The bytes imported are on the disk, whatever write makes of the next.   *)
LEMMA ImportKept ==
    ASSUME SaveIInv, WriteByte, phase = "import", phase' = "import", packed, Entries = 1
    PROVE  disk'[dirfile.first][dir_date] = 0 /\ ImportSoFar'
<1> DEFINE p == file.pos
           f == file.first
           low == dirfile.first
           high == free.start
           bytes == files[1].bytes
           n == COUNT
           b == Head(todo)
<1>1. /\ todo # <<>> /\ todo' = Tail(todo) /\ UNCHANGED <<dirfile, files>>
  BY DEF WriteByte
<1>2. /\ Space /\ files \in Seq(Files) /\ todo \in Seq(Nat)
      /\ file \in RkFiles /\ dirfile \in RkFiles /\ DirKept
  BY DEF SaveIInv, RkIInv, Types, Packing, Pack, PackImport
<1>3. /\ PutFirst(b) \/ PutNext(b) \/ PutOver(b)
      /\ file'.pos = p + 1
  BY ImportedByte
<1>4. /\ disk[low][dir_date] = 0
      /\ \A k \in 1 .. Len(todo) : todo[k] = bytes[p + k]
      /\ PackedIn(disk, low, high, f, p, bytes)
      /\ p # 0 => file.sector = SectorOf(f, p) /\ file.offset = OffsetOf(p) + 1
  BY DEF SaveIInv, PackData, ImportSoFar, PackedTo
<1>5. /\ n \in Nat /\ disk \in Disks(n) /\ high \in Nat /\ free.size \in Nat
      /\ high + free.size = n + 1 /\ low \in Nat /\ f \in Nat /\ p \in Nat
  BY <1>2, SpaceFacts, FileTypes
<1>6. low >= 4 /\ low < high
  BY <1>2, <1>5 DEF DirKept
<1>7. b = bytes[p + 1] /\ \A k \in 1 .. Len(todo') : todo'[k] = bytes[(p + 1) + k]
  <2>1. /\ todo \in Seq(Nat) /\ todo # <<>> /\ p \in Nat /\ todo' = Tail(todo)
        /\ \A k \in 1 .. Len(todo) : todo[k] = bytes[p + k]
    BY <1>1, <1>2, <1>4, <1>5
  <2> HIDE DEF p, bytes
  <2>2. QED
    BY <2>1, LeftAfter
<1>8. low \in 1 .. n /\ high <= n + 1
  BY <1>5, <1>6
<1>9. /\ PackedIn(disk', low, free'.start, file'.first, p + 1, bytes)
      /\ disk'[low] = disk[low]
      /\ file'.sector = SectorOf(file'.first, p + 1) /\ file'.offset = OffsetOf(p + 1) + 1
  <2>1. CASE PutFirst(b)
    <3>1. /\ p = 0 /\ high \in 1 .. n /\ disk' = CellSet(disk, high, 0, b)
          /\ free'.start = high + 1
          /\ file'.first = high /\ file'.sector = high /\ file'.offset = 1
      BY <2>1 DEF PutFirst
    <3> HIDE DEF p, f, low, high, bytes, n, b
    <3>2. bytes[1] = b
      BY <1>7, <3>1
    <3>3. /\ PackedIn(disk', low, high + 1, high, p + 1, bytes) /\ disk'[low] = disk[low]
          /\ high = SectorOf(high, p + 1) /\ 1 = OffsetOf(p + 1) + 1
      BY <1>5, <1>6, <1>8, <3>1, <3>2, PackedFirst
    <3>4. QED
      BY <3>1, <3>3
  <2>2. CASE PutNext(b)
    <3> DEFINE s == file.sector
               o == file.offset
    <3>1. /\ p > 0 /\ o < SECTOR /\ disk' = CellSet(disk, s, o, b)
          /\ free'.start = high
          /\ file'.first = f /\ file'.sector = s /\ file'.offset = o + 1
      BY <2>2 DEF PutNext
    <3>2. s = SectorOf(f, p) /\ o = OffsetOf(p) + 1
      BY <1>4, <3>1
    <3> HIDE DEF p, f, low, high, bytes, n, b, s, o
    <3>3. p >= 1 /\ bytes[p + 1] = b
      BY <1>5, <1>7, <3>1
    <3>4. /\ PackedIn(disk', low, high, f, p + 1, bytes) /\ disk'[low] = disk[low]
          /\ s = SectorOf(f, p + 1) /\ o = OffsetOf(p + 1)
      BY <1>4, <1>5, <1>8, <3>1, <3>2, <3>3, PackedNext
    <3>5. QED
      BY <3>1, <3>4
  <2>3. CASE PutOver(b)
    <3> DEFINE s == file.sector
    <3>1. /\ p > 0 /\ file.offset = SECTOR /\ high = s + 1
          /\ disk' = CellSet(disk, s, 0, b) /\ free'.start = high + 1
          /\ file'.first = f /\ file'.sector = high /\ file'.offset = 1 /\ high <= n
      BY <2>3 DEF PutOver
    <3>2. s = SectorOf(f, p) /\ OffsetOf(p) + 1 = SECTOR
      BY <1>4, <3>1
    <3> HIDE DEF p, f, low, high, bytes, n, b, s
    <3>3. p >= 1 /\ bytes[p + 1] = b /\ high <= n
      BY <1>5, <1>7, <3>1
    <3>4. /\ PackedIn(disk', low, high + 1, f, p + 1, bytes) /\ disk'[low] = disk[low]
          /\ high = SectorOf(f, p + 1) /\ 1 = OffsetOf(p + 1) + 1
      BY <1>4, <1>5, <1>8, <3>1, <3>2, <3>3, PackedOver
    <3>5. QED
      BY <3>1, <3>4
  <2>4. QED
    BY <1>3, <2>1, <2>2, <2>3
<1>10. disk'[low][dir_date] = 0
  BY <1>4, <1>9
<1>11. ImportSoFar'
  <2>1. /\ dirfile' = dirfile /\ files' = files /\ file'.pos = p + 1 /\ file'.pos # 0
    BY <1>1, <1>3, <1>5
  <2>2. PackedTo(file.first, file.pos)'
    BY <1>9, <2>1 DEF PackedTo
  <2>3. \A k \in 1 .. Len(todo') : todo'[k] = files'[1].bytes[file'.pos + k]
    BY <1>7, <2>1
  <2>4. file'.sector = SectorOf(file'.first, file'.pos) /\ file'.offset = OffsetOf(file'.pos) + 1
    BY <1>9, <2>1
  <2>5. QED
    BY <2>1, <2>2, <2>3, <2>4 DEF ImportSoFar
<1>12. QED
  BY <1>10, <1>11

LEMMA WriteEnds ==
    ASSUME NEW f, NEW b
    PROVE  Written(Work(disk, f), b).outcome \in {"ok", "error", "undefined"}
<1> DEFINE g == FirstAllocated(Work(disk, f))
           h == ClusterGrown(g)
           w == Written(Work(disk, f), b)
<1>1. g.outcome = "ok" /\ "outcome" \in DOMAIN g
  BY DEF FirstAllocated, AfterAlloc, Work
<1> HIDE DEF g
<1>2. h.outcome = "ok" /\ "outcome" \in DOMAIN h
  BY <1>1 DEF ClusterGrown, AfterAlloc
<1>3. /\ h = ClusterGrown(g) /\ g = FirstAllocated(Work(disk, f))
      /\ w = Written(Work(disk, f), b)
  BY DEF g
<1> HIDE DEF h, w
<1>4. WriteFails(w, f) \/ w = Put(h, g.file.sector, b)
  BY <1>3, WrittenFrom
<1>5. CASE w = Put(h, g.file.sector, b)
  <2> DEFINE x == [h.disk EXCEPT ![g.file.sector][h.file.offset] = b]
             y == [h.file EXCEPT !.offset = h.file.offset + 1, !.pos = h.file.pos + 1,
                                 !.size = Max({h.file.size, h.file.pos + 1})]
  <2>1. w = [h EXCEPT !.disk = x, !.file = y]
    BY <1>5, Zenon DEF Put
  <2> HIDE DEF x, y
  <2>2. w.outcome = "ok"
    BY <1>2, <2>1
  <2>3. QED
    BY <2>2 DEF w
<1>6. QED
  BY <1>4, <1>5 DEF WriteFails, w

LEMMA WriteByteSaves ==
    ASSUME SaveIInv, WriteByte
    PROVE  PackData' /\ OpenData' /\ Unpacking'
<1>1. /\ phase' \in {phase, "error", "undefined"} /\ phase \in {"entry", "import"}
      /\ UNCHANGED <<packed, files, mode>>
  <2>1. PICK w \in {Written(Work(disk, IF phase = "entry" THEN dirfile ELSE file), Head(todo))} :
            phase' = PhaseAfter(w, phase)
    BY DEF WriteByte
  <2>2. w.outcome \in {"ok", "error", "undefined"}
    BY WriteEnds
  <2>3. QED
    BY <2>1, <2>2 DEF WriteByte, PhaseAfter
<1>2. mode = "pack" /\ packed = TRUE
  BY <1>1 DEF SaveIInv, RkIInv, Types, Packing
<1>3. OpenData' /\ Unpacking'
  BY <1>1, <1>2, StillPacking
<1>4. CASE phase' = "import" /\ Entries = 1
  <2>1. disk'[dirfile.first][dir_date] = 0 /\ ImportSoFar' /\ dirfile' = dirfile
    BY <1>1, <1>2, <1>4, ImportKept DEF WriteByte
  <2>2. QED
    BY <1>3, <1>4, <2>1 DEF PackData
<1>5. CASE ~(phase' = "import" /\ Entries = 1)
  BY <1>1, <1>3, <1>5 DEF PackData, Entries
<1>6. QED
  BY <1>4, <1>5

LEMMA CreateFileSaves ==
    ASSUME SaveIInv, NEW name, NEW bytes, CreateFile(name, bytes)
    PROVE  PackData' /\ OpenData' /\ Unpacking'
<1>1. phase = "pack" /\ phase' = "entry" /\ mode' = mode
  BY DEF CreateFile
<1>2. mode = "pack"
  BY <1>1 DEF SaveIInv, RkIInv, Types, Packing
<1>3. OpenData' /\ Unpacking'
  BY <1>1, <1>2, StillPacking
<1>4. QED
  BY <1>1, <1>3, PackingPast

LEMMA PackedSame ==
    ASSUME NEW d, NEW e, NEW low \in Nat, NEW high \in Nat, NEW first \in Nat, NEW n \in Nat,
           NEW bytes, PackedIn(d, low, high, first, n, bytes),
           \A t \in Nat : low < t /\ t < high => e[t] = d[t]
    PROVE  PackedIn(e, low, high, first, n, bytes)
<1>1. ASSUME NEW k \in 1 .. n
      PROVE  /\ low < SectorOf(first, k) /\ SectorOf(first, k) < high
             /\ ByteIn(e, first, k) = bytes[k] \/ (n > SECTOR /\ k % SECTOR = 1)
  <2>1. k \in Nat /\ k >= 1
    OBVIOUS
  <2>2. SectorOf(first, k) \in Nat
    BY <2>1, CellIndex
  <2>3. /\ low < SectorOf(first, k) /\ SectorOf(first, k) < high
        /\ ByteIn(d, first, k) = bytes[k] \/ (n > SECTOR /\ k % SECTOR = 1)
    BY DEF PackedIn
  <2>4. e[SectorOf(first, k)] = d[SectorOf(first, k)]
    BY <2>2, <2>3
  <2>5. ByteIn(e, first, k) = ByteIn(d, first, k)
    BY <2>4 DEF ByteIn
  <2>6. QED
    BY <2>3, <2>5
<1>2. QED
  BY <1>1 DEF PackedIn

LEMMA CloseImportedSaves ==
    ASSUME SaveIInv, CloseFile, phase = "import"
    PROVE  PackData' /\ OpenData' /\ Unpacking'
<1>1. /\ todo = <<>> /\ phase' = "pack"
      /\ UNCHANGED <<free, file, todo, buf, packed, files, host, listed, mode>>
  BY DEF CloseFile
<1>2. /\ Space /\ Types /\ mode = "pack" /\ packed = TRUE /\ file \in RkFiles
      /\ dirfile \in RkFiles /\ files \in Seq(Files) /\ DirKept
      /\ file.pos = file.size /\ file.size + Len(todo) = Len(files[Entries].bytes)
  BY DEF SaveIInv, RkIInv, Types, Packing, Pack, PackImport
<1>3. OpenData' /\ Unpacking'
  BY <1>1, <1>2, StillPacking
<1>4. ASSUME Entries = 1
      PROVE  /\ disk'[dirfile'.first][dir_date] = 0
             /\ PackedTo(disk[dirfile.first][dir_cluster_start], Len(files[1].bytes))'
  <2> DEFINE low == dirfile.first
             high == free.start
             f == file.first
             p == file.pos
             bytes == files[1].bytes
             n == COUNT
  <2>1. disk[low][dir_date] = 0 /\ PackedIn(disk, low, high, f, p, bytes)
    BY <1>2, <1>4 DEF SaveIInv, PackData, ImportSoFar, PackedTo
  <2>2. /\ n \in Nat /\ high \in Nat /\ free.size \in Nat /\ high + free.size = n + 1
        /\ low \in Nat /\ f \in Nat /\ p \in Nat /\ SECTOR \in Nat
    BY <1>2, SpaceFacts, FileTypes, CellNumbers
  <2>3. /\ dirfile.size > dir_name /\ low >= 4 /\ low < high
    BY <1>2, <1>4, <2>2, CellNumbers DEF DirKept
  <2>4. /\ dirfile'.first = low /\ low \in 1 .. n
        /\ disk'[low][dir_cluster_start] = f
        /\ \A c \in 0 .. SECTOR - 1 :
              c # dir_cluster_start /\ c # dir_cluster_size /\ c # dir_file_size =>
                  disk'[low][c] = disk[low][c]
        /\ \A t \in 1 .. n : t # low => disk'[t] = disk[t]
    BY <1>2, <2>3, CloseStart
  <2>5. p = Len(bytes)
    <3>1. Len(todo) = 0 /\ file.size \in Nat
      BY <1>1, <1>2, FileTypes
    <3>2. QED
      BY <1>2, <1>4, <3>1
  <2> HIDE DEF low, high, f, p, bytes, n
  <2>6. disk'[low][dir_date] = 0
    <3>1. /\ dir_date \in 0 .. SECTOR - 1 /\ dir_date # dir_cluster_start
          /\ dir_date # dir_cluster_size /\ dir_date # dir_file_size
      BY CellNumbers
    <3>2. QED
      BY <2>1, <2>4, <3>1
  <2>7. \A t \in Nat : low < t /\ t < high => disk'[t] = disk[t]
    <3>1. \A t \in Nat : low < t /\ t < high => t \in 1 .. n /\ t # low
      BY <2>2
    <3>2. QED
      BY <2>4, <3>1
  <2>8. PackedIn(disk', low, high, f, p, bytes)
    BY <2>1, <2>2, <2>7, PackedSame
  <2>9. dirfile'.first = dirfile.first /\ free' = free /\ files' = files
    BY <1>1, <2>4 DEF low
  <2>10. disk'[dirfile'.first][dir_cluster_start] = f /\ Len(files'[1].bytes) = p
    BY <2>4, <2>5, <2>9 DEF bytes
  <2>11. PackedTo(disk[dirfile.first][dir_cluster_start], Len(files[1].bytes))'
    BY <2>8, <2>9, <2>10 DEF PackedTo, low, high, bytes
  <2>12. QED
    BY <2>4, <2>6, <2>11
<1>5. PackData'
  BY <1>1, <1>4 DEF PackData, Entries
<1>6. QED
  BY <1>3, <1>5

(* What is packed is held.                                                 *)
LEMMA PackedHeld ==
    ASSUME NEW d, NEW e, NEW n \in Nat, NEW low \in Nat, NEW high \in Nat, high <= n + 1,
           NEW first \in Nat, NEW bytes, Len(bytes) \in Nat,
           PackedIn(d, low, high, first, Len(bytes), bytes),
           \A t \in Nat : low < t /\ t < high => e[t] = d[t]
    PROVE  HeldIn(e, n, low, TRUE, first, bytes)
<1> DEFINE p == Len(bytes)
<1>1. PackedIn(e, low, high, first, p, bytes)
  BY PackedSame
<1>2. ASSUME NEW k \in 1 .. Len(bytes)
      PROVE  /\ SectorOf(first, k) \in 1 .. n /\ SectorOf(first, k) # low
             /\ ByteIn(e, first, k) = bytes[k] \/ Lost(TRUE, bytes, k)
  <2> DEFINE s == SectorOf(first, k)
  <2>1. s \in Nat
    BY CellIndex
  <2>2. /\ low < s /\ s < high
        /\ ByteIn(e, first, k) = bytes[k] \/ Lost(TRUE, bytes, k)
    BY <1>1 DEF PackedIn, Lost
  <2> HIDE DEF s
  <2>3. s \in 1 .. n /\ s # low
    BY <2>1, <2>2
  <2>4. QED
    BY <2>2, <2>3 DEF s
<1>3. QED
  BY <1>2 DEF HeldIn

LEMMA EndPackSaves ==
    ASSUME SaveIInv, EndPack, DOMAIN host = {}
    PROVE  PackData' /\ OpenData' /\ Unpacking'
<1>1. phase = "pack" /\ phase' = "open"
  BY DEF EndPack
<1>2. /\ Space /\ Types /\ mode = "pack" /\ packed = TRUE
      /\ dirfile \in RkFiles /\ dirfile.cluster_end >= dirfile.first - 1 /\ files \in Seq(Files)
  BY <1>1 DEF SaveIInv, RkIInv, Types, Packing
<1>3. /\ Space' /\ COUNT' = COUNT /\ UNCHANGED <<free, dirfile, file, files, packed>>
      /\ DirStart' = dirfile.first
      /\ \A t \in 1 .. COUNT : t # root_sec => disk'[t] = disk[t]
  BY <1>2, EndedDir DEF DirStart
<1>4. RkIInv'
  BY EndPackStep DEF SaveIInv
<1>5. PackData' /\ Unpacking'
  BY <1>1 DEF PackData, Unpacking
<1>6. ASSUME IsWhole'
      PROVE  NoDate' /\ \E at : AllKept(at)'
  <2>1. PICK at : EntriesAt(disk', files', at)
    BY <1>1, <1>4, <1>6 DEF RkIInv, Listing
  <2>2. CASE files = <<>>
    <3>1. \A k \in 1 .. Len(files') : FALSE
      BY <1>3, <2>2
    <3>2. AllKept(at)'
      BY <2>1, <3>1 DEF AllKept
    <3>3. NoDate'
      BY <1>3, <2>2 DEF NoDate
    <3>4. QED
      BY <3>2, <3>3
  <2>3. CASE files # <<>>
    <3> DEFINE low == dirfile.first
               high == free.start
               bytes == files[1].bytes
               n == COUNT
               f == disk[low][dir_cluster_start]
    <3>1. Entries = 1
      <4>1. packed' = TRUE /\ files' = files
        BY <1>2, <1>3
      <4>2. Len(files) <= 1
        BY <1>6, <4>1 DEF IsWhole
      <4>3. Len(files) \in Nat /\ Len(files) # 0
        BY <1>2, <2>3
      <4>4. QED
        BY <4>2, <4>3 DEF Entries
    <3>2. disk[low][dir_date] = 0 /\ PackedIn(disk, low, high, f, Len(bytes), bytes)
      BY <1>1, <1>2, <3>1 DEF SaveIInv, PackData, PackedTo
    <3>3. low >= 4 /\ low + 1 <= high
      BY <1>1, <3>1 DEF SaveIInv, RkIInv, Pack, Packing, DirKept
    <3>4. /\ n \in Nat /\ high \in Nat /\ free.size \in Nat /\ high + free.size = n + 1
          /\ low \in Nat /\ disk \in Disks(n) /\ bytes \in Seq(Nat) /\ root_sec = 1
      <4>1. files[1] \in Files
        BY <1>2, <3>1 DEF Entries
      <4>2. bytes \in Seq(Nat)
        BY <4>1 DEF Files
      <4>3. QED
        BY <1>2, <4>2, SpaceFacts, FileTypes, CellNumbers
    <3>5. low \in 1 .. n /\ low # root_sec /\ high <= n + 1
      <4> HIDE DEF low, high, n
      <4>1. QED
        BY <3>3, <3>4
    <3>6. disk'[low] = disk[low]
      BY <1>3, <3>5
    <3>7. dir_cluster_start \in Nat /\ dir_cluster_start < SECTOR
      BY CellNumbers
    <3>8. f \in Nat
      BY <3>4, <3>5, <3>7, DiskCell
    <3>9. DirByte(at[1] + dir_cluster_start)' = f
      <4> DEFINE c == dir_cluster_start
      <4>1. at[1] = 0
        BY <2>1 DEF EntriesAt
      <4>2. SECTOR \in Nat /\ SECTOR > 0 /\ c \in Nat /\ c < SECTOR
        BY CellNumbers
      <4> HIDE DEF c
      <4>3. c \div SECTOR = 0 /\ c % SECTOR = c /\ 0 + c = c
        BY <4>2, DivFacts
      <4>4. DirByte(0 + c)' = disk'[low + c \div SECTOR][c % SECTOR]
        BY <1>3, <4>3 DEF DirByte
      <4>5. low + 0 = low
        BY <3>4
      <4>6. disk'[low + c \div SECTOR][c % SECTOR] = disk'[low][c]
        BY <4>3, <4>5
      <4>7. QED
        BY <3>6, <4>1, <4>4, <4>6 DEF c
    <3>10. \A t \in Nat : low < t /\ t < high => disk'[t] = disk[t]
      <4> HIDE DEF low, high, n
      <4>1. \A t \in Nat : low < t /\ t < high => t \in 1 .. COUNT /\ t # root_sec
        BY <3>3, <3>4 DEF n
      <4>2. QED
        BY <1>3, <4>1
    <3>11. HeldIn(disk', n, low, TRUE, f, bytes)
      <4>1. Len(bytes) \in Nat
        BY <3>4
      <4> HIDE DEF low, high, n, f, bytes
      <4>2. QED
        BY <3>2, <3>4, <3>5, <3>8, <3>10, <4>1, PackedHeld
    <3>12. \A k \in 1 .. Len(files') : k = 1
      BY <1>3, <3>1 DEF Entries
    <3>13. Held(DirByte(at[1] + dir_cluster_start), files[1].bytes)'
      BY <1>2, <1>3, <3>9, <3>11 DEF Held
    <3>14. AllKept(at)'
      BY <2>1, <3>12, <3>13 DEF AllKept
    <3>15. NoDate'
      BY <1>3, <3>2, <3>6 DEF NoDate, Date
    <3>16. QED
      BY <3>14, <3>15
  <2>4. QED
    BY <2>2, <2>3
<1>7. QED
  BY <1>5, <1>6 DEF OpenData

LEMMA InitSaves == Init => HostEmpty /\ PackData /\ OpenData /\ Unpacking
<1> SUFFICES ASSUME Init PROVE HostEmpty /\ PackData /\ OpenData /\ Unpacking
  OBVIOUS
<1>1. /\ phase = IF mode = "pack" THEN "pack" ELSE "open"
      /\ host = [name \in {} |-> <<>>]
  BY DEF Init
<1>2. HostEmpty
  BY <1>1 DEF HostEmpty
<1>3. Unpacking
  BY <1>1 DEF Unpacking
<1>4. CASE packed = TRUE /\ files = <<>> /\ mode = "pack"
  <2>1. Entries = 0
    BY <1>4 DEF Entries
  <2>2. PackData
    BY <2>1 DEF PackData
  <2>3. OpenData
    BY <1>1, <1>4 DEF OpenData
  <2>4. QED
    BY <1>2, <1>3, <2>2, <2>3
<1>5. CASE \E image \in Foreign :
            /\ disk = image.disk /\ packed = FALSE /\ files = image.files
            /\ mode \in {"list", "unpack"}
  <2>1. PICK image \in Foreign :
            /\ disk = image.disk /\ packed = FALSE /\ files = image.files
    BY <1>5
  <2>2. /\ IsImage(disk) /\ files \in Seq(Files) /\ EntriesAt(disk, files, image.at)
        /\ FilesAt(disk, files, image.at)
    BY <2>1, ForeignAssumption
  <2>3. COUNT \in Nat /\ disk \in Disks(COUNT) /\ DOMAIN disk = 1 .. COUNT
    BY <2>2 DEF IsImage, COUNT, Disks
  <2>4. ASSUME NEW k \in 1 .. Len(files)
        PROVE  Held(DirByte(image.at[k] + dir_cluster_start), files[k].bytes)
    <3> DEFINE f == DirByte(image.at[k] + dir_cluster_start)
               bytes == files[k].bytes
    <3>1. k \in DOMAIN files /\ bytes \in Seq(Nat)
      <4>1. k \in DOMAIN files /\ files[k] \in Files
        BY <2>2
      <4>2. QED
        BY <4>1 DEF Files
    <3>2. ASSUME NEW j \in 1 .. Len(bytes)
          PROVE  /\ SectorOf(f, j) \in 1 .. COUNT /\ SectorOf(f, j) # DirStart
                 /\ ByteIn(disk, f, j) = bytes[j]
      <4>1. j \in DOMAIN files[k].bytes
        BY <3>1
      <4>2. QED
        BY <2>2, <2>3, <3>1, <4>1 DEF FilesAt, SectorOf, OffsetOf, ByteIn, DirByte, DirStart,
            RootCell
    <3> HIDE DEF f, bytes
    <3>3. Held(f, bytes)
      BY <3>2 DEF Held, HeldIn
    <3>4. QED
      BY <3>3 DEF f, bytes
  <2>5. AllKept(image.at) /\ NoDate
    BY <2>1, <2>2, <2>4 DEF AllKept, NoDate
  <2>6. OpenData
    BY <2>5 DEF OpenData
  <2>7. PackData
    BY <2>1 DEF PackData
  <2>8. QED
    BY <1>2, <1>3, <2>6, <2>7
<1>6. QED
  BY <1>4, <1>5 DEF Init

(* Nothing that unpack reads changes with the position of a directory.     *)
LEMMA DiskSame ==
    ASSUME UNCHANGED <<disk, packed, files>>
    PROVE  /\ COUNT' = COUNT /\ Date' = Date /\ (NoDate => NoDate') /\ FirstFile' = FirstFile
           /\ \A at : AllKept(at) => AllKept(at)'
           /\ \A p : DirByte(p)' = DirByte(p)
           /\ \A k : NoneTo(k) => NoneTo(k)'
<1>1. COUNT' = COUNT
  BY DEF COUNT
<1>2. DirStart' = DirStart
  BY DEF DirStart, RootCell
<1>3. Date' = Date
  BY <1>2 DEF Date
<1>4. NoDate => NoDate'
  BY <1>3 DEF NoDate
<1>5. FirstFile' = FirstFile
  BY DEF FirstFile, SelectInSeq
<1>6. \A p : DirByte(p)' = DirByte(p)
  BY <1>2 DEF DirByte
<1>7. ASSUME NEW at, AllKept(at) PROVE AllKept(at)'
  <2>1. EntriesAt(disk', files', at)
    BY <1>7 DEF AllKept
  <2>2. ASSUME NEW k \in 1 .. Len(files)
        PROVE  HeldIn(disk', COUNT', DirStart', packed', DirByte(at[k] + dir_cluster_start)',
                      files'[k].bytes)
    <3>1. HeldIn(disk, COUNT, DirStart, packed, DirByte(at[k] + dir_cluster_start),
                 files[k].bytes)
      BY <1>7 DEF AllKept, Held
    <3>2. DirByte(at[k] + dir_cluster_start)' = DirByte(at[k] + dir_cluster_start)
      BY <1>6
    <3>3. QED
      BY <1>1, <1>2, <3>1, <3>2
  <2>3. QED
    BY <2>1, <2>2 DEF AllKept, Held
<1>8. \A k : NoneTo(k) => NoneTo(k)'
  BY DEF NoneTo
<1>9. QED
  BY <1>1, <1>3, <1>4, <1>5, <1>6, <1>7, <1>8

LEMMA FirstFileIs ==
    ASSUME files \in Seq(Files), NEW k \in 1 .. Len(files), files[k].bytes # <<>>, NoneTo(k - 1)
    PROVE  FirstFile = k
<1> DEFINE I == {i \in 1 .. Len(files) : files[i].bytes # <<>>}
<1>1. FirstFile = IF I # {} THEN Min(I) ELSE 0
  BY DEF FirstFile, SelectInSeq
<1>2. k \in I /\ I \subseteq Nat
  OBVIOUS
<1>3. \A i \in I : i >= k
  <2>1. \A i \in 1 .. k - 1 : files[i].bytes = <<>>
    BY DEF NoneTo
  <2>2. QED
    BY <2>1
<1> HIDE DEF I
<1>4. Min(I) \in I /\ \A y \in I : Min(I) <= y
  BY <1>2, <1>3, Zenon DEF Min
<1>5. Min(I) >= k /\ Min(I) <= k /\ Min(I) \in Nat
  BY <1>2, <1>3, <1>4
<1>6. QED
  BY <1>1, <1>2, <1>5

-----------------------------------------------------------------------------
(* Unpacking.                                                              *)
LEMMA OpenRootDirSaves ==
    ASSUME SaveIInv, OpenRootDir
    PROVE  PackData' /\ OpenData' /\ Unpacking'
<1>1. /\ phase = "open" /\ phase' = "next" /\ dirfile' = RootDirFile
      /\ UNCHANGED <<disk, packed, files, host, mode>>
  BY DEF OpenRootDir
<1>2. PackData' /\ OpenData'
  BY <1>1, PackingPast, NotToOpen
<1>3. ASSUME IsWhole
      PROVE  Before'
  <2>1. PICK at : AllKept(at)
    BY <1>1, <1>3 DEF SaveIInv, OpenData
  <2>2. NoDate' /\ AllKept(at)' /\ DOMAIN host' = {}
    BY <1>1, <1>3, <2>1, DiskSame DEF SaveIInv, OpenData, HostEmpty
  <2>3. dirfile'.pos = 0 /\ at[1] = 0 /\ Len(files') \in Nat
    BY <1>1, <2>1 DEF RootDirFile, NewFile, AllKept, EntriesAt, SaveIInv, RkIInv, Types
  <2> DEFINE z == 0
  <2>4. z \in 0 .. Len(files') /\ dirfile'.pos = at[z + 1]
    BY <2>3
  <2>5. NoneTo(z)'
    BY DEF NoneTo
  <2> HIDE DEF z
  <2>6. NoneYet(at)'
    BY <1>1, <2>2, <2>4, <2>5 DEF NoneYet
  <2>7. QED
    BY <1>1, <2>2, <2>6 DEF Before
<1>4. QED
  BY <1>1, <1>2, <1>3 DEF Unpacking, IsWhole

(* The date is what is read after a file is saved.                         *)
LEMMA DateRead ==
    ASSUME RkIInv, phase = "next", dirfile.pos = dir_date
    PROVE  Cell(dirfile) = Date
<1> DEFINE c == dir_date
           first == dirfile.first
<1>1. DirRead /\ dirfile \in RkFiles
  BY ReadingFacts
<1>2. first = DirStart /\ first \in Nat
  BY <1>1, FileTypes DEF DirRead, DirStart
<1>3. SECTOR \in Nat /\ SECTOR > 0 /\ c \in Nat /\ c < SECTOR
  BY CellNumbers
<1> DEFINE i == 0
<1>4. i \in Nat /\ Cell(dirfile) = DirCell(c)
  BY <1>1, CellIsDirCell
<1>5. DirCell(c) = disk[first + c \div SECTOR][c % SECTOR]
  BY DEF DirCell
<1> HIDE DEF c, first
<1>6. c \div SECTOR = 0 /\ c % SECTOR = c /\ first + 0 = first
  BY <1>2, <1>3, DivFacts
<1>7. DirCell(c) = disk[first][c]
  BY <1>5, <1>6
<1>8. QED
  BY <1>2, <1>4, <1>7 DEF Date, c, first

LEMMA EntryOfBefore ==
    ASSUME SaveIInv, NextEntry, phase' = "loop", Before
    PROVE  Before'
<1>1. phase = "next" /\ UNCHANGED <<disk, packed, files, host, mode>>
  BY DEF NextEntry
<1>2. PICK at : NoneYet(at)
  BY DEF Before
<1>3. PICK k \in 0 .. Len(files) : dirfile.pos = at[k + 1] /\ NoneTo(k)
  BY <1>1, <1>2 DEF NoneYet
<1>4. /\ NoDate' /\ AllKept(at)' /\ NoneTo(k)' /\ \A p : DirByte(p)' = DirByte(p)
  BY <1>1, <1>2, <1>3, DiskSame DEF Before, NoneYet
<1> DEFINE j == k + 1
<1>5. /\ j \in 1 .. Len(files) /\ dirfile'.pos = at[j + 1]
      /\ buf'[dir_name] = files[j].name
      /\ buf'[dir_file_size] = Len(files[j].bytes)
      /\ buf'[dir_cluster_start] = DirCell(at[j] + dir_cluster_start)
  BY <1>2, <1>3, EntryAtPos DEF SaveIInv, NoneYet, AllKept
<1>6. \A p : DirCell(p) = DirByte(p)
  <2>1. DirRead
    BY <1>1, ReadingFacts DEF SaveIInv
  <2>2. QED
    BY <2>1 DEF DirCell, DirByte, DirStart, DirRead
<1>7. j - 1 = k
  BY <1>3
<1> HIDE DEF j
<1>8. EntryInBuf(at, j)'
  BY <1>1, <1>4, <1>5, <1>6 DEF EntryInBuf
<1>9. NoneYet(at)'
  BY <1>1, <1>4, <1>5, <1>7, <1>8 DEF NoneYet
<1>10. QED
  BY <1>1, <1>4, <1>9 DEF Before

LEMMA EntryOfAgain ==
    ASSUME SaveIInv, NextEntry, phase' = "loop", Again
    PROVE  Again'
<1>1. phase = "next" /\ UNCHANGED <<disk, packed, files, host, mode>>
  BY DEF NextEntry
<1>2. /\ FirstInBuf /\ SavedTo(Len(First.bytes)) /\ Date = 0 /\ dirfile.pos = dir_date
  BY <1>1 DEF Again
<1>3. Cell(dirfile) = 0
  BY <1>1, <1>2, DateRead DEF SaveIInv
<1>4. /\ buf' = [c \in DOMAIN buf |-> IF c <= 0 THEN Cell(AfterRead(dirfile, c)) ELSE buf[c]]
      /\ dirfile' = AfterRead(dirfile, 0 + 1)
  BY <1>3 DEF NextEntry, RestOfEntry
<1>5. dirfile \in RkFiles /\ buf \in [0 .. BUF - 1 -> Nat]
  BY DEF SaveIInv, RkIInv, Types
<1>6. dirfile'.pos = dir_date + 1
  <2> DEFINE i == 0 + 1
  <2>1. i \in Nat /\ dirfile' = AfterRead(dirfile, i)
    BY <1>4
  <2> HIDE DEF i
  <2>2. dirfile'.pos = dirfile.pos + i
    BY <1>5, <2>1, ReadType
  <2>3. QED
    BY <1>2, <2>2, CellNumbers DEF i
<1>7. \A c \in 1 .. BUF - 1 : buf'[c] = buf[c]
  <2>1. BUF = 10
    BY CellNumbers
  <2>2. QED
    BY <1>4, <1>5, <2>1
<1>8. /\ dir_name \in 1 .. BUF - 1 /\ dir_file_size \in 1 .. BUF - 1
      /\ dir_cluster_start \in 1 .. BUF - 1
  BY CellNumbers
<1>9. /\ buf'[dir_name] = buf[dir_name] /\ buf'[dir_file_size] = buf[dir_file_size]
      /\ buf'[dir_cluster_start] = buf[dir_cluster_start]
  BY <1>7, <1>8
<1>10. /\ COUNT' = COUNT /\ Date' = Date /\ NoDate' /\ FirstFile' = FirstFile
       /\ DirStart' = DirStart /\ First' = First
  <2>1. FirstFile' = FirstFile
    BY <1>1, DiskSame
  <2>2. QED
    BY <1>1, <1>2, <2>1, DiskSame DEF FirstInBuf, DirStart, RootCell, First
<1>11. FirstInBuf'
  BY <1>1, <1>2, <1>9, <1>10 DEF FirstInBuf, Held
<1>12. SavedTo(Len(First.bytes))'
  BY <1>1, <1>2, <1>10 DEF SavedTo
<1>13. QED
  BY <1>2, <1>6, <1>10, <1>11, <1>12 DEF Again

LEMMA EntryOfAstray ==
    ASSUME SaveIInv, NextEntry, phase' = "loop", Astray
    PROVE  Astray'
<1> DEFINE rest == Cell(dirfile)
           p == dirfile.pos
<1>1. phase = "next" /\ UNCHANGED <<disk, packed, files, host, mode>>
  BY DEF NextEntry
<1>2. /\ rest \in Nat /\ rest = DirCell(p) /\ dirfile' = AfterRead(dirfile, rest + 1)
      /\ \A c \in 0 .. BUF - 1 : c <= rest => buf'[c] = DirCell(p + c)
  BY EntryRead DEF SaveIInv
<1>3. dirfile \in RkFiles /\ p \in Nat /\ p > 0
  BY FileTypes DEF SaveIInv, RkIInv, Types, Astray
<1>4. dirfile'.pos = p + (rest + 1)
  <2>1. rest + 1 \in Nat
    BY <1>2
  <2> HIDE DEF rest
  <2>2. QED
    BY <1>2, <1>3, <2>1, ReadType
<1>5. buf'[dir_entry_size] = rest
  <2>1. dir_entry_size \in 0 .. BUF - 1 /\ dir_entry_size = 0
    BY CellNumbers
  <2>2. 0 <= rest /\ p + 0 = p
    BY <1>2, <1>3
  <2>3. QED
    BY <1>2, <2>1, <2>2
<1>6. Date' = Date
  BY <1>1, DiskSame
<1> HIDE DEF rest, p
<1>7. dirfile'.pos > 0 /\ dirfile'.pos # buf'[dir_entry_size] + 1
  BY <1>2, <1>3, <1>4, <1>5
<1>8. QED
  BY <1>1, <1>6, <1>7 DEF Astray

LEMMA NextEntrySaves ==
    ASSUME SaveIInv, NextEntry
    PROVE  PackData' /\ OpenData' /\ Unpacking'
<1>1. phase = "next" /\ UNCHANGED <<disk, packed, files, host, mode>>
  BY DEF NextEntry
<1>2. phase' \in {"error", "undefined", "loop"}
  BY EntryRead DEF SaveIInv
<1>3. PackData' /\ OpenData'
  BY <1>2, PackingPast, NotToOpen
<1>4. ASSUME mode = "unpack", IsWhole, phase' = "loop"
      PROVE  Before' \/ Again' \/ Astray'
  <2>1. Before \/ Again \/ Astray
    BY <1>1, <1>4 DEF SaveIInv, Unpacking, Saving
  <2>2. QED
    BY <1>4, <2>1, EntryOfBefore, EntryOfAgain, EntryOfAstray
<1>5. QED
  BY <1>1, <1>2, <1>3, <1>4 DEF Unpacking, IsWhole

(* What unpack does not change of the first file.                          *)
LEMMA FirstSame ==
    ASSUME UNCHANGED <<disk, packed, files, buf>>, FirstInBuf
    PROVE  FirstInBuf' /\ First' = First /\ Date' = Date
<1>1. /\ COUNT' = COUNT /\ Date' = Date /\ (NoDate => NoDate') /\ FirstFile' = FirstFile
  BY DiskSame
<1>2. First' = First /\ DirStart' = DirStart
  BY <1>1 DEF First, DirStart, RootCell
<1>3. QED
  BY <1>1, <1>2 DEF FirstInBuf, Held

LEMMA ListEntrySaves ==
    ASSUME SaveIInv, ListEntry
    PROVE  PackData' /\ OpenData' /\ Unpacking'
<1>1. /\ phase = "loop" /\ phase' = "next" /\ (mode = "list" \/ buf[dir_file_size] = 0)
      /\ UNCHANGED <<disk, dirfile, buf, packed, files, host, mode>>
  BY DEF ListEntry
<1>2. PackData' /\ OpenData'
  BY <1>1, PackingPast, NotToOpen
<1>3. files \in Seq(Files)
  BY DEF SaveIInv, RkIInv, Types
<1>4. \A k \in 1 .. Len(files) : files[k].bytes \in Seq(Nat)
  <2>1. \A k \in 1 .. Len(files) : files[k] \in Files
    BY <1>3
  <2>2. QED
    BY <2>1 DEF Files
<1>5. ASSUME mode = "unpack", IsWhole PROVE Before' \/ Astray'
  <2>1. Before \/ Again \/ Astray
    BY <1>1, <1>5 DEF SaveIInv, Unpacking, Saving
  <2>2. CASE Before
    <3>1. PICK at : NoneYet(at)
      BY <2>2 DEF Before
    <3>2. PICK k \in 1 .. Len(files) :
              dirfile.pos = at[k + 1] /\ NoneTo(k - 1) /\ EntryInBuf(at, k)
      BY <1>1, <3>1 DEF NoneYet
    <3>3. files[k].bytes = <<>>
      <4>1. Len(files[k].bytes) = 0 /\ files[k].bytes \in Seq(Nat)
        BY <1>1, <1>4, <1>5, <3>2 DEF EntryInBuf
      <4>2. QED
        BY <4>1
    <3>4. NoneTo(k)
      <4>1. \A e \in 1 .. k : e \in 1 .. k - 1 \/ e = k
        OBVIOUS
      <4>2. QED
        BY <3>2, <3>3, <4>1 DEF NoneTo
    <3>5. NoDate' /\ AllKept(at)' /\ NoneTo(k)'
      BY <1>1, <2>2, <3>1, <3>4, DiskSame DEF Before, NoneYet
    <3>6. k \in 0 .. Len(files')
      BY <1>1
    <3>7. NoneYet(at)'
      BY <1>1, <3>2, <3>5, <3>6 DEF NoneYet
    <3>8. QED
      BY <1>1, <2>2, <3>5, <3>7 DEF Before
  <2>3. ~Again
    <3>1. SUFFICES ASSUME Again PROVE FALSE
      OBVIOUS
    <3>2. /\ FirstFile \in 1 .. Len(files) /\ First.bytes # <<>> /\ Len(First.bytes) = 0
      BY <1>1, <1>5, <3>1 DEF Again, FirstInBuf
    <3>3. First.bytes \in Seq(Nat)
      BY <1>4, <3>2 DEF First
    <3>4. QED
      BY <3>2, <3>3
  <2>4. CASE Astray
    <3>1. Date' = Date
      BY <1>1, DiskSame
    <3>2. QED
      BY <1>1, <2>4, <3>1 DEF Astray
  <2>5. QED
    BY <2>1, <2>2, <2>3, <2>4
<1>6. QED
  BY <1>1, <1>2, <1>5 DEF Unpacking, IsWhole

(* The entry of the first file with a byte is in buf, and the file to be   *)
(* saved is opened.                                                        *)
LEMMA OpenedFirst ==
    ASSUME SaveIInv, OpenFile, FirstInBuf, DOMAIN host \subseteq {First.name}
    PROVE  Saving'
<1>1. /\ phase' = "save"
      /\ file' = NewFile(buf[dir_cluster_start], buf[dir_cluster_size], buf[dir_file_size])
      /\ host' = [n \in DOMAIN host \cup {buf[dir_name]} |->
                      IF n = buf[dir_name] THEN <<>> ELSE host[n]]
      /\ UNCHANGED <<disk, buf, packed, files, mode>>
  BY DEF OpenFile
<1>2. FirstInBuf' /\ First' = First
  BY <1>1, FirstSame
<1>3. /\ file'.first = buf[dir_cluster_start] /\ file'.sector = buf[dir_cluster_start]
      /\ file'.offset = 0 /\ file'.pos = 0 /\ file'.size = buf[dir_file_size]
  BY <1>1 DEF NewFile
<1>4. buf[dir_cluster_start] \in Nat
  BY CellNumbers DEF SaveIInv, RkIInv, Types
<1>5. At(file')
  <2>1. SECTOR \in Nat /\ SECTOR > 0
    BY CellNumbers
  <2>2. 0 \div SECTOR = 0 /\ 0 % SECTOR = 0
    BY <2>1, DivFacts
  <2>3. QED
    BY <1>3, <1>4, <2>2 DEF At
<1>6. DOMAIN host' = {First.name} /\ host'[First.name] = <<>>
  BY <1>1 DEF FirstInBuf
<1>7. SavedTo(file.pos)'
  <2>1. /\ host'[First.name] \in Seq(Nat) /\ Len(host'[First.name]) = 0
    BY <1>6
  <2>2. \A k \in 1 .. file'.pos : FALSE
    BY <1>3
  <2>3. QED
    BY <1>2, <1>3, <1>6, <2>1, <2>2 DEF SavedTo
<1>8. file'.size = Len(First.bytes)
  BY <1>3 DEF FirstInBuf
<1>9. QED
  BY <1>1, <1>2, <1>3, <1>5, <1>7, <1>8 DEF Saving, At

LEMMA OpenFileSaves ==
    ASSUME SaveIInv, OpenFile
    PROVE  PackData' /\ OpenData' /\ Unpacking'
<1>1. /\ phase = "loop" /\ phase' = "save" /\ buf[dir_file_size] # 0 /\ mode = "unpack"
      /\ UNCHANGED <<disk, dirfile, buf, packed, files, mode>>
  BY DEF OpenFile
<1>2. PackData' /\ OpenData'
  BY <1>1, PackingPast, NotToOpen
<1>3. files \in Seq(Files)
  BY DEF SaveIInv, RkIInv, Types
<1>4. ASSUME IsWhole PROVE Saving' \/ Astray'
  <2>1. Before \/ Again \/ Astray
    BY <1>1, <1>4 DEF SaveIInv, Unpacking, Saving
  <2>2. CASE Before
    <3>1. PICK at : NoneYet(at)
      BY <2>2 DEF Before
    <3>2. PICK k \in 1 .. Len(files) :
              dirfile.pos = at[k + 1] /\ NoneTo(k - 1) /\ EntryInBuf(at, k)
      BY <1>1, <3>1 DEF NoneYet
    <3>3. files[k].bytes # <<>>
      BY <1>1, <3>2 DEF EntryInBuf
    <3>4. FirstFile = k
      BY <1>3, <3>2, <3>3, FirstFileIs
    <3>5. Held(buf[dir_cluster_start], First.bytes)
      BY <3>1, <3>2, <3>4 DEF NoneYet, AllKept, EntryInBuf, First
    <3>6. FirstInBuf /\ DOMAIN host = {}
      BY <2>2, <3>2, <3>3, <3>4, <3>5 DEF Before, FirstInBuf, EntryInBuf, First
    <3>7. QED
      BY <3>6, OpenedFirst
  <2>3. CASE Again
    BY <2>3, OpenedFirst DEF Again, SavedTo
  <2>4. CASE Astray
    <3>1. Date' = Date
      BY <1>1, DiskSame
    <3>2. QED
      BY <1>1, <2>4, <3>1 DEF Astray
  <2>5. QED
    BY <2>1, <2>2, <2>3, <2>4
<1>5. QED
  BY <1>1, <1>2, <1>4 DEF Unpacking, IsWhole

(* The byte of a file that is read.                                        *)
LEMMA ByteRead ==
    ASSUME NEW f \in RkFiles, At(f), COUNT \in Nat, disk \in Disks(COUNT),
           SectorOf(f.first, f.pos + 1) \in 1 .. COUNT
    PROVE  Cell(f) = ByteIn(disk, f.first, f.pos + 1) /\ Cell(f) \in Nat
<1> DEFINE p == f.pos
           q == p + 1
<1>1. p \in Nat /\ f.first \in Nat /\ q \in Nat /\ q >= 1 /\ q - 1 = p
  BY FileTypes
<1>2. /\ SectorOf(f.first, q) = f.first + p \div SECTOR /\ OffsetOf(q) = p % SECTOR
  BY <1>1 DEF SectorOf, OffsetOf
<1>3. f.sector = SectorOf(f.first, q) /\ f.offset = OffsetOf(q)
  BY <1>2 DEF At
<1>4. Cell(f) = ByteIn(disk, f.first, q)
  BY <1>3 DEF Cell, ByteIn
<1> HIDE DEF q
<1>5. OffsetOf(q) \in Nat /\ OffsetOf(q) < SECTOR
  BY <1>1, CellIndex
<1>6. Cell(f) \in Nat
  <2>1. f.sector \in 1 .. COUNT
    BY <1>3 DEF q
  <2>2. QED
    BY <1>3, <1>5, <2>1, DiskCell DEF Cell
<1>7. QED
  BY <1>4, <1>6 DEF q

LEMMA SaveByteSaves ==
    ASSUME SaveIInv, SaveByte
    PROVE  PackData' /\ OpenData' /\ Unpacking'
<1>1. /\ phase = "save" /\ phase' \in {"save", "undefined"} /\ file.pos # file.size
      /\ phase' = "save" =>
            /\ host' = [host EXCEPT ![buf[dir_name]] = Append(@, Cell(file))]
            /\ file' = AfterRead(file, 1)
      /\ UNCHANGED <<disk, dirfile, buf, packed, files, mode>>
  BY DEF SaveByte, Eof
<1>2. PackData' /\ OpenData'
  BY <1>1, PackingPast, NotToOpen
<1>3. ASSUME Saving, phase' = "save" PROVE Saving'
  <2> DEFINE p == file.pos
             q == p + 1
             bytes == First.bytes
             name == First.name
  <2>1. /\ FirstInBuf /\ SavedTo(p)
        /\ file.first = buf[dir_cluster_start] /\ file.size = Len(bytes) /\ At(file)
    BY <1>3 DEF Saving
  <2>2. FirstInBuf' /\ First' = First
    BY <1>1, <2>1, FirstSame
  <2>3. /\ file \in RkFiles /\ p \in Nat /\ file.size \in Nat /\ file.pos <= file.size
    BY <1>1, ReadingFacts, FileTypes DEF SaveIInv
  <2>4. q \in 1 .. Len(bytes)
    <3> HIDE DEF bytes
    <3>1. QED
      BY <1>1, <2>1, <2>3
  <2>5. /\ SectorOf(file.first, q) \in 1 .. COUNT
        /\ ByteIn(disk, file.first, q) = bytes[q] \/ Lost(packed, bytes, q)
    BY <2>1, <2>4 DEF FirstInBuf, Held, HeldIn
  <2>6. /\ Cell(file) \in Nat
        /\ Cell(file) = bytes[q] \/ Lost(packed, bytes, q)
    <3>1. COUNT \in Nat /\ disk \in Disks(COUNT)
      BY SpaceFacts DEF SaveIInv, RkIInv
    <3>2. Cell(file) = ByteIn(disk, file.first, q) /\ Cell(file) \in Nat
      BY <2>1, <2>3, <2>5, <3>1, ByteRead
    <3>3. QED
      BY <2>5, <3>2
  <2>7. /\ file'.first = file.first /\ file'.size = file.size /\ file'.pos = q /\ At(file')
    <3> DEFINE i == 1
    <3>1. i \in Nat /\ file' = AfterRead(file, i)
      BY <1>1, <1>3
    <3> HIDE DEF i
    <3>2. /\ file'.first = file.first /\ file'.size = file.size /\ file'.pos = p + i
      BY <2>3, <3>1, ReadType
    <3>3. At(file')
      BY <2>1, <2>3, <3>1, ReadAt
    <3>4. QED
      BY <3>2, <3>3 DEF i
  <2>8. SavedTo(file.pos)'
    <3> DEFINE s == host[name]
               c == Cell(file)
               t == Append(s, c)
    <3>1. /\ DOMAIN host = {name} /\ s \in Seq(Nat) /\ Len(s) = p
          /\ \A k \in 1 .. p : s[k] = bytes[k] \/ Lost(packed, bytes, k)
      BY <2>1 DEF SavedTo
    <3>2. /\ DOMAIN host' = {name} /\ host'[name] = t
      BY <1>1, <1>3, <2>1, <3>1 DEF FirstInBuf
    <3>3. c \in Nat /\ (c = bytes[q] \/ Lost(packed, bytes, q))
      BY <2>6
    <3> HIDE DEF s, c, bytes, name, p
    <3>4. /\ t \in Seq(Nat) /\ Len(t) = q /\ t[q] = c
          /\ \A k \in 1 .. p : t[k] = s[k]
      BY <2>3, <3>1, <3>3
    <3> HIDE DEF t
    <3>5. ASSUME NEW k \in 1 .. q PROVE t[k] = bytes[k] \/ Lost(packed, bytes, k)
      <4>1. k \in 1 .. p \/ k = q
        BY <2>3
      <4>2. CASE k \in 1 .. p
        BY <3>1, <3>4, <4>2
      <4>3. CASE k = q
        BY <3>3, <3>4, <4>3
      <4>4. QED
        BY <4>1, <4>2, <4>3
    <3>6. /\ file'.pos = q /\ First' = First /\ packed' = packed
      BY <1>1, <2>2, <2>7
    <3>7. QED
      BY <3>2, <3>4, <3>5, <3>6 DEF SavedTo, name, bytes
  <2>9. QED
    BY <1>1, <1>3, <2>1, <2>2, <2>7, <2>8 DEF Saving, At
<1>4. ASSUME Astray, phase' = "save" PROVE Astray'
  <2>1. Date' = Date
    BY <1>1, DiskSame
  <2>2. QED
    BY <1>1, <1>4, <2>1 DEF Astray
<1>5. ASSUME mode = "unpack", IsWhole PROVE Saving \/ Astray
  BY <1>1, <1>5 DEF SaveIInv, Unpacking, Before, Again
<1>6. QED
  BY <1>1, <1>2, <1>3, <1>4, <1>5 DEF Unpacking, IsWhole

(* After a file is saved, its directory goes on at the date of the first   *)
(* entry; the sectors of files are others.                                 *)
LEMMA CloseSavedSaves ==
    ASSUME SaveIInv, CloseFile, phase = "save"
    PROVE  PackData' /\ OpenData' /\ Unpacking'
<1>1. /\ phase' = "next" /\ file.pos = file.size
      /\ UNCHANGED <<free, file, buf, packed, files, host, mode>>
  BY DEF CloseFile, Eof
<1>2. PackData' /\ OpenData'
  BY <1>1, PackingPast, NotToOpen
<1>3. /\ Space /\ Types /\ Root /\ DirRead /\ dirfile \in RkFiles /\ dirfile.size > 0
      /\ dirfile.size \in Nat /\ dirfile.first = DirStart /\ files \in Seq(Files)
  <2>1. Types /\ Root /\ DirRead /\ dirfile \in RkFiles /\ dirfile.size > 0 /\ Space
    BY ReadingFacts DEF SaveIInv
  <2>2. QED
    BY <2>1, FileTypes DEF DirRead, DirStart, Types
<1>4. dirfile.first >= 4 /\ dirfile.first < free.start /\ dirfile.size > dir_name
  <2> DEFINE p == 0
  <2>1. p \in Nat /\ p < dirfile.size
    BY <1>3
  <2> HIDE DEF p
  <2>2. QED
    BY <1>3, <2>1, DirOnDisk
<1>5. /\ COUNT' = COUNT /\ dirfile'.pos = 5
      /\ \A c \in 0 .. SECTOR - 1 :
           c # dir_cluster_start /\ c # dir_cluster_size /\ c # dir_file_size =>
               disk'[DirStart][c] = disk[DirStart][c]
      /\ \A t \in 1 .. COUNT : t # DirStart => disk'[t] = disk[t]
  BY <1>3, <1>4, CloseStart
<1>6. DirStart' = DirStart
  <2>1. root_sec \in 1 .. COUNT /\ root_sec # DirStart
    BY <1>3, <1>4, SpaceFacts, CellNumbers
  <2>2. disk'[root_sec] = disk[root_sec]
    BY <1>5, <2>1
  <2>3. QED
    BY <2>2 DEF DirStart, RootCell
<1>7. Date' = Date
  <2>1. /\ dir_date \in 0 .. SECTOR - 1 /\ dir_date # dir_cluster_start
        /\ dir_date # dir_cluster_size /\ dir_date # dir_file_size
    BY CellNumbers
  <2>2. disk'[DirStart][dir_date] = disk[DirStart][dir_date]
    BY <1>5, <2>1
  <2>3. QED
    BY <1>6, <2>2 DEF Date
<1>8. dirfile'.pos > 0 /\ dirfile'.pos = dir_date
  BY <1>5, CellNumbers
<1>9. ASSUME Saving PROVE Again' \/ Astray'
  <2>1. FirstInBuf /\ SavedTo(file.pos) /\ file.size = Len(First.bytes)
    BY <1>9 DEF Saving
  <2>2. FirstFile' = FirstFile /\ First' = First
    <3>1. FirstFile' = FirstFile
      BY <1>1 DEF FirstFile, SelectInSeq
    <3>2. QED
      BY <1>1, <3>1 DEF First
  <2>3. HeldIn(disk', COUNT', DirStart', packed', buf'[dir_cluster_start], First'.bytes)
    <3> DEFINE f == buf[dir_cluster_start]
               bytes == First.bytes
    <3>1. ASSUME NEW k \in 1 .. Len(bytes)
          PROVE  /\ SectorOf(f, k) \in 1 .. COUNT /\ SectorOf(f, k) # DirStart
                 /\ ByteIn(disk', f, k) = bytes[k] \/ Lost(packed, bytes, k)
      <4>1. /\ SectorOf(f, k) \in 1 .. COUNT /\ SectorOf(f, k) # DirStart
            /\ ByteIn(disk, f, k) = bytes[k] \/ Lost(packed, bytes, k)
        BY <2>1 DEF FirstInBuf, Held, HeldIn
      <4>2. disk'[SectorOf(f, k)] = disk[SectorOf(f, k)]
        BY <1>5, <4>1
      <4>3. ByteIn(disk', f, k) = ByteIn(disk, f, k)
        BY <4>2 DEF ByteIn
      <4>4. QED
        BY <4>1, <4>3
    <3>2. /\ buf'[dir_cluster_start] = f /\ First'.bytes = bytes /\ packed' = packed
      BY <1>1, <2>2
    <3> HIDE DEF f, bytes
    <3>3. HeldIn(disk', COUNT, DirStart, packed, f, bytes)
      BY <3>1 DEF HeldIn
    <3>4. QED
      BY <1>5, <1>6, <3>2, <3>3
  <2>4. NoDate' /\ FirstInBuf'
    <3>1. NoDate'
      BY <1>1, <1>7, <2>1 DEF FirstInBuf, NoDate
    <3>2. QED
      BY <1>1, <2>1, <2>2, <2>3, <3>1 DEF FirstInBuf, Held
  <2>5. SavedTo(Len(First.bytes))'
    BY <1>1, <2>1, <2>2 DEF SavedTo
  <2>6. CASE Date = 0
    BY <1>1, <1>7, <1>8, <2>4, <2>5, <2>6 DEF Again
  <2>7. CASE Date # 0
    <3>1. files # <<>>
      BY <1>3, <2>1 DEF FirstInBuf
    <3>2. ~packed
      BY <2>1, <2>7, <3>1 DEF FirstInBuf, NoDate
    <3>3. QED
      BY <1>1, <1>7, <1>8, <2>7, <3>2 DEF Astray
  <2>8. QED
    BY <2>6, <2>7
<1>10. ASSUME Astray PROVE Astray'
  BY <1>1, <1>7, <1>8, <1>10 DEF Astray
<1>11. ASSUME mode = "unpack", IsWhole PROVE Saving \/ Astray
  BY <1>11 DEF SaveIInv, Unpacking, Before, Again
<1>12. QED
  BY <1>1, <1>2, <1>9, <1>10, <1>11 DEF Unpacking, IsWhole

LEMMA SameSaves ==
    ASSUME SaveIInv, UNCHANGED vars
    PROVE  HostEmpty' /\ PackData' /\ OpenData' /\ Unpacking'
<1>1. UNCHANGED <<disk, free, dirfile, file, todo, buf, packed, files, host, mode, phase>>
  BY DEF vars
<1>2. /\ COUNT' = COUNT /\ Date' = Date /\ (NoDate => NoDate') /\ FirstFile' = FirstFile
      /\ \A at : AllKept(at) => AllKept(at)'
      /\ \A p : DirByte(p)' = DirByte(p)
      /\ \A k : NoneTo(k) => NoneTo(k)'
  BY <1>1, DiskSame
<1>3. HostEmpty'
  BY <1>1 DEF SaveIInv, HostEmpty
<1>4. PackData'
  BY <1>1 DEF SaveIInv, PackData, ImportSoFar, PackedTo, Entries
<1>5. OpenData'
  BY <1>1, <1>2 DEF SaveIInv, OpenData, IsWhole
<1>6. ASSUME Before PROVE Before'
  <2>1. PICK at : NoneYet(at)
    BY <1>6 DEF Before
  <2>2. \A k : EntryInBuf(at, k) => EntryInBuf(at, k)'
    BY <1>1, <1>2 DEF EntryInBuf
  <2>3. NoneYet(at)'
    BY <1>1, <1>2, <2>1, <2>2 DEF NoneYet
  <2>4. QED
    BY <1>1, <1>2, <1>6, <2>3 DEF Before
<1>7. ASSUME FirstInBuf
      PROVE  FirstInBuf' /\ First' = First /\ \A n : SavedTo(n) => SavedTo(n)'
  <2>1. FirstInBuf' /\ First' = First
    BY <1>1, <1>7, FirstSame
  <2>2. QED
    BY <1>1, <2>1 DEF SavedTo
<1>8. ASSUME Saving PROVE Saving'
  BY <1>1, <1>7, <1>8 DEF Saving, At
<1>9. ASSUME Again PROVE Again'
  BY <1>1, <1>2, <1>7, <1>9 DEF Again
<1>10. ASSUME Astray PROVE Astray'
  BY <1>1, <1>2, <1>10 DEF Astray
<1>11. Unpacking'
  BY <1>1, <1>6, <1>8, <1>9, <1>10 DEF SaveIInv, Unpacking, IsWhole
<1>12. QED
  BY <1>3, <1>4, <1>5, <1>11

LEMMA HostStays ==
    ASSUME SaveIInv, Next
    PROVE  HostEmpty'
<1>1. ASSUME host' = host, mode' = mode, phase' # "open" PROVE HostEmpty'
  BY <1>1 DEF SaveIInv, HostEmpty
<1>2. ASSUME NEW name, NEW bytes, CreateFile(name, bytes) PROVE HostEmpty'
  BY <1>1, <1>2 DEF CreateFile
<1>3. ASSUME WriteByte PROVE HostEmpty'
  <2>1. phase' # "open" /\ host' = host /\ mode' = mode
    <3>1. PICK w \in {Written(Work(disk, IF phase = "entry" THEN dirfile ELSE file), Head(todo))} :
              phase' = PhaseAfter(w, phase)
      BY <1>3 DEF WriteByte
    <3>2. w.outcome \in {"ok", "error", "undefined"}
      BY WriteEnds
    <3>3. QED
      BY <1>3, <3>1, <3>2 DEF WriteByte, PhaseAfter
  <2>2. QED
    BY <1>1, <2>1
<1>4. ASSUME StartImport \/ CloseFile PROVE HostEmpty'
  BY <1>1, <1>4 DEF StartImport, CloseFile
<1>5. ASSUME EndPack PROVE HostEmpty'
  <2>1. mode = "pack" /\ host' = host
    BY <1>5 DEF EndPack, SaveIInv, RkIInv, Types, Packing
  <2>2. QED
    BY <2>1 DEF SaveIInv, HostEmpty
<1>6. ASSUME OpenRootDir \/ NextAtEnd \/ EnterDir \/ ListEntry PROVE HostEmpty'
  BY <1>1, <1>6 DEF OpenRootDir, NextAtEnd, EnterDir, ListEntry
<1>7. ASSUME NextEntry PROVE HostEmpty'
  <2>1. phase' # "open" /\ host' = host /\ mode' = mode
    BY <1>7, EntryRead DEF SaveIInv, NextEntry
  <2>2. QED
    BY <1>1, <2>1
<1>8. ASSUME OpenFile \/ SaveByte PROVE HostEmpty'
  BY <1>8 DEF OpenFile, SaveByte, HostEmpty, SaveIInv, RkIInv, Types
<1>9. QED
  BY <1>2, <1>3, <1>4, <1>5, <1>6, <1>7, <1>8 DEF Next

LEMMA SaveStep == SaveIInv /\ [Next]_vars => SaveIInv'
<1> SUFFICES ASSUME SaveIInv, [Next]_vars PROVE SaveIInv'
  OBVIOUS
<1>1. RkIInv'
  BY RkStep DEF SaveIInv
<1>2. CASE UNCHANGED vars
  BY <1>1, <1>2, SameSaves DEF SaveIInv
<1>3. CASE Next
  <2> DEFINE Kept == PackData' /\ OpenData' /\ Unpacking'
  <2>1. HostEmpty'
    BY <1>3, HostStays
  <2>2. ASSUME NEW name, NEW bytes, CreateFile(name, bytes) PROVE Kept
    BY <2>2, CreateFileSaves
  <2>3. ASSUME WriteByte PROVE Kept
    BY <2>3, WriteByteSaves
  <2>4. ASSUME StartImport PROVE Kept
    BY <2>4, StartImportSaves
  <2>5. ASSUME CloseFile PROVE Kept
    BY <2>5, CloseImportedSaves, CloseSavedSaves DEF CloseFile
  <2>6. ASSUME EndPack PROVE Kept
    <3>1. mode = "pack"
      BY <2>6 DEF EndPack, SaveIInv, RkIInv, Types, Packing
    <3>2. DOMAIN host = {}
      BY <3>1 DEF SaveIInv, HostEmpty
    <3>3. QED
      BY <2>6, <3>2, EndPackSaves
  <2>7. ASSUME OpenRootDir PROVE Kept
    BY <2>7, OpenRootDirSaves
  <2>8. ASSUME NextAtEnd \/ EnterDir PROVE Kept
    BY <2>8, PackingPast, NotToOpen DEF NextAtEnd, EnterDir, Unpacking
  <2>9. ASSUME NextEntry PROVE Kept
    BY <2>9, NextEntrySaves
  <2>10. ASSUME ListEntry PROVE Kept
    BY <2>10, ListEntrySaves
  <2>11. ASSUME OpenFile PROVE Kept
    BY <2>11, OpenFileSaves
  <2>12. ASSUME SaveByte PROVE Kept
    BY <2>12, SaveByteSaves
  <2> HIDE DEF Kept
  <2>13. Kept
    BY <1>3, <2>2, <2>3, <2>4, <2>5, <2>6, <2>7, <2>8, <2>9, <2>10, <2>11, <2>12 DEF Next
  <2>14. QED
    BY <1>1, <2>1, <2>13 DEF SaveIInv, Kept
<1>4. QED
  BY <1>2, <1>3

LEMMA SaveInvariant == Spec => []SaveIInv
<1>1. Init => SaveIInv
  BY RkInit, InitSaves DEF SaveIInv
<1>2. SaveIInv /\ [Next]_vars => SaveIInv'
  BY SaveStep
<1>3. QED
  BY <1>1, <1>2, PTL DEF Spec

LEMMA SavedOfDisk ==
    ASSUME SaveIInv
    PROVE  SavedBytes
<1> DEFINE bytes == First.bytes
           saved == host[First.name]
<1>1. SUFFICES ASSUME phase \in {"save", "next"}, IsWhole, FirstFile # 0,
                      DOMAIN host = {First.name},
                      packed \/ Undated \/ FromFirstEntry
               PROVE  /\ Len(saved) <= Len(bytes) /\ (phase = "next" => Len(saved) = Len(bytes))
                      /\ \A k \in DOMAIN saved :
                            saved[k] = bytes[k] \/ (packed /\ Len(bytes) > SECTOR /\ k % SECTOR = 1)
  BY DEF SavedBytes, First
<1>2. mode = "unpack" /\ DirRead /\ files \in Seq(Files)
  <2>1. mode = "unpack"
    BY <1>1 DEF SaveIInv, HostEmpty
  <2>2. QED
    BY <1>1, <2>1, ReadingFacts DEF SaveIInv, Types
<1>3. ~Astray
  BY <1>1, <1>2 DEF Astray, Undated, FromFirstEntry, Date, DirStart, DirRead
<1>4. ~Before
  BY <1>1 DEF Before
<1>5. Saving \/ Again
  BY <1>1, <1>2, <1>3, <1>4 DEF SaveIInv, Unpacking
<1>6. First.bytes \in Seq(Nat)
  <2>1. FirstFile \in 1 .. Len(files)
    BY <1>5 DEF Saving, Again, FirstInBuf
  <2>2. First \in Files
    BY <1>2, <2>1 DEF First
  <2>3. QED
    BY <2>2 DEF Files
<1>7. ASSUME NEW n \in Nat, SavedTo(n)
      PROVE  /\ Len(saved) = n
             /\ \A k \in DOMAIN saved :
                    saved[k] = bytes[k] \/ (packed /\ Len(bytes) > SECTOR /\ k % SECTOR = 1)
  <2>1. saved \in Seq(Nat) /\ Len(saved) = n
    BY <1>7 DEF SavedTo
  <2>2. DOMAIN saved = 1 .. n
    BY <2>1
  <2>3. QED
    BY <1>7, <2>1, <2>2 DEF SavedTo, Lost
<1>8. CASE Saving
  <2>1. /\ phase = "save" /\ SavedTo(file.pos) /\ file.size = Len(bytes)
    BY <1>8 DEF Saving
  <2>2. file.pos \in Nat /\ file.pos <= file.size
    BY <1>1, ReadingFacts, FileTypes DEF SaveIInv
  <2>3. QED
    BY <1>7, <2>1, <2>2
<1>9. CASE Again
  <2>1. SavedTo(Len(bytes)) /\ Len(bytes) \in Nat
    BY <1>6, <1>9 DEF Again
  <2>2. QED
    BY <1>7, <2>1
<1>10. QED
  BY <1>5, <1>8, <1>9
-----------------------------------------------------------------------------
LEMMA TypesOfDisk ==
    ASSUME RkIInv
    PROVE  TypeOK
<1>1. Space /\ Types
  BY DEF RkIInv
<1>2. /\ COUNT \in Nat /\ COUNT >= 3 /\ disk \in Disks(COUNT) /\ SECTOR \in Nat /\ SECTOR >= 8
      /\ free \in [start : Nat, size : Nat] /\ free.start \in Nat /\ free.size \in Nat
      /\ free.start >= 4 /\ free.start + free.size = COUNT + 1
  BY <1>1, SpaceFacts, CellNumbers
<1>3. \A s \in DOMAIN disk : /\ DOMAIN disk[s] = 0 .. SECTOR - 1
                             /\ \A c \in 0 .. SECTOR - 1 : disk[s][c] \in Nat
  BY <1>2 DEF Disks
<1>4. free \in [start : 4 .. COUNT + 1, size : 0 .. COUNT - 3]
  <2> DEFINE A == 4 .. COUNT + 1
             B == 0 .. COUNT - 3
  <2>1. free.start \in A /\ free.size \in B
    BY <1>2
  <2>2. free = [start |-> free.start, size |-> free.size]
    BY <1>2
  <2> HIDE DEF A, B
  <2>3. free \in [start : A, size : B]
    BY <2>1, <2>2
  <2>4. QED
    BY <2>3 DEF A, B
<1>5. /\ dirfile \in RkFiles /\ file \in RkFiles /\ DOMAIN buf = 0 .. BUF - 1
      /\ mode \in {"pack", "list", "unpack"}
      /\ phase \in {"pack", "entry", "import", "open", "next", "loop", "save", "done", "error",
                    "undefined"}
  BY <1>1 DEF Types
<1>6. /\ dirfile.pos \in Nat /\ dirfile.size \in Nat /\ dirfile.offset \in Nat
      /\ dirfile.cluster_size \in Nat /\ file.cluster_size \in Nat /\ file.offset \in Nat
      /\ dirfile.first \in Nat
  BY <1>5, FileTypes
<1>7. dirfile.cluster_size <= COUNT
  BY <1>2 DEF RkIInv, Types, Read
<1>8. ~Ended => /\ dirfile.pos <= dirfile.size /\ dirfile.offset <= SECTOR
                /\ file.pos <= file.size /\ file.offset <= SECTOR
  <2>1. CASE mode # "pack"
    BY <2>1 DEF RkIInv, Read
  <2>2. CASE mode = "pack" /\ Packing
    <3>1. file.pos <= file.size /\ file.offset <= SECTOR
      BY <2>2 DEF RkIInv, Pack
    <3>2. CASE phase = "pack"
      BY <1>2, <1>6, <2>2, <3>1, <3>2, CellNumbers DEF RkIInv, Pack, DirKept, NoDir
    <3>3. CASE phase = "import"
      BY <2>2, <3>1, <3>3 DEF RkIInv, Pack, PackImport, DirKept
    <3>4. CASE phase = "entry"
      <4>1. dirfile.size = dirfile.pos /\ (EntryToBegin \/ EntryBegun)
        BY <2>2, <3>4 DEF RkIInv, Pack, PackEntry
      <4>2. todo \in Seq(Nat)
        BY <1>1 DEF Types
      <4>3. Len(todo) \in Nat /\ ENTRY = 7
        BY <4>2, CellNumbers
      <4>4. dirfile.offset <= SECTOR
        BY <1>2, <4>1, <4>3 DEF EntryToBegin, EntryBegun
      <4>5. QED
        BY <1>6, <3>1, <4>1, <4>4
    <3>5. QED
      BY <2>2, <3>2, <3>3, <3>4 DEF Packing
  <2>3. QED
    BY <2>1, <2>2 DEF RkIInv, Types
<1>9. dirfile.cluster_size \in 0 .. COUNT
  BY <1>2, <1>6, <1>7
<1>10. ASSUME ~Ended, NEW f \in {dirfile, file} PROVE f.pos <= f.size /\ f.offset \in 0 .. SECTOR
  <2>1. /\ dirfile.pos <= dirfile.size /\ dirfile.offset \in 0 .. SECTOR
        /\ file.pos <= file.size /\ file.offset \in 0 .. SECTOR
    BY <1>2, <1>6, <1>8, <1>10
  <2>2. QED
    BY <2>1, Zenon
<1>11. QED
  BY <1>3, <1>4, <1>5, <1>6, <1>9, <1>10 DEF TypeOK, Ended

LEMMA KeptOfDisk ==
    ASSUME RkIInv
    PROVE  SpaceKept
<1>1. Space /\ Types
  BY DEF RkIInv
<1>2. /\ free.start + free.size = COUNT + 1
      /\ \A s \in free.start .. COUNT : disk[s] = ClearSector
  BY <1>1 DEF Space, SpaceOf
<1>3. mode # "pack" => /\ disk[root_sec][root_first_free] = free.start
                       /\ disk[root_sec][root_free_size] = free.size
  BY DEF RkIInv, Read, Root
<1>4. QED
  BY <1>2, <1>3 DEF SpaceKept

LEMMA ListedOfDisk ==
    ASSUME RkIInv
    PROVE  ListedWhole
<1>1. SUFFICES ASSUME phase = "done" /\ mode = "list" /\ IsWhole
               PROVE  listed = [k \in DOMAIN files |->
                                  [name |-> files[k].name, size |-> Len(files[k].bytes)]]
  BY DEF ListedWhole
<1>2. ListedTo(Len(files))
  BY <1>1 DEF RkIInv, Listing, Shown
<1>3. DOMAIN files = 1 .. Len(files)
  BY DEF RkIInv, Types
<1>4. QED
  BY <1>2, <1>3 DEF ListedTo

(***************************************************************************)
(* For every size of a sector and all disks, pack, list and unpack of      *)
(* rkdos.cpp keep the types of their state: no write of a file or of a     *)
(* directory leaves the cells of the sectors, the position in a file is    *)
(* never behind its end, and the count of free sectors never below 0.      *)
(***************************************************************************)
THEOREM RkTypes == Spec => []TypeOK
<1>1. RkIInv => TypeOK
  BY TypesOfDisk
<1>2. QED
  BY <1>1, RkInvariant, PTL

(***************************************************************************)
(* Whatever is packed, the sectors rkdos::alloc_sector counts as free go   *)
(* to the end of the disk and have no byte of a file or of a directory,    *)
(* and after the destructors the root sector says the same; no save of a   *)
(* file, though it writes to the directory, changes that, nor does a write *)
(* that throws "disk full" half-way.  Only undefined behaviour is excepted.*)
(***************************************************************************)
THEOREM RkSpace == Spec => []SpaceKept
<1>1. RkIInv => SpaceKept
  BY KeptOfDisk
<1>2. QED
  BY <1>1, RkInvariant, PTL

(***************************************************************************)
(* list shows each entry of a directory made elsewhere, or packed with one *)
(* file or none, once and in order, wherever a sector ends.                *)
(***************************************************************************)
THEOREM RkListed == Spec => []ListedWhole
<1>1. RkIInv => ListedWhole
  BY ListedOfDisk
<1>2. QED
  BY <1>1, RkInvariant, PTL

(***************************************************************************)
(* The first file that unpack saves has the bytes it was made with: all of *)
(* them for a disk made elsewhere or a packed file of one sector, and of a *)
(* longer packed one all but the first of each sector, which write puts at *)
(* the slot of the sector before.  So it is when the destructor wrote to   *)
(* the directory and next() takes the same entry again; where a date is    *)
(* taken for the size of an entry, up to there.                            *)
(***************************************************************************)
THEOREM RkSaved == Spec => []SavedBytes
<1>1. SaveIInv => SavedBytes
  BY SavedOfDisk
<1>2. QED
  BY <1>1, SaveInvariant, PTL

=============================================================================
