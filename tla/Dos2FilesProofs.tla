--------------------------- MODULE Dos2FilesProofs ---------------------------
(* Theorems about Dos2Files, for every disk, every length of a sector, of  *)
(* a link and of a directory, and every script; and about AtariNames, for  *)
(* names of every length.                                                  *)
EXTENDS Dos2Files, AtariNames, SharedFacts

(* The entries of all directories, and those of files.                     *)
Places == (DOMAIN dir) \X Entries
E(e) == dir[e[1]][e[2]]
FileEntries == {e \in Places : E(e).flag = "in use" \/ E(e).flag = "opened"}
SubDirs == DOMAIN dir \ {ROOT}
Taken == Usable(disk) \ free

SectorTypes(n) ==
    [bytes : [1 .. PAYLOAD -> (0 .. MaxCreated) \X (0 .. MaxBytes)],
     count : 0 .. PAYLOAD, link : 0 .. n]
Sectors(n) == [1 .. n -> SectorTypes(n)]
EntryTypes ==
    [flag : {"never used", "opened", "in use", "directory"}, dos2 : BOOLEAN, name : Nat,
     start : 0 .. disk.sector_count, count : 0 .. disk.sector_count]

Types ==
    /\ TypeOK
    /\ dir \in [DOMAIN dir -> [Entries -> EntryTypes]] /\ ROOT \in DOMAIN dir
    /\ file # NoFile => /\ file.name \in 0 .. MaxCreated /\ file.size \in 0 .. MaxBytes
                        /\ file.pos \in 0 .. PAYLOAD

(* Each file and directory has one entry and a name of its own; the entry  *)
(* of the file that is open is the one that says so.                       *)
EntriesNamed ==
    /\ \A e \in Places : E(e).flag # "never used" => E(e).name \in 1 .. created
    /\ \A e, f \in Places :
          E(e).flag # "never used" /\ E(f).flag # "never used" /\ E(e).name = E(f).name => e = f
    /\ \A e \in Places :
          E(e).flag = "opened" <=> file # NoFile /\ e = <<file.dir, file.file_no>>
    /\ file # NoFile => /\ <<file.dir, file.file_no>> \in Places
                        /\ E(<<file.dir, file.file_no>>).name = file.name

(* Entries are taken in their order.                                       *)
EntriesInOrder ==
    \A d \in DOMAIN dir : \A j, k \in Entries :
        j < k /\ E(<<d, k>>).flag # "never used" => E(<<d, j>>).flag # "never used"

(* The directories: the sectors of each are its own.                       *)
DirsHeld ==
    /\ \A e \in Places : E(e).flag = "directory" => E(e).start \in SubDirs
    /\ \A d \in SubDirs : \E e \in Places : E(e).flag = "directory" /\ E(e).start = d
    /\ \A e, f \in Places :
          E(e).flag = "directory" /\ E(f).flag = "directory" /\ E(e).start = E(f).start => e = f
    /\ \A d \in SubDirs : DirRun(d) \subseteq Taken
    /\ \A c, d \in SubDirs : c # d => DirRun(c) \cap DirRun(d) = {}

(* What the sectors are linked to, before it is cut to the bits of a link. *)
LinkOf == [s \in 1 .. disk.sector_count |-> sec[s].link]

LinksHeld ==
    /\ \A s \in free : sec[s].link = 0
    /\ \A s \in 1 .. disk.sector_count :
          /\ sec[s].link = 0 \/ sec[s].link \in Taken
          /\ disk.use_file_number /\ ~disk.ndebug => sec[s].link < LINKS

(* The bytes of file f in the sectors c: all of them are full but the last *)
(* one, which has `rest', and the counts are those of the first n.         *)
Holds(c, f, rest, n) ==
    \A i \in 1 .. Len(c) :
        /\ i <= n => sec[c[i]].count = IF i = Len(c) THEN rest ELSE PAYLOAD
        /\ \A j \in 1 .. (IF i = Len(c) THEN rest ELSE PAYLOAD) :
               sec[c[i]].bytes[j] = <<f, (i - 1) * PAYLOAD + j>>

DosCan(c) == disk.force_dos2_flag \/ \A i \in 2 .. Len(c) : c[i] <= DOS2_LAST

Rest(c) == IF c = <<>> THEN 0 ELSE sec[c[Len(c)]].count

ClosedPath(e, c) ==
    /\ PathFrom(c, E(e).start, LinkOf)
    /\ E(e).count = Len(c)
    /\ E(e).dos2 <=> DosCan(c)
    /\ c # <<>> => Rest(c) \in 1 .. PAYLOAD
    /\ Holds(c, E(e).name, Rest(c), Len(c))

OpenPath(c) ==
    /\ PathFrom(c, file.first_sec, LinkOf)
    /\ SectorsWritten = Len(c)
    /\ file.first_sec = 0 => c = <<>> /\ file.pos = 0
    /\ c # <<>> => file.pos > 0 /\ file.sector = c[Len(c)]
    /\ file.size = HeldBytes(c, PAYLOAD, file.pos)
    /\ file.dos2_compatible <=> DosCan(c)
    /\ Holds(c, file.name, file.pos, Len(c) - 1)

(* The sectors of every file are its own, and no others are taken.         *)
PathsTaken(path) ==
    \A e \in FileEntries : \A i \in 1 .. Len(path[e]) :
        path[e][i] \in Taken /\ \A d \in SubDirs : path[e][i] \notin DirRun(d)
PathsApart(path) ==
    \A e, f \in FileEntries : \A i \in 1 .. Len(path[e]), j \in 1 .. Len(path[f]) :
        path[e][i] = path[f][j] => e = f /\ i = j
AllHeld(path) ==
    \A s \in Taken :
        \/ \E e \in FileEntries : \E i \in 1 .. Len(path[e]) : path[e][i] = s
        \/ \E d \in SubDirs : s \in DirRun(d)
PathsRight(path) ==
    \A e \in FileEntries :
        /\ E(e).flag = "in use" => ClosedPath(e, path[e])
        /\ E(e).flag = "opened" => OpenPath(path[e])
PathFunctions == [FileEntries -> Seq(1 .. disk.sector_count)]
Paths(path) ==
    /\ path \in PathFunctions
    /\ PathsTaken(path) /\ PathsApart(path) /\ AllHeld(path) /\ PathsRight(path)

Shape == Types /\ EntriesNamed /\ EntriesInOrder /\ DirsHeld /\ LinksHeld
FilesIInv == Shape /\ \E path : Paths(path)

-----------------------------------------------------------------------------
(* The constants and a disk, as the assumptions say.                       *)
LEMMA ScaleFacts ==
    /\ DIR_SIZE \in Nat \ {0} /\ DIR_ENTRIES \in Nat \ {0} /\ PAYLOAD \in Nat \ {0}
    /\ LINKS \in Nat \ {0} /\ DOS2_LAST \in Nat /\ MaxCreated \in Nat /\ MaxBytes \in Nat
BY ScaleAssumption

LEMMA DiskFacts ==
    ASSUME disk \in Disks
    PROVE  /\ disk.sector_count \in Nat
           /\ disk.use_file_number \in BOOLEAN /\ disk.force_dos2_flag \in BOOLEAN
           /\ disk.subdirs \in BOOLEAN /\ disk.ndebug \in BOOLEAN
           /\ Usable(disk) \subseteq 1 .. disk.sector_count
           /\ ROOT \notin Usable(disk)
<1>1. /\ disk.sector_count \in Nat
      /\ disk.use_file_number \in BOOLEAN /\ disk.force_dos2_flag \in BOOLEAN
      /\ disk.subdirs \in BOOLEAN /\ disk.ndebug \in BOOLEAN
  BY DisksAssumption
<1>2. Usable(disk) \subseteq 1 .. disk.sector_count /\ ROOT \notin Usable(disk)
  BY SystemAssumption DEF Usable
<1>3. QED
  BY <1>1, <1>2

(* A file is not NoFile.                                                   *)
LEMMA ObjectFacts ==
    /\ \A f \in FileObjects : f # NoFile
    /\ \A n \in Nat, b \in Seq(Nat \X Nat) : [name |-> n, bytes |-> b] # NoFile
<1>1. \A n \in Nat, b \in Seq(Nat \X Nat) :
          [name |-> n, bytes |-> b] \in [name : Nat, bytes : Seq(Nat \X Nat)]
  OBVIOUS
<1>2. QED
  BY <1>1, NoFileAssumption

LEMMA InitHolds == Init => FilesIInv
<1> SUFFICES ASSUME Init PROVE FilesIInv
  OBVIOUS
<1>1. /\ disk \in Disks /\ free = Usable(disk)
      /\ sec = [s \in 1 .. disk.sector_count |-> ClearSector]
      /\ dir = [d \in {ROOT} |-> EmptyDir]
      /\ dir_stack = <<ROOT>> /\ file = NoFile /\ created = 0 /\ error = ""
  BY DEF Init
<1>2. /\ disk.sector_count \in Nat /\ Usable(disk) \subseteq 1 .. disk.sector_count
      /\ Taken = {}
  BY <1>1, DiskFacts DEF Taken
<1>3. /\ DOMAIN dir = {ROOT} /\ SubDirs = {}
      /\ \A e \in Places : E(e) = FreeEntry
      /\ \A d \in {ROOT}, k \in Entries : dir[d][k] = FreeEntry /\ <<d, k>> \in Places
  BY <1>1 DEF Places, E, SubDirs, EmptyDir
<1>4. /\ FreeEntry.flag = "never used" /\ FreeEntry \in EntryTypes
      /\ FreeEntry.dos2 = FALSE /\ FreeEntry.start = 0 /\ FreeEntry.count = 0
  BY <1>2 DEF FreeEntry, EntryTypes
<1>5. FileEntries = {}
  BY <1>3, <1>4 DEF FileEntries
<1>6. TypeOK
  <2>1. ClearSector \in [bytes : [1 .. PAYLOAD -> (0 .. MaxCreated) \X (0 .. MaxBytes)],
                         count : 0 .. PAYLOAD, link : 0 .. disk.sector_count]
    BY <1>2, ScaleFacts DEF ClearSector, ZERO
  <2>2. sec \in [1 .. disk.sector_count ->
                    [bytes : [1 .. PAYLOAD -> (0 .. MaxCreated) \X (0 .. MaxBytes)],
                     count : 0 .. PAYLOAD, link : 0 .. disk.sector_count]]
    BY <1>1, <2>1
  <2>3. dir_stack \in Seq(DOMAIN dir) /\ dir_stack # <<>>
    <3>1. DOMAIN dir = {ROOT} /\ dir_stack = <<ROOT>>
      BY <1>1
    <3>2. <<ROOT>> \in Seq({ROOT}) /\ <<ROOT>> # <<>>
      OBVIOUS
    <3>3. QED
      BY <3>1, <3>2
  <2>4. \A d \in DOMAIN dir : \A k \in Entries :
            /\ dir[d][k].flag \in {"never used", "opened", "in use", "directory"}
            /\ dir[d][k].dos2 \in BOOLEAN
            /\ dir[d][k].start \in 0 .. disk.sector_count
            /\ dir[d][k].count \in 0 .. disk.sector_count
    <3>1. \A d \in DOMAIN dir : \A k \in Entries : dir[d][k] = FreeEntry
      BY <1>3
    <3>2. 0 \in 0 .. disk.sector_count
      BY <1>2
    <3>3. QED
      BY <1>4, <3>1, <3>2
  <2>5. free \subseteq Usable(disk) /\ DOMAIN dir \subseteq Usable(disk) \cup {ROOT}
    BY <1>1, <1>3
  <2>6. created \in 0 .. MaxCreated /\ error \in {"", "dir full", "disk full", "assertion"}
        /\ file \in FileObjects \cup {NoFile}
    <3>1. created = 0 /\ error = "" /\ file = NoFile
      BY <1>1
    <3>2. 0 \in 0 .. MaxCreated
      BY ScaleFacts
    <3>3. QED
      BY <3>1, <3>2
  <2>7. QED
    BY <1>1, <2>2, <2>3, <2>4, <2>5, <2>6 DEF TypeOK
<1>7. Types
  <2>1. dir \in [DOMAIN dir -> [Entries -> EntryTypes]]
    BY <1>1, <1>4 DEF EmptyDir
  <2>2. QED
    BY <1>1, <1>3, <1>6, <2>1 DEF Types
<1>8. EntriesNamed /\ EntriesInOrder
  <2>1. EntriesNamed
    BY <1>1, <1>3, <1>4 DEF EntriesNamed
  <2>2. EntriesInOrder
    BY <1>3, <1>4 DEF EntriesInOrder
  <2>3. QED
    BY <2>1, <2>2
<1>9. DirsHeld
  BY <1>3, <1>4 DEF DirsHeld
<1>10. LinksHeld
  <2>1. \A s \in 1 .. disk.sector_count : sec[s] = ClearSector
    BY <1>1
  <2>2. ClearSector.link = 0
    BY DEF ClearSector
  <2>3. \A s \in 1 .. disk.sector_count : sec[s].link = 0
    BY <2>1, <2>2
  <2>4. 0 < LINKS /\ free \subseteq 1 .. disk.sector_count
    <3>1. free = Usable(disk)
      BY <1>1
    <3>2. free \subseteq 1 .. disk.sector_count
      BY <1>2, <3>1
    <3>3. QED
      BY <3>2, ScaleFacts
  <2>5. QED
    BY <2>3, <2>4 DEF LinksHeld
<1>11. Paths([e \in {} |-> <<>>])
  BY <1>2, <1>5 DEF Paths, PathFunctions, PathsTaken, PathsApart, AllHeld, PathsRight
<1>12. QED
  BY <1>7, <1>8, <1>9, <1>10, <1>11 DEF FilesIInv, Shape

-----------------------------------------------------------------------------
(* What the invariants say of the state, in the form the steps need.       *)
LEMMA TypeFacts ==
    ASSUME Types
    PROVE  /\ disk \in Disks /\ disk.sector_count \in Nat
           /\ Usable(disk) \subseteq 1 .. disk.sector_count /\ ROOT \notin Usable(disk)
           /\ free \subseteq Usable(disk) /\ free \subseteq Nat
           /\ Taken \subseteq Usable(disk) /\ Taken \subseteq 1 .. disk.sector_count
           /\ 0 \notin Taken /\ free \cap Taken = {}
           /\ \A e \in Places : E(e) \in EntryTypes /\ e = <<e[1], e[2]>>
                                /\ e[1] \in DOMAIN dir /\ e[2] \in Entries
           /\ dir_stack \in Seq(DOMAIN dir) /\ dir_stack # <<>> /\ Current \in DOMAIN dir
           /\ created \in Nat
<1>1. disk \in Disks /\ free \subseteq Usable(disk) /\ created \in 0 .. MaxCreated
      /\ dir_stack \in Seq(DOMAIN dir) /\ dir_stack # <<>>
  BY DEF Types, TypeOK
<1>2. disk.sector_count \in Nat
      /\ Usable(disk) \subseteq 1 .. disk.sector_count /\ ROOT \notin Usable(disk)
  BY <1>1, DiskFacts
<1>3. /\ free \subseteq Nat
      /\ Taken \subseteq Usable(disk) /\ Taken \subseteq 1 .. disk.sector_count
      /\ 0 \notin Taken /\ free \cap Taken = {}
  BY <1>1, <1>2 DEF Taken
<1>4. \A e \in Places : e = <<e[1], e[2]>> /\ e[1] \in DOMAIN dir /\ e[2] \in Entries
  BY DEF Places
<1>5. \A e \in Places : E(e) \in EntryTypes
  <2>1. dir \in [DOMAIN dir -> [Entries -> EntryTypes]]
    BY DEF Types
  <2> HIDE DEF Types
  <2>2. QED
    BY <1>4, <2>1 DEF E
<1>6. Current \in DOMAIN dir
  BY <1>1 DEF Current
<1>7. created \in Nat
  BY <1>1, ScaleFacts
<1>8. QED
  BY <1>1, <1>2, <1>3, <1>4, <1>5, <1>6, <1>7

(* One entry is written.                                                   *)
LEMMA EntryWritten ==
    ASSUME Types, NEW d \in DOMAIN dir, NEW k \in Entries, NEW x \in EntryTypes,
           dir' = [dir EXCEPT ![d][k] = x], disk' = disk
    PROVE  /\ DOMAIN dir' = DOMAIN dir /\ Places' = Places /\ SubDirs' = SubDirs
           /\ EntryTypes' = EntryTypes
           /\ \A e \in Places : E(e)' = IF e = <<d, k>> THEN x ELSE E(e)
           /\ dir' \in [DOMAIN dir -> [Entries -> EntryTypes]]
<1>1. dir \in [DOMAIN dir -> [Entries -> EntryTypes]]
  BY DEF Types
<1>2. DOMAIN dir' = DOMAIN dir /\ Places' = Places /\ SubDirs' = SubDirs
  BY <1>1 DEF Places, SubDirs
<1>3. EntryTypes' = EntryTypes
  BY DEF EntryTypes
<1>4. dir' \in [DOMAIN dir -> [Entries -> EntryTypes]]
  BY <1>1
<1>5. ASSUME NEW e \in Places PROVE E(e)' = IF e = <<d, k>> THEN x ELSE E(e)
  <2>1. e[1] \in DOMAIN dir /\ e[2] \in Entries /\ e = <<e[1], e[2]>>
    BY DEF Places
  <2>2. dir'[e[1]][e[2]] = IF e[1] = d /\ e[2] = k THEN x ELSE dir[e[1]][e[2]]
    BY <1>1, <2>1
  <2>3. e = <<d, k>> <=> e[1] = d /\ e[2] = k
    BY <2>1
  <2>4. QED
    BY <2>2, <2>3 DEF E
<1>6. QED
  BY <1>2, <1>3, <1>4, <1>5

(* A file whose sectors stay as they are.                                  *)
LEMMA ClosedPathSame ==
    ASSUME Types, disk' = disk, NEW e, E(e)' = E(e), NEW c \in Seq(1 .. disk.sector_count),
           \A i \in 1 .. Len(c) : sec'[c[i]] = sec[c[i]], ClosedPath(e, c)
    PROVE  ClosedPath(e, c)' /\ Rest(c)' = Rest(c)
<1>1. \A i \in 1 .. Len(c) : c[i] \in 1 .. disk.sector_count
  <2> DEFINE D == 1 .. disk.sector_count
  <2> HIDE DEF D
  <2>1. c \in Seq(D)
    BY DEF D
  <2>2. \A i \in 1 .. Len(c) : c[i] \in D
    BY <2>1
  <2>3. QED
    BY <2>2 DEF D
<1>2. \A i \in 1 .. Len(c) : LinkOf'[c[i]] = LinkOf[c[i]]
  BY <1>1 DEF LinkOf
<1>3. Rest(c)' = Rest(c)
  <2>1. c # <<>> => Len(c) \in 1 .. Len(c)
    OBVIOUS
  <2>2. QED
    BY <2>1 DEF Rest
<1>4. DosCan(c)' <=> DosCan(c)
  BY DEF DosCan
<1>5. PathFrom(c, E(e).start, LinkOf)'
  BY <1>2 DEF ClosedPath, PathFrom
<1>6. Holds(c, E(e).name, Rest(c), Len(c))'
  <2>1. Holds(c, E(e).name, Rest(c), Len(c))
    BY DEF ClosedPath
  <2>2. ASSUME NEW i \in 1 .. Len(c)
        PROVE  /\ sec'[c[i]].count = IF i = Len(c) THEN Rest(c) ELSE PAYLOAD
               /\ \A j \in 1 .. (IF i = Len(c) THEN Rest(c) ELSE PAYLOAD) :
                      sec'[c[i]].bytes[j] = <<E(e).name, (i - 1) * PAYLOAD + j>>
    <3>1. sec'[c[i]] = sec[c[i]]
      OBVIOUS
    <3>2. QED
      BY <2>1, <3>1 DEF Holds
  <2>3. QED
    BY <1>3, <2>2 DEF Holds
<1>7. QED
  BY <1>3, <1>4, <1>5, <1>6 DEF ClosedPath

(* What the invariant says does not depend on what was thrown, and on the  *)
(* stack of directories only in that it is one.                            *)
LEMMA TablesSame ==
    ASSUME FilesIInv, UNCHANGED <<disk, free, sec, dir, file, created>>,
           dir_stack' \in Seq(DOMAIN dir) /\ dir_stack' # <<>>,
           error' \in {"", "dir full", "disk full", "assertion"}
    PROVE  FilesIInv'
<1>1. PICK path : Paths(path)
  BY DEF FilesIInv
<1>2. disk' = disk /\ free' = free /\ sec' = sec /\ dir' = dir /\ file' = file
      /\ created' = created
  OBVIOUS
<1>3. /\ Places' = Places /\ SubDirs' = SubDirs /\ Taken' = Taken /\ LinkOf' = LinkOf
      /\ EntryTypes' = EntryTypes
  BY <1>2 DEF Places, SubDirs, Taken, LinkOf, EntryTypes
<1>4. \A e : E(e)' = E(e)
  BY <1>2 DEF E
<1>5. FileEntries' = FileEntries
  BY <1>3, <1>4 DEF FileEntries
<1>6. Types'
  BY <1>2, <1>3 DEF FilesIInv, Shape, Types, TypeOK
<1>7. EntriesNamed' /\ EntriesInOrder' /\ DirsHeld' /\ LinksHeld'
  <2>1. EntriesNamed'
    BY <1>2, <1>3, <1>4 DEF FilesIInv, Shape, EntriesNamed
  <2>2. EntriesInOrder'
    BY <1>2, <1>4 DEF FilesIInv, Shape, EntriesInOrder
  <2>3. DirsHeld'
    BY <1>2, <1>3, <1>4 DEF FilesIInv, Shape, DirsHeld
  <2>4. LinksHeld'
    BY <1>2, <1>3 DEF FilesIInv, Shape, LinksHeld
  <2>5. QED
    BY <2>1, <2>2, <2>3, <2>4
<1>8. Paths(path)'
  <2>1. /\ path \in PathFunctions'
        /\ PathsTaken(path)' /\ PathsApart(path)' /\ AllHeld(path)'
    BY <1>1, <1>2, <1>3, <1>5 DEF Paths, PathFunctions, PathsTaken, PathsApart, AllHeld
  <2>2. \A c : Rest(c)' = Rest(c) /\ (DosCan(c)' <=> DosCan(c))
    BY <1>2 DEF Rest, DosCan
  <2>3. ASSUME NEW c, NEW f, NEW rest, NEW n, Holds(c, f, rest, n)
        PROVE  Holds(c, f, rest, n)'
    <3>1. sec' = sec
      BY <1>2
    <3>2. QED
      BY <2>3, <3>1, Zenon DEF Holds
  <2>4. \A e \in FileEntries : \A c : ClosedPath(e, c) => ClosedPath(e, c)'
    BY <1>2, <1>3, <1>4, <2>2, <2>3 DEF ClosedPath
  <2>5. \A c : OpenPath(c) => OpenPath(c)'
    BY <1>2, <1>3, <2>2, <2>3 DEF OpenPath, SectorsWritten
  <2>6. PathsRight(path)'
    BY <1>1, <1>4, <1>5, <2>4, <2>5 DEF Paths, PathsRight
  <2>7. QED
    BY <2>1, <2>6 DEF Paths
<1>9. QED
  BY <1>6, <1>7, <1>8 DEF FilesIInv, Shape

(* A file takes a free sector.                                             *)
LEMMA SectorAdded ==
    ASSUME Types, DirsHeld, NEW path, Paths(path), dir' = dir, disk' = disk,
           NEW o \in FileEntries, NEW s \in free, free' = free \ {s},
           NEW more \in PathFunctions,
           more[o] = Append(path[o], s), \A e \in FileEntries : e # o => more[e] = path[e]
    PROVE  /\ Places' = Places /\ SubDirs' = SubDirs /\ FileEntries' = FileEntries
           /\ Taken' = Taken \cup {s} /\ s \notin Taken
           /\ path[o] \in Seq(1 .. disk.sector_count)
           /\ \A i \in 1 .. Len(path[o]) : path[o][i] \in Taken
           /\ PathsTaken(more)' /\ PathsApart(more)' /\ AllHeld(more)'
           /\ DirsHeld'
<1> DEFINE D == 1 .. disk.sector_count
<1>1. /\ s \in D /\ s \notin Taken /\ s \in Usable(disk)
      /\ free \subseteq Usable(disk)
  BY TypeFacts
<1>2. Taken' = Taken \cup {s}
  BY <1>1 DEF Taken
<1>3. Places' = Places /\ SubDirs' = SubDirs
  BY DEF Places, SubDirs
<1>4. \A e : E(e)' = E(e)
  BY DEF E
<1>5. FileEntries' = FileEntries
  BY <1>3, <1>4 DEF FileEntries
<1> HIDE DEF D
<1>6. path \in [FileEntries -> Seq(D)] /\ PathsTaken(path) /\ PathsApart(path) /\ AllHeld(path)
  BY DEF Paths, PathFunctions, D
<1>7. path[o] \in Seq(D) /\ \A i \in 1 .. Len(path[o]) : path[o][i] \in Taken
  BY <1>6 DEF PathsTaken
<1>8. /\ more[o] = Append(path[o], s) /\ \A e \in FileEntries : e # o => more[e] = path[e]
      /\ more \in [FileEntries -> Seq(D)]
  BY DEF PathFunctions, D
<1>9. /\ Len(more[o]) = Len(path[o]) + 1 /\ more[o][Len(path[o]) + 1] = s
      /\ \A i \in 1 .. Len(path[o]) : more[o][i] = path[o][i]
      /\ Len(path[o]) \in Nat
  BY <1>1, <1>7, <1>8
<1>10. \A i \in 1 .. Len(more[o]) : i \in 1 .. Len(path[o]) \/ i = Len(path[o]) + 1
  BY <1>9
<1>11. DirsHeld /\ \A d \in SubDirs : s \notin DirRun(d)
  BY <1>1 DEF DirsHeld
<1>12. PathsTaken(more)'
  <2>1. ASSUME NEW e \in FileEntries, NEW i \in 1 .. Len(more[e])
        PROVE  more[e][i] \in Taken \cup {s} /\ \A d \in SubDirs : more[e][i] \notin DirRun(d)
    <3>1. CASE e # o
      <4>1. more[e] = path[e]
        BY <1>8, <3>1
      <4>2. QED
        BY <1>6, <4>1 DEF PathsTaken
    <3>2. CASE e = o
      <4>1. CASE i = Len(path[o]) + 1
        BY <1>9, <1>11, <3>2, <4>1
      <4>2. CASE i \in 1 .. Len(path[o])
        <5>1. more[e][i] = path[o][i]
          BY <1>9, <3>2, <4>2
        <5>2. QED
          BY <1>6, <4>2, <5>1 DEF PathsTaken
      <4>3. QED
        BY <1>10, <3>2, <4>1, <4>2
    <3>3. QED
      BY <3>1, <3>2
  <2>2. QED
    BY <1>2, <1>3, <1>5, <2>1 DEF PathsTaken
<1>13. PathsApart(more)'
  <2>1. ASSUME NEW e \in FileEntries, NEW i \in 1 .. Len(more[e])
        PROVE  \/ i \in 1 .. Len(path[e]) /\ more[e][i] = path[e][i] /\ path[e][i] \in Taken
               \/ e = o /\ i = Len(path[o]) + 1 /\ more[e][i] = s
    <3>1. CASE e # o
      <4>1. more[e] = path[e]
        BY <1>8, <3>1
      <4>2. QED
        BY <1>6, <4>1 DEF PathsTaken
    <3>2. CASE e = o
      BY <1>7, <1>9, <1>10, <3>2
    <3>3. QED
      BY <3>1, <3>2
  <2>2. ASSUME NEW e \in FileEntries, NEW f \in FileEntries,
               NEW i \in 1 .. Len(more[e]), NEW j \in 1 .. Len(more[f]),
               more[e][i] = more[f][j]
        PROVE  e = f /\ i = j
    <3>1. CASE more[e][i] = s
      BY <1>1, <2>1, <2>2, <3>1
    <3>2. CASE more[e][i] # s
      <4>1. /\ i \in 1 .. Len(path[e]) /\ more[e][i] = path[e][i]
            /\ j \in 1 .. Len(path[f]) /\ more[f][j] = path[f][j]
        BY <2>1, <2>2, <3>2
      <4>2. PathsApart(path) /\ path[e][i] = path[f][j]
        BY <1>6, <2>2, <4>1
      <4>3. QED
        BY <2>2, <4>1, <4>2 DEF PathsApart
    <3>3. QED
      BY <3>1, <3>2
  <2>3. QED
    BY <1>5, <2>2 DEF PathsApart
<1>14. AllHeld(more)'
  <2>1. ASSUME NEW t \in Taken \cup {s}
        PROVE  \/ \E e \in FileEntries : \E i \in 1 .. Len(more[e]) : more[e][i] = t
               \/ \E d \in SubDirs : t \in DirRun(d)
    <3>1. CASE t = s
      <4>1. Len(path[o]) + 1 \in 1 .. Len(more[o])
        BY <1>9
      <4>2. QED
        BY <1>9, <3>1, <4>1
    <3>2. CASE t \in Taken
      <4>1. \/ \E e \in FileEntries : \E i \in 1 .. Len(path[e]) : path[e][i] = t
            \/ \E d \in SubDirs : t \in DirRun(d)
        BY <1>6, <3>2 DEF AllHeld
      <4>2. ASSUME NEW e \in FileEntries, NEW i \in 1 .. Len(path[e]), path[e][i] = t
            PROVE  \E k \in 1 .. Len(more[e]) : more[e][k] = t
        <5>1. CASE e # o
          <6>1. more[e] = path[e]
            BY <1>8, <5>1
          <6>2. QED
            BY <4>2, <6>1
        <5>2. CASE e = o
          <6>1. i \in 1 .. Len(more[o]) /\ more[o][i] = t
            BY <1>9, <4>2, <5>2
          <6>2. QED
            BY <5>2, <6>1
        <5>3. QED
          BY <5>1, <5>2
      <4>3. QED
        BY <4>1, <4>2
    <3>3. QED
      BY <3>1, <3>2
  <2>2. QED
    BY <1>2, <1>3, <1>5, <2>1 DEF AllHeld
<1>15. DirsHeld'
  BY <1>2, <1>3, <1>4, <1>11 DEF DirsHeld
<1>16. QED
  BY <1>1, <1>2, <1>3, <1>5, <1>7, <1>8, <1>12, <1>13, <1>14, <1>15 DEF D

(* A byte is put in a sector, a count and a link in another.               *)
ByteIsPut(new, old, s, i, b) == new = [old EXCEPT ![s].bytes[i] = b]
LinkIsPut(new, old, s, k, l) == new = [old EXCEPT ![s].count = k, ![s].link = l]

LEMMA BytePut ==
    ASSUME NEW n \in Nat, NEW old \in Sectors(n), NEW s \in 1 .. n,
           NEW i \in 1 .. PAYLOAD, NEW b \in (0 .. MaxCreated) \X (0 .. MaxBytes),
           NEW new, ByteIsPut(new, old, s, i, b)
    PROVE  /\ new \in Sectors(n)
           /\ \A t \in 1 .. n : t # s => new[t] = old[t]
           /\ new[s].count = old[s].count /\ new[s].link = old[s].link
           /\ new[s].bytes[i] = b
           /\ \A j \in 1 .. PAYLOAD : j # i => new[s].bytes[j] = old[s].bytes[j]
<1> DEFINE D == 1 .. n
           P == 1 .. PAYLOAD
           B == (0 .. MaxCreated) \X (0 .. MaxBytes)
           C == 0 .. PAYLOAD
           L == 0 .. n
           T == [bytes : [P -> B], count : C, link : L]
<1>1. Sectors(n) = [D -> T]
  BY DEF Sectors, SectorTypes
<1>2. old \in [D -> T] /\ s \in D /\ i \in P /\ b \in B
      /\ new = [old EXCEPT ![s].bytes[i] = b]
  BY <1>1 DEF ByteIsPut
<1> HIDE DEF D, P, B, C, L
<1>3. /\ new \in [D -> T]
      /\ \A t \in D : t # s => new[t] = old[t]
      /\ new[s].count = old[s].count /\ new[s].link = old[s].link
      /\ new[s].bytes[i] = b
      /\ \A j \in P : j # i => new[s].bytes[j] = old[s].bytes[j]
  BY <1>2
<1>4. QED
  BY <1>1, <1>3 DEF D, P

LEMMA LinkPut ==
    ASSUME NEW n \in Nat, NEW old \in Sectors(n), NEW s \in 1 .. n,
           NEW k \in 0 .. PAYLOAD, NEW l \in 0 .. n,
           NEW new, LinkIsPut(new, old, s, k, l)
    PROVE  /\ new \in Sectors(n)
           /\ \A t \in 1 .. n : t # s => new[t] = old[t]
           /\ new[s].count = k /\ new[s].link = l /\ new[s].bytes = old[s].bytes
<1> DEFINE D == 1 .. n
           B == [1 .. PAYLOAD -> (0 .. MaxCreated) \X (0 .. MaxBytes)]
           C == 0 .. PAYLOAD
           L == 0 .. n
           T == [bytes : B, count : C, link : L]
<1>1. Sectors(n) = [D -> T]
  BY DEF Sectors, SectorTypes
<1>2. old \in [D -> T] /\ s \in D /\ k \in C /\ l \in L
      /\ new = [old EXCEPT ![s].count = k, ![s].link = l]
  BY <1>1 DEF LinkIsPut
<1> HIDE DEF D, B, C, L
<1>3. /\ new \in [D -> T]
      /\ \A t \in D : t # s => new[t] = old[t]
      /\ new[s].count = k /\ new[s].link = l /\ new[s].bytes = old[s].bytes
  BY <1>2
<1>4. QED
  BY <1>1, <1>3 DEF D

(* The file that is open, and its entry.                                   *)
OpenPlace == <<file.dir, file.file_no>>

LEMMA OpenEntry ==
    ASSUME Shape, NEW path, Paths(path), file # NoFile
    PROVE  /\ file \in FileObjects
           /\ file.name \in 0 .. MaxCreated /\ file.size \in 0 .. MaxBytes
           /\ file.pos \in 0 .. PAYLOAD
           /\ OpenPlace \in FileEntries /\ OpenPlace \in Places
           /\ E(OpenPlace).flag = "opened" /\ E(OpenPlace).name = file.name
           /\ OpenPath(path[OpenPlace]) /\ path[OpenPlace] \in Seq(1 .. disk.sector_count)
           /\ \A e \in FileEntries : e # OpenPlace =>
                    E(e).flag = "in use" /\ ClosedPath(e, path[e])
<1>1. file \in FileObjects /\ file.name \in 0 .. MaxCreated /\ file.size \in 0 .. MaxBytes
      /\ file.pos \in 0 .. PAYLOAD
  BY DEF Shape, Types, TypeOK
<1>2. /\ OpenPlace \in Places /\ E(OpenPlace).name = file.name
      /\ \A e \in Places : E(e).flag = "opened" <=> e = OpenPlace
  BY DEF Shape, EntriesNamed, OpenPlace
<1>3. OpenPlace \in FileEntries
  BY <1>2 DEF FileEntries
<1>4. \A e \in FileEntries : e # OpenPlace => E(e).flag = "in use"
  BY <1>2 DEF FileEntries
<1>5. path \in [FileEntries -> Seq(1 .. disk.sector_count)] /\ PathsRight(path)
  BY DEF Paths, PathFunctions
<1>6. QED
  BY <1>1, <1>2, <1>3, <1>4, <1>5 DEF PathsRight

(* A step of the file that is open which writes no entry.                  *)
LEMMA FileStep ==
    ASSUME Shape, file # NoFile, UNCHANGED <<disk, dir, dir_stack, created, error>>,
           free' \subseteq free, file' \in FileObjects,
           file'.name = file.name, file'.dir = file.dir, file'.file_no = file.file_no,
           file'.size \in 0 .. MaxBytes, file'.pos \in 0 .. PAYLOAD,
           sec' \in Sectors(disk.sector_count)
    PROVE  /\ Types' /\ EntriesNamed' /\ EntriesInOrder' /\ OpenPlace' = OpenPlace
           /\ file' # NoFile
<1>1. disk' = disk /\ dir' = dir /\ dir_stack' = dir_stack /\ created' = created
      /\ error' = error /\ file' # NoFile
  BY ObjectFacts
<1>2. Places' = Places /\ EntryTypes' = EntryTypes
  BY <1>1 DEF Places, EntryTypes
<1>3. \A e : E(e)' = E(e)
  BY <1>1 DEF E
<1>4. TypeOK
  BY DEF Shape, Types
<1>5. TypeOK'
  BY <1>1, <1>4 DEF TypeOK, Sectors, SectorTypes
<1>6. Types'
  BY <1>1, <1>2, <1>5 DEF Shape, Types
<1>7. EntriesNamed'
  BY <1>1, <1>2, <1>3 DEF Shape, EntriesNamed
<1>8. EntriesInOrder'
  BY <1>1, <1>3 DEF Shape, EntriesInOrder
<1>9. QED
  BY <1>1, <1>6, <1>7, <1>8 DEF OpenPlace

OnPath(s, c) == \E i \in 1 .. Len(c) : c[i] = s

(* Such a step changes only sectors that are not those of a closed file.   *)
LEMMA OthersRight ==
    ASSUME Shape, NEW path, Paths(path), file # NoFile, disk' = disk, dir' = dir,
           NEW o, o = OpenPlace,
           NEW more \in PathFunctions,
           \A e \in FileEntries : e # o => more[e] = path[e],
           \A s \in Taken : ~OnPath(s, path[o]) => sec'[s] = sec[s],
           OpenPath(more[o])'
    PROVE  PathsRight(more)'
<1>1. \A e : E(e)' = E(e)
  BY DEF E
<1>2. FileEntries' = FileEntries
  BY <1>1 DEF FileEntries, Places
<1>3. /\ path \in [FileEntries -> Seq(1 .. disk.sector_count)]
      /\ PathsTaken(path) /\ PathsApart(path)
  BY DEF Paths, PathFunctions
<1>4. E(OpenPlace).flag = "opened" /\ OpenPlace \in FileEntries
      /\ \A e \in FileEntries : e # o => E(e).flag = "in use" /\ ClosedPath(e, path[e])
  BY OpenEntry
<1>5. ASSUME NEW e \in FileEntries, e # o PROVE ClosedPath(e, more[e])'
  <2> DEFINE c == path[e]
  <2>1. c \in Seq(1 .. disk.sector_count) /\ more[e] = c /\ ClosedPath(e, c)
    BY <1>3, <1>4, <1>5
  <2>2. ASSUME NEW i \in 1 .. Len(c) PROVE sec'[c[i]] = sec[c[i]]
    <3>1. c[i] \in Taken
      BY <1>3 DEF PathsTaken
    <3>2. \A j \in 1 .. Len(path[o]) : path[o][j] # c[i]
      BY <1>3, <1>4, <1>5 DEF PathsApart
    <3>3. ~OnPath(c[i], path[o])
      BY <3>2 DEF OnPath
    <3>4. QED
      BY <3>1, <3>3
  <2>3. Types /\ E(e)' = E(e)
    BY <1>1 DEF Shape
  <2> HIDE DEF c
  <2>4. ClosedPath(e, c)'
    BY <2>1, <2>2, <2>3, ClosedPathSame
  <2>5. QED
    BY <2>1, <2>4
<1>6. \A e \in FileEntries : (E(e).flag = "in use" => e # o)
                           /\ (E(e).flag = "opened" => e = o)
  BY <1>4
<1>7. ASSUME NEW e \in FileEntries
      PROVE  /\ E(e)'.flag = "in use" => ClosedPath(e, more[e])'
             /\ E(e)'.flag = "opened" => OpenPath(more[e])'
  <2>1. E(e)'.flag = E(e).flag
    BY <1>1
  <2>2. CASE e = o
    <3>1. E(e)'.flag # "in use"
      BY <1>6, <2>1, <2>2
    <3>2. OpenPath(more[e])'
      BY <2>2
    <3>3. QED
      BY <3>1, <3>2
  <2>3. CASE e # o
    <3>1. E(e)'.flag # "opened"
      BY <1>6, <2>1, <2>3
    <3>2. ClosedPath(e, more[e])'
      BY <1>5, <2>3
    <3>3. QED
      BY <3>1, <3>2
  <2>4. QED
    BY <2>2, <2>3
<1>8. QED
  BY <1>2, <1>7, Zenon DEF PathsRight

(* The byte that is written next is one a sector can hold.                 *)
LEMMA NextByteFacts ==
    ASSUME Shape, MayWrite
    PROVE  /\ NextByte \in (0 .. MaxCreated) \X (0 .. MaxBytes)
           /\ file # NoFile /\ file.size + 1 \in 0 .. MaxBytes
           /\ sec \in Sectors(disk.sector_count)
<1>1. file # NoFile /\ file.size < MaxBytes
  BY DEF MayWrite
<1>2. file.name \in 0 .. MaxCreated /\ file.size \in 0 .. MaxBytes
  BY <1>1 DEF Shape, Types
<1>3. file.size + 1 \in 0 .. MaxBytes
  BY <1>1, <1>2, ScaleFacts
<1>4. sec \in Sectors(disk.sector_count)
  BY DEF Shape, Types, TypeOK, Sectors, SectorTypes
<1>5. QED
  BY <1>1, <1>2, <1>3, <1>4 DEF NextByte

LEMMA WriteFirstKeeps == FilesIInv /\ WriteFirst => FilesIInv'
<1> SUFFICES ASSUME FilesIInv, WriteFirst PROVE FilesIInv'
  OBVIOUS
<1> DEFINE n == disk.sector_count
<1>1. Shape /\ MayWrite /\ file # NoFile /\ file.first_sec = 0
      /\ UNCHANGED <<disk, dir, dir_stack, created, error>>
  BY DEF FilesIInv, WriteFirst, MayWrite
<1>2. PICK path : Paths(path)
  BY DEF FilesIInv
<1>3. PICK o : o = OpenPlace
  OBVIOUS
<1>4. PICK s : s = First(free)
  OBVIOUS
<1>5. /\ s \in free /\ free' = free \ {s}
      /\ sec' = [sec EXCEPT ![s].bytes[1] = NextByte]
      /\ file' = [file EXCEPT !.first_sec = s, !.sector = s, !.pos = 1, !.size = 1]
  <2>1. free # {} /\ free \subseteq Nat
    BY <1>1, TypeFacts DEF WriteFirst, Shape
  <2>2. QED
    BY <1>4, <2>1, FirstFacts DEF WriteFirst
<1>6. /\ file \in FileObjects /\ o \in FileEntries /\ OpenPath(path[o])
      /\ path[o] \in Seq(1 .. disk.sector_count)
      /\ E(o).name = file.name /\ file.size \in 0 .. MaxBytes
  BY <1>1, <1>2, <1>3, OpenEntry
<1>7. /\ n \in Nat /\ s \in 1 .. n /\ s \in Nat /\ s \notin Taken
      /\ sec \in Sectors(n)
      /\ NextByte \in (0 .. MaxCreated) \X (0 .. MaxBytes) /\ file.size + 1 \in 0 .. MaxBytes
  BY <1>1, <1>5, TypeFacts, NextByteFacts DEF Shape
<1>8. path[o] = <<>> /\ file.size = 0 /\ file.sec_cnt = 0 /\ file.dos2_compatible
  <2>1. path[o] = <<>> /\ file.pos = 0
    BY <1>1, <1>6 DEF OpenPath
  <2>2. file.size = 0
    BY <1>6, <2>1 DEF OpenPath, HeldBytes
  <2>3. file.sec_cnt = 0
    BY <1>6, <2>1 DEF OpenPath, SectorsWritten, FileObjects
  <2>4. Len(path[o]) = 0
    BY <2>1
  <2>5. DosCan(path[o])
    BY <2>4 DEF DosCan
  <2>6. QED
    BY <1>6, <2>1, <2>2, <2>3, <2>5 DEF OpenPath
<1>9. /\ file' \in FileObjects
      /\ file'.name = file.name /\ file'.dir = file.dir /\ file'.file_no = file.file_no
      /\ file'.first_sec = s /\ file'.sector = s /\ file'.pos = 1 /\ file'.size = 1
      /\ file'.sec_cnt = 0 /\ file'.dos2_compatible
  BY <1>5, <1>6, <1>7, <1>8 DEF FileObjects
<1>10. /\ sec' \in Sectors(n)
       /\ \A t \in 1 .. n : t # s => sec'[t] = sec[t]
       /\ sec'[s].link = sec[s].link /\ sec'[s].bytes[1] = NextByte
  <2>1. 1 \in 1 .. PAYLOAD
    BY ScaleFacts
  <2>2. ByteIsPut(sec', sec, s, 1, NextByte)
    BY <1>5 DEF ByteIsPut
  <2> HIDE DEF n
  <2>3. QED
    BY <1>7, <2>1, <2>2, BytePut
<1>11. sec[s].link = 0 /\ sec'[s].link = 0
  BY <1>1, <1>5, <1>10 DEF Shape, LinksHeld
<1>12. PICK more \in PathFunctions :
           /\ more[o] = Append(path[o], s)
           /\ \A e \in FileEntries : e # o => more[e] = path[e]
  <2> DEFINE S == Seq(1 .. n)
             a == Append(path[o], s)
  <2>1. path \in [FileEntries -> S] /\ a \in S
    BY <1>2, <1>6, <1>7 DEF Paths, PathFunctions
  <2> HIDE DEF S, a
  <2>2. [path EXCEPT ![o] = a] \in [FileEntries -> S]
    BY <2>1
  <2>3. /\ [path EXCEPT ![o] = a][o] = a
        /\ \A e \in FileEntries : e # o => [path EXCEPT ![o] = a][e] = path[e]
    BY <1>6, <2>1
  <2>4. QED
    BY <2>2, <2>3 DEF S, a, PathFunctions
<1>13. /\ Places' = Places /\ SubDirs' = SubDirs /\ FileEntries' = FileEntries
       /\ Taken' = Taken \cup {s}
       /\ PathsTaken(more)' /\ PathsApart(more)' /\ AllHeld(more)'
       /\ DirsHeld'
  <2>1. Types /\ DirsHeld /\ dir' = dir /\ disk' = disk
    BY <1>1 DEF Shape
  <2>2. s \in free /\ free' = free \ {s}
    BY <1>5
  <2>3. QED
    BY <1>2, <1>6, <1>12, <2>1, <2>2, SectorAdded
<1>14. more[o] = <<s>>
  BY <1>7, <1>8, <1>12
<1>15. Types' /\ EntriesNamed' /\ EntriesInOrder'
  <2>1. free' \subseteq free /\ file'.size \in 0 .. MaxBytes /\ file'.pos \in 0 .. PAYLOAD
    BY <1>5, <1>7, <1>8, <1>9, ScaleFacts
  <2>2. QED
    BY <1>1, <1>9, <1>10, <2>1, FileStep
<1>16. LinksHeld'
  <2>1. \A t \in 1 .. n : sec'[t].link = sec[t].link
    BY <1>10
  <2>2. free' \subseteq 1 .. n
    BY <1>1, <1>5, TypeFacts DEF Shape
  <2>3. \A t \in free' : sec'[t].link = 0
    BY <1>1, <1>5, <2>1, <2>2 DEF Shape, LinksHeld
  <2>4. QED
    BY <1>1, <1>13, <2>1, <2>3 DEF Shape, LinksHeld
<1>17. OpenPath(more[o])'
  <2>1. PathFrom(more[o], file.first_sec, LinkOf)'
    <3>1. LinkOf'[s] = 0
      BY <1>1, <1>7, <1>11 DEF LinkOf
    <3>2. QED
      BY <1>9, <1>14, <3>1 DEF PathFrom
  <2>2. SectorsWritten' = Len(more[o])
    BY <1>9, <1>14 DEF SectorsWritten
  <2>3. file'.size = HeldBytes(more[o], PAYLOAD, file'.pos)
    BY <1>9, <1>14, ScaleFacts DEF HeldBytes
  <2>4. DosCan(more[o])'
    BY <1>14 DEF DosCan
  <2>5. Holds(more[o], file.name, file.pos, Len(more[o]) - 1)'
    <3>1. Len(more[o]) = 1 /\ more[o][1] = s
      BY <1>14
    <3>2. sec'[s].bytes[1] = <<file.name, (1 - 1) * PAYLOAD + 1>>
      BY <1>8, <1>10, ScaleFacts DEF NextByte
    <3>3. ASSUME NEW i \in 1 .. Len(more[o])
          PROVE  /\ ~(i <= Len(more[o]) - 1)
                 /\ i = Len(more[o]) /\ i = 1
      BY <3>1
    <3>4. \A j \in 1 .. 1 : j = 1
      OBVIOUS
    <3>5. QED
      BY <1>9, <3>1, <3>2, <3>3, <3>4 DEF Holds
  <2>6. (more[o] # <<>> => file.pos > 0 /\ file.sector = more[o][Len(more[o])])'
    BY <1>9, <1>14
  <2>7. file'.first_sec # 0
    BY <1>7, <1>9
  <2>8. QED
    BY <1>9, <2>1, <2>2, <2>3, <2>4, <2>5, <2>6, <2>7 DEF OpenPath
<1>18. PathsRight(more)'
  <2>1. \A t \in Taken : sec'[t] = sec[t]
    BY <1>1, <1>7, <1>10, TypeFacts DEF Shape
  <2>2. disk' = disk /\ dir' = dir
    BY <1>1
  <2>3. QED
    BY <1>1, <1>2, <1>3, <1>12, <1>17, <2>1, <2>2, OthersRight
<1>19. QED
  <2>1. Paths(more)'
    BY <1>1, <1>12, <1>13, <1>18 DEF Paths, PathFunctions
  <2>2. QED
    BY <1>13, <1>15, <1>16, <2>1 DEF FilesIInv, Shape

(* No sector is taken.                                                     *)
LEMMA PathsSame ==
    ASSUME DirsHeld, NEW path, Paths(path), dir' = dir, disk' = disk, free' = free
    PROVE  /\ Places' = Places /\ SubDirs' = SubDirs /\ FileEntries' = FileEntries
           /\ Taken' = Taken /\ PathFunctions' = PathFunctions /\ path \in PathFunctions
           /\ PathsTaken(path)' /\ PathsApart(path)' /\ AllHeld(path)'
           /\ DirsHeld'
<1>1. Places' = Places /\ SubDirs' = SubDirs /\ Taken' = Taken
  BY DEF Places, SubDirs, Taken
<1>2. \A e : E(e)' = E(e)
  BY DEF E
<1>3. FileEntries' = FileEntries
  BY <1>1, <1>2 DEF FileEntries
<1>4. PathFunctions' = PathFunctions
  BY <1>3 DEF PathFunctions
<1>5. path \in PathFunctions /\ PathsTaken(path)' /\ PathsApart(path)' /\ AllHeld(path)'
  BY <1>1, <1>3 DEF Paths, PathsTaken, PathsApart, AllHeld
<1>6. DirsHeld'
  BY <1>1, <1>2 DEF DirsHeld
<1>7. QED
  BY <1>1, <1>3, <1>4, <1>5, <1>6

(* The last sector of the file that is open is the current one.            *)
LEMMA LastSector ==
    ASSUME Shape, NEW path, Paths(path), file # NoFile, file.first_sec # 0,
           NEW o, o = OpenPlace
    PROVE  /\ Len(path[o]) \in Nat \ {0} /\ path[o][Len(path[o])] = file.sector
           /\ \A i \in 1 .. Len(path[o]) : i # Len(path[o]) => path[o][i] # file.sector
           /\ \A i \in 1 .. Len(path[o]) : path[o][i] \in 1 .. disk.sector_count
                                           /\ path[o][i] \in Taken
           /\ file.sector \in 1 .. disk.sector_count /\ file.sector \in Taken
           /\ file.pos \in 1 .. PAYLOAD /\ file.size = (Len(path[o]) - 1) * PAYLOAD + file.pos
<1>1. /\ o \in FileEntries /\ OpenPath(path[o]) /\ path[o] \in Seq(1 .. disk.sector_count)
      /\ file.pos \in 0 .. PAYLOAD
  BY OpenEntry
<1>2. path[o] # <<>>
  BY <1>1 DEF OpenPath, PathFrom
<1>3. file.pos > 0 /\ file.sector = path[o][Len(path[o])]
      /\ file.size = (Len(path[o]) - 1) * PAYLOAD + file.pos
  BY <1>1, <1>2 DEF OpenPath, HeldBytes
<1>4. PathsTaken(path) /\ PathsApart(path)
  BY DEF Paths
<1>5. Len(path[o]) \in Nat \ {0}
  BY <1>1, <1>2
<1>6. \A i \in 1 .. Len(path[o]) : path[o][i] \in 1 .. disk.sector_count
                                           /\ path[o][i] \in Taken
  BY <1>1, <1>4, TypeFacts DEF PathsTaken, Shape
<1>7. Len(path[o]) \in 1 .. Len(path[o])
  BY <1>5
<1>8. \A i \in 1 .. Len(path[o]) : i # Len(path[o]) => path[o][i] # file.sector
  BY <1>1, <1>3, <1>4, <1>7 DEF PathsApart
<1>9. file.pos \in 1 .. PAYLOAD
  BY <1>1, <1>3, ScaleFacts
<1>10. QED
  BY <1>3, <1>5, <1>6, <1>7, <1>8, <1>9

LEMMA WriteMoreKeeps == FilesIInv /\ WriteMore => FilesIInv'
<1> SUFFICES ASSUME FilesIInv, WriteMore PROVE FilesIInv'
  OBVIOUS
<1> DEFINE n == disk.sector_count
<1>1. Shape /\ MayWrite /\ file # NoFile /\ file.first_sec # 0 /\ file.pos < PAYLOAD
      /\ UNCHANGED <<disk, free, dir, dir_stack, created, error>>
      /\ Types /\ DirsHeld /\ LinksHeld
  BY DEF FilesIInv, WriteMore, MayWrite, Shape
<1>2. PICK path : Paths(path)
  BY DEF FilesIInv
<1>3. PICK o : o = OpenPlace
  OBVIOUS
<1>4. /\ sec' = [sec EXCEPT ![file.sector].bytes[file.pos + 1] = NextByte]
      /\ file' = [file EXCEPT !.pos = @ + 1, !.size = @ + 1]
  BY DEF WriteMore
<1>5. /\ file \in FileObjects /\ o \in FileEntries /\ OpenPath(path[o])
      /\ path[o] \in Seq(1 .. n)
  BY <1>1, <1>2, <1>3, OpenEntry
<1> DEFINE c == path[o]
           m == Len(c)
           p == file.pos
           s == file.sector
<1>6. /\ m \in Nat \ {0} /\ c[m] = s /\ m \in 1 .. m
      /\ \A i \in 1 .. m : i # m => c[i] # s
      /\ \A i \in 1 .. m : c[i] \in 1 .. n
      /\ s \in 1 .. n /\ p \in 1 .. PAYLOAD /\ file.size = (m - 1) * PAYLOAD + p
  BY <1>1, <1>2, <1>3, LastSector
<1>7. /\ n \in Nat /\ sec \in Sectors(n)
      /\ NextByte \in (0 .. MaxCreated) \X (0 .. MaxBytes) /\ file.size + 1 \in 0 .. MaxBytes
      /\ file.size \in Nat
  <2>1. file.size \in Nat
    BY <1>5 DEF FileObjects
  <2>2. QED
    BY <1>1, <2>1, TypeFacts, NextByteFacts
<1>8. p + 1 \in 1 .. PAYLOAD /\ p + 1 \in Nat /\ p \in Nat /\ PAYLOAD \in Nat
      /\ (m - 1) * PAYLOAD \in Nat
  <2>1. p + 1 \in 1 .. PAYLOAD /\ p + 1 \in Nat /\ p \in Nat /\ PAYLOAD \in Nat
    BY <1>1, <1>6, ScaleFacts
  <2>2. m - 1 \in Nat
    BY <1>6
  <2> HIDE DEF m
  <2>3. (m - 1) * PAYLOAD \in Nat
    BY <2>1, <2>2
  <2>4. QED
    BY <2>1, <2>3
<1>9. /\ file' \in FileObjects
      /\ file'.name = file.name /\ file'.dir = file.dir /\ file'.file_no = file.file_no
      /\ file'.first_sec = file.first_sec /\ file'.sector = s
      /\ file'.pos = p + 1 /\ file'.size = file.size + 1
      /\ file'.sec_cnt = file.sec_cnt /\ file'.dos2_compatible = file.dos2_compatible
  <2> DEFINE q == p + 1
             z == file.size + 1
  <2>1. q \in Nat /\ z \in Nat /\ file' = [file EXCEPT !.pos = q, !.size = z]
    BY <1>4, <1>7, <1>8
  <2> HIDE DEF q, z
  <2>2. /\ file' \in FileObjects
        /\ file'.name = file.name /\ file'.dir = file.dir /\ file'.file_no = file.file_no
        /\ file'.first_sec = file.first_sec /\ file'.sector = file.sector
        /\ file'.pos = q /\ file'.size = z
        /\ file'.sec_cnt = file.sec_cnt /\ file'.dos2_compatible = file.dos2_compatible
    BY <1>5, <2>1 DEF FileObjects
  <2>3. QED
    BY <2>2 DEF q, z
<1>10. /\ sec' \in Sectors(n)
       /\ \A t \in 1 .. n : t # s => sec'[t] = sec[t]
       /\ sec'[s].count = sec[s].count /\ sec'[s].link = sec[s].link
       /\ sec'[s].bytes[p + 1] = NextByte
       /\ \A j \in 1 .. PAYLOAD : j # p + 1 => sec'[s].bytes[j] = sec[s].bytes[j]
  <2> DEFINE q == p + 1
  <2>1. ByteIsPut(sec', sec, s, q, NextByte) /\ q \in 1 .. PAYLOAD
    BY <1>4, <1>8 DEF ByteIsPut
  <2> HIDE DEF n, p, q, s
  <2>2. /\ sec' \in Sectors(n)
        /\ \A t \in 1 .. n : t # s => sec'[t] = sec[t]
        /\ sec'[s].count = sec[s].count /\ sec'[s].link = sec[s].link
        /\ sec'[s].bytes[q] = NextByte
        /\ \A j \in 1 .. PAYLOAD : j # q => sec'[s].bytes[j] = sec[s].bytes[j]
    BY <1>6, <1>7, <2>1, BytePut
  <2>3. QED
    BY <2>2 DEF q
<1>11. \A t \in 1 .. n : sec'[t].link = sec[t].link
  BY <1>10
<1>12. /\ Places' = Places /\ SubDirs' = SubDirs /\ FileEntries' = FileEntries
       /\ Taken' = Taken /\ PathFunctions' = PathFunctions /\ path \in PathFunctions
       /\ PathsTaken(path)' /\ PathsApart(path)' /\ AllHeld(path)'
       /\ DirsHeld'
  BY <1>1, <1>2, PathsSame
<1>13. Types' /\ EntriesNamed' /\ EntriesInOrder'
  <2>1. free' \subseteq free /\ file'.size \in 0 .. MaxBytes /\ file'.pos \in 0 .. PAYLOAD
    BY <1>1, <1>7, <1>8, <1>9
  <2>2. QED
    BY <1>1, <1>9, <1>10, <2>1, FileStep
<1>14. LinksHeld'
  <2>1. free \subseteq 1 .. n
    BY <1>1, TypeFacts
  <2>2. QED
    BY <1>1, <1>11, <1>12, <2>1 DEF LinksHeld
<1>15. OpenPath(c)'
  <2>1. PathFrom(c, file.first_sec, LinkOf)'
    <3>1. \A i \in 1 .. Len(c) : LinkOf'[c[i]] = LinkOf[c[i]]
      BY <1>1, <1>6, <1>11 DEF LinkOf
    <3>2. PathFrom(c, file.first_sec, LinkOf)
      BY <1>5 DEF OpenPath
    <3> HIDE DEF c
    <3>3. QED
      BY <1>9, <3>1, <3>2 DEF PathFrom
  <2>2. SectorsWritten' = Len(c)
    <3>1. SectorsWritten = Len(c)
      BY <1>5 DEF OpenPath
    <3>2. SectorsWritten' = SectorsWritten
      BY <1>6, <1>8, <1>9 DEF SectorsWritten
    <3>3. QED
      BY <3>1, <3>2
  <2>3. c # <<>>
    BY <1>6
  <2>4. file'.size = HeldBytes(c, PAYLOAD, file'.pos)
    <3> DEFINE a == (m - 1) * PAYLOAD
    <3>1. a \in Nat /\ file.size = a + p /\ p \in Nat
      BY <1>6, ScaleFacts
    <3>2. file'.size = a + (p + 1)
      <4> HIDE DEF a, p
      <4>1. QED
        BY <1>9, <3>1
    <3>3. QED
      BY <1>9, <2>3, <3>2 DEF HeldBytes
  <2>5. file'.dos2_compatible <=> DosCan(c)'
    <3>1. file.dos2_compatible <=> DosCan(c)
      BY <1>5 DEF OpenPath
    <3>2. disk' = disk
      BY <1>1
    <3>3. QED
      BY <1>9, <3>1, <3>2 DEF DosCan
  <2>6. Holds(c, file.name, file.pos, Len(c) - 1)'
    <3>1. Holds(c, file.name, p, m - 1)
      BY <1>5 DEF OpenPath
    <3>2. ASSUME NEW i \in 1 .. m, i # m
          PROVE  /\ i <= m - 1 => sec'[c[i]].count = PAYLOAD
                 /\ \A j \in 1 .. PAYLOAD :
                        sec'[c[i]].bytes[j] = <<file.name, (i - 1) * PAYLOAD + j>>
      <4>1. sec'[c[i]] = sec[c[i]]
        BY <1>6, <1>10, <3>2
      <4> HIDE DEF p
      <4>2. QED
        BY <3>1, <3>2, <4>1 DEF Holds
    <3>3. ASSUME NEW j \in 1 .. p + 1
          PROVE  sec'[c[m]].bytes[j] = <<file.name, (m - 1) * PAYLOAD + j>>
      <4>1. CASE j = p + 1
        <5> DEFINE a == (m - 1) * PAYLOAD
        <5>1. a \in Nat /\ file.size = a + p /\ p \in Nat
          BY <1>6, <1>8
        <5> HIDE DEF a
        <5>2. file.size + 1 = a + j
          BY <4>1, <5>1
        <5>3. NextByte = <<file.name, a + j>>
          BY <5>2 DEF NextByte
        <5>4. QED
          BY <1>6, <1>10, <4>1, <5>3 DEF a
      <4>2. CASE j # p + 1
        <5>1. j \in 1 .. p /\ j \in 1 .. PAYLOAD
          BY <1>8, <3>3, <4>2
        <5>2. sec[c[m]].bytes[j] = <<file.name, (m - 1) * PAYLOAD + j>>
          BY <1>6, <3>1, <5>1 DEF Holds
        <5>3. QED
          BY <1>6, <1>10, <4>2, <5>1, <5>2
      <4>3. QED
        BY <4>1, <4>2
    <3>4. ~(m <= m - 1)
      BY <1>6
    <3>5. file'.name = file.name /\ file'.pos = p + 1
      BY <1>9
    <3> HIDE DEF m, p, c
    <3>6. ASSUME NEW i \in 1 .. m
          PROVE  /\ i <= m - 1 => sec'[c[i]].count = IF i = m THEN p + 1 ELSE PAYLOAD
                 /\ \A j \in 1 .. (IF i = m THEN p + 1 ELSE PAYLOAD) :
                        sec'[c[i]].bytes[j] = <<file.name, (i - 1) * PAYLOAD + j>>
      BY <3>2, <3>3, <3>4
    <3>7. m = Len(c)
      BY DEF m
    <3> DEFINE name == file.name
               S == sec'
    <3>8. \A i \in 1 .. Len(c) :
              /\ i <= Len(c) - 1 => S[c[i]].count = IF i = Len(c) THEN p + 1 ELSE PAYLOAD
              /\ \A j \in 1 .. (IF i = Len(c) THEN p + 1 ELSE PAYLOAD) :
                     S[c[i]].bytes[j] = <<name, (i - 1) * PAYLOAD + j>>
      BY <3>6, <3>7, Zenon
    <3> HIDE DEF name, S
    <3>9. file'.name = name /\ file'.pos = p + 1 /\ sec' = S /\ m - 1 = Len(c) - 1
      BY <3>5, <3>7 DEF name, S
    <3>10. QED
      BY <3>8, <3>9, Zenon DEF Holds
  <2>7. (c # <<>> => file.pos > 0 /\ file.sector = c[Len(c)])' /\ file'.first_sec # 0
    BY <1>1, <1>6, <1>8, <1>9
  <2> HIDE DEF c
  <2>8. QED
    BY <1>9, <2>1, <2>2, <2>4, <2>5, <2>6, <2>7 DEF OpenPath
<1>16. PathsRight(path)'
  <2>1. ASSUME NEW t \in Taken, ~OnPath(t, path[o]) PROVE sec'[t] = sec[t]
    <3>1. t \in 1 .. n /\ t # s
      BY <1>1, <1>6, <2>1, TypeFacts DEF OnPath
    <3>2. QED
      BY <1>10, <3>1
  <2>2. disk' = disk /\ dir' = dir
    BY <1>1
  <2>3. QED
    BY <1>1, <1>2, <1>3, <1>12, <1>15, <2>1, <2>2, OthersRight
<1>17. QED
  <2>1. Paths(path)'
    BY <1>12, <1>16 DEF Paths
  <2>2. QED
    BY <1>12, <1>13, <1>14, <2>1 DEF FilesIInv, Shape

LEMMA WriteNextKeeps == FilesIInv /\ WriteNext => FilesIInv'
<1> SUFFICES ASSUME FilesIInv, WriteNext PROVE FilesIInv'
  OBVIOUS
<1> DEFINE n == disk.sector_count
<1>1. Shape /\ MayWrite /\ file # NoFile /\ file.first_sec # 0 /\ file.pos = PAYLOAD
      /\ UNCHANGED <<disk, dir, dir_stack, created, error>>
      /\ Types /\ DirsHeld /\ LinksHeld
  BY DEF FilesIInv, WriteNext, MayWrite, Shape
<1>2. PICK path : Paths(path)
  BY DEF FilesIInv
<1>3. PICK o : o = OpenPlace
  OBVIOUS
<1>4. PICK s : s = First(free)
  OBVIOUS
<1>5. /\ s \in free /\ free' = free \ {s} /\ LinkAllowed(s)
      /\ sec' = [SectorLinked(s) EXCEPT ![s].bytes[1] = NextByte]
      /\ file' = [file EXCEPT !.sector = s, !.pos = 1, !.sec_cnt = @ + 1, !.size = @ + 1,
                              !.dos2_compatible = Compatible(s)]
  <2>1. free # {} /\ free \subseteq Nat
    BY <1>1, TypeFacts DEF WriteNext
  <2>2. QED
    BY <1>4, <2>1, FirstFacts DEF WriteNext
<1>6. /\ file \in FileObjects /\ o \in FileEntries /\ OpenPath(path[o])
      /\ path[o] \in Seq(1 .. n)
  BY <1>1, <1>2, <1>3, OpenEntry
<1> DEFINE c == path[o]
           m == Len(c)
           t == file.sector
<1>7. /\ m \in Nat \ {0} /\ c[m] = t /\ m \in 1 .. m
      /\ \A i \in 1 .. m : i # m => c[i] # t
      /\ \A i \in 1 .. m : c[i] \in 1 .. n /\ c[i] \in Taken
      /\ t \in 1 .. n /\ t \in Taken
      /\ file.size = (m - 1) * PAYLOAD + PAYLOAD
  BY <1>1, <1>2, <1>3, LastSector
<1>8. /\ n \in Nat /\ sec \in Sectors(n)
      /\ s \in 1 .. n /\ s \in 0 .. n /\ s \in Nat /\ s # 0 /\ s \notin Taken /\ s # t
      /\ NextByte \in (0 .. MaxCreated) \X (0 .. MaxBytes) /\ file.size + 1 \in 0 .. MaxBytes
      /\ file.size \in Nat /\ file.sec_cnt \in Nat
      /\ 1 \in 1 .. PAYLOAD /\ PAYLOAD \in 0 .. PAYLOAD /\ PAYLOAD \in Nat /\ PAYLOAD > 0
  <2>1. file.size \in Nat /\ file.sec_cnt \in Nat
    BY <1>6 DEF FileObjects
  <2>2. n \in Nat /\ s \in 1 .. n /\ s \notin Taken
    BY <1>1, <1>5, TypeFacts
  <2>3. s \in 0 .. n /\ s \in Nat /\ s # 0 /\ s # t
    BY <1>7, <2>2
  <2>4. 1 \in 1 .. PAYLOAD /\ PAYLOAD \in 0 .. PAYLOAD /\ PAYLOAD \in Nat /\ PAYLOAD > 0
    BY ScaleFacts
  <2>5. QED
    BY <1>1, <2>1, <2>2, <2>3, <2>4, NextByteFacts
<1>9. file.size = m * PAYLOAD
  <2>1. m \in Nat /\ PAYLOAD \in Nat
    BY <1>7, <1>8
  <2> HIDE DEF m
  <2>2. (m - 1) * PAYLOAD + PAYLOAD = m * PAYLOAD
    BY <2>1
  <2>3. QED
    BY <1>7, <2>2
<1>10. /\ file' \in FileObjects
       /\ file'.name = file.name /\ file'.dir = file.dir /\ file'.file_no = file.file_no
       /\ file'.first_sec = file.first_sec /\ file'.sector = s
       /\ file'.pos = 1 /\ file'.size = file.size + 1
       /\ file'.sec_cnt = file.sec_cnt + 1
       /\ file'.dos2_compatible = Compatible(s)
  <2> DEFINE k == file.sec_cnt + 1
             z == file.size + 1
             f == Compatible(s)
  <2>1. k \in Nat /\ z \in Nat /\ f \in BOOLEAN /\ 1 \in Nat
        /\ file' = [file EXCEPT !.sector = s, !.pos = 1, !.sec_cnt = k, !.size = z,
                                !.dos2_compatible = f]
    <3>1. f \in BOOLEAN
      BY DEF Compatible
    <3> HIDE DEF f
    <3>2. QED
      BY <1>5, <1>8, <3>1 DEF f
  <2> HIDE DEF k, z, f
  <2>2. /\ file' \in FileObjects
        /\ file'.name = file.name /\ file'.dir = file.dir /\ file'.file_no = file.file_no
        /\ file'.first_sec = file.first_sec /\ file'.sector = s
        /\ file'.pos = 1 /\ file'.size = z
        /\ file'.sec_cnt = k /\ file'.dos2_compatible = f
    BY <1>6, <1>8, <2>1 DEF FileObjects
  <2>3. QED
    BY <2>2 DEF k, z, f
<1>11. /\ sec' \in Sectors(n)
       /\ \A u \in 1 .. n : u # s /\ u # t => sec'[u] = sec[u]
       /\ sec'[t].count = PAYLOAD /\ sec'[t].link = s /\ sec'[t].bytes = sec[t].bytes
       /\ sec'[s].link = sec[s].link /\ sec'[s].bytes[1] = NextByte
  <2> DEFINE mid == SectorLinked(s)
  <2>1. LinkIsPut(mid, sec, t, PAYLOAD, s)
    BY <1>1 DEF SectorLinked, LinkIsPut
  <2>2. ByteIsPut(sec', mid, s, 1, NextByte)
    BY <1>5 DEF ByteIsPut
  <2> HIDE DEF mid, n, t
  <2>0. PAYLOAD \in 0 .. PAYLOAD /\ s \in 0 .. n
    BY <1>7, <1>8, ScaleFacts
  <2>3. /\ mid \in Sectors(n)
        /\ \A u \in 1 .. n : u # t => mid[u] = sec[u]
        /\ mid[t].count = PAYLOAD /\ mid[t].link = s /\ mid[t].bytes = sec[t].bytes
    BY <1>7, <1>8, <2>0, <2>1, LinkPut, SMTT(30)
  <2>4. /\ sec' \in Sectors(n)
        /\ \A u \in 1 .. n : u # s => sec'[u] = mid[u]
        /\ sec'[s].link = mid[s].link /\ sec'[s].bytes[1] = NextByte
    BY <1>8, <2>2, <2>3, BytePut
  <2>5. QED
    BY <1>7, <1>8, <2>3, <2>4
<1>12. sec[s].link = 0 /\ sec'[s].link = 0
  BY <1>1, <1>5, <1>11 DEF LinksHeld
<1>13. PICK more \in PathFunctions :
           /\ more[o] = Append(path[o], s)
           /\ \A e \in FileEntries : e # o => more[e] = path[e]
  <2> DEFINE S == Seq(1 .. n)
             a == Append(path[o], s)
  <2>1. path \in [FileEntries -> S] /\ a \in S
    BY <1>2, <1>6, <1>8 DEF Paths, PathFunctions
  <2> HIDE DEF S, a
  <2>2. [path EXCEPT ![o] = a] \in [FileEntries -> S]
    BY <2>1
  <2>3. /\ [path EXCEPT ![o] = a][o] = a
        /\ \A e \in FileEntries : e # o => [path EXCEPT ![o] = a][e] = path[e]
    BY <1>6, <2>1
  <2>4. QED
    BY <2>2, <2>3 DEF S, a, PathFunctions
<1>14. /\ Places' = Places /\ SubDirs' = SubDirs /\ FileEntries' = FileEntries
       /\ Taken' = Taken \cup {s}
       /\ PathsTaken(more)' /\ PathsApart(more)' /\ AllHeld(more)'
       /\ DirsHeld'
  <2>1. Types /\ DirsHeld /\ dir' = dir /\ disk' = disk
    BY <1>1
  <2>2. s \in free /\ free' = free \ {s}
    BY <1>5
  <2>3. QED
    BY <1>2, <1>6, <1>13, <2>1, <2>2, SectorAdded
<1> DEFINE d == more[o]
<1>15. /\ Len(d) = m + 1 /\ d[m + 1] = s /\ \A i \in 1 .. m : d[i] = c[i]
       /\ d # <<>> /\ d[1] = c[1] /\ c # <<>>
       /\ \A i \in 1 .. Len(d) : i \in 1 .. m \/ i = m + 1
  <2>1. d = Append(c, s) /\ c \in Seq(1 .. n) /\ s \in 1 .. n /\ m \in Nat \ {0}
    BY <1>6, <1>7, <1>8, <1>13
  <2> HIDE DEF d
  <2>2. /\ Len(d) = m + 1 /\ d[m + 1] = s /\ \A i \in 1 .. m : d[i] = c[i]
        /\ d # <<>> /\ c # <<>>
    BY <2>1
  <2>3. 1 \in 1 .. m /\ \A i \in 1 .. m + 1 : i \in 1 .. m \/ i = m + 1
    BY <2>1
  <2>4. QED
    BY <2>2, <2>3
<1>16. Types' /\ EntriesNamed' /\ EntriesInOrder'
  <2>1. free' \subseteq free /\ file'.size \in 0 .. MaxBytes /\ file'.pos \in 0 .. PAYLOAD
    BY <1>5, <1>8, <1>10
  <2>2. QED
    BY <1>1, <1>10, <1>11, <2>1, FileStep
<1>17. LinksHeld'
  <2>1. free' \subseteq 1 .. n /\ t \notin free
    BY <1>1, <1>5, <1>7, TypeFacts
  <2>2. \A u \in free' : sec'[u].link = 0
    BY <1>1, <1>5, <1>11, <2>1 DEF LinksHeld
  <2>3. disk.use_file_number /\ ~disk.ndebug => s < LINKS
    BY <1>5 DEF LinkAllowed
  <2>4. ASSUME NEW u \in 1 .. n
        PROVE  /\ sec'[u].link = 0 \/ sec'[u].link \in Taken'
               /\ disk.use_file_number /\ ~disk.ndebug => sec'[u].link < LINKS
    <3>1. CASE u = t
      BY <1>11, <1>14, <2>3, <3>1
    <3>2. CASE u # t
      <4>1. sec'[u].link = sec[u].link
        BY <1>11, <3>2
      <4>2. QED
        BY <1>1, <1>14, <4>1 DEF LinksHeld
    <3>3. QED
      BY <3>1, <3>2
  <2>5. disk' = disk
    BY <1>1
  <2>6. QED
    BY <2>2, <2>4, <2>5 DEF LinksHeld
<1>18. OpenPath(d)'
  <2>1. PathFrom(d, file.first_sec, LinkOf)'
    <3>1. PathFrom(c, file.first_sec, LinkOf)
      BY <1>6 DEF OpenPath
    <3>2. ASSUME NEW i \in 1 .. m, i # m PROVE LinkOf'[d[i]] = d[i + 1]
      <4>1. c[i] \in 1 .. n /\ c[i] # s /\ c[i] # t /\ d[i] = c[i] /\ i + 1 \in 1 .. m
        <5>1. i + 1 \in 1 .. m
          <6>1. m \in Nat
            BY <1>7
          <6> HIDE DEF m
          <6>2. QED
            BY <3>2, <6>1
        <5>2. QED
          BY <1>7, <1>8, <1>15, <3>2, <5>1
      <4>2. LinkOf'[c[i]] = LinkOf[c[i]]
        BY <1>1, <1>11, <4>1 DEF LinkOf
      <4>3. LinkOf[c[i]] = c[i + 1]
        BY <3>1, <3>2 DEF PathFrom
      <4>4. d[i + 1] = c[i + 1]
        BY <1>15, <4>1
      <4>5. QED
        BY <4>1, <4>2, <4>3, <4>4
    <3>3. LinkOf'[d[m]] = d[m + 1] /\ LinkOf'[d[m + 1]] = 0
      BY <1>1, <1>7, <1>8, <1>11, <1>12, <1>15 DEF LinkOf
    <3>4. file'.first_sec = d[1]
      BY <1>10, <1>15, <3>1 DEF PathFrom
    <3>5. m + 1 # m /\ \A i \in 1 .. m : i # m + 1
      BY <1>7
    <3> HIDE DEF d, m
    <3>6. \A i \in 1 .. Len(d) : LinkOf'[d[i]] = IF i = Len(d) THEN 0 ELSE d[i + 1]
      BY <1>15, <3>2, <3>3, <3>5
    <3>7. QED
      BY <1>15, <3>4, <3>6 DEF PathFrom
  <2>2. SectorsWritten' = Len(d)
    <3>1. SectorsWritten = m
      BY <1>6 DEF OpenPath
    <3>2. file.sec_cnt + 1 = m
      BY <1>1, <1>8, <3>1 DEF SectorsWritten
    <3>3. QED
      BY <1>8, <1>10, <1>15, <3>2 DEF SectorsWritten
  <2>3. file'.size = HeldBytes(d, PAYLOAD, file'.pos)
    <3>1. Len(d) - 1 = m
      BY <1>7, <1>15
    <3> HIDE DEF d, m
    <3>2. QED
      BY <1>9, <1>10, <1>15, <3>1 DEF HeldBytes
  <2>4. file'.dos2_compatible <=> DosCan(d)'
    <3>1. file.dos2_compatible <=> DosCan(c)
      BY <1>6 DEF OpenPath
    <3>2. disk' = disk
      BY <1>1
    <3>3. m + 1 \in 2 .. Len(d)
      BY <1>7, <1>15
    <3>4. ASSUME NEW i \in 2 .. Len(d) PROVE (i \in 2 .. m /\ d[i] = c[i]) \/ d[i] = s
      BY <1>7, <1>15
    <3>5. \A i \in 2 .. m : i \in 2 .. Len(d) /\ d[i] = c[i]
      BY <1>7, <1>15
    <3>6. s <= DOS2_LAST <=> ~(s > DOS2_LAST)
      BY <1>8, ScaleFacts
    <3>7. d[m + 1] = s /\ file'.dos2_compatible = Compatible(s)
      BY <1>10, <1>15
    <3> DEFINE low == \A i \in 2 .. m : c[i] <= DOS2_LAST
    <3>8. (\A i \in 2 .. Len(d) : d[i] <= DOS2_LAST) <=> low /\ s <= DOS2_LAST
      <4> HIDE DEF d, c, m
      <4>1. QED
        BY <3>3, <3>4, <3>5, <3>7
    <3>9. DosCan(c) <=> disk.force_dos2_flag \/ low
      BY DEF DosCan
    <3>10. DosCan(d)' <=> disk.force_dos2_flag \/ (low /\ s <= DOS2_LAST)
      BY <3>2, <3>8 DEF DosCan
    <3> HIDE DEF low, d, c, m
    <3>11. QED
      BY <3>1, <3>6, <3>7, <3>9, <3>10 DEF Compatible
  <2>5. Holds(d, file.name, file.pos, Len(d) - 1)'
    <3>1. Holds(c, file.name, PAYLOAD, m - 1)
      BY <1>1, <1>6 DEF OpenPath
    <3>2. ASSUME NEW i \in 1 .. m
          PROVE  /\ sec'[d[i]].count = PAYLOAD
                 /\ \A j \in 1 .. PAYLOAD :
                        sec'[d[i]].bytes[j] = <<file.name, (i - 1) * PAYLOAD + j>>
      <4>1. d[i] = c[i]
        BY <1>15
      <4>2. \A j \in 1 .. PAYLOAD : sec[c[i]].bytes[j] = <<file.name, (i - 1) * PAYLOAD + j>>
        BY <3>1 DEF Holds
      <4>3. sec'[c[i]].bytes = sec[c[i]].bytes /\ sec'[c[i]].count = PAYLOAD
        <5>1. CASE i = m
          BY <1>7, <1>11, <5>1
        <5>2. CASE i # m
          <6>1. i <= m - 1
            BY <1>7, <5>2
          <6>2. sec[c[i]].count = PAYLOAD
            BY <3>1, <5>2, <6>1 DEF Holds
          <6>3. c[i] \in 1 .. n /\ c[i] # s /\ c[i] # t
            BY <1>7, <1>8, <5>2
          <6>4. sec'[c[i]] = sec[c[i]]
            BY <1>11, <6>3
          <6>5. QED
            BY <6>2, <6>4
        <5>3. QED
          BY <5>1, <5>2
      <4> HIDE DEF d, c, m
      <4>4. QED
        BY <4>1, <4>2, <4>3
    <3>3. sec'[d[m + 1]].bytes[1] = <<file.name, m * PAYLOAD + 1>>
      BY <1>9, <1>11, <1>15 DEF NextByte
    <3>4. file'.name = file.name /\ file'.pos = 1 /\ (m + 1) - 1 = m /\ ~(m + 1 <= m)
          /\ \A i \in 1 .. m : i # m + 1
      BY <1>7, <1>10
    <3>5. \A j \in 1 .. 1 : j = 1
      OBVIOUS
    <3> HIDE DEF d, c, m
    <3>6. ASSUME NEW i \in 1 .. Len(d)
          PROVE  /\ i <= Len(d) - 1 => sec'[d[i]].count = IF i = Len(d) THEN 1 ELSE PAYLOAD
                 /\ \A j \in 1 .. (IF i = Len(d) THEN 1 ELSE PAYLOAD) :
                        sec'[d[i]].bytes[j] = <<file.name, (i - 1) * PAYLOAD + j>>
      <4>1. CASE i \in 1 .. m
        <5>1. i # Len(d)
          BY <1>15, <3>4, <4>1
        <5>2. QED
          BY <3>2, <4>1, <5>1
      <4>2. CASE i = m + 1
        <5>1. i = Len(d) /\ i - 1 = m /\ ~(i <= Len(d) - 1)
          BY <1>15, <3>4, <4>2
        <5>2. QED
          BY <3>3, <3>5, <4>2, <5>1
      <4>3. QED
        BY <1>15, <4>1, <4>2
    <3>7. QED
      BY <3>4, <3>6 DEF Holds
  <2>6. (d # <<>> => file.pos > 0 /\ file.sector = d[Len(d)])' /\ file'.first_sec # 0
    BY <1>1, <1>10, <1>15
  <2> HIDE DEF d
  <2>7. QED
    BY <1>10, <2>1, <2>2, <2>3, <2>4, <2>5, <2>6 DEF OpenPath
<1>19. PathsRight(more)'
  <2>1. ASSUME NEW u \in Taken, ~OnPath(u, path[o]) PROVE sec'[u] = sec[u]
    <3>1. u \in 1 .. n /\ u # t /\ u # s
      BY <1>1, <1>7, <1>8, <2>1, TypeFacts DEF OnPath
    <3>2. QED
      BY <1>11, <3>1
  <2>2. disk' = disk /\ dir' = dir /\ Shape /\ file # NoFile
    BY <1>1
  <2>3. OpenPath(more[o])'
    BY <1>18
  <2>4. QED
    BY <1>2, <1>3, <1>13, <2>1, <2>2, <2>3, OthersRight
<1>20. QED
  <2>1. Paths(more)'
    BY <1>1, <1>13, <1>14, <1>19 DEF Paths, PathFunctions
  <2>2. QED
    BY <1>14, <1>16, <1>17, <2>1 DEF FilesIInv, Shape

(* An entry is written that names no directory.                            *)
LEMMA DirsSame ==
    ASSUME DirsHeld, Places' = Places, SubDirs' = SubDirs, Taken' = Taken,
           \A e \in Places : /\ E(e)'.flag = "directory" <=> E(e).flag = "directory"
                             /\ E(e)'.flag = "directory" => E(e)'.start = E(e).start
    PROVE  DirsHeld'
<1>1. \A e \in Places : E(e)'.flag = "directory" => E(e)'.start \in SubDirs
  BY DEF DirsHeld
<1>2. ASSUME NEW d \in SubDirs PROVE \E e \in Places : E(e)'.flag = "directory" /\ E(e)'.start = d
  <2>1. PICK e \in Places : E(e).flag = "directory" /\ E(e).start = d
    BY DEF DirsHeld
  <2>2. E(e)'.flag = "directory" /\ E(e)'.start = d
    BY <2>1
  <2>3. QED
    BY <2>2
<1>3. ASSUME NEW e \in Places, NEW f \in Places, E(e)'.flag = "directory",
             E(f)'.flag = "directory", E(e)'.start = E(f)'.start
      PROVE  e = f
  <2>1. E(e).flag = "directory" /\ E(f).flag = "directory" /\ E(e).start = E(f).start
    BY <1>3
  <2>2. QED
    BY <1>3, <2>1 DEF DirsHeld
<1>4. /\ \A d \in SubDirs : DirRun(d) \subseteq Taken
      /\ \A c, d \in SubDirs : c # d => DirRun(c) \cap DirRun(d) = {}
  BY DEF DirsHeld
<1>5. QED
  BY <1>1, <1>2, <1>3, <1>4, Zenon DEF DirsHeld

InUse(e) == e \in UsedEntries("in use")

LEMMA UsedFacts ==
    ASSUME NEW flag
    PROVE  UsedEntries(flag) = {e \in Places : E(e).flag = flag}
BY DEF UsedEntries, Places, E

LEMMA InUseFacts ==
    /\ \A e : InUse(e) <=> e \in Places /\ E(e).flag = "in use"
    /\ \A e : InUse(e)' <=> e \in Places' /\ E(e)'.flag = "in use"
<1>1. \A e : InUse(e) <=> e \in Places /\ E(e).flag = "in use"
  <2>1. UsedEntries("in use") = {e \in Places : E(e).flag = "in use"}
    BY UsedFacts
  <2>2. QED
    BY <2>1 DEF InUse
<1>2. \A e : InUse(e)' <=> e \in Places' /\ E(e)'.flag = "in use"
  <2>1. UsedEntries("in use")' = {e \in Places' : E(e)'.flag = "in use"}
    <3>1. ASSUME NEW flag PROVE UsedEntries(flag)' = {e \in Places' : E(e)'.flag = flag}
      BY DEF UsedEntries, Places, E
    <3>2. QED
      BY <3>1
  <2>2. QED
    BY <2>1 DEF InUse
<1>3. QED
  BY <1>1, <1>2

(* No file is closed, and the entries of those that are stay.              *)
ClosedStay ==
    /\ \A e : InUse(e)' <=> InUse(e)
    /\ \A e : InUse(e) => E(e)' = E(e)

(* Closing a file adds it to those that are closed.                        *)
Closes(path, o) ==
    /\ \A e : InUse(e)' <=> InUse(e) \/ e = o
    /\ \A e : InUse(e) => e # o /\ E(e)' = E(e)
    /\ E(o)'.name = file.name /\ ClosedPath(o, path[o])'
    /\ path[o] # <<>> => Rest(path[o])' = file.pos
    /\ file.size = HeldBytes(path[o], PAYLOAD, file.pos)

LEMMA CloseFacts ==
    ASSUME FilesIInv, Close, NEW path, NEW o
    PROVE  Paths(path) /\ o = OpenPlace => FilesIInv' /\ Closes(path, o)
<1>0. SUFFICES ASSUME Paths(path), o = OpenPlace PROVE FilesIInv' /\ Closes(path, o)
  OBVIOUS
<1> DEFINE n == disk.sector_count
<1>1. Shape /\ file # NoFile /\ UNCHANGED <<disk, free, dir_stack, created, error>>
      /\ Types /\ DirsHeld /\ LinksHeld /\ EntriesNamed /\ EntriesInOrder
  BY DEF FilesIInv, Close, Shape
<1>2. Paths(path)
  BY <1>0
<1>3. o = OpenPlace
  BY <1>0
<1>4. /\ file \in FileObjects /\ o \in FileEntries /\ o \in Places /\ OpenPath(path[o])
      /\ path[o] \in Seq(1 .. n) /\ file.pos \in 0 .. PAYLOAD
      /\ E(o).flag = "opened" /\ E(o).name = file.name
      /\ \A e \in FileEntries : e # o => E(e).flag = "in use" /\ ClosedPath(e, path[e])
  BY <1>1, <1>2, <1>3, OpenEntry
<1>5. /\ path \in PathFunctions
      /\ PathsTaken(path) /\ PathsApart(path) /\ AllHeld(path)
  BY <1>2 DEF Paths
<1> DEFINE c == path[o]
           m == Len(c)
<1>6. c # <<>> => /\ m \in Nat \ {0} /\ m \in 1 .. m /\ c[m] = file.sector
                  /\ \A i \in 1 .. m : i # m => c[i] # file.sector
                  /\ \A i \in 1 .. m : c[i] \in 1 .. n /\ c[i] \in Taken
                  /\ file.sector \in 1 .. n /\ file.pos \in 1 .. PAYLOAD
                  /\ sec[file.sector].link = 0
  <2>1. SUFFICES ASSUME c # <<>> PROVE
                  /\ m \in Nat \ {0} /\ m \in 1 .. m /\ c[m] = file.sector
                  /\ \A i \in 1 .. m : i # m => c[i] # file.sector
                  /\ \A i \in 1 .. m : c[i] \in 1 .. n /\ c[i] \in Taken
                  /\ file.sector \in 1 .. n /\ file.pos \in 1 .. PAYLOAD
                  /\ sec[file.sector].link = 0
    OBVIOUS
  <2>2. file.first_sec # 0
    BY <1>4, <2>1 DEF OpenPath
  <2>3. /\ m \in Nat \ {0} /\ c[m] = file.sector
        /\ \A i \in 1 .. m : i # m => c[i] # file.sector
        /\ \A i \in 1 .. m : c[i] \in 1 .. n /\ c[i] \in Taken
        /\ file.sector \in 1 .. n /\ file.pos \in 1 .. PAYLOAD
    BY <1>1, <1>2, <1>3, <2>2, LastSector
  <2>4. m \in 1 .. m
    BY <2>3
  <2>5. LinkOf[c[m]] = 0
    BY <1>4, <2>4 DEF OpenPath, PathFrom
  <2>6. sec[file.sector].link = 0
    BY <2>3, <2>5 DEF LinkOf
  <2>7. QED
    BY <2>3, <2>4, <2>6
<1>7. (file.pos > 0 <=> c # <<>>) /\ (c = <<>> => file.first_sec = 0)
  <2>1. c = <<>> => file.first_sec = 0
    BY <1>4 DEF OpenPath, PathFrom
  <2>2. file.first_sec = 0 => file.pos = 0
    BY <1>4 DEF OpenPath
  <2>3. c # <<>> => file.pos > 0
    BY <1>4 DEF OpenPath
  <2>4. QED
    BY <2>1, <2>2, <2>3
<1>8. /\ sec' \in Sectors(n)
      /\ \A u \in 1 .. n : (c # <<>> => u # file.sector) => sec'[u] = sec[u]
      /\ c # <<>> => /\ sec'[file.sector].count = file.pos
                     /\ sec'[file.sector].bytes = sec[file.sector].bytes
      /\ \A u \in 1 .. n : sec'[u].link = sec[u].link
  <2>1. sec \in Sectors(n) /\ n \in Nat /\ 0 \in 0 .. n
    <3>1. n \in Nat
      BY <1>1, TypeFacts
    <3>2. sec \in Sectors(n)
      BY <1>1 DEF Types, TypeOK, Sectors, SectorTypes
    <3> HIDE DEF n
    <3>3. QED
      BY <3>1, <3>2
  <2>2. CASE c = <<>>
    <3>1. sec' = sec
      BY <1>7, <2>2 DEF Close
    <3>2. QED
      BY <2>1, <2>2, <3>1
  <2>3. CASE c # <<>>
    <3>1. LinkIsPut(sec', sec, file.sector, file.pos, 0)
      BY <1>7, <2>3 DEF Close, SectorLinked, LinkIsPut
    <3> DEFINE t == file.sector
               p == file.pos
    <3>2. t \in 1 .. n /\ p \in 0 .. PAYLOAD
      BY <1>4, <1>6, <2>3
    <3> HIDE DEF t, p, n
    <3>3. /\ sec' \in Sectors(n)
          /\ \A u \in 1 .. n : u # t => sec'[u] = sec[u]
          /\ sec'[t].count = p /\ sec'[t].link = 0 /\ sec'[t].bytes = sec[t].bytes
      BY <2>1, <3>1, <3>2, LinkPut DEF t, p
    <3>4. QED
      BY <1>6, <2>3, <3>3 DEF t, p
  <2>4. QED
    BY <2>2, <2>3
<1>9. /\ SectorsWritten = m /\ m \in 0 .. n /\ file.first_sec \in 0 .. n
  <2>1. n \in Nat /\ SectorsWritten = m /\ m \in Nat
    <3>1. n \in Nat
      BY <1>1, TypeFacts
    <3>2. SectorsWritten = m
      BY <1>4 DEF OpenPath
    <3>3. m \in Nat
      <4> DEFINE D == 1 .. n
      <4>1. c \in Seq(D)
        BY <1>4
      <4> HIDE DEF D, c
      <4>2. QED
        BY <4>1
    <3>4. QED
      BY <3>1, <3>2, <3>3
  <2>2. \A i, j \in 1 .. m : c[i] = c[j] => i = j
    <3>1. PathsApart(path) /\ o \in FileEntries /\ path[o] = c /\ m = Len(c)
      BY <1>4, <1>5
    <3> HIDE DEF c, m
    <3>2. QED
      BY <3>1, SMTT(30) DEF PathsApart
  <2>3. m <= n
    <3> HIDE DEF n, c
    <3>1. QED
      BY <1>4, <2>1, <2>2, PathLength DEF c
  <2>4. file.first_sec \in 0 .. n
    <3>1. CASE c = <<>>
      BY <1>7, <2>1, <3>1
    <3>2. CASE c # <<>>
      <4>1. file.first_sec = c[1] /\ 1 \in 1 .. m
        <5>1. file.first_sec = c[1]
          BY <1>4, <3>2 DEF OpenPath, PathFrom
        <5>2. m \in Nat \ {0}
          BY <1>6, <3>2
        <5> HIDE DEF c, m
        <5>3. QED
          BY <5>1, <5>2
      <4>2. QED
        BY <1>6, <2>1, <3>2, <4>1
    <3>3. QED
      BY <3>1, <3>2
  <2>5. QED
    BY <2>1, <2>3, <2>4
<1> DEFINE dos2 == IF file.pos > 0 THEN Compatible(0) ELSE file.dos2_compatible
           final == [E(o) EXCEPT !.flag = "in use", !.start = file.first_sec,
                                 !.dos2 = dos2, !.count = SectorsWritten]
<1>10. PICK x : x = final
  OBVIOUS
<1>11. dos2 \in BOOLEAN /\ (dos2 <=> file.dos2_compatible)
  <2>1. ~(0 > DOS2_LAST) /\ file.dos2_compatible \in BOOLEAN
    <3>1. ~(0 > DOS2_LAST)
      BY ScaleFacts
    <3>2. file.dos2_compatible \in BOOLEAN
      BY <1>4 DEF FileObjects
    <3>3. QED
      BY <3>1, <3>2
  <2>2. QED
    BY <2>1 DEF Compatible
<1>12. /\ x \in EntryTypes
       /\ x.flag = "in use" /\ x.name = file.name /\ x.start = file.first_sec
       /\ x.count = m /\ (x.dos2 <=> file.dos2_compatible)
  <2>1. E(o) \in EntryTypes
    BY <1>1, <1>4, TypeFacts
  <2> DEFINE k == SectorsWritten
             a == file.first_sec
  <2>2. k \in 0 .. n /\ a \in 0 .. n /\ k = m
    BY <1>9
  <2>5. x = [E(o) EXCEPT !.flag = "in use", !.start = a, !.dos2 = dos2, !.count = k]
    BY <1>10
  <2>6. dos2 \in BOOLEAN
    BY <1>11
  <2> HIDE DEF k, a, dos2, n
  <2>3. x \in EntryTypes /\ x.flag = "in use" /\ x.name = E(o).name /\ x.start = a
        /\ x.count = k /\ x.dos2 = dos2
    BY <2>1, <2>2, <2>5, <2>6 DEF EntryTypes, n
  <2>4. QED
    BY <1>4, <1>11, <2>2, <2>3 DEF a
<1>13. dir' = [dir EXCEPT ![file.dir][file.file_no] = x]
  <2>1. E(o) = dir[file.dir][file.file_no]
    BY <1>3 DEF E, OpenPlace
  <2>2. dir' = [dir EXCEPT ![file.dir][file.file_no] =
                   [@ EXCEPT !.flag = "in use", !.start = file.first_sec,
                             !.dos2 = dos2, !.count = SectorsWritten]]
    BY DEF Close
  <2> HIDE DEF dos2
  <2>3. QED
    BY <1>10, <2>1, <2>2
<1> HIDE DEF final
<1>14. /\ DOMAIN dir' = DOMAIN dir /\ Places' = Places /\ SubDirs' = SubDirs
       /\ EntryTypes' = EntryTypes
       /\ \A e \in Places : E(e)' = IF e = o THEN x ELSE E(e)
       /\ dir' \in [DOMAIN dir -> [Entries -> EntryTypes]]
  <2> DEFINE d == file.dir
             k == file.file_no
  <2>1. d \in DOMAIN dir /\ k \in Entries /\ o = <<d, k>>
    BY <1>3, <1>4 DEF OpenPlace, Places
  <2>2. Types /\ disk' = disk /\ dir' = [dir EXCEPT ![d][k] = x]
    BY <1>1, <1>13
  <2> HIDE DEF d, k
  <2>3. QED
    BY <1>12, <2>1, <2>2, EntryWritten
<1>15. E(o)' = x /\ \A e \in Places : e # o => E(e)' = E(e)
  BY <1>4, <1>14
<1>16. Taken' = Taken /\ disk' = disk /\ created' = created /\ file' = NoFile
  BY <1>1 DEF Taken, Close
<1>17. FileEntries' = FileEntries
  BY <1>4, <1>12, <1>14, <1>15 DEF FileEntries
<1>18. Types'
  <2>1. sec' \in [1 .. n -> [bytes : [1 .. PAYLOAD -> (0 .. MaxCreated) \X (0 .. MaxBytes)],
                             count : 0 .. PAYLOAD, link : 0 .. n]]
    BY <1>8 DEF Sectors, SectorTypes
  <2>2. \A d \in DOMAIN dir, k \in Entries : dir'[d][k] \in EntryTypes
    BY <1>14
  <2>3. \A y \in EntryTypes : /\ y.flag \in {"never used", "opened", "in use", "directory"}
                              /\ y.dos2 \in BOOLEAN
                              /\ y.start \in 0 .. disk.sector_count
                              /\ y.count \in 0 .. disk.sector_count
    BY DEF EntryTypes
  <2>4. TypeOK
    BY <1>1 DEF Types
  <2>5. TypeOK'
    BY <1>1, <1>14, <1>16, <2>1, <2>2, <2>3, <2>4 DEF TypeOK
  <2>6. ROOT \in DOMAIN dir
    BY <1>1 DEF Types
  <2>7. QED
    BY <1>14, <1>16, <2>5, <2>6 DEF Types
<1>19. EntriesNamed'
  <2>1. \A e \in Places : E(e)'.name = E(e).name /\ E(e)'.flag # "opened"
                        /\ (E(e)'.flag # "never used" <=> E(e).flag # "never used")
    BY <1>1, <1>3, <1>4, <1>12, <1>15 DEF EntriesNamed, OpenPlace
  <2>2. EntriesNamed /\ Places' = Places /\ created' = created /\ file' = NoFile
    BY <1>1, <1>14, <1>16
  <2>3. \A e \in Places : E(e)'.flag # "never used" => E(e)'.name \in 1 .. created
    BY <2>1, <2>2 DEF EntriesNamed
  <2>4. ASSUME NEW e \in Places, NEW f \in Places, E(e)'.flag # "never used",
               E(f)'.flag # "never used", E(e)'.name = E(f)'.name
        PROVE  e = f
    <3>1. E(e).flag # "never used" /\ E(f).flag # "never used" /\ E(e).name = E(f).name
      BY <2>1, <2>4
    <3>2. QED
      BY <2>2, <2>4, <3>1 DEF EntriesNamed
  <2>5. QED
    BY <2>1, <2>2, <2>3, <2>4 DEF EntriesNamed
<1>20. EntriesInOrder'
  <2>1. \A e \in Places : E(e)'.flag # "never used" <=> E(e).flag # "never used"
    BY <1>4, <1>12, <1>15
  <2>2. \A d \in DOMAIN dir, k \in Entries : <<d, k>> \in Places
    BY DEF Places
  <2>3. QED
    BY <1>1, <1>14, <2>1, <2>2 DEF EntriesInOrder
<1>21. DirsHeld'
  <2>1. \A e \in Places : /\ E(e)'.flag = "directory" <=> E(e).flag = "directory"
                          /\ E(e)'.flag = "directory" => E(e)'.start = E(e).start
    BY <1>4, <1>12, <1>15
  <2>2. DirsHeld /\ Places' = Places /\ SubDirs' = SubDirs /\ Taken' = Taken
    BY <1>1, <1>14, <1>16
  <2>3. QED
    BY <2>1, <2>2, DirsSame
<1>22. LinksHeld'
  <2>1. free \subseteq 1 .. n
    BY <1>1, TypeFacts
  <2>2. QED
    BY <1>1, <1>8, <1>16, <2>1 DEF LinksHeld
<1>23. ClosedPath(o, c)'
  <2>1. disk' = disk
    BY <1>1
  <2>2. PathFrom(c, x.start, LinkOf')
    <3>1. PathFrom(c, file.first_sec, LinkOf)
      BY <1>4 DEF OpenPath
    <3>2. ASSUME NEW i \in 1 .. Len(c) PROVE LinkOf'[c[i]] = LinkOf[c[i]]
      <4>1. c # <<>>
        BY <3>2
      <4>2. c[i] \in 1 .. n
        BY <1>6, <4>1
      <4>3. QED
        BY <1>8, <2>1, <4>2 DEF LinkOf
    <3> HIDE DEF c
    <3>3. QED
      BY <1>12, <3>1, <3>2 DEF PathFrom
  <2>3. x.dos2 <=> DosCan(c)'
    BY <1>4, <1>12, <2>1 DEF OpenPath, DosCan
  <2>4. c # <<>> => Rest(c)' = file.pos /\ file.pos \in 1 .. PAYLOAD
    BY <1>6, <1>8 DEF Rest
  <2>5. Holds(c, x.name, Rest(c), Len(c))'
    <3>1. Holds(c, file.name, file.pos, m - 1)
      BY <1>4 DEF OpenPath
    <3>2. ASSUME NEW i \in 1 .. m
          PROVE  /\ sec'[c[i]].count = IF i = m THEN file.pos ELSE PAYLOAD
                 /\ \A j \in 1 .. (IF i = m THEN file.pos ELSE PAYLOAD) :
                        sec'[c[i]].bytes[j] = <<file.name, (i - 1) * PAYLOAD + j>>
      <4>1. c # <<>>
        BY <3>2
      <4>2. sec'[c[i]].bytes = sec[c[i]].bytes
            /\ sec'[c[i]].count = IF i = m THEN file.pos ELSE PAYLOAD
        <5>1. CASE i = m
          BY <1>6, <1>8, <4>1, <5>1
        <5>2. CASE i # m
          <6>1. i <= m - 1
            <7>1. m \in Nat
              BY <1>6, <4>1
            <7> HIDE DEF m
            <7>2. QED
              BY <3>2, <5>2, <7>1
          <6>2. sec[c[i]].count = PAYLOAD
            BY <3>1, <3>2, <5>2, <6>1 DEF Holds
          <6>3. c[i] \in 1 .. n /\ c[i] # file.sector
            BY <1>6, <3>2, <4>1, <5>2
          <6>4. sec'[c[i]] = sec[c[i]]
            BY <1>8, <6>3
          <6>5. QED
            BY <5>2, <6>2, <6>4
        <5>3. QED
          BY <5>1, <5>2
      <4>3. \A j \in 1 .. (IF i = m THEN file.pos ELSE PAYLOAD) :
                sec[c[i]].bytes[j] = <<file.name, (i - 1) * PAYLOAD + j>>
        BY <3>1, <3>2 DEF Holds
      <4> HIDE DEF c, m
      <4>4. QED
        BY <4>2, <4>3
    <3>3. c # <<>> => Rest(c)' = file.pos
      BY <2>4
    <3>4. c = <<>> => Len(c) = 0
      OBVIOUS
    <3>5. x.name = file.name
      BY <1>12
    <3> HIDE DEF c
    <3>6. CASE c = <<>>
      BY <3>4, <3>6 DEF Holds
    <3>7. CASE c # <<>>
      BY <3>2, <3>3, <3>5, <3>7 DEF Holds
    <3>8. QED
      BY <3>6, <3>7
  <2>6. E(o)' = x /\ x.count = Len(c)
    BY <1>12, <1>15
  <2> HIDE DEF c
  <2>7. QED
    BY <2>2, <2>3, <2>4, <2>5, <2>6 DEF ClosedPath
<1>24. ASSUME NEW e \in FileEntries, e # o PROVE ClosedPath(e, path[e])'
  <2> DEFINE b == path[e]
  <2>1. b \in Seq(1 .. n) /\ ClosedPath(e, b) /\ E(e)' = E(e)
    BY <1>4, <1>5, <1>15, <1>24 DEF PathFunctions, FileEntries
  <2>2. ASSUME NEW i \in 1 .. Len(b) PROVE sec'[b[i]] = sec[b[i]]
    <3>1. b[i] \in Taken /\ b[i] \in 1 .. n
      BY <1>1, <1>5, TypeFacts DEF PathsTaken
    <3>2. c # <<>> => b[i] # file.sector
      <4>1. SUFFICES ASSUME c # <<>> PROVE b[i] # c[m]
        BY <1>6
      <4>2. m \in 1 .. m /\ o \in FileEntries /\ e # o /\ e \in FileEntries
        BY <1>4, <1>6, <1>24, <4>1
      <4>3. PathsApart(path)
        BY <1>5
      <4>4. QED
        BY <4>2, <4>3 DEF PathsApart
    <3>3. QED
      BY <1>8, <3>1, <3>2
  <2>3. Types /\ disk' = disk
    BY <1>1
  <2> HIDE DEF b
  <2>4. ClosedPath(e, b)'
    BY <2>1, <2>2, <2>3, ClosedPathSame
  <2>5. QED
    BY <2>4 DEF b
<1>25. Paths(path)'
  <2>1. path \in PathFunctions'
    BY <1>5, <1>16, <1>17 DEF PathFunctions
  <2>2. PathsTaken(path)' /\ PathsApart(path)' /\ AllHeld(path)'
    BY <1>5, <1>14, <1>16, <1>17 DEF PathsTaken, PathsApart, AllHeld
  <2>3. ASSUME NEW e \in FileEntries
        PROVE  ClosedPath(e, path[e])' /\ E(e)'.flag # "opened"
    <3>1. E(e)'.flag # "opened"
      BY <1>4, <1>12, <1>15, <2>3 DEF FileEntries
    <3>2. QED
      BY <1>23, <1>24, <3>1
  <2>4. PathsRight(path)'
    BY <1>17, <2>3 DEF PathsRight
  <2>5. QED
    BY <2>1, <2>2, <2>4 DEF Paths
<1>26. FilesIInv'
  BY <1>18, <1>19, <1>20, <1>21, <1>22, <1>25 DEF FilesIInv, Shape
<1>27. /\ \A e : InUse(e)' <=> InUse(e) \/ e = o
       /\ \A e : InUse(e) => e # o /\ E(e)' = E(e)
  <2>1. Places' = Places /\ E(o).flag = "opened" /\ E(o)'.flag = "in use" /\ o \in Places
    BY <1>4, <1>12, <1>14, <1>15
  <2>2. \A e \in Places : e # o => E(e)' = E(e)
    BY <1>15
  <2>3. QED
    BY <2>1, <2>2, InUseFacts
<1>28. c # <<>> => Rest(c)' = file.pos
  BY <1>6, <1>8 DEF Rest
<1>29. file.size = HeldBytes(c, PAYLOAD, file.pos)
  BY <1>4 DEF OpenPath
<1>30. E(o)'.name = file.name
  BY <1>12, <1>15
<1>31. QED
  BY <1>23, <1>26, <1>27, <1>28, <1>29, <1>30 DEF Closes

LEMMA CreateFileKeeps ==
    FilesIInv /\ CreateFile => FilesIInv' /\ ClosedStay /\ file' # NoFile
<1> SUFFICES ASSUME FilesIInv, CreateFile PROVE FilesIInv' /\ ClosedStay /\ file' # NoFile
  OBVIOUS
<1> DEFINE n == disk.sector_count
<1>1. /\ Shape /\ file = NoFile /\ created < MaxCreated /\ created' = created + 1
      /\ UNCHANGED <<disk, free, sec, dir_stack, error>>
      /\ Types /\ DirsHeld /\ LinksHeld /\ EntriesNamed /\ EntriesInOrder
  BY DEF FilesIInv, CreateFile, MayCreate, Shape
<1>2. PICK path : Paths(path)
  BY DEF FilesIInv
<1>3. PICK k \in Entries :
          /\ AllocEntry(Current, "opened", 0, k)
          /\ file' = [name |-> created + 1, dir |-> Current, file_no |-> k,
                      first_sec |-> 0, sector |-> 0, pos |-> 0, sec_cnt |-> 0, size |-> 0,
                      dos2_compatible |-> TRUE]
  BY DEF CreateFile
<1>4. PICK d : d = Current
  OBVIOUS
<1>5. PICK o : o = <<d, k>>
  OBVIOUS
<1>6. d \in DOMAIN dir /\ created \in Nat /\ n \in Nat
      /\ o \in Places /\ created + 1 \in 0 .. MaxCreated /\ created + 1 \in Nat
  <2>1. d \in DOMAIN dir /\ created \in Nat /\ n \in Nat
    BY <1>1, <1>4, TypeFacts
  <2>2. o \in Places
    BY <1>5, <2>1 DEF Places
  <2>3. created + 1 \in 0 .. MaxCreated /\ created + 1 \in Nat
    BY <1>1, <2>1, ScaleFacts
  <2>4. QED
    BY <2>1, <2>2, <2>3
<1>7. PICK x : x = [FreeEntry EXCEPT !.flag = "opened", !.name = created + 1, !.start = 0]
  OBVIOUS
<1>8. /\ x \in EntryTypes /\ x.flag = "opened" /\ x.name = created + 1
  <2> DEFINE z == created + 1
             R == 0 .. n
  <2>1. z \in Nat /\ 0 \in R /\ x = [FreeEntry EXCEPT !.flag = "opened", !.name = z, !.start = 0]
    BY <1>6, <1>7
  <2> HIDE DEF z, R
  <2>2. /\ x \in [flag : {"never used", "opened", "in use", "directory"}, dos2 : BOOLEAN,
                  name : Nat, start : R, count : R]
        /\ x.flag = "opened" /\ x.name = z
    BY <2>1 DEF FreeEntry
  <2>3. QED
    BY <2>2 DEF EntryTypes, R, z
<1>9. /\ dir' = [dir EXCEPT ![d][k] = x]
      /\ k \in FreeEntries(d) /\ \A j \in FreeEntries(d) : k <= j
  <2>1. FreeEntries(d) # {} /\ FreeEntries(d) \subseteq Nat /\ k = First(FreeEntries(d))
    <3>1. FreeEntries(d) # {} /\ k = First(FreeEntries(d))
      BY <1>3, <1>4 DEF AllocEntry
    <3>2. FreeEntries(d) \subseteq Nat
      <4>1. Entries \subseteq Nat
        BY ScaleFacts DEF Entries
      <4>2. FreeEntries(d) \subseteq Entries
        BY DEF FreeEntries
      <4>3. QED
        BY <4>1, <4>2
    <3>3. QED
      BY <3>1, <3>2
  <2>2. dir' = [dir EXCEPT ![d][k] = x]
    BY <1>3, <1>4, <1>7 DEF AllocEntry
  <2>3. k \in FreeEntries(d) /\ \A j \in FreeEntries(d) : k <= j
    BY <2>1, FirstFacts
  <2>4. QED
    BY <2>2, <2>3
<1>10. E(o).flag = "never used" /\ o \notin FileEntries
  BY <1>5, <1>9 DEF E, FreeEntries, FileEntries
<1>11. /\ DOMAIN dir' = DOMAIN dir /\ Places' = Places /\ SubDirs' = SubDirs
       /\ EntryTypes' = EntryTypes
       /\ \A e \in Places : E(e)' = IF e = o THEN x ELSE E(e)
       /\ dir' \in [DOMAIN dir -> [Entries -> EntryTypes]]
  <2>1. Types /\ disk' = disk /\ dir' = [dir EXCEPT ![d][k] = x]
    BY <1>1, <1>9
  <2>2. QED
    BY <1>5, <1>6, <1>8, <2>1, EntryWritten
<1>12. E(o)' = x /\ \A e \in Places : e # o => E(e)' = E(e)
  BY <1>6, <1>11
<1>13. /\ Taken' = Taken /\ disk' = disk /\ Places' = Places /\ SubDirs' = SubDirs
       /\ sec' = sec /\ free' = free /\ dir_stack' = dir_stack /\ error' = error
  BY <1>1, <1>11 DEF Taken
<1>14. FileEntries' = FileEntries \cup {o}
  BY <1>6, <1>8, <1>12, <1>13 DEF FileEntries
<1>15. /\ file' \in FileObjects /\ file' # NoFile
       /\ file'.name = created + 1 /\ file'.dir = d /\ file'.file_no = k
       /\ file'.first_sec = 0 /\ file'.pos = 0 /\ file'.sec_cnt = 0 /\ file'.size = 0
       /\ file'.dos2_compatible
  <2> DEFINE z == created + 1
  <2>1. d \in Nat
    <3>1. DOMAIN dir \subseteq Usable(disk) \cup {ROOT} /\ Usable(disk) \subseteq 1 .. n
      BY <1>1, TypeFacts DEF Types, TypeOK
    <3>2. QED
      BY <1>6, <3>1, SystemAssumption
  <2>2. z \in Nat /\ file' = [name |-> z, dir |-> d, file_no |-> k,
                      first_sec |-> 0, sector |-> 0, pos |-> 0, sec_cnt |-> 0, size |-> 0,
                      dos2_compatible |-> TRUE]
    BY <1>3, <1>4, <1>6
  <2> HIDE DEF z
  <2>3. file' \in FileObjects
    BY <2>1, <2>2 DEF FileObjects
  <2>4. /\ file'.name = z /\ file'.dir = d /\ file'.file_no = k
        /\ file'.first_sec = 0 /\ file'.pos = 0 /\ file'.sec_cnt = 0 /\ file'.size = 0
        /\ file'.dos2_compatible
    BY <2>2
  <2>5. QED
    BY <2>3, <2>4, ObjectFacts DEF z
<1>16. Types'
  <2>1. \A c \in DOMAIN dir, j \in Entries : dir'[c][j] \in EntryTypes
    BY <1>11
  <2>2. \A y \in EntryTypes : /\ y.flag \in {"never used", "opened", "in use", "directory"}
                              /\ y.dos2 \in BOOLEAN
                              /\ y.start \in 0 .. disk.sector_count
                              /\ y.count \in 0 .. disk.sector_count
    BY DEF EntryTypes
  <2>3. TypeOK
    BY <1>1 DEF Types
  <2>4. created' \in 0 .. MaxCreated /\ file' \in FileObjects /\ DOMAIN dir' = DOMAIN dir
    BY <1>1, <1>6, <1>11, <1>15
  <2>5. TypeOK'
    BY <1>13, <2>1, <2>2, <2>3, <2>4 DEF TypeOK
  <2>6. ROOT \in DOMAIN dir
    BY <1>1 DEF Types
  <2>7. file'.name \in 0 .. MaxCreated /\ file'.size \in 0 .. MaxBytes /\ file'.pos \in 0 .. PAYLOAD
    BY <1>6, <1>15, ScaleFacts
  <2>8. dir' \in [DOMAIN dir -> [Entries -> EntryTypes]] /\ EntryTypes' = EntryTypes
    BY <1>11
  <2>9. QED
    BY <2>4, <2>5, <2>6, <2>7, <2>8 DEF Types
<1>17. EntriesNamed'
  <2>1. ASSUME NEW e \in Places, E(e)'.flag # "never used" PROVE E(e)'.name \in 1 .. created + 1
    <3>1. CASE e = o
      BY <1>6, <1>8, <1>12, <3>1
    <3>2. CASE e # o
      <4>1. E(e).name \in 1 .. created
        BY <1>1, <1>12, <2>1, <3>2 DEF EntriesNamed
      <4>2. E(e)'.name = E(e).name
        BY <1>12, <3>2
      <4>3. QED
        BY <1>6, <4>1, <4>2
    <3>3. QED
      BY <3>1, <3>2
  <2>2. ASSUME NEW e \in Places, NEW f \in Places, E(e)'.flag # "never used",
               E(f)'.flag # "never used", E(e)'.name = E(f)'.name
        PROVE  e = f
    <3>1. \A g \in Places : g # o /\ E(g)'.flag # "never used" => E(g)'.name # created + 1
      <4>1. ASSUME NEW g \in Places, g # o, E(g)'.flag # "never used"
            PROVE  E(g)'.name # created + 1
        <5>1. E(g)'.name \in 1 .. created
          BY <1>1, <1>12, <4>1 DEF EntriesNamed
        <5>2. QED
          BY <1>6, <5>1
      <4>2. QED
        BY <4>1
    <3>2. CASE e = o \/ f = o
      BY <1>8, <1>12, <2>2, <3>1, <3>2
    <3>3. CASE e # o /\ f # o
      <4>1. E(e).flag # "never used" /\ E(f).flag # "never used" /\ E(e).name = E(f).name
        BY <1>12, <2>2, <3>3
      <4>2. QED
        BY <1>1, <2>2, <4>1 DEF EntriesNamed
    <3>4. QED
      BY <3>2, <3>3
  <2>3. ASSUME NEW e \in Places PROVE E(e)'.flag = "opened" <=> e = o
    <3>1. E(e).flag # "opened"
      BY <1>1 DEF EntriesNamed
    <3>2. QED
      BY <1>8, <1>12, <3>1
  <2>4. o = <<file'.dir, file'.file_no>> /\ o \in Places /\ E(o)'.name = file'.name
    BY <1>5, <1>6, <1>8, <1>12, <1>15
  <2>5. Places' = Places /\ file' # NoFile /\ created' = created + 1
    BY <1>1, <1>13, <1>15
  <2>6. (\A e \in Places : E(e).flag # "never used" => E(e).name \in 1 .. created)'
    BY <2>1, <2>5
  <2>7. (\A e, f \in Places :
            E(e).flag # "never used" /\ E(f).flag # "never used" /\ E(e).name = E(f).name => e = f)'
    BY <2>2, <2>5
  <2>8. (\A e \in Places : E(e).flag = "opened" <=> file # NoFile /\ e = <<file.dir, file.file_no>>)'
    BY <2>3, <2>4, <2>5
  <2>9. (<<file.dir, file.file_no>> \in Places /\ E(<<file.dir, file.file_no>>).name = file.name)'
    BY <2>4, <2>5
  <2>10. QED
    BY <2>6, <2>7, <2>8, <2>9 DEF EntriesNamed
<1>18. EntriesInOrder'
  <2>1. ASSUME NEW c \in DOMAIN dir, NEW i \in Entries, NEW j \in Entries, i < j,
               E(<<c, j>>)'.flag # "never used"
        PROVE  E(<<c, i>>)'.flag # "never used"
    <3>1. <<c, i>> \in Places /\ <<c, j>> \in Places
      BY DEF Places
    <3>2. CASE <<c, i>> = o
      BY <1>8, <1>12, <3>2
    <3>3. CASE <<c, i>> # o
      <4>1. E(<<c, i>>)' = E(<<c, i>>)
        BY <1>12, <3>1, <3>3
      <4>2. CASE <<c, j>> = o
        <5>1. c = d /\ j = k
          BY <1>5, <4>2
        <5>2. i \notin FreeEntries(d)
          <6>1. i \in Int /\ j \in Int
            BY ScaleFacts DEF Entries
          <6>2. \A l \in FreeEntries(d) : k <= l
            BY <1>9
          <6>3. ~(k <= i)
            <7>1. i < j /\ k = j
              BY <2>1, <5>1
            <7>2. QED
              BY <6>1, <7>1
          <6>4. QED
            BY <6>2, <6>3
        <5>3. QED
          BY <4>1, <5>1, <5>2 DEF FreeEntries, E
      <4>3. CASE <<c, j>> # o
        <5>1. E(<<c, j>>).flag # "never used"
          BY <1>12, <2>1, <3>1, <4>3
        <5>2. QED
          BY <1>1, <2>1, <4>1, <5>1 DEF EntriesInOrder
      <4>4. QED
        BY <4>2, <4>3
    <3>4. QED
      BY <3>2, <3>3
  <2>2. DOMAIN dir' = DOMAIN dir
    BY <1>11
  <2>3. QED
    BY <2>1, <2>2 DEF EntriesInOrder
<1>19. DirsHeld'
  <2>1. \A e \in Places : /\ E(e)'.flag = "directory" <=> E(e).flag = "directory"
                          /\ E(e)'.flag = "directory" => E(e)'.start = E(e).start
    BY <1>8, <1>10, <1>12
  <2>2. QED
    BY <1>1, <1>13, <2>1, DirsSame
<1>20. LinksHeld'
  BY <1>1, <1>13 DEF LinksHeld
<1>21. /\ path \in PathFunctions
       /\ PathsTaken(path) /\ PathsApart(path) /\ AllHeld(path) /\ PathsRight(path)
  BY <1>2 DEF Paths
<1>22. PICK more : /\ more \in [FileEntries \cup {o} -> Seq(1 .. n)]
                   /\ more[o] = <<>> /\ \A e \in FileEntries : e # o /\ more[e] = path[e]
  <2> DEFINE S == Seq(1 .. n)
             m == [e \in FileEntries \cup {o} |-> IF e = o THEN <<>> ELSE path[e]]
  <2>1. path \in [FileEntries -> S] /\ <<>> \in S
    BY <1>21 DEF PathFunctions
  <2> HIDE DEF S
  <2>2. m \in [FileEntries \cup {o} -> S]
    BY <2>1
  <2>3. m[o] = <<>> /\ \A e \in FileEntries : e # o /\ m[e] = path[e]
    BY <1>10
  <2> HIDE DEF m
  <2>4. QED
    BY <2>2, <2>3 DEF S
<1>23. more \in PathFunctions'
  BY <1>13, <1>14, <1>22 DEF PathFunctions
<1>24. Len(more[o]) = 0 /\ (\A i \in 1 .. 0 : FALSE) /\ \A i \in 2 .. 0 : FALSE
  BY <1>22
<1>25. PathsTaken(more)'
  <2>1. ASSUME NEW e \in FileEntries \cup {o}, NEW i \in 1 .. Len(more[e])
        PROVE  more[e][i] \in Taken /\ \A c \in SubDirs : more[e][i] \notin DirRun(c)
    <3>1. e \in FileEntries /\ more[e] = path[e]
      BY <1>22, <1>24, <2>1
    <3>2. QED
      BY <1>21, <2>1, <3>1 DEF PathsTaken
  <2>2. QED
    BY <1>13, <1>14, <2>1 DEF PathsTaken
<1>26. PathsApart(more)'
  <2>1. ASSUME NEW e \in FileEntries \cup {o}, NEW f \in FileEntries \cup {o},
               NEW i \in 1 .. Len(more[e]), NEW j \in 1 .. Len(more[f]),
               more[e][i] = more[f][j]
        PROVE  e = f /\ i = j
    <3>1. e # o /\ f # o
      BY <1>24, <2>1
    <3>2. /\ e \in FileEntries /\ f \in FileEntries /\ path[e][i] = path[f][j]
          /\ i \in 1 .. Len(path[e]) /\ j \in 1 .. Len(path[f])
      BY <1>22, <2>1, <3>1
    <3>3. QED
      BY <1>21, <3>2 DEF PathsApart
  <2>2. QED
    BY <1>14, <2>1 DEF PathsApart
<1>27. AllHeld(more)'
  <2>1. ASSUME NEW t \in Taken
        PROVE  \/ \E e \in FileEntries \cup {o} : \E i \in 1 .. Len(more[e]) : more[e][i] = t
               \/ \E c \in SubDirs : t \in DirRun(c)
    BY <1>21, <1>22 DEF AllHeld
  <2>2. QED
    BY <1>13, <1>14, <2>1 DEF AllHeld
<1>28. OpenPath(more[o])'
  <2>1. PathFrom(more[o], 0, LinkOf')
    BY <1>22, <1>24 DEF PathFrom
  <2>2. DosCan(more[o])'
    BY <1>24 DEF DosCan
  <2>3. Holds(more[o], file.name, file.pos, Len(more[o]) - 1)'
    BY <1>24 DEF Holds
  <2>4. SectorsWritten' = Len(more[o])
    BY <1>15, <1>24 DEF SectorsWritten
  <2>5. file'.size = HeldBytes(more[o], PAYLOAD, file'.pos)
    BY <1>15, <1>22 DEF HeldBytes
  <2>6. QED
    BY <1>15, <1>22, <2>1, <2>2, <2>3, <2>4, <2>5 DEF OpenPath
<1>29. ASSUME NEW e \in FileEntries PROVE ClosedPath(e, more[e])' /\ E(e)'.flag # "opened"
  <2> DEFINE b == path[e]
  <2>1. e \in Places /\ e # o /\ more[e] = b /\ b \in Seq(1 .. n)
    BY <1>21, <1>22 DEF FileEntries, PathFunctions
  <2>2. E(e)' = E(e) /\ E(e).flag = "in use"
    BY <1>1, <1>12, <2>1 DEF EntriesNamed, FileEntries
  <2>3. ClosedPath(e, b)
    BY <1>21, <2>2 DEF PathsRight
  <2>4. Types /\ disk' = disk /\ sec' = sec
    BY <1>1
  <2> HIDE DEF b
  <2>5. \A i \in 1 .. Len(b) : sec'[b[i]] = sec[b[i]]
    BY <2>4
  <2>6. ClosedPath(e, b)'
    BY <2>1, <2>2, <2>3, <2>4, <2>5, ClosedPathSame
  <2>7. QED
    BY <2>1, <2>2, <2>6
<1>30. PathsRight(more)'
  <2>1. ASSUME NEW e \in FileEntries \cup {o}
        PROVE  /\ E(e)'.flag = "in use" => ClosedPath(e, more[e])'
               /\ E(e)'.flag = "opened" => OpenPath(more[e])'
    <3>1. CASE e = o
      <4>1. E(o)'.flag # "in use"
        BY <1>8, <1>12
      <4>2. QED
        BY <1>28, <3>1, <4>1
    <3>2. CASE e \in FileEntries
      BY <1>29, <3>2
    <3>3. QED
      BY <3>1, <3>2
  <2>2. QED
    BY <1>14, <2>1 DEF PathsRight
<1>31. ClosedStay
  <2>1. \A e \in Places : e # o => E(e)' = E(e)
    BY <1>12
  <2>2. Places' = Places /\ E(o).flag = "never used" /\ E(o)'.flag = "opened"
    BY <1>8, <1>10, <1>12, <1>13
  <2>3. QED
    BY <2>1, <2>2, InUseFacts DEF ClosedStay
<1>32. FilesIInv'
  BY <1>16, <1>17, <1>18, <1>19, <1>20, <1>23, <1>25, <1>26, <1>27, <1>30
     DEF FilesIInv, Shape, Paths
<1>33. QED
  BY <1>15, <1>31, <1>32

LEMMA CreateDirKeeps == FilesIInv /\ CreateDir => FilesIInv' /\ ClosedStay
<1> SUFFICES ASSUME FilesIInv, CreateDir PROVE FilesIInv' /\ ClosedStay
  OBVIOUS
<1> DEFINE n == disk.sector_count
<1>1. /\ Shape /\ file = NoFile /\ created < MaxCreated /\ created' = created + 1
      /\ UNCHANGED <<disk, sec, file, error>>
      /\ Types /\ DirsHeld /\ LinksHeld /\ EntriesNamed /\ EntriesInOrder
  BY DEF FilesIInv, CreateDir, MayCreate, Shape
<1>2. PICK path : Paths(path)
  BY DEF FilesIInv
<1>3. PICK s : s = First(DirRuns)
  OBVIOUS
<1>4. PICK d : d = Current
  OBVIOUS
<1>5. PICK k : k = First(FreeEntries(d))
  OBVIOUS
<1>6. PICK o : o = <<d, k>>
  OBVIOUS
<1>7. PICK x : x = [FreeEntry EXCEPT !.flag = "directory", !.name = created + 1, !.start = s]
  OBVIOUS
<1>8. /\ DirRuns # {} /\ FreeEntries(d) # {}
      /\ dir' = [c \in DOMAIN dir \cup {s} |->
                    IF c = s THEN EmptyDir
                    ELSE IF c = d THEN [dir[c] EXCEPT ![First(FreeEntries(c))] = x]
                    ELSE dir[c]]
      /\ free' = free \ DirRun(s)
      /\ dir_stack' = Append(dir_stack, s)
  BY <1>3, <1>4, <1>7 DEF CreateDir, FreeAfterFormat
<1>9. /\ d \in DOMAIN dir /\ created \in Nat /\ n \in Nat /\ free \subseteq Nat
      /\ free \subseteq Usable(disk) /\ Usable(disk) \subseteq 1 .. n /\ ROOT \notin Usable(disk)
      /\ free \cap Taken = {}
      /\ created + 1 \in 0 .. MaxCreated /\ created + 1 \in Nat
  <2>1. /\ d \in DOMAIN dir /\ created \in Nat /\ n \in Nat /\ free \subseteq Nat
        /\ free \subseteq Usable(disk) /\ Usable(disk) \subseteq 1 .. n /\ ROOT \notin Usable(disk)
        /\ free \cap Taken = {}
    BY <1>1, <1>4, TypeFacts
  <2>2. created + 1 \in 0 .. MaxCreated /\ created + 1 \in Nat
    BY <1>1, <2>1, ScaleFacts
  <2>3. QED
    BY <2>1, <2>2
<1>10. k \in Entries /\ k \in FreeEntries(d) /\ \A j \in FreeEntries(d) : k <= j
  <2>1. FreeEntries(d) \subseteq Entries /\ Entries \subseteq Nat
    <3>1. Entries \subseteq Nat
      BY ScaleFacts DEF Entries
    <3>2. FreeEntries(d) \subseteq Entries
      BY DEF FreeEntries
    <3>3. QED
      BY <3>1, <3>2
  <2>2. FreeEntries(d) \subseteq Nat
    BY <2>1
  <2>3. QED
    BY <1>5, <1>8, <2>1, <2>2, FirstFacts
<1>11. s \in free /\ DirRun(s) \subseteq free
  <2>1. DirRuns \subseteq Nat
    BY <1>9 DEF DirRuns
  <2>2. s \in DirRuns
    BY <1>3, <1>8, <2>1, FirstFacts
  <2>3. QED
    BY <2>2 DEF DirRuns
<1>12. \A c \in Nat : c \in DirRun(c)
  BY ScaleFacts DEF DirRun
<1>13. s \in Nat /\ s \in 1 .. n /\ s \in Usable(disk) /\ s # ROOT /\ s \in DirRun(s)
  BY <1>9, <1>11, <1>12
<1>14. s \notin DOMAIN dir
  <2>1. ASSUME s \in SubDirs PROVE FALSE
    <3>1. DirRun(s) \subseteq Taken
      BY <1>1, <2>1 DEF DirsHeld
    <3>2. QED
      BY <1>9, <1>11, <1>13, <3>1
  <2>2. QED
    BY <1>13, <2>1 DEF SubDirs
<1>15. o \in Places /\ E(o).flag = "never used" /\ o \notin FileEntries
  BY <1>6, <1>9, <1>10 DEF Places, E, FreeEntries, FileEntries
<1>16. /\ x \in EntryTypes /\ x.flag = "directory" /\ x.name = created + 1 /\ x.start = s
       /\ FreeEntry \in EntryTypes /\ FreeEntry.flag = "never used"
  <2> DEFINE z == created + 1
             R == 0 .. n
  <2>1. z \in Nat /\ 0 \in R /\ s \in R
        /\ x = [FreeEntry EXCEPT !.flag = "directory", !.name = z, !.start = s]
    BY <1>7, <1>9, <1>13
  <2> HIDE DEF z, R
  <2>2. /\ x \in [flag : {"never used", "opened", "in use", "directory"}, dos2 : BOOLEAN,
                  name : Nat, start : R, count : R]
        /\ x.flag = "directory" /\ x.name = z /\ x.start = s
    BY <2>1 DEF FreeEntry
  <2>3. /\ FreeEntry \in [flag : {"never used", "opened", "in use", "directory"}, dos2 : BOOLEAN,
                          name : Nat, start : R, count : R]
        /\ FreeEntry.flag = "never used"
    BY <2>1 DEF FreeEntry
  <2>4. QED
    BY <2>2, <2>3 DEF EntryTypes, R, z
<1>17. dir \in [DOMAIN dir -> [Entries -> EntryTypes]]
  BY <1>1 DEF Types
<1> DEFINE W == DOMAIN dir
           T == EntryTypes
<1>18. /\ DOMAIN dir' = W \cup {s} /\ dir' \in [W \cup {s} -> [Entries -> T]]
       /\ \A j \in Entries : dir'[s][j] = FreeEntry
       /\ \A c \in W, j \in Entries : dir'[c][j] = IF c = d /\ j = k THEN x ELSE dir[c][j]
  <2>1. EmptyDir \in [Entries -> T] /\ \A j \in Entries : EmptyDir[j] = FreeEntry
    BY <1>16 DEF EmptyDir
  <2>2. dir \in [W -> [Entries -> T]] /\ x \in T /\ s \notin W /\ d \in W
    BY <1>9, <1>14, <1>16, <1>17
  <2>3. /\ DOMAIN dir' = W \cup {s} /\ dir'[s] = EmptyDir
        /\ dir'[d] = [dir[d] EXCEPT ![k] = x]
        /\ \A c \in W : c # d => dir'[c] = dir[c]
        /\ dir' = [c \in W \cup {s} |-> dir'[c]]
    BY <1>5, <1>8, <2>2
  <2> HIDE DEF W, T
  <2>4. dir'[d] \in [Entries -> T]
        /\ \A j \in Entries : dir'[d][j] = IF j = k THEN x ELSE dir[d][j]
    BY <1>10, <2>2, <2>3
  <2>5. \A c \in W \cup {s} : dir'[c] \in [Entries -> T]
    BY <2>1, <2>2, <2>3, <2>4
  <2>6. dir' \in [W \cup {s} -> [Entries -> T]]
    BY <2>3, <2>5
  <2>7. \A j \in Entries : dir'[s][j] = FreeEntry
    BY <2>1, <2>3
  <2>8. \A c \in W, j \in Entries : dir'[c][j] = IF c = d /\ j = k THEN x ELSE dir[c][j]
    BY <2>3, <2>4
  <2>9. QED
    BY <2>3, <2>6, <2>7, <2>8
<1>19. disk' = disk /\ sec' = sec /\ file' = NoFile /\ error' = error /\ EntryTypes' = EntryTypes
  BY <1>1 DEF EntryTypes
<1>20. SubDirs' = SubDirs \cup {s} /\ Taken' = Taken \cup DirRun(s) /\ s \notin SubDirs
  <2>1. SubDirs' = SubDirs \cup {s} /\ s \notin SubDirs
    BY <1>13, <1>14, <1>18 DEF SubDirs
  <2>2. Taken' = Taken \cup DirRun(s)
    BY <1>8, <1>9, <1>11, <1>19 DEF Taken
  <2>3. QED
    BY <2>1, <2>2
<1> DEFINE New == {s} \X Entries
<1>21. /\ Places' = Places \cup New
       /\ E(o)' = x /\ \A e \in Places : e # o => E(e)' = E(e)
       /\ \A e \in New : E(e)' = FreeEntry /\ e # o /\ e \notin Places
  <2>1. Places' = Places \cup New
    BY <1>18 DEF Places
  <2>2. ASSUME NEW e \in Places PROVE E(e)' = IF e = o THEN x ELSE E(e)
    <3>1. e[1] \in W /\ e[2] \in Entries /\ e = <<e[1], e[2]>>
      BY DEF Places
    <3>2. e = o <=> e[1] = d /\ e[2] = k
      BY <1>6, <3>1
    <3>3. QED
      BY <1>18, <3>1, <3>2 DEF E
  <2>3. ASSUME NEW e \in New PROVE E(e)' = FreeEntry /\ e # o /\ e \notin Places
    <3>1. e[1] = s /\ e[2] \in Entries
      OBVIOUS
    <3>2. E(e)' = FreeEntry
      BY <1>18, <3>1 DEF E
    <3>3. e \notin Places
      BY <1>14, <3>1 DEF Places
    <3>4. QED
      BY <1>15, <3>2, <3>3
  <2>4. QED
    BY <1>15, <2>1, <2>2, <2>3
<1> HIDE DEF New
<1>22. FileEntries' = FileEntries
  <2>1. \A e \in FileEntries : e \in Places /\ e # o
    BY <1>15 DEF FileEntries
  <2>2. FileEntries \subseteq FileEntries'
    BY <1>21, <2>1 DEF FileEntries
  <2>3. FileEntries' \subseteq FileEntries
    BY <1>16, <1>21 DEF FileEntries
  <2>4. QED
    BY <2>2, <2>3
<1>23. Types'
  <2>1. \A c \in DOMAIN dir', j \in Entries : dir'[c][j] \in EntryTypes
    <3>1. \A c \in DOMAIN dir' : dir'[c] \in [Entries -> T]
      BY <1>18
    <3>2. QED
      BY <3>1
  <2>2. \A y \in EntryTypes : /\ y.flag \in {"never used", "opened", "in use", "directory"}
                              /\ y.dos2 \in BOOLEAN
                              /\ y.start \in 0 .. disk.sector_count
                              /\ y.count \in 0 .. disk.sector_count
    BY DEF EntryTypes
  <2>3. TypeOK /\ ROOT \in DOMAIN dir
    BY <1>1 DEF Types
  <2>4. created' \in 0 .. MaxCreated /\ free' \subseteq Usable(disk)
    BY <1>1, <1>8, <1>9
  <2>5. DOMAIN dir' \subseteq Usable(disk) \cup {ROOT} /\ ROOT \in DOMAIN dir'
    BY <1>13, <1>18, <2>3 DEF TypeOK
  <2>6. dir_stack' \in Seq(DOMAIN dir') /\ dir_stack' # <<>>
    <3> DEFINE V == DOMAIN dir'
    <3>1. dir_stack \in Seq(W) /\ W \subseteq V /\ s \in V
      BY <1>18, <2>3 DEF TypeOK
    <3> HIDE DEF V, W
    <3>2. dir_stack \in Seq(V)
      BY <3>1
    <3>3. Append(dir_stack, s) \in Seq(V) /\ Append(dir_stack, s) # <<>>
      BY <3>1, <3>2
    <3>4. QED
      BY <1>8, <3>3 DEF V
  <2>7. TypeOK'
    BY <1>19, <2>1, <2>2, <2>3, <2>4, <2>5, <2>6 DEF TypeOK
  <2>8. dir' \in [DOMAIN dir' -> [Entries -> EntryTypes]]
    BY <1>18
  <2>9. QED
    BY <1>19, <2>5, <2>7, <2>8 DEF Types
<1>24. EntriesNamed'
  <2>1. ASSUME NEW e \in Places \cup New, E(e)'.flag # "never used" PROVE E(e)'.name \in 1 .. created + 1
    <3>1. CASE e = o
      <4>1. E(e)'.name = created + 1
        BY <1>16, <1>21, <3>1
      <4>2. created + 1 \in 1 .. created + 1
        BY <1>9
      <4>3. QED
        BY <4>1, <4>2
    <3>2. CASE e # o
      <4>1. e \in Places /\ E(e)' = E(e)
        BY <1>16, <1>21, <2>1, <3>2
      <4>2. E(e).name \in 1 .. created
        BY <1>1, <2>1, <4>1 DEF EntriesNamed
      <4>3. QED
        BY <1>9, <4>1, <4>2
    <3>3. QED
      BY <3>1, <3>2
  <2>2. ASSUME NEW e \in Places \cup New, NEW f \in Places \cup New, E(e)'.flag # "never used",
               E(f)'.flag # "never used", E(e)'.name = E(f)'.name
        PROVE  e = f
    <3>1. e \in Places /\ f \in Places
      BY <1>16, <1>21, <2>2
    <3>2. ASSUME NEW g \in Places, g # o, E(g)'.flag # "never used"
          PROVE  E(g)'.name # created + 1
      <4>1. E(g)' = E(g)
        BY <1>21, <3>2
      <4>2. E(g).name \in 1 .. created
        BY <1>1, <3>2, <4>1 DEF EntriesNamed
      <4>3. QED
        BY <1>9, <4>1, <4>2
    <3>3. CASE e = o \/ f = o
      BY <1>16, <1>21, <2>2, <3>1, <3>2, <3>3
    <3>4. CASE e # o /\ f # o
      <4>1. E(e).flag # "never used" /\ E(f).flag # "never used" /\ E(e).name = E(f).name
        BY <1>21, <2>2, <3>1, <3>4
      <4>2. QED
        BY <1>1, <3>1, <4>1 DEF EntriesNamed
    <3>5. QED
      BY <3>3, <3>4
  <2>3. ASSUME NEW e \in Places \cup New PROVE E(e)'.flag # "opened"
    <3>1. \A f \in Places : E(f).flag # "opened"
      BY <1>1 DEF EntriesNamed
    <3>2. QED
      BY <1>16, <1>21, <3>1
  <2>4. Places' = Places \cup New /\ file' = NoFile /\ created' = created + 1
    BY <1>1, <1>19, <1>21
  <2>5. (\A e \in Places : E(e).flag # "never used" => E(e).name \in 1 .. created)'
    BY <2>1, <2>4
  <2>6. (\A e, f \in Places :
            E(e).flag # "never used" /\ E(f).flag # "never used" /\ E(e).name = E(f).name => e = f)'
    BY <2>2, <2>4
  <2>7. (\A e \in Places : E(e).flag = "opened" <=> file # NoFile /\ e = <<file.dir, file.file_no>>)'
    BY <2>3, <2>4
  <2>8. QED
    BY <2>4, <2>5, <2>6, <2>7 DEF EntriesNamed
<1>25. EntriesInOrder'
  <2>1. ASSUME NEW c \in W \cup {s}, NEW i \in Entries, NEW j \in Entries, i < j,
               E(<<c, j>>)'.flag # "never used"
        PROVE  E(<<c, i>>)'.flag # "never used"
    <3>1. c \in W /\ <<c, i>> \in Places /\ <<c, j>> \in Places
      <4>1. <<s, j>> \in New
        BY DEF New
      <4>2. c # s
        BY <1>16, <1>21, <2>1, <4>1
      <4>3. QED
        BY <4>2 DEF Places
    <3>2. CASE <<c, i>> = o
      BY <1>16, <1>21, <3>2
    <3>3. CASE <<c, i>> # o
      <4>1. E(<<c, i>>)' = E(<<c, i>>)
        BY <1>21, <3>1, <3>3
      <4>2. CASE <<c, j>> = o
        <5>1. c = d /\ j = k
          BY <1>6, <4>2
        <5>2. i \notin FreeEntries(d)
          <6>1. i \in Int /\ j \in Int
            BY ScaleFacts DEF Entries
          <6>2. \A l \in FreeEntries(d) : k <= l
            BY <1>10
          <6>3. ~(k <= i)
            <7>1. i < j /\ k = j
              BY <2>1, <5>1
            <7>2. QED
              BY <6>1, <7>1
          <6>4. QED
            BY <6>2, <6>3
        <5>3. QED
          BY <4>1, <5>1, <5>2 DEF FreeEntries, E
      <4>3. CASE <<c, j>> # o
        <5>1. E(<<c, j>>).flag # "never used"
          BY <1>21, <2>1, <3>1, <4>3
        <5>2. QED
          BY <1>1, <2>1, <3>1, <4>1, <5>1 DEF EntriesInOrder
      <4>4. QED
        BY <4>2, <4>3
    <3>4. QED
      BY <3>2, <3>3
  <2>2. DOMAIN dir' = W \cup {s}
    BY <1>18
  <2>3. QED
    BY <2>1, <2>2 DEF EntriesInOrder
<1>26. DirsHeld'
  <2>1. ASSUME NEW e \in Places \cup New, E(e)'.flag = "directory"
        PROVE  \/ e = o /\ E(e)'.start = s
               \/ e \in Places /\ e # o /\ E(e)' = E(e) /\ E(e)'.start \in SubDirs
    <3>1. CASE e = o
      BY <1>16, <1>21, <3>1
    <3>2. CASE e # o
      <4>1. e \in Places /\ E(e)' = E(e)
        BY <1>16, <1>21, <2>1, <3>2
      <4>2. QED
        BY <1>1, <2>1, <3>2, <4>1 DEF DirsHeld
    <3>3. QED
      BY <3>1, <3>2
  <2>2. ASSUME NEW c \in SubDirs \cup {s}
        PROVE  \E e \in Places \cup New : E(e)'.flag = "directory" /\ E(e)'.start = c
    <3>1. CASE c = s
      BY <1>15, <1>16, <1>21, <3>1
    <3>2. CASE c \in SubDirs
      <4>1. PICK e \in Places : E(e).flag = "directory" /\ E(e).start = c
        BY <1>1, <3>2 DEF DirsHeld
      <4>2. e # o
        BY <1>15, <4>1
      <4>3. QED
        BY <1>21, <4>1, <4>2
    <3>3. QED
      BY <3>1, <3>2
  <2>3. ASSUME NEW e \in Places \cup New, NEW f \in Places \cup New, E(e)'.flag = "directory",
               E(f)'.flag = "directory", E(e)'.start = E(f)'.start
        PROVE  e = f
    <3>1. CASE e = o \/ f = o
      BY <1>20, <2>1, <2>3, <3>1
    <3>2. CASE e # o /\ f # o
      <4>1. e \in Places /\ f \in Places /\ E(e).flag = "directory" /\ E(f).flag = "directory"
            /\ E(e).start = E(f).start
        BY <2>1, <2>3, <3>2
      <4>2. QED
        BY <1>1, <4>1 DEF DirsHeld
    <3>3. QED
      BY <3>1, <3>2
  <2>4. ASSUME NEW c \in SubDirs \cup {s} PROVE DirRun(c) \subseteq Taken \cup DirRun(s)
    BY <1>1 DEF DirsHeld
  <2>5. ASSUME NEW b \in SubDirs \cup {s}, NEW c \in SubDirs \cup {s}, b # c
        PROVE  DirRun(b) \cap DirRun(c) = {}
    <3>1. \A a \in SubDirs : DirRun(a) \cap DirRun(s) = {}
      <4>1. \A a \in SubDirs : DirRun(a) \subseteq Taken
        BY <1>1 DEF DirsHeld
      <4>2. QED
        BY <1>9, <1>11, <4>1
    <3>2. CASE b = s \/ c = s
      BY <2>5, <3>1, <3>2
    <3>3. CASE b \in SubDirs /\ c \in SubDirs
      BY <1>1, <2>5, <3>3 DEF DirsHeld
    <3>4. QED
      BY <3>2, <3>3
  <2>6. Places' = Places \cup New /\ SubDirs' = SubDirs \cup {s} /\ Taken' = Taken \cup DirRun(s)
    BY <1>20, <1>21
  <2>7. (\A e \in Places : E(e).flag = "directory" => E(e).start \in SubDirs)'
    BY <2>1, <2>6
  <2>8. (\A c \in SubDirs : \E e \in Places : E(e).flag = "directory" /\ E(e).start = c)'
    BY <2>2, <2>6
  <2>9. (\A e, f \in Places :
          E(e).flag = "directory" /\ E(f).flag = "directory" /\ E(e).start = E(f).start => e = f)'
    BY <2>3, <2>6
  <2>10. (\A c \in SubDirs : DirRun(c) \subseteq Taken)'
    BY <2>4, <2>6
  <2>11. (\A b, c \in SubDirs : b # c => DirRun(b) \cap DirRun(c) = {})'
    BY <2>5, <2>6
  <2>12. QED
    BY <2>7, <2>8, <2>9, <2>10, <2>11 DEF DirsHeld
<1>27. LinksHeld'
  BY <1>1, <1>8, <1>19, <1>20 DEF LinksHeld
<1>28. /\ path \in PathFunctions
       /\ PathsTaken(path) /\ PathsApart(path) /\ AllHeld(path) /\ PathsRight(path)
  BY <1>2 DEF Paths
<1>29. path \in PathFunctions' /\ PathsApart(path)'
  BY <1>19, <1>22, <1>28 DEF PathFunctions, PathsApart
<1>30. PathsTaken(path)'
  <2>1. ASSUME NEW e \in FileEntries, NEW i \in 1 .. Len(path[e])
        PROVE  path[e][i] \in Taken \cup DirRun(s)
               /\ \A c \in SubDirs \cup {s} : path[e][i] \notin DirRun(c)
    <3>1. path[e][i] \in Taken /\ \A c \in SubDirs : path[e][i] \notin DirRun(c)
      BY <1>28 DEF PathsTaken
    <3>2. QED
      BY <1>9, <1>11, <3>1
  <2>2. QED
    BY <1>20, <1>22, <2>1 DEF PathsTaken
<1>31. AllHeld(path)'
  <2>1. ASSUME NEW t \in Taken \cup DirRun(s)
        PROVE  \/ \E e \in FileEntries : \E i \in 1 .. Len(path[e]) : path[e][i] = t
               \/ \E c \in SubDirs \cup {s} : t \in DirRun(c)
    BY <1>28 DEF AllHeld
  <2>2. QED
    BY <1>20, <1>22, <2>1 DEF AllHeld
<1>32. PathsRight(path)'
  <2>1. ASSUME NEW e \in FileEntries PROVE ClosedPath(e, path[e])' /\ E(e)'.flag # "opened"
    <3> DEFINE b == path[e]
    <3>1. e \in Places /\ e # o /\ b \in Seq(1 .. n)
      BY <1>15, <1>28 DEF FileEntries, PathFunctions
    <3>2. E(e)' = E(e) /\ E(e).flag = "in use"
      BY <1>1, <1>21, <3>1 DEF EntriesNamed, FileEntries
    <3>3. ClosedPath(e, b)
      BY <1>28, <3>2 DEF PathsRight
    <3>4. Types /\ disk' = disk /\ sec' = sec
      BY <1>1
    <3> HIDE DEF b
    <3>5. \A i \in 1 .. Len(b) : sec'[b[i]] = sec[b[i]]
      BY <3>4
    <3>6. ClosedPath(e, b)'
      BY <3>1, <3>2, <3>3, <3>4, <3>5, ClosedPathSame
    <3>7. QED
      BY <3>2, <3>6 DEF b
  <2>2. QED
    BY <1>22, <2>1 DEF PathsRight
<1>33. ClosedStay
  <2>1. Places' = Places \cup New /\ \A e \in Places : e # o => E(e)' = E(e)
    BY <1>21
  <2>2. E(o).flag = "never used" /\ E(o)'.flag = "directory"
    BY <1>15, <1>16, <1>21
  <2>3. \A e \in New : E(e)'.flag = "never used" /\ e \notin Places
    BY <1>16, <1>21
  <2> HIDE DEF New
  <2>4. QED
    BY <2>1, <2>2, <2>3, InUseFacts DEF ClosedStay
<1>34. QED
  BY <1>23, <1>24, <1>25, <1>26, <1>27, <1>29, <1>30, <1>31, <1>32, <1>33
     DEF FilesIInv, Shape, Paths

(* Every step keeps the invariant.                                         *)
LEMMA FilesStep == FilesIInv /\ [Next]_vars => FilesIInv'
<1> SUFFICES ASSUME FilesIInv, [Next]_vars PROVE FilesIInv'
  OBVIOUS
<1>1. dir_stack \in Seq(DOMAIN dir) /\ dir_stack # <<>>
      /\ error \in {"", "dir full", "disk full", "assertion"}
  BY DEF FilesIInv, Shape, Types, TypeOK
<1>2. CASE CreateFile
  BY <1>2, CreateFileKeeps
<1>3. CASE DirFull
  BY <1>1, <1>3, TablesSame DEF DirFull, Throw
<1>4. CASE WriteFirst
  BY <1>4, WriteFirstKeeps
<1>5. CASE WriteMore
  BY <1>5, WriteMoreKeeps
<1>6. CASE WriteNext
  BY <1>6, WriteNextKeeps
<1>7. CASE AssertionFails
  BY <1>1, <1>7, TablesSame DEF AssertionFails, Throw
<1>8. CASE DiskFull
  BY <1>1, <1>8, TablesSame DEF DiskFull, Throw
<1>9. CASE Close
  <2>1. PICK path : Paths(path)
    BY DEF FilesIInv
  <2>2. QED
    BY <1>9, <2>1, CloseFacts
<1>10. CASE CreateDir
  BY <1>10, CreateDirKeeps
<1>11. CASE NoRoomForDir
  BY <1>1, <1>11, TablesSame DEF NoRoomForDir, Throw
<1>12. CASE LeaveDir
  <2> DEFINE D == DOMAIN dir
             k == Len(dir_stack) - 1
  <2>1. dir_stack' = SubSeq(dir_stack, 1, k) /\ Len(dir_stack) > 1
        /\ UNCHANGED <<disk, free, sec, dir, file, created, error>>
    BY <1>12 DEF LeaveDir
  <2>2. dir_stack' \in Seq(D) /\ dir_stack' # <<>>
    <3>1. dir_stack \in Seq(D)
      BY <1>1
    <3> HIDE DEF D, k
    <3>2. k \in Nat /\ k >= 1 /\ k <= Len(dir_stack)
      BY <2>1, <3>1 DEF k
    <3>3. QED
      BY <2>1, <3>1, <3>2
  <2>3. QED
    BY <1>1, <2>1, <2>2, TablesSame
<1>13. CASE UNCHANGED vars
  BY <1>1, <1>13, TablesSame DEF vars
<1>14. QED
  BY <1>2, <1>3, <1>4, <1>5, <1>6, <1>7, <1>8, <1>9, <1>10, <1>11, <1>12, <1>13 DEF Next

LEMMA FilesInduction == Spec => []FilesIInv
BY InitHolds, FilesStep, PTL DEF Spec

(***************************************************************************)
(* Directories, entries, sectors and the file that is written stay what    *)
(* they are: no link or count leaves the disk, and no file has more bytes  *)
(* or sectors than there are.                                              *)
(***************************************************************************)
THEOREM Dos2TypeOK == Spec => []TypeOK
<1>1. FilesIInv => TypeOK
  BY DEF FilesIInv, Shape, Types
<1>2. QED
  BY <1>1, FilesInduction, PTL

-----------------------------------------------------------------------------
(* What reading finds.                                                     *)
(* The links that are read are those that were written.                    *)
LEMMA LinksRead ==
    ASSUME FilesIInv
    PROVE  /\ LinksFit => ReadLink = LinkOf
           /\ TakenBelowLinks => SizeLink = LinkOf /\ LinksFit
<1> DEFINE n == disk.sector_count
<1>1. Types /\ LinksHeld
  BY DEF FilesIInv, Shape
<1>2. n \in Nat /\ LINKS \in Nat \ {0} /\ Taken \subseteq 1 .. n
  BY <1>1, TypeFacts, ScaleFacts
<1>3. DOMAIN sec = 1 .. n /\ \A s \in 1 .. n : sec[s].link \in 0 .. n
  <2>1. sec \in [1 .. n -> SectorTypes(n)]
    BY <1>1 DEF Types, TypeOK, SectorTypes
  <2>2. \A x \in SectorTypes(n) : x.link \in 0 .. n
    BY DEF SectorTypes
  <2>3. QED
    BY <2>1, <2>2
<1>4. ASSUME NEW s \in 1 .. n, sec[s].link < LINKS
      PROVE  sec[s].link % LINKS = sec[s].link
  <2> DEFINE l == sec[s].link
  <2>1. l \in Nat /\ l < LINKS
    BY <1>2, <1>3, <1>4
  <2> HIDE DEF l
  <2>2. l % LINKS = l
    BY <1>2, <2>1, ModFacts
  <2>3. QED
    BY <2>2 DEF l
<1>5. ASSUME TakenBelowLinks, NEW s \in 1 .. n PROVE sec[s].link < LINKS
  <2>1. CASE sec[s].link = 0
    BY <1>2, <2>1
  <2>2. CASE sec[s].link # 0
    <3>1. sec[s].link \in Taken
      BY <1>1, <2>2 DEF LinksHeld
    <3>2. QED
      BY <1>5, <3>1 DEF TakenBelowLinks, Taken
  <2>3. QED
    BY <2>1, <2>2
<1>6. ASSUME LinksFit PROVE ReadLink = LinkOf
  <2> DEFINE next(s) == IF disk.use_file_number THEN sec[s].link % LINKS ELSE sec[s].link
  <2>1. ASSUME NEW s \in 1 .. n PROVE next(s) = sec[s].link
    <3>1. disk.use_file_number => sec[s].link < LINKS
      <4>1. CASE disk.use_file_number /\ disk.ndebug
        BY <1>5, <1>6, <4>1 DEF LinksFit
      <4>2. CASE disk.use_file_number /\ ~disk.ndebug
        BY <1>1, <4>2 DEF LinksHeld
      <4>3. QED
        BY <4>1, <4>2
    <3>2. QED
      BY <1>4, <3>1
  <2>2. \A s \in 1 .. n : ~(next(s) > n)
    <3>1. \A s \in 1 .. n : ~(sec[s].link > n)
      BY <1>2, <1>3
    <3> HIDE DEF next
    <3>2. QED
      BY <2>1, <3>1
  <2>3. ReadLink = [s \in 1 .. n |-> IF next(s) > n THEN 0 ELSE next(s)]
    BY <1>3 DEF ReadLink
  <2> HIDE DEF next
  <2>4. ReadLink = [s \in 1 .. n |-> sec[s].link]
    BY <2>1, <2>2, <2>3
  <2>5. QED
    BY <2>4 DEF LinkOf
<1>7. ASSUME TakenBelowLinks PROVE SizeLink = LinkOf /\ LinksFit
  <2>1. \A s \in 1 .. n : sec[s].link % LINKS = sec[s].link
    BY <1>4, <1>5, <1>7
  <2>2. SizeLink = [s \in 1 .. n |-> sec[s].link % LINKS]
    BY <1>3 DEF SizeLink
  <2>3. SizeLink = [s \in 1 .. n |-> sec[s].link]
    <3> DEFINE cut(s) == sec[s].link % LINKS
    <3>1. \A s \in 1 .. n : cut(s) = sec[s].link
      BY <2>1
    <3>2. SizeLink = [s \in 1 .. n |-> cut(s)]
      BY <2>2
    <3> HIDE DEF cut
    <3>3. QED
      BY <3>1, <3>2
  <2>4. QED
    BY <1>7, <2>3 DEF LinkOf, LinksFit
<1>8. QED
  BY <1>6, <1>7

(* Following them gives the sectors of a file, no more than the disk has.  *)
Separate(c) ==
    c \in Seq(1 .. disk.sector_count) /\ \A i, j \in 1 .. Len(c) : c[i] = c[j] => i = j

LEMMA PathsSeparate ==
    ASSUME NEW path, Paths(path), NEW e \in FileEntries
    PROVE  Separate(path[e])
BY DEF Paths, PathFunctions, PathsApart, Separate

LEMMA ChainsRead ==
    ASSUME FilesIInv, NEW c, Separate(c), NEW start, PathFrom(c, start, LinkOf)
    PROVE  Chain(start, LinkOf, disk.sector_count) = c
<1> DEFINE n == disk.sector_count
           D == 1 .. n
<1>1. n \in Nat
  BY TypeFacts DEF FilesIInv, Shape
<1>2. c \in Seq(1 .. n) /\ \A i, j \in 1 .. Len(c) : c[i] = c[j] => i = j
  BY DEF Separate
<1>3. Len(c) <= n
  <2> HIDE DEF n
  <2>1. QED
    BY <1>1, <1>2, PathLength
<1>4. DOMAIN LinkOf = D /\ 0 \notin D /\ c \in Seq(D)
  BY <1>1, <1>2 DEF LinkOf
<1>5. PathFrom(c, start, LinkOf)
  OBVIOUS
<1> HIDE DEF D, n
<1>6. Chain(start, LinkOf, n) = c
  BY <1>1, <1>3, <1>4, <1>5, ChainOfPath
<1>7. QED
  BY <1>6 DEF n

LEMMA FilesRead ==
    ASSUME FilesIInv, LinksFit, NEW path, Paths(path)
    PROVE  \A e \in FileEntries :
               /\ E(e).flag = "in use" => FileSectors(e[1], e[2]) = path[e]
               /\ E(e).flag = "opened" => OpenSectors = path[e]
<1>1. ReadLink = LinkOf /\ PathsRight(path)
  BY LinksRead DEF Paths
<1>2. ASSUME NEW e \in FileEntries, E(e).flag = "in use" PROVE FileSectors(e[1], e[2]) = path[e]
  <2>1. PathFrom(path[e], E(e).start, LinkOf)
    BY <1>1, <1>2 DEF PathsRight, ClosedPath
  <2>2. Chain(E(e).start, LinkOf, disk.sector_count) = path[e]
    BY <2>1, PathsSeparate, ChainsRead
  <2>3. QED
    BY <1>1, <2>2 DEF FileSectors, E
<1>3. ASSUME NEW e \in FileEntries, E(e).flag = "opened" PROVE OpenSectors = path[e]
  <2>1. PathFrom(path[e], file.first_sec, LinkOf)
    BY <1>1, <1>3 DEF PathsRight, OpenPath
  <2>2. Chain(file.first_sec, LinkOf, disk.sector_count) = path[e]
    BY <2>1, PathsSeparate, ChainsRead
  <2>3. file # NoFile
    BY <1>3 DEF FilesIInv, Shape, EntriesNamed, FileEntries
  <2>4. QED
    BY <1>1, <2>2, <2>3 DEF OpenSectors
<1>4. QED
  BY <1>2, <1>3

LEMMA OwnersCount == FilesIInv /\ LinksFit => SectorsOwned
<1> SUFFICES ASSUME FilesIInv, LinksFit, NEW s \in Usable(disk)
             PROVE  Cardinality(Owners(s)) = IF s \in free THEN 0 ELSE 1
  BY DEF SectorsOwned
<1>1. PICK path : Paths(path)
  BY DEF FilesIInv
<1>2. PathsTaken(path) /\ PathsApart(path) /\ AllHeld(path) /\ DirsHeld
  BY <1>1 DEF Paths, FilesIInv, Shape
<1> DEFINE Files == {e \in FileEntries : OnPath(s, path[e])}
           Dirs == {c \in SubDirs : s \in DirRun(c)}
           Tags == {<<c, -1>> : c \in Dirs}
<1>3. Owners(s) = Files \cup Tags
  <2>1. UsedEntries("in use") \cup UsedEntries("opened") = FileEntries
    BY UsedFacts DEF FileEntries
  <2>2. \A e \in FileEntries : s \in SectorsOf(e) <=> OnPath(s, path[e])
    <3>1. ASSUME NEW e \in FileEntries PROVE s \in SectorsOf(e) <=> OnPath(s, path[e])
      <4> DEFINE b == path[e]
      <4>1. (IF E(e).flag = "opened" THEN OpenSectors ELSE FileSectors(e[1], e[2])) = b
        BY <1>1, FilesRead DEF FileEntries
      <4>2. SectorsOf(e) = {b[i] : i \in DOMAIN b}
        BY <4>1 DEF SectorsOf, E
      <4>3. DOMAIN b = 1 .. Len(b)
        <5>1. b \in Seq(1 .. disk.sector_count)
          BY <1>1 DEF Paths, PathFunctions
        <5> HIDE DEF b
        <5>2. QED
          BY <5>1
      <4> HIDE DEF b
      <4>4. s \in SectorsOf(e) <=> OnPath(s, b)
        BY <4>2, <4>3 DEF OnPath
      <4>5. QED
        BY <4>4 DEF b
    <3>2. QED
      BY <3>1
  <2>3. Dirs = {c \in DOMAIN dir \ {ROOT} : s \in c .. c + DIR_SIZE - 1}
    BY DEF SubDirs, DirRun
  <2>4. Owners(s) = {e \in FileEntries : s \in SectorsOf(e)} \cup Tags
    BY <2>1, <2>3 DEF Owners
  <2>5. {e \in FileEntries : s \in SectorsOf(e)} = Files
    BY <2>2
  <2> HIDE DEF Files, Tags
  <2>6. QED
    BY <2>4, <2>5
<1>4. CASE s \in free
  <2>1. s \notin Taken
    BY <1>4 DEF Taken
  <2>2. Files = {}
    BY <1>2, <2>1 DEF PathsTaken, OnPath
  <2>3. Dirs = {}
    BY <1>2, <2>1 DEF DirsHeld
  <2>4. Tags = {}
    BY <2>3
  <2> HIDE DEF Files, Tags
  <2>5. Owners(s) = {}
    BY <1>3, <2>2, <2>4
  <2>6. QED
    BY <1>4, <2>5, FS_EmptySet
<1>5. CASE s \notin free
  <2>1. s \in Taken
    BY <1>5 DEF Taken
  <2>2. \/ \E e \in FileEntries : OnPath(s, path[e])
        \/ \E c \in SubDirs : s \in DirRun(c)
    BY <1>2, <2>1 DEF AllHeld, OnPath
  <2>3. CASE \E e \in FileEntries : OnPath(s, path[e])
    <3>1. PICK e \in FileEntries : OnPath(s, path[e])
      BY <2>3
    <3>2. \A f \in FileEntries : OnPath(s, path[f]) => f = e
      BY <1>2, <3>1 DEF PathsApart, OnPath
    <3>3. Files = {e}
      BY <3>1, <3>2
    <3>4. Dirs = {}
      BY <1>2, <3>1 DEF PathsTaken, OnPath
    <3>5. Tags = {}
      BY <3>4
    <3> HIDE DEF Files, Tags
    <3>6. Owners(s) = {e}
      BY <1>3, <3>3, <3>5
    <3>7. QED
      BY <1>5, <3>6, FS_Singleton
  <2>4. CASE \E c \in SubDirs : s \in DirRun(c)
    <3>1. PICK c \in SubDirs : s \in DirRun(c)
      BY <2>4
    <3>2. Files = {}
      BY <1>2, <3>1 DEF PathsTaken, OnPath
    <3>3. Dirs = {c}
      <4>1. \A b \in SubDirs : s \in DirRun(b) => b = c
        BY <1>2, <3>1 DEF DirsHeld
      <4>2. QED
        BY <3>1, <4>1
    <3> HIDE DEF Dirs
    <3>4. Tags = {<<c, -1>>}
      BY <3>3
    <3> HIDE DEF Files, Tags
    <3>5. Owners(s) = {<<c, -1>>}
      BY <1>3, <3>2, <3>4
    <3>6. QED
      BY <1>5, <3>5, FS_Singleton
  <2>5. QED
    BY <2>2, <2>3, <2>4
<1>6. QED
  BY <1>4, <1>5

LEMMA ClosedFacts ==
    ASSUME FilesIInv, LinksFit, NEW path, Paths(path), NEW e \in UsedEntries("in use")
    PROVE  /\ e \in FileEntries /\ E(e).flag = "in use" /\ e \in Places
           /\ path[e] \in Seq(1 .. disk.sector_count)
           /\ ClosedPath(e, path[e]) /\ FileSectors(e[1], e[2]) = path[e]
<1>1. e \in Places /\ E(e).flag = "in use"
  BY UsedFacts
<1>2. e \in FileEntries
  BY <1>1 DEF FileEntries
<1>3. path[e] \in Seq(1 .. disk.sector_count) /\ PathsRight(path)
  BY <1>2 DEF Paths, PathFunctions
<1>4. FileSectors(e[1], e[2]) = path[e]
  BY <1>1, <1>2, FilesRead
<1>5. QED
  BY <1>1, <1>2, <1>3, <1>4 DEF PathsRight

LEMMA DirsCount == FilesIInv => DirsAreTree
<1> SUFFICES ASSUME FilesIInv, NEW d \in DOMAIN dir
             PROVE  Cardinality({e \in UsedEntries("directory") : dir[e[1]][e[2]].start = d})
                       = IF d = ROOT THEN 0 ELSE 1
  BY DEF DirsAreTree
<1> DEFINE S == {e \in UsedEntries("directory") : dir[e[1]][e[2]].start = d}
<1>1. S = {e \in Places : E(e).flag = "directory" /\ E(e).start = d}
  BY UsedFacts DEF E
<1>2. DirsHeld
  BY DEF FilesIInv, Shape
<1>3. CASE d = ROOT
  <2>1. S = {}
    BY <1>1, <1>2, <1>3 DEF DirsHeld, SubDirs
  <2> HIDE DEF S
  <2>2. Cardinality(S) = 0
    BY <2>1, FS_EmptySet
  <2>3. QED
    BY <1>3, <2>2 DEF S
<1>4. CASE d # ROOT
  <2>1. d \in SubDirs
    BY <1>4 DEF SubDirs
  <2>2. PICK e \in Places : E(e).flag = "directory" /\ E(e).start = d
    BY <1>2, <2>1 DEF DirsHeld
  <2>3. \A f \in Places : E(f).flag = "directory" /\ E(f).start = d => f = e
    BY <1>2, <2>2 DEF DirsHeld
  <2>4. S = {e}
    BY <1>1, <2>2, <2>3
  <2> HIDE DEF S
  <2>5. Cardinality(S) = 1
    BY <2>4, FS_Singleton
  <2>6. QED
    BY <1>4, <2>5 DEF S
<1>5. QED
  BY <1>3, <1>4

LEMMA ListingIsExact == FilesIInv => ListingExact
<1> SUFFICES ASSUME FilesIInv, NEW d \in DOMAIN dir
             PROVE  LET used == Entries \ FreeEntries(d)
                    IN  used \subseteq Listed(d) /\ (used # {} => Listed(d) = used)
  BY DEF ListingExact
<1> DEFINE used == Entries \ FreeEntries(d)
<1>1. \A j, k \in Entries : j < k /\ k \in used => j \in used
  BY DEF FilesIInv, Shape, EntriesInOrder, FreeEntries, E
<1>2. \A k \in Entries : k \in used <=> dir[d][k].flag # "never used"
  BY DEF FreeEntries
<1>3. 0 \in Entries /\ \A k \in Entries : k \in Nat /\ (k = 0 \/ k \in 1 .. k)
                          /\ \A j \in 1 .. k : j \in Entries /\ (j = k \/ j < k)
  BY ScaleFacts DEF Entries
<1>4. used \subseteq Entries
  OBVIOUS
<1> HIDE DEF used
<1>5. ASSUME NEW k \in used PROVE k \in Listed(d)
  <2>1. k \in Entries
    BY <1>4
  <2>2. ASSUME NEW j \in 1 .. k PROVE dir[d][j].flag # "never used"
    BY <1>1, <1>2, <1>3, <2>1
  <2>3. QED
    BY <2>1, <2>2 DEF Listed
<1>6. ASSUME used # {}, NEW k \in Listed(d) PROVE k \in used
  <2>1. k \in Entries /\ \A j \in 1 .. k : dir[d][j].flag # "never used"
    BY DEF Listed
  <2>2. CASE k = 0
    <3>1. PICK l \in used : TRUE
      BY <1>6
    <3>2. l \in Entries /\ l \in Nat /\ 0 \in Entries
      BY <1>3, <1>4
    <3>3. l = 0 \/ 0 < l
      BY <3>2
    <3>4. QED
      BY <1>1, <2>2, <3>2, <3>3
  <2>3. CASE k \in 1 .. k
    BY <1>2, <2>1, <2>3
  <2>4. QED
    BY <1>3, <2>1, <2>2, <2>3
<1>7. used \subseteq Listed(d) /\ (used # {} => Listed(d) = used)
  BY <1>5, <1>6
<1>8. QED
  BY <1>7 DEF used

(***************************************************************************)
(* Whatever pack creates, writes and closes: no sector is lost or shared,  *)
(* the entry of a closed file counts the sectors of its chain, every       *)
(* directory has one entry, unpack lists the entries in use and no others, *)
(* and FLAG_DOS2 is right.                                                 *)
(***************************************************************************)
THEOREM FilesCorrect == Spec => []FilesInv
<1>1. ASSUME FilesIInv, LinksFit PROVE CountsExact /\ Dos2FlagExact
  <2>1. PICK path : Paths(path)
    BY <1>1 DEF FilesIInv
  <2>2. CountsExact
    BY <1>1, <2>1, ClosedFacts DEF CountsExact, ClosedPath, E
  <2>3. Dos2FlagExact
    BY <1>1, <2>1, ClosedFacts DEF Dos2FlagExact, ClosedPath, DosCan, E
  <2>4. QED
    BY <2>2, <2>3
<1>2. FilesIInv => FilesInv
  BY <1>1, OwnersCount, DirsCount, ListingIsExact DEF FilesInv
<1>3. QED
  BY <1>2, FilesInduction, PTL

(* The bytes a closed file has.                                            *)
FileLength(c) == HeldBytes(c, PAYLOAD, Rest(c))

LEMMA SavedFacts ==
    ASSUME FilesIInv, LinksFit, NEW e, NEW c, Separate(c), ClosedPath(e, c)
    PROVE  /\ CountedBytes(c, sec) = FileLength(c) /\ FileLength(c) \in Nat
           /\ SavedBytes(e[1], e[2]) = Bytes(E(e).name, FileLength(c))
           /\ c = <<>> <=> FileLength(c) = 0
<1> DEFINE n == disk.sector_count
           D == 1 .. n
           r == Rest(c)
           f == E(e).name
<1>1. /\ c \in Seq(D) /\ ClosedPath(e, c) /\ FileSectors(e[1], e[2]) = c
  <2>1. c \in Seq(D)
    BY DEF Separate
  <2>2. PathFrom(c, E(e).start, LinkOf)
    BY DEF ClosedPath
  <2>3. Chain(E(e).start, LinkOf, n) = c
    BY <2>2, ChainsRead
  <2>4. ReadLink = LinkOf
    BY LinksRead
  <2>5. QED
    BY <2>1, <2>3, <2>4 DEF FileSectors, E
<1>2. PAYLOAD \in Nat /\ PAYLOAD > 0
  BY ScaleFacts
<1>3. r \in Nat /\ (c # <<>> => r > 0)
  BY <1>1, <1>2 DEF ClosedPath, Rest
<1>4. HoldsBytes(c, sec, f, PAYLOAD, r)
  <2>1. Holds(c, f, r, Len(c))
    BY <1>1 DEF ClosedPath
  <2>2. \A i \in 1 .. Len(c) : i <= Len(c)
    OBVIOUS
  <2> HIDE DEF r, f
  <2>3. ASSUME NEW i \in 1 .. Len(c)
        PROVE  /\ sec[c[i]].count = IF i = Len(c) THEN r ELSE PAYLOAD
               /\ \A j \in 1 .. sec[c[i]].count : sec[c[i]].bytes[j] = <<f, (i - 1) * PAYLOAD + j>>
    <3>1. sec[c[i]].count = IF i = Len(c) THEN r ELSE PAYLOAD
      BY <2>1, <2>2 DEF Holds
    <3>2. \A j \in 1 .. (IF i = Len(c) THEN r ELSE PAYLOAD) :
              sec[c[i]].bytes[j] = <<f, (i - 1) * PAYLOAD + j>>
      BY <2>1 DEF Holds
    <3>3. QED
      BY <3>1, <3>2
  <2>4. QED
    BY <2>3 DEF HoldsBytes
<1> DEFINE X == (0 .. MaxCreated) \X (0 .. MaxBytes)
<1>5. \A s \in D : sec[s].bytes \in Seq(X) /\ sec[s].count <= Len(sec[s].bytes)
  <2> DEFINE P == PAYLOAD
             C == 0 .. P
             L == 0 .. n
  <2>1. sec \in [D -> [bytes : [1 .. P -> X], count : C, link : L]]
    BY DEF FilesIInv, Shape, Types, TypeOK
  <2> HIDE DEF D, X, L
  <2>2. ASSUME NEW s \in D PROVE sec[s].bytes \in Seq(X) /\ sec[s].count <= Len(sec[s].bytes)
    <3>1. sec[s].bytes \in [1 .. P -> X] /\ sec[s].count \in C
      BY <2>1
    <3> DEFINE b == sec[s].bytes
    <3>2. b \in [1 .. P -> X] /\ P \in Nat
      BY <1>2, <3>1
    <3> HIDE DEF b, P
    <3>3. b \in Seq(X) /\ Len(b) = P
      BY <3>2
    <3>4. sec[s].count <= P
      BY <3>1, <3>2
    <3>5. QED
      BY <3>3, <3>4 DEF b
  <2>3. QED
    BY <2>2
<1>6. CountedBytes(c, sec) = HeldBytes(c, PAYLOAD, r)
  <2> HIDE DEF r, f, D
  <2>1. QED
    BY <1>1, <1>2, <1>3, <1>4, CountOfPath
<1>7. ChainBytes(c, sec) = Bytes(f, HeldBytes(c, PAYLOAD, r))
  <2> HIDE DEF r, f, D, X
  <2>1. QED
    BY <1>1, <1>2, <1>3, <1>4, <1>5, BytesOfPath
<1>8. HeldBytes(c, PAYLOAD, r) \in Nat /\ (c = <<>> <=> HeldBytes(c, PAYLOAD, r) = 0)
  <2>1. CASE c = <<>>
    BY <2>1 DEF HeldBytes
  <2>2. CASE c # <<>>
    <3>1. Len(c) - 1 \in Nat
      <4> HIDE DEF D
      <4>1. QED
        BY <1>1, <2>2
    <3> DEFINE k == Len(c) - 1
               a == k * PAYLOAD
    <3>2. k \in Nat
      BY <3>1
    <3> HIDE DEF k
    <3>3. a \in Nat
      BY <1>2, <3>2
    <3>4. HeldBytes(c, PAYLOAD, r) = a + r
      BY <2>2 DEF HeldBytes, k
    <3> HIDE DEF a, r
    <3>5. QED
      BY <1>3, <2>2, <3>3, <3>4
  <2>3. QED
    BY <2>1, <2>2
<1>9. QED
  BY <1>1, <1>6, <1>7, <1>8 DEF FileLength, SavedBytes

(***************************************************************************)
(* As long as only sectors with numbers of 10 bits were taken, the size    *)
(* the listing shows of a file is the number of bytes that unpacking it    *)
(* writes.                                                                 *)
(***************************************************************************)
THEOREM SizesCorrect == Spec => []SizeExact
<1>1. ASSUME FilesIInv, TakenBelowLinks, NEW e \in UsedEntries("in use")
      PROVE  Size(e[1], e[2]) = Len(SavedBytes(e[1], e[2]))
  <2>1. PICK path : Paths(path)
    BY <1>1 DEF FilesIInv
  <2>2. PICK c : c = path[e]
    OBVIOUS
  <2>3. LinksFit /\ SizeLink = LinkOf
    BY <1>1, LinksRead
  <2>4. Separate(c) /\ ClosedPath(e, c)
    BY <1>1, <2>1, <2>2, <2>3, ClosedFacts, PathsSeparate
  <2>5. Chain(E(e).start, SizeLink, disk.sector_count) = c
    <3>1. PathFrom(c, E(e).start, LinkOf)
      BY <2>4 DEF ClosedPath
    <3>2. QED
      BY <1>1, <2>3, <2>4, <3>1, ChainsRead
  <2>6. Size(e[1], e[2]) = CountedBytes(c, sec)
    BY <2>5 DEF Size, E
  <2>7. /\ CountedBytes(c, sec) = FileLength(c) /\ FileLength(c) \in Nat
        /\ SavedBytes(e[1], e[2]) = Bytes(E(e).name, FileLength(c))
    BY <1>1, <2>3, <2>4, SavedFacts
  <2> DEFINE k == FileLength(c)
  <2> HIDE DEF k
  <2>8. k \in Nat
    BY <2>7 DEF k
  <2>9. Len(Bytes(E(e).name, k)) = k
    BY <2>8, BytesLength
  <2>10. QED
    BY <2>6, <2>7, <2>9 DEF k
<1>2. FilesIInv => SizeExact
  BY <1>1 DEF SizeExact
<1>3. QED
  BY <1>2, FilesInduction, PTL

-----------------------------------------------------------------------------
(* Unpacking a closed file gives the bytes its sectors hold.               *)
LEMMA SizeOfEmpty ==
    ASSUME FilesIInv, NEW e, InUse(e), NEW c, Separate(c), ClosedPath(e, c)
    PROVE  Size(e[1], e[2]) = 0 <=> c = <<>>
<1> DEFINE n == disk.sector_count
           D == 1 .. n
           a == E(e).start
           b == Chain(a, SizeLink, n)
<1>1. n \in Nat /\ LINKS \in Nat \ {0} /\ PAYLOAD \in Nat /\ PAYLOAD > 0
  BY TypeFacts, ScaleFacts DEF FilesIInv, Shape
<1>2. /\ DOMAIN sec = D
      /\ \A s \in D : sec[s].count \in Nat /\ sec[s].link \in D \cup {0} /\ sec[s].link \in Nat
  <2>1. sec \in Sectors(n)
    BY DEF FilesIInv, Shape, Types, TypeOK, Sectors, SectorTypes
  <2>2. \A x \in SectorTypes(n) : x.count \in Nat /\ x.link \in D \cup {0} /\ x.link \in Nat
    BY <1>1 DEF SectorTypes
  <2>3. DOMAIN sec = D /\ \A s \in D : sec[s] \in SectorTypes(n)
    BY <2>1 DEF Sectors
  <2> HIDE DEF D
  <2>4. QED
    BY <2>2, <2>3
<1>3. DOMAIN SizeLink = D /\ SizeLink \in [D -> D \cup {0}]
  <2>1. ASSUME NEW s \in D PROVE sec[s].link % LINKS \in D \cup {0}
    <3> DEFINE l == sec[s].link
               k == l % LINKS
    <3>1. l \in Nat /\ l <= n
      BY <1>1, <1>2
    <3> HIDE DEF l
    <3>2. k \in 0 .. LINKS - 1 /\ (l < LINKS => k = l)
      BY <1>1, <3>1, ModFacts
    <3> HIDE DEF k
    <3>3. k \in Nat /\ k <= l
      BY <1>1, <3>1, <3>2
    <3>4. k \in D \cup {0}
      BY <1>1, <3>1, <3>3
    <3>5. QED
      BY <3>4 DEF k, l
  <2>2. SizeLink = [s \in D |-> sec[s].link % LINKS]
    BY <1>2 DEF SizeLink
  <2> HIDE DEF D
  <2>3. QED
    BY <2>1, <2>2
<1>4. /\ c \in Seq(D) /\ a = IF c = <<>> THEN 0 ELSE c[1]
      /\ Size(e[1], e[2]) = CountedBytes(b, sec)
  BY DEF Separate, ClosedPath, PathFrom, Size, E
<1>5. ASSUME c = <<>> PROVE CountedBytes(b, sec) = 0
  <2> DEFINE none == <<>>
  <2>1. a = 0 /\ 0 \notin D /\ none \in Seq(D) /\ Len(none) <= n
    BY <1>1, <1>4, <1>5
  <2>2. PathFrom(none, a, SizeLink)
    BY <2>1 DEF PathFrom
  <2> HIDE DEF none, D, a, n
  <2>3. Chain(a, SizeLink, n) = none
    BY <1>1, <1>3, <2>1, <2>2, ChainOfPath
  <2>4. \A s \in D : sec[s].count \in Nat
    BY <1>2
  <2>5. none = <<>>
    BY DEF none
  <2>6. CountedBytes(none, sec) = 0
    BY <2>1, <2>4, <2>5, CountedFacts
  <2>7. QED
    BY <2>3, <2>6
<1>6. ASSUME c # <<>> PROVE CountedBytes(b, sec) # 0
  <2>1. Len(c) \in Nat /\ Len(c) >= 1 /\ c[1] \in D
    <3> HIDE DEF D
    <3>1. QED
      BY <1>4, <1>6
  <2>2. a \in D /\ a # 0 /\ n \in Nat \ {0} /\ a = c[1]
    BY <1>1, <1>4, <1>6, <2>1
  <2>3. sec[a].count > 0
    <3>1. 1 \in 1 .. Len(c) /\ 1 <= Len(c)
      BY <2>1
    <3>2. sec[c[1]].count = IF 1 = Len(c) THEN Rest(c) ELSE PAYLOAD
      BY <3>1 DEF ClosedPath, Holds
    <3>3. Rest(c) > 0
      BY <1>1, <1>6 DEF ClosedPath
    <3>4. QED
      BY <1>1, <2>2, <3>2, <3>3
  <2>4. b \in Seq(D) /\ Len(b) >= 1 /\ b[1] = a
    <3>1. 0 \notin D /\ a \in D \cup {0}
      BY <2>2
    <3> HIDE DEF D, a, n
    <3>2. QED
      BY <1>3, <2>2, <3>1, ChainInRange DEF b
  <2>5. b # <<>>
    BY <2>4
  <2>6. \A s \in D : sec[s].count \in Nat
    BY <1>2
  <2> HIDE DEF b, D, a, n
  <2>7. CountedBytes(b, sec) \in Nat /\ CountedBytes(b, sec) >= sec[b[1]].count
    BY <2>4, <2>5, <2>6, CountedFacts
  <2>8. sec[a].count \in Nat
    BY <2>2, <2>6
  <2>9. QED
    BY <2>3, <2>4, <2>7, <2>8
<1>7. QED
  BY <1>4, <1>5, <1>6

(* What unpack finds under a name.                                         *)
Content(f) == Unpacked(EntryOf(f)[1], EntryOf(f)[2])

ContentFact ==
    FilesIInv => \A e, f :
        InUse(e) /\ E(e).name = f =>
            /\ f \in Names /\ EntryOf(f) = e
            /\ LinksFit => \A c : Separate(c) /\ ClosedPath(e, c)
                                     => Content(f) = Bytes(f, FileLength(c))

LEMMA ContentNow == ContentFact
<1> SUFFICES ASSUME FilesIInv, NEW e, NEW f, InUse(e), E(e).name = f
             PROVE  /\ f \in Names /\ EntryOf(f) = e
                    /\ LinksFit => \A c : Separate(c) /\ ClosedPath(e, c)
                                             => Content(f) = Bytes(f, FileLength(c))
  BY DEF ContentFact
<1>1. e \in UsedEntries("in use") /\ dir[e[1]][e[2]].name = f
  BY DEF InUse, E
<1>2. f \in Names
  BY <1>1 DEF Names
<1>3. ASSUME NEW g \in UsedEntries("in use"), dir[g[1]][g[2]].name = f PROVE g = e
  <2>1. InUse(g) /\ E(g).name = f
    BY <1>3 DEF InUse, E
  <2>2. g \in Places /\ E(g).flag = "in use" /\ e \in Places /\ E(e).flag = "in use"
    BY <2>1, InUseFacts
  <2>3. QED
    BY <2>1, <2>2 DEF FilesIInv, Shape, EntriesNamed
<1>4. EntryOf(f) = e
  <2>1. /\ EntryOf(f) \in UsedEntries("in use")
        /\ dir[EntryOf(f)[1]][EntryOf(f)[2]].name = f
    BY <1>1 DEF EntryOf
  <2>2. QED
    BY <1>3, <2>1
<1>5. ASSUME LinksFit, NEW c, Separate(c), ClosedPath(e, c)
      PROVE  Content(f) = Bytes(f, FileLength(c))
  <2>1. SavedBytes(e[1], e[2]) = Bytes(f, FileLength(c)) /\ (c = <<>> <=> FileLength(c) = 0)
    BY <1>5, SavedFacts
  <2>2. Size(e[1], e[2]) = 0 <=> c = <<>>
    BY <1>5, SizeOfEmpty
  <2>3. Bytes(f, 0) = <<>>
    BY DEF Bytes
  <2>4. Content(f) = Unpacked(e[1], e[2])
    BY <1>4 DEF Content
  <2>5. QED
    BY <2>1, <2>2, <2>3, <2>4 DEF Unpacked
<1>6. QED
  BY <1>2, <1>4, <1>5

LEMMA ContentNext == ContentFact'
BY ContentNow, PTL

(* No step writes to a sector of a closed file.                            *)
LEMMA SectorsStay ==
    ASSUME FilesIInv, [Next]_vars, NEW path, Paths(path), NEW e, InUse(e),
           NEW i \in 1 .. Len(path[e])
    PROVE  sec'[path[e][i]] = sec[path[e][i]]
<1> DEFINE n == disk.sector_count
<1>1. Shape /\ DOMAIN sec = 1 .. n
  BY DEF FilesIInv, Shape, Types, TypeOK
<1>2. e \in FileEntries /\ E(e).flag = "in use"
  BY InUseFacts DEF FileEntries
<1>3. PICK t : t = path[e][i]
  OBVIOUS
<1>4. t \in Taken /\ PathsApart(path)
  BY <1>2, <1>3 DEF Paths, PathsTaken
<1>5. t \in 1 .. n /\ t \notin free
  BY <1>1, <1>4, TypeFacts DEF Shape
<1>6. free # {} => First(free) # t
  BY <1>1, <1>5, TypeFacts, FirstFacts DEF Shape
<1>7. ASSUME file # NoFile, file.first_sec # 0 PROVE t # file.sector
  <2>1. PICK o : o = OpenPlace
    OBVIOUS
  <2>2. Len(path[o]) \in Nat \ {0} /\ path[o][Len(path[o])] = file.sector
    BY <1>1, <1>7, <2>1, LastSector
  <2>3. o \in FileEntries /\ E(o).flag = "opened"
    BY <1>1, <1>7, <2>1, OpenEntry
  <2>4. PICK m : m = Len(path[o])
    OBVIOUS
  <2>5. m \in Nat \ {0} /\ path[o][m] = file.sector
    BY <2>2, <2>4
  <2>6. m \in 1 .. m
    BY <2>5
  <2>7. m \in 1 .. Len(path[o])
    BY <2>4, <2>6
  <2>8. o # e
    BY <1>2, <2>3
  <2>9. path[e][i] # path[o][m]
    BY <1>2, <1>4, <2>3, <2>7, <2>8 DEF PathsApart
  <2>10. QED
    BY <1>3, <2>5, <2>9
<1>8. SUFFICES sec'[t] = sec[t]
  BY <1>3
<1>9. CASE WriteFirst
  BY <1>1, <1>5, <1>6, <1>9 DEF WriteFirst
<1>10. CASE WriteMore
  BY <1>1, <1>5, <1>7, <1>10 DEF WriteMore, MayWrite
<1>11. CASE WriteNext
  BY <1>1, <1>5, <1>6, <1>7, <1>11 DEF WriteNext, MayWrite, SectorLinked
<1>12. CASE Close
  <2>1. file # NoFile /\ sec' = IF file.pos > 0 THEN SectorLinked(0) ELSE sec
    BY <1>12 DEF Close
  <2>2. CASE file.first_sec = 0
    <3>1. file.pos = 0
      <4>1. OpenPath(path[OpenPlace])
        BY <1>1, <2>1, OpenEntry
      <4>2. QED
        BY <2>2, <4>1 DEF OpenPath
    <3>2. ~(file.pos > 0)
      BY <3>1
    <3>3. QED
      BY <2>1, <3>2
  <2>3. CASE file.first_sec # 0
    BY <1>1, <1>5, <1>7, <2>1, <2>3 DEF SectorLinked
  <2>4. QED
    BY <2>2, <2>3
<1>13. CASE sec' = sec
  BY <1>13
<1>14. QED
  BY <1>9, <1>10, <1>11, <1>12, <1>13
     DEF Next, vars, CreateFile, CreateDir, DirFull, AssertionFails, DiskFull, NoRoomForDir,
         LeaveDir, Throw

LEMMA NamesAre ==
    /\ \A f : f \in Names <=> \E e : InUse(e) /\ E(e).name = f
    /\ \A f : f \in Names' <=> \E e : InUse(e)' /\ E(e)'.name = f
<1>1. \A f : f \in Names <=> \E e : InUse(e) /\ E(e).name = f
  BY DEF Names, InUse, E
<1>2. \A f : f \in Names' <=> \E e : InUse(e)' /\ E(e)'.name = f
  BY DEF Names, InUse, E
<1>3. QED
  BY <1>1, <1>2

(* A sector that is taken stays so.                                        *)
LEMMA LinksFitBefore == [Next]_vars => disk' = disk /\ (LinksFit' => LinksFit)
<1> SUFFICES ASSUME [Next]_vars PROVE disk' = disk /\ (LinksFit' => LinksFit)
  OBVIOUS
<1>1. disk' = disk
  BY DEF Next, vars, CreateFile, CreateDir, WriteFirst, WriteMore, WriteNext, Close, LeaveDir,
         DirFull, AssertionFails, DiskFull, NoRoomForDir, Throw
<1>2. free' \subseteq free
  BY DEF Next, vars, CreateFile, CreateDir, WriteFirst, WriteMore, WriteNext, Close, LeaveDir,
         DirFull, AssertionFails, DiskFull, NoRoomForDir, Throw, FreeAfterFormat
<1>3. QED
  BY <1>1, <1>2 DEF LinksFit, TakenBelowLinks

(* A closed file keeps its name and its bytes.                             *)
LEMMA OldContents ==
    ASSUME FilesIInv, FilesIInv', LinksFit, LinksFit', [Next]_vars,
           NEW e, InUse(e), InUse(e)', E(e)' = E(e), NEW f, f = E(e).name
    PROVE  f \in Names /\ f \in Names' /\ Content(f)' = Content(f)
<1>1. PICK path : Paths(path)
  BY DEF FilesIInv
<1>2. e \in FileEntries /\ ClosedPath(e, path[e]) /\ Separate(path[e])
  BY <1>1, ClosedFacts, PathsSeparate DEF InUse
<1>3. PICK c : c = path[e]
  OBVIOUS
<1>4. \A i \in 1 .. Len(c) : sec'[c[i]] = sec[c[i]]
  BY <1>1, <1>3, SectorsStay
<1>5. c \in Seq(1 .. disk.sector_count) /\ ClosedPath(e, c) /\ Separate(c) /\ Types
  BY <1>2, <1>3 DEF Separate, FilesIInv, Shape
<1>6. disk' = disk
  BY LinksFitBefore
<1>7. ClosedPath(e, c)' /\ Rest(c)' = Rest(c)
  BY <1>4, <1>5, <1>6, ClosedPathSame
<1>8. Separate(c)' /\ FileLength(c)' = FileLength(c) /\ E(e)'.name = f
  BY <1>5, <1>6, <1>7 DEF Separate, FileLength
<1>9. f \in Names /\ Content(f) = Bytes(f, FileLength(c))
  BY <1>5, ContentNow DEF ContentFact
<1>10. f \in Names' /\ Content(f)' = Bytes(f, FileLength(c)')
  BY <1>7, <1>8, ContentNext DEF ContentFact
<1>11. QED
  BY <1>8, <1>9, <1>10

(* The files and the open one, as FileStore sees them.                     *)
FilesView == [f \in Names |-> Content(f)]
OpenView ==
    IF file = NoFile THEN NoFile
    ELSE [name |-> file.name, bytes |-> Bytes(file.name, file.size)]

LEMMA FilesSame ==
    ASSUME FilesIInv, FilesIInv', LinksFit, LinksFit', [Next]_vars, ClosedStay
    PROVE  FilesView' = FilesView
<1>1. \A e : InUse(e) => InUse(e)' /\ E(e)' = E(e)
  BY DEF ClosedStay
<1>2. \A e : InUse(e)' => InUse(e) /\ E(e)' = E(e)
  BY DEF ClosedStay
<1>3. \A f : f \in Names => f \in Names' /\ Content(f)' = Content(f)
  BY <1>1, NamesAre, OldContents
<1>4. \A f : f \in Names' => f \in Names
  BY <1>2, NamesAre
<1>5. Names' = Names
  BY <1>3, <1>4
<1>6. QED
  BY <1>3, <1>5 DEF FilesView

(* A step that writes no entry closes no file.                             *)
LEMMA ClosedSame == dir' = dir => ClosedStay
BY DEF ClosedStay, InUse, UsedEntries, E

(* Each step is one of FileStore, or none.                                 *)
StoreCreate ==
    /\ OpenView = NoFile /\ OpenView' # NoFile
    /\ OpenView'.name \notin Names /\ OpenView'.bytes = <<>>
    /\ FilesView' = FilesView
StoreWrite ==
    /\ OpenView # NoFile /\ OpenView' # NoFile
    /\ OpenView'.name = OpenView.name
    /\ Len(OpenView'.bytes) = Len(OpenView.bytes) + 1
    /\ SubSeq(OpenView'.bytes, 1, Len(OpenView.bytes)) = OpenView.bytes
    /\ FilesView' = FilesView
StoreClose ==
    /\ OpenView # NoFile /\ OpenView' = NoFile
    /\ FilesView' = [f \in Names \cup {OpenView.name} |->
                        IF f = OpenView.name THEN OpenView.bytes ELSE FilesView[f]]
StoreSame == FilesView' = FilesView /\ OpenView' = OpenView

LEMMA OpenFacts ==
    ASSUME file # NoFile, file.name \in Nat, file.size \in Nat
    PROVE  /\ OpenView # NoFile
           /\ OpenView.name = file.name /\ OpenView.bytes = Bytes(file.name, file.size)
<1>1. [name |-> file.name, bytes |-> Bytes(file.name, file.size)] # NoFile
  BY BytesWritten, ObjectFacts
<1>2. QED
  BY <1>1 DEF OpenView

LEMMA OpenNext ==
    ASSUME file' # NoFile, file'.name \in Nat, file'.size \in Nat
    PROVE  /\ OpenView' # NoFile
           /\ OpenView'.name = file'.name /\ OpenView'.bytes = Bytes(file'.name, file'.size)
<1>1. [name |-> file'.name, bytes |-> Bytes(file'.name, file'.size)] # NoFile
  BY BytesWritten, ObjectFacts
<1>2. QED
  BY <1>1 DEF OpenView

LEMMA CreateStored ==
    ASSUME FilesIInv, FilesIInv', LinksFit, LinksFit', CreateFile
    PROVE  StoreCreate
<1>1. FilesView' = FilesView
  BY CreateFileKeeps, FilesSame DEF Next
<1>2. file = NoFile /\ created \in Nat
  BY TypeFacts DEF CreateFile, MayCreate, FilesIInv, Shape
<1>3. file'.name = created + 1 /\ file'.size = 0 /\ file' # NoFile
  <2>1. file'.name = created + 1 /\ file'.size = 0
    BY DEF CreateFile
  <2>2. QED
    BY <2>1, CreateFileKeeps
<1>4. OpenView' # NoFile /\ OpenView'.name = created + 1 /\ OpenView'.bytes = <<>>
  <2>1. PICK n : n = created + 1
    OBVIOUS
  <2>2. n \in Nat /\ 0 \in Nat
    BY <1>2, <2>1
  <2>3. Bytes(n, 0) = <<>>
    BY <2>2, BytesWritten
  <2>4. file'.name = n /\ file'.size = 0 /\ file' # NoFile
    BY <1>3, <2>1
  <2>5. OpenView' # NoFile /\ OpenView'.name = n /\ OpenView'.bytes = Bytes(n, 0)
    BY <2>2, <2>4, OpenNext
  <2>6. QED
    BY <2>1, <2>3, <2>5
<1>5. created + 1 \notin Names
  <2>1. ASSUME NEW e, InUse(e) PROVE E(e).name # created + 1
    <3>1. e \in Places /\ E(e).flag # "never used"
      BY <2>1, InUseFacts
    <3>2. E(e).name \in 1 .. created
      BY <3>1 DEF FilesIInv, Shape, EntriesNamed
    <3>3. QED
      BY <1>2, <3>2
  <2>2. QED
    BY <2>1, NamesAre
<1>6. OpenView = NoFile
  BY <1>2 DEF OpenView
<1>7. QED
  BY <1>1, <1>4, <1>5, <1>6 DEF StoreCreate

LEMMA WriteStored ==
    ASSUME FilesIInv, FilesIInv', LinksFit, LinksFit', WriteFirst \/ WriteMore \/ WriteNext
    PROVE  StoreWrite
<1>1. dir' = dir /\ file # NoFile
  BY DEF WriteFirst, WriteMore, WriteNext, MayWrite
<1>2. FilesView' = FilesView
  BY <1>1, ClosedSame, FilesSame DEF Next
<1>3. file \in FileObjects /\ Shape
  BY <1>1 DEF FilesIInv, Shape, Types, TypeOK
<1>4. file.name \in Nat /\ file.size \in Nat
  BY <1>3 DEF FileObjects
<1>5. file'.name = file.name /\ file'.size = file.size + 1
  <2>1. CASE WriteFirst
    <3>1. file.size = 0
      <4>1. PICK path : Paths(path)
        BY DEF FilesIInv
      <4>2. OpenPath(path[OpenPlace])
        BY <1>1, <1>3, <4>1, OpenEntry
      <4>3. file.first_sec = 0
        BY <2>1 DEF WriteFirst
      <4>4. path[OpenPlace] = <<>>
        BY <4>2, <4>3 DEF OpenPath
      <4>5. file.size = HeldBytes(path[OpenPlace], PAYLOAD, file.pos)
        BY <4>2 DEF OpenPath
      <4>6. QED
        BY <4>4, <4>5 DEF HeldBytes
    <3>2. file'.name = file.name /\ file'.size = 1
      BY <1>3, <2>1 DEF WriteFirst, FileObjects
    <3>3. QED
      BY <3>1, <3>2
  <2>2. CASE WriteMore
    BY <1>3, <2>2 DEF WriteMore, FileObjects
  <2>3. CASE WriteNext
    BY <1>3, <2>3 DEF WriteNext, FileObjects
  <2>4. QED
    BY <2>1, <2>2, <2>3
<1>6. file' # NoFile
  <2>1. OpenPlace \in Places /\ E(OpenPlace).flag = "opened"
    BY <1>1, <1>3 DEF Shape, EntriesNamed, OpenPlace
  <2>2. PICK o : o = OpenPlace
    OBVIOUS
  <2>3. o \in Places' /\ E(o)'.flag = "opened"
    BY <1>1, <2>1, <2>2 DEF Places, E
  <2>4. EntriesNamed'
    BY DEF FilesIInv, Shape
  <2>5. QED
    BY <2>3, <2>4 DEF EntriesNamed
<1>7. file'.name \in Nat /\ file'.size \in Nat
  BY <1>4, <1>5
<1>8. /\ OpenView' # NoFile /\ OpenView # NoFile
      /\ OpenView'.name = file.name /\ OpenView.name = file.name
      /\ OpenView'.bytes = Bytes(file.name, file.size + 1)
      /\ OpenView.bytes = Bytes(file.name, file.size)
  BY <1>1, <1>4, <1>5, <1>6, <1>7, OpenFacts, OpenNext
<1>9. /\ Len(Bytes(file.name, file.size + 1)) = file.size + 1
      /\ Len(Bytes(file.name, file.size)) = file.size
      /\ SubSeq(Bytes(file.name, file.size + 1), 1, file.size) = Bytes(file.name, file.size)
  <2>1. PICK f, n : f = file.name /\ n = file.size
    OBVIOUS
  <2>2. f \in Nat /\ n \in Nat /\ n + 1 \in Nat
    BY <1>4, <2>1
  <2>3. Len(Bytes(f, n)) = n /\ SubSeq(Bytes(f, n + 1), 1, n) = Bytes(f, n)
    BY <2>2, BytesWritten
  <2>4. Len(Bytes(f, n + 1)) = n + 1
    BY <2>2, BytesWritten
  <2>5. QED
    BY <2>1, <2>3, <2>4
<1>10. QED
  BY <1>2, <1>8, <1>9 DEF StoreWrite

LEMMA CloseStored ==
    ASSUME FilesIInv, FilesIInv', LinksFit, LinksFit', Close
    PROVE  StoreClose
<1>1. file # NoFile /\ file' = NoFile /\ Shape
  BY DEF Close, FilesIInv
<1>2. file.name \in Nat /\ file.size \in Nat
  <2>1. file \in FileObjects
    BY <1>1 DEF Shape, Types, TypeOK
  <2>2. QED
    BY <2>1 DEF FileObjects
<1>3. PICK path : Paths(path)
  BY DEF FilesIInv
<1>4. PICK o : o = OpenPlace
  OBVIOUS
<1>5. Closes(path, o)
  BY <1>3, <1>4, CloseFacts
<1>6. PICK f : f = file.name
  OBVIOUS
<1>7. PICK c : c = path[o]
  OBVIOUS
<1>8. Separate(c)' /\ o \in FileEntries
  <2>1. o \in FileEntries
    BY <1>1, <1>3, <1>4, OpenEntry
  <2>2. Separate(c) /\ disk' = disk
    BY <1>3, <1>7, <2>1, PathsSeparate DEF Close
  <2>3. QED
    BY <2>1, <2>2 DEF Separate
<1>9. InUse(o)' /\ E(o)'.name = f /\ ClosedPath(o, c)'
  BY <1>5, <1>6, <1>7 DEF Closes
<1>10. FileLength(c)' = file.size
  <2>1. HeldBytes(c, PAYLOAD, Rest(c)') = HeldBytes(c, PAYLOAD, file.pos)
    BY <1>5, <1>7 DEF Closes, HeldBytes
  <2>2. QED
    BY <1>5, <1>7, <2>1 DEF Closes, FileLength
<1>11. f \in Names' /\ Content(f)' = Bytes(f, file.size)
  BY <1>8, <1>9, <1>10, ContentNext DEF ContentFact
<1>12. \A g \in Names : g \in Names' /\ Content(g)' = Content(g)
  <2>1. \A e : InUse(e) => InUse(e)' /\ E(e)' = E(e)
    BY <1>5 DEF Closes
  <2>2. QED
    BY <2>1, NamesAre, OldContents DEF Next
<1>13. \A g \in Names' : g \in Names \/ g = f
  <2>1. \A e : InUse(e)' => (InUse(e) /\ E(e)' = E(e)) \/ (e = o /\ E(e)'.name = f)
    BY <1>5, <1>9 DEF Closes
  <2>2. QED
    BY <2>1, NamesAre
<1>14. f \notin Names
  <2>1. ASSUME NEW e, InUse(e) PROVE E(e).name # f
    <3>1. e \in Places /\ E(e).flag = "in use"
      BY <2>1, InUseFacts
    <3>2. o \in Places /\ E(o).flag = "opened" /\ E(o).name = f
      BY <1>1, <1>3, <1>4, <1>6, OpenEntry
    <3>3. e # o /\ E(e).flag # "never used" /\ E(o).flag # "never used"
      BY <3>1, <3>2
    <3>4. QED
      BY <1>1, <3>1, <3>2, <3>3 DEF Shape, EntriesNamed
  <2>2. QED
    BY <2>1, NamesAre
<1>15. /\ OpenView # NoFile /\ OpenView.name = f /\ OpenView.bytes = Bytes(f, file.size)
       /\ OpenView' = NoFile
  BY <1>1, <1>2, <1>6, OpenFacts DEF OpenView
<1>16. FilesView' = [g \in Names \cup {f} |-> IF g = f THEN Bytes(f, file.size) ELSE FilesView[g]]
  <2>1. Names' = Names \cup {f}
    BY <1>11, <1>12, <1>13
  <2>2. \A g \in Names : FilesView[g] = Content(g)
    BY DEF FilesView
  <2>3. \A g \in Names \cup {f} :
            Content(g)' = IF g = f THEN Bytes(f, file.size) ELSE FilesView[g]
    BY <1>11, <1>12, <1>14, <2>2
  <2>4. FilesView' = [g \in Names' |-> Content(g)']
    BY DEF FilesView
  <2>5. QED
    BY <2>1, <2>3, <2>4
<1>17. QED
  BY <1>15, <1>16 DEF StoreClose

LEMMA StoreStep ==
    ASSUME FilesIInv, FilesIInv', [Next]_vars, LinksFit'
    PROVE  StoreCreate \/ StoreWrite \/ StoreClose \/ StoreSame
<1>1. LinksFit
  BY LinksFitBefore
<1>2. CASE CreateFile
  BY <1>1, <1>2, CreateStored
<1>3. CASE WriteFirst \/ WriteMore \/ WriteNext
  BY <1>1, <1>3, WriteStored
<1>4. CASE Close
  BY <1>1, <1>4, CloseStored
<1>5. CASE CreateDir
  <2>1. FilesView' = FilesView
    BY <1>1, <1>5, CreateDirKeeps, FilesSame
  <2>2. file' = file
    BY <1>5 DEF CreateDir
  <2>3. QED
    BY <2>1, <2>2 DEF StoreSame, OpenView
<1>6. CASE dir' = dir /\ file' = file
  <2>1. FilesView' = FilesView
    BY <1>1, <1>6, ClosedSame, FilesSame
  <2>2. QED
    BY <1>6, <2>1 DEF StoreSame, OpenView
<1>7. QED
  BY <1>2, <1>3, <1>4, <1>5, <1>6
     DEF Next, vars, DirFull, AssertionFails, DiskFull, NoRoomForDir, LeaveDir, Throw

(***************************************************************************)
(* The directories, the chains of sectors and the counts of their bytes    *)
(* are a file store: what is unpacked under the name of a closed file is   *)
(* what was written to it, and stays so, whatever is packed after it, as   *)
(* long as links fit.                                                      *)
(***************************************************************************)
THEOREM Dos2RefinesFileStore == Spec => RefinesFileStore
<1>1. Init => Store!FileStoreInit
  <2> SUFFICES ASSUME Init PROVE Store!FileStoreInit
    OBVIOUS
  <2>1. file = NoFile /\ dir = [d \in {ROOT} |-> EmptyDir]
    BY DEF Init
  <2>2. \A e : ~InUse(e)
    <3>1. \A e \in Places : E(e).flag = "never used"
      BY <2>1 DEF Places, E, EmptyDir, FreeEntry
    <3>2. QED
      BY <3>1, InUseFacts
  <2>3. Names = {}
    BY <2>2, NamesAre
  <2>4. QED
    BY <2>1, <2>3 DEF Store!FileStoreInit
<1>2. FilesIInv /\ FilesIInv' /\ [Next]_vars
        => [LinksFit' => Store!FileStoreNext]_(Store!storeVars)
  <2> SUFFICES ASSUME FilesIInv, FilesIInv', [Next]_vars, LinksFit'
               PROVE  Store!FileStoreNext \/ UNCHANGED Store!storeVars
    OBVIOUS
  <2>1. StoreCreate => Store!FileCreate
    BY DEF StoreCreate, Store!FileCreate, FilesView, OpenView, Content
  <2>2. StoreWrite => Store!FileWrite
    BY DEF StoreWrite, Store!FileWrite, FilesView, OpenView, Content
  <2>3. StoreClose => Store!FileClose
    BY DEF StoreClose, Store!FileClose, FilesView, OpenView, Content
  <2>4. StoreSame => UNCHANGED Store!storeVars
    BY DEF StoreSame, Store!storeVars, FilesView, OpenView, Content
  <2>5. QED
    BY <2>1, <2>2, <2>3, <2>4, StoreStep DEF Store!FileStoreNext
<1>3. FilesIInv /\ [Next]_vars => FilesIInv'
  BY FilesStep
<1>4. QED
  BY <1>1, <1>2, <1>3, InitHolds, PTL DEF Spec, RefinesFileStore

-----------------------------------------------------------------------------
(* What format_atari_name has read of a text.                              *)
IsReadingOf(r, text) ==
    /\ r \in [0 .. Len(text) -> Reading] /\ r[0] = Begin
    /\ \A p \in 1 .. Len(text) : r[p] = AfterChar(text[p])[r[p - 1]]
Reads(text, s) ==
    text \in Seq(STRING) /\ \E r : IsReadingOf(r, text) /\ r[Len(text)] = s

(* The characters of texts are strings.                                    *)
LEMMA Letters ==
    /\ \A c \in Chars : c \in STRING
    /\ " " \in STRING /\ "\\" \in STRING /\ "." \in STRING /\ "ctl" \in STRING
    /\ "i" \in STRING /\ "x" \in STRING
BY NamesAssumption, Zenon

(* Lengths as numbers, without the characters.                             *)
LEMMA NameLengths == NAME \in Nat /\ NAME > 0 /\ EXT \in Nat /\ EXT > 0 /\ NAME + EXT \in Nat
<1>1. NAME \in Nat \ {0} /\ EXT \in Nat \ {0}
  BY NamesAssumption, Zenon
<1>2. QED
  BY <1>1

(* The parser starts with a name of spaces.                                *)
LEMMA BeginReads == Begin \in Reading /\ SPACE \in [ch : STRING, inv : BOOLEAN]
<1> DEFINE c == " "
<1>1. c \in STRING /\ SPACE = [ch |-> c, inv |-> FALSE]
  BY Letters DEF SPACE
<1> HIDE DEF c
<1>2. SPACE \in [ch : STRING, inv : BOOLEAN]
  BY <1>1
<1>3. Blank \in [1 .. NAME + EXT -> [ch : STRING, inv : BOOLEAN]]
  BY <1>2 DEF Blank
<1>4. QED
  BY <1>2, <1>3 DEF Begin, Reading

(* A character leaves it in one of its states.                             *)
LEMMA PutReads ==
    ASSUME NEW s \in Reading, NEW ch \in STRING
    PROVE  Put(s, ch) \in Reading
<1>1. CASE s.i > NAME + EXT
  BY <1>1 DEF Put, Reading
<1>2. CASE ~(s.i > NAME + EXT)
  <2> DEFINE byte == [ch |-> ch, inv |-> s.inverse]
             put == IF s.i = NAME + EXT THEN s.name ELSE [s.name EXCEPT ![s.i + 1] = byte]
  <2>1. byte \in [ch : STRING, inv : BOOLEAN]
    BY DEF Reading
  <2> HIDE DEF byte
  <2>2. put \in [1 .. NAME + EXT -> [ch : STRING, inv : BOOLEAN]]
    BY <2>1 DEF Reading
  <2>3. Put(s, ch) = [s EXCEPT !.i = s.i + 1, !.state = "plain", !.name = put]
    BY <1>2 DEF Put, byte
  <2> HIDE DEF put
  <2>4. s.i + 1 \in Nat
    BY DEF Reading
  <2>5. QED
    BY <2>2, <2>3, <2>4 DEF Reading
<1>3. QED
  BY <1>1, <1>2

LEMMA CharReads ==
    ASSUME NEW s \in Reading, NEW c \in STRING
    PROVE  AfterChar(c)[s] \in Reading
<1>1. Put(s, c) \in Reading
  BY PutReads
<1>2. AfterPlain(s, c) \in Reading
  BY <1>1, NameLengths DEF AfterPlain, Reading
<1>3. AfterEscape(s, c) \in Reading
  BY <1>1 DEF AfterEscape, Reading
<1>4. QED
  BY <1>1, <1>2, <1>3 DEF AfterChar

(* A text is read from its start, one character after the other.           *)
LEMMA ReadNothing == Reads(<<>>, Begin)
<1> DEFINE r == [p \in 0 .. 0 |-> Begin]
<1>1. IsReadingOf(r, <<>>) /\ r[Len(<<>>)] = Begin
  BY BeginReads DEF IsReadingOf
<1>2. QED
  BY <1>1 DEF Reads

LEMMA ReadMore ==
    ASSUME NEW text, NEW s, Reads(text, s), NEW c \in STRING
    PROVE  s \in Reading /\ Reads(Append(text, c), AfterChar(c)[s])
<1>1. PICK r : IsReadingOf(r, text) /\ r[Len(text)] = s
  BY DEF Reads
<1>2. text \in Seq(STRING) /\ Len(text) \in Nat
  BY DEF Reads
<1> DEFINE n == Len(text)
           longer == Append(text, c)
           after == AfterChar(c)[s]
           q == [p \in 0 .. n + 1 |-> IF p = n + 1 THEN after ELSE r[p]]
<1>3. s \in Reading /\ after \in Reading
  <2>1. s \in Reading
    BY <1>1, <1>2 DEF IsReadingOf
  <2>2. QED
    BY <2>1, CharReads
<1>4. longer \in Seq(STRING) /\ Len(longer) = n + 1 /\ longer[n + 1] = c
      /\ \A p \in 1 .. n : longer[p] = text[p]
  BY <1>2
<1>5. n \in Nat
  BY <1>2
<1>6. r \in [0 .. n -> Reading] /\ r[0] = Begin /\ r[n] = s
      /\ \A p \in 1 .. n : r[p] = AfterChar(text[p])[r[p - 1]]
  BY <1>1 DEF IsReadingOf
<1> HIDE DEF n, longer, after
<1>7. q \in [0 .. n + 1 -> Reading] /\ q[0] = Begin /\ q[n + 1] = after
  BY <1>3, <1>5, <1>6
<1>8. ASSUME NEW p \in 1 .. n + 1
      PROVE  q[p] = AfterChar(longer[p])[q[p - 1]]
  <2>1. CASE p = n + 1
    <3>1. q[p] = after /\ q[p - 1] = s /\ longer[p] = c
      BY <1>4, <1>5, <1>6, <2>1
    <3>2. QED
      BY <3>1 DEF after
  <2>2. CASE p # n + 1
    <3>1. p \in 1 .. n /\ q[p] = r[p] /\ q[p - 1] = r[p - 1]
      BY <1>5, <2>2
    <3>2. QED
      BY <1>4, <1>6, <3>1
  <2>3. QED
    BY <2>1, <2>2
<1> HIDE DEF q
<1>9. IsReadingOf(q, longer) /\ q[Len(longer)] = after
  BY <1>4, <1>7, <1>8 DEF IsReadingOf
<1>10. QED
  BY <1>3, <1>4, <1>9 DEF Reads, longer, after

(* Parse goes on from there.                                               *)
LEMMA ReadParsed ==
    ASSUME NEW text, NEW s, Reads(text, s)
    PROVE  Parse(text) = Given[AtEnd[s]]
<1>1. PICK r : IsReadingOf(r, text) /\ r[Len(text)] = s
  BY DEF Reads
<1> DEFINE n == Len(text)
           read[p \in 0 .. Len(text)] ==
               IF p = 0 THEN Begin ELSE AfterChar(text[p])[read[p - 1]]
           S == {p \in Nat : p <= n => read[p] = r[p]}
<1>2. n \in Nat
  BY DEF Reads
<1>3. r = [p \in 0 .. Len(text) |-> IF p = 0 THEN Begin ELSE AfterChar(text[p])[r[p - 1]]]
  <2>1. \A p \in 0 .. Len(text) :
            r[p] = IF p = 0 THEN Begin ELSE AfterChar(text[p])[r[p - 1]]
    BY <1>1, <1>2 DEF IsReadingOf
  <2>2. r = [p \in 0 .. Len(text) |-> r[p]]
    BY <1>1 DEF IsReadingOf
  <2>3. QED
    BY <2>1, <2>2
<1>4. read = [p \in 0 .. Len(text) |-> IF p = 0 THEN Begin ELSE AfterChar(text[p])[read[p - 1]]]
  BY <1>3
<1>5. Parse(text) = Given[AtEnd[read[n]]]
  BY DEF Parse
<1> HIDE DEF read
<1>6. 0 \in S
  BY <1>1, <1>2, <1>4 DEF IsReadingOf
<1>7. ASSUME NEW p \in Nat, p \in S PROVE p + 1 \in S
  <2>1. SUFFICES ASSUME p + 1 <= n PROVE read[p + 1] = r[p + 1]
    OBVIOUS
  <2>2. p + 1 \in 0 .. Len(text) /\ p + 1 # 0 /\ (p + 1) - 1 = p /\ read[p] = r[p]
    BY <1>2, <1>7, <2>1
  <2>3. read[p + 1] = AfterChar(text[p + 1])[read[p]]
    BY <1>4, <2>2
  <2>4. r[p + 1] = AfterChar(text[p + 1])[r[p]]
    BY <1>3, <2>2
  <2>5. QED
    BY <2>2, <2>3, <2>4
<1>8. Nat \subseteq S
  <2> HIDE DEF S
  <2>1. QED
    BY <1>6, <1>7, NatSetInduction
<1>9. read[n] = s
  BY <1>1, <1>2, <1>8
<1>10. QED
  BY <1>5, <1>9

(* Bytes of any characters, and names of them.                             *)
AnyByte == [ch : STRING, inv : BOOLEAN]
RawNames == [1 .. NAME + EXT -> AnyByte]

(* What name() has printed of the first k bytes.                           *)
IsPrintingOf(g, name, k) ==
    /\ g \in [0 .. k -> Printed] /\ g[0] = NoText
    /\ \A j \in 1 .. k : g[j] = AfterByte(j, name[j])[g[j - 1]]
Prints(name, k, st) == \E g : IsPrintingOf(g, name, k) /\ g[k] = st

(* Texts of up to three characters, and what they make longer.             *)
LEMMA ShortSeqs ==
    ASSUME NEW A, NEW a \in A, NEW b \in A, NEW c \in A
    PROVE  /\ <<>> \in Seq(A) /\ <<a>> \in Seq(A) /\ <<a, b>> \in Seq(A) /\ <<a, b, c>> \in Seq(A)
           /\ Append(<<>>, a) = <<a>>
           /\ \A t \in Seq(A) :
                /\ Append(t, a) \in Seq(A) /\ t \o <<a>> = Append(t, a)
                /\ t \o <<a, b>> = Append(Append(t, a), b)
                /\ t \o <<a, b, c>> = Append(Append(Append(t, a), b), c)
<1>1. <<>> \in Seq(A) /\ <<a>> \in Seq(A) /\ <<a, b>> \in Seq(A) /\ <<a, b, c>> \in Seq(A)
  OBVIOUS
<1>2. Append(<<>>, a) = <<a>>
  OBVIOUS
<1>3. ASSUME NEW t \in Seq(A)
      PROVE  Append(t, a) \in Seq(A) /\ t \o <<a>> = Append(t, a)
  OBVIOUS
<1>4. ASSUME NEW t \in Seq(A)
      PROVE  t \o <<a, b>> = Append(Append(t, a), b)
  OBVIOUS
<1>5. ASSUME NEW t \in Seq(A)
      PROVE  t \o <<a, b, c>> = Append(Append(Append(t, a), b), c)
  OBVIOUS
<1>6. QED
  BY <1>1, <1>3, <1>4, <1>5, <1>2

(* What is printed is a text.                                              *)
LEMMA ShownText ==
    ASSUME NEW ch \in STRING
    PROVE  Shown(ch) \in Seq(STRING)
<1> DEFINE b == "\\"
           x == "x"
<1>1. b \in STRING /\ x \in STRING
  BY Letters
<1> HIDE DEF b, x
<1>2. <<b, x, ch>> \in Seq(STRING) /\ <<b, ch>> \in Seq(STRING) /\ <<ch>> \in Seq(STRING)
  BY <1>1, ShortSeqs
<1>3. Shown(ch) = CASE ch = "ctl" -> <<b, x, ch>>
                    [] ch \in {" ", "\\"} -> <<b, ch>>
                    [] OTHER -> <<ch>>
  BY DEF Shown, b, x
<1>4. CASE ch = "ctl"
  BY <1>2, <1>3, <1>4
<1>5. CASE ch # "ctl" /\ ch \in {" ", "\\"}
  BY <1>2, <1>3, <1>5
<1>6. CASE ch # "ctl" /\ ch \notin {" ", "\\"}
  BY <1>2, <1>3, <1>6
<1>7. QED
  BY <1>4, <1>5, <1>6

Turn(byte, before) == IF byte.inv # before.inverse THEN <<"\\", "i">> ELSE <<>>

LEMMA TurnText ==
    ASSUME NEW byte, NEW before
    PROVE  Turn(byte, before) \in Seq(STRING)
<1> DEFINE b == "\\"
           x == "i"
<1>1. b \in STRING /\ x \in STRING
  BY Letters
<1> HIDE DEF b, x
<1>2. <<b, x>> \in Seq(STRING) /\ <<>> \in Seq(STRING)
  BY <1>1, ShortSeqs
<1>3. QED
  BY <1>2 DEF Turn, b, x

LEMMA DottedText ==
    ASSUME NEW before \in Printed, NEW k
    PROVE  Dotted(k, before) \in Seq(STRING)
<1> DEFINE d == "."
<1>1. d \in STRING
  BY Letters
<1>2. Dotted(k, before) = IF k = NAME + 1 /\ ~before.inverse THEN Append(before.kept, d)
                          ELSE before.text
  BY DEF Dotted
<1> HIDE DEF d
<1>3. before.text \in Seq(STRING) /\ before.kept \in Seq(STRING)
  BY DEF Printed
<1>4. Append(before.kept, d) \in Seq(STRING)
  BY <1>1, <1>3, ShortSeqs
<1>5. QED
  BY <1>2, <1>3, <1>4

(* What is printed of one byte, without the words of the definition.       *)
LEMMA ByteText ==
    ASSUME NEW before \in Printed, NEW k, NEW byte \in AnyByte
    PROVE  LET text == Dotted(k, before) \o Turn(byte, before) \o Shown(byte.ch)
           IN  /\ text \in Seq(STRING)
               /\ AfterByte(k, byte)[before] =
                     [text |-> text, inverse |-> byte.inv,
                      kept |-> IF byte # SPACE THEN text ELSE before.kept]
               /\ AfterByte(k, byte)[before] \in Printed
<1> DEFINE text == Dotted(k, before) \o Turn(byte, before) \o Shown(byte.ch)
<1>1. Shown(byte.ch) \in Seq(STRING)
  BY ShownText DEF AnyByte
<1>2. text \in Seq(STRING)
  BY <1>1, TurnText, DottedText
<1>3. AfterByte(k, byte)[before] =
          [text |-> text, inverse |-> byte.inv,
           kept |-> IF byte # SPACE THEN text ELSE before.kept]
  BY DEF AfterByte, Turn
<1> HIDE DEF text
<1>4. AfterByte(k, byte)[before] \in Printed
  BY <1>2, <1>3 DEF Printed, AnyByte
<1>5. QED
  BY <1>2, <1>3, <1>4 DEF text

(* A name is printed from its start, one byte after the other.             *)
LEMMA PrintNothing == \A name : Prints(name, 0, NoText)
<1> TAKE name
<1> DEFINE g == [p \in 0 .. 0 |-> NoText]
<1>1. IsPrintingOf(g, name, 0) /\ g[0] = NoText
  BY DEF IsPrintingOf, NoText, Printed
<1>2. QED
  BY <1>1 DEF Prints

LEMMA PrintMore ==
    ASSUME NEW name, NEW k \in Nat, NEW st, Prints(name, k, st), name[k + 1] \in AnyByte
    PROVE  st \in Printed /\ Prints(name, k + 1, AfterByte(k + 1, name[k + 1])[st])
<1>1. PICK g : IsPrintingOf(g, name, k) /\ g[k] = st
  BY DEF Prints
<1> DEFINE after == AfterByte(k + 1, name[k + 1])[st]
           q == [p \in 0 .. k + 1 |-> IF p = k + 1 THEN after ELSE g[p]]
<1>2. st \in Printed
  BY <1>1 DEF IsPrintingOf
<1>3. after \in Printed
  BY <1>2, ByteText
<1>4. g \in [0 .. k -> Printed] /\ g[0] = NoText /\ g[k] = st
      /\ \A p \in 1 .. k : g[p] = AfterByte(p, name[p])[g[p - 1]]
  BY <1>1 DEF IsPrintingOf
<1> HIDE DEF after
<1>5. q \in [0 .. k + 1 -> Printed] /\ q[0] = NoText /\ q[k + 1] = after
  BY <1>3, <1>4
<1>6. ASSUME NEW p \in 1 .. k + 1
      PROVE  q[p] = AfterByte(p, name[p])[q[p - 1]]
  <2>1. CASE p = k + 1
    <3>1. q[p] = after /\ q[p - 1] = st
      BY <1>4, <2>1
    <3>2. QED
      BY <2>1, <3>1 DEF after
  <2>2. CASE p # k + 1
    <3>1. p \in 1 .. k /\ q[p] = g[p] /\ q[p - 1] = g[p - 1]
      BY <2>2
    <3>2. QED
      BY <1>4, <3>1
  <2>3. QED
    BY <2>1, <2>2
<1> HIDE DEF q
<1>7. IsPrintingOf(q, name, k + 1) /\ q[k + 1] = after
  BY <1>5, <1>6 DEF IsPrintingOf
<1>8. QED
  BY <1>2, <1>7 DEF Prints, after

(* NameText is what is kept at its end.                                    *)
LEMMA PrintText ==
    ASSUME NEW name, NEW st, Prints(name, NAME + EXT, st)
    PROVE  NameText(name) = st.kept
<1>1. PICK g : IsPrintingOf(g, name, NAME + EXT) /\ g[NAME + EXT] = st
  BY DEF Prints
<1> DEFINE n == NAME + EXT
           printed[k \in 0 .. NAME + EXT] ==
               IF k = 0 THEN NoText ELSE AfterByte(k, name[k])[printed[k - 1]]
           S == {k \in Nat : k <= n => printed[k] = g[k]}
<1>2. n \in Nat
  BY NameLengths
<1>3. g = [k \in 0 .. NAME + EXT |-> IF k = 0 THEN NoText ELSE AfterByte(k, name[k])[g[k - 1]]]
  <2>1. \A k \in 0 .. NAME + EXT :
            g[k] = IF k = 0 THEN NoText ELSE AfterByte(k, name[k])[g[k - 1]]
    BY <1>1, <1>2 DEF IsPrintingOf
  <2>2. g = [k \in 0 .. NAME + EXT |-> g[k]]
    BY <1>1 DEF IsPrintingOf
  <2>3. QED
    BY <2>1, <2>2
<1>4. printed = [k \in 0 .. NAME + EXT |->
                    IF k = 0 THEN NoText ELSE AfterByte(k, name[k])[printed[k - 1]]]
  BY <1>3
<1>5. NameText(name) = printed[n].kept
  BY DEF NameText
<1> HIDE DEF printed
<1>6. 0 \in S
  BY <1>1, <1>2, <1>4 DEF IsPrintingOf
<1>7. ASSUME NEW k \in Nat, k \in S PROVE k + 1 \in S
  <2>1. SUFFICES ASSUME k + 1 <= n PROVE printed[k + 1] = g[k + 1]
    OBVIOUS
  <2>2. k + 1 \in 0 .. NAME + EXT /\ k + 1 # 0 /\ (k + 1) - 1 = k /\ printed[k] = g[k]
    BY <1>2, <1>7, <2>1
  <2>3. printed[k + 1] = AfterByte(k + 1, name[k + 1])[printed[k]]
    BY <1>4, <2>2
  <2>4. g[k + 1] = AfterByte(k + 1, name[k + 1])[g[k]]
    BY <1>3, <2>2
  <2>5. QED
    BY <2>2, <2>3, <2>4
<1>8. Nat \subseteq S
  <2> HIDE DEF S
  <2>1. QED
    BY <1>6, <1>7, NatSetInduction
<1>9. printed[n] = st
  BY <1>1, <1>2, <1>8
<1>10. QED
  BY <1>5, <1>9

-----------------------------------------------------------------------------
(* The name as far as k, the reader at byte i of it.                       *)
UpTo(name, k) == [j \in 1 .. NAME + EXT |-> IF j <= k THEN name[j] ELSE SPACE]
ReadAs(name, i, inverse, k, state) ==
    [i |-> i, inverse |-> inverse, name |-> UpTo(name, k), state |-> state]

(* This is a state of the parser.                                          *)
LEMMA ReadAsReads ==
    ASSUME NEW name \in RawNames, NEW i \in Nat, NEW inverse \in BOOLEAN, NEW k \in Nat,
           NEW state \in {"plain", "escape", "hex", "end", "throws"}
    PROVE  ReadAs(name, i, inverse, k, state) \in Reading
<1>1. UpTo(name, k) \in RawNames
  BY BeginReads DEF UpTo, RawNames, AnyByte
<1>2. QED
  BY <1>1 DEF ReadAs, Reading, RawNames, AnyByte

(* A byte of the name goes to its place.                                   *)
LEMMA ReadPut ==
    ASSUME NEW name \in RawNames, NEW k \in 0 .. NAME + EXT - 1, NEW state
    PROVE  Put(ReadAs(name, k, name[k + 1].inv, k, state), name[k + 1].ch)
             = ReadAs(name, k + 1, name[k + 1].inv, k + 1, "plain")
<1> DEFINE n == NAME + EXT
           inv == name[k + 1].inv
           byte == [ch |-> name[k + 1].ch, inv |-> inv]
           s == ReadAs(name, k, inv, k, state)
<1>1. n \in Nat /\ k \in Nat /\ k < n /\ k + 1 \in 1 .. n
  BY NameLengths
<1>2. name[k + 1] \in AnyByte /\ byte = name[k + 1]
  BY <1>1 DEF RawNames, AnyByte
<1>3. UpTo(name, k + 1) = [UpTo(name, k) EXCEPT ![k + 1] = byte]
  <2> DEFINE c == name[k + 1]
  <2>1. \A j \in 1 .. n : j <= k + 1 <=> (j <= k \/ j = k + 1)
    BY <1>1
  <2>2. UpTo(name, k + 1) = [j \in 1 .. n |-> IF j = k + 1 THEN c ELSE UpTo(name, k)[j]]
    BY <2>1 DEF UpTo
  <2>3. [UpTo(name, k) EXCEPT ![k + 1] = c]
           = [j \in 1 .. n |-> IF j = k + 1 THEN c ELSE UpTo(name, k)[j]]
    BY DEF UpTo
  <2>4. QED
    BY <1>2, <2>2, <2>3
<1>4. s.i = k /\ s.inverse = inv /\ s.name = UpTo(name, k)
  BY DEF ReadAs
<1> DEFINE m == k + 1
           u == UpTo(name, k)
           put == [u EXCEPT ![m] = byte]
<1>5. s = [i |-> k, inverse |-> inv, name |-> u, state |-> state]
  BY DEF ReadAs
<1> HIDE DEF s, put, byte, m, inv, u
<1>6. [s EXCEPT !.i = m, !.state = "plain", !.name = put]
        = [i |-> m, inverse |-> inv, name |-> put, state |-> "plain"]
  <2> DEFINE s1 == [s EXCEPT !.i = m]
             s2 == [s1 EXCEPT !.state = "plain"]
             s3 == [s2 EXCEPT !.name = put]
  <2>1. [s EXCEPT !.i = m, !.state = "plain", !.name = put] = s3
    OBVIOUS
  <2>2. s1 = [i |-> m, inverse |-> inv, name |-> u, state |-> state]
    BY <1>5
  <2> HIDE DEF s1
  <2>3. s2 = [i |-> m, inverse |-> inv, name |-> u, state |-> "plain"]
    BY <2>2
  <2> HIDE DEF s2
  <2>4. s3 = [i |-> m, inverse |-> inv, name |-> put, state |-> "plain"]
    BY <2>3
  <2> HIDE DEF s3
  <2>5. QED
    BY <2>1, <2>4
<1>7. ~(s.i > NAME + EXT) /\ s.i # NAME + EXT
  BY <1>1, <1>4
<1>8. Put(s, name[k + 1].ch) = [s EXCEPT !.i = m, !.state = "plain", !.name = put]
  BY <1>4, <1>7 DEF Put, m, put, byte, u
<1>9. put = UpTo(name, m)
  BY <1>3 DEF m, put, u
<1>10. QED
  BY <1>8, <1>6, <1>9 DEF ReadAs, s, inv, m

(* What the parser does with one character.                                *)
LEMMA ReadChars ==
    ASSUME NEW name \in RawNames, NEW i \in Nat, NEW inverse \in BOOLEAN, NEW k \in Nat
    PROVE  /\ AfterChar("\\")[ReadAs(name, i, inverse, k, "plain")]
                = ReadAs(name, i, inverse, k, "escape")
           /\ AfterChar("i")[ReadAs(name, i, inverse, k, "escape")]
                = ReadAs(name, i, ~inverse, k, "plain")
           /\ AfterChar("x")[ReadAs(name, i, inverse, k, "escape")]
                = ReadAs(name, i, inverse, k, "hex")
           /\ \A c : c \notin {" ", "\\"} /\ (c = "." => i > NAME) =>
                AfterChar(c)[ReadAs(name, i, inverse, k, "plain")]
                  = Put(ReadAs(name, i, inverse, k, "plain"), c)
           /\ \A c : c \notin {"i", "x"} =>
                AfterChar(c)[ReadAs(name, i, inverse, k, "escape")]
                  = Put(ReadAs(name, i, inverse, k, "escape"), c)
           /\ \A c : AfterChar(c)[ReadAs(name, i, inverse, k, "hex")]
                  = Put(ReadAs(name, i, inverse, k, "hex"), c)
<1> DEFINE s(state) == ReadAs(name, i, inverse, k, state)
<1>1. s("plain") \in Reading /\ s("escape") \in Reading /\ s("hex") \in Reading
  BY ReadAsReads
<1>2. \A state : s(state).state = state /\ s(state).i = i /\ s(state).inverse = inverse
  BY DEF ReadAs
<1>3. \A state, a : [s(state) EXCEPT !.state = a] = s(a)
  BY DEF ReadAs
<1>4. [s("escape") EXCEPT !.inverse = ~@, !.state = "plain"]
         = ReadAs(name, i, ~inverse, k, "plain")
  <2> DEFINE e == s("escape")
             turned == ~inverse
             u == UpTo(name, k)
  <2>1. e = [i |-> i, inverse |-> inverse, name |-> u, state |-> "escape"]
    BY DEF ReadAs
  <2>2. [e EXCEPT !.inverse = ~@, !.state = "plain"]
          = [e EXCEPT !.inverse = ~e.inverse, !.state = "plain"]
    OBVIOUS
  <2>3. (~e.inverse) = turned
    BY <1>2
  <2> HIDE DEF e, turned, u
  <2>4. [e EXCEPT !.inverse = turned, !.state = "plain"]
          = [i |-> i, inverse |-> turned, name |-> u, state |-> "plain"]
    <3> DEFINE s1 == [e EXCEPT !.inverse = turned]
               s2 == [s1 EXCEPT !.state = "plain"]
    <3>1. [e EXCEPT !.inverse = turned, !.state = "plain"] = s2
      OBVIOUS
    <3>2. s1 = [i |-> i, inverse |-> turned, name |-> u, state |-> "escape"]
      BY <2>1
    <3> HIDE DEF s1
    <3>3. s2 = [i |-> i, inverse |-> turned, name |-> u, state |-> "plain"]
      BY <3>2
    <3> HIDE DEF s2
    <3>4. QED
      BY <3>1, <3>3
  <2>5. QED
    BY <2>2, <2>3, <2>4 DEF ReadAs, e, turned, u
<1> HIDE DEF s
<1>6. \A c : AfterChar(c)[s("plain")] = AfterPlain(s("plain"), c)
  BY <1>1, <1>2 DEF AfterChar
<1>7. \A c : AfterChar(c)[s("escape")] = AfterEscape(s("escape"), c)
  BY <1>1, <1>2 DEF AfterChar
<1>8. \A c : AfterChar(c)[s("hex")] = Put(s("hex"), c)
  BY <1>1, <1>2 DEF AfterChar
<1>9. AfterPlain(s("plain"), "\\") = s("escape")
  BY <1>3 DEF AfterPlain
<1>10. AfterEscape(s("escape"), "i") = ReadAs(name, i, ~inverse, k, "plain")
  BY <1>4 DEF AfterEscape
<1>11. AfterEscape(s("escape"), "x") = s("hex")
  BY <1>3 DEF AfterEscape
<1>13. \A c : c \notin {" ", "\\"} /\ (c = "." => i > NAME) =>
                AfterPlain(s("plain"), c) = Put(s("plain"), c)
  <2>1. SUFFICES ASSUME NEW c, c # " ", c # "\\", c = "." => i > NAME
                 PROVE  AfterPlain(s("plain"), c) = Put(s("plain"), c)
    OBVIOUS
  <2>2. i > NAME => ~(i <= NAME)
    BY NameLengths
  <2>3. ~(c = "." /\ s("plain").i <= NAME)
    BY <1>2, <2>1, <2>2
  <2>4. QED
    BY <2>1, <2>3 DEF AfterPlain
<1>14. \A c : c \notin {"i", "x"} => AfterEscape(s("escape"), c) = Put(s("escape"), c)
  BY DEF AfterEscape
<1>15. QED
  BY <1>6, <1>7, <1>8, <1>9, <1>10, <1>11, <1>13, <1>14 DEF s

(* The dot of a name goes on with the extension.                           *)
LEMMA ReadDot ==
    ASSUME NEW name \in RawNames, NEW i \in Nat, NEW inverse \in BOOLEAN, NEW k \in Nat,
           i <= NAME
    PROVE  AfterChar(".")[ReadAs(name, i, inverse, k, "plain")]
             = ReadAs(name, NAME, inverse, k, "plain")
<1> DEFINE s == ReadAs(name, i, inverse, k, "plain")
<1>1. s \in Reading
  BY ReadAsReads
<1>2. s.state = "plain" /\ s.i = i
  BY DEF ReadAs
<1>3. [s EXCEPT !.i = NAME] = ReadAs(name, NAME, inverse, k, "plain")
  BY DEF ReadAs
<1> HIDE DEF s
<1>4. AfterChar(".")[s] = AfterPlain(s, ".")
  BY <1>1, <1>2 DEF AfterChar
<1>5. AfterPlain(s, ".") = [s EXCEPT !.i = NAME]
  BY <1>2 DEF AfterPlain
<1>6. QED
  BY <1>3, <1>4, <1>5 DEF s

(* What is printed of one byte.                                            *)
LEMMA TurnRead ==
    ASSUME NEW name \in RawNames, NEW i \in Nat, NEW k \in Nat, NEW byte \in AnyByte,
           NEW before \in Printed, NEW text,
           Reads(text, ReadAs(name, i, before.inverse, k, "plain"))
    PROVE  Reads(text \o Turn(byte, before), ReadAs(name, i, byte.inv, k, "plain"))
<1>1. text \in Seq(STRING)
  BY DEF Reads
<1>2. before.inverse \in BOOLEAN /\ byte.inv \in BOOLEAN
  BY DEF Printed, AnyByte
<1>3. CASE byte.inv = before.inverse
  <2>1. Turn(byte, before) = <<>>
    BY <1>3 DEF Turn
  <2>2. text \o <<>> = text
    BY <1>1
  <2>3. QED
    BY <1>3, <2>1, <2>2
<1>4. CASE byte.inv # before.inverse
  <2> DEFINE b == "\\"
             x == "i"
             s == ReadAs(name, i, before.inverse, k, "plain")
             e == ReadAs(name, i, before.inverse, k, "escape")
             t == ReadAs(name, i, byte.inv, k, "plain")
  <2>1. b \in STRING /\ x \in STRING
    BY Letters
  <2>2. Turn(byte, before) = <<b, x>>
    BY <1>4 DEF Turn
  <2>3. AfterChar(b)[s] = e
    BY <1>2, ReadChars
  <2>4. (~before.inverse) = byte.inv
    BY <1>2, <1>4
  <2>5. AfterChar(x)[e] = ReadAs(name, i, ~before.inverse, k, "plain")
    BY <1>2, ReadChars
  <2>6. AfterChar(x)[e] = t
    BY <2>4, <2>5
  <2> HIDE DEF b, x, e, t, s
  <2>7. Reads(Append(text, b), e)
    BY <2>1, <2>3, ReadMore DEF s
  <2>8. Reads(Append(Append(text, b), x), t)
    BY <2>1, <2>6, <2>7, ReadMore
  <2>9. text \o <<b, x>> = Append(Append(text, b), x)
    BY <1>1, <2>1, ShortSeqs
  <2>10. QED
    BY <2>2, <2>8, <2>9 DEF t
<1>5. QED
  BY <1>3, <1>4

LEMMA ShownRead ==
    ASSUME NEW name \in RawNames, NEW k \in 0 .. NAME + EXT - 1, NEW text,
           Reads(text, ReadAs(name, k, name[k + 1].inv, k, "plain")),
           k > NAME \/ name[k + 1].ch # "."
    PROVE  Reads(text \o Shown(name[k + 1].ch),
                 ReadAs(name, k + 1, name[k + 1].inv, k + 1, "plain"))
<1> DEFINE ch == name[k + 1].ch
           inv == name[k + 1].inv
           b == "\\"
           x == "x"
           At(state) == ReadAs(name, k, inv, k, state)
           t == ReadAs(name, k + 1, inv, k + 1, "plain")
<1>1. k \in Nat /\ k + 1 \in 1 .. NAME + EXT
  BY NameLengths
<1>2. name[k + 1] \in AnyByte
  BY <1>1 DEF RawNames
<1>3. ch \in STRING /\ inv \in BOOLEAN
  BY <1>2 DEF AnyByte
<1>4. text \in Seq(STRING)
  BY DEF Reads
<1>5. b \in STRING /\ x \in STRING
  BY Letters
<1>6. \A state : Put(At(state), ch) = t
  BY ReadPut
<1>7. /\ AfterChar(b)[At("plain")] = At("escape")
      /\ AfterChar(x)[At("escape")] = At("hex")
      /\ AfterChar(ch)[At("hex")] = Put(At("hex"), ch)
      /\ ch \notin {"i", "x"} => AfterChar(ch)[At("escape")] = Put(At("escape"), ch)
      /\ ch \notin {" ", "\\"} /\ (ch = "." => k > NAME) =>
            AfterChar(ch)[At("plain")] = Put(At("plain"), ch)
  <2> HIDE DEF ch, inv
  <2>1. /\ AfterChar("\\")[At("plain")] = At("escape")
        /\ AfterChar("x")[At("escape")] = At("hex")
    BY <1>1, <1>3, ReadChars
  <2>2. \A c : AfterChar(c)[At("hex")] = Put(At("hex"), c)
    BY <1>1, <1>3, ReadChars
  <2>3. \A c : c \notin {"i", "x"} => AfterChar(c)[At("escape")] = Put(At("escape"), c)
    BY <1>1, <1>3, ReadChars
  <2>4. \A c : c \notin {" ", "\\"} /\ (c = "." => k > NAME) =>
            AfterChar(c)[At("plain")] = Put(At("plain"), c)
    BY <1>1, <1>3, ReadChars
  <2> HIDE DEF At
  <2>5. QED
    BY <2>1, <2>2, <2>3, <2>4
<1>8. Reads(text, At("plain"))
  OBVIOUS
<1>9. ch = "." => k > NAME
  OBVIOUS
<1>10. CASE ch = "ctl"
  <2>1. Shown(ch) = <<b, x, ch>>
    BY <1>10 DEF Shown
  <2> HIDE DEF b, x, At, t, ch
  <2>2. Reads(Append(text, b), At("escape"))
    BY <1>5, <1>7, <1>8, ReadMore
  <2>3. Reads(Append(Append(text, b), x), At("hex"))
    BY <1>5, <1>7, <2>2, ReadMore
  <2>4. AfterChar(ch)[At("hex")] = t
    BY <1>6, <1>7
  <2>5. Reads(Append(Append(Append(text, b), x), ch), t)
    BY <1>3, <2>3, <2>4, ReadMore
  <2>6. text \o <<b, x, ch>> = Append(Append(Append(text, b), x), ch)
    BY <1>3, <1>4, <1>5, ShortSeqs
  <2>7. QED
    BY <2>1, <2>5, <2>6 DEF t, ch
<1>11. CASE ch # "ctl" /\ ch \in {" ", "\\"}
  <2>1. Shown(ch) = <<b, ch>>
    BY <1>11 DEF Shown
  <2>2. AfterChar(ch)[At("escape")] = t
    <3>1. ch \notin {"i", "x"}
      BY <1>11
    <3>2. QED
      BY <1>6, <1>7, <3>1
  <2> HIDE DEF b, x, At, t, ch
  <2>3. Reads(Append(text, b), At("escape"))
    BY <1>5, <1>7, <1>8, ReadMore
  <2>4. Reads(Append(Append(text, b), ch), t)
    BY <1>3, <2>2, <2>3, ReadMore
  <2>5. text \o <<b, ch>> = Append(Append(text, b), ch)
    BY <1>3, <1>4, <1>5, ShortSeqs
  <2>6. QED
    BY <2>1, <2>4, <2>5 DEF t, ch
<1>12. CASE ch # "ctl" /\ ch \notin {" ", "\\"}
  <2>1. Shown(ch) = <<ch>>
    BY <1>12 DEF Shown
  <2>2. AfterChar(ch)[At("plain")] = t
    BY <1>6, <1>7, <1>9, <1>12
  <2> HIDE DEF b, x, At, t, ch
  <2>3. Reads(Append(text, ch), t)
    BY <1>3, <1>8, <2>2, ReadMore
  <2>4. text \o <<ch>> = Append(text, ch)
    BY <1>3, <1>4, ShortSeqs
  <2>5. QED
    BY <2>1, <2>3, <2>4 DEF t, ch
<1>13. QED
  BY <1>10, <1>11, <1>12

-----------------------------------------------------------------------------
(* Byte j is the last of the first k that is not a space.                  *)
LastInked(name, k, j) ==
    /\ j \in 0 .. k /\ (j > 0 => name[j] # SPACE)
    /\ \A m \in j + 1 .. k : name[m] = SPACE
InverseAt(name, j) == j > 0 /\ name[j].inv

(* The byte before the dot leaves the parser where name() is.              *)
DotRight(name) == \A j : LastInked(name, NAME, j) => j = NAME \/ ~InverseAt(name, j)

(* What was printed of k bytes is read as them, and what is kept of it as  *)
(* those up to the last that is not a space, behind which all are.         *)
TextGood(name, lead, k, st) ==
    /\ st.inverse = InverseAt(name, k)
    /\ (k > NAME => DotRight(name)) =>
            Reads(lead \o st.text, ReadAs(name, k, st.inverse, k, "plain"))
    /\ \E j : /\ LastInked(name, k, j)
              /\ Reads(lead \o st.kept, ReadAs(name, j, InverseAt(name, j), k, "plain"))

Readable(name) ==
    /\ \A m \in 1 .. NAME + 1 : name[m].ch # "."
    /\ (\E m \in NAME + 1 .. NAME + EXT : name[m] # SPACE) => DotRight(name)

(* With the dot, if it comes here, the text is read as the bytes so far.   *)
LEMMA DottedRead ==
    ASSUME NEW name \in RawNames, NEW lead \in Seq(STRING), NEW k \in 0 .. NAME + EXT - 1,
           NEW st \in Printed, TextGood(name, lead, k, st), k + 1 > NAME => DotRight(name)
    PROVE  Reads(lead \o Dotted(k + 1, st), ReadAs(name, k, st.inverse, k, "plain"))
<1>1. k \in Nat /\ NAME \in Nat
  BY NameLengths
<1>2. st.text \in Seq(STRING) /\ st.kept \in Seq(STRING) /\ st.inverse \in BOOLEAN
  BY DEF Printed
<1>3. CASE k = NAME /\ ~st.inverse
  <2> DEFINE d == "."
  <2>1. d \in STRING
    BY Letters
  <2>2. Dotted(k + 1, st) = Append(st.kept, d)
    BY <1>1, <1>3 DEF Dotted
  <2>3. PICK j : /\ LastInked(name, k, j)
                 /\ Reads(lead \o st.kept, ReadAs(name, j, InverseAt(name, j), k, "plain"))
    BY DEF TextGood
  <2>4. j \in Nat /\ j <= NAME
    BY <1>1, <1>3, <2>3 DEF LastInked
  <2>5. InverseAt(name, j) = FALSE
    <3>1. k + 1 > NAME
      BY <1>1, <1>3
    <3>2. j = NAME \/ ~InverseAt(name, j)
      BY <1>3, <2>3, <3>1 DEF DotRight
    <3>3. st.inverse = InverseAt(name, NAME)
      BY <1>3 DEF TextGood
    <3>4. InverseAt(name, j) \in BOOLEAN
      <4>1. CASE j > 0
        <5>1. j \in 1 .. NAME + EXT
          BY <1>1, <2>4, <4>1, NameLengths
        <5>2. name[j].inv \in BOOLEAN
          BY <5>1 DEF RawNames, AnyByte
        <5>3. QED
          BY <5>2 DEF InverseAt
      <4>2. CASE ~(j > 0)
        BY <4>2 DEF InverseAt
      <4>3. QED
        BY <4>1, <4>2
    <3>5. QED
      BY <1>3, <3>2, <3>3, <3>4
  <2>6. AfterChar(d)[ReadAs(name, j, FALSE, k, "plain")] = ReadAs(name, NAME, FALSE, k, "plain")
    BY <1>1, <2>4, ReadDot
  <2>7. Reads(lead \o st.kept, ReadAs(name, j, FALSE, k, "plain"))
    BY <2>3, <2>5
  <2>8. lead \o st.kept \in Seq(STRING)
    BY <1>2
  <2> HIDE DEF d
  <2>9. Reads(Append(lead \o st.kept, d), ReadAs(name, NAME, FALSE, k, "plain"))
    BY <2>1, <2>6, <2>7, ReadMore
  <2>10. lead \o Append(st.kept, d) = Append(lead \o st.kept, d)
    BY <1>2, <2>1
  <2>11. st.inverse = FALSE
    BY <1>2, <1>3
  <2>12. QED
    BY <1>3, <2>2, <2>9, <2>10, <2>11
<1>4. CASE ~(k = NAME /\ ~st.inverse)
  <2>1. Dotted(k + 1, st) = st.text
    BY <1>1, <1>4 DEF Dotted
  <2>2. k > NAME => DotRight(name)
    BY <1>1
  <2>3. QED
    BY <2>1, <2>2 DEF TextGood
<1>5. QED
  BY <1>3, <1>4

(* A sequence between two others joins with either first.                  *)
LEMMA JoinedAround ==
    ASSUME NEW A, NEW a \in Seq(A), NEW d \in Seq(A)
    PROVE  \A u \in Seq(A) : (a \o u) \o d = a \o (u \o d)
OBVIOUS

(* One byte more.                                                          *)
LEMMA TextStep ==
    ASSUME NEW name \in RawNames, NEW lead \in Seq(STRING), NEW k \in 0 .. NAME + EXT - 1,
           NEW st \in Printed, TextGood(name, lead, k, st), Readable(name)
    PROVE  TextGood(name, lead, k + 1, AfterByte(k + 1, name[k + 1])[st])
<1> DEFINE byte == name[k + 1]
           d == Dotted(k + 1, st)
           turn == Turn(byte, st)
           shown == Shown(byte.ch)
           text == d \o turn \o shown
           after == AfterByte(k + 1, byte)[st]
           C == k + 1 > NAME => DotRight(name)
<1>1. k \in Nat /\ NAME \in Nat /\ EXT \in Nat /\ k + 1 \in 1 .. NAME + EXT
  BY NameLengths
<1>2. byte \in AnyByte
  BY <1>1 DEF RawNames
<1>3. byte.ch \in STRING /\ byte.inv \in BOOLEAN
  BY <1>2 DEF AnyByte
<1>4. d \in Seq(STRING) /\ turn \in Seq(STRING) /\ shown \in Seq(STRING)
  BY <1>3, DottedText, TurnText, ShownText
<1>5. after = [text |-> text, inverse |-> byte.inv,
               kept |-> IF byte # SPACE THEN text ELSE st.kept]
  BY <1>2, ByteText
<1>6. ASSUME C
      PROVE  Reads(lead \o text, ReadAs(name, k + 1, byte.inv, k + 1, "plain"))
  <2>1. Reads(lead \o d, ReadAs(name, k, st.inverse, k, "plain"))
    BY <1>6, DottedRead
  <2>2. Reads((lead \o d) \o turn, ReadAs(name, k, byte.inv, k, "plain"))
    BY <1>1, <1>2, <2>1, TurnRead
  <2>3. k > NAME \/ byte.ch # "."
    <3>1. CASE k > NAME
      BY <3>1
    <3>2. CASE ~(k > NAME)
      <4>1. k + 1 \in 1 .. NAME + 1
        BY <1>1, <3>2
      <4>2. QED
        BY <4>1 DEF Readable
    <3>3. QED
      BY <3>1, <3>2
  <2>4. Reads(((lead \o d) \o turn) \o shown, ReadAs(name, k + 1, byte.inv, k + 1, "plain"))
    BY <2>2, <2>3, ShownRead
  <2> HIDE DEF d, turn, shown
  <2>5. ((lead \o d) \o turn) \o shown = lead \o ((d \o turn) \o shown)
    <3>1. (lead \o d) \o turn = lead \o (d \o turn)
      BY <1>4
    <3>2. d \o turn \in Seq(STRING)
      BY <1>4
    <3>3. shown \in Seq(STRING)
      BY <1>4
    <3>4. \A u \in Seq(STRING) : (lead \o u) \o shown = lead \o (u \o shown)
      BY <3>3, JoinedAround
    <3>5. QED
      BY <3>1, <3>2, <3>4, Zenon
  <2>6. QED
    BY <2>4, <2>5
<1>7. byte.inv = InverseAt(name, k + 1)
  BY <1>1, <1>3 DEF InverseAt
<1> HIDE DEF after, text
<1>8. after.text = text /\ after.inverse = byte.inv
      /\ after.kept = IF byte # SPACE THEN text ELSE st.kept
  BY <1>5
<1>9. \E j : /\ LastInked(name, k + 1, j)
             /\ Reads(lead \o after.kept, ReadAs(name, j, InverseAt(name, j), k + 1, "plain"))
  <2>1. CASE byte # SPACE
    <3>1. C
      <4>1. k + 1 > NAME => k + 1 \in NAME + 1 .. NAME + EXT
        BY <1>1
      <4>2. QED
        BY <2>1, <4>1 DEF Readable
    <3>2. LastInked(name, k + 1, k + 1)
      BY <1>1, <2>1 DEF LastInked
    <3>3. QED
      BY <1>6, <1>7, <1>8, <2>1, <3>1, <3>2
  <2>2. CASE byte = SPACE
    <3>1. PICK j : /\ LastInked(name, k, j)
                   /\ Reads(lead \o st.kept, ReadAs(name, j, InverseAt(name, j), k, "plain"))
      BY DEF TextGood
    <3>2. LastInked(name, k + 1, j)
      <4>1. j \in 0 .. k + 1 /\ (j > 0 => name[j] # SPACE)
        BY <1>1, <3>1 DEF LastInked
      <4>2. ASSUME NEW m \in j + 1 .. k + 1 PROVE name[m] = SPACE
        <5>1. m = k + 1 \/ m \in j + 1 .. k
          BY <1>1, <4>1
        <5>2. QED
          BY <2>2, <3>1, <5>1 DEF LastInked
      <4>3. QED
        BY <4>1, <4>2 DEF LastInked
    <3>3. UpTo(name, k + 1) = UpTo(name, k)
      <4>1. \A m \in 1 .. NAME + EXT : m <= k + 1 <=> (m <= k \/ m = k + 1)
        BY <1>1
      <4>2. QED
        BY <2>2, <4>1 DEF UpTo
    <3>4. after.kept = st.kept
      BY <1>8, <2>2
    <3>5. QED
      BY <3>1, <3>2, <3>3, <3>4 DEF ReadAs
  <2>3. QED
    BY <2>1, <2>2
<1>10. C => Reads(lead \o after.text, ReadAs(name, k + 1, after.inverse, k + 1, "plain"))
  BY <1>6, <1>8
<1>11. after.inverse = InverseAt(name, k + 1)
  BY <1>7, <1>8
<1>12. QED
  BY <1>9, <1>10, <1>11 DEF TextGood, after

(* No byte yet.                                                            *)
LEMMA TextStart ==
    ASSUME NEW name \in RawNames, NEW lead \in Seq(STRING), Reads(lead, Begin)
    PROVE  TextGood(name, lead, 0, NoText)
<1>1. UpTo(name, 0) = Blank
  BY NameLengths DEF UpTo, Blank
<1>2. ReadAs(name, 0, FALSE, 0, "plain") = Begin
  BY <1>1 DEF ReadAs, Begin
<1>3. lead \o <<>> = lead
  OBVIOUS
<1>4. InverseAt(name, 0) = FALSE
  BY DEF InverseAt
<1>5. LastInked(name, 0, 0)
  BY DEF LastInked
<1>6. NoText.text = <<>> /\ NoText.kept = <<>> /\ NoText.inverse = FALSE
  BY DEF NoText
<1>7. QED
  BY <1>2, <1>3, <1>4, <1>5, <1>6 DEF TextGood

(* The text of the whole name.                                             *)
LEMMA TextOfName ==
    ASSUME NEW name \in RawNames, NEW lead \in Seq(STRING), Reads(lead, Begin), Readable(name)
    PROVE  \E j : /\ LastInked(name, NAME + EXT, j)
                 /\ Reads(lead \o NameText(name),
                          ReadAs(name, j, InverseAt(name, j), NAME + EXT, "plain"))
<1> DEFINE n == NAME + EXT
           K == {k \in Nat : k <= n => \E st : Prints(name, k, st) /\ TextGood(name, lead, k, st)}
<1>1. n \in Nat
  BY NameLengths
<1>2. 0 \in K
  BY PrintNothing, TextStart
<1>3. ASSUME NEW k \in Nat, k \in K PROVE k + 1 \in K
  <2>1. SUFFICES ASSUME k + 1 <= n
                 PROVE  \E st : Prints(name, k + 1, st) /\ TextGood(name, lead, k + 1, st)
    OBVIOUS
  <2>2. k \in 0 .. NAME + EXT - 1 /\ k <= n /\ k + 1 \in 1 .. NAME + EXT
    <3>1. k + 1 <= NAME + EXT
      BY <2>1
    <3>2. QED
      BY <3>1, NameLengths
  <2>3. PICK st : Prints(name, k, st) /\ TextGood(name, lead, k, st)
    BY <1>3, <2>2
  <2>4. name[k + 1] \in AnyByte
    BY <2>2 DEF RawNames
  <2> HIDE DEF n
  <2>5. st \in Printed /\ Prints(name, k + 1, AfterByte(k + 1, name[k + 1])[st])
    BY <2>3, <2>4, PrintMore
  <2>6. TextGood(name, lead, k + 1, AfterByte(k + 1, name[k + 1])[st])
    BY <2>2, <2>3, <2>5, TextStep
  <2>7. QED
    BY <2>5, <2>6
<1>4. Nat \subseteq K
  <2> HIDE DEF K
  <2>1. QED
    BY <1>2, <1>3, NatSetInduction
<1>5. PICK st : Prints(name, n, st) /\ TextGood(name, lead, n, st)
  BY <1>1, <1>4
<1>6. NameText(name) = st.kept
  BY <1>5, PrintText
<1>7. QED
  BY <1>5, <1>6 DEF TextGood

(* What Survives says of a name is what its text needs.                    *)
LEMMA SurvivesReadable ==
    ASSUME NEW name \in RawNames, Survives(name)
    PROVE  Readable(name) /\ \E m \in 1 .. NAME + EXT : name[m] # SPACE
<1>1. DOMAIN name = 1 .. NAME + EXT
  BY DEF RawNames
<1>2. \E m \in 1 .. NAME + EXT : name[m] # SPACE
  BY <1>1 DEF Survives, Inked
<1>3. \A m \in 1 .. NAME + 1 : name[m].ch # "."
  BY DEF Survives
<1>4. ASSUME NEW m \in NAME + 1 .. NAME + EXT, name[m] # SPACE,
             NEW j, LastInked(name, NAME, j), j # NAME
      PROVE  ~InverseAt(name, j)
  <2>1. m \in Inked(name) /\ m \notin InkedName(name)
    BY <1>1, <1>4, NameLengths DEF Inked, InkedName
  <2>2. CASE ~(j > 0)
    BY <2>2 DEF InverseAt
  <2>3. CASE j > 0
    <3>1. j \in 1 .. NAME /\ j \in InkedName(name)
      BY <1>1, <1>4, <2>3, NameLengths DEF LastInked, Inked, InkedName
    <3>2. ASSUME NEW i \in InkedName(name) PROVE i <= j
      <4>1. i \in 1 .. NAME /\ name[i] # SPACE
        BY DEF InkedName, Inked
      <4>2. i \notin j + 1 .. NAME
        BY <1>4, <4>1 DEF LastInked
      <4>3. QED
        BY <3>1, <4>1, <4>2, NameLengths
    <3> DEFINE last == CHOOSE k \in InkedName(name) : \A i \in InkedName(name) : i <= k
    <3>3. last \in InkedName(name) /\ \A i \in InkedName(name) : i <= last
      BY <3>1, <3>2
    <3>4. last = NAME \/ ~name[last].inv
      BY <2>1, <3>1 DEF Survives
    <3> HIDE DEF last
    <3>5. last = j
      <4>1. last \in 1 .. NAME /\ last <= j /\ j <= last
        BY <3>1, <3>2, <3>3 DEF InkedName
      <4>2. QED
        BY <3>1, <4>1, NameLengths
    <3>6. QED
      BY <1>4, <3>4, <3>5 DEF InverseAt
  <2>4. QED
    BY <2>2, <2>3
<1>5. QED
  BY <1>2, <1>3, <1>4 DEF Readable, DotRight

(* A name comes back from its text, whatever is skipped before it.         *)
LEMMA NameRead ==
    ASSUME NEW name \in RawNames, Survives(name), NEW lead \in Seq(STRING), Reads(lead, Begin)
    PROVE  Parse(lead \o NameText(name)) = [ok |-> TRUE, throws |-> FALSE, name |-> name]
<1> DEFINE n == NAME + EXT
<1>1. n \in Nat
  BY NameLengths
<1>2. Readable(name) /\ \E m \in 1 .. NAME + EXT : name[m] # SPACE
  BY SurvivesReadable
<1>3. PICK j : /\ LastInked(name, n, j)
               /\ Reads(lead \o NameText(name), ReadAs(name, j, InverseAt(name, j), n, "plain"))
  BY <1>2, TextOfName
<1>4. j \in Nat /\ j > 0
  <2>1. j \in 0 .. n /\ \A m \in j + 1 .. n : name[m] = SPACE
    BY <1>3 DEF LastInked
  <2>2. PICK m \in 1 .. n : name[m] # SPACE
    BY <1>2
  <2> HIDE DEF n
  <2>3. m \notin j + 1 .. n
    BY <2>1, <2>2
  <2>4. QED
    BY <1>1, <2>1, <2>2, <2>3
<1>5. InverseAt(name, j) \in BOOLEAN
  BY <1>1, <1>3, <1>4 DEF LastInked, InverseAt, RawNames, AnyByte
<1> DEFINE s == ReadAs(name, j, InverseAt(name, j), n, "plain")
<1>6. s \in Reading
  BY <1>1, <1>4, <1>5, ReadAsReads
<1>7. s.i = j /\ s.state = "plain" /\ s.name = UpTo(name, n)
  BY DEF ReadAs
<1>8. UpTo(name, n) = name
  <2>1. UpTo(name, n) = [k \in 1 .. n |-> IF k <= n THEN name[k] ELSE SPACE]
    BY DEF UpTo
  <2>2. name = [k \in 1 .. n |-> name[k]]
    BY DEF RawNames
  <2> HIDE DEF n
  <2>3. \A k \in 1 .. n : k <= n
    BY <1>1
  <2>4. QED
    BY <2>1, <2>2, <2>3
<1>9. Parse(lead \o NameText(name)) = Given[AtEnd[s]]
  BY <1>3, ReadParsed
<1> HIDE DEF s
<1>10. AtEnd[s] = s
  BY <1>6, <1>7 DEF AtEnd
<1>11. Given[s] = [ok |-> TRUE, throws |-> FALSE, name |-> name]
  BY <1>4, <1>6, <1>7, <1>8 DEF Given
<1>12. QED
  BY <1>9, <1>10, <1>11

(* With the space before it on a line, or without.                         *)
LEMMA LeadRead ==
    ASSUME NEW lead \in {<<>>, <<" ">>}
    PROVE  lead \in Seq(STRING) /\ Reads(lead, Begin)
<1>1. CASE lead = <<>>
  BY <1>1, ReadNothing, ShortSeqs, Letters
<1>2. CASE lead = <<" ">>
  <2> DEFINE c == " "
  <2>1. c \in STRING
    BY Letters
  <2>2. Begin.state = "plain" /\ Begin.i = 0 /\ [Begin EXCEPT !.state = "plain"] = Begin
    <3>1. Begin.state = "plain" /\ Begin.i = 0
      BY DEF Begin
    <3>2. [Begin EXCEPT !.state = Begin.state] = Begin
      <4> DEFINE s == Begin
      <4>1. s \in Reading
        BY BeginReads
      <4> HIDE DEF s
      <4>2. [s EXCEPT !.state = s.state] = s
        BY <4>1 DEF Reading
      <4>3. QED
        BY <4>2 DEF s
    <3>3. QED
      BY <3>1, <3>2
  <2>3. AfterPlain(Begin, c) = Begin
    BY <2>2 DEF AfterPlain
  <2>4. AfterChar(c)[Begin] = Begin
    BY <2>2, <2>3, BeginReads DEF AfterChar
  <2> HIDE DEF c
  <2>5. <<>> \in Seq(STRING) /\ <<c>> \in Seq(STRING) /\ Append(<<>>, c) = <<c>>
    BY <2>1, ShortSeqs
  <2>6. Reads(Append(<<>>, c), Begin)
    BY <2>1, <2>4, ReadNothing, ReadMore
  <2>7. QED
    BY <1>2, <2>5, <2>6 DEF c
<1>3. QED
  BY <1>1, <1>2

(***************************************************************************)
(* A name that Survives, of any bytes and any length of name and           *)
(* extension, comes back: format_atari_name makes of the text that name()  *)
(* printed the same bytes, with all inverse, blank and escaped ones, and   *)
(* however short the name before the extension.                            *)
(***************************************************************************)
THEOREM NamesComeBack ==
    \A name \in [1 .. NAME + EXT -> Byte] : Survives(name) =>
        \A lead \in {<<>>, <<" ">>} :
            Parse(lead \o NameText(name)) = [ok |-> TRUE, throws |-> FALSE, name |-> name]
<1>1. SUFFICES ASSUME NEW name \in [1 .. NAME + EXT -> Byte], Survives(name),
                      NEW lead \in {<<>>, <<" ">>}
               PROVE  Parse(lead \o NameText(name))
                        = [ok |-> TRUE, throws |-> FALSE, name |-> name]
  OBVIOUS
<1>2. name \in RawNames
  BY Letters DEF Byte, RawNames, AnyByte
<1>3. lead \in Seq(STRING) /\ Reads(lead, Begin)
  BY LeadRead
<1>4. QED
  BY <1>1, <1>2, <1>3, NameRead

=============================================================================
