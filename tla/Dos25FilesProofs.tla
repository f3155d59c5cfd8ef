-------------------------- MODULE Dos25FilesProofs --------------------------
(* Theorems about Dos25Files, for every disk, every length of a sector and *)
(* of a directory, and every script.                                       *)
EXTENDS Dos25Files, SharedFacts

FileBytes == (0 .. MaxCreated) \X (0 .. MaxBytes)
Buffers == [1 .. PAYLOAD -> FileBytes]
Links == usable \cup {0}
Sectors == [bytes : Buffers, count : 0 .. PAYLOAD, link : Links]
EntryTypes ==
    [flag : {"never used", "opened", "in use"}, name : 0 .. MaxCreated, start : Links,
     count : Nat]
FileTypes ==
    [name : 0 .. MaxCreated, file_no : Entries, first_sec : Links, sector : Links,
     sec_cnt : Nat, pos : 0 .. PAYLOAD, buf : Buffers, size : 0 .. MaxBytes]

Types ==
    /\ usable \in Disks /\ free \subseteq usable
    /\ sec \in [usable -> Sectors]
    /\ dir \in [Entries -> EntryTypes]
    /\ file \in FileTypes \cup {NoFile}
    /\ dos_start \in Links \cup BootWords
    /\ dos_file \in 0 .. MaxCreated /\ created \in 0 .. MaxCreated
    /\ error \in {"", "dir full", "disk full", "terminated"}

(* Each file has one entry and a name of its own; the entry of the file    *)
(* that is open is the one that says so.                                   *)
Used(k) == dir[k].flag # "never used"
InUse(k) == dir[k].flag = "in use"
EntriesNamed ==
    /\ \A k \in Entries : Used(k) => dir[k].name \in 1 .. created
    /\ \A k, l \in Entries : Used(k) /\ Used(l) /\ dir[k].name = dir[l].name => k = l
    /\ \A k \in Entries : dir[k].flag = "opened" <=> file # NoFile /\ k = file.file_no
    /\ file # NoFile => dir[file.file_no].name = file.name

(* Entries are taken in their order.                                       *)
EntriesInOrder == \A j, k \in Entries : j < k /\ Used(k) => Used(j)

(* What the sectors of a disk are linked to.                               *)
LinkOf(sc) == [s \in DOMAIN sc |-> sc[s].link]

(* The sectors c hold the closed file of entry e, `rest' bytes in the last *)
(* one.                                                                    *)
HoldsClosed(e, c, sc, rest) ==
    /\ PathFrom(c, e.start, LinkOf(sc))
    /\ e.count = Len(c)
    /\ HoldsBytes(c, sc, e.name, PAYLOAD, rest)

(* They hold the file f that is open, but for the last one, whose bytes    *)
(* are in the buffer.                                                      *)
HoldsSoFar(f, c, sc) ==
    /\ PathFrom(c, f.first_sec, LinkOf(sc))
    /\ c = <<>> => f.sec_cnt = 0
    /\ c # <<>> => f.sec_cnt = Len(c) - 1 /\ f.sector = c[Len(c)]
    /\ f.size = f.sec_cnt * PAYLOAD + f.pos
    /\ \A i \in 1 .. Len(c) : i # Len(c) =>
          /\ sc[c[i]].count = PAYLOAD
          /\ \A j \in 1 .. PAYLOAD : sc[c[i]].bytes[j] = <<f.name, (i - 1) * PAYLOAD + j>>
    /\ \A j \in 1 .. f.pos : f.buf[j] = <<f.name, f.sec_cnt * PAYLOAD + j>>
HoldsOpen(f, c, sc) == HoldsSoFar(f, c, sc) /\ (c # <<>> => f.pos > 0)

(* The sectors of every entry are its own, and no others are taken from    *)
(* the disk, of which fr is free.                                          *)
PathFunctions == [Entries -> Seq(usable)]
PathsTaken(path, fr) ==
    \A k \in Entries : \A i \in 1 .. Len(path[k]) : path[k][i] \notin fr
PathsApart(path) ==
    \A k, l \in Entries : \A i \in 1 .. Len(path[k]), j \in 1 .. Len(path[l]) :
        path[k][i] = path[l][j] => k = l /\ i = j
AllHeld(path, fr) ==
    \A s \in usable \ fr : \E k \in Entries : \E i \in 1 .. Len(path[k]) : path[k][i] = s
Layout(path, fr) ==
    path \in PathFunctions /\ PathsTaken(path, fr) /\ PathsApart(path) /\ AllHeld(path, fr)

FilesHeld(path) ==
    \A k \in Entries :
        /\ ~Used(k) => path[k] = <<>>
        /\ InUse(k) => \E rest \in 1 .. PAYLOAD : HoldsClosed(dir[k], path[k], sec, rest)
        /\ dir[k].flag = "opened" => HoldsOpen(file, path[k], sec)
Paths(path) == Layout(path, free) /\ FilesHeld(path)

(* A free sector is linked to none, and a file that has its first sector   *)
(* has written it: the second of two allocations did not fail.             *)
FreshLinks == \A s \in free : sec[s].link = 0
FirstWritten == Running /\ file # NoFile /\ file.first_sec # 0 => file.sec_cnt > 0

(* After a DOS command the boot sector names the first sector of its file, *)
(* if that was longer than a sector.                                       *)
IsDosFile(k) ==
    /\ InUse(k) /\ dir[k].name = dos_file
    /\ dos_start = IF dir[k].count <= 1 THEN 0 ELSE dir[k].start
DosHeld == dos_file # 0 => \E k \in Entries : IsDosFile(k)

Shape == Types /\ EntriesNamed /\ EntriesInOrder /\ FreshLinks /\ FirstWritten /\ DosHeld
FilesIInv == Shape /\ \E path : Paths(path)

-----------------------------------------------------------------------------
(* The constants and a disk, as the assumptions say.                       *)
LEMMA ScaleFacts ==
    /\ DIR_FIRST_SECTOR \in Nat \ {0} /\ DIR_SIZE \in Nat \ {0} /\ PER_SECTOR \in Nat \ {0}
    /\ PAYLOAD \in Nat \ {0} /\ LINKS \in Nat \ {0} /\ MaxCreated \in Nat /\ MaxBytes \in Nat
BY ScaleAssumption

LEMMA DiskFacts ==
    ASSUME usable \in Disks
    PROVE  /\ usable \subseteq Nat /\ 0 \notin usable /\ IsFiniteSet(usable)
           /\ \A s \in usable : s < LINKS
<1>1. usable \subseteq 1 .. LINKS - 1
  BY DisksAssumption
<1>2. IsFiniteSet(1 .. LINKS - 1)
  BY ScaleFacts, FS_Interval
<1>3. IsFiniteSet(usable)
  BY <1>1, <1>2, FS_Subset
<1>4. QED
  BY <1>1, <1>3, ScaleFacts

(* A file is not NoFile.                                                   *)
LEMMA ObjectFacts ==
    /\ \A f \in FileObjects : f # NoFile
    /\ \A n \in Nat, b \in Seq(Nat \X Nat) : [name |-> n, bytes |-> b] # NoFile
<1>1. \A n \in Nat, b \in Seq(Nat \X Nat) :
          [name |-> n, bytes |-> b] \in [name : Nat, bytes : Seq(Nat \X Nat)]
  OBVIOUS
<1>2. QED
  BY <1>1, NoFileAssumption

LEMMA TypeFacts ==
    ASSUME Types
    PROVE  /\ usable \subseteq Nat /\ 0 \notin usable /\ IsFiniteSet(usable)
           /\ free \subseteq usable /\ free \subseteq Nat
           /\ sec \in [usable -> Sectors] /\ dir \in [Entries -> EntryTypes]
           /\ FileTypes \subseteq FileObjects /\ \A f \in FileTypes : f # NoFile
           /\ file # NoFile => file \in FileTypes
           /\ created \in Nat
<1>1. usable \in Disks /\ free \subseteq usable
      /\ sec \in [usable -> Sectors] /\ dir \in [Entries -> EntryTypes]
      /\ file \in FileTypes \cup {NoFile} /\ created \in 0 .. MaxCreated
  BY DEF Types
<1>2. usable \subseteq Nat /\ 0 \notin usable /\ IsFiniteSet(usable)
  BY <1>1, DiskFacts
<1>3. FileTypes \subseteq FileObjects
  <2>1. ASSUME NEW f \in FileTypes PROVE f \in FileObjects
    <3> DEFINE N == 0 .. MaxCreated
               M == 0 .. MaxBytes
               P == 1 .. PAYLOAD
               Q == 0 .. PAYLOAD
    <3>1. N \subseteq Nat /\ M \subseteq Nat /\ Q \subseteq Nat /\ Links \subseteq Nat
      BY <1>2, ScaleFacts DEF Links
    <3>2. FileBytes = N \X M /\ Buffers = [P -> FileBytes]
          /\ FileTypes = [name : N, file_no : Entries, first_sec : Links, sector : Links,
                          sec_cnt : Nat, pos : Q, buf : Buffers, size : M]
          /\ FileObjects = [name : Nat, file_no : Entries, first_sec : Nat, sector : Nat,
                            sec_cnt : Nat, pos : Nat, buf : [P -> Nat \X Nat], size : Nat]
      BY DEF FileBytes, Buffers, FileTypes, FileObjects
    <3> HIDE DEF N, M, P, Q
    <3>3. Buffers \subseteq [P -> Nat \X Nat]
      BY <3>1, <3>2
    <3>4. QED
      BY <3>1, <3>2, <3>3
  <2>2. QED
    BY <2>1
<1>4. \A f \in FileTypes : f # NoFile
  BY <1>3, ObjectFacts
<1>5. created \in Nat
  BY <1>1, ScaleFacts
<1>6. QED
  BY <1>1, <1>2, <1>3, <1>4, <1>5

LEMMA EntryFacts ==
    /\ Entries \subseteq Nat /\ 0 \in Entries
    /\ \A k \in Entries : \A j \in 0 .. k : j \in Entries
<1>1. DIR_SIZE * PER_SECTOR \in Nat /\ DIR_SIZE * PER_SECTOR > 0
  BY ScaleFacts
<1> DEFINE n == DIR_SIZE * PER_SECTOR
<1>2. Entries = 0 .. n - 1
  BY DEF Entries
<1> HIDE DEF n
<1>3. n \in Nat /\ n > 0
  BY <1>1 DEF n
<1>4. QED
  BY <1>2, <1>3

-----------------------------------------------------------------------------
(* The steps of a file that is written, as changes of the file, the disk   *)
(* and the sectors it has.                                                 *)

(* WithByte.                                                               *)
LEMMA ByteAdded ==
    ASSUME Types, NEW f \in FileTypes, f.pos < PAYLOAD, f.size < MaxBytes,
           NEW c, NEW sc, HoldsSoFar(f, c, sc)
    PROVE  /\ WithByte(f) \in FileTypes
           /\ WithByte(f).name = f.name /\ WithByte(f).file_no = f.file_no
           /\ WithByte(f).first_sec = f.first_sec /\ WithByte(f).sec_cnt = f.sec_cnt
           /\ WithByte(f).size = f.size + 1
           /\ HoldsOpen(WithByte(f), c, sc)
<1> DEFINE N == 0 .. MaxCreated
           M == 0 .. MaxBytes
           P == 1 .. PAYLOAD
           Q == 0 .. PAYLOAD
           p == f.pos + 1
           z == f.size + 1
           b == <<f.name, z>>
           g == [f EXCEPT !.buf[p] = b, !.pos = p, !.size = z]
<1>1. FileTypes = [name : N, file_no : Entries, first_sec : Links, sector : Links,
                   sec_cnt : Nat, pos : Q, buf : [P -> FileBytes], size : M]
  BY DEF FileTypes, Buffers
<1>2. f.name \in N /\ f.pos \in Nat /\ f.size \in Nat /\ f.sec_cnt \in Nat
      /\ f.buf \in [P -> FileBytes]
  BY <1>1, ScaleFacts
<1>3. p \in Q /\ p \in P /\ z \in M /\ p > 0 /\ p \in Nat /\ z \in Nat
  BY <1>2, ScaleFacts
<1>4. b \in FileBytes
  BY <1>2, <1>3 DEF FileBytes
<1>5. WithByte(f) = g
  BY DEF WithByte
<1> HIDE DEF N, M, P, Q, p, z, b
<1>6. /\ g \in FileTypes
      /\ g.name = f.name /\ g.file_no = f.file_no /\ g.first_sec = f.first_sec
      /\ g.sector = f.sector /\ g.sec_cnt = f.sec_cnt /\ g.pos = p /\ g.size = z
      /\ g.buf[p] = b /\ \A j \in P : j # p => g.buf[j] = f.buf[j]
  BY <1>1, <1>3, <1>4
<1> HIDE DEF g
<1>7. f.size = f.sec_cnt * PAYLOAD + f.pos
  BY DEF HoldsSoFar
<1>8. g.size = g.sec_cnt * PAYLOAD + g.pos
  <2>1. f.sec_cnt * PAYLOAD \in Nat
    BY <1>2, ScaleFacts
  <2> DEFINE a == f.sec_cnt * PAYLOAD
  <2> HIDE DEF a
  <2>2. f.size = a + f.pos /\ a \in Nat
    BY <1>7, <2>1 DEF a
  <2>3. z = a + p
    BY <1>2, <2>2 DEF z, p
  <2>4. QED
    BY <1>6, <2>3 DEF a
<1>9. \A j \in 1 .. g.pos : g.buf[j] = <<g.name, g.sec_cnt * PAYLOAD + j>>
  <2> DEFINE a == f.sec_cnt * PAYLOAD
  <2>1. \A j \in 1 .. f.pos : f.buf[j] = <<f.name, a + j>>
    BY DEF HoldsSoFar
  <2>2. z = a + p
    BY <1>6, <1>8
  <2> HIDE DEF a
  <2>3. ASSUME NEW j \in 1 .. p PROVE g.buf[j] = <<f.name, a + j>>
    <3>1. CASE j = p
      BY <1>6, <2>2, <3>1 DEF b
    <3>2. CASE j # p
      <4>1. j \in 1 .. f.pos /\ j \in P
        <5>1. f.pos \in Nat /\ PAYLOAD \in Nat /\ p = f.pos + 1 /\ p \in 1 .. PAYLOAD
          BY <1>2, <1>3, ScaleFacts DEF p, P
        <5>2. j \in 1 .. f.pos
          BY <3>2, <5>1
        <5>3. j \in 1 .. PAYLOAD
          BY <5>1
        <5>4. QED
          BY <5>2, <5>3 DEF P
      <4>2. QED
        BY <1>6, <2>1, <3>2, <4>1
    <3>3. QED
      BY <3>1, <3>2
  <2>4. QED
    BY <1>6, <2>3 DEF a
<1>10. HoldsSoFar(g, c, sc)
  <2>1. /\ PathFrom(c, g.first_sec, LinkOf(sc))
        /\ c = <<>> => g.sec_cnt = 0
        /\ c # <<>> => g.sec_cnt = Len(c) - 1 /\ g.sector = c[Len(c)]
    BY <1>6 DEF HoldsSoFar
  <2>2. \A i \in 1 .. Len(c) : i # Len(c) =>
            /\ sc[c[i]].count = PAYLOAD
            /\ \A j \in 1 .. PAYLOAD : sc[c[i]].bytes[j] = <<g.name, (i - 1) * PAYLOAD + j>>
    BY <1>6 DEF HoldsSoFar
  <2>3. QED
    BY <1>8, <1>9, <2>1, <2>2 DEF HoldsSoFar
<1>11. QED
  BY <1>3, <1>5, <1>6, <1>10 DEF HoldsOpen, z

(* write_sec, the disk.                                                    *)
LEMMA SectorPut ==
    ASSUME Types, NEW f \in FileTypes, f.sector \in usable, NEW next \in Links
    PROVE  /\ SectorWritten(f, next) \in [usable -> Sectors]
           /\ \A t \in usable : t # f.sector => SectorWritten(f, next)[t] = sec[t]
           /\ SectorWritten(f, next)[f.sector].bytes = f.buf
           /\ SectorWritten(f, next)[f.sector].count = f.pos
           /\ SectorWritten(f, next)[f.sector].link = next
<1> DEFINE Q == 0 .. PAYLOAD
           new == [bytes |-> f.buf, count |-> f.pos, link |-> next]
<1>1. Sectors = [bytes : Buffers, count : Q, link : Links] /\ sec \in [usable -> Sectors]
  BY DEF Sectors, Types
<1>2. f.buf \in Buffers /\ f.pos \in Q
  BY DEF FileTypes
<1> HIDE DEF Q
<1>3. new \in Sectors /\ new.bytes = f.buf /\ new.count = f.pos /\ new.link = next
  BY <1>1, <1>2
<1>4. SectorWritten(f, next) = [sec EXCEPT ![f.sector] = new]
  BY DEF SectorWritten
<1> HIDE DEF new
<1>5. QED
  BY <1>1, <1>3, <1>4

(* No sector is in c twice.                                                *)
Single(c) == \A i, j \in 1 .. Len(c) : c[i] = c[j] => i = j

(* write_sec of a buffer that is full, and the next sector.                *)
LEMMA Continued ==
    ASSUME Types, NEW f \in FileTypes, f.pos = PAYLOAD, NEW c \in Seq(usable), c # <<>>,
           Single(c), HoldsOpen(f, c, sec),
           NEW next \in usable, sec[next].link = 0, \A i \in 1 .. Len(c) : c[i] # next
    PROVE  /\ f.sector \in usable /\ f.sector = c[Len(c)]
           /\ AfterWriteSec(f, next) \in FileTypes
           /\ AfterWriteSec(f, next).name = f.name
           /\ AfterWriteSec(f, next).file_no = f.file_no
           /\ AfterWriteSec(f, next).first_sec = f.first_sec
           /\ AfterWriteSec(f, next).sec_cnt = f.sec_cnt + 1
           /\ AfterWriteSec(f, next).pos = 0 /\ AfterWriteSec(f, next).size = f.size
           /\ HoldsSoFar(AfterWriteSec(f, next), Append(c, next), SectorWritten(f, next))
<1> DEFINE m == Len(c)
           d == Append(c, next)
           g == AfterWriteSec(f, next)
           sc == SectorWritten(f, next)
           k == f.sec_cnt + 1
<1>1. m \in Nat \ {0} /\ m \in 1 .. m /\ \A i \in 1 .. m : c[i] \in usable
  OBVIOUS
<1>2. /\ Len(d) = m + 1 /\ d[m + 1] = next /\ \A i \in 1 .. m : d[i] = c[i]
      /\ \A i \in 1 .. m + 1 : i \in 1 .. m \/ i = m + 1
      /\ d # <<>> /\ d[1] = c[1] /\ c[1] \in usable
  BY <1>1
<1>3. /\ f.sector = c[m] /\ f.sec_cnt = m - 1 /\ PathFrom(c, f.first_sec, LinkOf(sec))
      /\ f.size = f.sec_cnt * PAYLOAD + f.pos
  BY DEF HoldsOpen, HoldsSoFar
<1>4. f.sector \in usable /\ next \in Links
  BY <1>1, <1>3 DEF Links
<1>5. /\ sc \in [usable -> Sectors] /\ DOMAIN sc = usable
      /\ \A t \in usable : t # f.sector => sc[t] = sec[t]
      /\ sc[f.sector].bytes = f.buf /\ sc[f.sector].count = f.pos /\ sc[f.sector].link = next
  BY <1>4, SectorPut
<1>6. \A i \in 1 .. m : i # m => c[i] # f.sector
  BY <1>1, <1>3 DEF Single
<1>7. next # f.sector
  BY <1>1, <1>3
<1>8. k \in Nat /\ f.sec_cnt \in Nat
  BY DEF FileTypes
<1>9. /\ g \in FileTypes /\ g.name = f.name /\ g.file_no = f.file_no
      /\ g.first_sec = f.first_sec /\ g.sector = next /\ g.sec_cnt = k
      /\ g.pos = 0 /\ g.size = f.size /\ g.buf = f.buf
  <2> DEFINE N == 0 .. MaxCreated
             M == 0 .. MaxBytes
             Q == 0 .. PAYLOAD
  <2>1. FileTypes = [name : N, file_no : Entries, first_sec : Links, sector : Links,
                     sec_cnt : Nat, pos : Q, buf : Buffers, size : M]
    BY DEF FileTypes
  <2>2. 0 \in Q
    BY ScaleFacts
  <2>3. g = [f EXCEPT !.sector = next, !.sec_cnt = k, !.pos = 0]
    BY DEF AfterWriteSec
  <2> HIDE DEF N, M, Q, k, g
  <2>4. QED
    BY <1>4, <1>8, <2>1, <2>2, <2>3
<1> HIDE DEF g, sc, d, m
<1>10. PathFrom(d, g.first_sec, LinkOf(sc))
  <2>1. ASSUME NEW i \in 1 .. m + 1
        PROVE  sc[d[i]].link = IF i = m + 1 THEN 0 ELSE d[i + 1]
    <3>1. CASE i = m + 1
      BY <1>2, <1>5, <1>7, <3>1
    <3>2. CASE i = m
      BY <1>1, <1>2, <1>3, <1>5, <3>2
    <3>3. CASE i \in 1 .. m /\ i # m
      <4>1. sc[d[i]] = sec[c[i]]
        BY <1>1, <1>2, <1>5, <1>6, <3>3
      <4>2. LinkOf(sec)[c[i]] = c[i + 1]
        BY <1>3, <3>3 DEF PathFrom, m
      <4>3. c[i] \in DOMAIN sec
        BY <1>1, <3>3, TypeFacts
      <4>4. sec[c[i]].link = c[i + 1]
        BY <4>2, <4>3 DEF LinkOf
      <4>5. i + 1 \in 1 .. m /\ i # m + 1
        BY <1>1, <3>3
      <4>6. QED
        BY <1>2, <4>1, <4>4, <4>5
    <3>4. QED
      BY <1>2, <3>1, <3>2, <3>3
  <2>2. \A i \in 1 .. m + 1 : d[i] \in usable
    BY <1>1, <1>2
  <2>3. \A i \in 1 .. m + 1 : LinkOf(sc)[d[i]] = IF i = m + 1 THEN 0 ELSE d[i + 1]
    BY <1>5, <2>1, <2>2 DEF LinkOf
  <2>4. g.first_sec = d[1]
    BY <1>2, <1>3, <1>9 DEF PathFrom
  <2>5. QED
    BY <1>2, <2>3, <2>4 DEF PathFrom
<1>11. g.size = g.sec_cnt * PAYLOAD + g.pos
  <2>1. f.sec_cnt * PAYLOAD + PAYLOAD = k * PAYLOAD /\ k * PAYLOAD \in Nat
    BY <1>8, ScaleFacts
  <2> DEFINE a == k * PAYLOAD
  <2>2. g.size = a /\ a \in Nat
    BY <1>3, <1>9, <2>1
  <2> HIDE DEF a
  <2>3. g.size = a + g.pos
    BY <1>9, <2>2
  <2>4. QED
    BY <1>9, <2>3 DEF a
<1>12. ASSUME NEW i \in 1 .. Len(d), i # Len(d)
       PROVE  /\ sc[d[i]].count = PAYLOAD
              /\ \A j \in 1 .. PAYLOAD : sc[d[i]].bytes[j] = <<f.name, (i - 1) * PAYLOAD + j>>
  <2>1. i \in 1 .. m /\ d[i] = c[i]
    BY <1>2, <1>12
  <2>2. CASE i = m
    <3>1. sc[d[i]].count = PAYLOAD /\ sc[d[i]].bytes = f.buf
      BY <1>3, <1>5, <2>1, <2>2
    <3>2. \A j \in 1 .. PAYLOAD : f.buf[j] = <<f.name, (m - 1) * PAYLOAD + j>>
      BY <1>3 DEF HoldsOpen, HoldsSoFar
    <3>3. QED
      BY <2>2, <3>1, <3>2
  <2>3. CASE i # m
    <3>1. sc[d[i]] = sec[c[i]]
      BY <1>1, <1>5, <1>6, <2>1, <2>3
    <3>2. /\ sec[c[i]].count = PAYLOAD
          /\ \A j \in 1 .. PAYLOAD : sec[c[i]].bytes[j] = <<f.name, (i - 1) * PAYLOAD + j>>
      BY <2>1, <2>3 DEF HoldsOpen, HoldsSoFar, m
    <3>3. QED
      BY <3>1, <3>2
  <2>4. QED
    BY <2>2, <2>3
<1>13. \A j \in 1 .. g.pos : g.buf[j] = <<g.name, g.sec_cnt * PAYLOAD + j>>
  <2>1. \A j \in 1 .. g.pos : FALSE
    BY <1>9
  <2>2. QED
    BY <2>1
<1>14. d # <<>> => g.sec_cnt = Len(d) - 1 /\ g.sector = d[Len(d)]
  BY <1>1, <1>2, <1>3, <1>9
<1>15. HoldsSoFar(g, d, sc)
  <2>1. g.name = f.name
    BY <1>9
  <2>2. QED
    BY <1>2, <1>10, <1>11, <1>12, <1>13, <1>14, <2>1 DEF HoldsSoFar
<1>16. QED
  BY <1>3, <1>4, <1>9, <1>15 DEF g, sc, d, m, k

(* The last write_sec of a file.                                           *)
LEMMA Finished ==
    ASSUME Types, NEW f \in FileTypes, f.pos > 0, NEW c \in Seq(usable), c # <<>>,
           Single(c), HoldsOpen(f, c, sec),
           NEW e, e.name = f.name, e.start = f.first_sec, e.count = f.sec_cnt + 1
    PROVE  /\ f.sector \in usable /\ f.sector = c[Len(c)]
           /\ HoldsClosed(e, c, SectorWritten(f, 0), f.pos)
           /\ HeldBytes(c, PAYLOAD, f.pos) = f.size
<1> DEFINE m == Len(c)
           sc == SectorWritten(f, 0)
<1>1. m \in Nat \ {0} /\ m \in 1 .. m /\ \A i \in 1 .. m : c[i] \in usable
  OBVIOUS
<1>2. /\ f.sector = c[m] /\ f.sec_cnt = m - 1 /\ PathFrom(c, f.first_sec, LinkOf(sec))
      /\ f.size = f.sec_cnt * PAYLOAD + f.pos
  BY DEF HoldsOpen, HoldsSoFar
<1>3. f.sector \in usable /\ 0 \in Links
  BY <1>1, <1>2 DEF Links
<1>4. /\ DOMAIN sc = usable
      /\ \A t \in usable : t # f.sector => sc[t] = sec[t]
      /\ sc[f.sector].bytes = f.buf /\ sc[f.sector].count = f.pos /\ sc[f.sector].link = 0
  BY <1>3, SectorPut
<1>5. \A i \in 1 .. m : i # m => c[i] # f.sector
  BY <1>1, <1>2 DEF Single
<1> HIDE DEF sc, m
<1>6. PathFrom(c, e.start, LinkOf(sc))
  <2>1. ASSUME NEW i \in 1 .. m
        PROVE  LinkOf(sc)[c[i]] = IF i = m THEN 0 ELSE c[i + 1]
    <3>1. LinkOf(sc)[c[i]] = sc[c[i]].link
      BY <1>1, <1>4 DEF LinkOf
    <3>2. CASE i = m
      BY <1>2, <1>4, <3>1, <3>2
    <3>3. CASE i # m
      <4>1. sc[c[i]] = sec[c[i]]
        BY <1>1, <1>4, <1>5, <3>3
      <4>2. LinkOf(sec)[c[i]] = c[i + 1]
        BY <1>2, <3>3 DEF PathFrom, m
      <4>3. c[i] \in DOMAIN sec
        BY <1>1, TypeFacts
      <4>4. sec[c[i]].link = c[i + 1]
        BY <4>2, <4>3 DEF LinkOf
      <4>5. QED
        BY <3>1, <3>3, <4>1, <4>4
    <3>4. QED
      BY <3>2, <3>3
  <2>2. QED
    BY <1>2, <2>1 DEF PathFrom, m
<1>7. HoldsBytes(c, sc, e.name, PAYLOAD, f.pos)
  <2>1. ASSUME NEW i \in 1 .. m
        PROVE  /\ sc[c[i]].count = IF i = m THEN f.pos ELSE PAYLOAD
               /\ \A j \in 1 .. sc[c[i]].count :
                      sc[c[i]].bytes[j] = <<e.name, (i - 1) * PAYLOAD + j>>
    <3>1. CASE i = m
      <4>1. sc[c[i]].count = f.pos /\ sc[c[i]].bytes = f.buf
        BY <1>2, <1>4, <3>1
      <4>2. \A j \in 1 .. f.pos : f.buf[j] = <<f.name, (m - 1) * PAYLOAD + j>>
        BY <1>2 DEF HoldsOpen, HoldsSoFar
      <4>3. QED
        BY <3>1, <4>1, <4>2
    <3>2. CASE i # m
      <4>1. sc[c[i]] = sec[c[i]]
        BY <1>1, <1>4, <1>5, <3>2
      <4>2. /\ sec[c[i]].count = PAYLOAD
            /\ \A j \in 1 .. PAYLOAD : sec[c[i]].bytes[j] = <<f.name, (i - 1) * PAYLOAD + j>>
        BY <3>2 DEF HoldsOpen, HoldsSoFar, m
      <4>3. QED
        BY <3>2, <4>1, <4>2
    <3>3. QED
      BY <3>1, <3>2
  <2>2. QED
    BY <2>1 DEF HoldsBytes, m
<1>8. e.count = Len(c) /\ HeldBytes(c, PAYLOAD, f.pos) = f.size
  <2>1. e.count = m
    BY <1>1, <1>2
  <2>2. HeldBytes(c, PAYLOAD, f.pos) = (m - 1) * PAYLOAD + f.pos
    BY DEF HeldBytes, m
  <2>3. QED
    BY <1>2, <2>1, <2>2 DEF m
<1>9. QED
  BY <1>2, <1>3, <1>6, <1>7, <1>8 DEF HoldsClosed, sc, m

(* A file gets its first sector.                                           *)
LEMMA FirstTaken ==
    ASSUME Types, file \in FileTypes, file.pos > 0, HoldsOpen(file, <<>>, sec),
           NEW s \in usable, sec[s].link = 0
    PROVE  /\ WithFirst(s) \in FileTypes
           /\ WithFirst(s).name = file.name /\ WithFirst(s).file_no = file.file_no
           /\ WithFirst(s).first_sec = s /\ WithFirst(s).sec_cnt = 0 /\ file.sec_cnt = 0
           /\ WithFirst(s).pos = file.pos /\ WithFirst(s).size = file.size
           /\ HoldsOpen(WithFirst(s), <<s>>, sec)
<1> DEFINE g == WithFirst(s)
           c == <<s>>
<1>1. /\ g \in FileTypes /\ g.name = file.name /\ g.file_no = file.file_no
      /\ g.first_sec = s /\ g.sector = s /\ g.sec_cnt = file.sec_cnt
      /\ g.pos = file.pos /\ g.size = file.size /\ g.buf = file.buf
  <2> DEFINE N == 0 .. MaxCreated
             M == 0 .. MaxBytes
             Q == 0 .. PAYLOAD
  <2>1. FileTypes = [name : N, file_no : Entries, first_sec : Links, sector : Links,
                     sec_cnt : Nat, pos : Q, buf : Buffers, size : M]
    BY DEF FileTypes
  <2>2. s \in Links
    BY DEF Links
  <2>3. g = [file EXCEPT !.first_sec = s, !.sector = s]
    BY DEF WithFirst
  <2> HIDE DEF N, M, Q, g
  <2>4. QED
    BY <2>1, <2>2, <2>3
<1>2. /\ file.sec_cnt = 0 /\ file.size = file.sec_cnt * PAYLOAD + file.pos
      /\ \A j \in 1 .. file.pos : file.buf[j] = <<file.name, file.sec_cnt * PAYLOAD + j>>
  BY DEF HoldsOpen, HoldsSoFar
<1>3. Len(c) = 1 /\ c[1] = s /\ c # <<>> /\ \A i \in 1 .. 1 : i = 1
  OBVIOUS
<1> HIDE DEF g, c
<1>4. LinkOf(sec)[s] = 0
  BY TypeFacts DEF LinkOf
<1>5. PathFrom(c, g.first_sec, LinkOf(sec))
  BY <1>1, <1>3, <1>4 DEF PathFrom
<1>6. \A i \in 1 .. Len(c) : i = Len(c)
  BY <1>3
<1>7. HoldsSoFar(g, c, sec)
  <2>1. c # <<>> => g.sec_cnt = Len(c) - 1 /\ g.sector = c[Len(c)]
    BY <1>1, <1>2, <1>3
  <2>2. g.size = g.sec_cnt * PAYLOAD + g.pos
    BY <1>1, <1>2
  <2>3. \A j \in 1 .. g.pos : g.buf[j] = <<g.name, g.sec_cnt * PAYLOAD + j>>
    BY <1>1, <1>2
  <2>4. QED
    BY <1>3, <1>5, <1>6, <2>1, <2>2, <2>3 DEF HoldsSoFar
<1>8. QED
  BY <1>1, <1>2, <1>7 DEF g, c, HoldsOpen

-----------------------------------------------------------------------------
(* A file gets a sector that was free.                                     *)
More(path, k, s) == [path EXCEPT ![k] = Append(@, s)]
SameBut(path, more, o) == \A k \in Entries : k # o => more[k] = path[k]

LEMMA PathFacts ==
    ASSUME NEW path, NEW fr, Layout(path, fr)
    PROVE  \A k \in Entries : path[k] \in Seq(usable) /\ Single(path[k])
                              /\ \A i \in 1 .. Len(path[k]) : path[k][i] \in usable \ fr
<1>1. \A k \in Entries : path[k] \in Seq(usable)
  BY DEF Layout, PathFunctions
<1>2. \A k \in Entries : \A i \in 1 .. Len(path[k]) : path[k][i] \in usable
  BY <1>1
<1>3. QED
  BY <1>1, <1>2 DEF Layout, PathsTaken, PathsApart, Single

LEMMA SectorTaken ==
    ASSUME NEW path, NEW fr \in SUBSET usable, Layout(path, fr), NEW k \in Entries, NEW s \in fr
    PROVE  /\ Layout(More(path, k, s), fr \ {s})
           /\ More(path, k, s)[k] = Append(path[k], s)
           /\ SameBut(path, More(path, k, s), k)
<1> DEFINE c == path[k]
           d == Append(c, s)
           more == More(path, k, s)
           m == Len(c)
<1>1. path \in [Entries -> Seq(usable)] /\ PathsTaken(path, fr) /\ PathsApart(path)
      /\ AllHeld(path, fr)
  BY DEF Layout, PathFunctions
<1>2. c \in Seq(usable) /\ s \in usable /\ \A l \in Entries : path[l] \in Seq(usable)
  BY <1>1
<1>3. more = [path EXCEPT ![k] = d]
  BY DEF More
<1> HIDE DEF c, more
<1>4. /\ d \in Seq(usable) /\ m \in Nat /\ Len(d) = m + 1 /\ d[m + 1] = s
      /\ \A i \in 1 .. m : d[i] = c[i]
      /\ \A i \in 1 .. m + 1 : i \in 1 .. m \/ i = m + 1
      /\ \A i \in 1 .. m : i \in 1 .. m + 1
      /\ m + 1 \in 1 .. m + 1
  BY <1>2
<1> HIDE DEF d, m
<1>5. more \in [Entries -> Seq(usable)] /\ more[k] = d
      /\ \A l \in Entries : l # k => more[l] = path[l]
  BY <1>1, <1>3, <1>4
<1>6. c = path[k] /\ m = Len(path[k])
  BY DEF c, m
(* What more adds is s.                                                    *)
<1>7. ASSUME NEW l \in Entries, NEW i \in 1 .. Len(more[l])
      PROVE  \/ i \in 1 .. Len(path[l]) /\ more[l][i] = path[l][i] /\ path[l][i] \notin fr
             \/ l = k /\ i = m + 1 /\ more[l][i] = s
  <2>1. CASE l # k
    BY <1>1, <1>5, <2>1 DEF PathsTaken
  <2>2. CASE l = k
    <3>1. i \in 1 .. m \/ i = m + 1
      BY <1>4, <1>5, <2>2
    <3>2. CASE i \in 1 .. m
      BY <1>1, <1>4, <1>5, <1>6, <2>2, <3>2 DEF PathsTaken
    <3>3. CASE i = m + 1
      BY <1>4, <1>5, <2>2, <3>3
    <3>4. QED
      BY <3>1, <3>2, <3>3
  <2>3. QED
    BY <2>1, <2>2
<1>8. PathsTaken(more, fr \ {s})
  BY <1>7, Zenon DEF PathsTaken
<1>9. PathsApart(more)
  <2>1. ASSUME NEW l \in Entries, NEW j \in Entries,
               NEW i \in 1 .. Len(more[l]), NEW h \in 1 .. Len(more[j]),
               more[l][i] = more[j][h]
        PROVE  l = j /\ i = h
    <3>1. CASE more[l][i] = s
      BY <1>7, <2>1, <3>1
    <3>2. CASE more[l][i] # s
      <4>1. /\ i \in 1 .. Len(path[l]) /\ more[l][i] = path[l][i]
            /\ h \in 1 .. Len(path[j]) /\ more[j][h] = path[j][h]
        BY <1>7, <2>1, <3>2
      <4>2. path[l][i] = path[j][h]
        BY <2>1, <4>1
      <4>3. QED
        BY <1>1, <4>1, <4>2 DEF PathsApart
    <3>3. QED
      BY <3>1, <3>2
  <2>2. QED
    BY <2>1 DEF PathsApart
<1>10. AllHeld(more, fr \ {s})
  <2>1. ASSUME NEW t \in usable \ (fr \ {s})
        PROVE  \E l \in Entries : \E i \in 1 .. Len(more[l]) : more[l][i] = t
    <3>1. CASE t = s
      <4>1. m + 1 \in 1 .. Len(more[k]) /\ more[k][m + 1] = s
        BY <1>4, <1>5
      <4>2. QED
        BY <3>1, <4>1
    <3>2. CASE t # s
      <4>1. t \in usable \ fr
        BY <3>2
      <4>2. PICK l \in Entries : \E i \in 1 .. Len(path[l]) : path[l][i] = t
        BY <1>1, <4>1 DEF AllHeld
      <4>3. PICK i \in 1 .. Len(path[l]) : path[l][i] = t
        BY <4>2
      <4>4. i \in 1 .. Len(more[l]) /\ more[l][i] = t
        BY <1>4, <1>5, <1>6, <4>3
      <4>5. QED
        BY <4>4
    <3>3. QED
      BY <3>1, <3>2
  <2>2. QED
    BY <2>1 DEF AllHeld
<1>11. QED
  BY <1>5, <1>8, <1>9, <1>10 DEF Layout, PathFunctions, SameBut, d, c, more

-----------------------------------------------------------------------------
(* A closed file whose sectors stay as they are.                           *)
LEMMA ClosedSame ==
    ASSUME NEW c, NEW sc, NEW new, DOMAIN new = DOMAIN sc,
           \A i \in 1 .. Len(c) : c[i] \in DOMAIN sc /\ new[c[i]] = sc[c[i]],
           NEW e, NEW rest, HoldsClosed(e, c, sc, rest)
    PROVE  HoldsClosed(e, c, new, rest)
<1>1. \A i \in 1 .. Len(c) : LinkOf(new)[c[i]] = LinkOf(sc)[c[i]]
  BY DEF LinkOf
<1>2. PathFrom(c, e.start, LinkOf(new))
  BY <1>1 DEF HoldsClosed, PathFrom
<1>3. HoldsBytes(c, new, e.name, PAYLOAD, rest)
  <2>1. HoldsBytes(c, sc, e.name, PAYLOAD, rest)
    BY DEF HoldsClosed
  <2>2. ASSUME NEW i \in 1 .. Len(c)
        PROVE  /\ new[c[i]].count = IF i = Len(c) THEN rest ELSE PAYLOAD
               /\ \A j \in 1 .. new[c[i]].count :
                      new[c[i]].bytes[j] = <<e.name, (i - 1) * PAYLOAD + j>>
    <3>1. new[c[i]] = sc[c[i]]
      OBVIOUS
    <3>2. QED
      BY <2>1, <3>1 DEF HoldsBytes
  <2>3. QED
    BY <2>2 DEF HoldsBytes
<1>4. QED
  BY <1>2, <1>3 DEF HoldsClosed

(* No step changes a closed file.                                          *)
HeldStill(e, c) ==
    \E rest \in 1 .. PAYLOAD : HoldsClosed(e, c, sec, rest) /\ HoldsClosed(e, c, sec', rest)
ClosedKept ==
    \A k \in Entries : InUse(k) =>
        dir'[k] = dir[k] /\ \E c \in Seq(usable) : HeldStill(dir[k], c)

(* The file that is open, and its entry.                                   *)
LEMMA OpenFile ==
    ASSUME Shape, NEW path, Paths(path), file # NoFile
    PROVE  /\ file \in FileTypes /\ file.file_no \in Entries
           /\ dir[file.file_no].flag = "opened" /\ dir[file.file_no].name = file.name
           /\ \A k \in Entries : k # file.file_no => dir[k].flag # "opened"
           /\ HoldsOpen(file, path[file.file_no], sec)
           /\ path[file.file_no] \in Seq(usable) /\ Single(path[file.file_no])
<1>1. file \in FileTypes
  BY TypeFacts DEF Shape
<1>2. file.file_no \in Entries
  BY <1>1 DEF FileTypes
<1>3. dir[file.file_no].flag = "opened" /\ dir[file.file_no].name = file.name
      /\ \A k \in Entries : k # file.file_no => dir[k].flag # "opened"
  BY <1>2 DEF Shape, EntriesNamed
<1>4. HoldsOpen(file, path[file.file_no], sec)
  BY <1>2, <1>3 DEF Paths, FilesHeld
<1>5. path[file.file_no] \in Seq(usable) /\ Single(path[file.file_no])
  BY <1>2, PathFacts DEF Paths
<1>6. QED
  BY <1>1, <1>2, <1>3, <1>4, <1>5

(* The sectors of the other files stay as they are.                        *)
WrittenOn(c) ==
    \A s \in usable : sec'[s] # sec[s] => \E i \in 1 .. Len(c) : c[i] = s

LEMMA OthersKept ==
    ASSUME Shape, NEW path, Paths(path), NEW o \in Entries,
           NEW more, NEW fr, Layout(more, fr), SameBut(path, more, o),
           DOMAIN sec' = usable, WrittenOn(more[o])
    PROVE  \A k \in Entries : k # o /\ InUse(k) => HeldStill(dir[k], more[k])
<1> SUFFICES ASSUME NEW k \in Entries, k # o, InUse(k) PROVE HeldStill(dir[k], more[k])
  OBVIOUS
<1>1. more[k] = path[k]
  BY DEF SameBut
<1>2. PICK rest \in 1 .. PAYLOAD : HoldsClosed(dir[k], more[k], sec, rest)
  BY <1>1 DEF Paths, FilesHeld
<1>3. DOMAIN sec = usable
  BY TypeFacts DEF Shape
<1>4. ASSUME NEW i \in 1 .. Len(more[k])
      PROVE  more[k][i] \in usable /\ sec'[more[k][i]] = sec[more[k][i]]
  <2>1. more[k][i] \in usable
    BY PathFacts
  <2>2. \A j \in 1 .. Len(more[o]) : more[o][j] # more[k][i]
    BY DEF Layout, PathsApart
  <2>3. QED
    BY <2>1, <2>2 DEF WrittenOn
<1>5. HoldsClosed(dir[k], more[k], sec', rest)
  <2> DEFINE new == sec'
             c == more[k]
             e == dir[k]
  <2>1. /\ DOMAIN new = DOMAIN sec
        /\ \A i \in 1 .. Len(c) : c[i] \in DOMAIN sec /\ new[c[i]] = sec[c[i]]
        /\ HoldsClosed(e, c, sec, rest)
    BY <1>2, <1>3, <1>4
  <2> HIDE DEF new, c, e
  <2>2. HoldsClosed(e, c, new, rest)
    BY <2>1, ClosedSame
  <2>3. QED
    BY <2>2 DEF new, c, e
<1>6. QED
  BY <1>2, <1>5 DEF HeldStill

(* A step of the file that is open which writes no entry.                  *)
LEMMA FileStep ==
    ASSUME Shape, NEW path, Paths(path), file # NoFile,
           UNCHANGED <<usable, dir, dos_start, dos_file, created>>,
           error' \in {"", "dir full", "disk full", "terminated"},
           NEW o, o = file.file_no, file' \in FileTypes,
           file'.name = file.name, file'.file_no = o,
           NEW more, Layout(more, free'), SameBut(path, more, o),
           free' \subseteq free, sec' \in [usable -> Sectors], WrittenOn(more[o]),
           HoldsOpen(file', more[o], sec'),
           error' = "" /\ file'.first_sec # 0 => file'.sec_cnt > 0
    PROVE  FilesIInv' /\ ClosedKept
<1>1. /\ usable' = usable /\ dir' = dir /\ dos_start' = dos_start /\ dos_file' = dos_file
      /\ created' = created
      /\ file # NoFile /\ o \in Entries /\ file' # NoFile
      /\ dir[o].flag = "opened" /\ \A k \in Entries : k # o => dir[k].flag # "opened"
  BY OpenFile, TypeFacts DEF Shape
<1>2. \A k : (Used(k)' <=> Used(k)) /\ (InUse(k)' <=> InUse(k))
  BY <1>1 DEF Used, InUse
<1>3. Types'
  <2>1. Types
    BY DEF Shape
  <2>2. Links' = Links /\ Sectors' = Sectors /\ EntryTypes' = EntryTypes
        /\ FileTypes' = FileTypes
    BY <1>1 DEF Links, Sectors, EntryTypes, FileTypes
  <2>3. free' \subseteq usable
    BY <2>1 DEF Types
  <2>4. QED
    BY <1>1, <2>1, <2>2, <2>3 DEF Types
<1>4. EntriesNamed'
  BY <1>1, <1>2 DEF Shape, EntriesNamed
<1>5. EntriesInOrder'
  BY <1>2 DEF Shape, EntriesInOrder
<1>6. FreshLinks'
  <2>1. ASSUME NEW s \in free' PROVE sec'[s].link = 0
    <3>1. s \in free /\ s \in usable
      BY DEF Shape, Types
    <3>2. \A i \in 1 .. Len(more[o]) : more[o][i] # s
      BY <1>1 DEF Layout, PathsTaken
    <3>3. sec'[s] = sec[s]
      BY <3>1, <3>2 DEF WrittenOn
    <3>4. QED
      BY <3>1, <3>3 DEF Shape, FreshLinks
  <2>2. QED
    BY <2>1 DEF FreshLinks
<1>7. FirstWritten'
  BY DEF FirstWritten, Running
<1>8. DosHeld'
  BY <1>1, <1>2 DEF Shape, DosHeld, IsDosFile
<1>9. \A k \in Entries : k # o /\ InUse(k) => HeldStill(dir[k], more[k])
  <2>1. DOMAIN sec' = usable
    OBVIOUS
  <2>2. QED
    BY <1>1, <2>1, OthersKept
<1>10. ~InUse(o)
  BY <1>1 DEF InUse
<1>11. ClosedKept
  <2>1. ASSUME NEW k \in Entries, InUse(k)
        PROVE  \E c \in Seq(usable) : HeldStill(dir[k], c)
    <3>1. k # o /\ more[k] \in Seq(usable)
      BY <1>10, <2>1, PathFacts
    <3>2. QED
      BY <1>9, <2>1, <3>1
  <2>2. QED
    BY <1>1, <2>1 DEF ClosedKept
<1>12. FilesHeld(more)'
  <2>1. ASSUME NEW k \in Entries
        PROVE  /\ ~Used(k) => more[k] = <<>>
               /\ InUse(k) => \E rest \in 1 .. PAYLOAD : HoldsClosed(dir[k], more[k], sec', rest)
               /\ dir[k].flag = "opened" => HoldsOpen(file', more[k], sec')
    <3>1. CASE k = o
      BY <1>1, <1>10, <3>1 DEF Used
    <3>2. CASE k # o
      <4>1. ~Used(k) => more[k] = <<>>
        BY <3>2 DEF Paths, FilesHeld, SameBut
      <4>2. QED
        BY <1>1, <1>9, <3>2, <4>1 DEF HeldStill
    <3>3. QED
      BY <3>1, <3>2
  <2>2. QED
    BY <1>1, <1>2, <2>1 DEF FilesHeld
<1>13. Paths(more)'
  <2>1. PathFunctions' = PathFunctions
    BY <1>1 DEF PathFunctions
  <2>2. Layout(more, free)'
    BY <1>1, <2>1 DEF Layout, PathsTaken, PathsApart, AllHeld
  <2>3. QED
    BY <1>12, <2>2 DEF Paths
<1>14. QED
  BY <1>3, <1>4, <1>5, <1>6, <1>7, <1>8, <1>11, <1>13 DEF FilesIInv, Shape

-----------------------------------------------------------------------------
(* The steps.                                                              *)
LEMMA InitHolds == Init => FilesIInv
<1> SUFFICES ASSUME Init PROVE FilesIInv
  OBVIOUS
<1>1. /\ usable \in Disks /\ free = usable
      /\ sec = [s \in usable |-> [bytes |-> NoBytes, count |-> 0, link |-> 0]]
      /\ dir = [k \in Entries |-> FreeEntry]
      /\ file = NoFile /\ dos_start = 0 /\ dos_file = 0 /\ created = 0 /\ error = ""
  BY DEF Init
<1>2. Types
  <2>1. 0 \in Links /\ 0 \in 0 .. PAYLOAD /\ 0 \in 0 .. MaxCreated /\ 0 \in 0 .. MaxBytes
    BY ScaleFacts DEF Links
  <2>2. [bytes |-> NoBytes, count |-> 0, link |-> 0] \in Sectors
    BY <2>1 DEF Sectors, Buffers, FileBytes, NoBytes, ZERO
  <2>3. FreeEntry \in EntryTypes
    BY <2>1 DEF FreeEntry, EntryTypes
  <2>4. sec \in [usable -> Sectors] /\ dir \in [Entries -> EntryTypes]
    BY <1>1, <2>2, <2>3
  <2>5. QED
    BY <1>1, <2>1, <2>4 DEF Types
<1>3. \A k \in Entries : ~Used(k) /\ ~InUse(k) /\ dir[k].flag # "opened"
  BY <1>1 DEF FreeEntry, Used, InUse
<1>4. EntriesNamed /\ EntriesInOrder /\ FreshLinks /\ FirstWritten /\ DosHeld
  <2>1. FreshLinks
    BY <1>1 DEF FreshLinks
  <2>2. QED
    BY <1>1, <1>3, <2>1 DEF EntriesNamed, EntriesInOrder, FirstWritten, DosHeld
<1>5. Paths([k \in Entries |-> <<>>])
  <2> DEFINE path == [k \in Entries |-> <<>>]
  <2>1. path \in [Entries -> Seq(usable)] /\ \A k \in Entries : path[k] = <<>>
    OBVIOUS
  <2> HIDE DEF path
  <2>2. Layout(path, free)
    <3>1. \A k \in Entries : \A i \in 1 .. Len(path[k]) : FALSE
      BY <2>1
    <3>2. PathsTaken(path, free) /\ PathsApart(path)
      BY <3>1, Zenon DEF PathsTaken, PathsApart
    <3>3. AllHeld(path, free)
      BY <1>1 DEF AllHeld
    <3>4. QED
      BY <2>1, <3>2, <3>3 DEF Layout, PathFunctions
  <2>3. QED
    BY <1>3, <2>1, <2>2 DEF Paths, FilesHeld, path
<1>6. QED
  BY <1>2, <1>4, <1>5 DEF FilesIInv, Shape

(* Closed files are kept when nothing is written.                          *)
LEMMA KeptWhenSame ==
    ASSUME NEW path, Paths(path), sec' = sec, \A k \in Entries : InUse(k) => dir'[k] = dir[k]
    PROVE  ClosedKept
<1>1. ASSUME NEW k \in Entries, InUse(k) PROVE \E c \in Seq(usable) : HeldStill(dir[k], c)
  <2>1. path[k] \in Seq(usable)
    BY PathFacts DEF Paths
  <2>2. PICK rest \in 1 .. PAYLOAD : HoldsClosed(dir[k], path[k], sec, rest)
    BY <1>1 DEF Paths, FilesHeld
  <2>3. HoldsClosed(dir[k], path[k], sec', rest)
    BY <2>2
  <2>4. QED
    BY <2>1, <2>2, <2>3 DEF HeldStill
<1>2. QED
  BY <1>1 DEF ClosedKept

(* What the invariant says does not depend on what was thrown, nor on what *)
(* a BOOT line says of DOS.                                                *)
DosKept == dos_start' = dos_start /\ dos_file' = dos_file
DosOfBoot == dos_start' \in BootWords /\ dos_file' = 0

LEMMA NoName == 0 \in 0 .. MaxCreated
BY ScaleFacts

LEMMA AllSame ==
    ASSUME FilesIInv, UNCHANGED <<usable, free, sec, dir, file, created>>,
           DosKept \/ DosOfBoot,
           error' \in {"", "dir full", "disk full", "terminated"}, Running' => Running
    PROVE  FilesIInv' /\ ClosedKept
<1>1. PICK path : Paths(path)
  BY DEF FilesIInv
<1>2. usable' = usable /\ free' = free /\ sec' = sec /\ dir' = dir /\ file' = file
      /\ created' = created
  OBVIOUS
<1>3. \A k : (Used(k)' <=> Used(k)) /\ (InUse(k)' <=> InUse(k))
  BY <1>2 DEF Used, InUse
<1>4. Links' = Links /\ Sectors' = Sectors /\ EntryTypes' = EntryTypes
      /\ FileTypes' = FileTypes /\ PathFunctions' = PathFunctions
  BY <1>2 DEF Links, Sectors, EntryTypes, FileTypes, PathFunctions
<1>5. Types'
  <2>1. dos_start' \in Links \cup BootWords /\ dos_file' \in 0 .. MaxCreated
    <3>1. 0 \in 0 .. MaxCreated
      BY NoName
    <3>2. dos_start \in Links \cup BootWords /\ dos_file \in 0 .. MaxCreated
      BY DEF FilesIInv, Shape, Types
    <3>3. QED
      BY <3>1, <3>2 DEF DosKept, DosOfBoot
  <2>2. QED
    BY <1>2, <1>4, <2>1 DEF FilesIInv, Shape, Types
<1>6. EntriesNamed' /\ EntriesInOrder' /\ FreshLinks' /\ FirstWritten' /\ DosHeld'
  <2>1. EntriesNamed' /\ EntriesInOrder'
    BY <1>2, <1>3 DEF FilesIInv, Shape, EntriesNamed, EntriesInOrder
  <2>2. FreshLinks' /\ FirstWritten'
    BY <1>2 DEF FilesIInv, Shape, FreshLinks, FirstWritten
  <2>3. DosHeld'
    <3>1. CASE DosKept
      BY <1>2, <1>3, <3>1 DEF FilesIInv, Shape, DosHeld, IsDosFile, DosKept
    <3>2. CASE DosOfBoot
      BY <3>2 DEF DosHeld, DosOfBoot
    <3>3. QED
      BY <3>1, <3>2
  <2>4. QED
    BY <2>1, <2>2, <2>3
<1>7. Paths(path)'
  <2>1. Layout(path, free)'
    BY <1>1, <1>2, <1>4 DEF Paths, Layout, PathsTaken, PathsApart, AllHeld
  <2>2. FilesHeld(path)'
    BY <1>1, <1>2, <1>3 DEF Paths, FilesHeld
  <2>3. QED
    BY <2>1, <2>2 DEF Paths
<1>8. ClosedKept
  BY <1>1, <1>2, KeptWhenSame
<1>9. QED
  BY <1>5, <1>6, <1>7, <1>8 DEF FilesIInv, Shape

(* What the steps of a file that is open say to FileStore.                 *)
Wrote == file' \in FileTypes /\ file'.name = file.name /\ file'.size = file.size + 1

LEMMA WriteByteKeeps == FilesIInv /\ WriteByte => FilesIInv' /\ ClosedKept /\ Wrote
<1> SUFFICES ASSUME FilesIInv, WriteByte PROVE FilesIInv' /\ ClosedKept /\ Wrote
  OBVIOUS
<1>1. /\ Shape /\ Types /\ file # NoFile /\ file.size < MaxBytes /\ file.pos < PAYLOAD
      /\ file' = WithByte(file)
      /\ UNCHANGED <<usable, free, sec, dir, dos_start, dos_file, created, error>>
  BY DEF FilesIInv, Shape, WriteByte, MayWrite
<1>2. PICK path : Paths(path)
  BY DEF FilesIInv
<1>3. PICK o : o = file.file_no
  OBVIOUS
<1>4. file \in FileTypes /\ o \in Entries /\ HoldsOpen(file, path[o], sec)
  BY <1>1, <1>2, <1>3, OpenFile
<1>5. HoldsSoFar(file, path[o], sec)
  BY <1>4 DEF HoldsOpen
<1>6. /\ file' \in FileTypes /\ file'.name = file.name /\ file'.file_no = o
      /\ file'.first_sec = file.first_sec /\ file'.sec_cnt = file.sec_cnt
      /\ file'.size = file.size + 1 /\ HoldsOpen(file', path[o], sec)
  BY <1>1, <1>3, <1>4, <1>5, ByteAdded
<1>7. /\ Layout(path, free') /\ SameBut(path, path, o) /\ free' \subseteq free
      /\ sec' \in [usable -> Sectors] /\ WrittenOn(path[o])
      /\ HoldsOpen(file', path[o], sec')
      /\ error' \in {"", "dir full", "disk full", "terminated"}
      /\ error' = "" /\ file'.first_sec # 0 => file'.sec_cnt > 0
  <2>1. Layout(path, free') /\ HoldsOpen(file', path[o], sec') /\ free' \subseteq free
    BY <1>1, <1>2, <1>6 DEF Paths
  <2>2. SameBut(path, path, o) /\ WrittenOn(path[o]) /\ sec' \in [usable -> Sectors]
    BY <1>1, TypeFacts DEF SameBut, WrittenOn
  <2>3. error' \in {"", "dir full", "disk full", "terminated"}
    BY <1>1 DEF Types
  <2>4. error' = "" /\ file'.first_sec # 0 => file'.sec_cnt > 0
    BY <1>1, <1>6 DEF Shape, FirstWritten, Running
  <2>5. QED
    BY <2>1, <2>2, <2>3, <2>4
<1>8. FilesIInv' /\ ClosedKept
  BY <1>1, <1>2, <1>3, <1>6, <1>7, FileStep
<1>9. QED
  BY <1>6, <1>8 DEF Wrote

(* A sector is written and the next one taken.                             *)
LEMMA ContinueKeeps ==
    ASSUME Shape, NEW path, Paths(path), MayWrite, NEW o, o = file.file_no,
           UNCHANGED <<usable, dir, dos_start, dos_file, created, error>>,
           NEW f \in FileTypes, f.name = file.name, f.file_no = o, f.size = file.size,
           f.pos = PAYLOAD,
           NEW mid, NEW fr, fr \subseteq free, Layout(mid, fr), SameBut(path, mid, o),
           mid[o] # <<>>, HoldsOpen(f, mid[o], sec),
           NEW next \in fr, free' = fr \ {next}, sec' = SectorWritten(f, next),
           file' = WithByte(AfterWriteSec(f, next))
    PROVE  FilesIInv' /\ ClosedKept /\ Wrote
<1> DEFINE c == mid[o]
           g == AfterWriteSec(f, next)
           more == More(mid, o, next)
<1>1. Types /\ file # NoFile /\ file.size < MaxBytes /\ Running /\ error' = error
  BY DEF Shape, MayWrite
<1>2. o \in Entries
  BY <1>1, OpenFile
<1>3. fr \in SUBSET usable /\ next \in usable /\ next \in free /\ next \in Links
  BY <1>1, TypeFacts DEF Links
<1>4. c \in Seq(usable) /\ Single(c) /\ \A i \in 1 .. Len(c) : c[i] # next
  BY <1>2, PathFacts
<1>5. sec[next].link = 0
  BY <1>3 DEF Shape, FreshLinks
<1>6. /\ f.sector \in usable /\ f.sector = c[Len(c)]
      /\ g \in FileTypes /\ g.name = f.name /\ g.file_no = f.file_no
      /\ g.first_sec = f.first_sec /\ g.sec_cnt = f.sec_cnt + 1
      /\ g.pos = 0 /\ g.size = f.size
      /\ HoldsSoFar(g, Append(c, next), sec')
  BY <1>1, <1>3, <1>4, <1>5, Continued
<1>7. /\ Layout(more, free') /\ more[o] = Append(c, next) /\ SameBut(mid, more, o)
  BY <1>2, <1>3, SectorTaken
<1> HIDE DEF g, more, c
<1>8. file' = WithByte(g) /\ g.pos < PAYLOAD /\ g.size < MaxBytes
  BY <1>1, <1>6, ScaleFacts DEF g
<1>9. HoldsSoFar(g, more[o], sec')
  BY <1>6, <1>7
<1>10. /\ file' \in FileTypes /\ file'.name = g.name /\ file'.file_no = g.file_no
       /\ file'.first_sec = g.first_sec /\ file'.sec_cnt = g.sec_cnt
       /\ file'.size = g.size + 1 /\ HoldsOpen(file', more[o], sec')
  BY <1>1, <1>6, <1>8, <1>9, ByteAdded
<1>11. SameBut(path, more, o)
  BY <1>7 DEF SameBut
<1>12. sec' \in [usable -> Sectors] /\ WrittenOn(more[o])
  <2>1. /\ sec' \in [usable -> Sectors]
        /\ \A t \in usable : t # f.sector => sec'[t] = sec[t]
    BY <1>1, <1>3, <1>6, SectorPut
  <2>2. Len(c) \in 1 .. Len(Append(c, next)) /\ Append(c, next)[Len(c)] = c[Len(c)]
    BY <1>4 DEF c
  <2>3. \E i \in 1 .. Len(more[o]) : more[o][i] = f.sector
    BY <1>6, <1>7, <2>2
  <2>4. QED
    BY <2>1, <2>3 DEF WrittenOn
<1>13. file'.sec_cnt > 0
  <2>1. f.sec_cnt \in Nat
    BY DEF FileTypes
  <2>2. QED
    BY <1>6, <1>10, <2>1
<1>14. error' \in {"", "dir full", "disk full", "terminated"}
  BY <1>1 DEF Types
<1>15. FilesIInv' /\ ClosedKept
  <2>1. file'.name = file.name /\ file'.file_no = o /\ free' \subseteq free
        /\ UNCHANGED <<usable, dir, dos_start, dos_file, created>>
    BY <1>6, <1>10
  <2>2. error' = "" /\ file'.first_sec # 0 => file'.sec_cnt > 0
    BY <1>13
  <2>3. QED
    BY <1>1, <1>7, <1>10, <1>11, <1>12, <1>14, <2>1, <2>2, FileStep
<1>16. QED
  BY <1>6, <1>10, <1>15 DEF Wrote

LEMMA WriteNextKeeps == FilesIInv /\ WriteNext => FilesIInv' /\ ClosedKept /\ Wrote
<1> SUFFICES ASSUME FilesIInv, WriteNext PROVE FilesIInv' /\ ClosedKept /\ Wrote
  OBVIOUS
<1>1. PICK next : next = First(free)
  OBVIOUS
<1>2. /\ Shape /\ MayWrite /\ file # NoFile /\ file.pos = PAYLOAD /\ file.first_sec # 0
      /\ free # {} /\ free' = free \ {next} /\ sec' = SectorWritten(file, next)
      /\ file' = WithByte(AfterWriteSec(file, next))
      /\ UNCHANGED <<usable, dir, dos_start, dos_file, created, error>>
  BY <1>1 DEF FilesIInv, WriteNext, MayWrite
<1>3. PICK path : Paths(path)
  BY DEF FilesIInv
<1>4. PICK o : o = file.file_no
  OBVIOUS
<1>5. file \in FileTypes /\ HoldsOpen(file, path[o], sec)
  BY <1>2, <1>3, <1>4, OpenFile
<1>6. path[o] # <<>>
  BY <1>2, <1>5 DEF HoldsOpen, HoldsSoFar, PathFrom
<1>7. next \in free
  BY <1>1, <1>2, TypeFacts, FirstFacts DEF Shape
<1>8. Layout(path, free) /\ SameBut(path, path, o) /\ free \subseteq free
  BY <1>3 DEF Paths, SameBut
<1>9. QED
  BY <1>2, <1>3, <1>4, <1>5, <1>6, <1>7, <1>8, ContinueKeeps

(* The first sector a file takes.                                          *)
LEMMA FirstOfFile ==
    ASSUME Shape, NEW path, Paths(path), file # NoFile, NEW o, o = file.file_no,
           file.pos > 0, file.first_sec = 0, NEW s \in free
    PROVE  /\ WithFirst(s) \in FileTypes
           /\ WithFirst(s).name = file.name /\ WithFirst(s).file_no = o
           /\ WithFirst(s).first_sec = s /\ WithFirst(s).sec_cnt = 0 /\ file.sec_cnt = 0
           /\ WithFirst(s).pos = file.pos /\ WithFirst(s).size = file.size
           /\ Layout(More(path, o, s), free \ {s}) /\ SameBut(path, More(path, o, s), o)
           /\ More(path, o, s)[o] = <<s>> /\ HoldsOpen(WithFirst(s), <<s>>, sec)
<1>1. file \in FileTypes /\ o \in Entries /\ HoldsOpen(file, path[o], sec)
      /\ path[o] \in Seq(usable)
  BY OpenFile
<1>2. Types /\ s \in usable /\ 0 \notin usable /\ free \in SUBSET usable
  BY TypeFacts DEF Shape
<1>3. path[o] = <<>>
  <2>1. path[o] # <<>> => path[o][1] \in usable
    BY <1>1
  <2>2. file.first_sec = IF path[o] = <<>> THEN 0 ELSE path[o][1]
    BY <1>1 DEF HoldsOpen, HoldsSoFar, PathFrom
  <2>3. QED
    BY <1>2, <2>1, <2>2
<1>4. sec[s].link = 0
  BY DEF Shape, FreshLinks
<1>5. HoldsOpen(file, <<>>, sec)
  BY <1>1, <1>3
<1>6. /\ WithFirst(s) \in FileTypes
      /\ WithFirst(s).name = file.name /\ WithFirst(s).file_no = file.file_no
      /\ WithFirst(s).first_sec = s /\ WithFirst(s).sec_cnt = 0 /\ file.sec_cnt = 0
      /\ WithFirst(s).pos = file.pos /\ WithFirst(s).size = file.size
      /\ HoldsOpen(WithFirst(s), <<s>>, sec)
  BY <1>1, <1>2, <1>4, <1>5, FirstTaken
<1>7. /\ Layout(More(path, o, s), free \ {s}) /\ SameBut(path, More(path, o, s), o)
      /\ More(path, o, s)[o] = Append(path[o], s)
  BY <1>1, <1>2, SectorTaken DEF Paths
<1>8. Append(<<>>, s) = <<s>>
  OBVIOUS
<1>9. QED
  BY <1>3, <1>6, <1>7, <1>8

LEMMA WriteSecondKeeps == FilesIInv /\ WriteSecond => FilesIInv' /\ ClosedKept /\ Wrote
<1> SUFFICES ASSUME FilesIInv, WriteSecond PROVE FilesIInv' /\ ClosedKept /\ Wrote
  OBVIOUS
<1>1. PICK s : s = First(free)
  OBVIOUS
<1>2. PICK next : next = First(free \ {s})
  OBVIOUS
<1>3. PICK f : f = WithFirst(s)
  OBVIOUS
<1>4. /\ Shape /\ Types /\ MayWrite /\ file # NoFile /\ file.pos = PAYLOAD /\ file.first_sec = 0
      /\ Cardinality(free) >= 2 /\ free' = free \ {s, next} /\ sec' = SectorWritten(f, next)
      /\ file' = WithByte(AfterWriteSec(f, next))
      /\ UNCHANGED <<usable, dir, dos_start, dos_file, created, error>>
  BY <1>1, <1>2, <1>3 DEF FilesIInv, Shape, WriteSecond, MayWrite
<1>5. PICK path : Paths(path)
  BY DEF FilesIInv
<1>6. PICK o : o = file.file_no
  OBVIOUS
<1>7. s \in free /\ next \in free \ {s}
  <2>1. free \subseteq Nat /\ IsFiniteSet(free)
    BY <1>4, TypeFacts, FS_Subset
  <2>2. free # {}
    BY <1>4, FS_EmptySet
  <2>3. s \in free
    BY <1>1, <2>1, <2>2, FirstFacts
  <2>4. Cardinality(free \ {s}) = Cardinality(free) - 1 /\ Cardinality(free) \in Nat
    BY <2>1, <2>3, CardTaken
  <2>5. Cardinality(free \ {s}) # 0
    BY <1>4, <2>4
  <2>6. free \ {s} # {}
    BY <2>5, FS_EmptySet
  <2> DEFINE T == free \ {s}
  <2>7. T \subseteq Nat /\ T # {} /\ next = First(T)
    BY <1>2, <2>1, <2>6
  <2> HIDE DEF T
  <2>8. next \in T
    BY <2>7, FirstFacts
  <2>9. QED
    BY <2>3, <2>8 DEF T
<1>8. file.pos > 0
  BY <1>4, ScaleFacts
<1> DEFINE mid == More(path, o, s)
           fr == free \ {s}
<1>9. /\ f \in FileTypes /\ f.name = file.name /\ f.file_no = o
      /\ f.pos = PAYLOAD /\ f.size = file.size
      /\ Layout(mid, fr) /\ SameBut(path, mid, o)
      /\ mid[o] = <<s>> /\ HoldsOpen(f, mid[o], sec)
  <2>1. /\ WithFirst(s) \in FileTypes
        /\ WithFirst(s).name = file.name /\ WithFirst(s).file_no = o
        /\ WithFirst(s).pos = file.pos /\ WithFirst(s).size = file.size
        /\ Layout(mid, fr) /\ SameBut(path, mid, o)
        /\ mid[o] = <<s>> /\ HoldsOpen(WithFirst(s), <<s>>, sec)
    BY <1>4, <1>5, <1>6, <1>7, <1>8, FirstOfFile
  <2> HIDE DEF mid, fr
  <2>2. QED
    BY <1>3, <1>4, <2>1
<1>10. fr \subseteq free /\ next \in fr /\ free' = fr \ {next} /\ mid[o] # <<>>
  BY <1>4, <1>7, <1>9
<1> HIDE DEF mid, fr
<1>11. QED
  BY <1>4, <1>5, <1>6, <1>9, <1>10, ContinueKeeps

LEMMA DiskFullKeeps ==
    FilesIInv /\ DiskFull => FilesIInv' /\ ClosedKept
                             /\ file' \in FileTypes /\ file'.name = file.name /\ file'.size = file.size
<1> SUFFICES ASSUME FilesIInv, DiskFull
             PROVE  /\ FilesIInv' /\ ClosedKept
                    /\ file' \in FileTypes /\ file'.name = file.name /\ file'.size = file.size
  OBVIOUS
<1>1. /\ Shape /\ Types /\ file # NoFile /\ file.pos = PAYLOAD /\ error' = "disk full"
      /\ Cardinality(free) < (IF file.first_sec = 0 THEN 2 ELSE 1)
      /\ free' = {} /\ file' = IF free = {} THEN file ELSE WithFirst(First(free))
      /\ UNCHANGED <<usable, sec, dir, dos_start, dos_file, created>>
  BY DEF FilesIInv, Shape, DiskFull, MayWrite
<1>2. error' \in {"", "dir full", "disk full", "terminated"} /\ error' # "" /\ ~Running'
  BY <1>1 DEF Running
<1>3. file \in FileTypes /\ free \subseteq usable /\ free \subseteq Nat /\ IsFiniteSet(free)
  BY <1>1, TypeFacts, FS_Subset
<1>4. CASE free = {}
  <2>1. UNCHANGED <<usable, free, sec, dir, file, created>> /\ DosKept
    BY <1>1, <1>4 DEF DosKept
  <2>2. FilesIInv' /\ ClosedKept
    BY <1>2, <2>1, AllSame
  <2>3. QED
    BY <1>3, <2>1, <2>2
<1>5. CASE free # {}
  <2>1. PICK s : s = First(free)
    OBVIOUS
  <2>2. PICK path : Paths(path)
    BY DEF FilesIInv
  <2>3. PICK o : o = file.file_no
    OBVIOUS
  <2>4. s \in free
    BY <1>3, <1>5, <2>1, FirstFacts
  <2>5. /\ Cardinality(free \ {s}) = Cardinality(free) - 1 /\ Cardinality(free) \in Nat
        /\ Cardinality(free) > 0 /\ IsFiniteSet(free \ {s})
    BY <1>3, <2>4, CardTaken
  <2>6. file.first_sec = 0 /\ Cardinality(free \ {s}) = 0
    <3>1. Cardinality(free) < (IF file.first_sec = 0 THEN 2 ELSE 1)
      BY <1>1
    <3>2. QED
      BY <2>5, <3>1
  <2>7. free \ {s} = {}
    BY <2>5, <2>6, FS_EmptySet
  <2>8. file.pos > 0
    <3>1. file.pos = PAYLOAD
      BY <1>1
    <3>2. QED
      BY <3>1, ScaleFacts
  <2> DEFINE more == More(path, o, s)
  <2>9. /\ file' = WithFirst(s) /\ file' \in FileTypes
        /\ file'.name = file.name /\ file'.file_no = o /\ file'.size = file.size
        /\ Layout(more, free \ {s}) /\ SameBut(path, more, o)
        /\ HoldsOpen(file', more[o], sec)
    <3>1. /\ WithFirst(s) \in FileTypes
          /\ WithFirst(s).name = file.name /\ WithFirst(s).file_no = o
          /\ WithFirst(s).size = file.size
          /\ Layout(more, free \ {s}) /\ SameBut(path, more, o)
          /\ more[o] = <<s>> /\ HoldsOpen(WithFirst(s), <<s>>, sec)
      <4>1. Shape /\ file # NoFile /\ file.first_sec = 0
        BY <1>1, <2>6
      <4>2. QED
        BY <2>2, <2>3, <2>4, <2>8, <4>1, FirstOfFile
    <3>2. file' = WithFirst(s)
      BY <1>1, <1>5, <2>1
    <3> HIDE DEF more
    <3>3. QED
      BY <3>1, <3>2
  <2> HIDE DEF more
  <2>10. /\ Layout(more, free') /\ HoldsOpen(file', more[o], sec')
         /\ free' \subseteq free /\ WrittenOn(more[o]) /\ sec' \in [usable -> Sectors]
    BY <1>1, <2>7, <2>9, TypeFacts DEF WrittenOn
  <2>11. error' = "" /\ file'.first_sec # 0 => file'.sec_cnt > 0
    BY <1>2
  <2>12. FilesIInv' /\ ClosedKept
    BY <1>1, <1>2, <2>2, <2>3, <2>9, <2>10, <2>11, FileStep
  <2>13. QED
    BY <2>9, <2>12
<1>6. QED
  BY <1>4, <1>5

LEMMA CreateFileKeeps ==
    FilesIInv /\ CreateFile =>
        /\ FilesIInv' /\ ClosedKept
        /\ \A k \in Entries : InUse(k)' => InUse(k)
        /\ file' \in FileTypes /\ file'.name = created + 1 /\ file'.size = 0
<1> SUFFICES ASSUME FilesIInv, CreateFile
             PROVE  /\ FilesIInv' /\ ClosedKept
                    /\ \A k \in Entries : InUse(k)' => InUse(k)
                    /\ file' \in FileTypes /\ file'.name = created + 1 /\ file'.size = 0
  OBVIOUS
<1>1. PICK o : o = First(FreeEntries)
  OBVIOUS
<1>2. PICK n : n = created + 1
  OBVIOUS
<1> DEFINE x == [flag |-> "opened", name |-> n, start |-> 0, count |-> 0]
<1>3. /\ Shape /\ Types /\ file = NoFile /\ created < MaxCreated /\ FreeEntries # {}
      /\ dir' = [dir EXCEPT ![o] = x]
      /\ file' = [name |-> n, file_no |-> o, first_sec |-> 0,
                  sector |-> 0, sec_cnt |-> 0, pos |-> 0, buf |-> NoBytes, size |-> 0]
      /\ created' = n
      /\ UNCHANGED <<usable, free, sec, dos_start, dos_file, error>>
  BY <1>1, <1>2 DEF FilesIInv, Shape, CreateFile, MayCreate
<1>4. PICK path : Paths(path)
  BY DEF FilesIInv
<1>5. o \in Entries /\ ~Used(o) /\ \A j \in Entries : j < o => Used(j)
  <2>1. FreeEntries \subseteq Nat
    BY EntryFacts DEF FreeEntries
  <2>2. o \in FreeEntries /\ \A j \in FreeEntries : o <= j
    BY <1>1, <1>3, <2>1, FirstFacts
  <2>3. o \in Entries /\ ~Used(o)
    BY <2>2 DEF FreeEntries, Used
  <2>4. ASSUME NEW j \in Entries, j < o PROVE Used(j)
    <3>1. j \in Nat /\ o \in Nat
      BY <2>3, EntryFacts
    <3>2. j \notin FreeEntries
      BY <2>2, <2>4, <3>1
    <3>3. QED
      BY <3>2 DEF FreeEntries, Used
  <2>5. QED
    BY <2>3, <2>4
<1>6. created \in Nat /\ n \in Nat /\ n \in 0 .. MaxCreated /\ n \in 1 .. n
  BY <1>2, <1>3, TypeFacts, ScaleFacts
<1>7. 0 \in Links /\ 0 \in 0 .. PAYLOAD /\ 0 \in 0 .. MaxBytes
  BY ScaleFacts DEF Links
<1>8. x \in EntryTypes /\ x.flag = "opened" /\ x.name = n
  BY <1>6, <1>7 DEF EntryTypes
<1> HIDE DEF x
<1>9. /\ dir' \in [Entries -> EntryTypes] /\ dir'[o] = x
      /\ \A k \in Entries : k # o => dir'[k] = dir[k]
  BY <1>3, <1>5, <1>8, TypeFacts
<1>10. /\ file' \in FileTypes /\ file'.name = n /\ file'.file_no = o /\ file'.first_sec = 0
       /\ file'.sec_cnt = 0 /\ file'.pos = 0 /\ file'.size = 0
  <2>1. NoBytes \in Buffers
    <3>1. 0 \in 0 .. MaxCreated /\ 0 \in 0 .. MaxBytes
      BY ScaleFacts
    <3>2. QED
      BY <3>1 DEF NoBytes, Buffers, FileBytes, ZERO
  <2>2. QED
    BY <1>3, <1>5, <1>6, <1>7, <2>1 DEF FileTypes
<1>11. file' # NoFile
  BY <1>3, <1>10, TypeFacts
<1>12. /\ Used(o)' /\ ~InUse(o)' /\ ~InUse(o)
       /\ \A k \in Entries : k # o => (Used(k)' <=> Used(k)) /\ (InUse(k)' <=> InUse(k))
  BY <1>5, <1>8, <1>9 DEF Used, InUse
<1>13. Types'
  <2>1. Links' = Links /\ Sectors' = Sectors /\ EntryTypes' = EntryTypes
        /\ FileTypes' = FileTypes
    BY <1>3 DEF Links, Sectors, EntryTypes, FileTypes
  <2>2. QED
    BY <1>3, <1>6, <1>9, <1>10, <2>1 DEF Types
<1>14. EntriesNamed'
  <2>1. \A k \in Entries : Used(k) => dir[k].name \in 1 .. created
    BY <1>3 DEF Shape, EntriesNamed
  <2>2. \A k \in Entries : Used(k) => dir[k].name \in 1 .. n /\ dir[k].name # n
    BY <1>2, <1>6, <2>1
  <2>3. \A k \in Entries : dir[k].flag # "opened"
    BY <1>3 DEF Shape, EntriesNamed
  <2>4. \A k \in Entries : Used(k)' => dir'[k].name \in 1 .. n
    BY <1>6, <1>8, <1>9, <1>12, <2>2
  <2>5. ASSUME NEW k \in Entries, NEW l \in Entries, Used(k)', Used(l)', dir'[k].name = dir'[l].name
        PROVE  k = l
    <3>1. CASE k = o \/ l = o
      BY <1>8, <1>9, <1>12, <2>2, <2>5, <3>1
    <3>2. CASE k # o /\ l # o
      BY <1>3, <1>9, <1>12, <2>5, <3>2 DEF Shape, EntriesNamed
    <3>3. QED
      BY <3>1, <3>2
  <2>6. \A k \in Entries : dir'[k].flag = "opened" <=> file' # NoFile /\ k = file'.file_no
    BY <1>8, <1>9, <1>10, <1>11, <2>3
  <2>7. dir'[file'.file_no].name = file'.name
    BY <1>8, <1>9, <1>10
  <2>8. QED
    BY <1>3, <2>4, <2>5, <2>6, <2>7 DEF EntriesNamed
<1>15. EntriesInOrder'
  <2>1. ASSUME NEW j \in Entries, NEW k \in Entries, j < k, Used(k)' PROVE Used(j)'
    <3>1. j \in Nat /\ k \in Nat /\ o \in Nat
      BY <1>5, EntryFacts
    <3>2. CASE k = o
      BY <1>5, <1>12, <2>1, <3>1, <3>2
    <3>3. CASE k # o
      <4>1. Used(k)
        BY <1>12, <2>1, <3>3
      <4>2. Used(j)
        BY <1>3, <2>1, <4>1 DEF Shape, EntriesInOrder
      <4>3. QED
        BY <1>12, <4>2
    <3>4. QED
      BY <3>2, <3>3
  <2>2. QED
    BY <2>1 DEF EntriesInOrder
<1>16. FreshLinks' /\ FirstWritten'
  BY <1>3, <1>10 DEF Shape, FreshLinks, FirstWritten
<1>17. DosHeld'
  <2>1. \A k \in Entries : IsDosFile(k) => IsDosFile(k)'
    <3>1. ASSUME NEW k \in Entries, IsDosFile(k) PROVE IsDosFile(k)'
      <4>1. InUse(k) /\ k # o
        BY <1>12, <3>1 DEF IsDosFile
      <4>2. dir'[k] = dir[k] /\ InUse(k)'
        BY <1>9, <1>12, <4>1
      <4>3. QED
        BY <1>3, <3>1, <4>2 DEF IsDosFile
    <3>2. QED
      BY <3>1
  <2>2. QED
    BY <1>3, <2>1 DEF Shape, DosHeld
<1>18. Paths(path)'
  <2>1. PathFunctions' = PathFunctions
    BY <1>3 DEF PathFunctions
  <2>2. Layout(path, free)'
    BY <1>3, <1>4, <2>1 DEF Paths, Layout, PathsTaken, PathsApart, AllHeld
  <2>3. path[o] = <<>>
    BY <1>4, <1>5 DEF Paths, FilesHeld
  <2>4. HoldsOpen(file', <<>>, sec')
    <3>1. PathFrom(<<>>, file'.first_sec, LinkOf(sec'))
      BY <1>10 DEF PathFrom
    <3>2. file'.size = file'.sec_cnt * PAYLOAD + file'.pos
      BY <1>10, ScaleFacts
    <3>3. \A i \in 1 .. Len(<<>>) : FALSE
      OBVIOUS
    <3>4. \A j \in 1 .. file'.pos : FALSE
      BY <1>10
    <3>5. HoldsSoFar(file', <<>>, sec')
      BY <1>10, <3>1, <3>2, <3>3, <3>4 DEF HoldsSoFar
    <3>6. QED
      BY <3>5 DEF HoldsOpen
  <2>5. ASSUME NEW k \in Entries
        PROVE  /\ ~Used(k)' => path[k] = <<>>
               /\ InUse(k)' => \E rest \in 1 .. PAYLOAD : HoldsClosed(dir'[k], path[k], sec', rest)
               /\ dir'[k].flag = "opened" => HoldsOpen(file', path[k], sec')
    <3>1. CASE k = o
      BY <1>12, <2>3, <2>4, <3>1
    <3>2. CASE k # o
      <4>1. /\ ~Used(k) => path[k] = <<>>
            /\ InUse(k) => \E rest \in 1 .. PAYLOAD : HoldsClosed(dir[k], path[k], sec, rest)
        BY <1>4 DEF Paths, FilesHeld
      <4>2. dir[k].flag # "opened"
        BY <1>3 DEF Shape, EntriesNamed
      <4>3. QED
        BY <1>3, <1>9, <1>12, <3>2, <4>1, <4>2
    <3>3. QED
      BY <3>1, <3>2
  <2>6. FilesHeld(path)'
    BY <2>5 DEF FilesHeld
  <2>7. QED
    BY <2>2, <2>6 DEF Paths
<1>19. ClosedKept
  <2>1. \A k \in Entries : InUse(k) => dir'[k] = dir[k]
    BY <1>9, <1>12
  <2>2. QED
    BY <1>3, <1>4, <2>1, KeptWhenSame
<1>20. \A k \in Entries : InUse(k)' => InUse(k)
  BY <1>12
<1>21. QED
  BY <1>2, <1>10, <1>13, <1>14, <1>15, <1>16, <1>17, <1>18, <1>19, <1>20
     DEF FilesIInv, Shape

(* The entry of a file is closed; it says what its sectors are.            *)
Closes(o) ==
    /\ FilesIInv' /\ ClosedKept
    /\ o \in Entries /\ InUse(o)' /\ ~InUse(o) /\ dir'[o].name = file.name
    /\ \A k \in Entries : k # o => dir'[k] = dir[k]
    /\ \E c \in Seq(usable), rest \in 1 .. PAYLOAD :
           HoldsClosed(dir'[o], c, sec', rest) /\ HeldBytes(c, PAYLOAD, rest) = file.size

LastCount(f) == IF f.pos > 0 THEN f.sec_cnt + 1 ELSE f.sec_cnt
InDir(x, f) ==
    /\ x \in EntryTypes
    /\ x.flag = "in use" /\ x.name = f.name /\ x.start = f.first_sec /\ x.count = LastCount(f)
DosNamed(x) ==
    \/ dos_start' = dos_start /\ dos_file' = dos_file
    \/ dos_start' = (IF x.count <= 1 THEN 0 ELSE x.start) /\ dos_file' = x.name

(* What the sectors of the file hold when its last one is written.         *)
LEMMA LastWritten ==
    ASSUME Types, NEW f \in FileTypes, NEW c \in Seq(usable), Single(c),
           HoldsOpen(f, c, sec), f.pos > 0 => c # <<>>,
           NEW x, InDir(x, f),
           sec' = IF f.pos > 0 THEN SectorWritten(f, 0) ELSE sec
    PROVE  /\ sec' \in [usable -> Sectors] /\ WrittenOn(c)
           /\ \E rest \in 1 .. PAYLOAD :
                  HoldsClosed(x, c, sec', rest) /\ HeldBytes(c, PAYLOAD, rest) = f.size
<1>1. x.name = f.name /\ x.start = f.first_sec /\ x.count = LastCount(f)
  BY DEF InDir
<1>2. f.pos \in 0 .. PAYLOAD /\ f.sec_cnt \in Nat /\ f.sec_cnt + 0 = f.sec_cnt
  BY DEF FileTypes
<1>3. CASE f.pos > 0
  <2>1. f.pos \in 1 .. PAYLOAD /\ c # <<>> /\ x.count = f.sec_cnt + 1
    BY <1>1, <1>2, <1>3, ScaleFacts DEF LastCount
  <2>2. /\ f.sector \in usable /\ f.sector = c[Len(c)]
        /\ HoldsClosed(x, c, SectorWritten(f, 0), f.pos)
        /\ HeldBytes(c, PAYLOAD, f.pos) = f.size
    BY <1>1, <1>3, <2>1, Finished
  <2>3. 0 \in Links /\ sec' = SectorWritten(f, 0)
    BY <1>3 DEF Links
  <2>4. /\ sec' \in [usable -> Sectors]
        /\ \A t \in usable : t # f.sector => sec'[t] = sec[t]
    BY <2>2, <2>3, SectorPut
  <2>5. Len(c) \in 1 .. Len(c)
    BY <2>1
  <2>6. WrittenOn(c)
    BY <2>2, <2>4, <2>5 DEF WrittenOn
  <2>7. QED
    BY <2>1, <2>2, <2>3, <2>4, <2>6
<1>4. CASE ~(f.pos > 0)
  <2>1. f.pos = 0 /\ sec' = sec /\ x.count = f.sec_cnt
    BY <1>1, <1>2, <1>4, ScaleFacts DEF LastCount
  <2>2. c = <<>> /\ f.sec_cnt = 0 /\ PathFrom(c, x.start, LinkOf(sec))
        /\ f.size = f.sec_cnt * PAYLOAD + f.pos
    BY <1>1, <1>4 DEF HoldsOpen, HoldsSoFar
  <2>3. f.size = 0 /\ x.count = 0
    BY <2>1, <2>2, ScaleFacts
  <2>4. Len(c) = 0 /\ \A i \in 1 .. Len(c) : FALSE
    BY <2>2
  <2>5. HoldsBytes(c, sec, x.name, PAYLOAD, 1)
    BY <2>4, Zenon DEF HoldsBytes
  <2>6. HoldsClosed(x, c, sec', 1)
    BY <2>1, <2>2, <2>3, <2>4, <2>5 DEF HoldsClosed
  <2>7. HeldBytes(c, PAYLOAD, 1) = f.size /\ 1 \in 1 .. PAYLOAD
    BY <2>2, <2>3, ScaleFacts DEF HeldBytes
  <2>8. sec' \in [usable -> Sectors] /\ WrittenOn(c)
    BY <2>1, TypeFacts DEF WrittenOn
  <2>9. QED
    BY <2>6, <2>7, <2>8
<1>5. QED
  BY <1>3, <1>4

LEMMA CloseEnds ==
    ASSUME Shape, NEW path, Paths(path), file # NoFile, NEW o, o = file.file_no,
           UNCHANGED <<usable, created, error>>, file' = NoFile,
           NEW f \in FileTypes, f.name = file.name, f.file_no = o, f.size = file.size,
           NEW mid, Layout(mid, free'), free' \subseteq free, SameBut(path, mid, o),
           HoldsOpen(f, mid[o], sec), f.pos > 0 => mid[o] # <<>>,
           NEW x, InDir(x, f), dir' = [dir EXCEPT ![o] = x],
           sec' = IF f.pos > 0 THEN SectorWritten(f, 0) ELSE sec,
           DosNamed(x)
    PROVE  Closes(o)
<1>1. /\ usable' = usable /\ created' = created /\ error' = error
      /\ o \in Entries /\ Types
      /\ dir[o].flag = "opened" /\ dir[o].name = file.name
      /\ \A k \in Entries : k # o => dir[k].flag # "opened"
  BY OpenFile DEF Shape
<1>2. x \in EntryTypes /\ x.flag = "in use" /\ x.name = f.name /\ x.start = f.first_sec
  BY DEF InDir
<1>3. /\ dir' \in [Entries -> EntryTypes] /\ dir'[o] = x
      /\ \A k \in Entries : k # o => dir'[k] = dir[k]
  BY <1>1, <1>2, TypeFacts
<1>4. mid[o] \in Seq(usable) /\ Single(mid[o])
  BY <1>1, PathFacts
<1>5. /\ sec' \in [usable -> Sectors] /\ WrittenOn(mid[o])
      /\ \E rest \in 1 .. PAYLOAD :
             HoldsClosed(x, mid[o], sec', rest) /\ HeldBytes(mid[o], PAYLOAD, rest) = f.size
  BY <1>1, <1>4, LastWritten
<1>6. /\ Used(o)' /\ Used(o) /\ InUse(o)' /\ ~InUse(o)
      /\ \A k \in Entries : k # o => (Used(k)' <=> Used(k)) /\ (InUse(k)' <=> InUse(k))
  BY <1>1, <1>2, <1>3 DEF Used, InUse
<1>7. \A k \in Entries : k # o /\ InUse(k) => HeldStill(dir[k], mid[k])
  <2>1. DOMAIN sec' = usable
    BY <1>5
  <2>2. QED
    BY <1>1, <1>5, <2>1, OthersKept
<1>8. file.name \in 1 .. created /\ file.name \in 0 .. MaxCreated /\ file.name # 0
  <2>1. file.name \in 1 .. created
    BY <1>1, <1>6 DEF Shape, EntriesNamed
  <2>2. created \in 0 .. MaxCreated
    BY <1>1 DEF Types
  <2>3. QED
    BY <2>1, <2>2, ScaleFacts
<1>9. ClosedKept
  <2>1. ASSUME NEW k \in Entries, InUse(k)
        PROVE  dir'[k] = dir[k] /\ \E c \in Seq(usable) : HeldStill(dir[k], c)
    <3>1. k # o /\ mid[k] \in Seq(usable)
      BY <1>6, <2>1, PathFacts
    <3>2. QED
      BY <1>3, <1>7, <2>1, <3>1
  <2>2. QED
    BY <2>1 DEF ClosedKept
<1>10. Types'
  <2>1. Links' = Links /\ Sectors' = Sectors /\ EntryTypes' = EntryTypes
        /\ FileTypes' = FileTypes
    BY <1>1 DEF Links, Sectors, EntryTypes, FileTypes
  <2>2. dos_start' \in Links \cup BootWords /\ dos_file' \in 0 .. MaxCreated
    <3>1. dos_start \in Links \cup BootWords /\ dos_file \in 0 .. MaxCreated
      BY <1>1 DEF Types
    <3>2. 0 \in Links /\ x.start \in Links /\ x.name \in 0 .. MaxCreated
      BY <1>2, <1>8 DEF Links, EntryTypes
    <3>3. QED
      BY <3>1, <3>2 DEF DosNamed
  <2>3. free' \subseteq usable
    BY <1>1 DEF Types
  <2>4. QED
    BY <1>1, <1>3, <1>5, <2>1, <2>2, <2>3 DEF Types
<1>11. EntriesNamed'
  <2>1. \A k \in Entries : dir'[k].name = dir[k].name /\ (Used(k)' <=> Used(k))
    BY <1>1, <1>2, <1>3, <1>6
  <2>2. \A k \in Entries : dir'[k].flag # "opened"
    BY <1>1, <1>2, <1>3
  <2>3. QED
    BY <1>1, <2>1, <2>2 DEF Shape, EntriesNamed
<1>12. EntriesInOrder'
  BY <1>6 DEF Shape, EntriesInOrder
<1>13. FreshLinks' /\ FirstWritten'
  <2>1. ASSUME NEW s \in free' PROVE sec'[s].link = 0
    <3>1. s \in free /\ s \in usable
      BY <1>1 DEF Types
    <3>2. \A i \in 1 .. Len(mid[o]) : mid[o][i] # s
      BY <1>1 DEF Layout, PathsTaken
    <3>3. sec'[s] = sec[s]
      BY <1>5, <3>1, <3>2 DEF WrittenOn
    <3>4. QED
      BY <3>1, <3>3 DEF Shape, FreshLinks
  <2>2. QED
    BY <2>1 DEF FreshLinks, FirstWritten
<1>14. DosHeld'
  <2>1. CASE dos_start' = dos_start /\ dos_file' = dos_file
    <3>1. ASSUME NEW k \in Entries, IsDosFile(k) PROVE IsDosFile(k)'
      <4>1. InUse(k) /\ k # o
        BY <1>6, <3>1 DEF IsDosFile
      <4>2. dir'[k] = dir[k] /\ InUse(k)'
        BY <1>3, <1>6, <4>1
      <4>3. QED
        BY <2>1, <3>1, <4>2 DEF IsDosFile
    <3>2. QED
      BY <2>1, <3>1 DEF Shape, DosHeld
  <2>2. CASE dos_start' = (IF x.count <= 1 THEN 0 ELSE x.start) /\ dos_file' = x.name
    <3>1. IsDosFile(o)'
      BY <1>3, <1>6, <2>2 DEF IsDosFile
    <3>2. dos_file' # 0
      BY <1>2, <1>8, <2>2
    <3>3. QED
      BY <1>1, <3>1, <3>2 DEF DosHeld
  <2>3. QED
    BY <2>1, <2>2 DEF DosNamed
<1>15. Paths(mid)'
  <2>1. PathFunctions' = PathFunctions
    BY <1>1 DEF PathFunctions
  <2>2. Layout(mid, free)'
    BY <1>1, <2>1 DEF Layout, PathsTaken, PathsApart, AllHeld
  <2>3. ASSUME NEW k \in Entries
        PROVE  /\ ~Used(k)' => mid[k] = <<>>
               /\ InUse(k)' => \E rest \in 1 .. PAYLOAD : HoldsClosed(dir'[k], mid[k], sec', rest)
               /\ dir'[k].flag # "opened"
    <3>1. CASE k = o
      BY <1>2, <1>3, <1>5, <1>6, <3>1
    <3>2. CASE k # o
      <4>1. ~Used(k) => mid[k] = <<>>
        BY <3>2 DEF Paths, FilesHeld, SameBut
      <4>2. QED
        BY <1>1, <1>3, <1>6, <1>7, <3>2, <4>1 DEF HeldStill
    <3>3. QED
      BY <3>1, <3>2
  <2>4. FilesHeld(mid)'
    BY <2>3 DEF FilesHeld
  <2>5. QED
    BY <2>2, <2>4 DEF Paths
<1>16. FilesIInv'
  BY <1>10, <1>11, <1>12, <1>13, <1>14, <1>15 DEF FilesIInv, Shape
<1>17. \E c \in Seq(usable), rest \in 1 .. PAYLOAD :
           HoldsClosed(dir'[o], c, sec', rest) /\ HeldBytes(c, PAYLOAD, rest) = file.size
  BY <1>3, <1>4, <1>5
<1>18. QED
  BY <1>1, <1>2, <1>3, <1>6, <1>9, <1>16, <1>17 DEF Closes

LEMMA CloseFacts ==
    ASSUME FilesIInv, Close
    PROVE  Closes(file.file_no)
<1>1. Shape /\ Types /\ Running /\ file # NoFile /\ file' = NoFile
      /\ UNCHANGED <<usable, created, error>> /\ (AllocatesLate => free # {})
  BY DEF FilesIInv, Shape, Close
<1>2. PICK path : Paths(path)
  BY DEF FilesIInv
<1>3. PICK o : o = file.file_no
  OBVIOUS
<1>4. PICK f : f = IF AllocatesLate THEN WithFirst(First(free)) ELSE file
  OBVIOUS
<1>5. /\ file \in FileTypes /\ o \in Entries /\ HoldsOpen(file, path[o], sec)
      /\ path[o] \in Seq(usable) /\ dir[o].name = file.name
  BY <1>1, <1>2, <1>3, OpenFile
<1> DEFINE closed == IF f.pos > 0 THEN AfterWriteSec(f, 0) ELSE f
           x == [dir[o] EXCEPT !.flag = "in use", !.start = closed.first_sec,
                               !.count = closed.sec_cnt]
(* The sectors of the file, with the one it takes last.                    *)
<1>6. /\ f \in FileTypes /\ f.name = file.name /\ f.file_no = o
      /\ f.size = file.size /\ free' \subseteq free
      /\ \E mid : /\ Layout(mid, free') /\ SameBut(path, mid, o)
                  /\ HoldsOpen(f, mid[o], sec) /\ (f.pos > 0 => mid[o] # <<>>)
      /\ file.first_sec = IF LastCount(f) <= 1 THEN 0 ELSE f.first_sec
  <2>1. free' = free \ {f.first_sec}
    BY <1>4 DEF Close
  <2>2. CASE AllocatesLate
    <3>1. PICK s : s = First(free)
      OBVIOUS
    <3>2. s \in free /\ file.pos > 0 /\ file.first_sec = 0
      BY <1>1, <2>2, <3>1, TypeFacts, FirstFacts DEF AllocatesLate
    <3> DEFINE mid == More(path, o, s)
    <3>3. /\ WithFirst(s) \in FileTypes
          /\ WithFirst(s).name = file.name /\ WithFirst(s).file_no = o
          /\ WithFirst(s).first_sec = s /\ WithFirst(s).sec_cnt = 0
          /\ WithFirst(s).size = file.size /\ WithFirst(s).pos = file.pos
          /\ Layout(mid, free \ {s}) /\ SameBut(path, mid, o)
          /\ mid[o] = <<s>> /\ HoldsOpen(WithFirst(s), <<s>>, sec)
      BY <1>1, <1>2, <1>3, <3>2, FirstOfFile
    <3>4. f = WithFirst(s)
      BY <1>4, <2>2, <3>1
    <3> HIDE DEF mid
    <3>5. Layout(mid, free') /\ HoldsOpen(f, mid[o], sec) /\ mid[o] # <<>>
      BY <2>1, <3>3, <3>4
    <3>6. LastCount(f) = 1
      BY <3>2, <3>3, <3>4 DEF LastCount
    <3>7. \E d : /\ Layout(d, free') /\ SameBut(path, d, o)
                 /\ HoldsOpen(f, d[o], sec) /\ (f.pos > 0 => d[o] # <<>>)
      BY <3>3, <3>5
    <3>8. file.first_sec = IF LastCount(f) <= 1 THEN 0 ELSE f.first_sec
      BY <3>2, <3>6
    <3>9. f \in FileTypes /\ f.name = file.name /\ f.file_no = o /\ f.size = file.size
      BY <3>3, <3>4
    <3>10. free' \subseteq free
      BY <2>1
    <3>11. QED
      BY <3>7, <3>8, <3>9, <3>10, Zenon
  <2>3. CASE ~AllocatesLate
    <3>1. f = file /\ file.pos \in Nat /\ file.sec_cnt \in Nat
      <4>1. file.pos \in 0 .. PAYLOAD /\ file.sec_cnt \in Nat
        BY <1>5 DEF FileTypes
      <4>2. QED
        BY <1>4, <2>3, <4>1, ScaleFacts
    <3>2. PathFrom(path[o], file.first_sec, LinkOf(sec)) /\ Layout(path, free)
      BY <1>2, <1>5 DEF Paths, HoldsOpen, HoldsSoFar
    <3>3. CASE path[o] = <<>>
      <4>1. file.first_sec = 0 /\ file.sec_cnt = 0
        BY <1>5, <3>2, <3>3 DEF HoldsOpen, HoldsSoFar, PathFrom
      <4>2. ~(f.pos > 0)
        BY <2>3, <3>1, <4>1 DEF AllocatesLate
      <4>3. 0 \notin free /\ LastCount(f) = 0
        BY <1>1, <3>1, <4>1, <4>2, TypeFacts DEF LastCount
      <4>4. free' = free
        BY <2>1, <3>1, <4>1, <4>3
      <4>5. SameBut(path, path, o)
        BY DEF SameBut
      <4>6. QED
        BY <1>3, <1>5, <3>1, <3>2, <4>1, <4>2, <4>3, <4>4, <4>5
    <3>4. CASE path[o] # <<>>
      <4>1. file.pos > 0 /\ file.first_sec = path[o][1] /\ 1 \in 1 .. Len(path[o])
        BY <1>5, <3>2, <3>4 DEF HoldsOpen, PathFrom
      <4>2. file.first_sec \in usable /\ file.first_sec \notin free /\ file.first_sec # 0
        BY <1>1, <1>5, <3>2, <4>1, PathFacts, TypeFacts
      <4>3. file.sec_cnt > 0
        BY <1>1, <4>2 DEF Shape, FirstWritten
      <4>4. ~(LastCount(f) <= 1)
        BY <3>1, <4>1, <4>3 DEF LastCount
      <4>5. free' = free
        BY <2>1, <3>1, <4>2
      <4>6. SameBut(path, path, o)
        BY DEF SameBut
      <4>7. QED
        BY <1>3, <1>5, <3>1, <3>2, <3>4, <4>4, <4>5, <4>6
    <3>5. QED
      BY <3>3, <3>4
  <2>4. QED
    BY <2>2, <2>3
<1>7. dir' = [dir EXCEPT ![o] = x]
      /\ sec' = IF f.pos > 0 THEN SectorWritten(f, 0) ELSE sec
  <2>1. f.file_no = o
    BY <1>6
  <2>2. QED
    BY <1>4, <2>1 DEF Close
<1>8. InDir(x, f)
  <2>1. f.first_sec \in Links /\ f.sec_cnt \in Nat
    BY <1>6 DEF FileTypes
  <2>2. closed.first_sec = f.first_sec /\ closed.sec_cnt = LastCount(f) /\ LastCount(f) \in Nat
    <3>1. AfterWriteSec(f, 0).first_sec = f.first_sec
          /\ AfterWriteSec(f, 0).sec_cnt = f.sec_cnt + 1
      BY <1>6 DEF AfterWriteSec, FileTypes
    <3>2. QED
      BY <2>1, <3>1 DEF LastCount
  <2>3. dir[o] \in EntryTypes
    BY <1>1, <1>5, TypeFacts
  <2> HIDE DEF closed
  <2>4. /\ x \in EntryTypes /\ x.flag = "in use" /\ x.name = dir[o].name
        /\ x.start = closed.first_sec /\ x.count = closed.sec_cnt
    BY <2>1, <2>2, <2>3 DEF EntryTypes
  <2> HIDE DEF x
  <2>5. QED
    BY <1>5, <1>6, <2>2, <2>4 DEF InDir
<1> HIDE DEF x
<1>9. DosNamed(x)
  <2>1. PICK is_dos \in BOOLEAN :
            /\ dos_start' = IF is_dos THEN file.first_sec ELSE dos_start
            /\ dos_file' = IF is_dos THEN file.name ELSE dos_file
    BY DEF Close, DosSector
  <2>2. x.count = LastCount(f) /\ x.start = f.first_sec /\ x.name = file.name
    BY <1>6, <1>8 DEF InDir
  <2>3. QED
    BY <1>6, <2>1, <2>2 DEF DosNamed
<1>10. PICK mid : /\ Layout(mid, free') /\ SameBut(path, mid, o)
                  /\ HoldsOpen(f, mid[o], sec) /\ (f.pos > 0 => mid[o] # <<>>)
  BY <1>6
<1>11. Closes(o)
  BY <1>1, <1>2, <1>3, <1>6, <1>7, <1>8, <1>9, <1>10, CloseEnds
<1>12. QED
  BY <1>3, <1>11

LEMMA FilesStep == FilesIInv /\ [Next]_vars => FilesIInv'
<1> SUFFICES ASSUME FilesIInv, [Next]_vars PROVE FilesIInv'
  OBVIOUS
<1>1. error \in {"", "dir full", "disk full", "terminated"}
  BY DEF FilesIInv, Shape, Types
<1>2. CASE CreateFile
  BY <1>2, CreateFileKeeps
<1>3. CASE DirFull
  BY <1>3, AllSame DEF DirFull, Running, DosKept
<1>4. CASE WriteByte
  BY <1>4, WriteByteKeeps
<1>5. CASE WriteSecond
  BY <1>5, WriteSecondKeeps
<1>6. CASE WriteNext
  BY <1>6, WriteNextKeeps
<1>7. CASE DiskFull
  BY <1>7, DiskFullKeeps
<1>8. CASE Close
  BY <1>8, CloseFacts DEF Closes
<1>9. CASE Terminate
  BY <1>9, AllSame DEF Terminate, Running, DosKept
<1>10. CASE UNCHANGED vars
  BY <1>1, <1>10, AllSame DEF vars, Running, DosKept
<1>11. CASE Boot
  BY <1>1, <1>11, AllSame DEF Boot, Running, DosOfBoot
<1>12. QED
  BY <1>2, <1>3, <1>4, <1>5, <1>6, <1>7, <1>8, <1>9, <1>10, <1>11 DEF Next

LEMMA FilesInduction == Spec => []FilesIInv
BY InitHolds, FilesStep, PTL DEF Spec

-----------------------------------------------------------------------------
(* What the invariant says of the disk and of what is read from it.        *)
LEMMA PathFits ==
    ASSUME FilesIInv, NEW path, Paths(path), NEW k \in Entries
    PROVE  Len(path[k]) \in Nat /\ Len(path[k]) <= Cardinality(usable)
<1>1. path[k] \in Seq(usable) /\ Single(path[k]) /\ IsFiniteSet(usable)
  BY PathFacts, TypeFacts DEF Paths, FilesIInv, Shape
<1>2. PICK c : c = path[k]
  OBVIOUS
<1>3. c \in Seq(usable) /\ \A i, j \in 1 .. Len(c) : c[i] = c[j] => i = j
  BY <1>1, <1>2 DEF Single
<1>4. Len(c) \in Nat /\ Len(c) <= Cardinality(usable)
  BY <1>1, <1>3, ChainLength
<1>5. QED
  BY <1>2, <1>4

(* An entry counts sectors when its file is closed.                        *)
Uncounted == \A k \in Entries : InUse(k) \/ dir[k].count = 0

LEMMA CountsStep == FilesIInv /\ Uncounted /\ [Next]_vars => Uncounted'
<1> SUFFICES ASSUME FilesIInv, Uncounted, [Next]_vars PROVE Uncounted'
  OBVIOUS
<1>1. dir \in [Entries -> EntryTypes]
  BY TypeFacts DEF FilesIInv, Shape
<1>2. CASE CreateFile
  BY <1>1, <1>2 DEF CreateFile, Uncounted, InUse
<1>3. CASE Close
  <2>1. file.file_no \in Entries
    <3>1. PICK path : Shape /\ Paths(path)
      BY DEF FilesIInv
    <3>2. QED
      BY <1>3, <3>1, OpenFile DEF Close
  <2>2. PICK o : o = file.file_no
    OBVIOUS
  <2>3. Closes(o)
    BY <1>3, <2>2, CloseFacts
  <2>4. InUse(o)' /\ \A k \in Entries : k # o => dir'[k] = dir[k]
    BY <2>3 DEF Closes
  <2>5. QED
    BY <2>4 DEF Uncounted, InUse
<1>4. CASE dir' = dir
  BY <1>4 DEF Uncounted, InUse
<1>5. QED
  BY <1>2, <1>3, <1>4
     DEF Next, vars, DirFull, WriteByte, WriteSecond, WriteNext, DiskFull, Boot,
         Terminate

LEMMA CountsAlways == Spec => []Uncounted
<1>1. Init => Uncounted
  <2>1. FreeEntry.count = 0
    BY DEF FreeEntry
  <2>2. QED
    BY <2>1 DEF Init, Uncounted
<1>2. QED
  BY <1>1, CountsStep, FilesInduction, PTL DEF Spec

(***************************************************************************)
(* Whatever pack creates, writes and closes, sectors, entries and the file *)
(* object have the values dos_2_5.h gives them room for: a buffer position *)
(* within the sector, counts of sectors that the disk can have.            *)
(***************************************************************************)
THEOREM Dos25FilesTypeOK == Spec => []TypeOK
<1>1. ASSUME FilesIInv, Uncounted PROVE TypeOK
  <2>1. Shape /\ Types
    BY <1>1 DEF FilesIInv, Shape
  <2>2. PICK path : Paths(path)
    BY <1>1 DEF FilesIInv
  <2>3. PICK n : n = Cardinality(usable)
    OBVIOUS
  <2>4. n \in Nat /\ 0 \in 0 .. n
    BY <2>1, <2>3, TypeFacts, FS_CardinalityType
  <2>5. \A k \in Entries : Len(path[k]) \in 0 .. n
    BY <1>1, <2>2, <2>3, <2>4, PathFits
  <2>6. ASSUME NEW k \in Entries PROVE dir[k].count \in 0 .. n
    <3>1. CASE InUse(k)
      <4>1. dir[k].count = Len(path[k])
        BY <2>2, <3>1 DEF Paths, FilesHeld, HoldsClosed
      <4>2. QED
        BY <2>5, <4>1
    <3>2. CASE ~InUse(k)
      BY <1>1, <2>4, <3>2 DEF Uncounted
    <3>3. QED
      BY <3>1, <3>2
  <2> DEFINE C == 0 .. n
             M == 0 .. MaxCreated
  <2>7. dir \in [Entries -> [flag : {"never used", "opened", "in use"}, name : M,
                             start : usable \cup {0}, count : C]]
    <3>1. dir \in [Entries -> EntryTypes] /\ \A k \in Entries : dir[k].count \in C
      BY <2>1, <2>6 DEF Types
    <3>2. EntryTypes = [flag : {"never used", "opened", "in use"}, name : M,
                        start : usable \cup {0}, count : Nat]
      BY DEF EntryTypes, Links
    <3> HIDE DEF C, M
    <3>3. QED
      BY <3>1, <3>2
  <2>8. sec \in [usable -> [bytes : [1 .. PAYLOAD -> (0 .. MaxCreated) \X (0 .. MaxBytes)],
                            count : 0 .. PAYLOAD, link : usable \cup {0}]]
    BY <2>1 DEF Types, Sectors, Buffers, FileBytes, Links
  <2>9. file \in FileObjects \cup {NoFile}
    BY <2>1, TypeFacts
  <2>10. ASSUME file # NoFile
         PROVE  /\ file.pos \in 0 .. PAYLOAD /\ file.size \in 0 .. MaxBytes
                /\ file.file_no \in Entries /\ file.sec_cnt \in 0 .. n
                /\ {file.first_sec, file.sector} \subseteq usable \cup {0}
    <3>1. file \in FileTypes /\ file.file_no \in Entries
          /\ HoldsOpen(file, path[file.file_no], sec)
      BY <2>1, <2>2, <2>10, OpenFile
    <3>2. PICK c : c = path[file.file_no]
      OBVIOUS
    <3>3. Len(c) \in 0 .. n /\ (c = <<>> => file.sec_cnt = 0)
          /\ (c # <<>> => file.sec_cnt = Len(c) - 1)
      BY <2>5, <3>1, <3>2 DEF HoldsOpen, HoldsSoFar
    <3>4. /\ file.pos \in 0 .. PAYLOAD /\ file.size \in 0 .. MaxBytes
          /\ file.sec_cnt \in Nat /\ file.first_sec \in Links /\ file.sector \in Links
      BY <3>1 DEF FileTypes
    <3>5. file.sec_cnt \in 0 .. n
      BY <2>4, <3>3, <3>4
    <3>6. QED
      BY <3>1, <3>4, <3>5 DEF Links
  <2>11. /\ usable \in Disks /\ free \subseteq usable
         /\ dos_start \in usable \cup {0} \cup BootWords /\ {dos_file, created} \subseteq 0 .. MaxCreated
         /\ error \in {"", "dir full", "disk full", "terminated"}
    BY <2>1 DEF Types, Links
  <2>12. QED
    BY <2>3, <2>7, <2>8, <2>9, <2>10, <2>11 DEF TypeOK
<1>2. QED
  BY <1>1, FilesInduction, CountsAlways, PTL

(* Links are read as they were written, and so are the chains.             *)
LEMMA LinksRead == FilesIInv => ReadLink = LinkOf(sec)
<1> SUFFICES ASSUME FilesIInv PROVE ReadLink = LinkOf(sec)
  OBVIOUS
<1>1. /\ sec \in [usable -> Sectors] /\ usable \in Disks
      /\ usable \subseteq Nat
  BY TypeFacts DEF FilesIInv, Shape, Types
<1>2. ASSUME NEW s \in usable PROVE sec[s].link % LINKS = sec[s].link
  <2>1. sec[s].link \in Links
    BY <1>1 DEF Sectors
  <2>2. PICK l : l = sec[s].link
    OBVIOUS
  <2>3. l \in Nat /\ l < LINKS
    <3>1. l \in usable \/ l = 0
      BY <2>1, <2>2 DEF Links
    <3>2. \A t \in usable : t \in Nat /\ t < LINKS
      BY <1>1, DiskFacts
    <3>3. 0 \in Nat /\ 0 < LINKS
      BY ScaleFacts
    <3>4. QED
      BY <3>1, <3>2, <3>3
  <2>4. l % LINKS = l
    BY <2>3, ScaleFacts, ModFacts
  <2>5. QED
    BY <2>2, <2>4
<1>3. QED
  BY <1>1, <1>2 DEF ReadLink, LinkOf

LEMMA ChainsRead ==
    ASSUME FilesIInv, NEW c \in Seq(usable), Len(c) <= Cardinality(usable),
           NEW start, PathFrom(c, start, LinkOf(sec))
    PROVE  Chain(start, ReadLink, Cardinality(usable)) = c
<1>1. /\ 0 \notin usable /\ DOMAIN sec = usable /\ Cardinality(usable) \in Nat
      /\ ReadLink = LinkOf(sec)
  BY LinksRead, TypeFacts, FS_CardinalityType DEF FilesIInv, Shape
<1> DEFINE link == LinkOf(sec)
           n == Cardinality(usable)
<1>2. DOMAIN link = usable /\ PathFrom(c, start, link) /\ n \in Nat /\ Len(c) <= n
  BY <1>1 DEF LinkOf
<1> HIDE DEF link, n
<1>3. Chain(start, link, n) = c
  BY <1>1, <1>2, ChainOfPath
<1>4. QED
  BY <1>1, <1>3 DEF link, n

(* What is read of a closed file.                                          *)
LEMMA SavedFacts ==
    ASSUME FilesIInv, NEW k \in Entries, NEW c \in Seq(usable), Len(c) <= Cardinality(usable),
           NEW rest \in 1 .. PAYLOAD, HoldsClosed(dir[k], c, sec, rest)
    PROVE  /\ FileSectors(k) = c /\ dir[k].count = Len(c)
           /\ SavedBytes(k) = Bytes(dir[k].name, HeldBytes(c, PAYLOAD, rest))
           /\ HeldBytes(c, PAYLOAD, rest) \in Nat
           /\ c = <<>> => Size(k) = 0 /\ HeldBytes(c, PAYLOAD, rest) = 0
           /\ c # <<>> => Size(k) # 0 /\ Size(k) - HeldBytes(c, PAYLOAD, rest) = PAYLOAD - rest
<1> DEFINE f == dir[k].name
           X == FileBytes
<1>1. PathFrom(c, dir[k].start, LinkOf(sec)) /\ dir[k].count = Len(c)
      /\ HoldsBytes(c, sec, f, PAYLOAD, rest)
  BY DEF HoldsClosed
<1>2. FileSectors(k) = c
  BY <1>1, ChainsRead DEF FileSectors
<1>3. PAYLOAD \in Nat /\ rest \in Nat /\ rest > 0 /\ rest <= PAYLOAD
  BY ScaleFacts
<1>4. \A s \in usable : sec[s].bytes \in Seq(X) /\ sec[s].count <= Len(sec[s].bytes)
  <2>1. sec \in [usable -> Sectors]
    BY TypeFacts DEF FilesIInv, Shape
  <2> HIDE DEF X
  <2>2. ASSUME NEW s \in usable PROVE sec[s].bytes \in Seq(X) /\ sec[s].count <= Len(sec[s].bytes)
    <3>1. PICK b, n : b = sec[s].bytes /\ n = sec[s].count
      OBVIOUS
    <3>2. b \in [1 .. PAYLOAD -> X] /\ n \in 0 .. PAYLOAD
      BY <2>1, <3>1 DEF Sectors, Buffers, X
    <3>3. b \in Seq(X) /\ Len(b) = PAYLOAD
      BY <1>3, <3>2
    <3>4. QED
      BY <1>3, <3>1, <3>2, <3>3
  <2>3. QED
    BY <2>2
<1>5. SavedBytes(k) = Bytes(f, HeldBytes(c, PAYLOAD, rest))
  <2> HIDE DEF f, X
  <2>1. ChainBytes(c, sec) = Bytes(f, HeldBytes(c, PAYLOAD, rest))
    BY <1>1, <1>3, <1>4, BytesOfPath
  <2>2. QED
    BY <1>2, <2>1 DEF SavedBytes
<1>6. CASE c = <<>>
  <2>1. Size(k) = 0 /\ HeldBytes(c, PAYLOAD, rest) = 0
    BY <1>1, <1>3, <1>6 DEF Size, HeldBytes
  <2>2. QED
    BY <1>1, <1>2, <1>5, <1>6, <2>1
<1>7. CASE c # <<>>
  <2> DEFINE m == Len(c) - 1
             a == m * PAYLOAD
             h == HeldBytes(c, PAYLOAD, rest)
  <2>1. m \in Nat /\ dir[k].count = m + 1
    BY <1>1, <1>7
  <2>2. h = a + rest
    BY <1>7 DEF HeldBytes
  <2> HIDE DEF m, h
  <2>3. a \in Nat /\ (m + 1) * PAYLOAD = a + PAYLOAD
    BY <1>3, <2>1
  <2>4. Size(k) = a + PAYLOAD
    BY <2>1, <2>3 DEF Size
  <2> HIDE DEF a
  <2>5. h \in Nat /\ Size(k) # 0 /\ Size(k) - h = PAYLOAD - rest
    BY <1>3, <2>2, <2>3, <2>4
  <2>6. QED
    BY <1>1, <1>2, <1>5, <1>7, <2>5 DEF h
<1>8. QED
  BY <1>6, <1>7

(* The sectors of every entry, as they are read.                           *)
LEMMA SectorsRead ==
    ASSUME FilesIInv, NEW path, Paths(path), NEW k \in Entries, Used(k)
    PROVE  SectorsOf(k) = {path[k][i] : i \in 1 .. Len(path[k])}
<1>1. PICK c : c = path[k]
  OBVIOUS
<1>2. c \in Seq(usable) /\ Len(c) <= Cardinality(usable) /\ Shape /\ dir[k] \in EntryTypes
      /\ DOMAIN c = 1 .. Len(c)
  BY <1>1, PathFacts, PathFits, TypeFacts DEF Paths, FilesIInv, Shape
<1>3. CASE dir[k].flag = "opened"
  <2>1. k = file.file_no /\ file # NoFile
    BY <1>2, <1>3 DEF Shape, EntriesNamed
  <2>2. PathFrom(c, file.first_sec, LinkOf(sec))
    BY <1>1, <1>3 DEF Paths, FilesHeld, HoldsOpen, HoldsSoFar
  <2>3. OpenSectors = c
    BY <1>2, <2>2, ChainsRead DEF OpenSectors
  <2>4. QED
    BY <1>1, <1>2, <1>3, <2>3 DEF SectorsOf
<1>4. CASE dir[k].flag # "opened"
  <2>1. InUse(k)
    BY <1>2, <1>4 DEF Used, InUse, EntryTypes
  <2>2. PathFrom(c, dir[k].start, LinkOf(sec))
    BY <1>1, <2>1 DEF Paths, FilesHeld, HoldsClosed
  <2>3. FileSectors(k) = c
    BY <1>2, <2>2, ChainsRead DEF FileSectors
  <2>4. QED
    BY <1>1, <1>2, <1>4, <2>3 DEF SectorsOf
<1>5. QED
  BY <1>3, <1>4

LEMMA OwnersCount == FilesIInv => SectorsOwned
<1> SUFFICES ASSUME FilesIInv, NEW s \in usable
             PROVE  Cardinality(Owners(s)) = IF s \in free THEN 0 ELSE 1
  BY DEF SectorsOwned
<1>1. PICK path : Paths(path)
  BY DEF FilesIInv
<1> DEFINE Has(k) == \E i \in 1 .. Len(path[k]) : path[k][i] = s
<1>2. \A k : k \in Owners(s) <=> k \in Entries /\ Has(k)
  <2>1. \A k : k \in Owners(s) <=> k \in Entries /\ Used(k) /\ s \in SectorsOf(k)
    BY DEF Owners, FreeEntries, Used
  <2>2. \A k \in Entries : Used(k) => (s \in SectorsOf(k) <=> Has(k))
    BY <1>1, SectorsRead
  <2>3. \A k \in Entries : ~Used(k) => ~Has(k)
    BY <1>1 DEF Paths, FilesHeld
  <2>4. QED
    BY <2>1, <2>2, <2>3
<1>3. CASE s \in free
  <2>1. \A k \in Entries : ~Has(k)
    BY <1>1, <1>3 DEF Paths, Layout, PathsTaken
  <2>2. Owners(s) = {}
    BY <1>2, <2>1
  <2>3. QED
    BY <1>3, <2>2, FS_EmptySet
<1>4. CASE s \notin free
  <2>1. PICK k \in Entries : Has(k)
    BY <1>1, <1>4 DEF Paths, Layout, AllHeld
  <2>2. \A l \in Entries : Has(l) => l = k
    BY <1>1, <2>1 DEF Paths, Layout, PathsApart
  <2>3. Owners(s) = {k}
    BY <1>2, <2>1, <2>2
  <2>4. QED
    BY <1>4, <2>3, FS_Singleton
<1>5. QED
  BY <1>3, <1>4

(* The sectors and the size of a closed file.                              *)
LEMMA SizesAre == FilesIInv => SizesRoundUp
<1> SUFFICES ASSUME FilesIInv, NEW k \in Closed
             PROVE  /\ dir[k].count = Len(FileSectors(k))
                    /\ Size(k) - Len(SavedBytes(k)) \in 0 .. PAYLOAD - 1
  BY DEF SizesRoundUp
<1>1. PICK path : Paths(path)
  BY DEF FilesIInv
<1>2. k \in Entries /\ InUse(k)
  BY DEF Closed, InUse
<1>3. PICK c : c = path[k]
  OBVIOUS
<1>4. c \in Seq(usable) /\ Len(c) <= Cardinality(usable)
  BY <1>1, <1>2, <1>3, PathFacts, PathFits DEF Paths
<1>5. PICK rest \in 1 .. PAYLOAD : HoldsClosed(dir[k], c, sec, rest)
  BY <1>1, <1>2, <1>3 DEF Paths, FilesHeld
<1>6. PICK h : h = HeldBytes(c, PAYLOAD, rest)
  OBVIOUS
<1>7. /\ FileSectors(k) = c /\ dir[k].count = Len(c)
      /\ SavedBytes(k) = Bytes(dir[k].name, h) /\ h \in Nat
      /\ c = <<>> => Size(k) = 0 /\ h = 0
      /\ c # <<>> => Size(k) - h = PAYLOAD - rest
  BY <1>2, <1>4, <1>5, <1>6, SavedFacts
<1>8. Len(SavedBytes(k)) = h
  BY <1>7, BytesLength
<1>9. Size(k) - h \in 0 .. PAYLOAD - 1
  <2>1. PAYLOAD \in Nat /\ PAYLOAD > 0 /\ rest \in Nat /\ rest > 0 /\ rest <= PAYLOAD
    BY ScaleFacts
  <2>2. Size(k) - h = 0 \/ Size(k) - h = PAYLOAD - rest
    <3>1. CASE c = <<>>
      BY <1>7, <3>1
    <3>2. CASE c # <<>>
      BY <1>7, <3>2
    <3>3. QED
      BY <3>1, <3>2
  <2>3. QED
    BY <2>1, <2>2
<1>10. QED
  BY <1>7, <1>8, <1>9

(* A listing that reads the sectors of the directory in their order comes  *)
(* to the entries in theirs.                                               *)
LEMMA PagesInOrder ==
    LET pages == PagesRead(DIR_FIRST_SECTOR)
    IN  /\ Len(pages) = DIR_SIZE
        /\ \A p \in 0 .. DIR_SIZE - 1 : pages[p + 1] = DIR_FIRST_SECTOR + p
<1> DEFINE D == DIR_FIRST_SECTOR
           m == DIR_SIZE - 1
           first == <<D>>
           others == [i \in 1 .. m |-> D + i]
           pages == first \o others
<1>1. D \in Nat /\ m \in Nat /\ DIR_SIZE = m + 1 /\ END_SECTOR = D + DIR_SIZE
  BY ScaleFacts DEF END_SECTOR
<1>2. PagesRead(D) = pages
  <2>1. ~(D >= END_SECTOR) /\ END_SECTOR - 1 - D = m
    BY <1>1
  <2>2. QED
    BY <2>1 DEF PagesRead
<1> HIDE DEF D, m
<1>3. first \in Seq(Nat) /\ Len(first) = 1 /\ first[1] = D
  BY <1>1
<1>4. others \in Seq(Nat) /\ Len(others) = m /\ \A i \in 1 .. m : others[i] = D + i
  BY <1>1
<1> HIDE DEF first, others
<1>5. /\ Len(pages) = m + 1
      /\ pages[1] = D /\ \A i \in 1 .. m : pages[i + 1] = D + i
  <2>1. /\ Len(pages) = Len(first) + Len(others)
        /\ \A i \in 1 .. Len(first) + Len(others) :
               pages[i] = IF i <= Len(first) THEN first[i] ELSE others[i - Len(first)]
    BY <1>3, <1>4, ConcatProperties, Zenon
  <2> HIDE DEF pages
  <2>2. /\ Len(pages) = m + 1
        /\ \A i \in 1 .. m + 1 : pages[i] = IF i <= 1 THEN D ELSE others[i - 1]
    BY <1>1, <1>3, <1>4, <2>1
  <2>3. pages[1] = D
    BY <1>1, <2>2
  <2>4. ASSUME NEW i \in 1 .. m PROVE pages[i + 1] = D + i
    <3>1. i + 1 \in 1 .. m + 1 /\ ~(i + 1 <= 1) /\ (i + 1) - 1 = i
      BY <1>1
    <3>2. pages[i + 1] = others[i]
      BY <2>2, <3>1
    <3>3. QED
      BY <1>4, <3>2
  <2>5. QED
    BY <2>2, <2>3, <2>4
<1> HIDE DEF pages
<1>6. ASSUME NEW p \in 0 .. m PROVE pages[p + 1] = D + p
  <2>1. CASE p = 0
    BY <1>1, <1>5, <2>1
  <2>2. CASE p # 0
    <3>1. p \in 1 .. m
      BY <1>1, <2>2
    <3>2. QED
      BY <1>5, <3>1
  <2>3. QED
    BY <2>1, <2>2
<1>7. QED
  BY <1>1, <1>2, <1>5, <1>6 DEF D, m

(* The sector of an entry and its place there.                             *)
LEMMA PlaceOf ==
    ASSUME NEW n \in Entries
    PROVE  /\ n \div PER_SECTOR \in 0 .. DIR_SIZE - 1
           /\ (n \div PER_SECTOR) * PER_SECTOR + (n % PER_SECTOR) = n
<1>1. DIR_SIZE \in Nat /\ PER_SECTOR \in Nat \ {0} /\ n \in Nat
  BY ScaleFacts, EntryFacts
<1>2. PICK S, P : S = DIR_SIZE /\ P = PER_SECTOR
  OBVIOUS
<1>3. S \in Nat /\ P \in Nat /\ P > 0
  BY <1>1, <1>2
<1>4. PICK q, r : q = n \div P /\ r = n % P
  OBVIOUS
<1>5. q \in Nat /\ r \in Nat /\ r < P /\ n = q * P + r
  BY <1>1, <1>3, <1>4
<1>6. n < S * P
  BY <1>1, <1>2, <1>3 DEF Entries
<1>7. CASE q >= S
  <2>1. (q - S) * P \in Nat
    BY <1>3, <1>5, <1>7
  <2>2. (q - S) * P = q * P - S * P
    BY <1>3, <1>5
  <2>3. q * P \in Nat /\ S * P \in Nat
    BY <1>3, <1>5
  <2>4. FALSE
    BY <1>5, <1>6, <2>1, <2>2, <2>3
  <2>5. QED
    BY <2>4
<1>8. CASE ~(q >= S)
  BY <1>2, <1>3, <1>4, <1>5, <1>8
<1>9. QED
  BY <1>7, <1>8

(* Entry n of the listing is entry n of the directory.                     *)
LEMMA EntryListed ==
    ASSUME NEW n \in Entries
    PROVE  LET s == PagesRead(DIR_FIRST_SECTOR)[n \div PER_SECTOR + 1]
           IN  /\ FlagRead(s, n % PER_SECTOR) = dir[n].flag
               /\ (s - DIR_FIRST_SECTOR) * PER_SECTOR + (n % PER_SECTOR) = n
<1> DEFINE q == n \div PER_SECTOR
           r == n % PER_SECTOR
           s == PagesRead(DIR_FIRST_SECTOR)[q + 1]
           D == DIR_FIRST_SECTOR
           m == DIR_SIZE - 1
<1>1. q \in 0 .. m /\ q * PER_SECTOR + r = n
  BY PlaceOf
<1>2. \A p \in 0 .. m : PagesRead(D)[p + 1] = D + p
  BY PagesInOrder
<1>3. s = D + q
  BY <1>1, <1>2
<1>4. DirSectors = D .. D + DIR_SIZE - 1 /\ D \in Nat /\ DIR_SIZE \in Nat \ {0}
  BY ScaleFacts DEF DirSectors
<1> HIDE DEF q, r, s, D
<1>5. s \in DirSectors /\ s - D = q
  BY <1>1, <1>3, <1>4
<1>6. (s - D) * PER_SECTOR + r = n
  BY <1>1, <1>5
<1>7. FlagRead(s, r) = dir[n].flag
  BY <1>5, <1>6 DEF FlagRead, D
<1>8. QED
  BY <1>6, <1>7 DEF q, r, s, D

LEMMA ListingIsExact == FilesIInv => ListingExact
<1> SUFFICES ASSUME FilesIInv PROVE ListingExact
  OBVIOUS
<1> DEFINE used == Entries \ FreeEntries
           P == PER_SECTOR
           pages == PagesRead(DIR_FIRST_SECTOR)
           page(n) == pages[n \div P + 1]
           met(n) == \A m \in 1 .. n : FlagRead(page(m), m % P) # "never used"
           listed == {n \in Entries : \A m \in 1 .. n : Used(m)}
<1>1. Len(pages) * P = DIR_SIZE * PER_SECTOR
  BY PagesInOrder
<1>2. 0 .. Len(pages) * P - 1 = Entries
  BY <1>1 DEF Entries
<1>3. 0 \in Entries /\ \A k \in Entries : k \in Nat /\ (k = 0 \/ k \in 1 .. k)
                          /\ \A j \in 1 .. k : j \in Entries /\ (j = k \/ j < k)
  <2>1. \A k \in Entries : k \in Nat /\ \A j \in 0 .. k : j \in Entries
    BY EntryFacts
  <2>2. QED
    BY <2>1, EntryFacts
<1>4. ASSUME NEW n \in Entries
      PROVE  (met(n) <=> \A m \in 1 .. n : Used(m)) /\ (page(n) - DIR_FIRST_SECTOR) * P + (n % P) = n
  <2>1. \A m \in Entries : FlagRead(page(m), m % P) = dir[m].flag
                           /\ (page(m) - DIR_FIRST_SECTOR) * P + (m % P) = m
    BY EntryListed
  <2>2. \A m \in 1 .. n : m \in Entries
    BY <1>3
  <2> HIDE DEF page, P
  <2>3. QED
    BY <2>1, <2>2 DEF Used
<1>5. Listed(DIR_FIRST_SECTOR) = {(page(n) - DIR_FIRST_SECTOR) * P + (n % P) :
                                     n \in {n \in 0 .. Len(pages) * P - 1 : met(n)}}
  BY DEF Listed
<1> HIDE DEF page, met, pages, P
<1>6. Listed(DIR_FIRST_SECTOR) = listed
  <2> DEFINE T == {n \in 0 .. Len(pages) * P - 1 : met(n)}
             place(n) == (page(n) - DIR_FIRST_SECTOR) * P + (n % P)
  <2>1. T = listed
    BY <1>2, <1>4
  <2>2. \A n \in listed : place(n) = n
    BY <1>4
  <2>3. Listed(DIR_FIRST_SECTOR) = {place(n) : n \in T}
    BY <1>5
  <2> HIDE DEF T, place, listed
  <2>4. QED
    BY <2>1, <2>2, <2>3
<1>7. \A j, k \in Entries : j < k /\ k \in used => j \in used
  BY DEF FilesIInv, Shape, EntriesInOrder, FreeEntries, Used
<1>8. used \subseteq Entries /\ \A k \in Entries : k \in used <=> Used(k)
  BY DEF FreeEntries, Used
<1> HIDE DEF used
<1>9. used \subseteq listed
  BY <1>3, <1>7, <1>8
<1>10. ASSUME used # {}, NEW k \in listed PROVE k \in used
  <2>1. CASE k = 0
    <3>1. PICK l \in used : TRUE
      BY <1>10
    <3>2. l \in Entries /\ l \in Nat /\ 0 \in Entries
      BY <1>3, <1>8
    <3>3. l = 0 \/ 0 < l
      BY <3>2
    <3>4. QED
      BY <1>7, <2>1, <3>2, <3>3
  <2>2. CASE k \in 1 .. k
    BY <1>8, <1>10, <2>2
  <2>3. QED
    BY <1>3, <1>10, <2>1, <2>2
<1> HIDE DEF listed
<1>11. QED
  BY <1>6, <1>9, <1>10 DEF ListingExact, used

(***************************************************************************)
(* Whatever pack creates, writes and closes on a disk of DOS 2.5: every    *)
(* sector is free or belongs to one file, the sectors an entry counts are  *)
(* those of its chain and the size the listing shows is the length rounded *)
(* up to full sectors, and a listing that reads the directory from its     *)
(* first sector on comes to the entries in use and no others.              *)
(***************************************************************************)
THEOREM Dos25FilesCorrect == Spec => []FilesInv
<1>1. FilesIInv => FilesInv
  BY OwnersCount, SizesAre, ListingIsExact DEF FilesInv
<1>2. QED
  BY <1>1, FilesInduction, PTL

-----------------------------------------------------------------------------
(* A closed file with the sectors c, `rest' bytes in the last one.         *)
LEMMA ClosedFacts ==
    ASSUME FilesIInv, NEW path, Paths(path), NEW k \in Closed
    PROVE  /\ k \in Entries /\ InUse(k) /\ Used(k)
           /\ path[k] \in Seq(usable) /\ Len(path[k]) <= Cardinality(usable)
           /\ \E rest \in 1 .. PAYLOAD : HoldsClosed(dir[k], path[k], sec, rest)
<1>1. k \in Entries /\ InUse(k)
  BY DEF Closed, InUse
<1>2. Used(k)
  BY <1>1 DEF InUse, Used
<1>3. QED
  BY <1>1, <1>2, PathFacts, PathFits DEF Paths, FilesHeld

(* The entries that begin with a sector.                                   *)
LEMMA StartsFacts ==
    ASSUME FilesIInv, NEW path, Paths(path), NEW k \in Closed
    PROVE  /\ path[k] = <<>> <=> Size(k) = 0
           /\ path[k] = <<>> <=> dir[k].count = 0
           /\ path[k] # <<>> => dir[k].start = path[k][1] /\ dir[k].start # 0
                                /\ 1 \in 1 .. Len(path[k])
<1>1. k \in Entries /\ path[k] \in Seq(usable) /\ Len(path[k]) <= Cardinality(usable)
  BY ClosedFacts
<1>2. PICK rest \in 1 .. PAYLOAD : HoldsClosed(dir[k], path[k], sec, rest)
  BY ClosedFacts
<1>3. PICK c : c = path[k]
  OBVIOUS
<1>4. /\ dir[k].count = Len(c)
      /\ c = <<>> => Size(k) = 0
      /\ c # <<>> => Size(k) # 0
  BY <1>1, <1>2, <1>3, SavedFacts
<1>5. dir[k].start = IF c = <<>> THEN 0 ELSE c[1]
  BY <1>2, <1>3 DEF HoldsClosed, PathFrom
<1>6. c \in Seq(usable) /\ 0 \notin usable
  BY <1>1, <1>3, TypeFacts DEF FilesIInv, Shape
<1>7. (c = <<>> <=> dir[k].count = 0) /\ (c # <<>> => 1 \in 1 .. Len(c) /\ c[1] \in usable)
  BY <1>4, <1>6
<1>8. QED
  BY <1>3, <1>4, <1>5, <1>6, <1>7

LEMMA DosIsMarked == FilesIInv => DosFileMarked
<1> SUFFICES ASSUME FilesIInv PROVE DosFileMarked
  OBVIOUS
<1>1. PICK path : Paths(path)
  BY DEF FilesIInv
<1>2. PathsApart(path) /\ EntriesNamed /\ DosHeld
  BY <1>1 DEF Paths, Layout, FilesIInv, Shape
<1>3. \A k \in Entries : IsDosFile(k) => k \in Closed
  BY DEF IsDosFile, Closed, InUse
<1>4. ASSUME NEW k \in Closed, MarkedDos(k)
      PROVE  /\ dos_start = path[k][1] /\ dos_start # 0
             /\ 1 \in 1 .. Len(path[k]) /\ k \in Entries
  <2>1. Size(k) # 0 /\ dir[k].start = dos_start
    BY <1>4 DEF MarkedDos
  <2>2. QED
    BY <1>1, <2>1, StartsFacts, ClosedFacts
<1>5. ASSUME NEW k \in Closed, MarkedDos(k), NEW l \in Closed, MarkedDos(l)
      PROVE  k = l
  <2>1. dos_start = path[k][1] /\ 1 \in 1 .. Len(path[k]) /\ k \in Entries
    BY <1>4, <1>5
  <2>2. dos_start = path[l][1] /\ 1 \in 1 .. Len(path[l]) /\ l \in Entries
    BY <1>4, <1>5
  <2>3. QED
    BY <1>2, <2>1, <2>2 DEF PathsApart
<1>6. ASSUME NEW k \in Closed, MarkedDos(k), dos_file # 0 PROVE dir[k].name = dos_file
  <2>1. dos_start = path[k][1] /\ dos_start # 0 /\ 1 \in 1 .. Len(path[k]) /\ k \in Entries
    BY <1>4, <1>6
  <2>2. PICK d \in Entries : IsDosFile(d)
    BY <1>2, <1>6 DEF DosHeld
  <2>3. dir[d].name = dos_file /\ dos_start = dir[d].start /\ ~(dir[d].count <= 1)
    BY <2>1, <2>2 DEF IsDosFile
  <2>4. dir[d].count # 0
    BY <2>3
  <2>5. dir[d].start = path[d][1] /\ 1 \in 1 .. Len(path[d])
    BY <1>1, <1>3, <2>2, <2>4, StartsFacts
  <2>6. d = k
    BY <1>2, <2>1, <2>2, <2>3, <2>5 DEF PathsApart
  <2>7. QED
    BY <2>3, <2>6
<1>7. ASSUME NEW k \in Closed, dir[k].name = dos_file, Len(SavedBytes(k)) > PAYLOAD
      PROVE  MarkedDos(k)
  <2>1. k \in Entries /\ InUse(k) /\ Used(k) /\ path[k] \in Seq(usable)
        /\ Len(path[k]) <= Cardinality(usable)
    BY <1>1, ClosedFacts
  <2>2. dos_file # 0
    <3>1. dir[k].name \in 1 .. created /\ created \in Nat
      BY <1>2, <2>1, TypeFacts DEF EntriesNamed, FilesIInv, Shape
    <3>2. QED
      BY <1>7, <3>1
  <2>3. PICK d \in Entries : IsDosFile(d)
    BY <1>2, <2>2 DEF DosHeld
  <2>4. d = k
    <3>1. dir[d].name = dos_file /\ Used(d)
      BY <2>3 DEF IsDosFile, InUse, Used
    <3>2. QED
      BY <1>2, <1>7, <2>1, <3>1 DEF EntriesNamed
  <2>5. dos_start = IF dir[k].count <= 1 THEN 0 ELSE dir[k].start
    BY <2>3, <2>4 DEF IsDosFile
  <2>6. PICK c : c = path[k]
    OBVIOUS
  <2>7. PICK rest \in 1 .. PAYLOAD : HoldsClosed(dir[k], c, sec, rest)
    BY <1>1, <2>6, ClosedFacts
  <2>8. PICK h : h = HeldBytes(c, PAYLOAD, rest)
    OBVIOUS
  <2>9. /\ dir[k].count = Len(c) /\ SavedBytes(k) = Bytes(dir[k].name, h) /\ h \in Nat
    BY <2>1, <2>6, <2>7, <2>8, SavedFacts
  <2>10. h > PAYLOAD
    <3>1. Len(SavedBytes(k)) = h
      BY <2>9, BytesLength
    <3>2. QED
      BY <1>7, <3>1
  <2>11. ~(dir[k].count <= 1)
    <3>1. h = IF c = <<>> THEN 0 ELSE (Len(c) - 1) * PAYLOAD + rest
      BY <2>8 DEF HeldBytes
    <3>2. PAYLOAD \in Nat /\ rest \in Nat /\ rest <= PAYLOAD
      BY ScaleFacts
    <3>3. c # <<>>
      BY <2>10, <3>1, <3>2
    <3>4. c \in Seq(usable)
      BY <2>1, <2>6
    <3>5. PICK m : m = Len(c)
      OBVIOUS
    <3>6. m \in Nat /\ m # 0
      BY <3>3, <3>4, <3>5
    <3>7. h = (m - 1) * PAYLOAD + rest
      BY <3>1, <3>3, <3>5
    <3>8. ASSUME m = 1 PROVE FALSE
      <4>1. (m - 1) * PAYLOAD = 0
        BY <3>2, <3>8
      <4>2. QED
        BY <2>10, <3>2, <3>7, <4>1
    <3>9. dir[k].count = m
      BY <2>9, <3>5
    <3>10. QED
      BY <3>6, <3>8, <3>9
  <2>12. Size(k) # 0
    <3>1. dir[k].count # 0
      BY <2>11
    <3>2. QED
      BY <1>1, <3>1, StartsFacts
  <2>13. QED
    BY <2>5, <2>11, <2>12 DEF MarkedDos
<1>8. QED
  BY <1>5, <1>6, <1>7 DEF DosFileMarked, Marked

(***************************************************************************)
(* Unpack marks one file as DOS at most, whatever sector the boot record   *)
(* of a BOOT line names.  After a DOS command it is the file of the last   *)
(* one and no other, if it has more bytes than a sector: the boot sector   *)
(* still names its first sector, and no other file begins there.           *)
(***************************************************************************)
THEOREM Dos25MarksDos == Spec => []DosFileMarked
BY DosIsMarked, FilesInduction, PTL

-----------------------------------------------------------------------------
(* What unpack finds under the name of a closed file.                      *)
Names == {dir[k].name : k \in Closed}
Content(f) == Unpacked(EntryOf(f))

ContentFact ==
    FilesIInv => \A k \in Entries : \A c \in Seq(usable) : \A rest \in 1 .. PAYLOAD : \A f :
        InUse(k) /\ dir[k].name = f /\ HoldsClosed(dir[k], c, sec, rest)
            => Content(f) = Bytes(f, HeldBytes(c, PAYLOAD, rest))

LEMMA ContentNow == ContentFact
<1> SUFFICES ASSUME FilesIInv, NEW k \in Entries, NEW c \in Seq(usable),
                    NEW rest \in 1 .. PAYLOAD, NEW f, InUse(k), dir[k].name = f,
                    HoldsClosed(dir[k], c, sec, rest)
             PROVE  Content(f) = Bytes(f, HeldBytes(c, PAYLOAD, rest))
  BY DEF ContentFact
<1>1. f = dir[k].name
  OBVIOUS
<1>2. EntryOf(f) = k
  <2>1. k \in Closed
    BY DEF Closed, InUse
  <2>2. ASSUME NEW l \in Closed, dir[l].name = f PROVE l = k
    <3>1. l \in Entries /\ Used(l) /\ Used(k)
      BY DEF Closed, InUse, Used
    <3>2. QED
      BY <1>1, <2>2, <3>1 DEF FilesIInv, Shape, EntriesNamed
  <2>3. EntryOf(f) \in Closed /\ dir[EntryOf(f)].name = f
    BY <1>1, <2>1 DEF EntryOf
  <2>4. QED
    BY <2>2, <2>3
<1>3. Len(c) <= Cardinality(usable)
  <2>1. PICK path : Paths(path)
    BY DEF FilesIInv
  <2>2. Len(path[k]) <= Cardinality(usable)
    BY <2>1, PathFits
  <2>3. dir[k].count = Len(path[k]) /\ dir[k].count = Len(c)
    BY <2>1 DEF Paths, FilesHeld, HoldsClosed
  <2>4. QED
    BY <2>2, <2>3
<1>4. PICK h : h = HeldBytes(c, PAYLOAD, rest)
  OBVIOUS
<1>5. /\ SavedBytes(k) = Bytes(f, h)
      /\ c = <<>> => Size(k) = 0 /\ h = 0
      /\ c # <<>> => Size(k) # 0
  BY <1>1, <1>3, <1>4, SavedFacts
<1>6. Unpacked(k) = Bytes(f, h)
  <2>1. Bytes(f, 0) = <<>>
    BY DEF Bytes
  <2>2. QED
    BY <1>5, <2>1 DEF Unpacked
<1>7. QED
  BY <1>1, <1>2, <1>4, <1>6 DEF Content

LEMMA ContentNext == ContentFact'
BY ContentNow, PTL

LEMMA NamesAre ==
    /\ \A f : f \in Names <=> \E k \in Entries : InUse(k) /\ dir[k].name = f
    /\ \A f : f \in Names' <=> \E k \in Entries : InUse(k)' /\ dir'[k].name = f
<1>1. \A f : f \in Names <=> \E k \in Entries : InUse(k) /\ dir[k].name = f
  BY DEF Names, Closed, InUse
<1>2. \A f : f \in Names' <=> \E k \in Entries : InUse(k)' /\ dir'[k].name = f
  BY DEF Names, Closed, InUse
<1>3. QED
  BY <1>1, <1>2

(* A closed file keeps its name and its bytes.                             *)
LEMMA OldContents ==
    ASSUME FilesIInv, FilesIInv', usable' = usable, ClosedKept
    PROVE  \A f \in Names : f \in Names' /\ Content(f)' = Content(f)
<1> SUFFICES ASSUME NEW f, f \in Names PROVE f \in Names' /\ Content(f)' = Content(f)
  OBVIOUS
<1>1. PICK k \in Entries : InUse(k) /\ dir[k].name = f
  BY NamesAre
<1>2. dir'[k] = dir[k]
  BY <1>1 DEF ClosedKept
<1>3. PICK c \in Seq(usable) : HeldStill(dir[k], c)
  BY <1>1 DEF ClosedKept
<1>4. PICK rest \in 1 .. PAYLOAD :
          HoldsClosed(dir[k], c, sec, rest) /\ HoldsClosed(dir[k], c, sec', rest)
  BY <1>3 DEF HeldStill
<1>5. InUse(k)'
  BY <1>1, <1>2 DEF InUse
<1>6. f \in Names'
  BY <1>1, <1>2, <1>5, NamesAre
<1>7. Content(f) = Bytes(f, HeldBytes(c, PAYLOAD, rest))
  BY <1>1, <1>4, ContentNow DEF ContentFact
<1>8. Content(f)' = Bytes(f, HeldBytes(c, PAYLOAD, rest))
  <2>1. HoldsClosed(dir'[k], c, sec', rest) /\ dir'[k].name = f /\ c \in Seq(usable')
    BY <1>1, <1>2, <1>4
  <2>2. QED
    BY <1>5, <2>1, ContentNext DEF ContentFact
<1>9. QED
  BY <1>6, <1>7, <1>8

(* The files and the open one, as FileStore sees them.                     *)
FilesView == [f \in Names |-> Content(f)]
OpenView ==
    IF file = NoFile THEN NoFile
    ELSE [name |-> file.name, bytes |-> Bytes(file.name, file.size)]

LEMMA FilesSame ==
    ASSUME FilesIInv, FilesIInv', usable' = usable, ClosedKept,
           \A k \in Entries : InUse(k)' => InUse(k)
    PROVE  FilesView' = FilesView
<1>1. \A f \in Names : f \in Names' /\ Content(f)' = Content(f)
  BY OldContents
<1>2. ASSUME NEW f, f \in Names' PROVE f \in Names
  <2>1. PICK k \in Entries : InUse(k)' /\ dir'[k].name = f
    BY <1>2, NamesAre
  <2>2. InUse(k) /\ dir'[k] = dir[k]
    BY <2>1 DEF ClosedKept
  <2>3. QED
    BY <2>1, <2>2, NamesAre
<1>3. Names' = Names
  BY <1>1, <1>2
<1>4. QED
  BY <1>1, <1>3 DEF FilesView

LEMMA OpenFacts ==
    ASSUME file # NoFile, file.name \in Nat, file.size \in Nat
    PROVE  /\ OpenView # NoFile
           /\ OpenView.name = file.name /\ OpenView.bytes = Bytes(file.name, file.size)
<1>1. [name |-> file.name, bytes |-> Bytes(file.name, file.size)] # NoFile
  BY BytesWritten, ObjectFacts
<1>2. QED
  BY <1>1 DEF OpenView

LEMMA OpenNext ==
    ASSUME file' # NoFile, file'.name \in Nat, file'.size \in Nat
    PROVE  /\ OpenView' # NoFile
           /\ OpenView'.name = file'.name /\ OpenView'.bytes = Bytes(file'.name, file'.size)
<1>1. [name |-> file'.name, bytes |-> Bytes(file'.name, file'.size)] # NoFile
  BY BytesWritten, ObjectFacts
<1>2. QED
  BY <1>1 DEF OpenView

(* Each step is one of FileStore, or none.                                 *)
StoreCreate ==
    /\ OpenView = NoFile /\ OpenView' # NoFile
    /\ OpenView'.name \notin Names /\ OpenView'.bytes = <<>>
    /\ FilesView' = FilesView
StoreWrite ==
    /\ OpenView # NoFile /\ OpenView' # NoFile
    /\ OpenView'.name = OpenView.name
    /\ Len(OpenView'.bytes) = Len(OpenView.bytes) + 1
    /\ SubSeq(OpenView'.bytes, 1, Len(OpenView.bytes)) = OpenView.bytes
    /\ FilesView' = FilesView
StoreClose ==
    /\ OpenView # NoFile /\ OpenView' = NoFile
    /\ FilesView' = [f \in Names \cup {OpenView.name} |->
                        IF f = OpenView.name THEN OpenView.bytes ELSE FilesView[f]]
StoreSame == FilesView' = FilesView /\ OpenView' = OpenView

(* The name and the size of a file, and those of what it becomes.          *)
LEMMA FileNumbers ==
    ASSUME Types, NEW f \in FileTypes
    PROVE  f # NoFile /\ f.name \in Nat /\ f.size \in Nat
<1>1. f \in FileObjects /\ f # NoFile
  BY TypeFacts
<1>2. QED
  BY <1>1 DEF FileObjects

LEMMA CreateStored ==
    ASSUME FilesIInv, FilesIInv', CreateFile
    PROVE  StoreCreate
<1>1. /\ Shape /\ Types /\ file = NoFile /\ usable' = usable /\ created \in Nat
  BY TypeFacts DEF CreateFile, MayCreate, FilesIInv, Shape
<1>2. /\ ClosedKept /\ \A k \in Entries : InUse(k)' => InUse(k)
      /\ file' \in FileTypes /\ file'.name = created + 1 /\ file'.size = 0
  BY CreateFileKeeps
<1>3. FilesView' = FilesView
  BY <1>1, <1>2, FilesSame
<1>4. OpenView' # NoFile /\ OpenView'.name = created + 1 /\ OpenView'.bytes = <<>>
  <2>1. PICK n : n = created + 1
    OBVIOUS
  <2>2. n \in Nat /\ 0 \in Nat
    BY <1>1, <2>1
  <2>3. Bytes(n, 0) = <<>>
    BY <2>2, BytesWritten
  <2>4. file'.name = n /\ file'.size = 0 /\ file' # NoFile
    BY <1>1, <1>2, <2>1, FileNumbers
  <2>5. OpenView' # NoFile /\ OpenView'.name = n /\ OpenView'.bytes = Bytes(n, 0)
    BY <2>2, <2>4, OpenNext
  <2>6. QED
    BY <2>1, <2>3, <2>5
<1>5. created + 1 \notin Names
  <2>1. ASSUME NEW k \in Entries, InUse(k) PROVE dir[k].name # created + 1
    <3>1. Used(k)
      BY <2>1 DEF InUse, Used
    <3>2. dir[k].name \in 1 .. created
      BY <1>1, <3>1 DEF Shape, EntriesNamed
    <3>3. QED
      BY <1>1, <3>2
  <2>2. QED
    BY <2>1, NamesAre
<1>6. OpenView = NoFile
  BY <1>1 DEF OpenView
<1>7. QED
  BY <1>3, <1>4, <1>5, <1>6 DEF StoreCreate

LEMMA WriteStored ==
    ASSUME FilesIInv, FilesIInv', file # NoFile, usable' = usable, dir' = dir, ClosedKept, Wrote
    PROVE  StoreWrite
<1>1. Types
  BY DEF FilesIInv, Shape
<1>2. FilesView' = FilesView
  <2>1. \A k \in Entries : InUse(k)' => InUse(k)
    BY DEF InUse
  <2>2. QED
    BY <2>1, FilesSame
<1>3. PICK f, n : f = file.name /\ n = file.size
  OBVIOUS
<1>4. f \in Nat /\ n \in Nat /\ n + 1 \in Nat
  <2>1. file \in FileTypes
    BY <1>1, TypeFacts
  <2>2. QED
    BY <1>1, <1>3, <2>1, FileNumbers
<1>5. file' # NoFile /\ file'.name = f /\ file'.size = n + 1
  BY <1>1, <1>3, FileNumbers DEF Wrote
<1>6. OpenView # NoFile /\ OpenView.name = f /\ OpenView.bytes = Bytes(f, n)
  BY <1>3, <1>4, OpenFacts
<1>7. OpenView' # NoFile /\ OpenView'.name = f /\ OpenView'.bytes = Bytes(f, n + 1)
  BY <1>4, <1>5, OpenNext
<1>8. /\ Len(Bytes(f, n + 1)) = n + 1 /\ Len(Bytes(f, n)) = n
      /\ SubSeq(Bytes(f, n + 1), 1, n) = Bytes(f, n)
  BY <1>4, BytesWritten
<1>9. QED
  BY <1>2, <1>6, <1>7, <1>8 DEF StoreWrite

LEMMA CloseStored ==
    ASSUME FilesIInv, FilesIInv', Close
    PROVE  StoreClose
<1>1. Types /\ file # NoFile /\ file' = NoFile /\ usable' = usable
  BY DEF Close, FilesIInv, Shape
<1>2. PICK o : o = file.file_no
  OBVIOUS
<1>3. PICK f, n : f = file.name /\ n = file.size
  OBVIOUS
<1>4. f \in Nat /\ n \in Nat
  <2>1. file \in FileTypes
    BY <1>1, TypeFacts
  <2>2. QED
    BY <1>1, <1>3, <2>1, FileNumbers
<1>5. Closes(o)
  BY <1>2, CloseFacts
<1>6. /\ ClosedKept /\ o \in Entries /\ InUse(o)' /\ ~InUse(o) /\ dir'[o].name = f
      /\ \A k \in Entries : k # o => dir'[k] = dir[k]
  BY <1>3, <1>5 DEF Closes
<1>7. PICK c \in Seq(usable), rest \in 1 .. PAYLOAD :
          HoldsClosed(dir'[o], c, sec', rest) /\ HeldBytes(c, PAYLOAD, rest) = n
  BY <1>3, <1>5 DEF Closes
<1>8. Content(f)' = Bytes(f, n)
  <2>1. c \in Seq(usable')
    BY <1>1
  <2>2. Content(f)' = Bytes(f, HeldBytes(c, PAYLOAD, rest))
    BY <1>6, <1>7, <2>1, ContentNext DEF ContentFact
  <2>3. QED
    BY <1>7, <2>2
<1>9. \A g \in Names : g \in Names' /\ Content(g)' = Content(g)
  BY <1>1, <1>6, OldContents
<1>10. f \notin Names
  <2>1. ASSUME NEW k \in Entries, InUse(k), dir[k].name = f PROVE FALSE
    <3>1. k # o /\ InUse(k)'
      BY <1>6, <2>1 DEF InUse
    <3>2. Used(k)' /\ Used(o)' /\ dir'[k].name = dir'[o].name
      BY <1>6, <2>1, <3>1 DEF InUse, Used
    <3>3. EntriesNamed'
      BY DEF FilesIInv, Shape
    <3>4. QED
      BY <1>6, <3>1, <3>2, <3>3 DEF EntriesNamed
  <2>2. QED
    BY <2>1, NamesAre
<1>11. Names' = Names \cup {f}
  <2>1. ASSUME NEW g, g \in Names' PROVE g \in Names \cup {f}
    <3>1. PICK k \in Entries : InUse(k)' /\ dir'[k].name = g
      BY <2>1, NamesAre
    <3>2. CASE k = o
      BY <1>6, <3>1, <3>2
    <3>3. CASE k # o
      <4>1. InUse(k) /\ dir[k].name = g
        BY <1>6, <3>1, <3>3 DEF InUse
      <4>2. QED
        BY <4>1, NamesAre
    <3>4. QED
      BY <3>2, <3>3
  <2>2. f \in Names'
    BY <1>6, NamesAre
  <2>3. QED
    BY <1>9, <2>1, <2>2
<1>12. OpenView # NoFile /\ OpenView.name = f /\ OpenView.bytes = Bytes(f, n)
       /\ OpenView' = NoFile
  <2>1. OpenView # NoFile /\ OpenView.name = f /\ OpenView.bytes = Bytes(f, n)
    BY <1>1, <1>3, <1>4, OpenFacts
  <2>2. QED
    BY <1>1, <2>1 DEF OpenView
<1>13. FilesView' = [g \in Names \cup {f} |-> IF g = f THEN Bytes(f, n) ELSE FilesView[g]]
  <2>1. \A g \in Names : FilesView[g] = Content(g)
    BY DEF FilesView
  <2>2. \A g \in Names \cup {f} :
            Content(g)' = IF g = f THEN Bytes(f, n) ELSE FilesView[g]
    BY <1>8, <1>9, <1>10, <2>1
  <2>3. FilesView' = [g \in Names' |-> Content(g)']
    BY DEF FilesView
  <2>4. QED
    BY <1>11, <2>2, <2>3
<1>14. QED
  BY <1>12, <1>13 DEF StoreClose

LEMMA StoreStep ==
    ASSUME FilesIInv, FilesIInv', [Next]_vars
    PROVE  StoreCreate \/ StoreWrite \/ StoreClose \/ StoreSame
<1>1. CASE CreateFile
  BY <1>1, CreateStored
<1>2. CASE WriteByte \/ WriteSecond \/ WriteNext
  <2>1. ClosedKept /\ Wrote
    BY <1>2, WriteByteKeeps, WriteSecondKeeps, WriteNextKeeps
  <2>2. file # NoFile /\ usable' = usable /\ dir' = dir
    BY <1>2 DEF WriteByte, WriteSecond, WriteNext, MayWrite
  <2>3. QED
    BY <2>1, <2>2, WriteStored
<1>3. CASE Close
  BY <1>3, CloseStored
<1>4. CASE DiskFull
  <2>1. ClosedKept /\ file' \in FileTypes /\ file'.name = file.name /\ file'.size = file.size
    BY <1>4, DiskFullKeeps
  <2>2. file # NoFile /\ usable' = usable /\ dir' = dir
    BY <1>4 DEF DiskFull, MayWrite
  <2>3. file' # NoFile
    BY <2>1, TypeFacts DEF FilesIInv, Shape
  <2>4. \A k \in Entries : InUse(k)' => InUse(k)
    BY <2>2 DEF InUse
  <2>5. FilesView' = FilesView
    BY <2>1, <2>2, <2>4, FilesSame
  <2>6. OpenView' = OpenView
    BY <2>1, <2>2, <2>3 DEF OpenView
  <2>7. QED
    BY <2>5, <2>6 DEF StoreSame
<1>5. CASE UNCHANGED <<usable, free, sec, dir, file, created>> /\ (DosKept \/ DosOfBoot)
           /\ error' \in {"", "dir full", "disk full", "terminated"} /\ (Running' => Running)
  <2>1. ClosedKept
    BY <1>5, AllSame
  <2>2. \A k \in Entries : InUse(k)' => InUse(k)
    BY <1>5 DEF InUse
  <2>3. FilesView' = FilesView
    BY <1>5, <2>1, <2>2, FilesSame
  <2>4. QED
    BY <1>5, <2>3 DEF StoreSame, OpenView
<1>6. error \in {"", "dir full", "disk full", "terminated"}
  BY DEF FilesIInv, Shape, Types
<1>7. CASE DirFull \/ Boot \/ Terminate
  BY <1>5, <1>6, <1>7 DEF DirFull, Boot, Terminate, MayCreate, Running, DosKept, DosOfBoot
<1>8. CASE UNCHANGED vars
  BY <1>5, <1>6, <1>8 DEF vars, Running, DosKept
<1>9. QED
  BY <1>1, <1>2, <1>3, <1>4, <1>7, <1>8 DEF Next

(***************************************************************************)
(* The directory, the buffer and the chains of sectors of DOS 2.5 are a    *)
(* file store: what is unpacked under the name of a closed file is what    *)
(* was written to it, wherever its buffer was cut into sectors, and stays  *)
(* so whatever is packed after it and wherever the disk becomes full.      *)
(***************************************************************************)
THEOREM Dos25RefinesFileStore == Spec => RefinesFileStore
<1>1. Init => Store!FileStoreInit
  <2> SUFFICES ASSUME Init PROVE Store!FileStoreInit
    OBVIOUS
  <2>1. file = NoFile /\ dir = [k \in Entries |-> FreeEntry]
    BY DEF Init
  <2>2. \A k \in Entries : ~InUse(k)
    BY <2>1 DEF InUse, FreeEntry
  <2>3. Names = {}
    BY <2>2, NamesAre
  <2>4. QED
    BY <2>1, <2>3 DEF Store!FileStoreInit, Names
<1>2. FilesIInv /\ FilesIInv' /\ [Next]_vars => [Store!FileStoreNext]_(Store!storeVars)
  <2> SUFFICES ASSUME FilesIInv, FilesIInv', [Next]_vars
               PROVE  Store!FileStoreNext \/ UNCHANGED Store!storeVars
    OBVIOUS
  <2>1. StoreCreate => Store!FileCreate
    BY DEF StoreCreate, Store!FileCreate, FilesView, OpenView, Content, Names
  <2>2. StoreWrite => Store!FileWrite
    BY DEF StoreWrite, Store!FileWrite, FilesView, OpenView, Content, Names
  <2>3. StoreClose => Store!FileClose
    BY DEF StoreClose, Store!FileClose, FilesView, OpenView, Content, Names
  <2>4. StoreSame => UNCHANGED Store!storeVars
    BY DEF StoreSame, Store!storeVars, FilesView, OpenView, Content, Names
  <2>5. QED
    BY <2>1, <2>2, <2>3, <2>4, StoreStep DEF Store!FileStoreNext
<1>3. FilesIInv /\ [Next]_vars => FilesIInv'
  BY FilesStep
<1>4. QED
  BY <1>1, <1>2, <1>3, InitHolds, PTL DEF Spec, RefinesFileStore, Store!FileStoreSpec

=============================================================================
