-------------------------- MODULE SpartaReaderProofs --------------------------
(* Theorems about SpartaReader, for every file and directory, every size   *)
(* of a sector, of its map and of an entry.                                *)
EXTENDS SpartaReader, SharedFacts, TLAPS

(* Where the reader is in its map and in the file.                         *)
Position ==
    /\ reader.sector = reader.index + 1
    /\ reader.byte_pos <= stream.length
    /\ OneMap => reader.byte_pos = reader.index * SECTOR + reader.pos

(* What is being read in the phases of pack.                               *)
Phases ==
    /\ phase = "save" => ~stream.is_dir /\ reader.byte_size = stream.length
    /\ phase = "header" => /\ stream.is_dir /\ reader.byte_size = MaxDirSize
                           /\ reader.byte_pos = Len(buf)
    /\ phase \in {"first", "next", "loop"} =>
           stream.is_dir /\ reader.byte_size = stream.length
    /\ phase = "loop" => Len(buf) = ENTRY

BytesRead ==
    got \in Seq(Nat) /\ buf \in Seq(Nat) /\ listed \in Seq(Seq(Nat))

ReaderIInv == TypeOK /\ BytesRead /\ Position /\ Phases /\ ReadsInOrder

(* Entry e is being read, or was the last one read: buf has its bytes.     *)
Reading(e) ==
    /\ reader.byte_pos = e * ENTRY + Len(buf)
    /\ \A i \in DOMAIN buf : buf[i] = e * ENTRY + i

(* What of a directory is read and listed in the phases of pack.           *)
Listing ==
    OneMap /\ stream.is_dir =>
        /\ phase = "header" => Reading(0) /\ listed = <<>>
        /\ phase = "first" => Reading(1) /\ listed = <<>>
        /\ phase \in {"next", "loop"} =>
               \E e \in 1 .. Entries : Reading(e) /\ ListedTo(e - 1)
        /\ phase = "done" => Entries >= 1 /\ ListedTo(Entries - 1)
        /\ phase = "EOF" => Entries = 0 /\ listed = <<>>

DirIInv == ReaderIInv /\ Listing

-----------------------------------------------------------------------------
(* The constants and a file, as the assumptions say.                       *)
LEMMA ScaleFacts ==
    /\ SECTOR \in Nat \ {0} /\ MAP \in Nat \ {0} /\ ENTRY \in Nat \ {0}
    /\ ENTRY <= SECTOR /\ MaxDirSize \in Nat
BY ScaleAssumption

LEMMA StreamFacts ==
    ASSUME stream \in Streams
    PROVE  /\ stream.is_dir \in BOOLEAN /\ stream.length \in Nat \ {0}
           /\ stream.is_dir => /\ stream.length % ENTRY = 0 /\ stream.length < MaxDirSize
                               /\ ENTRY <= stream.length
           /\ Sectors \in Nat /\ Sectors >= 1
           /\ stream.length <= Sectors * SECTOR
<1>1. /\ stream.is_dir \in BOOLEAN /\ stream.length \in Nat \ {0}
      /\ stream.is_dir => stream.length % ENTRY = 0 /\ stream.length < MaxDirSize
  BY StreamsAssumption
<1>2. stream.is_dir => ENTRY <= stream.length
  BY <1>1, ScaleFacts, ModFacts
<1>3. Sectors \in Nat /\ Sectors >= 1
  <2>1. stream.length + SECTOR - 1 \in Nat /\ stream.length + SECTOR - 1 >= SECTOR
    BY <1>1, ScaleFacts
  <2>2. \A n \in Nat, m \in Nat \ {0} : n \div m \in Nat /\ (n >= m => n \div m >= 1)
    OBVIOUS
  <2>3. QED
    BY <2>1, <2>2, ScaleFacts DEF Sectors
<1>4. stream.length <= Sectors * SECTOR
  <2>1. \A n \in Nat, m \in Nat \ {0} : n < ((n + m - 1) \div m) * m + 1
    OBVIOUS
  <2>2. stream.length < Sectors * SECTOR + 1
    BY <1>1, <2>1, ScaleFacts DEF Sectors
  <2>3. Sectors * SECTOR \in Nat
    BY <1>3, ScaleFacts
  <2>4. QED
    BY <1>1, <2>2, <2>3
<1>5. QED
  BY <1>1, <1>2, <1>3, <1>4

LEMMA InitHolds == Init => ReaderIInv
<1> SUFFICES ASSUME Init PROVE ReaderIInv
  OBVIOUS
<1>1. stream \in Streams
  BY DEF Init
<1>2. /\ stream.is_dir \in BOOLEAN /\ stream.length \in Nat \ {0}
      /\ Sectors \in Nat /\ Sectors >= 1
  BY <1>1, StreamFacts
<1>3. reader = [index |-> 0, sector |-> 1, pos |-> 0, byte_pos |-> 0,
                byte_size |-> IF stream.is_dir THEN MaxDirSize ELSE stream.length]
  BY <1>2 DEF Init, FirstIndex, MapEntry
<1>4. got = <<>> /\ buf = <<>> /\ listed = <<>>
      /\ phase = IF stream.is_dir THEN "header" ELSE "save"
  BY DEF Init
<1>5. TypeOK
  BY <1>1, <1>2, <1>3, <1>4, ScaleFacts DEF TypeOK
<1>6. BytesRead /\ Phases
  BY <1>2, <1>3, <1>4 DEF BytesRead, Phases
<1>7. Position
  BY <1>2, <1>3, ScaleFacts DEF Position
<1>8. ReadsInOrder
  BY <1>3, <1>4 DEF ReadsInOrder
<1>9. QED
  BY <1>5, <1>6, <1>7, <1>8 DEF ReaderIInv

(* The reader after the change to the next sector, if it is at the end of  *)
(* one: still where byte_pos says, if the file has one map.                *)
LEMMA SwitchedFacts ==
    ASSUME ReaderIInv, ~ReadThrows
    PROVE  /\ Switched \in [index : 0 .. MAP - 1, sector : 1 .. MAP, pos : 0 .. SECTOR,
                            byte_pos : {reader.byte_pos}, byte_size : {reader.byte_size}]
           /\ Switched.sector = Switched.index + 1
           /\ Switched.pos < SECTOR
           /\ OneMap => reader.byte_pos = Switched.index * SECTOR + Switched.pos
<1>1. /\ stream \in Streams
      /\ reader \in [index : 0 .. MAP - 1, sector : 1 .. MAP, pos : 0 .. SECTOR,
                     byte_pos : Nat, byte_size : {stream.length, MaxDirSize}]
  BY DEF ReaderIInv, TypeOK
<1>2. Position
  BY DEF ReaderIInv
<1>3. CASE reader.pos # SECTOR
  BY <1>1, <1>2, <1>3, ScaleFacts DEF Position, Switched
<1>4. CASE reader.pos = SECTOR
  <2>1. SectorNext # 0
    BY <1>4 DEF ReadThrows
  <2> DEFINE n == reader.index + 1
  <2>2. /\ n \in Nat /\ n <= MAP /\ n = reader.index + 1 /\ reader.index \in Nat
        /\ NextIndex = n % MAP
    BY <1>1, ScaleFacts DEF NextIndex
  <2> HIDE DEF n
  <2>7. /\ NextIndex \in 0 .. MAP - 1
        /\ n < MAP => NextIndex = n
        /\ n = MAP => NextIndex = 0
    BY <2>2, ScaleFacts, ModFacts
  <2>3. SectorNext = MapEntry(NextIndex) /\ SectorNext = NextIndex + 1
    BY <2>1 DEF SectorNext, MapEntry
  <2>4. Switched = [reader EXCEPT !.index = NextIndex, !.sector = NextIndex + 1, !.pos = 0]
    BY <1>4, <2>3 DEF Switched
  <2>5. ASSUME OneMap PROVE reader.byte_pos = NextIndex * SECTOR
    <3>1. Sectors \in Nat /\ Sectors <= MAP
      BY <1>1, <2>5, StreamFacts DEF OneMap
    <3>2. NextIndex # 0
      BY <2>1, <3>1, ScaleFacts DEF SectorNext, HasSecondMap
    <3>3. NextIndex = reader.index + 1
      BY <2>2, <2>7, <3>2, ScaleFacts
    <3>4. reader.byte_pos = reader.index * SECTOR + SECTOR
      BY <1>2, <1>4, <2>5 DEF Position
    <3>5. QED
      BY <2>2, <3>3, <3>4, ScaleFacts
  <2>6. QED
    <3> DEFINE sw == Switched
    <3>1. /\ sw.index = NextIndex /\ sw.sector = NextIndex + 1 /\ sw.pos = 0
          /\ sw \in [index : {NextIndex}, sector : {NextIndex + 1}, pos : {0},
                     byte_pos : {reader.byte_pos}, byte_size : {reader.byte_size}]
      BY <1>1, <2>4
    <3> HIDE DEF sw
    <3>2. /\ NextIndex \in 0 .. MAP - 1 /\ NextIndex + 1 \in 1 .. MAP
          /\ 0 \in 0 .. SECTOR /\ 0 < SECTOR
      BY <2>7, ScaleFacts
    <3>3. sw \in [index : 0 .. MAP - 1, sector : 1 .. MAP, pos : 0 .. SECTOR,
                  byte_pos : {reader.byte_pos}, byte_size : {reader.byte_size}]
      BY <3>1, <3>2
    <3>4. OneMap => reader.byte_pos = NextIndex * SECTOR + 0
      <4>1. NextIndex * SECTOR \in Int
        BY <2>7, ScaleFacts
      <4>2. QED
        BY <2>5, <4>1
    <3>5. sw.index = NextIndex /\ sw.sector = sw.index + 1 /\ sw.pos = 0
      BY <3>1
    <3>6. QED
      BY <3>2, <3>3, <3>4, <3>5 DEF sw
<1>5. QED
  BY <1>3, <1>4

(* What read does to the reader and to what was read so far.               *)
LEMMA ReadStep ==
    ASSUME ReaderIInv, Read, UNCHANGED stream, reader.byte_pos < stream.length
    PROVE  /\ reader' \in [index : 0 .. MAP - 1, sector : 1 .. MAP, pos : 0 .. SECTOR,
                           byte_pos : Nat, byte_size : {stream.length, MaxDirSize}]
           /\ reader'.byte_pos = reader.byte_pos + 1 /\ reader'.byte_size = reader.byte_size
           /\ Position'
           /\ ReadByte \in Nat
           /\ got' \in Seq(Nat) /\ Len(got') = reader'.byte_pos
           /\ ReadsInOrder'
           /\ OneMap => ReadByte = reader.byte_pos + 1
<1>1. /\ stream \in Streams
      /\ reader \in [index : 0 .. MAP - 1, sector : 1 .. MAP, pos : 0 .. SECTOR,
                     byte_pos : Nat, byte_size : {stream.length, MaxDirSize}]
      /\ got \in Seq(Nat) /\ Len(got) = reader.byte_pos
  BY DEF ReaderIInv, TypeOK, BytesRead
<1>2. /\ ~ReadThrows
      /\ reader' = [Switched EXCEPT !.pos = @ + 1, !.byte_pos = @ + 1]
      /\ got' = Append(got, ReadByte)
  BY DEF Read
<1> DEFINE sw == Switched
<1>3. /\ sw \in [index : 0 .. MAP - 1, sector : 1 .. MAP, pos : 0 .. SECTOR,
                 byte_pos : {reader.byte_pos}, byte_size : {reader.byte_size}]
      /\ sw.sector = sw.index + 1
      /\ sw.pos < SECTOR
      /\ OneMap => reader.byte_pos = sw.index * SECTOR + sw.pos
  BY <1>2, SwitchedFacts
<1>4. stream.length \in Nat
  BY <1>1, StreamFacts
<1>5. ReadByte \in Nat /\ (OneMap => ReadByte = reader.byte_pos + 1)
  <2> DEFINE k == (sw.sector - 1) * SECTOR + (sw.pos + 1)
  <2>1. k \in Nat /\ (OneMap => k = reader.byte_pos + 1)
    <3>1. sw.index \in Nat /\ sw.pos \in Nat /\ sw.sector - 1 = sw.index
      BY <1>3, ScaleFacts
    <3>2. sw.index * SECTOR \in Nat
      BY <3>1, ScaleFacts
    <3>3. QED
      BY <1>3, <3>1, <3>2, ScaleFacts
  <2>2. ReadByte = IF k <= stream.length THEN k ELSE 0
    BY DEF ReadByte, DataByte
  <2> HIDE DEF k
  <2>3. QED
    BY <1>1, <1>4, <2>1, <2>2
<1> HIDE DEF sw
<1>6. /\ reader' \in [index : 0 .. MAP - 1, sector : 1 .. MAP, pos : 0 .. SECTOR,
                      byte_pos : Nat, byte_size : {stream.length, MaxDirSize}]
      /\ reader'.byte_pos = reader.byte_pos + 1 /\ reader'.byte_size = reader.byte_size
      /\ reader'.index = sw.index /\ reader'.pos = sw.pos + 1 /\ reader'.sector = sw.sector
  <2>1. reader' = [sw EXCEPT !.pos = @ + 1, !.byte_pos = @ + 1]
    BY <1>2 DEF sw
  <2>2. /\ reader'.byte_pos = reader.byte_pos + 1 /\ reader'.byte_size = reader.byte_size
        /\ reader'.index = sw.index /\ reader'.pos = sw.pos + 1 /\ reader'.sector = sw.sector
        /\ reader' \in [index : {sw.index}, sector : {sw.sector}, pos : {sw.pos + 1},
                        byte_pos : {reader.byte_pos + 1}, byte_size : {reader.byte_size}]
    BY <1>3, <2>1
  <2>3. sw.pos + 1 \in 0 .. SECTOR /\ reader.byte_pos + 1 \in Nat
    <3> DEFINE p == sw.pos
               b == reader.byte_pos
    <3>1. b \in Nat
      BY <1>1 DEF ReaderIInv, TypeOK
    <3>2. p \in 0 .. SECTOR /\ p < SECTOR
      <4>1. sw.pos \in 0 .. SECTOR
        BY <1>3, Zenon
      <4>2. QED
        BY <1>3, <4>1
    <3> HIDE DEF p, b
    <3>3. p + 1 \in 0 .. SECTOR /\ b + 1 \in Nat
      BY <3>1, <3>2, ScaleFacts
    <3>4. QED
      BY <3>3 DEF p, b
  <2>4. /\ sw.index \in 0 .. MAP - 1 /\ sw.sector \in 1 .. MAP
        /\ reader.byte_size \in {stream.length, MaxDirSize}
    BY <1>1, <1>3
  <2>5. QED
    BY <2>2, <2>3, <2>4
<1>7. OneMap' = OneMap /\ stream' = stream
  BY DEF OneMap, Sectors
<1>8. Position'
  <2>1. ASSUME OneMap PROVE reader'.byte_pos = reader'.index * SECTOR + reader'.pos
    <3>1. sw.index * SECTOR \in Int /\ sw.pos \in Int
      BY <1>3, ScaleFacts
    <3>2. QED
      BY <1>3, <1>6, <2>1, <3>1
  <2>2. QED
    BY <1>1, <1>3, <1>4, <1>6, <1>7, <2>1 DEF Position
<1>9. got' \in Seq(Nat) /\ Len(got') = reader'.byte_pos
  BY <1>1, <1>2, <1>5, <1>6
<1>10. ReadsInOrder'
  <2>1. ASSUME OneMap PROVE got' = [i \in 1 .. reader'.byte_pos |-> i]
    <3>1. got = [i \in 1 .. reader.byte_pos |-> i]
      BY <2>1 DEF ReaderIInv, ReadsInOrder
    <3>2. \A i \in 1 .. reader'.byte_pos : got'[i] = i
      BY <1>1, <1>2, <1>5, <1>6, <2>1, <3>1
    <3>3. QED
      BY <1>9, <3>2
  <2>2. QED
    BY <1>7, <2>1 DEF ReadsInOrder
<1>11. QED
  BY <1>5, <1>6, <1>8, <1>9, <1>10

-----------------------------------------------------------------------------
(* Each operation keeps the reader's invariant.                            *)
LEMMA SaveByteKeeps == ReaderIInv /\ SaveByte => ReaderIInv'
<1> SUFFICES ASSUME ReaderIInv, SaveByte PROVE ReaderIInv'
  OBVIOUS
<1>1. TypeOK /\ BytesRead /\ Position /\ Phases
  BY DEF ReaderIInv
<1>2. /\ phase = "save" /\ phase' = "save" /\ Read /\ ~AtEof
      /\ stream' = stream /\ buf' = buf /\ listed' = listed
  BY DEF SaveByte
<1>3. stream.length \in Nat /\ reader.byte_pos \in Nat /\ reader.byte_pos <= stream.length
      /\ reader.byte_size = stream.length /\ ~stream.is_dir
  BY <1>1, <1>2, StreamFacts DEF TypeOK, Position, Phases
<1>4. reader.byte_pos < stream.length
  BY <1>2, <1>3 DEF AtEof
<1>5. /\ reader' \in [index : 0 .. MAP - 1, sector : 1 .. MAP, pos : 0 .. SECTOR,
                      byte_pos : Nat, byte_size : {stream.length, MaxDirSize}]
      /\ reader'.byte_size = stream.length
      /\ Position' /\ ReadsInOrder'
      /\ got' \in Seq(Nat) /\ Len(got') = reader'.byte_pos
  BY <1>2, <1>3, <1>4, ReadStep
<1>6. TypeOK'
  BY <1>1, <1>2, <1>5 DEF TypeOK
<1>7. BytesRead' /\ Phases'
  BY <1>1, <1>2, <1>3, <1>5 DEF BytesRead, Phases
<1>8. QED
  BY <1>5, <1>6, <1>7 DEF ReaderIInv

LEMMA NextByteKeeps == ReaderIInv /\ NextByte => ReaderIInv'
<1> SUFFICES ASSUME ReaderIInv, NextByte PROVE ReaderIInv'
  OBVIOUS
<1>1. TypeOK /\ BytesRead /\ Position /\ Phases
  BY DEF ReaderIInv
<1>2. /\ phase \in {"header", "first", "next"} /\ Len(buf) < ENTRY
      /\ phase' = phase /\ Read /\ buf' = Append(buf, ReadByte)
      /\ stream' = stream /\ listed' = listed
  BY DEF NextByte, InNext
<1>3. /\ stream.length \in Nat /\ reader.byte_pos \in Nat
      /\ reader.byte_pos <= stream.length /\ stream.is_dir
      /\ ENTRY <= stream.length
  BY <1>1, <1>2, StreamFacts DEF TypeOK, Position, Phases
<1>4. reader.byte_pos < stream.length
  <2>1. CASE phase = "header"
    BY <1>1, <1>2, <1>3, <2>1, ScaleFacts DEF Phases, BytesRead
  <2>2. CASE phase # "header"
    <3>1. reader.byte_pos # stream.length
      BY <1>1, <1>2, <2>2 DEF Phases, Read, ReadThrows
    <3>2. QED
      BY <1>3, <3>1
  <2>3. QED
    BY <2>1, <2>2
<1>5. /\ reader' \in [index : 0 .. MAP - 1, sector : 1 .. MAP, pos : 0 .. SECTOR,
                      byte_pos : Nat, byte_size : {stream.length, MaxDirSize}]
      /\ reader'.byte_pos = reader.byte_pos + 1 /\ reader'.byte_size = reader.byte_size
      /\ Position' /\ ReadsInOrder'
      /\ ReadByte \in Nat
      /\ got' \in Seq(Nat) /\ Len(got') = reader'.byte_pos
  BY <1>2, <1>3, <1>4, ReadStep
<1>6. buf' \in Seq(Nat) /\ Len(buf') = Len(buf) + 1 /\ Len(buf') <= ENTRY
  BY <1>1, <1>2, <1>5, ScaleFacts DEF BytesRead
<1>7. TypeOK'
  BY <1>1, <1>2, <1>5, <1>6 DEF TypeOK
<1>8. Phases'
  BY <1>1, <1>2, <1>3, <1>5, <1>6 DEF Phases
<1>9. BytesRead'
  BY <1>1, <1>2, <1>5, <1>6 DEF BytesRead
<1>10. QED
  BY <1>5, <1>7, <1>8, <1>9 DEF ReaderIInv

LEMMA SetSizeKeeps == ReaderIInv /\ SetSize => ReaderIInv'
<1> SUFFICES ASSUME ReaderIInv, SetSize PROVE ReaderIInv'
  OBVIOUS
<1>1. TypeOK /\ BytesRead /\ Position /\ Phases /\ ReadsInOrder
  BY DEF ReaderIInv
<1>2. /\ phase = "header" /\ phase' = "first" /\ buf' = <<>>
      /\ reader' = [reader EXCEPT !.byte_size = stream.length]
      /\ stream' = stream /\ got' = got /\ listed' = listed
  BY DEF SetSize
<1>3. /\ reader' \in [index : 0 .. MAP - 1, sector : 1 .. MAP, pos : 0 .. SECTOR,
                      byte_pos : Nat, byte_size : {stream.length}]
      /\ reader'.byte_size = stream.length /\ reader'.byte_pos = reader.byte_pos
      /\ reader'.index = reader.index /\ reader'.pos = reader.pos
      /\ reader'.sector = reader.sector
  BY <1>1, <1>2 DEF TypeOK
<1>4. TypeOK'
  BY <1>1, <1>2, <1>3, ScaleFacts DEF TypeOK
<1>5. OneMap' = OneMap
  BY <1>2 DEF OneMap, Sectors
<1>6. Position' /\ ReadsInOrder'
  BY <1>1, <1>2, <1>3, <1>5 DEF Position, ReadsInOrder
<1>7. BytesRead' /\ Phases'
  BY <1>1, <1>2, <1>3 DEF BytesRead, Phases
<1>8. QED
  BY <1>4, <1>6, <1>7 DEF ReaderIInv

(* The steps that do not move the reader.                                  *)
LEMMA ReaderStaysKeeps ==
    ASSUME ReaderIInv, UNCHANGED <<stream, reader, got>>
    PROVE  Position' /\ ReadsInOrder' /\ (TypeOK' <=>
               /\ Len(buf') <= ENTRY
               /\ \A i \in DOMAIN listed' : Len(listed'[i]) = ENTRY
               /\ phase' \in {"save", "header", "first", "next", "loop", "done", "EOF"})
<1>1. TypeOK /\ Position /\ ReadsInOrder
  BY DEF ReaderIInv
<1>2. OneMap' = OneMap
  BY DEF OneMap, Sectors
<1>3. QED
  BY <1>1, <1>2 DEF TypeOK, Position, ReadsInOrder

LEMMA EndsKeep == ReaderIInv /\ (SaveEnds \/ EntryRead \/ LoopEnds \/ ThrowEof) => ReaderIInv'
<1> SUFFICES ASSUME ReaderIInv, SaveEnds \/ EntryRead \/ LoopEnds \/ ThrowEof
             PROVE  ReaderIInv'
  OBVIOUS
<1>1. TypeOK /\ BytesRead /\ Position /\ Phases
  BY DEF ReaderIInv
<1>2. /\ UNCHANGED <<stream, reader, got, buf, listed>>
      /\ phase' \in {"done", "loop", "EOF"}
      /\ phase' = "loop" => phase \in {"first", "next"} /\ Len(buf) = ENTRY
  BY DEF SaveEnds, EntryRead, LoopEnds, ThrowEof
<1>3. TypeOK' /\ Position' /\ ReadsInOrder'
  BY <1>1, <1>2, ReaderStaysKeeps DEF TypeOK
<1>4. BytesRead' /\ Phases'
  BY <1>1, <1>2 DEF BytesRead, Phases
<1>5. QED
  BY <1>3, <1>4 DEF ReaderIInv

LEMMA ListEntryKeeps == ReaderIInv /\ ListEntry => ReaderIInv'
<1> SUFFICES ASSUME ReaderIInv, ListEntry PROVE ReaderIInv'
  OBVIOUS
<1>1. TypeOK /\ BytesRead /\ Position /\ Phases
  BY DEF ReaderIInv
<1>2. /\ UNCHANGED <<stream, reader, got>>
      /\ phase = "loop" /\ phase' = "next" /\ buf' = <<>>
      /\ listed' = listed \/ listed' = Append(listed, buf)
  BY DEF ListEntry
<1>3. Len(buf) = ENTRY /\ buf \in Seq(Nat) /\ listed \in Seq(Seq(Nat))
      /\ \A i \in DOMAIN listed : Len(listed[i]) = ENTRY
  BY <1>1, <1>2 DEF Phases, BytesRead, TypeOK
<1>4. listed' \in Seq(Seq(Nat)) /\ \A i \in DOMAIN listed' : Len(listed'[i]) = ENTRY
  <2>1. CASE listed' = listed
    BY <1>3, <2>1
  <2>2. CASE listed' = Append(listed, buf)
    <3>1. listed' \in Seq(Seq(Nat)) /\ Len(listed') = Len(listed) + 1
      BY <1>3, <2>2
    <3>2. \A i \in 1 .. Len(listed) + 1 :
              listed'[i] = IF i <= Len(listed) THEN listed[i] ELSE buf
      BY <1>3, <2>2
    <3>3. DOMAIN listed' = 1 .. Len(listed) + 1 /\ DOMAIN listed = 1 .. Len(listed)
          /\ Len(listed) \in Nat
      BY <1>3, <3>1
    <3>4. ASSUME NEW i \in DOMAIN listed' PROVE Len(listed'[i]) = ENTRY
      <4>1. CASE i <= Len(listed)
        <5>1. i \in DOMAIN listed /\ listed'[i] = listed[i]
          BY <3>2, <3>3, <4>1
        <5>2. QED
          BY <1>3, <5>1
      <4>2. CASE ~(i <= Len(listed))
        BY <1>3, <3>2, <3>3, <4>2
      <4>3. QED
        BY <4>1, <4>2
    <3>5. QED
      BY <3>1, <3>4
  <2>3. QED
    BY <1>2, <2>1, <2>2
<1>5. Len(buf') <= ENTRY /\ buf' \in Seq(Nat)
  BY <1>2, ScaleFacts
<1>6. TypeOK' /\ Position' /\ ReadsInOrder'
  BY <1>2, <1>4, <1>5, ReaderStaysKeeps
<1>7. BytesRead' /\ Phases'
  BY <1>1, <1>2, <1>4, <1>5 DEF BytesRead, Phases
<1>8. QED
  BY <1>6, <1>7 DEF ReaderIInv

LEMMA ReaderStepKeeps == ReaderIInv /\ [Next]_vars => ReaderIInv'
<1> SUFFICES ASSUME ReaderIInv, [Next]_vars PROVE ReaderIInv'
  OBVIOUS
<1>1. CASE Next
  BY <1>1, SaveByteKeeps, NextByteKeeps, SetSizeKeeps, EndsKeep, ListEntryKeeps DEF Next
<1>2. CASE UNCHANGED vars
  BY <1>2 DEF vars, ReaderIInv, TypeOK, BytesRead, Position, Phases, ReadsInOrder,
              OneMap, Sectors
<1>3. QED
  BY <1>1, <1>2

(* The state of a reader is what it is declared to be: the number of bytes *)
(* it has given is the position it has, and no entry is longer than 23.    *)
THEOREM ReaderTypeOK == Spec => []TypeOK
<1>1. ReaderIInv => TypeOK
  BY DEF ReaderIInv
<1>2. QED
  BY <1>1, InitHolds, ReaderStepKeeps, PTL DEF Spec

(* Of a file whose sectors are all in its first map, the reader gets the   *)
(* bytes in their order (sparta_dos_file::read), for sectors, maps and     *)
(* files of every size.                                                    *)
THEOREM BytesComeInOrder == Spec => []ReadsInOrder
<1>1. ReaderIInv => ReadsInOrder
  BY DEF ReaderIInv
<1>2. QED
  BY <1>1, InitHolds, ReaderStepKeeps, PTL DEF Spec

-----------------------------------------------------------------------------
(* The first entries of a directory that are not deleted, and one more.    *)
LEMMA NotDeletedFacts ==
    ASSUME NEW n \in Nat
    PROVE  /\ NotDeleted(0) = {} /\ Cardinality(NotDeleted(0)) = 0
           /\ IsFiniteSet(NotDeleted(n)) /\ Cardinality(NotDeleted(n)) \in Nat
           /\ n + 1 \in stream.deleted => NotDeleted(n + 1) = NotDeleted(n)
           /\ n + 1 \notin stream.deleted =>
                  /\ NotDeleted(n + 1) = NotDeleted(n) \cup {n + 1}
                  /\ Cardinality(NotDeleted(n + 1)) = Cardinality(NotDeleted(n)) + 1
<1>1. NotDeleted(0) = {} /\ Cardinality(NotDeleted(0)) = 0
  BY FS_EmptySet DEF NotDeleted
<1>2. IsFiniteSet(1 .. n)
  BY FS_Interval
<1>3. IsFiniteSet(NotDeleted(n)) /\ Cardinality(NotDeleted(n)) \in Nat
  <2>1. NotDeleted(n) \subseteq 1 .. n
    BY DEF NotDeleted
  <2>2. QED
    BY <1>2, <2>1, FS_Subset, FS_CardinalityType
<1>4. n + 1 \in stream.deleted => NotDeleted(n + 1) = NotDeleted(n)
  BY DEF NotDeleted
<1>5. n + 1 \notin stream.deleted => NotDeleted(n + 1) = NotDeleted(n) \cup {n + 1}
  BY DEF NotDeleted
<1>6. n + 1 \notin NotDeleted(n)
  BY DEF NotDeleted
<1>7. ASSUME n + 1 \notin stream.deleted
      PROVE  Cardinality(NotDeleted(n + 1)) = Cardinality(NotDeleted(n)) + 1
  BY <1>3, <1>5, <1>6, <1>7, FS_AddElement
<1>8. QED
  BY <1>1, <1>3, <1>4, <1>5, <1>7

(* No entry of the first n comes later than the place of entry n.          *)
LEMMA NotDeletedBefore ==
    ASSUME NEW n \in Nat, NEW e \in NotDeleted(n)
    PROVE  /\ e \in Nat /\ IsFiniteSet(NotDeleted(e))
           /\ Cardinality(NotDeleted(e)) \in 1 .. Cardinality(NotDeleted(n))
<1>1. e \in 1 .. n /\ e \in NotDeleted(e)
  BY DEF NotDeleted
<1>2. NotDeleted(e) \subseteq NotDeleted(n)
  BY <1>1 DEF NotDeleted
<1>3. /\ IsFiniteSet(NotDeleted(n)) /\ IsFiniteSet(NotDeleted(e))
      /\ Cardinality(NotDeleted(n)) \in Nat /\ Cardinality(NotDeleted(e)) \in Nat
  BY <1>1, NotDeletedFacts
<1>4. Cardinality(NotDeleted(e)) <= Cardinality(NotDeleted(n))
  BY <1>2, <1>3, FS_Subset
<1>5. Cardinality(NotDeleted(e)) # 0
  BY <1>1, <1>3, FS_EmptySet
<1>6. QED
  BY <1>1, <1>3, <1>4, <1>5

(* Bytes and whole entries.                                                *)
LEMMA WholeEntries ==
    ASSUME NEW m \in Nat \ {0}, NEW q \in Nat, NEW e \in Nat, NEW b \in 0 .. m
    PROVE  /\ e * m + b <= q * m => e <= q
           /\ e * m + b < q * m => e < q
           /\ e * m + b <= q * m /\ b = m => e < q
           /\ e * m + b = q * m /\ b < m => e = q /\ b = 0
           /\ e * m + b = q * m /\ b = m => q = e + 1
           /\ (e + 1) * m = e * m + m
<1>1. (e + 1) * m = e * m + m
  OBVIOUS
<1>2. \A f, g \in Nat : f < g => f * m + m <= g * m
  OBVIOUS
<1>3. e * m \in Nat /\ q * m \in Nat
  OBVIOUS
<1>4. e < q \/ e = q \/ q < e
  OBVIOUS
<1>5. q < e => q * m + m <= e * m
  BY <1>2
<1>6. e < q => e * m + m <= q * m
  BY <1>2
<1>7. e = q => e * m = q * m
  OBVIOUS
<1>8. e + 1 < q => (e + 1) * m + m <= q * m
  BY <1>2
<1>9. QED
  BY <1>1, <1>3, <1>4, <1>5, <1>6, <1>7, <1>8

(* The length of a directory, in entries; the first is its own.            *)
LEMMA DirLength ==
    ASSUME stream \in Streams, stream.is_dir
    PROVE  Entries \in Nat /\ stream.length = (Entries + 1) * ENTRY
<1> DEFINE n == stream.length
           m == ENTRY
<1>1. n \in Nat \ {0} /\ m \in Nat \ {0} /\ n % m = 0
  BY StreamFacts, ScaleFacts
<1>2. Entries = n \div m - 1
  BY DEF Entries
<1> HIDE DEF n, m
<1>3. n = (n \div m) * m /\ n \div m \in Nat
  BY <1>1
<1>4. n \div m # 0
  BY <1>1, <1>3
<1>5. QED
  BY <1>2, <1>3, <1>4 DEF n, m

(* Two entries that are not the same have not the same bytes.              *)
LEMMA EntriesDiffer ==
    ASSUME NEW e \in Nat, NEW f \in Nat, EntryBytes(e) = EntryBytes(f)
    PROVE  e = f
<1>1. EntryBytes(e)[1] = e * ENTRY + 1 /\ EntryBytes(f)[1] = f * ENTRY + 1
  BY ScaleFacts DEF EntryBytes
<1>2. e * ENTRY \in Nat /\ f * ENTRY \in Nat
  BY ScaleFacts
<1>3. e * ENTRY + 0 = f * ENTRY
  BY <1>1, <1>2
<1>4. QED
  BY <1>3, WholeEntries, ScaleFacts

-----------------------------------------------------------------------------
LEMMA DirInitHolds == Init => DirIInv
<1> SUFFICES ASSUME Init PROVE DirIInv
  OBVIOUS
<1>1. stream \in Streams /\ stream.is_dir \in BOOLEAN
  BY StreamFacts DEF Init
<1>2. /\ reader.byte_pos = 0 /\ buf = <<>> /\ listed = <<>>
      /\ phase = IF stream.is_dir THEN "header" ELSE "save"
  BY DEF Init
<1>3. Reading(0)
  BY <1>2, ScaleFacts DEF Reading
<1>4. Listing
  BY <1>2, <1>3 DEF Listing
<1>5. QED
  BY <1>4, InitHolds DEF DirIInv

(* A byte read is the next one of the entry.                               *)
LEMMA DirNextByteKeeps == DirIInv /\ NextByte => DirIInv'
<1> SUFFICES ASSUME DirIInv, NextByte PROVE DirIInv'
  OBVIOUS
<1>1. ReaderIInv /\ ReaderIInv' /\ Listing
  BY NextByteKeeps DEF DirIInv
<1>2. /\ phase \in {"header", "first", "next"} /\ Len(buf) < ENTRY
      /\ phase' = phase /\ Read /\ buf' = Append(buf, ReadByte)
      /\ stream' = stream /\ listed' = listed
  BY DEF NextByte, InNext
<1>3. /\ stream.length \in Nat /\ reader.byte_pos \in Nat
      /\ reader.byte_pos <= stream.length /\ stream.is_dir
      /\ ENTRY <= stream.length /\ buf \in Seq(Nat)
  BY <1>1, <1>2, StreamFacts DEF ReaderIInv, TypeOK, Position, Phases, BytesRead
<1>4. reader.byte_pos < stream.length
  <2>1. CASE phase = "header"
    BY <1>1, <1>2, <1>3, <2>1, ScaleFacts DEF ReaderIInv, Phases
  <2>2. CASE phase # "header"
    <3>1. reader.byte_pos # stream.length
      BY <1>1, <1>2, <2>2 DEF ReaderIInv, Phases, Read, ReadThrows
    <3>2. QED
      BY <1>3, <3>1
  <2>3. QED
    BY <2>1, <2>2
<1>5. /\ reader'.byte_pos = reader.byte_pos + 1
      /\ OneMap => ReadByte = reader.byte_pos + 1
      /\ ReadByte \in Nat
  BY <1>1, <1>2, <1>4, ReadStep
<1>6. OneMap' = OneMap /\ Entries' = Entries
  BY <1>2 DEF OneMap, Sectors, Entries
<1>7. ASSUME OneMap, NEW e \in Nat, Reading(e) PROVE Reading(e)'
  <2>1. e * ENTRY \in Nat
    BY ScaleFacts
  <2>2. /\ reader.byte_pos = e * ENTRY + Len(buf)
        /\ \A i \in DOMAIN buf : buf[i] = e * ENTRY + i
    BY <1>7 DEF Reading
  <2>3. buf' \in Seq(Nat) /\ Len(buf') = Len(buf) + 1 /\ Len(buf) \in Nat
        /\ DOMAIN buf' = 1 .. Len(buf) + 1 /\ DOMAIN buf = 1 .. Len(buf)
    BY <1>2, <1>3, <1>5
  <2>4. ReadByte = e * ENTRY + (Len(buf) + 1)
    BY <1>5, <1>7, <2>1, <2>2, <2>3
  <2>5. ASSUME NEW i \in DOMAIN buf' PROVE buf'[i] = e * ENTRY + i
    <3>1. CASE i \in DOMAIN buf
      BY <1>2, <1>3, <1>5, <2>2, <3>1
    <3>2. CASE i \notin DOMAIN buf
      <4>1. i = Len(buf) + 1
        BY <2>3, <3>2
      <4>2. buf'[i] = ReadByte
        BY <1>2, <1>3, <1>5, <4>1
      <4>3. QED
        BY <2>4, <4>1, <4>2
    <3>3. QED
      BY <3>1, <3>2
  <2>6. reader'.byte_pos = e * ENTRY + Len(buf')
    BY <1>5, <2>1, <2>2, <2>3
  <2>7. QED
    BY <2>5, <2>6 DEF Reading
<1>8. \A e \in Nat : ListedTo(e - 1)' <=> ListedTo(e - 1)
  BY <1>2 DEF ListedTo, NotDeleted
<1>9. Listing'
  <2> SUFFICES ASSUME OneMap, stream.is_dir
               PROVE  /\ phase = "header" => Reading(0)' /\ listed = <<>>
                      /\ phase = "first" => Reading(1)' /\ listed = <<>>
                      /\ phase = "next" =>
                             \E e \in 1 .. Entries : Reading(e)' /\ ListedTo(e - 1)'
    BY <1>2, <1>6 DEF Listing
  <2>1. phase = "header" => Reading(0)' /\ listed = <<>>
    BY <1>1, <1>7 DEF Listing
  <2>2. phase = "first" => Reading(1)' /\ listed = <<>>
    BY <1>1, <1>7 DEF Listing
  <2>3. ASSUME phase = "next"
        PROVE  \E e \in 1 .. Entries : Reading(e)' /\ ListedTo(e - 1)'
    <3>1. PICK e \in 1 .. Entries : Reading(e) /\ ListedTo(e - 1)
      BY <1>1, <2>3 DEF Listing
    <3>2. e \in Nat
      OBVIOUS
    <3>3. Reading(e)' /\ ListedTo(e - 1)'
      BY <1>7, <1>8, <3>1, <3>2
    <3>4. QED
      BY <3>3
  <2>4. QED
    BY <2>1, <2>2, <2>3
<1>10. QED
  BY <1>1, <1>9 DEF DirIInv

LEMMA DirSetSizeKeeps == DirIInv /\ SetSize => DirIInv'
<1> SUFFICES ASSUME DirIInv, SetSize PROVE DirIInv'
  OBVIOUS
<1>1. ReaderIInv /\ ReaderIInv' /\ Listing
  BY SetSizeKeeps DEF DirIInv
<1>2. /\ phase = "header" /\ Len(buf) = ENTRY /\ phase' = "first" /\ buf' = <<>>
      /\ reader'.byte_pos = reader.byte_pos
      /\ stream' = stream /\ listed' = listed
  BY <1>1 DEF SetSize, ReaderIInv, TypeOK
<1>3. OneMap' = OneMap
  BY <1>2 DEF OneMap, Sectors
<1>4. ASSUME OneMap, stream.is_dir PROVE Reading(1)' /\ listed' = <<>>
  BY <1>1, <1>2, <1>4, ScaleFacts DEF Listing, Reading
<1>5. QED
  BY <1>1, <1>2, <1>3, <1>4 DEF DirIInv, Listing

(* next() returns when the entry is whole: it is inside of the directory.  *)
LEMMA DirEntryReadKeeps == DirIInv /\ EntryRead => DirIInv'
<1> SUFFICES ASSUME DirIInv, EntryRead PROVE DirIInv'
  OBVIOUS
<1>1. ReaderIInv /\ ReaderIInv' /\ Listing
  BY EndsKeep DEF DirIInv
<1>2. /\ phase \in {"first", "next"} /\ Len(buf) = ENTRY /\ phase' = "loop"
      /\ stream' = stream /\ reader' = reader /\ buf' = buf /\ listed' = listed
  BY DEF EntryRead
<1>3. OneMap' = OneMap /\ Entries' = Entries
  BY <1>2 DEF OneMap, Sectors, Entries
<1>4. \A e \in Nat : (Reading(e)' <=> Reading(e)) /\ (ListedTo(e - 1)' <=> ListedTo(e - 1))
  BY <1>2 DEF Reading, ListedTo, NotDeleted
<1>5. ASSUME OneMap, stream.is_dir
      PROVE  \E e \in 1 .. Entries : Reading(e) /\ ListedTo(e - 1)
  <2>1. CASE phase = "next"
    BY <1>1, <1>5, <2>1 DEF Listing
  <2>2. CASE phase = "first"
    <3>1. Reading(1) /\ listed = <<>>
      BY <1>1, <1>5, <2>2 DEF Listing
    <3>2. ListedTo(0)
      BY <3>1, NotDeletedFacts DEF ListedTo
    <3>3. /\ Entries \in Nat /\ stream.length = (Entries + 1) * ENTRY
          /\ reader.byte_pos <= stream.length
      BY <1>1, <1>5, DirLength DEF ReaderIInv, TypeOK, Position
    <3>4. 1 * ENTRY + ENTRY <= (Entries + 1) * ENTRY
      BY <1>2, <3>1, <3>3 DEF Reading
    <3>5. 1 < Entries + 1
      BY <3>3, <3>4, ScaleFacts, WholeEntries
    <3>6. 1 \in 1 .. Entries /\ 1 - 1 = 0
      BY <3>3, <3>5
    <3>7. QED
      BY <3>1, <3>2, <3>6
  <2>3. QED
    BY <1>2, <2>1, <2>2
<1>6. ASSUME OneMap, stream.is_dir
      PROVE  \E e \in 1 .. Entries : Reading(e)' /\ ListedTo(e - 1)'
  BY <1>4, <1>5, <1>6
<1>7. Listing'
  BY <1>2, <1>3, <1>6 DEF Listing
<1>8. QED
  BY <1>1, <1>7 DEF DirIInv

LEMMA DirSaveKeeps == DirIInv /\ (SaveByte \/ SaveEnds) => DirIInv'
<1> SUFFICES ASSUME DirIInv, SaveByte \/ SaveEnds PROVE DirIInv'
  OBVIOUS
<1>1. ReaderIInv /\ ReaderIInv'
  BY SaveByteKeeps, EndsKeep DEF DirIInv
<1>2. phase = "save" /\ stream' = stream
  BY DEF SaveByte, SaveEnds
<1>3. ~stream.is_dir
  BY <1>1, <1>2 DEF ReaderIInv, Phases
<1>4. QED
  BY <1>1, <1>2, <1>3 DEF DirIInv, Listing

(* The loop ends at the end of the directory: its last entry was read, and *)
(* those before it are listed.                                             *)
LEMMA DirLoopEndsKeeps == DirIInv /\ LoopEnds => DirIInv'
<1> SUFFICES ASSUME DirIInv, LoopEnds PROVE DirIInv'
  OBVIOUS
<1>1. ReaderIInv /\ ReaderIInv' /\ Listing
  BY EndsKeep DEF DirIInv
<1>2. /\ phase = "loop" /\ phase' = "done" /\ AtEof
      /\ stream' = stream /\ reader' = reader /\ buf' = buf /\ listed' = listed
  BY DEF LoopEnds
<1>3. OneMap' = OneMap /\ Entries' = Entries
  BY <1>2 DEF OneMap, Sectors, Entries
<1>4. ASSUME OneMap, stream.is_dir PROVE Entries >= 1 /\ ListedTo(Entries - 1)
  <2>1. PICK e \in 1 .. Entries : Reading(e) /\ ListedTo(e - 1)
    BY <1>1, <1>2, <1>4 DEF Listing
  <2>2. /\ Entries \in Nat /\ stream.length = (Entries + 1) * ENTRY
        /\ Len(buf) = ENTRY /\ reader.byte_pos = stream.length
    BY <1>1, <1>2, <1>4, DirLength DEF ReaderIInv, TypeOK, Phases, AtEof
  <2>3. e * ENTRY + ENTRY = (Entries + 1) * ENTRY
    BY <2>1, <2>2 DEF Reading
  <2>4. Entries + 1 = e + 1
    <3>1. e \in Nat /\ Entries + 1 \in Nat /\ ENTRY \in 0 .. ENTRY
      BY <2>1, <2>2, ScaleFacts
    <3>2. QED
      BY <2>3, <3>1, ScaleFacts, WholeEntries
  <2>5. e = Entries
    BY <2>2, <2>4
  <2>6. QED
    BY <2>1, <2>2, <2>5
<1>5. (ListedTo(Entries - 1))' <=> ListedTo(Entries - 1)
  BY <1>2, <1>3 DEF ListedTo, NotDeleted
<1>6. Listing'
  BY <1>2, <1>3, <1>4, <1>5 DEF Listing
<1>7. QED
  BY <1>1, <1>6 DEF DirIInv

(* An entry is listed if it is not deleted, after all those before it, and *)
(* the next one is read: there is one, for the end is not reached.         *)
LEMMA DirListEntryKeeps == DirIInv /\ ListEntry => DirIInv'
<1> SUFFICES ASSUME DirIInv, ListEntry PROVE DirIInv'
  OBVIOUS
<1>1. ReaderIInv /\ ReaderIInv' /\ Listing
  BY ListEntryKeeps DEF DirIInv
<1>2. /\ phase = "loop" /\ phase' = "next" /\ ~AtEof /\ buf' = <<>>
      /\ stream' = stream /\ reader' = reader
      /\ listed' = IF IsDeleted THEN listed ELSE Append(listed, buf)
  BY DEF ListEntry
<1>3. OneMap' = OneMap /\ Entries' = Entries
  BY <1>2 DEF OneMap, Sectors, Entries
<1>4. ASSUME OneMap, stream.is_dir
      PROVE  \E e \in 1 .. Entries : Reading(e)' /\ ListedTo(e - 1)'
  <2>1. PICK e \in 1 .. Entries : Reading(e) /\ ListedTo(e - 1)
    BY <1>1, <1>2, <1>4 DEF Listing
  <2>2. /\ Entries \in Nat /\ stream.length = (Entries + 1) * ENTRY
        /\ Len(buf) = ENTRY /\ buf \in Seq(Nat) /\ listed \in Seq(Seq(Nat))
        /\ reader.byte_pos <= stream.length /\ reader.byte_pos # stream.length
        /\ reader.byte_pos \in Nat /\ stream.length \in Nat
    BY <1>1, <1>2, <1>4, DirLength, StreamFacts
       DEF ReaderIInv, TypeOK, BytesRead, Position, Phases, AtEof
  <2>3. e \in Nat /\ e - 1 \in Nat /\ e = (e - 1) + 1
        /\ reader.byte_pos = e * ENTRY + ENTRY
    BY <2>1, <2>2 DEF Reading
  <2>4. e + 1 \in 1 .. Entries
    <3>1. e + 1 \in Nat /\ Entries + 1 \in Nat
          /\ 0 \in 0 .. ENTRY
      BY <2>2, <2>3, ScaleFacts
    <3>2. (e + 1) * ENTRY = e * ENTRY + ENTRY /\ (e + 1) * ENTRY \in Nat
      BY <2>3, <3>1, ScaleFacts
    <3>3. (e + 1) * ENTRY + 0 < (Entries + 1) * ENTRY
      BY <2>2, <2>3, <3>2
    <3>4. e + 1 < Entries + 1
      BY <3>1, <3>3, ScaleFacts, WholeEntries
    <3>5. QED
      BY <2>2, <2>3, <3>4
  <2>5. Reading(e + 1)'
    <3>1. reader.byte_pos = (e + 1) * ENTRY + 0
      BY <2>3, ScaleFacts
    <3>2. QED
      BY <1>2, <3>1 DEF Reading
  <2>6. buf = EntryBytes(e)
    <3>1. buf = [i \in DOMAIN buf |-> buf[i]] /\ DOMAIN buf = 1 .. ENTRY
      BY <2>2
    <3>2. \A i \in DOMAIN buf : buf[i] = e * ENTRY + i
      BY <2>1 DEF Reading
    <3>3. QED
      BY <3>1, <3>2 DEF EntryBytes
  <2>7. IsDeleted <=> e \in stream.deleted
    <3>1. stream.deleted \subseteq Nat
      BY <1>1, <1>4, StreamsAssumption DEF ReaderIInv, TypeOK
    <3>2. ASSUME IsDeleted PROVE e \in stream.deleted
      <4>1. PICK f \in stream.deleted : buf = EntryBytes(f)
        BY <3>2 DEF IsDeleted
      <4>2. e = f
        BY <2>3, <2>6, <3>1, <4>1, EntriesDiffer
      <4>3. QED
        BY <4>1, <4>2
    <3>3. QED
      BY <2>6, <3>2 DEF IsDeleted
  <2>8. /\ Len(listed) = Cardinality(NotDeleted(e - 1))
        /\ \A k \in NotDeleted(e - 1) : listed[Cardinality(NotDeleted(k))] = EntryBytes(k)
    BY <2>1 DEF ListedTo
  <2>9. \A n : NotDeleted(n)' = NotDeleted(n)
    BY <1>2 DEF NotDeleted
  <2>10. /\ Len(listed') = Cardinality(NotDeleted(e))
         /\ \A k \in NotDeleted(e) : listed'[Cardinality(NotDeleted(k))] = EntryBytes(k)
    <3>1. CASE e \in stream.deleted
      <4>1. NotDeleted(e) = NotDeleted(e - 1)
        BY <2>3, <3>1, NotDeletedFacts
      <4>2. QED
        BY <1>2, <2>7, <2>8, <3>1, <4>1
    <3>2. CASE e \notin stream.deleted
      <4> DEFINE c == Cardinality(NotDeleted(e - 1))
      <4>1. /\ NotDeleted(e) = NotDeleted(e - 1) \cup {e}
            /\ Cardinality(NotDeleted(e)) = c + 1 /\ c \in Nat
        BY <2>3, <3>2, NotDeletedFacts
      <4>2. listed' = Append(listed, buf)
        BY <1>2, <2>7, <3>2
      <4>3. ASSUME NEW k \in NotDeleted(e - 1)
            PROVE  listed'[Cardinality(NotDeleted(k))] = EntryBytes(k)
        <5>1. Cardinality(NotDeleted(k)) \in 1 .. c
          BY <2>3, NotDeletedBefore
        <5>2. \A i \in 1 .. Len(listed) : listed'[i] = listed[i]
          BY <2>2, <4>2
        <5>3. listed'[Cardinality(NotDeleted(k))] = listed[Cardinality(NotDeleted(k))]
          BY <2>8, <5>1, <5>2
        <5>4. QED
          BY <2>8, <5>3
      <4>4. Len(listed') = c + 1 /\ listed'[c + 1] = buf
        <5>1. Len(listed) = c
          BY <2>8
        <5> HIDE DEF c
        <5>2. QED
          BY <2>2, <4>1, <4>2, <5>1
      <4>5. listed'[Cardinality(NotDeleted(e))] = EntryBytes(e)
        BY <2>6, <4>1, <4>4
      <4>6. QED
        BY <4>1, <4>3, <4>4, <4>5
    <3>3. QED
      BY <3>1, <3>2
  <2>11. ListedTo((e + 1) - 1)'
    <3>1. (e + 1) - 1 = e
      BY <2>3
    <3>2. ListedTo(e)'
      BY <2>9, <2>10 DEF ListedTo, EntryBytes
    <3>3. QED
      BY <3>1, <3>2
  <2>12. QED
    BY <2>4, <2>5, <2>11
<1>5. Listing'
  BY <1>2, <1>3, <1>4 DEF Listing
<1>6. QED
  BY <1>1, <1>5 DEF DirIInv

(* Of a directory with one map the only sector with no next one is the one *)
(* with its end.                                                           *)
LEMMA NoNextSector ==
    ASSUME ReaderIInv, OneMap, reader.pos = SECTOR, SectorNext = 0
    PROVE  reader.byte_pos >= stream.length
<1>1. /\ stream \in Streams /\ reader.index \in 0 .. MAP - 1
      /\ reader.byte_pos = reader.index * SECTOR + SECTOR
  BY DEF ReaderIInv, TypeOK, Position
<1>2. /\ Sectors \in Nat /\ Sectors >= 1 /\ Sectors <= MAP
      /\ stream.length <= Sectors * SECTOR /\ stream.length \in Nat
  BY <1>1, StreamFacts DEF OneMap
<1> DEFINE n == reader.index + 1
<1>3. n \in Nat /\ n <= MAP /\ NextIndex = n % MAP /\ n = reader.index + 1
  BY <1>1, ScaleFacts DEF NextIndex
<1> HIDE DEF n
<1>4. (n < MAP => NextIndex = n) /\ NextIndex \in 0 .. MAP - 1
  BY <1>3, ScaleFacts, ModFacts
<1>5. n >= Sectors
  <2>1. CASE n = MAP
    BY <1>2, <2>1
  <2>2. CASE n # MAP
    <3>1. NextIndex = n /\ n # 0
      BY <1>1, <1>3, <1>4, <2>2, ScaleFacts
    <3>2. ~(n < Sectors)
      BY <1>3, <3>1 DEF SectorNext, MapEntry
    <3>3. QED
      BY <1>2, <1>3, <3>2
  <2>3. QED
    BY <2>1, <2>2
<1>6. n * SECTOR >= Sectors * SECTOR
  BY <1>2, <1>3, <1>5, ScaleFacts
<1>7. reader.byte_pos = n * SECTOR /\ n * SECTOR \in Nat /\ Sectors * SECTOR \in Nat
  BY <1>1, <1>2, <1>3, ScaleFacts
<1> DEFINE a == n * SECTOR
           b == Sectors * SECTOR
<1>8. a \in Nat /\ b \in Nat /\ a >= b /\ stream.length <= b /\ reader.byte_pos = a
  BY <1>2, <1>6, <1>7
<1> HIDE DEF a, b
<1>9. QED
  BY <1>2, <1>8

(* "EOF" is thrown only after the directory's own entry, when it is the    *)
(* only one.                                                               *)
LEMMA DirThrowKeeps == DirIInv /\ ThrowEof => DirIInv'
<1> SUFFICES ASSUME DirIInv, ThrowEof PROVE DirIInv'
  OBVIOUS
<1>1. ReaderIInv /\ ReaderIInv' /\ Listing
  BY EndsKeep DEF DirIInv
<1>2. /\ (phase = "save" /\ ~AtEof) \/ InNext
      /\ ReadThrows /\ phase' = "EOF"
      /\ stream' = stream /\ listed' = listed
  BY DEF ThrowEof
<1>3. OneMap' = OneMap /\ Entries' = Entries
  BY <1>2 DEF OneMap, Sectors, Entries
<1>4. ASSUME OneMap, stream.is_dir PROVE Entries = 0 /\ listed = <<>>
  <2>1. phase \in {"header", "first", "next"} /\ Len(buf) < ENTRY
    BY <1>1, <1>2, <1>4 DEF ReaderIInv, Phases, InNext
  <2>2. /\ Entries \in Nat /\ stream.length = (Entries + 1) * ENTRY
        /\ stream.length \in Nat /\ ENTRY <= stream.length /\ stream.length < MaxDirSize
        /\ reader.byte_pos \in Nat /\ reader.byte_pos <= stream.length
        /\ Len(buf) \in Nat
    <3>1. stream \in Streams /\ buf \in Seq(Nat)
          /\ reader.byte_pos \in Nat /\ reader.byte_pos <= stream.length
      <4>1. stream \in Streams /\ reader.byte_pos \in Nat
        BY <1>1 DEF ReaderIInv, TypeOK
      <4>2. buf \in Seq(Nat) /\ reader.byte_pos <= stream.length
        BY <1>1 DEF ReaderIInv, BytesRead, Position
      <4>3. QED
        BY <4>1, <4>2
    <3>2. /\ Entries \in Nat /\ stream.length = (Entries + 1) * ENTRY
          /\ stream.length \in Nat /\ ENTRY <= stream.length /\ stream.length < MaxDirSize
      BY <1>4, <3>1, DirLength, StreamFacts
    <3>3. Len(buf) \in Nat
      BY <3>1
    <3>4. QED
      BY <3>1, <3>2, <3>3
  <2>3. reader.byte_pos = stream.length \/ reader.byte_pos = reader.byte_size
    <3>1. CASE reader.pos = SECTOR /\ SectorNext = 0
      BY <1>1, <1>4, <2>2, <3>1, NoNextSector
    <3>2. CASE reader.byte_pos = reader.byte_size
      BY <3>2
    <3>3. QED
      BY <1>2, <3>1, <3>2 DEF ReadThrows
  <2>4. reader.byte_pos = stream.length /\ phase # "header"
    <3>1. CASE phase = "header"
      BY <1>1, <2>1, <2>2, <2>3, <3>1, ScaleFacts DEF ReaderIInv, Phases
    <3>2. CASE phase # "header"
      BY <1>1, <2>1, <2>3, <3>2 DEF ReaderIInv, Phases
    <3>3. QED
      BY <3>1, <3>2
  <2>5. ASSUME NEW e \in Nat, Reading(e) PROVE e = Entries + 1
    <3>1. e * ENTRY + Len(buf) = (Entries + 1) * ENTRY
      BY <2>2, <2>4, <2>5 DEF Reading
    <3>2. Entries + 1 \in Nat /\ Len(buf) \in 0 .. ENTRY
      BY <2>1, <2>2, ScaleFacts
    <3>3. QED
      BY <2>1, <3>1, <3>2, ScaleFacts, WholeEntries
  <2>6. phase # "next"
    <3> SUFFICES ASSUME phase = "next" PROVE FALSE
      OBVIOUS
    <3>1. PICK e \in 1 .. Entries : Reading(e)
      BY <1>1, <1>4 DEF Listing
    <3>2. e = Entries + 1
      BY <2>5, <3>1
    <3>3. QED
      BY <2>2, <3>1, <3>2
  <2>7. Reading(1) /\ listed = <<>>
    BY <1>1, <1>4, <2>1, <2>4, <2>6 DEF Listing
  <2>8. QED
    BY <2>2, <2>5, <2>7
<1>5. Listing'
  BY <1>2, <1>3, <1>4 DEF Listing
<1>6. QED
  BY <1>1, <1>5 DEF DirIInv

LEMMA DirStepKeeps == DirIInv /\ [Next]_vars => DirIInv'
<1> SUFFICES ASSUME DirIInv, [Next]_vars PROVE DirIInv'
  OBVIOUS
<1>1. CASE Next
  BY <1>1, DirSaveKeeps, DirNextByteKeeps, DirSetSizeKeeps, DirEntryReadKeeps,
     DirLoopEndsKeeps, DirListEntryKeeps, DirThrowKeeps DEF Next
<1>2. CASE UNCHANGED vars
  <2>1. ReaderIInv'
    BY <1>2, ReaderStepKeeps DEF DirIInv
  <2>2. OneMap' = OneMap /\ Entries' = Entries
    BY <1>2 DEF vars, OneMap, Sectors, Entries
  <2>4. Reading(0)' = Reading(0) /\ Reading(1)' = Reading(1)
        /\ (ListedTo(Entries - 1)' <=> ListedTo(Entries - 1))
        /\ \A e : (Reading(e)' <=> Reading(e)) /\ (ListedTo(e - 1)' <=> ListedTo(e - 1))
    BY <1>2, <2>2 DEF vars, Reading, ListedTo, NotDeleted
  <2>5. Listing
    BY DEF DirIInv
  <2>6. /\ phase' = phase /\ stream' = stream /\ listed' = listed
    BY <1>2 DEF vars
  <2>7. Listing'
    BY <2>2, <2>4, <2>5, <2>6 DEF Listing
  <2>8. QED
    BY <2>1, <2>7 DEF DirIInv
<1>3. QED
  BY <1>1, <1>2

(* What has been listed in each phase of a directory with one map.         *)
LEMMA ListedFacts ==
    ASSUME DirIInv, OneMap, stream.is_dir
    PROVE  /\ Entries \in Nat /\ \E n \in 0 .. Entries : ListedTo(n)
           /\ phase = "done" => Entries >= 1 /\ ListedTo(Entries - 1)
           /\ phase = "EOF" => Entries = 0
<1>1. /\ Entries \in Nat
      /\ phase \in {"save", "header", "first", "next", "loop", "done", "EOF"}
      /\ phase # "save"
  BY DirLength DEF DirIInv, ReaderIInv, TypeOK, Phases
<1>2. CASE phase \in {"header", "first", "EOF"}
  <2>1. listed = <<>> /\ (phase = "EOF" => Entries = 0)
    BY <1>2 DEF DirIInv, Listing
  <2>2. ListedTo(0)
    BY <2>1, NotDeletedFacts DEF ListedTo
  <2>3. 0 \in 0 .. Entries
    BY <1>1
  <2>4. QED
    BY <1>1, <1>2, <2>1, <2>2, <2>3
<1>3. CASE phase \in {"next", "loop"}
  <2>1. PICK e \in 1 .. Entries : ListedTo(e - 1)
    BY <1>3 DEF DirIInv, Listing
  <2>2. e - 1 \in 0 .. Entries
    BY <1>1
  <2>3. QED
    BY <1>1, <1>3, <2>1, <2>2
<1>4. CASE phase = "done"
  <2>1. Entries >= 1 /\ ListedTo(Entries - 1)
    BY <1>4 DEF DirIInv, Listing
  <2>2. Entries - 1 \in 0 .. Entries
    BY <1>1, <2>1
  <2>3. QED
    BY <1>1, <1>4, <2>1, <2>2
<1>5. QED
  BY <1>1, <1>2, <1>3, <1>4

(* What unpack_dir lists of a directory with one map are whole entries, in *)
(* their order, with none deleted and none passed over                     *)
(* (sparta_dos_dir::next): for directories of every length, deleted        *)
(* entries anywhere in them.                                               *)
THEOREM ListedInOrder == Spec => []EntriesInOrder
<1>1. DirIInv => EntriesInOrder
  BY ListedFacts DEF EntriesInOrder
<1>2. QED
  BY <1>1, DirInitHolds, DirStepKeeps, PTL DEF Spec

(* Where the list ends: before the last entry, which is missing from it    *)
(* unless it is deleted; and "EOF" is thrown if there is no entry at all.  *)
LastMissing ==
    OneMap /\ stream.is_dir =>
        /\ phase = "done" =>
              /\ Entries >= 1 /\ ListedTo(Entries - 1)
              /\ Entries \notin stream.deleted => ~ListedTo(Entries)
        /\ phase = "EOF" => Entries = 0

(* No directory is listed to its end: at_end asks whether the file was     *)
(* read to its end when the last entry was read and not yet listed.  What  *)
(* a run finds in small directories is so in those of every length.        *)
THEOREM LastEntryLeftOut == Spec => []LastMissing
<1>1. DirIInv => LastMissing
  <2> SUFFICES ASSUME DirIInv, OneMap, stream.is_dir
               PROVE  /\ phase = "done" =>
                            /\ Entries >= 1 /\ ListedTo(Entries - 1)
                            /\ Entries \notin stream.deleted => ~ListedTo(Entries)
                      /\ phase = "EOF" => Entries = 0
    BY DEF LastMissing
  <2>1. Entries \in Nat /\ (phase = "EOF" => Entries = 0)
        /\ (phase = "done" => Entries >= 1 /\ ListedTo(Entries - 1))
    BY ListedFacts
  <2>2. ASSUME phase = "done", Entries \notin stream.deleted, ListedTo(Entries)
        PROVE  FALSE
    <3>1. PICK n \in Nat : n + 1 = Entries /\ n = Entries - 1
      <4>1. Entries - 1 \in Nat
        BY <2>1, <2>2
      <4>2. QED
        BY <2>1, <4>1
    <3>2. /\ Cardinality(NotDeleted(n)) \in Nat
          /\ Cardinality(NotDeleted(n + 1)) = Cardinality(NotDeleted(n)) + 1
      BY <2>2, <3>1, NotDeletedFacts
    <3>3. Len(listed) = Cardinality(NotDeleted(n))
      BY <2>1, <2>2, <3>1 DEF ListedTo
    <3>4. Len(listed) = Cardinality(NotDeleted(n + 1))
      BY <2>2, <3>1 DEF ListedTo
    <3>5. QED
      BY <3>2, <3>3, <3>4
  <2>3. QED
    BY <2>1, <2>2
<1>2. QED
  BY <1>1, DirInitHolds, DirStepKeeps, PTL DEF Spec

=============================================================================
