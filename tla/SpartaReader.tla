---------------------------- MODULE SpartaReader ----------------------------
(***************************************************************************)
(* Reading files and directories of SpartaDOS (libatr/sparta_dos.cpp), as  *)
(* unpack and list do (src/main.cpp, unpack_dir).                          *)
(*                                                                         *)
(* A file has a sector map: a sector of numbers of the sectors with its    *)
(* bytes, which goes on in a further map when they do not fit.  A          *)
(* directory is a file of entries; the first describes the directory       *)
(* itself and has its length.  unpack_dir makes a reader of its own for    *)
(* each file and directory: here is one of them.                           *)
(*                                                                         *)
(* Byte k of what the image holds for the file is k itself, so `got' says  *)
(* which bytes were read in which order.                                   *)
(***************************************************************************)
EXTENDS Integers, Sequences, FiniteSets

CONSTANTS
    Streams,    \* files and directories: [is_dir, length, deleted]
    SECTOR,     \* bytes in a sector
    MAP,        \* numbers of sectors in a map, (sector_size - 4) / 2
    ENTRY,      \* bytes in an entry of a directory, 23
    MaxDirSize  \* the size a directory is opened with, 32000

(* unpack_dir does not open empty files; a directory has its own entry and *)
(* those in `deleted' have FLAG_DELETED.                                   *)
ASSUME ScaleAssumption ==
    /\ SECTOR \in Nat \ {0} /\ MAP \in Nat \ {0} /\ ENTRY \in Nat \ {0}
    /\ ENTRY <= SECTOR /\ MaxDirSize \in Nat
ASSUME StreamsAssumption ==
    \A s \in Streams :
        /\ s.is_dir \in BOOLEAN /\ s.length \in Nat \ {0}
        /\ s.is_dir => /\ s.length % ENTRY = 0 /\ s.length < MaxDirSize
                       /\ s.deleted \subseteq Nat

VARIABLES
    stream,     \* what is read
    reader,     \* the sparta_dos_file: [index, sector, pos, byte_pos, byte_size]
    got,        \* the bytes read so far
    buf,        \* the bytes next() has read of an entry
    listed,     \* the entries listed
    phase       \* where pack is: in `save'; in next(), called by the constructor
                \* ("header", "first") or the loop ("next"); in the "loop"; "done";
                \* or "EOF", which was thrown and ends the program

vars == <<stream, reader, got, buf, listed, phase>>

(* The image.  Sectors with bytes are 1, 2, ... in the order of the maps.  *)
Sectors == (stream.length + SECTOR - 1) \div SECTOR
HasSecondMap == Sectors > MAP

DataByte(s, p) ==
    LET k == (s - 1) * SECTOR + p
    IN  IF k <= stream.length THEN k ELSE 0

(* Number i of the first map, the only one that is ever in map_buf.        *)
MapEntry(i) == IF i < Sectors THEN i + 1 ELSE 0

(* The constructor: map_offset starts at 2 and sector_next adds 2; numbers *)
(* start at offset 4.  Variant: it starts at 4.                            *)
FirstIndexLate == 1
FirstIndex == 0

Init ==
    /\ stream \in Streams
    /\ reader = [index |-> FirstIndex, sector |-> MapEntry(FirstIndex), pos |-> 0,
                 byte_pos |-> 0,
                 byte_size |-> IF stream.is_dir THEN MaxDirSize ELSE stream.length]
    /\ got = <<>> /\ buf = <<>> /\ listed = <<>>
    /\ phase = IF stream.is_dir THEN "header" ELSE "save"

(* sector_next.  At the end of a map the number of the next one is taken   *)
(* from it, but the map is not read: its own numbers come again.           *)
NextIndex == (reader.index + 1) % MAP
SectorNext ==
    IF NextIndex = 0 /\ ~HasSecondMap THEN 0 ELSE MapEntry(NextIndex)

(* read, before it takes the byte.  Variant: the position is not set back. *)
SwitchedNoReset ==
    IF reader.pos # SECTOR THEN reader
    ELSE [reader EXCEPT !.index = NextIndex, !.sector = SectorNext]
Switched ==
    IF reader.pos # SECTOR THEN reader
    ELSE [reader EXCEPT !.index = NextIndex, !.sector = SectorNext, !.pos = 0]

(* eof.  Variant: one byte too far.                                        *)
AtEofLate == reader.byte_pos = reader.byte_size + 1
AtEof == reader.byte_pos = reader.byte_size

ReadThrows == (reader.pos = SECTOR /\ SectorNext = 0) \/ reader.byte_pos = reader.byte_size

(* read: the byte, and the reader after it.                                *)
ReadByte == DataByte(Switched.sector, Switched.pos + 1)
Read ==
    /\ ~ReadThrows
    /\ reader' = [Switched EXCEPT !.pos = @ + 1, !.byte_pos = @ + 1]
    /\ got' = Append(got, ReadByte)

(* save: while (!eof()) read().                                            *)
SaveByte ==
    /\ phase = "save" /\ ~AtEof
    /\ Read
    /\ UNCHANGED <<stream, buf, listed, phase>>

SaveEnds ==
    /\ phase = "save" /\ AtEof
    /\ phase' = "done"
    /\ UNCHANGED <<stream, reader, got, buf, listed>>

(* next(): an entry, byte by byte.                                         *)
InNext == phase \in {"header", "first", "next"} /\ Len(buf) < ENTRY

NextByte ==
    /\ InNext
    /\ Read
    /\ buf' = Append(buf, ReadByte)
    /\ UNCHANGED <<stream, listed, phase>>

(* The constructor takes the length from the first entry, then reads       *)
(* another one.                                                            *)
SetSize ==
    /\ phase = "header" /\ Len(buf) = ENTRY
    /\ reader' = [reader EXCEPT !.byte_size = stream.length]
    /\ phase' = "first" /\ buf' = <<>>
    /\ UNCHANGED <<stream, got, listed>>

EntryRead ==
    /\ phase \in {"first", "next"} /\ Len(buf) = ENTRY
    /\ phase' = "loop"
    /\ UNCHANGED <<stream, reader, got, buf, listed>>

(* The loop of unpack_dir.  buf[0] is not FLAG_DIR_END for an entry.       *)
LoopEnds ==
    /\ phase = "loop" /\ AtEof
    /\ phase' = "done"
    /\ UNCHANGED <<stream, reader, got, buf, listed>>

EntryBytes(e) == [i \in 1 .. ENTRY |-> e * ENTRY + i]

(* is_deleted.  Variant: not asked.                                        *)
IsDeletedNever == FALSE
IsDeleted == \E e \in stream.deleted : buf = EntryBytes(e)

ListEntry ==
    /\ phase = "loop" /\ ~AtEof
    /\ listed' = IF IsDeleted THEN listed ELSE Append(listed, buf)
    /\ phase' = "next" /\ buf' = <<>>
    /\ UNCHANGED <<stream, reader, got>>

(* read throws "EOF", which nothing catches before main does.              *)
ThrowEof ==
    /\ (phase = "save" /\ ~AtEof) \/ InNext
    /\ ReadThrows
    /\ phase' = "EOF"
    /\ UNCHANGED <<stream, reader, got, buf, listed>>

Next ==
    \/ SaveByte \/ SaveEnds
    \/ NextByte \/ SetSize \/ EntryRead \/ LoopEnds \/ ListEntry
    \/ ThrowEof

(* unpack goes on until its loops end: nothing else runs.                  *)
Spec == Init /\ [][Next]_vars /\ WF_vars(Next)

-----------------------------------------------------------------------------
TypeOK ==
    /\ stream \in Streams
    /\ reader \in [index : 0 .. MAP - 1, sector : 1 .. MAP, pos : 0 .. SECTOR,
                   byte_pos : Nat, byte_size : {stream.length, MaxDirSize}]
    /\ Len(got) = reader.byte_pos /\ Len(buf) <= ENTRY
    /\ \A i \in DOMAIN listed : Len(listed[i]) = ENTRY
    /\ phase \in {"save", "header", "first", "next", "loop", "done", "EOF"}

OneMap == Sectors <= MAP

(***************************************************************************)
(* Of a file whose sectors are all in its first map, the reader gets the   *)
(* bytes in their order, across the edges of sectors, with none left out   *)
(* and none twice.                                                         *)
(***************************************************************************)
ReadsInOrder == OneMap => got = [i \in 1 .. reader.byte_pos |-> i]

(* The entries of a directory after its own; those of the first n that are *)
(* not deleted; and that these, in their order, are what is listed: each   *)
(* stands after all of them that come before it.                           *)
Entries == stream.length \div ENTRY - 1
NotDeleted(n) == (1 .. n) \ stream.deleted
ListedTo(n) ==
    /\ Len(listed) = Cardinality(NotDeleted(n))
    /\ \A e \in NotDeleted(n) : listed[Cardinality(NotDeleted(e))] = EntryBytes(e)

(***************************************************************************)
(* What is listed of a directory with one map are whole entries, cut at    *)
(* the right bytes across the edges of sectors: none that is deleted nor   *)
(* the directory's own, in their order, and none twice or passed over.     *)
(***************************************************************************)
EntriesInOrder == OneMap /\ stream.is_dir => \E n \in 0 .. Entries : ListedTo(n)

(***************************************************************************)
(* "AtrCompiler can unpack contents of a ATR disk to a folder as separate  *)
(* files" (README.md), and SpartaDOS has "read only support": the listing  *)
(* of a directory comes to every entry that is not deleted.                *)
(***************************************************************************)
DirListedWhole == OneMap /\ stream.is_dir /\ phase = "done" => ListedTo(Entries)

(***************************************************************************)
(* Unpacking a file with one map ends, with all its bytes and no error;    *)
(* that of any other file ends too.                                        *)
(***************************************************************************)
ReadingEnds ==
    IF OneMap /\ ~stream.is_dir
    THEN <>(phase = "done" /\ Len(got) = stream.length)
    ELSE <>(phase \in {"done", "EOF"})

=============================================================================
