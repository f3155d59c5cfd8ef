----------------------------- MODULE SectorCache -----------------------------
(***************************************************************************)
(* The disk image of libatr/disk.h and disk.cpp: an array of sectors in    *)
(* memory (data) behind a write-back cache of cache_size slots that a      *)
(* doubly linked ring orders.  `last' is the slot used last; the ring's    *)
(* next slot after it is the one that is reused on a miss.                 *)
(*                                                                         *)
(* read_byte, write_byte, write_word, install_boot, set and copy go        *)
(* through get_sector and so through the cache; write_sector and           *)
(* read_sector go straight to data.  The constants CacheRead ... RawWritten*)
(* say which sectors the file system of this disk reaches by which path.   *)
(***************************************************************************)
EXTENDS Integers, FiniteSets

CONSTANTS
    Sector,         \* sector numbers of the disk
    NoSector,       \* num of a slot that holds no sector (0 in the code)
    Boot,           \* the boot sectors (num <= 3), which are 128 bytes long
    Offset,         \* offsets within a sector
    BootOffset,     \* those below 128
    Byte,           \* values of a byte
    Zero,           \* the byte 0
    cache_size,     \* number of slots; 4 in the code
    CacheRead,      \* sectors the file system reads through the cache
    CacheWritten,   \* sectors it writes through the cache
    RawRead,        \* sectors it reads with read_sector
    RawWritten      \* sectors it writes with write_sector

ASSUME SectorAssumption == NoSector \notin Sector /\ Boot \subseteq Sector
ASSUME ByteAssumption == Zero \in Byte /\ BootOffset \subseteq Offset
ASSUME CacheSizeAssumption == cache_size \in Nat \ {0}

(***************************************************************************)
(* The two paths do not know of each other, so a file system must keep     *)
(* them apart: what it writes raw never sits in the cache, and what it     *)
(* writes through the cache is never read raw.  dos2 and its descendants   *)
(* use the cache only; dos25 keeps the boot sector in the cache and all it *)
(* owns (VTOC, directory, data) raw; on unpack detection also reads 360    *)
(* through the cache, and nothing is written then.                         *)
(***************************************************************************)
ASSUME DisciplineAssumption ==
    /\ CacheRead \cup CacheWritten \cup RawRead \cup RawWritten \subseteq Sector
    /\ RawWritten \cap (CacheRead \cup CacheWritten) = {}
    /\ RawRead \cap CacheWritten = {}

VARIABLES
    data,       \* data[s]: the bytes of sector s in the image
    next,       \* the ring of slots ...
    prev,       \* ... and its inverse
    num,        \* num[i]: the sector in slot i
    dirty,      \* dirty[i]: slot i holds bytes that data does not have yet
    buf,        \* buf[i]: the bytes of slot i
    last,       \* the slot get_sector tries first
    out         \* the byte the last read returned

ring == <<next, prev, last>>
vars == <<data, next, prev, num, dirty, buf, last, out>>

Slot  == 0 .. cache_size - 1
Block == [Offset -> Byte]

(* disk::sector_size(num): boot sectors are short whatever the disk's      *)
(* sector size is.                                                         *)
SizeOf(s) == IF s \in Boot THEN BootOffset ELSE Offset

ZeroBlock == [o \in Offset |-> Zero]

(* memcpy of the bytes at offsets S from src over dst.                     *)
Copy(dst, src, S) == [o \in Offset |-> IF o \in S THEN src[o] ELSE dst[o]]

(* The bytes one operation stores: poke, dpoke, set, copy.                 *)
Patches(s) == UNION {[S -> Byte] : S \in SUBSET SizeOf(s)}
NoPatch == [o \in {} |-> Zero]

-----------------------------------------------------------------------------
(* The slots in the order 0 -> 1 -> ... -> 0.                              *)
(* Variant: a ring that is not closed at the last slot.                    *)
RingInitOpen ==
    /\ next = [i \in Slot |-> i + 1]
    /\ prev = [i \in Slot |-> i - 1]
RingInit ==
    /\ next = [i \in Slot |-> IF i = cache_size - 1 THEN 0 ELSE i + 1]
    /\ prev = [i \in Slot |-> IF i = 0 THEN cache_size - 1 ELSE i - 1]

(* disk::disk: a zeroed image and empty slots in a ring; the buffers       *)
(* come from new[] and hold anything.                                      *)
Init ==
    /\ data = [s \in Sector |-> ZeroBlock]
    /\ RingInit
    /\ num = [i \in Slot |-> NoSector]
    /\ dirty = [i \in Slot |-> FALSE]
    /\ buf \in [Slot -> Block]
    /\ last = 0
    /\ out = Zero

(* flush(sector &): data once slot i has been written back.                *)
(* Variant: a slot is reused without writing it back.                      *)
WrittenBackNever(i) == data
WrittenBack(i) ==
    IF dirty[i]
    THEN [data EXCEPT ![num[i]] = Copy(@, buf[i], SizeOf(num[i]))]
    ELSE data

(* Storing patch p into the buffer of slot i.                              *)
(* Variant: storing does not mark the slot.                                *)
PokeUnmarked(i, p) ==
    /\ buf' = [buf EXCEPT ![i] = Copy(@, p, DOMAIN p)]
    /\ UNCHANGED dirty
Poke(i, p) ==
    /\ buf' = [buf EXCEPT ![i] = Copy(@, p, DOMAIN p)]
    /\ dirty' = [dirty EXCEPT ![i] = @ \/ p # NoPatch]

(* The pointer assignments of a hit: slot i leaves its place in the ring   *)
(* and is put back just before `last', which itself stays.                 *)
(* Variant: the place before `last' is looked up before slot i has left    *)
(* it.                                                                     *)
MoveBeforeStale(i) ==
    LET before == prev[last]
    IN  /\ UNCHANGED last
        /\ next' = [next EXCEPT ![prev[i]] = next[i], ![i] = last, ![before] = i]
        /\ prev' = [prev EXCEPT ![next[i]] = prev[i], ![i] = before, ![last] = i]
MoveBeforeLast(i) ==
    LET prev1 == [prev EXCEPT ![next[i]] = prev[i]]
        next1 == [next EXCEPT ![prev[i]] = next[i]]
        last1 == IF i = last THEN next1[i] ELSE last
        before == prev1[last1]
    IN  /\ last' = last1
        /\ next' = [next1 EXCEPT ![i] = last1, ![before] = i]
        /\ prev' = [prev1 EXCEPT ![i] = before, ![last1] = i]

(* get_sector, first return: the sector used last is asked for again.      *)
HitRecent(n, i, p) ==
    /\ i = last
    /\ num[last] = n
    /\ Poke(last, p)
    /\ UNCHANGED <<data, num, ring>>

(* get_sector, second return: the sector is in another slot.               *)
HitOther(n, i, p) ==
    /\ num[last] # n
    /\ num[i] = n
    /\ \A j \in Slot : j < i => num[j] # n
    /\ MoveBeforeLast(i)
    /\ Poke(i, p)
    /\ UNCHANGED <<data, num>>

(* get_sector, third return: the slot after `last' is written back and     *)
(* reused.                                                                 *)
Miss(n, i, init, p) ==
    /\ \A j \in Slot : num[j] # n
    /\ i = next[last]
    /\ data' = WrittenBack(i)
    /\ LET loaded == IF init THEN ZeroBlock
                             ELSE Copy(buf[i], data'[n], SizeOf(n))
       IN  buf' = [buf EXCEPT ![i] = Copy(loaded, p, DOMAIN p)]
    /\ dirty' = [dirty EXCEPT ![i] = init \/ p # NoPatch]
    /\ num' = [num EXCEPT ![i] = n]
    /\ last' = i
    /\ UNCHANGED <<next, prev>>

(* get_sector(n, init) returns slot i, and the caller stores p into it.    *)
GetSector(n, i, init, p) ==
    HitRecent(n, i, p) \/ HitOther(n, i, p) \/ Miss(n, i, init, p)

-----------------------------------------------------------------------------
(* read_byte.                                                              *)
ReadByte(n, o) ==
    \E i \in Slot :
        /\ GetSector(n, i, FALSE, NoPatch)
        /\ out' = buf'[i][o]

(* write_byte and write_word, and get_sector followed by poke, dpoke, set  *)
(* or copy: all the bytes go to the slot get_sector returned.              *)
WriteBytes(n, p) ==
    \E i \in Slot :
        /\ GetSector(n, i, FALSE, p)
        /\ UNCHANGED out

(* init_sector.  A sector that is in the cache already is returned as it   *)
(* is: only the miss branch looks at init.                                 *)
InitSector(n) ==
    \E i \in Slot :
        /\ GetSector(n, i, TRUE, NoPatch)
        /\ UNCHANGED out

(* flush(): every dirty slot, in the order of the slots.                   *)
(* Variant: only the slot used last.                                       *)
FlushedLastOnly == WrittenBack(last)
FlushedData ==
    [s \in Sector |->
        IF \E i \in Slot : dirty[i] /\ num[i] = s
        THEN LET i == CHOOSE i \in Slot :
                        /\ dirty[i] /\ num[i] = s
                        /\ \A j \in Slot : dirty[j] /\ num[j] = s => j <= i
             IN  Copy(data[s], buf[i], SizeOf(s))
        ELSE data[s]]

(* save: flushes, then writes data to the file.                            *)
Save ==
    /\ data' = FlushedData
    /\ dirty' = [i \in Slot |-> FALSE]
    /\ UNCHANGED <<ring, num, buf, out>>

(* write_sector: load, and the file system's own buffers.                  *)
WriteSector(n, b) ==
    /\ data' = [data EXCEPT ![n] = Copy(@, b, SizeOf(n))]
    /\ UNCHANGED <<ring, num, dirty, buf, out>>

(* read_sector, of which the caller looks at one byte.                     *)
ReadSector(n, o) ==
    /\ out' = data[n][o]
    /\ UNCHANGED <<data, ring, num, dirty, buf>>

Next ==
    \/ \E n \in CacheRead : \E o \in SizeOf(n) : ReadByte(n, o)
    \/ \E n \in CacheWritten : \E p \in Patches(n) : WriteBytes(n, p)
    \/ \E n \in CacheWritten : InitSector(n)
    \/ \E n \in RawRead : \E o \in SizeOf(n) : ReadSector(n, o)
    \/ \E n \in RawWritten : \E b \in Block : WriteSector(n, b)
    \/ Save

Spec == Init /\ [][Next]_vars

-----------------------------------------------------------------------------
TypeOK ==
    /\ data \in [Sector -> Block]
    /\ next \in [Slot -> Slot]
    /\ prev \in [Slot -> Slot]
    /\ num \in [Slot -> Sector \cup {NoSector}]
    /\ dirty \in [Slot -> BOOLEAN]
    /\ buf \in [Slot -> Block]
    /\ last \in Slot
    /\ out \in Byte

Cached(s) == \E i \in Slot : num[i] = s
SlotOf(s) == CHOOSE i \in Slot : num[i] = s

(* The byte a file system means by offset o of sector s: the cache's copy  *)
(* where there is one.                                                     *)
ByteAt(s, o) ==
    IF Cached(s) THEN buf[SlotOf(s)][o] ELSE data[s][o]

Content == [s \in Sector |-> [o \in SizeOf(s) |-> ByteAt(s, o)]]

(***************************************************************************)
(* The slots stay linked in a ring that can be walked both ways: the six   *)
(* pointer assignments of a hit, some of which alias when the slots are    *)
(* neighbours, never lose one of the links.                                *)
(***************************************************************************)
RingLinked == \A i \in Slot : prev[next[i]] = i /\ next[prev[i]] = i

(***************************************************************************)
(* A sector is in at most one slot, so there is one place where its newest *)
(* bytes are.                                                              *)
(***************************************************************************)
NoDuplicates ==
    \A i, j \in Slot : num[i] = num[j] /\ num[i] # NoSector => i = j

(***************************************************************************)
(* A slot that is not dirty may be dropped: data already has its bytes.    *)
(* An empty slot is never dirty, so a flush never writes sector 0.         *)
(***************************************************************************)
CleanSlotsAgree ==
    \A i \in Slot :
        ~dirty[i] /\ num[i] # NoSector
            => \A o \in SizeOf(num[i]) : buf[i][o] = data[num[i]][o]

DirtySlotsHeld == \A i \in Slot : dirty[i] => num[i] \in CacheWritten

CachedSectorsKnown ==
    \A i \in Slot : num[i] # NoSector => num[i] \in CacheRead \cup CacheWritten

CacheInv ==
    /\ RingLinked
    /\ NoDuplicates
    /\ CleanSlotsAgree
    /\ DirtySlotsHeld
    /\ CachedSectorsKnown

(***************************************************************************)
(* Starting at `last' and following next, all slots are met before `last'  *)
(* comes again: no hit splits the ring in two, which would take slots out  *)
(* of the rotation for ever.                                               *)
(***************************************************************************)
RingIsOneCycle ==
    LET walk[k \in Slot] == IF k = 0 THEN last ELSE next[walk[k - 1]]
    IN  {walk[k] : k \in Slot} = Slot

(***************************************************************************)
(* The file save writes is the disk as the file systems left it: no byte   *)
(* stays behind in the cache (disk.cpp, save calls flush first).           *)
(***************************************************************************)
SaveWritesContent ==
    [][Save => \A s \in Sector : \A o \in SizeOf(s) : data'[s][o] = Content[s][o]]_vars

Store == INSTANCE SectorStore WITH content <- Content

(***************************************************************************)
(* The disk is a sector store: evictions, reordering and write-backs are   *)
(* invisible and a read returns what was written last.                     *)
(***************************************************************************)
RefinesStore == Store!StoreSpec

=============================================================================
