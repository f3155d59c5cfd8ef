----------------------------- MODULE DiskProofs -----------------------------
(***************************************************************************)
(* Theorems about the disk.  First SectorCache, for every disk, cache size *)
(* and discipline; then PackScript, for every script, size of a disk and   *)
(* image.                                                                  *)
(***************************************************************************)
EXTENDS SectorCache, PackScript, SharedFacts, TLAPS

(* A patch only touches bytes the sector has, and stores bytes.            *)
LEMMA PatchFacts ==
    ASSUME NEW s, NEW p \in Patches(s)
    PROVE  /\ DOMAIN p \subseteq SizeOf(s)
           /\ \A o \in DOMAIN p : p[o] \in Byte
BY DEF Patches

(* Reading is storing nothing.                                             *)
LEMMA NoPatchFacts ==
    ASSUME NEW s
    PROVE  NoPatch \in Patches(s) /\ DOMAIN NoPatch = {}
<1>1. DOMAIN NoPatch = {}
  BY DEF NoPatch
<1>2. NoPatch \in [{} -> Byte]
  BY DEF NoPatch
<1>3. QED
  BY <1>1, <1>2 DEF Patches

(* Every sector's bytes are among the offsets of a buffer.                 *)
LEMMA SizeOfFacts == \A s : SizeOf(s) \subseteq Offset
BY ByteAssumption DEF SizeOf

(* Copy takes the chosen bytes and keeps the others.                       *)
LEMMA CopyFacts ==
    ASSUME NEW dst \in Block, NEW src, NEW S,
           \A o \in S \cap Offset : src[o] \in Byte
    PROVE  /\ Copy(dst, src, S) \in Block
           /\ \A o \in Offset :
                Copy(dst, src, S)[o] = IF o \in S THEN src[o] ELSE dst[o]
BY DEF Copy, Block

LEMMA ZeroBlockFacts ==
    ZeroBlock \in Block /\ \A o \in Offset : ZeroBlock[o] = Zero
BY ByteAssumption DEF ZeroBlock, Block

LEMMA RingMove ==
    ASSUME TypeOK, RingLinked, NEW i \in Slot, i # last, MoveBeforeLast(i)
    PROVE  /\ last' = last
           /\ next' \in [Slot -> Slot]
           /\ prev' \in [Slot -> Slot]
           /\ RingLinked'
<1> DEFINE prev1 == [prev EXCEPT ![next[i]] = prev[i]]
           next1 == [next EXCEPT ![prev[i]] = next[i]]
           before == prev1[last]
<1>1. /\ last' = last
      /\ next' = [next1 EXCEPT ![i] = last, ![before] = i]
      /\ prev' = [prev1 EXCEPT ![i] = before, ![last] = i]
  BY DEF MoveBeforeLast
<1>2. prev1 \in [Slot -> Slot] /\ next1 \in [Slot -> Slot] /\ before \in Slot
  BY DEF TypeOK
<1>3. next' \in [Slot -> Slot] /\ prev' \in [Slot -> Slot]
  BY <1>1, <1>2 DEF TypeOK
<1>4. RingLinked'
  BY <1>1, <1>2, <1>3 DEF TypeOK, RingLinked
<1>5. QED
  BY <1>1, <1>3, <1>4


(***************************************************************************)
(* A stored patch keeps buffers well typed and changes only its bytes.     *)
(***************************************************************************)
LEMMA PokeFacts ==
    ASSUME NEW n \in Sector, NEW p \in Patches(n), NEW b \in Block
    PROVE  /\ Copy(b, p, DOMAIN p) \in Block
           /\ \A o \in Offset :
                Copy(b, p, DOMAIN p)[o] = IF o \in DOMAIN p THEN p[o] ELSE b[o]
           /\ DOMAIN p = {} => p = NoPatch
<1>1. DOMAIN p \subseteq Offset /\ \A o \in DOMAIN p : p[o] \in Byte
  BY PatchFacts, SizeOfFacts
<1>2. /\ Copy(b, p, DOMAIN p) \in Block
      /\ \A o \in Offset :
            Copy(b, p, DOMAIN p)[o] = IF o \in DOMAIN p THEN p[o] ELSE b[o]
  BY <1>1, CopyFacts
<1>3. ASSUME DOMAIN p = {} PROVE p = NoPatch
  <2>1. p = [o \in DOMAIN p |-> p[o]]
    BY DEF Patches
  <2>2. QED
    BY <2>1, <1>3 DEF NoPatch
<1>4. QED
  BY <1>2, <1>3

(* The slot that has a sector is the only one.                             *)
LEMMA SlotOfFacts ==
    ASSUME NoDuplicates, NEW i \in Slot, num[i] # NoSector
    PROVE  SlotOf(num[i]) = i /\ Cached(num[i])
BY DEF NoDuplicates, SlotOf, Cached

(***************************************************************************)
(* The returns of get_sector.  Both hits keep the invariant and return the *)
(* slot that has the sector already.                                       *)
(***************************************************************************)
LEMMA HitStep ==
    ASSUME TypeOK, CacheInv,
           NEW n \in CacheRead \cup CacheWritten, NEW i \in Slot,
           NEW p \in Patches(n), p # NoPatch => n \in CacheWritten,
           HitRecent(n, i, p) \/ HitOther(n, i, p)
    PROVE  /\ buf' \in [Slot -> Block] /\ (out' \in Byte => TypeOK') /\ CacheInv'
           /\ num[i] = n /\ num' = num /\ data' = data
           /\ buf' = [buf EXCEPT ![i] = Copy(buf[i], p, DOMAIN p)]
<1>0. n \in Sector
  BY DisciplineAssumption
<1>1. /\ num[i] = n
      /\ buf' = [buf EXCEPT ![i] = Copy(buf[i], p, DOMAIN p)]
      /\ dirty' = [dirty EXCEPT ![i] = dirty[i] \/ p # NoPatch]
      /\ data' = data /\ num' = num
  BY DEF HitRecent, HitOther, Poke
<1>2. last' \in Slot /\ next' \in [Slot -> Slot] /\ prev' \in [Slot -> Slot] /\ RingLinked'
  <2>1. CASE HitRecent(n, i, p)
    BY <2>1 DEF HitRecent, ring, TypeOK, CacheInv, RingLinked
  <2>2. CASE HitOther(n, i, p)
    <3>1. i # last /\ MoveBeforeLast(i)
      BY <2>2 DEF HitOther
    <3>2. QED
      BY <3>1, RingMove DEF CacheInv, TypeOK
  <2>3. QED
    BY <2>1, <2>2
<1>3. /\ Copy(buf[i], p, DOMAIN p) \in Block
      /\ \A o \in Offset :
            Copy(buf[i], p, DOMAIN p)[o] = IF o \in DOMAIN p THEN p[o] ELSE buf[i][o]
  <2>1. buf[i] \in Block
    BY DEF TypeOK
  <2>2. QED
    BY <1>0, <2>1, PokeFacts
<1>4. buf' \in [Slot -> Block] /\ (out' \in Byte => TypeOK')
  BY <1>1, <1>2, <1>3 DEF TypeOK
<1>5. NoDuplicates' /\ CachedSectorsKnown'
  BY <1>1 DEF CacheInv, NoDuplicates, CachedSectorsKnown
<1>6. DirtySlotsHeld'
  BY <1>1 DEF CacheInv, DirtySlotsHeld, TypeOK
<1>7. CleanSlotsAgree'
  <2> SUFFICES ASSUME NEW j \in Slot, ~dirty'[j], num'[j] # NoSector,
                      NEW o \in SizeOf(num'[j])
               PROVE  buf'[j][o] = data'[num'[j]][o]
    BY DEF CleanSlotsAgree
  <2>1. ~dirty[j] /\ (j = i => p = NoPatch)
    BY <1>1 DEF TypeOK
  <2>2. o \in Offset
    BY SizeOfFacts
  <2>3. buf'[j][o] = buf[j][o]
    BY <1>1, <1>3, <2>1, <2>2, NoPatchFacts DEF TypeOK
  <2>4. QED
    BY <1>1, <2>1, <2>3 DEF CacheInv, CleanSlotsAgree
<1>8. QED
  BY <1>1, <1>2, <1>4, <1>5, <1>6, <1>7 DEF CacheInv

(***************************************************************************)
(* Writing a slot back leaves data with the bytes of its sector, and       *)
(* changes nothing when the slot is clean.                                 *)
(***************************************************************************)
LEMMA WrittenBackFacts ==
    ASSUME TypeOK, CacheInv, NEW i \in Slot
    PROVE  /\ WrittenBack(i) \in [Sector -> Block]
           /\ \A s \in Sector : \A o \in Offset :
                WrittenBack(i)[s][o] = IF num[i] = s /\ dirty[i] /\ o \in SizeOf(s)
                                       THEN buf[i][o] ELSE data[s][o]
<1>1. CASE ~dirty[i]
  BY <1>1 DEF WrittenBack, TypeOK
<1>2. CASE dirty[i]
  <2>1. num[i] \in Sector
    BY <1>2, DisciplineAssumption DEF CacheInv, DirtySlotsHeld
  <2>2. data[num[i]] \in Block /\ buf[i] \in Block
    BY <2>1 DEF TypeOK
  <2> DEFINE c == Copy(data[num[i]], buf[i], SizeOf(num[i]))
  <2>3. /\ c \in Block
        /\ \A o \in Offset :
             c[o] = IF o \in SizeOf(num[i]) THEN buf[i][o] ELSE data[num[i]][o]
    <3>1. \A o \in SizeOf(num[i]) \cap Offset : buf[i][o] \in Byte
      BY <2>2 DEF Block
    <3>2. QED
      BY <2>2, <3>1, CopyFacts
  <2>4. WrittenBack(i) = [data EXCEPT ![num[i]] = c]
    BY <1>2 DEF WrittenBack
  <2> HIDE DEF c
  <2>5. QED
    BY <1>2, <2>1, <2>3, <2>4 DEF TypeOK
<1>3. QED
  BY <1>1, <1>2

(***************************************************************************)
(* A miss keeps the invariant: the evicted slot's bytes reach data before  *)
(* its buffer is reused, and the sector that comes in was in no slot.      *)
(***************************************************************************)
LEMMA MissStep ==
    ASSUME TypeOK, CacheInv,
           NEW n \in CacheRead \cup CacheWritten, NEW i \in Slot,
           NEW init \in BOOLEAN, NEW p \in Patches(n),
           init \/ p # NoPatch => n \in CacheWritten,
           Miss(n, i, init, p)
    PROVE  /\ buf' \in [Slot -> Block] /\ (out' \in Byte => TypeOK') /\ CacheInv'
           /\ ~Cached(n)
           /\ num' = [num EXCEPT ![i] = n]
           /\ data' = WrittenBack(i)
           /\ \A j \in Slot : j # i => buf'[j] = buf[j]
           /\ \A o \in SizeOf(n) :
                buf'[i][o] = IF o \in DOMAIN p THEN p[o]
                             ELSE IF init THEN Zero ELSE data[n][o]
<1> DEFINE loaded == IF init THEN ZeroBlock ELSE Copy(buf[i], data'[n], SizeOf(n))
           stored == Copy(loaded, p, DOMAIN p)
<1>0. n \in Sector
  BY DisciplineAssumption
<1>1. /\ \A j \in Slot : num[j] # n
      /\ i = next[last]
      /\ data' = WrittenBack(i)
      /\ buf' = [buf EXCEPT ![i] = stored]
      /\ dirty' = [dirty EXCEPT ![i] = init \/ p # NoPatch]
      /\ num' = [num EXCEPT ![i] = n]
      /\ last' = i /\ next' = next /\ prev' = prev
  BY DEF Miss
<1>2. /\ data' \in [Sector -> Block]
      /\ \A s \in Sector : \A o \in Offset :
            data'[s][o] = IF num[i] = s /\ dirty[i] /\ o \in SizeOf(s)
                          THEN buf[i][o] ELSE data[s][o]
  BY <1>1, WrittenBackFacts
<1>3. \A o \in Offset : data'[n][o] = data[n][o]
  BY <1>0, <1>1, <1>2
<1>4. /\ loaded \in Block
      /\ \A o \in SizeOf(n) : loaded[o] = IF init THEN Zero ELSE data[n][o]
  <2>1. CASE init
    BY <2>1, ZeroBlockFacts, SizeOfFacts
  <2>2. CASE ~init
    <3>1. buf[i] \in Block /\ data'[n] \in Block
      BY <1>0, <1>2 DEF TypeOK
    <3>2. \A o \in SizeOf(n) \cap Offset : data'[n][o] \in Byte
      BY <3>1 DEF Block
    <3>3. /\ Copy(buf[i], data'[n], SizeOf(n)) \in Block
          /\ \A o \in Offset : Copy(buf[i], data'[n], SizeOf(n))[o]
                = IF o \in SizeOf(n) THEN data'[n][o] ELSE buf[i][o]
      BY <3>1, <3>2, CopyFacts
    <3>4. QED
      BY <2>2, <3>3, <1>3, SizeOfFacts
  <2>3. QED
    BY <2>1, <2>2
<1> HIDE DEF loaded
<1>5. /\ stored \in Block
      /\ \A o \in Offset : stored[o] = IF o \in DOMAIN p THEN p[o] ELSE loaded[o]
  BY <1>0, <1>4, PokeFacts
<1> HIDE DEF stored
<1>6. \A o \in SizeOf(n) :
          buf'[i][o] = IF o \in DOMAIN p THEN p[o]
                       ELSE IF init THEN Zero ELSE data[n][o]
  BY <1>1, <1>4, <1>5, SizeOfFacts DEF TypeOK
<1>7. buf' \in [Slot -> Block] /\ (out' \in Byte => TypeOK')
  BY <1>0, <1>1, <1>2, <1>5 DEF TypeOK
<1>8. RingLinked'
  BY <1>1 DEF CacheInv, RingLinked
<1>9. NoDuplicates' /\ CachedSectorsKnown'
  BY <1>1 DEF CacheInv, NoDuplicates, CachedSectorsKnown, TypeOK
<1>10. DirtySlotsHeld'
  BY <1>1 DEF CacheInv, DirtySlotsHeld, TypeOK
<1>11. CleanSlotsAgree'
  <2> SUFFICES ASSUME NEW j \in Slot, ~dirty'[j], num'[j] # NoSector,
                      NEW o \in SizeOf(num'[j])
               PROVE  buf'[j][o] = data'[num'[j]][o]
    BY DEF CleanSlotsAgree
  <2>1. o \in Offset
    BY SizeOfFacts
  <2>2. CASE j = i
    <3>1. num'[j] = n /\ ~init /\ p = NoPatch
      BY <1>1, <2>2 DEF TypeOK
    <3>2. QED
      BY <3>1, <2>2, <2>1, <1>3, <1>6, NoPatchFacts
  <2>3. CASE j # i
    <3>1. /\ num'[j] = num[j] /\ ~dirty[j] /\ buf'[j] = buf[j]
          /\ num[j] \in Sector /\ num[j] # num[i]
      BY <1>1, <2>3 DEF TypeOK, CacheInv, NoDuplicates
    <3>2. buf[j][o] = data[num[j]][o]
      BY <3>1 DEF CacheInv, CleanSlotsAgree
    <3>3. QED
      BY <3>1, <3>2, <2>1, <1>2
  <2>4. QED
    BY <2>2, <2>3
<1>12. ~Cached(n) /\ \A j \in Slot : j # i => buf'[j] = buf[j]
  BY <1>1 DEF Cached, TypeOK
<1>13. QED
  BY <1>1, <1>6, <1>7, <1>8, <1>9, <1>10, <1>11, <1>12 DEF CacheInv

(***************************************************************************)
(* save writes every dirty slot back, so no slot is dirty and the cached   *)
(* sectors have their newest bytes in data.                                *)
(***************************************************************************)
LEMMA FlushFacts ==
    ASSUME TypeOK, CacheInv
    PROVE  /\ FlushedData \in [Sector -> Block]
           /\ \A s \in Sector : \A o \in SizeOf(s) : FlushedData[s][o] = ByteAt(s, o)
<1> SUFFICES ASSUME NEW s \in Sector
             PROVE  /\ FlushedData[s] \in Block
                    /\ \A o \in SizeOf(s) : FlushedData[s][o] = ByteAt(s, o)
  BY DEF FlushedData
<1>1. s # NoSector
  BY SectorAssumption
<1>2. CASE \E i \in Slot : dirty[i] /\ num[i] = s
  <2>1. PICK i \in Slot : dirty[i] /\ num[i] = s
    BY <1>2
  <2>2. \A j \in Slot : num[j] = s => j = i
    BY <1>1, <2>1 DEF CacheInv, NoDuplicates
  <2>3. (CHOOSE k \in Slot : /\ dirty[k] /\ num[k] = s
                             /\ \A j \in Slot : dirty[j] /\ num[j] = s => j <= k) = i
    <3>1. i \in Int
      BY CacheSizeAssumption DEF Slot
    <3>2. dirty[i] /\ num[i] = s /\ \A j \in Slot : dirty[j] /\ num[j] = s => j <= i
      BY <2>1, <2>2, <3>1
    <3>3. QED
      BY <2>2, <3>2
  <2>4. FlushedData[s] = Copy(data[s], buf[i], SizeOf(s))
    BY <1>2, <2>3 DEF FlushedData
  <2>5. SlotOf(s) = i /\ Cached(s)
    BY <1>1, <2>1, SlotOfFacts DEF CacheInv
  <2>6. data[s] \in Block /\ buf[i] \in Block
    BY DEF TypeOK
  <2>7. \A o \in SizeOf(s) \cap Offset : buf[i][o] \in Byte
    BY <2>6 DEF Block
  <2>8. /\ Copy(data[s], buf[i], SizeOf(s)) \in Block
        /\ \A o \in Offset : Copy(data[s], buf[i], SizeOf(s))[o]
                            = IF o \in SizeOf(s) THEN buf[i][o] ELSE data[s][o]
    BY <2>6, <2>7, CopyFacts
  <2>9. \A o \in SizeOf(s) : ByteAt(s, o) = buf[i][o]
    BY <2>5 DEF ByteAt
  <2>10. QED
    BY <2>4, <2>8, <2>9, SizeOfFacts
<1>3. CASE ~ \E i \in Slot : dirty[i] /\ num[i] = s
  <2>1. FlushedData[s] = data[s]
    BY <1>3 DEF FlushedData
  <2>2. ASSUME Cached(s), NEW o \in SizeOf(s) PROVE ByteAt(s, o) = data[s][o]
    <3>1. PICK i \in Slot : num[i] = s
      BY <2>2 DEF Cached
    <3>2. SlotOf(s) = i
      BY <1>1, <3>1, SlotOfFacts DEF CacheInv
    <3>3. ~dirty[i] /\ buf[i][o] = data[s][o]
      BY <1>1, <1>3, <3>1, <2>2 DEF CacheInv, CleanSlotsAgree
    <3>4. QED
      BY <2>2, <3>2, <3>3 DEF ByteAt
  <2>3. \A o \in SizeOf(s) : ByteAt(s, o) = data[s][o]
    BY <2>2 DEF ByteAt
  <2>4. QED
    BY <2>1, <2>3 DEF TypeOK
<1>4. QED
  BY <1>2, <1>3

LEMMA SaveStep ==
    ASSUME TypeOK, CacheInv, Save
    PROVE  TypeOK' /\ CacheInv'
<1>1. /\ data' = FlushedData /\ dirty' = [i \in Slot |-> FALSE]
      /\ num' = num /\ buf' = buf /\ out' = out
      /\ next' = next /\ prev' = prev /\ last' = last
  BY DEF Save, ring
<1>2. TypeOK'
  BY <1>1, FlushFacts DEF TypeOK
<1>3. RingLinked' /\ NoDuplicates' /\ CachedSectorsKnown' /\ DirtySlotsHeld'
  BY <1>1 DEF CacheInv, RingLinked, NoDuplicates, CachedSectorsKnown, DirtySlotsHeld
<1>4. CleanSlotsAgree'
  <2> SUFFICES ASSUME NEW j \in Slot, num[j] # NoSector, NEW o \in SizeOf(num[j])
               PROVE  buf[j][o] = data'[num[j]][o]
    BY <1>1 DEF CleanSlotsAgree
  <2>1. num[j] \in Sector
    BY DEF TypeOK
  <2>2. ByteAt(num[j], o) = buf[j][o]
    BY SlotOfFacts DEF ByteAt, CacheInv
  <2>3. QED
    BY <1>1, <2>1, <2>2, FlushFacts
<1>5. QED
  BY <1>2, <1>3, <1>4 DEF CacheInv

(***************************************************************************)
(* A sector written raw is in no slot, so nothing in the cache goes stale. *)
(***************************************************************************)
LEMMA WriteSectorStep ==
    ASSUME TypeOK, CacheInv, NEW n \in RawWritten, NEW b \in Block, WriteSector(n, b)
    PROVE  /\ TypeOK' /\ CacheInv'
           /\ ~Cached(n) /\ num' = num /\ buf' = buf /\ out' = out
           /\ \A s \in Sector : \A o \in Offset :
                data'[s][o] = IF s = n /\ o \in SizeOf(n) THEN b[o] ELSE data[s][o]
<1> DEFINE c == Copy(data[n], b, SizeOf(n))
<1>0. n \in Sector
  BY DisciplineAssumption
<1>1. /\ data' = [data EXCEPT ![n] = c]
      /\ num' = num /\ buf' = buf /\ out' = out /\ dirty' = dirty
      /\ next' = next /\ prev' = prev /\ last' = last
  BY DEF WriteSector, ring
<1>2. /\ c \in Block
      /\ \A o \in Offset : c[o] = IF o \in SizeOf(n) THEN b[o] ELSE data[n][o]
  <2>1. data[n] \in Block /\ \A o \in SizeOf(n) \cap Offset : b[o] \in Byte
    BY <1>0 DEF TypeOK, Block
  <2>2. QED
    BY <2>1, CopyFacts
<1> HIDE DEF c
<1>3. TypeOK'
  BY <1>1, <1>2 DEF TypeOK
<1>4. ~Cached(n)
  BY <1>0, SectorAssumption, DisciplineAssumption DEF CacheInv, CachedSectorsKnown, Cached
<1>5. RingLinked' /\ NoDuplicates' /\ CachedSectorsKnown' /\ DirtySlotsHeld'
  BY <1>1 DEF CacheInv, RingLinked, NoDuplicates, CachedSectorsKnown, DirtySlotsHeld
<1>6. CleanSlotsAgree'
  BY <1>0, <1>1, <1>4 DEF CacheInv, CleanSlotsAgree, Cached, TypeOK
<1>7. \A s \in Sector : \A o \in Offset :
          data'[s][o] = IF s = n /\ o \in SizeOf(n) THEN b[o] ELSE data[s][o]
  BY <1>0, <1>1, <1>2 DEF TypeOK
<1>8. QED
  BY <1>1, <1>3, <1>4, <1>5, <1>6, <1>7 DEF CacheInv

-----------------------------------------------------------------------------
(***************************************************************************)
(* The bytes a reader of the disk sees.  A hit and a miss both change them *)
(* only by what the caller stores, or by the clearing init_sector asked    *)
(* for.                                                                    *)
(***************************************************************************)
LEMMA HitContent ==
    ASSUME TypeOK, CacheInv,
           NEW n \in CacheRead \cup CacheWritten, NEW i \in Slot,
           NEW p \in Patches(n), p # NoPatch => n \in CacheWritten,
           HitRecent(n, i, p) \/ HitOther(n, i, p)
    PROVE  /\ \A o \in SizeOf(n) : buf'[i][o] = ByteAt(n, o)'
           /\ \A s \in Sector : \A o \in SizeOf(s) :
                ByteAt(s, o)' = IF s = n /\ o \in DOMAIN p THEN p[o] ELSE ByteAt(s, o)
<1>0. n \in Sector
  BY DisciplineAssumption
<1>1. /\ num[i] = n /\ num' = num /\ data' = data
      /\ buf' = [buf EXCEPT ![i] = Copy(buf[i], p, DOMAIN p)]
  BY HitStep
<1>2. /\ \A o \in Offset :
            Copy(buf[i], p, DOMAIN p)[o] = IF o \in DOMAIN p THEN p[o] ELSE buf[i][o]
  BY <1>0, PokeFacts DEF TypeOK
<1>3. \A j \in Slot : \A o \in Offset :
          buf'[j][o] = IF j = i /\ o \in DOMAIN p THEN p[o] ELSE buf[j][o]
  BY <1>1, <1>2 DEF TypeOK
<1>4. \A s : Cached(s)' = Cached(s) /\ SlotOf(s)' = SlotOf(s)
  BY <1>1 DEF Cached, SlotOf
<1>5. Cached(n) /\ SlotOf(n) = i
  BY <1>0, <1>1, SectorAssumption, SlotOfFacts DEF CacheInv
<1>6. \A o \in SizeOf(n) : buf'[i][o] = ByteAt(n, o)'
  BY <1>4, <1>5 DEF ByteAt
<1>7. ASSUME NEW s \in Sector, NEW o \in SizeOf(s)
      PROVE  ByteAt(s, o)' = IF s = n /\ o \in DOMAIN p THEN p[o] ELSE ByteAt(s, o)
  <2>1. CASE Cached(s)
    <3>1. PICK j \in Slot : num[j] = s
      BY <2>1 DEF Cached
    <3>2. SlotOf(s) = j
      BY <3>1, SectorAssumption, SlotOfFacts DEF CacheInv
    <3>3. ByteAt(s, o) = buf[j][o] /\ ByteAt(s, o)' = buf'[j][o]
      BY <2>1, <3>2, <1>4 DEF ByteAt
    <3>4. j = i <=> s = n
      BY <3>1, <3>2, <1>1, <1>5
    <3>5. QED
      BY <3>3, <3>4, <1>3, SizeOfFacts
  <2>2. CASE ~Cached(s)
    BY <2>2, <1>1, <1>4, <1>5 DEF ByteAt
  <2>3. QED
    BY <2>1, <2>2
<1>8. QED
  BY <1>6, <1>7

LEMMA MissContent ==
    ASSUME TypeOK, CacheInv,
           NEW n \in CacheRead \cup CacheWritten, NEW i \in Slot,
           NEW init \in BOOLEAN, NEW p \in Patches(n),
           init \/ p # NoPatch => n \in CacheWritten,
           Miss(n, i, init, p)
    PROVE  /\ \A o \in SizeOf(n) : buf'[i][o] = ByteAt(n, o)'
           /\ \A s \in Sector : \A o \in SizeOf(s) :
                ByteAt(s, o)' = IF s = n /\ o \in DOMAIN p THEN p[o]
                                ELSE IF s = n /\ init THEN Zero ELSE ByteAt(s, o)
<1>0. n \in Sector
  BY DisciplineAssumption
<1>1. /\ ~Cached(n) /\ num' = [num EXCEPT ![i] = n] /\ data' = WrittenBack(i)
      /\ \A j \in Slot : j # i => buf'[j] = buf[j]
      /\ \A o \in SizeOf(n) :
            buf'[i][o] = IF o \in DOMAIN p THEN p[o]
                         ELSE IF init THEN Zero ELSE data[n][o]
  BY MissStep
<1>2. \A s \in Sector : \A o \in Offset :
            data'[s][o] = IF num[i] = s /\ dirty[i] /\ o \in SizeOf(s)
                          THEN buf[i][o] ELSE data[s][o]
  BY <1>1, WrittenBackFacts
<1>3. \A j \in Slot : num'[j] = IF j = i THEN n ELSE num[j]
  BY <1>1 DEF TypeOK
<1>4. \A j \in Slot : num[j] # n
  BY <1>1 DEF Cached
<1>5. NoDuplicates'
  BY MissStep DEF CacheInv
<1>6. SlotOf(n)' = i /\ Cached(n)'
  BY <1>3, <1>4 DEF SlotOf, Cached
<1>7. \A o \in SizeOf(n) : buf'[i][o] = ByteAt(n, o)'
  BY <1>6 DEF ByteAt
<1>8. ASSUME NEW s \in Sector, s # n, NEW o \in SizeOf(s)
      PROVE  ByteAt(s, o)' = ByteAt(s, o)
  <2>0. o \in Offset /\ s # NoSector
    BY SizeOfFacts, SectorAssumption
  <2>1. CASE \E j \in Slot : j # i /\ num[j] = s
    <3>1. PICK j \in Slot : j # i /\ num[j] = s
      BY <2>1
    <3>2. SlotOf(s) = j /\ Cached(s)
      BY <3>1, <2>0, SlotOfFacts DEF CacheInv
    <3>3. num'[j] = s /\ \A k \in Slot : num'[k] = s => k = j
      BY <3>1, <2>0, <1>3, <1>8 DEF CacheInv, NoDuplicates
    <3>4. SlotOf(s)' = j /\ Cached(s)'
      BY <3>3 DEF SlotOf, Cached
    <3>5. QED
      BY <3>1, <3>2, <3>4, <1>1 DEF ByteAt
  <2>2. CASE num[i] = s
    <3>1. SlotOf(s) = i /\ Cached(s)
      BY <2>2, <2>0, SlotOfFacts DEF CacheInv
    <3>2. ~Cached(s)'
      BY <2>2, <2>0, <1>3, <1>8 DEF CacheInv, NoDuplicates, Cached
    <3>3. data'[s][o] = buf[i][o]
      BY <2>2, <2>0, <1>2 DEF CacheInv, CleanSlotsAgree, TypeOK
    <3>4. QED
      BY <3>1, <3>2, <3>3 DEF ByteAt
  <2>3. CASE ~Cached(s)
    <3>1. ~Cached(s)' /\ num[i] # s
      BY <2>3, <1>3, <1>8 DEF Cached
    <3>2. QED
      BY <2>3, <3>1, <2>0, <1>2 DEF ByteAt
  <2>4. QED
    BY <2>1, <2>2, <2>3 DEF Cached
<1>9. QED
  BY <1>0, <1>1, <1>7, <1>8 DEF ByteAt

-----------------------------------------------------------------------------
(***************************************************************************)
(* The effect of a call on the content: sector n has the bytes of patch p, *)
(* over zeros if it was cleared, and every other byte stays.               *)
(***************************************************************************)
ContentChange(n, p, cleared) ==
    \A s \in Sector : \A o \in SizeOf(s) :
        ByteAt(s, o)' = IF s = n /\ o \in DOMAIN p THEN p[o]
                        ELSE IF s = n /\ cleared THEN Zero ELSE ByteAt(s, o)

(***************************************************************************)
(* Any call of get_sector.                                                 *)
(***************************************************************************)
LEMMA GetSectorStep ==
    ASSUME TypeOK, CacheInv,
           NEW n \in CacheRead \cup CacheWritten, NEW i \in Slot,
           NEW init \in BOOLEAN, NEW p \in Patches(n),
           init \/ p # NoPatch => n \in CacheWritten,
           GetSector(n, i, init, p)
    PROVE  /\ buf' \in [Slot -> Block] /\ (out' \in Byte => TypeOK') /\ CacheInv'
           /\ \A o \in SizeOf(n) : buf'[i][o] = ByteAt(n, o)'
           /\ \E cleared \in {FALSE, init} : ContentChange(n, p, cleared)
<1>1. CASE HitRecent(n, i, p) \/ HitOther(n, i, p)
  <2>1. ContentChange(n, p, FALSE)
    BY <1>1, HitContent DEF ContentChange
  <2>2. QED
    BY <1>1, <2>1, HitStep, HitContent
<1>2. CASE Miss(n, i, init, p)
  <2>1. ContentChange(n, p, init)
    BY <1>2, MissContent DEF ContentChange
  <2>2. QED
    BY <1>2, <2>1, MissStep, MissContent
<1>3. QED
  BY <1>1, <1>2 DEF GetSector

(* The constructor leaves every slot empty and clean.                      *)
LEMMA InitHolds == Init => TypeOK /\ CacheInv
<1> SUFFICES ASSUME Init PROVE TypeOK /\ CacheInv
  OBVIOUS
<1>1. TypeOK
  BY SectorAssumption, ByteAssumption, CacheSizeAssumption, ZeroBlockFacts
  DEF Init, RingInit, TypeOK, Slot
<1>2. RingLinked
  BY CacheSizeAssumption DEF Init, RingInit, RingLinked, Slot
<1>3. NoDuplicates /\ CleanSlotsAgree /\ DirtySlotsHeld /\ CachedSectorsKnown
  BY DEF Init, NoDuplicates, CleanSlotsAgree, DirtySlotsHeld, CachedSectorsKnown
<1>4. QED
  BY <1>1, <1>2, <1>3 DEF CacheInv

(* Every operation of the disk keeps the invariant.                        *)
LEMMA NextKeeps == TypeOK /\ CacheInv /\ [Next]_vars => TypeOK' /\ CacheInv'
<1> SUFFICES ASSUME TypeOK, CacheInv, [Next]_vars PROVE TypeOK' /\ CacheInv'
  OBVIOUS
<1>1. ASSUME NEW n \in CacheRead, NEW o \in SizeOf(n), ReadByte(n, o)
      PROVE  TypeOK' /\ CacheInv'
  <2>1. PICK i \in Slot : GetSector(n, i, FALSE, NoPatch) /\ out' = buf'[i][o]
    BY <1>1 DEF ReadByte
  <2>2. buf' \in [Slot -> Block] /\ (out' \in Byte => TypeOK') /\ CacheInv'
    BY <2>1, GetSectorStep, NoPatchFacts
  <2>3. out' \in Byte
    BY <2>1, <2>2, SizeOfFacts DEF Block
  <2>4. QED
    BY <2>2, <2>3
<1>2. ASSUME NEW n \in CacheWritten, NEW p \in Patches(n), WriteBytes(n, p)
      PROVE  TypeOK' /\ CacheInv'
  <2>1. PICK i \in Slot : GetSector(n, i, FALSE, p) /\ out' = out
    BY <1>2 DEF WriteBytes
  <2>2. QED
    BY <2>1, GetSectorStep DEF TypeOK
<1>3. ASSUME NEW n \in CacheWritten, InitSector(n)
      PROVE  TypeOK' /\ CacheInv'
  <2>1. PICK i \in Slot : GetSector(n, i, TRUE, NoPatch) /\ out' = out
    BY <1>3 DEF InitSector
  <2>2. QED
    BY <2>1, GetSectorStep, NoPatchFacts DEF TypeOK
<1>4. ASSUME NEW n \in RawRead, NEW o \in SizeOf(n), ReadSector(n, o)
      PROVE  TypeOK' /\ CacheInv'
  <2>1. out' = data[n][o] /\ UNCHANGED <<data, next, prev, last, num, dirty, buf>>
    BY <1>4 DEF ReadSector, ring
  <2>2. n \in Sector /\ o \in Offset
    BY DisciplineAssumption, SizeOfFacts
  <2>3. out' \in Byte
    BY <2>1, <2>2 DEF TypeOK, Block
  <2>4. QED
    BY <2>1, <2>3 DEF TypeOK, CacheInv, RingLinked, NoDuplicates, CleanSlotsAgree,
                      DirtySlotsHeld, CachedSectorsKnown
<1>5. ASSUME NEW n \in RawWritten, NEW b \in Block, WriteSector(n, b)
      PROVE  TypeOK' /\ CacheInv'
  BY <1>5, WriteSectorStep
<1>6. CASE Save
  BY <1>6, SaveStep
<1>7. CASE UNCHANGED vars
  BY <1>7 DEF vars, TypeOK, CacheInv, RingLinked, NoDuplicates, CleanSlotsAgree,
              DirtySlotsHeld, CachedSectorsKnown
<1>8. QED
  BY <1>1, <1>2, <1>3, <1>4, <1>5, <1>6, <1>7 DEF Next

(***************************************************************************)
(* The cache keeps its types and its invariant in every execution: links   *)
(* of the ring, no sector in two slots, clean slots equal to the image,    *)
(* dirty slots only for sectors that are written through the cache.        *)
(***************************************************************************)
THEOREM CacheCorrect == Spec => [](TypeOK /\ CacheInv)
<1>1. Init => TypeOK /\ CacheInv
  BY InitHolds
<1>2. TypeOK /\ CacheInv /\ [Next]_vars => (TypeOK /\ CacheInv)'
  BY NextKeeps
<1>3. QED
  BY <1>1, <1>2, PTL DEF Spec

(* Every variable keeps its type: the ring stays within the slots, a slot  *)
(* holds a sector of the disk or none, and bytes stay bytes.               *)
THEOREM CacheTypeOK == Spec => []TypeOK
BY CacheCorrect, PTL

(***************************************************************************)
(* What save writes to the file is the content the file systems left.      *)
(***************************************************************************)
THEOREM SaveCorrect == Spec => SaveWritesContent
<1>1. ASSUME TypeOK, CacheInv, Save, NEW s \in Sector, NEW o \in SizeOf(s)
      PROVE  data'[s][o] = Content[s][o]
  BY <1>1, FlushFacts DEF Save, Content
<1>2. TypeOK /\ CacheInv /\ [Next]_vars
        => [Save => \A s \in Sector : \A o \in SizeOf(s) : data'[s][o] = Content[s][o]]_vars
  BY <1>1
<1>3. QED
  BY <1>2, CacheCorrect, PTL DEF Spec, SaveWritesContent

-----------------------------------------------------------------------------
(* The order of the slots along the ring, from `last' on: pos[i] is the    *)
(* place of slot i, at[k] the slot in place k.                             *)
RingOrder(pos, at) ==
    /\ pos \in [Slot -> Slot] /\ at \in [Slot -> Slot]
    /\ \A i \in Slot : at[pos[i]] = i /\ pos[at[i]] = i
    /\ pos[last] = 0
    /\ \A i \in Slot : pos[next[i]] = IF pos[i] = cache_size - 1 THEN 0 ELSE pos[i] + 1

Ordered == \E pos, at \in [Slot -> Slot] : RingOrder(pos, at)

LEMMA SlotFacts ==
    /\ cache_size \in Nat /\ cache_size > 0
    /\ 0 \in Slot /\ cache_size - 1 \in Slot
    /\ \A k : k \in Slot <=> k \in Nat /\ k < cache_size
BY CacheSizeAssumption DEF Slot

(* The constructor links the slots in the order of their numbers.          *)
LEMMA InitOrder == Init => Ordered
<1> SUFFICES ASSUME Init PROVE Ordered
  OBVIOUS
<1> DEFINE id == [i \in Slot |-> i]
<1>1. next = [i \in Slot |-> IF i = cache_size - 1 THEN 0 ELSE i + 1] /\ last = 0
  BY DEF Init, RingInit
<1>2. RingOrder(id, id)
  BY <1>1, SlotFacts DEF RingOrder
<1>3. id \in [Slot -> Slot]
  OBVIOUS
<1>4. QED
  BY <1>2, <1>3 DEF Ordered

(* A hit moves slot i to the last place; those behind it move up.          *)
LEMMA HitOrder ==
    ASSUME TypeOK, RingLinked, NEW pos, NEW at, RingOrder(pos, at),
           NEW i \in Slot, i # last, MoveBeforeLast(i)
    PROVE  \E pos2, at2 \in [Slot -> Slot] : RingOrder(pos2, at2)'
<1> DEFINE pos2 == [j \in Slot |-> IF j = i THEN cache_size - 1
                                   ELSE IF pos[j] > pos[i] THEN pos[j] - 1 ELSE pos[j]]
           at2 == [k \in Slot |-> IF k = cache_size - 1 THEN i
                                  ELSE IF k >= pos[i] THEN at[k + 1] ELSE at[k]]
<1>1. /\ pos \in [Slot -> Slot] /\ at \in [Slot -> Slot]
      /\ \A j \in Slot : at[pos[j]] = j /\ pos[at[j]] = j
      /\ pos[last] = 0
      /\ \A j \in Slot : pos[next[j]] = IF pos[j] = cache_size - 1 THEN 0 ELSE pos[j] + 1
  BY DEF RingOrder
<1>2. /\ last \in Slot /\ next \in [Slot -> Slot] /\ prev \in [Slot -> Slot]
      /\ \A j \in Slot : prev[next[j]] = j /\ next[prev[j]] = j
  BY DEF TypeOK, RingLinked
<1>3. \A j, k \in Slot : pos[j] = pos[k] => j = k
  BY <1>1
<1>4. pos[i] > 0 /\ \A j \in Slot : pos[j] \in Int /\ 0 <= pos[j] /\ pos[j] <= cache_size - 1
  <2>1. \A j \in Slot : pos[j] \in Int /\ 0 <= pos[j] /\ pos[j] <= cache_size - 1
    BY <1>1, SlotFacts
  <2>2. pos[i] # pos[last]
    BY <1>2, <1>3
  <2>3. QED
    BY <1>1, <2>1, <2>2
<1>5. pos2 \in [Slot -> Slot] /\ at2 \in [Slot -> Slot]
  <2>1. ASSUME NEW j \in Slot PROVE pos2[j] \in Slot
    BY <1>4, SlotFacts
  <2>2. ASSUME NEW k \in Slot PROVE at2[k] \in Slot
    BY <1>1, SlotFacts
  <2>3. QED
    BY <2>1, <2>2
<1>6. ASSUME NEW j \in Slot PROVE at2[pos2[j]] = j
  <2>1. pos2[j] \in Slot
    BY <1>5
  <2>2. CASE j = i
    BY <2>1, <2>2
  <2>3. CASE j # i /\ pos[j] > pos[i]
    <3>1. pos2[j] = pos[j] - 1 /\ pos2[j] # cache_size - 1 /\ pos2[j] >= pos[i]
      BY <1>4, <2>3, SlotFacts
    <3>2. at2[pos2[j]] = at[pos2[j] + 1] /\ pos2[j] + 1 = pos[j]
      BY <1>4, <2>1, <3>1
    <3>3. QED
      BY <1>1, <3>2
  <2>4. CASE j # i /\ ~(pos[j] > pos[i])
    <3>1. pos2[j] = pos[j] /\ pos[j] < pos[i]
      BY <1>3, <1>4, <2>4
    <3>2. at2[pos2[j]] = at[pos[j]]
      BY <1>4, <2>1, <3>1
    <3>3. QED
      BY <1>1, <3>2
  <2>5. QED
    BY <2>2, <2>3, <2>4
<1>7. ASSUME NEW k \in Slot PROVE pos2[at2[k]] = k
  <2>1. at2[k] \in Slot
    BY <1>5
  <2>2. CASE k = cache_size - 1
    BY <2>1, <2>2
  <2>3. CASE k # cache_size - 1 /\ k >= pos[i]
    <3>1. k + 1 \in Slot /\ at2[k] = at[k + 1]
      BY <2>3, SlotFacts
    <3>2. pos[at2[k]] = k + 1 /\ at2[k] # i
      BY <1>1, <1>4, <2>3, <3>1, SlotFacts
    <3>3. QED
      BY <1>4, <2>1, <2>3, <3>2, SlotFacts
  <2>4. CASE k # cache_size - 1 /\ ~(k >= pos[i])
    <3>1. at2[k] = at[k] /\ pos[at2[k]] = k
      BY <1>1, <2>4
    <3>2. at2[k] # i
      BY <1>4, <2>4, <3>1, SlotFacts
    <3>3. QED
      BY <1>4, <2>1, <2>4, <3>1, <3>2, SlotFacts
  <2>5. QED
    BY <2>2, <2>3, <2>4
<1>8. last' = last /\ pos2[last] = 0
  <2>1. last' = last
    BY DEF MoveBeforeLast
  <2>2. QED
    BY <1>1, <1>2, <1>4, <2>1
<1>9. ASSUME NEW j \in Slot
      PROVE  pos2[next'[j]] = IF pos2[j] = cache_size - 1 THEN 0 ELSE pos2[j] + 1
  <2> DEFINE before == IF next[i] = last THEN prev[i] ELSE prev[last]
  <2>1. next' = [[next EXCEPT ![prev[i]] = next[i]] EXCEPT ![i] = last, ![before] = i]
    BY <1>2 DEF MoveBeforeLast
  <2>2. before \in Slot /\ prev[i] \in Slot
    BY <1>2
  <2>3. /\ next'[j] = IF j = before THEN i ELSE IF j = i THEN last
                      ELSE IF j = prev[i] THEN next[i] ELSE next[j]
    BY <1>2, <2>1, <2>2
  <2>4. pos[prev[last]] = cache_size - 1
    BY <1>1, <1>2, <1>4
  <2>5. pos[prev[i]] = pos[i] - 1 /\ prev[i] # i
    <3>1. next[prev[i]] = i /\ pos[prev[i]] \in Int
      BY <1>2, <1>4, <2>2
    <3>2. pos[i] = IF pos[prev[i]] = cache_size - 1 THEN 0 ELSE pos[prev[i]] + 1
      BY <1>1, <2>2, <3>1
    <3>3. QED
      BY <1>4, <3>1, <3>2
  <2> HIDE DEF before
  <2>6. CASE next[i] = last
    <3>1. before = prev[i] /\ pos[i] = cache_size - 1
      BY <1>1, <1>2, <1>4, <2>6 DEF before
    <3>2. pos2 = pos
      <4>1. \A k \in Slot : pos2[k] = pos[k]
        BY <1>4, <3>1
      <4>2. QED
        BY <1>1, <4>1
    <3>3. next'[j] = next[j]
      BY <1>2, <2>3, <2>6, <3>1
    <3>4. QED
      BY <1>1, <3>2, <3>3
  <2>7. CASE next[i] # last
    <3>1. before = prev[last] /\ pos[i] < cache_size - 1
      <4>1. before = prev[last]
        BY <2>7 DEF before
      <4>2. pos[i] # cache_size - 1
        BY <1>1, <1>2, <1>3, <2>7
      <4>3. QED
        BY <1>4, <4>1, <4>2, SlotFacts
    <3>2. before # i
      BY <1>4, <2>4, <3>1
    <3>3. CASE j = before
      <4>1. pos2[j] = cache_size - 2
        BY <1>4, <2>4, <3>1, <3>2, <3>3, SlotFacts
      <4>2. pos2[next'[j]] = cache_size - 1
        BY <2>3, <3>3
      <4>3. QED
        BY <4>1, <4>2, SlotFacts
    <3>4. CASE j = i
      BY <1>8, <2>3, <3>2, <3>4
    <3>5. CASE j # before /\ j = prev[i]
      <4>1. next'[j] = next[i] /\ next[i] # i /\ next[i] \in Slot /\ pos[next[i]] = pos[i] + 1
        <5>1. next[i] \in Slot /\ next'[j] = next[i]
          BY <1>2, <2>3, <2>5, <3>5
        <5>2. pos[i] \in Int /\ pos[next[i]] = pos[i] + 1
          BY <1>1, <1>4, <3>1
        <5>3. next[i] # i
          BY <5>2
        <5>4. QED
          BY <5>1, <5>2, <5>3
      <4>2. pos2[next[i]] = pos[i] /\ pos2[j] = pos[i] - 1
        BY <1>4, <2>5, <3>5, <4>1
      <4>3. QED
        BY <1>4, <4>1, <4>2, SlotFacts
    <3>6. CASE j # before /\ j # i /\ j # prev[i]
      <4>1. next'[j] = next[j] /\ next[j] \in Slot /\ next[j] # i
        BY <1>2, <2>3, <3>6
      <4>2. pos[j] # cache_size - 1 /\ pos[next[j]] = pos[j] + 1
        BY <1>1, <1>2, <1>3, <2>4, <3>1, <3>6
      <4>3. pos[j] # pos[i] /\ pos[next[j]] # pos[i]
        BY <1>3, <3>6, <4>1
      <4>4. QED
        BY <1>4, <3>6, <4>1, <4>2, <4>3, SlotFacts
    <3>7. QED
      BY <3>3, <3>4, <3>5, <3>6
  <2>8. QED
    BY <2>6, <2>7
<1>10. RingOrder(pos2, at2)'
  BY <1>5, <1>6, <1>7, <1>8, <1>9 DEF RingOrder
<1> HIDE DEF pos2, at2
<1>11. QED
  BY <1>5, <1>10

(* A miss turns the ring by one place.                                     *)
LEMMA MissOrder ==
    ASSUME TypeOK, RingLinked, NEW pos, NEW at, RingOrder(pos, at),
           last' = next[last], next' = next
    PROVE  \E pos2, at2 \in [Slot -> Slot] : RingOrder(pos2, at2)'
<1> DEFINE pos2 == [j \in Slot |-> IF pos[j] = 0 THEN cache_size - 1 ELSE pos[j] - 1]
           at2 == [k \in Slot |-> IF k = cache_size - 1 THEN at[0] ELSE at[k + 1]]
<1>1. /\ pos \in [Slot -> Slot] /\ at \in [Slot -> Slot]
      /\ \A j \in Slot : at[pos[j]] = j /\ pos[at[j]] = j
      /\ pos[last] = 0
      /\ \A j \in Slot : pos[next[j]] = IF pos[j] = cache_size - 1 THEN 0 ELSE pos[j] + 1
  BY DEF RingOrder
<1>2. last \in Slot /\ next \in [Slot -> Slot]
  BY DEF TypeOK
<1>3. \A j \in Slot : pos[j] \in Int /\ 0 <= pos[j] /\ pos[j] <= cache_size - 1
  BY <1>1, SlotFacts
<1>4. pos2 \in [Slot -> Slot] /\ at2 \in [Slot -> Slot]
  <2>1. ASSUME NEW j \in Slot PROVE pos2[j] \in Slot
    BY <1>3, SlotFacts
  <2>2. ASSUME NEW k \in Slot PROVE at2[k] \in Slot
    BY <1>1, SlotFacts
  <2>3. QED
    BY <2>1, <2>2
<1>5. ASSUME NEW j \in Slot PROVE at2[pos2[j]] = j
  BY <1>1, <1>3, <1>4, SlotFacts
<1>6. ASSUME NEW k \in Slot PROVE pos2[at2[k]] = k
  <2>1. CASE k = cache_size - 1
    BY <1>1, <2>1, SlotFacts
  <2>2. CASE k # cache_size - 1
    <3>1. k + 1 \in Slot /\ at2[k] = at[k + 1]
      BY <2>2, SlotFacts
    <3>2. pos[at2[k]] = k + 1 /\ at2[k] \in Slot
      BY <1>1, <3>1
    <3>3. QED
      BY <3>2, SlotFacts
  <2>3. QED
    BY <2>1, <2>2
<1>7. pos2[last'] = 0
  <2>1. last' \in Slot /\ pos[last'] = IF 0 = cache_size - 1 THEN 0 ELSE 1
    <3>1. pos[next[last]] = IF pos[last] = cache_size - 1 THEN 0 ELSE pos[last] + 1
      BY <1>1, <1>2, Zenon
    <3>2. last' = next[last] /\ next[last] \in Slot /\ pos[last] = 0
      BY <1>1, <1>2
    <3> HIDE DEF pos2, at2
    <3>3. QED
      BY <3>1, <3>2
  <2>2. pos2[last'] = IF pos[last'] = 0 THEN cache_size - 1 ELSE pos[last'] - 1
    BY <2>1
  <2> HIDE DEF pos2
  <2>3. QED
    BY <2>1, <2>2, SlotFacts
<1>8. ASSUME NEW j \in Slot
      PROVE  pos2[next'[j]] = IF pos2[j] = cache_size - 1 THEN 0 ELSE pos2[j] + 1
  <2> DEFINE p == pos[j]
             q == pos[next[j]]
  <2>1. next' = next /\ next[j] \in Slot /\ p \in Int /\ 0 <= p /\ p <= cache_size - 1
    BY <1>2, <1>3
  <2>2. q = IF p = cache_size - 1 THEN 0 ELSE p + 1
    BY <1>1
  <2>3. /\ pos2[j] = IF p = 0 THEN cache_size - 1 ELSE p - 1
        /\ pos2[next'[j]] = IF q = 0 THEN cache_size - 1 ELSE q - 1
    BY <2>1
  <2> HIDE DEF pos2, p, q
  <2>4. QED
    BY <2>1, <2>2, <2>3, SlotFacts
<1>9. RingOrder(pos2, at2)'
  BY <1>4, <1>5, <1>6, <1>7, <1>8 DEF RingOrder
<1> HIDE DEF pos2, at2
<1>10. QED
  BY <1>4, <1>9

(* However get_sector finds its slot, there is an order of the ring again. *)
LEMMA GetOrder ==
    ASSUME TypeOK, RingLinked, NEW pos, NEW at, RingOrder(pos, at),
           NEW n, NEW i \in Slot, NEW init, NEW p, GetSector(n, i, init, p)
    PROVE  \E pos2, at2 \in [Slot -> Slot] : RingOrder(pos2, at2)'
<1>1. CASE HitRecent(n, i, p)
  <2>1. next' = next /\ last' = last
    BY <1>1 DEF HitRecent, ring
  <2>2. QED
    BY <2>1 DEF RingOrder
<1>2. CASE HitOther(n, i, p)
  <2>1. i # last /\ MoveBeforeLast(i)
    BY <1>2 DEF HitOther
  <2>2. QED
    BY <2>1, HitOrder
<1>3. CASE Miss(n, i, init, p)
  <2>1. next' = next /\ last' = next[last]
    BY <1>3 DEF Miss
  <2>2. QED
    BY <2>1, MissOrder
<1>4. QED
  BY <1>1, <1>2, <1>3 DEF GetSector

(* The slots met from `last' on are those in their places, so all of them. *)
LEMMA OrderIsCycle ==
    ASSUME TypeOK, Ordered
    PROVE  RingIsOneCycle
<1>1. PICK pos, at \in [Slot -> Slot] : RingOrder(pos, at)
  BY DEF Ordered
<1>2. /\ \A i \in Slot : at[pos[i]] = i /\ pos[at[i]] = i
      /\ pos[last] = 0
      /\ \A i \in Slot : pos[next[i]] = IF pos[i] = cache_size - 1 THEN 0 ELSE pos[i] + 1
      /\ last \in Slot /\ next \in [Slot -> Slot]
  BY <1>1 DEF RingOrder, TypeOK
<1>3. at[0] = last
  BY <1>2
<1>4. ASSUME NEW k \in Slot, k # 0 PROVE k - 1 \in Slot /\ at[k] = next[at[k - 1]]
  <2>1. k - 1 \in Slot /\ k - 1 # cache_size - 1
    BY <1>4, SlotFacts
  <2>2. at[k - 1] \in Slot /\ pos[at[k - 1]] = k - 1
    BY <1>1, <1>2, <2>1
  <2>3. pos[next[at[k - 1]]] = k
    BY <1>2, <2>1, <2>2, SlotFacts
  <2>4. QED
    BY <1>2, <2>1, <2>2, <2>3
<1> DEFINE F(g) == [k \in Slot |-> IF k = 0 THEN last ELSE next[g[k - 1]]]
           walk == CHOOSE g : g = F(g)
<1>5. at = F(at)
  BY <1>1, <1>3, <1>4
<1>6. walk = F(walk)
  BY <1>5
<1>7. \A k \in Slot : walk[k] = at[k]
  <2> DEFINE S == {k \in Nat : k \in Slot => walk[k] = at[k]}
  <2> HIDE DEF walk
  <2>1. 0 \in S
    BY <1>3, <1>6, SlotFacts
  <2>2. ASSUME NEW k \in Nat, k \in S PROVE k + 1 \in S
    <3>1. ASSUME k + 1 \in Slot PROVE walk[k + 1] = at[k + 1]
      <4>1. k \in Slot /\ k + 1 # 0 /\ (k + 1) - 1 = k
        BY <3>1, SlotFacts
      <4>2. walk[k + 1] = next[walk[k]]
        BY <1>6, <3>1, <4>1
      <4>3. at[k + 1] = next[at[k]]
        BY <1>4, <3>1, <4>1
      <4>4. QED
        BY <2>2, <4>1, <4>2, <4>3
    <3>2. QED
      BY <3>1
  <2> HIDE DEF S
  <2>3. Nat \subseteq S
    BY <2>1, <2>2, NatSetInduction
  <2>4. QED
    BY <2>3, SlotFacts DEF S
<1>8. {walk[k] : k \in Slot} = Slot
  <2> HIDE DEF walk
  <2>1. \A k \in Slot : walk[k] \in Slot
    BY <1>1, <1>7
  <2>2. \A i \in Slot : pos[i] \in Slot /\ walk[pos[i]] = i
    BY <1>1, <1>2, <1>7
  <2>3. QED
    BY <2>1, <2>2
<1>9. QED
  BY <1>8 DEF RingIsOneCycle

LEMMA OrderKept == TypeOK /\ CacheInv /\ Ordered /\ [Next]_vars => Ordered'
<1> SUFFICES ASSUME TypeOK, CacheInv, Ordered, [Next]_vars PROVE Ordered'
  OBVIOUS
<1>1. PICK pos, at \in [Slot -> Slot] : RingOrder(pos, at)
  BY DEF Ordered
<1>2. ASSUME NEW n, NEW i \in Slot, NEW init, NEW p, GetSector(n, i, init, p)
      PROVE  Ordered'
  <2>1. RingLinked
    BY DEF CacheInv
  <2>2. \E pos2, at2 \in [Slot -> Slot] : RingOrder(pos2, at2)'
    BY <1>1, <1>2, <2>1, GetOrder
  <2>3. QED
    BY <2>2 DEF Ordered
<1>3. ASSUME next' = next, last' = last PROVE Ordered'
  BY <1>1, <1>3 DEF Ordered, RingOrder
<1>4. CASE Next
  <2>1. \/ \E n, i, init, p : i \in Slot /\ GetSector(n, i, init, p)
        \/ next' = next /\ last' = last
    BY <1>4 DEF Next, ReadByte, WriteBytes, InitSector, ReadSector, WriteSector, Save, ring
  <2>2. QED
    BY <1>2, <1>3, <2>1
<1>5. CASE UNCHANGED vars
  BY <1>3, <1>5 DEF vars
<1>6. QED
  BY <1>4, <1>5

(* The slots stay in one ring, however many there are and whatever the     *)
(* file systems ask for: disk::get_sector loses none of them to its moves. *)
THEOREM RingStaysWhole == Spec => []RingIsOneCycle
<1>1. Init => Ordered
  BY InitOrder
<1>2. TypeOK /\ CacheInv /\ Ordered /\ [Next]_vars => Ordered'
  BY OrderKept
<1>3. TypeOK /\ Ordered => RingIsOneCycle
  BY OrderIsCycle
<1>4. QED
  BY <1>1, <1>2, <1>3, CacheCorrect, PTL DEF Spec

-----------------------------------------------------------------------------
LEMMA InitContent == TypeOK /\ Init => Store!StoreInit
<1> SUFFICES ASSUME TypeOK, Init PROVE Store!StoreInit
  OBVIOUS
<1>1. \A s \in Sector : ~Cached(s)
  BY SectorAssumption DEF Init, Cached
<1>2. \A s \in Sector : \A o \in SizeOf(s) : ByteAt(s, o) = Zero
  BY <1>1, ZeroBlockFacts, SizeOfFacts DEF Init, ByteAt
<1>3. Content = [s \in Sector |-> [o \in SizeOf(s) |-> Zero]]
  BY <1>2 DEF Content
<1>4. QED
  BY <1>3 DEF Store!StoreInit, Store!ClearSector, Init

(* Saving moves bytes, it does not change them.                            *)
LEMMA SaveContent ==
    ASSUME TypeOK, CacheInv, Save
    PROVE  \A s \in Sector : \A o \in SizeOf(s) : ByteAt(s, o)' = ByteAt(s, o)
<1> SUFFICES ASSUME NEW s \in Sector, NEW o \in SizeOf(s)
             PROVE  ByteAt(s, o)' = ByteAt(s, o)
  OBVIOUS
<1>1. data' = FlushedData /\ num' = num /\ buf' = buf
  BY DEF Save
<1>2. Cached(s)' = Cached(s) /\ SlotOf(s)' = SlotOf(s)
  BY <1>1 DEF Cached, SlotOf
<1>3. data'[s][o] = ByteAt(s, o)
  BY <1>1, FlushFacts
<1>4. QED
  BY <1>1, <1>2, <1>3 DEF ByteAt

(* What is read raw was never written through the cache, so data has it.   *)
LEMMA RawReadContent ==
    ASSUME TypeOK, CacheInv, NEW n \in RawRead, NEW o \in SizeOf(n)
    PROVE  ByteAt(n, o) = data[n][o]
<1>1. CASE Cached(n)
  <2>1. PICK i \in Slot : num[i] = n
    BY <1>1 DEF Cached
  <2>2. n # NoSector /\ ~dirty[i]
    BY <2>1, SectorAssumption, DisciplineAssumption DEF CacheInv, DirtySlotsHeld
  <2>3. SlotOf(n) = i /\ buf[i][o] = data[n][o]
    BY <2>1, <2>2, SlotOfFacts DEF CacheInv, CleanSlotsAgree
  <2>4. QED
    BY <1>1, <2>3 DEF ByteAt
<1>2. CASE ~Cached(n)
  BY <1>2 DEF ByteAt
<1>3. QED
  BY <1>1, <1>2

(***************************************************************************)
(* Every step of the disk is a step of the sector store, or a stutter.     *)
(***************************************************************************)
LEMMA StepRefines ==
    TypeOK /\ CacheInv /\ [Next]_vars => [Store!StoreNext]_(Store!storeVars)
<1> SUFFICES ASSUME TypeOK, CacheInv, [Next]_vars
             PROVE  Store!StoreNext \/ (Content' = Content /\ out' = out)
  BY DEF Store!storeVars
<1>0. ASSUME \A s \in Sector : \A o \in SizeOf(s) : ByteAt(s, o)' = ByteAt(s, o)
      PROVE  Content' = Content
  BY <1>0 DEF Content, SizeOf
<1>1. ASSUME NEW n \in CacheRead, NEW o \in SizeOf(n), ReadByte(n, o)
      PROVE  Store!StoreNext
  <2>1. PICK i \in Slot : GetSector(n, i, FALSE, NoPatch) /\ out' = buf'[i][o]
    BY <1>1 DEF ReadByte
  <2>2. /\ \A s \in Sector : \A q \in SizeOf(s) : ByteAt(s, q)' = ByteAt(s, q)
        /\ buf'[i][o] = ByteAt(n, o)'
    <3>1. NoPatch \in Patches(n) /\ DOMAIN NoPatch = {}
      BY NoPatchFacts
    <3>2. ContentChange(n, NoPatch, FALSE) /\ \A q \in SizeOf(n) : buf'[i][q] = ByteAt(n, q)'
      BY <2>1, <3>1, GetSectorStep
    <3>3. QED
      BY <3>1, <3>2 DEF ContentChange
  <2>3. n \in Sector
    BY DisciplineAssumption
  <2>4. Content' = Content /\ out' = Content[n][o]
    BY <2>1, <2>2, <2>3, <1>0 DEF Content
  <2>5. Store!StoreRead(n)
    BY <2>4 DEF Store!StoreRead
  <2>6. QED
    BY <2>3, <2>5 DEF Store!StoreNext
<1>2. ASSUME NEW n \in CacheWritten, NEW p \in Patches(n), WriteBytes(n, p)
      PROVE  Store!StoreNext
  <2>1. PICK i \in Slot : GetSector(n, i, FALSE, p) /\ out' = out
    BY <1>2 DEF WriteBytes
  <2>2. \A s \in Sector : \A q \in SizeOf(s) :
            ByteAt(s, q)' = IF s = n /\ q \in DOMAIN p THEN p[q] ELSE ByteAt(s, q)
    <3>1. ContentChange(n, p, FALSE)
      BY <2>1, GetSectorStep
    <3>2. QED
      BY <3>1 DEF ContentChange
  <2>3. n \in Sector
    BY DisciplineAssumption
  <2>4. Content' = [Content EXCEPT ![n] =
                        [o \in SizeOf(n) |->
                            IF o \in DOMAIN p THEN p[o] ELSE Content[n][o]]]
    BY <2>2, <2>3 DEF Content, SizeOf
  <2>5. Store!StoreWrite(n)
    BY <2>1, <2>4 DEF Store!StoreWrite, Store!Patches, Patches
  <2>6. QED
    BY <2>3, <2>5 DEF Store!StoreNext
<1>3. ASSUME NEW n \in CacheWritten, InitSector(n)
      PROVE  Store!StoreNext \/ (Content' = Content /\ out' = out)
  <2>1. PICK i \in Slot : GetSector(n, i, TRUE, NoPatch) /\ out' = out
    BY <1>3 DEF InitSector
  <2>2. PICK cleared \in {FALSE, TRUE} :
            \A s \in Sector : \A q \in SizeOf(s) :
                ByteAt(s, q)' = IF s = n /\ cleared THEN Zero ELSE ByteAt(s, q)
    <3>1. NoPatch \in Patches(n) /\ DOMAIN NoPatch = {}
      BY NoPatchFacts
    <3>2. PICK cleared \in {FALSE, TRUE} : ContentChange(n, NoPatch, cleared)
      BY <2>1, <3>1, GetSectorStep
    <3>3. QED
      BY <3>1, <3>2 DEF ContentChange
  <2>3. n \in Sector
    BY DisciplineAssumption
  <2>4. CASE cleared
    <3>1. Content' = [Content EXCEPT ![n] = [o \in SizeOf(n) |-> Zero]]
      BY <2>2, <2>3, <2>4 DEF Content, SizeOf
    <3>2. Store!StoreClear(n)
      BY <2>1, <3>1 DEF Store!StoreClear, Store!ClearSector
    <3>3. QED
      BY <2>3, <3>2 DEF Store!StoreNext
  <2>5. CASE ~cleared
    BY <2>1, <2>2, <2>5, <1>0
  <2>6. QED
    BY <2>4, <2>5
<1>4. ASSUME NEW n \in RawRead, NEW o \in SizeOf(n), ReadSector(n, o)
      PROVE  Store!StoreNext
  <2>1. out' = data[n][o] /\ data' = data /\ num' = num /\ buf' = buf
    BY <1>4 DEF ReadSector
  <2>2. Content' = Content
    BY <2>1 DEF Content, ByteAt, Cached, SlotOf, SizeOf
  <2>3. n \in Sector
    BY DisciplineAssumption
  <2>4. out' = Content[n][o]
    BY <2>1, <2>3, RawReadContent DEF Content
  <2>5. Store!StoreRead(n)
    BY <2>2, <2>4 DEF Store!StoreRead
  <2>6. QED
    BY <2>3, <2>5 DEF Store!StoreNext
<1>5. ASSUME NEW n \in RawWritten, NEW b \in Block, WriteSector(n, b)
      PROVE  Store!StoreNext
  <2>1. /\ ~Cached(n) /\ num' = num /\ buf' = buf /\ out' = out
        /\ \A s \in Sector : \A o \in Offset :
             data'[s][o] = IF s = n /\ o \in SizeOf(n) THEN b[o] ELSE data[s][o]
    BY <1>5, WriteSectorStep
  <2>2. n \in Sector
    BY DisciplineAssumption
  <2>3. \A s \in Sector : Cached(s)' = Cached(s) /\ SlotOf(s)' = SlotOf(s)
    BY <2>1 DEF Cached, SlotOf
  <2>4. \A s \in Sector : \A o \in SizeOf(s) :
            ByteAt(s, o)' = IF s = n THEN b[o] ELSE ByteAt(s, o)
    BY <2>1, <2>3, SizeOfFacts DEF ByteAt
  <2> DEFINE p == [o \in SizeOf(n) |-> b[o]]
  <2>5. p \in Patches(n)
    BY SizeOfFacts DEF Patches, Block
  <2>6. Content' = [Content EXCEPT ![n] =
                        [o \in SizeOf(n) |->
                            IF o \in DOMAIN p THEN p[o] ELSE Content[n][o]]]
    BY <2>2, <2>4 DEF Content, SizeOf
  <2>7. Store!StoreWrite(n)
    BY <2>1, <2>5, <2>6 DEF Store!StoreWrite, Store!Patches, Patches
  <2>8. QED
    BY <2>2, <2>7 DEF Store!StoreNext
<1>6. ASSUME Save PROVE Content' = Content /\ out' = out
  BY <1>6, <1>0, SaveContent DEF Save
<1>7. CASE UNCHANGED vars
  BY <1>7 DEF vars, Content, ByteAt, Cached, SlotOf, SizeOf
<1>8. QED
  BY <1>1, <1>2, <1>3, <1>4, <1>5, <1>6, <1>7 DEF Next

(***************************************************************************)
(* The disk of disk.cpp is an array of sectors: whatever the cache does,   *)
(* a read returns what was written last.                                   *)
(***************************************************************************)
THEOREM CacheRefinesStore == Spec => RefinesStore
<1>1. TypeOK /\ Init => Store!StoreInit
  BY InitContent
<1>2. Init => TypeOK
  BY InitHolds
<1>3. TypeOK /\ CacheInv /\ [Next]_vars => [Store!StoreNext]_(Store!storeVars)
  BY StepRefines
<1>4. QED
  BY <1>1, <1>2, <1>3, CacheCorrect, PTL DEF Spec, RefinesStore, Store!StoreSpec

-----------------------------------------------------------------------------
(* Scripts.  The types of what a script has made so far.                   *)
Systems == {"2", "2.5", "II+", "xdos", "mydos"}

(* A line, of a user's script or written by unpack.                        *)
IsTyped(line) ==
    CASE line.command = "DISK" -> /\ line.size \in Nat /\ line.size >= BOOT
                                  /\ line.count \in Nat /\ line.count >= DIR_SECTOR
      [] line.command = "BOOT" -> line.file # "boot.bin" => line.bytes \in Seq(Nat)
      [] line.command = "SET" -> line.value \in Nat
      [] line.command = "FILE" -> line.dos \in BOOLEAN /\ line.first \in Nat
      [] OTHER -> line.command = "FORMAT"

IsSector(x, n) == x \in Seq(Nat) /\ Len(x) = n

(* Sectors that are to be written to disk dk.                              *)
CacheFits(c, dk) ==
    /\ DOMAIN c \subseteq 1 .. dk.count
    /\ c = [s \in DOMAIN c |-> c[s]]
    /\ \A s \in DOMAIN c : IsSector(c[s], SectorSize(dk.size, s))

FsTypes ==
    \/ fs = NoFs
    \/ /\ d # NoDisk /\ fs.name \in Systems
       /\ fs = [name |-> fs.name, vtoc_buf |-> fs.vtoc_buf]
       /\ fs.name = "2.5" => IsSector(fs.vtoc_buf, d.size)

DiskTypes == (d = NoDisk \/ IsDisk(d)) /\ CacheFits(cache, d) /\ FsTypes

ScriptTypes ==
    /\ sector_size \in Nat /\ sector_size >= BOOT
    /\ sector_count \in Nat /\ sector_count >= DIR_SECTOR
    /\ DiskTypes
    /\ taken \in Seq(Lines) /\ Len(taken) <= MaxLines
    /\ boot_bin \in Seq(Nat)
    /\ \E T : script \in Seq(T) /\ \A line \in T : IsTyped(line)
    /\ phase \in {"script", "saved", "loaded", "again", "elsewhere", "error", "crash"}

(* The programs one after the other: pack of a user's script, unpack, and  *)
(* pack of what that wrote.                                                *)
UserScript == phase = "script" /\ boot_bin = <<>>

Programs ==
    /\ boot_bin = <<>> => script = <<>>
    /\ UserScript => IsSize(sector_size, sector_count) /\ (d # NoDisk => IsSize(d.size, d.count))
    /\ phase = "saved" => IsImage(image) /\ boot_bin = <<>>
    /\ phase = "loaded" =>
        d # NoDisk /\ DOMAIN cache = {} /\ fs = NoFs /\ boot_bin = <<>> /\ taken = <<>>

(* What the disk has of what the user's script has said so far.            *)
Zeros(size) == [s \in 1 .. DIR_SECTOR |-> [p \in 1 .. SectorSize(size, s) |-> 0]]
NoFile == \A k \in DOMAIN taken : taken[k].command # "FILE"
OnlyPast ==
    \A k \in DOMAIN taken :
        taken[k].command = "FORMAT" => WritesPast(Installed(taken[k].dos))

InTurn ==
    /\ d = NoDisk => \A size \in Nat : SaidBy(taken, size) = Zeros(size)
    /\ fs = NoFs => \A k \in DOMAIN taken : taken[k].command \notin {"FORMAT", "FILE"}
    /\ fs # NoFs => fs.name = FormatOf(taken)
    /\ OnlyPast => VTOC_SECTOR \notin DOMAIN cache /\ DIR_SECTOR \notin DOMAIN cache
    /\ d # NoDisk => \A s \in BootSectors : Through(s) = SaidBy(taken, d.size)[s]

TablesInTurn ==
    d # NoDisk /\ FormatsInOrder =>
        /\ \A s \in {VTOC_SECTOR, DIR_SECTOR} : Through(s) = SaidBy(taken, d.size)[s]
        /\ fs.name = "2.5" => d.data[VTOC_SECTOR] = fs.vtoc_buf
        /\ NoFile => Through(DIR_SECTOR) = Zeros(d.size)[DIR_SECTOR]

ScriptIInv ==
    /\ ScriptTypes /\ Programs
    /\ UserScript => InTurn /\ TablesInTurn
    /\ BootKept /\ TablesKept
-----------------------------------------------------------------------------
LEMMA ScriptNumbers ==
    /\ VTOC_SECTOR \in Nat /\ DIR_SECTOR \in Nat /\ 3 < VTOC_SECTOR /\ VTOC_SECTOR < DIR_SECTOR
    /\ 1 \in BootSectors /\ \A s \in BootSectors : s \in Nat /\ 1 <= s /\ s <= 3
    /\ BOOT \in Nat /\ BOOT >= 9
BY ScriptAssumption, ImageAssumption DEF VTOC_SECTOR, DIR_SECTOR, BootSectors, X3D

LEMMA SectorSet ==
    ASSUME NEW n \in Nat, NEW x, IsSector(x, n), NEW p \in 1 .. n, NEW v \in Nat
    PROVE  IsSector([x EXCEPT ![p] = v], n)
BY DEF IsSector

LEMMA SectorFill ==
    ASSUME NEW n \in Nat, NEW f, f = [p \in 1 .. n |-> f[p]], \A p \in 1 .. n : f[p] \in Nat
    PROVE  IsSector(f, n)
<1>1. f \in [1 .. n -> Nat]
  BY Zenon
<1>2. QED
  BY <1>1 DEF IsSector

LEMMA SectorBytes ==
    ASSUME NEW n \in Nat, NEW x, IsSector(x, n)
    PROVE  /\ x = [p \in 1 .. n |-> x[p]] /\ \A p \in 1 .. n : x[p] \in Nat
           /\ DOMAIN x = 1 .. n
BY DEF IsSector

(* Disks.                                                                  *)
LEMMA DiskFacts ==
    ASSUME NEW dk, IsDisk(dk)
    PROVE  /\ dk.size \in Nat /\ dk.size >= BOOT /\ dk.count \in Nat /\ dk.count >= DIR_SECTOR
           /\ DOMAIN dk.data = 1 .. dk.count
           /\ \A s \in 1 .. dk.count : IsSector(dk.data[s], SectorSize(dk.size, s))
           /\ \A s \in 1 .. dk.count : SectorSize(dk.size, s) \in Nat
           /\ dk # NoDisk
<1>1. /\ dk.size \in Nat /\ dk.size >= BOOT /\ dk.count \in Nat /\ dk.count >= DIR_SECTOR
      /\ DOMAIN dk.data = 1 .. dk.count
  BY DEF IsDisk
<1>2. \A s \in 1 .. dk.count : IsSector(dk.data[s], SectorSize(dk.size, s))
  BY DEF IsDisk, IsSector
<1>3. \A s \in 1 .. dk.count : SectorSize(dk.size, s) \in Nat
  BY <1>1, ScriptNumbers DEF SectorSize
<1>4. dk # NoDisk
  BY <1>1, ScriptNumbers DEF NoDisk
<1>5. QED
  BY <1>1, <1>2, <1>3, <1>4

LEMMA DiskMade ==
    ASSUME NEW size \in Nat, size >= BOOT, NEW count \in Nat, count >= DIR_SECTOR,
           NEW parts, parts = [s \in 1 .. count |-> parts[s]],
           \A s \in 1 .. count : IsSector(parts[s], SectorSize(size, s))
    PROVE  IsDisk([size |-> size, count |-> count, data |-> parts])
<1> DEFINE dk == [size |-> size, count |-> count, data |-> parts]
<1>1. dk.size = size /\ dk.count = count /\ dk.data = parts
  OBVIOUS
<1>2. parts \in [1 .. count -> Seq(Nat)] /\ \A s \in 1 .. count : Len(parts[s]) = SectorSize(size, s)
  BY DEF IsSector
<1>3. dk = [size |-> dk.size, count |-> dk.count, data |-> dk.data]
  OBVIOUS
<1> HIDE DEF dk
<1>4. IsDisk(dk)
  BY <1>1, <1>2, <1>3 DEF IsDisk
<1>5. QED
  BY <1>4 DEF dk

LEMMA NewDiskFacts ==
    ASSUME NEW size \in Nat, size >= BOOT, NEW count \in Nat, count >= DIR_SECTOR
    PROVE  /\ IsDisk(NewDisk(size, count))
           /\ NewDisk(size, count).size = size /\ NewDisk(size, count).count = count
           /\ \A s \in 1 .. count :
                NewDisk(size, count).data[s] = [p \in 1 .. SectorSize(size, s) |-> 0]
<1> DEFINE parts == [s \in 1 .. count |-> [p \in 1 .. SectorSize(size, s) |-> 0]]
<1>1. ASSUME NEW s \in 1 .. count PROVE IsSector(parts[s], SectorSize(size, s))
  <2>1. SectorSize(size, s) \in Nat
    BY ScriptNumbers DEF SectorSize
  <2> DEFINE n == SectorSize(size, s)
             f == [p \in 1 .. n |-> 0]
  <2>2. parts[s] = f
    OBVIOUS
  <2> HIDE DEF n
  <2>3. f = [p \in 1 .. n |-> f[p]] /\ \A p \in 1 .. n : f[p] \in Nat
    OBVIOUS
  <2> HIDE DEF f
  <2>4. IsSector(f, n)
    BY <2>1, <2>3, SectorFill DEF n
  <2>5. QED
    BY <2>2, <2>4 DEF n
<1>2. NewDisk(size, count) = [size |-> size, count |-> count, data |-> parts]
  BY DEF NewDisk
<1>3. parts = [s \in 1 .. count |-> parts[s]]
  OBVIOUS
<1>4. \A s \in 1 .. count : parts[s] = [p \in 1 .. SectorSize(size, s) |-> 0]
  OBVIOUS
<1> HIDE DEF parts
<1>5. IsDisk([size |-> size, count |-> count, data |-> parts])
  BY <1>1, <1>3, DiskMade
<1>6. QED
  BY <1>2, <1>4, <1>5

(* The disk as commands see it.                                            *)
LEMMA DiskSeen ==
    ASSUME ScriptTypes
    PROVE  /\ IsDisk(Disk) /\ CacheFits(cache, Disk)
           /\ d # NoDisk => Disk = d
           /\ d = NoDisk => Disk.size = sector_size /\ Disk.count = sector_count /\ DOMAIN cache = {}
<1>1. CASE d = NoDisk
  <2>1. Disk = NewDisk(sector_size, sector_count)
    BY <1>1 DEF Disk
  <2>2. /\ sector_size \in Nat /\ sector_size >= BOOT
        /\ sector_count \in Nat /\ sector_count >= DIR_SECTOR /\ CacheFits(cache, d)
    BY DEF ScriptTypes, DiskTypes
  <2>3. IsDisk(Disk) /\ Disk.size = sector_size /\ Disk.count = sector_count
    BY <2>1, <2>2, NewDiskFacts
  <2>4. DOMAIN cache \subseteq 1 .. d.count /\ cache = [s \in DOMAIN cache |-> cache[s]]
    BY <2>2 DEF CacheFits
  <2>5. DOMAIN cache = {}
    BY <1>1, <2>4 DEF NoDisk
  <2>6. CacheFits(cache, Disk)
    BY <2>4, <2>5 DEF CacheFits
  <2>7. QED
    BY <1>1, <2>3, <2>5, <2>6
<1>2. CASE d # NoDisk
  BY <1>2 DEF Disk, ScriptTypes, DiskTypes
<1>3. QED
  BY <1>1, <1>2

LEMMA ThroughTypes ==
    ASSUME ScriptTypes, NEW s \in 1 .. Disk.count
    PROVE  IsSector(Through(s), SectorSize(Disk.size, s)) /\ SectorSize(Disk.size, s) \in Nat
<1>1. IsDisk(Disk) /\ CacheFits(cache, Disk)
  BY DiskSeen
<1>2. IsSector(Disk.data[s], SectorSize(Disk.size, s)) /\ SectorSize(Disk.size, s) \in Nat
  BY <1>1, DiskFacts
<1>3. QED
  BY <1>1, <1>2 DEF CacheFits, Through

LEMMA BootThrough ==
    ASSUME ScriptTypes
    PROVE  /\ \A s \in BootSectors : s \in 1 .. Disk.count /\ IsSector(Through(s), BOOT)
           /\ 1 \in 1 .. Disk.count
           /\ VTOC_SECTOR \in 1 .. Disk.count /\ DIR_SECTOR \in 1 .. Disk.count
           /\ SectorSize(Disk.size, VTOC_SECTOR) = Disk.size
           /\ SectorSize(Disk.size, DIR_SECTOR) = Disk.size
           /\ \A s \in BootSectors : SectorSize(Disk.size, s) = BOOT
<1>1. Disk.count \in Nat /\ Disk.count >= DIR_SECTOR
  BY DiskSeen, DiskFacts
<1>2. \A s \in BootSectors : s \in 1 .. Disk.count /\ SectorSize(Disk.size, s) = BOOT
  BY <1>1, ScriptNumbers DEF SectorSize
<1>3. /\ VTOC_SECTOR \in 1 .. Disk.count /\ DIR_SECTOR \in 1 .. Disk.count
      /\ SectorSize(Disk.size, VTOC_SECTOR) = Disk.size
      /\ SectorSize(Disk.size, DIR_SECTOR) = Disk.size
  BY <1>1, ScriptNumbers DEF SectorSize
<1>4. \A s \in BootSectors : IsSector(Through(s), BOOT)
  BY <1>2, ThroughTypes
<1>5. QED
  BY <1>2, <1>3, <1>4, ScriptNumbers

(* The cache after a write.                                                *)
LEMMA IntoCacheFacts ==
    ASSUME NEW news, NEW dk, CacheFits(cache, dk), CacheFits(news, dk)
    PROVE  /\ CacheFits(IntoCache(news), dk)
           /\ DOMAIN IntoCache(news) = DOMAIN cache \cup DOMAIN news
           /\ \A s \in DOMAIN news : IntoCache(news)[s] = news[s]
           /\ \A s \in DOMAIN cache \ DOMAIN news : IntoCache(news)[s] = cache[s]
<1>1. /\ DOMAIN IntoCache(news) = DOMAIN cache \cup DOMAIN news
      /\ \A s \in DOMAIN news : IntoCache(news)[s] = news[s]
      /\ \A s \in DOMAIN cache \ DOMAIN news : IntoCache(news)[s] = cache[s]
      /\ IntoCache(news) = [s \in DOMAIN IntoCache(news) |-> IntoCache(news)[s]]
  BY DEF IntoCache
<1> DEFINE new == IntoCache(news)
<1>2. DOMAIN new \subseteq 1 .. dk.count
  BY <1>1 DEF CacheFits
<1>3. ASSUME NEW s \in DOMAIN new PROVE IsSector(new[s], SectorSize(dk.size, s))
  BY <1>1, <1>3 DEF CacheFits
<1>4. QED
  BY <1>1, <1>2, <1>3 DEF CacheFits

LEMMA OneFits ==
    ASSUME NEW S, NEW dk, S \subseteq 1 .. dk.count, NEW f, f = [s \in S |-> f[s]],
           \A s \in S : IsSector(f[s], SectorSize(dk.size, s))
    PROVE  CacheFits(f, dk)
<1>1. DOMAIN f = S
  OBVIOUS
<1>2. QED
  BY <1>1 DEF CacheFits

LEMMA FitsSame ==
    ASSUME NEW c, NEW dk, NEW other, CacheFits(c, dk), other.size = dk.size,
           other.count = dk.count
    PROVE  CacheFits(c, other)
BY DEF CacheFits

(* A file system has a disk.                                               *)
LEMMA FsDisk ==
    ASSUME ScriptTypes, fs # NoFs
    PROVE  d # NoDisk /\ Disk = d /\ IsDisk(d) /\ fs.name \in Systems
<1>1. d # NoDisk /\ fs.name \in Systems
  BY DEF ScriptTypes, DiskTypes, FsTypes
<1>2. QED
  BY <1>1, DiskSeen

(* What each line of a script leaves of the types.                         *)
SizesTyped ==
    /\ sector_size \in Nat /\ sector_size >= BOOT
    /\ sector_count \in Nat /\ sector_count >= DIR_SECTOR
DiskGrown == d' # NoDisk => d'.size = Disk.size /\ d'.count = Disk.count
LineKeeps == SizesTyped' /\ DiskTypes' /\ DiskGrown

LEMMA StopsKeeps ==
    ASSUME ScriptTypes, NEW how, Stops(how) PROVE LineKeeps
<1>1. UNCHANGED <<sector_size, sector_count, d, cache, fs>>
  BY DEF Stops
<1>2. SizesTyped' /\ DiskTypes'
  BY <1>1 DEF ScriptTypes, SizesTyped, DiskTypes, CacheFits, FsTypes
<1>3. DiskGrown
  BY <1>1, DiskSeen DEF DiskGrown
<1>4. QED
  BY <1>2, <1>3 DEF LineKeeps

LEMMA DiskLineKeeps ==
    ASSUME ScriptTypes, NEW line, IsTyped(line), DiskLine(line) PROVE LineKeeps
<1>1. UNCHANGED <<d, cache, fs>> /\ sector_size' = line.size /\ sector_count' = line.count
      /\ line.command = "DISK"
  BY DEF DiskLine
<1>2. /\ line.size \in Nat /\ line.size >= BOOT
      /\ line.count \in Nat /\ line.count >= DIR_SECTOR
  BY <1>1 DEF IsTyped
<1>3. SizesTyped'
  BY <1>1, <1>2 DEF SizesTyped
<1>4. DiskTypes'
  BY <1>1 DEF ScriptTypes, DiskTypes, CacheFits, FsTypes
<1>5. DiskGrown
  BY <1>1, DiskSeen DEF DiskGrown
<1>6. QED
  BY <1>3, <1>4, <1>5 DEF LineKeeps

(* The same if the disk is now one of the size seen before.                *)
LEMMA DiskKeeps ==
    ASSUME ScriptTypes, UNCHANGED <<sector_size, sector_count>>, IsDisk(d'),
           d'.size = Disk.size, d'.count = Disk.count, CacheFits(cache', Disk), FsTypes'
    PROVE  LineKeeps
<1>1. CacheFits(cache', d')
  BY FitsSame
<1>2. DiskTypes'
  BY <1>1 DEF DiskTypes
<1>3. SizesTyped'
  BY DEF SizesTyped, ScriptTypes
<1>4. QED
  BY <1>2, <1>3 DEF LineKeeps, DiskGrown

LEMMA TableTypes ==
    ASSUME NEW dos, dos \in Systems, NEW size \in Nat
    PROVE  IsSector(FormattedTable(dos, size), size)
<1> DEFINE f == FormattedTable(dos, size)
<1>1. f = [p \in 1 .. size |-> f[p]]
  BY DEF FormattedTable
<1>2. Version(dos, size) \in Nat
  BY DEF Version
<1>3. Code(dos) \in Nat
  BY DEF Code, Systems
<1>4. ASSUME NEW p \in 1 .. size PROVE f[p] \in Nat
  BY <1>2, <1>3 DEF FormattedTable
<1> HIDE DEF f
<1>5. IsSector(f, size)
  BY <1>1, <1>4, SectorFill
<1>6. QED
  BY <1>5 DEF f

LEMMA ZeroTypes == \A size \in Nat : IsSector([p \in 1 .. size |-> 0], size)
<1>1. ASSUME NEW size \in Nat PROVE IsSector([p \in 1 .. size |-> 0], size)
  <2> DEFINE f == [p \in 1 .. size |-> 0]
  <2>1. f = [p \in 1 .. size |-> f[p]] /\ \A p \in 1 .. size : f[p] \in Nat
    OBVIOUS
  <2> HIDE DEF f
  <2>2. IsSector(f, size)
    BY <2>1, SectorFill
  <2>3. QED
    BY <2>2 DEF f
<1>2. QED
  BY <1>1

LEMMA FormatThroughKeeps ==
    ASSUME ScriptTypes, NEW line, FormatThrough(line) PROVE LineKeeps
<1> DEFINE news == [s \in {VTOC_SECTOR, DIR_SECTOR} |->
              IF s = VTOC_SECTOR THEN FormattedTable(line.dos, Disk.size) ELSE Inited(s)]
<1>1. /\ d' = Disk /\ cache' = IntoCache(news)
      /\ fs' = [name |-> line.dos, vtoc_buf |-> <<>>]
      /\ UNCHANGED <<sector_size, sector_count>>
      /\ line.dos \in Formats /\ ~WritesPast(Installed(line.dos))
  BY DEF FormatThrough
<1>2. line.dos \in Systems /\ line.dos # "2.5"
  BY <1>1 DEF Formats, Systems, WritesPast, Installed
<1>3. IsDisk(Disk) /\ CacheFits(cache, Disk)
  BY DiskSeen
<1>4. Disk.size \in Nat
  BY <1>3, DiskFacts
<1>5. IsSector(FormattedTable(line.dos, Disk.size), Disk.size)
  BY <1>2, <1>4, TableTypes
<1>6. IsSector(Inited(DIR_SECTOR), Disk.size)
  <2>1. SectorSize(Disk.size, DIR_SECTOR) = Disk.size
    BY BootThrough
  <2>2. QED
    BY <1>3, <1>4, <2>1, ZeroTypes DEF Inited, CacheFits
<1>7. CacheFits(news, Disk)
  <2>1. \A s \in {VTOC_SECTOR, DIR_SECTOR} : IsSector(news[s], SectorSize(Disk.size, s))
    BY <1>5, <1>6, BootThrough, ScriptNumbers
  <2>2. {VTOC_SECTOR, DIR_SECTOR} \subseteq 1 .. Disk.count
    BY BootThrough
  <2>3. news = [s \in {VTOC_SECTOR, DIR_SECTOR} |-> news[s]]
    OBVIOUS
  <2> HIDE DEF news
  <2>4. QED
    BY <2>1, <2>2, <2>3, OneFits
<1> HIDE DEF news
<1>8. CacheFits(cache', Disk)
  BY <1>1, <1>3, <1>7, IntoCacheFacts
<1>9. FsTypes'
  <2>1. d' # NoDisk
    BY <1>1, <1>3, DiskFacts
  <2>2. fs'.name = line.dos /\ fs' = [name |-> fs'.name, vtoc_buf |-> fs'.vtoc_buf]
    BY <1>1
  <2>3. QED
    BY <1>2, <2>1, <2>2 DEF FsTypes
<1>10. QED
  BY <1>1, <1>3, <1>8, <1>9, DiskKeeps

(* Sectors written past the cache.                                         *)
PastWritten(dk, v, w) == [dk EXCEPT !.data[VTOC_SECTOR] = v, !.data[DIR_SECTOR] = w]

LEMMA PastFacts ==
    ASSUME NEW dk, IsDisk(dk), NEW v, IsSector(v, dk.size), NEW w, IsSector(w, dk.size),
           NEW new, new = PastWritten(dk, v, w)
    PROVE  /\ IsDisk(new) /\ new.size = dk.size /\ new.count = dk.count
           /\ new.data[VTOC_SECTOR] = v /\ new.data[DIR_SECTOR] = w
           /\ \A s \in 1 .. dk.count : s # VTOC_SECTOR /\ s # DIR_SECTOR =>
                new.data[s] = dk.data[s]
<1> DEFINE parts == [dk.data EXCEPT ![VTOC_SECTOR] = v, ![DIR_SECTOR] = w]
<1>1. /\ dk.size \in Nat /\ dk.size >= BOOT /\ dk.count \in Nat /\ dk.count >= DIR_SECTOR
      /\ DOMAIN dk.data = 1 .. dk.count
      /\ \A s \in 1 .. dk.count : IsSector(dk.data[s], SectorSize(dk.size, s))
  BY DiskFacts
<1>2. dk = [size |-> dk.size, count |-> dk.count, data |-> dk.data]
  BY DEF IsDisk
<1>3. new = [size |-> dk.size, count |-> dk.count, data |-> parts]
  BY <1>2 DEF PastWritten
<1>4. VTOC_SECTOR \in 1 .. dk.count /\ DIR_SECTOR \in 1 .. dk.count /\ VTOC_SECTOR # DIR_SECTOR
      /\ SectorSize(dk.size, VTOC_SECTOR) = dk.size /\ SectorSize(dk.size, DIR_SECTOR) = dk.size
  BY <1>1, ScriptNumbers DEF SectorSize
<1>5. /\ parts = [s \in 1 .. dk.count |-> parts[s]]
      /\ parts[VTOC_SECTOR] = v /\ parts[DIR_SECTOR] = w
      /\ \A s \in 1 .. dk.count : s # VTOC_SECTOR /\ s # DIR_SECTOR => parts[s] = dk.data[s]
  BY <1>1, <1>4
<1> HIDE DEF parts
<1>6. \A s \in 1 .. dk.count : IsSector(parts[s], SectorSize(dk.size, s))
  BY <1>1, <1>4, <1>5
<1>7. IsDisk([size |-> dk.size, count |-> dk.count, data |-> parts])
  BY <1>1, <1>5, <1>6, DiskMade
<1>8. QED
  BY <1>3, <1>5, <1>7

LEMMA FormatPastKeeps ==
    ASSUME ScriptTypes, NEW line, FormatPast(line) PROVE LineKeeps
<1> DEFINE table == FormattedTable("2.5", Disk.size)
           zeros == [p \in 1 .. Disk.size |-> 0]
<1>1. /\ d' = PastWritten(Disk, table, zeros)
      /\ fs' = [name |-> "2.5", vtoc_buf |-> table]
      /\ UNCHANGED <<sector_size, sector_count, cache>>
  BY DEF FormatPast, PastWritten
<1>2. IsDisk(Disk) /\ CacheFits(cache, Disk)
  BY DiskSeen
<1>3. Disk.size \in Nat
  BY <1>2, DiskFacts
<1>4. IsSector(table, Disk.size) /\ IsSector(zeros, Disk.size)
  BY <1>3, TableTypes, ZeroTypes DEF Systems
<1> HIDE DEF table, zeros
<1>5. IsDisk(d') /\ d'.size = Disk.size /\ d'.count = Disk.count
  BY <1>1, <1>2, <1>4, PastFacts
<1>6. CacheFits(cache', Disk)
  BY <1>1, <1>2
<1>7. FsTypes'
  <2>1. d' # NoDisk
    BY <1>5, DiskFacts
  <2>2. fs'.name = "2.5" /\ fs'.vtoc_buf = table /\ "2.5" \in Systems
        /\ fs' = [name |-> fs'.name, vtoc_buf |-> fs'.vtoc_buf]
    BY <1>1 DEF Systems
  <2>3. IsSector(fs'.vtoc_buf, d'.size)
    BY <1>4, <1>5, <2>2
  <2>4. QED
    BY <2>1, <2>2, <2>3 DEF FsTypes
<1>8. QED
  BY <1>1, <1>5, <1>6, <1>7, DiskKeeps

LEMMA BootReadTypes ==
    ASSUME ScriptTypes, NEW bytes \in Seq(Nat), NEW s \in BootSectors
    PROVE  IsSector(BootRead(bytes, s), BOOT)
<1> DEFINE f == BootRead(bytes, s)
           x == Through(s)
<1>1. BOOT \in Nat /\ IsSector(x, BOOT) /\ s \in Nat /\ 1 <= s
  BY ScriptNumbers, BootThrough
<1>2. f = [p \in 1 .. BOOT |->
            IF (s - 1) * BOOT + p <= Len(bytes) THEN bytes[(s - 1) * BOOT + p] ELSE x[p]]
  BY DEF BootRead
<1>3. \A p \in 1 .. BOOT : x[p] \in Nat
  BY <1>1, SectorBytes
<1> HIDE DEF f, x
<1>4. ASSUME NEW p \in 1 .. BOOT PROVE f[p] \in Nat
  <2> DEFINE q == (s - 1) * BOOT + p
  <2>1. (s - 1) * BOOT \in Nat
    BY <1>1
  <2>2. q \in Nat /\ q >= 1
    BY <2>1
  <2>3. f[p] = IF q <= Len(bytes) THEN bytes[q] ELSE x[p]
    BY <1>2
  <2> HIDE DEF q
  <2>4. QED
    BY <1>3, <2>2, <2>3
<1>5. f = [p \in 1 .. BOOT |-> f[p]]
  BY <1>2
<1>6. QED
  BY <1>1, <1>4, <1>5, SectorFill DEF f

BootNews(bytes) == [s \in BootSectors |-> BootRead(bytes, s)]

LEMMA BootNewsFits ==
    ASSUME ScriptTypes, NEW bytes \in Seq(Nat)
    PROVE  CacheFits(BootNews(bytes), Disk)
<1>1. \A s \in BootSectors : IsSector(BootNews(bytes)[s], SectorSize(Disk.size, s))
  BY BootThrough, BootReadTypes DEF BootNews
<1>2. BootSectors \subseteq 1 .. Disk.count
  BY BootThrough
<1>3. BootNews(bytes) = [s \in BootSectors |-> BootNews(bytes)[s]]
  BY DEF BootNews
<1>4. QED
  BY <1>1, <1>2, <1>3, OneFits

BootBytes(line) == IF line.file = "boot.bin" THEN boot_bin ELSE line.bytes

LEMMA BootLineFacts ==
    ASSUME NEW line, BootLine(line)
    PROVE  /\ d' = Disk /\ cache' = IntoCache(BootNews(BootBytes(line)))
           /\ UNCHANGED <<sector_size, sector_count, fs, phase>> /\ line.command = "BOOT"
BY DEF BootLine, InstalledBoot, BootNews, BootBytes

LEMMA BootLineKeeps ==
    ASSUME ScriptTypes, NEW line, IsTyped(line), BootLine(line) PROVE LineKeeps
<1>1. /\ d' = Disk /\ cache' = IntoCache(BootNews(BootBytes(line)))
      /\ UNCHANGED <<sector_size, sector_count, fs, phase>> /\ line.command = "BOOT"
  BY BootLineFacts
<1>2. BootBytes(line) \in Seq(Nat)
  BY <1>1 DEF IsTyped, ScriptTypes, BootBytes
<1>3. IsDisk(Disk) /\ CacheFits(cache, Disk)
  BY DiskSeen
<1>4. CacheFits(cache', Disk)
  BY <1>1, <1>2, <1>3, BootNewsFits, IntoCacheFacts
<1>5. FsTypes'
  <2>1. fs = NoFs \/ Disk = d
    BY FsDisk
  <2>2. d' # NoDisk
    BY <1>1, <1>3, DiskFacts
  <2>3. FsTypes
    BY DEF ScriptTypes, DiskTypes
  <2>4. QED
    BY <1>1, <2>1, <2>2, <2>3 DEF FsTypes
<1>6. QED
  BY <1>1, <1>3, <1>4, <1>5, DiskKeeps

(* Each property has a place in the boot sector.                           *)
LEMMA PropertyPlace ==
    ASSUME NEW dos \in Systems, NEW name \in DOMAIN Properties(dos)
    PROVE  Properties(dos)[name] \in 1 .. BOOT
<1>1. X09 \in 1 .. BOOT /\ X0A \in 1 .. BOOT /\ X0B \in 1 .. BOOT /\ X0E \in 1 .. BOOT
      /\ X10 \in 1 .. BOOT
  BY ScriptNumbers DEF X09, X0A, X0B, X0E, X10
<1>2. CASE dos = "2" \/ dos = "2.5"
  <2>1. Properties(dos) = [DRIVES |-> X0A, BUFFERS |-> X09]
    BY <1>2 DEF Properties, Dos2Properties, Dos25Properties
  <2>2. QED
    BY <1>1, <2>1
<1>3. CASE dos = "II+"
  <2>1. Properties(dos) = [BUFFERS |-> X09, RAMDISK |-> X0E]
    BY <1>3 DEF Properties, DosIIplusProperties
  <2>2. QED
    BY <1>1, <2>1
<1>4. CASE dos = "xdos"
  <2>1. Properties(dos) = [BUFFERS |-> X09, RAMDISK |-> X0B, COLOR |-> X10]
    BY <1>4 DEF Properties, XdosProperties
  <2>2. QED
    BY <1>1, <2>1
<1>5. CASE dos = "mydos"
  <2>1. Properties(dos) = [BUFFERS |-> X09, RAMDISK_UNIT |-> X0A, DEFAULT_UNIT |-> X0B]
    BY <1>5 DEF Properties, MydosProperties
  <2>2. QED
    BY <1>1, <2>1
<1>6. QED
  BY <1>2, <1>3, <1>4, <1>5 DEF Systems

LEMMA PropertyLineFacts ==
    ASSUME ScriptTypes, NEW line, PropertyLine(line)
    PROVE  /\ UNCHANGED <<sector_size, sector_count, d, fs, phase>> /\ line.command = "SET"
           /\ fs # NoFs /\ Properties(fs.name)[line.property] \in 1 .. BOOT
           /\ cache' = IntoCache([s \in {1} |->
                [Through(1) EXCEPT ![Properties(fs.name)[line.property]] = line.value]])
<1>1. /\ UNCHANGED <<sector_size, sector_count, d, fs, phase>> /\ line.command = "SET"
      /\ fs # NoFs /\ line.property \in DOMAIN Properties(fs.name)
      /\ cache' = IntoCache([s \in {1} |->
                [Through(1) EXCEPT ![Properties(fs.name)[line.property]] = line.value]])
  BY DEF PropertyLine, HasProperty
<1>2. fs.name \in Systems
  BY <1>1, FsDisk
<1>3. QED
  BY <1>1, <1>2, PropertyPlace

(* Writing sector 1 alone.                                                 *)
LEMMA FirstFits ==
    ASSUME ScriptTypes, NEW x, IsSector(x, BOOT)
    PROVE  CacheFits([s \in {1} |-> x], Disk)
<1> DEFINE f == [s \in {1} |-> x]
<1>1. 1 \in 1 .. Disk.count /\ SectorSize(Disk.size, 1) = BOOT
  BY BootThrough, ScriptNumbers
<1>2. f = [s \in {1} |-> f[s]] /\ f[1] = x
  OBVIOUS
<1> HIDE DEF f
<1>3. {1} \subseteq 1 .. Disk.count /\ \A s \in {1} : IsSector(f[s], SectorSize(Disk.size, s))
  BY <1>1, <1>2
<1>4. CacheFits(f, Disk)
  BY <1>2, <1>3, OneFits
<1>5. QED
  BY <1>4 DEF f

LEMMA PropertyLineKeeps ==
    ASSUME ScriptTypes, NEW line, IsTyped(line), PropertyLine(line) PROVE LineKeeps
<1> DEFINE x == [Through(1) EXCEPT ![Properties(fs.name)[line.property]] = line.value]
<1>1. /\ UNCHANGED <<sector_size, sector_count, d, fs>> /\ line.command = "SET"
      /\ fs # NoFs /\ Properties(fs.name)[line.property] \in 1 .. BOOT
      /\ cache' = IntoCache([s \in {1} |-> x])
  BY PropertyLineFacts
<1>2. line.value \in Nat
  BY <1>1 DEF IsTyped
<1>3. IsSector(x, BOOT)
  BY <1>1, <1>2, BootThrough, ScriptNumbers, SectorSet
<1> HIDE DEF x
<1>4. Disk = d /\ IsDisk(d) /\ CacheFits(cache, Disk)
  BY <1>1, FsDisk, DiskSeen
<1>5. CacheFits(cache', Disk)
  BY <1>1, <1>3, <1>4, FirstFits, IntoCacheFacts
<1>6. FsTypes'
  BY <1>1 DEF ScriptTypes, DiskTypes, FsTypes
<1>7. QED
  BY <1>1, <1>4, <1>5, <1>6, DiskKeeps

(* FILE.                                                                   *)
LEMMA WithDosFileTypes ==
    ASSUME NEW x, IsSector(x, BOOT), NEW dos, NEW first \in Nat
    PROVE  IsSector(WithDosFile(x, dos, first), BOOT)
<1>1. /\ BOOT_FILE_LO \in 1 .. BOOT /\ BOOT_FILE_HI \in 1 .. BOOT
      /\ X_BOOT_FILE \in 1 .. BOOT /\ yBOOT_FILE \in 1 .. BOOT /\ BOOT \in Nat
  BY ScriptNumbers DEF BOOT_FILE_LO, BOOT_FILE_HI, X_BOOT_FILE, yBOOT_FILE, X0F, X10, X32, X3D
<1>2. IsSector([x EXCEPT ![X_BOOT_FILE] = first], BOOT)
  BY <1>1, SectorSet
<1>3. IsSector([x EXCEPT ![yBOOT_FILE] = first], BOOT)
  BY <1>1, SectorSet
<1>4. IsSector([x EXCEPT ![BOOT_FILE_LO] = first, ![BOOT_FILE_HI] = 0], BOOT)
  <2> DEFINE y == [x EXCEPT ![BOOT_FILE_LO] = first]
  <2>1. IsSector(y, BOOT)
    BY <1>1, SectorSet
  <2>2. IsSector([y EXCEPT ![BOOT_FILE_HI] = 0], BOOT)
    <3> HIDE DEF y
    <3>1. QED
      BY <1>1, <2>1, SectorSet
  <2>3. [x EXCEPT ![BOOT_FILE_LO] = first, ![BOOT_FILE_HI] = 0] = [y EXCEPT ![BOOT_FILE_HI] = 0]
    OBVIOUS
  <2>4. QED
    BY <2>2, <2>3
<1>5. QED
  BY <1>2, <1>3, <1>4 DEF WithDosFile

LEMMA DosFileFits ==
    ASSUME ScriptTypes, NEW line, line.dos \in BOOLEAN, line.first \in Nat
    PROVE  /\ CacheFits(DosFile(line), Disk)
           /\ DOMAIN DosFile(line) \subseteq {1}
<1>1. CASE line.dos
  <2> DEFINE x == WithDosFile(Through(1), fs.name, line.first)
  <2>1. IsSector(x, BOOT)
    BY BootThrough, ScriptNumbers, WithDosFileTypes
  <2>2. DosFile(line) = [s \in {1} |-> x]
    BY <1>1 DEF DosFile
  <2> HIDE DEF x
  <2>3. QED
    BY <2>1, <2>2, FirstFits
<1>2. CASE ~line.dos
  <2>1. DosFile(line) = [s \in {} |-> <<>>]
    BY <1>2 DEF DosFile
  <2>2. QED
    BY <2>1 DEF CacheFits
<1>3. QED
  BY <1>1, <1>2

LEMMA OneMoreTypes ==
    ASSUME NEW n \in Nat, NEW x, IsSector(x, n), NEW p \in 1 .. n
    PROVE  IsSector(OneMore(x, p), n)
<1>1. x[p] + 1 \in Nat
  BY SectorBytes
<1>2. OneMore(x, p) = [x EXCEPT ![p] = x[p] + 1]
  BY DEF OneMore
<1> DEFINE v == x[p] + 1
<1>3. v \in Nat /\ OneMore(x, p) = [x EXCEPT ![p] = v]
  BY <1>1, <1>2
<1> HIDE DEF v
<1>4. IsSector([x EXCEPT ![p] = v], n)
  BY <1>3, SectorSet
<1>5. QED
  BY <1>3, <1>4

LEMMA FileThroughKeeps ==
    ASSUME ScriptTypes, NEW line, IsTyped(line), FileThrough(line) PROVE LineKeeps
<1> DEFINE c == IntoCache(DosFile(line))
           S == {VTOC_SECTOR, DIR_SECTOR}
           news == [s \in S |-> IF s = VTOC_SECTOR THEN OneMore(Through(s), 3)
                                ELSE OneMore(Through(s), 1)]
<1>1. /\ UNCHANGED <<sector_size, sector_count, d, fs>> /\ line.command = "FILE"
      /\ fs # NoFs
      /\ cache' = [s \in DOMAIN c \cup S |->
                    CASE s = VTOC_SECTOR -> OneMore(Through(s), 3)
                      [] s = DIR_SECTOR -> OneMore(Through(s), 1)
                      [] OTHER -> c[s]]
  BY DEF FileThrough
<1>2. Disk = d /\ IsDisk(d) /\ CacheFits(cache, Disk)
  BY <1>1, FsDisk, DiskSeen
<1>3. CacheFits(c, Disk)
  <2>1. line.dos \in BOOLEAN /\ line.first \in Nat
    BY <1>1 DEF IsTyped
  <2>2. CacheFits(DosFile(line), Disk)
    BY <2>1, DosFileFits
  <2>3. QED
    BY <1>2, <2>2, IntoCacheFacts
<1> HIDE DEF c
<1>4. Disk.size \in Nat /\ Disk.size >= 9
  BY <1>2, DiskFacts, ScriptNumbers
<1>5. 3 \in 1 .. Disk.size /\ 1 \in 1 .. Disk.size
  BY <1>4
<1>6. IsSector(Through(VTOC_SECTOR), Disk.size) /\ IsSector(Through(DIR_SECTOR), Disk.size)
  BY BootThrough, ThroughTypes
<1>7. /\ IsSector(OneMore(Through(VTOC_SECTOR), 3), Disk.size)
      /\ IsSector(OneMore(Through(DIR_SECTOR), 1), Disk.size)
  BY <1>4, <1>5, <1>6, OneMoreTypes
<1>8. CacheFits(cache', Disk)
  <2>1. cache' = [s \in DOMAIN c \cup S |-> cache'[s]]
    BY <1>1
  <2>2. DOMAIN c \cup S \subseteq 1 .. Disk.count
    BY <1>3, BootThrough DEF CacheFits
  <2>3. ASSUME NEW s \in DOMAIN c \cup S PROVE IsSector(cache'[s], SectorSize(Disk.size, s))
    <3>1. CASE s \in S
      BY <1>1, <1>7, <3>1, BootThrough, ScriptNumbers
    <3>2. CASE s \notin S
      <4>1. s \in DOMAIN c /\ cache'[s] = c[s]
        BY <1>1, <3>2
      <4>2. QED
        BY <1>3, <4>1 DEF CacheFits
    <3>3. QED
      BY <3>1, <3>2
  <2>4. QED
    BY <2>1, <2>2, <2>3, OneFits
<1>9. FsTypes'
  BY <1>1 DEF ScriptTypes, DiskTypes, FsTypes
<1>10. QED
  BY <1>1, <1>2, <1>8, <1>9, DiskKeeps

LEMMA FilePastFacts ==
    ASSUME ScriptTypes, NEW line, FilePast(line)
    PROVE  /\ UNCHANGED <<sector_size, sector_count, phase>> /\ line.command = "FILE"
           /\ fs # NoFs /\ fs.name = "2.5" /\ fs'.name = "2.5"
           /\ fs' = [name |-> fs'.name, vtoc_buf |-> fs'.vtoc_buf]
           /\ fs'.vtoc_buf = OneMore(fs.vtoc_buf, 3)
           /\ d' = PastWritten(d, fs'.vtoc_buf, OneMore(d.data[DIR_SECTOR], 1))
           /\ cache' = IntoCache(DosFile(line))
<1>1. /\ UNCHANGED <<sector_size, sector_count, phase>> /\ line.command = "FILE"
      /\ fs # NoFs /\ fs.name = "2.5"
      /\ fs' = [fs EXCEPT !.vtoc_buf = OneMore(fs.vtoc_buf, 3)]
      /\ d' = PastWritten(d, fs'.vtoc_buf, OneMore(d.data[DIR_SECTOR], 1))
      /\ cache' = IntoCache(DosFile(line))
  BY DEF FilePast, WritesPast, PastWritten
<1>2. fs = [name |-> fs.name, vtoc_buf |-> fs.vtoc_buf]
  BY <1>1 DEF ScriptTypes, DiskTypes, FsTypes
<1>3. fs'.name = "2.5" /\ fs'.vtoc_buf = OneMore(fs.vtoc_buf, 3)
      /\ fs' = [name |-> fs'.name, vtoc_buf |-> fs'.vtoc_buf]
  BY <1>1, <1>2
<1>4. QED
  BY <1>1, <1>3

LEMMA FilePastKeeps ==
    ASSUME ScriptTypes, NEW line, IsTyped(line), FilePast(line) PROVE LineKeeps
<1>1. /\ UNCHANGED <<sector_size, sector_count, phase>> /\ line.command = "FILE"
      /\ fs # NoFs /\ fs.name = "2.5" /\ fs'.name = "2.5"
      /\ fs' = [name |-> fs'.name, vtoc_buf |-> fs'.vtoc_buf]
      /\ fs'.vtoc_buf = OneMore(fs.vtoc_buf, 3)
      /\ d' = PastWritten(d, fs'.vtoc_buf, OneMore(d.data[DIR_SECTOR], 1))
      /\ cache' = IntoCache(DosFile(line))
  BY FilePastFacts
<1>2. Disk = d /\ IsDisk(d) /\ CacheFits(cache, Disk)
  BY <1>1, FsDisk, DiskSeen
<1>3. IsSector(fs.vtoc_buf, d.size)
  BY <1>1 DEF ScriptTypes, DiskTypes, FsTypes
<1>4. d.size \in Nat /\ d.size >= 9
  BY <1>2, DiskFacts, ScriptNumbers
<1>5. 3 \in 1 .. d.size /\ 1 \in 1 .. d.size
  BY <1>4
<1>6. IsSector(d.data[DIR_SECTOR], d.size)
  BY <1>2, BootThrough, DiskFacts
<1>7. IsSector(fs'.vtoc_buf, d.size) /\ IsSector(OneMore(d.data[DIR_SECTOR], 1), d.size)
  BY <1>1, <1>3, <1>4, <1>5, <1>6, OneMoreTypes
<1>8. IsDisk(d') /\ d'.size = d.size /\ d'.count = d.count
  BY <1>1, <1>2, <1>7, PastFacts
<1>9. CacheFits(cache', Disk)
  <2>1. line.dos \in BOOLEAN /\ line.first \in Nat
    BY <1>1 DEF IsTyped
  <2>2. CacheFits(DosFile(line), Disk)
    BY <2>1, DosFileFits
  <2>3. CacheFits(IntoCache(DosFile(line)), Disk)
    BY <1>2, <2>2, IntoCacheFacts
  <2>4. QED
    BY <1>1, <2>3
<1>10. FsTypes'
  <2>1. d' # NoDisk
    BY <1>8, DiskFacts
  <2>2. fs'.name \in Systems /\ IsSector(fs'.vtoc_buf, d'.size)
    BY <1>1, <1>7, <1>8 DEF Systems
  <2>3. QED
    BY <1>1, <2>1, <2>2 DEF FsTypes
<1>11. QED
  BY <1>1, <1>2, <1>8, <1>9, <1>10, DiskKeeps

LEMMA RunKeeps ==
    ASSUME ScriptTypes, NEW line, IsTyped(line), Run(line)
    PROVE  /\ LineKeeps /\ UNCHANGED <<boot_bin, image, origin, cut>>
           /\ phase' \in {phase, "elsewhere", "error", "crash"}
<1>1. CASE DiskLine(line)
  BY <1>1, DiskLineKeeps DEF DiskLine, Kept
<1>2. CASE FormatThrough(line)
  BY <1>2, FormatThroughKeeps DEF FormatThrough, Kept
<1>3. CASE FormatPast(line)
  BY <1>3, FormatPastKeeps DEF FormatPast, Kept
<1>4. CASE FormatNotHere(line)
  BY <1>4, StopsKeeps DEF FormatNotHere, Stops, Kept
<1>5. CASE UnknownFormat(line)
  BY <1>5, StopsKeeps DEF UnknownFormat, Stops, Kept
<1>6. CASE BootLine(line)
  BY <1>6, BootLineKeeps DEF BootLine, Kept
<1>7. CASE PropertyLine(line)
  BY <1>7, PropertyLineKeeps DEF PropertyLine, Kept
<1>8. CASE NoSuchProperty(line)
  BY <1>8, StopsKeeps DEF NoSuchProperty, Stops, Kept
<1>9. CASE NoDir(line)
  BY <1>9, StopsKeeps DEF NoDir, Stops, Kept
<1>10. CASE FileThrough(line)
  BY <1>10, FileThroughKeeps DEF FileThrough, Kept
<1>11. CASE FilePast(line)
  BY <1>11, FilePastKeeps DEF FilePast, Kept
<1>12. QED
  BY <1>1, <1>2, <1>3, <1>4, <1>5, <1>6, <1>7, <1>8, <1>9, <1>10, <1>11 DEF Run

-----------------------------------------------------------------------------
(* Images.  The buffer of load, sector after sector.                       *)
ReadInto(i, n, held) ==
    [p \in 1 .. i.size |->
        IF p <= ReadSize(i, n) /\ Start(i, n) + p <= Len(i.bytes)
        THEN i.bytes[Start(i, n) + p] ELSE held[p]]

LEMMA StartTypes ==
    ASSUME NEW i, IsImage(i), NEW n \in Nat, n >= 1
    PROVE  /\ Start(i, n) \in Nat /\ ReadSize(i, n) \in Nat /\ BootSize(i) \in Nat
           /\ i.size \in Nat /\ i.size >= BOOT
<1>1. i.size \in Nat /\ BOOT \in Nat /\ i.size >= BOOT
  BY ScriptNumbers DEF IsImage
<1>2. BootSize(i) \in Nat
  BY <1>1 DEF BootSize
<1> DEFINE b == BootSize(i)
           z == i.size
<1>3. ReadSize(i, n) \in Nat
  BY <1>1, <1>2 DEF ReadSize
<1>4. Start(i, n) \in Nat
  <2>1. Start(i, n) = IF n <= 3 THEN (n - 1) * b ELSE 3 * b + (n - 4) * z
    BY DEF Start
  <2>2. b \in Nat /\ z \in Nat
    BY <1>1, <1>2
  <2> HIDE DEF b, z
  <2>3. (n - 1) * b \in Nat
    BY <2>2
  <2>4. n > 3 => (n - 4) * z \in Nat
    BY <2>2
  <2>5. QED
    BY <2>1, <2>2, <2>3, <2>4
<1>5. QED
  BY <1>1, <1>2, <1>3, <1>4

LEMMA ReadIntoTypes ==
    ASSUME NEW i, IsImage(i), NEW n \in Nat, n >= 1, NEW held \in [1 .. i.size -> Nat]
    PROVE  ReadInto(i, n, held) \in [1 .. i.size -> Nat]
<1>1. Start(i, n) \in Nat /\ i.bytes \in Seq(Nat) /\ i.size \in Nat
  BY StartTypes DEF IsImage
<1>2. ASSUME NEW p \in 1 .. i.size, Start(i, n) + p <= Len(i.bytes)
      PROVE  i.bytes[Start(i, n) + p] \in Nat
  <2> DEFINE q == Start(i, n) + p
  <2>1. q \in 1 .. Len(i.bytes)
    BY <1>1, <1>2
  <2> HIDE DEF q
  <2>2. i.bytes[q] \in Nat
    BY <1>1, <2>1
  <2>3. QED
    BY <2>2 DEF q
<1>3. QED
  BY <1>2 DEF ReadInto

LEMMA LoadedFacts ==
    ASSUME NEW i, IsImage(i)
    PROVE  \E g :
        /\ g \in [0 .. LoadedCount(i) -> [1 .. i.size -> Nat]]
        /\ \A n \in 1 .. LoadedCount(i) : g[n] = ReadInto(i, n, g[n - 1])
        /\ Loaded(i) = [size |-> i.size, count |-> LoadedCount(i),
                        data |-> [n \in 1 .. LoadedCount(i) |->
                                    SubSeq(g[n], 1, StoredSize(i.size, n))]]
<1> DEFINE m == LoadedCount(i)
           A == [1 .. i.size -> Nat]
           a == [p \in 1 .. i.size |-> 0]
           step == [x \in Nat \X A |-> IF x[1] = 0 THEN a ELSE ReadInto(i, x[1], x[2])]
           buffer == CHOOSE g : g = [n \in 0 .. m |->
                        IF n = 0 THEN a ELSE ReadInto(i, n, g[n - 1])]
<1>1. m \in Nat /\ i.size \in Nat
  <2>1. i.size \in Nat /\ i.paragraphs \in Nat /\ BOOT \in Nat /\ i.size >= 9 /\ PARAGRAPH \in Nat
    BY ScriptNumbers, ImageAssumption DEF IsImage
  <2>2. BootSize(i) \in Nat
    BY <2>1 DEF BootSize
  <2>3. m \in Int
    <3> DEFINE x == i.paragraphs * PARAGRAPH - 3 * BootSize(i)
               z == i.size
    <3>1. x \in Int /\ z \in Nat /\ z > 0
      BY <2>1, <2>2
    <3>2. m = 3 + x \div z
      BY DEF LoadedCount
    <3> HIDE DEF x, z, m
    <3>3. QED
      BY <3>1, <3>2
  <2>4. m >= DIR_SECTOR
    BY DEF IsImage
  <2> HIDE DEF m
  <2>5. QED
    BY <2>1, <2>3, <2>4, ScriptNumbers
<1>2. a \in A
  OBVIOUS
<1>3. step \in [Nat \X A -> A]
  <2>1. ASSUME NEW n \in Nat, NEW held \in A
        PROVE  (IF n = 0 THEN a ELSE ReadInto(i, n, held)) \in A
    <3>1. CASE n = 0
      BY <1>2, <3>1
    <3>2. CASE n # 0
      BY <3>2, ReadIntoTypes
    <3>3. QED
      BY <3>1, <3>2
  <2> HIDE DEF A, a
  <2>2. QED
    BY <2>1
<1>4. \A n \in Nat : \A held \in A : n # 0 => step[<<n, held>>] = ReadInto(i, n, held)
  <2> HIDE DEF A, a
  <2>1. QED
    OBVIOUS
<1> HIDE DEF m, a, step
<1>5. PICK g : IsRecursion(g, m, A, a, step)
  <2> HIDE DEF A
  <2>1. QED
    BY <1>1, <1>2, <1>3, NatRecursion
<1>6. g = [n \in 0 .. m |-> IF n = 0 THEN a ELSE ReadInto(i, n, g[n - 1])]
  <2> HIDE DEF A
  <2>1. g \in [0 .. m -> A] /\ g = [n \in 0 .. m |-> IF n = 0 THEN a ELSE step[<<n, g[n - 1]>>]]
    BY <1>5 DEF IsRecursion
  <2>2. ASSUME NEW n \in 0 .. m
        PROVE  g[n] = IF n = 0 THEN a ELSE ReadInto(i, n, g[n - 1])
    <3>1. CASE n = 0
      BY <2>1, <3>1
    <3>2. CASE n # 0
      <4>1. n - 1 \in 0 .. m /\ n \in Nat
        BY <1>1, <3>2
      <4>2. g[n - 1] \in A /\ g[n] = step[<<n, g[n - 1]>>]
        BY <2>1, <3>2, <4>1
      <4>3. QED
        BY <1>4, <3>2, <4>1, <4>2
    <3>3. QED
      BY <3>1, <3>2
  <2>3. QED
    BY <2>1, <2>2
<1>7. buffer = [n \in 0 .. m |-> IF n = 0 THEN a ELSE ReadInto(i, n, buffer[n - 1])]
  BY <1>6
<1>8. Loaded(i) = [size |-> i.size, count |-> m,
                   data |-> [n \in 1 .. m |-> SubSeq(buffer[n], 1, StoredSize(i.size, n))]]
  BY DEF Loaded, ReadInto, m, a
<1> HIDE DEF buffer
<1>9. \A n \in 0 .. m : buffer[n] = IF n = 0 THEN a ELSE ReadInto(i, n, buffer[n - 1])
  BY <1>7
<1>10. \A n \in 0 .. m : buffer[n] \in A
  <2> DEFINE S == {n \in Nat : n <= m => buffer[n] \in A}
  <2> HIDE DEF A
  <2>1. 0 \in S
    BY <1>1, <1>2, <1>9
  <2>2. ASSUME NEW n \in Nat, n \in S PROVE n + 1 \in S
    <3>1. SUFFICES ASSUME n + 1 <= m PROVE buffer[n + 1] \in A
      OBVIOUS
    <3> DEFINE k == n + 1
    <3>2. k \in 0 .. m /\ k # 0 /\ k \in Nat /\ k >= 1 /\ k - 1 = n
      BY <1>1, <3>1
    <3>3. buffer[n] \in A
      BY <1>1, <2>2, <3>1
    <3> HIDE DEF k
    <3>4. buffer[k] = ReadInto(i, k, buffer[n])
      BY <1>9, <3>2
    <3>5. ReadInto(i, k, buffer[n]) \in A
      BY <3>2, <3>3, ReadIntoTypes DEF A
    <3>6. QED
      BY <3>4, <3>5 DEF k
  <2> HIDE DEF S
  <2>3. Nat \subseteq S
    BY <2>1, <2>2, NatSetInduction
  <2>4. QED
    BY <1>1, <2>3 DEF S
<1>11. buffer \in [0 .. m -> A]
  <2> HIDE DEF A
  <2>1. QED
    BY <1>7, <1>10
<1>12. \A n \in 1 .. m : buffer[n] = ReadInto(i, n, buffer[n - 1])
  BY <1>1, <1>9
<1>13. QED
  BY <1>8, <1>11, <1>12 DEF m

LEMMA CountLoaded ==
    ASSUME NEW i, IsImage(i)
    PROVE  LoadedCount(i) \in Nat /\ LoadedCount(i) >= DIR_SECTOR
<1>1. i.size \in Nat /\ i.paragraphs \in Nat /\ BOOT \in Nat /\ i.size >= 9 /\ PARAGRAPH \in Nat
  BY ScriptNumbers, ImageAssumption DEF IsImage
<1>2. BootSize(i) \in Nat
  BY <1>1 DEF BootSize
<1> DEFINE x == i.paragraphs * PARAGRAPH - 3 * BootSize(i)
           z == i.size
           m == LoadedCount(i)
<1>3. x \in Int /\ z \in Nat /\ z > 0
  BY <1>1, <1>2
<1>4. m = 3 + x \div z
  BY DEF LoadedCount
<1>5. m >= DIR_SECTOR
  BY DEF IsImage
<1> HIDE DEF x, z, m
<1>6. m \in Int
  BY <1>3, <1>4
<1>7. m \in Nat
  BY <1>5, <1>6, ScriptNumbers
<1>8. QED
  BY <1>5, <1>7 DEF m

(* What load returns is a disk.                                            *)
LEMMA LoadedDisk ==
    ASSUME NEW i, IsImage(i)
    PROVE  IsDisk(Loaded(i)) /\ Loaded(i).size = i.size /\ Loaded(i).count = LoadedCount(i)
<1> DEFINE m == LoadedCount(i)
           z == i.size
<1>1. m \in Nat /\ m >= DIR_SECTOR /\ z \in Nat /\ z >= BOOT /\ BOOT \in Nat
  BY CountLoaded, ScriptNumbers DEF IsImage
<1>2. PICK g : /\ g \in [0 .. m -> [1 .. z -> Nat]]
               /\ Loaded(i) = [size |-> z, count |-> m,
                               data |-> [n \in 1 .. m |-> SubSeq(g[n], 1, StoredSize(z, n))]]
  BY LoadedFacts
<1> DEFINE parts == [n \in 1 .. m |-> SubSeq(g[n], 1, StoredSize(z, n))]
<1> HIDE DEF m, z
<1>3. ASSUME NEW n \in 1 .. m PROVE IsSector(parts[n], SectorSize(z, n))
  <2>1. g[n] \in [1 .. z -> Nat]
    BY <1>1, <1>2
  <2> DEFINE k == StoredSize(z, n)
             x == g[n]
  <2>2. k = SectorSize(z, n) /\ k \in Nat /\ k <= z
    BY <1>1 DEF StoredSize, SectorSize
  <2>3. parts[n] = SubSeq(x, 1, k)
    OBVIOUS
  <2>4. x \in Seq(Nat) /\ Len(x) = z
    BY <1>1, <2>1
  <2> HIDE DEF k, x, parts
  <2>5. SubSeq(x, 1, k) \in Seq(Nat) /\ Len(SubSeq(x, 1, k)) = k
    BY <1>1, <2>2, <2>4
  <2>6. QED
    BY <2>2, <2>3, <2>5 DEF IsSector
<1>4. parts = [n \in 1 .. m |-> parts[n]]
  OBVIOUS
<1>5. Loaded(i) = [size |-> z, count |-> m, data |-> parts]
  BY <1>2
<1> HIDE DEF parts
<1>6. IsDisk([size |-> z, count |-> m, data |-> parts])
  BY <1>1, <1>3, <1>4, DiskMade
<1>7. QED
  BY <1>5, <1>6 DEF m, z

(* The sectors of a disk, one after the other.                             *)
Flattens(h, n, parts) ==
    /\ h \in [1 .. n -> Seq(Nat)] /\ h[1] = parts[1]
    /\ \A k \in 2 .. n : h[k] = h[k - 1] \o parts[k]
    /\ FlattenSeq(parts) = h[n]

LEMMA FlattenFacts ==
    ASSUME NEW n \in Nat, n >= 1, NEW parts \in [1 .. n -> Seq(Nat)]
    PROVE  \E h : Flattens(h, n, parts)
<1> DEFINE A == Seq(Nat)
           m == n - 1
           a == parts[1]
           step == [x \in Nat \X A |-> IF x[1] + 1 \in 1 .. n THEN x[2] \o parts[x[1] + 1] ELSE x[2]]
           flatten == CHOOSE h : h = [k \in 1 .. n |-> IF k = 1 THEN parts[k] ELSE h[k - 1] \o parts[k]]
<1>1. m \in Nat /\ a \in A
  OBVIOUS
<1>2. step \in [Nat \X A -> A]
  <2>1. ASSUME NEW k \in Nat, NEW held \in A
        PROVE  (IF k + 1 \in 1 .. n THEN held \o parts[k + 1] ELSE held) \in A
    <3>1. CASE k + 1 \in 1 .. n
      <4>1. parts[k + 1] \in A
        BY <3>1
      <4>2. QED
        BY <3>1, <4>1
    <3>2. QED
      BY <3>1
  <2> HIDE DEF A
  <2>2. QED
    BY <2>1
<1>3. \A k \in Nat : \A held \in A : k + 1 \in 1 .. n => step[<<k, held>>] = held \o parts[k + 1]
  <2> HIDE DEF A
  <2>1. QED
    OBVIOUS
<1> HIDE DEF m, a, step
<1>4. PICK g : IsRecursion(g, m, A, a, step)
  <2> HIDE DEF A
  <2>1. QED
    BY <1>1, <1>2, NatRecursion
<1> DEFINE f == [k \in 1 .. n |-> g[k - 1]]
<1>5. f = [k \in 1 .. n |-> IF k = 1 THEN parts[k] ELSE f[k - 1] \o parts[k]]
  <2> HIDE DEF A
  <2>1. g \in [0 .. m -> A] /\ g = [k \in 0 .. m |-> IF k = 0 THEN a ELSE step[<<k, g[k - 1]>>]]
    BY <1>4 DEF IsRecursion
  <2>2. ASSUME NEW k \in 1 .. n
        PROVE  g[k - 1] = IF k = 1 THEN parts[k] ELSE f[k - 1] \o parts[k]
    <3> DEFINE j == k - 1
    <3>1. j \in 0 .. m /\ j \in Nat /\ j + 1 = k
      BY DEF m
    <3>2. CASE k = 1
      <4>1. j = 0
        BY <3>2
      <4>2. QED
        BY <2>1, <3>1, <3>2, <4>1 DEF a
    <3>3. CASE k # 1
      <4>1. j # 0 /\ j - 1 \in 0 .. m /\ j \in 1 .. n
        BY <3>1, <3>3 DEF m
      <4>2. f[j] = g[j - 1]
        BY <4>1
      <4> HIDE DEF f, j
      <4>3. g[j] = step[<<j, g[j - 1]>>] /\ g[j - 1] \in A
        BY <2>1, <3>1, <4>1
      <4>4. step[<<j, g[j - 1]>>] = g[j - 1] \o parts[j + 1]
        BY <1>3, <3>1, <4>3
      <4>5. QED
        BY <3>1, <3>3, <4>2, <4>3, <4>4 DEF j
    <3>4. QED
      BY <3>2, <3>3
  <2>3. QED
    BY <2>2
<1>6. flatten = [k \in 1 .. n |-> IF k = 1 THEN parts[k] ELSE flatten[k - 1] \o parts[k]]
  <2> HIDE DEF f, A
  <2>1. QED
    BY <1>5
<1>7. FlattenSeq(parts) = flatten[n]
  <2>1. Len(parts) = n /\ Len(parts) # 0
    OBVIOUS
  <2>2. QED
    BY <2>1 DEF FlattenSeq
<1> HIDE DEF flatten, f
<1>8. \A k \in 1 .. n : flatten[k] = IF k = 1 THEN parts[k] ELSE flatten[k - 1] \o parts[k]
  BY <1>6
<1>9. \A k \in 1 .. n : flatten[k] \in A
  <2> DEFINE S == {k \in Nat : k + 1 <= n => flatten[k + 1] \in A}
  <2>1. 0 \in S
    <3>1. flatten[1] = parts[1] /\ parts[1] \in A
      BY <1>8
    <3> HIDE DEF A
    <3>2. QED
      BY <3>1
  <2>2. ASSUME NEW k \in Nat, k \in S PROVE k + 1 \in S
    <3>1. SUFFICES ASSUME k + 1 + 1 <= n PROVE flatten[k + 1 + 1] \in A
      OBVIOUS
    <3> DEFINE j == k + 1 + 1
    <3>2. j \in 1 .. n /\ j # 1 /\ j - 1 = k + 1
      BY <3>1
    <3>3. flatten[k + 1] \in A /\ parts[j] \in A
      BY <2>2, <3>1, <3>2
    <3> HIDE DEF j
    <3>4. flatten[j] = flatten[k + 1] \o parts[j]
      BY <1>8, <3>2
    <3>5. flatten[j] \in A
      BY <3>3, <3>4
    <3>6. QED
      BY <3>5 DEF j
  <2> HIDE DEF S, A
  <2>3. Nat \subseteq S
    BY <2>1, <2>2, NatSetInduction
  <2>4. ASSUME NEW k \in 1 .. n PROVE flatten[k] \in A
    <3>1. k - 1 \in S /\ k - 1 + 1 = k
      BY <2>3
    <3>2. QED
      BY <3>1 DEF S
  <2>5. QED
    BY <2>4
<1>10. flatten \in [1 .. n -> Seq(Nat)]
  BY <1>6, <1>9
<1>11. flatten[1] = parts[1] /\ \A k \in 2 .. n : flatten[k] = flatten[k - 1] \o parts[k]
  <2>1. flatten[1] = parts[1]
    BY <1>8
  <2>2. ASSUME NEW k \in 2 .. n PROVE flatten[k] = flatten[k - 1] \o parts[k]
    <3>1. k \in 1 .. n /\ k # 1
      OBVIOUS
    <3>2. QED
      BY <1>8, <3>1
  <2>3. QED
    BY <2>1, <2>2
<1>12. QED
  BY <1>7, <1>10, <1>11 DEF Flattens

(* The image that save writes.                                             *)
LEMMA ByteSizeNat ==
    ASSUME NEW size \in Nat, NEW count \in Nat, count >= DIR_SECTOR
    PROVE  ByteSize(size, count) \in Nat
<1>1. count >= 3 /\ BOOT \in Nat
  BY ScriptNumbers
<1>2. (count - 3) * size \in Nat
  BY <1>1
<1>3. QED
  BY <1>1, <1>2 DEF ByteSize

LEMMA ImageFacts ==
    ASSUME NEW dk, IsDisk(dk)
    PROVE  /\ Image(dk).size = dk.size /\ Image(dk).bytes = FlattenSeq(dk.data)
           /\ Image(dk).bytes \in Seq(Nat) /\ Image(dk).paragraphs \in Nat
           /\ Image(dk).paragraphs = ByteSize(dk.size, dk.count) \div PARAGRAPH
           /\ LoadedCount(Image(dk)) = LoadedCount(Image(NewDisk(dk.size, dk.count)))
<1>1. /\ dk.size \in Nat /\ dk.size >= BOOT /\ dk.count \in Nat /\ dk.count >= DIR_SECTOR
      /\ DOMAIN dk.data = 1 .. dk.count
  BY DiskFacts
<1>2. /\ Image(dk).size = dk.size /\ Image(dk).bytes = FlattenSeq(dk.data)
      /\ Image(dk).paragraphs = ByteSize(dk.size, dk.count) \div PARAGRAPH
  BY DEF Image
<1>3. Image(dk).bytes \in Seq(Nat)
  <2>1. dk.data \in [1 .. dk.count -> Seq(Nat)]
    BY DEF IsDisk
  <2> DEFINE n == dk.count
             parts == dk.data
  <2>2. n \in Nat /\ n >= 1 /\ parts \in [1 .. n -> Seq(Nat)]
    BY <1>1, <2>1, ScriptNumbers
  <2> HIDE DEF n, parts
  <2>3. FlattenSeq(parts) \in Seq(Nat)
    <3>1. PICK h : Flattens(h, n, parts)
      BY <2>2, FlattenFacts
    <3>2. h \in [1 .. n -> Seq(Nat)] /\ FlattenSeq(parts) = h[n] /\ n \in 1 .. n
      BY <2>2, <3>1 DEF Flattens
    <3>3. QED
      BY <3>2
  <2>4. QED
    BY <1>2, <2>3 DEF parts
<1>4. Image(dk).paragraphs \in Nat
  <2> DEFINE x == ByteSize(dk.size, dk.count)
  <2>1. x \in Nat /\ PARAGRAPH \in Nat /\ PARAGRAPH > 0
    BY <1>1, ByteSizeNat, ImageAssumption
  <2> HIDE DEF x
  <2>2. x \div PARAGRAPH \in Nat
    BY <2>1
  <2>3. QED
    BY <1>2, <2>2 DEF x
<1>5. LoadedCount(Image(dk)) = LoadedCount(Image(NewDisk(dk.size, dk.count)))
  <2> DEFINE other == Image(NewDisk(dk.size, dk.count))
  <2>1. other.size = dk.size /\ other.paragraphs = ByteSize(dk.size, dk.count) \div PARAGRAPH
    BY DEF Image, NewDisk
  <2> HIDE DEF other
  <2>2. BootSize(Image(dk)) = BootSize(other)
    BY <1>2, <2>1 DEF BootSize
  <2>3. QED
    BY <1>2, <2>1, <2>2 DEF LoadedCount, other
<1>6. QED
  BY <1>2, <1>3, <1>4, <1>5

LEMMA SavedImage ==
    ASSUME NEW dk, IsDisk(dk), IsSize(dk.size, dk.count)
    PROVE  IsImage(Image(dk))
<1>1. /\ Image(dk).size = dk.size /\ Image(dk).bytes \in Seq(Nat)
      /\ Image(dk).paragraphs \in Nat
      /\ LoadedCount(Image(dk)) = LoadedCount(Image(NewDisk(dk.size, dk.count)))
  BY ImageFacts
<1>2. /\ dk.size \in Nat /\ dk.size >= BOOT
      /\ LoadedCount(Image(NewDisk(dk.size, dk.count))) >= DIR_SECTOR
  BY DEF IsSize
<1> DEFINE i == Image(dk)
<1>3. LoadedCount(i) >= DIR_SECTOR
  BY <1>1, <1>2
<1> HIDE DEF i
<1>4. i = [size |-> i.size, paragraphs |-> i.paragraphs, bytes |-> i.bytes]
  BY DEF Image, i
<1>5. IsImage(i)
  <2>1. i.size \in Nat /\ i.size >= BOOT /\ i.paragraphs \in Nat /\ i.bytes \in Seq(Nat)
    BY <1>1, <1>2 DEF i
  <2>2. QED
    BY <1>3, <1>4, <2>1 DEF IsImage
<1>6. QED
  BY <1>5 DEF i

(* What is in the cache written to the disk.                               *)
LEMMA FlushedFacts ==
    ASSUME ScriptTypes, d # NoDisk
    PROVE  /\ IsDisk(Flushed) /\ Flushed.size = d.size /\ Flushed.count = d.count
           /\ \A s \in 1 .. d.count : Flushed.data[s] = Through(s)
<1> DEFINE parts == [s \in 1 .. d.count |-> Through(s)]
<1>1. IsDisk(d) /\ Disk = d
  BY DiskSeen DEF ScriptTypes, DiskTypes
<1>2. /\ d.size \in Nat /\ d.size >= BOOT /\ d.count \in Nat /\ d.count >= DIR_SECTOR
      /\ DOMAIN d.data = 1 .. d.count
  BY <1>1, DiskFacts
<1>3. d = [size |-> d.size, count |-> d.count, data |-> d.data]
  BY <1>1 DEF IsDisk
<1>4. Flushed = [size |-> d.size, count |-> d.count, data |-> parts]
  <2>1. Flushed = [d EXCEPT !.data = parts]
    BY <1>2 DEF Flushed
  <2> HIDE DEF parts
  <2>2. QED
    BY <1>3, <2>1
<1>5. \A s \in 1 .. d.count : IsSector(parts[s], SectorSize(d.size, s))
  BY <1>1, ThroughTypes
<1>6. parts = [s \in 1 .. d.count |-> parts[s]] /\ \A s \in 1 .. d.count : parts[s] = Through(s)
  OBVIOUS
<1> HIDE DEF parts
<1>7. IsDisk([size |-> d.size, count |-> d.count, data |-> parts])
  BY <1>2, <1>5, <1>6, DiskMade
<1>8. QED
  BY <1>4, <1>6, <1>7

-----------------------------------------------------------------------------
(* The steps keep the types, and each program finds what it works on.      *)
LEMMA LineTyped ==
    ASSUME NEW line \in Lines
    PROVE  /\ IsTyped(line) /\ (line.command = "DISK" => IsSize(line.size, line.count))
           /\ (line.command = "BOOT" => line.file # "boot.bin")
<1>1. IsLine(line)
  BY LinesAssumption
<1>2. line.command = "DISK" => IsSize(line.size, line.count)
  BY <1>1 DEF IsLine
<1>3. IsTyped(line)
  BY <1>1 DEF IsLine, IsTyped, IsSize
<1>4. QED
  BY <1>1, <1>2, <1>3 DEF IsLine

LEMMA RunSizes ==
    ASSUME NEW line \in Lines, Run(line), IsSize(sector_size, sector_count)
    PROVE  IsSize(sector_size, sector_count)'
<1>1. CASE DiskLine(line)
  <2>1. line.command = "DISK" /\ sector_count' = line.count /\ sector_size' = line.size
    BY <1>1 DEF DiskLine
  <2>2. IsSize(line.size, line.count)
    BY <2>1, LineTyped
  <2>3. QED
    BY <2>1, <2>2
<1>2. CASE ~DiskLine(line)
  <2>1. UNCHANGED <<sector_size, sector_count>>
    BY <1>2 DEF Run, FormatThrough, FormatPast, FormatNotHere, UnknownFormat, BootLine,
        PropertyLine, NoSuchProperty, NoDir, FileThrough, FilePast, Stops
  <2>2. QED
    BY <2>1
<1>3. QED
  BY <1>1, <1>2

(* The lines left after one.                                               *)
LEMMA ScriptTail ==
    ASSUME ScriptTypes, script # <<>>
    PROVE  /\ IsTyped(Head(script))
           /\ \E T : Tail(script) \in Seq(T) /\ \A line \in T : IsTyped(line)
<1>1. PICK T : script \in Seq(T) /\ \A line \in T : IsTyped(line)
  BY DEF ScriptTypes
<1>2. Head(script) \in T /\ Tail(script) \in Seq(T)
  BY <1>1
<1>3. QED
  BY <1>1, <1>2

LEMMA ScriptTypesFrom ==
    ASSUME SizesTyped, DiskTypes, taken \in Seq(Lines), Len(taken) <= MaxLines,
           boot_bin \in Seq(Nat),
           \E T : script \in Seq(T) /\ \A line \in T : IsTyped(line),
           phase \in {"script", "saved", "loaded", "again", "elsewhere", "error", "crash"}
    PROVE  ScriptTypes
BY DEF ScriptTypes, SizesTyped

ScriptInv == ScriptTypes /\ Programs

LEMMA LineInv == ScriptInv /\ NextLine => ScriptInv'
<1> SUFFICES ASSUME ScriptTypes, Programs, NextLine PROVE ScriptTypes' /\ Programs'
  BY DEF ScriptInv
<1>0. /\ phase = "script" /\ boot_bin \in Seq(Nat) /\ taken \in Seq(Lines) /\ Len(taken) <= MaxLines
      /\ \E T : script \in Seq(T) /\ \A line \in T : IsTyped(line)
  BY DEF NextLine, ScriptTypes
<1> DEFINE Left == /\ taken' \in Seq(Lines) /\ Len(taken') <= MaxLines
                   /\ \E T : script' \in Seq(T) /\ \A line \in T : IsTyped(line)
                   /\ boot_bin = <<>> => script' = <<>>
           Ran(line) == /\ IsTyped(line) /\ Run(line)
                        /\ boot_bin = <<>> => line \in Lines
<1> DEFINE Next1 == /\ script # <<>> /\ Run(Head(script)) /\ script' = Tail(script)
                    /\ UNCHANGED taken
           Next2 == \E line \in Lines : /\ boot_bin = <<>> /\ Len(taken) < MaxLines /\ Run(line)
                                        /\ taken' = Append(taken, line) /\ UNCHANGED script
           Ok == Left /\ \E line : Ran(line)
<1>1. ASSUME Next1 PROVE Ok
  <2>1. boot_bin # <<>>
    BY <1>1 DEF Programs
  <2>2. IsTyped(Head(script)) /\ \E T : Tail(script) \in Seq(T) /\ \A line \in T : IsTyped(line)
    BY <1>1, ScriptTail
  <2>3. Left
    BY <1>0, <1>1, <2>1, <2>2
  <2>4. Ran(Head(script))
    BY <1>1, <2>1, <2>2
  <2>5. QED
    BY <2>3, <2>4
<1>2. ASSUME Next2 PROVE Ok
  <2>1. PICK line \in Lines : /\ boot_bin = <<>> /\ Len(taken) < MaxLines /\ Run(line)
                              /\ taken' = Append(taken, line) /\ UNCHANGED script
    BY <1>2
  <2>2. taken' \in Seq(Lines) /\ Len(taken') = Len(taken) + 1 /\ MaxLines \in Nat
    BY <1>0, <2>1, ScriptAssumption
  <2>3. Len(taken) \in Nat /\ Len(taken') <= MaxLines
    BY <1>0, <2>1, <2>2
  <2>4. script' = <<>>
    BY <2>1 DEF Programs
  <2>5. Left
    BY <1>0, <2>1, <2>2, <2>3, <2>4
  <2>6. Ran(line)
    BY <2>1, LineTyped
  <2>7. QED
    BY <2>5, <2>6
<1>3. Left /\ \E line : Ran(line)
  <2>1. Next1 \/ Next2
    BY DEF NextLine
  <2> HIDE DEF Left, Ran, Next1, Next2
  <2>2. QED
    BY <1>1, <1>2, <2>1
<1>4. PICK line : Ran(line)
  BY <1>3
<1>5. /\ LineKeeps /\ UNCHANGED <<boot_bin, image, origin, cut>>
      /\ phase' \in {phase, "elsewhere", "error", "crash"}
  BY <1>4, RunKeeps
<1>6. /\ SizesTyped' /\ DiskTypes' /\ (d' # NoDisk => d'.size = Disk.size /\ d'.count = Disk.count)
  BY <1>5 DEF LineKeeps, DiskGrown
<1>7. ScriptTypes'
  BY <1>0, <1>3, <1>5, <1>6 DEF ScriptTypes, SizesTyped
<1>8. Programs'
  <2>1. boot_bin' = <<>> => script' = <<>>
    BY <1>3, <1>5
  <2>2. phase' # "saved" /\ phase' # "loaded"
    BY <1>0, <1>5
  <2>3. ASSUME UserScript'
        PROVE  /\ IsSize(sector_size, sector_count)'
               /\ d' # NoDisk => IsSize(d'.size, d'.count)
    <3>1. UserScript /\ line \in Lines /\ Run(line)
      BY <1>0, <1>4, <1>5, <2>3 DEF UserScript
    <3>2. IsSize(sector_size, sector_count) /\ (d # NoDisk => IsSize(d.size, d.count))
      BY <3>1 DEF Programs
    <3>3. IsSize(sector_size, sector_count)'
      BY <3>1, <3>2, RunSizes
    <3>4. IsSize(Disk.size, Disk.count)
      BY <3>2, DiskSeen
    <3>5. QED
      BY <1>6, <3>3, <3>4
  <2>4. QED
    BY <2>1, <2>2, <2>3 DEF Programs, UserScript
<1>9. QED
  BY <1>7, <1>8

(* Making room in the cache: no command sees a difference.                 *)
Evicts(s) ==
    /\ s \in DOMAIN cache /\ d' = [d EXCEPT !.data[s] = cache[s]]
    /\ cache' = [t \in DOMAIN cache \ {s} |-> cache[t]]
Unseen ==
    /\ d # NoDisk /\ d' # NoDisk /\ d'.size = d.size /\ d'.count = d.count /\ DiskTypes'
    /\ DOMAIN cache' \subseteq DOMAIN cache
    /\ \A t \in 1 .. d.count : Through(t)' = Through(t)
    /\ \A t \in 1 .. d.count : t \notin DOMAIN cache => d'.data[t] = d.data[t]

LEMMA EvictFacts ==
    ASSUME ScriptTypes, Evict
    PROVE  Unseen /\ phase = "script" /\ UNCHANGED <<sector_size, sector_count, fs, script, taken,
                boot_bin, image, origin, cut, phase>>
<1>1. phase = "script" /\ UNCHANGED <<sector_size, sector_count, fs, script, taken,
                boot_bin, image, origin, cut, phase>>
  BY DEF Evict
<1>2. PICK s : Evicts(s)
  BY DEF Evict, Evicts
<1>3. /\ s \in DOMAIN cache /\ d' = [d EXCEPT !.data[s] = cache[s]]
      /\ cache' = [t \in DOMAIN cache \ {s} |-> cache[t]]
  BY <1>2 DEF Evicts
<1>4. d # NoDisk /\ Disk = d /\ IsDisk(d) /\ CacheFits(cache, d)
  <2>1. d # NoDisk
    BY <1>3, DiskSeen
  <2>2. QED
    BY <2>1, DiskSeen
<1>5. /\ d.size \in Nat /\ d.size >= BOOT /\ d.count \in Nat /\ d.count >= DIR_SECTOR
      /\ DOMAIN d.data = 1 .. d.count
      /\ \A t \in 1 .. d.count : IsSector(d.data[t], SectorSize(d.size, t))
  BY <1>4, DiskFacts
<1> DEFINE parts == [d.data EXCEPT ![s] = cache[s]]
<1>6. d = [size |-> d.size, count |-> d.count, data |-> d.data]
  BY <1>4 DEF IsDisk
<1>7. d' = [size |-> d.size, count |-> d.count, data |-> parts]
  BY <1>3, <1>6
<1>8. s \in 1 .. d.count /\ IsSector(cache[s], SectorSize(d.size, s))
  BY <1>3, <1>4 DEF CacheFits
<1>9. parts = [t \in 1 .. d.count |-> parts[t]]
      /\ \A t \in 1 .. d.count : parts[t] = IF t = s THEN cache[s] ELSE d.data[t]
  BY <1>5, <1>8
<1> HIDE DEF parts
<1>10. \A t \in 1 .. d.count : IsSector(parts[t], SectorSize(d.size, t))
  BY <1>5, <1>8, <1>9
<1>11. IsDisk([size |-> d.size, count |-> d.count, data |-> parts])
  BY <1>5, <1>9, <1>10, DiskMade
<1>12. IsDisk(d') /\ d'.size = d.size /\ d'.count = d.count /\ d'.data = parts
  BY <1>7, <1>11
<1>13. d' # NoDisk
  BY <1>12, DiskFacts
<1>14. /\ DOMAIN cache' = DOMAIN cache \ {s}
       /\ \A t \in DOMAIN cache' : cache'[t] = cache[t]
       /\ cache' = [t \in DOMAIN cache' |-> cache'[t]]
  BY <1>3
<1>15. CacheFits(cache', d')
  BY <1>4, <1>12, <1>14 DEF CacheFits
<1>16. DiskTypes'
  <2>1. FsTypes'
    BY <1>1, <1>12, <1>13 DEF ScriptTypes, DiskTypes, FsTypes
  <2>2. QED
    BY <1>12, <1>15, <2>1 DEF DiskTypes
<1>17. ASSUME NEW t \in 1 .. d.count
       PROVE  Through(t)' = Through(t) /\ (t \notin DOMAIN cache => d'.data[t] = d.data[t])
  <2>1. Disk' = d'
    BY <1>13 DEF Disk
  <2>2. Through(t)' = IF t \in DOMAIN cache' THEN cache'[t] ELSE d'.data[t]
    BY <2>1 DEF Through
  <2>3. Through(t) = IF t \in DOMAIN cache THEN cache[t] ELSE d.data[t]
    BY <1>4 DEF Through
  <2>4. d'.data[t] = IF t = s THEN cache[s] ELSE d.data[t]
    BY <1>9, <1>12
  <2>5. QED
    BY <1>3, <1>14, <2>2, <2>3, <2>4
<1>18. DOMAIN cache' \subseteq DOMAIN cache
  BY <1>14
<1>19. QED
  BY <1>1, <1>4, <1>12, <1>13, <1>16, <1>17, <1>18 DEF Unseen

LEMMA EvictInv == ScriptInv /\ Evict => ScriptInv'
<1> SUFFICES ASSUME ScriptTypes, Programs, Evict PROVE ScriptTypes' /\ Programs'
  BY DEF ScriptInv
<1>1. Unseen /\ phase = "script" /\ UNCHANGED <<sector_size, sector_count, fs, script, taken,
                boot_bin, image, origin, cut, phase>>
  BY EvictFacts
<1>2. d # NoDisk /\ DiskTypes' /\ d'.size = d.size /\ d'.count = d.count
  BY <1>1 DEF Unseen
<1>3. ScriptTypes'
  BY <1>1, <1>2 DEF ScriptTypes
<1>4. Programs'
  BY <1>1, <1>2 DEF Programs, UserScript
<1>5. QED
  BY <1>3, <1>4

LEMMA EmptyFits == \A dk : CacheFits([s \in {} |-> <<>>], dk)
BY DEF CacheFits

LEMMA SaveInv == ScriptInv /\ SaveDisk => ScriptInv'
<1> SUFFICES ASSUME ScriptTypes, Programs, SaveDisk PROVE ScriptTypes' /\ Programs'
  BY DEF ScriptInv
<1>1. /\ phase = "script" /\ script = <<>>
      /\ UNCHANGED <<sector_size, sector_count, fs, script, taken, boot_bin, cut>>
  BY DEF SaveDisk
<1>2. CASE d = NoDisk
  <2>1. phase' = "crash" /\ UNCHANGED <<d, cache, image, origin>>
    BY <1>2 DEF SaveDisk
  <2>2. ScriptTypes'
    BY <1>1, <2>1 DEF ScriptTypes, DiskTypes, FsTypes
  <2>3. Programs'
    BY <1>1, <2>1 DEF Programs, UserScript
  <2>4. QED
    BY <2>2, <2>3
<1>3. CASE d # NoDisk
  <2>1. /\ d' = Flushed /\ cache' = [s \in {} |-> <<>>] /\ image' = Image(Flushed)
        /\ phase' = IF boot_bin = <<>> THEN "saved" ELSE "again"
    BY <1>3 DEF SaveDisk
  <2>2. IsDisk(Flushed) /\ Flushed.size = d.size /\ Flushed.count = d.count
    BY <1>3, FlushedFacts
  <2>3. d' # NoDisk
    BY <2>1, <2>2, DiskFacts
  <2>4. DiskTypes'
    <3>1. CacheFits(cache', d')
      BY <2>1, EmptyFits
    <3>2. FsTypes'
      BY <1>1, <2>1, <2>2, <2>3 DEF ScriptTypes, DiskTypes, FsTypes
    <3>3. QED
      BY <2>1, <2>2, <3>1, <3>2 DEF DiskTypes
  <2>5. ScriptTypes'
    BY <1>1, <2>1, <2>4 DEF ScriptTypes
  <2>6. phase' = "saved" => IsImage(image') /\ boot_bin' = <<>>
    <3>1. SUFFICES ASSUME boot_bin = <<>> PROVE IsImage(Image(Flushed))
      BY <1>1, <2>1
    <3>2. IsSize(d.size, d.count)
      BY <1>1, <1>3, <3>1 DEF Programs, UserScript
    <3>3. QED
      BY <2>2, <3>2, SavedImage
  <2>7. Programs'
    BY <1>1, <2>1, <2>6 DEF Programs, UserScript
  <2>8. QED
    BY <2>5, <2>7
<1>4. QED
  BY <1>2, <1>3

IsCut(i, n, new) ==
    /\ new.size = i.size /\ new.paragraphs = i.paragraphs
    /\ Len(new.bytes) = Len(i.bytes) - n
    /\ \A p \in 1 .. Len(new.bytes) : new.bytes[p] = i.bytes[p]

LEMMA CutFacts ==
    ASSUME NEW i, IsImage(i), NEW n \in Nat, n < Len(i.bytes) - 3 * BootSize(i), NEW new,
           new = [i EXCEPT !.bytes = SubSeq(i.bytes, 1, Len(i.bytes) - n)]
    PROVE  IsImage(new) /\ IsCut(i, n, new)
<1> DEFINE b == i.bytes
           k == Len(b) - n
           c == SubSeq(b, 1, k)
<1>1. /\ i.size \in Nat /\ i.size >= BOOT /\ i.paragraphs \in Nat /\ b \in Seq(Nat)
      /\ i = [size |-> i.size, paragraphs |-> i.paragraphs, bytes |-> b]
      /\ LoadedCount(i) >= DIR_SECTOR
  BY DEF IsImage
<1>2. BootSize(i) \in Nat
  BY <1>1, ScriptNumbers DEF BootSize
<1>3. k \in Nat /\ k <= Len(b)
  BY <1>1, <1>2
<1>4. new = [size |-> i.size, paragraphs |-> i.paragraphs, bytes |-> c]
  BY <1>1
<1> HIDE DEF b, k
<1>5. c \in Seq(Nat) /\ Len(c) = k /\ \A p \in 1 .. k : c[p] = b[p]
  <2>1. b \in Seq(Nat)
    BY <1>1
  <2>2. c \in Seq(Nat) /\ Len(c) = k
    BY <1>3, <2>1
  <2>3. \A p \in 1 .. k : c[p] = b[p]
    BY <1>3, <2>1
  <2>4. QED
    BY <2>2, <2>3
<1> HIDE DEF c
<1>6. new.size = i.size /\ new.paragraphs = i.paragraphs /\ new.bytes = c
      /\ new = [size |-> new.size, paragraphs |-> new.paragraphs, bytes |-> new.bytes]
  <2> DEFINE z == i.size
             g == i.paragraphs
  <2>1. new = [size |-> z, paragraphs |-> g, bytes |-> c]
    BY <1>4
  <2> HIDE DEF z, g
  <2>2. new.size = z /\ new.paragraphs = g /\ new.bytes = c
    BY <2>1
  <2>3. QED
    BY <2>1, <2>2 DEF z, g
<1>7. LoadedCount(new) >= DIR_SECTOR
  BY <1>1, <1>6 DEF LoadedCount, BootSize
<1>8. IsImage(new)
  BY <1>1, <1>5, <1>6, <1>7 DEF IsImage
<1>9. QED
  BY <1>5, <1>6, <1>8 DEF b, k, IsCut

LEMMA CutInv == ScriptInv /\ CutShort => ScriptInv'
<1> SUFFICES ASSUME ScriptTypes, Programs, CutShort PROVE ScriptTypes' /\ Programs'
  BY DEF ScriptInv
<1>1. /\ phase = "saved"
      /\ UNCHANGED <<sector_size, sector_count, d, cache, fs, script, taken, boot_bin, origin,
                     phase>>
  BY DEF CutShort
<1>2. PICK n \in Cuts : /\ n < Len(image.bytes) - 3 * BootSize(image)
                        /\ image' = [image EXCEPT !.bytes = SubSeq(@, 1, Len(@) - n)]
  BY DEF CutShort
<1>3. n \in Nat /\ IsImage(image)
  BY <1>1, ScriptAssumption DEF Programs
<1>4. IsImage(image')
  <2>1. image' = [image EXCEPT !.bytes = SubSeq(image.bytes, 1, Len(image.bytes) - n)]
    BY <1>2
  <2>2. QED
    BY <1>2, <1>3, <2>1, CutFacts
<1>5. ScriptTypes'
  BY <1>1 DEF ScriptTypes, DiskTypes, FsTypes
<1>6. Programs'
  BY <1>1, <1>4 DEF Programs, UserScript
<1>7. QED
  BY <1>5, <1>6

LEMMA LoadInv == ScriptInv /\ Load => ScriptInv'
<1> SUFFICES ASSUME ScriptTypes, Programs, Load PROVE ScriptTypes' /\ Programs'
  BY DEF ScriptInv
<1>1. /\ phase = "saved" /\ d' = Loaded(image) /\ cache' = [s \in {} |-> <<>>]
      /\ fs' = NoFs /\ taken' = <<>> /\ phase' = "loaded"
      /\ UNCHANGED <<sector_size, sector_count, script, boot_bin, image, origin, cut>>
  BY DEF Load
<1>2. IsImage(image) /\ boot_bin = <<>>
  BY <1>1 DEF Programs
<1>3. IsDisk(d')
  BY <1>1, <1>2, LoadedDisk
<1>4. DiskTypes'
  <2>1. CacheFits(cache', d')
    BY <1>1, EmptyFits
  <2>2. QED
    BY <1>1, <1>3, <2>1 DEF DiskTypes, FsTypes
<1>5. ScriptTypes'
  <2>1. taken' \in Seq(Lines) /\ Len(taken') <= MaxLines
    BY <1>1, ScriptAssumption
  <2>2. QED
    BY <1>1, <1>4, <2>1 DEF ScriptTypes
<1>6. Programs'
  <2>1. d' # NoDisk /\ DOMAIN cache' = {}
    BY <1>1, <1>3, DiskFacts
  <2>2. QED
    BY <1>1, <1>2, <2>1 DEF Programs, UserScript
<1>7. QED
  BY <1>5, <1>6

(* What unpack writes.                                                     *)
LEMMA SeqOfSet ==
    ASSUME NEW S, IsFiniteSet(S) PROVE SetToSeq(S) \in Seq(S)
<1> DEFINE n == Cardinality(S)
           F == [1 .. n -> S]
<1>1. n \in Nat
  BY FS_CardinalityType
<1>2. \E f \in F : IsInjective(f)
  <2>1. PICK k \in Nat : ExistsBijection(1 .. k, S)
    BY FS_NatBijection
  <2>2. k = n
    BY <2>1, FS_CountingElements
  <2> HIDE DEF n
  <2>3. QED
    BY <2>1, <2>2 DEF ExistsBijection, Bijection, Injection
<1>3. SetToSeq(S) = CHOOSE f \in F : IsInjective(f)
  BY DEF SetToSeq
<1> HIDE DEF F
<1>4. SetToSeq(S) \in F
  BY <1>2, <1>3
<1> HIDE DEF n
<1>5. QED
  BY <1>1, <1>4 DEF F

LEMMA PropertiesFinite ==
    ASSUME NEW dos \in Systems PROVE IsFiniteSet(DOMAIN Properties(dos))
<1>1. \A a, b, c : IsFiniteSet({a, b, c})
  <2>1. ASSUME NEW a, NEW b, NEW c PROVE IsFiniteSet({a, b, c})
    <3>1. IsFiniteSet({a} \cup {b})
      BY FS_Singleton, FS_AddElement
    <3>2. IsFiniteSet(({a} \cup {b}) \cup {c})
      BY <3>1, FS_AddElement
    <3>3. {a, b, c} = ({a} \cup {b}) \cup {c}
      OBVIOUS
    <3>4. QED
      BY <3>2, <3>3
  <2>2. QED
    BY <2>1
<1>2. \E a, b, c : DOMAIN Properties(dos) = {a, b, c}
  <2>1. CASE dos = "2" \/ dos = "2.5"
    <3>1. DOMAIN Properties(dos) = {"DRIVES", "BUFFERS", "BUFFERS"}
      BY <2>1 DEF Properties, Dos2Properties, Dos25Properties
    <3>2. QED
      BY <3>1, Zenon
  <2>2. CASE dos = "II+"
    <3>1. DOMAIN Properties(dos) = {"BUFFERS", "RAMDISK", "RAMDISK"}
      BY <2>2 DEF Properties, DosIIplusProperties
    <3>2. QED
      BY <3>1, Zenon
  <2>3. CASE dos = "xdos"
    <3>1. DOMAIN Properties(dos) = {"BUFFERS", "RAMDISK", "COLOR"}
      BY <2>3 DEF Properties, XdosProperties
    <3>2. QED
      BY <3>1, Zenon
  <2>4. CASE dos = "mydos"
    <3>1. DOMAIN Properties(dos) = {"BUFFERS", "RAMDISK_UNIT", "DEFAULT_UNIT"}
      BY <2>4 DEF Properties, MydosProperties
    <3>2. QED
      BY <3>1, Zenon
  <2>5. QED
    BY <2>1, <2>2, <2>3, <2>4 DEF Systems
<1>3. PICK a, b, c : DOMAIN Properties(dos) = {a, b, c}
  BY <1>2, Zenon
<1>4. IsFiniteSet({a, b, c})
  BY <1>1, Zenon
<1>5. QED
  BY <1>3, <1>4

PropertyLineOf(o, name) ==
    [command |-> "SET", property |-> name, value |-> o.data[1][Properties(Detect(o))[name]]]
PropertyLineSet(o) == {PropertyLineOf(o, name) : name \in DOMAIN Properties(Detect(o))}

LEMMA PropertyLinesFacts ==
    ASSUME Detect(d) \in Systems
    PROVE  PropertyLines(Detect(d)) \in Seq(PropertyLineSet(d))
<1> DEFINE dos == Detect(d)
           S == DOMAIN Properties(dos)
           T == PropertyLineSet(d)
           f == [name \in S |-> PropertyLineOf(d, name)]
<1>1. f \in Surjection(S, T)
  BY DEF Surjection, PropertyLineSet
<1>2. IsFiniteSet(T)
  <2>1. IsFiniteSet(S)
    BY PropertiesFinite
  <2> HIDE DEF S, T, f
  <2>2. QED
    BY <1>1, <2>1, FS_Surjection
<1>3. PropertyLines(dos) = SetToSeq(T)
  BY DEF PropertyLines, PropertyLineSet, PropertyLineOf
<1> HIDE DEF T
<1>4. QED
  BY <1>2, <1>3, SeqOfSet DEF T

DiskOf(o) == [command |-> "DISK", count |-> o.count, size |-> o.size]
FormatFor(o) == [command |-> "FORMAT", dos |-> Detect(o)]
BootOf == [command |-> "BOOT", file |-> "boot.bin"]
HeaderSet(o) == {DiskOf(o), FormatFor(o), BootOf}

LEMMA WrittenFacts ==
    ASSUME IsDisk(d), Detect(d) \in Systems
    PROVE  /\ Header(Detect(d)) \o PropertyLines(Detect(d)) \in Seq(HeaderSet(d) \cup PropertyLineSet(d))
           /\ \A line \in HeaderSet(d) \cup PropertyLineSet(d) : IsTyped(line)
<1> DEFINE dos == Detect(d)
<1>1. Header(dos) \in Seq(HeaderSet(d))
  BY DEF Header, HeaderSet, DiskOf, FormatFor, BootOf
<1>2. PropertyLines(dos) \in Seq(PropertyLineSet(d))
  BY PropertyLinesFacts
<1>3. ASSUME NEW line \in HeaderSet(d) PROVE IsTyped(line)
  <2>1. /\ d.size \in Nat /\ d.size >= BOOT /\ d.count \in Nat /\ d.count >= DIR_SECTOR
    BY DiskFacts
  <2>2. QED
    BY <2>1 DEF HeaderSet, DiskOf, FormatFor, BootOf, IsTyped
<1>4. ASSUME NEW line \in PropertyLineSet(d) PROVE IsTyped(line)
  <2>1. PICK name \in DOMAIN Properties(dos) : line = PropertyLineOf(d, name)
    BY DEF PropertyLineSet
  <2>2. IsSector(d.data[1], BOOT)
    <3>1. 1 \in 1 .. d.count /\ SectorSize(d.size, 1) = BOOT
      BY DiskFacts, ScriptNumbers DEF SectorSize
    <3>2. QED
      BY <3>1, DiskFacts
  <2> DEFINE v == d.data[1][Properties(dos)[name]]
  <2>3. v \in Nat
    BY <2>2, PropertyPlace, ScriptNumbers, SectorBytes
  <2>4. line.command = "SET" /\ line.value = v
    BY <2>1 DEF PropertyLineOf
  <2> HIDE DEF v
  <2>5. QED
    BY <2>3, <2>4 DEF IsTyped
<1> HIDE DEF dos
<1> DEFINE A == HeaderSet(d)
           B == PropertyLineSet(d)
<1>5. Header(dos) \in Seq(A \cup B) /\ PropertyLines(dos) \in Seq(A \cup B)
  <2> HIDE DEF A, B
  <2>1. Header(dos) \in Seq(A) /\ PropertyLines(dos) \in Seq(B)
    BY <1>1, <1>2 DEF A, B
  <2> DEFINE x == Header(dos)
             y == PropertyLines(dos)
  <2> HIDE DEF x, y
  <2>2. \A S, T : S \subseteq T => Seq(S) \subseteq Seq(T)
    OBVIOUS
  <2>3. QED
    BY <2>1, <2>2
<1>6. Header(dos) \o PropertyLines(dos) \in Seq(A \cup B)
  <2> DEFINE x == Header(dos)
             y == PropertyLines(dos)
  <2> HIDE DEF x, y, A, B
  <2>1. x \in Seq(A \cup B) /\ y \in Seq(A \cup B)
    BY <1>5 DEF x, y
  <2>2. x \o y \in Seq(A \cup B)
    BY <2>1
  <2>3. QED
    BY <2>2 DEF x, y
<1>7. QED
  BY <1>3, <1>4, <1>6 DEF dos

BootFile(dk) == dk.data[1] \o dk.data[2] \o dk.data[3]
LEMMA BootFileFacts ==
    ASSUME NEW dk, IsDisk(dk)
    PROVE  BootFile(dk) \in Seq(Nat) /\ Len(BootFile(dk)) = 3 * BOOT /\ BootFile(dk) # <<>>
<1> DEFINE x == dk.data[1]
           y == dk.data[2]
           z == dk.data[3]
<1>1. IsSector(x, BOOT) /\ IsSector(y, BOOT) /\ IsSector(z, BOOT) /\ BOOT \in Nat /\ BOOT > 0
  <2>1. dk.count \in Nat /\ dk.count >= DIR_SECTOR /\ DIR_SECTOR \in Nat /\ DIR_SECTOR > 3
    BY DiskFacts, ScriptNumbers
  <2>2. 1 \in 1 .. dk.count /\ 2 \in 1 .. dk.count /\ 3 \in 1 .. dk.count
    BY <2>1
  <2>3. SectorSize(dk.size, 1) = BOOT /\ SectorSize(dk.size, 2) = BOOT /\ SectorSize(dk.size, 3) = BOOT
    BY DEF SectorSize
  <2>4. \A k \in 1 .. dk.count : IsSector(dk.data[k], SectorSize(dk.size, k))
    BY DiskFacts
  <2>5. IsSector(x, BOOT) /\ IsSector(y, BOOT) /\ IsSector(z, BOOT)
    BY <2>2, <2>3, <2>4
  <2>6. BOOT \in Nat /\ BOOT > 0
    BY ScriptNumbers
  <2>7. QED
    BY <2>5, <2>6
<1>2. BootFile(dk) = x \o y \o z
  BY DEF BootFile
<1> HIDE DEF x, y, z
<1>3. x \o y \in Seq(Nat) /\ Len(x \o y) = 2 * BOOT
  <2>1. x \in Seq(Nat) /\ y \in Seq(Nat) /\ Len(x) = BOOT /\ Len(y) = BOOT
    BY <1>1 DEF IsSector
  <2>2. x \o y \in Seq(Nat) /\ Len(x \o y) = Len(x) + Len(y)
    BY <2>1, ConcatProperties, Zenon
  <2>3. QED
    BY <1>1, <2>1, <2>2
<1>4. x \o y \o z \in Seq(Nat) /\ Len(x \o y \o z) = 3 * BOOT
  <2> DEFINE w == x \o y
  <2>1. w \in Seq(Nat) /\ Len(w) = 2 * BOOT
    BY <1>3
  <2> HIDE DEF w
  <2>2. z \in Seq(Nat) /\ Len(z) = BOOT
    BY <1>1 DEF IsSector
  <2>3. w \o z \in Seq(Nat) /\ Len(w \o z) = Len(w) + Len(z)
    BY <2>1, <2>2, ConcatProperties, Zenon
  <2>4. w \o z \in Seq(Nat) /\ Len(w \o z) = 3 * BOOT
    BY <1>1, <2>1, <2>2, <2>3
  <2>5. QED
    BY <2>4 DEF w
<1>5. QED
  BY <1>1, <1>2, <1>4

LEMMA DetectSystems ==
    ASSUME NEW disk PROVE Detect(disk) \in Systems \cup FormatsNotHere
BY DEF Detect, Systems, FormatsNotHere

LEMMA UnpackInv == ScriptInv /\ Unpack => ScriptInv'
<1> SUFFICES ASSUME ScriptTypes, Programs, Unpack PROVE ScriptTypes' /\ Programs'
  BY DEF ScriptInv
<1>1. phase = "loaded" /\ UNCHANGED <<cache, fs, taken, image, cut>>
  BY DEF Unpack
<1>2. d # NoDisk /\ DOMAIN cache = {} /\ fs = NoFs /\ boot_bin = <<>> /\ taken = <<>>
  BY <1>1 DEF Programs
<1>3. IsDisk(d)
  BY <1>2 DEF ScriptTypes, DiskTypes
<1>4. CASE Detect(d) \in FormatsNotHere
  <2>1. /\ phase' = "elsewhere"
        /\ UNCHANGED <<sector_size, sector_count, d, script, boot_bin, origin>>
    BY <1>4 DEF Unpack
  <2>2. ScriptTypes'
    BY <1>1, <2>1 DEF ScriptTypes, DiskTypes, FsTypes
  <2>3. Programs'
    BY <1>1, <2>1 DEF Programs, UserScript
  <2>4. QED
    BY <2>2, <2>3
<1>5. CASE Detect(d) \notin FormatsNotHere
  <2> DEFINE dos == Detect(d)
             T == HeaderSet(d) \cup PropertyLineSet(d)
  <2>1. /\ script' = Header(dos) \o PropertyLines(dos)
        /\ boot_bin' = BootFile(d) /\ origin' = d /\ d' = NoDisk
        /\ sector_size' = BOOT /\ sector_count' = SMALL + 1 /\ phase' = "script"
    BY <1>5 DEF Unpack, BootFile
  <2>2. dos \in Systems
    BY <1>5, DetectSystems
  <2>3. script' \in Seq(T) /\ \A line \in T : IsTyped(line)
    BY <1>3, <2>1, <2>2, WrittenFacts
  <2> HIDE DEF dos
  <2> HIDE DEF T
  <2>4. SizesTyped'
    BY <2>1, ScriptAssumption DEF SizesTyped, IsSize
  <2>5. DiskTypes'
    <3>1. CacheFits(cache', d')
      BY <1>1, <1>2, <2>1 DEF CacheFits, ScriptTypes, DiskTypes
    <3>2. QED
      BY <1>1, <1>2, <2>1, <3>1 DEF DiskTypes, FsTypes
  <2>6. boot_bin' \in Seq(Nat) /\ boot_bin' # <<>>
    BY <1>3, <2>1, BootFileFacts
  <2>7. ScriptTypes'
    BY <1>1, <2>1, <2>3, <2>4, <2>5, <2>6 DEF ScriptTypes, SizesTyped
  <2>8. Programs'
    BY <2>1, <2>6 DEF Programs, UserScript
  <2>9. QED
    BY <2>7, <2>8
<1>6. QED
  BY <1>4, <1>5

LEMMA ScriptStart == ScriptInit => ScriptInv
<1> SUFFICES ASSUME ScriptInit PROVE ScriptTypes /\ Programs
  BY DEF ScriptInv
<1>1. /\ sector_size = BOOT /\ sector_count = SMALL + 1
      /\ d = NoDisk /\ cache = [s \in {} |-> <<>>] /\ fs = NoFs
      /\ script = <<>> /\ taken = <<>> /\ boot_bin = <<>>
      /\ phase \in {"script", "saved"}
      /\ phase = "saved" => \E made \in Images : image = made.image
  BY DEF ScriptInit
<1>2. IsSize(sector_size, sector_count)
  BY <1>1, ScriptAssumption
<1>3. DiskTypes
  BY <1>1, EmptyFits DEF DiskTypes, FsTypes
<1>4. \E T : script \in Seq(T) /\ \A line \in T : IsTyped(line)
  <2>1. script \in Seq({}) /\ \A line \in {} : IsTyped(line)
    BY <1>1
  <2>2. QED
    BY <2>1
<1>5. ScriptTypes
  <2>1. taken \in Seq(Lines) /\ Len(taken) <= MaxLines /\ boot_bin \in Seq(Nat)
    BY <1>1, ScriptAssumption
  <2>2. QED
    BY <1>1, <1>2, <1>3, <1>4, <2>1 DEF ScriptTypes, IsSize
<1>6. Programs
  <2>1. phase = "saved" => IsImage(image)
    BY <1>1, ImagesAssumption
  <2>2. QED
    BY <1>1, <1>2, <2>1 DEF Programs
<1>7. QED
  BY <1>5, <1>6

LEMMA ScriptInvStep == ScriptInv /\ [ScriptNext]_scriptVars => ScriptInv'
<1> SUFFICES ASSUME ScriptInv, [ScriptNext]_scriptVars PROVE ScriptInv'
  OBVIOUS
<1>1. CASE Evict
  BY <1>1, EvictInv
<1>2. CASE NextLine
  BY <1>2, LineInv
<1>3. CASE SaveDisk
  BY <1>3, SaveInv
<1>4. CASE CutShort
  BY <1>4, CutInv
<1>5. CASE Load
  BY <1>5, LoadInv
<1>6. CASE Unpack
  BY <1>6, UnpackInv
<1>7. CASE UNCHANGED scriptVars
  <2>1. UNCHANGED <<sector_size, sector_count, d, cache, fs, script, taken, boot_bin, image,
                    origin, cut, phase>>
    BY <1>7 DEF scriptVars
  <2>2. ScriptTypes'
    BY <2>1 DEF ScriptInv, ScriptTypes, DiskTypes, FsTypes
  <2>3. Programs'
    BY <2>1 DEF ScriptInv, Programs, UserScript
  <2>4. QED
    BY <2>2, <2>3 DEF ScriptInv
<1>8. QED
  BY <1>1, <1>2, <1>3, <1>4, <1>5, <1>6, <1>7 DEF ScriptNext

LEMMA ScriptInvTypes == ScriptInv => ScriptTypeOK
<1> SUFFICES ASSUME ScriptTypes PROVE ScriptTypeOK
  BY DEF ScriptInv
<1>1. CacheFits(cache, d)
  BY DEF ScriptTypes, DiskTypes
<1>2. DOMAIN cache \subseteq DOMAIN d.data
  <2>1. CASE d = NoDisk
    <3>1. DOMAIN cache = {}
      BY <2>1, DiskSeen
    <3>2. QED
      BY <3>1
  <2>2. CASE d # NoDisk
    <3>1. IsDisk(d)
      BY <2>2 DEF ScriptTypes, DiskTypes
    <3>2. QED
      BY <1>1, <3>1, DiskFacts DEF CacheFits
  <2>3. QED
    BY <2>1, <2>2
<1>3. \A s \in DOMAIN cache : Len(cache[s]) = SectorSize(d.size, s)
  BY <1>1 DEF CacheFits, IsSector
<1>4. d # NoDisk => \A s \in 1 .. d.count : Len(d.data[s]) = SectorSize(d.size, s)
  BY DEF ScriptTypes, DiskTypes, IsDisk
<1>5. fs # NoFs => fs.name \in {"2", "2.5", "II+", "xdos", "mydos"} /\ d # NoDisk
  BY DEF ScriptTypes, DiskTypes, FsTypes, Systems
<1>6. sector_size \in Nat /\ sector_count \in Nat /\ Len(taken) <= MaxLines
      /\ phase \in {"script", "saved", "loaded", "again", "elsewhere", "error", "crash"}
  BY DEF ScriptTypes
<1>7. QED
  BY <1>2, <1>3, <1>4, <1>5, <1>6 DEF ScriptTypeOK

(***************************************************************************)
(* Whatever the lines of a script and whichever the images, sectors have   *)
(* their sizes, the cache holds sectors of the disk only, and a file       *)
(* system has its disk.                                                    *)
(***************************************************************************)
THEOREM ScriptTypesKept == ScriptSpec => []ScriptTypeOK
<1>1. ScriptSpec => []ScriptInv
  BY ScriptStart, ScriptInvStep, PTL DEF ScriptSpec
<1>2. QED
  BY <1>1, ScriptInvTypes, PTL

-----------------------------------------------------------------------------
(* What the lines of a script say.  One line after the other.              *)
SaidAfter(g, n, lines, size) ==
    g = [k \in 0 .. n |-> IF k = 0 THEN Zeros(size)
                          ELSE Said(g[k - 1], SubSeq(lines, 1, k), size)]

LEMMA SaidExists ==
    ASSUME NEW lines, NEW size, NEW n \in Nat PROVE \E g : SaidAfter(g, n, lines, size)
<1> DEFINE S == {k \in Nat : \E g : SaidAfter(g, k, lines, size)}
           said(x, k) == Said(x, SubSeq(lines, 1, k), size)
           z == Zeros(size)
<1>1. \A g, k : SaidAfter(g, k, lines, size) <=>
                    g = [j \in 0 .. k |-> IF j = 0 THEN z ELSE said(g[j - 1], j)]
  BY DEF SaidAfter
<1> HIDE DEF said, z
<1>2. 0 \in S
  <2> DEFINE g == [j \in 0 .. 0 |-> z]
  <2>1. g = [j \in 0 .. 0 |-> IF j = 0 THEN z ELSE said(g[j - 1], j)]
    <3>1. \A j \in 0 .. 0 : j = 0
      OBVIOUS
    <3>2. QED
      BY <3>1
  <2>2. SaidAfter(g, 0, lines, size)
    BY <1>1, <2>1
  <2>3. QED
    BY <2>2
<1>3. ASSUME NEW k \in Nat, k \in S PROVE k + 1 \in S
  <2>1. PICK g : SaidAfter(g, k, lines, size)
    BY <1>3
  <2>2. g = [j \in 0 .. k |-> IF j = 0 THEN z ELSE said(g[j - 1], j)]
    BY <1>1, <2>1
  <2> DEFINE m == k + 1
             h == [j \in 0 .. m |-> IF j = m THEN said(g[k], m) ELSE g[j]]
  <2>3. m \in Nat /\ m # 0 /\ m - 1 = k /\ k \in 0 .. m /\ k # m
    OBVIOUS
  <2>4. ASSUME NEW j \in 0 .. m PROVE h[j] = IF j = 0 THEN z ELSE said(h[j - 1], j)
    <3>1. CASE j = m
      BY <2>3, <3>1
    <3>2. CASE j # m
      <4>1. j \in 0 .. k /\ h[j] = g[j] /\ (j # 0 => j - 1 \in 0 .. m /\ j - 1 # m)
        BY <2>3, <3>2
      <4>2. g[j] = IF j = 0 THEN z ELSE said(g[j - 1], j)
        BY <2>2, <4>1
      <4>3. j # 0 => h[j - 1] = g[j - 1]
        BY <4>1
      <4>4. QED
        BY <4>1, <4>2, <4>3
    <3>3. QED
      BY <3>1, <3>2
  <2>5. h = [j \in 0 .. m |-> h[j]]
    OBVIOUS
  <2> HIDE DEF h
  <2>6. h = [j \in 0 .. m |-> IF j = 0 THEN z ELSE said(h[j - 1], j)]
    BY <2>4, <2>5
  <2>7. SaidAfter(h, m, lines, size)
    BY <1>1, <2>6
  <2>8. QED
    BY <2>3, <2>7
<1> HIDE DEF S
<1>4. Nat \subseteq S
  BY <1>2, <1>3, NatSetInduction
<1>5. QED
  BY <1>4 DEF S

LEMMA SaidByFacts ==
    ASSUME NEW X, NEW lines \in Seq(X), NEW size
    PROVE  \E g : SaidAfter(g, Len(lines), lines, size) /\ SaidBy(lines, size) = g[Len(lines)]
<1> DEFINE n == Len(lines)
           after == CHOOSE g : g = [k \in 0 .. n |-> IF k = 0 THEN Zeros(size)
                                        ELSE Said(g[k - 1], SubSeq(lines, 1, k), size)]
<1>1. SaidBy(lines, size) = after[n]
  BY DEF SaidBy, Zeros
<1>2. n \in Nat
  OBVIOUS
<1> HIDE DEF n
<1>3. \E g : SaidAfter(g, n, lines, size)
  BY <1>2, SaidExists
<1>4. SaidAfter(after, n, lines, size)
  BY <1>3 DEF SaidAfter
<1> HIDE DEF after
<1>5. QED
  BY <1>1, <1>4 DEF n

LEMMA SaidEmpty == \A size : SaidBy(<<>>, size) = Zeros(size)
<1>1. ASSUME NEW size PROVE SaidBy(<<>>, size) = Zeros(size)
  <2>1. <<>> \in Seq({}) /\ Len(<<>>) = 0
    OBVIOUS
  <2>2. PICK g : SaidAfter(g, 0, <<>>, size) /\ SaidBy(<<>>, size) = g[0]
    BY <2>1, SaidByFacts
  <2>3. g[0] = Zeros(size)
    BY <2>2 DEF SaidAfter
  <2>4. QED
    BY <2>2, <2>3
<1>2. QED
  BY <1>1

(* The sectors told apart.                                                 *)
AreSectors(x) == x = [s \in 1 .. DIR_SECTOR |-> x[s]]

LEMMA SaidSectors ==
    ASSUME NEW x, AreSectors(x), NEW lines, NEW size PROVE AreSectors(Said(x, lines, size))
<1> DEFINE D == 1 .. DIR_SECTOR
           line == Last(lines)
<1>1. x = [s \in D |-> x[s]]
  BY DEF AreSectors
<1> HIDE DEF D
<1>2. DOMAIN x = D
  BY <1>1
<1> DEFINE y == Said(x, lines, size)
<1>3. CASE line.command = "BOOT"
  <2>1. y = [s \in DOMAIN x |->
                    IF s \notin BootSectors THEN x[s]
                    ELSE [p \in 1 .. BOOT |->
                            IF (s - 1) * BOOT + p <= Len(line.bytes)
                            THEN line.bytes[(s - 1) * BOOT + p] ELSE x[s][p]]]
    BY <1>3 DEF Said
  <2> HIDE DEF y
  <2>2. y = [s \in D |-> y[s]]
    BY <1>2, <2>1
  <2>3. QED
    BY <2>2 DEF AreSectors, D, y
<1>4. CASE line.command = "SET"
  <2>1. y = [x EXCEPT ![1][Properties(FormatOf(lines))[line.property]] = line.value]
    BY <1>4 DEF Said
  <2> HIDE DEF y
  <2>2. y = [s \in D |-> y[s]]
    BY <1>2, <2>1
  <2>3. QED
    BY <2>2 DEF AreSectors, D, y
<1>5. CASE line.command = "FORMAT"
  <2>1. \E v, w : y = [x EXCEPT ![VTOC_SECTOR] = v, ![DIR_SECTOR] = w]
    <3>1. y = [x EXCEPT ![VTOC_SECTOR] = FormattedTable(FormatOf(lines), size),
                        ![DIR_SECTOR] = [p \in 1 .. size |-> 0]]
      BY <1>5 DEF Said
    <3> HIDE DEF y
    <3>2. QED
      BY <3>1
  <2> HIDE DEF y
  <2>2. y = [s \in D |-> y[s]]
    BY <1>2, <2>1
  <2>3. QED
    BY <2>2 DEF AreSectors, D, y
<1>6. CASE line.command = "FILE"
  <2>1. \E u, v, w : y = [x EXCEPT ![VTOC_SECTOR] = u, ![DIR_SECTOR] = v, ![1] = w]
    <3>1. y = [x EXCEPT ![VTOC_SECTOR] = OneMore(x[VTOC_SECTOR], 3),
                        ![DIR_SECTOR] = OneMore(x[DIR_SECTOR], 1),
                        ![1] = IF line.dos THEN WithDosFile(x[1], FormatOf(lines), line.first)
                               ELSE x[1]]
      BY <1>6 DEF Said
    <3> HIDE DEF y
    <3>2. QED
      BY <3>1
  <2> HIDE DEF y
  <2>2. y = [s \in D |-> y[s]]
    BY <1>2, <2>1
  <2>3. QED
    BY <2>2 DEF AreSectors, D, y
<1>7. CASE line.command \notin {"BOOT", "SET", "FORMAT", "FILE"}
  <2>1. y = x
    BY <1>7 DEF Said
  <2>2. QED
    BY <2>1
<1>8. QED
  BY <1>3, <1>4, <1>5, <1>6, <1>7

LEMMA SaidTyped ==
    ASSUME NEW X, NEW lines \in Seq(X), NEW size PROVE AreSectors(SaidBy(lines, size))
<1> DEFINE n == Len(lines)
<1>1. PICK g : SaidAfter(g, n, lines, size) /\ SaidBy(lines, size) = g[n]
  BY SaidByFacts
<1>2. n \in Nat
  OBVIOUS
<1> HIDE DEF n
<1>3. /\ \A k \in 0 .. n : g[k] = IF k = 0 THEN Zeros(size)
                                  ELSE Said(g[k - 1], SubSeq(lines, 1, k), size)
  BY <1>1 DEF SaidAfter
<1> DEFINE S == {k \in Nat : k <= n => AreSectors(g[k])}
<1>4. 0 \in S
  <2>1. g[0] = Zeros(size)
    BY <1>2, <1>3
  <2>2. AreSectors(Zeros(size))
    <3> DEFINE z == Zeros(size)
               D == 1 .. DIR_SECTOR
    <3>1. z = [s \in D |-> z[s]]
      BY DEF Zeros
    <3> HIDE DEF z, D
    <3>2. QED
      BY <3>1 DEF AreSectors, z, D
  <2>3. QED
    BY <2>1, <2>2
<1>5. ASSUME NEW k \in Nat, k \in S PROVE k + 1 \in S
  <2>1. SUFFICES ASSUME k + 1 <= n PROVE AreSectors(g[k + 1])
    OBVIOUS
  <2> DEFINE j == k + 1
  <2>2. j \in 0 .. n /\ j # 0 /\ j - 1 = k /\ AreSectors(g[k])
    BY <1>2, <1>5, <2>1
  <2> HIDE DEF j
  <2>3. g[j] = Said(g[k], SubSeq(lines, 1, j), size)
    BY <1>3, <2>2
  <2>4. AreSectors(g[j])
    BY <2>2, <2>3, SaidSectors
  <2>5. QED
    BY <2>4 DEF j
<1> HIDE DEF S
<1>6. Nat \subseteq S
  BY <1>4, <1>5, NatSetInduction
<1>7. AreSectors(g[n])
  BY <1>2, <1>6 DEF S
<1>8. QED
  BY <1>1, <1>7

LEMMA SaidAppend ==
    ASSUME NEW X, NEW lines \in Seq(X), NEW line \in X, NEW size
    PROVE  SaidBy(Append(lines, line), size) =
                Said(SaidBy(lines, size), Append(lines, line), size)
<1> DEFINE n == Len(lines)
           m == n + 1
           more == Append(lines, line)
<1>1. more \in Seq(X) /\ Len(more) = m /\ n \in Nat
  OBVIOUS
<1>2. \A k \in 1 .. n : SubSeq(more, 1, k) = SubSeq(lines, 1, k)
  OBVIOUS
<1>3. SubSeq(more, 1, m) = more
  <2> HIDE DEF more
  <2>1. QED
    BY <1>1
<1>4. PICK g : SaidAfter(g, n, lines, size) /\ SaidBy(lines, size) = g[n]
  BY SaidByFacts
<1> HIDE DEF more
<1>5. PICK h : SaidAfter(h, m, more, size) /\ SaidBy(more, size) = h[m]
  BY <1>1, SaidByFacts
<1> HIDE DEF n
<1>6. \A k \in 0 .. n : g[k] = IF k = 0 THEN Zeros(size)
                               ELSE Said(g[k - 1], SubSeq(lines, 1, k), size)
  BY <1>4 DEF SaidAfter
<1>7. \A k \in 0 .. m : h[k] = IF k = 0 THEN Zeros(size)
                               ELSE Said(h[k - 1], SubSeq(more, 1, k), size)
  BY <1>5 DEF SaidAfter
<1> DEFINE S == {k \in Nat : k <= n => h[k] = g[k]}
<1>8. 0 \in S
  <2>1. 0 \in 0 .. n /\ 0 \in 0 .. m
    BY <1>1
  <2>2. QED
    BY <1>6, <1>7, <2>1
<1>9. ASSUME NEW k \in Nat, k \in S PROVE k + 1 \in S
  <2>1. SUFFICES ASSUME k + 1 <= n PROVE h[k + 1] = g[k + 1]
    OBVIOUS
  <2> DEFINE j == k + 1
  <2>2. j \in 0 .. n /\ j \in 0 .. m /\ j # 0 /\ j - 1 = k /\ h[k] = g[k] /\ j \in 1 .. n
    BY <1>1, <1>9, <2>1
  <2> HIDE DEF j, m
  <2>3. g[j] = Said(g[k], SubSeq(lines, 1, j), size)
    BY <1>6, <2>2
  <2>4. h[j] = Said(h[k], SubSeq(more, 1, j), size)
    BY <1>7, <2>2
  <2>5. SubSeq(more, 1, j) = SubSeq(lines, 1, j)
    BY <1>2, <2>2
  <2>6. QED
    BY <2>2, <2>3, <2>4, <2>5 DEF j
<1> HIDE DEF S
<1>10. Nat \subseteq S
  BY <1>8, <1>9, NatSetInduction
<1>11. h[n] = g[n]
  BY <1>1, <1>10 DEF S
<1>12. m \in 0 .. m /\ m # 0 /\ m - 1 = n
  BY <1>1
<1> HIDE DEF m
<1>13. h[m] = Said(h[n], more, size)
  BY <1>3, <1>7, <1>12
<1>14. QED
  BY <1>4, <1>5, <1>11, <1>13 DEF more

(* The last FORMAT.                                                        *)
LEMMA GreatestNat ==
    ASSUME NEW n \in Nat, NEW T, T \subseteq 0 .. n, T # {}
    PROVE  \E x \in T : \A y \in T : y <= x
<1> DEFINE R == {n - x : x \in T}
<1>1. R \subseteq Nat /\ R # {}
  <2>1. \A x \in T : n - x \in Nat
    OBVIOUS
  <2>2. QED
    BY <2>1
<1>2. PICK r \in R : \A y \in R : r <= y
  <2> HIDE DEF R
  <2>1. QED
    BY <1>1, LeastNat
<1>3. PICK x \in T : r = n - x
  OBVIOUS
<1>4. ASSUME NEW y \in T PROVE y <= x
  <2>1. n - y \in R
    OBVIOUS
  <2>2. n - x <= n - y
    BY <1>2, <1>3, <2>1
  <2>3. x \in Nat /\ y \in Nat
    OBVIOUS
  <2>4. QED
    BY <2>2, <2>3
<1>5. QED
  BY <1>4

IsLastFormat(lines, k) ==
    /\ k \in DOMAIN lines /\ lines[k].command = "FORMAT"
    /\ \A j \in DOMAIN lines : lines[j].command = "FORMAT" => j <= k

LEMMA LastFormat ==
    ASSUME NEW X, NEW lines \in Seq(X), NEW k, IsLastFormat(lines, k)
    PROVE  FormatOf(lines) = Installed(lines[k].dos)
<1> DEFINE S == {j \in DOMAIN lines : lines[j].command = "FORMAT"}
<1>1. k \in S /\ S \subseteq Nat /\ \A j \in S : k >= j
  BY DEF IsLastFormat
<1>2. FormatOf(lines) = IF S = {} THEN "" ELSE Installed(lines[Max(S)].dos)
  BY DEF FormatOf
<1> HIDE DEF S
<1>3. Max(S) = k
  <2>1. Max(S) \in S /\ \A j \in S : Max(S) >= j
    BY <1>1 DEF Max
  <2> DEFINE m == Max(S)
  <2>2. m \in Nat /\ k \in Nat /\ m >= k /\ k >= m
    BY <1>1, <2>1
  <2> HIDE DEF m
  <2>3. m = k
    BY <2>2
  <2>4. QED
    BY <2>3 DEF m
<1>4. QED
  BY <1>1, <1>2, <1>3

LEMMA FormatCases ==
    ASSUME NEW X, NEW lines \in Seq(X)
    PROVE  \/ \E k : IsLastFormat(lines, k)
           \/ /\ \A j \in DOMAIN lines : lines[j].command # "FORMAT"
              /\ FormatOf(lines) = ""
<1> DEFINE S == {j \in DOMAIN lines : lines[j].command = "FORMAT"}
           n == Len(lines)
<1>1. CASE S = {}
  BY <1>1 DEF FormatOf
<1>2. CASE S # {}
  <2>1. n \in Nat /\ S \subseteq 0 .. n
    OBVIOUS
  <2>2. \E k \in S : \A j \in S : j <= k
    <3> HIDE DEF S, n
    <3>1. QED
      BY <1>2, <2>1, GreatestNat
  <2>3. QED
    BY <2>2 DEF IsLastFormat
<1>3. QED
  BY <1>1, <1>2

LEMMA FormatAppend ==
    ASSUME NEW X, NEW lines \in Seq(X), NEW line \in X
    PROVE  FormatOf(Append(lines, line)) =
                IF line.command = "FORMAT" THEN Installed(line.dos) ELSE FormatOf(lines)
<1> DEFINE more == Append(lines, line)
           m == Len(lines) + 1
<1>1. /\ more \in Seq(X) /\ m \in DOMAIN more /\ more[m] = line
      /\ DOMAIN lines = DOMAIN more \ {m}
      /\ \A j \in DOMAIN lines : more[j] = lines[j]
      /\ \A j \in DOMAIN more : j <= m
  <2>1. more \in Seq(X) /\ Len(more) = m /\ DOMAIN more = 1 .. m /\ DOMAIN lines = 1 .. m - 1
        /\ m \in Nat /\ m >= 1
    OBVIOUS
  <2>2. more[m] = line /\ \A j \in 1 .. m - 1 : more[j] = lines[j]
    OBVIOUS
  <2> HIDE DEF more, m
  <2>3. m \in 1 .. m /\ 1 .. m - 1 = (1 .. m) \ {m} /\ \A j \in 1 .. m : j <= m
    BY <2>1
  <2>4. QED
    BY <2>1, <2>2, <2>3
<1> HIDE DEF more, m
<1>2. CASE line.command = "FORMAT"
  <2>1. IsLastFormat(more, m)
    BY <1>1, <1>2 DEF IsLastFormat
  <2>2. QED
    BY <1>1, <1>2, <2>1, LastFormat DEF more
<1>3. CASE line.command # "FORMAT"
  <2>1. ASSUME NEW k, IsLastFormat(lines, k) PROVE FormatOf(more) = FormatOf(lines)
    <3>1. IsLastFormat(more, k) /\ more[k] = lines[k]
      BY <1>1, <1>3, <2>1 DEF IsLastFormat
    <3>2. FormatOf(more) = Installed(more[k].dos)
      BY <1>1, <3>1, LastFormat
    <3>3. FormatOf(lines) = Installed(lines[k].dos)
      BY <2>1, LastFormat
    <3>4. QED
      BY <3>1, <3>2, <3>3
  <2>2. ASSUME \A j \in DOMAIN lines : lines[j].command # "FORMAT"
        PROVE  FormatOf(more) = "" /\ FormatOf(lines) = ""
    <3>1. \A j \in DOMAIN more : more[j].command # "FORMAT"
      BY <1>1, <1>3, <2>2
    <3>2. QED
      BY <2>2, <3>1 DEF FormatOf
  <2>3. QED
    BY <1>3, <2>1, <2>2, FormatCases DEF more
<1>4. QED
  BY <1>2, <1>3 DEF more

(* When only DOS 2.5 has been formatted with.                              *)
LEMMA PastFormats ==
    ASSUME taken \in Seq(Lines), OnlyPast, FormatOf(taken) # ""
    PROVE  FormatOf(taken) = "2.5"
<1>1. PICK k : IsLastFormat(taken, k)
  BY FormatCases
<1>2. FormatOf(taken) = Installed(taken[k].dos)
  BY <1>1, LastFormat
<1>3. WritesPast(Installed(taken[k].dos))
  BY <1>1 DEF IsLastFormat, OnlyPast
<1>4. QED
  BY <1>2, <1>3 DEF WritesPast

LEMMA InOrderPast ==
    ASSUME taken \in Seq(Lines), FormatsInOrder, FormatOf(taken) = "2.5"
    PROVE  OnlyPast
<1>1. PICK k : IsLastFormat(taken, k)
  BY FormatCases
<1>2. FormatOf(taken) = Installed(taken[k].dos)
  BY <1>1, LastFormat
<1>3. WritesPast(Installed(taken[k].dos)) /\ k \in DOMAIN taken /\ taken[k].command = "FORMAT"
  BY <1>1, <1>2 DEF IsLastFormat, WritesPast
<1>4. ASSUME NEW j \in DOMAIN taken, taken[j].command = "FORMAT"
      PROVE  WritesPast(Installed(taken[j].dos))
  <2>1. j \in Nat /\ k \in Nat /\ j <= k
    BY <1>1, <1>3, <1>4 DEF IsLastFormat
  <2>2. CASE j = k
    BY <1>3, <2>2
  <2>3. CASE j < k
    BY <1>3, <1>4, <2>3 DEF FormatsInOrder
  <2>4. QED
    BY <2>1, <2>2, <2>3
<1>5. QED
  BY <1>4 DEF OnlyPast

(* Another line: what held of all lines still holds of those before it.    *)
LEMMA TakenMore ==
    ASSUME taken \in Seq(Lines), NEW line \in Lines, taken' = Append(taken, line)
    PROVE  /\ OnlyPast' => OnlyPast /\ (line.command = "FORMAT" => WritesPast(Installed(line.dos)))
           /\ NoFile' => NoFile /\ line.command # "FILE"
           /\ FormatsInOrder' => FormatsInOrder
           /\ FormatsInOrder' /\ line.command = "FORMAT" =>
                NoFile /\ (WritesPast(Installed(line.dos)) => OnlyPast)
           /\ \A k \in DOMAIN taken' : taken'[k] = line \/ \E j \in DOMAIN taken : taken'[k] = taken[j]
<1> DEFINE m == Len(taken) + 1
<1>1. /\ m \in DOMAIN taken' /\ taken'[m] = line
      /\ \A j \in DOMAIN taken : j \in DOMAIN taken' /\ taken'[j] = taken[j] /\ j < m
      /\ \A j \in DOMAIN taken' : j = m \/ j \in DOMAIN taken
  OBVIOUS
<1> HIDE DEF m
<1>2. OnlyPast' => OnlyPast /\ (line.command = "FORMAT" => WritesPast(Installed(line.dos)))
  BY <1>1 DEF OnlyPast
<1>3. NoFile' => NoFile /\ line.command # "FILE"
  BY <1>1 DEF NoFile
<1>4. FormatsInOrder' => FormatsInOrder
  BY <1>1 DEF FormatsInOrder
<1>5. FormatsInOrder' /\ line.command = "FORMAT" =>
                NoFile /\ (WritesPast(Installed(line.dos)) => OnlyPast)
  BY <1>1 DEF FormatsInOrder, NoFile, OnlyPast
<1>6. \A k \in DOMAIN taken' : taken'[k] = line \/ \E j \in DOMAIN taken : taken'[k] = taken[j]
  BY <1>1
<1>7. QED
  BY <1>2, <1>3, <1>4, <1>5, <1>6

(* What the last line says.                                                *)
LEMMA SaidLast ==
    ASSUME NEW X, NEW lines \in Seq(X), NEW line \in X
    PROVE  Last(Append(lines, line)) = line
BY DEF Last

LEMMA DiskSaid ==
    ASSUME NEW line \in Lines, taken \in Seq(Lines), line.command = "DISK", NEW size
    PROVE  SaidBy(Append(taken, line), size) = SaidBy(taken, size)
<1> DEFINE x == SaidBy(taken, size)
           more == Append(taken, line)
<1>1. SaidBy(more, size) = Said(x, more, size) /\ Last(more) = line
  BY SaidAppend, SaidLast
<1> HIDE DEF x, more
<1>2. Said(x, more, size) = x
  BY <1>1 DEF Said
<1>3. QED
  BY <1>1, <1>2 DEF x, more

FormatSays(line, size) ==
    LET x == SaidBy(taken, size)
        y == SaidBy(Append(taken, line), size)
    IN  /\ \A s \in BootSectors : y[s] = x[s]
        /\ y[VTOC_SECTOR] = FormattedTable(Installed(line.dos), size)
        /\ y[DIR_SECTOR] = [p \in 1 .. size |-> 0]

LEMMA FormatSaid ==
    ASSUME NEW line \in Lines, taken \in Seq(Lines), line.command = "FORMAT", NEW size
    PROVE  FormatSays(line, size)
<1> DEFINE x == SaidBy(taken, size)
           more == Append(taken, line)
           y == SaidBy(more, size)
           D == 1 .. DIR_SECTOR
           v == FormattedTable(Installed(line.dos), size)
           w == [p \in 1 .. size |-> 0]
<1>1. /\ y = Said(x, more, size) /\ Last(more) = line /\ AreSectors(x)
      /\ FormatOf(more) = Installed(line.dos)
  <2>1. y = Said(x, more, size)
    BY SaidAppend
  <2>2. AreSectors(x)
    BY SaidTyped
  <2>3. FormatOf(more) = Installed(line.dos)
    BY FormatAppend
  <2>4. QED
    BY <2>1, <2>2, <2>3, SaidLast
<1>2. D \subseteq Nat /\ VTOC_SECTOR \in D /\ DIR_SECTOR \in D
      /\ VTOC_SECTOR # DIR_SECTOR
      /\ \A s \in BootSectors : s \in D /\ s # VTOC_SECTOR /\ s # DIR_SECTOR
  BY ScriptNumbers
<1> HIDE DEF x, more, y
<1>3. y = [x EXCEPT ![VTOC_SECTOR] = v, ![DIR_SECTOR] = w]
  BY <1>1 DEF Said
<1>4. x = [s \in D |-> x[s]]
  BY <1>1 DEF AreSectors
<1> HIDE DEF D, v, w
<1>5. /\ \A s \in BootSectors : y[s] = x[s]
      /\ y[VTOC_SECTOR] = v /\ y[DIR_SECTOR] = w
  BY <1>2, <1>3, <1>4
<1>6. QED
  BY <1>5 DEF x, y, more, v, w, FormatSays

LEMMA BootSaid ==
    ASSUME NEW line \in Lines, taken \in Seq(Lines), line.command = "BOOT", NEW size
    PROVE  LET x == SaidBy(taken, size)
               y == SaidBy(Append(taken, line), size)
           IN  /\ \A s \in BootSectors :
                    y[s] = [p \in 1 .. BOOT |->
                            IF (s - 1) * BOOT + p <= Len(line.bytes)
                            THEN line.bytes[(s - 1) * BOOT + p] ELSE x[s][p]]
               /\ y[VTOC_SECTOR] = x[VTOC_SECTOR] /\ y[DIR_SECTOR] = x[DIR_SECTOR]
<1> DEFINE x == SaidBy(taken, size)
           more == Append(taken, line)
           y == SaidBy(more, size)
           D == 1 .. DIR_SECTOR
           boot(s) == [p \in 1 .. BOOT |->
                            IF (s - 1) * BOOT + p <= Len(line.bytes)
                            THEN line.bytes[(s - 1) * BOOT + p] ELSE x[s][p]]
<1>1. /\ y = Said(x, more, size) /\ Last(more) = line /\ AreSectors(x)
  <2>1. y = Said(x, more, size)
    BY SaidAppend
  <2>2. AreSectors(x)
    BY SaidTyped
  <2>3. QED
    BY <2>1, <2>2, SaidLast
<1>2. D \subseteq Nat /\ VTOC_SECTOR \in D /\ DIR_SECTOR \in D
      /\ VTOC_SECTOR \notin BootSectors /\ DIR_SECTOR \notin BootSectors
      /\ \A s \in BootSectors : s \in D
  BY ScriptNumbers
<1> HIDE DEF more, y
<1>3. y = [s \in DOMAIN x |-> IF s \notin BootSectors THEN x[s] ELSE boot(s)]
  BY <1>1 DEF Said
<1> HIDE DEF x
<1>4. DOMAIN x = D
  BY <1>1 DEF AreSectors
<1> HIDE DEF D, boot
<1>5. /\ \A s \in BootSectors : y[s] = boot(s)
      /\ y[VTOC_SECTOR] = x[VTOC_SECTOR] /\ y[DIR_SECTOR] = x[DIR_SECTOR]
  BY <1>2, <1>3, <1>4
<1>6. QED
  BY <1>5 DEF x, y, more, boot

LEMMA SetSaid ==
    ASSUME NEW line \in Lines, taken \in Seq(Lines), line.command = "SET", NEW size
    PROVE  LET x == SaidBy(taken, size)
               y == SaidBy(Append(taken, line), size)
           IN  /\ y[1] = [x[1] EXCEPT ![Properties(FormatOf(taken))[line.property]] = line.value]
               /\ \A s \in 1 .. DIR_SECTOR : s # 1 => y[s] = x[s]
<1> DEFINE x == SaidBy(taken, size)
           more == Append(taken, line)
           y == SaidBy(more, size)
           D == 1 .. DIR_SECTOR
           q == Properties(FormatOf(taken))[line.property]
           u == [x[1] EXCEPT ![q] = line.value]
<1>1. /\ y = Said(x, more, size) /\ Last(more) = line /\ AreSectors(x)
      /\ FormatOf(more) = FormatOf(taken)
  <2>1. y = Said(x, more, size)
    BY SaidAppend
  <2>2. AreSectors(x)
    BY SaidTyped
  <2>3. FormatOf(more) = FormatOf(taken)
    BY FormatAppend
  <2>4. QED
    BY <2>1, <2>2, <2>3, SaidLast
<1>2. 1 \in D
  BY ScriptNumbers
<1> HIDE DEF x, more, y
<1>3. y = [x EXCEPT ![1][q] = line.value]
  BY <1>1 DEF Said
<1>4. y = [x EXCEPT ![1] = u]
  BY <1>3
<1>5. x = [s \in D |-> x[s]]
  BY <1>1 DEF AreSectors
<1> HIDE DEF D, u
<1>6. y[1] = u /\ \A s \in D : s # 1 => y[s] = x[s]
  BY <1>2, <1>4, <1>5
<1>7. QED
  BY <1>6 DEF x, y, more, u, D

LEMMA FileSaid ==
    ASSUME NEW line \in Lines, taken \in Seq(Lines), line.command = "FILE", NEW size
    PROVE  LET x == SaidBy(taken, size)
               y == SaidBy(Append(taken, line), size)
           IN  /\ y[1] = IF line.dos THEN WithDosFile(x[1], FormatOf(taken), line.first) ELSE x[1]
               /\ \A s \in BootSectors : s # 1 => y[s] = x[s]
               /\ y[VTOC_SECTOR] = OneMore(x[VTOC_SECTOR], 3)
               /\ y[DIR_SECTOR] = OneMore(x[DIR_SECTOR], 1)
<1> DEFINE x == SaidBy(taken, size)
           more == Append(taken, line)
           y == SaidBy(more, size)
           D == 1 .. DIR_SECTOR
           u == IF line.dos THEN WithDosFile(x[1], FormatOf(taken), line.first) ELSE x[1]
           v == OneMore(x[VTOC_SECTOR], 3)
           w == OneMore(x[DIR_SECTOR], 1)
<1>1. /\ y = Said(x, more, size) /\ Last(more) = line /\ AreSectors(x)
      /\ FormatOf(more) = FormatOf(taken)
  <2>1. y = Said(x, more, size)
    BY SaidAppend
  <2>2. AreSectors(x)
    BY SaidTyped
  <2>3. FormatOf(more) = FormatOf(taken)
    BY FormatAppend
  <2>4. QED
    BY <2>1, <2>2, <2>3, SaidLast
<1>2. D \subseteq Nat /\ VTOC_SECTOR \in D /\ DIR_SECTOR \in D /\ 1 \in D
      /\ VTOC_SECTOR # DIR_SECTOR /\ VTOC_SECTOR # 1 /\ DIR_SECTOR # 1
      /\ \A s \in BootSectors : s \in D /\ s # VTOC_SECTOR /\ s # DIR_SECTOR
  BY ScriptNumbers
<1> HIDE DEF x, more, y
<1>3. y = [x EXCEPT ![VTOC_SECTOR] = v, ![DIR_SECTOR] = w, ![1] = u]
  BY <1>1 DEF Said
<1>4. x = [s \in D |-> x[s]]
  BY <1>1 DEF AreSectors
<1> HIDE DEF D, u, v, w
<1>5. /\ y[1] = u /\ \A s \in BootSectors : s # 1 => y[s] = x[s]
      /\ y[VTOC_SECTOR] = v /\ y[DIR_SECTOR] = w
  BY <1>2, <1>3, <1>4
<1>6. QED
  BY <1>5 DEF x, y, more, u, v, w

-----------------------------------------------------------------------------
(* Each line of a user's script does to the disk what it says.             *)
Turn == InTurn /\ TablesInTurn
TablesSeen ==
    /\ Through(VTOC_SECTOR) = SaidBy(taken, Disk.size)[VTOC_SECTOR]
    /\ Through(DIR_SECTOR) = SaidBy(taken, Disk.size)[DIR_SECTOR]
    /\ fs.name = "2.5" => d.data[VTOC_SECTOR] = fs.vtoc_buf
    /\ NoFile => Through(DIR_SECTOR) = Zeros(Disk.size)[DIR_SECTOR]
TurnSeen ==
    /\ \A s \in BootSectors : Through(s) = SaidBy(taken, Disk.size)[s]
    /\ FormatsInOrder => TablesSeen

(* What the next line finds, on a disk not made yet too.                   *)
LEMMA BeforeLine ==
    ASSUME ScriptTypes, Turn PROVE TurnSeen
<1>1. CASE d # NoDisk
  <2>1. Disk = d
    BY <1>1, DiskSeen
  <2>2. \A s \in BootSectors : Through(s) = SaidBy(taken, Disk.size)[s]
    BY <1>1, <2>1 DEF Turn, InTurn
  <2>3. FormatsInOrder => TablesSeen
    BY <1>1, <2>1 DEF Turn, TablesInTurn, TablesSeen
  <2>4. QED
    BY <2>2, <2>3 DEF TurnSeen
<1>2. CASE d = NoDisk
  <2>1. Disk.size = sector_size /\ Disk.count = sector_count /\ DOMAIN cache = {}
        /\ Disk = NewDisk(sector_size, sector_count)
    BY <1>2, DiskSeen DEF Disk
  <2>2. /\ sector_size \in Nat /\ sector_size >= BOOT
        /\ sector_count \in Nat /\ sector_count >= DIR_SECTOR
    BY DEF ScriptTypes
  <2>3. \A s \in 1 .. sector_count :
            Disk.data[s] = [p \in 1 .. SectorSize(sector_size, s) |-> 0]
    BY <2>1, <2>2, NewDiskFacts
  <2>4. SaidBy(taken, Disk.size) = Zeros(Disk.size)
    BY <1>2, <2>1, <2>2 DEF Turn, InTurn
  <2>5. ASSUME NEW s \in 1 .. DIR_SECTOR PROVE Through(s) = Zeros(Disk.size)[s]
    <3>1. s \in 1 .. sector_count
      BY <2>2, ScriptNumbers
    <3>2. Through(s) = Disk.data[s]
      BY <2>1 DEF Through
    <3>3. Disk.data[s] = [p \in 1 .. SectorSize(sector_size, s) |-> 0]
      BY <2>3, <3>1
    <3>4. QED
      BY <2>1, <3>2, <3>3 DEF Zeros
  <2>6. /\ VTOC_SECTOR \in 1 .. DIR_SECTOR /\ DIR_SECTOR \in 1 .. DIR_SECTOR
        /\ \A s \in BootSectors : s \in 1 .. DIR_SECTOR
    BY ScriptNumbers
  <2>7. fs.name # "2.5"
    <3>1. fs = NoFs
      BY <1>2, FsDisk
    <3>2. QED
      BY <3>1 DEF NoFs
  <2>8. TablesSeen
    BY <2>4, <2>5, <2>6, <2>7 DEF TablesSeen
  <2>9. QED
    BY <2>4, <2>5, <2>6, <2>8 DEF TurnSeen
<1>3. QED
  BY <1>1, <1>2

LEMMA ThroughAfter ==
    ASSUME d' # NoDisk
    PROVE  \A s : Through(s)' = IF s \in DOMAIN cache' THEN cache'[s] ELSE d'.data[s]
<1>1. Disk' = d'
  BY DEF Disk
<1>2. QED
  BY <1>1 DEF Through

(* The user's line that is read.                                           *)
Reads(line) ==
    /\ ScriptTypes /\ Turn /\ line \in Lines
    /\ taken' = Append(taken, line)

LEMMA TurnMade ==
    ASSUME d' # NoDisk, d'.size = Disk.size,
           \A s \in BootSectors : Through(s)' = SaidBy(taken', Disk.size)[s],
           fs' = NoFs => \A k \in DOMAIN taken' : taken'[k].command \notin {"FORMAT", "FILE"},
           fs' # NoFs => fs'.name = FormatOf(taken'),
           OnlyPast' => VTOC_SECTOR \notin DOMAIN cache' /\ DIR_SECTOR \notin DOMAIN cache',
           FormatsInOrder' =>
                /\ Through(VTOC_SECTOR)' = SaidBy(taken', Disk.size)[VTOC_SECTOR]
                /\ Through(DIR_SECTOR)' = SaidBy(taken', Disk.size)[DIR_SECTOR]
                /\ fs'.name = "2.5" => d'.data[VTOC_SECTOR] = fs'.vtoc_buf
                /\ NoFile' => Through(DIR_SECTOR)' = Zeros(Disk.size)[DIR_SECTOR]
    PROVE  Turn'
<1>1. InTurn'
  BY DEF InTurn
<1>2. TablesInTurn'
  BY DEF TablesInTurn
<1>3. QED
  BY <1>1, <1>2 DEF Turn

LEMMA ReadsFacts ==
    ASSUME NEW line, Reads(line)
    PROVE  /\ taken \in Seq(Lines) /\ line \in Lines /\ ScriptTypes /\ TurnSeen
           /\ \A size : SaidBy(taken', size) = SaidBy(Append(taken, line), size)
           /\ FormatOf(taken') = IF line.command = "FORMAT" THEN Installed(line.dos)
                                 ELSE FormatOf(taken)
           /\ fs # NoFs => fs.name = FormatOf(taken)
           /\ OnlyPast => VTOC_SECTOR \notin DOMAIN cache /\ DIR_SECTOR \notin DOMAIN cache
           /\ fs = NoFs /\ line.command \notin {"FORMAT", "FILE"} =>
                \A k \in DOMAIN taken' : taken'[k].command \notin {"FORMAT", "FILE"}
<1>1. taken \in Seq(Lines) /\ line \in Lines /\ ScriptTypes /\ Turn /\ taken' = Append(taken, line)
  BY DEF Reads, ScriptTypes
<1>2. TurnSeen
  BY <1>1, BeforeLine
<1>3. FormatOf(taken') = IF line.command = "FORMAT" THEN Installed(line.dos)
                                 ELSE FormatOf(taken)
  BY <1>1, FormatAppend
<1>4. fs = NoFs /\ line.command \notin {"FORMAT", "FILE"} =>
                \A k \in DOMAIN taken' : taken'[k].command \notin {"FORMAT", "FILE"}
  <2>1. \A k \in DOMAIN taken' : taken'[k] = line \/ \E j \in DOMAIN taken : taken'[k] = taken[j]
    BY <1>1, TakenMore
  <2>2. fs = NoFs => \A k \in DOMAIN taken : taken[k].command \notin {"FORMAT", "FILE"}
    BY <1>1 DEF Turn, InTurn
  <2>3. QED
    BY <2>1, <2>2
<1>5. QED
  BY <1>1, <1>2, <1>3, <1>4 DEF Turn, InTurn

LEMMA DiskTurn ==
    ASSUME NEW line, Reads(line), DiskLine(line) PROVE Turn'
<1>1. UNCHANGED <<d, cache, fs>> /\ line.command = "DISK"
  BY DEF DiskLine
<1>2. Turn /\ taken' = Append(taken, line) /\ taken \in Seq(Lines) /\ line \in Lines
  BY DEF Reads, ScriptTypes
<1>3. \A size : SaidBy(taken', size) = SaidBy(taken, size)
  BY <1>1, <1>2, DiskSaid
<1>4. /\ OnlyPast' => OnlyPast
      /\ NoFile' => NoFile
      /\ FormatsInOrder' => FormatsInOrder
  BY <1>2, TakenMore
<1>5. /\ FormatOf(taken') = FormatOf(taken)
      /\ fs = NoFs => \A k \in DOMAIN taken' : taken'[k].command \notin {"FORMAT", "FILE"}
  BY <1>1, ReadsFacts
<1>6. d # NoDisk => \A s : Through(s)' = Through(s)
  BY <1>1 DEF Through, Disk
<1>7. InTurn'
  <2>1. d' = NoDisk => \A size \in Nat : SaidBy(taken', size) = Zeros(size)
    BY <1>1, <1>2, <1>3 DEF Turn, InTurn
  <2>2. d' # NoDisk => \A s \in BootSectors : Through(s)' = SaidBy(taken', d'.size)[s]
    BY <1>1, <1>2, <1>3, <1>6 DEF Turn, InTurn
  <2>3. fs' # NoFs => fs'.name = FormatOf(taken')
    BY <1>1, <1>2, <1>5 DEF Turn, InTurn
  <2>4. OnlyPast' => VTOC_SECTOR \notin DOMAIN cache' /\ DIR_SECTOR \notin DOMAIN cache'
    BY <1>1, <1>2, <1>4 DEF Turn, InTurn
  <2>5. QED
    BY <1>1, <1>5, <2>1, <2>2, <2>3, <2>4 DEF InTurn
<1>8. TablesInTurn'
  <2>1. SUFFICES ASSUME d' # NoDisk, FormatsInOrder'
        PROVE  /\ \A s \in {VTOC_SECTOR, DIR_SECTOR} : Through(s)' = SaidBy(taken', d'.size)[s]
               /\ fs'.name = "2.5" => d'.data[VTOC_SECTOR] = fs'.vtoc_buf
               /\ NoFile' => Through(DIR_SECTOR)' = Zeros(d'.size)[DIR_SECTOR]
    BY DEF TablesInTurn
  <2>2. /\ \A s \in {VTOC_SECTOR, DIR_SECTOR} : Through(s) = SaidBy(taken, d.size)[s]
        /\ fs.name = "2.5" => d.data[VTOC_SECTOR] = fs.vtoc_buf
        /\ NoFile => Through(DIR_SECTOR) = Zeros(d.size)[DIR_SECTOR]
    BY <1>1, <1>2, <1>4, <2>1 DEF Turn, TablesInTurn
  <2>3. QED
    BY <1>1, <1>3, <1>4, <1>6, <2>1, <2>2
<1>9. QED
  BY <1>7, <1>8 DEF Turn

(* Sectors written by way of the cache.                                    *)
LEMMA ThroughInto ==
    ASSUME ScriptTypes, NEW news, CacheFits(news, Disk), d' = Disk, cache' = IntoCache(news)
    PROVE  /\ d' # NoDisk /\ DOMAIN cache' = DOMAIN cache \cup DOMAIN news
           /\ \A s \in DOMAIN news : Through(s)' = news[s]
           /\ \A s : s \notin DOMAIN news => Through(s)' = Through(s)
<1>1. d' # NoDisk
  BY DiskSeen, DiskFacts
<1>2. /\ DOMAIN cache' = DOMAIN cache \cup DOMAIN news
      /\ \A s \in DOMAIN news : cache'[s] = news[s]
      /\ \A s \in DOMAIN cache \ DOMAIN news : cache'[s] = cache[s]
  BY DEF IntoCache
<1>3. \A s : Through(s)' = IF s \in DOMAIN cache' THEN cache'[s] ELSE d'.data[s]
  BY <1>1, ThroughAfter
<1>4. ASSUME NEW s, s \notin DOMAIN news PROVE Through(s)' = Through(s)
  BY <1>2, <1>3, <1>4 DEF Through
<1>5. QED
  BY <1>1, <1>2, <1>3, <1>4

LEMMA BootTurn ==
    ASSUME NEW line, Reads(line), BootLine(line) PROVE Turn'
<1>1. /\ taken \in Seq(Lines) /\ line \in Lines /\ ScriptTypes /\ TurnSeen
      /\ taken' = Append(taken, line)
  BY ReadsFacts DEF Reads
<1>2. /\ d' = Disk /\ cache' = IntoCache(BootNews(BootBytes(line)))
      /\ UNCHANGED <<sector_size, sector_count, fs, phase>> /\ line.command = "BOOT"
  BY BootLineFacts
<1>3. BootBytes(line) = line.bytes /\ line.bytes \in Seq(Nat)
  BY <1>1, <1>2, LineTyped DEF BootBytes, IsTyped
<1> DEFINE news == BootNews(line.bytes)
           z == Disk.size
<1>4. CacheFits(news, Disk) /\ cache' = IntoCache(news)
  BY <1>1, <1>2, <1>3, BootNewsFits
<1>5. DOMAIN news = BootSectors /\ \A s \in BootSectors : news[s] = BootRead(line.bytes, s)
  BY DEF BootNews
<1> HIDE DEF news
<1>6. /\ d' # NoDisk /\ DOMAIN cache' = DOMAIN cache \cup BootSectors
      /\ \A s \in BootSectors : Through(s)' = BootRead(line.bytes, s)
      /\ \A s : s \notin BootSectors => Through(s)' = Through(s)
  BY <1>1, <1>2, <1>4, <1>5, ThroughInto
<1> DEFINE x == SaidBy(taken, z)
           y == SaidBy(taken', z)
<1>7. /\ \A s \in BootSectors :
            y[s] = [p \in 1 .. BOOT |->
                            IF (s - 1) * BOOT + p <= Len(line.bytes)
                            THEN line.bytes[(s - 1) * BOOT + p] ELSE x[s][p]]
      /\ y[VTOC_SECTOR] = x[VTOC_SECTOR] /\ y[DIR_SECTOR] = x[DIR_SECTOR]
  BY <1>1, <1>2, BootSaid
<1>8. VTOC_SECTOR \notin BootSectors /\ DIR_SECTOR \notin BootSectors
  BY ScriptNumbers
<1>9. ASSUME NEW s \in BootSectors PROVE Through(s)' = y[s]
  <2> DEFINE v == Through(s)
             b == line.bytes
             Read(u) == [p \in 1 .. BOOT |->
                            IF (s - 1) * BOOT + p <= Len(b) THEN b[(s - 1) * BOOT + p] ELSE u[p]]
  <2>1. v = x[s]
    BY <1>1 DEF TurnSeen
  <2>2. BootRead(b, s) = Read(v)
    BY DEF BootRead
  <2>3. y[s] = Read(x[s])
    BY <1>7
  <2>4. Through(s)' = BootRead(b, s)
    BY <1>6
  <2> HIDE DEF x, y, v, Read
  <2>5. QED
    BY <2>1, <2>2, <2>3, <2>4
<1>10. /\ OnlyPast' => OnlyPast
       /\ NoFile' => NoFile
       /\ FormatsInOrder' => FormatsInOrder
  BY <1>1, TakenMore
<1>11. FormatsInOrder' =>
            /\ Through(VTOC_SECTOR)' = y[VTOC_SECTOR]
            /\ Through(DIR_SECTOR)' = y[DIR_SECTOR]
            /\ fs'.name = "2.5" => d'.data[VTOC_SECTOR] = fs'.vtoc_buf
            /\ NoFile' => Through(DIR_SECTOR)' = Zeros(z)[DIR_SECTOR]
  <2>1. SUFFICES ASSUME FormatsInOrder'
        PROVE  /\ Through(VTOC_SECTOR)' = y[VTOC_SECTOR]
               /\ Through(DIR_SECTOR)' = y[DIR_SECTOR]
               /\ fs'.name = "2.5" => d'.data[VTOC_SECTOR] = fs'.vtoc_buf
               /\ NoFile' => Through(DIR_SECTOR)' = Zeros(z)[DIR_SECTOR]
    OBVIOUS
  <2>2. TablesSeen
    BY <1>1, <1>10, <2>1 DEF TurnSeen
  <2>3. fs.name = "2.5" => Disk = d
    <3>1. fs = NoFs \/ Disk = d
      BY <1>1, FsDisk
    <3>2. NoFs.name # "2.5"
      BY DEF NoFs
    <3>3. QED
      BY <3>1, <3>2
  <2> HIDE DEF y
  <2>4. QED
    BY <1>2, <1>6, <1>7, <1>8, <1>10, <2>2, <2>3 DEF TablesSeen
<1>12. /\ fs' = NoFs => \A k \in DOMAIN taken' : taken'[k].command \notin {"FORMAT", "FILE"}
       /\ fs' # NoFs => fs'.name = FormatOf(taken')
       /\ OnlyPast' => VTOC_SECTOR \notin DOMAIN cache' /\ DIR_SECTOR \notin DOMAIN cache'
  BY <1>2, <1>6, <1>8, <1>10, ReadsFacts
<1> HIDE DEF x, y
<1>13. QED
  BY <1>2, <1>6, <1>9, <1>11, <1>12, TurnMade DEF y

LEMMA PropertyTurn ==
    ASSUME NEW line, Reads(line), PropertyLine(line) PROVE Turn'
<1> DEFINE q == Properties(fs.name)[line.property]
           u == [Through(1) EXCEPT ![q] = line.value]
           news == [s \in {1} |-> u]
           z == Disk.size
           x == SaidBy(taken, z)
           y == SaidBy(taken', z)
<1>1. /\ taken \in Seq(Lines) /\ line \in Lines /\ ScriptTypes /\ TurnSeen
      /\ taken' = Append(taken, line)
  BY ReadsFacts DEF Reads
<1>2. /\ UNCHANGED <<sector_size, sector_count, d, fs, phase>> /\ line.command = "SET"
      /\ fs # NoFs /\ q \in 1 .. BOOT /\ cache' = IntoCache(news)
  BY <1>1, PropertyLineFacts
<1>3. d' = Disk /\ Disk = d /\ d # NoDisk
  BY <1>1, <1>2, FsDisk
<1>4. fs.name = FormatOf(taken) /\ FormatOf(taken') = FormatOf(taken)
  BY <1>2, ReadsFacts
<1>5. CacheFits(news, Disk)
  <2>1. line.value \in Nat
    BY <1>1, <1>2, LineTyped DEF IsTyped
  <2>2. IsSector(u, BOOT)
    BY <1>1, <1>2, <2>1, BootThrough, ScriptNumbers, SectorSet
  <2> HIDE DEF u
  <2>3. QED
    BY <1>1, <2>2, FirstFits
<1>6. DOMAIN news = {1} /\ news[1] = u
  OBVIOUS
<1> HIDE DEF news
<1>7. /\ DOMAIN cache' = DOMAIN cache \cup {1} /\ Through(1)' = u
      /\ \A s : s # 1 => Through(s)' = Through(s)
  <2>1. /\ DOMAIN cache' = DOMAIN cache \cup DOMAIN news
        /\ \A s \in DOMAIN news : Through(s)' = news[s]
        /\ \A s : s \notin DOMAIN news => Through(s)' = Through(s)
    BY <1>1, <1>2, <1>3, <1>5, ThroughInto
  <2> HIDE DEF u
  <2>2. QED
    BY <1>6, <2>1
<1>8. /\ y[1] = [x[1] EXCEPT ![q] = line.value]
      /\ \A s \in 1 .. DIR_SECTOR : s # 1 => y[s] = x[s]
  BY <1>1, <1>2, <1>4, SetSaid
<1>9. /\ VTOC_SECTOR \in 1 .. DIR_SECTOR /\ DIR_SECTOR \in 1 .. DIR_SECTOR
      /\ VTOC_SECTOR # 1 /\ DIR_SECTOR # 1
      /\ \A s \in BootSectors : s \in 1 .. DIR_SECTOR
      /\ 1 \in BootSectors
  BY ScriptNumbers
<1>10. \A s \in BootSectors : Through(s)' = y[s]
  <2>1. \A s \in BootSectors : Through(s) = x[s]
    BY <1>1 DEF TurnSeen
  <2>2. y[1] = u
    BY <1>8, <1>9, <2>1
  <2> HIDE DEF x, y, u
  <2>3. QED
    BY <1>7, <1>8, <1>9, <2>1, <2>2
<1>11. /\ OnlyPast' => OnlyPast
       /\ NoFile' => NoFile
       /\ FormatsInOrder' => FormatsInOrder
  BY <1>1, TakenMore
<1>12. FormatsInOrder' =>
            /\ Through(VTOC_SECTOR)' = y[VTOC_SECTOR]
            /\ Through(DIR_SECTOR)' = y[DIR_SECTOR]
            /\ fs'.name = "2.5" => d'.data[VTOC_SECTOR] = fs'.vtoc_buf
            /\ NoFile' => Through(DIR_SECTOR)' = Zeros(z)[DIR_SECTOR]
  <2>1. SUFFICES ASSUME FormatsInOrder'
        PROVE  /\ Through(VTOC_SECTOR)' = y[VTOC_SECTOR]
               /\ Through(DIR_SECTOR)' = y[DIR_SECTOR]
               /\ fs'.name = "2.5" => d'.data[VTOC_SECTOR] = fs'.vtoc_buf
               /\ NoFile' => Through(DIR_SECTOR)' = Zeros(z)[DIR_SECTOR]
    OBVIOUS
  <2>2. TablesSeen
    BY <1>1, <1>11, <2>1 DEF TurnSeen
  <2> HIDE DEF y
  <2>3. QED
    BY <1>2, <1>7, <1>8, <1>9, <1>11, <2>2 DEF TablesSeen
<1>13. /\ fs' # NoFs /\ fs'.name = FormatOf(taken')
       /\ OnlyPast' => VTOC_SECTOR \notin DOMAIN cache' /\ DIR_SECTOR \notin DOMAIN cache'
  BY <1>2, <1>4, <1>7, <1>9, <1>11, ReadsFacts
<1> HIDE DEF x, y
<1>14. QED
  BY <1>3, <1>10, <1>12, <1>13, TurnMade DEF y

LEMMA FormatThroughFacts ==
    ASSUME ScriptTypes, NEW line, FormatThrough(line)
    PROVE  /\ d' = Disk /\ fs' # NoFs /\ fs'.name = line.dos /\ line.command = "FORMAT"
           /\ line.dos # "2.5" /\ Installed(line.dos) = line.dos
           /\ ~WritesPast(Installed(line.dos)) /\ d' # NoDisk
           /\ \A s : Through(s)' = CASE s = VTOC_SECTOR -> FormattedTable(line.dos, Disk.size)
                                     [] s = DIR_SECTOR -> Inited(DIR_SECTOR)
                                     [] OTHER -> Through(s)
<1> DEFINE v == FormattedTable(line.dos, Disk.size)
           w == Inited(DIR_SECTOR)
           news == [s \in {VTOC_SECTOR, DIR_SECTOR} |-> IF s = VTOC_SECTOR THEN v ELSE Inited(s)]
<1>1. /\ d' = Disk /\ cache' = IntoCache(news) /\ line.command = "FORMAT"
      /\ fs' = [name |-> line.dos, vtoc_buf |-> <<>>]
      /\ line.dos \in Formats /\ ~WritesPast(Installed(line.dos))
  BY DEF FormatThrough
<1>2. line.dos # "2.5" /\ line.dos # "" /\ Installed(line.dos) = line.dos
  BY <1>1 DEF Formats, WritesPast, Installed
<1>3. fs'.name = line.dos /\ fs' # NoFs
  BY <1>1, <1>2 DEF NoFs
<1>4. d' # NoDisk
  BY <1>1, DiskSeen, DiskFacts
<1>5. /\ DOMAIN news = {VTOC_SECTOR, DIR_SECTOR} /\ news[VTOC_SECTOR] = v
      /\ news[DIR_SECTOR] = w
  BY ScriptNumbers
<1> HIDE DEF news, v, w
<1>6. /\ DOMAIN cache' = DOMAIN cache \cup DOMAIN news
      /\ \A s \in DOMAIN news : cache'[s] = news[s]
      /\ \A s \in DOMAIN cache \ DOMAIN news : cache'[s] = cache[s]
  BY <1>1 DEF IntoCache
<1>7. \A s : Through(s)' = IF s \in DOMAIN cache' THEN cache'[s] ELSE d'.data[s]
  BY <1>4, ThroughAfter
<1>8. ASSUME NEW s
      PROVE  Through(s)' = CASE s = VTOC_SECTOR -> v [] s = DIR_SECTOR -> w [] OTHER -> Through(s)
  <2>1. CASE s \in {VTOC_SECTOR, DIR_SECTOR}
    BY <1>5, <1>6, <1>7, <2>1, ScriptNumbers
  <2>2. CASE s \notin {VTOC_SECTOR, DIR_SECTOR}
    BY <1>1, <1>5, <1>6, <1>7, <2>2 DEF Through
  <2>3. QED
    BY <2>1, <2>2
<1>9. QED
  BY <1>1, <1>2, <1>3, <1>4, <1>8 DEF v, w

LEMMA ZerosSeen ==
    ASSUME ScriptTypes
    PROVE  Zeros(Disk.size)[DIR_SECTOR] = [p \in 1 .. Disk.size |-> 0]
<1>1. SectorSize(Disk.size, DIR_SECTOR) = Disk.size
  BY BootThrough
<1>2. DIR_SECTOR \in 1 .. DIR_SECTOR
  BY ScriptNumbers
<1>3. QED
  BY <1>1, <1>2 DEF Zeros

LEMMA FormatThroughTurn ==
    ASSUME NEW line, Reads(line), FormatThrough(line) PROVE Turn'
<1> DEFINE z == Disk.size
           x == SaidBy(taken, z)
           y == SaidBy(taken', z)
           v == FormattedTable(line.dos, z)
           w == [p \in 1 .. z |-> 0]
<1>1. /\ taken \in Seq(Lines) /\ line \in Lines /\ ScriptTypes /\ TurnSeen
      /\ taken' = Append(taken, line)
  BY ReadsFacts DEF Reads
<1>2. /\ d' = Disk /\ fs' # NoFs /\ fs'.name = line.dos /\ line.command = "FORMAT"
      /\ line.dos # "2.5" /\ Installed(line.dos) = line.dos
      /\ ~WritesPast(Installed(line.dos)) /\ d' # NoDisk
      /\ \A s : Through(s)' = CASE s = VTOC_SECTOR -> FormattedTable(line.dos, Disk.size)
                                [] s = DIR_SECTOR -> Inited(DIR_SECTOR)
                                [] OTHER -> Through(s)
  BY <1>1, FormatThroughFacts
<1>3. VTOC_SECTOR # DIR_SECTOR
      /\ \A s \in BootSectors : s # VTOC_SECTOR /\ s # DIR_SECTOR
  BY ScriptNumbers
<1>4. /\ Through(VTOC_SECTOR)' = v /\ Through(DIR_SECTOR)' = Inited(DIR_SECTOR)
      /\ \A s \in BootSectors : Through(s)' = Through(s)
  <2> HIDE DEF v
  <2>1. \A s : Through(s)' = CASE s = VTOC_SECTOR -> v [] s = DIR_SECTOR -> Inited(DIR_SECTOR)
                                [] OTHER -> Through(s)
    BY <1>2 DEF v
  <2>2. QED
    BY <1>3, <2>1
<1>5. /\ \A s \in BootSectors : y[s] = x[s]
      /\ y[VTOC_SECTOR] = v /\ y[DIR_SECTOR] = w
  <2>1. FormatSays(line, z)
    BY <1>1, <1>2, FormatSaid
  <2>2. QED
    BY <1>1, <1>2, <2>1 DEF FormatSays
<1>6. \A s \in BootSectors : Through(s)' = y[s]
  <2>1. \A s \in BootSectors : Through(s) = x[s]
    BY <1>1 DEF TurnSeen
  <2> HIDE DEF x, y
  <2>2. QED
    BY <1>4, <1>5, <2>1
<1>7. ~OnlyPast'
  BY <1>1, <1>2, TakenMore
<1>8. Zeros(z)[DIR_SECTOR] = w
  BY <1>1, ZerosSeen
<1>9. FormatsInOrder' => Inited(DIR_SECTOR) = w
  <2>1. SUFFICES ASSUME FormatsInOrder' PROVE Inited(DIR_SECTOR) = w
    OBVIOUS
  <2>2. FormatsInOrder /\ NoFile
    BY <1>1, <1>2, <2>1, TakenMore
  <2>3. Through(DIR_SECTOR) = w
    BY <1>1, <1>8, <2>2 DEF TurnSeen, TablesSeen
  <2>4. SectorSize(Disk.size, DIR_SECTOR) = z
    BY <1>1, BootThrough
  <2>5. QED
    BY <2>3, <2>4 DEF Inited, Through
<1>10. FormatOf(taken') = line.dos
  BY <1>2, ReadsFacts
<1> HIDE DEF v, w, x, y
<1>11. FormatsInOrder' =>
            /\ Through(VTOC_SECTOR)' = y[VTOC_SECTOR]
            /\ Through(DIR_SECTOR)' = y[DIR_SECTOR]
            /\ fs'.name = "2.5" => d'.data[VTOC_SECTOR] = fs'.vtoc_buf
            /\ NoFile' => Through(DIR_SECTOR)' = Zeros(z)[DIR_SECTOR]
  BY <1>2, <1>4, <1>5, <1>8, <1>9
<1>12. fs' # NoFs /\ fs'.name = FormatOf(taken')
  BY <1>2, <1>10
<1>13. QED
  BY <1>2, <1>6, <1>7, <1>11, <1>12, TurnMade DEF y

LEMMA FormatPastFacts ==
    ASSUME ScriptTypes, NEW line, FormatPast(line)
    PROVE  /\ fs' # NoFs /\ fs'.name = "2.5" /\ line.command = "FORMAT"
           /\ Installed(line.dos) = "2.5" /\ WritesPast(Installed(line.dos))
           /\ fs'.vtoc_buf = FormattedTable("2.5", Disk.size)
           /\ d' # NoDisk /\ d'.size = Disk.size /\ cache' = cache
           /\ d'.data[VTOC_SECTOR] = FormattedTable("2.5", Disk.size)
           /\ d'.data[DIR_SECTOR] = [p \in 1 .. Disk.size |-> 0]
           /\ \A s \in BootSectors : Through(s)' = Through(s)
<1> DEFINE table == FormattedTable("2.5", Disk.size)
           zeros == [p \in 1 .. Disk.size |-> 0]
<1>1. /\ d' = PastWritten(Disk, table, zeros)
      /\ fs' = [name |-> "2.5", vtoc_buf |-> table]
      /\ cache' = cache /\ line.command = "FORMAT" /\ WritesPast(Installed(line.dos))
  BY DEF FormatPast, PastWritten
<1>2. IsDisk(Disk) /\ CacheFits(cache, Disk)
  BY DiskSeen
<1>3. Disk.size \in Nat
  BY <1>2, DiskFacts
<1>4. IsSector(table, Disk.size) /\ IsSector(zeros, Disk.size)
  BY <1>3, TableTypes, ZeroTypes DEF Systems
<1> HIDE DEF table, zeros
<1>5. /\ IsDisk(d') /\ d'.size = Disk.size /\ d'.data[VTOC_SECTOR] = table
      /\ d'.data[DIR_SECTOR] = zeros
      /\ \A s \in 1 .. Disk.count : s # VTOC_SECTOR /\ s # DIR_SECTOR =>
                d'.data[s] = Disk.data[s]
  BY <1>1, <1>2, <1>4, PastFacts
<1>6. d' # NoDisk
  BY <1>5, DiskFacts
<1>7. \A s : Through(s)' = IF s \in DOMAIN cache THEN cache[s] ELSE d'.data[s]
  BY <1>1, <1>6, ThroughAfter
<1>8. ASSUME NEW s \in BootSectors PROVE Through(s)' = Through(s)
  <2>1. s \in 1 .. Disk.count /\ s # VTOC_SECTOR /\ s # DIR_SECTOR
    BY BootThrough, ScriptNumbers
  <2>2. d'.data[s] = Disk.data[s]
    BY <1>5, <2>1
  <2>3. QED
    BY <1>7, <2>2 DEF Through
<1>9. fs'.name = "2.5" /\ fs'.vtoc_buf = table /\ fs' # NoFs
  BY <1>1 DEF NoFs
<1>10. QED
  BY <1>1, <1>5, <1>6, <1>8, <1>9 DEF table, zeros, WritesPast

LEMMA FormatPastTurn ==
    ASSUME NEW line, Reads(line), FormatPast(line) PROVE Turn'
<1> DEFINE z == Disk.size
           x == SaidBy(taken, z)
           y == SaidBy(taken', z)
           v == FormattedTable("2.5", z)
           w == [p \in 1 .. z |-> 0]
<1>1. /\ taken \in Seq(Lines) /\ line \in Lines /\ ScriptTypes /\ TurnSeen
      /\ taken' = Append(taken, line)
      /\ OnlyPast => VTOC_SECTOR \notin DOMAIN cache /\ DIR_SECTOR \notin DOMAIN cache
  BY ReadsFacts DEF Reads
<1>2. /\ fs' # NoFs /\ fs'.name = "2.5" /\ line.command = "FORMAT"
      /\ Installed(line.dos) = "2.5" /\ WritesPast(Installed(line.dos))
      /\ fs'.vtoc_buf = v /\ d' # NoDisk /\ d'.size = z /\ cache' = cache
      /\ d'.data[VTOC_SECTOR] = v /\ d'.data[DIR_SECTOR] = w
      /\ \A s \in BootSectors : Through(s)' = Through(s)
  BY <1>1, FormatPastFacts
<1>3. \A s : Through(s)' = IF s \in DOMAIN cache THEN cache[s] ELSE d'.data[s]
  BY <1>2, ThroughAfter
<1>4. /\ \A s \in BootSectors : y[s] = x[s]
      /\ y[VTOC_SECTOR] = v /\ y[DIR_SECTOR] = w
  <2>1. FormatSays(line, z)
    BY <1>1, <1>2, FormatSaid
  <2>2. QED
    BY <1>1, <1>2, <2>1 DEF FormatSays
<1>5. \A s \in BootSectors : Through(s)' = y[s]
  <2>1. \A s \in BootSectors : Through(s) = x[s]
    BY <1>1 DEF TurnSeen
  <2> HIDE DEF x, y
  <2>2. QED
    BY <1>2, <1>4, <2>1
<1>6. /\ OnlyPast' => OnlyPast
      /\ FormatsInOrder' => OnlyPast
  BY <1>1, <1>2, TakenMore
<1>7. Zeros(z)[DIR_SECTOR] = w
  BY <1>1, ZerosSeen
<1>8. FormatOf(taken') = "2.5"
  BY <1>2, ReadsFacts
<1> HIDE DEF v, w, x, y
<1>9. FormatsInOrder' =>
            /\ Through(VTOC_SECTOR)' = y[VTOC_SECTOR]
            /\ Through(DIR_SECTOR)' = y[DIR_SECTOR]
            /\ fs'.name = "2.5" => d'.data[VTOC_SECTOR] = fs'.vtoc_buf
            /\ NoFile' => Through(DIR_SECTOR)' = Zeros(z)[DIR_SECTOR]
  BY <1>1, <1>2, <1>3, <1>4, <1>6, <1>7
<1>10. OnlyPast' => VTOC_SECTOR \notin DOMAIN cache' /\ DIR_SECTOR \notin DOMAIN cache'
  BY <1>1, <1>2, <1>6
<1>11. fs' # NoFs /\ fs'.name = FormatOf(taken')
  BY <1>2, <1>8
<1>12. QED
  BY <1>2, <1>5, <1>9, <1>10, <1>11, TurnMade DEF y

(* Sector 1 with the place of DOS.                                         *)
FirstWith(line) ==
    IF line.dos THEN WithDosFile(Through(1), fs.name, line.first) ELSE Through(1)

LEMMA DosFileSeen ==
    ASSUME NEW line, line.dos \in BOOLEAN, Disk = d, NEW c, c = IntoCache(DosFile(line))
    PROVE  /\ DOMAIN c \subseteq DOMAIN cache \cup {1}
           /\ \A s : (IF s \in DOMAIN c THEN c[s] ELSE d.data[s]) =
                        IF s = 1 THEN FirstWith(line) ELSE Through(s)
<1>1. CASE line.dos
  <2> DEFINE u == WithDosFile(Through(1), fs.name, line.first)
             news == [s \in {1} |-> u]
  <2>1. DosFile(line) = news /\ FirstWith(line) = u
    BY <1>1 DEF DosFile, FirstWith
  <2>2. DOMAIN news = {1} /\ news[1] = u
    OBVIOUS
  <2> HIDE DEF u, news
  <2>3. /\ DOMAIN c = DOMAIN cache \cup {1} /\ c[1] = u
        /\ \A s \in DOMAIN cache \ {1} : c[s] = cache[s]
    BY <2>1, <2>2 DEF IntoCache
  <2>4. QED
    BY <2>1, <2>3 DEF Through
<1>2. CASE ~line.dos
  <2>1. DosFile(line) = [s \in {} |-> <<>>] /\ FirstWith(line) = Through(1)
    BY <1>2 DEF DosFile, FirstWith
  <2>2. DOMAIN c = DOMAIN cache /\ \A s \in DOMAIN cache : c[s] = cache[s]
    BY <2>1 DEF IntoCache
  <2>3. QED
    BY <2>1, <2>2 DEF Through
<1>3. QED
  BY <1>1, <1>2

(* What FILE says, of the sectors seen.                                    *)
LEMMA FileReads ==
    ASSUME NEW line, Reads(line), line.command = "FILE", fs # NoFs
    PROVE  /\ taken \in Seq(Lines) /\ line \in Lines /\ ScriptTypes /\ TurnSeen
           /\ taken' = Append(taken, line) /\ line.dos \in BOOLEAN
           /\ d # NoDisk /\ Disk = d
           /\ fs.name = FormatOf(taken) /\ FormatOf(taken') = FormatOf(taken)
           /\ OnlyPast' => VTOC_SECTOR \notin DOMAIN cache /\ DIR_SECTOR \notin DOMAIN cache
           /\ SaidBy(taken', d.size)[1] = FirstWith(line)
           /\ \A s \in BootSectors : s # 1 => SaidBy(taken', d.size)[s] = Through(s)
           /\ ~NoFile'
           /\ FormatsInOrder' => /\ FormatsInOrder /\ TablesSeen
                                 /\ SaidBy(taken', d.size)[VTOC_SECTOR] = OneMore(Through(VTOC_SECTOR), 3)
                                 /\ SaidBy(taken', d.size)[DIR_SECTOR] = OneMore(Through(DIR_SECTOR), 1)
<1> DEFINE x == SaidBy(taken, d.size)
           y == SaidBy(taken', d.size)
<1>1. /\ taken \in Seq(Lines) /\ line \in Lines /\ ScriptTypes /\ TurnSeen
      /\ taken' = Append(taken, line)
  BY ReadsFacts DEF Reads
<1>2. line.dos \in BOOLEAN
  BY <1>1, LineTyped DEF IsTyped
<1>3. d # NoDisk /\ Disk = d
  BY <1>1, FsDisk
<1>4. /\ fs.name = FormatOf(taken) /\ FormatOf(taken') = FormatOf(taken)
      /\ OnlyPast => VTOC_SECTOR \notin DOMAIN cache /\ DIR_SECTOR \notin DOMAIN cache
  BY ReadsFacts
<1>5. /\ OnlyPast' => OnlyPast
      /\ NoFile' => NoFile /\ line.command # "FILE"
      /\ FormatsInOrder' => FormatsInOrder
  BY <1>1, TakenMore
<1>6. /\ y[1] = IF line.dos THEN WithDosFile(x[1], FormatOf(taken), line.first) ELSE x[1]
      /\ \A s \in BootSectors : s # 1 => y[s] = x[s]
      /\ y[VTOC_SECTOR] = OneMore(x[VTOC_SECTOR], 3)
      /\ y[DIR_SECTOR] = OneMore(x[DIR_SECTOR], 1)
  BY <1>1, FileSaid
<1> HIDE DEF x, y
<1>7. \A s \in BootSectors : Through(s) = x[s]
  BY <1>1, <1>3 DEF TurnSeen, x
<1>8. y[1] = FirstWith(line)
  <2>1. Through(1) = x[1]
    BY <1>7, ScriptNumbers
  <2>2. QED
    BY <1>4, <1>6, <2>1 DEF FirstWith
<1>9. \A s \in BootSectors : s # 1 => y[s] = Through(s)
  BY <1>6, <1>7
<1>10. FormatsInOrder' => /\ FormatsInOrder /\ TablesSeen
                          /\ y[VTOC_SECTOR] = OneMore(Through(VTOC_SECTOR), 3)
                          /\ y[DIR_SECTOR] = OneMore(Through(DIR_SECTOR), 1)
  <2>1. SUFFICES ASSUME FormatsInOrder'
        PROVE  /\ FormatsInOrder /\ TablesSeen
               /\ y[VTOC_SECTOR] = OneMore(Through(VTOC_SECTOR), 3)
               /\ y[DIR_SECTOR] = OneMore(Through(DIR_SECTOR), 1)
    OBVIOUS
  <2>2. FormatsInOrder /\ TablesSeen
    BY <1>1, <1>5, <2>1 DEF TurnSeen
  <2>3. Through(VTOC_SECTOR) = x[VTOC_SECTOR] /\ Through(DIR_SECTOR) = x[DIR_SECTOR]
    BY <1>3, <2>2 DEF TablesSeen, x
  <2>4. QED
    BY <1>6, <2>2, <2>3
<1>11. QED
  BY <1>1, <1>2, <1>3, <1>4, <1>5, <1>8, <1>9, <1>10 DEF y

LEMMA FileThroughTurn ==
    ASSUME NEW line, Reads(line), FileThrough(line) PROVE Turn'
<1> DEFINE c == IntoCache(DosFile(line))
           S == {VTOC_SECTOR, DIR_SECTOR}
           u == OneMore(Through(VTOC_SECTOR), 3)
           v == OneMore(Through(DIR_SECTOR), 1)
           y == SaidBy(taken', d.size)
<1>1. /\ UNCHANGED <<sector_size, sector_count, d, fs>> /\ line.command = "FILE"
      /\ fs # NoFs /\ ~WritesPast(fs.name)
      /\ cache' = [s \in DOMAIN c \cup S |->
                    CASE s = VTOC_SECTOR -> OneMore(Through(s), 3)
                      [] s = DIR_SECTOR -> OneMore(Through(s), 1)
                      [] OTHER -> c[s]]
  BY DEF FileThrough
<1>2. /\ taken \in Seq(Lines) /\ line \in Lines /\ ScriptTypes /\ TurnSeen
      /\ taken' = Append(taken, line) /\ line.dos \in BOOLEAN
      /\ d # NoDisk /\ Disk = d
      /\ fs.name = FormatOf(taken) /\ FormatOf(taken') = FormatOf(taken)
      /\ SaidBy(taken', d.size)[1] = FirstWith(line)
      /\ \A s \in BootSectors : s # 1 => SaidBy(taken', d.size)[s] = Through(s)
      /\ ~NoFile'
      /\ FormatsInOrder' => /\ FormatsInOrder /\ TablesSeen
                            /\ SaidBy(taken', d.size)[VTOC_SECTOR] = u
                            /\ SaidBy(taken', d.size)[DIR_SECTOR] = v
  BY <1>1, FileReads
<1>3. \A s : (IF s \in DOMAIN c THEN c[s] ELSE d.data[s]) =
                        IF s = 1 THEN FirstWith(line) ELSE Through(s)
  BY <1>2, DosFileSeen
<1>4. \A s : Through(s)' = IF s \in DOMAIN cache' THEN cache'[s] ELSE d.data[s]
  BY <1>1, <1>2, ThroughAfter
<1>5. VTOC_SECTOR # DIR_SECTOR /\ \A s \in BootSectors : s # VTOC_SECTOR /\ s # DIR_SECTOR
  BY ScriptNumbers
<1> HIDE DEF c, y
<1>6. Through(VTOC_SECTOR)' = u /\ Through(DIR_SECTOR)' = v
  BY <1>1, <1>4, <1>5
<1> HIDE DEF u, v
<1>7. \A s \in BootSectors : Through(s)' = y[s]
  <2>1. ASSUME NEW s \in BootSectors PROVE Through(s)' = y[s]
    <3>1. s \in DOMAIN cache' <=> s \in DOMAIN c
      BY <1>1, <1>5
    <3>2. s \in DOMAIN c => cache'[s] = c[s]
      BY <1>1, <1>5
    <3>3. Through(s)' = IF s = 1 THEN FirstWith(line) ELSE Through(s)
      BY <1>3, <1>4, <3>1, <3>2
    <3>4. QED
      BY <1>2, <3>3 DEF y
  <2>2. QED
    BY <2>1
<1>8. ~OnlyPast'
  <2>1. OnlyPast' => OnlyPast
    BY <1>2, TakenMore
  <2>2. fs.name # "2.5"
    BY <1>1 DEF WritesPast
  <2>3. fs.name # ""
    BY <1>1, <1>2, FsDisk DEF Systems
  <2>4. ~OnlyPast
    BY <1>2, <2>2, <2>3, PastFormats
  <2>5. QED
    BY <2>1, <2>4
<1>9. fs'.name # "2.5"
  BY <1>1 DEF WritesPast
<1>10. FormatsInOrder' =>
            /\ Through(VTOC_SECTOR)' = y[VTOC_SECTOR]
            /\ Through(DIR_SECTOR)' = y[DIR_SECTOR]
            /\ fs'.name = "2.5" => d'.data[VTOC_SECTOR] = fs'.vtoc_buf
            /\ NoFile' => Through(DIR_SECTOR)' = Zeros(d.size)[DIR_SECTOR]
  BY <1>2, <1>6, <1>9 DEF y
<1>11. fs' # NoFs /\ fs'.name = FormatOf(taken') /\ d' # NoDisk /\ d'.size = Disk.size
       /\ Disk.size = d.size
  BY <1>1, <1>2
<1>12. QED
  BY <1>7, <1>8, <1>10, <1>11, TurnMade DEF y

LEMMA FilePastTurn ==
    ASSUME NEW line, Reads(line), FilePast(line) PROVE Turn'
<1> DEFINE c == IntoCache(DosFile(line))
           y == SaidBy(taken', d.size)
           u == OneMore(fs.vtoc_buf, 3)
           v == OneMore(d.data[DIR_SECTOR], 1)
<1>0. ScriptTypes
  BY DEF Reads
<1>1. /\ UNCHANGED <<sector_size, sector_count, phase>> /\ line.command = "FILE"
      /\ fs # NoFs /\ fs.name = "2.5" /\ fs'.name = "2.5"
      /\ fs' = [name |-> fs'.name, vtoc_buf |-> fs'.vtoc_buf]
      /\ fs'.vtoc_buf = u /\ d' = PastWritten(d, fs'.vtoc_buf, v)
      /\ cache' = c
  BY <1>0, FilePastFacts
<1>2. /\ taken \in Seq(Lines) /\ line \in Lines /\ ScriptTypes /\ TurnSeen
      /\ taken' = Append(taken, line) /\ line.dos \in BOOLEAN
      /\ d # NoDisk /\ Disk = d
      /\ fs.name = FormatOf(taken) /\ FormatOf(taken') = FormatOf(taken)
      /\ OnlyPast' => VTOC_SECTOR \notin DOMAIN cache /\ DIR_SECTOR \notin DOMAIN cache
      /\ SaidBy(taken', d.size)[1] = FirstWith(line)
      /\ \A s \in BootSectors : s # 1 => SaidBy(taken', d.size)[s] = Through(s)
      /\ ~NoFile'
      /\ FormatsInOrder' => /\ FormatsInOrder /\ TablesSeen
                            /\ SaidBy(taken', d.size)[VTOC_SECTOR] = OneMore(Through(VTOC_SECTOR), 3)
                            /\ SaidBy(taken', d.size)[DIR_SECTOR] = OneMore(Through(DIR_SECTOR), 1)
  BY <1>1, FileReads
<1>3. IsDisk(d)
  BY <1>2, DiskSeen
<1>4. IsSector(u, d.size) /\ IsSector(v, d.size)
  <2>1. IsSector(fs.vtoc_buf, d.size)
    BY <1>0, <1>1 DEF ScriptTypes, DiskTypes, FsTypes
  <2>2. d.size \in Nat /\ d.size >= 9
    BY <1>3, DiskFacts, ScriptNumbers
  <2>3. 3 \in 1 .. d.size /\ 1 \in 1 .. d.size
    BY <2>2
  <2>4. IsSector(d.data[DIR_SECTOR], d.size)
    BY <1>0, <1>2, <1>3, BootThrough, DiskFacts
  <2>5. QED
    BY <2>1, <2>2, <2>3, <2>4, OneMoreTypes
<1> HIDE DEF u, v, c, y
<1>5. /\ IsDisk(d') /\ d'.size = d.size
      /\ d'.data[VTOC_SECTOR] = u /\ d'.data[DIR_SECTOR] = v
      /\ \A s \in 1 .. d.count : s # VTOC_SECTOR /\ s # DIR_SECTOR => d'.data[s] = d.data[s]
  BY <1>1, <1>3, <1>4, PastFacts
<1>6. d' # NoDisk
  BY <1>5, DiskFacts
<1>7. /\ DOMAIN c \subseteq DOMAIN cache \cup {1}
      /\ \A s : (IF s \in DOMAIN c THEN c[s] ELSE d.data[s]) =
                        IF s = 1 THEN FirstWith(line) ELSE Through(s)
  BY <1>2, DosFileSeen DEF c
<1>8. \A s : Through(s)' = IF s \in DOMAIN c THEN c[s] ELSE d'.data[s]
  BY <1>1, <1>6, ThroughAfter
<1>9. \A s \in BootSectors : Through(s)' = y[s]
  <2>1. ASSUME NEW s \in BootSectors PROVE Through(s)' = y[s]
    <3>1. s \in 1 .. d.count /\ s # VTOC_SECTOR /\ s # DIR_SECTOR
      BY <1>0, <1>2, BootThrough, ScriptNumbers
    <3>2. d'.data[s] = d.data[s]
      BY <1>5, <3>1
    <3>3. Through(s)' = IF s = 1 THEN FirstWith(line) ELSE Through(s)
      BY <1>7, <1>8, <3>2
    <3>4. QED
      BY <1>2, <3>3 DEF y
  <2>2. QED
    BY <2>1
<1>10. VTOC_SECTOR # 1 /\ DIR_SECTOR # 1
  BY ScriptNumbers
<1>11. OnlyPast' => VTOC_SECTOR \notin DOMAIN cache' /\ DIR_SECTOR \notin DOMAIN cache'
  BY <1>1, <1>2, <1>7, <1>10
<1>12. ASSUME FormatsInOrder'
       PROVE  /\ Through(VTOC_SECTOR)' = y[VTOC_SECTOR]
              /\ Through(DIR_SECTOR)' = y[DIR_SECTOR]
              /\ fs'.name = "2.5" => d'.data[VTOC_SECTOR] = fs'.vtoc_buf
              /\ NoFile' => Through(DIR_SECTOR)' = Zeros(Disk.size)[DIR_SECTOR]
  <2>1. /\ FormatsInOrder /\ TablesSeen
        /\ y[VTOC_SECTOR] = OneMore(Through(VTOC_SECTOR), 3)
        /\ y[DIR_SECTOR] = OneMore(Through(DIR_SECTOR), 1)
    BY <1>2, <1>12 DEF y
  <2>2. OnlyPast
    BY <1>1, <1>2, <2>1, InOrderPast
  <2>3. VTOC_SECTOR \notin DOMAIN cache /\ DIR_SECTOR \notin DOMAIN cache
    BY <2>2, ReadsFacts
  <2>4. Through(VTOC_SECTOR) = d.data[VTOC_SECTOR] /\ Through(DIR_SECTOR) = d.data[DIR_SECTOR]
    BY <1>2, <2>3 DEF Through
  <2>5. d.data[VTOC_SECTOR] = fs.vtoc_buf
    BY <1>1, <2>1 DEF TablesSeen
  <2>6. y[VTOC_SECTOR] = u /\ y[DIR_SECTOR] = v
    BY <2>1, <2>4, <2>5 DEF u, v
  <2>7. Through(VTOC_SECTOR)' = u /\ Through(DIR_SECTOR)' = v
    BY <1>5, <1>7, <1>8, <1>10, <2>3
  <2>8. QED
    BY <1>1, <1>2, <1>5, <2>6, <2>7
<1>13. fs' # NoFs /\ fs'.name = FormatOf(taken') /\ d'.size = Disk.size
  <2>1. NoFs.name # "2.5"
    BY DEF NoFs
  <2>2. QED
    BY <1>1, <1>2, <1>5, <2>1
<1>14. QED
  BY <1>2, <1>6, <1>9, <1>11, <1>12, <1>13, TurnMade DEF y

LEMMA RunTurn ==
    ASSUME NEW line, Reads(line), phase = "script", Run(line), phase' = "script"
    PROVE  Turn'
<1>1. CASE DiskLine(line)
  BY <1>1, DiskTurn
<1>2. CASE FormatThrough(line)
  BY <1>2, FormatThroughTurn
<1>3. CASE FormatPast(line)
  BY <1>3, FormatPastTurn
<1>4. CASE BootLine(line)
  BY <1>4, BootTurn
<1>5. CASE PropertyLine(line)
  BY <1>5, PropertyTurn
<1>6. CASE FileThrough(line)
  BY <1>6, FileThroughTurn
<1>7. CASE FilePast(line)
  BY <1>7, FilePastTurn
<1>8. ~FormatNotHere(line) /\ ~UnknownFormat(line) /\ ~NoSuchProperty(line) /\ ~NoDir(line)
  BY DEF FormatNotHere, UnknownFormat, NoSuchProperty, NoDir, Stops
<1>9. QED
  BY <1>1, <1>2, <1>3, <1>4, <1>5, <1>6, <1>7, <1>8 DEF Run

-----------------------------------------------------------------------------
(* And so does the whole script.                                           *)
LEMMA TurnStart == ScriptInit => ScriptIInv
<1> SUFFICES ASSUME ScriptInit PROVE ScriptIInv
  OBVIOUS
<1>1. ScriptInv
  BY ScriptStart
<1>2. d = NoDisk /\ cache = [s \in {} |-> <<>>] /\ fs = NoFs /\ taken = <<>>
  BY DEF ScriptInit
<1>3. DOMAIN cache = {}
  BY <1>2
<1>4. InTurn
  BY <1>2, <1>3, SaidEmpty DEF InTurn
<1>5. TablesInTurn
  BY <1>2 DEF TablesInTurn
<1>6. BootKept /\ TablesKept
  BY <1>2 DEF BootKept, TablesKept, SavedNow
<1>7. QED
  BY <1>1, <1>4, <1>5, <1>6 DEF ScriptIInv, ScriptInv

(* A step that leaves the disk, as it is seen, and what has been said.     *)
LEMMA TurnUnseen ==
    ASSUME ScriptTypes, Turn, Unseen, UNCHANGED <<fs, taken>> PROVE Turn'
<1>1. /\ d # NoDisk /\ d' # NoDisk /\ d'.size = d.size /\ d'.count = d.count
      /\ DOMAIN cache' \subseteq DOMAIN cache
      /\ \A t \in 1 .. d.count : Through(t)' = Through(t)
      /\ \A t \in 1 .. d.count : t \notin DOMAIN cache => d'.data[t] = d.data[t]
  BY DEF Unseen
<1>2. /\ \A s \in BootSectors : s \in 1 .. d.count
      /\ VTOC_SECTOR \in 1 .. d.count /\ DIR_SECTOR \in 1 .. d.count
  <2>1. Disk = d
    BY <1>1, DiskSeen
  <2>2. QED
    BY <2>1, BootThrough
<1>3. /\ OnlyPast' <=> OnlyPast
      /\ NoFile' <=> NoFile
      /\ FormatsInOrder' <=> FormatsInOrder
  BY DEF OnlyPast, NoFile, FormatsInOrder
<1>4. InTurn'
  <2>1. fs' = NoFs => \A k \in DOMAIN taken' : taken'[k].command \notin {"FORMAT", "FILE"}
    BY DEF Turn, InTurn
  <2>2. fs' # NoFs => fs'.name = FormatOf(taken')
    BY DEF Turn, InTurn
  <2>3. OnlyPast' => VTOC_SECTOR \notin DOMAIN cache' /\ DIR_SECTOR \notin DOMAIN cache'
    BY <1>1, <1>3 DEF Turn, InTurn
  <2>4. \A s \in BootSectors : Through(s)' = SaidBy(taken', d'.size)[s]
    BY <1>1, <1>2 DEF Turn, InTurn
  <2>5. QED
    BY <1>1, <2>1, <2>2, <2>3, <2>4 DEF InTurn
<1>5. TablesInTurn'
  <2>1. SUFFICES ASSUME FormatsInOrder'
        PROVE  /\ \A s \in {VTOC_SECTOR, DIR_SECTOR} : Through(s)' = SaidBy(taken', d'.size)[s]
               /\ fs'.name = "2.5" => d'.data[VTOC_SECTOR] = fs'.vtoc_buf
               /\ NoFile' => Through(DIR_SECTOR)' = Zeros(d'.size)[DIR_SECTOR]
    BY DEF TablesInTurn
  <2>2. /\ \A s \in {VTOC_SECTOR, DIR_SECTOR} : Through(s) = SaidBy(taken, d.size)[s]
        /\ fs.name = "2.5" => d.data[VTOC_SECTOR] = fs.vtoc_buf
        /\ NoFile => Through(DIR_SECTOR) = Zeros(d.size)[DIR_SECTOR]
    BY <1>1, <1>3, <2>1 DEF Turn, TablesInTurn
  <2>3. fs.name = "2.5" => VTOC_SECTOR \notin DOMAIN cache
    <3>1. ASSUME fs.name = "2.5" PROVE VTOC_SECTOR \notin DOMAIN cache
      <4>0. NoFs.name # "2.5"
        BY DEF NoFs
      <4>1. fs # NoFs
        BY <3>1, <4>0
      <4>2. FormatOf(taken) = "2.5" /\ taken \in Seq(Lines)
        BY <3>1, <4>1 DEF Turn, InTurn, ScriptTypes
      <4>3. OnlyPast
        BY <1>3, <2>1, <4>2, InOrderPast
      <4>4. QED
        BY <4>3 DEF Turn, InTurn
    <3>2. QED
      BY <3>1
  <2>4. QED
    BY <1>1, <1>2, <1>3, <2>2, <2>3
<1>6. QED
  BY <1>4, <1>5 DEF Turn

LEMMA NotSaved ==
    ASSUME phase' # "saved" PROVE BootKept' /\ TablesKept'
BY DEF BootKept, TablesKept, SavedNow

LEMMA SaveKept ==
    ASSUME ScriptTypes, UserScript => Turn, SaveDisk
    PROVE  BootKept' /\ TablesKept'
<1>1. CASE phase' # "saved"
  BY <1>1, NotSaved
<1>2. CASE phase' = "saved"
  <2>1. phase = "script" /\ boot_bin = <<>> /\ d # NoDisk /\ d' = Flushed /\ UNCHANGED <<taken, cut>>
    BY <1>2 DEF SaveDisk
  <2>2. /\ d'.size = d.size
        /\ \A s \in 1 .. d.count : d'.data[s] = Through(s)
    BY <2>1, FlushedFacts
  <2>3. Turn
    BY <2>1 DEF UserScript
  <2>4. /\ \A s \in BootSectors : s \in 1 .. d.count
        /\ VTOC_SECTOR \in 1 .. d.count /\ DIR_SECTOR \in 1 .. d.count
    <3>1. Disk = d
      BY <2>1, DiskSeen
    <3>2. QED
      BY <3>1, BootThrough
  <2>5. \A s \in BootSectors : d'.data[s] = SaidBy(taken', d'.size)[s]
    BY <2>1, <2>2, <2>3, <2>4 DEF Turn, InTurn
  <2>6. FormatsInOrder' =>
            \A s \in {VTOC_SECTOR, DIR_SECTOR} : d'.data[s] = SaidBy(taken', d'.size)[s]
    <3>1. FormatsInOrder' => FormatsInOrder
      BY <2>1 DEF FormatsInOrder
    <3>2. QED
      BY <2>1, <2>2, <2>3, <2>4, <3>1 DEF Turn, TablesInTurn
  <2>7. QED
    BY <2>5, <2>6 DEF BootKept, TablesKept
<1>3. QED
  BY <1>1, <1>2

LEMMA TurnStep == ScriptIInv /\ [ScriptNext]_scriptVars => ScriptIInv'
<1> SUFFICES ASSUME ScriptIInv, [ScriptNext]_scriptVars PROVE ScriptIInv'
  OBVIOUS
<1>1. ScriptTypes /\ Programs /\ (UserScript => Turn) /\ BootKept /\ TablesKept /\ ScriptInv
  BY DEF ScriptIInv, ScriptInv, Turn
<1>2. ScriptInv'
  BY <1>1, ScriptInvStep
<1>3. SUFFICES (UserScript' => Turn') /\ BootKept' /\ TablesKept'
  BY <1>2 DEF ScriptIInv, ScriptInv, Turn
<1>4. CASE Evict
  <2>1. Unseen /\ phase = "script" /\ UNCHANGED <<sector_size, sector_count, fs, script, taken,
                boot_bin, image, origin, cut, phase>>
    BY <1>1, <1>4, EvictFacts
  <2>2. UserScript' => Turn'
    BY <1>1, <2>1, TurnUnseen DEF UserScript
  <2>3. phase' # "saved"
    BY <2>1
  <2>4. QED
    BY <2>2, <2>3, NotSaved
<1>5. CASE NextLine
  <2>1. phase = "script" /\ boot_bin' = boot_bin /\ phase' \in {"script", "elsewhere", "error", "crash"}
    <3>1. PICK line : IsTyped(line) /\ Run(line) /\ phase = "script"
      BY <1>1, <1>5, ScriptTail, LineTyped DEF NextLine
    <3>2. QED
      BY <1>1, <3>1, RunKeeps
  <2>2. ASSUME UserScript' PROVE Turn'
    <3>1. boot_bin = <<>> /\ script = <<>> /\ phase' = "script"
      BY <1>1, <2>1, <2>2 DEF UserScript, Programs
    <3>2. PICK line \in Lines : Run(line) /\ taken' = Append(taken, line)
      BY <1>5, <3>1 DEF NextLine
    <3>3. Reads(line)
      BY <1>1, <2>1, <3>1, <3>2 DEF Reads, UserScript
    <3>4. QED
      BY <2>1, <3>1, <3>2, <3>3, RunTurn
  <2>3. phase' # "saved"
    BY <2>1
  <2>4. QED
    BY <2>2, <2>3, NotSaved
<1>6. CASE SaveDisk
  <2>1. ~UserScript'
    BY <1>6 DEF SaveDisk, UserScript
  <2>2. QED
    BY <1>1, <1>6, <2>1, SaveKept
<1>7. CASE CutShort
  <2>1. phase' = "saved" /\ UNCHANGED <<d, taken>> /\ cut = 0
    BY <1>7 DEF CutShort
  <2>2. SavedNow' => SavedNow
    BY <1>7, <2>1 DEF CutShort, SavedNow
  <2>3. ~UserScript'
    BY <2>1 DEF UserScript
  <2>4. FormatsInOrder' <=> FormatsInOrder
    BY <2>1 DEF FormatsInOrder
  <2>5. QED
    BY <1>1, <2>1, <2>2, <2>3, <2>4 DEF BootKept, TablesKept
<1>8. CASE Load
  <2>1. phase' = "loaded"
    BY <1>8 DEF Load
  <2>2. QED
    BY <2>1, NotSaved DEF UserScript
<1>9. CASE Unpack
  <2>1. phase' # "saved" /\ (UserScript' => boot_bin' = <<>> /\ phase' = "script")
    BY <1>9 DEF Unpack, UserScript
  <2>2. ASSUME UserScript' PROVE FALSE
    <3>1. phase = "loaded" /\ boot_bin' = BootFile(d)
      BY <1>9, <2>1, <2>2 DEF Unpack, BootFile
    <3>2. IsDisk(d)
      BY <1>1, <3>1 DEF Programs, ScriptTypes, DiskTypes
    <3>3. QED
      BY <2>1, <2>2, <3>1, <3>2, BootFileFacts
  <2>3. QED
    BY <2>1, <2>2, NotSaved
<1>10. CASE UNCHANGED scriptVars
  <2>1. UNCHANGED <<sector_size, sector_count, d, cache, fs, script, taken, boot_bin, image,
                    origin, cut, phase>>
    BY <1>10 DEF scriptVars
  <2>2. /\ OnlyPast' <=> OnlyPast
        /\ NoFile' <=> NoFile
        /\ FormatsInOrder' <=> FormatsInOrder
        /\ SavedNow' <=> SavedNow
        /\ UserScript' <=> UserScript
    BY <2>1 DEF OnlyPast, NoFile, FormatsInOrder, SavedNow, UserScript
  <2>3. \A s : Through(s)' = Through(s)
    BY <2>1 DEF Through, Disk
  <2>4. UserScript' => InTurn'
    BY <1>1, <2>1, <2>2, <2>3 DEF Turn, InTurn
  <2>5. UserScript' => TablesInTurn'
    BY <1>1, <2>1, <2>2, <2>3 DEF Turn, TablesInTurn
  <2>6. BootKept' /\ TablesKept'
    BY <1>1, <2>1, <2>2 DEF BootKept, TablesKept
  <2>7. QED
    BY <2>4, <2>5, <2>6 DEF Turn
<1>11. QED
  BY <1>4, <1>5, <1>6, <1>7, <1>8, <1>9, <1>10 DEF ScriptNext

LEMMA ScriptKept == ScriptSpec => []ScriptIInv
BY TurnStart, TurnStep, PTL DEF ScriptSpec

(***************************************************************************)
(* Whatever the lines of a script, the order they come in and what the     *)
(* cache makes room for between two of them, the boot sectors of the disk  *)
(* that is saved are what the lines say one after the other.               *)
(***************************************************************************)
THEOREM BootsKept == ScriptSpec => []BootKept
<1>1. ScriptIInv => BootKept
  BY DEF ScriptIInv
<1>2. QED
  BY ScriptKept, <1>1, PTL

(***************************************************************************)
(* And its table and directory, unless the script formats with DOS 2.5     *)
(* what it has formatted through the cache, or formats what has files.     *)
(***************************************************************************)
THEOREM TablesInOrder == ScriptSpec => []TablesKept
<1>1. ScriptIInv => TablesKept
  BY DEF ScriptIInv
<1>2. QED
  BY ScriptKept, <1>1, PTL

-----------------------------------------------------------------------------
(* The script of unpack, read by pack.  How much of the disk is made again *)
(* by the lines that are not left any more.                                *)
Remade ==
    /\ d # NoDisk /\ d.size = origin.size /\ d.count = origin.count
    /\ fs # NoFs /\ fs.name = Detect(origin)
    /\ Through(VTOC_SECTOR)[1] = Version(fs.name, d.size)
BootRemade == \A s \in BootSectors : Through(s) = origin.data[s]
LeftAll(P) == script = <<DiskOf(origin)>> \o (<<FormatFor(origin)>> \o (<<BootOf>> \o P))
LeftFormat(P) ==
    /\ script = <<FormatFor(origin)>> \o (<<BootOf>> \o P)
    /\ sector_size = origin.size /\ sector_count = origin.count
LeftBoot(P) == script = <<BootOf>> \o P

Remakes(P) ==
    \/ d = NoDisk /\ LeftAll(P)
    \/ d = NoDisk /\ LeftFormat(P)
    \/ Remade /\ LeftBoot(P)
    \/ Remade /\ BootRemade /\ script = P

Again == phase = "script" /\ boot_bin # <<>>
OriginTypes == IsDisk(origin) /\ boot_bin = BootFile(origin) /\ Detect(origin) \in Systems
AgainTurn == OriginTypes /\ \E P \in Seq(PropertyLineSet(origin)) : Remakes(P)

AgainIInv ==
    /\ ScriptInv
    /\ Again => AgainTurn
    /\ UnpackedSame

(* One line before others.                                                 *)
LEMMA HeadTail ==
    ASSUME NEW x, NEW T, NEW rest \in Seq(T)
    PROVE  /\ <<x>> \o rest \in Seq(T \cup {x}) /\ <<x>> \o rest # <<>>
           /\ Head(<<x>> \o rest) = x /\ Tail(<<x>> \o rest) = rest
<1> DEFINE all == <<x>> \o rest
           S == T \cup {x}
           n == Len(rest)
<1>1. rest \in Seq(S) /\ <<x>> \in Seq(S) /\ Len(<<x>>) = 1 /\ n \in Nat
  OBVIOUS
<1>2. /\ all \in Seq(S) /\ Len(all) = 1 + n
      /\ \A i \in 1 .. 1 + n : all[i] = IF i <= 1 THEN <<x>>[i] ELSE rest[i - 1]
  <2> HIDE DEF S
  <2> DEFINE y == <<x>>
  <2>1. y \in Seq(S) /\ Len(y) = 1
    BY <1>1
  <2> HIDE DEF y
  <2>2. /\ y \o rest \in Seq(S) /\ Len(y \o rest) = Len(y) + Len(rest)
        /\ \A i \in 1 .. Len(y) + Len(rest) :
                (y \o rest)[i] = IF i <= Len(y) THEN y[i] ELSE rest[i - Len(y)]
    BY <1>1, <2>1, ConcatProperties, Zenon
  <2>3. QED
    BY <2>1, <2>2 DEF y
<1> HIDE DEF all, n
<1>3. all # <<>> /\ Head(all) = x
  BY <1>1, <1>2
<1>4. Tail(all) = rest
  <2>1. Tail(all) \in Seq(S) /\ Len(Tail(all)) = n /\ \A i \in 1 .. n : Tail(all)[i] = all[i + 1]
    BY <1>1, <1>2, <1>3
  <2>2. \A i \in 1 .. n : all[i + 1] = rest[i]
    <3>1. ASSUME NEW i \in 1 .. n PROVE all[i + 1] = rest[i]
      <4> DEFINE k == i + 1
      <4>1. k \in 1 .. 1 + n /\ ~(k <= 1) /\ k - 1 = i
        BY <1>1
      <4> HIDE DEF k
      <4>2. all[k] = rest[i]
        BY <1>2, <4>1
      <4>3. QED
        BY <4>2 DEF k
    <3>2. QED
      BY <3>1
  <2>3. QED
    BY <1>1, <2>1, <2>2, SeqEqual DEF n
<1>5. QED
  BY <1>2, <1>3, <1>4 DEF all

(* The lines as unpack writes them.                                        *)
LEMMA WrittenInTurn ==
    ASSUME Detect(d) \in Systems
    PROVE  \E P \in Seq(PropertyLineSet(d)) :
                Header(Detect(d)) \o PropertyLines(Detect(d)) =
                    <<DiskOf(d)>> \o (<<FormatFor(d)>> \o (<<BootOf>> \o P))
<1> DEFINE P == PropertyLines(Detect(d))
           a == DiskOf(d)
           b == FormatFor(d)
           c == BootOf
           T == PropertyLineSet(d)
<1>1. P \in Seq(T)
  BY PropertyLinesFacts
<1>2. Header(Detect(d)) = <<a, b, c>>
  BY DEF Header, DiskOf, FormatFor, BootOf
<1>3. <<a, b, c>> \o P = <<a>> \o (<<b>> \o (<<c>> \o P))
  <2> HIDE DEF P, a, b, c, T
  <2> DEFINE S == T \cup {a, b, c}
             n == Len(P)
  <2>1. P \in Seq(S) /\ n \in Nat
    BY <1>1
  <2>2. <<a, b, c>> \o P = [i \in 1 .. 3 + n |-> IF i <= 3 THEN <<a, b, c>>[i] ELSE P[i - 3]]
    BY <2>1
  <2>3. <<c>> \o P = [i \in 1 .. 1 + n |-> IF i <= 1 THEN <<c>>[i] ELSE P[i - 1]]
    BY <2>1
  <2> DEFINE q == <<c>> \o P
  <2>4. q \in Seq(S) /\ Len(q) = 1 + n /\ \A i \in 1 .. 1 + n : q[i] = IF i = 1 THEN c ELSE P[i - 1]
    BY <2>1, <2>3
  <2> HIDE DEF q
  <2> DEFINE r == <<b>> \o q
  <2>5. r \in Seq(S) /\ Len(r) = 2 + n /\ \A i \in 1 .. 2 + n : r[i] = IF i = 1 THEN b ELSE q[i - 1]
    BY <2>1, <2>4
  <2> HIDE DEF r
  <2> DEFINE t == <<a>> \o r
  <2>6. t \in Seq(S) /\ Len(t) = 3 + n /\ \A i \in 1 .. 3 + n : t[i] = IF i = 1 THEN a ELSE r[i - 1]
    BY <2>1, <2>5
  <2> HIDE DEF t
  <2> DEFINE h == <<a, b, c>>
  <2>7. h[1] = a /\ h[2] = b /\ h[3] = c /\ h \in Seq(S) /\ Len(h) = 3
    OBVIOUS
  <2> HIDE DEF h, S, n
  <2> DEFINE u == h \o P
  <2>8. /\ u \in Seq(S) /\ Len(u) = Len(h) + Len(P)
        /\ \A i \in 1 .. Len(h) + Len(P) : u[i] = IF i <= Len(h) THEN h[i] ELSE P[i - Len(h)]
    BY <2>1, <2>7, ConcatProperties, Zenon
  <2> HIDE DEF u
  <2>9. Len(u) = 3 + n /\ \A i \in 1 .. 3 + n : u[i] = IF i <= 3 THEN h[i] ELSE P[i - 3]
    BY <2>7, <2>8 DEF n
  <2>10. ASSUME NEW i \in 1 .. 3 + n PROVE u[i] = t[i]
    <3>1. i \in Nat /\ i >= 1 /\ i <= 3 + n
      BY <2>1
    <3>2. CASE i = 1
      BY <2>6, <2>7, <2>9, <3>1, <3>2
    <3>3. CASE i = 2
      <4>1. i \in 1 .. 3 + n /\ 1 \in 1 .. 2 + n
        BY <2>1, <3>1, <3>3
      <4>2. u[i] = b
        BY <2>7, <2>9, <3>3, <4>1
      <4>3. t[i] = r[1]
        BY <2>6, <3>3, <4>1
      <4>4. r[1] = b
        BY <2>5, <4>1
      <4>5. QED
        BY <4>2, <4>3, <4>4
    <3>4. CASE i = 3
      <4>1. i \in 1 .. 3 + n /\ 2 \in 1 .. 2 + n /\ 1 \in 1 .. 1 + n
        BY <2>1, <3>1, <3>4
      <4>2. u[i] = c
        BY <2>7, <2>9, <3>4, <4>1
      <4>3. t[i] = r[2]
        BY <2>6, <3>4, <4>1
      <4>4. r[2] = q[1]
        BY <2>5, <4>1
      <4>5. q[1] = c
        BY <2>4, <4>1
      <4>6. QED
        BY <4>2, <4>3, <4>4, <4>5
    <3>5. CASE i > 3
      <4> DEFINE j == i - 1
                 k == j - 1
                 m == k - 1
      <4>1. /\ j \in 1 .. 2 + n /\ j # 1 /\ k \in 1 .. 1 + n /\ k # 1 /\ i # 1 /\ ~(i <= 3)
            /\ m = i - 3
        BY <2>1, <3>1, <3>5
      <4> HIDE DEF j, k, m
      <4>2. t[i] = r[j]
        BY <2>6, <4>1 DEF j
      <4>3. r[j] = q[k]
        BY <2>5, <4>1 DEF k
      <4>4. q[k] = P[m]
        BY <2>4, <4>1 DEF m
      <4>5. u[i] = P[m]
        BY <2>9, <4>1
      <4>6. QED
        BY <4>2, <4>3, <4>4, <4>5
    <3>6. QED
      BY <3>1, <3>2, <3>3, <3>4, <3>5
  <2>11. u = t
    <3> DEFINE m == 3 + n
    <3>1. u \in Seq(S) /\ t \in Seq(S) /\ Len(u) = m /\ Len(t) = m /\ m \in Nat
      BY <2>1, <2>6, <2>8, <2>9
    <3>2. \A i \in 1 .. m : u[i] = t[i]
      BY <2>10
    <3> HIDE DEF m
    <3>3. QED
      BY <3>1, <3>2, SeqEqual
  <2>12. QED
    BY <2>11 DEF u, t, r, q, h
<1> HIDE DEF P, a, b, c
<1>4. <<a, b, c>> \o P = <<a>> \o (<<b>> \o (<<c>> \o P)) /\ P \in Seq(T)
  BY <1>1, <1>3
<1>5. QED
  BY <1>2, <1>4 DEF P, a, b, c, T

(* The line that is read, with those that are left after it.               *)
AgainLine(line) ==
    /\ ScriptTypes /\ Again /\ OriginTypes /\ Run(line) /\ IsTyped(line)
    /\ phase' = "script"

LEMMA AgainLineFacts ==
    ASSUME NEW line, AgainLine(line)
    PROVE  /\ LineKeeps /\ UNCHANGED <<boot_bin, origin>>
           /\ IsDisk(origin) /\ boot_bin = BootFile(origin) /\ Detect(origin) \in Systems
BY RunKeeps DEF AgainLine, OriginTypes

LEMMA AgainDisk ==
    ASSUME d = NoDisk, AgainLine(DiskOf(origin))
    PROVE  d' = NoDisk /\ sector_size' = origin.size /\ sector_count' = origin.count
<1> DEFINE line == DiskOf(origin)
<1>1. line.command = "DISK" /\ line.size = origin.size /\ line.count = origin.count
  BY DEF DiskOf
<1> HIDE DEF line
<1>2. Run(line)
  BY DEF AgainLine, line
<1>3. DiskLine(line)
  BY <1>1, <1>2 DEF Run, FormatThrough, FormatPast, FormatNotHere, UnknownFormat, BootLine,
        PropertyLine, NoSuchProperty, NoDir, FileThrough, FilePast
<1>4. QED
  BY <1>1, <1>3 DEF DiskLine

LEMMA TableVersion ==
    ASSUME NEW dos, NEW size \in Nat, size >= BOOT
    PROVE  FormattedTable(dos, size)[1] = Version(dos, size)
<1>1. 1 \in 1 .. size
  BY ScriptNumbers
<1>2. QED
  BY <1>1 DEF FormattedTable

LEMMA AgainFormat ==
    ASSUME d = NoDisk, sector_size = origin.size, sector_count = origin.count,
           AgainLine(FormatFor(origin))
    PROVE  Remade'
<1> DEFINE line == FormatFor(origin)
           dos == Detect(origin)
<1>1. line.command = "FORMAT" /\ line.dos = dos
  BY DEF FormatFor
<1>2. ScriptTypes /\ Run(line) /\ DiskGrown /\ origin' = origin /\ dos \in Systems
  BY AgainLineFacts DEF AgainLine, LineKeeps
<1>3. Disk.size = origin.size /\ Disk.count = origin.count /\ DOMAIN cache = {}
  BY <1>2, DiskSeen
<1>4. Disk.size \in Nat /\ Disk.size >= BOOT
  BY <1>2, DiskSeen, DiskFacts
<1>5. Detect(origin)' = dos
  BY <1>2
<1> HIDE DEF line, dos
<1>6. FormatThrough(line) \/ FormatPast(line)
  <2>1. line.dos \in Formats /\ line.dos \notin FormatsNotHere
    BY <1>1, <1>2 DEF Systems, Formats, FormatsNotHere
  <2>2. QED
    BY <1>1, <1>2, <2>1 DEF Run, DiskLine, FormatNotHere, UnknownFormat, BootLine,
        PropertyLine, NoSuchProperty, NoDir, FileThrough, FilePast
<1>7. SUFFICES /\ d' # NoDisk /\ fs' # NoFs /\ fs'.name = dos
               /\ Through(VTOC_SECTOR)' = FormattedTable(dos, Disk.size)
  <2>1. /\ d' # NoDisk /\ fs' # NoFs /\ fs'.name = dos
        /\ Through(VTOC_SECTOR)' = FormattedTable(dos, Disk.size)
    BY <1>7
  <2>2. d'.size = Disk.size /\ d'.count = Disk.count
    BY <1>2, <2>1 DEF DiskGrown
  <2>3. FormattedTable(dos, Disk.size)[1] = Version(dos, Disk.size)
    BY <1>4, TableVersion
  <2>4. QED
    BY <1>2, <1>3, <1>5, <2>1, <2>2, <2>3 DEF Remade
<1>8. CASE FormatThrough(line)
  <2>1. /\ fs' # NoFs /\ fs'.name = line.dos /\ d' # NoDisk
        /\ \A s : Through(s)' = CASE s = VTOC_SECTOR -> FormattedTable(line.dos, Disk.size)
                                  [] s = DIR_SECTOR -> Inited(DIR_SECTOR)
                                  [] OTHER -> Through(s)
    BY <1>2, <1>8, FormatThroughFacts
  <2>2. Through(VTOC_SECTOR)' = FormattedTable(line.dos, Disk.size)
    <3> DEFINE v == FormattedTable(line.dos, Disk.size)
    <3> HIDE DEF v
    <3>1. \A s : Through(s)' = CASE s = VTOC_SECTOR -> v [] s = DIR_SECTOR -> Inited(DIR_SECTOR)
                                  [] OTHER -> Through(s)
      BY <2>1 DEF v
    <3>2. VTOC_SECTOR # DIR_SECTOR
      BY ScriptNumbers
    <3>3. QED
      BY <3>1, <3>2 DEF v
  <2>3. QED
    BY <1>1, <2>1, <2>2
<1>9. CASE FormatPast(line)
  <2>1. /\ fs' # NoFs /\ fs'.name = "2.5" /\ Installed(line.dos) = "2.5"
        /\ d' # NoDisk /\ cache' = cache
        /\ d'.data[VTOC_SECTOR] = FormattedTable("2.5", Disk.size)
    BY <1>2, <1>9, FormatPastFacts
  <2>2. dos = "2.5"
    BY <1>1, <1>2, <2>1 DEF Installed, Systems
  <2>3. Through(VTOC_SECTOR)' = d'.data[VTOC_SECTOR]
    BY <1>3, <2>1, ThroughAfter
  <2>4. QED
    BY <2>1, <2>2, <2>3
<1>10. QED
  BY <1>6, <1>8, <1>9

(* What BOOT finds in boot.bin.                                            *)
LEMMA BootFileBytes ==
    ASSUME NEW dk, IsDisk(dk), NEW s \in BootSectors, NEW p \in 1 .. BOOT
    PROVE  BootFile(dk)[(s - 1) * BOOT + p] = dk.data[s][p]
<1> DEFINE x == dk.data[1]
           y == dk.data[2]
           z == dk.data[3]
           w == x \o y
<1>1. IsSector(x, BOOT) /\ IsSector(y, BOOT) /\ IsSector(z, BOOT) /\ BOOT \in Nat /\ BOOT > 0
  <2>1. dk.count \in Nat /\ dk.count >= DIR_SECTOR /\ DIR_SECTOR \in Nat /\ DIR_SECTOR > 3
    BY DiskFacts, ScriptNumbers
  <2>2. 1 \in 1 .. dk.count /\ 2 \in 1 .. dk.count /\ 3 \in 1 .. dk.count
    BY <2>1
  <2>3. SectorSize(dk.size, 1) = BOOT /\ SectorSize(dk.size, 2) = BOOT /\ SectorSize(dk.size, 3) = BOOT
    BY DEF SectorSize
  <2>4. \A k \in 1 .. dk.count : IsSector(dk.data[k], SectorSize(dk.size, k))
    BY DiskFacts
  <2>5. IsSector(x, BOOT) /\ IsSector(y, BOOT) /\ IsSector(z, BOOT)
    BY <2>2, <2>3, <2>4
  <2>6. BOOT \in Nat /\ BOOT > 0
    BY ScriptNumbers
  <2>7. QED
    BY <2>5, <2>6
<1>2. BootFile(dk) = w \o z
  BY DEF BootFile
<1>3. s \in {1, 2, 3}
  BY DEF BootSectors
<1>4. (s = 1 => dk.data[s] = x) /\ (s = 2 => dk.data[s] = y) /\ (s = 3 => dk.data[s] = z)
  OBVIOUS
<1> HIDE DEF x, y, z
<1>5. x \in Seq(Nat) /\ y \in Seq(Nat) /\ z \in Seq(Nat) /\ Len(x) = BOOT /\ Len(y) = BOOT /\ Len(z) = BOOT
  BY <1>1 DEF IsSector
<1>6. /\ w \in Seq(Nat) /\ Len(w) = Len(x) + Len(y)
      /\ \A i \in 1 .. Len(x) + Len(y) : w[i] = IF i <= Len(x) THEN x[i] ELSE y[i - Len(x)]
  BY <1>5, ConcatProperties, Zenon
<1> HIDE DEF w
<1>7. \A i \in 1 .. Len(w) + Len(z) : (w \o z)[i] = IF i <= Len(w) THEN w[i] ELSE z[i - Len(w)]
  <2>1. w \in Seq(Nat) /\ z \in Seq(Nat)
    BY <1>5, <1>6
  <2>2. QED
    BY <2>1, ConcatProperties, Zenon
<1> DEFINE k == (s - 1) * BOOT + p
           b == w \o z
<1>8. p \in Nat /\ 1 <= p /\ p <= BOOT
  BY <1>1
<1> HIDE DEF b
<1>9. CASE s = 1
  <2>1. k = p
    BY <1>1, <1>8, <1>9
  <2>2. p \in 1 .. Len(w) + Len(z) /\ p <= Len(w) /\ p \in 1 .. Len(x) + Len(y) /\ p <= Len(x)
    BY <1>1, <1>5, <1>6, <1>8
  <2>3. b[p] = w[p]
    BY <1>7, <2>2 DEF b
  <2>4. w[p] = x[p]
    BY <1>6, <2>2
  <2>5. QED
    BY <1>2, <1>4, <1>9, <2>1, <2>3, <2>4 DEF b
<1>10. CASE s = 2
  <2> DEFINE i == BOOT + p
  <2>1. k = i
    BY <1>1, <1>8, <1>10
  <2>2. /\ i \in 1 .. Len(w) + Len(z) /\ i <= Len(w) /\ i \in 1 .. Len(x) + Len(y)
        /\ ~(i <= Len(x)) /\ i - Len(x) = p
    BY <1>1, <1>5, <1>6, <1>8
  <2> HIDE DEF i
  <2>3. b[i] = w[i]
    BY <1>7, <2>2 DEF b
  <2>4. w[i] = y[p]
    BY <1>6, <2>2
  <2>5. QED
    BY <1>2, <1>4, <1>10, <2>1, <2>3, <2>4 DEF b
<1>11. CASE s = 3
  <2> DEFINE i == 2 * BOOT + p
  <2>1. k = i
    BY <1>1, <1>8, <1>11
  <2>2. i \in 1 .. Len(w) + Len(z) /\ ~(i <= Len(w)) /\ i - Len(w) = p
    BY <1>1, <1>5, <1>6, <1>8
  <2> HIDE DEF i
  <2>3. b[i] = z[p]
    BY <1>7, <2>2 DEF b
  <2>4. QED
    BY <1>2, <1>4, <1>11, <2>1, <2>3 DEF b
<1>12. QED
  BY <1>3, <1>9, <1>10, <1>11

LEMMA BootFileRead ==
    ASSUME NEW dk, IsDisk(dk), NEW s \in BootSectors
    PROVE  BootRead(BootFile(dk), s) = dk.data[s]
<1> DEFINE b == BootFile(dk)
           x == dk.data[s]
<1>1. Len(b) = 3 * BOOT
  BY BootFileFacts
<1>2. IsSector(x, BOOT)
  <2>1. s \in 1 .. dk.count /\ SectorSize(dk.size, s) = BOOT
    BY DiskFacts, ScriptNumbers DEF SectorSize
  <2>2. QED
    BY <2>1, DiskFacts
<1>3. \A p \in 1 .. BOOT : b[(s - 1) * BOOT + p] = x[p]
  BY BootFileBytes
<1>4. x = [p \in 1 .. BOOT |-> x[p]]
  BY <1>2, ScriptNumbers, SectorBytes
<1> HIDE DEF b, x
<1>5. ASSUME NEW p \in 1 .. BOOT PROVE (s - 1) * BOOT + p <= Len(b)
  <2>1. p <= BOOT /\ p \in Nat /\ BOOT \in Nat
    BY ScriptNumbers
  <2>2. s \in {1, 2, 3}
    BY DEF BootSectors
  <2>3. s = 1 => (s - 1) * BOOT = 0
    BY <2>1
  <2>4. s = 2 => (s - 1) * BOOT = BOOT
    BY <2>1
  <2>5. s = 3 => (s - 1) * BOOT = 2 * BOOT
    BY <2>1
  <2>6. QED
    BY <1>1, <2>1, <2>2, <2>3, <2>4, <2>5
<1>6. BootRead(b, s) = [p \in 1 .. BOOT |-> x[p]]
  BY <1>3, <1>5 DEF BootRead
<1>7. QED
  BY <1>4, <1>6 DEF b, x

LEMMA AgainBoot ==
    ASSUME Remade, AgainLine(BootOf)
    PROVE  Remade' /\ BootRemade'
<1> DEFINE line == BootOf
           news == BootNews(boot_bin)
<1>1. line.command = "BOOT" /\ line.file = "boot.bin"
  BY DEF BootOf
<1>2. /\ ScriptTypes /\ Run(line) /\ DiskGrown /\ origin' = origin
      /\ IsDisk(origin) /\ boot_bin = BootFile(origin)
  BY AgainLineFacts DEF AgainLine, LineKeeps
<1>3. d # NoDisk /\ Disk = d
  BY <1>2, DiskSeen DEF Remade
<1>4. Detect(origin)' = Detect(origin)
  BY <1>2
<1> HIDE DEF line
<1>5. BootLine(line)
  BY <1>1, <1>2 DEF Run, DiskLine, FormatThrough, FormatPast, FormatNotHere, UnknownFormat,
        PropertyLine, NoSuchProperty, NoDir, FileThrough, FilePast
<1>6. d' = Disk /\ cache' = IntoCache(news) /\ fs' = fs
  BY <1>1, <1>5, BootLineFacts DEF BootBytes
<1>7. CacheFits(news, Disk)
  BY <1>2, BootNewsFits DEF ScriptTypes
<1>8. DOMAIN news = BootSectors /\ \A s \in BootSectors : news[s] = origin.data[s]
  <2>1. \A s \in BootSectors : BootRead(boot_bin, s) = origin.data[s]
    BY <1>2, BootFileRead
  <2>2. QED
    BY <2>1 DEF BootNews
<1> HIDE DEF news
<1>9. /\ \A s \in DOMAIN news : Through(s)' = news[s]
      /\ \A s : s \notin DOMAIN news => Through(s)' = Through(s)
  BY <1>2, <1>6, <1>7, ThroughInto
<1>10. \A s \in BootSectors : Through(s)' = origin.data[s]
  BY <1>8, <1>9
<1>11. Through(VTOC_SECTOR)' = Through(VTOC_SECTOR)
  BY <1>8, <1>9, ScriptNumbers
<1>12. Remade'
  BY <1>2, <1>3, <1>4, <1>6, <1>11 DEF Remade
<1>13. QED
  BY <1>2, <1>10, <1>12 DEF BootRemade

LEMMA AgainSet ==
    ASSUME Remade, BootRemade, NEW line \in PropertyLineSet(origin), AgainLine(line)
    PROVE  Remade' /\ BootRemade'
<1> DEFINE q == Properties(fs.name)[line.property]
           x == [Through(1) EXCEPT ![q] = line.value]
<1>1. /\ ScriptTypes /\ Run(line) /\ DiskGrown /\ origin' = origin /\ phase = "script"
      /\ IsDisk(origin) /\ phase' = "script"
  BY AgainLineFacts DEF AgainLine, LineKeeps, Again
<1>2. PICK name \in DOMAIN Properties(Detect(origin)) : line = PropertyLineOf(origin, name)
  BY DEF PropertyLineSet
<1>3. /\ line.command = "SET" /\ line.property = name
      /\ line.value = origin.data[1][Properties(Detect(origin))[name]]
  BY <1>2 DEF PropertyLineOf
<1>4. d # NoDisk /\ Disk = d /\ fs # NoFs /\ fs.name = Detect(origin)
  BY <1>1, DiskSeen DEF Remade
<1>5. Detect(origin)' = Detect(origin)
  BY <1>1
<1>6. PropertyLine(line)
  BY <1>1, <1>3, <1>4 DEF Run, DiskLine, FormatThrough, FormatPast, FormatNotHere, UnknownFormat,
        BootLine, NoSuchProperty, NoDir, FileThrough, FilePast, Stops
<1>7. /\ d' = d /\ fs' = fs /\ q \in 1 .. BOOT
      /\ cache' = IntoCache([s \in {1} |-> x])
  BY <1>1, <1>6, PropertyLineFacts
<1>8. Through(1) = origin.data[1]
  BY ScriptNumbers DEF BootRemade
<1>9. IsSector(Through(1), BOOT)
  BY <1>1, BootThrough, ScriptNumbers
<1>10. line.value = Through(1)[q]
  BY <1>3, <1>4, <1>8
<1>11. x = Through(1)
  <2> DEFINE y == Through(1)
  <2>1. y = [p \in 1 .. BOOT |-> y[p]]
    BY <1>9, ScriptNumbers, SectorBytes
  <2> HIDE DEF y
  <2>2. [y EXCEPT ![q] = y[q]] = y
    BY <2>1
  <2>3. QED
    BY <1>10, <2>2 DEF y
<1> HIDE DEF x, q
<1> DEFINE news == [s \in {1} |-> x]
<1>12. CacheFits(news, Disk)
  BY <1>1, <1>9, <1>11, FirstFits
<1>13. DOMAIN news = {1} /\ news[1] = Through(1)
  BY <1>11
<1> HIDE DEF news
<1>14. /\ \A s \in DOMAIN news : Through(s)' = news[s]
       /\ \A s : s \notin DOMAIN news => Through(s)' = Through(s)
  <2>1. d' = Disk /\ cache' = IntoCache(news)
    BY <1>4, <1>7 DEF news
  <2>2. QED
    BY <1>1, <1>12, <2>1, ThroughInto
<1>15. \A s : Through(s)' = Through(s)
  BY <1>13, <1>14
<1>16. Remade'
  BY <1>1, <1>4, <1>5, <1>7, <1>15 DEF Remade
<1>17. BootRemade'
  BY <1>1, <1>15 DEF BootRemade
<1>18. QED
  BY <1>16, <1>17

(* What is remade stays, line by line.                                     *)
LEMMA AgainMade ==
    ASSUME OriginTypes, UNCHANGED <<boot_bin, origin>>,
           NEW P \in Seq(PropertyLineSet(origin)), Remakes(P)'
    PROVE  AgainTurn'
<1>1. OriginTypes'
  <2>1. Detect(origin)' = Detect(origin) /\ IsDisk(origin)' = IsDisk(origin)
        /\ BootFile(origin)' = BootFile(origin)
    OBVIOUS
  <2>2. QED
    BY <2>1 DEF OriginTypes
<1>2. PropertyLineSet(origin)' = PropertyLineSet(origin)
  OBVIOUS
<1>3. QED
  BY <1>1, <1>2 DEF AgainTurn

(* The four places the script may be at.                                   *)
LEMMA LinesLeft ==
    ASSUME NEW P \in Seq(PropertyLineSet(origin))
    PROVE  \E S : <<BootOf>> \o P \in Seq(S) /\ <<FormatFor(origin)>> \o (<<BootOf>> \o P) \in Seq(S)
<1> DEFINE T == PropertyLineSet(origin)
           A == T \cup {BootOf}
           q == <<BootOf>> \o P
           B == A \cup {FormatFor(origin)}
<1>1. P \in Seq(T)
  OBVIOUS
<1> HIDE DEF T
<1>2. q \in Seq(A)
  BY <1>1, HeadTail
<1> HIDE DEF A, q
<1>3. <<FormatFor(origin)>> \o q \in Seq(B)
  BY <1>2, HeadTail
<1>4. q \in Seq(B)
  BY <1>2
<1>5. QED
  BY <1>3, <1>4 DEF q

LEMMA AgainStep ==
    ASSUME ScriptInv, Again, AgainTurn, NextLine, phase' = "script"
    PROVE  AgainTurn'
<1> DEFINE line == Head(script)
<1>1. ScriptTypes /\ OriginTypes
  BY DEF ScriptInv, AgainTurn
<1>2. script # <<>> /\ Run(line) /\ script' = Tail(script)
  BY DEF NextLine, Again
<1>3. IsTyped(line)
  BY <1>1, <1>2, ScriptTail
<1>4. AgainLine(line)
  BY <1>1, <1>2, <1>3 DEF AgainLine
<1>5. UNCHANGED <<boot_bin, origin>>
  BY <1>4, AgainLineFacts
<1>6. PICK P \in Seq(PropertyLineSet(origin)) : Remakes(P)
  BY DEF AgainTurn
<1>7. PICK S : <<BootOf>> \o P \in Seq(S) /\ <<FormatFor(origin)>> \o (<<BootOf>> \o P) \in Seq(S)
  BY LinesLeft
<1> DEFINE q == <<BootOf>> \o P
           r == <<FormatFor(origin)>> \o q
           b == BootOf
           f == FormatFor(origin)
           a == DiskOf(origin)
<1>8. origin' = origin /\ b' = b /\ f' = f
  BY <1>5
<1>9. q \in Seq(S) /\ r \in Seq(S)
  BY <1>7
<1> HIDE DEF line
<1>10. CASE d = NoDisk /\ LeftAll(P)
  <2>1. script = <<a>> \o r
    BY <1>10 DEF LeftAll
  <2> HIDE DEF r, a
  <2>2. Head(<<a>> \o r) = a /\ Tail(<<a>> \o r) = r
    BY <1>9, HeadTail
  <2>3. line = a /\ script' = r
    BY <1>2, <2>1, <2>2 DEF line
  <2>4. d' = NoDisk /\ sector_size' = origin.size /\ sector_count' = origin.count
    BY <1>4, <1>10, <2>3, AgainDisk DEF a
  <2>5. LeftFormat(P)'
    BY <1>8, <2>3, <2>4 DEF LeftFormat, r
  <2>6. Remakes(P)'
    BY <2>4, <2>5 DEF Remakes
  <2>7. QED
    BY <1>1, <1>5, <2>6, AgainMade
<1>11. CASE d = NoDisk /\ LeftFormat(P)
  <2>1. script = <<f>> \o q /\ sector_size = origin.size /\ sector_count = origin.count
    BY <1>11 DEF LeftFormat
  <2> HIDE DEF q, f, r
  <2>2. Head(<<f>> \o q) = f /\ Tail(<<f>> \o q) = q
    BY <1>9, HeadTail
  <2>3. line = f /\ script' = q
    BY <1>2, <2>1, <2>2 DEF line
  <2>4. Remade'
    BY <1>4, <1>11, <2>1, <2>3, AgainFormat DEF f
  <2>5. LeftBoot(P)'
    BY <1>8, <2>3 DEF LeftBoot, q
  <2>6. Remakes(P)'
    BY <2>4, <2>5 DEF Remakes
  <2>7. QED
    BY <1>1, <1>5, <2>6, AgainMade
<1>12. CASE Remade /\ LeftBoot(P)
  <2>1. script = <<b>> \o P
    BY <1>12 DEF LeftBoot
  <2> HIDE DEF b, q, r
  <2>2. Head(<<b>> \o P) = b /\ Tail(<<b>> \o P) = P
    BY HeadTail
  <2>3. line = b /\ script' = P
    BY <1>2, <2>1, <2>2 DEF line
  <2>4. Remade' /\ BootRemade'
    BY <1>4, <1>12, <2>3, AgainBoot DEF b
  <2>5. Remakes(P)'
    BY <2>3, <2>4 DEF Remakes
  <2>6. QED
    BY <1>1, <1>5, <2>5, AgainMade
<1>13. CASE Remade /\ BootRemade /\ script = P
  <2> DEFINE T == PropertyLineSet(origin)
  <2>1. P \in Seq(T) /\ P # <<>> /\ line = Head(P) /\ script' = Tail(P)
    BY <1>2, <1>13 DEF line
  <2> HIDE DEF T
  <2>2. line \in T /\ Tail(P) \in Seq(T)
    BY <2>1
  <2>3. Remade' /\ BootRemade'
    BY <1>4, <1>13, <2>2, AgainSet DEF T
  <2> DEFINE rest == Tail(P)
  <2>4. Remakes(rest)'
    BY <2>1, <2>3 DEF Remakes
  <2>5. rest \in Seq(PropertyLineSet(origin))
    BY <2>2 DEF T
  <2> HIDE DEF rest
  <2>6. QED
    BY <1>1, <1>5, <2>4, <2>5, AgainMade
<1>14. QED
  BY <1>6, <1>10, <1>11, <1>12, <1>13 DEF Remakes

LEMMA AgainUnseen ==
    ASSUME ScriptInv, Again, AgainTurn, Evict
    PROVE  AgainTurn'
<1>1. ScriptTypes /\ OriginTypes
  BY DEF ScriptInv, AgainTurn
<1>2. Unseen /\ UNCHANGED <<sector_size, sector_count, fs, script, taken, boot_bin, image, origin,
                            cut, phase>>
  BY <1>1, EvictFacts
<1>3. PICK P \in Seq(PropertyLineSet(origin)) : Remakes(P)
  BY DEF AgainTurn
<1>4. /\ d # NoDisk /\ d' # NoDisk /\ d'.size = d.size /\ d'.count = d.count
      /\ \A t \in 1 .. d.count : Through(t)' = Through(t)
  BY <1>2 DEF Unseen
<1>5. Disk = d
  BY <1>1, <1>4, DiskSeen
<1>6. VTOC_SECTOR \in 1 .. d.count /\ \A s \in BootSectors : s \in 1 .. d.count
  BY <1>1, <1>5, BootThrough
<1>7. Detect(origin)' = Detect(origin) /\ origin' = origin
  BY <1>2
<1>8. Remade
  BY <1>3, <1>4 DEF Remakes
<1>9. Through(VTOC_SECTOR)' = Through(VTOC_SECTOR)
  BY <1>4, <1>6
<1>10. Remade'
  BY <1>2, <1>4, <1>7, <1>8, <1>9 DEF Remade
<1>11. BootRemade => BootRemade'
  BY <1>4, <1>6, <1>7 DEF BootRemade
<1>12. LeftBoot(P) => LeftBoot(P)'
  <2>1. BootOf' = BootOf
    OBVIOUS
  <2>2. QED
    BY <1>2, <2>1 DEF LeftBoot
<1>13. Remakes(P)'
  BY <1>2, <1>3, <1>4, <1>10, <1>11, <1>12 DEF Remakes
<1>14. QED
  BY <1>1, <1>2, <1>13, AgainMade

LEMMA AgainStart ==
    ASSUME ScriptInv, Unpack, Again'
    PROVE  AgainTurn'
<1>1. phase = "loaded" /\ ScriptTypes /\ Programs
  BY DEF Unpack, ScriptInv
<1>2. IsDisk(d)
  BY <1>1 DEF Programs, ScriptTypes, DiskTypes
<1>3. Detect(d) \notin FormatsNotHere
  BY DEF Unpack, Again
<1>4. Detect(d) \in Systems
  BY <1>3, DetectSystems
<1>5. /\ script' = Header(Detect(d)) \o PropertyLines(Detect(d))
      /\ boot_bin' = BootFile(d) /\ origin' = d /\ d' = NoDisk
  BY <1>3 DEF Unpack, BootFile
<1>6. PICK P \in Seq(PropertyLineSet(d)) :
            Header(Detect(d)) \o PropertyLines(Detect(d)) =
                <<DiskOf(d)>> \o (<<FormatFor(d)>> \o (<<BootOf>> \o P))
  BY <1>4, WrittenInTurn
<1>7. OriginTypes'
  <2>1. Detect(origin)' = Detect(d) /\ IsDisk(origin)' = IsDisk(d) /\ BootFile(origin)' = BootFile(d)
    BY <1>5
  <2>2. QED
    BY <1>2, <1>4, <1>5, <2>1 DEF OriginTypes
<1>8. LeftAll(P)'
  <2>1. DiskOf(origin)' = DiskOf(d) /\ FormatFor(origin)' = FormatFor(d) /\ BootOf' = BootOf
    BY <1>5
  <2>2. QED
    BY <1>5, <1>6, <2>1 DEF LeftAll
<1>9. Remakes(P)'
  BY <1>5, <1>8 DEF Remakes
<1>10. PropertyLineSet(origin)' = PropertyLineSet(d)
  BY <1>5
<1>11. QED
  BY <1>6, <1>7, <1>9, <1>10 DEF AgainTurn

(* The file system that is found again.                                    *)
LEMMA DetectedAgain ==
    ASSUME NEW a, NEW b, NEW size, a.count = b.count, a.data[1][X00] = b.data[1][X00],
           a.data[VTOC_SECTOR][1] = Version(Detect(b), size)
    PROVE  Detect(a) = IF Detect(b) = "2.5" /\ a.count <= SMALL /\ a.data[1][X00] = 0
                       THEN "2" ELSE Detect(b)
<1> DEFINE magic == b.data[1][X00]
           known == {Magic.xdos, Magic.IIplus, Magic.rkdos, Magic.sparta, Magic.mydos}
<1>1. CASE magic \in known
  <2>1. Detect(a) = Detect(b)
    BY <1>1 DEF Detect
  <2>2. Detect(b) # "2.5"
    BY <1>1 DEF Detect
  <2>3. QED
    BY <2>1, <2>2
<1>2. CASE magic \notin known
  <2>1. /\ Detect(a) = IF IsDos2(a) THEN "2" ELSE "2.5"
        /\ Detect(b) = IF IsDos2(b) THEN "2" ELSE "2.5"
    BY <1>2 DEF Detect
  <2>2. a.data[VTOC_SECTOR][1] = 2
    BY <2>1 DEF Version
  <2>3. IsDos2(a) <=> a.count <= SMALL /\ magic = 0
    BY <2>2 DEF IsDos2
  <2>4. IsDos2(b) => a.count <= SMALL /\ magic = 0
    BY DEF IsDos2
  <2>5. QED
    BY <2>1, <2>3, <2>4
<1>3. QED
  BY <1>1, <1>2

LEMMA AgainSaved ==
    ASSUME ScriptInv, Again, AgainTurn, SaveDisk
    PROVE  UnpackedSame'
<1>1. ScriptTypes /\ script = <<>> /\ boot_bin # <<>>
  BY DEF ScriptInv, SaveDisk, Again
<1>2. PICK P \in Seq(PropertyLineSet(origin)) : Remakes(P)
  BY DEF AgainTurn
<1>3. ~LeftAll(P) /\ ~LeftFormat(P) /\ ~LeftBoot(P)
  <2>1. PICK S : /\ <<BootOf>> \o P \in Seq(S)
                 /\ <<FormatFor(origin)>> \o (<<BootOf>> \o P) \in Seq(S)
    BY LinesLeft
  <2> DEFINE q == <<BootOf>> \o P
             r == <<FormatFor(origin)>> \o q
             t == <<DiskOf(origin)>> \o r
  <2>2. q # <<>>
    BY HeadTail
  <2>3. r # <<>>
    <3> HIDE DEF q
    <3>1. q \in Seq(S)
      BY <2>1 DEF q
    <3>2. QED
      BY <3>1, HeadTail
  <2>4. t # <<>>
    <3> HIDE DEF r
    <3>1. r \in Seq(S)
      BY <2>1 DEF r
    <3>2. QED
      BY <3>1, HeadTail
  <2>5. QED
    BY <1>1, <2>2, <2>3, <2>4 DEF LeftAll, LeftFormat, LeftBoot
<1>4. Remade /\ BootRemade
  BY <1>2, <1>3 DEF Remakes
<1>5. d # NoDisk /\ d.size = origin.size /\ d.count = origin.count /\ fs.name = Detect(origin)
      /\ Through(VTOC_SECTOR)[1] = Version(fs.name, d.size)
  BY <1>4 DEF Remade
<1>6. d' = Flushed /\ origin' = origin
  BY <1>1, <1>5 DEF SaveDisk
<1>7. /\ d'.size = d.size /\ d'.count = d.count
      /\ \A s \in 1 .. d.count : d'.data[s] = Through(s)
  BY <1>1, <1>5, <1>6, FlushedFacts
<1>8. VTOC_SECTOR \in 1 .. d.count /\ \A s \in BootSectors : s \in 1 .. d.count
  <2>1. Disk = d
    BY <1>1, <1>5, DiskSeen
  <2>2. QED
    BY <1>1, <2>1, BootThrough
<1>9. \A s \in BootSectors : d'.data[s] = origin.data[s]
  BY <1>4, <1>7, <1>8 DEF BootRemade
<1>10. d'.data[VTOC_SECTOR][1] = Version(Detect(origin), d.size)
  BY <1>5, <1>7, <1>8
<1>11. d'.data[1][X00] = origin.data[1][X00]
  BY <1>9, ScriptNumbers
<1> DEFINE disk == d'
<1>12. /\ disk.count = origin.count /\ disk.data[1][X00] = origin.data[1][X00]
       /\ disk.data[VTOC_SECTOR][1] = Version(Detect(origin), d.size)
  BY <1>5, <1>7, <1>10, <1>11
<1> HIDE DEF disk
<1>13. Detect(disk) = IF Detect(origin) = "2.5" /\ disk.count <= SMALL /\ disk.data[1][X00] = 0
                      THEN "2" ELSE Detect(origin)
  BY <1>12, DetectedAgain
<1>14. Detect(d') = IF Detect(origin) = "2.5" /\ d'.count <= SMALL /\ d'.data[1][X00] = 0
                    THEN "2" ELSE Detect(origin)
  BY <1>13 DEF disk
<1>15. Detect(d)' = Detect(d') /\ Detect(origin)' = Detect(origin)
  BY <1>6
<1>16. QED
  BY <1>5, <1>6, <1>7, <1>9, <1>14, <1>15 DEF UnpackedSame

LEMMA AgainIStep == AgainIInv /\ [ScriptNext]_scriptVars => AgainIInv'
<1> SUFFICES ASSUME ScriptInv, Again => AgainTurn, UnpackedSame, [ScriptNext]_scriptVars
             PROVE  AgainIInv'
  BY DEF AgainIInv
<1>1. ScriptInv'
  BY ScriptInvStep
<1>2. SUFFICES (Again' => AgainTurn') /\ UnpackedSame'
  BY <1>1 DEF AgainIInv
<1>3. phase' # "again" => UnpackedSame'
  BY DEF UnpackedSame
<1>4. CASE Evict
  <2>1. phase = "script" /\ phase' = phase /\ boot_bin' = boot_bin
    BY <1>4 DEF Evict
  <2>2. Again' => Again
    BY <2>1 DEF Again
  <2>3. QED
    BY <1>3, <1>4, <2>1, <2>2, AgainUnseen
<1>5. CASE NextLine
  <2>1. phase = "script" /\ boot_bin' = boot_bin /\ phase' \in {"script", "elsewhere", "error", "crash"}
    <3>1. PICK line : IsTyped(line) /\ Run(line) /\ phase = "script"
      BY <1>5, ScriptTail, LineTyped DEF NextLine, ScriptInv
    <3>2. QED
      BY <3>1, RunKeeps DEF ScriptInv
  <2>2. phase' # "again"
    BY <2>1
  <2>3. Again' => Again /\ phase' = "script"
    BY <2>1 DEF Again
  <2>4. QED
    BY <1>3, <1>5, <2>2, <2>3, AgainStep
<1>6. CASE SaveDisk
  <2>1. ~Again' /\ phase = "script" /\ boot_bin' = boot_bin
    BY <1>6 DEF SaveDisk, Again
  <2>2. phase' = "again" => boot_bin # <<>>
    BY <1>6 DEF SaveDisk
  <2>3. phase' = "again" => Again
    BY <2>1, <2>2 DEF Again
  <2>4. QED
    BY <1>3, <1>6, <2>1, <2>3, AgainSaved
<1>7. CASE CutShort
  <2>1. phase' = "saved"
    BY <1>7 DEF CutShort
  <2>2. QED
    BY <1>3, <2>1 DEF Again
<1>8. CASE Load
  <2>1. phase' = "loaded"
    BY <1>8 DEF Load
  <2>2. QED
    BY <1>3, <2>1 DEF Again
<1>9. CASE Unpack
  <2>1. phase' # "again"
    BY <1>9 DEF Unpack
  <2>2. QED
    BY <1>3, <1>9, <2>1, AgainStart
<1>10. CASE UNCHANGED scriptVars
  <2>1. UNCHANGED <<sector_size, sector_count, d, cache, fs, script, taken, boot_bin, image,
                    origin, cut, phase>>
    BY <1>10 DEF scriptVars
  <2>2. Again' => Again
    BY <2>1 DEF Again
  <2>3. UnpackedSame'
    BY <2>1 DEF UnpackedSame
  <2>4. ASSUME Again PROVE AgainTurn'
    <3>1. OriginTypes
      BY <2>4 DEF AgainTurn
    <3>2. PICK P \in Seq(PropertyLineSet(origin)) : Remakes(P)
      BY <2>4 DEF AgainTurn
    <3>3. Through(VTOC_SECTOR)' = Through(VTOC_SECTOR) /\ Detect(origin)' = Detect(origin)
          /\ \A s : Through(s)' = Through(s)
      BY <2>1 DEF Through, Disk
    <3>4. (Remade => Remade') /\ (BootRemade => BootRemade')
      BY <2>1, <3>3 DEF Remade, BootRemade
    <3>5. DiskOf(origin)' = DiskOf(origin) /\ FormatFor(origin)' = FormatFor(origin) /\ BootOf' = BootOf
      BY <2>1
    <3>6. (LeftAll(P) => LeftAll(P)') /\ (LeftFormat(P) => LeftFormat(P)') /\ (LeftBoot(P) => LeftBoot(P)')
      BY <2>1, <3>5 DEF LeftAll, LeftFormat, LeftBoot
    <3>7. Remakes(P)'
      BY <2>1, <3>2, <3>4, <3>6 DEF Remakes
    <3>8. QED
      BY <2>1, <3>1, <3>7, AgainMade
  <2>5. QED
    BY <2>2, <2>3, <2>4
<1>11. QED
  BY <1>4, <1>5, <1>6, <1>7, <1>8, <1>9, <1>10 DEF ScriptNext

(***************************************************************************)
(* The script that unpack writes, carried out by pack, makes a disk of the *)
(* same sizes with the same boot sectors, which is taken for the same file *)
(* system, whatever image was loaded and whatever the cache makes room for *)
(* on the way; only a small disk no one else claims becomes one of DOS 2.  *)
(***************************************************************************)
THEOREM UnpackedAgain == ScriptSpec => []UnpackedSame
<1>1. ScriptInit => AgainIInv
  <2>1. ASSUME ScriptInit PROVE ~Again /\ UnpackedSame
    BY <2>1 DEF ScriptInit, Again, UnpackedSame
  <2>2. QED
    BY <2>1, ScriptStart DEF AgainIInv
<1>2. AgainIInv => UnpackedSame
  BY DEF AgainIInv
<1>3. QED
  BY <1>1, <1>2, AgainIStep, PTL DEF ScriptSpec

-----------------------------------------------------------------------------
(* Images hold their disks.  Sector after sector, at the places where load *)
(* looks for them.                                                         *)
LEMMA FlattenAt ==
    ASSUME NEW n \in Nat, n >= 1, NEW parts \in [1 .. n -> Seq(Nat)], NEW start \in [1 .. n -> Nat],
           start[1] = 0,
           \A k \in 1 .. n : k + 1 \in 1 .. n => start[k + 1] = start[k] + Len(parts[k])
    PROVE  \A k \in 1 .. n : \A p \in 1 .. Len(parts[k]) : FlattenSeq(parts)[start[k] + p] = parts[k][p]
<1>1. PICK h : Flattens(h, n, parts)
  BY FlattenFacts
<1>2. /\ h \in [1 .. n -> Seq(Nat)] /\ h[1] = parts[1] /\ FlattenSeq(parts) = h[n]
      /\ \A k \in 2 .. n : h[k] = h[k - 1] \o parts[k]
  BY <1>1 DEF Flattens
<1> DEFINE At(x, k) == \A p \in 1 .. Len(parts[k]) : x[start[k] + p] = parts[k][p]
           Upto(m) == /\ Len(h[m]) = start[m] + Len(parts[m])
                      /\ \A k \in 1 .. m : At(h[m], k)
           S == {j \in Nat : j + 1 <= n => Upto(j + 1)}
<1>3. \A k \in 1 .. n : parts[k] \in Seq(Nat) /\ Len(parts[k]) \in Nat /\ start[k] \in Nat
  OBVIOUS
<1>4. Upto(1)
  <2>1. 1 \in 1 .. n
    OBVIOUS
  <2>2. Len(h[1]) = start[1] + Len(parts[1])
    BY <1>2, <1>3, <2>1
  <2>3. ASSUME NEW p \in 1 .. Len(parts[1]) PROVE h[1][start[1] + p] = parts[1][p]
    BY <1>2, <1>3, <2>1
  <2>4. \A k \in 1 .. 1 : k = 1
    OBVIOUS
  <2>5. At(h[1], 1)
    BY <2>3
  <2> HIDE DEF At
  <2>6. QED
    BY <2>2, <2>4, <2>5
<1>5. ASSUME NEW j \in Nat, j + 1 <= n, j + 1 + 1 <= n, Upto(j + 1) PROVE Upto(j + 1 + 1)
  <2> DEFINE m == j + 1
             u == j + 1 + 1
             x == h[m]
             y == parts[u]
  <2>1. m \in 1 .. n /\ u \in 1 .. n /\ u \in 2 .. n /\ u - 1 = m /\ u = m + 1
    BY <1>5
  <2>2. x \in Seq(Nat) /\ y \in Seq(Nat) /\ Len(x) = start[m] + Len(parts[m])
        /\ \A k \in 1 .. m : At(x, k)
    BY <1>2, <1>3, <1>5, <2>1
  <2> HIDE DEF At, m, u
  <2>3. h[u] = x \o y
    BY <1>2, <2>1
  <2>4. start[u] = start[m] + Len(parts[m])
    BY <2>1
  <2> HIDE DEF x, y
  <2>5. /\ x \o y \in Seq(Nat) /\ Len(x \o y) = Len(x) + Len(y)
        /\ \A i \in 1 .. Len(x) + Len(y) :
                (x \o y)[i] = IF i <= Len(x) THEN x[i] ELSE y[i - Len(x)]
    <3>1. x \in Seq(Nat) /\ y \in Seq(Nat)
      BY <2>2
    <3>2. QED
      BY <3>1, ConcatProperties, Zenon
  <2> DEFINE w == x \o y
  <2>6. /\ Len(w) = Len(x) + Len(y)
        /\ \A i \in 1 .. Len(x) + Len(y) : w[i] = IF i <= Len(x) THEN x[i] ELSE y[i - Len(x)]
    BY <2>5
  <2> HIDE DEF w
  <2>7. Len(x) \in Nat /\ Len(y) \in Nat
    BY <2>2
  <2>8. Len(x) = start[u] /\ y = parts[u]
    BY <2>2, <2>4 DEF y
  <2>9. ASSUME NEW p \in 1 .. Len(parts[u]) PROVE w[start[u] + p] = parts[u][p]
    <3> DEFINE i == start[u] + p
               l == Len(x)
               r == Len(y)
    <3>1. i \in 1 .. l + r /\ ~(i <= l) /\ i - l = p
      <4>1. l \in Nat /\ r \in Nat
        BY <2>7
      <4>2. i = l + p /\ p \in 1 .. r
        BY <2>8, Zenon
      <4> HIDE DEF i, l, r
      <4>3. QED
        BY <4>1, <4>2
    <3> HIDE DEF i
    <3>2. w[i] = y[p]
      BY <2>6, <3>1
    <3>3. QED
      BY <2>8, <3>2 DEF i
  <2>10. ASSUME NEW k \in 1 .. m PROVE At(w, k)
    <3>1. At(x, k) /\ k \in 1 .. n
      BY <2>1, <2>2
    <3>2. start[k] + Len(parts[k]) <= Len(x)
      <4> DEFINE T == {i \in Nat : k + i <= m => start[k] + Len(parts[k]) <= start[k + i] + Len(parts[k + i])}
      <4>1. k \in Nat /\ k >= 1 /\ k <= m /\ m \in Nat /\ m <= n
        BY <2>1
      <4>2. 0 \in T
        BY <1>3, <3>1, <4>1
      <4>3. ASSUME NEW i \in Nat, i \in T PROVE i + 1 \in T
        <5>1. SUFFICES ASSUME k + (i + 1) <= m
                       PROVE  start[k] + Len(parts[k]) <= start[k + (i + 1)] + Len(parts[k + (i + 1)])
          OBVIOUS
        <5> DEFINE c == k + i
                   e == c + 1
        <5>2. c <= m /\ c \in 1 .. n /\ e \in 1 .. n /\ e = k + (i + 1)
          BY <4>1, <5>1
        <5>3. start[k] + Len(parts[k]) <= start[c] + Len(parts[c])
          BY <4>3, <5>2
        <5> HIDE DEF c
        <5>4. start[e] = start[c] + Len(parts[c])
          BY <5>2
        <5> HIDE DEF e
        <5>5. start[k] + Len(parts[k]) <= start[e] + Len(parts[e])
          <6> DEFINE x1 == start[k] + Len(parts[k])
                     x2 == start[c] + Len(parts[c])
                     x3 == Len(parts[e])
          <6>1. x1 \in Nat /\ x2 \in Nat /\ x3 \in Nat /\ x1 <= x2 /\ start[e] = x2
            <7>1. x1 \in Nat /\ x2 \in Nat
              <8>1. start[k] \in Nat /\ Len(parts[k]) \in Nat
                BY <1>3, <3>1
              <8>2. start[c] \in Nat /\ Len(parts[c]) \in Nat
                BY <1>3, <5>2
              <8>3. x1 \in Nat
                BY <8>1
              <8>4. x2 \in Nat
                BY <8>2
              <8>5. QED
                BY <8>3, <8>4
            <7>2. x3 \in Nat
              BY <1>3, <5>2
            <7>3. QED
              BY <5>3, <5>4, <7>1, <7>2
          <6> HIDE DEF x1, x2, x3
          <6>2. x1 <= start[e] + x3
            BY <6>1
          <6>3. QED
            BY <6>2 DEF x1, x3
        <5>6. QED
          BY <5>2, <5>5
      <4> HIDE DEF T
      <4>4. Nat \subseteq T
        BY <4>2, <4>3, NatSetInduction
      <4> DEFINE f == m - k
      <4>5. f \in Nat /\ k + f = m
        BY <4>1
      <4> HIDE DEF f
      <4> DEFINE e == k + f
      <4>6. e <= m => start[k] + Len(parts[k]) <= start[e] + Len(parts[e])
        BY <4>4, <4>5 DEF T
      <4>7. start[k] + Len(parts[k]) <= start[m] + Len(parts[m])
        <5>1. e = m /\ m <= m
          BY <4>1, <4>5
        <5> HIDE DEF e
        <5>2. QED
          BY <4>6, <5>1
      <4>8. QED
        BY <2>2, <4>7
    <3>3. ASSUME NEW p \in 1 .. Len(parts[k]) PROVE w[start[k] + p] = parts[k][p]
      <4> DEFINE i == start[k] + p
      <4>1. start[k] \in Nat /\ Len(parts[k]) \in Nat
        BY <1>3, <3>1
      <4>2. i \in 1 .. Len(x) + Len(y) /\ i <= Len(x)
        <5> DEFINE x1 == Len(x)
                   x2 == Len(y)
                   x3 == Len(parts[k])
                   x4 == start[k]
        <5>1. x1 \in Nat /\ x2 \in Nat /\ x3 \in Nat /\ x4 \in Nat /\ x4 + x3 <= x1 /\ p \in 1 .. x3
          BY <2>7, <3>2, <4>1
        <5> HIDE DEF x1, x2, x3, x4
        <5>2. x4 + p \in 1 .. x1 + x2 /\ x4 + p <= x1
          BY <5>1
        <5>3. QED
          BY <5>2 DEF x1, x2, x4
      <4>3. x[i] = parts[k][p]
        BY <3>1 DEF At
      <4> HIDE DEF i
      <4>4. w[i] = x[i]
        BY <2>6, <4>2
      <4>5. QED
        BY <4>3, <4>4 DEF i
    <3>4. QED
      BY <3>3 DEF At
  <2>11. At(w, u)
    BY <2>9 DEF At
  <2>12. \A k \in 1 .. u : k = u \/ k \in 1 .. m
    BY <2>1
  <2>13. Len(w) = start[u] + Len(parts[u]) /\ \A k \in 1 .. u : At(w, k)
    BY <2>6, <2>8, <2>10, <2>11, <2>12
  <2>14. h[u] = w
    BY <2>3 DEF w
  <2>15. Upto(u)
    BY <2>13, <2>14
  <2>16. QED
    BY <2>15 DEF u
<1>6. 0 \in S
  BY <1>4
<1>7. ASSUME NEW j \in Nat, j \in S PROVE j + 1 \in S
  <2> HIDE DEF Upto
  <2>1. SUFFICES ASSUME j + 1 + 1 <= n PROVE Upto(j + 1 + 1)
    OBVIOUS
  <2>2. j + 1 <= n
    BY <2>1
  <2>3. QED
    BY <1>5, <1>7, <2>1, <2>2
<1> HIDE DEF S
<1>8. Nat \subseteq S
  BY <1>6, <1>7, NatSetInduction
<1> DEFINE j == n - 1
<1>9. j \in S /\ j + 1 = n
  BY <1>8
<1> HIDE DEF Upto
<1>10. Upto(n)
  BY <1>9 DEF S
<1>11. QED
  BY <1>2, <1>10 DEF Upto

LEMMA StartNext ==
    ASSUME NEW i, IsImage(i), NEW k \in Nat, k >= 1
    PROVE  Start(i, 1) = 0 /\ Start(i, k + 1) = Start(i, k) + ReadSize(i, k)
<1> DEFINE b == BootSize(i)
           z == i.size
<1>1. b \in Nat /\ z \in Nat
  BY StartTypes
<1>2. /\ Start(i, k) = IF k <= 3 THEN (k - 1) * b ELSE 3 * b + (k - 4) * z
      /\ Start(i, k + 1) = IF k + 1 <= 3 THEN (k + 1 - 1) * b ELSE 3 * b + (k + 1 - 4) * z
      /\ Start(i, 1) = (1 - 1) * b
      /\ ReadSize(i, k) = IF k <= 3 THEN b ELSE z
  BY DEF Start, ReadSize
<1> HIDE DEF b, z
<1>3. Start(i, 1) = 0
  BY <1>1, <1>2
<1>4. CASE k <= 2
  <2>1. (k + 1 - 1) * b = (k - 1) * b + b
    <3>1. k = 1 \/ k = 2
      BY <1>4
    <3>2. QED
      BY <1>1, <3>1
  <2>2. QED
    BY <1>2, <1>3, <1>4, <2>1
<1>5. CASE k = 3
  <2>1. (3 - 1) * b + b = 3 * b /\ (3 + 1 - 4) * z = 0
    BY <1>1
  <2>2. QED
    BY <1>1, <1>2, <1>3, <1>5, <2>1
<1>6. CASE k > 3
  <2> DEFINE q == k - 4
  <2>1. q \in Nat /\ k + 1 - 4 = q + 1 /\ k - 4 = q
    BY <1>6
  <2> HIDE DEF q
  <2>2. (q + 1) * z = q * z + z
    BY <1>1, <2>1
  <2>3. q * z \in Nat
    BY <1>1, <2>1
  <2>4. ~(k <= 3) /\ ~(k + 1 <= 3)
    BY <1>6
  <2>5. Start(i, k) = 3 * b + q * z /\ Start(i, k + 1) = 3 * b + (q * z + z) /\ ReadSize(i, k) = z
    BY <1>2, <2>1, <2>2, <2>4
  <2>6. QED
    BY <1>1, <1>3, <2>3, <2>5
<1>7. QED
  BY <1>4, <1>5, <1>6

Fills(i, n, parts) ==
    i.bytes = FlattenSeq(parts) /\ \A k \in 1 .. n : Len(parts[k]) = ReadSize(i, k)
InFile(i, n, parts) ==
    \A k \in 1 .. n : \A p \in 1 .. ReadSize(i, k) : i.bytes[Start(i, k) + p] = parts[k][p]

LEMMA ImageAt ==
    ASSUME NEW i, IsImage(i), NEW n \in Nat, n >= 1, NEW parts \in [1 .. n -> Seq(Nat)],
           Fills(i, n, parts)
    PROVE  InFile(i, n, parts)
<1>0. i.bytes = FlattenSeq(parts) /\ \A k \in 1 .. n : Len(parts[k]) = ReadSize(i, k)
  BY DEF Fills
<1> DEFINE start == [k \in 1 .. n |-> Start(i, k)]
<1>1. start \in [1 .. n -> Nat]
  <2>1. \A k \in 1 .. n : Start(i, k) \in Nat
    BY StartTypes
  <2>2. QED
    BY <2>1
<1>2. start[1] = 0
  BY StartNext
<1>3. ASSUME NEW k \in 1 .. n, k + 1 \in 1 .. n PROVE start[k + 1] = start[k] + Len(parts[k])
  <2>1. Start(i, k + 1) = Start(i, k) + ReadSize(i, k)
    BY StartNext
  <2>2. Len(parts[k]) = ReadSize(i, k)
    BY <1>0
  <2>3. QED
    BY <1>3, <2>1, <2>2
<1>4. \A k \in 1 .. n : start[k] = Start(i, k)
  OBVIOUS
<1> HIDE DEF start
<1>5. \A k \in 1 .. n : \A p \in 1 .. Len(parts[k]) : FlattenSeq(parts)[start[k] + p] = parts[k][p]
  BY <1>1, <1>2, <1>3, FlattenAt
<1>6. QED
  BY <1>0, <1>4, <1>5 DEF InFile

LEMMA TimesDiv ==
    ASSUME NEW x \in Int, NEW z \in Nat, z > 0
    PROVE  (x * z) \div z = x
<1> DEFINE q == (x * z) \div z
           r == (x * z) % z
<1>1. q \in Int /\ r \in Int /\ 0 <= r /\ r < z /\ x * z = z * q + r
  OBVIOUS
<1> HIDE DEF q, r
<1>2. z * (x - q) = r
  BY <1>1
<1>3. CASE x - q >= 1
  <2>1. z * (x - q) >= z
    BY <1>1, <1>3
  <2>2. QED
    BY <1>1, <1>2, <2>1
<1>4. CASE x - q <= -1
  <2>1. z * (x - q) <= -z
    BY <1>1, <1>4
  <2>2. QED
    BY <1>1, <1>2, <2>1
<1>5. x = q
  BY <1>1, <1>3, <1>4
<1>6. QED
  BY <1>5 DEF q

LEMMA DivTimes ==
    ASSUME NEW n \in Nat, NEW m \in Nat, m > 0, n % m = 0
    PROVE  (n \div m) * m = n
OBVIOUS

LEMMA TimesMod ==
    ASSUME NEW x \in Nat, NEW m \in Nat, m > 0, x % m = 0, NEW c \in Nat
    PROVE  (x * c) % m = 0
<1> DEFINE a == x \div m
           b == a * c
<1>1. a \in Nat /\ x = a * m
  <2>1. a * m = x
    BY DivTimes
  <2>2. a \in Nat
    OBVIOUS
  <2>3. QED
    BY <2>1, <2>2
<1> HIDE DEF a
<1>2. b \in Nat /\ x * c = b * m
  BY <1>1
<1> HIDE DEF b
<1> DEFINE y == b * m
<1>3. y \div m = b
  BY <1>2, TimesDiv
<1>4. y \in Nat
  BY <1>2
<1>5. y % m = y - m * (y \div m)
  <2> HIDE DEF y
  <2>1. QED
    BY <1>4
<1>6. y % m = 0
  BY <1>2, <1>3, <1>5
<1>7. QED
  BY <1>2, <1>6

(* An image holds a disk: as many sectors, and of each the bytes that the  *)
(* file has.                                                               *)
HoldsSector(i, dk, s) ==
    \A p \in 1 .. SectorSize(dk.size, s) :
        Start(i, s) + p <= Len(i.bytes) => i.bytes[Start(i, s) + p] = dk.data[s][p]
Holds(i, dk) == LoadedCount(i) = dk.count /\ \A s \in 1 .. dk.count : HoldsSector(i, dk, s)
Stored(i, dk) ==
    /\ IsDisk(dk) /\ IsImage(i) /\ i.size = dk.size
    /\ Regular(dk) => Holds(i, dk)

LEMMA CountedBack ==
    ASSUME NEW i, NEW n \in Nat, NEW P \in Nat, i.size \in Nat, i.size > 0,
           i.paragraphs * PARAGRAPH = P, BootSize(i) \in Nat,
           P - 3 * BootSize(i) = (n - 3) * i.size
    PROVE  LoadedCount(i) = n
<1> DEFINE x == n - 3
           z == i.size
<1>1. x \in Int /\ z \in Nat /\ z > 0 /\ 3 + x = n
  OBVIOUS
<1>2. LoadedCount(i) = 3 + (x * z) \div z
  BY DEF LoadedCount
<1> HIDE DEF x, z
<1>3. (x * z) \div z = x
  BY <1>1, TimesDiv
<1>4. QED
  BY <1>1, <1>2, <1>3

LEMMA ShortStored ==
    ASSUME NEW dk, IsDisk(dk), IsImage(Image(dk))
    PROVE  Stored(Image(dk), dk)
<1> DEFINE i == Image(dk)
           P == ByteSize(dk.size, dk.count)
           n == dk.count
           z == dk.size
<1>1. /\ z \in Nat /\ z >= BOOT /\ n \in Nat /\ n >= DIR_SECTOR /\ BOOT \in Nat /\ z > 0 /\ n >= 1
      /\ \A s \in 1 .. n : IsSector(dk.data[s], SectorSize(z, s))
  <2>1. /\ dk.size \in Nat /\ dk.size >= BOOT /\ dk.count \in Nat /\ dk.count >= DIR_SECTOR
        /\ \A s \in 1 .. dk.count : IsSector(dk.data[s], SectorSize(dk.size, s))
    BY DiskFacts
  <2>2. QED
    BY <2>1, ScriptNumbers
<1>2. i.size = z /\ i.bytes = FlattenSeq(dk.data) /\ i.paragraphs = P \div PARAGRAPH
  BY ImageFacts
<1>3. P \in Nat /\ P = (n - 3) * z + 3 * BOOT
  BY <1>1, ByteSizeNat DEF ByteSize
<1>4. IsImage(i)
  OBVIOUS
<1>5. SUFFICES ASSUME Regular(dk) PROVE Holds(i, dk)
  BY <1>2, <1>4 DEF Stored
<1>6. P % PARAGRAPH = 0 /\ (z >= PAGE => P % PAGE # 0)
  BY <1>5 DEF Regular
<1> HIDE DEF i, P, n, z
<1>7. i.paragraphs * PARAGRAPH = P
  <2>1. PARAGRAPH \in Nat /\ PARAGRAPH > 0
    BY ImageAssumption
  <2>2. QED
    BY <1>2, <1>3, <1>6, <2>1, DivTimes
<1>8. BootSize(i) = BOOT
  BY <1>2, <1>6, <1>7 DEF BootSize
<1>9. LoadedCount(i) = n
  <2>1. P - 3 * BOOT = (n - 3) * z
    <3> DEFINE y == (n - 3) * z
    <3>1. y \in Int /\ P = y + 3 * BOOT
      BY <1>1, <1>3
    <3> HIDE DEF y
    <3>2. P - 3 * BOOT = y
      BY <1>1, <3>1
    <3>3. QED
      BY <3>2 DEF y
  <2>2. QED
    BY <1>1, <1>2, <1>3, <1>7, <1>8, <2>1, CountedBack
<1>10. \A s \in 1 .. n : ReadSize(i, s) = SectorSize(z, s)
  BY <1>2, <1>8 DEF ReadSize, SectorSize
<1>11. dk.data \in [1 .. n -> Seq(Nat)]
  BY DEF IsDisk, n
<1>12. \A s \in 1 .. n : Len(dk.data[s]) = ReadSize(i, s)
  BY <1>1, <1>10 DEF IsSector
<1>13. \A s \in 1 .. n : \A p \in 1 .. ReadSize(i, s) : i.bytes[Start(i, s) + p] = dk.data[s][p]
  <2> DEFINE parts == dk.data
  <2>1. parts \in [1 .. n -> Seq(Nat)] /\ Fills(i, n, parts)
    BY <1>2, <1>11, <1>12 DEF Fills
  <2> HIDE DEF parts
  <2>2. InFile(i, n, parts)
    BY <1>1, <1>4, <2>1, ImageAt
  <2>3. QED
    BY <2>2 DEF parts, InFile
<1>14. \A s \in 1 .. n : HoldsSector(i, dk, s)
  BY <1>10, <1>13 DEF HoldsSector, z
<1>15. QED
  BY <1>9, <1>14 DEF Holds, n

LEMMA CutStored ==
    ASSUME NEW i, NEW dk, Stored(i, dk), NEW n \in Nat, n < Len(i.bytes) - 3 * BootSize(i), NEW new,
           new = [i EXCEPT !.bytes = SubSeq(i.bytes, 1, Len(i.bytes) - n)]
    PROVE  Stored(new, dk)
<1>1. IsImage(i) /\ IsDisk(dk) /\ i.size = dk.size
  BY DEF Stored
<1>2. /\ IsImage(new) /\ new.size = i.size /\ new.paragraphs = i.paragraphs
      /\ Len(new.bytes) = Len(i.bytes) - n
      /\ \A p \in 1 .. Len(new.bytes) : new.bytes[p] = i.bytes[p]
  <2>1. IsImage(new) /\ IsCut(i, n, new)
    BY <1>1, CutFacts
  <2>2. QED
    BY <2>1 DEF IsCut
<1>3. BootSize(new) = BootSize(i)
  BY <1>2 DEF BootSize
<1>4. LoadedCount(new) = LoadedCount(i) /\ \A s : Start(new, s) = Start(i, s)
  <2> DEFINE z == i.size
             b == BootSize(i)
  <2>1. /\ new.size = z /\ i.size = z /\ BootSize(new) = b /\ BootSize(i) = b
        /\ new.paragraphs = i.paragraphs
    BY <1>2, <1>3
  <2> HIDE DEF z, b
  <2>2. LoadedCount(new) = LoadedCount(i)
    BY <2>1, Zenon DEF LoadedCount
  <2>3. ASSUME NEW s PROVE Start(new, s) = Start(i, s)
    <3>1. Start(new, s) = IF s <= 3 THEN (s - 1) * b ELSE 3 * b + (s - 4) * z
      BY <2>1 DEF Start
    <3>2. Start(i, s) = IF s <= 3 THEN (s - 1) * b ELSE 3 * b + (s - 4) * z
      BY <2>1 DEF Start
    <3>3. QED
      BY <3>1, <3>2
  <2>4. QED
    BY <2>2, <2>3
<1>5. ASSUME Holds(i, dk), NEW s \in 1 .. dk.count PROVE HoldsSector(new, dk, s)
  <2>1. SUFFICES ASSUME NEW p \in 1 .. SectorSize(dk.size, s), Start(new, s) + p <= Len(new.bytes)
                 PROVE  new.bytes[Start(new, s) + p] = dk.data[s][p]
    BY DEF HoldsSector
  <2> DEFINE k == Start(i, s) + p
  <2>2. Start(i, s) \in Nat /\ s \in Nat /\ dk.count \in Nat
    <3>1. dk.count \in Nat
      BY <1>1, DiskFacts
    <3>2. s \in Nat /\ s >= 1
      BY <3>1
    <3>3. QED
      BY <1>1, <3>1, <3>2, StartTypes
  <2>3. Len(i.bytes) \in Nat
    BY <1>1 DEF IsImage
  <2>4. k \in 1 .. Len(new.bytes) /\ k <= Len(i.bytes)
    <3> DEFINE x == Start(i, s)
               y == Len(i.bytes)
               u == Len(new.bytes)
    <3>1. x \in Nat /\ y \in Nat /\ u = y - n /\ x + p <= u
      BY <1>2, <1>4, <2>1, <2>2, <2>3
    <3>2. p \in Int /\ 1 <= p
      <4>1. SectorSize(dk.size, s) \in Nat
        BY <1>1, DiskFacts
      <4>2. QED
        BY <4>1
    <3> HIDE DEF x, y, u
    <3>3. x + p \in 1 .. u /\ x + p <= y
      BY <3>1, <3>2
    <3>4. QED
      BY <3>3 DEF x, y, u
  <2>5. i.bytes[k] = dk.data[s][p]
    <3>1. HoldsSector(i, dk, s)
      BY <1>5 DEF Holds
    <3>2. QED
      BY <2>4, <3>1 DEF HoldsSector
  <2>6. new.bytes[k] = i.bytes[k]
    <3> HIDE DEF k
    <3>1. QED
      BY <1>2, <2>4
  <2>7. QED
    BY <1>4, <2>5, <2>6
<1>6. Holds(i, dk) => Holds(new, dk)
  BY <1>4, <1>5 DEF Holds
<1>7. QED
  BY <1>1, <1>2, <1>6 DEF Stored

LEMMA PageTimes ==
    ASSUME NEW z \in Nat, z > 0, z % PAGE = 0, NEW n \in Nat
    PROVE  z >= PAGE /\ (z * n) % PAGE = 0 /\ (z * n) % PARAGRAPH = 0
<1>1. PAGE \in Nat /\ PAGE > 0 /\ PARAGRAPH \in Nat /\ PARAGRAPH > 0 /\ PAGE % PARAGRAPH = 0
  BY ImageAssumption, ImagesAssumption
<1>2. z >= PAGE
  BY <1>1
<1>3. (z * n) % PAGE = 0
  BY <1>1, TimesMod
<1> DEFINE a == z \div PAGE
           c == a * n
<1>4. a * PAGE = z /\ a \in Nat
  BY <1>1, DivTimes
<1> HIDE DEF a
<1>5. c \in Nat /\ z * n = PAGE * c
  BY <1>1, <1>4
<1> HIDE DEF c
<1>6. (PAGE * c) % PARAGRAPH = 0
  BY <1>1, <1>5, TimesMod
<1>7. QED
  BY <1>2, <1>3, <1>5, <1>6

LEMMA FullStored ==
    ASSUME NEW dk, IsDisk(dk), dk.size % PAGE = 0, IsImage(InFull(dk))
    PROVE  Stored(InFull(dk), dk)
<1> DEFINE i == InFull(dk)
           n == dk.count
           z == dk.size
           Pad(s) == [p \in 1 .. z - Len(dk.data[s]) |-> 255]
           parts == [s \in 1 .. n |-> dk.data[s] \o Pad(s)]
           P == z * n
<1>1. /\ z \in Nat /\ z >= BOOT /\ n \in Nat /\ n >= DIR_SECTOR /\ BOOT \in Nat /\ z > 0 /\ n >= 1
      /\ n >= 3
      /\ \A s \in 1 .. n : IsSector(dk.data[s], SectorSize(z, s))
  <2>1. /\ dk.size \in Nat /\ dk.size >= BOOT /\ dk.count \in Nat /\ dk.count >= DIR_SECTOR
        /\ \A s \in 1 .. dk.count : IsSector(dk.data[s], SectorSize(dk.size, s))
    BY DiskFacts
  <2>2. QED
    BY <2>1, ScriptNumbers
<1>2. i.size = z /\ i.bytes = FlattenSeq(parts) /\ i.paragraphs = P \div PARAGRAPH
  BY DEF InFull
<1>3. IsImage(i)
  OBVIOUS
<1>4. z % PAGE = 0
  OBVIOUS
<1> HIDE DEF i, n, z
<1>5. z >= PAGE /\ P % PAGE = 0 /\ P % PARAGRAPH = 0
  BY <1>1, <1>4, PageTimes
<1>6. P \in Nat
  BY <1>1
<1>7. ASSUME NEW s \in 1 .. n
      PROVE  /\ parts[s] \in Seq(Nat) /\ Len(parts[s]) = z
             /\ \A p \in 1 .. SectorSize(z, s) : parts[s][p] = dk.data[s][p]
  <2> DEFINE x == dk.data[s]
             y == Pad(s)
             w == x \o y
             k == SectorSize(z, s)
  <2>1. x \in Seq(Nat) /\ Len(x) = k
    BY <1>1 DEF IsSector
  <2>2. k \in Nat /\ k <= z
    BY <1>1 DEF SectorSize
  <2>3. parts[s] = w
    OBVIOUS
  <2>4. y = [p \in 1 .. z - Len(x) |-> 255]
    OBVIOUS
  <2> HIDE DEF x, y, k, parts
  <2>5. y \in Seq(Nat) /\ Len(y) = z - k
    <3> DEFINE e == z - k
    <3>1. e \in Nat /\ y = [p \in 1 .. e |-> 255]
      BY <1>1, <2>1, <2>2, <2>4
    <3> HIDE DEF e
    <3>2. y \in Seq(Nat) /\ Len(y) = e
      BY <3>1
    <3>3. QED
      BY <3>2 DEF e
  <2>6. /\ w \in Seq(Nat) /\ Len(w) = Len(x) + Len(y)
        /\ \A p \in 1 .. Len(x) + Len(y) : w[p] = IF p <= Len(x) THEN x[p] ELSE y[p - Len(x)]
    <3>1. x \in Seq(Nat) /\ y \in Seq(Nat)
      BY <2>1, <2>5
    <3>2. QED
      BY <3>1, ConcatProperties, Zenon
  <2> HIDE DEF w
  <2>7. Len(w) = z
    BY <1>1, <2>1, <2>2, <2>5, <2>6
  <2>8. \A p \in 1 .. k : w[p] = x[p]
    BY <1>1, <2>1, <2>2, <2>5, <2>6
  <2>9. QED
    BY <2>3, <2>6, <2>7, <2>8 DEF x, k
<1>8. parts = [s \in 1 .. n |-> parts[s]]
  OBVIOUS
<1> HIDE DEF parts, P
<1>9. i.paragraphs * PARAGRAPH = P
  <2>1. PARAGRAPH \in Nat /\ PARAGRAPH > 0
    BY ImageAssumption
  <2>2. QED
    BY <1>2, <1>5, <1>6, <2>1, DivTimes
<1>10. BootSize(i) = z
  BY <1>2, <1>5, <1>9 DEF BootSize
<1>11. LoadedCount(i) = n
  <2>1. P - 3 * z = (n - 3) * z
    BY <1>1 DEF P
  <2>2. QED
    BY <1>1, <1>2, <1>6, <1>9, <1>10, <2>1, CountedBack
<1>12. \A s \in 1 .. n : ReadSize(i, s) = z
  BY <1>2, <1>10 DEF ReadSize
<1>13. parts \in [1 .. n -> Seq(Nat)] /\ Fills(i, n, parts)
  <2>1. parts \in [1 .. n -> Seq(Nat)]
    BY <1>7, <1>8
  <2>2. \A s \in 1 .. n : Len(parts[s]) = ReadSize(i, s)
    BY <1>7, <1>12
  <2>3. QED
    BY <1>2, <2>1, <2>2 DEF Fills
<1>14. InFile(i, n, parts)
  BY <1>1, <1>3, <1>13, ImageAt
<1>15. ASSUME NEW s \in 1 .. n PROVE HoldsSector(i, dk, s)
  <2>1. \A p \in 1 .. z : i.bytes[Start(i, s) + p] = parts[s][p]
    BY <1>12, <1>14 DEF InFile
  <2>2. \A p \in 1 .. SectorSize(z, s) : p \in 1 .. z
    <3> DEFINE k == SectorSize(z, s)
    <3>1. k \in Nat /\ k <= z
      BY <1>1 DEF SectorSize
    <3> HIDE DEF k
    <3>2. \A p \in 1 .. k : p \in 1 .. z
      BY <1>1, <3>1
    <3>3. QED
      BY <3>2 DEF k
  <2>3. \A p \in 1 .. SectorSize(z, s) : i.bytes[Start(i, s) + p] = dk.data[s][p]
    BY <1>7, <2>1, <2>2
  <2>4. QED
    BY <2>3 DEF HoldsSector, z
<1>16. Holds(i, dk)
  BY <1>11, <1>15 DEF Holds, n
<1>17. QED
  BY <1>2, <1>3, <1>16 DEF Stored, i, z

(* load finds what the image holds.                                        *)
LEMMA LoadFinds ==
    ASSUME NEW i, NEW dk, Stored(i, dk), Regular(dk)
    PROVE  /\ Loaded(i).size = dk.size /\ Loaded(i).count = dk.count
           /\ \A s \in 1 .. dk.count :
                Start(i, s) + SectorSize(dk.size, s) <= Len(i.bytes)
                    => Loaded(i).data[s] = dk.data[s]
<1> DEFINE n == dk.count
           z == dk.size
<1>1. IsDisk(dk) /\ IsImage(i) /\ i.size = z /\ Holds(i, dk)
  BY DEF Stored
<1>2. LoadedCount(i) = n /\ \A s \in 1 .. n : HoldsSector(i, dk, s)
  BY <1>1 DEF Holds
<1>3. /\ z \in Nat /\ z >= BOOT /\ n \in Nat /\ BOOT \in Nat
      /\ \A s \in 1 .. n : IsSector(dk.data[s], SectorSize(z, s))
  <2>1. /\ dk.size \in Nat /\ dk.size >= BOOT /\ dk.count \in Nat
        /\ \A s \in 1 .. dk.count : IsSector(dk.data[s], SectorSize(dk.size, s))
    BY <1>1, DiskFacts
  <2>2. QED
    BY <2>1, ScriptNumbers
<1> HIDE DEF n, z
<1>4. PICK g : /\ g \in [0 .. n -> [1 .. z -> Nat]]
               /\ \A s \in 1 .. n : g[s] = ReadInto(i, s, g[s - 1])
               /\ Loaded(i) = [size |-> z, count |-> n,
                               data |-> [s \in 1 .. n |-> SubSeq(g[s], 1, StoredSize(z, s))]]
  <2>1. \E g :
            /\ g \in [0 .. LoadedCount(i) -> [1 .. i.size -> Nat]]
            /\ \A s \in 1 .. LoadedCount(i) : g[s] = ReadInto(i, s, g[s - 1])
            /\ Loaded(i) = [size |-> i.size, count |-> LoadedCount(i),
                            data |-> [s \in 1 .. LoadedCount(i) |->
                                        SubSeq(g[s], 1, StoredSize(i.size, s))]]
    BY <1>1, LoadedFacts
  <2>2. i.size = z /\ LoadedCount(i) = n
    BY <1>1, <1>2
  <2>3. QED
    BY <2>1, <2>2
<1>5. /\ Loaded(i).size = z /\ Loaded(i).count = n
      /\ \A s \in 1 .. n : Loaded(i).data[s] = SubSeq(g[s], 1, StoredSize(z, s))
  <2> DEFINE parts == [s \in 1 .. n |-> SubSeq(g[s], 1, StoredSize(z, s))]
  <2>1. \A s \in 1 .. n : parts[s] = SubSeq(g[s], 1, StoredSize(z, s))
    OBVIOUS
  <2>2. Loaded(i) = [size |-> z, count |-> n, data |-> parts]
    BY <1>4
  <2> HIDE DEF parts
  <2>3. Loaded(i).size = z /\ Loaded(i).count = n /\ Loaded(i).data = parts
    BY <2>2
  <2>4. QED
    BY <2>1, <2>3
<1>6. ASSUME NEW s \in 1 .. n, Start(i, s) + SectorSize(z, s) <= Len(i.bytes)
      PROVE  Loaded(i).data[s] = dk.data[s]
  <2> DEFINE k == SectorSize(z, s)
             x == g[s]
             y == dk.data[s]
             a == Start(i, s)
  <2>1. y \in Seq(Nat) /\ Len(y) = k
    BY <1>3 DEF IsSector
  <2>2. k \in Nat /\ k <= z
    BY <1>3 DEF SectorSize
  <2>3. s \in Nat /\ s >= 1
    BY <1>3
  <2>4. a \in Nat /\ Len(i.bytes) \in Nat
    BY <1>1, <2>3, StartTypes DEF IsImage
  <2>5. k <= ReadSize(i, s)
    <3>1. BootSize(i) >= BOOT
      BY <1>1, <1>3 DEF BootSize
    <3>2. QED
      BY <1>1, <1>3, <3>1 DEF ReadSize, SectorSize
  <2>6. ASSUME NEW p \in 1 .. k PROVE x[p] = y[p]
    <3>1. a + k <= Len(i.bytes)
      BY <1>6
    <3>2. ReadSize(i, s) \in Nat
      BY <1>1, <2>3, StartTypes
    <3>3. p \in 1 .. z /\ p <= ReadSize(i, s) /\ a + p <= Len(i.bytes)
      <4> DEFINE u == Len(i.bytes)
                 r == ReadSize(i, s)
      <4>1. a \in Nat /\ u \in Nat /\ r \in Nat /\ k <= r /\ a + k <= u
        BY <2>4, <2>5, <3>1, <3>2
      <4> HIDE DEF u, r, a, k
      <4>2. p \in 1 .. z /\ p <= r /\ a + p <= u
        BY <1>3, <2>2, <4>1
      <4>3. QED
        BY <4>2 DEF u, r
    <3>4. x = ReadInto(i, s, g[s - 1])
      BY <1>4
    <3>5. x[p] = i.bytes[a + p]
      <4> HIDE DEF x, a
      <4>1. p \in 1 .. i.size
        BY <1>1, <3>3
      <4>2. QED
        BY <3>3, <3>4, <4>1 DEF ReadInto, a
    <3>6. i.bytes[a + p] = y[p]
      <4>1. HoldsSector(i, dk, s)
        BY <1>2
      <4>2. QED
        BY <3>3, <4>1 DEF HoldsSector, z
    <3>7. QED
      BY <3>5, <3>6
  <2>7. x \in Seq(Nat) /\ Len(x) = z
    <3>1. x \in [1 .. z -> Nat]
      BY <1>3, <1>4
    <3> HIDE DEF x
    <3>2. QED
      BY <1>3, <3>1
  <2>8. Loaded(i).data[s] = SubSeq(x, 1, k)
    BY <1>5 DEF StoredSize, SectorSize
  <2> HIDE DEF x, y, k, a
  <2> DEFINE w == SubSeq(x, 1, k)
  <2>9. w \in Seq(Nat) /\ Len(w) = k /\ \A p \in 1 .. k : w[p] = x[p]
    BY <1>3, <2>2, <2>7
  <2> HIDE DEF w
  <2>10. \A p \in 1 .. k : w[p] = y[p]
    BY <2>6, <2>9
  <2>11. w = y
    BY <2>1, <2>2, <2>9, <2>10, SeqEqual
  <2>12. QED
    BY <2>8, <2>11 DEF w, y
<1>7. QED
  BY <1>5, <1>6 DEF n, z

(* The image and the disk it was made of.                                  *)
ImageInv == phase \in {"saved", "loaded"} => Stored(image, origin)
LoadIInv == ScriptInv /\ ImageInv /\ LoadsBack

LEMMA LoadIStart == ScriptInit => LoadIInv
<1> SUFFICES ASSUME ScriptInit PROVE LoadIInv
  OBVIOUS
<1>1. ScriptInv
  BY ScriptStart
<1>2. phase # "loaded"
  BY DEF ScriptInit
<1>3. ASSUME phase = "saved" PROVE Stored(image, origin)
  <2>1. PICK made \in Images : image = made.image /\ origin = made.disk
    BY <1>3 DEF ScriptInit
  <2>2. IsDisk(origin) /\ IsImage(image)
    BY <2>1, ImagesAssumption
  <2>3. image = Image(origin) \/ (origin.size % PAGE = 0 /\ image = InFull(origin))
    BY <2>1, ImagesAssumption
  <2>4. CASE image = Image(origin)
    BY <2>2, <2>4, ShortStored
  <2>5. CASE origin.size % PAGE = 0 /\ image = InFull(origin)
    BY <2>2, <2>5, FullStored
  <2>6. QED
    BY <2>3, <2>4, <2>5
<1>4. QED
  BY <1>1, <1>2, <1>3 DEF LoadIInv, ImageInv, LoadsBack

LEMMA LoadIStep == LoadIInv /\ [ScriptNext]_scriptVars => LoadIInv'
<1> SUFFICES ASSUME ScriptInv, ImageInv, LoadsBack, [ScriptNext]_scriptVars PROVE LoadIInv'
  BY DEF LoadIInv
<1>1. ScriptInv'
  BY ScriptInvStep
<1>2. SUFFICES ImageInv' /\ LoadsBack'
  BY <1>1 DEF LoadIInv
<1>3. phase' \notin {"saved", "loaded"} => ImageInv' /\ LoadsBack'
  BY DEF ImageInv, LoadsBack
<1>4. CASE Evict
  BY <1>3, <1>4 DEF Evict
<1>5. CASE NextLine
  <2>1. PICK line : IsTyped(line) /\ Run(line) /\ phase = "script"
    BY <1>5, ScriptTail, LineTyped DEF NextLine, ScriptInv
  <2>2. phase' \in {"script", "elsewhere", "error", "crash"}
    BY <2>1, RunKeeps DEF ScriptInv
  <2>3. QED
    BY <1>3, <2>2
<1>6. CASE SaveDisk
  <2>1. phase' # "loaded"
    BY <1>6 DEF SaveDisk
  <2>2. CASE phase' = "saved"
    <3>1. /\ phase = "script" /\ boot_bin = <<>> /\ d # NoDisk
          /\ image' = Image(Flushed) /\ origin' = Flushed
      BY <1>6, <2>2 DEF SaveDisk
    <3>2. IsDisk(Flushed)
      BY <3>1, FlushedFacts DEF ScriptInv
    <3>3. IsImage(image')
      <4>1. Programs'
        BY <1>1 DEF ScriptInv
      <4>2. QED
        BY <2>2, <4>1 DEF Programs
    <3>4. Stored(image', origin')
      BY <3>1, <3>2, <3>3, ShortStored
    <3>5. Stored(image, origin)' = Stored(image', origin')
      OBVIOUS
    <3>6. QED
      BY <2>1, <3>4, <3>5 DEF ImageInv, LoadsBack
  <2>3. QED
    BY <1>3, <2>1, <2>2
<1>7. CASE CutShort
  <2>1. phase = "saved" /\ phase' = "saved" /\ origin' = origin
    BY <1>7 DEF CutShort
  <2>2. PICK n \in Cuts : /\ n < Len(image.bytes) - 3 * BootSize(image)
                          /\ image' = [image EXCEPT !.bytes = SubSeq(image.bytes, 1, Len(image.bytes) - n)]
    BY <1>7 DEF CutShort
  <2>3. n \in Nat /\ Stored(image, origin)
    BY <2>1, ScriptAssumption DEF ImageInv
  <2>4. Stored(image', origin)
    BY <2>2, <2>3, CutStored
  <2>5. Stored(image, origin)' = Stored(image', origin)
    BY <2>1
  <2>6. QED
    BY <2>1, <2>4, <2>5 DEF ImageInv, LoadsBack
<1>8. CASE Load
  <2>1. phase = "saved" /\ phase' = "loaded" /\ d' = Loaded(image) /\ UNCHANGED <<image, origin>>
    BY <1>8 DEF Load
  <2>2. Stored(image, origin)
    BY <2>1 DEF ImageInv
  <2>3. Stored(image, origin)' = Stored(image, origin) /\ (Regular(origin)' <=> Regular(origin))
        /\ \A s : Start(image, s)' = Start(image, s)
    BY <2>1
  <2>4. ASSUME Regular(origin)
        PROVE  /\ d'.size = origin.size /\ d'.count = origin.count
               /\ \A s \in 1 .. origin.count :
                    Start(image, s) + SectorSize(origin.size, s) <= Len(image.bytes)
                        => d'.data[s] = origin.data[s]
    BY <2>1, <2>2, <2>4, LoadFinds
  <2>5. LoadsBack'
    BY <2>1, <2>3, <2>4 DEF LoadsBack
  <2>6. QED
    BY <2>2, <2>3, <2>5 DEF ImageInv
<1>9. CASE Unpack
  BY <1>3, <1>9 DEF Unpack
<1>10. CASE UNCHANGED scriptVars
  <2>1. UNCHANGED <<sector_size, sector_count, d, cache, fs, script, taken, boot_bin, image,
                    origin, cut, phase>>
    BY <1>10 DEF scriptVars
  <2>2. Stored(image, origin)' = Stored(image, origin) /\ (Regular(origin)' <=> Regular(origin))
        /\ \A s : Start(image, s)' = Start(image, s)
    BY <2>1
  <2>3. ImageInv'
    BY <2>1, <2>2 DEF ImageInv
  <2>4. LoadsBack'
    BY <2>1, <2>2 DEF LoadsBack
  <2>5. QED
    BY <2>3, <2>4
<1>11. QED
  BY <1>4, <1>5, <1>6, <1>7, <1>8, <1>9, <1>10 DEF ScriptNext

(***************************************************************************)
(* load gives what save was given, and what another program's image holds: *)
(* the sizes, the number of sectors and every sector the file has in full, *)
(* for every size of a disk that is whole paragraphs, the first sectors    *)
(* short or in full, wherever the file is cut.                             *)
(***************************************************************************)
THEOREM DiskLoadsBack == ScriptSpec => []LoadsBack
<1>1. LoadIInv => LoadsBack
  BY DEF LoadIInv
<1>2. QED
  BY LoadIStart, LoadIStep, <1>1, PTL DEF ScriptSpec

=============================================================================
