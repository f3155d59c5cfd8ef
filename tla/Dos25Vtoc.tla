------------------------------ MODULE Dos25Vtoc ------------------------------
(***************************************************************************)
(* The table of contents of DOS 2.5 (libatr/dos_2_5.cpp).  The file system *)
(* keeps it in a buffer of its own, vtoc_buf, from which two sectors are   *)
(* cut that overlap: sector 360 is bytes 0 to 127, sector 1024, on disks   *)
(* that have one, bytes 16 to 143.  Every alloc_sector writes both.        *)
(*                                                                         *)
(* Bit s of the bitmap stands for sector s.  Sector 360 holds the bits     *)
(* below 944, sector 1024 those from 48 on; each has a count of its own,   *)
(* of the free sectors below 720 and of those above.                       *)
(***************************************************************************)
EXTENDS Integers, FiniteSets

CONSTANTS
    Sizes,  \* numbers of sectors of the disks that are formatted
    None,   \* result: nothing was allocated yet
    Full    \* result: "disk full" was thrown

WORD    == 65536
LOW_END == 720      \* the first sector sector 1024 counts
BITS1   == 0 .. 943
BITS2   == 48 .. 1023

DIR_FIRST_SECTOR == 361
DIR_SIZE         == 8

(* As in Vtoc, the directory has to be on the disk.                        *)
ASSUME SizesAssumption == Sizes \subseteq DIR_FIRST_SECTOR + DIR_SIZE .. WORD - 1
ASSUME ResultAssumption == None \notin Int /\ Full \notin Int /\ None # Full

VARIABLES
    sector_count,
    formatted,      \* format has run
    mounted,        \* a dos25 object exists, and with it vtoc_buf
    bitmap,         \* vtoc_buf: the sectors whose bit is set,
    free_sec,       \* VTOC_FREE_SEC
    free_sec2,      \* and VTOC2_FREE_SEC
    vtoc_dirty,
    sector360,      \* the table in the image: the bits, and the count,
    sector1024,     \* of either sector
    result          \* what the last alloc_sector returned

buffer == <<bitmap, free_sec, free_sec2, vtoc_dirty>>
image  == <<sector360, sector1024>>
vars   == <<sector_count, formatted, mounted, buffer, image, result>>

(* vtoc_init: the second sector, and with it the bits from 720 on, exist   *)
(* from 1024 sectors.                                                      *)
HasVtoc2 == sector_count >= 1024
LastBit  == IF HasVtoc2 THEN 1023 ELSE 719

Written(bits, n) == [bits |-> bits, free |-> n]

Init ==
    /\ sector_count \in Sizes
    /\ formatted = FALSE /\ mounted = TRUE
    /\ bitmap = {} /\ free_sec = 0 /\ free_sec2 = 0 /\ vtoc_dirty = FALSE
    /\ sector360 = Written({}, 0) /\ sector1024 = Written({}, 0)
    /\ result = None

(* vtoc_write of a buffer with these contents.                             *)
(* Variant: the second sector is left as it is.                            *)
VtocWriteFirst(bits, low, high) ==
    /\ sector360' = Written(bits \cap BITS1, low)
    /\ vtoc_dirty' = FALSE
    /\ UNCHANGED sector1024
VtocWrite(bits, low, high) ==
    /\ sector360' = Written(bits \cap BITS1, low)
    /\ sector1024' = IF HasVtoc2 THEN Written(bits \cap BITS2, high) ELSE sector1024
    /\ vtoc_dirty' = FALSE

(* format: dir_format, vtoc_format and vtoc_write.  The bit of sector 1024 *)
(* is turned over too; it lies in the word VTOC2_FREE_SEC, which is written*)
(* after that.                                                             *)
Format ==
    /\ mounted /\ ~formatted
    /\ bitmap' = (4 .. LastBit)
                    \ (360 .. DIR_FIRST_SECTOR + DIR_SIZE - 1)
    /\ free_sec' = 707
    /\ free_sec2' = IF HasVtoc2 THEN 303 ELSE 0
    /\ VtocWrite(bitmap', free_sec', free_sec2')
    /\ formatted' = TRUE
    /\ UNCHANGED <<sector_count, mounted, result>>

(* A count one lower, stored in a word.  Variant: wider than a word.       *)
OneLessWide(n) == n - 1
OneLess(n) == (n - 1) % WORD

(* alloc_sector: the first bit that is set.  Without a second sector there *)
(* is one count for all.                                                   *)
AllocSector ==
    /\ mounted /\ formatted
    /\ \E s \in bitmap :
        /\ \A t \in bitmap : s <= t
        /\ bitmap' = bitmap \ {s}
        /\ LET low == s < LOW_END \/ ~HasVtoc2
           IN  /\ free_sec' = IF low THEN OneLess(free_sec) ELSE free_sec
               /\ free_sec2' = IF low THEN free_sec2 ELSE OneLess(free_sec2)
        /\ VtocWrite(bitmap', free_sec', free_sec2')
        /\ result' = s
    /\ UNCHANGED <<sector_count, formatted, mounted>>

DiskFull ==
    /\ mounted /\ formatted
    /\ bitmap = {}
    /\ result' = Full
    /\ UNCHANGED <<sector_count, formatted, mounted, buffer, image>>

(* ~dos25: vtoc_write, and the buffer is gone.                             *)
Unmount ==
    /\ mounted /\ formatted
    /\ IF vtoc_dirty THEN VtocWrite(bitmap, free_sec, free_sec2)
                     ELSE UNCHANGED <<image, vtoc_dirty>>
    /\ mounted' = FALSE
    /\ bitmap' = {} /\ free_sec' = 0 /\ free_sec2' = 0
    /\ UNCHANGED <<sector_count, formatted, result>>

(* vtoc_read: the second sector is read over the end of the first.         *)
(* Variant: only the first is read.                                        *)
BufferReadFirst == sector360.bits
BufferRead ==
    IF HasVtoc2 THEN (sector360.bits \ BITS2) \cup sector1024.bits ELSE sector360.bits

(* dos25::dos25 on an image that has the file system.                      *)
Mount ==
    /\ ~mounted
    /\ mounted' = TRUE
    /\ bitmap' = BufferRead
    /\ free_sec' = sector360.free
    /\ free_sec2' = IF HasVtoc2 THEN sector1024.free ELSE 0
    /\ vtoc_dirty' = FALSE
    /\ UNCHANGED <<sector_count, formatted, image, result>>

Next == Format \/ AllocSector \/ DiskFull \/ Unmount \/ Mount

Spec == Init /\ [][Next]_vars

-----------------------------------------------------------------------------
TypeOK ==
    /\ sector_count \in Sizes
    /\ formatted \in BOOLEAN /\ mounted \in BOOLEAN /\ vtoc_dirty \in BOOLEAN
    /\ bitmap \subseteq 4 .. LastBit
    /\ free_sec \in 0 .. WORD - 1 /\ free_sec2 \in 0 .. WORD - 1
    /\ \A v \in {sector360, sector1024} :
        DOMAIN v = {"bits", "free"} /\ v.bits \subseteq 4 .. 1023 /\ v.free \in 0 .. WORD - 1
    /\ result \in 1 .. WORD - 1 \cup {None, Full}

Low(bits) == {s \in bits : s < LOW_END}

(***************************************************************************)
(* The two sectors of the image repeat each other where they overlap       *)
(* (dos_2_5.h, "Repeat VTOC bitmap for sectors 48..719"), and with the     *)
(* sectors before and after they are the whole map.                        *)
(***************************************************************************)
CopiesAgree ==
    formatted /\ HasVtoc2
        => sector360.bits \cap BITS2 = sector1024.bits \cap BITS1

(***************************************************************************)
(* DOS 2 can use the disk below sector 720 (dos_2_5.h, "DOS 2 can reliably *)
(* write to single density part"): sector 360 alone, without what sector   *)
(* 1024 says, has the right count of the sectors it shows free.            *)
(***************************************************************************)
Dos2ViewExact ==
    formatted => sector360.free = Cardinality(Low(sector360.bits))

(***************************************************************************)
(* The count of sector 1024 starts one too low: 304 sectors above 719 are  *)
(* marked free and 303 counted (dos_2_5.h, "Initially $12f (303)").  It    *)
(* stays one too low until it wraps to 65535, and never loses more.        *)
(***************************************************************************)
HighCountOneLess ==
    formatted /\ HasVtoc2
        => sector1024.free =
            (Cardinality(sector1024.bits \ Low(sector1024.bits)) - 1) % WORD

Dos25Inv == CopiesAgree /\ Dos2ViewExact /\ HighCountOneLess

(* The map a program finds: in memory, or in the image.                    *)
Map == IF mounted THEN bitmap ELSE BufferRead

Allocator ==
    INSTANCE SectorAllocator
    WITH usable <- (4 .. LastBit) \ (360 .. DIR_FIRST_SECTOR + DIR_SIZE - 1),
         formatted <- formatted,
         free <- IF formatted THEN Map ELSE {},
         RunLength <- DIR_SIZE

(***************************************************************************)
(* The map is a sector allocator, and it is one across remounts: nothing   *)
(* that was handed out is forgotten in memory only.                        *)
(***************************************************************************)
RefinesAllocator == Allocator!AllocatorSpec

=============================================================================
