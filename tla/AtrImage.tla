------------------------------ MODULE AtrImage ------------------------------
(***************************************************************************)
(* Image files: disk::save and disk::load (libatr/disk.cpp).  The first    *)
(* three sectors are short.  A file has the size of a sector and, in       *)
(* paragraphs, that of the disk; the number of sectors is worked out from  *)
(* them, and so is whether another program wrote the first sectors in      *)
(* full.                                                                   *)
(*                                                                         *)
(* A disk is [size, count, data], with data[i] the bytes of sector i.      *)
(***************************************************************************)
EXTENDS Integers, Sequences, SequencesExt

CONSTANTS
    BOOT,       \* bytes of each of the first three sectors, 128
    PARAGRAPH,  \* bytes in a paragraph, 16
    PAGE        \* 256: sectors this long may be in full

ASSUME ImageAssumption ==
    BOOT \in Nat \ {0} /\ PARAGRAPH \in Nat \ {0} /\ PAGE \in Nat \ {0}

SectorSize(size, i) == IF i <= 3 THEN BOOT ELSE size
ByteSize(size, count) == (count - 3) * size + 3 * BOOT

NewDisk(size, count) ==
    [size |-> size, count |-> count,
     data |-> [i \in 1 .. count |-> [p \in 1 .. SectorSize(size, i) |-> 0]]]

Image(disk) ==
    [size |-> disk.size, paragraphs |-> ByteSize(disk.size, disk.count) \div PARAGRAPH,
     bytes |-> FlattenSeq(disk.data)]

(* boot_sector_size and sec_count of load.  Variant: always short.         *)
BootSizeShort(image) == BOOT
BootSize(image) ==
    IF image.size >= PAGE /\ (image.paragraphs * PARAGRAPH) % PAGE = 0 THEN image.size ELSE BOOT
LoadedCount(image) ==
    3 + (image.paragraphs * PARAGRAPH - 3 * BootSize(image)) \div image.size

Start(image, i) ==
    IF i <= 3 THEN (i - 1) * BootSize(image)
    ELSE 3 * BootSize(image) + (i - 4) * image.size
ReadSize(image, i) == IF i <= 3 THEN BootSize(image) ELSE image.size

(* What write_sector takes of a sector.  Variant: as much as of others.    *)
StoredWhole(size, i) == size
StoredSize(size, i) == SectorSize(size, i)

(* Each sector is read into the same buffer, which keeps what it had when  *)
(* the file has ended.  A sector is shorter than a boot sector in no image *)
(* here: the buffer would be too small.                                    *)
Loaded(image) ==
    LET buffer[i \in 0 .. LoadedCount(image)] ==
            IF i = 0 THEN [p \in 1 .. image.size |-> 0]
            ELSE LET held == buffer[i - 1]
                 IN  [p \in 1 .. image.size |->
                        IF p <= ReadSize(image, i) /\ Start(image, i) + p <= Len(image.bytes)
                        THEN image.bytes[Start(image, i) + p]
                        ELSE held[p]]
    IN  [size |-> image.size, count |-> LoadedCount(image),
         data |-> [i \in 1 .. LoadedCount(image) |->
                    SubSeq(buffer[i], 1, StoredSize(image.size, i))]]

=============================================================================
