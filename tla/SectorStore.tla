----------------------------- MODULE SectorStore -----------------------------
(***************************************************************************)
(* What class disk (libatr/disk.h) promises to the file systems: an array  *)
(* of sectors, each an array of bytes.  A read returns what was written    *)
(* last, whichever of the disk's access paths either of them took.         *)
(* SectorCache shows that the write-back cache of disk.cpp keeps it.       *)
(***************************************************************************)

CONSTANTS
    Sector,     \* the sectors of the disk
    Byte,       \* the values of a byte
    Zero,       \* the byte a new image is filled with
    SizeOf(_)   \* SizeOf(s): the offsets of the bytes of sector s

VARIABLES
    content,    \* content[s][o]: the byte at offset o of sector s
    out         \* the byte the last read returned

storeVars == <<content, out>>

ClearSector(s) == [o \in SizeOf(s) |-> Zero]

(* A patch is a function from some offsets of a sector to their new bytes. *)
Patches(s) == UNION {[S -> Byte] : S \in SUBSET SizeOf(s)}

StoreInit ==
    /\ content = [s \in Sector |-> ClearSector(s)]
    /\ out = Zero

StoreRead(s) ==
    /\ \E o \in SizeOf(s) : out' = content[s][o]
    /\ UNCHANGED content

StoreWrite(s) ==
    /\ \E p \in Patches(s) :
         content' = [content EXCEPT ![s] =
                        [o \in SizeOf(s) |->
                            IF o \in DOMAIN p THEN p[o] ELSE content[s][o]]]
    /\ UNCHANGED out

(* init_sector asks for a cleared sector; the caller may also get the      *)
(* sector as it is (see InitSector in SectorCache): that is a stuttering   *)
(* step.                                                                   *)
StoreClear(s) ==
    /\ content' = [content EXCEPT ![s] = ClearSector(s)]
    /\ UNCHANGED out

StoreNext == \E s \in Sector : StoreRead(s) \/ StoreWrite(s) \/ StoreClear(s)

StoreSpec == StoreInit /\ [][StoreNext]_storeVars

=============================================================================
