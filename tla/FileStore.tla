------------------------------ MODULE FileStore ------------------------------
(***************************************************************************)
(* What a file system promises to pack and unpack: a file is created,      *)
(* written byte by byte and closed, and from then on unpacking it gives    *)
(* the bytes that were written, whatever files and directories follow.     *)
(* Dos2Files shows that directory entries and chains of linked sectors     *)
(* keep it.                                                                *)
(***************************************************************************)
EXTENDS Integers, Sequences

CONSTANT NoFile     \* no file is open

VARIABLES
    files,      \* files[f]: what unpacking the closed file f gives
    open        \* the file that is written, [name, bytes], or NoFile

storeVars == <<files, open>>

FileStoreInit ==
    /\ DOMAIN files = {}
    /\ open = NoFile

FileCreate ==
    /\ open = NoFile
    /\ open' # NoFile
    /\ open'.name \notin DOMAIN files
    /\ open'.bytes = <<>>
    /\ UNCHANGED files

FileWrite ==
    /\ open # NoFile
    /\ open' # NoFile
    /\ open'.name = open.name
    /\ Len(open'.bytes) = Len(open.bytes) + 1
    /\ SubSeq(open'.bytes, 1, Len(open.bytes)) = open.bytes
    /\ UNCHANGED files

FileClose ==
    /\ open # NoFile
    /\ open' = NoFile
    /\ files' = [f \in DOMAIN files \cup {open.name} |->
                    IF f = open.name THEN open.bytes ELSE files[f]]

FileStoreNext == FileCreate \/ FileWrite \/ FileClose

FileStoreSpec == FileStoreInit /\ [][FileStoreNext]_storeVars

=============================================================================
