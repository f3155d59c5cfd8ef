------------------------------- MODULE Repack -------------------------------
(***************************************************************************)
(* Unpacking a disk to files of the host and packing them again:           *)
(* unpack_dir and the lines of files and directories of pack               *)
(* (src/main.cpp).  In between, the user may remove what was unpacked.     *)
(*                                                                         *)
(* The other lines of a script are in PackScript, bytes and sectors of     *)
(* files in Dos2Files: here a file has a value as contents.  Directories   *)
(* are those of MyDOS; a disk without any is one of DOS 2 as well.         *)
(***************************************************************************)
EXTENDS AtariNames, FiniteSets, TLC

CONSTANTS
    Disks,      \* disks to unpack: [dirs, dos], see below
    Commands,   \* commands that pack skips here, such as "DISK"
    MaxRemoved  \* bound on the files and directories the user removes

VARIABLES
    disk,       \* what is unpacked
    frames,     \* the calls of unpack_dir: [dir, pos], the last is running
    script,     \* the lines of dir.txt
    host,       \* host[<<path, name>>]: contents of a file of the host
    folders,    \* paths of the folders of the host
    cwd,        \* path of the current folder
    dir_stack,  \* in pack: the open directories without the current one
    dir,        \* the current one
    made,       \* the disk that pack makes
    line,       \* the line of the script pack is at
    removed,    \* what the user has removed: [folder, of]
    phase       \* "unpack", "edit", "pack", "packed"; "error" was thrown; "hang"

vars == <<disk, frames, script, host, folders, cwd, dir_stack, dir, made, line,
          removed, phase>>

(* Folders of the host: its root, and the one the programs are started in. *)
HOST_ROOT == <<"/">>
START == <<HOST_ROOT, <<"start">> >>
RootDir == 1

(***************************************************************************)
(* A disk: dirs[d] are the entries of directory d, and dos is the sector   *)
(* the boot sector names as the first of DOS.  data 0 is no byte at all.   *)
(***************************************************************************)
Entry(kind, name, data, first, child) ==
    [kind |-> kind, name |-> name, data |-> data, first |-> first, child |-> child]

(* The first entry of a directory is listed without asking whether it was  *)
(* ever used.                                                              *)
NEVER_USED ==
    Entry("file", [k \in 1 .. NAME + EXT |-> [ch |-> "ctl", inv |-> FALSE]], 0, 0, 0)
Listing(dirs, d) == IF dirs[d] = <<>> THEN <<NEVER_USED>> ELSE dirs[d]

EmptyDisk == [dirs |-> [d \in {RootDir} |-> <<>>], dos |-> 0]

Init ==
    /\ disk \in Disks
    /\ frames = <<[dir |-> RootDir, pos |-> 1]>>
    /\ script = <<>>
    /\ host = [f \in {} |-> 0]
    /\ folders = {<<HOST_ROOT>>, START}
    /\ cwd = START
    /\ dir_stack = <<>> /\ dir = RootDir /\ made = EmptyDisk
    /\ line = 1
    /\ removed = {}
    /\ phase = "unpack"

-----------------------------------------------------------------------------
(* The host.                                                               *)

(* change_dir to a name, which does nothing when there is no such folder,  *)
(* and to "..".  Variant: there is always one.                             *)
ChangeDirAnyway(existing, path, name) == Append(path, name)
ChangeDir(existing, path, name) ==
    IF name = HOST_ROOT THEN <<HOST_ROOT>>
    ELSE IF Append(path, name) \in existing THEN Append(path, name) ELSE path
Up(path) == IF Len(path) = 1 THEN path ELSE Front(path)

(* What can be created: mkdir and ofstream fail without a word otherwise.  *)
(* A name with a slash is a path, of which only "/" is followed here.      *)
CanCreate(name) ==
    /\ name # <<>> /\ "/" \notin ToSet(name)
    /\ <<cwd, name>> \notin DOMAIN host

-----------------------------------------------------------------------------
(* unpack_dir.                                                             *)

Top == frames[Len(frames)]
Nesting == Len(frames) - 1
Unpacking == phase = "unpack" /\ Top.pos <= Len(Listing(disk.dirs, Top.dir))
Here == Listing(disk.dirs, Top.dir)[Top.pos]

(* dir->next().  Variant: a deleted entry is passed over without it.       *)
AdvancedPastAllButDeleted ==
    IF Here.kind = "deleted" THEN frames ELSE [frames EXCEPT ![Len(frames)].pos = @ + 1]
Advanced == [frames EXCEPT ![Len(frames)].pos = @ + 1]

Bars == [k \in 1 .. 3 * Nesting |-> IF k % 3 = 2 THEN "|" ELSE " "]
WriteLine(text) == script' = Append(script, Bars \o text)

SkipDeleted ==
    /\ Unpacking /\ Here.kind = "deleted"
    /\ frames' = Advanced
    /\ UNCHANGED <<disk, script, host, folders, cwd, dir_stack, dir, made, line,
                   removed, phase>>

(* A file of size 0 is only a line.                                        *)
UnpackEmpty ==
    /\ Unpacking /\ Here.kind = "file" /\ Here.data = 0
    /\ WriteLine(<<"---", " ">> \o NameText(Here.name))
    /\ frames' = Advanced
    /\ UNCHANGED <<disk, host, folders, cwd, dir_stack, dir, made, line, removed, phase>>

(* The name is put on the line after that of the host when they differ.    *)
FileLine(text, is_dos) ==
    (IF is_dos THEN <<"DOS", " ">> ELSE <<>>)
        \o (IF HostName(text) = text THEN text ELSE HostName(text) \o <<" ">> \o text)

UnpackFile ==
    /\ Unpacking /\ Here.kind = "file" /\ Here.data # 0
    /\ LET text == NameText(Here.name)
           file == <<cwd, HostName(text)>>
       IN  /\ WriteLine(FileLine(text, Here.first = disk.dos))
           /\ host' = IF (CanCreate(HostName(text)) \/ file \in DOMAIN host)
                            /\ Append(cwd, HostName(text)) \notin folders
                      THEN [f \in DOMAIN host \cup {file} |->
                                IF f = file THEN Here.data ELSE host[f]]
                      ELSE host
    /\ frames' = Advanced
    /\ UNCHANGED <<disk, folders, cwd, dir_stack, dir, made, line, removed, phase>>

(* make_dir, change_dir and the call for the directory.                    *)
UnpackDir ==
    /\ Unpacking /\ Here.kind = "dir"
    /\ LET text == NameText(Here.name)
       IN  /\ WriteLine(<<"/", " ">> \o text)
           /\ folders' = IF CanCreate(text) THEN folders \cup {Append(cwd, text)} ELSE folders
           /\ cwd' = ChangeDir(folders', cwd, text)
    /\ frames' = Append(frames, [dir |-> Here.child, pos |-> 1])
    /\ UNCHANGED <<disk, host, dir_stack, dir, made, line, removed, phase>>

(* The call returns, and the caller's loop goes on.  Variant: without      *)
(* change_dir("..").                                                       *)
UpAfterDirNot == cwd
UpAfterDir == Up(cwd)

LeaveDir ==
    /\ phase = "unpack" /\ ~Unpacking /\ Nesting > 0
    /\ frames' = [Front(frames) EXCEPT ![Len(frames) - 1].pos = @ + 1]
    /\ cwd' = UpAfterDir
    /\ UNCHANGED <<disk, script, host, folders, dir_stack, dir, made, line, removed, phase>>

(* The end of unpack.  pack is started where unpack was.                   *)
EndUnpack ==
    /\ phase = "unpack" /\ ~Unpacking /\ Nesting = 0
    /\ phase' = "edit"
    /\ cwd' = START
    /\ UNCHANGED <<disk, frames, script, host, folders, dir_stack, dir, made, line, removed>>

(* The user may remove a file or a folder with what is in it.              *)
UserRemoves ==
    /\ phase = "edit" /\ Cardinality(removed) < MaxRemoved
    /\ \/ \E f \in DOMAIN host :
            /\ host' = [g \in DOMAIN host \ {f} |-> host[g]]
            /\ removed' = removed \cup {[folder |-> FALSE, of |-> f]}
            /\ UNCHANGED folders
       \/ \E d \in folders \ {<<HOST_ROOT>>, START} :
            /\ host' = [g \in {g \in DOMAIN host : ~IsPrefix(d, g[1])} |-> host[g]]
            /\ folders' = {e \in folders : ~IsPrefix(d, e)}
            /\ removed' = removed \cup {[folder |-> TRUE, of |-> d]}
    /\ UNCHANGED <<disk, frames, script, cwd, dir_stack, dir, made, line, phase>>

(* The first lines are those of PackScript: boot.bin gives the new disk    *)
(* the boot sector of the old one.                                         *)
StartPack ==
    /\ phase = "edit"
    /\ phase' = "pack"
    /\ made' = [made EXCEPT !.dos = disk.dos]
    /\ UNCHANGED <<disk, frames, script, host, folders, cwd, dir_stack, dir, line, removed>>

-----------------------------------------------------------------------------
(* pack.                                                                   *)

Text == script[line]
IsRead(text) == text # <<>> /\ text[1] # ";"

(* The words "|" and the first that is another.  Where there is none, the  *)
(* loop keeps the last "|" and never ends.                                 *)
Start(text) ==
    LET from[n \in Nat, w \in [word : Seq(STRING), rest : Seq(STRING)]] ==
            IF w.word # <<"|">> THEN [nesting |-> n, hangs |-> FALSE] @@ w
            ELSE IF \A p \in DOMAIN w.rest : w.rest[p] = " "
            THEN [nesting |-> n, hangs |-> TRUE] @@ w
            ELSE from[n + 1, NextWord(w.rest, w.word)]
    IN  from[0, NextWord(text, <<>>)]

(* What a line says: the format, the host's name and the name on the disk. *)
Parsed(start) ==
    LET keyword == IF Len(start.word) = 1 THEN start.word[1] ELSE ""
        format == CASE keyword = "/" -> "dir"
                    [] keyword = "---" -> "empty"
                    [] keyword = "DOS" -> "dos"
                    [] OTHER -> "bin"
        second == IF keyword \in {"/", "DOS", "BIN"} THEN NextWord(start.rest, start.word)
                  ELSE [word |-> start.word, rest |-> start.rest]
        given == Parse(second.rest)
    IN  [format |-> format, filename |-> second.word,
         name |-> IF given.ok \/ given.throws THEN given ELSE Parse(second.word)]

Packing == phase = "pack" /\ line <= Len(script)
Unchanged == UNCHANGED <<disk, frames, script, host, folders, removed>>

SkipLine ==
    /\ Packing /\ ~IsRead(Text)
    /\ line' = line + 1
    /\ UNCHANGED <<cwd, dir_stack, dir, made, phase>> /\ Unchanged

(* A line that is nested less deeply begins with pops of directories, each *)
(* with change_dir("..").  Variant: the current folder stays.              *)
PoppedCwdNot(pops) == cwd
PoppedCwd(pops) ==
    LET up[k \in Nat] == IF k = 0 THEN cwd ELSE Up(up[k - 1])
    IN  up[pops]
Popped(nesting) ==
    [stack |-> SubSeq(dir_stack, 1, nesting),
     dir |-> IF nesting < Len(dir_stack) THEN dir_stack[nesting + 1] ELSE dir,
     cwd |-> PoppedCwd(Len(dir_stack) - nesting)]

(* The line is taken: the directories stay as the pops left them.          *)
Take(at) ==
    /\ line' = line + 1
    /\ dir_stack' = at.stack /\ dir' = at.dir /\ cwd' = at.cwd
    /\ UNCHANGED phase /\ Unchanged

Stop(how) ==
    /\ phase' = how
    /\ UNCHANGED <<cwd, dir_stack, dir, made, line>> /\ Unchanged

HangsOnBars(start) == start.hangs /\ Stop("hang")

(* "invalid dir nesting": as all errors, it ends the program without       *)
(* saving.                                                                 *)
NestedTooDeeply(start) ==
    ~start.hangs /\ start.nesting > Len(dir_stack) /\ Stop("error")

PackCommand(start, at) ==
    /\ start.word \in {<<c>> : c \in Commands}
    /\ Take(at)
    /\ UNCHANGED made

AddEntry(dirs, d, entry) == [dirs EXCEPT ![d] = Append(@, entry)]

(* "filename too long".                                                    *)
NameThrows(request) == request.name.throws /\ Stop("error")

(* The folder is entered before the name is looked at; create_dir.         *)
PackDir(request, at) ==
    /\ request.format = "dir" /\ ~request.name.throws
    /\ LET child == Cardinality(DOMAIN made.dirs) + 1
       IN  /\ made' = [made EXCEPT !.dirs =
                            AddEntry(@, at.dir, Entry("dir", request.name.name, 0, 0, child))
                                @@ (child :> <<>>)]
           /\ dir' = child
    /\ dir_stack' = Append(at.stack, at.dir)
    /\ cwd' = ChangeDir(folders, at.cwd, request.filename)
    /\ line' = line + 1
    /\ UNCHANGED phase /\ Unchanged

PackEmpty(request, at) ==
    /\ request.format = "empty" /\ ~request.name.throws
    /\ made' = [made EXCEPT !.dirs =
                    AddEntry(@, at.dir, Entry("file", request.name.name, 0, 0, 0))]
    /\ Take(at)

(* import opens the file in the current folder: "file does not exist", or  *)
(* "no filename".                                                          *)
Imports(request) == request.format \in {"bin", "dos"} /\ ~request.name.throws
Source(request, at) == <<at.cwd, request.filename>>

NoSource(request, at) ==
    /\ Imports(request) /\ Source(request, at) \notin DOMAIN host
    /\ Stop("error")

(* Sectors are taken in order: a file's first one is known by the number   *)
(* of entries before it.                                                   *)
NextSector == FoldSet(LAMBDA d, n : n + Len(made.dirs[d]), 1, DOMAIN made.dirs)

(* The DOS command stores the first sector of the file in the boot sector. *)
(* Variant: it does not.                                                   *)
DosStoredNot(dos, first) == dos
DosStored(dos, first) == first

PackFile(request, at) ==
    /\ Imports(request) /\ Source(request, at) \in DOMAIN host
    /\ made' = [dirs |-> AddEntry(made.dirs, at.dir,
                            Entry("file", request.name.name, host[Source(request, at)],
                                  NextSector, 0)),
                dos |-> IF request.format = "dos" THEN DosStored(made.dos, NextSector)
                        ELSE made.dos]
    /\ Take(at)

PackRequest(request, at) ==
    \/ NameThrows(request) \/ PackDir(request, at) \/ PackEmpty(request, at)
    \/ NoSource(request, at) \/ PackFile(request, at)

PackLine ==
    /\ Packing /\ IsRead(Text)
    /\ \E start \in {Start(Text)} :
        \/ HangsOnBars(start) \/ NestedTooDeeply(start)
        \/ /\ ~start.hangs /\ start.nesting <= Len(dir_stack)
           /\ \E at \in {Popped(start.nesting)} :
                \/ PackCommand(start, at)
                \/ /\ start.word \notin {<<c>> : c \in Commands}
                   /\ \E request \in {Parsed(start)} : PackRequest(request, at)

EndPack ==
    /\ phase = "pack" /\ line > Len(script)
    /\ phase' = "packed"
    /\ UNCHANGED <<cwd, dir_stack, dir, made, line>> /\ Unchanged

Next ==
    \/ SkipDeleted \/ UnpackEmpty \/ UnpackFile \/ UnpackDir \/ LeaveDir \/ EndUnpack
    \/ UserRemoves \/ StartPack
    \/ SkipLine \/ PackLine \/ EndPack

(* Each program runs on until it ends; the user may do nothing in between. *)
Spec == Init /\ [][Next]_vars /\ WF_vars(Next)

-----------------------------------------------------------------------------
(* What is listed of a directory and the directories in it.                *)
Tree(d0) ==
    LET listed(d) == SelectSeq(Listing(d0, d), LAMBDA e : e.kind # "deleted")
        from[d \in Nat] ==
            [k \in DOMAIN listed(d) |->
                [kind |-> listed(d)[k].kind, name |-> listed(d)[k].name,
                 data |-> listed(d)[k].data,
                 sub |-> IF listed(d)[k].kind = "dir" THEN from[listed(d)[k].child] ELSE <<>>]]
    IN  from[RootDir]

TypeOK ==
    /\ disk \in Disks
    /\ \A k \in DOMAIN frames :
        /\ frames[k].dir \in DOMAIN disk.dirs
        /\ frames[k].pos \in 1 .. Len(Listing(disk.dirs, frames[k].dir)) + 1
    /\ \A f \in DOMAIN host : host[f] \in Nat \ {0}
    /\ cwd \in folders /\ {<<HOST_ROOT>>, START} \subseteq folders
    /\ Len(dir_stack) < Cardinality(DOMAIN made.dirs) /\ dir \in DOMAIN made.dirs
    /\ \A d \in DOMAIN made.dirs : \A k \in DOMAIN made.dirs[d] :
        made.dirs[d][k].name \in [1 .. NAME + EXT -> Byte]
    /\ line \in 1 .. Len(script) + 1
    /\ phase \in {"unpack", "edit", "pack", "packed", "error", "hang"}

(* Entries whose line says what is meant.                                  *)
Reserved == Commands \cup {"DOS", "BIN", "---", "/", "|"}
PlainEntry(e, d) ==
    LET text == NameText(e.name)
    IN  /\ Survives(e.name)
        /\ e.kind = "dir" => ToSet(text) \cap {" ", "/"} = {}
        /\ e.kind = "file" /\ e.data # 0 =>
            /\ text \notin {<<c>> : c \in Reserved \ {"BIN"}}
            /\ " " \notin ToSet(HostName(text)) /\ "/" \notin ToSet(text)
            /\ d = RootDir => text[1] # ";"

(* The names on the host of what a directory has.                          *)
HostEntries(d) ==
    {k \in DOMAIN disk.dirs[d] :
        LET e == disk.dirs[d][k] IN e.kind = "dir" \/ (e.kind = "file" /\ e.data # 0)}
HostNameOf(d, k) ==
    LET e == disk.dirs[d][k]
    IN  IF e.kind = "dir" THEN NameText(e.name) ELSE HostName(NameText(e.name))
DistinctNames(d) ==
    \A j, k \in HostEntries(d) : HostNameOf(d, j) = HostNameOf(d, k) => j = k

Places == UNION {{<<d, k>> : k \in HostEntries(d)} : d \in DOMAIN disk.dirs}
AllDistinctNames ==
    \A p, q \in Places : HostNameOf(p[1], p[2]) = HostNameOf(q[1], q[2]) => p = q

PlainDisk ==
    \A d \in DOMAIN disk.dirs :
        /\ DistinctNames(d)
        /\ \A k \in DOMAIN disk.dirs[d] :
            disk.dirs[d][k].kind # "deleted" => PlainEntry(disk.dirs[d][k], d)

FolderRemoved == \E r \in removed : r.folder

(***************************************************************************)
(* A disk whose names and lines say what is meant comes back with the same *)
(* directories, names and contents, in the same order.  When files were    *)
(* removed in between, pack does not end without an error; nor does it     *)
(* take a file from the wrong folder when a folder is missing, if no two   *)
(* files have the same name.  (pack does not look whether it could change  *)
(* to a folder, but looks for its way back.)                               *)
(***************************************************************************)
RoundTrip ==
    phase = "packed" /\ PlainDisk /\ (FolderRemoved => AllDistinctNames) =>
        Tree(made.dirs) = Tree(disk.dirs)

(***************************************************************************)
(* What unpack wrote of such a disk is a script that pack accepts: no      *)
(* error and no endless loop unless the user removed something.            *)
(***************************************************************************)
UnpackedPacks == PlainDisk /\ removed = {} => phase \notin {"error", "hang"}

(* The files that start in the sector the boot sector names.               *)
DosFiles(d0) ==
    UNION {{[name |-> d0.dirs[d][k].name, data |-> d0.dirs[d][k].data] :
                k \in {k \in DOMAIN d0.dirs[d] :
                        d0.dirs[d][k].kind = "file" /\ d0.dirs[d][k].data # 0
                            /\ d0.dirs[d][k].first = d0.dos}} :
           d \in DOMAIN d0.dirs}

(***************************************************************************)
(* The file the disk boots is the one the new disk boots, though it and    *)
(* all others have moved to other sectors.                                 *)
(***************************************************************************)
DosFileKept ==
    phase = "packed" /\ PlainDisk /\ removed = {} /\ DosFiles(disk) # {} =>
        DosFiles(made) = DosFiles(disk)

(* A line of bars only is that of a file with a blank name in a directory, *)
(* or of a file called "|".                                                *)
BarsOnly ==
    \E d \in DOMAIN disk.dirs : \E k \in DOMAIN disk.dirs[d] :
        /\ disk.dirs[d][k].kind = "file" /\ disk.dirs[d][k].data # 0
        /\ NameText(disk.dirs[d][k].name) \in {<<>>, <<"|">>}

(***************************************************************************)
(* Unpacking ends for any disk, and so does packing what it wrote, with a  *)
(* disk or an error, if no file has a blank name or is called "|": pack    *)
(* goes on reading words of a line that has only bars.                     *)
(***************************************************************************)
ProgramsEnd == <>(IF BarsOnly THEN phase # "unpack" ELSE phase \in {"packed", "error"})

FilesOnDisk ==
    {p \in Places : disk.dirs[p[1]][p[2]].kind = "file"}

(***************************************************************************)
(* "AtrCompiler can unpack contents of a ATR disk to a folder as separate  *)
(* files" (README.md): each file of the disk has one of its own.           *)
(***************************************************************************)
SeparateFiles ==
    phase = "edit" /\ removed = {} => Cardinality(DOMAIN host) = Cardinality(FilesOnDisk)

=============================================================================
