------------------------------ MODULE MCRepack ------------------------------
(* Instances of Repack for TLC.  Names have two bytes and two of extension.*)
EXTENDS Repack

MCChars == {"A", "B", " ", "\\", ".", "ctl", "DOS", "BIN", "---", "DISK", "/", "|", ";"}

B(ch) == [ch |-> ch, inv |-> FALSE]
I(ch) == [ch |-> ch, inv |-> TRUE]

(* Disks with one entry that has any name of these bytes.                  *)
NameBytes == {B("A"), I("A"), B(" "), I(" "), B("\\"), B("."), B("ctl")}
AnyNames ==
    {n \in [1 .. 4 -> NameBytes] :
        n[3] \in {SPACE, B("A"), I("A"), B(".")} /\ n[4] \in {SPACE, I("A")}}
Single(kind, name) ==
    [dirs |-> IF kind = "dir"
              THEN [d \in 1 .. 2 |->
                        IF d = 1 THEN <<Entry("dir", name, 0, 0, 2)>>
                        ELSE <<Entry("file", <<B("A"), SPACE, SPACE, SPACE>>, 1, 7, 0)>>]
              ELSE [d \in {1} |->
                        <<Entry("file", name, IF kind = "file" THEN 1 ELSE 0, 7, 0)>>],
     dos |-> 7]
NamedDisks == {Single(kind, name) : kind \in {"file", "empty", "dir"}, name \in AnyNames}

(* Disks of a directory with a file and a directory in it, with names that *)
(* are plain, equal, escaped, like commands, or blank; some entries are    *)
(* deleted.                                                                *)
Name(a, b) == <<a, b, SPACE, SPACE>>
FileNames == {Name(B("A"), SPACE), Name(B("B"), SPACE), Name(I("A"), SPACE),
              Name(B("A"), B(" ")), Name(B("A"), I("B")), Name(SPACE, SPACE)}
                \cup {Name(B(c), SPACE) : c \in {"DOS", "BIN", "---", "DISK", "/", "|", ";"}}
DirNames == {Name(B("A"), SPACE), Name(B("B"), SPACE), Name(SPACE, B("A")), Name(B("/"), SPACE)}

F(name, data) == Entry("file", name, data, 10 + data, 0)
Deleted(name) == Entry("deleted", name, 3, 10, 0)
Dir(name, child) == Entry("dir", name, 0, 0, child)

Inner(a) ==
    {<<>>, <<F(a, 3)>>, <<Deleted(a), F(Name(B("A"), I("B")), 4)>>,
     <<F(Name(I("B"), SPACE), 4), F(Name(I("B"), B("A")), 5)>>}

Trees ==
    UNION {{[dirs |-> << <<F(a, 1), Dir(x, 2), F(b, 2)>>, inner>>, dos |-> dos] :
                b \in {Name(B("B"), B("B")), Name(I("B"), SPACE)}, x \in DirNames,
                inner \in Inner(a), dos \in {11, 13}} :
           a \in FileNames}

(* Two directories in each other, and after them another one.              *)
Nested ==
    {[dirs |-> << <<Dir(x, 2), Dir(Name(B("B"), SPACE), 4), F(Name(B("A"), B("A")), 1)>>,
                  <<Dir(y, 3), F(Name(B("A"), SPACE), 2)>>,
                  <<F(Name(B("A"), SPACE), 3)>>,
                  <<Deleted(x), F(Name(B("A"), SPACE), 4), F(Name(B("B"), SPACE), 0)>> >>,
      dos |-> 14] : x \in DirNames, y \in DirNames}

MCDisks == NamedDisks \cup Trees \cup Nested

(* Files whose names differ only in what is escaped.                       *)
EscapedNames == {Name(I("A"), SPACE), Name(B("A"), I("B")), Name(B("A"), B("ctl"))}
EscapedDisks ==
    {[dirs |-> << <<F(a, 1), F(b, 2)>> >>, dos |-> 0] : a \in EscapedNames, b \in EscapedNames}

=============================================================================
