----------------------------- MODULE AtariNames -----------------------------
(***************************************************************************)
(* Names of files on an Atari disk and as text in the script.              *)
(*                                                                         *)
(* On the disk a name is NAME + EXT bytes, filled up with spaces.  A byte  *)
(* is a character and its inverse bit.  "ctl" stands for the characters    *)
(* that are printed in hex, and a command of the script ("DOS", "---") is  *)
(* one character: a name of this character alone is that of a file called  *)
(* like the command.  In a text, the hex digits are the character itself.  *)
(***************************************************************************)
EXTENDS Integers, Sequences, SequencesExt

CONSTANTS
    NAME,       \* bytes before the extension, 8
    EXT,        \* bytes of the extension, 3
    Chars       \* the characters of names

ASSUME NamesAssumption ==
    /\ NAME \in Nat \ {0} /\ EXT \in Nat \ {0}
    /\ {" ", "\\", ".", "ctl"} \subseteq Chars
    /\ Chars \cup {"i", "x"} \subseteq STRING     \* a text is a sequence of strings

Byte == [ch : Chars, inv : BOOLEAN]
SPACE == [ch |-> " ", inv |-> FALSE]
Blank == [k \in 1 .. NAME + EXT |-> SPACE]

(***************************************************************************)
(* dos2_dir::name.  `kept' is the text up to the last byte that is not a   *)
(* space, the length of which is non_space; what follows it is cut, after  *)
(* the name and at the end.  No dot is put after a byte that is inverse.   *)
(***************************************************************************)
Shown(ch) ==
    CASE ch = "ctl" -> <<"\\", "x", ch>>
      [] ch \in {" ", "\\"} -> <<"\\", ch>>
      [] OTHER -> <<ch>>

Printed == [text : Seq(STRING), inverse : BOOLEAN, kept : Seq(STRING)]
NoText == [text |-> <<>>, inverse |-> FALSE, kept |-> <<>>]
Dotted(k, before) ==
    IF k = NAME + 1 /\ ~before.inverse THEN Append(before.kept, ".") ELSE before.text
AfterByte(k, byte) ==
    [before \in Printed |->
        LET turn == IF byte.inv # before.inverse THEN <<"\\", "i">> ELSE <<>>
            text == Dotted(k, before) \o turn \o Shown(byte.ch)
        IN  [text |-> text, inverse |-> byte.inv,
             kept |-> IF byte # SPACE THEN text ELSE before.kept]]

NameText(name) ==
    LET printed[k \in 0 .. NAME + EXT] ==
            IF k = 0 THEN NoText ELSE AfterByte(k, name[k])[printed[k - 1]]
    IN  printed[NAME + EXT].kept

(***************************************************************************)
(* filesystem::format_atari_name, on the rest of a line.  The byte after   *)
(* the last one is written over the terminator; only one more is refused.  *)
(* The name is not ok when there was none.                                 *)
(***************************************************************************)
Reading ==
    [i : Nat, inverse : BOOLEAN, name : [1 .. NAME + EXT -> [ch : STRING, inv : BOOLEAN]],
     state : {"plain", "escape", "hex", "end", "throws"}]
Begin == [i |-> 0, inverse |-> FALSE, name |-> Blank, state |-> "plain"]

Put(s, ch) ==
    IF s.i > NAME + EXT THEN [s EXCEPT !.state = "throws"]
    ELSE [s EXCEPT !.i = @ + 1, !.state = "plain",
                   !.name = IF s.i = NAME + EXT THEN @
                            ELSE [@ EXCEPT ![s.i + 1] = [ch |-> ch, inv |-> s.inverse]]]

AfterPlain(s, c) ==
    CASE c = " " -> [s EXCEPT !.state = IF s.i = 0 THEN "plain" ELSE "end"]
      [] c = "\\" -> [s EXCEPT !.state = "escape"]
      [] c = "." /\ s.i <= NAME -> [s EXCEPT !.i = NAME]
      [] OTHER -> Put(s, c)
AfterEscape(s, c) ==
    CASE c = "i" -> [s EXCEPT !.inverse = ~@, !.state = "plain"]
      [] c = "x" -> [s EXCEPT !.state = "hex"]
      [] OTHER -> Put(s, c)
AfterChar(c) ==
    [s \in Reading |->
        CASE s.state = "plain" -> AfterPlain(s, c)
          [] s.state = "escape" -> AfterEscape(s, c)
          [] s.state = "hex" -> Put(s, c)
          [] OTHER -> s]

(* A backslash at the end stands for itself; "\x" is no number.            *)
AtEnd ==
    [s \in Reading |->
        CASE s.state = "escape" -> Put(s, "\\")
          [] s.state = "hex" -> [s EXCEPT !.state = "throws"]
          [] OTHER -> s]
Given ==
    [s \in Reading |->
        [ok |-> s.state # "throws" /\ s.i > 0, throws |-> s.state = "throws", name |-> s.name]]

Parse(text) ==
    LET read[p \in 0 .. Len(text)] ==
            IF p = 0 THEN Begin ELSE AfterChar(text[p])[read[p - 1]]
    IN  Given[AtEnd[read[Len(text)]]]

(* Names whose text means the same name again: not blank, no dot where the *)
(* parser takes it for the one before the extension, and, if there is an   *)
(* extension, no short name whose last byte is inverse.                    *)
Inked(name) == {k \in DOMAIN name : name[k] # SPACE}
InkedName(name) == Inked(name) \cap (1 .. NAME)
Survives(name) ==
    /\ Inked(name) # {}
    /\ \A k \in 1 .. NAME + 1 : name[k].ch # "."
    /\ InkedName(name) # {} /\ Inked(name) # InkedName(name)
         => LET last == CHOOSE k \in InkedName(name) : \A j \in InkedName(name) : j <= k
            IN  last = NAME \/ ~name[last].inv

(* s >> filename: the next word, and what follows it.  When there is none, *)
(* the string keeps what it had.                                           *)
NextWord(text, before) ==
    LET ink == {p \in DOMAIN text : text[p] # " "}
        start == CHOOSE p \in ink : \A q \in ink : p <= q
        gaps == {p \in start .. Len(text) : text[p] = " "}
        end == IF gaps = {} THEN Len(text) + 1 ELSE CHOOSE p \in gaps : \A q \in gaps : p <= q
    IN  IF ink = {} THEN [word |-> before, rest |-> <<>>]
        ELSE [word |-> SubSeq(text, start, end - 1), rest |-> SubSeq(text, end, Len(text))]

(***************************************************************************)
(* unpack_dir: the host file for a file whose name was printed as text.    *)
(* name_idx is always 1.                                                   *)
(***************************************************************************)
HostName(text) ==
    LET dots == {p \in DOMAIN text : text[p] = "."}
        dot == CHOOSE p \in dots : \A q \in dots : p <= q
    IN  IF "\\" \notin ToSet(text) THEN text
        ELSE <<"F1.bin">> \o IF dots = {} THEN <<>> ELSE SubSeq(text, dot, Len(text))

=============================================================================
