---------------------------- MODULE MCPackScript ----------------------------
(* Instances of PackScript for TLC.                                        *)
EXTENDS PackScript

(* The files of BOOT: of different systems, too short, missing.            *)
Boot(id, n) == [p \in 1 .. n |-> IF p = X00 THEN id ELSE 30 + ((p + id) % 7)]
BootFiles ==
    {Boot(Magic.xdos, 3 * BOOT), Boot(0, BOOT + 2), <<>>}
        \cup {Boot(Magic.sparta, 3 * BOOT)}

MCLines ==
    {[command |-> "DISK", count |-> SMALL, size |-> size] : size \in {BOOT, 2 * BOOT}}
        \cup {[command |-> "FORMAT", dos |-> dos] : dos \in {"2", "2.0", "II+", "xdos", "mydos", "x"}}
        \cup {[command |-> "BOOT", file |-> "f", bytes |-> f] : f \in BootFiles}
        \cup {[command |-> "SET", property |-> p, value |-> 99] : p \in {"BUFFERS", "COLOR"}}
        \cup {[command |-> "FILE", dos |-> dos, first |-> 70] : dos \in BOOLEAN}

(* Disks as others make them: any system, version and size, the first      *)
(* sectors short or in full, and the bytes of each sector different.       *)
Filled(size, count, id, version) ==
    [size |-> size, count |-> count,
     data |-> [s \in 1 .. count |-> [p \in 1 .. SectorSize(size, s) |->
                CASE s = 1 /\ p = X00 -> id
                  [] s = VTOC_SECTOR /\ p = 1 -> version
                  [] OTHER -> 100 * s + p]]]

Disks ==
    {Filled(size, count, id, version) :
        size \in {BOOT, BOOT + 1, 2 * BOOT, 3 * BOOT, 4 * BOOT}, count \in SMALL .. SMALL + 3,
        id \in {0, 1} \cup {Magic[m] : m \in DOMAIN Magic}, version \in {2, 3}}
MCImages ==
    {made \in {[disk |-> disk, image |-> Image(disk)] : disk \in Disks} :
        LoadedCount(made.image) >= DIR_SECTOR}
        \cup {[disk |-> disk, image |-> InFull(disk)] :
                disk \in {disk \in Disks : disk.size \in {2 * BOOT, 4 * BOOT}}}

=============================================================================
