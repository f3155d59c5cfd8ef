------------------------------ MODULE MCRkDos ------------------------------
(* Instances of RkDos for TLC.                                             *)
EXTENDS RkDos

(* Entries of a disk made elsewhere: the name is its first cell and others *)
(* up to the length; files follow each other after the directory.          *)
Named(n, flags, size, date, length) ==
    [name |-> 49 + n, flags |-> flags, bytes |-> Bytes(n, size), date |-> date,
     length |-> length]

Sectors(bytes) == (bytes + SECTOR - 1) \div SECTOR
EntryCells(e, first) ==
    [c \in 1 .. dir_name + e.length |->
        CASE c = dir_entry_size + 1 -> dir_name + e.length - 1
          [] c = dir_flags + 1 -> e.flags
          [] c = dir_cluster_start + 1 -> IF e.bytes = <<>> THEN 0 ELSE first
          [] c = dir_cluster_size + 1 -> Sectors(Len(e.bytes))
          [] c = dir_file_size + 1 -> Len(e.bytes)
          [] c = dir_date + 1 -> e.date
          [] OTHER -> e.name]

ImageOf(entries, count) ==
    LET at[k \in 1 .. Len(entries) + 1] ==
            IF k = 1 THEN 0 ELSE at[k - 1] + dir_name + entries[k - 1].length
        length == at[Len(entries) + 1]
        first[k \in 1 .. Len(entries) + 1] ==
            IF k = 1 THEN 4 + Sectors(length)
            ELSE first[k - 1] + Sectors(Len(entries[k - 1].bytes))
        dir == FoldLeft(LAMBDA cells, k : cells \o EntryCells(entries[k], first[k]), <<>>,
                        [k \in DOMAIN entries |-> k])
        free_start == first[Len(entries) + 1]
        PartOf(cells, s) ==
            [c \in 0 .. SECTOR - 1 |->
                IF s * SECTOR + c + 1 \in DOMAIN cells THEN cells[s * SECTOR + c + 1] ELSE 0]
        root == [RootSector(count) EXCEPT
                    ![root_first_free] = free_start,
                    ![root_free_size] = count + 1 - free_start,
                    ![root_entry + dir_cluster_start] = IF dir = <<>> THEN 0 ELSE 4,
                    ![root_entry + dir_cluster_size] = Sectors(length),
                    ![root_entry + dir_file_size] = length]
    IN  [disk |-> [s \in 1 .. count |->
            IF s = root_sec THEN root
            ELSE IF s < 4 \/ s >= free_start THEN ClearSector
            ELSE IF s < first[1] THEN PartOf(dir, s - 4)
            ELSE LET k == CHOOSE k \in DOMAIN entries :
                            first[k] <= s /\ s < first[k + 1]
                 IN  PartOf(entries[k].bytes, s - first[k])],
         files |-> [k \in DOMAIN entries |->
                    [name |-> entries[k].name, flags |-> entries[k].flags,
                     bytes |-> entries[k].bytes]],
        at |-> at]

(* No entry up to three, of lengths from a name of one cell to one of      *)
(* four; a deleted one, a directory, and dates that are taken for sizes,   *)
(* with names taken for flags that are those of a directory, or not.       *)
MCForeign ==
    {ImageOf(<<>>, 8)}
        \cup {ImageOf(<<Named(1, flags, size, date, length)>>, 10) :
                flags \in {0, DELETED, DIR}, size \in {0, 1, 2 * SECTOR + 1},
                date \in {0, 1, 3}, length \in {1, 4}}
        \cup {ImageOf(<<Named(1, 0, a, date, l), Named(2, 0, b, 0, m), Named(3, flags, 2, 0, 2)>>, 14) :
                a \in {0, SECTOR}, b \in {0, SECTOR + 1}, flags \in {0, DELETED, DIR},
                date \in {0, 1, 4}, l \in {1, 2}, m \in {1, 3}}
        \cup {ImageOf(<<Named(1, 0, 0, 0, l), Named(2, DELETED, 0, 0, m), Named(3, 0, 0, 0, n)>>, 10) :
                l \in 1 .. 4, m \in 1 .. 4, n \in 1 .. 4}

=============================================================================
