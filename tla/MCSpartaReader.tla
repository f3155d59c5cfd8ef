--------------------------- MODULE MCSpartaReader ---------------------------
(* Instances of SpartaReader for TLC.                                      *)
EXTENDS SpartaReader

File(length) == [is_dir |-> FALSE, length |-> length, deleted |-> {}]
Dir(entries, deleted) ==
    [is_dir |-> TRUE, length |-> (entries + 1) * ENTRY, deleted |-> deleted]

(* Files of up to seven sectors, so of up to three maps, and directories   *)
(* of up to four entries.                                                  *)
MCStreams ==
    {File(n) : n \in 1 .. 7 * SECTOR}
        \cup UNION {{Dir(n, deleted) : deleted \in SUBSET (1 .. n)} : n \in 0 .. 4}

=============================================================================
