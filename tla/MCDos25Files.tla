---------------------------- MODULE MCDos25Files ----------------------------
(* Instances of Dos25Files for TLC.                                        *)
EXTENDS Dos25Files

MCDisks == { {8, 9, 10, 13, 14, 15}, {10, 13, 14} }

=============================================================================
