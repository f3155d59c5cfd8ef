---------------------------- MODULE MCSectorCache ----------------------------
(* Instances of SectorCache for TLC.                                       *)
EXTENDS SectorCache, TLC

(* Sectors that the model treats alike may be permuted.                    *)
Symmetry == Permutations(CacheWritten \ Boot)

=============================================================================
