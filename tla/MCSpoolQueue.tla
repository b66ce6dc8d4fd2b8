----------------------------- MODULE MCSpoolQueue -----------------------------
(* A small instance of SpoolQueue for TLC: two records, two-record batches,   *)
(* compaction past one or two lines.                                         *)
EXTENDS SpoolQueue, TLC

CONSTANTS r1, r2

MCRecord == {r1, r2}
Symmetry == Permutations(MCRecord)
=============================================================================
