--------------------------- MODULE MCShareStats ---------------------------
(* Small instances of ShareStats.                                          *)
EXTENDS ShareStats, TLC
CONSTANTS t1, t2

MCThreads == {t1, t2}
Symmetry == Permutations(MCThreads)
=============================================================================
