----------------------------- MODULE MCStratum -----------------------------
(* Small instances of Stratum: one or two threads and two pools.           *)
EXTENDS Stratum, TLC
CONSTANTS t1, t2, pool1, pool2, a

MCThreads == {t1, t2}
OneThread == {t1}
MCUrls == {pool1, pool2}
OneJobId == {a}
NoRedirect == {}
Forever == -1
ToPool2 == {pool2}
Symmetry == Permutations(MCThreads)
=============================================================================
