----------------------------- MODULE MCControl -----------------------------
(* Small instances of Control: one or two requests of every shape.         *)
EXTENDS Control, TLC
CONSTANTS t1, t2, sha, scrypt, n1, dflt, pool1, pool2

MCThreads == {t1, t2}
OneThread == {t1}
MCAlgos == {sha, scrypt}
MCParams == {dflt, n1}
MCParamAlgos == {scrypt}
MCUrls == {pool1, pool2}

P(algo, param, url, target) ==
  [kind |-> "profile", target |-> target, algo |-> algo, param |-> param, url |-> url]

\* A full switch, a switch with parameters that pauses the miner, a retune, a
\* pool change.
MCProfiles == {P(scrypt, NULL, pool2, NULL), P(scrypt, n1, pool2, "PAUSED"),
               P(NULL, n1, NULL, NULL), P(NULL, NULL, pool2, "RUNNING")}
SwitchOnly == {P(scrypt, NULL, pool2, NULL)}
SwitchOrRetune == {P(scrypt, NULL, pool2, NULL), P(scrypt, n1, pool2, "PAUSED")}

Symmetry == Permutations(MCThreads)
=============================================================================
