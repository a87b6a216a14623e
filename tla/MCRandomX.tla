----------------------------- MODULE MCRandomX -----------------------------
(* A small instance of RandomX: two threads, two seeds.                    *)
EXTENDS RandomX
CONSTANTS s1, s2

MCSeeds == {s1, s2}
MCSeedOf == <<s1, s2>>
=============================================================================
