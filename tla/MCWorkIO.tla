------------------------------ MODULE MCWorkIO ------------------------------
(* A small instance of WorkIO: two threads, two works of every height.     *)
EXTENDS WorkIO
CONSTANTS t1, t2

MCThreads == {t1, t2}
=============================================================================
