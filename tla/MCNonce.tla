------------------------------ MODULE MCNonce ------------------------------
(* A small instance of Nonce: a word of 22 values, two threads, the scan   *)
(* loops with batches of one, two and four nonces.                         *)
EXTENDS Nonce

MCKernels == {[lanes |-> 1, inclusive |-> FALSE], [lanes |-> 2, inclusive |-> TRUE],
              [lanes |-> 4, inclusive |-> FALSE]}
=============================================================================
