------------------------------ MODULE Settings ------------------------------
(***************************************************************************)
(* What a manager is promised by the control API: a request changes        *)
(* algorithm, parameters, pool and run state in one step, or none of them. *)
(* The epoch counts the changes, so a manager that reads it knows whether  *)
(* its request has been carried out.                                       *)
(***************************************************************************)
EXTENDS Naturals

CONSTANTS Offered,     \* the requests a manager may send
          ParamAlgos,  \* algorithms that take a parameter
          Algos, StartAlgo, StartUrl, Unset, NULL

VARIABLES state, algo, url, stored, epoch, reply

settings == <<state, algo, url, stored>>
vars == <<settings, epoch, reply>>

Init ==
  /\ state = "RUNNING" /\ algo = StartAlgo /\ url = StartUrl
  /\ stored = [a \in Algos |-> Unset]
  /\ epoch = 0 /\ reply = "OK"

\* The algorithm a request is about.
Aim(r) == IF r.algo # NULL THEN r.algo ELSE algo
Takes(r) == r.param # NULL => Aim(r) \in ParamAlgos

Apply(r) ==
  /\ Takes(r)
  /\ state' = IF r.target # NULL THEN r.target ELSE state
  /\ algo' = Aim(r)
  /\ url' = IF r.url # NULL THEN r.url ELSE url
  /\ stored' = IF r.param # NULL THEN [stored EXCEPT ![Aim(r)] = r.param] ELSE stored
  /\ epoch' = epoch + 1 /\ reply' = "OK"

Abort(r) ==
  /\ Takes(r)
  /\ reply' = "FAILED"
  /\ UNCHANGED <<settings, epoch>>

\* Nothing to do, or nothing done.
Answer ==
  /\ reply' \in {"OK", "BAD_REQUEST", "THROTTLED"}
  /\ UNCHANGED <<settings, epoch>>

Next == Answer \/ \E r \in Offered : Apply(r) \/ Abort(r)

Spec == Init /\ [][Next]_vars
=============================================================================
