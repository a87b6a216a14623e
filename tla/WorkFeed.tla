------------------------------ MODULE WorkFeed ------------------------------
(***************************************************************************)
(* What the mining threads are promised about their work, whoever makes    *)
(* it: a stratum session, the workio thread or the RandomX session.        *)
(*                                                                         *)
(* g_work is replaced from time to time.  A thread scans a copy of it, and *)
(* polls its flag of work_restart meanwhile.  Replacing g_work leaves no   *)
(* thread to scan something else untold, and the flag of a thread is       *)
(* cleared only as it copies the g_work of that moment.                    *)
(***************************************************************************)
CONSTANTS Threads, Works, NULL

VARIABLES g_work,
          scanned,   \* for every thread its copy, NULL when it is not scanning
          told       \* work_restart

vars == <<g_work, scanned, told>>

Init ==
  /\ g_work = NULL
  /\ scanned = [t \in Threads |-> NULL]
  /\ told \in [Threads -> BOOLEAN]

\* Flags go up, for any threads and for any reason.
FlagsUp ==
  /\ told' \in [Threads -> BOOLEAN]
  /\ \A t \in Threads : told[t] => told'[t]

\* g_work is replaced, and whoever scans something else knows by then.
Install ==
  /\ g_work' \in Works
  /\ FlagsUp
  /\ \A t \in Threads : scanned[t] \in {NULL, g_work'} \/ told'[t]
  /\ UNCHANGED scanned

Tell == FlagsUp /\ UNCHANGED <<g_work, scanned>>

Take(t) ==
  /\ scanned' = [scanned EXCEPT ![t] = g_work]
  /\ told' = [told EXCEPT ![t] = FALSE]
  /\ UNCHANGED g_work

\* A scan ends, for what it was told or by itself.
Stop(t) ==
  /\ scanned[t] # NULL
  /\ scanned' = [scanned EXCEPT ![t] = NULL]
  /\ FlagsUp
  /\ UNCHANGED g_work

Next == Install \/ Tell \/ \E t \in Threads : Take(t) \/ Stop(t)

Spec == Init /\ [][Next]_vars

\* A thread whose work has been replaced has been told.
StaleTold == \A t \in Threads : scanned[t] \in {NULL, g_work} \/ told[t]
=============================================================================
