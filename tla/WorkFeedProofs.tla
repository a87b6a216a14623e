--------------------------- MODULE WorkFeedProofs ---------------------------
(***************************************************************************)
(* What the work feed promises follows from its steps, for any threads and *)
(* any works; it holds of whatever implements the feed.                    *)
(***************************************************************************)
EXTENDS WorkFeed, TLAPS

Typed == scanned \in [Threads -> Works \cup {NULL}] /\ told \in [Threads -> BOOLEAN]
           /\ g_work \in Works \cup {NULL}

LEMMA StepTyped == Typed /\ [Next]_vars => Typed'
<1> SUFFICES ASSUME Typed, [Next]_vars PROVE Typed'
  OBVIOUS
<1> USE DEF Typed
<1>1. CASE Install \/ Tell
  BY <1>1 DEF Install, Tell, FlagsUp
<1>2. ASSUME NEW t \in Threads, Take(t) PROVE Typed'
  BY <1>2 DEF Take
<1>3. ASSUME NEW t \in Threads, Stop(t) PROVE Typed'
  BY <1>3 DEF Stop, FlagsUp
<1>4. CASE UNCHANGED vars
  BY <1>4 DEF vars
<1> QED
  BY <1>1, <1>2, <1>3, <1>4 DEF Next

LEMMA StepTold == Typed /\ StaleTold /\ [Next]_vars => StaleTold'
<1> SUFFICES ASSUME Typed, StaleTold, [Next]_vars PROVE StaleTold'
  OBVIOUS
<1> USE DEF Typed, StaleTold
<1>1. CASE Install
  BY <1>1 DEF Install
<1>2. CASE Tell
  BY <1>2 DEF Tell, FlagsUp
<1>3. ASSUME NEW t \in Threads, Take(t) PROVE StaleTold'
  BY <1>3 DEF Take
<1>4. ASSUME NEW t \in Threads, Stop(t) PROVE StaleTold'
  BY <1>4 DEF Stop, FlagsUp
<1>5. CASE UNCHANGED vars
  BY <1>5 DEF vars
<1> QED
  BY <1>1, <1>2, <1>3, <1>4, <1>5 DEF Next

\* A thread that scans work which g_work no longer holds has its flag of work_restart
\* set, whatever the order in which work is replaced, taken and given up.
THEOREM NobodyUntold == Spec => []StaleTold
<1>1. Init => Typed /\ StaleTold
  BY DEF Init, Typed, StaleTold
<1> QED
  BY <1>1, StepTyped, StepTold, PTL DEF Spec
=============================================================================
