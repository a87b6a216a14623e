--------------------------- MODULE StratumProofs ---------------------------
(***************************************************************************)
(* Proofs about Stratum for any number of threads, pools, jobs and         *)
(* disturbances: type correctness, no lost restart, no work issued twice   *)
(* and no lost change of the pool.                                         *)
(***************************************************************************)
EXTENDS Stratum, TLAPS

-----------------------------------------------------------------------------
(* Type correctness.                                                       *)

LEMMA InitTypeOK == Init => TypeOK
<1> SUFFICES ASSUME Init PROVE TypeOK
  OBVIOUS
<1>1. /\ curl \in BOOLEAN /\ stratum_down \in BOOLEAN /\ stratum_need_reset \in BOOLEAN
      /\ new_job \in BOOLEAN /\ wrapped \in BOOLEAN /\ redirected \in BOOLEAN
  BY Zenon DEF Init
<1>2. opt_extranonce \in BOOLEAN
  BY StratumAssumption, Zenon DEF Init
<1>3. xnonce2 \in 0 .. Xn2Size - 1
  BY StratumAssumption DEF Init
<1>4. /\ pc \in [Threads -> MinerPC] /\ work \in [Threads -> Works \cup {NULL}]
      /\ exhausted \in [Threads -> BOOLEAN] /\ restart \in [Threads -> BOOLEAN]
      /\ \A t \in Threads : pc[t] = "first"
  BY DEF Init, MinerPC
<1>5. ~new_job /\ spc \notin {"authflag", "flag", "primegen", "newsgen"}
  BY DEF Init
<1> QED
  BY <1>1, <1>2, <1>3, <1>4, <1>5, StratumAssumption DEF Init, TypeOK, SPC

\* What stratum_gen_work leaves behind, whoever calls it.
LEMMA GenWorkTypeOK ==
  ASSUME TypeOK, stratum_gen_work, job # NULL
  PROVE  /\ g_work' \in Works /\ issued' \subseteq Works
         /\ new_job' = FALSE /\ xnonce2' \in 0 .. Xn2Size - 1
         /\ wrapped' \in BOOLEAN /\ restart' \in [Threads -> BOOLEAN]
         /\ job' = job /\ announced' = announced
<1>1. job \in Jobs /\ xnonce2 \in Nat
  BY StratumAssumption DEF TypeOK
<1>2. g_work' \in Works
  BY <1>1 DEF stratum_gen_work, Works
<1>3. xnonce2' \in 0 .. Xn2Size - 1
  BY <1>1, StratumAssumption DEF stratum_gen_work
<1>4. issued' \subseteq Works
  BY <1>2 DEF stratum_gen_work, TypeOK
<1>5. wrapped' \in BOOLEAN
  BY Zenon DEF stratum_gen_work
<1> QED
  BY <1>2, <1>3, <1>4, <1>5 DEF stratum_gen_work, restart_threads

LEMMA TryAgainType ==
  ASSUME TypeOK, TryAgain
  PROVE  curl' \in BOOLEAN /\ failures' \in Nat /\ spc' \in {"out", "connect"}
<1>1. curl' \in BOOLEAN
  BY Zenon DEF TryAgain
<1>2. failures' \in Nat /\ spc' \in {"out", "connect"}
  BY DEF TryAgain, TypeOK
<1> QED
  BY <1>1, <1>2

LEMMA ConnectTypeOK ==
  ASSUME TypeOK,
         Top \/ ResetDown \/ Disconnect \/ TryConnect \/ DialFails \/ AuthorizeOk
           \/ AuthorizeFails
  PROVE  TypeOK'
<1>1. CASE Top
  <2>1. stratum_need_reset' \in BOOLEAN
    BY <1>1, Zenon DEF Top
  <2>2. failures' \in Nat /\ spc' \in {"reset", "wait", "connect"}
    BY <1>1 DEF Top
  <2>3. UNCHANGED <<connVars, stratum_down, jobVars, new_job, workVars, minerVars, restart,
                    apiVars, countVars>>
    BY <1>1 DEF Top
  <2> QED
    BY <2>1, <2>2, <2>3
    DEF TypeOK, SPC, connVars, jobVars, workVars, minerVars, apiVars, countVars
<1>2. CASE ResetDown
  BY <1>2 DEF ResetDown, TypeOK, SPC, connVars, jobVars, workVars, minerVars, apiVars,
              countVars
<1>3. CASE Disconnect
  BY <1>3 DEF Disconnect, restart_threads, TypeOK, SPC, flagVars, jobVars, workVars,
              minerVars, apiVars, countVars
<1>4. CASE TryConnect
  BY <1>4 DEF TryConnect, restart_threads, TypeOK, SPC, connVars, jobVars, workVars,
              minerVars, apiVars, countVars
<1>5. CASE DialFails
  <2>1. curl' \in BOOLEAN /\ failures' \in Nat /\ spc' \in {"out", "connect"}
    BY <1>5, TryAgainType DEF DialFails
  <2>2. UNCHANGED <<url, session_id, xnonce1, opt_extranonce, redirected, flagVars, jobVars,
                    new_job, workVars, minerVars, restart, apiVars, countVars>>
    BY <1>5 DEF DialFails
  <2> QED
    BY <2>1, <2>2
    DEF TypeOK, SPC, flagVars, jobVars, workVars, minerVars, apiVars, countVars
<1>6. CASE AuthorizeOk
  <2>1. opt_extranonce' \in BOOLEAN
    BY <1>6, Zenon DEF AuthorizeOk, TypeOK
  <2>2. spc' = "prime" /\
        UNCHANGED <<url, curl, session_id, xnonce1, redirected, flagVars, jobVars, new_job,
                    workVars, minerVars, restart, apiVars, countVars, failures>>
    BY <1>6 DEF AuthorizeOk
  <2> QED
    BY <2>1, <2>2
    DEF TypeOK, SPC, flagVars, jobVars, workVars, minerVars, apiVars, countVars
<1>7. CASE AuthorizeFails
  <2>1. curl' \in BOOLEAN /\ failures' \in Nat /\ spc' \in {"out", "connect"}
    BY <1>7, TryAgainType DEF AuthorizeFails
  <2>2. faults' \in Nat /\
        UNCHANGED <<url, session_id, xnonce1, opt_extranonce, redirected, flagVars, jobVars,
                    new_job, workVars, minerVars, restart, apiVars, sessions>>
    BY <1>7 DEF AuthorizeFails, TypeOK
  <2> QED
    BY <2>1, <2>2 DEF TypeOK, SPC, flagVars, jobVars, workVars, minerVars, apiVars
<1> QED
  BY <1>1, <1>2, <1>3, <1>4, <1>5, <1>6, <1>7

LEMMA SubscribeTypeOK ==
  ASSUME TypeOK, stratum_subscribe PROVE TypeOK'
<1>1. sessions' \in Nat /\ xnonce1' \in Nat
  BY DEF stratum_subscribe, TypeOK, Sessions
<1>2. session_id' \in Sessions \cup {NULL}
  BY <1>1 DEF stratum_subscribe, TypeOK, Sessions
<1> QED
  BY <1>1, <1>2 DEF stratum_subscribe, TypeOK, SPC, flagVars, jobVars, workVars,
                    minerVars, apiVars

LEMMA MessageTypeOK ==
  ASSUME TypeOK,
         \/ \E id \in JobIds : stratum_notify(id)
         \/ SetNewJob \/ OtherMessage \/ SetExtranonce
         \/ \E u \in Redirects : stratum_reconnect(u)
         \/ Lost \/ Keepalive
  PROVE  TypeOK'
<1>1. ASSUME NEW id \in JobIds, stratum_notify(id) PROVE TypeOK'
  <2>1. job' \in Jobs /\ job' # NULL
    BY <1>1, NullAssumption DEF stratum_notify, Announce, Jobs, TypeOK
  <2>2. announced' \subseteq Jobs
    BY <1>1, <2>1 DEF stratum_notify, TypeOK
  <2>3. xnonce2' \in 0 .. Xn2Size - 1
    BY <1>1, StratumAssumption DEF stratum_notify, TypeOK
  <2>4. wrapped' \in BOOLEAN
    BY <1>1 DEF stratum_notify, TypeOK
  <2> QED
    BY <1>1, <2>1, <2>2, <2>3, <2>4
    DEF stratum_notify, Receiving, TypeOK, SPC, connVars, flagVars, workVars, minerVars,
        apiVars, countVars
<1>2. CASE SetNewJob
  BY <1>2 DEF SetNewJob, TypeOK, SPC, connVars, flagVars, jobVars, workVars, minerVars,
              apiVars, countVars
<1>3. CASE OtherMessage
  BY <1>3 DEF OtherMessage, TypeOK, SPC, connVars, flagVars, jobVars, workVars, minerVars,
              apiVars, countVars
<1>4. CASE SetExtranonce
  <2>1. sessions' \in Nat /\ xnonce1' \in Nat /\ faults' \in Nat
    BY <1>4 DEF SetExtranonce, TypeOK
  <2>2. session_id' \in Sessions \cup {NULL}
    BY <1>4, <2>1 DEF SetExtranonce, TypeOK, Sessions
  <2> QED
    BY <1>4, <2>1, <2>2 DEF SetExtranonce, AfterMessage, Receiving, TypeOK, SPC, flagVars,
                            jobVars, workVars, minerVars, apiVars
<1>5. ASSUME NEW u \in Redirects, stratum_reconnect(u) PROVE TypeOK'
  <2>1. url' \in Urls /\ faults' \in Nat
    BY <1>5, StratumAssumption DEF stratum_reconnect, TypeOK
  <2>2. redirected' \in BOOLEAN
    BY <1>5, Zenon DEF stratum_reconnect
  <2>3. CASE spc = "wait"
    <3>1. curl' \in BOOLEAN
      BY <1>5, <2>3, Zenon DEF stratum_reconnect
    <3> QED
      BY <1>5, <2>1, <2>2, <2>3, <3>1
      DEF stratum_reconnect, TypeOK, SPC, flagVars, jobVars, workVars, minerVars, apiVars
  <2>4. CASE spc # "wait"
    <3>1. curl' \in BOOLEAN /\ failures' \in Nat /\ spc' \in {"out", "connect"}
      BY <1>5, <2>4, TryAgainType DEF stratum_reconnect
    <3> QED
      BY <1>5, <2>1, <2>2, <3>1
      DEF stratum_reconnect, TypeOK, SPC, flagVars, jobVars, workVars, minerVars, apiVars
  <2> QED
    BY <2>3, <2>4
<1>6. CASE Lost
  BY <1>6 DEF Lost, TypeOK, SPC, connVars, jobVars, workVars, minerVars, apiVars
<1>7. CASE Keepalive
  BY <1>7 DEF Keepalive, TypeOK, SPC, connVars, jobVars, workVars, minerVars, apiVars
<1> QED
  BY <1>1, <1>2, <1>3, <1>4, <1>5, <1>6, <1>7

LEMMA InstallTypeOK ==
  ASSUME TypeOK, CheckJob \/ InstallJob \/ ReleaseMiners PROVE TypeOK'
<1>1. CASE CheckJob
  BY <1>1 DEF CheckJob, TypeOK, SPC, connVars, flagVars, jobVars, workVars, minerVars,
              apiVars, countVars
<1>2. CASE InstallJob
  <2>1. job # NULL
    BY <1>2 DEF InstallJob, TypeOK
  <2> QED
    BY <1>2, <2>1, GenWorkTypeOK DEF InstallJob, TypeOK, SPC, connVars, flagVars,
       minerVars, apiVars, countVars
<1>3. CASE ReleaseMiners
  <2>1. stratum_down' \in BOOLEAN
    BY <1>3, Zenon DEF ReleaseMiners
  <2> QED
    BY <1>3, <2>1 DEF ReleaseMiners, TypeOK, SPC, connVars, jobVars, workVars, minerVars,
                      apiVars, countVars
<1> QED
  BY <1>1, <1>2, <1>3

LEMMA SessionTypeOK ==
  ASSUME TypeOK, Session PROVE TypeOK'
  BY ConnectTypeOK, SubscribeTypeOK, MessageTypeOK, InstallTypeOK DEF Session

LEMMA MinerTypeOK ==
  ASSUME TypeOK, NEW t \in Threads, Miner(t) PROVE TypeOK'
<1>1. CASE FirstJob(t)
  BY <1>1 DEF FirstJob, Goto, TypeOK, MinerPC, connVars, flagVars, jobVars, workVars,
              apiVars, countVars
<1>2. CASE PoolUp(t)
  BY <1>2 DEF PoolUp, Goto, TypeOK, MinerPC, connVars, flagVars, jobVars, workVars,
              apiVars, countVars
<1>3. CASE CheckRange(t)
  BY <1>3 DEF CheckRange, Goto, TypeOK, MinerPC, connVars, flagVars, jobVars, workVars,
              apiVars, countVars
<1>4. CASE RollExtranonce(t)
  <2>1. job # NULL
    BY <1>4 DEF RollExtranonce, Goto, TypeOK
  <2> QED
    BY <1>4, <2>1, GenWorkTypeOK DEF RollExtranonce, Goto, TypeOK, MinerPC, connVars,
       flagVars, apiVars, countVars
<1>5. CASE AwaitRestart(t)
  BY <1>5 DEF AwaitRestart, Goto, TypeOK, MinerPC, connVars, flagVars, jobVars, workVars,
              apiVars, countVars
<1>6. CASE TakeWork(t)
  BY <1>6 DEF TakeWork, Goto, TypeOK, MinerPC, connVars, flagVars, jobVars, workVars,
              apiVars, countVars
<1>7. CASE DontMine(t)
  BY <1>7 DEF DontMine, restart_threads, Goto, TypeOK, MinerPC, connVars, flagVars,
              jobVars, workVars, apiVars, countVars
<1>8. CASE Mine(t)
  BY <1>8 DEF Mine, Goto, TypeOK, MinerPC, connVars, flagVars, jobVars, workVars,
              apiVars, countVars
<1>9. CASE EndScan(t)
  <2>1. [exhausted EXCEPT ![t] = TRUE] \in [Threads -> BOOLEAN]
    BY DEF TypeOK
  <2>2. exhausted' \in [Threads -> BOOLEAN]
    BY <1>9, <2>1, Zenon DEF EndScan, TypeOK
  <2>3. pc' \in [Threads -> MinerPC]
    BY <1>9 DEF EndScan, Goto, TypeOK, MinerPC
  <2>4. job = NULL => \A s \in Threads : pc'[s] = "first"
    BY <1>9 DEF EndScan, Goto, TypeOK
  <2>5. UNCHANGED <<connVars, flagVars, jobVars, new_job, workVars, work, restart, apiVars,
                    countVars, spc, failures>>
    BY <1>9 DEF EndScan
  <2> QED
    BY <2>2, <2>3, <2>4, <2>5 DEF TypeOK, connVars, flagVars, jobVars, workVars, apiVars,
                                  countVars
<1> QED
  BY <1>1, <1>2, <1>3, <1>4, <1>5, <1>6, <1>7, <1>8, <1>9 DEF Miner

LEMMA ApiTypeOK ==
  ASSUME TypeOK, (\E u \in Urls : ChangePool(u)) \/ StopMiner \/ ApiStep PROVE TypeOK'
<1>1. ASSUME NEW u \in Urls, ChangePool(u) PROVE TypeOK'
  BY <1>1 DEF ChangePool, TypeOK, connVars, flagVars, jobVars, workVars, minerVars
<1>2. CASE MarkDown
  BY <1>2 DEF MarkDown, TypeOK, connVars, jobVars, workVars, minerVars, countVars
<1>3. CASE RequestReset
  BY <1>3 DEF RequestReset, TypeOK, connVars, jobVars, workVars, minerVars, countVars
<1>4. CASE StopMiner
  BY <1>4 DEF StopMiner, TypeOK, connVars, flagVars, jobVars, workVars, minerVars
<1> QED
  BY <1>1, <1>2, <1>3, <1>4 DEF ApiStep

LEMMA StutterTypeOK ==
  ASSUME TypeOK, UNCHANGED vars PROVE TypeOK'
  BY DEF TypeOK, vars, connVars, flagVars, jobVars, workVars, minerVars, apiVars, countVars

\* stratum_thread, miner_thread and the API leave every variable of the session
\* well typed, and stratum_gen_work is never entered without a job.
THEOREM TypeCorrect == Spec => []TypeOK
<1>1. Init => TypeOK
  BY InitTypeOK
<1>2. TypeOK /\ [Next]_vars => TypeOK'
  BY SessionTypeOK, MinerTypeOK, ApiTypeOK, StutterTypeOK DEF Next, Terminated
<1> QED
  BY <1>1, <1>2, PTL DEF Spec

-----------------------------------------------------------------------------
(* What a step may do to the work and to the flags of the mining threads.  *)

\* g_work is replaced by stratum_gen_work alone, which raises every flag.
LEMMA WorkChanges ==
  ASSUME [Next]_vars
  PROVE  \/ stratum_gen_work
         \/ UNCHANGED <<g_work, issued>>
<1> USE DEF workVars
<1>1. ASSUME Session PROVE stratum_gen_work \/ UNCHANGED <<g_work, issued>>
  BY <1>1 DEF Session, Top, ResetDown, Disconnect, TryConnect, DialFails,
     stratum_subscribe, AuthorizeOk, AuthorizeFails, stratum_notify, SetNewJob,
     OtherMessage, SetExtranonce, stratum_reconnect, Lost, Keepalive, CheckJob,
     InstallJob, ReleaseMiners
<1>2. ASSUME NEW t \in Threads, Miner(t)
      PROVE  stratum_gen_work \/ UNCHANGED <<g_work, issued>>
  BY <1>2 DEF Miner, FirstJob, PoolUp, CheckRange, RollExtranonce, AwaitRestart,
     TakeWork, DontMine, Mine, EndScan
<1>3. ASSUME (\E u \in Urls : ChangePool(u)) \/ StopMiner \/ ApiStep
      PROVE  UNCHANGED <<g_work, issued>>
  BY <1>3 DEF ChangePool, StopMiner, ApiStep, MarkDown, RequestReset
<1>4. ASSUME Terminated \/ UNCHANGED vars PROVE UNCHANGED <<g_work, issued>>
  BY <1>4 DEF Terminated, vars
<1> QED
  BY <1>1, <1>2, <1>3, <1>4 DEF Next

\* The steps of the stratum thread and of the API move no mining thread, and
\* raise restart flags if they touch them at all.
LEMMA SessionKeepsMiners ==
  ASSUME Session \/ (\E u \in Urls : ChangePool(u)) \/ StopMiner \/ ApiStep \/ Terminated
           \/ UNCHANGED vars
  PROVE  UNCHANGED <<pc, work>> /\ (restart' = restart \/ restart_threads)
<1> USE DEF minerVars
<1>1. ASSUME Session PROVE UNCHANGED <<pc, work>> /\ (restart' = restart \/ restart_threads)
  BY <1>1 DEF Session, Top, ResetDown, Disconnect, TryConnect, DialFails,
     stratum_subscribe, AuthorizeOk, AuthorizeFails, stratum_notify, SetNewJob,
     OtherMessage, SetExtranonce, stratum_reconnect, Lost, Keepalive, CheckJob,
     InstallJob, ReleaseMiners, stratum_gen_work
<1>2. ASSUME ~Session PROVE UNCHANGED <<pc, work>> /\ (restart' = restart \/ restart_threads)
  BY <1>2 DEF ChangePool, StopMiner, ApiStep, MarkDown, RequestReset, Terminated, vars
<1> QED
  BY <1>1, <1>2

\* A mining thread that scans old work has been told, for any number of threads:
\* copying g_work and clearing the flag are one critical section, replacing
\* g_work and raising the flags another.
THEOREM NoRestartLost == Spec => []StaleScanTold
<1>1. Init => StaleScanTold
  BY DEF Init, StaleScanTold
<1>2. TypeOK /\ StaleScanTold /\ [Next]_vars => StaleScanTold'
  <2> SUFFICES ASSUME TypeOK, StaleScanTold, [Next]_vars,
                      NEW s \in Threads, pc'[s] \in {"gate", "hash"}, work'[s] # g_work'
               PROVE  restart'[s]
    BY DEF StaleScanTold
  <2>1. CASE stratum_gen_work
    BY <2>1 DEF stratum_gen_work, restart_threads
  <2>2. CASE g_work' = g_work /\ ~ \E t \in Threads : Miner(t)
    <3>1. UNCHANGED <<pc, work>> /\ (restart' = restart \/ restart_threads)
      BY <2>2, SessionKeepsMiners DEF Next
    <3> QED
      BY <2>2, <3>1 DEF StaleScanTold, restart_threads
  <2>3. ASSUME g_work' = g_work, NEW t \in Threads, Miner(t) PROVE restart'[s]
    <3>1. CASE TakeWork(t)
      BY <2>3, <3>1 DEF TakeWork, Goto, TypeOK, StaleScanTold
    <3>2. CASE Mine(t)
      BY <2>3, <3>2 DEF Mine, Goto, TypeOK, StaleScanTold
    <3>3. CASE DontMine(t) \/ RollExtranonce(t)
      BY <3>3 DEF DontMine, RollExtranonce, stratum_gen_work, restart_threads
    <3>4. CASE FirstJob(t) \/ PoolUp(t) \/ CheckRange(t) \/ AwaitRestart(t) \/ EndScan(t)
      BY <2>3, <3>4 DEF FirstJob, PoolUp, CheckRange, AwaitRestart, EndScan, Goto, TypeOK,
                        StaleScanTold
    <3> QED
      BY <2>3, <3>1, <3>2, <3>3, <3>4 DEF Miner
  <2> QED
    BY <2>1, <2>2, <2>3, WorkChanges
<1> QED
  BY <1>1, <1>2, TypeCorrect, PTL DEF Spec

-----------------------------------------------------------------------------
(* No work is issued twice.                                                *)

\* The job and its extranonce2 are touched by a notification and by
\* stratum_gen_work alone.
LEMMA JobChanges ==
  ASSUME [Next]_vars
  PROVE  \/ stratum_gen_work
         \/ issued' = issued /\ \E id \in JobIds : stratum_notify(id)
         \/ UNCHANGED <<job, xnonce2, announced, wrapped, issued>>
<1> USE DEF jobVars, workVars
<1>1. CASE \E id \in JobIds : stratum_notify(id)
  BY <1>1 DEF stratum_notify
<1>2. ASSUME Session, ~ \E id \in JobIds : stratum_notify(id)
      PROVE  stratum_gen_work \/ UNCHANGED <<job, xnonce2, announced, wrapped, issued>>
  BY <1>2 DEF Session, Top, ResetDown, Disconnect, TryConnect, DialFails,
     stratum_subscribe, AuthorizeOk, AuthorizeFails, SetNewJob, OtherMessage,
     SetExtranonce, stratum_reconnect, Lost, Keepalive, CheckJob, InstallJob,
     ReleaseMiners
<1>3. ASSUME NEW t \in Threads, Miner(t)
      PROVE  stratum_gen_work \/ UNCHANGED <<job, xnonce2, announced, wrapped, issued>>
  BY <1>3 DEF Miner, FirstJob, PoolUp, CheckRange, RollExtranonce, AwaitRestart,
     TakeWork, DontMine, Mine, EndScan
<1>4. ASSUME (\E u \in Urls : ChangePool(u)) \/ StopMiner \/ ApiStep \/ Terminated
               \/ UNCHANGED vars
      PROVE  UNCHANGED <<job, xnonce2, announced, wrapped, issued>>
  BY <1>4 DEF ChangePool, StopMiner, ApiStep, MarkDown, RequestReset, Terminated, vars
<1> QED
  BY <1>1, <1>2, <1>3, <1>4 DEF Next

\* stratum_gen_work is entered with a job.
LEMMA GenWorkHasJob ==
  ASSUME TypeOK, [Next]_vars, g_work' # g_work \/ issued' # issued PROVE job # NULL
<1>1. ASSUME Session PROVE job # NULL
  BY <1>1 DEF Session, Top, ResetDown, Disconnect, TryConnect, DialFails,
     stratum_subscribe, AuthorizeOk, AuthorizeFails, stratum_notify, SetNewJob,
     OtherMessage, SetExtranonce, stratum_reconnect, Lost, Keepalive, CheckJob,
     InstallJob, ReleaseMiners, workVars, TypeOK
<1>2. ASSUME NEW t \in Threads, Miner(t) PROVE job # NULL
  BY <1>2 DEF Miner, FirstJob, PoolUp, CheckRange, RollExtranonce, AwaitRestart,
     TakeWork, DontMine, Mine, EndScan, Goto, workVars, TypeOK
<1>3. ASSUME (\E u \in Urls : ChangePool(u)) \/ StopMiner \/ ApiStep \/ Terminated
               \/ UNCHANGED vars
      PROVE  UNCHANGED <<g_work, issued>>
  BY <1>3 DEF ChangePool, StopMiner, ApiStep, MarkDown, RequestReset, Terminated, vars,
     workVars
<1> QED
  BY <1>1, <1>2, <1>3 DEF Next

IssueInv == IssuedBelow /\ IssuedAnnounced

LEMMA GenWorkIssues ==
  ASSUME TypeOK, IssueInv, stratum_gen_work, job # NULL PROVE IssueInv'
<1>1. job' = job /\ announced' = announced /\ issued' = issued \cup {<<job, xnonce2>>}
  BY DEF stratum_gen_work
<1>2. xnonce2 \in Nat /\ xnonce2 < Xn2Size
  BY StratumAssumption DEF TypeOK
<1>3. IssuedAnnounced'
  BY <1>1 DEF IssueInv, IssuedAnnounced
<1>4. ASSUME ~wrapped' PROVE ~wrapped /\ xnonce2' = xnonce2 + 1
  <2>1. ~wrapped /\ xnonce2 + 1 # Xn2Size
    BY <1>4, Zenon DEF stratum_gen_work
  <2>2. xnonce2' = (xnonce2 + 1) % Xn2Size
    BY DEF stratum_gen_work
  <2> QED
    BY <1>2, <2>1, <2>2, StratumAssumption
<1>5. ASSUME ~wrapped', NEW w \in issued', w[1] = job PROVE w[2] < xnonce2'
  <2>1. CASE w = <<job, xnonce2>>
    BY <1>2, <1>4, <1>5, <2>1
  <2>2. CASE w \in issued
    <3>1. w[2] < xnonce2
      BY <1>4, <1>5, <2>2 DEF IssueInv, IssuedBelow
    <3>2. w[2] \in Nat
      BY <2>2 DEF TypeOK, Works
    <3> QED
      BY <1>2, <1>4, <1>5, <3>1, <3>2
  <2> QED
    BY <1>1, <1>5, <2>1, <2>2
<1> QED
  BY <1>1, <1>3, <1>5 DEF IssueInv, IssuedBelow

LEMMA NotifyIssues ==
  ASSUME TypeOK, IssueInv, issued' = issued, NEW id \in JobIds, stratum_notify(id)
  PROVE  IssueInv'
<1>1. job' = Announce(id) /\ announced' = announced \cup {job'}
  BY DEF stratum_notify
<1>2. IssuedAnnounced'
  BY <1>1 DEF IssueInv, IssuedAnnounced
<1>3. CASE Announce(id) = job
  <2>1. job.id = id /\ job # NULL
    BY <1>3, NullAssumption DEF Announce, Jobs, TypeOK
  <2>2. UNCHANGED <<xnonce2, wrapped>>
    BY <2>1 DEF stratum_notify
  <2> QED
    BY <1>1, <1>2, <1>3, <2>1, <2>2 DEF IssueInv, IssuedBelow
<1>4. CASE Announce(id) \notin announced
  <2>1. \A w \in issued' : w[1] # job'
    BY <1>1, <1>4 DEF IssueInv, IssuedAnnounced
  <2> QED
    BY <1>2, <2>1 DEF IssueInv, IssuedBelow
<1> QED
  BY <1>3, <1>4 DEF stratum_notify

\* stratum_gen_work never installs the same work twice: whichever threads call
\* it, for whichever reason, the work it is about to install is new, until
\* extranonce2 wraps.
THEOREM NoWorkTwice == Spec => []NextWorkIsNew
<1>1. Init => IssueInv
  BY DEF Init, IssueInv, IssuedBelow, IssuedAnnounced
<1>2. TypeOK /\ IssueInv /\ [Next]_vars => IssueInv'
  <2> SUFFICES ASSUME TypeOK, IssueInv, [Next]_vars PROVE IssueInv'
    OBVIOUS
  <2>1. CASE stratum_gen_work /\ job # NULL
    BY <2>1, GenWorkIssues
  <2>2. CASE stratum_gen_work /\ job = NULL
    <3>1. issued' = issued /\ job' = NULL /\ announced' = announced
      BY <2>2, GenWorkHasJob DEF stratum_gen_work
    <3> QED
      BY <3>1 DEF IssueInv, IssuedBelow, IssuedAnnounced
  <2>3. CASE issued' = issued /\ \E id \in JobIds : stratum_notify(id)
    BY <2>3, NotifyIssues
  <2>4. CASE UNCHANGED <<job, xnonce2, announced, wrapped, issued>>
    BY <2>4 DEF IssueInv, IssuedBelow, IssuedAnnounced
  <2> QED
    BY <2>1, <2>2, <2>3, <2>4, JobChanges
<1>3. TypeOK /\ IssueInv => NextWorkIsNew
  BY DEF TypeOK, IssueInv, IssuedBelow, NextWorkIsNew
<1> QED
  BY <1>1, <1>2, <1>3, TypeCorrect, PTL DEF Spec

-----------------------------------------------------------------------------
(* A change of the pool is not lost.                                       *)

LEMMA PoolChangeStep ==
  ASSUME TypeOK, PoolChangeNotLost, Session PROVE PoolChangeNotLost'
<1> USE DEF PoolChangeNotLost, apiVars, connVars, flagVars
<1>1. CASE Top
  BY <1>1 DEF Top
<1>2. CASE ResetDown
  BY <1>2 DEF ResetDown
<1>3. CASE Disconnect
  BY <1>3 DEF Disconnect
<1>4. CASE \E u \in Redirects : stratum_reconnect(u)
  BY <1>4 DEF stratum_reconnect
<1>5. CASE Lost \/ Keepalive
  BY <1>5 DEF Lost, Keepalive
<1>6. CASE TryConnect \/ DialFails \/ stratum_subscribe \/ AuthorizeOk \/ AuthorizeFails
  BY <1>6 DEF TryConnect, DialFails, stratum_subscribe, AuthorizeOk, AuthorizeFails,
     TryAgain
<1>7. CASE \/ \E id \in JobIds : stratum_notify(id)
           \/ SetNewJob \/ OtherMessage \/ SetExtranonce
  BY <1>7 DEF stratum_notify, SetNewJob, OtherMessage, SetExtranonce, Receiving
<1>8. CASE CheckJob \/ InstallJob \/ ReleaseMiners
  BY <1>8 DEF CheckJob, InstallJob, ReleaseMiners
<1> QED
  BY <1>1, <1>2, <1>3, <1>4, <1>5, <1>6, <1>7, <1>8 DEF Session

\* Whatever else raises or clears stratum_need_reset at the same time, a new
\* rpc_url is not overlooked: the API stores the url before it raises the flag,
\* and the stratum thread clears the flag before it reads the url.
THEOREM NoPoolChangeLost == Spec => []PoolChangeNotLost
<1>1. Init => PoolChangeNotLost
  BY DEF Init, PoolChangeNotLost
<1>2. TypeOK /\ PoolChangeNotLost /\ [Next]_vars => PoolChangeNotLost'
  <2> SUFFICES ASSUME TypeOK, PoolChangeNotLost, [Next]_vars PROVE PoolChangeNotLost'
    OBVIOUS
  <2> USE DEF PoolChangeNotLost
  <2>1. CASE Session
    BY <2>1, PoolChangeStep
  <2>2. ASSUME NEW t \in Threads, Miner(t) PROVE PoolChangeNotLost'
    BY <2>2 DEF Miner, FirstJob, PoolUp, CheckRange, RollExtranonce, AwaitRestart,
       TakeWork, DontMine, Mine, EndScan, connVars, flagVars, apiVars
  <2>3. CASE (\E u \in Urls : ChangePool(u)) \/ StopMiner \/ ApiStep
    BY <2>3 DEF ChangePool, StopMiner, ApiStep, MarkDown, RequestReset
  <2>4. CASE Terminated \/ UNCHANGED vars
    BY <2>4 DEF Terminated, vars, connVars, flagVars, apiVars
  <2> QED
    BY <2>1, <2>2, <2>3, <2>4 DEF Next
<1> QED
  BY <1>1, <1>2, TypeCorrect, PTL DEF Spec

-----------------------------------------------------------------------------
(* The work feed.                                                          *)

LEMMA GenWorkInstalls ==
  ASSUME TypeOK, stratum_gen_work, job # NULL PROVE g_work' \in Works /\ g_work' # NULL
<1>1. job \in Jobs /\ xnonce2 \in Nat
  BY StratumAssumption DEF TypeOK
<1>2. g_work' \in Works
  BY <1>1 DEF stratum_gen_work, Works
<1> QED
  BY <1>2, NullAssumption

LEMMA StepHasWork == TypeOK /\ HasWork /\ [Next]_vars => HasWork'
<1> SUFFICES ASSUME TypeOK, HasWork, [Next]_vars PROVE HasWork'
  OBVIOUS
<1>1. CASE InstallJob
  <2>1. job # NULL
    BY <1>1 DEF InstallJob, TypeOK
  <2>2. g_work' # NULL
    BY <1>1, <2>1, GenWorkInstalls DEF InstallJob
  <2> QED
    BY <1>1, <2>2 DEF InstallJob, HasWork, minerVars
<1>2. CASE ReleaseMiners
  BY <1>2 DEF ReleaseMiners, HasWork, workVars, minerVars
<1>3. CASE Session /\ ~InstallJob /\ ~ReleaseMiners
  <2>1. UNCHANGED <<g_work, pc, work>>
    BY <1>3 DEF Session, Top, ResetDown, Disconnect, TryConnect, DialFails,
       stratum_subscribe, AuthorizeOk, AuthorizeFails, stratum_notify, SetNewJob,
       OtherMessage, SetExtranonce, stratum_reconnect, Lost, Keepalive, CheckJob,
       workVars, minerVars
  <2>2. stratum_down => stratum_down'
    BY <1>3 DEF Session, Top, ResetDown, Disconnect, TryConnect, DialFails,
       stratum_subscribe, AuthorizeOk, AuthorizeFails, stratum_notify, SetNewJob,
       OtherMessage, SetExtranonce, stratum_reconnect, Lost, Keepalive, CheckJob, flagVars
  <2>3. spc' \notin {"primeup", "newsup"}
    <3>1. CASE DialFails \/ AuthorizeFails \/ \E u \in Redirects : stratum_reconnect(u)
      BY <3>1 DEF DialFails, AuthorizeFails, stratum_reconnect, TryAgain
    <3>2. CASE Top \/ ResetDown \/ Disconnect \/ TryConnect \/ stratum_subscribe \/ AuthorizeOk
      BY <3>2 DEF Top, ResetDown, Disconnect, TryConnect, stratum_subscribe, AuthorizeOk
    <3>3. CASE (\E id \in JobIds : stratum_notify(id)) \/ SetNewJob \/ OtherMessage
      BY <3>3 DEF stratum_notify, SetNewJob, OtherMessage
    <3>4. CASE SetExtranonce \/ Lost \/ Keepalive \/ CheckJob
      BY <3>4 DEF SetExtranonce, Lost, Keepalive, CheckJob, Receiving, AfterMessage
    <3> QED
      BY <1>3, <3>1, <3>2, <3>3, <3>4 DEF Session
  <2> QED
    BY <2>1, <2>2, <2>3 DEF HasWork
<1>4. CASE (\E u \in Urls : ChangePool(u)) \/ StopMiner \/ ApiStep \/ Terminated \/ UNCHANGED vars
  <2>1. UNCHANGED <<g_work, pc, work, spc>> /\ (stratum_down => stratum_down')
    BY <1>4 DEF ChangePool, StopMiner, ApiStep, MarkDown, RequestReset, Terminated, vars,
       workVars, minerVars, flagVars
  <2> QED
    BY <2>1 DEF HasWork
<1>5. ASSUME NEW t \in Threads, Miner(t) PROVE HasWork'
  <2>1. CASE RollExtranonce(t)
    <3>1. job # NULL
      BY <2>1 DEF RollExtranonce, Goto, TypeOK
    <3>2. g_work' # NULL
      BY <2>1, <3>1, GenWorkInstalls DEF RollExtranonce
    <3> QED
      BY <2>1, <3>2 DEF RollExtranonce, Goto, HasWork, TypeOK
  <2>2. CASE TakeWork(t)
    <3>1. g_work # NULL
      BY <2>2 DEF TakeWork, Goto, HasWork
    <3> QED
      BY <2>2, <3>1 DEF TakeWork, Goto, HasWork, TypeOK, workVars
  <2>3. CASE FirstJob(t)
    BY <2>3 DEF FirstJob, Goto, HasWork, TypeOK, workVars, flagVars
  <2>4. CASE PoolUp(t)
    BY <2>4 DEF PoolUp, Goto, HasWork, TypeOK, workVars, flagVars
  <2>5. CASE CheckRange(t)
    BY <2>5 DEF CheckRange, Goto, HasWork, TypeOK, workVars, flagVars
  <2>6. CASE AwaitRestart(t)
    BY <2>6 DEF AwaitRestart, Goto, HasWork, TypeOK, workVars, flagVars
  <2>7. CASE DontMine(t)
    BY <2>7 DEF DontMine, Goto, HasWork, TypeOK, workVars, flagVars
  <2>8. CASE Mine(t)
    BY <2>8 DEF Mine, Goto, HasWork, TypeOK, workVars, flagVars
  <2>9. CASE EndScan(t)
    BY <2>9 DEF EndScan, Goto, HasWork, TypeOK, workVars, flagVars
  <2> QED
    BY <1>5, <2>1, <2>2, <2>3, <2>4, <2>5, <2>6, <2>7, <2>8, <2>9 DEF Miner
<1> QED
  BY <1>1, <1>2, <1>3, <1>4, <1>5 DEF Next

\* What a thread is scanning, as WorkFeed sees it.
Scanned == [t \in Threads |-> IF pc[t] \in {"gate", "hash"} THEN work[t] ELSE NULL]

LEMMA FlagsOnlyRise ==
  ASSUME TypeOK, restart' = restart \/ restart_threads PROVE Feed!FlagsUp
  BY DEF Feed!FlagsUp, restart_threads, TypeOK

LEMMA FeedInstall ==
  ASSUME TypeOK, stratum_gen_work, job # NULL, Scanned' = Scanned PROVE Feed!Install
<1>1. Feed!FlagsUp
  BY FlagsOnlyRise DEF stratum_gen_work
<1>2. g_work' \in Works /\ restart' = [t \in Threads |-> TRUE]
  BY GenWorkInstalls DEF stratum_gen_work, restart_threads
<1> QED
  BY <1>1, <1>2 DEF Feed!Install, Scanned

LEMMA FeedStop ==
  ASSUME TypeOK, HasWork, NEW t \in Threads, NEW p \in {"gate", "hash"}, Goto(t, p, "top"),
         UNCHANGED <<g_work, work>>, restart' = restart \/ restart_threads
  PROVE  Feed!Stop(t)
<1>1. Feed!FlagsUp
  BY FlagsOnlyRise
<1>2. Scanned[t] # NULL
  BY DEF Scanned, Goto, TypeOK, HasWork
<1>3. Scanned' = [Scanned EXCEPT ![t] = NULL]
  BY DEF Scanned, Goto, TypeOK
<1> QED
  BY <1>1, <1>2, <1>3 DEF Feed!Stop, Scanned

LEMMA StepFeed == TypeOK /\ HasWork /\ [Next]_vars => [Feed!Next]_(Feed!vars)
<1> SUFFICES ASSUME TypeOK, HasWork, [Next]_vars PROVE Feed!Next \/ UNCHANGED Feed!vars
  OBVIOUS
<1>1. CASE InstallJob
  <2>1. job # NULL
    BY <1>1 DEF InstallJob, TypeOK
  <2>2. Scanned' = Scanned
    BY <1>1 DEF InstallJob, minerVars, Scanned
  <2> QED
    BY <1>1, <2>1, <2>2, FeedInstall DEF InstallJob, Feed!Next
<1>2. CASE \/ Session /\ ~InstallJob
           \/ (\E u \in Urls : ChangePool(u)) \/ StopMiner \/ ApiStep \/ Terminated \/ UNCHANGED vars
  <2>1. UNCHANGED <<pc, work>> /\ (restart' = restart \/ restart_threads)
    BY <1>2, SessionKeepsMiners
  <2>2. UNCHANGED g_work
    <3>1. CASE Session /\ ~InstallJob
      BY <3>1 DEF Session, Top, ResetDown, Disconnect, TryConnect, DialFails,
         stratum_subscribe, AuthorizeOk, AuthorizeFails, stratum_notify, SetNewJob,
         OtherMessage, SetExtranonce, stratum_reconnect, Lost, Keepalive, CheckJob,
         ReleaseMiners, workVars
    <3>2. CASE ~(Session /\ ~InstallJob)
      BY <1>2, <3>2 DEF ChangePool, StopMiner, ApiStep, MarkDown, RequestReset, Terminated, vars,
         workVars
    <3> QED
      BY <3>1, <3>2
  <2>3. Feed!Tell
    BY <2>1, <2>2, FlagsOnlyRise DEF Feed!Tell
  <2> QED
    BY <2>3 DEF Feed!Next
<1>3. ASSUME NEW t \in Threads, RollExtranonce(t) PROVE Feed!Next
  <2>1. job # NULL
    BY <1>3 DEF RollExtranonce, Goto, TypeOK
  <2>2. Scanned' = Scanned
    BY <1>3 DEF RollExtranonce, Goto, TypeOK, Scanned
  <2> QED
    BY <1>3, <2>1, <2>2, FeedInstall DEF RollExtranonce, Feed!Next
<1>4. ASSUME NEW t \in Threads, TakeWork(t) PROVE Feed!Next
  <2>1. Scanned' = [Scanned EXCEPT ![t] = g_work]
    BY <1>4 DEF TakeWork, Goto, workVars, TypeOK, Scanned
  <2>2. restart' = [restart EXCEPT ![t] = FALSE] /\ g_work' = g_work
    BY <1>4 DEF TakeWork, workVars
  <2>3. Feed!Take(t)
    BY <2>1, <2>2 DEF Feed!Take, Scanned
  <2> QED
    BY <2>3 DEF Feed!Next
<1>5. ASSUME NEW t \in Threads, DontMine(t) \/ EndScan(t) PROVE Feed!Next
  <2>1. Feed!Stop(t)
    BY <1>5, FeedStop DEF DontMine, EndScan, workVars
  <2> QED
    BY <2>1 DEF Feed!Next
<1>6. ASSUME NEW t \in Threads,
             FirstJob(t) \/ PoolUp(t) \/ CheckRange(t) \/ AwaitRestart(t) \/ Mine(t)
      PROVE  UNCHANGED Feed!vars
  <2>1. Scanned' = Scanned
    BY <1>6 DEF FirstJob, PoolUp, CheckRange, AwaitRestart, Mine, Goto, TypeOK, Scanned
  <2> QED
    BY <1>6, <2>1 DEF FirstJob, PoolUp, CheckRange, AwaitRestart, Mine, workVars, Scanned, Feed!vars
<1> QED
  BY <1>1, <1>2, <1>3, <1>4, <1>5, <1>6 DEF Next, Miner

\* The stratum session implements the work feed for any number of threads, pools, jobs
\* and disturbances: replaced work leaves no thread untold, and a flag is cleared only
\* with the copy of the current work.
THEOREM ImplementsFeed == Spec => FeedSpec
<1>1. Init => HasWork /\ Feed!Init
  BY DEF Init, HasWork, Feed!Init
<1> QED
  BY <1>1, StepHasWork, StepFeed, TypeCorrect, PTL DEF Spec, FeedSpec, Feed!Spec
=============================================================================
