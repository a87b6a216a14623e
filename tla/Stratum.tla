------------------------------ MODULE Stratum ------------------------------
(***************************************************************************)
(* The stratum session and the work it feeds to the mining threads.        *)
(*                                                                         *)
(* The stratum thread connects, subscribes and authorises, handles one     *)
(* message at a time, and turns a job into work (stratum_gen_work) under   *)
(* the write lock of g_work.  A mining thread copies that work under the   *)
(* read lock, and makes new work itself, from the next extranonce2, when   *)
(* its nonce range is used up.  Four plain flags connect the threads:      *)
(* stratum_down holds the mining threads back, stratum_need_reset asks for *)
(* a new connection, new_job says that a job waits for stratum_gen_work,   *)
(* and work_restart tells a scan that its work is stale.  The API thread   *)
(* changes the pool by writing rpc_url and the first two of them.          *)
(*                                                                         *)
(* Algorithms other than RandomX and Veil's SHA256Dv, whose jobs have no   *)
(* extranonce2.  A pool's messages are well formed.  Shares and their      *)
(* answers are modelled in ShareStats, parking in Control.                 *)
(***************************************************************************)
EXTENDS Integers

CONSTANTS Threads,      \* mining threads
          NULL,         \* no job, no work, no session id
          Urls,         \* pools
          StartUrl,     \* the pool given on the command line
          JobIds,       \* the job ids the pools use; two pools may use the same
          Redirects,    \* pools client.reconnect may name; {} without opt_redirect
          Extranonce,   \* opt_extranonce as given on the command line
          opt_retries,  \* failed attempts to put up with; -1 for any number
          Xn2Size,      \* number of values of extranonce2; 2^16 or more in the code
          MaxFaults     \* bound: disturbances, by the pool, the network or the API

ASSUME StratumAssumption ==
  /\ StartUrl \in Urls /\ Redirects \subseteq Urls /\ Extranonce \in BOOLEAN
  /\ opt_retries \in Int /\ Xn2Size \in Nat \ {0} /\ MaxFaults \in Nat

\* A job is known by its pool, the extranonce1 it is built with and its id.
Jobs == [pool : Urls, xnonce1 : Nat, id : JobIds]
Works == Jobs \X Nat
Sessions == [pool : Urls, xnonce1 : Nat]

ASSUME NullAssumption == NULL \notin Jobs /\ NULL \notin Works /\ NULL \notin Sessions

VARIABLES
  rpc_url,              \* the pool that is wanted
  stratum_down, stratum_need_reset,
  url, curl,            \* the pool connected to; there is a connection
  session_id, xnonce1,  \* what the pool said when we subscribed
  opt_extranonce,
  job, new_job, xnonce2,  \* sctx->job, its flag and the next extranonce2
  g_work,
  spc, failures,        \* stratum thread
  pc, work, exhausted, restart,  \* mining threads
  apc,                  \* API thread
  faults, sessions,     \* what the bound counts; extranonce1s handed out
  announced,            \* history: jobs the pools have sent
  issued,               \* history: work installed in g_work
  wrapped,              \* history: extranonce2 has wrapped in this job
  redirected            \* history: url is where client.reconnect sent us

connVars  == <<url, curl, session_id, xnonce1, opt_extranonce, redirected>>
flagVars  == <<stratum_down, stratum_need_reset>>
jobVars   == <<job, xnonce2, announced, wrapped>>
workVars  == <<g_work, issued>>
minerVars == <<pc, work, exhausted>>
apiVars   == <<rpc_url, apc>>
countVars == <<faults, sessions>>
vars == <<connVars, flagVars, jobVars, new_job, workVars, minerVars, restart, apiVars,
          countVars, spc, failures>>

Init ==
  /\ rpc_url = StartUrl /\ url = StartUrl /\ curl = FALSE
  /\ stratum_down = TRUE /\ stratum_need_reset = FALSE
  /\ session_id = NULL /\ xnonce1 = 0 /\ opt_extranonce = Extranonce
  /\ job = NULL /\ new_job = FALSE /\ xnonce2 = 0 /\ g_work = NULL
  /\ spc = "top" /\ failures = 0
  /\ pc = [t \in Threads |-> "first"] /\ work = [t \in Threads |-> NULL]
  /\ exhausted = [t \in Threads |-> FALSE] /\ restart = [t \in Threads |-> FALSE]
  /\ apc = "idle"
  /\ faults = 0 /\ sessions = 0
  /\ announced = {} /\ issued = {} /\ wrapped = FALSE /\ redirected = FALSE

restart_threads == restart' = [t \in Threads |-> TRUE]

\* Mutant: the running scans are not told.
GenWorkQuietly ==
  /\ g_work' = <<job, xnonce2>> /\ issued' = issued \cup {g_work'}
  /\ new_job' = FALSE
  /\ xnonce2' = (xnonce2 + 1) % Xn2Size
  /\ wrapped' = (wrapped \/ xnonce2 + 1 = Xn2Size)
  /\ UNCHANGED <<restart, job, announced>>

\* Mutant: extranonce2 is not kept to its bytes.
GenWorkNoWrap ==
  /\ g_work' = <<job, xnonce2>> /\ issued' = issued \cup {g_work'}
  /\ new_job' = FALSE
  /\ restart_threads
  /\ xnonce2' = xnonce2 + 1 /\ wrapped' = wrapped
  /\ UNCHANGED <<job, announced>>

\* One critical section of the locks of the job and of g_work; the extranonce2
\* of the next call is prepared before the job's lock is released.
stratum_gen_work ==
  /\ g_work' = <<job, xnonce2>> /\ issued' = issued \cup {g_work'}
  /\ new_job' = FALSE
  /\ restart_threads
  /\ xnonce2' = (xnonce2 + 1) % Xn2Size
  /\ wrapped' = (wrapped \/ xnonce2 + 1 = Xn2Size)
  /\ UNCHANGED <<job, announced>>

-----------------------------------------------------------------------------
(* The stratum thread: connecting.                                         *)

\* Mutant: a live connection is read from before the request is looked at.
TopWaits ==
  /\ spc = "top"
  /\ failures' = 0
  /\ stratum_need_reset' = (stratum_need_reset /\ curl)
  /\ spc' = IF curl THEN "wait" ELSE IF stratum_need_reset THEN "reset" ELSE "connect"
  /\ UNCHANGED <<connVars, stratum_down, jobVars, new_job, workVars, minerVars, restart,
                 apiVars, countVars>>

\* The top of the loop.  The request is taken before rpc_url is looked at.
Top ==
  /\ spc = "top"
  /\ failures' = 0
  /\ stratum_need_reset' = FALSE
  /\ spc' = IF stratum_need_reset THEN "reset"
            ELSE IF curl THEN "wait" ELSE "connect"
  /\ UNCHANGED <<connVars, stratum_down, jobVars, new_job, workVars, minerVars, restart,
                 apiVars, countVars>>

ResetDown ==
  /\ spc = "reset" /\ spc' = "drop"
  /\ stratum_down' = TRUE
  /\ UNCHANGED <<connVars, stratum_need_reset, jobVars, new_job, workVars, minerVars,
                 restart, apiVars, countVars, failures>>

\* The session id goes with the pool that issued it.
Disconnect ==
  /\ spc = "drop" /\ spc' = "connect"
  /\ curl' = FALSE /\ url' = rpc_url
  /\ session_id' = IF url # rpc_url THEN NULL ELSE session_id
  /\ redirected' = FALSE
  /\ restart_threads
  /\ UNCHANGED <<xnonce1, opt_extranonce, flagVars, jobVars, new_job, workVars,
                 minerVars, apiVars, countVars, failures>>

\* One round of while ( !stratum.curl ).
TryConnect ==
  /\ spc = "connect" /\ spc' = "dial"
  /\ stratum_down' = TRUE /\ restart_threads
  /\ UNCHANGED <<connVars, stratum_need_reset, jobVars, new_job, workVars, minerVars,
                 apiVars, countVars, failures>>

\* Not connected, not subscribed or not authorised: try again, or end the
\* workio thread and with it the miner.
TryAgain ==
  /\ curl' = FALSE
  /\ failures' = IF opt_retries >= 0 THEN failures + 1 ELSE failures
  /\ spc' = IF opt_retries >= 0 /\ failures' > opt_retries THEN "out" ELSE "connect"

DialFails ==
  /\ spc = "dial" /\ TryAgain
  /\ UNCHANGED <<url, session_id, xnonce1, opt_extranonce, redirected, flagVars, jobVars,
                 new_job, workVars, minerVars, restart, apiVars, countVars>>

\* The pool opens a new session, or resumes the one whose id it issued and we sent.
stratum_subscribe ==
  /\ spc = "dial" /\ spc' = "authorize"
  /\ curl' = TRUE
  /\ \/ /\ sessions' = sessions + 1 /\ xnonce1' = sessions'
        /\ session_id' \in {NULL, [pool |-> url, xnonce1 |-> xnonce1']}
     \/ /\ session_id # NULL /\ session_id.pool = url
        /\ xnonce1' = session_id.xnonce1
        /\ UNCHANGED <<session_id, sessions>>
  /\ UNCHANGED <<url, opt_extranonce, redirected, flagVars, jobVars, new_job, workVars,
                 minerVars, restart, apiVars, faults, failures>>

\* Without an answer to mining.extranonce.subscribe no extranonce2 is rolled.
AuthorizeOk ==
  /\ spc = "authorize" /\ spc' = "prime"
  /\ opt_extranonce' \in {opt_extranonce, FALSE}
  /\ UNCHANGED <<url, curl, session_id, xnonce1, redirected, flagVars, jobVars, new_job,
                 workVars, minerVars, restart, apiVars, countVars, failures>>

AuthorizeFails ==
  /\ spc = "authorize" /\ faults < MaxFaults
  /\ TryAgain
  /\ faults' = faults + 1
  /\ UNCHANGED <<url, session_id, xnonce1, opt_extranonce, redirected, flagVars, jobVars,
                 new_job, workVars, minerVars, restart, apiVars, sessions>>

-----------------------------------------------------------------------------
(* The stratum thread: one message, while it waits for the answer to its   *)
(* authorisation and afterwards.                                           *)

Receiving == {"authorize", "wait"}
AfterMessage(p) == IF p = "wait" THEN "news" ELSE p

Announce(id) == [pool |-> url, xnonce1 |-> xnonce1, id |-> id]

\* Mutant: every notification starts extranonce2 again.
NotifyZeroes(id) ==
  /\ spc \in Receiving /\ spc' = IF spc = "wait" THEN "flag" ELSE "authflag"
  /\ Announce(id) = job \/ Announce(id) \notin announced
  /\ job' = Announce(id) /\ announced' = announced \cup {job'}
  /\ xnonce2' = 0 /\ wrapped' = FALSE
  /\ UNCHANGED <<connVars, flagVars, new_job, workVars, minerVars, restart, apiVars,
                 countVars, failures>>

\* mining.notify.  In one session a pool sends a job it has not sent before, or
\* its last one again; extranonce2 starts again only when the id is another one.
stratum_notify(id) ==
  /\ spc \in Receiving /\ spc' = IF spc = "wait" THEN "flag" ELSE "authflag"
  /\ Announce(id) = job \/ Announce(id) \notin announced
  /\ job' = Announce(id) /\ announced' = announced \cup {job'}
  /\ IF job = NULL \/ job.id # id
     THEN xnonce2' = 0 /\ wrapped' = FALSE
     ELSE UNCHANGED <<xnonce2, wrapped>>
  /\ UNCHANGED <<connVars, flagVars, new_job, workVars, minerVars, restart, apiVars,
                 countVars, failures>>

\* The flag follows, outside the lock.
SetNewJob ==
  /\ spc \in {"flag", "authflag"}
  /\ spc' = IF spc = "flag" THEN "news" ELSE "authorize"
  /\ new_job' = TRUE
  /\ UNCHANGED <<connVars, flagVars, jobVars, workVars, minerVars, restart, apiVars,
                 countVars, failures>>

\* An answer, set_difficulty, set_target, ping: nothing the session depends on.
OtherMessage ==
  /\ spc = "wait" /\ spc' = "news"
  /\ UNCHANGED <<connVars, flagVars, jobVars, new_job, workVars, minerVars, restart,
                 apiVars, countVars, failures>>

\* mining.set_extranonce: the next job is built with it, and a session resumed
\* later has it.
SetExtranonce ==
  /\ spc \in Receiving /\ faults < MaxFaults
  /\ spc' = AfterMessage(spc)
  /\ sessions' = sessions + 1 /\ xnonce1' = sessions' /\ faults' = faults + 1
  /\ session_id' = IF session_id = NULL THEN NULL
                   ELSE [session_id EXCEPT !.xnonce1 = sessions']
  /\ UNCHANGED <<url, curl, opt_extranonce, redirected, flagVars, jobVars,
                 new_job, workVars, minerVars, restart, apiVars, failures>>

\* client.reconnect, if opt_redirect.  While authorising, the closed connection
\* fails the attempt.
stratum_reconnect(u) ==
  /\ spc \in Receiving /\ faults < MaxFaults
  /\ url' = u /\ redirected' = TRUE
  /\ IF spc = "wait" THEN curl' = FALSE /\ spc' = "news" /\ failures' = failures
                     ELSE TryAgain
  /\ faults' = faults + 1
  /\ UNCHANGED <<session_id, xnonce1, opt_extranonce, flagVars, jobVars, new_job,
                 workVars, minerVars, restart, apiVars, sessions>>

\* The connection breaks, or nothing comes for opt_timeout seconds.
Lost ==
  /\ spc = "wait" /\ faults < MaxFaults
  /\ spc' = "news" /\ stratum_need_reset' = TRUE
  /\ faults' = faults + 1
  /\ UNCHANGED <<connVars, stratum_down, jobVars, new_job, workVars, minerVars, restart,
                 apiVars, sessions, failures>>

\* opt_stratum_keepalive: no share for too long.
Keepalive ==
  /\ spc = "news" /\ ~stratum_need_reset /\ faults < MaxFaults
  /\ spc' = "top" /\ stratum_need_reset' = TRUE
  /\ faults' = faults + 1
  /\ UNCHANGED <<connVars, stratum_down, jobVars, new_job, workVars, minerVars, restart,
                 apiVars, sessions, failures>>

-----------------------------------------------------------------------------
(* The stratum thread: installing a job, right after connecting ("prime")  *)
(* or after a message ("news").                                            *)

CheckJob ==
  /\ \/ spc = "prime" /\ spc' = IF new_job THEN "primegen" ELSE "wait"
     \/ /\ spc = "news"
        /\ spc' = IF new_job /\ ~stratum_need_reset THEN "newsgen" ELSE "top"
  /\ UNCHANGED <<connVars, flagVars, jobVars, new_job, workVars, minerVars, restart,
                 apiVars, countVars, failures>>

InstallJob ==
  /\ spc \in {"primegen", "newsgen"}
  /\ spc' = IF spc = "primegen" THEN "primeup" ELSE "newsup"
  /\ stratum_gen_work
  /\ UNCHANGED <<connVars, flagVars, minerVars, apiVars, countVars, failures>>

\* Mutant: the mining threads are released by the first job only.
ReleaseOnPrime ==
  /\ spc \in {"primeup", "newsup"}
  /\ spc' = IF spc = "primeup" THEN "wait" ELSE "top"
  /\ stratum_down' = (stratum_down /\ spc = "newsup")
  /\ UNCHANGED <<connVars, stratum_need_reset, jobVars, new_job, workVars, minerVars,
                 restart, apiVars, countVars, failures>>

ReleaseMiners ==
  /\ spc \in {"primeup", "newsup"}
  /\ spc' = IF spc = "primeup" THEN "wait" ELSE "top"
  /\ stratum_down' = FALSE
  /\ UNCHANGED <<connVars, stratum_need_reset, jobVars, new_job, workVars, minerVars,
                 restart, apiVars, countVars, failures>>

-----------------------------------------------------------------------------
(* Mining threads.                                                         *)

Goto(t, p, q) == pc[t] = p /\ pc' = [pc EXCEPT ![t] = q]

FirstJob(t) ==
  /\ Goto(t, "first", "top") /\ job # NULL
  /\ UNCHANGED <<connVars, flagVars, jobVars, new_job, workVars, work, exhausted, restart,
                 apiVars, countVars, spc, failures>>

PoolUp(t) ==
  /\ Goto(t, "top", "range") /\ ~stratum_down
  /\ UNCHANGED <<connVars, flagVars, jobVars, new_job, workVars, work, exhausted, restart,
                 apiVars, countVars, spc, failures>>

\* A used-up range asks for other work unless other work has been announced.
CheckRange(t) ==
  /\ Goto(t, "range", IF ~exhausted[t] \/ restart[t] THEN "take"
                      ELSE IF opt_extranonce THEN "gen" ELSE "starve")
  /\ UNCHANGED <<connVars, flagVars, jobVars, new_job, workVars, work, exhausted, restart,
                 apiVars, countVars, spc, failures>>

RollExtranonce(t) ==
  /\ Goto(t, "gen", "take")
  /\ stratum_gen_work
  /\ UNCHANGED <<connVars, flagVars, work, exhausted, apiVars, countVars, spc, failures>>

AwaitRestart(t) ==
  /\ Goto(t, "starve", "take") /\ restart[t]
  /\ UNCHANGED <<connVars, flagVars, jobVars, new_job, workVars, work, exhausted, restart,
                 apiVars, countVars, spc, failures>>

\* Mutant: the flag is cleared, and work that was copied before is kept.
TakeWorkOnce(t) ==
  /\ Goto(t, "take", "gate")
  /\ work' = [work EXCEPT ![t] = IF work[t] = NULL THEN g_work ELSE work[t]]
  /\ exhausted' = [exhausted EXCEPT ![t] = FALSE]
  /\ restart' = [restart EXCEPT ![t] = FALSE]
  /\ UNCHANGED <<connVars, flagVars, jobVars, new_job, workVars, apiVars, countVars, spc,
                 failures>>

\* get_new_work under the read lock: other work, or a range used up, starts the
\* thread's range from the beginning.
TakeWork(t) ==
  /\ Goto(t, "take", "gate")
  /\ work' = [work EXCEPT ![t] = g_work]
  /\ exhausted' = [exhausted EXCEPT ![t] = FALSE]
  /\ restart' = [restart EXCEPT ![t] = FALSE]
  /\ UNCHANGED <<connVars, flagVars, jobVars, new_job, workVars, apiVars, countVars, spc,
                 failures>>

\* wanna_mine says no: every thread is restarted.
DontMine(t) ==
  /\ Goto(t, "gate", "top") /\ restart_threads
  /\ UNCHANGED <<connVars, flagVars, jobVars, new_job, workVars, work, exhausted,
                 apiVars, countVars, spc, failures>>

Mine(t) ==
  /\ Goto(t, "gate", "hash")
  /\ UNCHANGED <<connVars, flagVars, jobVars, new_job, workVars, work, exhausted, restart,
                 apiVars, countVars, spc, failures>>

\* The scan time is over, the range is, or the restart flag was seen.
EndScan(t) ==
  /\ Goto(t, "hash", "top")
  /\ exhausted' \in {exhausted, [exhausted EXCEPT ![t] = TRUE]}
  /\ UNCHANGED <<connVars, flagVars, jobVars, new_job, workVars, work, restart,
                 apiVars, countVars, spc, failures>>

-----------------------------------------------------------------------------
(* The API thread: one request at a time.                                  *)

\* A new pool: from POST control/profile, which also holds the mining threads
\* back, or from POST pools/url and the seturl command.
ChangePool(u) ==
  /\ apc = "idle" /\ faults < MaxFaults
  /\ rpc_url' = u /\ apc' \in {"down", "reset"}
  /\ faults' = faults + 1
  /\ UNCHANGED <<connVars, flagVars, jobVars, new_job, workVars, minerVars, restart,
                 sessions, spc, failures>>

MarkDown ==
  /\ apc = "down" /\ apc' = "reset"
  /\ stratum_down' = TRUE
  /\ UNCHANGED <<connVars, stratum_need_reset, jobVars, new_job, workVars, minerVars,
                 restart, rpc_url, countVars, spc, failures>>

\* Mutant: no reset is asked for when there is nothing to disconnect.
RequestResetIfUp ==
  /\ apc = "reset" /\ apc' = "idle"
  /\ stratum_need_reset' = (stratum_need_reset \/ curl)
  /\ UNCHANGED <<connVars, stratum_down, jobVars, new_job, workVars, minerVars, restart,
                 rpc_url, countVars, spc, failures>>

\* stratum_wake, which follows in a profile, only shortens the wait for a message.
RequestReset ==
  /\ apc = "reset" /\ apc' = "idle"
  /\ stratum_need_reset' = TRUE
  /\ UNCHANGED <<connVars, stratum_down, jobVars, new_job, workVars, minerVars, restart,
                 rpc_url, countVars, spc, failures>>

\* POST control/stop drops the connection of a parked miner.
StopMiner ==
  /\ apc = "idle" /\ apc' = "reset" /\ faults < MaxFaults
  /\ faults' = faults + 1
  /\ UNCHANGED <<connVars, flagVars, jobVars, new_job, workVars, minerVars, restart,
                 rpc_url, sessions, spc, failures>>

-----------------------------------------------------------------------------
Session == \/ Top \/ ResetDown \/ Disconnect
           \/ TryConnect \/ DialFails \/ stratum_subscribe
           \/ AuthorizeOk \/ AuthorizeFails
           \/ \E id \in JobIds : stratum_notify(id)
           \/ SetNewJob \/ OtherMessage \/ SetExtranonce
           \/ \E u \in Redirects : stratum_reconnect(u)
           \/ Lost \/ Keepalive
           \/ CheckJob \/ InstallJob \/ ReleaseMiners

Miner(t) == \/ FirstJob(t) \/ PoolUp(t) \/ CheckRange(t) \/ RollExtranonce(t)
            \/ AwaitRestart(t) \/ TakeWork(t) \/ DontMine(t) \/ Mine(t) \/ EndScan(t)

ApiStep == MarkDown \/ RequestReset

\* The stratum thread has given up and the process ends.
Terminated == spc = "out" /\ UNCHANGED vars

Next == \/ Session \/ \E t \in Threads : Miner(t)
        \/ \E u \in Urls : ChangePool(u)
        \/ StopMiner \/ ApiStep \/ Terminated

Spec == Init /\ [][Next]_vars

(***************************************************************************)
(* Fairness.  The operating system runs every thread, and every wait of    *)
(* the stratum thread for a message ends, by a message or by its timeout.  *)
(* That much holds whatever the pool does (ThreadsFair).  A pool that does *)
(* its part answers a connection that is tried again and again, and keeps  *)
(* sending jobs to a session; and the limits on temperature and difficulty *)
(* let a thread mine again and again (PoolFair).                           *)
(***************************************************************************)
ThreadsFair == /\ WF_vars(Session) /\ WF_vars(ApiStep)
               /\ \A t \in Threads : WF_vars(Miner(t))
PoolFair == /\ SF_vars(stratum_subscribe) /\ SF_vars(AuthorizeOk)
            /\ SF_vars(spc = "wait" /\ \E id \in JobIds : stratum_notify(id))
            /\ \A t \in Threads : SF_vars(Mine(t))

FairSpec == Spec /\ ThreadsFair /\ PoolFair

-----------------------------------------------------------------------------
(* Properties.                                                             *)

SPC == {"top", "reset", "drop", "connect", "dial", "authorize", "authflag", "prime",
        "primegen", "primeup", "wait", "flag", "news", "newsgen", "newsup", "out"}
MinerPC == {"first", "top", "range", "gen", "starve", "take", "gate", "hash"}

\* Extranonce2 stays within its bytes, there is a job whenever stratum_gen_work
\* is about to use it, and everything else has its type.
TypeOK ==
  /\ rpc_url \in Urls /\ url \in Urls /\ curl \in BOOLEAN
  /\ stratum_down \in BOOLEAN /\ stratum_need_reset \in BOOLEAN
  /\ session_id \in Sessions \cup {NULL} /\ xnonce1 \in Nat /\ opt_extranonce \in BOOLEAN
  /\ job \in Jobs \cup {NULL} /\ new_job \in BOOLEAN /\ xnonce2 \in 0 .. Xn2Size - 1
  /\ g_work \in Works \cup {NULL}
  /\ spc \in SPC /\ failures \in Nat
  /\ pc \in [Threads -> MinerPC] /\ work \in [Threads -> Works \cup {NULL}]
  /\ exhausted \in [Threads -> BOOLEAN] /\ restart \in [Threads -> BOOLEAN]
  /\ apc \in {"idle", "down", "reset"} /\ faults \in Nat /\ sessions \in Nat
  /\ announced \subseteq Jobs /\ issued \subseteq Works
  /\ wrapped \in BOOLEAN /\ redirected \in BOOLEAN
  /\ \/ job # NULL
     \/ /\ ~new_job /\ spc \notin {"authflag", "flag", "primegen", "newsgen"}
        /\ \A t \in Threads : pc[t] = "first"

\* No wake-up is lost: a thread scanning work that is no longer g_work has its
\* restart flag set, whoever installed the new work and whenever the thread
\* copied the old.
StaleScanTold ==
  \A t \in Threads : pc[t] \in {"gate", "hash"} /\ work[t] # g_work => restart[t]

\* Two calls of stratum_gen_work, by any threads, for new jobs, repeated jobs
\* and used-up ranges, with reconnections in between, never install the same
\* work, as long as extranonce2 has not wrapped.
NextWorkIsNew == job # NULL /\ ~wrapped => <<job, xnonce2>> \notin issued

\* A change of the pool is not lost: until the stratum thread has taken over
\* the new rpc_url, a reset is requested, is being requested or is under way.
\* The requests are plain stores of several threads into one flag.
PoolChangeNotLost ==
  url # rpc_url /\ ~redirected =>
    stratum_need_reset \/ apc # "idle" \/ spc \in {"reset", "drop"}

\* Every mining thread hashes again and again: no reset, lost connection or
\* used-up range leaves it waiting for a flag that nobody sets.
MinersKeepHashing == \A t \in Threads : []<>(pc[t] = "hash")

\* A change of the pool reaches the mining threads: in the end they scan work of
\* the pool that is wanted and of no other, although the flags that hold them back
\* are stored by several threads and a job of the old pool may be installed after
\* the change.
PoolChangeTakesEffect ==
  \A u \in Urls : <>[](rpc_url = u /\ ~redirected)
                    => <>[](\A t \in Threads : pc[t] = "hash" => work[t][1].pool = u)

\* The session keeps the promise of WorkFeed, whoever installs work.
Feed == INSTANCE WorkFeed WITH
          told <- restart,
          scanned <- [t \in Threads |-> IF pc[t] \in {"gate", "hash"} THEN work[t] ELSE NULL]
FeedSpec == Feed!Spec

\* Inductive strengthening of NextWorkIsNew: the work issued for the job has a
\* smaller extranonce2, and a job no pool has sent yet has no work.
IssuedBelow == job # NULL /\ ~wrapped => \A w \in issued : w[1] = job => w[2] < xnonce2
IssuedAnnounced == /\ job # NULL => job \in announced
                   /\ \A w \in issued : w[1] \in announced

\* Inductive strengthening of FeedSpec: the mining threads are held back until there
\* is work, and who scans has some.
HasWork ==
  /\ g_work = NULL => /\ stratum_down /\ spc \notin {"primeup", "newsup"}
                      /\ \A t \in Threads : pc[t] \in {"first", "top"}
  /\ \A t \in Threads : pc[t] \in {"gate", "hash"} => work[t] # NULL
=============================================================================
