------------------------------ MODULE RandomX ------------------------------
(***************************************************************************)
(* The RandomX dataset and the jobs that name its key.                     *)
(*                                                                         *)
(* Every hash reads one shared dataset, derived from the seed of the job.  *)
(* The stratum thread rebuilds it in place, under the write lock of        *)
(* rx_lock, when a job brings another seed; it does so after it told the   *)
(* mining threads to restart and before it publishes the job in g_work.    *)
(* A mining thread holds the read lock for a whole scan and stands off     *)
(* while rx_reseed_pending is set: the lock prefers readers, so threads    *)
(* that came back again and again would keep the rebuild out for ever.     *)
(*                                                                         *)
(* Fast mode of the algorithms that have a seed, against a pool; a login   *)
(* stands for connecting and logging in.  In light mode the cache takes    *)
(* the place of the dataset, under the same lock.                          *)
(***************************************************************************)
EXTENDS Integers

CONSTANTS opt_n_threads, \* mining threads; as many threads build the dataset
          ItemCount,     \* items of the dataset
          Seeds, NULL,   \* seed hashes; none
          Ids, SeedOf,   \* ids of jobs, used again and again; the seed that goes with one
          Exhausts,      \* a range of nonces may run out within a job: miner_thread
                         \* provides for it, rx_get_new_work takes it not to happen
          MaxFaults      \* bound: broken jobs, failures, resets

ASSUME RandomXAssumption ==
  /\ opt_n_threads \in Nat \ {0} /\ ItemCount \in Nat \ {0} /\ NULL \notin Seeds
  /\ SeedOf \in [Ids -> Seeds]
  /\ Exhausts \in BOOLEAN /\ MaxFaults \in Nat

Threads == 0 .. opt_n_threads - 1
Items == 0 .. ItemCount - 1

\* A blob, the seed it is to be hashed with, and the id to submit it under.
Jobs == [blob : Ids, seed : Seeds, id : Ids]

ASSUME NoJobAssumption == NULL \notin Jobs

VARIABLES
  rx_seed,              \* NULL until the first rebuild
  dataset,              \* for every item, the seed it was computed from
  rx_initialised, rx_reseed_pending,
  job, new_job, g_work,
  stratum_down, stratum_need_reset,
  spc, path,            \* stratum thread; "prime" while it handles the job of a login
  pc, restart,          \* mining threads
  work,                 \* what a thread is scanning, NULL in between
  vm,                   \* "fresh" when rx_vm_epoch = rx_epoch, "stale" when not
  faults,               \* what the bound counts
  rolled                \* history: g_work is what a mining thread took from the
                        \* job before the stratum thread had prepared it

dsVars    == <<rx_seed, dataset, rx_initialised, rx_reseed_pending>>
workVars  == <<g_work, rolled>>
minerVars == <<pc, work, vm>>
vars == <<dsVars, job, new_job, workVars, stratum_down, stratum_need_reset,
          spc, path, minerVars, restart, faults>>

\* Mutant: nothing holds the mining threads back before the first job.
InitUp ==
  /\ rx_seed = NULL /\ dataset = [x \in Items |-> NULL]
  /\ rx_initialised = FALSE /\ rx_reseed_pending = FALSE
  /\ job = NULL /\ new_job = FALSE /\ g_work = NULL
  /\ stratum_down = FALSE /\ stratum_need_reset = FALSE
  /\ spc = "login" /\ path = "news"
  /\ pc = [t \in Threads |-> "top"] /\ work = [t \in Threads |-> NULL]
  /\ vm = [t \in Threads |-> "none"]
  /\ restart = [t \in Threads |-> TRUE]
  /\ faults = 0 /\ rolled = FALSE

Init ==
  /\ rx_seed = NULL /\ dataset = [x \in Items |-> NULL]
  /\ rx_initialised = FALSE /\ rx_reseed_pending = FALSE
  /\ job = NULL /\ new_job = FALSE /\ g_work = NULL
  /\ stratum_down = TRUE /\ stratum_need_reset = FALSE
  /\ spc = "login" /\ path = "news"
  /\ pc = [t \in Threads |-> "top"] /\ work = [t \in Threads |-> NULL]
  /\ vm = [t \in Threads |-> "none"]
  /\ restart = [t \in Threads |-> TRUE]
  /\ faults = 0 /\ rolled = FALSE

restart_threads == restart' = [t \in Threads |-> TRUE]

\* Mutant: the running scans are not told.
GenWorkQuietly ==
  /\ g_work' = job /\ new_job' = FALSE
  /\ UNCHANGED restart

\* The RandomX branch of stratum_gen_work: under the locks of the job and of g_work.
stratum_gen_work ==
  /\ g_work' = job /\ new_job' = FALSE
  /\ restart_threads

-----------------------------------------------------------------------------
(* The stratum thread: session and jobs.                                   *)

\* rx_parse_job stores field by field.  A job that is refused after its blob was
\* stored leaves a mixture behind: the id is the last field.
Parsed(n) == [blob |-> n, seed |-> SeedOf[n], id |-> n]
HalfParsed(n) == {[Parsed(n) EXCEPT !.id = job.id],
                  [Parsed(n) EXCEPT !.id = job.id, !.seed = job.seed]}

ResetSession ==
  /\ spc = "top"
  /\ stratum_need_reset' = FALSE
  /\ IF stratum_need_reset
     THEN spc' = "login" /\ stratum_down' = TRUE /\ restart_threads
     ELSE spc' = "wait" /\ UNCHANGED <<stratum_down, restart>>
  /\ UNCHANGED <<dsVars, job, new_job, workVars, path, minerVars, faults>>

rx_stratum_login(n) ==
  /\ spc = "login" /\ spc' = "flag" /\ path' = "prime"
  /\ job' = Parsed(n)
  /\ UNCHANGED <<dsVars, new_job, workVars, stratum_down,
                 stratum_need_reset, minerVars, restart, faults>>

LoginFails(n) ==
  /\ spc = "login" /\ spc' = "login" /\ faults < MaxFaults
  /\ job' \in {job} \cup (IF job = NULL THEN {} ELSE HalfParsed(n))
  /\ faults' = faults + 1
  /\ restart_threads
  /\ UNCHANGED <<dsVars, new_job, workVars, stratum_down,
                 stratum_need_reset, path, minerVars>>

rx_stratum_job(n) ==
  /\ spc = "wait" /\ spc' = "flag"
  /\ job' = Parsed(n)
  /\ UNCHANGED <<dsVars, new_job, workVars, stratum_down,
                 stratum_need_reset, path, minerVars, restart, faults>>

\* Mutant: a refused job is announced like any other.
BadJobFlagged(n) ==
  /\ spc = "wait" /\ spc' = "flag" /\ faults < MaxFaults
  /\ job' \in HalfParsed(n) /\ faults' = faults + 1
  /\ UNCHANGED <<dsVars, new_job, workVars, stratum_down,
                 stratum_need_reset, path, minerVars, restart>>

BadJob(n) ==
  /\ spc = "wait" /\ spc' = "news" /\ faults < MaxFaults
  /\ job' \in HalfParsed(n) /\ faults' = faults + 1
  /\ UNCHANGED <<dsVars, new_job, workVars, stratum_down,
                 stratum_need_reset, path, minerVars, restart>>

\* Set by rx_stratum_login and rx_stratum_job once the lock is released.
SetNewJob ==
  /\ spc = "flag" /\ spc' = IF path = "prime" THEN "prime" ELSE "news"
  /\ new_job' = TRUE
  /\ UNCHANGED <<dsVars, job, workVars, stratum_down, stratum_need_reset,
                 path, minerVars, restart, faults>>

Lost ==
  /\ spc = "wait" /\ spc' = "news" /\ faults < MaxFaults
  /\ stratum_need_reset' = TRUE /\ faults' = faults + 1
  /\ UNCHANGED <<dsVars, job, new_job, workVars, stratum_down, path, minerVars,
                 restart>>

\* The API thread asks for a reset at any moment.
RequestReset ==
  /\ faults < MaxFaults /\ faults' = faults + 1
  /\ stratum_need_reset' = TRUE
  /\ UNCHANGED <<dsVars, job, new_job, workVars, stratum_down, spc, path,
                 minerVars, restart>>

-----------------------------------------------------------------------------
(* The stratum thread: the dataset, then the job.                          *)

\* A job that came with a message has the threads restarted first.
CheckJob ==
  /\ \/ /\ spc = "prime" /\ spc' = IF new_job THEN "prepare" ELSE "wait"
        /\ path' = (IF new_job THEN path ELSE "news") /\ UNCHANGED restart
     \/ /\ spc = "news" /\ UNCHANGED path
        /\ IF new_job /\ ~stratum_need_reset
           THEN spc' = "prepare" /\ restart_threads
           ELSE spc' = "top" /\ UNCHANGED restart
  /\ UNCHANGED <<dsVars, job, new_job, workVars, stratum_down,
                 stratum_need_reset, minerVars, faults>>

\* rx_alloc fails: no dataset yet, and the session is reset.
AllocFails ==
  /\ spc = "prepare" /\ ~rx_initialised /\ faults < MaxFaults
  /\ stratum_need_reset' = TRUE /\ faults' = faults + 1
  /\ spc' = IF path = "prime" THEN "wait" ELSE "top"
  /\ path' = "news"
  /\ UNCHANGED <<dsVars, job, new_job, workVars, stratum_down, minerVars, restart>>

\* After a message, a reset asked for in the meantime keeps the job back.
Prepared == IF path = "prime" \/ ~stratum_need_reset THEN "gen" ELSE "top"

rx_seed_update ==
  /\ spc = "prepare" /\ rx_initialised' = TRUE
  /\ IF rx_seed # job.seed
     THEN spc' = "lock" /\ rx_reseed_pending' = TRUE
     ELSE spc' = Prepared /\ UNCHANGED rx_reseed_pending
  /\ UNCHANGED <<rx_seed, dataset, job, new_job, workVars, stratum_down,
                 stratum_need_reset, path, minerVars, restart, faults>>

\* The write lock; from here on the items change one by one.
LockDataset ==
  /\ spc = "lock" /\ spc' = "build"
  /\ \A t \in Threads : pc[t] # "hash"
  /\ dataset' = [x \in Items |-> NULL]
  /\ UNCHANGED <<rx_seed, rx_initialised, rx_reseed_pending, job, new_job, workVars,
                 stratum_down, stratum_need_reset, path, minerVars, restart, faults>>

\* The ranges handed to the building threads; the last one takes the remainder.
Per == ItemCount \div opt_n_threads
RangeStart(i) == Per * i
\* Mutant: the remainder of the division is forgotten.
EqualRanges(i) == Per
RangeCount(i) == IF i = opt_n_threads - 1 THEN ItemCount - Per * i ELSE Per
RangeEnd(i) == RangeStart(i) + RangeCount(i)

\* What has been built once the started threads have ended and the stratum
\* thread has finished what threads that could not be created have left.
BuiltItems(started) ==
  {x \in Items : \/ \E i \in 0 .. started - 1 : RangeStart(i) <= x /\ x < RangeEnd(i)
                 \/ /\ started < opt_n_threads
                    /\ x >= IF started = 0 THEN 0 ELSE RangeEnd(started - 1)}

rx_reseed ==
  /\ spc = "build" /\ spc' = "built"
  /\ \E started \in 0 .. opt_n_threads :
        dataset' = [x \in Items |-> IF x \in BuiltItems(started) THEN job.seed ELSE dataset[x]]
  /\ rx_seed' = job.seed
  /\ vm' = [t \in Threads |-> IF vm[t] = "none" THEN "none" ELSE "stale"]
  /\ UNCHANGED <<rx_initialised, rx_reseed_pending, job, new_job, workVars, stratum_down,
                 stratum_need_reset, path, pc, work, restart, faults>>

EndReseed ==
  /\ spc = "built" /\ spc' = Prepared
  /\ rx_reseed_pending' = FALSE
  /\ UNCHANGED <<rx_seed, dataset, rx_initialised, job, new_job, workVars, stratum_down,
                 stratum_need_reset, path, minerVars, restart, faults>>

\* The mining threads are released once g_work holds the job.
PublishJob ==
  /\ spc = "gen" /\ spc' = IF path = "prime" THEN "wait" ELSE "top"
  /\ stratum_gen_work /\ rolled' = FALSE
  /\ stratum_down' = FALSE /\ path' = "news"
  /\ UNCHANGED <<dsVars, job, stratum_need_reset, minerVars, faults>>

-----------------------------------------------------------------------------
(* Mining threads.                                                         *)

sessionVars == <<dsVars, job, stratum_down, stratum_need_reset, spc, path, faults>>
Goto(t, p, q) == pc[t] = p /\ pc' = [pc EXCEPT ![t] = q]
BackToTop(t, p) == Goto(t, p, "top") /\ work' = [work EXCEPT ![t] = NULL]

\* The nonce, which every pass moves on, may have reached the end of its range.
PoolUp(t) ==
  /\ ~stratum_down
  /\ \/ Goto(t, "top", "take")
     \/ Goto(t, "top", "roll") /\ Exhausts /\ ~restart[t]
  /\ UNCHANGED <<sessionVars, new_job, workVars, work, vm, restart>>

\* A used-up range: stratum_gen_work, from the mining thread.
RollWork(t) ==
  /\ Goto(t, "roll", "take")
  /\ stratum_gen_work /\ rolled' = (rolled \/ job # g_work)
  /\ UNCHANGED <<sessionVars, work, vm>>

rx_get_new_work(t) ==
  /\ Goto(t, "take", "scan")
  /\ work' = [work EXCEPT ![t] = g_work]
  /\ restart' = [restart EXCEPT ![t] = FALSE]
  /\ UNCHANGED <<sessionVars, new_job, workVars, vm>>

\* wanna_mine says no: every thread is restarted.
DontMine(t) ==
  /\ BackToTop(t, "scan") /\ restart_threads
  /\ UNCHANGED <<sessionVars, new_job, workVars, vm>>

\* Mutant: the lock is all there is.
StandOffNever(t) ==
  /\ Goto(t, "scan", "lock")
  /\ UNCHANGED <<sessionVars, new_job, workVars, work, vm, restart>>

\* scanhash_randomx looks at the flag and takes the lock in two steps.
StandOff(t) ==
  /\ IF rx_reseed_pending THEN BackToTop(t, "scan")
                          ELSE Goto(t, "scan", "lock") /\ UNCHANGED work
  /\ UNCHANGED <<sessionVars, new_job, workVars, vm, restart>>

\* Mutant: a VM once made is used as it is.
VmGetOnce(t) ==
  /\ Goto(t, "lock", "hash") /\ spc # "build" /\ rx_seed # NULL
  /\ vm' = [vm EXCEPT ![t] = IF vm[t] = "none" THEN "fresh" ELSE vm[t]]
  /\ UNCHANGED <<sessionVars, new_job, workVars, work, restart>>

\* The read lock, which a waiting writer does not hold up, and rx_vm_get.
rx_vm_get(t) ==
  /\ Goto(t, "lock", "hash") /\ spc # "build" /\ rx_seed # NULL
  /\ vm' = [vm EXCEPT ![t] = "fresh"]
  /\ UNCHANGED <<sessionVars, new_job, workVars, work, restart>>

\* No dataset yet, or no memory for a VM: the lock is given back.
NoVm(t) ==
  /\ BackToTop(t, "lock") /\ spc # "build"
  /\ rx_seed = NULL \/ vm[t] = "none"
  /\ UNCHANGED <<sessionVars, new_job, workVars, vm, restart>>

EndScan(t) ==
  /\ BackToTop(t, "hash")
  /\ UNCHANGED <<sessionVars, new_job, workVars, vm, restart>>

-----------------------------------------------------------------------------
Session == \/ ResetSession \/ SetNewJob \/ CheckJob \/ rx_seed_update
           \/ LockDataset \/ rx_reseed \/ EndReseed \/ PublishJob
           \/ \E n \in Ids : rx_stratum_login(n)
Pool == \/ \E n \in Ids : LoginFails(n) \/ rx_stratum_job(n) \/ BadJob(n)
        \/ Lost \/ AllocFails
Miner(t) == \/ PoolUp(t) \/ RollWork(t) \/ rx_get_new_work(t) \/ DontMine(t) \/ StandOff(t)
            \/ rx_vm_get(t) \/ NoVm(t) \/ EndScan(t)

Next == Session \/ Pool \/ RequestReset \/ \E t \in Threads : Miner(t)

Spec == Init /\ [][Next]_vars

(***************************************************************************)
(* Fairness.  The operating system runs every thread.  The lock prefers    *)
(* readers: a writer is let in when nobody reads, and one that finds a     *)
(* reader every time it looks is never let in.                             *)
(***************************************************************************)
FairSpec == Spec /\ WF_spc(Session) /\ \A t \in Threads : WF_pc(Miner(t))

-----------------------------------------------------------------------------
(* Properties.                                                             *)

SPC == {"top", "login", "flag", "prime", "wait", "news", "prepare", "lock", "build",
        "built", "gen"}
MinerPC == {"top", "roll", "take", "scan", "lock", "hash"}

\* The mining threads have work and the stratum thread a job whenever they use one,
\* and everything else has its type.
TypeOK ==
  /\ rx_seed \in Seeds \cup {NULL}
  /\ dataset \in [Items -> Seeds \cup {NULL}]
  /\ rx_initialised \in BOOLEAN /\ rx_reseed_pending \in BOOLEAN
  /\ job \in Jobs \cup {NULL} /\ new_job \in BOOLEAN /\ g_work \in Jobs \cup {NULL}
  /\ stratum_down \in BOOLEAN /\ stratum_need_reset \in BOOLEAN
  /\ spc \in SPC /\ path \in {"prime", "news"}
  /\ pc \in [Threads -> MinerPC] /\ work \in [Threads -> Jobs \cup {NULL}]
  /\ vm \in [Threads -> {"none", "stale", "fresh"}]
  /\ restart \in [Threads -> BOOLEAN]
  /\ faults \in Nat /\ rolled \in BOOLEAN
  /\ stratum_down \/ g_work # NULL
  /\ job # NULL \/ spc = "login"

\* A scan reads a whole dataset that does not change under it, through a VM made
\* for it: however many of the building threads could be created, and whenever
\* the rebuild began.  randomx-vm.c: "a half-built dataset hashes happily and
\* produces nothing but rejects".
HashesWholeDataset ==
  \A t \in Threads : pc[t] = "hash" =>
    /\ rx_seed # NULL /\ vm[t] = "fresh"
    /\ \A x \in Items : dataset[x] = rx_seed

\* Who hashes, hashes with the dataset of its work's seed.  randomx-vm.c: "either the
\* dataset matches the seed or no thread is running".  The code does not keep this
\* from the moment a rebuild ends until stratum_gen_work replaces the old work.
DatasetMatchesSeed == \A t \in Threads : pc[t] = "hash" => work[t].seed = rx_seed

\* What the stratum thread publishes is one job of the pool, never the remains of
\* a job that rx_parse_job refused half-way.
PublishedJobWhole == g_work # NULL /\ ~rolled => g_work.id = g_work.blob

\* The rebuild is not starved by threads that take the read lock again and again.
\* randomx-vm.c: "Without this flag pthread_rwlock_wrlock never returns and the
\* miner hangs."
RebuildFinishes == rx_reseed_pending ~> ~rx_reseed_pending

\* The session and the rebuild keep the promise of WorkFeed: no thread goes on with
\* replaced work untold, however long the rebuild keeps it from its next one.
Feed == INSTANCE WorkFeed WITH
          Works <- Jobs, told <- restart,
          scanned <- [t \in Threads |-> IF pc[t] \in {"scan", "lock", "hash"}
                                        THEN work[t] ELSE NULL]
FeedSpec == Feed!Spec

-----------------------------------------------------------------------------
(* Inductive strengthening.                                                *)

\* Before the first job nobody is let in, and who is in a scan has work.
NoJobYet == job = NULL => stratum_down /\ \A t \in Threads : pc[t] = "top"
HasWork == \A t \in Threads :
             /\ pc[t] # "top" => g_work # NULL
             /\ pc[t] \in {"scan", "lock", "hash"} => work[t] # NULL

\* Of HashesWholeDataset.
Readers == \A t \in Threads :
             pc[t] = "hash" => spc # "build" /\ rx_seed # NULL /\ vm[t] = "fresh"
WholeDataset == spc # "build" /\ rx_seed # NULL => \A x \in Items : dataset[x] = rx_seed

\* Of PublishedJobWhole.
JobKept ==
  /\ spc \in {"flag", "prime", "prepare", "lock", "build", "built", "gen"} => job.id = job.blob
  /\ new_job /\ spc = "news" => stratum_need_reset \/ job.id = job.blob
  /\ new_job /\ spc \in {"top", "wait"} => stratum_need_reset
=============================================================================
