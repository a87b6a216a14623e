--------------------------- MODULE RandomXProofs ---------------------------
(***************************************************************************)
(* Proofs about RandomX for any number of threads, items, seeds and jobs,  *)
(* and any number of disturbances.                                         *)
(***************************************************************************)
EXTENDS RandomX, TLAPS

-----------------------------------------------------------------------------
(* The ranges of the building threads.                                     *)

LEMMA PerBounds == Per \in Nat /\ Per * opt_n_threads <= ItemCount
  BY RandomXAssumption DEF Per

LEMMA TimesMonotone ==
  ASSUME NEW p \in Nat, NEW a \in Nat, NEW b \in Nat, a <= b PROVE p * a <= p * b
<1>1. PICK d \in Nat : b = a + d
  <2> WITNESS b - a \in Nat
  <2> QED
    OBVIOUS
<1>2. p * b = p * a + p * d
  BY <1>1
<1>3. p * d \in Nat /\ p * a \in Nat
  BY <1>1
<1> QED
  BY <1>2, <1>3

\* The range an item below the end of the first k ranges falls into.
LEMMA InSomeRange ==
  ASSUME NEW k \in Nat, k <= opt_n_threads, NEW x \in Items, x < Per * k
  PROVE  \E i \in 0 .. k - 1 : RangeStart(i) <= x /\ x < RangeEnd(i)
<1> DEFINE i == x \div Per
<1>1. x \in Nat /\ x < ItemCount /\ ItemCount \in Nat /\ Per \in Nat /\ opt_n_threads \in Nat
  BY PerBounds, RandomXAssumption DEF Items
<1>2. Per > 0
  <2>1. Per # 0
    BY <1>1
  <2> QED
    BY <1>1, <2>1
<1>3. i \in Nat /\ Per * i <= x /\ x < Per * i + Per
  BY <1>1, <1>2
<1> HIDE DEF i
<1>4. i < k
  <2> SUFFICES ASSUME k <= i PROVE FALSE
    BY <1>3
  <2>1. Per * k <= Per * i
    BY <1>1, <1>3, TimesMonotone
  <2>2. Per * k \in Nat /\ Per * i \in Nat
    BY <1>1, <1>3
  <2> QED
    BY <1>1, <1>3, <2>1, <2>2
<1>5. RangeStart(i) <= x
  BY <1>3 DEF RangeStart
<1>6. x < RangeEnd(i)
  <2>1. Per * i \in Nat
    BY <1>1, <1>3
  <2>2. CASE i = opt_n_threads - 1
    <3>1. RangeEnd(i) = Per * i + (ItemCount - Per * i)
      BY <2>2 DEF RangeEnd, RangeStart, RangeCount
    <3> QED
      BY <1>1, <2>1, <3>1
  <2>3. CASE i # opt_n_threads - 1
    <3>1. RangeEnd(i) = Per * i + Per
      BY <2>3 DEF RangeEnd, RangeStart, RangeCount
    <3> QED
      BY <1>3, <3>1
  <2> QED
    BY <2>2, <2>3
<1>7. i \in 0 .. k - 1
  BY <1>3, <1>4
<1> QED
  BY <1>5, <1>6, <1>7

\* However many of the building threads could be created, every item is built.
THEOREM EveryItemBuilt ==
  ASSUME NEW started \in 0 .. opt_n_threads PROVE BuiltItems(started) = Items
<1> SUFFICES ASSUME NEW x \in Items PROVE x \in BuiltItems(started)
  BY DEF BuiltItems
<1>1. /\ x \in Nat /\ x < ItemCount /\ ItemCount \in Nat /\ Per \in Nat
      /\ opt_n_threads \in Nat \ {0} /\ started \in Nat /\ started <= opt_n_threads
  BY PerBounds, RandomXAssumption DEF Items
<1>2. CASE x < Per * started
  BY <1>1, <1>2, InSomeRange DEF BuiltItems
<1>3. CASE ~(x < Per * started) /\ started = opt_n_threads
  <2> DEFINE i == opt_n_threads - 1
  <2>1. i \in 0 .. started - 1 /\ i \in Nat /\ i <= started
    BY <1>1, <1>3
  <2>2. Per * i <= Per * started /\ Per * i \in Nat /\ Per * started \in Nat
    BY <1>1, <2>1, TimesMonotone
  <2>3. RangeStart(i) <= x
    BY <1>1, <1>3, <2>2 DEF RangeStart
  <2>4. RangeEnd(i) = Per * i + (ItemCount - Per * i)
    BY DEF RangeEnd, RangeStart, RangeCount
  <2>5. x < RangeEnd(i)
    BY <1>1, <2>2, <2>4
  <2> QED
    BY <2>1, <2>3, <2>5 DEF BuiltItems
<1>4. CASE ~(x < Per * started) /\ started < opt_n_threads
  <2>1. CASE started = 0
    BY <1>1, <1>4, <2>1 DEF BuiltItems
  <2>2. CASE started # 0
    <3>1. started - 1 # opt_n_threads - 1
      BY <1>1, <1>4
    <3>2. RangeEnd(started - 1) = Per * (started - 1) + Per
      BY <3>1 DEF RangeEnd, RangeStart, RangeCount
    <3>3. Per * (started - 1) + Per = Per * started /\ Per * started \in Nat
      BY <1>1
    <3>4. x >= RangeEnd(started - 1)
      BY <1>1, <1>4, <3>2, <3>3
    <3> QED
      BY <1>1, <1>4, <2>2, <3>4 DEF BuiltItems
  <2> QED
    BY <2>1, <2>2
<1> QED
  BY <1>1, <1>2, <1>3, <1>4

-----------------------------------------------------------------------------
(* Types.                                                                  *)

LEMMA ParsedType == ASSUME NEW n \in Ids PROVE Parsed(n) \in Jobs /\ Parsed(n).id = Parsed(n).blob
  BY RandomXAssumption DEF Parsed, Jobs

LEMMA HalfParsedType ==
  ASSUME NEW n \in Ids, job \in Jobs PROVE HalfParsed(n) \subseteq Jobs
  BY RandomXAssumption DEF HalfParsed, Parsed, Jobs

LEMMA NoJob == ASSUME NEW j \in Jobs PROVE j # NULL
  BY NoJobAssumption

\* TypeOK with what it takes to be inductive.
Typed == TypeOK /\ NoJobYet /\ HasWork

LEMMA InitTyped == Init => Typed
<1> SUFFICES ASSUME Init PROVE Typed
  OBVIOUS
<1>1. TypeOK
  BY DEF Init, TypeOK, SPC, MinerPC
<1>2. NoJobYet /\ HasWork
  BY DEF Init, NoJobYet, HasWork
<1> QED
  BY <1>1, <1>2 DEF Typed

LEMMA SessionTyped == Typed /\ Session => Typed'
<1> SUFFICES ASSUME Typed, Session PROVE Typed'
  OBVIOUS
<1> USE DEF Typed
<1>1. CASE ResetSession
  <2>1. TypeOK'
    BY <1>1 DEF ResetSession, TypeOK, SPC, restart_threads, dsVars, workVars, minerVars
  <2> QED
    BY <1>1, <2>1 DEF ResetSession, NoJobYet, HasWork, TypeOK, dsVars, workVars, minerVars
<1>2. CASE SetNewJob
  <2>1. TypeOK'
    BY <1>2 DEF SetNewJob, TypeOK, SPC, dsVars, workVars, minerVars
  <2> QED
    BY <1>2, <2>1 DEF SetNewJob, NoJobYet, HasWork, TypeOK, dsVars, workVars, minerVars
<1>3. CASE CheckJob
  <2>1. TypeOK'
    BY <1>3 DEF CheckJob, TypeOK, SPC, restart_threads, dsVars, workVars, minerVars
  <2> QED
    BY <1>3, <2>1 DEF CheckJob, NoJobYet, HasWork, TypeOK, dsVars, workVars, minerVars
<1>4. CASE rx_seed_update
  <2>1. TypeOK'
    BY <1>4 DEF rx_seed_update, Prepared, TypeOK, SPC, workVars, minerVars
  <2> QED
    BY <1>4, <2>1 DEF rx_seed_update, NoJobYet, HasWork, TypeOK, workVars, minerVars
<1>5. CASE LockDataset
  <2>1. TypeOK'
    BY <1>5 DEF LockDataset, TypeOK, SPC, workVars, minerVars
  <2> QED
    BY <1>5, <2>1 DEF LockDataset, NoJobYet, HasWork, TypeOK, workVars, minerVars
<1>6. CASE rx_reseed
  <2>1. job \in Jobs /\ job.seed \in Seeds
    BY <1>6 DEF rx_reseed, TypeOK, Jobs
  <2>2. dataset' \in [Items -> Seeds \cup {NULL}]
    BY <1>6, <2>1 DEF rx_reseed, TypeOK
  <2>3. vm' \in [Threads -> {"none", "stale", "fresh"}]
    BY <1>6 DEF rx_reseed, TypeOK
  <2>4. TypeOK'
    BY <1>6, <2>1, <2>2, <2>3 DEF rx_reseed, TypeOK, SPC, workVars
  <2> QED
    BY <1>6, <2>4 DEF rx_reseed, NoJobYet, HasWork, TypeOK, workVars
<1>7. CASE EndReseed
  <2>1. TypeOK'
    BY <1>7 DEF EndReseed, Prepared, TypeOK, SPC, workVars, minerVars
  <2> QED
    BY <1>7, <2>1 DEF EndReseed, NoJobYet, HasWork, TypeOK, workVars, minerVars
<1>8. CASE PublishJob
  <2>1. job \in Jobs /\ job # NULL
    BY <1>8 DEF PublishJob, TypeOK
  <2>2. TypeOK'
    BY <1>8, <2>1 DEF PublishJob, stratum_gen_work, restart_threads, TypeOK, SPC, dsVars, minerVars
  <2> QED
    BY <1>8, <2>1, <2>2 DEF PublishJob, stratum_gen_work, NoJobYet, HasWork, minerVars
<1>9. ASSUME NEW n \in Ids, rx_stratum_login(n) PROVE Typed'
  <2>1. job' \in Jobs /\ job' # NULL
    BY <1>9, ParsedType, NoJob DEF rx_stratum_login
  <2>2. TypeOK'
    BY <1>9, <2>1 DEF rx_stratum_login, TypeOK, SPC, dsVars, workVars, minerVars
  <2> QED
    BY <1>9, <2>1, <2>2 DEF rx_stratum_login, NoJobYet, HasWork, workVars, minerVars
<1> QED
  BY <1>1, <1>2, <1>3, <1>4, <1>5, <1>6, <1>7, <1>8, <1>9 DEF Session

LEMMA PoolTyped == Typed /\ (Pool \/ RequestReset) => Typed'
<1> SUFFICES ASSUME Typed, Pool \/ RequestReset PROVE Typed'
  OBVIOUS
<1> USE DEF Typed
<1>1. ASSUME NEW n \in Ids, LoginFails(n) PROVE Typed'
  <2>1. job' = job \/ (job' \in Jobs /\ job # NULL)
    BY <1>1, HalfParsedType DEF LoginFails, TypeOK
  <2>2. job' = NULL => job = NULL
    BY <2>1, NoJob
  <2>3. TypeOK'
    BY <1>1, <2>1, RandomXAssumption
       DEF LoginFails, restart_threads, TypeOK, SPC, dsVars, workVars, minerVars
  <2> QED
    BY <1>1, <2>2, <2>3 DEF LoginFails, NoJobYet, HasWork, workVars, minerVars
<1>2. ASSUME NEW n \in Ids, rx_stratum_job(n) PROVE Typed'
  <2>1. job' \in Jobs /\ job' # NULL
    BY <1>2, ParsedType, NoJob DEF rx_stratum_job
  <2>2. TypeOK'
    BY <1>2, <2>1 DEF rx_stratum_job, TypeOK, SPC, dsVars, workVars, minerVars
  <2> QED
    BY <1>2, <2>1, <2>2 DEF rx_stratum_job, NoJobYet, HasWork, workVars, minerVars
<1>3. ASSUME NEW n \in Ids, BadJob(n) PROVE Typed'
  <2>1. job \in Jobs
    BY <1>3 DEF BadJob, TypeOK
  <2>2. job' \in Jobs /\ job' # NULL
    BY <1>3, <2>1, HalfParsedType, NoJob DEF BadJob
  <2>3. TypeOK'
    BY <1>3, <2>2, RandomXAssumption DEF BadJob, TypeOK, SPC, dsVars, workVars, minerVars
  <2> QED
    BY <1>3, <2>2, <2>3 DEF BadJob, NoJobYet, HasWork, workVars, minerVars
<1>4. CASE Lost
  <2>1. TypeOK'
    BY <1>4, RandomXAssumption DEF Lost, TypeOK, SPC, dsVars, workVars, minerVars
  <2> QED
    BY <1>4, <2>1 DEF Lost, NoJobYet, HasWork, workVars, minerVars
<1>5. CASE AllocFails
  <2>1. TypeOK'
    BY <1>5, RandomXAssumption DEF AllocFails, TypeOK, SPC, dsVars, workVars, minerVars
  <2> QED
    BY <1>5, <2>1 DEF AllocFails, NoJobYet, HasWork, workVars, minerVars
<1>6. CASE RequestReset
  <2>1. TypeOK'
    BY <1>6, RandomXAssumption DEF RequestReset, TypeOK, dsVars, workVars, minerVars
  <2> QED
    BY <1>6, <2>1 DEF RequestReset, NoJobYet, HasWork, workVars, minerVars
<1> QED
  BY <1>1, <1>2, <1>3, <1>4, <1>5, <1>6 DEF Pool

LEMMA MinerTyped == ASSUME Typed, NEW t \in Threads, Miner(t) PROVE Typed'
<1> USE DEF Typed
<1>1. CASE PoolUp(t)
  <2>1. g_work # NULL /\ job # NULL
    BY <1>1 DEF PoolUp, TypeOK, NoJobYet
  <2>2. pc' \in [Threads -> MinerPC]
    BY <1>1 DEF PoolUp, Goto, TypeOK, MinerPC
  <2>3. TypeOK'
    BY <1>1, <2>2 DEF PoolUp, TypeOK, sessionVars, dsVars, workVars
  <2>4. HasWork'
    BY <1>1, <2>1 DEF PoolUp, Goto, HasWork, TypeOK, workVars
  <2> QED
    BY <1>1, <2>1, <2>3, <2>4 DEF PoolUp, NoJobYet, sessionVars
<1>2. CASE RollWork(t)
  <2>1. job \in Jobs /\ job # NULL
    BY <1>2 DEF RollWork, Goto, TypeOK, NoJobYet
  <2>2. pc' \in [Threads -> MinerPC]
    BY <1>2 DEF RollWork, Goto, TypeOK, MinerPC
  <2>3. rolled' \in BOOLEAN
    BY <1>2, Zenon DEF RollWork
  <2>4. TypeOK'
    BY <1>2, <2>1, <2>2, <2>3
       DEF RollWork, stratum_gen_work, restart_threads, TypeOK, sessionVars, dsVars
  <2>5. HasWork'
    BY <1>2, <2>1 DEF RollWork, stratum_gen_work, Goto, HasWork, TypeOK
  <2> QED
    BY <1>2, <2>1, <2>4, <2>5 DEF RollWork, NoJobYet, sessionVars
<1>3. CASE rx_get_new_work(t)
  <2>1. g_work # NULL /\ job # NULL
    BY <1>3 DEF rx_get_new_work, Goto, HasWork, NoJobYet, TypeOK
  <2>2. pc' \in [Threads -> MinerPC] /\ work' \in [Threads -> Jobs \cup {NULL}]
    BY <1>3 DEF rx_get_new_work, Goto, TypeOK, MinerPC
  <2>3. restart' \in [Threads -> BOOLEAN]
    BY <1>3 DEF rx_get_new_work, TypeOK
  <2>4. TypeOK'
    BY <1>3, <2>2, <2>3 DEF rx_get_new_work, TypeOK, sessionVars, dsVars, workVars
  <2>5. HasWork'
    BY <1>3, <2>1 DEF rx_get_new_work, Goto, HasWork, TypeOK, workVars
  <2> QED
    BY <1>3, <2>1, <2>4, <2>5 DEF rx_get_new_work, NoJobYet, sessionVars
<1>4. ASSUME NEW p \in {"scan", "lock", "hash"}, BackToTop(t, p), 
             UNCHANGED <<sessionVars, new_job, workVars, vm>>,
             restart_threads \/ UNCHANGED restart
      PROVE  Typed'
  <2>1. pc' \in [Threads -> MinerPC] /\ work' \in [Threads -> Jobs \cup {NULL}]
    BY <1>4 DEF BackToTop, Goto, TypeOK, MinerPC
  <2>2. restart' \in [Threads -> BOOLEAN]
    BY <1>4 DEF restart_threads, TypeOK
  <2>3. TypeOK'
    BY <1>4, <2>1, <2>2 DEF TypeOK, sessionVars, dsVars, workVars
  <2>4. HasWork'
    BY <1>4 DEF BackToTop, Goto, HasWork, TypeOK, workVars
  <2>5. NoJobYet'
    BY <1>4 DEF BackToTop, Goto, NoJobYet, TypeOK, sessionVars
  <2> QED
    BY <2>3, <2>4, <2>5
<1>5. CASE DontMine(t)
  BY <1>4, <1>5 DEF DontMine
<1>6. ASSUME NEW p \in {"scan", "lock"}, NEW q \in {"lock", "hash"}, Goto(t, p, q),
             vm' \in [Threads -> {"none", "stale", "fresh"}],
             UNCHANGED <<sessionVars, new_job, workVars, work, restart>>
      PROVE  Typed'
  <2>1. pc' \in [Threads -> MinerPC]
    BY <1>6 DEF Goto, TypeOK, MinerPC
  <2>2. TypeOK'
    BY <1>6, <2>1 DEF TypeOK, sessionVars, dsVars, workVars
  <2>3. HasWork'
    BY <1>6 DEF Goto, HasWork, TypeOK, workVars
  <2>4. NoJobYet'
    BY <1>6 DEF Goto, NoJobYet, TypeOK, sessionVars
  <2> QED
    BY <2>2, <2>3, <2>4
<1>7. CASE StandOff(t)
  <2>1. CASE rx_reseed_pending
    BY <1>4, <1>7, <2>1 DEF StandOff
  <2>2. CASE ~rx_reseed_pending
    BY <1>6, <1>7, <2>2 DEF StandOff, TypeOK
  <2> QED
    BY <2>1, <2>2
<1>8. CASE rx_vm_get(t)
  <2>1. vm' \in [Threads -> {"none", "stale", "fresh"}]
    BY <1>8 DEF rx_vm_get, TypeOK
  <2> QED
    BY <1>6, <1>8, <2>1 DEF rx_vm_get
<1>9. CASE NoVm(t) \/ EndScan(t)
  BY <1>4, <1>9 DEF NoVm, EndScan
<1> QED
  BY <1>1, <1>2, <1>3, <1>5, <1>7, <1>8, <1>9 DEF Miner

LEMMA StepTyped == Typed /\ [Next]_vars => Typed'
<1>1. ASSUME Typed, UNCHANGED vars PROVE Typed'
  BY <1>1 DEF Typed, TypeOK, NoJobYet, HasWork, vars, dsVars, workVars, minerVars
<1> QED
  BY <1>1, SessionTyped, PoolTyped, MinerTyped DEF Next

\* Every variable of the session, of the dataset and of the mining threads keeps its
\* type; who scans has work, and nobody is let in before the first job.
THEOREM TypeCorrect == Spec => []TypeOK
<1>1. Typed => TypeOK
  BY DEF Typed
<1> QED
  BY <1>1, InitTyped, StepTyped, PTL DEF Spec

LEMMA TypedAlways == Spec => []Typed
  BY InitTyped, StepTyped, PTL DEF Spec

-----------------------------------------------------------------------------
(* The dataset under the scans.                                            *)

\* The steps that neither build nor take the read lock.
LEMMA DatasetLeftAlone ==
  ASSUME Readers, WholeDataset, UNCHANGED <<rx_seed, dataset, vm>>,
         spc = "build" <=> spc' = "build",
         \A t \in Threads : pc'[t] = "hash" => pc[t] = "hash"
  PROVE  Readers' /\ WholeDataset'
  BY DEF Readers, WholeDataset

LEMMA StepDataset ==
  Typed /\ Readers /\ WholeDataset /\ [Next]_vars => Readers' /\ WholeDataset'
<1> SUFFICES ASSUME Typed, Readers, WholeDataset, [Next]_vars PROVE Readers' /\ WholeDataset'
  OBVIOUS
<1>1. CASE LockDataset
  BY <1>1 DEF LockDataset, Readers, WholeDataset, minerVars
<1>2. CASE rx_reseed
  <2>1. PICK started \in 0 .. opt_n_threads :
          dataset' = [x \in Items |-> IF x \in BuiltItems(started) THEN job.seed ELSE dataset[x]]
    BY <1>2 DEF rx_reseed
  <2>2. \A x \in Items : dataset'[x] = rx_seed'
    BY <1>2, <2>1, EveryItemBuilt DEF rx_reseed
  <2>3. \A t \in Threads : pc'[t] # "hash"
    BY <1>2 DEF rx_reseed, Readers
  <2> QED
    BY <2>2, <2>3 DEF Readers, WholeDataset
<1>3. ASSUME NEW t \in Threads, rx_vm_get(t) PROVE Readers' /\ WholeDataset'
  <2>1. /\ UNCHANGED <<spc, rx_seed, dataset>> /\ spc # "build" /\ rx_seed # NULL
        /\ pc' = [pc EXCEPT ![t] = "hash"] /\ vm' = [vm EXCEPT ![t] = "fresh"]
    BY <1>3 DEF rx_vm_get, Goto, sessionVars, dsVars
  <2>2. pc \in [Threads -> MinerPC] /\ vm \in [Threads -> {"none", "stale", "fresh"}]
    BY DEF Typed, TypeOK
  <2> QED
    BY <2>1, <2>2 DEF Readers, WholeDataset
<1>4. CASE ResetSession
  BY <1>4, DatasetLeftAlone DEF ResetSession, dsVars, minerVars
<1>5. CASE SetNewJob
  BY <1>5, DatasetLeftAlone DEF SetNewJob, dsVars, minerVars
<1>6. CASE CheckJob
  BY <1>6, DatasetLeftAlone DEF CheckJob, dsVars, minerVars
<1>7. CASE rx_seed_update
  BY <1>7, DatasetLeftAlone DEF rx_seed_update, Prepared, minerVars
<1>8. CASE EndReseed
  BY <1>8, DatasetLeftAlone DEF EndReseed, Prepared, minerVars
<1>9. CASE PublishJob
  BY <1>9, DatasetLeftAlone DEF PublishJob, dsVars, minerVars
<1>10. CASE Pool \/ RequestReset \/ \E n \in Ids : rx_stratum_login(n)
  <2>1. /\ UNCHANGED <<rx_seed, dataset, vm, pc>>
        /\ spc = "build" <=> spc' = "build"
    BY <1>10 DEF Pool, RequestReset, rx_stratum_login, LoginFails, rx_stratum_job, BadJob, Lost,
                 AllocFails, dsVars, minerVars
  <2> QED
    BY <2>1, DatasetLeftAlone
<1>11. ASSUME NEW t \in Threads, Miner(t), ~rx_vm_get(t) PROVE Readers' /\ WholeDataset'
  <2>1. UNCHANGED <<rx_seed, dataset, vm, spc>>
    BY <1>11 DEF Miner, PoolUp, RollWork, rx_get_new_work, DontMine, StandOff, NoVm, EndScan,
                 sessionVars, dsVars
  <2>2. \E q \in {"top", "roll", "take", "scan", "lock"} : pc' = [pc EXCEPT ![t] = q]
    BY <1>11 DEF Miner, PoolUp, RollWork, rx_get_new_work, DontMine, StandOff, NoVm, EndScan,
                 BackToTop, Goto
  <2>3. \A u \in Threads : pc'[u] = "hash" => pc[u] = "hash"
    BY <2>2 DEF Typed, TypeOK
  <2> QED
    BY <2>1, <2>3, DatasetLeftAlone
<1>12. CASE UNCHANGED vars
  BY <1>12, DatasetLeftAlone DEF vars, dsVars, minerVars
<1> QED
  BY <1>1, <1>2, <1>3, <1>4, <1>5, <1>6, <1>7, <1>8, <1>9, <1>10, <1>11, <1>12
     DEF Next, Session

\* A scan reads a whole dataset of one seed, through a VM made for it, that no rebuild
\* touches: for any number of items and of building threads, created or not.
THEOREM ScansReadWholeDataset == Spec => []HashesWholeDataset
<1>1. Init => Readers /\ WholeDataset
  BY DEF Init, Readers, WholeDataset
<1>2. Readers /\ WholeDataset => HashesWholeDataset
  BY DEF Readers, WholeDataset, HashesWholeDataset
<1> QED
  BY <1>1, <1>2, StepDataset, TypedAlways, PTL DEF Spec

-----------------------------------------------------------------------------
(* What the stratum thread publishes.                                      *)

Whole == JobKept /\ PublishedJobWhole

LEMMA StepWhole == Typed /\ Whole /\ [Next]_vars => Whole'
<1> SUFFICES ASSUME Typed, Whole, [Next]_vars PROVE Whole'
  OBVIOUS
<1> USE DEF Whole, JobKept, PublishedJobWhole
<1>1. CASE ResetSession
  BY <1>1 DEF ResetSession, workVars
<1>2. CASE SetNewJob
  BY <1>2 DEF SetNewJob, workVars, Typed, TypeOK
<1>3. CASE CheckJob
  BY <1>3 DEF CheckJob, workVars, Typed, TypeOK
<1>4. CASE rx_seed_update
  BY <1>4 DEF rx_seed_update, Prepared, workVars
<1>5. CASE LockDataset
  BY <1>5 DEF LockDataset, workVars
<1>6. CASE rx_reseed
  BY <1>6 DEF rx_reseed, workVars
<1>7. CASE EndReseed
  BY <1>7 DEF EndReseed, Prepared, workVars
<1>8. CASE PublishJob
  BY <1>8 DEF PublishJob, stratum_gen_work
<1>9. ASSUME NEW n \in Ids, rx_stratum_login(n) \/ rx_stratum_job(n) PROVE Whole'
  BY <1>9, ParsedType DEF rx_stratum_login, rx_stratum_job, workVars
<1>10. ASSUME NEW n \in Ids, LoginFails(n) \/ BadJob(n) PROVE Whole'
  BY <1>10 DEF LoginFails, BadJob, workVars
<1>11. CASE Lost \/ AllocFails \/ RequestReset
  BY <1>11 DEF Lost, AllocFails, RequestReset, workVars
<1>12. ASSUME NEW t \in Threads, RollWork(t) PROVE Whole'
  <2>1. JobKept'
    BY <1>12 DEF RollWork, stratum_gen_work, sessionVars
  <2>2. PublishedJobWhole'
    <3>1. CASE job # g_work
      BY <1>12, <3>1 DEF RollWork
    <3>2. CASE job = g_work
      BY <1>12, <3>2 DEF RollWork, stratum_gen_work
    <3> QED
      BY <3>1, <3>2
  <2> QED
    BY <2>1, <2>2
<1>13. ASSUME NEW t \in Threads, Miner(t), ~RollWork(t) PROVE Whole'
  BY <1>13 DEF Miner, PoolUp, rx_get_new_work, DontMine, StandOff, rx_vm_get, NoVm, EndScan,
               sessionVars, workVars
<1>14. CASE UNCHANGED vars
  BY <1>14 DEF vars, workVars
<1> QED
  BY <1>1, <1>2, <1>3, <1>4, <1>5, <1>6, <1>7, <1>8, <1>9, <1>10, <1>11, <1>12, <1>13, <1>14
     DEF Next, Session, Pool

\* What the stratum thread publishes is one job of the pool, never the remains of a job
\* that rx_parse_job refused half-way, whatever became of the jobs before it.
THEOREM JobsPublishedWhole == Spec => []PublishedJobWhole
<1>1. Init => Whole
  BY DEF Init, Whole, JobKept, PublishedJobWhole
<1>2. Whole => PublishedJobWhole
  BY DEF Whole
<1> QED
  BY <1>1, <1>2, StepWhole, TypedAlways, PTL DEF Spec

-----------------------------------------------------------------------------
(* The work feed.                                                          *)

\* What a thread is scanning, as WorkFeed sees it.
Scanning == {"scan", "lock", "hash"}
Scanned == [t \in Threads |-> IF pc[t] \in Scanning THEN work[t] ELSE NULL]

\* A step that leaves g_work and the scans as they are and clears no flag.
LEMMA FeedTell ==
  ASSUME Typed, UNCHANGED <<g_work, pc, work>>, restart_threads \/ UNCHANGED restart
  PROVE  Feed!Tell
<1>1. Feed!FlagsUp
  BY DEF Feed!FlagsUp, restart_threads, Typed, TypeOK
<1> QED
  BY <1>1 DEF Feed!Tell

\* g_work replaced, and every flag set.
LEMMA FeedInstall ==
  ASSUME Typed, stratum_gen_work, job \in Jobs, Scanned' = Scanned
  PROVE  Feed!Install
<1>1. restart' = [t \in Threads |-> TRUE] /\ g_work' \in Jobs
  BY DEF stratum_gen_work, restart_threads
<1>2. Feed!FlagsUp
  BY <1>1 DEF Feed!FlagsUp, Typed, TypeOK
<1> QED
  BY <1>1, <1>2 DEF Feed!Install, Scanned, Scanning

\* A scan given up or ended.
LEMMA FeedStop ==
  ASSUME Typed, NEW t \in Threads, NEW p \in Scanning, BackToTop(t, p), UNCHANGED g_work,
         restart_threads \/ UNCHANGED restart
  PROVE  Feed!Stop(t)
<1>1. Feed!FlagsUp
  BY DEF Feed!FlagsUp, restart_threads, Typed, TypeOK
<1>2. Scanned[t] # NULL
  BY DEF Scanned, Scanning, BackToTop, Goto, Typed, TypeOK, HasWork
<1>3. Scanned' = [Scanned EXCEPT ![t] = NULL]
  BY DEF Scanned, Scanning, BackToTop, Goto, Typed, TypeOK
<1> QED
  BY <1>1, <1>2, <1>3 DEF Feed!Stop, Scanned, Scanning

LEMMA FeedTake == ASSUME Typed, NEW t \in Threads, rx_get_new_work(t) PROVE Feed!Take(t)
<1>1. Scanned' = [Scanned EXCEPT ![t] = g_work]
  BY DEF Scanned, Scanning, rx_get_new_work, Goto, workVars, Typed, TypeOK
<1>2. restart' = [restart EXCEPT ![t] = FALSE] /\ g_work' = g_work
  BY DEF rx_get_new_work, workVars
<1> QED
  BY <1>1, <1>2 DEF Feed!Take, Scanned, Scanning

LEMMA StepFeed == Typed /\ [Next]_vars => [Feed!Next]_(Feed!vars)
<1> SUFFICES ASSUME Typed, [Next]_vars PROVE Feed!Next \/ UNCHANGED Feed!vars
  OBVIOUS
<1>1. CASE PublishJob
  <2>1. job \in Jobs /\ Scanned' = Scanned
    BY <1>1 DEF PublishJob, Typed, TypeOK, minerVars, Scanned
  <2> QED
    BY <1>1, <2>1, FeedInstall DEF PublishJob, Feed!Next
<1>2. CASE ResetSession \/ SetNewJob \/ CheckJob \/ rx_seed_update \/ LockDataset \/ rx_reseed
           \/ EndReseed
  <2>1. UNCHANGED <<g_work, pc, work>> /\ (restart_threads \/ UNCHANGED restart)
    BY <1>2 DEF ResetSession, SetNewJob, CheckJob, rx_seed_update, LockDataset, rx_reseed, EndReseed,
                workVars, minerVars
  <2> QED
    BY <2>1, FeedTell DEF Feed!Next
<1>3. CASE Pool \/ RequestReset \/ \E n \in Ids : rx_stratum_login(n)
  <2>1. UNCHANGED <<g_work, pc, work>> /\ (restart_threads \/ UNCHANGED restart)
    BY <1>3 DEF Pool, RequestReset, rx_stratum_login, LoginFails, rx_stratum_job, BadJob, Lost,
                AllocFails, workVars, minerVars
  <2> QED
    BY <2>1, FeedTell DEF Feed!Next
<1>4. ASSUME NEW t \in Threads, RollWork(t) PROVE Feed!Next
  <2>1. job \in Jobs
    BY <1>4 DEF RollWork, Goto, Typed, TypeOK, NoJobYet
  <2>2. Scanned' = Scanned
    BY <1>4 DEF RollWork, Goto, Typed, TypeOK, Scanned, Scanning
  <2> QED
    BY <1>4, <2>1, <2>2, FeedInstall DEF RollWork, Feed!Next
<1>5. ASSUME NEW t \in Threads, rx_get_new_work(t) PROVE Feed!Next
  BY <1>5, FeedTake DEF Feed!Next
<1>6. ASSUME NEW t \in Threads, NEW p \in Scanning, BackToTop(t, p), UNCHANGED g_work,
             restart_threads \/ UNCHANGED restart
      PROVE  Feed!Next
  BY <1>6, FeedStop DEF Feed!Next
<1>7. ASSUME NEW t \in Threads, DontMine(t) \/ NoVm(t) \/ EndScan(t) PROVE Feed!Next
  BY <1>6, <1>7 DEF DontMine, NoVm, EndScan, Scanning, workVars
<1>8. ASSUME NEW t \in Threads, PoolUp(t) \/ rx_vm_get(t) PROVE UNCHANGED Feed!vars
  <2>1. Scanned' = Scanned
    BY <1>8 DEF PoolUp, rx_vm_get, Goto, Typed, TypeOK, Scanned, Scanning
  <2> QED
    BY <1>8, <2>1 DEF PoolUp, rx_vm_get, workVars, Scanned, Scanning, Feed!vars
<1>9. ASSUME NEW t \in Threads, StandOff(t) PROVE Feed!Next \/ UNCHANGED Feed!vars
  <2>1. CASE rx_reseed_pending
    BY <1>6, <1>9, <2>1 DEF StandOff, Scanning, workVars
  <2>2. CASE ~rx_reseed_pending
    <3>1. Scanned' = Scanned
      BY <1>9, <2>2 DEF StandOff, Goto, Typed, TypeOK, Scanned, Scanning
    <3> QED
      BY <1>9, <3>1 DEF StandOff, workVars, Scanned, Scanning, Feed!vars
  <2> QED
    BY <2>1, <2>2
<1>10. CASE UNCHANGED vars
  BY <1>10 DEF vars, minerVars, workVars, Feed!vars
<1> QED
  BY <1>1, <1>2, <1>3, <1>4, <1>5, <1>7, <1>8, <1>9, <1>10 DEF Next, Session, Miner

\* The session and the rebuild implement the work feed: no thread goes on with replaced
\* work untold, for any number of threads and however long a rebuild takes.
THEOREM ImplementsFeed == Spec => FeedSpec
<1>1. Init => Feed!Init
  BY DEF Init, Feed!Init
<1> QED
  BY <1>1, StepFeed, TypedAlways, PTL DEF Spec, FeedSpec, Feed!Spec
=============================================================================
