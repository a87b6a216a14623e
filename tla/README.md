# TLA+ verification of cpuminer-opt

cpuminer-opt is a multi-threaded CPU miner: a handful of threads share work, statistics and one
table of function pointers (the algorithm gate), talk to a pool or a node, and are steered at run
time through a REST API. This directory holds TLA+ models of the parts of the program in which
those threads meet, the TLC configurations that check them on small instances, and TLAPS proofs of
the properties that matter most for every instance. Everything is translated from the C source;
`PROJECT.json` maps each definition to the lines it models.

## 1. The system

| Component | Source | State | Operations |
|---|---|---|---|
| Runtime control API | `api_control.c`, routes in `api_routes.c` | `ctl_state`, `ctl_epoch`, park request and flags, free/init generations, stored parameters | start, pause, stop, profile; park, free, register, init, rollback |
| Mining loop | `cpu-miner.c` `miner_thread`, `std_get_new_work` | position, `work_restart`, private work and nonce range, buffers | take work, scan, submit, park |
| Share accounting | `cpu-miner.c` `update_submit_stats`, `share_result`, `api_reset_session_stats`, `api_model.c` | ring of 8 share records, counters per process and per thread | submit, reply, reset |
| Stratum session | `cpu-miner.c` `stratum_thread`, `stratum_gen_work`, `util.c` `stratum_*` | connection, job, extranonce2, `stratum_down`, `stratum_need_reset`, `g_work` | connect, subscribe, notify, generate work, reset |
| getwork/GBT | `cpu-miner.c` `workio_thread`, `get_work`, `submit_work`, `util.c` `tq_*` | thread queues, protocol flags, `g_work` | fetch, submit, retry, fall back |
| Long polling | `cpu-miner.c` `longpoll_thread` | none: `want_longpoll` is false (`cpu-miner.c:239`) and nothing sets it | unreachable |
| RandomX dataset | `algo/randomx/randomx-vm.c`, `-gate.c`, `-stratum.c` | seed, dataset and its lock, reseed flag, VM per thread, the job of the Monero dialect | login, job, seed update, rebuild, scan |
| API server and model | `api.c`, `api_http.c`, `api_model.c`, `api_metrics.c`, `api_routes.c` | history rings, monotone counters | requests, one at a time |
| System information | `sysinfos.c` | none | sensor reads |
| Hash algorithms | `algo/`, `simd-utils/` | thread buffers | pure functions |
| Vendored code | `compat/` | | |

Threads and what they share:

* **N mining threads** read `g_work` under a read lock, clear their own restart flag, ask the
  control API whether to run, scan, and submit from inside `scanhash`.
* The **stratum thread** owns the connection, installs work under the write lock and tells everybody
  to restart; it declares the pool up or down through the unlocked `stratum_down`.
* The **workio thread** serves the requests of the mining threads, one at a time, from a thread queue;
  without a pool it talks to a node, with a pool it only submits.
* The threads that **build the RandomX dataset** live for one rebuild, started and awaited by the
  stratum thread.
* The **API thread** serves one HTTP request at a time; a mutation runs on it to completion.

What is hard here: the control handshake is plain shared memory without locks; pool resets race
replies, submissions and new jobs; share records are matched to replies by order alone; every wait
has a time limit and every failure a rollback.

### What would make each component correct

* **Runtime control.** No kernel runs while the gate is rewritten; buffers are freed under the
  algorithm that allocated them and allocated before a thread hashes; a park request reaches a thread
  that is inside a long scan; every mutation is answered, ends in a stable state and, when it fails,
  leaves things as it found them; a paused miner is quiet.
* **Share accounting.** An answer is credited once, to the thread that found the share; ring pointers
  stay in the ring; totals that outlive a session keep what they have carried, never count a share
  twice and miss none.
* **Stratum session.** Nobody scans replaced work unaware; no work is handed out twice; no change of
  the pool is lost or without effect; no reset, lost connection or used-up nonce range leaves a
  mining thread waiting for ever.
* **Mining loop.** The threads' nonce ranges are disjoint and within 32 bits, the overshoot of the
  last batch included, and no nonce of a work is hashed twice.
* **getwork/GBT.** Whoever waits for work under the write lock gets it or the miner ends; a solved
  block is not mined on again and not spoilt by a retry; the fallback between the two protocols has no
  dead end.
* **RandomX dataset.** A scan reads one whole dataset that nobody changes under it, the one of its work's
  seed; no job that was refused half-way is published; a rebuild is not starved.
* **Whoever makes work.** A thread that scans replaced work has been told (`WorkFeed`).
* **API model.** The history ring keeps the newest samples in order across its wrap.

`PROJECT.json` lists the hazards behind these properties, line by line.

## 2. Plan and modules

| Order | Module | Models | State |
|---|---|---|---|
| 1 | `Control`, `MCControl`, `ControlProofs` | `api_control.c`, the routes into it and the part of `miner_thread` that answers it | done |
| 1a | `Settings` | abstract: what a manager is promised about a mutation; implemented by `Control` | done |
| 2 | `ShareStats`, `MCShareStats`, `ShareStatsProofs` | the share record's way from `submit_solution` to the published totals | done |
| 3 | `Stratum`, `MCStratum`, `StratumProofs` | `stratum_thread`, `stratum_gen_work`, the session's messages, the mining loop's side, the API's change of pool | done for Bitcoin-style jobs |
| 4 | `WorkFeed`, `WorkFeedProofs` | abstract: what the mining threads are promised about their work; implemented by `Stratum`, `RandomX` and `WorkIO` | done |
| 5 | `RandomX`, `MCRandomX`, `RandomXProofs` | the rebuild of the dataset, the Monero dialect of the session, the scans that read the dataset | done |
| 6 | `WorkIO`, `MCWorkIO`, `WorkIOProofs` | `workio_thread`, `get_work`, `submit_work`, the thread queues, the fallback, retries | done |
| 7 | `Nonce`, `MCNonce`, `NonceProofs` | `std_get_new_work`'s ranges, portions and scan loops in the arithmetic of the word | done |
| 8 | composition of `Stratum` and `Control` | a profile that changes pool and algorithm at once: which job the resumed threads hash | left |
| 9 | `History` | the sample rings of `api_model.c` and their merge, against "the newest n samples" | left |

Each component is one module: constants with named assumptions, one action per step, and its
properties at the end. `MC*` extends it with the small instance, `*Proofs` extends it with the
theorems. No module uses a `RECURSIVE` operator. `Control` contains a coarse stratum thread (lose,
reset, release) and `Stratum` a coarse control API (change of pool, stop), each fair game for any
interleaving; step 8 would replace both by the real ones. It is left because the product of the two
state spaces is beyond five minutes of TLC at the smallest instance that has the interesting case
(two pools, two algorithms, a switch inside a reconnection); what one side needs of the other is
already an arbitrary environment in both. `History` is sequential under one lock. Definitions named `Mutant` in a comment are wrong
on purpose: each replaces one definition to show that a property can fail.

## 3. Control

**State.** The variables keep the names of the C globals: `ctl_state`, `ctl_epoch`, the park request
and the per-thread parked flags, the free and init generations and the threads' acknowledgements,
`opt_algo`, the sticky parameters `ctl_stored` (one value stands for n, r, key and data_file),
`rpc_url`, `stratum_down`, `stratum_need_reset`. `algo_gate` is the registered configuration, `NULL`
while `register_algo_gate` rewrites it; `buf[t]` is the configuration a thread's buffers were
allocated for.

**Actions.** A mining thread takes work and clears its flag (`TakeWork`), reads the request
(`ReadParkRequest`) and the state (`ReadState`), and only then stores its parked flag (`AckParked`,
`AckRunning`); while parked it serves free and init generations (`ServiceFree`, `ServiceFreeAck`,
`ServiceInitAck`, `ServiceInit`). These are separate steps because they are separate unlocked
accesses. The API thread runs `SetState` or `RequestProfile` and then one step per shared access of
`park_all`, `params_store`, `switch_algo`, the pool change, the commit, the rollback and
`unpark_all`. `Faults` says which failures may happen: a wait timing out, a refused registration, a
refused memory check, a failed allocation, and the algorithm to put back failing to register
(`RestoreGate`). The code answers the last one with a log line, "mining is stopped", and goes on
(`api_control.c:492`, `533`): the gate is then that of no algorithm (`HalfGate`: the defaults, and what
the registration had set before it failed) and the threads are released on it.

**Runs.** `control_safety` (two threads, up to two requests and two switches, four profile shapes;
registrations, memory checks and restorations may fail): buffers follow the gate, nobody hashes between
the two phases of a handover, no park request is slept through, the gate is that of the reported
algorithm or of none, and the whole of it implements `Settings`. `control_live` (one thread, up to two
requests, all five failures): no kernel races the swap, no mutation leaves `SWITCHING`, a failed one
keeps state, pool and parameters, every request is answered and a lasting pause stops hashing. One
thread is enough for the failures of a wait, since the wait fails as soon as one thread is late; the
proofs cover any number. Two disagreements with the text of the repository. `control_refused`: a refused
switch resumes threads whose buffers were freed, because the rollback's test `opt_algo != prev_algo` is
false by then (`api_control.c:716`). `control_half`: the rollback ignores the result of its own
`switch_algo` (`api_control.c:718`). If the pool is lost between the two phases, the threads sit in the
`stratum_down` wait, the init wait and the rollback's free wait both time out, and the request is
answered with a failure while the new algorithm stays, with the old pool and parameters;
`docs/api-rest.md:514` says "A half-switched miner is never a possible outcome".

`HandoverComplete` is `HashingHasBuffers` for as long as every switch that had buffers freed went on to
have them allocated (`EveryFreeFollowed`); a refusal ends that, and `control_refused` shows what follows
it.

**Settings.** `docs/api-rest.md` calls a profile "one atomic change of algorithm, parameters, pool and
run state". `Settings` is that promise: a request is carried out in one step that raises the epoch
(`Apply`), or refused in one that changes nothing (`Abort`), or answered without either (`Answer`).
`ChangeIsAtomic` is its specification under a refinement mapping: from the moment a mutation enters
`SWITCHING` until it has landed, the settings are the saved ones, with the saved parameter in the place
of the one that `params_store` may have written. `Commit` is then `Apply`, `RestoreState` is `Abort`,
and every other step of the handshake stutters. The property is
checked, and proved, for waits that are met: with a timeout in the rollback it fails, as `control_half`
shows.

**Fairness.** `WF` of the API thread's steps, timeouts among them, and of each mining thread: the
operating system runs every thread, and every wait of the API thread has a time limit. Nothing is
assumed of the pool or of the manager.

**Proofs** (`ControlProofs`). From `ControlAssumption` only, for any number of threads, algorithms and
requests: `TypeCorrect`; `SwapSafe`, `ParkIsHeard` and `MutationsLand`, from one inductive invariant
`HandshakeInv`, which says that the gate is only rewritten after every thread acknowledged the
current free generation, that a thread that acknowledged it stays in the parked loop until the
release, and that a thread still scanning once the threads were woken has its flag set. The parked
flags do not occur in it: they may be stale, and the free generation is what protects the swap.
`BuffersFollowGate` assumes `"timeout" \notin Faults`, `NoHashBetweenPhases` that no allocation fails
either. The latter needs `MissingBuffers` (who has no buffers has an init generation to serve before it
resumes), `FreesLead` and `NoRefusal`: the free generation is ahead of the init generation by the switch
under way, and once one was refused by one more for ever.

`RollbackRestores` and `NameMatchesGate` hold whatever fails or times out, `MutationsAreAtomic` assumes
`"timeout" \notin Faults`. They rest on `ChangeInv`, which says for each position of the API thread which
settings are still the ones it found and which are the new ones already: nothing is changed up to `store`
(`NothingYet`); on the way forward the parameter is the new one, and the algorithm too once its buffers
were freed, except in `restore` (`Forward`); on the way back parameter and pool are the old ones and the
algorithm is, unless a wait was late (`Backward`, `Undoing`); at the commit everything is new (`Done`).
`NamedGate` follows the gate through the two positions in which it is absent. `MutationsAreAtomic` shows
that the initial states and every step map to those of `Settings`; `EpochTells` draws from it what a
manager relies on: if no wait times out, algorithm, parameters, pool and run state stand still as long as
the epoch does. The liveness properties and the disagreements are model-checked only.

**Seen while modelling, without a run of their own.** `park_all` does not clear the parked flags of an
earlier park (`api_control.c:142`): after a pause, a start and a pause, the second pause may be
answered while a thread that has not looked yet is still hashing. A thread whose allocation failed acknowledges
the init generation like the others (`api_control.c:81`), so `HashingHasBuffers` fails with "init" in
`Faults`. When a
switch is refused, `switch_algo` registers the previous algorithm again while the globals still hold
the parameters loaded for the refused one (`api_control.c:533`); without parameters in the request
nothing loads the old ones back. After a timeout a late thread may serve a free
and an init generation of two different switches in one visit (`api_control.c:77`).

## 4. ShareStats

**State.** The ring `share_stats` with its two pointers, the share each mining thread has in hand,
the workio queue, the shares on the wire, `share_result`'s position and locals, the session's
counters, the per-thread counters, the progress of `api_reset_session_stats` (it stores its zeroes
one by one and without a lock), and base, last and total that `api_mono_update` keeps per result.
`lifetime` and `credited` are history variables.

**Actions.** `FindShare`, `submit_work`, `Record` follow `submit_solution`: the share is queued first
and recorded afterwards; `SendVeil` is the variant that records first. A run mixes both, share by share,
although a process uses one at a time: an algorithm switch may change it. `submit_upstream_work` is the
workio thread; `TakeRecord`, `CountResult`, `StoreCount`, `CreditThread` are `share_result` on the
stratum thread; `StratumReset` rewinds the pointers over the slots, and `StratumResetRaces` does so
between the two stores of a record. In a build with `torn`, an increment is a load and a store, with the
session reset possibly between them. A poll of the API reads every counter twice, without a lock:
`CarryTotals` for the carry, `api_mono_update` for the totals it publishes, and answers are counted in
between. The session reset does not come in between, for it runs on the same API thread.

**Run.** `share_ring`: a ring of two slots, two threads and three shares, so that it overflows, one reset
and one algorithm switch, both kinds of build. A smaller ring than the eight slots of the code reaches
the same states sooner; the proofs cover every size. The pool rejects in this run, because a rejection
takes every path the other answers take and one more, the exit after too many of them.

**Proofs** (`ShareStatsProofs`). `TypeCorrect`; `NoDoubleCredit`, from the invariant that a record is
in one place at a time: in a hand, in one slot, in `share_result` or credited;
`TotalsKeepWhatIsCarried`, from `TotalKeepsUp`, torn increments included: between the two reads of a poll
a counter does not fall below what was carried, and no poll undoes the carry of an earlier one;
`TotalsNeverOverstate`, for builds in which an increment is one instruction, from `Ledger`: either the
counter only grew since the last poll, or it was reset, and then its value at the poll and its value now
are different shares. In the other builds a torn increment brings a zeroed counter back and the total
counts twice.

**Seen while modelling.** A published total can go down. What is counted between the two reads of a poll
is published and not carried; if the session is reset before the next poll, the next total is lower
(`api_model.c:58`, `64`), although `docs/api-rest.md:759` calls it "process-lifetime monotonic" and the
comment at `api_model.c:41` says that "a counter that decreases corrupts rate()". `MonoKeepsCarried`
says what does hold: totals never fall below what was carried. Answers are matched to records by order
alone, and a share is queued before it is recorded: two threads that submit at the same time may swap
credits (`cpu-miner.c:2245`). What is counted between the last poll of the API and a switch is missing
from the totals that outlive a session (`api_model.c:48`). After a rewind the slots keep their records
(`cpu-miner.c:3405`), and the ring does not come back into step with the answers by itself, although the
comment at `cpu-miner.c:1251` says it self-clears; the session reset runs while the stratum thread, which
is not parked, may be in `share_result` (`api_control.c:569`).

## 5. Stratum

**State.** `rpc_url` (wanted) and `url` (in use), the connection, session id and extranonce1, the job,
`new_job`, the next extranonce2, `g_work`, the stratum thread's position and failure count, and for
each mining thread its position, its work, whether its range is used up and its restart flag. A job
is its pool, the extranonce1 it is built with and its id, because two pools, or two sessions, may use
the same id; work is a job and an extranonce2. `announced`, `issued`, `wrapped` and `redirected` are
history variables.

**Actions.** The stratum thread: `Top`, `ResetDown`, `Disconnect`, `TryConnect`, then `DialFails` or
`stratum_subscribe` and `AuthorizeOk`/`AuthorizeFails`; one message per round (`stratum_notify`,
`SetNewJob`, `SetExtranonce`, `stratum_reconnect`, `OtherMessage`), or `Lost`; `Keepalive`; then
`CheckJob`, `InstallJob`, `ReleaseMiners`. Messages may also arrive while the answer to the
authorisation is awaited. The job is stored under its lock and `new_job` outside of it, hence two
steps. A mining thread: `FirstJob`, `PoolUp`, `CheckRange`, then `RollExtranonce` (it makes the work
itself) or `AwaitRestart`, `TakeWork`, `DontMine` or `Mine`, `EndScan`. The API: `ChangePool`,
`MarkDown`, `RequestReset`, `StopMiner`, store by store. `MaxFaults` bounds what disturbs the
session: lost connections, refused authorisations, redirections, new extranonces, API requests.

**Runs.** `stratum_safety`: two mining threads, two pools, one disturbance of any kind, extranonce2
with two values so that it wraps. One job id is the interesting case: the same id comes back in the
same session, in a resumed one, in a new one and from another pool; an id that differs starts
extranonce2 again on a job nobody has worked on (covered by the proof for any set of ids).
`stratum_live`: one thread, two disturbances, so that one can hit the handling of the other.
`stratum_safety` also shows that the session implements `WorkFeed`. `PoolChangeTakesEffect` in
`stratum_live` says what a change of the pool is for: once the wanted pool stays the same and nobody
redirects the miner, in the end its threads scan work of that pool only.

**Fairness.** `ThreadsFair`: every thread runs, and the stratum thread's waits end by a message or by
their timeout. `PoolFair`, for `stratum_live` only: a pool dialled again and again answers, a session
keeps getting jobs, and temperature and difficulty limits do not hold a thread back for ever. It is
strong fairness because these are answers of somebody else to repeated attempts.

**Proofs** (`StratumProofs`). For any number of threads, pools, ids and disturbances: `TypeCorrect`,
which includes that `stratum_gen_work` never runs without a job; `NoRestartLost`: copying the work and
clearing the flag is one critical section, and so is installing work and raising the flags, so the
property is inductive with the types; `NoWorkTwice`, from `IssuedBelow` (what was issued for the
current job has a smaller extranonce2) and `IssuedAnnounced` (work is only issued for jobs a pool
sent), for as long as extranonce2 has not wrapped within the job; it relies on the pool not sending a
job again after another one of the same session. `NoPoolChangeLost`: the request is taken before
`rpc_url` is read, and every writer raises the request after writing `rpc_url`. `ImplementsFeed`: the
initial states and every step map to `WorkFeed`'s; it needs `HasWork`, that the threads are held back
until there is work. Liveness is model-checked only.

**Seen while modelling.** The connect loop (`cpu-miner.c:3408`) looks neither at `stratum_need_reset`
nor at `rpc_url`: a miner that is dialling a dead pool cannot be told to leave it before the pool
answers or the retries run out, and `PoolFair` is what hides that here. `new_job` survives a reset, so
the previous session's job can be primed into the next one (`cpu-miner.c:3442`) and the threads are
released on it until the new pool sends a job; `PoolChangeTakesEffect` shows that it does not last.
`client.reconnect` keeps the session id of the server left (`util.c:2627`), the hazard the comment at
`cpu-miner.c:3386` describes for `rpc_url`. The comment at `cpu-miner.c:2384` says that extranonce2 is
"zeroed on every mining.notify"; it is zeroed only if the job id differs from the last one
(`util.c:2472`), and `NextWorkIsNew` depends on that.

## 6. WorkFeed

Three parts of the program replace `g_work` while mining threads scan copies of it, each with its own
locks and its own order of steps. `WorkFeed` is what they owe the mining threads: flags go up at any
time (`Tell`); `g_work` is replaced only if whoever scans something else knows by then (`Install`); a
flag goes down only as its thread copies the `g_work` of that moment (`Take`). `Stratum`, `RandomX` and
`WorkIO` each have `FeedSpec`, the specification of `WorkFeed` under a refinement mapping in which a
thread scans its copy from the moment it takes it to the moment it returns to the top of its loop. The
runs check it. `ImplementsFeed` in `StratumProofs`, `RandomXProofs` and
`WorkIOProofs` proves it for every instance by step simulation, and `NobodyUntold` in `WorkFeedProofs`
proves what it is for: a thread that scans replaced work has been told. In `Stratum` and `RandomX` the
flags go up in the step that replaces `g_work`. `WorkIO` announces work before it is installed, so its
proof needs `Announced`: work on its way to a thread that waits has been announced to everybody who scans
something else, and stays so because no thread can take work under the lock of the one that waits.

## 7. RandomX

**State.** The dataset as the seed each of its items was computed from, `rx_seed`, `rx_initialised`,
`rx_reseed_pending`; the job as blob, seed and id, `new_job`, `g_work`; the session's flags; for every
mining thread its position, its work, its restart flag and whether its VM was told of the last rebuild.
`rolled` is a history variable: a mining thread has published the job ahead of the stratum thread.

**Actions.** The stratum thread logs in or waits for a message, stores the job (`rx_stratum_login`,
`rx_stratum_job`, and `BadJob`/`LoginFails` for one that `rx_parse_job` refuses half-way, which leaves
a mixture behind), raises `new_job`, looks at it (`CheckJob`), prepares the dataset (`AllocFails`,
`rx_seed_update`, `LockDataset`, `rx_reseed`, `EndReseed`) and publishes (`PublishJob`). `rx_reseed`
computes which items are built from the ranges of the building threads, for any number of them that
could be created. A mining thread may find its range used up (`RollWork`), takes work, stands off while
a rebuild is pending, takes the read lock and updates its VM (`rx_vm_get`), or gives the lock back
(`NoVm`). The write lock is free when nobody hashes; the read lock is free when nobody builds, and a
waiting writer does not hold it up, as the default of `pthread_rwlock`.

**Runs.** `randomx`: two threads, two seeds, three items for two building threads so that the division
leaves a remainder, one disturbance. One is enough for the cases that need it: a job refused half-way,
an allocation that fails after a login, a reset between the rebuild and the publication; the proofs
cover any number. `RebuildFinishes` is the property `rx_reseed_pending` exists for: its mutant, the
stand-off removed, is the starvation the comment in `randomx-vm.c` describes. `randomx_seed`, a
disagreement, needs one thread and nothing that fails: `rx_reseed_pending` is cleared when the dataset is
built (`randomx-vm.c:389`) and the new work is installed later (`cpu-miner.c:3552`), so that a thread can
take the read lock in between and hash the old work on the new dataset. The comment at
`randomx-vm.c:14` says "either the dataset matches the seed or no thread is running".

**Fairness.** `WF` of the stratum thread and of every mining thread. The write lock gets weak fairness
only: a writer that finds a reader every time it looks is never let in, so that nothing is assumed of
the lock that would make the flag unnecessary.

**Proofs** (`RandomXProofs`). For any number of threads, items, seeds, jobs and disturbances:
`EveryItemBuilt`, an arithmetical theorem: the ranges of the threads that were started and what the
stratum thread finishes itself cover the dataset, for every number of items, of threads, and of threads
that could be created; `TypeCorrect`, with `NoJobYet` and `HasWork`; `ScansReadWholeDataset`, from
`Readers` (a thread that hashes excludes a build and has a fresh VM), `WholeDataset` and
`EveryItemBuilt`; `JobsPublishedWhole`, from `JobKept`, which says where a refused job may be while
`new_job` is set; `ImplementsFeed`. `RebuildFinishes` is
model-checked only.

**Seen while modelling.** A mining thread with a used-up range publishes whatever is in the job
(`cpu-miner.c:2804`), be it not prepared yet or refused half-way, and clears `new_job`, so that the
dataset is not rebuilt for it before the next job: hence `rolled` in `PublishedJobWhole`. The comment at
`randomx-gate.c:307` takes it that a range does not run out within a job; `Exhausts` is that assumption,
made in `randomx_seed` only. What such a thread hashes is wrong, what it reads is not:
`HashesWholeDataset` holds all the same.

## 8. WorkIO

**State.** The node's next height, the two protocol flags, the queue of the workio thread with its
command, position, failure count and reply, the queues of the mining threads, `g_work` and whether it
is recent enough, and for every mining thread its position, work and restart flag. A work is a height,
a version and whether it is a template; a block to submit also has the byte order it is in, because
`std_malloc_txs_request` swaps the block in place. `solved` is a history variable.

**Actions.** A mining thread locks `g_work` for writing, finds it recent or pushes a request and waits
on its own queue under that lock (`LockWork`, `StillRecent`, `AskForWork`, `ReceiveWork`); a wake-up
without a reply makes it leave (`GiveUp`, `Leave`), its request still queued. A solved block is queued
from inside the scan, then `g_work` is made too old, then everybody is told (`submit_work`,
`ForceGetWork`, `TellThreads`). The workio thread pops a command, calls the node, falls back from
templates to getwork, retries, replies, or gives up, closes its queue and ends the process.
`WakeForNothing`: `tq_pop` waits once and takes a spurious wake-up for an empty queue. The node
(external) gets blocks from others, takes a block for its next height, and may fail at every call,
before or after it has taken a block.

**Runs.** `workio`: two threads, two versions of every height, so that work changes with and without a
new height, two heights, one block found here, one retry. `workio_retry`, a disagreement: the second
attempt to submit a block swaps its bytes back and sends it in the wrong order.

**Fairness.** `WF` of the workio thread: it runs, and every call of the node ends, in an answer or in a
failure, since curl has a time limit; and of a mining thread whose reply is there. Nothing is assumed
of the node. `FetchEnds` needs `opt_retries >= 0`: with -1, the default, a node that fails for ever is
asked for ever, which is what the option says.

**Proofs** (`WorkIOProofs`), for every number of threads, versions, blocks and retries.

* `TypeCorrect`: replies do not pile up. Inductive with `OneRequest`: the request of a thread is in the
  queue once, or being served, or answered, and its thread waits or has given up.
* `RequestsAreKept`: `RequestNotLost`, the other direction. As long as the workio thread lives, whoever
  waits has a request in one of those places: retries and fallbacks keep the command, a reply is only
  dropped for a thread that has left. With `FairSpec`, this is what `FetchEnds` rests on.
* `FallbackSound`: `ProtocolKept`. Needs `TemplatesServed`: wherever a template is on its way, the
  fallback has ended.
* `SolvedOnce`: `SolvedNotKept`. Needs `FinderWaits`. A finder needs the lock to make `g_work` too old,
  so while a thread waits for work under that lock, the finders of all blocks queued behind its request
  wait; and the node's work is for a height above every block it has taken. So a reply that a block
  has made obsolete is installed with the block's finder still to come.
* `ImplementsFeed`: section 6.

`FetchEnds` is a liveness property and is only model-checked.

**Seen while modelling.** A spurious wake-up of the workio thread ends the process (`util.c:3063`,
`cpu-miner.c:2091`); one of a mining thread ends that thread, and no other takes its range.

## 9. Nonce

**State.** For every thread its place in its range, the end of the range and the limit of the current
portion, all of them in the arithmetic of the word; its copy of the work; `passed` and `redo` are
history variables.

**Actions.** `CheckRange`, then `RollExtranonce` or `AwaitRestart` when the range is used up;
`std_get_new_work` with the reserve and the cap of `CPUMINER_NONCE_SPAN`; `SizePortion`, from the hash
rate, as any of a set of sizes; `HashBatch`, one round of a scan loop of `algo-gate-api.c`, of which
there are two kinds, told apart by whether the limit is included; `NewWork` and `RestartAll` by others.

The limit is `max_nonce - lanes` in the arithmetic of the word (`MaxNonce`, `SizePortion`).

**Run.** `nonce`: a word of 22 nonces, two threads, batches of one, two and four with a reserve of four,
with no cap and with a cap of one nonce, portions of one nonce and of four. So portions and spans
both below and above a batch occur, and the limit does wrap. A smaller word reaches the ends of the ranges
sooner; the proofs cover every word.

**Proofs** (`NonceProofs`). `SlicesDisjoint` is arithmetic; `TypeCorrect`, `ScansKeepToTheirSlice` and
`NoncesScannedOnce` follow from one invariant, `IInv`: a thread's place is between the start of its
range and one batch after its end, its limit leaves room for a batch unless it has wrapped, and a range
that is used up with the work unchanged is started again only by a thread with its flag set. They assume
what `NonceAssumption` says: a batch fits into the reserve, and a range holds a batch beside its reserve.
Caps and portions may have any size.

**Seen while modelling.** `max_nonce - lanes` is unsigned (`algo-gate-api.c:149`, `203`): if the first
thread's portion ends below a batch, which the clamp of the portion to 1 (`cpu-miner.c:2917`) or a small
`CPUMINER_NONCE_SPAN` allows, the limit wraps, and the scan goes on through the other threads' ranges
until it finds a share or is restarted. This is the exception in `SliceKept`, and it sets `redo`.
The loops of scrypt (`scrypt.c:1436`) compute their limit the same way; curvehash guards against it
(`curvehash-gate.c:178`). The loops modelled are those of `algo-gate-api.c`. Every pass through
`std_get_new_work` skips one nonce (`cpu-miner.c:2441`). A thread that waits for new work accepts any
restart, and starts its range again if the work is the same (`cpu-miner.c:2811`): `redo`.

## 10. What the checks leave out

* **Only model-checked**: liveness, and anything else under fairness (out of the prover's reach). Every
  invariant, action property and refinement that a passing run checks is also proved; where the theorem
  has a hypothesis on the constants, its section says so.
* **Memory model.** Stores become visible in program order and a word is read or written whole, except
  where `torn` says otherwise. Reading memory another thread has freed (`rpc_url`, `cpu-miner.c:3384`)
  has no outcome to model.
* **Data.** Difficulty, targets, hashes, latencies, log lines, JSON. A pool's messages are well formed;
  what the parsers do with others is not modelled.
* **Session dialects.** Veil's SHA256Dv jobs have no extranonce2 and differ from `Stratum` in data only.
  RandomX in light mode (the cache takes the place of the dataset under the same lock), its benchmark,
  and the test hook `CPUMINER_RX_TEST_RESEED`, which forces a rebuild, have no actions.
* **Solo mining in `Nonce`.** The same work may be fetched again there and its range started again.
* **Left of the plan**: the composition of `Stratum` and `Control`, the history rings (section 2).
* **Not modelled at all**: hash algorithms and SIMD code (pure functions on data of a size no model
  checker reaches; they are nearly all of the repository's lines, so that the map covers a small share
  of them), HTTP parsing and rendering (text, one request at a time), sensor reads, long polling
  (unreachable), vendored code.

## 11. Running

`tlc -workers 2 -config <Name>.cfg <MCModule>` checks a run of `PROJECT.json` (each takes less than
four minutes on two workers), `tlapm <Module>Proofs.tla` checks the proofs (about a minute per
module).
