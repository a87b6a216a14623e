------------------------------ MODULE Control ------------------------------
(***************************************************************************)
(* The runtime control API of the miner (api_control.c) and the part of    *)
(* the mining loop (miner_thread in cpu-miner.c) that answers it.          *)
(*                                                                         *)
(* One API thread serves one request at a time.  A mutation enters         *)
(* SWITCHING, asks the mining threads to park, lets each of them free its  *)
(* own buffers, swaps the algorithm gate, lets each of them allocate again *)
(* and resumes; every wait has a time limit and every failure rolls back.  *)
(* The mining threads take no lock per scan: all of the handshake is plain *)
(* shared memory, and every step below is one shared read or write (or a   *)
(* run of them that no other thread can tell apart).  Stores are taken to  *)
(* become visible in program order.                                        *)
(*                                                                         *)
(* Faults selects what may go wrong: "timeout" (a wait of the API thread   *)
(* runs out), "register" (an algorithm refuses to register), "memory" (its *)
(* workspace does not fit), "restore" (the algorithm to put back after one *)
(* of these does not register either), "init" (a thread's allocation       *)
(* fails).                                                                 *)
(***************************************************************************)
EXTENDS Integers

CONSTANTS Threads,     \* mining threads, opt_n_threads of them
          Algos,       \* algorithms the miner can register
          Params,      \* values of an algorithm parameter, Unset among them
          Unset,       \* "not set": the registration takes its own default
          ParamAlgos,  \* the algorithms that take a parameter
          Urls,        \* pool addresses
          Profiles,    \* the profile requests a manager may send
          StartAlgo, StartParam, StartUrl,   \* the command line
          Faults,      \* what may fail
          NULL,        \* absent: no value in a request, no gate, no buffer
          MaxEpoch,    \* bound: no request is taken once ctl_epoch reaches it
          MaxGen       \* bound: no profile is taken once ctl_free_gen reaches it

Config == Algos \X Params                \* what a registration fixes
HalfGate == <<NULL, NULL>>               \* what a registration that failed leaves
Targets == {"RUNNING", "PAUSED", "STOPPED"}

Requests == [kind   : {"state", "profile"},
             target : Targets \cup {NULL},
             algo   : Algos \cup {NULL},
             param  : Params \cup {NULL},
             url    : Urls \cup {NULL}]

\* What h_control_profile lets through: an algorithm never comes without the
\* pool that wants it, and "run" is absent, true or false.
Profile == {r \in Requests : /\ r.kind = "profile" /\ r.target # "STOPPED"
                             /\ r.algo # NULL => r.url # NULL}

StateRequest(T) == [kind |-> "state", target |-> T, algo |-> NULL,
                    param |-> NULL, url |-> NULL]

ASSUME ControlAssumption ==
  /\ Threads # {}
  /\ Unset \in Params /\ StartParam \in Params
  /\ StartAlgo \in Algos /\ StartUrl \in Urls
  /\ ParamAlgos \subseteq Algos
  /\ Profiles \subseteq Profile
  /\ Faults \subseteq {"timeout", "register", "memory", "restore", "init"}
  /\ NULL \notin Algos \cup Params \cup Urls \cup Config \cup Targets \cup {HalfGate}
  /\ MaxEpoch \in Nat /\ MaxGen \in Nat

VARIABLES
  ctl_state, ctl_epoch, ctl_last_switch,
  ctl_park_requested, ctl_thread_parked,
  ctl_free_gen, ctl_init_gen, ctl_thread_free_gen, ctl_thread_init_gen,
  opt_algo, opt_param, ctl_stored,
  algo_gate,           \* the registered configuration; NULL while being rewritten
  rpc_url, stratum_down, stratum_need_reset,
  pc, restart, buf,    \* per mining thread: position, work_restart, its buffers
  apc,                 \* the API thread's position
  req, saved, sw,      \* its locals: request, values to restore, switch_algo's
  reply                \* what the last call returned

stateVars == <<ctl_state, ctl_epoch, ctl_last_switch>>
parkVars  == <<ctl_park_requested, ctl_thread_parked>>
genVars   == <<ctl_free_gen, ctl_init_gen, ctl_thread_free_gen, ctl_thread_init_gen>>
algoVars  == <<opt_algo, opt_param, ctl_stored, algo_gate>>
poolVars  == <<rpc_url, stratum_down, stratum_need_reset>>
minerVars == <<pc, restart, buf>>
callVars  == <<apc, req, saved, sw, reply>>
vars == <<stateVars, parkVars, genVars, algoVars, poolVars, minerVars, callVars>>

MinerPC == {"top", "ask", "ask2", "ackRun", "ackPark",
            "free", "freeAck", "init", "alloc", "hash"}
ApiPC == {"idle", "park", "restart", "parkWait", "store", "free", "waitFree",
          "register", "memory", "restore", "init", "waitInit", "pool",
          "commit", "fail", "undone", "release"}

State == Targets \cup {"SWITCHING"}
Saved == [state : State, algo : Algos, url : Urls, param : Params]
Switch == [to : Algos, prev : Algos, back : BOOLEAN]

(***************************************************************************)
(* Every mining thread initialised itself for the command line's algorithm *)
(* (miner_thread exits the process otherwise) and the miner is running.    *)
(***************************************************************************)
Init ==
  /\ ctl_state = "RUNNING" /\ ctl_epoch = 0 /\ ctl_last_switch = FALSE
  /\ ctl_park_requested = FALSE
  /\ ctl_thread_parked = [t \in Threads |-> FALSE]
  /\ ctl_free_gen = 0 /\ ctl_init_gen = 0
  /\ ctl_thread_free_gen = [t \in Threads |-> 0]
  /\ ctl_thread_init_gen = [t \in Threads |-> 0]
  /\ opt_algo = StartAlgo /\ opt_param = StartParam
  /\ ctl_stored = [a \in Algos |-> Unset]
  /\ algo_gate = <<StartAlgo, StartParam>>
  /\ rpc_url = StartUrl /\ stratum_down = FALSE /\ stratum_need_reset = FALSE
  /\ pc = [t \in Threads |-> "top"]
  /\ restart = [t \in Threads |-> FALSE]
  /\ buf = [t \in Threads |-> algo_gate]
  /\ apc = "idle"
  /\ req = StateRequest("RUNNING")
  /\ saved = [state |-> "RUNNING", algo |-> StartAlgo, url |-> StartUrl,
              param |-> Unset]
  /\ sw = [to |-> StartAlgo, prev |-> StartAlgo, back |-> FALSE]
  /\ reply = "OK"

restart_threads == restart' = [t \in Threads |-> TRUE]

-----------------------------------------------------------------------------
(* The mining loop.                                                        *)

\* Wait for the pool, take work, clear the restart flag: always in this order
\* and always before the park request is read.
TakeWork(t) ==
  /\ pc[t] = "top" /\ ~stratum_down
  /\ restart' = [restart EXCEPT ![t] = FALSE]
  /\ pc' = [pc EXCEPT ![t] = "ask"]
  /\ UNCHANGED <<buf, stateVars, parkVars, genVars, algoVars, poolVars, callVars>>
\* api_ctl_thread_should_run reads the request first ...
ReadParkRequest(t) ==
  /\ pc[t] = "ask"
  /\ pc' = [pc EXCEPT ![t] = IF ctl_park_requested THEN "ackPark" ELSE "ask2"]
  /\ UNCHANGED <<restart, buf, stateVars, parkVars, genVars, algoVars, poolVars, callVars>>
\* Mutant: the restart flag is cleared after the park request was read.
ReadStateClearsRestart(t) ==
  /\ pc[t] = "ask2"
  /\ pc' = [pc EXCEPT ![t] = IF ctl_state \in {"PAUSED", "STOPPED"}
                             THEN "ackPark" ELSE "ackRun"]
  /\ restart' = [restart EXCEPT ![t] = FALSE]
  /\ UNCHANGED <<buf, stateVars, parkVars, genVars, algoVars, poolVars, callVars>>

\* Mutant: the thread obeys the request but not the state that outlives it.
ReadStateIgnored(t) ==
  /\ pc[t] = "ask2" /\ pc' = [pc EXCEPT ![t] = "ackRun"]
  /\ UNCHANGED <<restart, buf, stateVars, parkVars, genVars, algoVars, poolVars, callVars>>

\* ... then the state ...
ReadState(t) ==
  /\ pc[t] = "ask2"
  /\ pc' = [pc EXCEPT ![t] = IF ctl_state \in {"PAUSED", "STOPPED"}
                             THEN "ackPark" ELSE "ackRun"]
  /\ UNCHANGED <<restart, buf, stateVars, parkVars, genVars, algoVars, poolVars, callVars>>

\* ... and only then writes the flag park_all() counts.
AckParked(t) ==
  /\ pc[t] = "ackPark"
  /\ ctl_thread_parked' = [ctl_thread_parked EXCEPT ![t] = TRUE]
  /\ pc' = [pc EXCEPT ![t] = "free"]
  /\ UNCHANGED <<ctl_park_requested, restart, buf, stateVars, genVars, algoVars,
                 poolVars, callVars>>

\* Not parked: wanna_mine() lets the thread scan, or the temperature or
\* difficulty gate sends every thread back to the top of the loop.
AckRunning(t) ==
  /\ pc[t] = "ackRun"
  /\ ctl_thread_parked' = [ctl_thread_parked EXCEPT ![t] = FALSE]
  /\ \/ pc' = [pc EXCEPT ![t] = "hash"] /\ UNCHANGED restart
     \/ pc' = [pc EXCEPT ![t] = "top"] /\ restart_threads
  /\ UNCHANGED <<ctl_park_requested, buf, stateVars, genVars, algoVars, poolVars, callVars>>

\* api_ctl_thread_service, first phase: free under the registered gate ...
ServiceFree(t) ==
  /\ pc[t] = "free"
  /\ IF ctl_thread_free_gen[t] # ctl_free_gen
     THEN buf' = [buf EXCEPT ![t] = NULL] /\ pc' = [pc EXCEPT ![t] = "freeAck"]
     ELSE UNCHANGED buf /\ pc' = [pc EXCEPT ![t] = "init"]
  /\ UNCHANGED <<restart, stateVars, parkVars, genVars, algoVars, poolVars, callVars>>

\* ... and acknowledge the generation current at this moment.
ServiceFreeAck(t) ==
  /\ pc[t] = "freeAck"
  /\ ctl_thread_free_gen' = [ctl_thread_free_gen EXCEPT ![t] = ctl_free_gen]
  /\ pc' = [pc EXCEPT ![t] = "init"]
  /\ UNCHANGED <<ctl_free_gen, ctl_init_gen, ctl_thread_init_gen, restart, buf,
                 stateVars, parkVars, algoVars, poolVars, callVars>>

\* Second phase: the generation is taken before the allocation is tried.
ServiceInitAck(t) ==
  /\ pc[t] = "init"
  /\ IF ctl_thread_init_gen[t] # ctl_init_gen
     THEN /\ ctl_thread_init_gen' = [ctl_thread_init_gen EXCEPT ![t] = ctl_init_gen]
          /\ pc' = [pc EXCEPT ![t] = "alloc"]
     ELSE UNCHANGED ctl_thread_init_gen /\ pc' = [pc EXCEPT ![t] = "top"]
  /\ UNCHANGED <<ctl_free_gen, ctl_init_gen, ctl_thread_free_gen, restart, buf,
                 stateVars, parkVars, algoVars, poolVars, callVars>>

\* miner_thread_init of whatever gate is registered now; a failure is logged.
ServiceInit(t) ==
  /\ pc[t] = "alloc"
  /\ \/ buf' = [buf EXCEPT ![t] = algo_gate]
     \/ "init" \in Faults /\ UNCHANGED buf
  /\ pc' = [pc EXCEPT ![t] = "top"]
  /\ UNCHANGED <<restart, stateVars, parkVars, genVars, algoVars, poolVars, callVars>>

\* scanhash returns: the range is finished or the restart flag was seen.
EndScan(t) ==
  /\ pc[t] = "hash"
  /\ pc' = [pc EXCEPT ![t] = "top"]
  /\ UNCHANGED <<restart, buf, stateVars, parkVars, genVars, algoVars, poolVars, callVars>>

Miner(t) ==
  \/ TakeWork(t) \/ ReadParkRequest(t) \/ ReadState(t)
  \/ AckParked(t) \/ AckRunning(t)
  \/ ServiceFree(t) \/ ServiceFreeAck(t) \/ ServiceInitAck(t) \/ ServiceInit(t)
  \/ EndScan(t)

-----------------------------------------------------------------------------
(* The stratum thread, as far as the mining loop can see it.               *)

StratumLost ==
  /\ ~stratum_need_reset /\ stratum_need_reset' = TRUE
  /\ UNCHANGED <<rpc_url, stratum_down, stateVars, parkVars, genVars, algoVars,
                 minerVars, callVars>>

StratumReset ==
  /\ stratum_need_reset
  /\ stratum_need_reset' = FALSE /\ stratum_down' = TRUE
  /\ restart_threads
  /\ UNCHANGED <<rpc_url, pc, buf, stateVars, parkVars, genVars, algoVars, callVars>>

\* A job is installed and the pool declared up.  The thread tested
\* stratum_need_reset earlier, so this may follow a request to reset.
StratumJob ==
  /\ stratum_down /\ stratum_down' = FALSE
  /\ restart_threads
  /\ UNCHANGED <<rpc_url, stratum_need_reset, pc, buf, stateVars, parkVars,
                 genVars, algoVars, callVars>>

-----------------------------------------------------------------------------
(* The API thread: the two entry points.                                   *)

ParamAlgo == IF req.algo # NULL THEN req.algo ELSE saved.algo

EnterSwitching(r) ==
  /\ ctl_state' = "SWITCHING"
  /\ req' = r
  /\ saved' = [state |-> ctl_state, algo |-> opt_algo, url |-> rpc_url,
               param |-> ctl_stored[IF r.algo # NULL THEN r.algo ELSE opt_algo]]
  /\ UNCHANGED reply

\* api_ctl_set_state up to its first unlock.  A request for the state the
\* miner is in is answered at once; resuming needs nobody's acknowledgement.
SetState(T) ==
  /\ apc = "idle" /\ ctl_epoch < MaxEpoch
  /\ IF ctl_state = T
     THEN reply' = "OK" /\ UNCHANGED <<ctl_state, apc, req, saved>>
     ELSE /\ EnterSwitching(StateRequest(T))
          /\ apc' = IF T = "RUNNING" THEN "commit" ELSE "park"
  /\ UNCHANGED <<ctl_epoch, ctl_last_switch, sw, parkVars, genVars, algoVars,
                 poolVars, minerVars>>

\* api_ctl_profile up to its first unlock: parameters are validated, then the
\* anti-flap interval is tested, before any thread is disturbed.
RequestProfile(p) ==
  /\ apc = "idle" /\ ctl_epoch < MaxEpoch /\ ctl_free_gen < MaxGen
  /\ LET target == IF p.algo # NULL THEN p.algo ELSE opt_algo
         bad    == p.param # NULL /\ target \notin ParamAlgos
     IN  IF bad \/ ctl_last_switch
         THEN /\ reply' = IF bad THEN "BAD_REQUEST" ELSE "THROTTLED"
              /\ UNCHANGED <<ctl_state, apc, req, saved>>
         ELSE EnterSwitching(p) /\ apc' = "park"
  /\ UNCHANGED <<ctl_epoch, ctl_last_switch, sw, parkVars, genVars, algoVars,
                 poolVars, minerVars>>

\* The anti-flap interval since the last switch has passed.
IntervalElapsed ==
  /\ ctl_last_switch /\ ctl_last_switch' = FALSE
  /\ UNCHANGED <<ctl_state, ctl_epoch, parkVars, genVars, algoVars, poolVars,
                 minerVars, callVars>>

-----------------------------------------------------------------------------
(* park_all: the request, then the wake-up, then the poll.                 *)

ParkRequest ==
  /\ apc = "park" /\ apc' = "restart"
  /\ ctl_park_requested' = TRUE
  /\ UNCHANGED <<ctl_thread_parked, req, saved, sw, reply, stateVars, genVars,
                 algoVars, poolVars, minerVars>>

ParkRestart ==
  /\ apc = "restart" /\ apc' = "parkWait"
  /\ restart_threads
  /\ UNCHANGED <<req, saved, sw, reply, pc, buf, stateVars, parkVars, genVars,
                 algoVars, poolVars>>

AllParked == \A t \in Threads : ctl_thread_parked[t]

Parked ==
  /\ apc = "parkWait" /\ AllParked
  /\ apc' = IF req.kind = "state" THEN "commit" ELSE "store"
  /\ UNCHANGED <<req, saved, sw, reply, stateVars, parkVars, genVars, algoVars,
                 poolVars, minerVars>>

ParkTimeout ==
  /\ apc = "parkWait" /\ "timeout" \in Faults /\ ~AllParked
  /\ apc' = "fail"
  /\ UNCHANGED <<req, saved, sw, reply, stateVars, parkVars, genVars, algoVars,
                 poolVars, minerVars>>

-----------------------------------------------------------------------------
(* api_ctl_profile with the threads parked.                                *)
\* Mutant: stores the parameter of a request that carries none.
StoreAbsentParams ==
  /\ apc = "store"
  /\ ctl_stored' = [ctl_stored EXCEPT ![ParamAlgo] = req.param]
  /\ opt_param' = ctl_stored'[ParamAlgo]
  /\ sw' = [to |-> ParamAlgo, prev |-> opt_algo, back |-> FALSE]
  /\ apc' = "free"
  /\ UNCHANGED <<opt_algo, algo_gate, req, saved, reply, stateVars, parkVars,
                 genVars, poolVars, minerVars>>

\* params_store, then params_load_into_globals for the algorithm to register.
StoreParams ==
  /\ apc = "store"
  /\ ctl_stored' = IF req.param # NULL
                   THEN [ctl_stored EXCEPT ![ParamAlgo] = req.param]
                   ELSE ctl_stored
  /\ IF req.algo # NULL \/ req.param # NULL
     THEN /\ opt_param' = ctl_stored'[ParamAlgo]
          /\ sw' = [to |-> ParamAlgo, prev |-> opt_algo, back |-> FALSE]
          /\ apc' = "free"
     ELSE UNCHANGED <<opt_param, sw>> /\ apc' = "pool"
  /\ UNCHANGED <<opt_algo, algo_gate, req, saved, reply, stateVars, parkVars,
                 genVars, poolVars, minerVars>>

-----------------------------------------------------------------------------
(* switch_algo.  sw.back marks the call made by the rollback: it skips the  *)
(* memory check and its result is ignored.                                 *)

Leave(ok) == apc' = IF sw.back THEN "undone" ELSE IF ok THEN "pool" ELSE "fail"

FreeBuffers ==
  /\ apc = "free" /\ apc' = "waitFree"
  /\ ctl_free_gen' = ctl_free_gen + 1
  /\ UNCHANGED <<ctl_init_gen, ctl_thread_free_gen, ctl_thread_init_gen, req,
                 saved, sw, reply, stateVars, parkVars, algoVars, poolVars, minerVars>>
\* Mutant: trusts the parked flags instead of waiting for the generation.
SwapOnceParked ==
  /\ apc = "waitFree" /\ AllParked
  /\ apc' = "register"
  /\ opt_algo' = sw.to /\ sw' = [sw EXCEPT !.prev = opt_algo]
  /\ algo_gate' = NULL
  /\ UNCHANGED <<opt_param, ctl_stored, req, saved, reply, stateVars, parkVars,
                 genVars, poolVars, minerVars>>

\* Mutant: nobody is waited for.
SwapAtOnce ==
  /\ apc = "waitFree" /\ apc' = "register"
  /\ opt_algo' = sw.to /\ sw' = [sw EXCEPT !.prev = opt_algo]
  /\ algo_gate' = NULL
  /\ UNCHANGED <<opt_param, ctl_stored, req, saved, reply, stateVars, parkVars,
                 genVars, poolVars, minerVars>>

\* Everybody released: opt_algo changes and the gate is being rewritten.
BuffersFreed ==
  /\ apc = "waitFree"
  /\ \A t \in Threads : ctl_thread_free_gen[t] = ctl_free_gen
  /\ apc' = "register"
  /\ opt_algo' = sw.to /\ sw' = [sw EXCEPT !.prev = opt_algo]
  /\ algo_gate' = NULL
  /\ UNCHANGED <<opt_param, ctl_stored, req, saved, reply, stateVars, parkVars,
                 genVars, poolVars, minerVars>>
\* Mutant: the wait for the buffers has no time limit.
FreeWaitsForever == apc = "waitFree" /\ FALSE /\ UNCHANGED vars

FreeTimeout ==
  /\ apc = "waitFree" /\ "timeout" \in Faults
  /\ \E t \in Threads : ctl_thread_free_gen[t] # ctl_free_gen
  /\ Leave(FALSE)
  /\ UNCHANGED <<req, saved, sw, reply, stateVars, parkVars, genVars, algoVars,
                 poolVars, minerVars>>

Register ==
  /\ apc = "register"
  /\ \/ /\ algo_gate' = <<sw.to, opt_param>>
        /\ apc' = IF sw.back THEN "init" ELSE "memory"
        /\ UNCHANGED opt_algo
     \/ /\ "register" \in Faults
        /\ opt_algo' = sw.prev /\ apc' = "restore"
        /\ UNCHANGED algo_gate
  /\ UNCHANGED <<opt_param, ctl_stored, req, saved, sw, reply, stateVars,
                 parkVars, genVars, poolVars, minerVars>>
CheckMemory ==
  /\ apc = "memory"
  /\ \/ apc' = "init" /\ UNCHANGED <<opt_algo, algo_gate>>
     \/ /\ "memory" \in Faults
        /\ opt_algo' = sw.prev /\ algo_gate' = NULL /\ apc' = "restore"
  /\ UNCHANGED <<opt_param, ctl_stored, req, saved, sw, reply, stateVars,
                 parkVars, genVars, poolVars, minerVars>>

\* Mutant: the refused algorithm is registered once more.
RestoreRefused ==
  /\ apc = "restore"
  /\ algo_gate' = <<sw.to, opt_param>>
  /\ Leave(FALSE)
  /\ UNCHANGED <<opt_algo, opt_param, ctl_stored, req, saved, sw, reply,
                 stateVars, parkVars, genVars, poolVars, minerVars>>

\* The previous algorithm is registered again, from the globals as they are.  If
\* that fails it is logged, "mining is stopped", and nothing else: the gate has
\* the defaults and what the registration had set, and the caller goes on.
RestoreGate ==
  /\ apc = "restore"
  /\ \/ algo_gate' = <<sw.prev, opt_param>>
     \/ "restore" \in Faults /\ algo_gate' = HalfGate
  /\ Leave(FALSE)
  /\ UNCHANGED <<opt_algo, opt_param, ctl_stored, req, saved, sw, reply,
                 stateVars, parkVars, genVars, poolVars, minerVars>>

InitThreads ==
  /\ apc = "init" /\ apc' = "waitInit"
  /\ ctl_init_gen' = ctl_init_gen + 1
  /\ UNCHANGED <<ctl_free_gen, ctl_thread_free_gen, ctl_thread_init_gen, req,
                 saved, sw, reply, stateVars, parkVars, algoVars, poolVars, minerVars>>
\* Mutant: the second phase is not waited for.
InitNotAwaited ==
  /\ apc = "waitInit"
  /\ Leave(TRUE)
  /\ UNCHANGED <<req, saved, sw, reply, stateVars, parkVars, genVars, algoVars,
                 poolVars, minerVars>>

ThreadsInitialised ==
  /\ apc = "waitInit"
  /\ \A t \in Threads : ctl_thread_init_gen[t] = ctl_init_gen
  /\ Leave(TRUE)
  /\ UNCHANGED <<req, saved, sw, reply, stateVars, parkVars, genVars, algoVars,
                 poolVars, minerVars>>

InitTimeout ==
  /\ apc = "waitInit" /\ "timeout" \in Faults
  /\ \E t \in Threads : ctl_thread_init_gen[t] # ctl_init_gen
  /\ Leave(FALSE)
  /\ UNCHANGED <<req, saved, sw, reply, stateVars, parkVars, genVars, algoVars,
                 poolVars, minerVars>>

-----------------------------------------------------------------------------
(* The end of a mutation: the pool, the commit or the rollback, the release.*)

ChangePool ==
  /\ apc = "pool" /\ apc' = "commit"
  /\ IF req.url # NULL
     THEN rpc_url' = req.url /\ stratum_down' = TRUE /\ stratum_need_reset' = TRUE
     ELSE UNCHANGED poolVars
  /\ UNCHANGED <<req, saved, sw, reply, stateVars, parkVars, genVars, algoVars, minerVars>>

\* Mutant: the run state a profile asks for is forgotten.
CommitSavedState ==
  /\ apc = "commit" /\ apc' = "release"
  /\ ctl_state' = IF req.kind = "state" THEN req.target ELSE saved.state
  /\ ctl_epoch' = ctl_epoch + 1
  /\ ctl_last_switch' = (ctl_last_switch \/ req.kind = "profile")
  /\ stratum_need_reset' = (stratum_need_reset \/ req.target = "STOPPED")
  /\ reply' = "OK"
  /\ UNCHANGED <<rpc_url, stratum_down, req, saved, sw, parkVars, genVars,
                 algoVars, minerVars>>

Commit ==
  /\ apc = "commit" /\ apc' = "release"
  /\ ctl_state' = IF req.target # NULL THEN req.target ELSE saved.state
  /\ ctl_epoch' = ctl_epoch + 1
  /\ ctl_last_switch' = (ctl_last_switch \/ req.kind = "profile")
  /\ stratum_need_reset' = (stratum_need_reset \/ req.target = "STOPPED")
  /\ reply' = "OK"
  /\ UNCHANGED <<rpc_url, stratum_down, req, saved, sw, parkVars, genVars,
                 algoVars, minerVars>>
\* Mutant: the stored parameters of a failed profile stay.
RollbackKeepsParams ==
  /\ apc = "fail"
  /\ IF \/ req.algo # NULL /\ opt_algo # saved.algo
        \/ req.param # NULL
     THEN /\ opt_param' = ctl_stored[saved.algo]
          /\ sw' = [to |-> saved.algo, prev |-> opt_algo, back |-> TRUE]
          /\ apc' = "free"
     ELSE UNCHANGED <<opt_param, sw>> /\ apc' = "undone"
  /\ UNCHANGED <<ctl_stored, opt_algo, algo_gate, req, saved, reply, stateVars,
                 parkVars, genVars, poolVars, minerVars>>

\* A failed profile restores the stored parameters; it registers the previous
\* algorithm again only if opt_algo still names another one or parameters came
\* with the request.
Rollback ==
  /\ apc = "fail"
  /\ IF req.kind = "profile"
     THEN ctl_stored' = [ctl_stored EXCEPT ![ParamAlgo] = saved.param]
     ELSE UNCHANGED ctl_stored
  /\ IF \/ req.algo # NULL /\ opt_algo # saved.algo
        \/ req.param # NULL
     THEN /\ opt_param' = ctl_stored'[saved.algo]
          /\ sw' = [to |-> saved.algo, prev |-> opt_algo, back |-> TRUE]
          /\ apc' = "free"
     ELSE UNCHANGED <<opt_param, sw>> /\ apc' = "undone"
  /\ UNCHANGED <<opt_algo, algo_gate, req, saved, reply, stateVars, parkVars,
                 genVars, poolVars, minerVars>>
\* Mutant: the saved state is not entered again.
RestoreOnlyPool ==
  /\ apc = "undone" /\ apc' = "release"
  /\ rpc_url' = saved.url
  /\ stratum_need_reset' = (stratum_need_reset \/ rpc_url # saved.url)
  /\ reply' = "FAILED"
  /\ UNCHANGED <<stratum_down, req, saved, sw, stateVars, parkVars, genVars,
                 algoVars, minerVars>>

RestoreState ==
  /\ apc = "undone" /\ apc' = "release"
  /\ rpc_url' = saved.url
  /\ stratum_need_reset' = (stratum_need_reset \/ rpc_url # saved.url)
  /\ ctl_state' = saved.state
  /\ reply' = "FAILED"
  /\ UNCHANGED <<stratum_down, ctl_epoch, ctl_last_switch, req, saved, sw,
                 parkVars, genVars, algoVars, minerVars>>

\* ctl_park_requested is dropped only after the state holds; the threads are
\* woken when they are to run, and after every rollback.
Release ==
  /\ apc = "release" /\ apc' = "idle"
  /\ ctl_park_requested' = FALSE
  /\ IF reply = "FAILED" \/ ctl_state = "RUNNING"
     THEN restart_threads ELSE UNCHANGED restart
  /\ UNCHANGED <<ctl_thread_parked, pc, buf, req, saved, sw, reply, stateVars,
                 genVars, algoVars, poolVars>>

\* The steps of a call in progress; they never wait for the manager.
ApiStep ==
  \/ ParkRequest \/ ParkRestart \/ Parked \/ ParkTimeout
  \/ StoreParams
  \/ FreeBuffers \/ BuffersFreed \/ FreeTimeout
  \/ Register \/ CheckMemory \/ RestoreGate
  \/ InitThreads \/ ThreadsInitialised \/ InitTimeout
  \/ ChangePool \/ Commit \/ Rollback \/ RestoreState \/ Release

Next ==
  \/ \E t \in Threads : Miner(t)
  \/ StratumLost \/ StratumReset \/ StratumJob
  \/ \E T \in Targets : SetState(T)
  \/ \E p \in Profiles : RequestProfile(p)
  \/ IntervalElapsed
  \/ ApiStep

Spec == Init /\ [][Next]_vars

(***************************************************************************)
(* Fairness: the operating system runs every thread.  The pool owes us     *)
(* nothing, so no stratum action is fair, and neither is the manager.      *)
(***************************************************************************)
Fairness == WF_vars(ApiStep) /\ \A t \in Threads : WF_vars(Miner(t))
FairSpec == Spec /\ Fairness
-----------------------------------------------------------------------------
TypeOK ==
  /\ ctl_state \in State /\ ctl_epoch \in Nat
  /\ ctl_last_switch \in BOOLEAN
  /\ ctl_park_requested \in BOOLEAN /\ ctl_thread_parked \in [Threads -> BOOLEAN]
  /\ ctl_free_gen \in Nat /\ ctl_init_gen \in Nat
  /\ ctl_thread_free_gen \in [Threads -> Nat] /\ ctl_thread_init_gen \in [Threads -> Nat]
  /\ opt_algo \in Algos /\ opt_param \in Params /\ ctl_stored \in [Algos -> Params]
  /\ algo_gate \in Config \cup {NULL, HalfGate}
  /\ rpc_url \in Urls /\ stratum_down \in BOOLEAN /\ stratum_need_reset \in BOOLEAN
  /\ pc \in [Threads -> MinerPC] /\ restart \in [Threads -> BOOLEAN]
  /\ buf \in [Threads -> Config \cup {NULL, HalfGate}]
  /\ apc \in ApiPC /\ req \in Requests /\ saved \in Saved /\ sw \in Switch
  /\ reply \in {"OK", "FAILED", "BAD_REQUEST", "THROTTLED"}

(***************************************************************************)
(* While the gate is being rewritten no thread is inside scanhash, whatever*)
(* fails or times out: "an algo switch can never race a running kernel".   *)
(* The flags park_all counts may be stale, so this rests on the free       *)
(* generation alone.                                                       *)
(***************************************************************************)
KernelNeverRacesSwap == algo_gate = NULL => \A t \in Threads : pc[t] # "hash"

(***************************************************************************)
(* A buffer always belongs to the registered configuration, and while the  *)
(* gate is rewritten nobody holds one, frees one or allocates one: buffers *)
(* are freed under the algorithm that allocated them.  Needs the waits of  *)
(* switch_algo to be met (no "timeout").                                   *)
(***************************************************************************)
GateOwnsBuffers ==
  \A t \in Threads :
    /\ buf[t] \in {NULL, algo_gate}
    /\ algo_gate = NULL => pc[t] # "alloc"

(***************************************************************************)
(* No thread hashes without buffers for the registered configuration.      *)
(***************************************************************************)
HashingHasBuffers == \A t \in Threads : pc[t] = "hash" => buf[t] = algo_gate

(***************************************************************************)
(* The same as long as every switch that had the buffers freed went on to  *)
(* have them allocated: a thread that resumes before the others have       *)
(* answered, or answers for the wrong phase, never hashes without.  Needs  *)
(* the waits to be met and the allocations to succeed.                     *)
(***************************************************************************)
Underway == IF apc \in {"waitFree", "register", "memory", "init"} THEN 1 ELSE 0
EveryFreeFollowed == ctl_free_gen = ctl_init_gen + Underway
HandoverComplete == EveryFreeFollowed => HashingHasBuffers

(***************************************************************************)
(* No wake-up is lost: once park_all has raised its request and woken the  *)
(* threads, and for as long as the miner stays paused or stopped, a thread *)
(* still inside a scan has its restart flag set and so leaves at once.     *)
(***************************************************************************)
ParkInForce ==
  \/ apc \in ApiPC \ {"idle", "park", "restart", "commit", "release"}
  \/ ctl_state \in {"PAUSED", "STOPPED"}

ParkWakesScan ==
  ParkInForce => \A t \in Threads : pc[t] = "hash" => restart[t]

(***************************************************************************)
(* Every mutation lands in one of the three stable states: the miner is    *)
(* never left SWITCHING, where every later request would be refused.       *)
(***************************************************************************)
NeverStuckSwitching == apc = "idle" => ctl_state # "SWITCHING"

(***************************************************************************)
(* A failed mutation leaves state, pool and stored parameters as it found  *)
(* them.                                                                   *)
(***************************************************************************)
RollbackKeepsSettings ==
  apc = "idle" /\ reply = "FAILED" =>
    /\ ctl_state = saved.state /\ rpc_url = saved.url
    /\ ctl_stored[ParamAlgo] = saved.param

(***************************************************************************)
(* Between mutations, after a rollback too, the gate is never that of an   *)
(* algorithm other than the one the API reports, whatever fails or times   *)
(* out.  Only when the algorithm to put back did not register is there no  *)
(* algorithm's gate at all.                                                *)
(***************************************************************************)
GateMatchesAlgo ==
  apc = "idle" => /\ algo_gate # NULL
                  /\ algo_gate = HalfGate \/ algo_gate[1] = opt_algo

(***************************************************************************)
(* A mutation is one change of algorithm, parameters, pool and run state,  *)
(* or none, however many steps it takes and whichever of them fails; the   *)
(* epoch and the answer tell which.  docs/api-rest.md: "One atomic change  *)
(* of algorithm, parameters, pool and run state".  Until a mutation has    *)
(* landed, what counts is what it found.  Needs the waits to be met.       *)
(***************************************************************************)
Landed == apc \in {"idle", "release"}
Change == INSTANCE Settings WITH
            Offered <- Profiles \cup {StateRequest(T) : T \in Targets},
            state   <- IF Landed THEN ctl_state ELSE saved.state,
            algo    <- IF Landed THEN opt_algo ELSE saved.algo,
            url     <- IF Landed THEN rpc_url ELSE saved.url,
            stored  <- IF Landed THEN ctl_stored
                       ELSE [ctl_stored EXCEPT ![ParamAlgo] = saved.param],
            epoch   <- ctl_epoch
ChangeIsAtomic == Change!Spec

(***************************************************************************)
(* docs/api-rest.md on a profile: "If any step fails, all of them are      *)
(* rolled back ... A half-switched miner is never a possible outcome."     *)
(***************************************************************************)
NeverHalfSwitched == apc = "idle" /\ reply = "FAILED" => opt_algo = saved.algo

(***************************************************************************)
(* Every mutation is answered, even if the pool is down and threads sit in *)
(* the stratum_down wait for ever: each wait of the API thread ends.       *)
(***************************************************************************)
RequestAnswered == (apc # "idle") ~> (apc = "idle")

(***************************************************************************)
(* A miner that stays paused or stopped stops hashing.                     *)
(***************************************************************************)
PauseTakesEffect ==
  <>[](ctl_state \in {"PAUSED", "STOPPED"})
    => <>[](\A t \in Threads : pc[t] # "hash")
=============================================================================
