--------------------------- MODULE ControlProofs ---------------------------
(* Proofs about Control: type correctness, the safety of the handshake and *)
(* the atomicity of a mutation, for any number of threads, algorithms,     *)
(* parameters and requests.                                                *)
EXTENDS Control, TLAPS

USE DEF stateVars, parkVars, genVars, algoVars, poolVars, minerVars, callVars

-----------------------------------------------------------------------------
(* Type correctness.                                                       *)

LEMMA InitTypeOK == Init => TypeOK
<1> SUFFICES ASSUME Init PROVE TypeOK
  OBVIOUS
<1> USE ControlAssumption
<1>1. algo_gate \in Config
  BY DEF Init, Config
<1>2. req \in Requests
  BY DEF Init, Requests, StateRequest, Targets
<1>3. saved \in Saved /\ ctl_state \in State
  BY <1>1 DEF Init, Saved, State, Targets
<1>4. sw \in Switch
  BY DEF Init, Switch
<1> QED
  BY <1>1, <1>2, <1>3, <1>4 DEF Init, TypeOK, MinerPC, ApiPC

LEMMA MinerTypeOK ==
  ASSUME TypeOK, NEW t \in Threads, Miner(t) PROVE TypeOK'
<1>1. CASE TakeWork(t)
  BY <1>1 DEF TakeWork, TypeOK, MinerPC
<1>2. CASE ReadParkRequest(t)
  BY <1>2 DEF ReadParkRequest, TypeOK, MinerPC
<1>3. CASE ReadState(t)
  BY <1>3 DEF ReadState, TypeOK, MinerPC
<1>4. CASE AckParked(t)
  BY <1>4 DEF AckParked, TypeOK, MinerPC
<1>5. CASE AckRunning(t)
  BY <1>5 DEF AckRunning, restart_threads, TypeOK, MinerPC
<1>6. CASE ServiceFree(t)
  BY <1>6 DEF ServiceFree, TypeOK, MinerPC
<1>7. CASE ServiceFreeAck(t)
  BY <1>7 DEF ServiceFreeAck, TypeOK, MinerPC
<1>8. CASE ServiceInitAck(t)
  BY <1>8 DEF ServiceInitAck, TypeOK, MinerPC
<1>9. CASE ServiceInit(t)
  BY <1>9 DEF ServiceInit, TypeOK, MinerPC
<1>10. CASE EndScan(t)
  BY <1>10 DEF EndScan, TypeOK, MinerPC
<1> QED
  BY <1>1, <1>2, <1>3, <1>4, <1>5, <1>6, <1>7, <1>8, <1>9, <1>10 DEF Miner

LEMMA EntryTypeOK ==
  ASSUME TypeOK,
         \/ StratumLost \/ StratumReset \/ StratumJob \/ IntervalElapsed
         \/ \E T \in Targets : SetState(T)
         \/ \E p \in Profiles : RequestProfile(p)
  PROVE TypeOK'
<1>1. CASE StratumLost \/ StratumReset \/ StratumJob \/ IntervalElapsed
  BY <1>1 DEF StratumLost, StratumReset, StratumJob, IntervalElapsed,
     restart_threads, TypeOK
<1>2. ASSUME NEW r \in Requests, EnterSwitching(r)
      PROVE  ctl_state' \in State /\ req' \in Requests /\ saved' \in Saved
  BY <1>2 DEF EnterSwitching, TypeOK, State, Saved, Requests
<1>3. ASSUME NEW T \in Targets, SetState(T) PROVE TypeOK'
  <2>1. StateRequest(T) \in Requests
    BY DEF StateRequest, Requests
  <2> QED
    BY <1>2, <1>3, <2>1 DEF SetState, EnterSwitching, TypeOK, ApiPC, Targets
<1>4. ASSUME NEW p \in Profiles, RequestProfile(p) PROVE TypeOK'
  <2>1. p \in Requests
    BY ControlAssumption DEF Profile
  <2> QED
    BY <1>2, <1>4, <2>1 DEF RequestProfile, EnterSwitching, TypeOK, ApiPC
<1> QED
  BY <1>1, <1>3, <1>4

LEMMA ApiTypeOK ==
  ASSUME TypeOK, ApiStep PROVE TypeOK'
<1>0. ParamAlgo \in Algos
  BY DEF ParamAlgo, TypeOK, Requests, Saved
<1>1. CASE ParkRequest \/ ParkRestart \/ Parked \/ ParkTimeout
  BY <1>1 DEF ParkRequest, ParkRestart, Parked, ParkTimeout, restart_threads,
     TypeOK, ApiPC
<1>2. CASE StoreParams
  <2>1. ctl_stored' \in [Algos -> Params]
    BY <1>0, <1>2 DEF StoreParams, TypeOK, Requests
  <2>2. [to |-> ParamAlgo, prev |-> opt_algo, back |-> FALSE] \in Switch
    BY <1>0 DEF TypeOK, Switch
  <2>3. opt_param \in Params /\ sw \in Switch /\ ctl_stored'[ParamAlgo] \in Params
    BY <1>0, <2>1 DEF TypeOK
  <2>4. opt_param' \in Params /\ sw' \in Switch /\ apc' \in ApiPC
    BY <1>2, <2>2, <2>3 DEF StoreParams, ApiPC
  <2> QED
    BY <1>2, <2>1, <2>4 DEF StoreParams, TypeOK
<1>3. CASE FreeBuffers \/ FreeTimeout \/ InitThreads \/ ThreadsInitialised \/ InitTimeout
  BY <1>3 DEF FreeBuffers, FreeTimeout, InitThreads, ThreadsInitialised,
     InitTimeout, Leave, TypeOK, ApiPC
<1>4. CASE BuffersFreed
  BY <1>4 DEF BuffersFreed, TypeOK, ApiPC, Switch
<1>5. CASE Register \/ CheckMemory \/ RestoreGate
  <2>1. sw.to \in Algos /\ sw.prev \in Algos
    BY DEF TypeOK, Switch
  <2>2. /\ <<sw.to, opt_param>> \in Config /\ <<sw.prev, opt_param>> \in Config
        /\ algo_gate \in Config \cup {NULL, HalfGate} /\ opt_algo \in Algos
    BY <2>1 DEF TypeOK, Config
  <2>3. algo_gate' \in Config \cup {NULL, HalfGate} /\ opt_algo' \in Algos
    BY <1>5, <2>1, <2>2 DEF Register, CheckMemory, RestoreGate
  <2> QED
    BY <1>5, <2>3 DEF Register, CheckMemory, RestoreGate, Leave, TypeOK, ApiPC
<1>6. CASE ChangePool
  <2>1. req.url \in Urls \cup {NULL}
    BY DEF TypeOK, Requests
  <2> QED
    BY <1>6, <2>1 DEF ChangePool, TypeOK, ApiPC
<1>7. CASE Commit
  <2>1. ctl_state' \in State
    BY <1>7 DEF Commit, TypeOK, Requests, Saved, State
  <2> QED
    BY <1>7, <2>1 DEF Commit, TypeOK, ApiPC
<1>8. CASE Rollback
  <2>1. saved.param \in Params /\ saved.algo \in Algos
    BY DEF TypeOK, Saved
  <2>2. ctl_stored' \in [Algos -> Params]
    BY <1>0, <1>8, <2>1 DEF Rollback, TypeOK
  <2>3. [to |-> saved.algo, prev |-> opt_algo, back |-> TRUE] \in Switch
    BY <2>1 DEF TypeOK, Switch
  <2>4. opt_param \in Params /\ sw \in Switch /\ ctl_stored'[saved.algo] \in Params
    BY <2>1, <2>2 DEF TypeOK
  <2>5. opt_param' \in Params /\ sw' \in Switch /\ apc' \in ApiPC
    BY <1>8, <2>3, <2>4 DEF Rollback, ApiPC
  <2> QED
    BY <1>8, <2>2, <2>5 DEF Rollback, TypeOK
<1>9. CASE RestoreState
  BY <1>9 DEF RestoreState, TypeOK, ApiPC, Saved
<1>10. CASE Release
  BY <1>10 DEF Release, restart_threads, TypeOK, ApiPC
<1> QED
  BY <1>1, <1>2, <1>3, <1>4, <1>5, <1>6, <1>7, <1>8, <1>9, <1>10 DEF ApiStep

LEMMA NextTypeOK == TypeOK /\ [Next]_vars => TypeOK'
<1> SUFFICES ASSUME TypeOK, [Next]_vars PROVE TypeOK'
  OBVIOUS
<1>1. CASE UNCHANGED vars
  BY <1>1 DEF vars, TypeOK
<1> QED
  BY <1>1, MinerTypeOK, EntryTypeOK, ApiTypeOK DEF Next

(***************************************************************************)
(* Every reachable state of the control API and the mining threads has the *)
(* types TypeOK gives it.                                                  *)
(***************************************************************************)
THEOREM TypeCorrect == Spec => []TypeOK
  BY InitTypeOK, NextTypeOK, PTL DEF Spec

-----------------------------------------------------------------------------
(***************************************************************************)
(* The handshake, whatever fails.  From the wake-up of park_all to the     *)
(* release the request stays raised (ParkHeld) and every thread that read  *)
(* it too early has been told to restart (WokenScans).  Once it has        *)
(* acknowledged the current free generation a thread cannot run            *)
(* (AckedThreadsParked), and the gate is only touched after all have       *)
(* (SwapAfterAcks, GateGoneOnlyInSwap).                                    *)
(***************************************************************************)
Running == {"ask2", "ackRun", "hash"}   \* past the park request, unparked
Swapping == {"register", "memory", "restore", "init", "waitInit"}
Handshake == Swapping \cup {"store", "free", "waitFree", "pool", "fail", "undone"}

\* Resuming is the one mutation that commits without having parked anybody.
ParkDone ==
  \/ apc \in Handshake \cup {"parkWait"}
  \/ apc = "commit" /\ req # StateRequest("RUNNING")

ParkHeld == ParkDone \/ apc = "restart" => ctl_park_requested
WokenScans ==
  /\ ParkDone => \A t \in Threads : pc[t] \in Running => restart[t]
  /\ ctl_state \in {"PAUSED", "STOPPED"} =>
       \A t \in Threads : pc[t] \in {"ackRun", "hash"} => restart[t]
SwitchingWhileBusy ==
  /\ apc \notin {"idle", "release"} => ctl_state = "SWITCHING"
  /\ apc \in {"idle", "release"} => ctl_state \in Targets
  /\ saved.state \in Targets
GenBound == \A t \in Threads : ctl_thread_free_gen[t] <= ctl_free_gen
AckedThreadsParked ==
  apc \in Swapping \cup {"waitFree"} =>
    \A t \in Threads : ctl_thread_free_gen[t] = ctl_free_gen => pc[t] \notin Running
SwapAfterAcks ==
  apc \in Swapping => \A t \in Threads : ctl_thread_free_gen[t] = ctl_free_gen
GateGoneOnlyInSwap == algo_gate = NULL => apc \in {"register", "restore"}

HandshakeInv ==
  /\ TypeOK /\ ParkHeld /\ WokenScans /\ SwitchingWhileBusy
  /\ GenBound /\ AckedThreadsParked /\ SwapAfterAcks /\ GateGoneOnlyInSwap

(***************************************************************************)
(* Without timeouts nobody lags: outside its own wait every generation is  *)
(* acknowledged (FreeServed, InitServed), so a thread that acknowledged    *)
(* its free holds nothing and allocates nothing until the next phase.      *)
(***************************************************************************)
FreeServed ==
  \A t \in Threads :
    /\ apc # "waitFree" => ctl_thread_free_gen[t] = ctl_free_gen
    /\ pc[t] = "freeAck" =>
         /\ apc = "waitFree" /\ buf[t] = NULL
         /\ ctl_thread_free_gen[t] # ctl_free_gen
InitServed ==
  \A t \in Threads : apc # "waitInit" => ctl_thread_init_gen[t] = ctl_init_gen
InitBound == \A t \in Threads : ctl_thread_init_gen[t] <= ctl_init_gen
FreedHoldNothing ==
  apc \in {"waitFree", "register", "memory", "restore", "init"} =>
    \A t \in Threads : ctl_thread_free_gen[t] = ctl_free_gen
                         => buf[t] = NULL /\ pc[t] # "alloc"
OwnedBuffers == algo_gate # NULL => \A t \in Threads : buf[t] \in {NULL, algo_gate}

OwnershipInv ==
  /\ HandshakeInv /\ FreeServed /\ InitServed /\ InitBound
  /\ FreedHoldNothing /\ OwnedBuffers

(***************************************************************************)
(* As long as every free was followed by an allocation, a thread without   *)
(* buffers of the registered gate is in the middle of a switch, or about   *)
(* to allocate (MissingBuffers), and no call is being abandoned            *)
(* (NoRefusal).  Once a switch was refused the generations of frees stay   *)
(* ahead (FreesLead).                                                      *)
(***************************************************************************)
MissingBuffers ==
  EveryFreeFollowed => \A t \in Threads :
    \/ buf[t] = algo_gate
    \/ apc = "waitFree" /\ (pc[t] = "freeAck" \/ ctl_thread_free_gen[t] = ctl_free_gen)
    \/ apc \in {"register", "memory", "init"}
    \/ apc = "waitInit" /\ ctl_thread_init_gen[t] # ctl_init_gen
    \/ pc[t] = "alloc"
NoRefusal == EveryFreeFollowed => apc # "restore" /\ apc # "fail"
FreesLead == ctl_init_gen + Underway <= ctl_free_gen

-----------------------------------------------------------------------------
(* The handshake is inductive, whatever fails.                             *)

LEMMA InitHandshake == Init => HandshakeInv
<1> SUFFICES ASSUME Init PROVE HandshakeInv
  OBVIOUS
<1>1. algo_gate # NULL
  BY ControlAssumption DEF Init, Config
<1>2. TypeOK
  BY InitTypeOK
<1> QED
  BY <1>1, <1>2 DEF Init, HandshakeInv, ParkHeld, ParkDone, Handshake, Swapping,
     WokenScans, SwitchingWhileBusy, Targets, GenBound, AckedThreadsParked,
     SwapAfterAcks, GateGoneOnlyInSwap

LEMMA MinerHandshake ==
  ASSUME HandshakeInv, TypeOK', NEW t \in Threads, Miner(t) PROVE HandshakeInv'
<1>1. /\ ParkHeld' /\ SwitchingWhileBusy' /\ GateGoneOnlyInSwap'
  BY DEF HandshakeInv, ParkHeld, ParkDone, SwitchingWhileBusy, GateGoneOnlyInSwap,
     Miner, TakeWork, ReadParkRequest, ReadState, AckParked, AckRunning, ServiceFree,
     ServiceFreeAck, ServiceInitAck, ServiceInit, EndScan
<1>2. GenBound' /\ SwapAfterAcks'
  BY DEF HandshakeInv, GenBound, SwapAfterAcks, TypeOK,
     Miner, TakeWork, ReadParkRequest, ReadState, AckParked, AckRunning, ServiceFree,
     ServiceFreeAck, ServiceInitAck, ServiceInit, EndScan
<1>3. WokenScans'
  BY DEF HandshakeInv, WokenScans, ParkDone, ParkHeld, Running, TypeOK, restart_threads,
     Miner, TakeWork, ReadParkRequest, ReadState, AckParked, AckRunning, ServiceFree,
     ServiceFreeAck, ServiceInitAck, ServiceInit, EndScan
<1>4. AckedThreadsParked'
  BY DEF HandshakeInv, AckedThreadsParked, ParkDone, ParkHeld, Handshake, Running, TypeOK,
     Miner, TakeWork, ReadParkRequest, ReadState, AckParked, AckRunning, ServiceFree,
     ServiceFreeAck, ServiceInitAck, ServiceInit, EndScan
<1> QED
  BY <1>1, <1>2, <1>3, <1>4 DEF HandshakeInv

LEMMA EntryHandshake ==
  ASSUME HandshakeInv, TypeOK',
         \/ StratumLost \/ StratumReset \/ StratumJob \/ IntervalElapsed
         \/ \E T \in Targets : SetState(T)
         \/ \E p \in Profiles : RequestProfile(p)
  PROVE HandshakeInv'
<1> USE DEF HandshakeInv, ParkHeld, ParkDone, WokenScans, SwitchingWhileBusy,
        GenBound, AckedThreadsParked, SwapAfterAcks, GateGoneOnlyInSwap
<1>1. CASE StratumLost \/ StratumReset \/ StratumJob \/ IntervalElapsed
  BY <1>1 DEF StratumLost, StratumReset, StratumJob, IntervalElapsed, restart_threads
<1>2. ASSUME NEW T \in Targets, SetState(T) PROVE HandshakeInv'
  <2>1. CASE ctl_state = T
    BY <1>2, <2>1 DEF SetState, Handshake, Swapping
  <2>2. CASE ctl_state # T
    BY <1>2, <2>2 DEF SetState, EnterSwitching, Handshake, Swapping, Targets
  <2> QED
    BY <2>1, <2>2
<1>3. ASSUME NEW p \in Profiles, RequestProfile(p) PROVE HandshakeInv'
  BY <1>3 DEF RequestProfile, EnterSwitching, Handshake, Swapping, Targets
<1> QED
  BY <1>1, <1>2, <1>3

LEMMA ApiHandshake ==
  ASSUME HandshakeInv, TypeOK', ApiStep PROVE HandshakeInv'
<1> USE DEF HandshakeInv, ParkHeld, ParkDone, WokenScans, SwitchingWhileBusy,
        GenBound, AckedThreadsParked, SwapAfterAcks, GateGoneOnlyInSwap,
        Handshake, Swapping
<1>1. CASE ParkRequest \/ ParkRestart
  BY <1>1 DEF ParkRequest, ParkRestart, restart_threads
<1>2. CASE Parked \/ ParkTimeout
  BY <1>2 DEF Parked, ParkTimeout
<1>3. CASE StoreParams \/ Rollback
  BY <1>3 DEF StoreParams, Rollback
<1>4. CASE FreeBuffers
  BY <1>4 DEF FreeBuffers, TypeOK
<1>5. CASE FreeTimeout \/ InitThreads \/ ThreadsInitialised \/ InitTimeout
  BY <1>5 DEF FreeTimeout, InitThreads, ThreadsInitialised, InitTimeout, Leave
<1>6. CASE BuffersFreed
  BY <1>6 DEF BuffersFreed
<1>7. CASE Register \/ CheckMemory \/ RestoreGate
  <2>1. NULL # <<sw.to, opt_param>> /\ NULL # <<sw.prev, opt_param>> /\ NULL # HalfGate
    BY ControlAssumption DEF TypeOK, Switch, Config
  <2> QED
    BY <1>7, <2>1 DEF Register, CheckMemory, RestoreGate, Leave
<1>8. CASE ChangePool
  BY <1>8 DEF ChangePool
<1>9. CASE Commit
  <2>1. req.target \in Targets \cup {NULL}
    BY DEF TypeOK, Requests
  <2>2. ctl_state' \in Targets
    BY <1>9, <2>1 DEF Commit
  <2>3. req = StateRequest("RUNNING") => ctl_state' = "RUNNING"
    BY <1>9, ControlAssumption DEF Commit, StateRequest, Targets
  <2> QED
    BY <1>9, <2>2, <2>3 DEF Commit, Running
<1>10. CASE RestoreState
  BY <1>10 DEF RestoreState, Running
<1>11. CASE Release
  BY <1>11 DEF Release, restart_threads
<1> QED
  BY <1>1, <1>2, <1>3, <1>4, <1>5, <1>6, <1>7, <1>8, <1>9, <1>10, <1>11 DEF ApiStep

LEMMA NextHandshake == HandshakeInv /\ [Next]_vars => HandshakeInv'
<1> SUFFICES ASSUME HandshakeInv, [Next]_vars PROVE HandshakeInv'
  OBVIOUS
<1>1. TypeOK'
  BY NextTypeOK DEF HandshakeInv
<1>2. CASE UNCHANGED vars
  BY <1>1, <1>2 DEF vars, HandshakeInv, ParkHeld, ParkDone, WokenScans,
     SwitchingWhileBusy, GenBound, AckedThreadsParked, SwapAfterAcks, GateGoneOnlyInSwap
<1> QED
  BY <1>1, <1>2, MinerHandshake, EntryHandshake, ApiHandshake DEF Next

LEMMA HandshakeHolds == Spec => []HandshakeInv
  BY InitHandshake, NextHandshake, PTL DEF Spec

(***************************************************************************)
(* Whatever fails or times out, no thread is inside scanhash while the     *)
(* gate is rewritten by switch_algo.                                       *)
(***************************************************************************)
THEOREM SwapSafe == Spec => []KernelNeverRacesSwap
<1>1. HandshakeInv => KernelNeverRacesSwap
  BY DEF HandshakeInv, KernelNeverRacesSwap, GateGoneOnlyInSwap, SwapAfterAcks,
     AckedThreadsParked, Swapping, Running
<1> QED
  BY <1>1, HandshakeHolds, PTL

(***************************************************************************)
(* Whatever fails or times out, a scan running while a park request is in  *)
(* force, or while the miner is paused or stopped, has been told to end.   *)
(***************************************************************************)
THEOREM ParkIsHeard == Spec => []ParkWakesScan
<1>1. HandshakeInv => ParkWakesScan
  BY DEF HandshakeInv, TypeOK, ParkWakesScan, ParkInForce, WokenScans, ParkDone,
     Handshake, Swapping, Running, ApiPC
<1> QED
  BY <1>1, HandshakeHolds, PTL

(***************************************************************************)
(* Every mutation ends in one of the three stable states.                  *)
(***************************************************************************)
THEOREM MutationsLand == Spec => []NeverStuckSwitching
<1>1. HandshakeInv => NeverStuckSwitching
  BY DEF HandshakeInv, SwitchingWhileBusy, NeverStuckSwitching, Targets
<1> QED
  BY <1>1, HandshakeHolds, PTL

-----------------------------------------------------------------------------
(* Buffers and the gate, when no wait times out.                           *)

LEMMA InitOwnership == Init => OwnershipInv
<1> SUFFICES ASSUME Init PROVE OwnershipInv
  OBVIOUS
<1> QED
  BY InitHandshake DEF Init, OwnershipInv, FreeServed, InitServed, InitBound,
     FreedHoldNothing, OwnedBuffers

LEMMA MinerOwnership ==
  ASSUME OwnershipInv, HandshakeInv', NEW t \in Threads, Miner(t) PROVE OwnershipInv'
<1> USE DEF OwnershipInv, HandshakeInv, TypeOK, FreeServed, InitServed, InitBound,
        FreedHoldNothing, OwnedBuffers
<1>1. CASE TakeWork(t) \/ ReadParkRequest(t) \/ ReadState(t) \/ EndScan(t)
  BY <1>1 DEF TakeWork, ReadParkRequest, ReadState, EndScan
<1>2. CASE AckParked(t) \/ AckRunning(t)
  BY <1>2 DEF AckParked, AckRunning
<1>3. CASE ServiceFree(t)
  BY <1>3 DEF ServiceFree
<1>4. CASE ServiceFreeAck(t)
  BY <1>4 DEF ServiceFreeAck
<1>5. CASE ServiceInitAck(t)
  BY <1>5 DEF ServiceInitAck
<1>6. CASE ServiceInit(t)
  BY <1>6 DEF ServiceInit
<1> QED
  BY <1>1, <1>2, <1>3, <1>4, <1>5, <1>6 DEF Miner

LEMMA EntryOwnership ==
  ASSUME OwnershipInv, HandshakeInv',
         \/ StratumLost \/ StratumReset \/ StratumJob \/ IntervalElapsed
         \/ \E T \in Targets : SetState(T)
         \/ \E p \in Profiles : RequestProfile(p)
  PROVE OwnershipInv'
<1>1. /\ UNCHANGED <<genVars, algo_gate, pc, buf>>
      /\ apc' = apc \/ (apc = "idle" /\ apc' \in {"commit", "park"})
  BY DEF StratumLost, StratumReset, StratumJob, IntervalElapsed, SetState,
     RequestProfile
<1> QED
  BY <1>1 DEF OwnershipInv, FreeServed, InitServed, InitBound, FreedHoldNothing,
     OwnedBuffers

LEMMA ApiOwnership ==
  ASSUME "timeout" \notin Faults, OwnershipInv, HandshakeInv', ApiStep
  PROVE OwnershipInv'
<1> USE DEF OwnershipInv, FreeServed, InitServed, InitBound, FreedHoldNothing,
        OwnedBuffers
<1>1. CASE ParkRequest \/ ParkRestart \/ Parked \/ ParkTimeout \/ FreeTimeout \/ InitTimeout
  BY <1>1 DEF ParkRequest, ParkRestart, Parked, ParkTimeout, FreeTimeout, InitTimeout
<1>2. CASE StoreParams \/ Rollback
  BY <1>2 DEF StoreParams, Rollback
<1>3. CASE FreeBuffers
  BY <1>3 DEF FreeBuffers, HandshakeInv, TypeOK
<1>4. CASE BuffersFreed
  BY <1>4 DEF BuffersFreed
<1>5. CASE Register \/ CheckMemory \/ RestoreGate
  BY <1>5 DEF Register, CheckMemory, RestoreGate, Leave
<1>6. CASE InitThreads
  BY <1>6 DEF InitThreads, HandshakeInv, TypeOK
<1>7. CASE ThreadsInitialised
  BY <1>7 DEF ThreadsInitialised, Leave
<1>8. CASE ChangePool \/ Commit \/ RestoreState \/ Release
  BY <1>8 DEF ChangePool, Commit, RestoreState, Release
<1> QED
  BY <1>1, <1>2, <1>3, <1>4, <1>5, <1>6, <1>7, <1>8 DEF ApiStep

LEMMA NextOwnership ==
  ASSUME "timeout" \notin Faults
  PROVE OwnershipInv /\ [Next]_vars => OwnershipInv'
<1> SUFFICES ASSUME OwnershipInv, [Next]_vars PROVE OwnershipInv'
  OBVIOUS
<1>1. HandshakeInv'
  BY NextHandshake DEF OwnershipInv
<1>2. CASE UNCHANGED vars
  BY <1>1, <1>2 DEF vars, OwnershipInv, FreeServed, InitServed, InitBound,
     FreedHoldNothing, OwnedBuffers
<1> QED
  BY <1>1, <1>2, MinerOwnership, EntryOwnership, ApiOwnership DEF Next

(***************************************************************************)
(* If no wait of switch_algo times out, every buffer belongs to the        *)
(* registered configuration, whether registrations, memory checks or       *)
(* allocations fail or not.                                                *)
(***************************************************************************)
THEOREM BuffersFollowGate ==
  ASSUME "timeout" \notin Faults PROVE Spec => []GateOwnsBuffers
<1>1. OwnershipInv => GateOwnsBuffers
  BY DEF OwnershipInv, HandshakeInv, GateGoneOnlyInSwap, SwapAfterAcks, Swapping,
     FreedHoldNothing, OwnedBuffers, GateOwnsBuffers
<1>2. OwnershipInv /\ [Next]_vars => OwnershipInv'
  BY NextOwnership
<1> QED
  BY <1>1, <1>2, InitOwnership, PTL DEF Spec

-----------------------------------------------------------------------------
(* Buffers of hashing threads, when no wait times out and no allocation    *)
(* fails.                                                                  *)

HashingInv == OwnershipInv /\ MissingBuffers /\ NoRefusal /\ FreesLead

\* A refusal leaves the frees one ahead, and nothing catches up with them.
LEMMA FollowedBefore ==
  ASSUME "timeout" \notin Faults, TypeOK, FreesLead, NoRefusal, [Next]_vars
  PROVE  /\ FreesLead'
         /\ NoRefusal'
         /\ EveryFreeFollowed' => EveryFreeFollowed
<1>0. ctl_free_gen \in Nat /\ ctl_init_gen \in Nat
  BY DEF TypeOK
<1> USE DEF FreesLead, NoRefusal, EveryFreeFollowed, Underway
<1>1. CASE UNCHANGED vars
  BY <1>0, <1>1 DEF vars
<1>2. ASSUME NEW t \in Threads, Miner(t) PROVE UNCHANGED <<apc, ctl_free_gen, ctl_init_gen>>
  BY <1>2 DEF Miner, TakeWork, ReadParkRequest, ReadState, AckParked, AckRunning,
     ServiceFree, ServiceFreeAck, ServiceInitAck, ServiceInit, EndScan
<1>3. CASE \/ StratumLost \/ StratumReset \/ StratumJob \/ IntervalElapsed
           \/ \E T \in Targets : SetState(T)
           \/ \E p \in Profiles : RequestProfile(p)
  <2>1. /\ UNCHANGED genVars
        /\ apc' = apc \/ (apc = "idle" /\ apc' \in {"commit", "park"})
    BY <1>3 DEF StratumLost, StratumReset, StratumJob, IntervalElapsed, SetState,
       RequestProfile
  <2> QED
    BY <1>0, <2>1
<1>4. CASE \/ ParkRequest \/ ParkRestart \/ Parked \/ ParkTimeout \/ StoreParams \/ FreeTimeout
           \/ InitTimeout \/ ChangePool \/ Commit \/ Rollback \/ RestoreState \/ Release
  BY <1>0, <1>4 DEF ParkRequest, ParkRestart, Parked, ParkTimeout, StoreParams, FreeTimeout,
     InitTimeout, ChangePool, Commit, Rollback, RestoreState, Release
<1>5. CASE FreeBuffers \/ BuffersFreed \/ InitThreads
  BY <1>0, <1>5 DEF FreeBuffers, BuffersFreed, InitThreads
<1>6. CASE Register \/ CheckMemory
  BY <1>0, <1>6 DEF Register, CheckMemory
<1>7. CASE RestoreGate
  BY <1>0, <1>7 DEF RestoreGate, Leave
<1>8. CASE ThreadsInitialised
  BY <1>0, <1>8 DEF ThreadsInitialised, Leave
<1> QED
  BY <1>0, <1>1, <1>2, <1>3, <1>4, <1>5, <1>6, <1>7, <1>8 DEF Next, ApiStep

LEMMA NextHashing ==
  ASSUME "timeout" \notin Faults, "init" \notin Faults
  PROVE  HashingInv /\ [Next]_vars => HashingInv'
<1> SUFFICES ASSUME HashingInv, [Next]_vars
             PROVE  MissingBuffers' /\ NoRefusal' /\ FreesLead'
  BY NextOwnership DEF HashingInv
<1>1. FreesLead' /\ NoRefusal'
  BY FollowedBefore DEF HashingInv, OwnershipInv, HandshakeInv
<1> SUFFICES ASSUME EveryFreeFollowed' PROVE MissingBuffers'
  BY <1>1 DEF MissingBuffers
<1>2. EveryFreeFollowed /\ apc # "restore" /\ apc # "fail"
  BY FollowedBefore DEF HashingInv, OwnershipInv, HandshakeInv, NoRefusal
<1> USE <1>2 DEF HashingInv, MissingBuffers
<1>3. CASE UNCHANGED vars
  BY <1>3 DEF vars
<1>4. ASSUME NEW t \in Threads, Miner(t) PROVE MissingBuffers'
  BY <1>4 DEF Miner, TakeWork, ReadParkRequest, ReadState, AckParked, AckRunning,
     ServiceFree, ServiceFreeAck, ServiceInitAck, ServiceInit, EndScan,
     OwnershipInv, HandshakeInv, TypeOK, FreeServed, InitServed
<1>5. CASE \/ StratumLost \/ StratumReset \/ StratumJob \/ IntervalElapsed
           \/ \E T \in Targets : SetState(T)
           \/ \E p \in Profiles : RequestProfile(p)
  <2>1. /\ UNCHANGED <<genVars, algo_gate, pc, buf>>
        /\ apc' = apc \/ (apc = "idle" /\ apc' \in {"commit", "park"})
    BY <1>5 DEF StratumLost, StratumReset, StratumJob, IntervalElapsed, SetState,
       RequestProfile
  <2> QED
    BY <2>1
<1>6. CASE ApiStep
  <2>1. CASE ParkRequest \/ ParkRestart \/ Parked \/ ParkTimeout \/ FreeTimeout
             \/ InitTimeout \/ StoreParams \/ Rollback
    BY <2>1 DEF ParkRequest, ParkRestart, Parked, ParkTimeout, FreeTimeout,
       InitTimeout, StoreParams, Rollback
  <2>2. CASE FreeBuffers \/ BuffersFreed \/ InitThreads
    BY <2>2 DEF FreeBuffers, BuffersFreed, InitThreads, OwnershipInv, InitServed,
       HandshakeInv, TypeOK
  <2>3. CASE Register \/ CheckMemory
    <3>1. apc' # "restore"
      BY <1>1 DEF NoRefusal
    <3> QED
      BY <2>3, <3>1 DEF Register, CheckMemory
  <2>4. CASE RestoreGate
    BY <2>4 DEF RestoreGate
  <2>5. CASE ThreadsInitialised
    BY <2>5 DEF ThreadsInitialised, Leave
  <2>6. CASE ChangePool \/ Commit \/ RestoreState \/ Release
    BY <2>6 DEF ChangePool, Commit, RestoreState, Release
  <2> QED
    BY <1>6, <2>1, <2>2, <2>3, <2>4, <2>5, <2>6 DEF ApiStep
<1> QED
  BY <1>3, <1>4, <1>5, <1>6 DEF Next

(***************************************************************************)
(* If no wait times out and no allocation fails, a thread inside scanhash  *)
(* holds buffers of the registered configuration, until a switch is        *)
(* refused after the buffers were freed: the two-phase handover never lets *)
(* a thread run between its free and its allocation.                       *)
(***************************************************************************)
THEOREM NoHashBetweenPhases ==
  ASSUME "timeout" \notin Faults, "init" \notin Faults
  PROVE  Spec => []HandoverComplete
<1>1. Init => HashingInv
  BY InitOwnership DEF HashingInv, Init, MissingBuffers, NoRefusal, FreesLead, Underway
<1>2. HashingInv => HandoverComplete
  BY DEF HashingInv, OwnershipInv, HandshakeInv, MissingBuffers, HashingHasBuffers,
     HandoverComplete, AckedThreadsParked, SwapAfterAcks, Swapping, Running
<1>3. HashingInv /\ [Next]_vars => HashingInv'
  BY NextHashing
<1> QED
  BY <1>1, <1>2, <1>3, PTL DEF Spec
-----------------------------------------------------------------------------
(***************************************************************************)
(* A mutation is atomic, whatever fails.  Each position of the API thread  *)
(* says which settings are still the ones it found and which are the new   *)
(* ones already.                                                           *)
(***************************************************************************)
Offered == Profiles \cup {StateRequest(T) : T \in Targets}
SwitchPC == {"free", "waitFree"} \cup Swapping
Late == "timeout" \in Faults

OldStored == ctl_stored[ParamAlgo] = saved.param
NewStored == ctl_stored[ParamAlgo] = IF req.param # NULL THEN req.param ELSE saved.param
OldOrLate == opt_algo = saved.algo \/ (Late /\ opt_algo = ParamAlgo)

\* The request in progress; a change of state never gets to switch_algo.
Request ==
  ~Landed => /\ req \in Offered /\ (req.param # NULL => ParamAlgo \in ParamAlgos)
             /\ apc \in SwitchPC \cup {"store", "pool"} => req.kind = "profile"
NothingYet ==
  apc \in {"park", "restart", "parkWait", "store"} =>
    opt_algo = saved.algo /\ rpc_url = saved.url /\ OldStored
Forward ==
  apc \in SwitchPC /\ ~sw.back =>
    /\ rpc_url = saved.url /\ NewStored /\ sw.to = ParamAlgo
    /\ apc \in {"free", "waitFree", "restore"} => opt_algo = saved.algo
    /\ apc \notin {"free", "waitFree", "restore"} => opt_algo = ParamAlgo
    /\ apc \in Swapping => sw.prev = saved.algo
Backward ==
  apc \in SwitchPC /\ sw.back =>
    /\ rpc_url = saved.url /\ OldStored /\ sw.to = saved.algo /\ OldOrLate
    /\ apc # "memory"
    /\ apc \in Swapping => sw.prev = saved.algo \/ (Late /\ sw.prev = ParamAlgo)
Done ==
  /\ apc = "pool" => opt_algo = ParamAlgo /\ rpc_url = saved.url /\ NewStored
  /\ apc = "commit" =>
       /\ opt_algo = ParamAlgo /\ NewStored
       /\ rpc_url = IF req.url # NULL THEN req.url ELSE saved.url
Undoing ==
  /\ apc = "fail" => /\ rpc_url = saved.url /\ OldOrLate
                     /\ req.kind = "state" => OldStored
  /\ apc = "undone" => rpc_url = saved.url /\ OldOrLate /\ OldStored
Undone ==
  Landed /\ reply = "FAILED" =>
    ctl_state = saved.state /\ rpc_url = saved.url /\ OldStored

ChangeInv ==
  Request /\ NothingYet /\ Forward /\ Backward /\ Done /\ Undoing /\ Undone

\* The gate is being rewritten, named by opt_algo or nobody's.
NamedGate ==
  /\ apc \notin {"register", "restore"} =>
       algo_gate # NULL /\ (algo_gate = HalfGate \/ algo_gate[1] = opt_algo)
  /\ apc = "register" => opt_algo = sw.to
  /\ apc = "restore" => opt_algo = sw.prev
LEMMA OfferedParts ==
  ASSUME NEW r \in Offered
  PROVE  /\ r \in Requests /\ r.kind \in {"state", "profile"}
         /\ r.kind = "state" => r.algo = NULL /\ r.param = NULL /\ r.url = NULL
<1>1. CASE r \in Profiles
  BY <1>1, ControlAssumption DEF Profile, Requests
<1>2. ASSUME NEW T \in Targets, r = StateRequest(T) PROVE r \in Requests /\ r.algo = NULL /\ r.param = NULL /\ r.url = NULL
  BY <1>2 DEF StateRequest, Requests
<1>3. r \in Requests => r.kind \in {"state", "profile"}
  BY DEF Requests
<1>4. CASE r \in Profiles
  BY <1>1, <1>3, <1>4, ControlAssumption DEF Profile
<1> QED
  BY <1>2, <1>3, <1>4 DEF Offered

\* What the request in progress and the saved values are made of.
LEMMA RequestTypes ==
  ASSUME TypeOK
  PROVE  /\ ParamAlgo \in Algos /\ saved.algo \in Algos /\ saved.param \in Params
         /\ saved.url \in Urls /\ req.param \in Params \cup {NULL} /\ req.url \in Urls \cup {NULL}
         /\ ctl_stored \in [Algos -> Params] /\ opt_algo \in Algos
         /\ NULL \notin Params /\ NULL \notin Algos /\ NULL \notin Urls
         /\ sw.to \in Algos /\ sw.prev \in Algos
<1>1. saved.algo \in Algos /\ saved.param \in Params /\ saved.url \in Urls
  BY DEF TypeOK, Saved
<1>2. req.algo \in Algos \cup {NULL} /\ req.param \in Params \cup {NULL} /\ req.url \in Urls \cup {NULL}
  BY DEF TypeOK, Requests
<1>3. sw.to \in Algos /\ sw.prev \in Algos
  BY DEF TypeOK, Switch
<1> QED
  BY <1>1, <1>2, <1>3, ControlAssumption DEF TypeOK, ParamAlgo

\* Mining threads, the stratum thread and the clock change no setting.
Outside == \/ \E t \in Threads : Miner(t)
           \/ StratumLost \/ StratumReset \/ StratumJob \/ IntervalElapsed
           \/ UNCHANGED vars

LEMMA OutsideSteps ==
  ASSUME Outside
  PROVE  UNCHANGED <<ctl_state, ctl_epoch, opt_algo, opt_param, ctl_stored, algo_gate, rpc_url,
                     apc, req, saved, sw, reply>>
<1>1. ASSUME NEW t \in Threads, Miner(t)
      PROVE  UNCHANGED <<stateVars, algoVars, poolVars, callVars>>
  BY <1>1 DEF Miner, TakeWork, ReadParkRequest, ReadState, AckParked, AckRunning, ServiceFree,
     ServiceFreeAck, ServiceInitAck, ServiceInit, EndScan
<1> QED
  BY <1>1 DEF Outside, StratumLost, StratumReset, StratumJob, IntervalElapsed, vars

LEMMA OutsideChange == ASSUME ChangeInv, NamedGate, Outside PROVE ChangeInv' /\ NamedGate'
<1>1. UNCHANGED <<ctl_state, opt_algo, ctl_stored, algo_gate, rpc_url, apc, req, saved, sw, reply>>
  BY OutsideSteps
<1>2. ParamAlgo' = ParamAlgo
  BY <1>1 DEF ParamAlgo
<1> QED
  BY <1>1, <1>2 DEF ChangeInv, Request, NothingYet, Forward, Backward, Done, Undoing, Undone, Landed,
     OldStored, NewStored, OldOrLate, NamedGate

\* A request is taken: everything is still as it was found.
LEMMA EnterChange ==
  ASSUME TypeOK, ctl_state \in Targets, NEW r \in Offered, EnterSwitching(r),
         apc' \in {"park", "commit"}, apc' = "commit" => r.kind = "state",
         r.param # NULL => (IF r.algo # NULL THEN r.algo ELSE opt_algo) \in ParamAlgos,
         UNCHANGED <<algoVars, poolVars, sw>>
  PROVE  /\ ChangeInv' /\ ~Landed'
         /\ saved'.state = ctl_state /\ saved'.algo = opt_algo /\ saved'.url = rpc_url
         /\ OldStored'
<1>1. /\ saved' = [state |-> ctl_state, algo |-> opt_algo, url |-> rpc_url,
                   param |-> ctl_stored[IF r.algo # NULL THEN r.algo ELSE opt_algo]]
      /\ req' = r /\ reply' = reply
  BY DEF EnterSwitching
<1>2. ParamAlgo' = IF r.algo # NULL THEN r.algo ELSE opt_algo
  BY <1>1 DEF ParamAlgo
<1>3. /\ saved'.state = ctl_state /\ saved'.algo = opt_algo /\ saved'.url = rpc_url
      /\ OldStored'
  BY <1>1, <1>2 DEF OldStored
<1>4. ~Landed'
  BY DEF Landed
<1>5. Request'
  BY <1>1, <1>2 DEF Request, SwitchPC, Swapping
<1>6. NothingYet'
  BY <1>3 DEF NothingYet
<1>7. Forward' /\ Backward' /\ Undoing'
  BY DEF Forward, Backward, Undoing, SwitchPC, Swapping
<1>8. Done'
  <2>1. CASE apc' = "park"
    BY <2>1 DEF Done
  <2>2. CASE apc' = "commit"
    <3>1. req'.algo = NULL /\ req'.param = NULL /\ req'.url = NULL
      BY <1>1, <2>2, OfferedParts
    <3>2. ParamAlgo' = opt_algo
      BY <1>2, <1>1, <3>1
    <3> QED
      BY <1>3, <2>2, <3>1, <3>2 DEF Done, NewStored, OldStored
  <2> QED
    BY <2>1, <2>2
<1>9. Undone'
  BY <1>4 DEF Undone
<1> QED
  BY <1>3, <1>4, <1>5, <1>6, <1>7, <1>8, <1>9 DEF ChangeInv

LEMMA EntryChange ==
  ASSUME HandshakeInv, ChangeInv, NamedGate,
         \/ \E T \in Targets : SetState(T)
         \/ \E p \in Profiles : RequestProfile(p)
  PROVE  ChangeInv' /\ NamedGate'
<1>0. TypeOK /\ apc = "idle" /\ ctl_state \in Targets
  BY DEF HandshakeInv, SwitchingWhileBusy, SetState, RequestProfile
<1>1. UNCHANGED <<algoVars, poolVars, sw>>
  BY DEF SetState, RequestProfile
<1>2. ASSUME UNCHANGED <<ctl_state, apc, req, saved>>, reply' # "FAILED" PROVE ChangeInv'
  <2>1. ParamAlgo' = ParamAlgo
    BY <1>2 DEF ParamAlgo
  <2> QED
    BY <1>0, <1>1, <1>2, <2>1 DEF ChangeInv, Request, NothingYet, Forward, Backward, Done, Undoing,
       Undone, Landed, SwitchPC, Swapping
<1>3. ASSUME NEW T \in Targets, SetState(T) PROVE ChangeInv'
  <2>1. CASE ctl_state = T
    BY <1>2, <1>3, <2>1 DEF SetState
  <2>2. CASE ctl_state # T
    <3>1. StateRequest(T) \in Offered
      BY DEF Offered
    <3>2. StateRequest(T).kind = "state" /\ StateRequest(T).param = NULL
      BY DEF StateRequest
    <3>3. EnterSwitching(StateRequest(T)) /\ apc' \in {"park", "commit"}
      BY <1>3, <2>2 DEF SetState
    <3> QED
      BY <1>0, <1>1, <3>1, <3>2, <3>3, EnterChange
  <2> QED
    BY <2>1, <2>2
<1>4. ASSUME NEW p \in Profiles, RequestProfile(p) PROVE ChangeInv'
  <2> DEFINE bad == p.param # NULL /\ (IF p.algo # NULL THEN p.algo ELSE opt_algo) \notin ParamAlgos
  <2>1. CASE bad \/ ctl_last_switch
    BY <1>2, <1>4, <2>1 DEF RequestProfile
  <2>2. CASE ~(bad \/ ctl_last_switch)
    <3>1. EnterSwitching(p) /\ apc' = "park" /\ p \in Offered
      BY <1>4, <2>2 DEF RequestProfile, Offered
    <3> QED
      BY <1>0, <1>1, <2>2, <3>1, EnterChange
  <2> QED
    BY <2>1, <2>2
<1>5. apc' \notin {"register", "restore"}
  BY <1>0 DEF SetState, RequestProfile
<1>6. NamedGate'
  BY <1>0, <1>1, <1>5 DEF NamedGate
<1> QED
  BY <1>3, <1>4, <1>6
\* Where a step of the API thread stands, by its position before and after.
LEMMA ApiChange == ASSUME TypeOK, ChangeInv, NamedGate, ApiStep PROVE ChangeInv' /\ NamedGate'
<1> USE DEF ChangeInv, SwitchPC, Swapping
<1>0. /\ ParamAlgo \in Algos /\ saved.algo \in Algos /\ saved.param \in Params
      /\ saved.url \in Urls /\ req.param \in Params \cup {NULL} /\ req.url \in Urls \cup {NULL}
      /\ ctl_stored \in [Algos -> Params] /\ opt_algo \in Algos
      /\ NULL \notin Params /\ NULL \notin Algos /\ NULL \notin Urls
      /\ sw.to \in Algos /\ sw.prev \in Algos
  BY RequestTypes
<1>1. ASSUME UNCHANGED <<req, saved>> PROVE ParamAlgo' = ParamAlgo
  BY <1>1 DEF ParamAlgo
<1>2. CASE ParkRequest \/ ParkRestart
  <2>1. /\ UNCHANGED <<req, saved, sw, reply, algoVars, poolVars, ctl_state>>
        /\ apc \in {"park", "restart"} /\ apc' \in {"restart", "parkWait"}
    BY <1>2 DEF ParkRequest, ParkRestart
  <2>2. ParamAlgo' = ParamAlgo
    BY <1>1, <2>1
  <2> QED
    BY <2>1, <2>2 DEF Request, NothingYet, Forward, Backward, Done, Undoing, Undone, Landed,
       OldStored, NewStored, OldOrLate, NamedGate
<1>3. CASE Parked
  <2>1. /\ UNCHANGED <<req, saved, sw, reply, algoVars, poolVars, ctl_state>>
        /\ apc = "parkWait" /\ apc' = IF req.kind = "state" THEN "commit" ELSE "store"
    BY <1>3 DEF Parked
  <2>2. ParamAlgo' = ParamAlgo
    BY <1>1, <2>1
  <2>3. req \in Offered
    BY <2>1 DEF Request, Landed
  <2>4. req.kind \in {"state", "profile"} /\ (req.kind = "state" => req.algo = NULL /\ req.param = NULL /\ req.url = NULL)
    BY <2>3, OfferedParts
  <2>5. req.kind = "state" => ParamAlgo = saved.algo
    BY <2>4 DEF ParamAlgo
  <2> QED
    BY <2>1, <2>2, <2>3, <2>4, <2>5 DEF Request, NothingYet, Forward, Backward, Done, Undoing, Undone,
       Landed, OldStored, NewStored, OldOrLate, NamedGate
<1>4. CASE ParkTimeout
  <2>1. /\ UNCHANGED <<req, saved, sw, reply, algoVars, poolVars, ctl_state>>
        /\ apc = "parkWait" /\ apc' = "fail"
    BY <1>4 DEF ParkTimeout
  <2>2. ParamAlgo' = ParamAlgo
    BY <1>1, <2>1
  <2> QED
    BY <2>1, <2>2 DEF Request, NothingYet, Forward, Backward, Done, Undoing, Undone, Landed,
       OldStored, NewStored, OldOrLate, NamedGate
<1>5. CASE StoreParams
  <2>1. /\ apc = "store" /\ UNCHANGED <<opt_algo, algo_gate, req, saved, reply, rpc_url, ctl_state>>
        /\ ctl_stored' = IF req.param # NULL THEN [ctl_stored EXCEPT ![ParamAlgo] = req.param] ELSE ctl_stored
    BY <1>5 DEF StoreParams
  <2>2. ParamAlgo' = ParamAlgo
    BY <1>1, <2>1
  <2>3. NewStored'
    BY <1>0, <2>1, <2>2 DEF NothingYet, OldStored, NewStored
  <2>4. CASE req.algo # NULL \/ req.param # NULL
    <3>1. sw' = [to |-> ParamAlgo, prev |-> opt_algo, back |-> FALSE] /\ apc' = "free"
      BY <1>5, <2>4 DEF StoreParams
    <3> QED
      BY <2>1, <2>2, <2>3, <3>1 DEF Request, NothingYet, Forward, Backward, Done, Undoing, Undone, Landed,
         NamedGate
  <2>5. CASE ~(req.algo # NULL \/ req.param # NULL)
    <3>1. apc' = "pool" /\ ParamAlgo = saved.algo
      BY <1>5, <2>5 DEF StoreParams, ParamAlgo
    <3> QED
      BY <2>1, <2>2, <2>3, <3>1 DEF Request, NothingYet, Forward, Backward, Done, Undoing, Undone, Landed,
         NamedGate
  <2> QED
    BY <2>4, <2>5
<1>6. CASE FreeBuffers \/ InitThreads
  <2>1. /\ UNCHANGED <<req, saved, sw, reply, algoVars, poolVars, ctl_state>>
        /\ \/ apc = "free" /\ apc' = "waitFree"
           \/ apc = "init" /\ apc' = "waitInit"
    BY <1>6 DEF FreeBuffers, InitThreads
  <2>2. ParamAlgo' = ParamAlgo
    BY <1>1, <2>1
  <2> QED
    BY <2>1, <2>2 DEF Request, NothingYet, Forward, Backward, Done, Undoing, Undone, Landed,
       OldStored, NewStored, OldOrLate, NamedGate
<1>7. CASE BuffersFreed
  <2>1. /\ apc = "waitFree" /\ apc' = "register" /\ opt_algo' = sw.to
        /\ sw' = [sw EXCEPT !.prev = opt_algo] /\ algo_gate' = NULL
        /\ UNCHANGED <<ctl_stored, req, saved, reply, rpc_url, ctl_state>>
    BY <1>7 DEF BuffersFreed
  <2>2. ParamAlgo' = ParamAlgo
    BY <1>1, <2>1
  <2>3. sw'.to = sw.to /\ sw'.prev = opt_algo /\ sw'.back = sw.back
    BY <2>1 DEF TypeOK, Switch
  <2> QED
    BY <2>1, <2>2, <2>3 DEF Request, NothingYet, Forward, Backward, Done, Undoing, Undone, Landed,
       OldStored, NewStored, OldOrLate, NamedGate
<1>8. CASE FreeTimeout \/ InitTimeout
  <2>1. /\ UNCHANGED <<req, saved, sw, reply, algoVars, poolVars, ctl_state>>
        /\ apc \in {"waitFree", "waitInit"} /\ Late
        /\ apc' = IF sw.back THEN "undone" ELSE "fail"
    BY <1>8 DEF FreeTimeout, InitTimeout, Leave, Late
  <2>2. ParamAlgo' = ParamAlgo
    BY <1>1, <2>1
  <2>3. req.kind = "profile"
    BY <2>1 DEF Request, Landed
  <2> QED
    BY <2>1, <2>2, <2>3 DEF Request, NothingYet, Forward, Backward, Done, Undoing, Undone, Landed,
       OldStored, NewStored, OldOrLate, NamedGate
<1>9. CASE ThreadsInitialised
  <2>1. /\ UNCHANGED <<req, saved, sw, reply, algoVars, poolVars, ctl_state>>
        /\ apc = "waitInit" /\ apc' = IF sw.back THEN "undone" ELSE "pool"
    BY <1>9 DEF ThreadsInitialised, Leave
  <2>2. ParamAlgo' = ParamAlgo
    BY <1>1, <2>1
  <2> QED
    BY <2>1, <2>2 DEF Request, NothingYet, Forward, Backward, Done, Undoing, Undone, Landed,
       OldStored, NewStored, OldOrLate, NamedGate
<1>10. CASE Register
  <2>1. /\ apc = "register" /\ UNCHANGED <<ctl_stored, req, saved, sw, reply, rpc_url, ctl_state>>
        /\ \/ /\ algo_gate' = <<sw.to, opt_param>> /\ opt_algo' = opt_algo
              /\ apc' = IF sw.back THEN "init" ELSE "memory"
           \/ /\ opt_algo' = sw.prev /\ apc' = "restore"
    BY <1>10 DEF Register
  <2>2. ParamAlgo' = ParamAlgo
    BY <1>1, <2>1
  <2>3. <<sw.to, opt_param>> # NULL /\ <<sw.to, opt_param>>[1] = sw.to
    BY <1>0, ControlAssumption DEF TypeOK, Config
  <2> QED
    BY <2>1, <2>2, <2>3 DEF Request, NothingYet, Forward, Backward, Done, Undoing, Undone, Landed,
       OldStored, NewStored, OldOrLate, NamedGate
<1>11. CASE CheckMemory
  <2>1. /\ apc = "memory" /\ UNCHANGED <<ctl_stored, req, saved, sw, reply, rpc_url, ctl_state>>
        /\ \/ apc' = "init" /\ UNCHANGED <<opt_algo, algo_gate>>
           \/ opt_algo' = sw.prev /\ apc' = "restore"
    BY <1>11 DEF CheckMemory
  <2>2. ParamAlgo' = ParamAlgo
    BY <1>1, <2>1
  <2> QED
    BY <2>1, <2>2 DEF Request, NothingYet, Forward, Backward, Done, Undoing, Undone, Landed,
       OldStored, NewStored, OldOrLate, NamedGate
<1>12. CASE RestoreGate
  <2>1. /\ apc = "restore" /\ UNCHANGED <<opt_algo, ctl_stored, req, saved, sw, reply, rpc_url, ctl_state>>
        /\ algo_gate' \in {<<sw.prev, opt_param>>, HalfGate}
        /\ apc' = IF sw.back THEN "undone" ELSE "fail"
    BY <1>12 DEF RestoreGate, Leave
  <2>2. ParamAlgo' = ParamAlgo
    BY <1>1, <2>1
  <2>3. /\ <<sw.prev, opt_param>> # NULL /\ <<sw.prev, opt_param>>[1] = sw.prev
        /\ HalfGate # NULL
    BY <1>0, ControlAssumption DEF TypeOK, Config
  <2>4. req.kind = "profile"
    BY <2>1 DEF Request, Landed
  <2> QED
    BY <2>1, <2>2, <2>3, <2>4 DEF Request, NothingYet, Forward, Backward, Done, Undoing, Undone, Landed,
       OldStored, NewStored, OldOrLate, NamedGate
<1>13. CASE ChangePool
  <2>1. /\ apc = "pool" /\ apc' = "commit"
        /\ rpc_url' = IF req.url # NULL THEN req.url ELSE rpc_url
        /\ UNCHANGED <<req, saved, sw, reply, algoVars, ctl_state>>
    BY <1>13 DEF ChangePool
  <2>2. ParamAlgo' = ParamAlgo
    BY <1>1, <2>1
  <2> QED
    BY <2>1, <2>2 DEF Request, NothingYet, Forward, Backward, Done, Undoing, Undone, Landed,
       OldStored, NewStored, OldOrLate, NamedGate
<1>14. CASE Commit
  <2>1. apc = "commit" /\ apc' = "release" /\ reply' = "OK" /\ UNCHANGED algoVars
    BY <1>14 DEF Commit
  <2> QED
    BY <2>1 DEF Request, NothingYet, Forward, Backward, Done, Undoing, Undone, Landed, NamedGate
<1>15. CASE Rollback
  <2>1. /\ apc = "fail" /\ UNCHANGED <<opt_algo, algo_gate, req, saved, reply, rpc_url, ctl_state>>
        /\ ctl_stored' = IF req.kind = "profile" THEN [ctl_stored EXCEPT ![ParamAlgo] = saved.param]
                                                 ELSE ctl_stored
    BY <1>15 DEF Rollback
  <2>2. ParamAlgo' = ParamAlgo
    BY <1>1, <2>1
  <2>3. req \in Offered
    BY <2>1 DEF Request, Landed
  <2>4. OldStored'
    <3>1. CASE req.kind = "profile"
      BY <1>0, <2>1, <2>2, <3>1 DEF OldStored
    <3>2. CASE req.kind = "state"
      BY <2>1, <2>2, <3>2 DEF OldStored, Undoing
    <3> QED
      BY <2>3, <3>1, <3>2, OfferedParts
  <2>5. rpc_url = saved.url /\ OldOrLate'
    BY <2>1, <2>2 DEF Undoing, OldOrLate
  <2>6. CASE (req.algo # NULL /\ opt_algo # saved.algo) \/ req.param # NULL
    <3>1. sw' = [to |-> saved.algo, prev |-> opt_algo, back |-> TRUE] /\ apc' = "free"
      BY <1>15, <2>6 DEF Rollback
    <3>2. req.kind = "profile"
      BY <1>0, <2>3, <2>6, OfferedParts
    <3> QED
      BY <2>1, <2>2, <2>4, <2>5, <3>1, <3>2 DEF Request, NothingYet, Forward, Backward, Done, Undoing,
         Undone, Landed, NamedGate
  <2>7. CASE ~((req.algo # NULL /\ opt_algo # saved.algo) \/ req.param # NULL)
    <3>1. apc' = "undone"
      BY <1>15, <2>7 DEF Rollback
    <3> QED
      BY <2>1, <2>2, <2>4, <2>5, <3>1 DEF Request, NothingYet, Forward, Backward, Done, Undoing,
         Undone, Landed, NamedGate
  <2> QED
    BY <2>6, <2>7
<1>16. CASE RestoreState
  <2>1. /\ apc = "undone" /\ apc' = "release" /\ rpc_url' = saved.url /\ ctl_state' = saved.state
        /\ UNCHANGED <<req, saved, algoVars>>
    BY <1>16 DEF RestoreState
  <2>2. ParamAlgo' = ParamAlgo
    BY <1>1, <2>1
  <2>3. OldStored'
    BY <2>1, <2>2 DEF Undoing, OldStored
  <2> QED
    BY <2>1, <2>2, <2>3 DEF Request, NothingYet, Forward, Backward, Done, Undoing, Undone, Landed, NamedGate
<1>17. CASE Release
  <2>1. /\ apc = "release" /\ apc' = "idle"
        /\ UNCHANGED <<req, saved, sw, reply, algoVars, poolVars, ctl_state>>
    BY <1>17 DEF Release
  <2>2. ParamAlgo' = ParamAlgo
    BY <1>1, <2>1
  <2> QED
    BY <2>1, <2>2 DEF Request, NothingYet, Forward, Backward, Done, Undoing, Undone, Landed, OldStored, NamedGate
<1> QED
  BY <1>2, <1>3, <1>4, <1>5, <1>6, <1>7, <1>8, <1>9, <1>10, <1>11, <1>12, <1>13, <1>14, <1>15, <1>16,
     <1>17 DEF ApiStep

LEMMA InitChange == Init => ChangeInv /\ NamedGate
<1> SUFFICES ASSUME Init PROVE ChangeInv /\ NamedGate
  OBVIOUS
<1>1. apc = "idle" /\ reply = "OK" /\ algo_gate = <<StartAlgo, StartParam>> /\ opt_algo = StartAlgo
  BY DEF Init
<1>2. <<StartAlgo, StartParam>> # NULL /\ <<StartAlgo, StartParam>>[1] = StartAlgo
  BY ControlAssumption DEF Config
<1> QED
  BY <1>1, <1>2 DEF ChangeInv, Request, NothingYet, Forward, Backward, Done, Undoing, Undone, Landed,
     SwitchPC, Swapping, NamedGate

AtomicInv == HandshakeInv /\ ChangeInv /\ NamedGate

LEMMA NextChange == AtomicInv /\ [Next]_vars => AtomicInv'
<1> SUFFICES ASSUME AtomicInv, [Next]_vars PROVE AtomicInv'
  OBVIOUS
<1>1. HandshakeInv' /\ TypeOK
  BY NextHandshake DEF AtomicInv, HandshakeInv
<1>2. CASE Outside
  BY <1>1, <1>2, OutsideChange DEF AtomicInv
<1>3. CASE \/ \E T \in Targets : SetState(T)
           \/ \E p \in Profiles : RequestProfile(p)
  BY <1>1, <1>3, EntryChange DEF AtomicInv
<1>4. CASE ApiStep
  BY <1>1, <1>4, ApiChange DEF AtomicInv
<1> QED
  BY <1>2, <1>3, <1>4 DEF Next, Outside

LEMMA AtomicHolds == Spec => []AtomicInv
<1>1. Init => AtomicInv
  BY InitHandshake, InitChange DEF AtomicInv
<1> QED
  BY <1>1, NextChange, PTL DEF Spec

(***************************************************************************)
(* Whatever fails or times out, a request answered with a failure leaves   *)
(* run state, pool address and stored parameters as api_ctl_profile or     *)
(* api_ctl_set_state found them.                                           *)
(***************************************************************************)
THEOREM RollbackRestores == Spec => []RollbackKeepsSettings
<1>1. AtomicInv => RollbackKeepsSettings
  BY DEF AtomicInv, ChangeInv, Undone, Landed, OldStored, RollbackKeepsSettings
<1> QED
  BY <1>1, AtomicHolds, PTL

(***************************************************************************)
(* Whatever fails or times out, between two requests the gate is that of   *)
(* the algorithm the API reports, or of none if the algorithm that         *)
(* switch_algo wanted to put back did not register.                        *)
(***************************************************************************)
THEOREM NameMatchesGate == Spec => []GateMatchesAlgo
<1>1. AtomicInv => GateMatchesAlgo
  BY DEF AtomicInv, NamedGate, GateMatchesAlgo
<1> QED
  BY <1>1, AtomicHolds, PTL

\* While a mutation is in progress the settings a manager may rely on stand:
\* only the parameter it is about is written, and that one is masked.
LEMMA BusyStutters ==
  ASSUME TypeOK, ~Landed, ~Landed', UNCHANGED <<ctl_epoch, req, saved, reply>>,
         \/ ctl_stored' = ctl_stored
         \/ \E v \in Params : ctl_stored' = [ctl_stored EXCEPT ![ParamAlgo] = v]
  PROVE  UNCHANGED Change!vars
<1>1. ParamAlgo' = ParamAlgo /\ ParamAlgo \in Algos /\ ctl_stored \in [Algos -> Params]
  BY RequestTypes DEF ParamAlgo
<1>2. [ctl_stored' EXCEPT ![ParamAlgo] = saved.param] = [ctl_stored EXCEPT ![ParamAlgo] = saved.param]
  BY <1>1
<1> QED
  BY <1>1, <1>2 DEF Change!vars, Change!settings

\* Taking a request: what was found is what is saved.
LEMMA EntrySimulates ==
  ASSUME HandshakeInv, ChangeInv, NamedGate,
         \/ \E T \in Targets : SetState(T)
         \/ \E p \in Profiles : RequestProfile(p)
  PROVE  [Change!Next]_(Change!vars)
<1>0. TypeOK /\ apc = "idle" /\ ctl_state \in Targets /\ Landed
  BY DEF HandshakeInv, SwitchingWhileBusy, SetState, RequestProfile, Landed
<1>1. UNCHANGED <<algoVars, poolVars, sw, ctl_epoch>>
  BY DEF SetState, RequestProfile
<1>2. ASSUME UNCHANGED <<ctl_state, apc>>, reply' \in {"OK", "BAD_REQUEST", "THROTTLED"}
      PROVE  Change!Answer
  <2>1. Landed'
    BY <1>0, <1>2 DEF Landed
  <2> QED
    BY <1>0, <1>1, <1>2, <2>1 DEF Change!Answer, Change!settings
<1>3. ASSUME ~Landed', saved'.state = ctl_state, saved'.algo = opt_algo, saved'.url = rpc_url,
             OldStored', reply' = reply
      PROVE  UNCHANGED Change!vars
  <2>1. ctl_stored' = ctl_stored /\ ctl_stored \in [Algos -> Params]
    BY <1>0, <1>1 DEF TypeOK
  <2>2. [ctl_stored' EXCEPT ![ParamAlgo'] = saved'.param] = ctl_stored
    BY <1>3, <2>1 DEF OldStored
  <2> QED
    BY <1>0, <1>1, <1>3, <2>2 DEF Change!vars, Change!settings
<1>4. ASSUME NEW T \in Targets, SetState(T) PROVE [Change!Next]_(Change!vars)
  <2>1. CASE ctl_state = T
    BY <1>2, <1>4, <2>1 DEF SetState, Change!Next
  <2>2. CASE ctl_state # T
    <3>1. StateRequest(T) \in Offered
      BY DEF Offered
    <3>2. StateRequest(T).kind = "state" /\ StateRequest(T).param = NULL
      BY DEF StateRequest
    <3>3. EnterSwitching(StateRequest(T)) /\ apc' \in {"park", "commit"} /\ reply' = reply
      BY <1>4, <2>2 DEF SetState, EnterSwitching
    <3> QED
      BY <1>0, <1>1, <1>3, <3>1, <3>2, <3>3, EnterChange
  <2> QED
    BY <2>1, <2>2
<1>5. ASSUME NEW p \in Profiles, RequestProfile(p) PROVE [Change!Next]_(Change!vars)
  <2> DEFINE bad == p.param # NULL /\ (IF p.algo # NULL THEN p.algo ELSE opt_algo) \notin ParamAlgos
  <2>1. CASE bad \/ ctl_last_switch
    BY <1>2, <1>5, <2>1 DEF RequestProfile, Change!Next
  <2>2. CASE ~(bad \/ ctl_last_switch)
    <3>1. EnterSwitching(p) /\ apc' = "park" /\ p \in Offered /\ reply' = reply
      BY <1>5, <2>2 DEF RequestProfile, EnterSwitching, Offered
    <3> QED
      BY <1>0, <1>1, <1>3, <2>2, <3>1, EnterChange
  <2> QED
    BY <2>1, <2>2
<1> QED
  BY <1>4, <1>5

\* The commit is the change, the end of the rollback its refusal; every other
\* step of the API thread changes nothing that counts.
LEMMA ApiSimulates ==
  ASSUME "timeout" \notin Faults, HandshakeInv, ChangeInv, ApiStep
  PROVE  [Change!Next]_(Change!vars)
<1>0. TypeOK /\ (~Landed => ctl_state = "SWITCHING") /\ saved.state \in Targets
  BY DEF HandshakeInv, SwitchingWhileBusy, Landed
<1>1. ~Landed => req \in Profiles \cup {StateRequest(T) : T \in Targets}
  BY DEF ChangeInv, Request, Offered
<1>2. ~Landed => (req.param # NULL => ParamAlgo \in ParamAlgos)
  BY DEF ChangeInv, Request
<1>3. CASE Commit
  <2>1. /\ apc = "commit" /\ apc' = "release"
        /\ ctl_state' = IF req.target # NULL THEN req.target ELSE saved.state
        /\ ctl_epoch' = ctl_epoch + 1 /\ reply' = "OK"
        /\ UNCHANGED <<rpc_url, req, saved, opt_algo, ctl_stored>>
    BY <1>3 DEF Commit, algoVars
  <2>2. ~Landed /\ Landed'
    BY <2>1 DEF Landed
  <2>3. /\ opt_algo = ParamAlgo /\ NewStored
        /\ rpc_url = IF req.url # NULL THEN req.url ELSE saved.url
    BY <2>1 DEF ChangeInv, Done
  <2>4. ctl_stored = IF req.param # NULL
                     THEN [[ctl_stored EXCEPT ![ParamAlgo] = saved.param] EXCEPT ![ParamAlgo] = req.param]
                     ELSE [ctl_stored EXCEPT ![ParamAlgo] = saved.param]
    BY <1>0, <2>3, RequestTypes DEF NewStored
  <2>5. Change!Apply(req)
    BY <1>2, <2>1, <2>2, <2>3, <2>4 DEF Change!Apply, Change!Takes, Change!Aim, ParamAlgo
  <2> QED
    BY <1>1, <2>2, <2>5 DEF Change!Next
<1>4. CASE RestoreState
  <2>1. /\ apc = "undone" /\ apc' = "release" /\ rpc_url' = saved.url /\ ctl_state' = saved.state
        /\ reply' = "FAILED" /\ UNCHANGED <<ctl_epoch, opt_algo, ctl_stored, req, saved>>
    BY <1>4 DEF RestoreState, algoVars
  <2>2. ~Landed /\ Landed'
    BY <2>1 DEF Landed
  <2>3. opt_algo = saved.algo /\ OldStored
    BY <2>1 DEF ChangeInv, Undoing, OldOrLate, Late
  <2>4. ctl_stored = [ctl_stored EXCEPT ![ParamAlgo] = saved.param]
    BY <1>0, <2>3, RequestTypes DEF OldStored
  <2>5. Change!Abort(req)
    BY <1>2, <2>1, <2>2, <2>3, <2>4 DEF Change!Abort, Change!Takes, Change!Aim, Change!settings, ParamAlgo
  <2> QED
    BY <1>1, <2>2, <2>5 DEF Change!Next
<1>5. CASE Release
  <2>1. Landed /\ Landed' /\ UNCHANGED <<ctl_state, ctl_epoch, opt_algo, rpc_url, ctl_stored, reply>>
    BY <1>5 DEF Release, Landed, stateVars, algoVars, poolVars
  <2> QED
    BY <2>1 DEF Change!vars, Change!settings
<1>6. CASE StoreParams
  <2>1. ~Landed /\ ~Landed' /\ UNCHANGED <<ctl_epoch, req, saved, reply>>
    BY <1>6 DEF StoreParams, Landed, stateVars
  <2>2. \/ ctl_stored' = ctl_stored
        \/ \E v \in Params : ctl_stored' = [ctl_stored EXCEPT ![ParamAlgo] = v]
    BY <1>0, <1>6, RequestTypes DEF StoreParams
  <2> QED
    BY <1>0, <2>1, <2>2, BusyStutters
<1>7. CASE Rollback
  <2>1. ~Landed /\ ~Landed' /\ UNCHANGED <<ctl_epoch, req, saved, reply>>
    BY <1>7 DEF Rollback, Landed, stateVars
  <2>2. \/ ctl_stored' = ctl_stored
        \/ \E v \in Params : ctl_stored' = [ctl_stored EXCEPT ![ParamAlgo] = v]
    BY <1>0, <1>7, RequestTypes DEF Rollback
  <2> QED
    BY <1>0, <2>1, <2>2, BusyStutters
<1>8. CASE \/ ParkRequest \/ ParkRestart \/ Parked \/ ParkTimeout
           \/ FreeBuffers \/ BuffersFreed \/ FreeTimeout \/ Register \/ CheckMemory \/ RestoreGate
           \/ InitThreads \/ ThreadsInitialised \/ InitTimeout \/ ChangePool
  <2>1. UNCHANGED <<ctl_epoch, req, saved, reply, ctl_stored>>
    BY <1>8 DEF ParkRequest, ParkRestart, Parked, ParkTimeout, FreeBuffers, BuffersFreed, FreeTimeout,
       Register, CheckMemory, RestoreGate, InitThreads, ThreadsInitialised, InitTimeout, ChangePool,
       stateVars, algoVars
  <2>2. ~Landed /\ ~Landed'
    BY <1>8 DEF ParkRequest, ParkRestart, Parked, ParkTimeout, FreeBuffers, BuffersFreed, FreeTimeout,
       Register, CheckMemory, RestoreGate, InitThreads, ThreadsInitialised, InitTimeout, ChangePool,
       Leave, Landed
  <2> QED
    BY <1>0, <2>1, <2>2, BusyStutters
<1> QED
  BY <1>3, <1>4, <1>5, <1>6, <1>7, <1>8 DEF ApiStep

\* Every step of the program is a step of Settings or changes nothing in it.
LEMMA StepSimulates ==
  ASSUME "timeout" \notin Faults
  PROVE  AtomicInv /\ [Next]_vars => [Change!Next]_(Change!vars)
<1> SUFFICES ASSUME AtomicInv, [Next]_vars PROVE [Change!Next]_(Change!vars)
  OBVIOUS
<1>1. CASE Outside
  <2>1. /\ UNCHANGED <<ctl_state, ctl_epoch, opt_algo, ctl_stored, rpc_url, apc, req, saved, reply>>
    BY <1>1, OutsideSteps
  <2>2. UNCHANGED <<Landed, ParamAlgo>>
    BY <2>1 DEF Landed, ParamAlgo
  <2> QED
    BY <2>1, <2>2 DEF Change!vars, Change!settings
<1>2. CASE \/ \E T \in Targets : SetState(T)
           \/ \E p \in Profiles : RequestProfile(p)
  BY <1>2, EntrySimulates DEF AtomicInv
<1>3. CASE ApiStep
  BY <1>3, ApiSimulates DEF AtomicInv
<1> QED
  BY <1>1, <1>2, <1>3 DEF Next, Outside

(***************************************************************************)
(* If no wait times out, every behaviour of the handshake, with its        *)
(* refusals, failed restorations, failed allocations and rollbacks, is one *)
(* of Settings: seen through the saved values, a mutation happens in a     *)
(* single step or not at all.                                              *)
(***************************************************************************)
THEOREM MutationsAreAtomic ==
  ASSUME "timeout" \notin Faults PROVE Spec => ChangeIsAtomic
<1>1. Init => Change!Init
  BY DEF Init, Change!Init, Landed
<1>2. AtomicInv /\ [Next]_vars => [Change!Next]_(Change!vars)
  BY StepSimulates
<1> QED
  BY <1>1, <1>2, AtomicHolds, PTL DEF Spec, ChangeIsAtomic, Change!Spec

(***************************************************************************)
(* docs/api-rest.md: "epoch ... is the reliable way to tell 'my change     *)
(* took effect'".  If no wait times out, then as long as ctl_epoch stands  *)
(* still so do algorithm, parameters, pool and run state, whatever has     *)
(* been refused, rolled back or throttled in between.                      *)
(***************************************************************************)
THEOREM EpochTells ==
  ASSUME "timeout" \notin Faults
  PROVE  Spec => [][ctl_epoch' = ctl_epoch => UNCHANGED Change!settings]_vars
<1>1. AtomicInv /\ [Next]_vars => [ctl_epoch' = ctl_epoch => UNCHANGED Change!settings]_vars
  <2> SUFFICES ASSUME AtomicInv, [Next]_vars, ctl_epoch' = ctl_epoch
               PROVE  UNCHANGED Change!settings
    OBVIOUS
  <2>1. Change!Next \/ UNCHANGED Change!vars
    BY StepSimulates
  <2>2. CASE UNCHANGED Change!vars
    BY <2>2 DEF Change!vars
  <2>3. CASE Change!Answer
    BY <2>3 DEF Change!Answer
  <2>4. ASSUME NEW r, Change!Apply(r) PROVE FALSE
    <3>1. ctl_epoch' = ctl_epoch + 1 /\ ctl_epoch \in Nat
      BY <2>4 DEF Change!Apply, AtomicInv, HandshakeInv, TypeOK
    <3> QED
      BY <3>1
  <2>5. ASSUME NEW r, Change!Abort(r) PROVE UNCHANGED Change!settings
    BY <2>5 DEF Change!Abort, Change!settings
  <2> QED
    BY <2>1, <2>2, <2>3, <2>4, <2>5 DEF Change!Next
<1> QED
  BY <1>1, AtomicHolds, PTL DEF Spec
=============================================================================
