------------------------------- MODULE Nonce -------------------------------
(***************************************************************************)
(* How the mining threads divide the nonces of a work between them.        *)
(*                                                                         *)
(* Each thread has a slice of the 32-bit nonces, cut short by a reserve.   *)
(* It scans the slice in portions sized by its hash rate, a batch of lanes *)
(* at a time, and carries its place from one portion to the next in the    *)
(* nonce word of its copy of the work.  The scan loops are those of        *)
(* algo-gate-api.c; the last batch of a portion and the last portion of a  *)
(* slice may go beyond their limits by part of a batch.  The limit of a    *)
(* scan, max_nonce - lanes, is unsigned: a portion that ends below a batch *)
(* wraps it, and the scan runs until it is told to stop.  Work is that of  *)
(* a pool: without one, the same work may be fetched again.                *)
(***************************************************************************)
EXTENDS Integers

CONSTANTS opt_n_threads,
          Word,        \* number of nonces: 2^32
          Reserve,     \* nonces left out at the end of a slice: 0x20
          Spans,       \* values of CPUMINER_NONCE_SPAN; 0 when it is not set
          Kernels,     \* the scan loops: lanes, and whether the limit is included
          Max64,       \* sizes of a portion, in hashes; 1 for the slowest
          NULL,
          MaxWorks     \* bound: works

Threads == 0 .. opt_n_threads - 1
\* 0xffffffffU / opt_n_threads
Per == (Word - 1) \div opt_n_threads

(***************************************************************************)
(* A slice holds a batch beside its reserve, and the reserve holds a       *)
(* batch; a portion or a capped span need not: max64 is made at least 1,   *)
(* and CPUMINER_NONCE_SPAN is whatever the environment says.               *)
(***************************************************************************)
ASSUME NonceAssumption ==
  /\ opt_n_threads \in Nat \ {0} /\ Word \in Nat \ {0} /\ Reserve \in Nat
  /\ Spans \subseteq Nat /\ Max64 \subseteq Nat \ {0} /\ MaxWorks \in Nat
  /\ Kernels \subseteq [lanes : Nat \ {0}, inclusive : BOOLEAN]
  /\ \A k \in Kernels : k.lanes <= Reserve /\ k.lanes + Reserve <= Per
  /\ NULL \notin Nat

VARIABLES
  kernel, span,
  g_work,
  restart,
  pc, work,
  nonce, end_nonce, last_nonce,  \* the place in the slice and its limits
  passed,  \* history: nonces of the work that were hashed or skipped are below
  redo     \* history: the slice was started again although the work is the same,
           \* by a thread whose restart flag was set, or a scan had no limit

vars == <<kernel, span, g_work, restart, pc, work, nonce, end_nonce, last_nonce, passed, redo>>

Init ==
  /\ kernel \in Kernels /\ span \in Spans
  /\ g_work = 1
  /\ restart = [t \in Threads |-> FALSE]
  /\ pc = [t \in Threads |-> "top"] /\ work = [t \in Threads |-> NULL]
  /\ nonce = [t \in Threads |-> 0]
  /\ end_nonce = [t \in Threads |-> (Per * (t + 1) - opt_n_threads) % Word]
  /\ last_nonce = [t \in Threads |-> 0]
  /\ passed = [t \in Threads |-> 0] /\ redo = [t \in Threads |-> FALSE]

-----------------------------------------------------------------------------
(* Other threads: new work, and restarts for other reasons.                *)

NewWork ==
  /\ g_work < MaxWorks /\ g_work' = g_work + 1
  /\ restart' = [t \in Threads |-> TRUE]
  /\ UNCHANGED <<kernel, span, pc, work, nonce, end_nonce, last_nonce, passed, redo>>

\* A connection is lost, threads are parked, wanna_mine says no to one of them.
RestartAll ==
  /\ restart' = [t \in Threads |-> TRUE]
  /\ UNCHANGED <<kernel, span, g_work, pc, work, nonce, end_nonce, last_nonce, passed, redo>>

-----------------------------------------------------------------------------
(* A mining thread.                                                        *)

Goto(t, p, q) == pc[t] = p /\ pc' = [pc EXCEPT ![t] = q]
AtLeast(a, b) == IF a < b THEN b ELSE a
UsedUp(t) == nonce[t] >= end_nonce[t]

\* What is done about a slice that is used up depends on opt_extranonce.
CheckRange(t) ==
  /\ IF ~UsedUp(t) \/ restart[t] THEN Goto(t, "top", "take")
                                 ELSE Goto(t, "top", "gen") \/ Goto(t, "top", "starve")
  /\ UNCHANGED <<kernel, span, g_work, restart, work, nonce, end_nonce, last_nonce, passed, redo>>

\* stratum_gen_work, with the next extranonce2.
RollExtranonce(t) ==
  /\ Goto(t, "gen", "take") /\ g_work < MaxWorks
  /\ g_work' = g_work + 1
  /\ restart' = [s \in Threads |-> TRUE]
  /\ UNCHANGED <<kernel, span, work, nonce, end_nonce, last_nonce, passed, redo>>

AwaitRestart(t) ==
  /\ Goto(t, "starve", "take") /\ restart[t]
  /\ UNCHANGED <<kernel, span, g_work, restart, work, nonce, end_nonce, last_nonce, passed, redo>>

SliceStart(t) == (Per * t) % Word
\* Mutant: nothing is left out.
NoReserve(t) == (Per * (t + 1)) % Word
\* Mutant: one slice too far, and not in 32 bits.
WideEnd(t) == Per * (t + 2) - Reserve
SliceEnd(t) == (Per * (t + 1) - Reserve) % Word
Capped(first, end) ==
  IF span > 0 /\ (end - first) % Word > span THEN (first + span) % Word ELSE end

\* std_get_new_work, and the clearing of the flag under the same lock.
std_get_new_work(t) ==
  /\ Goto(t, "take", "size")
  /\ IF work[t] # g_work \/ UsedUp(t)
     THEN /\ work' = [work EXCEPT ![t] = g_work]
          /\ nonce' = [nonce EXCEPT ![t] = SliceStart(t)]
          /\ end_nonce' = [end_nonce EXCEPT ![t] = Capped(SliceStart(t), SliceEnd(t))]
     ELSE /\ nonce' = [nonce EXCEPT ![t] = (nonce[t] + 1) % Word]
          /\ UNCHANGED <<work, end_nonce>>
  /\ restart' = [restart EXCEPT ![t] = FALSE]
  /\ passed' = [passed EXCEPT ![t] = IF work[t] # g_work THEN 0 ELSE AtLeast(@, nonce[t])]
  /\ redo' = [redo EXCEPT ![t] = work[t] = g_work /\ (@ \/ (UsedUp(t) /\ restart[t]))]
  /\ UNCHANGED <<kernel, span, g_work, last_nonce>>

\* Parked, told not to mine or out of time: nothing is hashed.
SkipScan(t) ==
  /\ Goto(t, "size", "top")
  /\ UNCHANGED <<kernel, span, g_work, restart, work, nonce, end_nonce, last_nonce, passed, redo>>

MaxNonce(t, m) == IF nonce[t] + m > end_nonce[t] THEN end_nonce[t] ELSE nonce[t] + m

\* scanhash computes its limit in 32 bits.
SizePortion(t) ==
  /\ Goto(t, "size", "hash")
  /\ \E m \in Max64 :
        /\ last_nonce' = [last_nonce EXCEPT ![t] = (MaxNonce(t, m) - kernel.lanes) % Word]
        /\ redo' = [redo EXCEPT ![t] = @ \/ MaxNonce(t, m) < kernel.lanes]
  /\ UNCHANGED <<kernel, span, g_work, restart, work, nonce, end_nonce, passed>>

Continues(n, last) == n < last \/ (kernel.inclusive /\ n = last)

\* Mutant: the place of the last batch is kept, not the one after it.
KeepsBatch(t) ==
  LET n == (nonce[t] + kernel.lanes) % Word
      more == Continues(n, last_nonce[t]) /\ ~restart[t]
  IN  /\ Goto(t, "hash", IF more THEN "hash" ELSE "top")
      /\ nonce' = [nonce EXCEPT ![t] = IF more THEN n ELSE nonce[t]]
      /\ passed' = [passed EXCEPT ![t] = AtLeast(@, nonce[t] + kernel.lanes)]
      /\ last_nonce' = [last_nonce EXCEPT ![t] = IF more THEN @ ELSE 0]
      /\ UNCHANGED <<kernel, span, g_work, restart, work, end_nonce, redo>>

\* One round of a scan loop: a batch, then the limit and the flag.
HashBatch(t) ==
  LET n == (nonce[t] + kernel.lanes) % Word
      more == Continues(n, last_nonce[t]) /\ ~restart[t]
  IN  /\ Goto(t, "hash", IF more THEN "hash" ELSE "top")
      /\ nonce' = [nonce EXCEPT ![t] = n]
      /\ passed' = [passed EXCEPT ![t] = AtLeast(@, nonce[t] + kernel.lanes)]
      /\ last_nonce' = [last_nonce EXCEPT ![t] = IF more THEN @ ELSE 0]
      /\ UNCHANGED <<kernel, span, g_work, restart, work, end_nonce, redo>>

-----------------------------------------------------------------------------
Miner(t) == \/ CheckRange(t) \/ RollExtranonce(t) \/ AwaitRestart(t) \/ std_get_new_work(t)
            \/ SkipScan(t) \/ SizePortion(t) \/ HashBatch(t)

Next == NewWork \/ RestartAll \/ \E t \in Threads : Miner(t)

Spec == Init /\ [][Next]_vars

-----------------------------------------------------------------------------
(* Properties.                                                             *)

MinerPC == {"top", "gen", "starve", "take", "size", "hash"}
Nonces == 0 .. Word - 1

\* The nonce word and its limits keep to 32 bits, and everything has its type.
TypeOK ==
  /\ kernel \in Kernels /\ span \in Spans /\ g_work \in Nat
  /\ restart \in [Threads -> BOOLEAN]
  /\ pc \in [Threads -> MinerPC] /\ work \in [Threads -> Nat \cup {NULL}]
  /\ nonce \in [Threads -> Nonces] /\ end_nonce \in [Threads -> Nonces]
  /\ last_nonce \in [Threads -> Nonces]
  /\ passed \in [Threads -> Nat] /\ redo \in [Threads -> BOOLEAN]

\* The limit of a scan wrapped below zero.
Unlimited(t) == last_nonce[t] >= Word - kernel.lanes

\* Every batch is inside the thread's own slice, the overshoot at the end of it
\* included, so that no two threads hash the same nonce of the same work; the one
\* exception is a scan of the first thread whose portion ends below a batch
\* (max_nonce - lanes in the scan loops).
SliceKept ==
  \A t \in Threads : pc[t] = "hash" =>
    \/ Per * t <= nonce[t] /\ nonce[t] + kernel.lanes <= Per * (t + 1)
    \/ t = 0 /\ Unlimited(t)

\* A thread does not come back to a nonce of the same work, from one portion to
\* the next, through restarts, and when it skips a scan; except that it starts its
\* slice again when it is used up and a restart brings no new work, and that a
\* scan without a limit wraps.
NoNonceTwice ==
  \A t \in Threads : pc[t] = "hash" => passed[t] <= nonce[t] \/ redo[t]

\* Inductive strengthening of both.
Place(t) ==
  /\ end_nonce[t] <= Per * (t + 1) - Reserve
  /\ Per * t <= nonce[t]
  /\ pc[t] = "size" => nonce[t] <= end_nonce[t]
  /\ pc[t] = "hash" => \/ /\ nonce[t] <= end_nonce[t]
                          /\ last_nonce[t] + kernel.lanes <= end_nonce[t]
                       \/ t = 0 /\ Unlimited(t) /\ redo[t]
  /\ redo[t] \/ passed[t] <= nonce[t]
InSlice == \A t \in Threads : work[t] # NULL => Place(t)
Begun == \A t \in Threads : pc[t] \in {"size", "hash"} => work[t] # NULL
Told ==
  \A t \in Threads :
    /\ work[t] # NULL => work[t] <= g_work
    /\ pc[t] = "take" /\ UsedUp(t) /\ work[t] = g_work => restart[t]
IInv == TypeOK /\ Begun /\ Told /\ InSlice
=============================================================================
