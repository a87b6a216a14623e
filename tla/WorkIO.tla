------------------------------- MODULE WorkIO -------------------------------
(***************************************************************************)
(* Solo mining: the workio thread between the mining threads and a node.   *)
(*                                                                         *)
(* A mining thread whose work is too old asks for new work while it holds  *)
(* the write lock of g_work: it pushes a command onto the queue of the     *)
(* workio thread and waits on a queue of its own.  A thread that has found *)
(* a block pushes that onto the same queue, then makes g_work too old and  *)
(* restarts everybody.  The workio thread serves one command at a time,    *)
(* retrying calls that fail, with getblocktemplate or, if the node does    *)
(* not serve that, getwork; when it gives up, the process exits.           *)
(*                                                                         *)
(* Without stratum; long polling is never switched on.  The height that    *)
(* get_mininginfo adds to a getwork is part of the work here.              *)
(***************************************************************************)
EXTENDS Integers, Sequences

CONSTANTS Threads, NULL,
          HaveGbt, AllowGetwork,  \* --no-gbt and --no-getwork not given
          SwapsGetwork,   \* submit_getwork_result is the one that swaps bytes
          opt_retries,    \* failed calls to put up with; -1 for any number
          Versions,       \* what tells apart the works of one height
          MaxTip,         \* bound: blocks
          MaxShares       \* bound: blocks found here, accepted or not

ASSUME WorkIOAssumption ==
  /\ HaveGbt \in BOOLEAN /\ AllowGetwork \in BOOLEAN /\ SwapsGetwork \in BOOLEAN
  /\ HaveGbt \/ AllowGetwork
  /\ opt_retries \in Int /\ MaxTip \in Nat \ {0} /\ MaxShares \in Nat

\* The block it is to become, what is in it, and whether it is a template (txs).
Works == [height : Nat, version : Versions, txs : BOOLEAN]
\* data is in the byte order of the host or of the wire.
Commands == [cmd : {"get"}, thr : Threads]
              \cup [cmd : {"submit"}, thr : Threads, work : Works, data : {"host", "wire"}]

ASSUME NullAssumption == NULL \notin Works /\ NULL \notin Commands

VARIABLES
  tip,                     \* the node: height of the next block
  have_gbt, allow_getwork,
  wq, wc, wpc, failures,   \* workio thread: its queue, its command
  work_heap,               \* the reply it is about to push
  q,                       \* the queues of the mining threads
  g_work,
  recent,                  \* g_work_time is less than opt_scantime ago
  pc, work, restart,       \* mining threads; work is NULL outside of a scan
  shares,                  \* what the bound counts
  solved                   \* history: heights of our blocks the node has taken

nodeVars   == <<tip, solved>>
protoVars  == <<have_gbt, allow_getwork>>
workioVars == <<wc, wpc, failures, work_heap>>
minerVars  == <<pc, work>>
vars == <<nodeVars, protoVars, workioVars, wq, q, g_work, recent, minerVars, restart,
          shares>>

Init ==
  /\ tip = 1 /\ solved = {}
  /\ have_gbt = HaveGbt /\ allow_getwork = AllowGetwork
  /\ wq = <<>> /\ wc = NULL /\ wpc = "pop" /\ failures = 0 /\ work_heap = NULL
  /\ q = [t \in Threads |-> <<>>]
  /\ g_work = NULL /\ recent = FALSE
  /\ pc = [t \in Threads |-> "top"] /\ work = [t \in Threads |-> NULL]
  /\ restart = [t \in Threads |-> FALSE]
  /\ shares = 0

restart_threads == restart' = [t \in Threads |-> TRUE]

\* Who holds g_work_lock for writing.
Locked == \E t \in Threads : pc[t] \in {"locked", "wait"}
\* The queues that tq_freeze has closed.
Frozen == wpc = "dead"
ThreadFrozen(t) == pc[t] = "out"

-----------------------------------------------------------------------------
(* The node: the rest of the network finds a block.                        *)

NewBlock ==
  /\ tip < MaxTip /\ tip' = tip + 1
  /\ UNCHANGED <<solved, protoVars, workioVars, wq, q, g_work, recent, minerVars, restart,
                 shares>>

-----------------------------------------------------------------------------
(* The workio thread.                                                      *)

PopCommand ==
  /\ wpc = "pop" /\ wq # <<>>
  /\ wc' = Head(wq) /\ wq' = Tail(wq)
  /\ wpc' = Head(wq).cmd
  /\ UNCHANGED <<nodeVars, protoVars, failures, work_heap, q, g_work, recent, minerVars, restart,
                 shares>>

\* tq_pop waits once: a wake-up without a command ends the thread.
WakeForNothing ==
  /\ wpc = "pop" /\ wq = <<>> /\ wpc' = "end"
  /\ UNCHANGED <<nodeVars, protoVars, wc, failures, work_heap, wq, q, g_work, recent,
                 minerVars, restart, shares>>

\* Mutant: the count starts again with every pause.
RetryUncounted ==
  /\ failures' = (failures + 1) % 2
  /\ UNCHANGED <<wpc, wc, work_heap>>

\* Mutant: a call that fails ends the command, and the thread goes on to the next.
RetryDrops ==
  /\ wpc' = "pop" /\ wc' = NULL /\ failures' = 0
  /\ UNCHANGED work_heap

\* A call has failed: another attempt, or none.
Retry ==
  /\ failures' = IF opt_retries >= 0 THEN failures + 1 ELSE failures
  /\ wpc' = IF opt_retries >= 0 /\ failures' > opt_retries THEN "end" ELSE wpc
  /\ wc' = IF wpc' = "end" THEN NULL ELSE wc
  /\ UNCHANGED work_heap

\* No answer, or one that cannot be decoded; a template that cannot be decoded
\* ends the fallback all the same.
FetchFails ==
  /\ wpc = "get" /\ Retry
  /\ allow_getwork' \in {allow_getwork, allow_getwork /\ ~have_gbt}
  /\ UNCHANGED <<nodeVars, have_gbt, wq, q, g_work, recent, minerVars, restart, shares>>

\* Mutant: the fallback does not ask whether getwork may be used.
FallBackAlways ==
  /\ wpc = "get" /\ have_gbt
  /\ have_gbt' = FALSE
  /\ UNCHANGED <<nodeVars, allow_getwork, workioVars, wq, q, g_work, recent, minerVars,
                 restart, shares>>

\* The node does not serve templates, or none that can be used.
FallBack ==
  /\ wpc = "get" /\ have_gbt /\ allow_getwork
  /\ have_gbt' = FALSE
  /\ UNCHANGED <<nodeVars, allow_getwork, workioVars, wq, q, g_work, recent, minerVars,
                 restart, shares>>

\* Mutant: new work is announced when the height is new.
RestartOnHeight(w) ==
  IF g_work = NULL \/ w.height > g_work.height THEN restart_threads ELSE UNCHANGED restart

\* Work that differs from g_work is announced, whoever has asked for it.  A height
\* above last_block_height, or above g_work's in get_mininginfo, always differs.
RestartIfNew(w) == IF w # g_work THEN restart_threads ELSE UNCHANGED restart

\* A call that brings work.  g_work is read without its lock, which the thread
\* that waits for the work holds.
get_upstream_work(v) ==
  /\ wpc = "get"
  /\ LET w == [height |-> tip, version |-> v, txs |-> have_gbt]
     IN  RestartIfNew(w) /\ work_heap' = w
  /\ allow_getwork' = (allow_getwork /\ ~have_gbt)
  /\ wpc' = "reply"
  /\ UNCHANGED <<nodeVars, have_gbt, wc, failures, wq, q, g_work, recent, minerVars, shares>>

\* A reply for a thread that has left is dropped.
PushReply ==
  /\ wpc = "reply" /\ wpc' = "pop"
  /\ q' = IF ThreadFrozen(wc.thr) THEN q ELSE [q EXCEPT ![wc.thr] = Append(@, work_heap)]
  /\ wc' = NULL /\ work_heap' = NULL /\ failures' = 0
  /\ UNCHANGED <<nodeVars, protoVars, wq, g_work, recent, minerVars, restart,
                 shares>>

\* malloc_txs_request, and submit_getwork_result for some algorithms, swap the
\* bytes of the block in place.
Swaps(w) == w.txs \/ SwapsGetwork
Swapped(c) == IF ~Swaps(c.work) THEN "wire" ELSE IF c.data = "host" THEN "wire" ELSE "host"

\* The node takes a block for its next height; anything else is refused.
NodeReceives(c, data) ==
  IF data = "wire" /\ c.work.height = tip
  THEN tip' = tip + 1 /\ solved' = solved \cup {tip}
  ELSE UNCHANGED nodeVars

\* The block is sent, in the byte order that this attempt makes of it.
SendBlock(arrives) ==
  /\ wpc = "submit"
  /\ IF arrives THEN NodeReceives(wc, Swapped(wc)) ELSE UNCHANGED nodeVars
  /\ UNCHANGED <<protoVars, wq, q, g_work, recent, minerVars, restart, shares>>

SubmitOk ==
  /\ SendBlock(TRUE)
  /\ wpc' = "pop" /\ wc' = NULL /\ failures' = 0
  /\ UNCHANGED work_heap

\* The request or its answer is lost; the next attempt finds the block as this
\* one has left it.
SubmitFails ==
  /\ \E arrives \in BOOLEAN : SendBlock(arrives)
  /\ failures' = IF opt_retries >= 0 THEN failures + 1 ELSE failures
  /\ IF opt_retries >= 0 /\ failures' > opt_retries
     THEN wpc' = "end" /\ wc' = NULL
     ELSE wpc' = wpc /\ wc' = [wc EXCEPT !.data = Swapped(wc)]
  /\ UNCHANGED work_heap

\* tq_freeze.
CloseQueue ==
  /\ wpc = "end" /\ wpc' = "dead"
  /\ UNCHANGED <<nodeVars, protoVars, wc, failures, work_heap, wq, q, g_work, recent,
                 minerVars, restart, shares>>

\* main was waiting for the workio thread, and returns.
ExitProcess ==
  /\ wpc = "dead" /\ wpc' = "exit"
  /\ UNCHANGED <<nodeVars, protoVars, wc, failures, work_heap, wq, q, g_work, recent,
                 minerVars, restart, shares>>

-----------------------------------------------------------------------------
(* Mining threads.                                                         *)

Running == wpc # "exit"
Goto(t, p, r) == Running /\ pc[t] = p /\ pc' = [pc EXCEPT ![t] = r]

Age ==
  /\ recent /\ recent' = FALSE
  /\ UNCHANGED <<nodeVars, protoVars, workioVars, wq, q, g_work, minerVars, restart, shares>>

LockWork(t) ==
  /\ Goto(t, "top", "locked") /\ ~Locked
  /\ UNCHANGED <<nodeVars, protoVars, workioVars, wq, q, g_work, recent, work, restart,
                 shares>>

StillRecent(t) ==
  /\ Goto(t, "locked", "take") /\ recent
  /\ UNCHANGED <<nodeVars, protoVars, workioVars, wq, q, g_work, recent, work, restart,
                 shares>>

\* Too old, or the range of the thread is used up: get_work, up to the wait.
AskForWork(t) ==
  /\ IF Frozen THEN Goto(t, "locked", "leave") /\ UNCHANGED wq
               ELSE Goto(t, "locked", "wait") /\ wq' = Append(wq, [cmd |-> "get", thr |-> t])
  /\ UNCHANGED <<nodeVars, protoVars, workioVars, q, g_work, recent, work, restart, shares>>

\* The reply becomes g_work, and the lock is released.
ReceiveWork(t) ==
  /\ Goto(t, "wait", "take") /\ q[t] # <<>>
  /\ g_work' = Head(q[t]) /\ q' = [q EXCEPT ![t] = Tail(@)]
  /\ recent' = TRUE
  /\ UNCHANGED <<nodeVars, protoVars, workioVars, wq, work, restart, shares>>

\* Mutant: the thread asks again.
AskAgain(t) ==
  /\ Goto(t, "wait", "top") /\ q[t] = <<>>
  /\ UNCHANGED <<nodeVars, protoVars, workioVars, wq, q, g_work, recent, work, restart,
                 shares>>

\* A wake-up without a reply: the thread ends, its request remains.
GiveUp(t) ==
  /\ Goto(t, "wait", "leave") /\ q[t] = <<>>
  /\ UNCHANGED <<nodeVars, protoVars, workioVars, wq, q, g_work, recent, work, restart,
                 shares>>

Leave(t) ==
  /\ Goto(t, "leave", "out")
  /\ UNCHANGED <<nodeVars, protoVars, workioVars, wq, q, g_work, recent, work, restart,
                 shares>>

TakeWork(t) ==
  /\ Goto(t, "take", "hash") /\ ~Locked
  /\ work' = [work EXCEPT ![t] = g_work]
  /\ restart' = [restart EXCEPT ![t] = FALSE]
  /\ UNCHANGED <<nodeVars, protoVars, workioVars, wq, q, g_work, recent, shares>>

\* wanna_mine says no: every thread is restarted.
DontMine(t) ==
  /\ Goto(t, "hash", "top") /\ restart_threads
  /\ work' = [work EXCEPT ![t] = NULL]
  /\ UNCHANGED <<nodeVars, protoVars, workioVars, wq, q, g_work, recent, shares>>

EndScan(t) ==
  /\ Goto(t, "hash", "top")
  /\ work' = [work EXCEPT ![t] = NULL]
  /\ UNCHANGED <<nodeVars, protoVars, workioVars, wq, q, g_work, recent, restart, shares>>

\* submit_solution, from inside the scan: the block goes to the workio thread
\* first, then g_work is made too old.
submit_work(t) ==
  /\ Goto(t, "hash", "found") /\ ~Frozen
  /\ shares < MaxShares /\ shares' = shares + 1
  /\ wq' = Append(wq, [cmd |-> "submit", thr |-> t, work |-> work[t], data |-> "host"])
  /\ UNCHANGED <<nodeVars, protoVars, workioVars, q, g_work, recent, work, restart>>

\* Mutant: g_work stays as recent as it was.
RestartOnly(t) ==
  /\ Goto(t, "found", "tell") /\ ~Locked
  /\ UNCHANGED <<nodeVars, protoVars, workioVars, wq, q, g_work, recent, work, restart,
                 shares>>

ForceGetWork(t) ==
  /\ Goto(t, "found", "tell") /\ ~Locked
  /\ recent' = FALSE
  /\ UNCHANGED <<nodeVars, protoVars, workioVars, wq, q, g_work, work, restart, shares>>

TellThreads(t) ==
  /\ Goto(t, "tell", "hash") /\ restart_threads
  /\ UNCHANGED <<nodeVars, protoVars, workioVars, wq, q, g_work, recent, work, shares>>

-----------------------------------------------------------------------------
WorkioStep == \/ PopCommand \/ FetchFails \/ FallBack
              \/ \E v \in Versions : get_upstream_work(v)
              \/ PushReply \/ SubmitOk \/ SubmitFails \/ CloseQueue \/ ExitProcess

Miner(t) == \/ LockWork(t) \/ StillRecent(t) \/ AskForWork(t) \/ ReceiveWork(t) \/ Leave(t)
            \/ TakeWork(t) \/ DontMine(t) \/ EndScan(t) \/ submit_work(t) \/ ForceGetWork(t)
            \/ TellThreads(t)

Terminated == ~Running /\ UNCHANGED vars

Next == \/ NewBlock \/ Age \/ WorkioStep \/ WakeForNothing
        \/ \E t \in Threads : Miner(t) \/ GiveUp(t)
        \/ Terminated

Spec == Init /\ [][Next]_vars

(***************************************************************************)
(* Fairness.  The workio thread runs, and every call of the node ends, in  *)
(* an answer or in a failure: curl has a timeout.  Nothing is assumed of   *)
(* the node, nor that anybody is woken up for nothing.                     *)
(***************************************************************************)
FairSpec == Spec /\ WF_vars(WorkioStep) /\ \A t \in Threads : WF_vars(ReceiveWork(t))

-----------------------------------------------------------------------------
(* Properties.                                                             *)

WorkioPC == {"pop", "get", "reply", "submit", "end", "dead", "exit"}
MinerPC == {"top", "locked", "wait", "take", "hash", "found", "tell", "leave", "out"}

\* Threads take turns at g_work, each with at most one reply in its queue, which
\* it is waiting for unless it is leaving; everything else has its type.
TypeOK ==
  /\ tip \in Nat /\ solved \subseteq Nat
  /\ have_gbt \in BOOLEAN /\ allow_getwork \in BOOLEAN
  /\ wq \in Seq(Commands) /\ wc \in Commands \cup {NULL} /\ wpc \in WorkioPC
  /\ failures \in Nat /\ work_heap \in Works \cup {NULL}
  /\ q \in [Threads -> Seq(Works)]
  /\ g_work \in Works \cup {NULL} /\ recent \in BOOLEAN
  /\ pc \in [Threads -> MinerPC] /\ work \in [Threads -> Works \cup {NULL}]
  /\ restart \in [Threads -> BOOLEAN] /\ shares \in Nat
  /\ \A t \in Threads : /\ Len(q[t]) <= 1
                        /\ q[t] # <<>> => pc[t] \in {"wait", "leave", "out"}

\* A block of ours that the node has taken is not mined on again: g_work for its
\* height is too old, or its finder is about to make it so, whatever was being
\* fetched meanwhile.  cpu-miner.c: "we can't submit twice a block!"
SolvedNotKept ==
  g_work # NULL /\ g_work.height \in solved /\ recent => \E t \in Threads : pc[t] = "found"

\* The fallback leads to getwork where that may be used, and never away from
\* templates once there has been one.
ProtocolKept ==
  /\ have_gbt \/ allow_getwork
  /\ g_work # NULL /\ g_work.txs => have_gbt

\* Whoever waits for work under the write lock gets it, or the process ends,
\* whatever the node does and whoever has left.
FetchEnds == \A t \in Threads : pc[t] = "wait" ~> pc[t] # "wait" \/ ~Running

\* The request of a thread that waits under the write lock is never dropped while
\* the workio thread lives: it is queued, being served through every retry and
\* fallback, or answered, also when threads that gave up have left theirs behind.
IsGet(i, t) == wq[i].cmd = "get" /\ wq[i].thr = t
Serving(t) == wpc \in {"get", "reply"} /\ wc.thr = t
RequestNotLost ==
  \A t \in Threads : pc[t] = "wait" =>
    \/ \E i \in 1 .. Len(wq) : IsGet(i, t)
    \/ Serving(t) \/ q[t] # <<>>
    \/ wpc \in {"end", "dead", "exit"}

\* Every attempt to submit a block sends that block.  miner.h: "number of times
\* to retry if a network call fails".
RetrySendsBlock == wpc = "submit" => Swapped(wc) = "wire"

\* The workio thread keeps the promise of WorkFeed, although it announces work
\* before the thread that asked for it installs it.
Feed == INSTANCE WorkFeed WITH
          told <- restart,
          scanned <- [t \in Threads |-> IF pc[t] \in {"hash", "found", "tell"}
                                        THEN work[t] ELSE NULL]
FeedSpec == Feed!Spec

-----------------------------------------------------------------------------
(* Inductive strengthening.                                                *)

\* Who takes or scans work has some, and the workio thread has the command it serves.
HasWork ==
  /\ recent => g_work # NULL
  /\ \A t \in Threads : /\ pc[t] \in {"take", "hash", "found", "tell"} => g_work # NULL
                        /\ pc[t] \in {"hash", "found", "tell"} => work[t] # NULL
Serves ==
  /\ wpc \in {"get", "reply"} => wc # NULL /\ wc.cmd = "get"
  /\ wpc = "submit" => wc # NULL /\ wc.cmd = "submit"
  /\ wpc = "reply" => work_heap # NULL

\* The request of a thread is queued once, being served or answered.
OneRequest ==
  \A t \in Threads :
    /\ \A i, j \in 1 .. Len(wq) : IsGet(i, t) /\ IsGet(j, t) => i = j
    /\ \A i \in 1 .. Len(wq) :
         IsGet(i, t) => q[t] = <<>> /\ ~Serving(t) /\ pc[t] \in {"wait", "leave", "out"}
    /\ Serving(t) => q[t] = <<>> /\ pc[t] \in {"wait", "leave", "out"}

\* Of ProtocolKept: a template ends the fallback.
IsTemplate(w) == w # NULL /\ w.txs
TemplatesServed ==
  IsTemplate(g_work) \/ IsTemplate(work_heap) \/ (\E t \in Threads : q[t] # <<>> /\ Head(q[t]).txs)
    => have_gbt /\ ~allow_getwork

\* Of FeedSpec: the work on its way to a thread that waits has been announced.
Scan(t) == IF pc[t] \in {"hash", "found", "tell"} THEN work[t] ELSE NULL
ToldOf(w) == \A s \in Threads : Scan(s) \in {NULL, w} \/ restart[s]
Announced ==
  /\ ToldOf(g_work)
  /\ \A t \in Threads : pc[t] = "wait" =>
       /\ wpc = "reply" /\ wc.thr = t => ToldOf(work_heap)
       /\ q[t] # <<>> => ToldOf(Head(q[t]))

\* Of SolvedNotKept: a block behind the request of a thread that waits has its finder
\* wait for the lock; a block that is pending has it wait, or g_work is too old.
Held(c) == c.cmd = "submit" => pc[c.thr] = "found"
FinderWaits ==
  /\ \A h \in solved : h < tip
  /\ \A t \in Threads : pc[t] = "wait" =>
       /\ \A i, j \in 1 .. Len(wq) : IsGet(i, t) /\ i < j => Held(wq[j])
       /\ Serving(t) \/ q[t] # <<>> => \A j \in 1 .. Len(wq) : Held(wq[j])
       /\ q[t] # <<>> /\ wpc = "submit" => Held(wc)
       /\ q[t] # <<>> /\ Head(q[t]).height \in solved => \E s \in Threads : pc[s] = "found"
  /\ wpc = "reply" => work_heap.height \notin solved
  /\ recent => /\ \A j \in 1 .. Len(wq) : Held(wq[j])
               /\ wpc = "submit" => Held(wc)
=============================================================================
