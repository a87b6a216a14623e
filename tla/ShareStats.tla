----------------------------- MODULE ShareStats -----------------------------
(***************************************************************************)
(* Share accounting: what becomes of the record of a share between the     *)
(* mining thread that found it and the counters the API publishes.         *)
(*                                                                         *)
(* A mining thread hands its share to the workio thread and then writes a  *)
(* record of it into a small ring (submit_solution); the Veil variant      *)
(* writes the record first and sends the share itself.  The pool answers   *)
(* in order, and share_result, on the stratum thread, takes the next       *)
(* record off the ring, whatever share the answer is for, counts the       *)
(* answer and credits the thread the record names.  A reset of the         *)
(* connection rewinds the ring; an algorithm switch zeroes the session's   *)
(* counters, store by store and without a lock, while the API thread       *)
(* carries process-lifetime totals across it (api_model.c).                *)
(***************************************************************************)
EXTENDS Integers, Sequences

CONSTANTS Threads,      \* mining threads
          NULL,         \* an empty slot, nothing in hand
          s_stats_size, \* slots of the ring; 8 in the code
          RejectLimit,  \* rejected shares the miner puts up with; 10 in the code
          Variants,     \* of submit_solution: a share of Veil's SHA256Dv or not
          Builds,       \* may an increment compile to a load and a store
          MaxShares,    \* bound: shares found
          MaxPending,   \* bound: unanswered shares when another one is found
          MaxResets,    \* bound: resets of the connection
          MaxSwitches,  \* bound: algorithm switches, which reset the session
          Answers       \* what the pool answers in this instance

Shares == [thr : Threads, n : Nat \ {0}]
Results == {"accepted", "rejected", "stale"}
Counters == Results \cup {"submitted"}
ThreadCounters == {"submitted", "accepted", "rejected"}

\* The counters in the order api_reset_session_stats stores its zeroes.
ResetOrder == <<"submitted", "accepted", "rejected", "stale">>

ASSUME ShareStatsAssumption ==
  /\ NULL \notin Shares /\ NULL \notin Results
  /\ s_stats_size \in Nat \ {0}
  /\ RejectLimit \in Nat /\ MaxShares \in Nat /\ MaxPending \in Nat /\ MaxResets \in Nat
  /\ MaxSwitches \in Nat /\ Answers \subseteq Results
  /\ Variants \subseteq {"plain", "veil"} /\ Builds \subseteq BOOLEAN

VARIABLES
  share_stats, s_get_ptr, s_put_ptr,   \* the ring of records
  pc, hand,          \* per mining thread: position in submit_solution, its share
  queue,             \* the workio thread's queue, the share being sent at its head
  wire, up,          \* shares sent and not answered yet; the connection works
  at, my_stats, result, answered, tmp,  \* share_result: position and locals
  count,             \* the session's counters
  thr_shares,        \* thr_share_counts
  zeroed,            \* stores api_reset_session_stats has made; 0 outside of it
  polling,           \* api_mono_update is between its two reads of the counters
  mono,              \* its base, last and total of every result
  torn,              \* this build makes a load and a store of an increment
  found, resets, switches,  \* what the bounds count
  lifetime,          \* history: results counted since the process started
  credited           \* history: <<record, share answered>> of every credit

ringVars  == <<share_stats, s_get_ptr, s_put_ptr>>
minerVars == <<pc, hand>>
netVars   == <<queue, wire, up>>
replyVars == <<at, my_stats, result, answered, tmp>>
pollVars  == <<polling, mono>>
histVars  == <<torn, found, resets, switches, lifetime, credited>>
totalVars == <<pollVars, histVars>>
vars == <<ringVars, minerVars, netVars, replyVars, count, thr_shares, zeroed,
          totalVars>>

Slots == 0 .. s_stats_size - 1

\* Mutant: a pointer that never wraps.
IncrNoWrap(p) == p + 1

stats_ptr_incr(p) == (p + 1) % s_stats_size

Init ==
  /\ share_stats = [i \in Slots |-> NULL] /\ s_get_ptr = 0 /\ s_put_ptr = 0
  /\ pc = [t \in Threads |-> "scan"] /\ hand = [t \in Threads |-> NULL]
  /\ queue = <<>> /\ wire = <<>> /\ up = TRUE
  /\ at = "idle" /\ my_stats = NULL /\ result = NULL /\ answered = NULL /\ tmp = 0
  /\ count = [c \in Counters |-> 0]
  /\ thr_shares = [t \in Threads |-> [c \in ThreadCounters |-> 0]]
  /\ zeroed = 0 /\ polling = FALSE /\ torn \in Builds
  /\ mono = [r \in Results |-> [base |-> 0, last |-> 0, total |-> 0]]
  /\ found = 0 /\ resets = 0 /\ switches = 0
  /\ lifetime = [r \in Results |-> 0] /\ credited = {}

-----------------------------------------------------------------------------
(* Mining threads.                                                         *)

\* A switch parks every mining thread before it resets the counters.
FindShare(t, variant) ==
  /\ pc[t] = "scan" /\ zeroed = 0 /\ found < MaxShares
  /\ Len(queue) + Len(wire) < MaxPending
  /\ found' = found + 1
  /\ hand' = [hand EXCEPT ![t] = [thr |-> t, n |-> found + 1]]
  /\ pc' = [pc EXCEPT ![t] = IF variant = "veil" THEN "veil" ELSE "queue"]
  /\ UNCHANGED <<ringVars, netVars, replyVars, count, thr_shares, zeroed, pollVars,
                 torn, resets, switches, lifetime, credited>>

\* submit_work: the share may be on its way before there is a record of it.
submit_work(t) ==
  /\ pc[t] = "queue"
  /\ queue' = Append(queue, hand[t])
  /\ pc' = [pc EXCEPT ![t] = "stats"]
  /\ UNCHANGED <<ringVars, hand, wire, up, replyVars, count, thr_shares, zeroed,
                 totalVars>>

\* Under stats_lock.  A full ring is overwritten.
update_submit_stats(t) ==
  /\ pc[t] \in {"stats", "veil"}
  /\ share_stats' = [share_stats EXCEPT ![s_put_ptr] = hand[t]]
  /\ count' = [count EXCEPT !["submitted"] = @ + 1]
  /\ thr_shares' = [thr_shares EXCEPT ![t]["submitted"] = @ + 1]
  /\ pc' = [pc EXCEPT ![t] = IF pc[t] = "veil" THEN "send" ELSE "scan"]
  /\ hand' = [hand EXCEPT ![t] = IF pc[t] = "veil" THEN @ ELSE NULL]

Record(t) ==
  /\ update_submit_stats(t)
  /\ s_put_ptr' = stats_ptr_incr(s_put_ptr)
  /\ UNCHANGED <<s_get_ptr, netVars, replyVars, zeroed, totalVars>>

\* Veil: the mining thread sends the share itself; if the connection is down
\* the share is lost and its record stays.
SendVeil(t) ==
  /\ pc[t] = "send"
  /\ wire' = IF up THEN Append(wire, hand[t]) ELSE wire
  /\ pc' = [pc EXCEPT ![t] = "scan"] /\ hand' = [hand EXCEPT ![t] = NULL]
  /\ UNCHANGED <<ringVars, queue, up, replyVars, count, thr_shares, zeroed, totalVars>>

\* The workio thread repeats a send that failed.
submit_upstream_work ==
  /\ queue # <<>> /\ up
  /\ wire' = Append(wire, Head(queue)) /\ queue' = Tail(queue)
  /\ UNCHANGED <<up, ringVars, minerVars, replyVars, count, thr_shares, zeroed, totalVars>>

-----------------------------------------------------------------------------
(* The stratum thread: one message at a time.                              *)

\* Mutant: the slot is not cleared.
TakeRecordKeeps(r) ==
  /\ at = "idle" /\ wire # <<>>
  /\ answered' = Head(wire) /\ wire' = Tail(wire)
  /\ result' = r
  /\ my_stats' = share_stats[s_get_ptr]
  /\ s_get_ptr' = IF share_stats[s_get_ptr] # NULL THEN stats_ptr_incr(s_get_ptr)
                                                   ELSE s_get_ptr
  /\ at' = "count"
  /\ UNCHANGED <<share_stats, s_put_ptr, minerVars, queue, up, tmp, count, thr_shares, zeroed,
                 totalVars>>

\* share_result's first locked section: take the record at s_get_ptr, if any.
TakeRecord(r) ==
  /\ at = "idle" /\ wire # <<>>
  /\ answered' = Head(wire) /\ wire' = Tail(wire)
  /\ result' = r
  /\ my_stats' = share_stats[s_get_ptr]
  /\ share_stats' = [share_stats EXCEPT ![s_get_ptr] = NULL]
  /\ s_get_ptr' = IF share_stats[s_get_ptr] # NULL THEN stats_ptr_incr(s_get_ptr)
                                                   ELSE s_get_ptr
  /\ at' = "count"
  /\ UNCHANGED <<s_put_ptr, minerVars, queue, up, tmp, count, thr_shares, zeroed,
                 totalVars>>

\* The session counter, without a lock: one instruction, or a load and a store.
CountResult ==
  /\ at = "count"
  /\ \/ /\ ~torn
        /\ count' = [count EXCEPT ![result] = @ + 1]
        /\ lifetime' = [lifetime EXCEPT ![result] = @ + 1]
        /\ at' = "credit" /\ tmp' = tmp
     \/ /\ torn
        /\ tmp' = count[result] /\ at' = "store"
        /\ UNCHANGED <<count, lifetime>>
  /\ UNCHANGED <<ringVars, minerVars, netVars, my_stats, result, answered, thr_shares,
                 zeroed, pollVars, torn, found, resets, switches, credited>>

StoreCount ==
  /\ at = "store"
  /\ count' = [count EXCEPT ![result] = tmp + 1]
  /\ lifetime' = [lifetime EXCEPT ![result] = @ + 1]
  /\ at' = "credit" /\ tmp' = 0
  /\ UNCHANGED <<ringVars, minerVars, netVars, my_stats, result, answered, thr_shares,
                 zeroed, pollVars, torn, found, resets, switches, credited>>

\* The second locked section credits the thread the record names.
CreditThread ==
  /\ at = "credit"
  /\ thr_shares' = IF my_stats # NULL /\ result # "stale"
                   THEN [thr_shares EXCEPT ![my_stats.thr][result] = @ + 1]
                   ELSE thr_shares
  /\ credited' = credited \cup {<<my_stats, answered>> : r \in {my_stats} \ {NULL}}
  /\ my_stats' = NULL /\ result' = NULL /\ answered' = NULL
  /\ at' = "report"
  /\ UNCHANGED <<ringVars, minerVars, netVars, tmp, count, zeroed, pollVars, torn, found,
                 resets, switches, lifetime>>

\* The pool or the network drops the connection, and every answer to come.
LoseConnection ==
  /\ up /\ resets < MaxResets
  /\ up' = FALSE /\ wire' = <<>> /\ resets' = resets + 1
  /\ UNCHANGED <<queue, ringVars, minerVars, replyVars, count, thr_shares, zeroed,
                 pollVars, torn, found, switches, lifetime, credited>>

\* stratum_thread finds the connection gone or stratum_need_reset set, by the API
\* for one, and connects again.  Pointers that differ go back to the first slot;
\* the slots keep what they hold.
Reconnect ==
  /\ at = "idle" /\ (up => resets < MaxResets)
  /\ resets' = IF up THEN resets + 1 ELSE resets
  /\ wire' = <<>> /\ up' = TRUE
  /\ UNCHANGED <<queue, replyVars, zeroed, pollVars, torn, found, switches, lifetime,
                 credited>>

StratumReset ==
  /\ Reconnect
  /\ IF s_get_ptr # s_put_ptr THEN s_get_ptr' = 0 /\ s_put_ptr' = 0
                               ELSE UNCHANGED <<s_get_ptr, s_put_ptr>>
  /\ UNCHANGED <<share_stats, minerVars, count, thr_shares>>

\* The pointers are rewound without stats_lock: a thread recording a share at
\* that moment may store its successor of the old s_put_ptr over the zero.
StratumResetRaces(t) ==
  /\ Reconnect /\ s_get_ptr # s_put_ptr
  /\ update_submit_stats(t)
  /\ s_get_ptr' = 0 /\ s_put_ptr' = stats_ptr_incr(s_put_ptr)

\* After every message, an answer or another one: give up, or go on.  The other
\* threads run on until exit(1) has ended the process.
Excessive == /\ count["rejected"] > RejectLimit
             /\ count["rejected"] > count["submitted"] \div 2

report_summary_log ==
  /\ at \in {"report", "idle"}
  /\ at' = IF Excessive THEN "exit" ELSE "idle"
  /\ UNCHANGED <<ringVars, minerVars, netVars, my_stats, result, answered, tmp, count,
                 thr_shares, zeroed, totalVars>>

-----------------------------------------------------------------------------
(* The API thread: a request switches the algorithm or polls the totals,   *)
(* one request at a time.                                                  *)

\* At the end of a successful switch_algo, every mining thread parked.
BeginSessionReset ==
  /\ zeroed = 0 /\ ~polling /\ switches < MaxSwitches
  /\ \A t \in Threads : pc[t] = "scan"
  /\ switches' = switches + 1
  /\ count' = [count EXCEPT ![ResetOrder[1]] = 0] /\ zeroed' = 1
  /\ UNCHANGED <<ringVars, minerVars, netVars, replyVars, thr_shares, pollVars, torn,
                 found, resets, lifetime, credited>>

api_reset_session_stats ==
  /\ zeroed > 0
  /\ IF zeroed < Len(ResetOrder)
     THEN /\ count' = [count EXCEPT ![ResetOrder[zeroed + 1]] = 0]
          /\ zeroed' = zeroed + 1
     ELSE zeroed' = 0 /\ count' = count
  /\ UNCHANGED <<ringVars, minerVars, netVars, replyVars, thr_shares, totalVars>>

\* Mutants: nothing is carried, and a counter that stands still is carried.
CarryNothing(m, now) == [m EXCEPT !.last = now]
CarryOnEqual(m, now) ==
  [base |-> IF now <= m.last THEN m.base + m.last ELSE m.base, last |-> now, total |-> m.total]

\* A counter below its last value was reset: keep what it had reached.
mono_carry(m, now) ==
  [base |-> IF now < m.last THEN m.base + m.last ELSE m.base, last |-> now, total |-> m.total]

\* api_mono_update reads every counter twice without a lock, once to carry it and
\* once to publish it; answers are counted between the two.  The counters do not
\* depend on each other, so each of the two passes is one step.
CarryTotals ==
  /\ zeroed = 0 /\ ~polling
  /\ polling' = TRUE
  /\ mono' = [r \in Results |-> mono_carry(mono[r], count[r])]
  /\ UNCHANGED <<ringVars, minerVars, netVars, replyVars, count, thr_shares, zeroed,
                 histVars>>

api_mono_update ==
  /\ polling
  /\ polling' = FALSE
  /\ mono' = [r \in Results |-> [mono[r] EXCEPT !.total = mono[r].base + count[r]]]
  /\ UNCHANGED <<ringVars, minerVars, netVars, replyVars, count, thr_shares, zeroed,
                 histVars>>

-----------------------------------------------------------------------------
Miner(t) == \/ \E v \in Variants : FindShare(t, v)
            \/ submit_work(t) \/ Record(t) \/ SendVeil(t)
            \/ StratumResetRaces(t)

Stratum == \/ \E r \in Answers : TakeRecord(r)
           \/ CountResult \/ StoreCount \/ CreditThread
           \/ LoseConnection \/ StratumReset \/ report_summary_log

Api == BeginSessionReset \/ api_reset_session_stats \/ CarryTotals \/ api_mono_update

Next == Stratum \/ Api \/ submit_upstream_work \/ \E t \in Threads : Miner(t)

Spec == Init /\ [][Next]_vars

-----------------------------------------------------------------------------
(* Properties.                                                             *)

MonoRecord == [base : Nat, last : Nat, total : Nat]

\* The ring's pointers stay in the ring, every slot and every local holds a
\* share or nothing, and every counter is a natural number.
TypeOK ==
  /\ share_stats \in [Slots -> Shares \cup {NULL}]
  /\ s_get_ptr \in Slots /\ s_put_ptr \in Slots
  /\ pc \in [Threads -> {"scan", "queue", "stats", "veil", "send"}]
  /\ hand \in [Threads -> Shares \cup {NULL}]
  /\ \A t \in Threads : pc[t] # "scan" => hand[t] # NULL
  /\ queue \in Seq(Shares) /\ wire \in Seq(Shares) /\ up \in BOOLEAN
  /\ at \in {"idle", "count", "store", "credit", "report", "exit"}
  /\ my_stats \in Shares \cup {NULL} /\ answered \in Shares \cup {NULL}
  /\ result \in Results \cup {NULL} /\ tmp \in Nat
  /\ at \in {"count", "store", "credit"} => result # NULL /\ answered # NULL
  /\ count \in [Counters -> Nat]
  /\ thr_shares \in [Threads -> [ThreadCounters -> Nat]]
  /\ zeroed \in 0 .. Len(ResetOrder) /\ polling \in BOOLEAN /\ torn \in BOOLEAN
  /\ mono \in [Results -> MonoRecord]
  /\ found \in Nat /\ resets \in Nat /\ switches \in Nat
  /\ lifetime \in [Results -> Nat]
  /\ credited \subseteq Shares \X Shares

\* share_result erases what it takes: however often the pointers are rewound
\* over slots that were never cleared, one record is credited at most once.
CreditedOnce == \A c, d \in credited : c[1] = d[1] => c = d

\* docs/api-rest.md: miner_shares_total survives the resets of the session.  What
\* a poll has carried is never lost, through any number of resets and whatever
\* the race on the counter leaves in it, and every total published is at least
\* that: a total may be below an earlier one only by the answers that were
\* counted between the two reads of the earlier poll.
Carried(m) == m.base + m.last
MonoKeepsCarried ==
  [][\A r \in Results : /\ Carried(mono[r]) <= Carried(mono'[r])
                        /\ ~polling' => Carried(mono'[r]) <= mono'[r].total]_vars

\* Where an increment is one instruction, the totals carried across resets never
\* count a share twice.
MonoNeverOverstates == ~torn => \A r \in Results : mono[r].total <= lifetime[r]

\* Inductive strengthening of MonoKeepsCarried: within a poll, with no reset, a
\* counter does not fall below what was carried, for a torn increment never
\* stores less than what it finds.
TotalKeepsUp ==
  /\ at = "store" => count[result] <= tmp
  /\ polling => zeroed = 0
  /\ \A r \in Results : IF polling THEN mono[r].last <= count[r]
                                    ELSE Carried(mono[r]) <= mono[r].total

\* Inductive strengthening of MonoNeverOverstates: either the counter has only
\* grown since the last poll, or it was reset after it, and then what it had
\* reached at the poll and what it counts now are different shares.
Ledger ==
  /\ at # "store"
  /\ \A r \in Results :
       /\ mono[r].total <= lifetime[r]
       /\ \/ /\ count[r] >= mono[r].last
             /\ mono[r].base + count[r] <= lifetime[r]
          \/ /\ ~polling
             /\ Carried(mono[r]) + count[r] <= lifetime[r]

\* Inductive strengthening of CreditedOnce: a record is in one place at a time,
\* on its way to the ring, in one slot, in share_result or credited.
Credited == {c[1] : c \in credited}
Unrecorded(t) == pc[t] \in {"queue", "stats", "veil"}
Numbered == /\ \A i \in Slots : share_stats[i] # NULL => share_stats[i].n <= found
            /\ my_stats # NULL => my_stats.n <= found
            /\ \A s \in Credited : s.n <= found
            /\ \A t \in Threads :
                 Unrecorded(t) => hand[t].thr = t /\ hand[t].n <= found
OneSlotEach == \A i, j \in Slots :
                 share_stats[i] # NULL /\ share_stats[i] = share_stats[j] => i = j
RingIsUncredited == \A i \in Slots :
                      share_stats[i] # NULL => /\ share_stats[i] # my_stats
                                               /\ share_stats[i] \notin Credited
HandIsNew == \A t \in Threads :
               Unrecorded(t) => /\ hand[t] \notin Credited /\ hand[t] # my_stats
                                /\ \A i \in Slots : share_stats[i] # hand[t]
TakenIsUncredited == at \in {"count", "store", "credit"} => my_stats \notin Credited
=============================================================================
