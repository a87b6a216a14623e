-------------------------- MODULE ShareStatsProofs --------------------------
(* Proofs about ShareStats: type correctness, the carried totals, and that *)
(* no record is credited twice, for any ring, any number of threads and    *)
(* any number of resets.                                                   *)
EXTENDS ShareStats, TLAPS

USE DEF ringVars, minerVars, netVars, replyVars, totalVars, pollVars, histVars

-----------------------------------------------------------------------------
(* Type correctness.                                                       *)

LEMMA IncrInSlots == \A p \in Slots : stats_ptr_incr(p) \in Slots
  BY ShareStatsAssumption, SMT DEF Slots, stats_ptr_incr

LEMMA ZeroIsASlot == 0 \in Slots
  BY ShareStatsAssumption DEF Slots

LEMMA ResetOrderFacts ==
  Len(ResetOrder) = 4 /\ \A i \in 1 .. 4 : ResetOrder[i] \in Counters
  BY DEF ResetOrder, Counters, Results

LEMMA InitTypeOK == Init => TypeOK
<1> SUFFICES ASSUME Init PROVE TypeOK
  OBVIOUS
<1>1. mono \in [Results -> MonoRecord]
  BY DEF Init, MonoRecord
<1>2. zeroed \in 0 .. Len(ResetOrder)
  BY ResetOrderFacts DEF Init
<1>3. polling \in BOOLEAN /\ torn \in BOOLEAN
  BY ShareStatsAssumption, Zenon DEF Init
<1> QED
  BY <1>1, <1>2, <1>3, ZeroIsASlot DEF Init, TypeOK

LEMMA RecordTypeOK ==
  ASSUME TypeOK, NEW t \in Threads, update_submit_stats(t)
  PROVE  /\ share_stats' \in [Slots -> Shares \cup {NULL}]
         /\ pc' \in [Threads -> {"scan", "queue", "stats", "veil", "send"}]
         /\ hand' \in [Threads -> Shares \cup {NULL}]
         /\ \A u \in Threads : pc'[u] # "scan" => hand'[u] # NULL
         /\ count' \in [Counters -> Nat]
         /\ thr_shares' \in [Threads -> [ThreadCounters -> Nat]]
<1>1. count' \in [Counters -> Nat]
  BY DEF update_submit_stats, TypeOK, Counters
<1>2. thr_shares' \in [Threads -> [ThreadCounters -> Nat]]
  BY DEF update_submit_stats, TypeOK, ThreadCounters
<1>3. share_stats' \in [Slots -> Shares \cup {NULL}]
  BY DEF update_submit_stats, TypeOK
<1>4. /\ pc' \in [Threads -> {"scan", "queue", "stats", "veil", "send"}]
      /\ hand' \in [Threads -> Shares \cup {NULL}]
      /\ \A u \in Threads : pc'[u] # "scan" => hand'[u] # NULL
  BY DEF update_submit_stats, TypeOK
<1> QED
  BY <1>1, <1>2, <1>3, <1>4

LEMMA MinerTypeOK ==
  ASSUME TypeOK, NEW t \in Threads, Miner(t) PROVE TypeOK'
<1>1. ASSUME NEW v \in Variants, FindShare(t, v) PROVE TypeOK'
  <2>1. [thr |-> t, n |-> found + 1] \in Shares
    BY DEF TypeOK, Shares
  <2>2. [thr |-> t, n |-> found + 1] # NULL
    BY <2>1, ShareStatsAssumption
  <2> QED
    BY <1>1, <2>1, <2>2 DEF FindShare, TypeOK
<1>2. CASE submit_work(t)
  <2>1. hand[t] \in Shares
    BY <1>2 DEF submit_work, TypeOK
  <2>2. queue' \in Seq(Shares)
    BY <1>2, <2>1 DEF submit_work, TypeOK
  <2> QED
    BY <1>2, <2>2 DEF submit_work, TypeOK
<1>3. CASE Record(t)
  BY <1>3, RecordTypeOK, IncrInSlots DEF Record, TypeOK
<1>4. CASE SendVeil(t)
  <2>1. hand[t] \in Shares
    BY <1>4 DEF SendVeil, TypeOK
  <2>2. wire' \in Seq(Shares)
    BY <1>4, <2>1 DEF SendVeil, TypeOK
  <2> QED
    BY <1>4, <2>2 DEF SendVeil, TypeOK
<1>5. CASE StratumResetRaces(t)
  <2>1. wire' = <<>> /\ up' = TRUE /\ resets' \in Nat
    BY <1>5 DEF StratumResetRaces, Reconnect, TypeOK
  <2> QED
    BY <1>5, <2>1, RecordTypeOK, IncrInSlots, ZeroIsASlot
    DEF StratumResetRaces, Reconnect, TypeOK
<1> QED
  BY <1>1, <1>2, <1>3, <1>4, <1>5 DEF Miner

LEMMA StratumTypeOK ==
  ASSUME TypeOK, Stratum PROVE TypeOK'
<1>1. ASSUME NEW r \in Answers, TakeRecord(r) PROVE TypeOK'
  <2>1. wire' \in Seq(Shares) /\ answered' \in Shares
    BY <1>1 DEF TakeRecord, TypeOK
  <2>2. answered' # NULL /\ r \in Results /\ r # NULL
    BY <2>1, ShareStatsAssumption
  <2> QED
    BY <1>1, <2>1, <2>2, IncrInSlots DEF TakeRecord, TypeOK
<1>2. CASE CountResult
  <2>1. result \in Results /\ result \in Counters
    BY <1>2 DEF CountResult, TypeOK, Counters
  <2>2. count' \in [Counters -> Nat] /\ tmp' \in Nat
    <3>1. count \in [Counters -> Nat] /\ tmp \in Nat /\ count[result] \in Nat
      BY <2>1 DEF TypeOK
    <3>2. \/ count' = [count EXCEPT ![result] = @ + 1] /\ tmp' = tmp
          \/ count' = count /\ tmp' = count[result]
      BY <1>2 DEF CountResult
    <3> QED
      BY <2>1, <3>1, <3>2
  <2>3. lifetime' \in [Results -> Nat]
    <3>1. lifetime' \in {lifetime, [lifetime EXCEPT ![result] = @ + 1]}
      BY <1>2 DEF CountResult
    <3> QED
      BY <2>1, <3>1 DEF TypeOK
  <2>4. at' \in {"store", "credit"} /\ result # NULL /\ answered # NULL
    BY <1>2 DEF CountResult, TypeOK
  <2>5. UNCHANGED <<ringVars, minerVars, netVars, my_stats, result, answered, thr_shares,
                    zeroed, pollVars, torn, found, resets, switches, credited>>
    BY <1>2 DEF CountResult
  <2> QED
    BY <2>2, <2>3, <2>4, <2>5 DEF TypeOK
<1>3. CASE StoreCount
  BY <1>3 DEF StoreCount, TypeOK, Counters
<1>4. CASE CreditThread
  <2>3. thr_shares' \in [Threads -> [ThreadCounters -> Nat]]
    <3>1. result # "stale" => result \in ThreadCounters
      BY <1>4 DEF CreditThread, TypeOK, ThreadCounters, Results
    <3>2. my_stats # NULL => my_stats.thr \in Threads
      BY DEF TypeOK, Shares
    <3> QED
      BY <1>4, <3>1, <3>2 DEF CreditThread, TypeOK
  <2>4. credited' \subseteq Shares \X Shares
    BY <1>4 DEF CreditThread, TypeOK
  <2> QED
    BY <1>4, <2>3, <2>4 DEF CreditThread, TypeOK
<1>5. CASE LoseConnection
  <2>1. wire' \in Seq(Shares)
    BY <1>5 DEF LoseConnection, TypeOK
  <2>2. up' \in BOOLEAN /\ resets' = resets + 1
    BY <1>5, Zenon DEF LoseConnection
  <2>3. UNCHANGED <<queue, ringVars, minerVars, replyVars, count, thr_shares, zeroed,
                    pollVars, torn, found, switches, lifetime, credited>>
    BY <1>5 DEF LoseConnection
  <2> QED
    BY <2>1, <2>2, <2>3 DEF TypeOK
<1>6. CASE StratumReset
  <2>1. wire' = <<>>
    BY <1>6 DEF StratumReset, Reconnect, TypeOK
  <2> QED
    BY <1>6, <2>1, ZeroIsASlot DEF StratumReset, Reconnect, TypeOK
<1>7. CASE report_summary_log
  BY <1>7 DEF report_summary_log, TypeOK
<1> QED
  BY <1>1, <1>2, <1>3, <1>4, <1>5, <1>6, <1>7 DEF Stratum

LEMMA CarryTypeOK ==
  ASSUME NEW m \in MonoRecord, NEW now \in Nat
  PROVE  mono_carry(m, now) \in MonoRecord
  BY DEF mono_carry, MonoRecord

LEMMA ApiTypeOK ==
  ASSUME TypeOK, Api \/ submit_upstream_work PROVE TypeOK'
<1>1. CASE BeginSessionReset
  <2>1. count' \in [Counters -> Nat]
    BY <1>1, ResetOrderFacts DEF BeginSessionReset, TypeOK
  <2>2. zeroed' \in 0 .. Len(ResetOrder) /\ switches' \in Nat
    BY <1>1, ResetOrderFacts DEF BeginSessionReset, TypeOK
  <2>3. UNCHANGED <<ringVars, minerVars, netVars, replyVars, thr_shares, pollVars, torn,
                    found, resets, lifetime, credited>>
    BY <1>1 DEF BeginSessionReset
  <2> QED
    BY <2>1, <2>2, <2>3
    DEF TypeOK, ringVars, minerVars, netVars, replyVars
<1>2. CASE api_reset_session_stats
  <2>1. zeroed \in 1 .. 4
    BY <1>2, ResetOrderFacts DEF api_reset_session_stats, TypeOK
  <2>2. zeroed < 4 => ResetOrder[zeroed + 1] \in Counters
    BY <2>1, ResetOrderFacts
  <2>3. count' \in [Counters -> Nat]
    <3>1. CASE zeroed < 4
      <4>1. count' = [count EXCEPT ![ResetOrder[zeroed + 1]] = 0]
        BY <1>2, <3>1, ResetOrderFacts DEF api_reset_session_stats
      <4> QED
        BY <2>2, <3>1, <4>1 DEF TypeOK
    <3>2. CASE ~(zeroed < 4)
      BY <1>2, <3>2, ResetOrderFacts DEF api_reset_session_stats, TypeOK
    <3> QED
      BY <3>1, <3>2
  <2>4. zeroed' \in 0 .. Len(ResetOrder)
    BY <1>2, <2>1, ResetOrderFacts DEF api_reset_session_stats
  <2>5. UNCHANGED <<ringVars, minerVars, netVars, replyVars, thr_shares, totalVars>>
    BY <1>2 DEF api_reset_session_stats
  <2> QED
    BY <2>3, <2>4, <2>5 DEF TypeOK
<1>3. CASE CarryTotals
  <2>1. mono' \in [Results -> MonoRecord]
    BY <1>3, CarryTypeOK DEF CarryTotals, TypeOK, Counters
  <2>2. polling' \in BOOLEAN
    BY <1>3, Zenon DEF CarryTotals
  <2> QED
    BY <1>3, <2>1, <2>2 DEF CarryTotals, TypeOK
<1>4. CASE api_mono_update
  <2>1. mono' \in [Results -> MonoRecord]
    <3>1. ASSUME NEW r \in Results
          PROVE  [mono[r] EXCEPT !.total = mono[r].base + count[r]] \in MonoRecord
      <4>1. mono[r] \in MonoRecord /\ count[r] \in Nat
        BY DEF TypeOK, Counters
      <4>2. mono[r].base + count[r] \in Nat
        BY <4>1 DEF MonoRecord
      <4> QED
        BY <4>1, <4>2 DEF MonoRecord
    <3>2. mono' = [r \in Results |-> [mono[r] EXCEPT !.total = mono[r].base + count[r]]]
      BY <1>4 DEF api_mono_update
    <3> QED
      BY <3>1, <3>2
  <2>2. polling' \in BOOLEAN
    BY <1>4, Zenon DEF api_mono_update
  <2> QED
    BY <1>4, <2>1, <2>2 DEF api_mono_update, TypeOK
<1>5. CASE submit_upstream_work
  <2>1. wire' \in Seq(Shares) /\ queue' \in Seq(Shares)
    BY <1>5 DEF submit_upstream_work, TypeOK
  <2> QED
    BY <1>5, <2>1 DEF submit_upstream_work, TypeOK
<1> QED
  BY <1>1, <1>2, <1>3, <1>5, <1>4 DEF Api

LEMMA NextTypeOK == TypeOK /\ [Next]_vars => TypeOK'
<1> SUFFICES ASSUME TypeOK, [Next]_vars PROVE TypeOK'
  OBVIOUS
<1>1. CASE UNCHANGED vars
  BY <1>1 DEF vars, TypeOK
<1> QED
  BY <1>1, MinerTypeOK, StratumTypeOK, ApiTypeOK DEF Next

(***************************************************************************)
(* The ring's pointers never leave the ring and every counter stays a      *)
(* natural number, however submissions, answers, resets and polls of the   *)
(* API interleave.                                                         *)
(***************************************************************************)
THEOREM TypeCorrect == Spec => []TypeOK
<1> QED
  BY InitTypeOK, NextTypeOK, PTL DEF Spec

-----------------------------------------------------------------------------
(* The carried totals.                                                     *)

Polls == CarryTotals \/ api_mono_update

\* Only the API's poll writes the totals.
LEMMA TotalsFrame == [Next]_vars => UNCHANGED pollVars \/ Polls
<1> SUFFICES ASSUME [Next]_vars, ~Polls PROVE UNCHANGED pollVars
  OBVIOUS
<1>1. CASE UNCHANGED vars
  BY <1>1 DEF vars
<1>2. CASE Stratum
  BY <1>2 DEF Stratum, TakeRecord, CountResult, StoreCount, CreditThread,
     LoseConnection, StratumReset, Reconnect, report_summary_log
<1>3. CASE Api \/ submit_upstream_work
  BY <1>3 DEF Api, Polls, BeginSessionReset, api_reset_session_stats, submit_upstream_work
<1>4. ASSUME NEW t \in Threads, Miner(t) PROVE UNCHANGED pollVars
  BY <1>4 DEF Miner, FindShare, submit_work, Record, SendVeil, StratumResetRaces,
     Reconnect
<1> QED
  BY <1>1, <1>2, <1>3, <1>4 DEF Next

\* The steps that write a session counter.
Writes == \/ CountResult \/ StoreCount \/ BeginSessionReset \/ api_reset_session_stats
          \/ \E t \in Threads : Record(t) \/ StratumResetRaces(t)

LEMMA CountFrame ==
  [Next]_vars => Writes \/ UNCHANGED <<count, lifetime>>
<1> SUFFICES ASSUME [Next]_vars, ~Writes PROVE UNCHANGED <<count, lifetime>>
  OBVIOUS
<1>1. CASE UNCHANGED vars
  BY <1>1 DEF vars
<1>2. CASE Stratum
  BY <1>2 DEF Stratum, Writes, TakeRecord, CreditThread, LoseConnection, StratumReset,
     Reconnect, report_summary_log
<1>3. CASE Api \/ submit_upstream_work
  BY <1>3 DEF Api, Writes, CarryTotals, api_mono_update, submit_upstream_work
<1>4. ASSUME NEW t \in Threads, Miner(t) PROVE UNCHANGED <<count, lifetime>>
  BY <1>4 DEF Miner, Writes, FindShare, submit_work, SendVeil
<1> QED
  BY <1>1, <1>2, <1>3, <1>4 DEF Next

\* What the steps that write a counter do to the counter of one result.
LEMMA CountWrites ==
  ASSUME TypeOK, Writes, NEW r \in Results
  PROVE  \/ count'[r] = count[r] /\ lifetime'[r] = lifetime[r]
         \/ /\ BeginSessionReset \/ api_reset_session_stats
            /\ count'[r] = 0 /\ lifetime'[r] = lifetime[r]
         \/ CountResult /\ count'[r] = count[r] + 1 /\ lifetime'[r] = lifetime[r] + 1
         \/ StoreCount /\ r = result /\ count'[r] = tmp + 1 /\ lifetime'[r] = lifetime[r] + 1
<1>1. r \in Counters /\ r # "submitted" /\ count \in [Counters -> Nat]
      /\ lifetime \in [Results -> Nat]
  BY DEF Counters, Results, TypeOK
<1>2. CASE CountResult
  <2>1. result \in Results /\ result \in Counters
    BY <1>2 DEF CountResult, TypeOK, Counters
  <2> QED
    BY <1>1, <1>2, <2>1 DEF CountResult
<1>3. CASE StoreCount
  <2>1. result \in Results /\ result \in Counters
    BY <1>3 DEF StoreCount, TypeOK, Counters
  <2> QED
    BY <1>1, <1>3, <2>1 DEF StoreCount
<1>4. CASE BeginSessionReset
  BY <1>1, <1>4 DEF BeginSessionReset
<1>5. CASE api_reset_session_stats
  BY <1>1, <1>5 DEF api_reset_session_stats
<1>6. ASSUME NEW t \in Threads, Record(t) \/ StratumResetRaces(t)
      PROVE  lifetime' = lifetime /\ count'[r] = count[r]
  BY <1>1, <1>6 DEF Record, StratumResetRaces, Reconnect, update_submit_stats
<1> QED
  BY <1>2, <1>3, <1>4, <1>5, <1>6 DEF Writes

\* A share's result is in hand, and the counter was loaded, while at is "store".
LEMMA StoreFrame ==
  ASSUME [Next]_vars, at' = "store"
  PROVE  \/ CountResult /\ UNCHANGED count /\ tmp' = count[result] /\ result' = result
         \/ at = "store" /\ UNCHANGED <<tmp, result>> /\ ~CountResult /\ ~StoreCount
<1>1. CASE UNCHANGED vars
  BY <1>1 DEF vars, CountResult, StoreCount
<1>2. CASE Stratum
  BY <1>2 DEF Stratum, TakeRecord, CountResult, StoreCount, CreditThread,
     LoseConnection, StratumReset, Reconnect, report_summary_log
<1>3. CASE Api \/ submit_upstream_work
  BY <1>3 DEF Api, BeginSessionReset, api_reset_session_stats, CarryTotals,
     api_mono_update, submit_upstream_work, CountResult, StoreCount
<1>4. ASSUME NEW t \in Threads, Miner(t)
      PROVE  at = "store" /\ UNCHANGED <<tmp, result>> /\ ~CountResult /\ ~StoreCount
  BY <1>4 DEF Miner, FindShare, submit_work, Record, SendVeil, StratumResetRaces,
     Reconnect, CountResult, StoreCount
<1> QED
  BY <1>1, <1>2, <1>3, <1>4 DEF Next

\* Only a session reset lowers a counter.
LEMMA CountGrows ==
  ASSUME TypeOK, TotalKeepsUp, [Next]_vars, NEW r \in Results,
         ~BeginSessionReset, ~api_reset_session_stats
  PROVE  count'[r] >= count[r]
<1>1. count[r] \in Nat /\ tmp \in Nat
  BY DEF TypeOK, Counters
<1>2. StoreCount => count[result] <= tmp
  BY DEF StoreCount, TotalKeepsUp
<1> QED
  BY <1>1, <1>2, CountFrame, CountWrites

LEMMA LoadedStep ==
  ASSUME TypeOK, TotalKeepsUp, [Next]_vars, at' = "store"
  PROVE  count'[result'] <= tmp'
<1>1. CASE CountResult /\ UNCHANGED count /\ tmp' = count[result] /\ result' = result
  <2>1. count[result] \in Nat
    BY <1>1 DEF CountResult, TypeOK, Counters
  <2> QED
    BY <1>1, <2>1
<1>2. CASE at = "store" /\ UNCHANGED <<tmp, result>> /\ ~CountResult /\ ~StoreCount
  <2>1. result \in Results /\ tmp \in Nat /\ count[result] <= tmp /\ count[result] \in Nat
    BY <1>2 DEF TypeOK, TotalKeepsUp, Counters
  <2>2. count'[result] \in {count[result], 0}
    BY <1>2, <2>1, CountFrame, CountWrites
  <2> QED
    BY <1>2, <2>1, <2>2
<1> QED
  BY <1>1, <1>2, StoreFrame

\* The API thread does one thing at a time.
LEMMA PollStep ==
  ASSUME TypeOK, TotalKeepsUp, [Next]_vars, polling'
  PROVE  zeroed' = 0 /\ ~BeginSessionReset /\ ~api_reset_session_stats
<1>1. CASE UNCHANGED pollVars
  <2>1. polling /\ zeroed = 0
    BY <1>1 DEF TotalKeepsUp
  <2>2. ~BeginSessionReset /\ ~api_reset_session_stats
    BY <2>1 DEF BeginSessionReset, api_reset_session_stats
  <2>3. zeroed' = zeroed
    <3>1. CASE UNCHANGED vars
      BY <3>1 DEF vars
    <3>2. CASE Stratum
      BY <3>2 DEF Stratum, TakeRecord, CountResult, StoreCount, CreditThread,
         LoseConnection, StratumReset, Reconnect, report_summary_log
    <3>3. CASE Api \/ submit_upstream_work
      BY <2>2, <3>3 DEF Api, CarryTotals, api_mono_update, submit_upstream_work
    <3>4. ASSUME NEW t \in Threads, Miner(t) PROVE zeroed' = zeroed
      BY <3>4 DEF Miner, FindShare, submit_work, Record, SendVeil, StratumResetRaces,
         Reconnect
    <3> QED
      BY <3>1, <3>2, <3>3, <3>4 DEF Next
  <2> QED
    BY <2>1, <2>2, <2>3
<1>2. CASE CarryTotals
  BY <1>2 DEF CarryTotals, BeginSessionReset, api_reset_session_stats, TypeOK
<1>3. CASE api_mono_update
  BY <1>3 DEF api_mono_update
<1> QED
  BY <1>1, <1>2, <1>3, TotalsFrame DEF Polls

LEMMA TotalsStep ==
  ASSUME TypeOK, TotalKeepsUp, [Next]_vars
  PROVE  /\ TotalKeepsUp'
         /\ \A r \in Results : /\ Carried(mono[r]) <= Carried(mono'[r])
                               /\ ~polling' => Carried(mono'[r]) <= mono'[r].total
<1>1. ASSUME NEW r \in Results
      PROVE  /\ Carried(mono[r]) <= Carried(mono'[r])
             /\ polling' => mono'[r].last <= count'[r]
             /\ ~polling' => Carried(mono'[r]) <= mono'[r].total
  <2>1. /\ count[r] \in Nat /\ mono[r].base \in Nat /\ mono[r].last \in Nat
        /\ mono[r].total \in Nat /\ mono[r] \in MonoRecord
    BY DEF TypeOK, Counters, MonoRecord
  <2>2. CASE UNCHANGED pollVars
    <3>1. CASE polling
      <4>1. mono[r].last <= count[r] /\ count'[r] >= count[r] /\ count'[r] \in Nat
        BY <2>2, <3>1, PollStep, CountGrows, NextTypeOK DEF TotalKeepsUp, TypeOK, Counters
      <4> QED
        BY <2>1, <2>2, <3>1, <4>1 DEF Carried
    <3>2. CASE ~polling
      BY <2>1, <2>2, <3>2 DEF Carried, TotalKeepsUp
    <3> QED
      BY <3>1, <3>2
  <2>3. CASE CarryTotals
    <3>1. mono'[r] = mono_carry(mono[r], count[r]) /\ count' = count
      BY <2>3 DEF CarryTotals
    <3>2. mono'[r].last = count[r] /\ Carried(mono[r]) <= Carried(mono'[r])
      BY <2>1, <3>1 DEF mono_carry, Carried
    <3>3. polling'
      BY <2>3 DEF CarryTotals
    <3> QED
      BY <2>1, <3>1, <3>2, <3>3
  <2>4. CASE api_mono_update
    <3>1. mono'[r] = [mono[r] EXCEPT !.total = mono[r].base + count[r]] /\ polling /\ ~polling'
      BY <2>4 DEF api_mono_update
    <3>2. mono[r].last <= count[r]
      BY <3>1 DEF TotalKeepsUp
    <3>3. /\ mono'[r].base = mono[r].base /\ mono'[r].last = mono[r].last
          /\ mono'[r].total = mono[r].base + count[r]
      BY <2>1, <3>1 DEF MonoRecord
    <3> QED
      BY <2>1, <3>1, <3>2, <3>3 DEF Carried
  <2> QED
    BY <2>2, <2>3, <2>4, TotalsFrame DEF Polls
<1>2. at' = "store" => count'[result'] <= tmp'
  BY LoadedStep
<1>3. polling' => zeroed' = 0
  BY PollStep
<1>4. TotalKeepsUp'
  BY <1>1, <1>2, <1>3 DEF TotalKeepsUp
<1> QED
  BY <1>1, <1>4

(***************************************************************************)
(* What a poll of the API has carried is in every total published later,   *)
(* whatever resets do to the counters and races to their increments; a     *)
(* total falls, if it does, by what was counted between a poll's two reads.*)
(***************************************************************************)
THEOREM TotalsKeepWhatIsCarried == Spec => MonoKeepsCarried
<1>1. Init => TotalKeepsUp
  BY DEF Init, TotalKeepsUp, Carried
<1>2. TypeOK /\ TotalKeepsUp /\ [Next]_vars => TotalKeepsUp'
  BY TotalsStep
<1>3. TypeOK /\ TotalKeepsUp /\ [Next]_vars
        => [\A r \in Results : /\ Carried(mono[r]) <= Carried(mono'[r])
                               /\ ~polling' => Carried(mono'[r]) <= mono'[r].total]_vars
  BY TotalsStep
<1> QED
  BY <1>1, <1>2, <1>3, TypeCorrect, PTL DEF Spec, MonoKeepsCarried

\* What the build made of an increment does not change.
LEMMA BuildFrame == [Next]_vars => torn' = torn
<1> SUFFICES ASSUME [Next]_vars PROVE torn' = torn
  OBVIOUS
<1>1. CASE UNCHANGED vars
  BY <1>1 DEF vars
<1>2. CASE Stratum
  BY <1>2 DEF Stratum, TakeRecord, CountResult, StoreCount, CreditThread,
     LoseConnection, StratumReset, Reconnect, report_summary_log
<1>3. CASE Api \/ submit_upstream_work
  BY <1>3 DEF Api, CarryTotals, api_mono_update, BeginSessionReset,
     api_reset_session_stats, submit_upstream_work
<1>4. ASSUME NEW t \in Threads, Miner(t) PROVE torn' = torn
  BY <1>4 DEF Miner, FindShare, submit_work, Record, SendVeil, StratumResetRaces,
     Reconnect
<1> QED
  BY <1>1, <1>2, <1>3, <1>4 DEF Next

\* Only share_result counts, and only a session reset takes a counter back.
LEMMA LedgerFrame ==
  ASSUME TypeOK, TotalKeepsUp, at # "store", [Next]_vars, NEW r \in Results
  PROVE  \/ lifetime'[r] = lifetime[r] /\ count'[r] = count[r]
         \/ ~polling /\ lifetime'[r] = lifetime[r] /\ count'[r] = 0
         \/ lifetime'[r] = lifetime[r] + 1 /\ count'[r] = count[r] + 1
<1>1. ~StoreCount
  BY DEF StoreCount
<1>2. BeginSessionReset \/ api_reset_session_stats => ~polling
  BY DEF BeginSessionReset, api_reset_session_stats, TotalKeepsUp
<1> QED
  BY <1>1, <1>2, CountFrame, CountWrites

LEMMA LedgerStep ==
  ASSUME TypeOK, TotalKeepsUp, ~torn, Ledger, [Next]_vars
  PROVE  Ledger'
<1>0. at' # "store"
  <2>1. at # "store" /\ ~torn
    BY DEF Ledger
  <2>2. ~(CountResult /\ at' = "store")
    BY <2>1 DEF CountResult
  <2> QED
    BY <2>1, <2>2, StoreFrame
<1> SUFFICES ASSUME NEW r \in Results
             PROVE  /\ mono'[r].total <= lifetime'[r]
                    /\ \/ /\ count'[r] >= mono'[r].last
                          /\ mono'[r].base + count'[r] <= lifetime'[r]
                       \/ /\ ~polling'
                          /\ Carried(mono'[r]) + count'[r] <= lifetime'[r]
  BY <1>0 DEF Ledger
<1>1. /\ count[r] \in Nat /\ lifetime[r] \in Nat /\ mono[r] \in MonoRecord
      /\ mono[r].base \in Nat /\ mono[r].last \in Nat /\ mono[r].total \in Nat
  BY DEF TypeOK, Counters, MonoRecord
<1>2. /\ mono[r].total <= lifetime[r]
      /\ \/ count[r] >= mono[r].last /\ mono[r].base + count[r] <= lifetime[r]
         \/ ~polling /\ mono[r].base + mono[r].last + count[r] <= lifetime[r]
  BY DEF Ledger, Carried
<1>3. CASE UNCHANGED pollVars
  <2>1. CASE lifetime'[r] = lifetime[r] /\ count'[r] = count[r]
    BY <1>1, <1>2, <1>3, <2>1 DEF Carried
  <2>2. CASE ~polling /\ lifetime'[r] = lifetime[r] /\ count'[r] = 0
    BY <1>1, <1>2, <1>3, <2>2 DEF Carried
  <2>3. CASE lifetime'[r] = lifetime[r] + 1 /\ count'[r] = count[r] + 1
    BY <1>1, <1>2, <1>3, <2>3 DEF Carried
  <2> QED
    BY <2>1, <2>2, <2>3, LedgerFrame DEF Ledger
<1>4. CASE CarryTotals
  <2>1. /\ mono'[r] = mono_carry(mono[r], count[r])
        /\ count'[r] = count[r] /\ lifetime'[r] = lifetime[r]
    BY <1>4 DEF CarryTotals
  <2>2. /\ mono'[r].last = count[r] /\ mono'[r].total = mono[r].total
        /\ count[r] < mono[r].last => mono'[r].base = mono[r].base + mono[r].last
        /\ ~(count[r] < mono[r].last) => mono'[r].base = mono[r].base
    BY <1>1, <2>1 DEF mono_carry
  <2> QED
    BY <1>1, <1>2, <2>1, <2>2
<1>5. CASE api_mono_update
  <2>1. /\ mono'[r] = [mono[r] EXCEPT !.total = mono[r].base + count[r]]
        /\ count'[r] = count[r] /\ lifetime'[r] = lifetime[r] /\ polling
    BY <1>5 DEF api_mono_update
  <2>2. /\ mono'[r].base = mono[r].base /\ mono'[r].last = mono[r].last
        /\ mono'[r].total = mono[r].base + count[r]
    BY <1>1, <2>1 DEF MonoRecord
  <2> QED
    BY <1>1, <1>2, <2>1, <2>2
<1> QED
  BY <1>3, <1>4, <1>5, TotalsFrame DEF Polls

(***************************************************************************)
(* Where an increment is one instruction, no share is ever counted twice   *)
(* in the totals the API publishes.                                        *)
(***************************************************************************)
THEOREM TotalsNeverOverstate == Spec => []MonoNeverOverstates
<1>1. Init => TotalKeepsUp /\ (~torn => Ledger)
  BY DEF Init, TotalKeepsUp, Ledger, Counters, Carried
<1>2. TypeOK /\ TotalKeepsUp /\ (~torn => Ledger) /\ [Next]_vars
        => TotalKeepsUp' /\ (~torn => Ledger)'
  <2> SUFFICES ASSUME TypeOK, TotalKeepsUp, ~torn => Ledger, [Next]_vars
               PROVE  TotalKeepsUp' /\ (~torn' => Ledger')
    OBVIOUS
  <2>1. TotalKeepsUp'
    BY TotalsStep
  <2>2. ~torn' => Ledger'
    BY BuildFrame, LedgerStep
  <2> QED
    BY <2>1, <2>2
<1>3. (~torn => Ledger) => MonoNeverOverstates
  BY DEF Ledger, MonoNeverOverstates
<1> QED
  BY <1>1, <1>2, <1>3, TypeCorrect, PTL DEF Spec

-----------------------------------------------------------------------------
(* A record is credited once.                                              *)

CreditInv == /\ Numbered /\ OneSlotEach /\ RingIsUncredited /\ HandIsNew
             /\ TakenIsUncredited /\ CreditedOnce

LEMMA InitCredit == Init => CreditInv
  BY DEF Init, CreditInv, Numbered, OneSlotEach, RingIsUncredited, HandIsNew,
     TakenIsUncredited, CreditedOnce, Credited, Unrecorded

LEMMA FindCredit ==
  ASSUME TypeOK, CreditInv, NEW t \in Threads, NEW v \in Variants, FindShare(t, v)
  PROVE  CreditInv'
<1> DEFINE new == [thr |-> t, n |-> found + 1]
<1>1. /\ UNCHANGED <<share_stats, my_stats, credited, at>>
      /\ found' = found + 1 /\ found \in Nat
      /\ hand' = [hand EXCEPT ![t] = new]
      /\ \A u \in Threads : u # t => hand'[u] = hand[u] /\ pc'[u] = pc[u]
      /\ hand'[t] = new
  BY DEF FindShare, TypeOK
<1>2. new.thr = t /\ new.n = found + 1
  OBVIOUS
<1>3. /\ \A i \in Slots : share_stats[i] # NULL => share_stats[i] \in Shares
      /\ \A s \in Credited : s \in Shares
      /\ my_stats # NULL => my_stats \in Shares
      /\ \A u \in Threads : Unrecorded(u) => hand[u] \in Shares
      /\ new # NULL
  BY <1>1, ShareStatsAssumption DEF TypeOK, Credited, Unrecorded, Shares
<1>4. /\ \A i \in Slots : share_stats[i] # new
      /\ my_stats # new /\ new \notin Credited
  BY <1>1, <1>2, <1>3 DEF CreditInv, Numbered, Shares
<1>5. Numbered'
  BY <1>1, <1>2, <1>3 DEF CreditInv, Numbered, Credited, Unrecorded, Shares
<1>6. HandIsNew'
  BY <1>1, <1>4 DEF CreditInv, HandIsNew, Credited, Unrecorded
<1> QED
  BY <1>1, <1>5, <1>6 DEF CreditInv, OneSlotEach, RingIsUncredited, TakenIsUncredited,
     CreditedOnce, Credited

LEMMA RecordCredit ==
  ASSUME TypeOK, CreditInv, NEW t \in Threads, update_submit_stats(t),
         UNCHANGED <<my_stats, credited, at, found>>
  PROVE  CreditInv'
<1>1. /\ Unrecorded(t) /\ hand[t] \in Shares /\ hand[t] # NULL /\ hand[t].thr = t
      /\ hand[t] \notin Credited /\ hand[t] # my_stats /\ hand[t].n <= found
      /\ \A i \in Slots : share_stats[i] # hand[t]
  BY ShareStatsAssumption
  DEF update_submit_stats, TypeOK, CreditInv, HandIsNew, Numbered, Unrecorded
<1>2. /\ \A i \in Slots : share_stats'[i] = IF i = s_put_ptr THEN hand[t] ELSE share_stats[i]
      /\ \A u \in Threads : u # t => hand'[u] = hand[u] /\ pc'[u] = pc[u]
      /\ pc'[t] \notin {"queue", "stats", "veil"}
  BY DEF update_submit_stats, TypeOK
<1>3. \A u \in Threads : u # t /\ Unrecorded(u) => hand[u] # hand[t]
  BY <1>1 DEF CreditInv, Numbered
<1>4. Numbered'
  BY <1>1, <1>2 DEF CreditInv, Numbered, Credited, Unrecorded
<1>5. OneSlotEach' /\ RingIsUncredited'
  BY <1>1, <1>2 DEF CreditInv, OneSlotEach, RingIsUncredited, Credited
<1>6. HandIsNew'
  BY <1>2, <1>3 DEF CreditInv, HandIsNew, Credited, Unrecorded
<1> QED
  BY <1>4, <1>5, <1>6 DEF CreditInv, TakenIsUncredited, CreditedOnce, Credited

LEMMA TakeCredit ==
  ASSUME TypeOK, CreditInv, NEW r \in Answers, TakeRecord(r) PROVE CreditInv'
<1>1. /\ UNCHANGED <<pc, hand, credited, found>>
      /\ my_stats' = share_stats[s_get_ptr] /\ s_get_ptr \in Slots
      /\ \A i \in Slots : share_stats'[i] = IF i = s_get_ptr THEN NULL ELSE share_stats[i]
  BY DEF TakeRecord, TypeOK
<1>2. Numbered' /\ OneSlotEach'
  BY <1>1 DEF CreditInv, Numbered, OneSlotEach, Credited, Unrecorded
<1>3. RingIsUncredited'
  BY <1>1 DEF CreditInv, OneSlotEach, RingIsUncredited, Credited
<1>4. HandIsNew'
  <2>1. \A u \in Threads : Unrecorded(u) => hand[u] # NULL
    BY DEF Unrecorded, TypeOK
  <2> QED
    BY <1>1, <2>1 DEF CreditInv, HandIsNew, Credited, Unrecorded
<1>5. NULL \notin Credited
  BY ShareStatsAssumption DEF Credited, TypeOK
<1>6. my_stats' \notin Credited
  BY <1>1, <1>5 DEF CreditInv, RingIsUncredited
<1> QED
  BY <1>1, <1>2, <1>3, <1>4, <1>6 DEF CreditInv, TakenIsUncredited, CreditedOnce, Credited

LEMMA CreditCredit ==
  ASSUME TypeOK, CreditInv, CreditThread PROVE CreditInv'
<1>1. /\ UNCHANGED <<pc, hand, found, share_stats>> /\ at' = "report" /\ at = "credit"
      /\ my_stats' = NULL /\ \A u \in Threads : Unrecorded(u) => hand[u] # NULL
  BY DEF CreditThread, TypeOK, Unrecorded
<1>2. CASE my_stats = NULL
  <2>1. credited' = credited
    BY <1>2 DEF CreditThread
  <2> QED
    BY <1>1, <2>1 DEF CreditInv, Numbered, OneSlotEach, RingIsUncredited, HandIsNew,
       TakenIsUncredited, CreditedOnce, Credited, Unrecorded
<1>3. CASE my_stats # NULL
  <2>1. credited' = credited \cup {<<my_stats, answered>>}
    BY <1>3 DEF CreditThread
  <2>2. Credited' = Credited \cup {my_stats}
    <3>1. Credited' = {c[1] : c \in credited'}
      BY DEF Credited
    <3>2. \A x : x \in Credited' <=> x \in Credited \/ x = <<my_stats, answered>>[1]
      BY <2>1, <3>1, Zenon DEF Credited
    <3>3. <<my_stats, answered>>[1] = my_stats
      OBVIOUS
    <3> QED
      BY <3>2, <3>3
  <2>3. my_stats \notin Credited
    BY <1>1 DEF CreditInv, TakenIsUncredited
  <2>4. CreditedOnce'
    BY <2>1, <2>3 DEF CreditInv, CreditedOnce, Credited
  <2>5. Numbered' /\ OneSlotEach'
    BY <1>1, <1>3, <2>2 DEF CreditInv, Numbered, OneSlotEach, Unrecorded
  <2>6. RingIsUncredited' /\ HandIsNew' /\ TakenIsUncredited'
    BY <1>1, <2>2 DEF CreditInv, RingIsUncredited, HandIsNew, TakenIsUncredited,
       Unrecorded
  <2> QED
    BY <2>4, <2>5, <2>6 DEF CreditInv
<1> QED
  BY <1>2, <1>3

\* The other steps move no record: they may only take a share in hand nearer to
\* the ring, let go of it once it is recorded, or finish share_result.
LEMMA IdleCredit ==
  ASSUME TypeOK, CreditInv,
         UNCHANGED <<share_stats, credited, found>>,
         \A u \in Threads : Unrecorded(u)' => Unrecorded(u) /\ hand'[u] = hand[u],
         my_stats' \in {my_stats, NULL},
         at' \in {"count", "store", "credit"} =>
           at \in {"count", "store", "credit"} /\ my_stats' = my_stats
  PROVE  CreditInv'
<1>1. \A u \in Threads : Unrecorded(u) => hand[u] # NULL
  BY DEF Unrecorded, TypeOK
<1>2. Numbered' /\ OneSlotEach' /\ RingIsUncredited'
  BY DEF CreditInv, Numbered, OneSlotEach, RingIsUncredited, Credited
<1>3. HandIsNew'
  BY <1>1 DEF CreditInv, HandIsNew, Credited
<1> QED
  BY <1>2, <1>3 DEF CreditInv, TakenIsUncredited, CreditedOnce, Credited

LEMMA NextCredit == TypeOK /\ CreditInv /\ [Next]_vars => CreditInv'
<1> SUFFICES ASSUME TypeOK, CreditInv, [Next]_vars PROVE CreditInv'
  OBVIOUS
<1>1. ASSUME NEW t \in Threads, submit_work(t) PROVE CreditInv'
  <2>1. \A u \in Threads : Unrecorded(u)' => Unrecorded(u) /\ hand'[u] = hand[u]
    BY <1>1 DEF submit_work, Unrecorded, TypeOK
  <2> QED
    BY <1>1, <2>1, IdleCredit DEF submit_work
<1>2. ASSUME NEW t \in Threads, SendVeil(t) PROVE CreditInv'
  <2>1. \A u \in Threads : Unrecorded(u)' => Unrecorded(u) /\ hand'[u] = hand[u]
    BY <1>2 DEF SendVeil, Unrecorded, TypeOK
  <2> QED
    BY <1>2, <2>1, IdleCredit DEF SendVeil
<1>3. ASSUME NEW t \in Threads, Record(t) \/ StratumResetRaces(t) PROVE CreditInv'
  BY <1>3, RecordCredit DEF Record, StratumResetRaces, Reconnect
<1>4. CASE CountResult \/ StoreCount \/ report_summary_log
  <2>1. UNCHANGED <<share_stats, credited, found, pc, hand>>
    BY <1>4 DEF CountResult, StoreCount, report_summary_log
  <2>2. my_stats' \in {my_stats, NULL}
    BY <1>4 DEF CountResult, StoreCount, report_summary_log
  <2>3. at' \in {"count", "store", "credit"} =>
          at \in {"count", "store", "credit"} /\ my_stats' = my_stats
    BY <1>4 DEF CountResult, StoreCount, report_summary_log
  <2>4. \A u \in Threads : Unrecorded(u)' => Unrecorded(u) /\ hand'[u] = hand[u]
    BY <2>1 DEF Unrecorded
  <2> QED
    BY <2>1, <2>2, <2>3, <2>4, IdleCredit
<1>5. CASE \/ LoseConnection \/ StratumReset \/ Api \/ submit_upstream_work
           \/ UNCHANGED vars
  <2>1. UNCHANGED <<share_stats, credited, found, pc, hand, my_stats, at>>
    BY <1>5 DEF LoseConnection, StratumReset, Reconnect, Api, BeginSessionReset,
       api_reset_session_stats, CarryTotals, api_mono_update, submit_upstream_work, vars
  <2>2. \A u \in Threads : Unrecorded(u)' => Unrecorded(u) /\ hand'[u] = hand[u]
    BY <2>1 DEF Unrecorded
  <2> QED
    BY <2>1, <2>2, IdleCredit
<1> QED
  BY <1>1, <1>2, <1>3, <1>4, <1>5, FindCredit, TakeCredit, CreditCredit
  DEF Next, Miner, Stratum

(***************************************************************************)
(* Through overflow, rewound pointers and races, no record in the ring is  *)
(* ever credited to two answers.                                           *)
(***************************************************************************)
THEOREM NoDoubleCredit == Spec => []CreditedOnce
<1>1. CreditInv => CreditedOnce
  BY DEF CreditInv
<1> QED
  BY <1>1, InitCredit, NextCredit, TypeCorrect, PTL DEF Spec
=============================================================================
