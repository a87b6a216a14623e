---------------------------- MODULE NonceProofs ----------------------------
(***************************************************************************)
(* Proofs about Nonce for any word, number of threads, reserve, scan loop  *)
(* and size of portions that satisfy NonceAssumption.                      *)
(***************************************************************************)
EXTENDS Nonce, TLAPS

-----------------------------------------------------------------------------
(* The slices.                                                             *)

LEMMA PerBounds == Per \in Nat /\ Per * opt_n_threads <= Word - 1
  BY NonceAssumption DEF Per

LEMMA TimesMonotone ==
  ASSUME NEW p \in Nat, NEW a \in Nat, NEW b \in Nat, a <= b PROVE p * a <= p * b
<1>1. PICK d \in Nat : b = a + d
  <2> WITNESS b - a \in Nat
  <2> QED
    OBVIOUS
<1>2. p * b = p * a + p * d
  BY <1>1
<1>3. p * d \in Nat /\ p * a \in Nat
  BY <1>1
<1> QED
  BY <1>2, <1>3

\* A slice is one Per long and does not reach beyond the last nonce.
LEMMA SliceBounds ==
  ASSUME NEW t \in Threads
  PROVE  /\ Per * t \in Nat /\ Per * (t + 1) \in Nat
         /\ Per * (t + 1) = Per * t + Per
         /\ Per * (t + 1) <= Word - 1
<1>1. t \in Nat /\ t + 1 \in Nat /\ opt_n_threads \in Nat /\ t + 1 <= opt_n_threads
  BY NonceAssumption DEF Threads
<1>2. Per \in Nat /\ Per * opt_n_threads <= Word - 1
  BY PerBounds
<1>3. Per * (t + 1) <= Per * opt_n_threads
  BY <1>1, <1>2, TimesMonotone
<1>4. Per * t \in Nat /\ Per * (t + 1) \in Nat /\ Per * opt_n_threads \in Nat
  BY <1>1, <1>2
<1>5. Per * (t + 1) = Per * t + Per
  BY <1>1, <1>2
<1>6. Word \in Nat
  BY NonceAssumption
<1> QED
  BY <1>2, <1>3, <1>4, <1>5, <1>6

\* The ranges miner_thread gives to its threads do not overlap, however many
\* threads there are.
THEOREM SlicesDisjoint ==
  ASSUME NEW s \in Threads, NEW t \in Threads, s < t,
         NEW m \in Nat, Per * s <= m, m < Per * (s + 1)
  PROVE  m < Per * t
<1>1. s + 1 \in Nat /\ t \in Nat /\ s + 1 <= t
  BY NonceAssumption DEF Threads
<1>2. Per * (s + 1) <= Per * t
  BY <1>1, PerBounds, TimesMonotone
<1> QED
  BY <1>2, SliceBounds

-----------------------------------------------------------------------------
(* Type correctness.                                                       *)

LEMMA ModRange == ASSUME NEW x \in Int PROVE x % Word \in Nonces
  BY NonceAssumption DEF Nonces

LEMMA ModSmall == ASSUME NEW x \in Nat, x <= Word - 1 PROVE x % Word = x
  BY NonceAssumption

LEMMA NoncesAreNat == Nonces \subseteq Nat
  BY NonceAssumption DEF Nonces

LEMMA KernelFacts ==
  ASSUME TypeOK
  PROVE  /\ kernel.lanes \in Nat \ {0} /\ kernel.lanes <= Reserve
         /\ kernel.lanes + Reserve <= Per
         /\ span \in Nat /\ \A m \in Max64 : m \in Nat
  BY NonceAssumption DEF TypeOK

LEMMA InitTypeOK == Init => TypeOK
<1> SUFFICES ASSUME Init PROVE TypeOK
  OBVIOUS
<1>1. \A t \in Threads : (Per * (t + 1) - opt_n_threads) % Word \in Nonces
  <2> SUFFICES ASSUME NEW t \in Threads
               PROVE  (Per * (t + 1) - opt_n_threads) % Word \in Nonces
    OBVIOUS
  <2>1. Per * (t + 1) - opt_n_threads \in Int
    BY SliceBounds, NonceAssumption
  <2> QED
    BY <2>1, ModRange
<1>2. 0 \in Nonces
  BY NonceAssumption DEF Nonces
<1>3. restart \in [Threads -> BOOLEAN] /\ redo \in [Threads -> BOOLEAN]
  BY Zenon DEF Init
<1>4. /\ pc \in [Threads -> MinerPC] /\ work \in [Threads -> Nat \cup {NULL}]
      /\ nonce \in [Threads -> Nonces] /\ last_nonce \in [Threads -> Nonces]
      /\ passed \in [Threads -> Nat]
  BY <1>2 DEF Init, MinerPC
<1>5. end_nonce \in [Threads -> Nonces]
  BY <1>1 DEF Init
<1> QED
  BY <1>3, <1>4, <1>5 DEF Init, TypeOK

LEMMA CappedType ==
  ASSUME TypeOK, NEW t \in Threads
  PROVE  SliceStart(t) \in Nonces /\ Capped(SliceStart(t), SliceEnd(t)) \in Nonces
<1>1. SliceStart(t) \in Nonces
  BY SliceBounds, ModRange DEF SliceStart
<1>2. Per * (t + 1) - Reserve \in Int
  BY SliceBounds, NonceAssumption
<1>3. SliceEnd(t) \in Nonces
  BY <1>2, ModRange DEF SliceEnd
<1>4. SliceStart(t) + span \in Int
  <2>1. SliceStart(t) \in Nat
    BY <1>1, NoncesAreNat
  <2>2. span \in Nat
    BY KernelFacts
  <2> QED
    BY <2>1, <2>2
<1>5. (SliceStart(t) + span) % Word \in Nonces
  BY <1>4, ModRange
<1> QED
  BY <1>1, <1>3, <1>5, Zenon DEF Capped

LEMMA TakeTypeOK ==
  ASSUME TypeOK, NEW t \in Threads, std_get_new_work(t) PROVE TypeOK'
<1>1. pc' \in [Threads -> MinerPC] /\ work' \in [Threads -> Nat \cup {NULL}]
  BY DEF TypeOK, std_get_new_work, Goto, MinerPC
<1>2. nonce[t] \in Nat /\ (nonce[t] + 1) % Word \in Nonces
  <2>1. nonce[t] \in Nat
    BY NoncesAreNat DEF TypeOK
  <2> QED
    BY <2>1, ModRange
<1>3. nonce' \in [Threads -> Nonces]
  BY <1>2, CappedType DEF TypeOK, std_get_new_work
<1>4. end_nonce' \in [Threads -> Nonces]
  BY CappedType DEF TypeOK, std_get_new_work
<1>5. restart' \in [Threads -> BOOLEAN]
  BY DEF TypeOK, std_get_new_work
<1>6. passed' \in [Threads -> Nat]
  BY <1>2 DEF TypeOK, std_get_new_work, AtLeast
<1>7. redo' \in [Threads -> BOOLEAN]
  <2>1. (work[t] = g_work /\ (redo[t] \/ (UsedUp(t) /\ restart[t]))) \in BOOLEAN
    BY Zenon
  <2> QED
    BY <2>1, Zenon DEF TypeOK, std_get_new_work
<1> QED
  BY <1>1, <1>3, <1>4, <1>5, <1>6, <1>7 DEF TypeOK, std_get_new_work

LEMMA ScanTypeOK ==
  ASSUME TypeOK, NEW t \in Threads, SizePortion(t) \/ HashBatch(t) PROVE TypeOK'
<1>0. /\ nonce[t] \in Nat /\ end_nonce[t] \in Nat /\ kernel.lanes \in Nat
      /\ \A m \in Max64 : m \in Nat
  <2>1. nonce[t] \in Nonces /\ end_nonce[t] \in Nonces
    BY DEF TypeOK
  <2> QED
    BY <2>1, NoncesAreNat, KernelFacts
<1>1. CASE SizePortion(t)
  <2>1. PICK m \in Max64 :
          /\ last_nonce' = [last_nonce EXCEPT ![t] = (MaxNonce(t, m) - kernel.lanes) % Word]
          /\ redo' = [redo EXCEPT ![t] = @ \/ MaxNonce(t, m) < kernel.lanes]
    BY <1>1 DEF SizePortion
  <2>2. MaxNonce(t, m) - kernel.lanes \in Int
    BY <1>0 DEF MaxNonce
  <2>3. (MaxNonce(t, m) - kernel.lanes) % Word \in Nonces
    BY <2>2, ModRange
  <2>4. last_nonce' \in [Threads -> Nonces]
    BY <2>1, <2>3 DEF TypeOK
  <2>5. pc' \in [Threads -> MinerPC]
    BY <1>1 DEF SizePortion, Goto, TypeOK, MinerPC
  <2>6. redo' \in [Threads -> BOOLEAN]
    <3>1. (redo[t] \/ MaxNonce(t, m) < kernel.lanes) \in BOOLEAN
      BY Zenon
    <3> QED
      BY <2>1, <3>1, Zenon DEF TypeOK
  <2> QED
    BY <1>1, <2>4, <2>5, <2>6 DEF SizePortion, TypeOK
<1>2. CASE HashBatch(t)
  <2>1. nonce[t] \in Nat /\ nonce[t] + kernel.lanes \in Nat
    BY <1>0
  <2>2. (nonce[t] + kernel.lanes) % Word \in Nonces
    BY <2>1, ModRange
  <2>3. nonce' \in [Threads -> Nonces]
    BY <1>2, <2>2 DEF HashBatch, TypeOK
  <2>4. passed' \in [Threads -> Nat]
    BY <1>2, <2>1 DEF HashBatch, TypeOK, AtLeast
  <2>5. 0 \in Nonces
    BY NonceAssumption DEF Nonces
  <2>6. last_nonce' \in [Threads -> Nonces]
    BY <1>2, <2>5 DEF HashBatch, TypeOK
  <2>7. pc' \in [Threads -> MinerPC]
    BY <1>2 DEF HashBatch, Goto, TypeOK, MinerPC
  <2> QED
    BY <1>2, <2>3, <2>4, <2>6, <2>7 DEF HashBatch, TypeOK
<1> QED
  BY <1>1, <1>2

LEMMA RestTypeOK ==
  ASSUME TypeOK, NEW t \in Threads,
         CheckRange(t) \/ RollExtranonce(t) \/ AwaitRestart(t) \/ SkipScan(t)
  PROVE  TypeOK'
<1>1. pc' \in [Threads -> MinerPC]
  BY DEF CheckRange, RollExtranonce, AwaitRestart, SkipScan, Goto, TypeOK, MinerPC
<1>2. g_work' \in Nat
  BY DEF CheckRange, RollExtranonce, AwaitRestart, SkipScan, TypeOK
<1>3. restart' \in [Threads -> BOOLEAN]
  <2>1. restart' = restart \/ restart' = [s \in Threads |-> TRUE]
    BY DEF CheckRange, RollExtranonce, AwaitRestart, SkipScan
  <2> QED
    BY <2>1, Zenon DEF TypeOK
<1> QED
  BY <1>1, <1>2, <1>3 DEF CheckRange, RollExtranonce, AwaitRestart, SkipScan, TypeOK

LEMMA OthersTypeOK ==
  ASSUME TypeOK, NewWork \/ RestartAll \/ UNCHANGED vars PROVE TypeOK'
<1>1. CASE NewWork \/ RestartAll
  <2>1. g_work' \in Nat
    BY <1>1 DEF NewWork, RestartAll, TypeOK
  <2>2. restart' \in [Threads -> BOOLEAN]
    BY <1>1, Zenon DEF NewWork, RestartAll
  <2>3. UNCHANGED <<kernel, span, pc, work, nonce, end_nonce, last_nonce, passed, redo>>
    BY <1>1 DEF NewWork, RestartAll
  <2> QED
    BY <2>1, <2>2, <2>3 DEF TypeOK
<1>2. CASE UNCHANGED vars
  BY <1>2 DEF vars, TypeOK
<1> QED
  BY <1>1, <1>2

\* miner_thread and std_get_new_work keep the nonce and its limits in 32 bits.
THEOREM TypeCorrect == Spec => []TypeOK
<1>1. TypeOK /\ [Next]_vars => TypeOK'
  BY TakeTypeOK, ScanTypeOK, RestTypeOK, OthersTypeOK DEF Next, Miner
<1> QED
  BY InitTypeOK, <1>1, PTL DEF Spec

-----------------------------------------------------------------------------
(* Where a thread is in its slice.                                         *)

LEMMA SliceExact ==
  ASSUME TypeOK, NEW t \in Threads
  PROVE  /\ SliceStart(t) = Per * t
         /\ SliceEnd(t) = Per * (t + 1) - Reserve
         /\ Per * t + kernel.lanes <= Per * (t + 1) - Reserve
<1>1. /\ Per * t \in Nat /\ Per * (t + 1) \in Nat /\ Per * (t + 1) = Per * t + Per
      /\ Per * (t + 1) <= Word - 1 /\ Per \in Nat /\ Reserve \in Nat /\ Word \in Nat
  BY SliceBounds, PerBounds, NonceAssumption
<1>2. kernel.lanes \in Nat /\ kernel.lanes + Reserve <= Per
  BY KernelFacts
<1>3. Per * t + kernel.lanes <= Per * (t + 1) - Reserve
  BY <1>1, <1>2
<1>4. Per * t <= Word - 1
  BY <1>1
<1>5. Per * (t + 1) - Reserve \in Nat /\ Per * (t + 1) - Reserve <= Word - 1
  BY <1>1, <1>2
<1>6. SliceStart(t) = Per * t
  BY <1>1, <1>4, ModSmall DEF SliceStart
<1>7. SliceEnd(t) = Per * (t + 1) - Reserve
  BY <1>5, ModSmall DEF SliceEnd
<1> QED
  BY <1>3, <1>6, <1>7

\* A cap on the span shortens a slice.
LEMMA CappedPlace ==
  ASSUME TypeOK, NEW t \in Threads
  PROVE  /\ Capped(SliceStart(t), SliceEnd(t)) <= Per * (t + 1) - Reserve
         /\ Per * t <= Capped(SliceStart(t), SliceEnd(t))
<1> DEFINE a == Per * t
           b == Per * (t + 1) - Reserve
<1>1. a \in Nat /\ b \in Int /\ b <= Word - 1 /\ Word \in Nat
  BY SliceBounds, NonceAssumption
<1>2. a + kernel.lanes <= b /\ kernel.lanes \in Nat /\ span \in Nat
  BY SliceExact, KernelFacts
<1>4. Capped(SliceStart(t), SliceEnd(t)) = Capped(a, b)
  BY SliceExact
<1>5. (b - a) \in Nat /\ b - a <= Word - 1
  BY <1>1, <1>2
<1>6. (b - a) % Word = b - a
  BY <1>5, ModSmall
<1>7. CASE span > 0 /\ b - a > span
  <2>1. a + span \in Nat /\ a + span <= Word - 1 /\ a + span <= b
    BY <1>1, <1>2, <1>7
  <2>2. (a + span) % Word = a + span
    BY <2>1, ModSmall
  <2>3. Capped(a, b) = a + span
    BY <1>6, <1>7, <2>2 DEF Capped
  <2> HIDE DEF a, b
  <2>5. Capped(a, b) <= b /\ a <= Capped(a, b)
    BY <1>1, <1>2, <2>1, <2>3
  <2> QED
    BY <1>4, <2>5 DEF a, b
<1>8. CASE ~(span > 0 /\ b - a > span)
  <2>1. Capped(a, b) = b
    BY <1>6, <1>8 DEF Capped
  <2> HIDE DEF a, b
  <2>2. Capped(a, b) <= b /\ a <= Capped(a, b)
    BY <1>1, <1>2, <2>1
  <2> QED
    BY <1>4, <2>2 DEF a, b
<1> QED
  BY <1>7, <1>8

LEMMA InitIInv == Init => IInv
<1> SUFFICES ASSUME Init PROVE IInv
  OBVIOUS
<1>1. \A t \in Threads : work[t] = NULL /\ pc[t] = "top"
  BY DEF Init
<1>2. g_work # NULL
  BY NonceAssumption DEF Init
<1> QED
  BY <1>1, <1>2, InitTypeOK DEF IInv, Begun, Told, InSlice

\* A thread that a step leaves alone, but for its restart flag being set.
LEMMA OthersPlace ==
  ASSUME NEW s \in Threads, kernel' = kernel,
         pc'[s] = pc[s], nonce'[s] = nonce[s], end_nonce'[s] = end_nonce[s],
         last_nonce'[s] = last_nonce[s], passed'[s] = passed[s], redo'[s] = redo[s],
         Place(s)
  PROVE  Place(s)'
  BY DEF Place, Unlimited

LEMMA ThreadFacts ==
  ASSUME TypeOK, NEW t \in Threads
  PROVE  /\ nonce[t] \in Nat /\ end_nonce[t] \in Nat /\ last_nonce[t] \in Nat
         /\ end_nonce[t] <= Word - 1 /\ passed[t] \in Nat /\ Word \in Nat \ {0}
<1>1. nonce[t] \in Nonces /\ end_nonce[t] \in Nonces /\ last_nonce[t] \in Nonces
  BY DEF TypeOK
<1>2. passed[t] \in Nat
  BY DEF TypeOK
<1> QED
  BY <1>1, <1>2, NonceAssumption DEF Nonces

\* A slice that is started, or continued one nonce further on.
LEMMA TakePlace ==
  ASSUME IInv, NEW t \in Threads, std_get_new_work(t)
  PROVE  work'[t] # NULL /\ Place(t)'
<1> USE DEF IInv
<1>1. /\ kernel' = kernel /\ pc[t] = "take" /\ pc'[t] = "size" /\ g_work # NULL
      /\ kernel.lanes \in Nat /\ Reserve \in Nat
  BY KernelFacts, NonceAssumption DEF std_get_new_work, Goto, TypeOK
<1>2. /\ passed'[t] = IF work[t] # g_work THEN 0 ELSE AtLeast(passed[t], nonce[t])
      /\ redo'[t] = (work[t] = g_work /\ (redo[t] \/ (UsedUp(t) /\ restart[t])))
  BY DEF std_get_new_work, TypeOK
<1>3. CASE work[t] # g_work \/ UsedUp(t)
  <2>1. /\ work'[t] = g_work /\ nonce'[t] = SliceStart(t)
        /\ end_nonce'[t] = Capped(SliceStart(t), SliceEnd(t))
    BY <1>3 DEF std_get_new_work, TypeOK
  <2>2. nonce'[t] = Per * t /\ Per * t \in Nat /\ Per * (t + 1) \in Nat
    BY <2>1, SliceExact, SliceBounds
  <2>3. end_nonce'[t] <= Per * (t + 1) - Reserve /\ Per * t <= end_nonce'[t]
    BY <2>1, CappedPlace
  <2>4. end_nonce'[t] \in Nat
    BY <2>1, CappedType, NoncesAreNat
  <2>5. redo'[t] \/ passed'[t] <= nonce'[t]
    <3>1. CASE work[t] # g_work
      BY <1>2, <2>2, <3>1
    <3>2. CASE work[t] = g_work
      <4>1. UsedUp(t) /\ restart[t]
        BY <1>1, <1>3, <3>2 DEF Told
      <4> QED
        BY <1>2, <3>2, <4>1, Zenon
    <3> QED
      BY <3>1, <3>2
  <2>6. Per * t <= nonce'[t] /\ nonce'[t] <= end_nonce'[t]
    BY <1>1, <2>2, <2>3, <2>4
  <2> QED
    BY <1>1, <2>1, <2>3, <2>5, <2>6 DEF Place
<1>4. CASE work[t] = g_work /\ ~UsedUp(t)
  <2>1. /\ work'[t] = work[t] /\ nonce'[t] = (nonce[t] + 1) % Word
        /\ end_nonce'[t] = end_nonce[t]
    BY <1>4 DEF std_get_new_work, TypeOK
  <2>2. Place(t) /\ work[t] # NULL
    BY <1>1, <1>4 DEF InSlice
  <2>3. /\ nonce[t] \in Nat /\ end_nonce[t] \in Nat /\ end_nonce[t] <= Word - 1
        /\ passed[t] \in Nat /\ Word \in Nat
    BY ThreadFacts
  <2>4. nonce[t] + 1 <= end_nonce[t]
    BY <1>4, <2>3 DEF UsedUp
  <2>5. nonce'[t] = nonce[t] + 1
    BY <2>1, <2>3, <2>4, ModSmall
  <2>6. redo'[t] \/ passed'[t] <= nonce'[t]
    <3>1. CASE redo[t]
      BY <1>2, <1>4, <3>1, Zenon
    <3>2. CASE passed[t] <= nonce[t]
      BY <1>2, <1>4, <2>3, <2>5, <3>2 DEF AtLeast
    <3> QED
      BY <2>2, <3>1, <3>2 DEF Place
  <2>7. /\ end_nonce[t] <= Per * (t + 1) - Reserve
        /\ Per * t <= nonce[t] /\ Per * t \in Nat
    BY <2>2, SliceBounds DEF Place
  <2>8. Per * t <= nonce'[t] /\ nonce'[t] <= end_nonce'[t]
    BY <2>1, <2>3, <2>4, <2>5, <2>7
  <2> QED
    BY <1>1, <2>1, <2>2, <2>6, <2>7, <2>8 DEF Place
<1> QED
  BY <1>3, <1>4

\* max_nonce - lanes keeps a batch inside the range, or goes below zero; only the
\* first thread's range has nonces that small.
LEMMA SizePlace ==
  ASSUME IInv, NEW t \in Threads, SizePortion(t)
  PROVE  work'[t] # NULL /\ Place(t)'
<1> USE DEF IInv
<1>1. /\ kernel' = kernel /\ pc[t] = "size" /\ pc'[t] = "hash"
      /\ kernel.lanes \in Nat /\ Reserve \in Nat
      /\ UNCHANGED <<work, nonce, end_nonce, passed>>
  BY KernelFacts, NonceAssumption DEF SizePortion, Goto, TypeOK
<1>2. work[t] # NULL /\ Place(t)
  BY <1>1 DEF Begun, InSlice
<1>3. PICK m \in Max64 :
        /\ last_nonce'[t] = (MaxNonce(t, m) - kernel.lanes) % Word
        /\ redo'[t] = (redo[t] \/ MaxNonce(t, m) < kernel.lanes)
  BY DEF SizePortion, TypeOK
<1>4. m \in Nat
  BY KernelFacts
<1>5. /\ nonce[t] \in Nat /\ end_nonce[t] \in Nat /\ end_nonce[t] <= Word - 1
      /\ Word \in Nat
  BY ThreadFacts
<1>6. /\ nonce[t] <= end_nonce[t] /\ Per * t <= nonce[t]
      /\ end_nonce[t] <= Per * (t + 1) - Reserve
      /\ redo[t] \/ passed[t] <= nonce[t]
  BY <1>1, <1>2 DEF Place
<1>7. /\ MaxNonce(t, m) \in Nat /\ nonce[t] <= MaxNonce(t, m)
      /\ MaxNonce(t, m) <= end_nonce[t]
  BY <1>4, <1>5, <1>6 DEF MaxNonce
<1> DEFINE M == MaxNonce(t, m)
<1> HIDE DEF M
<1>8. /\ M \in Nat /\ nonce[t] <= M /\ M <= end_nonce[t]
      /\ last_nonce'[t] = (M - kernel.lanes) % Word
      /\ redo'[t] = (redo[t] \/ M < kernel.lanes)
  BY <1>3, <1>7 DEF M
<1>9. redo'[t] \/ passed'[t] <= nonce'[t]
  <2>1. CASE redo[t]
    BY <1>8, <2>1, Zenon
  <2>2. CASE passed[t] <= nonce[t]
    BY <1>1, <2>2
  <2> QED
    BY <1>6, <2>1, <2>2
<1>10. CASE kernel.lanes <= M
  <2>1. M - kernel.lanes \in Nat /\ M - kernel.lanes <= Word - 1
    BY <1>1, <1>5, <1>8, <1>10
  <2>2. last_nonce'[t] = M - kernel.lanes
    BY <1>8, <2>1, ModSmall
  <2>3. last_nonce'[t] + kernel.lanes <= end_nonce[t]
    BY <1>1, <1>5, <1>8, <2>2
  <2> QED
    BY <1>1, <1>2, <1>6, <1>9, <2>3 DEF Place
<1>11. CASE M < kernel.lanes
  <2>1. redo'[t]
    BY <1>8, <1>11, Zenon
  <2>2. t = 0
    <3>1. Per * t < Per
      <4>1. kernel.lanes <= Per /\ Per \in Nat /\ Per * t \in Nat
        BY <1>1, KernelFacts, PerBounds, SliceBounds
      <4> QED
        BY <1>1, <1>5, <1>6, <1>8, <1>11, <4>1
    <3>2. t \in Nat /\ Per \in Nat
      BY PerBounds, NonceAssumption DEF Threads
    <3>3. ASSUME 1 <= t PROVE FALSE
      <4>1. Per * 1 <= Per * t
        BY <3>2, <3>3, TimesMonotone
      <4>2. Per * 1 = Per /\ Per * t \in Nat
        BY <3>2, SliceBounds
      <4> QED
        BY <3>1, <3>2, <4>1, <4>2
    <3> QED
      BY <3>2, <3>3
  <2>3. kernel.lanes <= Word
    <3>1. kernel.lanes <= Per /\ Per \in Nat /\ Per * (t + 1) \in Nat
      BY KernelFacts, PerBounds, SliceBounds, NonceAssumption
    <3>2. Per * (t + 1) = Per * t + Per /\ Per * t \in Nat /\ Per * (t + 1) <= Word - 1
      BY SliceBounds
    <3> QED
      BY <1>1, <1>5, <3>1, <3>2
  <2>4. last_nonce'[t] >= Word - kernel.lanes
    <3>1. (M - kernel.lanes) % Word = (M - kernel.lanes) + Word
      <4> DEFINE x == M - kernel.lanes
      <4>1. x \in Int /\ 0 - Word <= x /\ x <= 0 - 1
        BY <1>1, <1>5, <1>8, <1>11, <2>3
      <4>2. Word \in Nat \ {0}
        BY NonceAssumption
      <4> HIDE DEF x
      <4>3. x % Word = x + Word
        BY <4>1, <4>2
      <4> QED
        BY <4>3 DEF x
    <3> QED
      BY <1>1, <1>5, <1>8, <3>1
  <2>5. Unlimited(t)'
    BY <1>1, <2>4 DEF Unlimited
  <2> QED
    BY <1>1, <1>2, <1>6, <1>9, <2>1, <2>2, <2>5 DEF Place
<1>12. kernel.lanes <= M \/ M < kernel.lanes
  BY <1>1, <1>8
<1> QED
  BY <1>10, <1>11, <1>12

\* A batch of a scan with a limit keeps to it; one without is the first thread's,
\* for which every nonce is at or after the start of its range.
LEMMA HashPlace ==
  ASSUME IInv, NEW t \in Threads, HashBatch(t)
  PROVE  work'[t] # NULL /\ Place(t)'
<1> USE DEF IInv
<1> DEFINE n == (nonce[t] + kernel.lanes) % Word
           more == Continues(n, last_nonce[t]) /\ ~restart[t]
<1>1. /\ kernel' = kernel /\ pc[t] = "hash" /\ kernel.lanes \in Nat
      /\ kernel.lanes <= Reserve /\ Reserve \in Nat
      /\ UNCHANGED <<work, end_nonce, redo>>
  BY KernelFacts, NonceAssumption DEF HashBatch, Goto
<1>2. /\ pc'[t] = (IF more THEN "hash" ELSE "top") /\ nonce'[t] = n
      /\ passed'[t] = AtLeast(passed[t], nonce[t] + kernel.lanes)
      /\ last_nonce'[t] = IF more THEN last_nonce[t] ELSE 0
  BY DEF HashBatch, Goto, TypeOK
<1>3. work[t] # NULL /\ Place(t)
  BY <1>1 DEF Begun, InSlice
<1>4. /\ nonce[t] \in Nat /\ end_nonce[t] \in Nat /\ Word \in Nat
      /\ last_nonce[t] \in Nat /\ passed[t] \in Nat
  BY ThreadFacts
<1>5. /\ end_nonce[t] <= Per * (t + 1) - Reserve
      /\ Per * t <= nonce[t] /\ (redo[t] \/ passed[t] <= nonce[t])
      /\ \/ nonce[t] <= end_nonce[t] /\ last_nonce[t] + kernel.lanes <= end_nonce[t]
         \/ t = 0 /\ Unlimited(t) /\ redo[t]
  BY <1>1, <1>3 DEF Place
<1>6. /\ Per * t \in Nat /\ Per * (t + 1) \in Nat /\ Per * (t + 1) <= Word - 1
  BY SliceBounds
<1>7. ASSUME nonce[t] <= end_nonce[t], last_nonce[t] + kernel.lanes <= end_nonce[t]
      PROVE  Place(t)'
  <2>1. nonce[t] + kernel.lanes \in Nat /\ nonce[t] + kernel.lanes <= Word - 1
    BY <1>1, <1>4, <1>5, <1>6, <1>7
  <2>2. n = nonce[t] + kernel.lanes
    BY <2>1, ModSmall
  <2>3. Per * t <= nonce'[t]
    BY <1>1, <1>2, <1>4, <1>5, <1>6, <2>2
  <2>4. redo'[t] \/ passed'[t] <= nonce'[t]
    <3>1. CASE redo[t]
      BY <1>1, <3>1
    <3>2. CASE passed[t] <= nonce[t]
      BY <1>1, <1>2, <1>4, <2>2, <3>2 DEF AtLeast
    <3> QED
      BY <1>5, <3>1, <3>2
  <2>5. CASE more
    <3>1. n <= last_nonce[t]
      BY <1>1, <1>4, <2>2, <2>5 DEF Continues
    <3>2. nonce'[t] <= end_nonce'[t]
      BY <1>1, <1>2, <1>4, <1>7, <2>2, <3>1
    <3>3. pc'[t] = "hash" /\ last_nonce'[t] = last_nonce[t]
      BY <1>2, <2>5
    <3> HIDE DEF n, more
    <3> QED
      BY <1>1, <1>5, <1>7, <2>3, <2>4, <3>2, <3>3 DEF Place
  <2>6. CASE ~more
    <3>1. pc'[t] = "top"
      BY <1>2, <2>6
    <3> HIDE DEF n, more
    <3> QED
      BY <1>1, <1>5, <2>3, <2>4, <3>1 DEF Place
  <2> QED
    BY <2>5, <2>6
<1>8. ASSUME t = 0, Unlimited(t), redo[t]
      PROVE  Place(t)'
  <2>1. nonce'[t] \in Nat
    <3>1. nonce[t] + kernel.lanes \in Int
      BY <1>1, <1>4
    <3>2. n \in Nonces
      BY <3>1, ModRange
    <3> QED
      BY <1>2, <3>2, NoncesAreNat
  <2>2. Per * t <= nonce'[t]
    <3>1. Per * t = 0
      BY <1>8, PerBounds
    <3> QED
      BY <2>1, <3>1
  <2>3. CASE more
    <3>1. pc'[t] = "hash" /\ last_nonce'[t] = last_nonce[t]
      BY <1>2, <2>3
    <3>2. Unlimited(t)'
      BY <1>1, <1>8, <3>1 DEF Unlimited
    <3> HIDE DEF n, more
    <3> QED
      BY <1>1, <1>5, <1>8, <2>2, <3>1, <3>2 DEF Place
  <2>4. CASE ~more
    <3>1. pc'[t] = "top"
      BY <1>2, <2>4
    <3> HIDE DEF n, more
    <3> QED
      BY <1>1, <1>5, <1>8, <2>2, <3>1 DEF Place
  <2> QED
    BY <2>3, <2>4
<1> QED
  BY <1>1, <1>3, <1>5, <1>7, <1>8

\* The other steps leave the nonces alone; one that skips a scan only moves pc.
LEMMA RestPlace ==
  ASSUME IInv, NEW t \in Threads,
         CheckRange(t) \/ RollExtranonce(t) \/ AwaitRestart(t) \/ SkipScan(t),
         work'[t] # NULL
  PROVE  Place(t)'
<1> USE DEF IInv
<1>1. /\ UNCHANGED <<kernel, work, nonce, end_nonce, last_nonce, passed, redo>>
      /\ pc'[t] \notin {"size", "hash"}
  BY DEF CheckRange, RollExtranonce, AwaitRestart, SkipScan, Goto, TypeOK
<1>2. Place(t)
  BY <1>1 DEF InSlice
<1> QED
  BY <1>1, <1>2 DEF Place

LEMMA InSliceStep == IInv /\ [Next]_vars => InSlice'
<1> SUFFICES ASSUME IInv, [Next]_vars, NEW s \in Threads, work'[s] # NULL
             PROVE  Place(s)'
  BY DEF InSlice
<1> USE DEF IInv
<1>1. CASE NewWork \/ RestartAll \/ UNCHANGED vars
  <2>1. UNCHANGED <<kernel, pc, work, nonce, end_nonce, last_nonce, passed, redo>>
    BY <1>1 DEF NewWork, RestartAll, vars
  <2> QED
    BY <2>1, OthersPlace DEF InSlice
<1>2. ASSUME NEW t \in Threads, Miner(t) PROVE Place(s)'
  <2>1. CASE s = t
    BY <1>2, <2>1, TakePlace, SizePlace, HashPlace, RestPlace DEF Miner
  <2>2. CASE s # t
    <3>1. /\ kernel' = kernel /\ pc'[s] = pc[s] /\ work'[s] = work[s]
          /\ nonce'[s] = nonce[s] /\ end_nonce'[s] = end_nonce[s]
      BY <1>2, <2>2 DEF Miner, CheckRange, RollExtranonce, AwaitRestart, std_get_new_work,
                        SkipScan, SizePortion, HashBatch, Goto, TypeOK
    <3>2. /\ last_nonce'[s] = last_nonce[s] /\ passed'[s] = passed[s]
          /\ redo'[s] = redo[s]
      BY <1>2, <2>2 DEF Miner, CheckRange, RollExtranonce, AwaitRestart, std_get_new_work,
                        SkipScan, SizePortion, HashBatch, TypeOK
    <3> QED
      BY <3>1, <3>2, OthersPlace DEF InSlice
  <2> QED
    BY <2>1, <2>2
<1> QED
  BY <1>1, <1>2 DEF Next

LEMMA BegunStep == IInv /\ [Next]_vars => Begun'
<1> SUFFICES ASSUME IInv, [Next]_vars, NEW s \in Threads, pc'[s] \in {"size", "hash"}
             PROVE  work'[s] # NULL
  BY DEF Begun
<1> USE DEF IInv
<1>1. CASE NewWork \/ RestartAll \/ UNCHANGED vars
  BY <1>1 DEF NewWork, RestartAll, vars, Begun
<1>2. ASSUME NEW t \in Threads, std_get_new_work(t) PROVE work'[s] # NULL
  <2>1. CASE s = t
    BY <1>2, <2>1, TakePlace
  <2>2. CASE s # t
    <3>1. work'[s] = work[s] /\ pc'[s] = pc[s]
      BY <1>2, <2>2 DEF std_get_new_work, Goto, TypeOK
    <3> QED
      BY <3>1 DEF Begun
  <2> QED
    BY <2>1, <2>2
<1>3. ASSUME NEW t \in Threads, Miner(t), ~std_get_new_work(t) PROVE work'[s] # NULL
  <2>1. work' = work /\ pc[s] \in {"size", "hash"}
    BY <1>3 DEF Miner, CheckRange, RollExtranonce, AwaitRestart, SkipScan, SizePortion,
                HashBatch, Goto, TypeOK
  <2> QED
    BY <2>1 DEF Begun
<1> QED
  BY <1>1, <1>2, <1>3 DEF Next

\* A thread that is about to take work and has used up its slice of the current
\* one has been told to restart: it waited for that, or new work came.
LEMMA ToldStep == IInv /\ [Next]_vars => Told'
<1> SUFFICES ASSUME IInv, [Next]_vars, NEW s \in Threads
             PROVE  /\ work'[s] # NULL => work'[s] <= g_work'
                    /\ pc'[s] = "take" /\ UsedUp(s)' /\ work'[s] = g_work' => restart'[s]
  BY DEF Told
<1> USE DEF IInv
<1>1. g_work \in Nat /\ work[s] \in Nat \cup {NULL} /\ NULL \notin Nat
  BY NonceAssumption DEF TypeOK
<1>2. CASE NewWork \/ RestartAll
  <2>1. work' = work /\ (g_work' = g_work \/ g_work' = g_work + 1) /\ restart'[s] = TRUE
    BY <1>2 DEF NewWork, RestartAll
  <2> QED
    BY <1>1, <2>1 DEF Told
<1>3. CASE UNCHANGED vars
  BY <1>3 DEF vars, Told, UsedUp
<1>4. ASSUME NEW t \in Threads, RollExtranonce(t)
      PROVE  /\ work'[s] # NULL => work'[s] <= g_work'
             /\ restart'[s]
  <2>1. work' = work /\ g_work' = g_work + 1 /\ restart'[s] = TRUE
    BY <1>4 DEF RollExtranonce
  <2> QED
    BY <1>1, <2>1 DEF Told
<1>5. ASSUME NEW t \in Threads, std_get_new_work(t)
      PROVE  /\ work'[s] # NULL => work'[s] <= g_work'
             /\ pc'[s] = "take" /\ UsedUp(s)' /\ work'[s] = g_work' => restart'[s]
  <2>1. g_work' = g_work
    BY <1>5 DEF std_get_new_work
  <2>2. CASE s = t
    <3>1. pc'[s] = "size" /\ (work'[s] = g_work \/ work'[s] = work[s])
      BY <1>5, <2>2 DEF std_get_new_work, Goto, TypeOK
    <3> QED
      BY <1>1, <2>1, <3>1 DEF Told
  <2>3. CASE s # t
    <3>1. /\ pc'[s] = pc[s] /\ work'[s] = work[s] /\ nonce'[s] = nonce[s]
          /\ end_nonce'[s] = end_nonce[s]
      BY <1>5, <2>3 DEF std_get_new_work, Goto, TypeOK
    <3>2. restart'[s] = restart[s]
      BY <1>5, <2>3 DEF std_get_new_work, TypeOK
    <3> QED
      BY <2>1, <3>1, <3>2 DEF Told, UsedUp
  <2> QED
    BY <2>2, <2>3
<1>6. ASSUME NEW t \in Threads, SkipScan(t) \/ SizePortion(t) \/ HashBatch(t)
      PROVE  /\ work'[s] # NULL => work'[s] <= g_work'
             /\ pc'[s] = "take" /\ UsedUp(s)' /\ work'[s] = g_work' => restart'[s]
  <2>1. UNCHANGED <<work, g_work, restart, end_nonce>>
    BY <1>6 DEF SkipScan, SizePortion, HashBatch
  <2>2. pc'[s] = "take" => pc[s] = "take" /\ nonce'[s] = nonce[s]
    BY <1>6 DEF SkipScan, SizePortion, HashBatch, Goto, TypeOK
  <2> QED
    BY <2>1, <2>2 DEF Told, UsedUp
<1>7. ASSUME NEW t \in Threads, CheckRange(t) \/ AwaitRestart(t)
      PROVE  /\ work'[s] # NULL => work'[s] <= g_work'
             /\ pc'[s] = "take" /\ UsedUp(s)' /\ work'[s] = g_work' => restart'[s]
  <2>1. UNCHANGED <<work, g_work, restart, nonce, end_nonce>>
    BY <1>7 DEF CheckRange, AwaitRestart
  <2>2. pc'[s] = "take" => pc[s] = "take" \/ ~UsedUp(s) \/ restart[s]
    BY <1>7 DEF CheckRange, AwaitRestart, Goto, TypeOK
  <2> QED
    BY <2>1, <2>2 DEF Told, UsedUp
<1> QED
  BY <1>2, <1>3, <1>4, <1>5, <1>6, <1>7 DEF Next, Miner

LEMMA IInvariant == Spec => []IInv
<1>1. IInv /\ [Next]_vars => TypeOK'
  BY TakeTypeOK, ScanTypeOK, RestTypeOK, OthersTypeOK DEF IInv, Next, Miner
<1>2. IInv /\ [Next]_vars => IInv'
  BY <1>1, BegunStep, ToldStep, InSliceStep DEF IInv
<1> QED
  BY InitIInv, <1>2, PTL DEF Spec

\* No batch of a scan loop leaves the range of its thread, unless it is the first
\* thread's and max_nonce - lanes wrapped.
THEOREM ScansKeepToTheirSlice == Spec => []SliceKept
<1>1. IInv => SliceKept
  <2> SUFFICES ASSUME IInv, NEW t \in Threads, pc[t] = "hash", ~(t = 0 /\ Unlimited(t))
               PROVE  Per * t <= nonce[t] /\ nonce[t] + kernel.lanes <= Per * (t + 1)
    BY DEF SliceKept
  <2>1. Place(t) /\ TypeOK
    BY DEF IInv, Begun, InSlice
  <2>2. /\ Per * t <= nonce[t] /\ nonce[t] <= end_nonce[t]
        /\ end_nonce[t] <= Per * (t + 1) - Reserve
    BY <2>1 DEF Place
  <2>3. /\ nonce[t] \in Nat /\ end_nonce[t] \in Nat /\ kernel.lanes \in Nat
        /\ kernel.lanes <= Reserve /\ Reserve \in Nat /\ Per * (t + 1) \in Nat
    BY <2>1, ThreadFacts, KernelFacts, SliceBounds, NonceAssumption
  <2> QED
    BY <2>2, <2>3
<1> QED
  BY IInvariant, <1>1, PTL

\* A mining thread hashes no nonce of a work twice, unless it starts its range again
\* for a restart that brought no new work or a scan had no limit.
THEOREM NoncesScannedOnce == Spec => []NoNonceTwice
<1>1. IInv => NoNonceTwice
  BY DEF IInv, Begun, InSlice, Place, NoNonceTwice
<1> QED
  BY IInvariant, <1>1, PTL
=============================================================================
