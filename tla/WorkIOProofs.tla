---------------------------- MODULE WorkIOProofs ----------------------------
(***************************************************************************)
(* Proofs about WorkIO for any number of threads, works, blocks, retries   *)
(* and failures.                                                           *)
(***************************************************************************)
EXTENDS WorkIO, TLAPS

-----------------------------------------------------------------------------
(* Types.                                                                  *)

\* TypeOK with what it takes to be inductive.
Typed == TypeOK /\ HasWork /\ Serves /\ OneRequest

Waiting == {"wait", "leave", "out"}

LEMMA GetCommand == ASSUME NEW t \in Threads PROVE [cmd |-> "get", thr |-> t] \in Commands
  BY DEF Commands

LEMMA SubmitCommand ==
  ASSUME NEW t \in Threads, NEW w \in Works
  PROVE  [cmd |-> "submit", thr |-> t, work |-> w, data |-> "host"] \in Commands
  BY DEF Commands

\* What a command is made of.
LEMMA CommandParts ==
  ASSUME NEW c \in Commands
  PROVE  /\ c # NULL /\ c.thr \in Threads /\ c.cmd \in {"get", "submit"}
         /\ c.cmd = "submit" => c.work \in Works /\ c.data \in {"host", "wire"}
  BY NullAssumption DEF Commands

LEMMA InitTyped == Init => Typed
<1> SUFFICES ASSUME Init PROVE Typed
  OBVIOUS
<1>0. wq = <<>> /\ Len(wq) = 0 /\ wq \in Seq(Commands) /\ wc = NULL /\ wpc = "pop"
  BY DEF Init
<1>1. TypeOK
  <2>1. /\ q = [t \in Threads |-> <<>>] /\ q \in [Threads -> Seq(Works)]
        /\ \A t \in Threads : q[t] = <<>> /\ Len(q[t]) <= 1
    BY DEF Init
  <2>2. have_gbt \in BOOLEAN /\ allow_getwork \in BOOLEAN
    BY WorkIOAssumption DEF Init
  <2>3. pc \in [Threads -> MinerPC] /\ work \in [Threads -> Works \cup {NULL}]
    BY DEF Init, MinerPC
  <2>4. restart \in [Threads -> BOOLEAN] /\ recent \in BOOLEAN
    BY DEF Init
  <2>5. tip \in Nat /\ solved \subseteq Nat /\ failures \in Nat /\ shares \in Nat /\ wpc \in WorkioPC
    BY DEF Init, WorkioPC
  <2>6. work_heap = NULL /\ g_work = NULL
    BY DEF Init
  <2> QED
    BY <1>0, <2>1, <2>2, <2>3, <2>4, <2>5, <2>6 DEF TypeOK
<1>2. HasWork /\ Serves
  BY DEF Init, HasWork, Serves
<1>3. OneRequest
  BY <1>0 DEF OneRequest, Serving
<1> QED
  BY <1>1, <1>2, <1>3 DEF Typed

\* Requests are not touched, and who waits goes on waiting or leaves.
LEMMA RequestsLeftAlone ==
  ASSUME OneRequest, UNCHANGED <<wq, q>>, \A t \in Threads : Serving(t)' => Serving(t),
         \A t \in Threads : pc[t] \in Waiting => pc'[t] \in Waiting
  PROVE  OneRequest'
  BY DEF OneRequest, IsGet, Waiting

\* A step of a mining thread at most moves it, among the places that need no reply.
LEMMA PlainMove ==
  ASSUME Typed, NEW t \in Threads, NEW r \in MinerPC, pc' = [pc EXCEPT ![t] = r],
         pc[t] \in Waiting => r \in {"leave", "out"},
         UNCHANGED <<wq, q>>, UNCHANGED workioVars
  PROVE  /\ pc' \in [Threads -> MinerPC] /\ Serves' /\ OneRequest'
         /\ \A s \in Threads : /\ Len(q'[s]) <= 1
                               /\ q'[s] # <<>> => pc'[s] \in Waiting
<1>1. pc' \in [Threads -> MinerPC]
  BY DEF Typed, TypeOK
<1>2. Serves'
  BY DEF Typed, Serves, workioVars
<1>3. \A s \in Threads : pc[s] \in Waiting => pc'[s] \in Waiting
  BY DEF Typed, TypeOK, Waiting
<1>4. OneRequest'
  BY <1>3, RequestsLeftAlone DEF Typed, Serving, workioVars
<1>5. \A s \in Threads : /\ Len(q'[s]) <= 1
                         /\ q'[s] # <<>> => pc'[s] \in Waiting
  BY <1>3 DEF Typed, TypeOK, Waiting
<1> QED
  BY <1>1, <1>2, <1>4, <1>5

LEMMA MovesTyped ==
  ASSUME Typed, NEW t \in Threads,
         \/ LockWork(t) \/ StillRecent(t) \/ GiveUp(t) \/ Leave(t) \/ TakeWork(t)
         \/ DontMine(t) \/ EndScan(t) \/ ForceGetWork(t) \/ TellThreads(t)
  PROVE  Typed'
<1> USE DEF Typed
<1> DEFINE Types == /\ work' \in [Threads -> Works \cup {NULL}]
                    /\ restart' \in [Threads -> BOOLEAN] /\ recent' \in BOOLEAN
                    /\ HasWork'
<1>1. ASSUME NEW r \in MinerPC, pc' = [pc EXCEPT ![t] = r],
             pc[t] \in Waiting => r \in {"leave", "out"}, Types,
             UNCHANGED <<nodeVars, protoVars, workioVars, wq, q, g_work, shares>>
      PROVE  Typed'
  <2>1. /\ pc' \in [Threads -> MinerPC] /\ Serves' /\ OneRequest'
        /\ \A s \in Threads : /\ Len(q'[s]) <= 1
                              /\ q'[s] # <<>> => pc'[s] \in Waiting
    BY <1>1, PlainMove
  <2>2. TypeOK'
    BY <1>1, <2>1 DEF TypeOK, nodeVars, protoVars, workioVars, Waiting
  <2> QED
    BY <1>1, <2>1, <2>2
<1>2. CASE LockWork(t)
  <2>1. Types
    BY <1>2 DEF LockWork, Goto, HasWork, TypeOK
  <2> QED
    BY <1>1, <1>2, <2>1 DEF LockWork, Goto, MinerPC, Waiting
<1>3. CASE StillRecent(t)
  <2>1. Types
    BY <1>3 DEF StillRecent, Goto, HasWork, TypeOK
  <2> QED
    BY <1>1, <1>3, <2>1 DEF StillRecent, Goto, MinerPC, Waiting
<1>4. CASE GiveUp(t)
  <2>1. Types
    BY <1>4 DEF GiveUp, Goto, HasWork, TypeOK
  <2> QED
    BY <1>1, <1>4, <2>1 DEF GiveUp, Goto, MinerPC, Waiting
<1>5. CASE Leave(t)
  <2>1. Types
    BY <1>5 DEF Leave, Goto, HasWork, TypeOK
  <2> QED
    BY <1>1, <1>5, <2>1 DEF Leave, Goto, MinerPC, Waiting
<1>6. CASE TakeWork(t)
  <2>1. g_work \in Works /\ g_work # NULL
    BY <1>6 DEF TakeWork, Goto, HasWork, TypeOK
  <2>2. Types
    BY <1>6, <2>1 DEF TakeWork, Goto, HasWork, TypeOK
  <2> QED
    BY <1>1, <1>6, <2>2 DEF TakeWork, Goto, MinerPC, Waiting
<1>7. CASE DontMine(t)
  <2>1. Types
    BY <1>7 DEF DontMine, restart_threads, Goto, HasWork, TypeOK
  <2> QED
    BY <1>1, <1>7, <2>1 DEF DontMine, Goto, MinerPC, Waiting
<1>8. CASE EndScan(t)
  <2>1. Types
    BY <1>8 DEF EndScan, Goto, HasWork, TypeOK
  <2> QED
    BY <1>1, <1>8, <2>1 DEF EndScan, Goto, MinerPC, Waiting
<1>9. CASE ForceGetWork(t)
  <2>1. Types
    BY <1>9 DEF ForceGetWork, Goto, HasWork, TypeOK
  <2> QED
    BY <1>1, <1>9, <2>1 DEF ForceGetWork, Goto, MinerPC, Waiting
<1>10. CASE TellThreads(t)
  <2>1. Types
    BY <1>10 DEF TellThreads, restart_threads, Goto, HasWork, TypeOK
  <2> QED
    BY <1>1, <1>10, <2>1 DEF TellThreads, Goto, MinerPC, Waiting
<1> QED
  BY <1>2, <1>3, <1>4, <1>5, <1>6, <1>7, <1>8, <1>9, <1>10

-----------------------------------------------------------------------------
(* The queue.                                                              *)

LEMMA Appended ==
  ASSUME NEW S, NEW u \in Seq(S), NEW e \in S
  PROVE  /\ Append(u, e) \in Seq(S) /\ Len(u) \in Nat /\ Len(Append(u, e)) = Len(u) + 1
         /\ \A i \in 1 .. Len(u) : Append(u, e)[i] = u[i]
         /\ Append(u, e)[Len(u) + 1] = e
  OBVIOUS

LEMMA Popped ==
  ASSUME NEW S, NEW u \in Seq(S), u # <<>>
  PROVE  /\ Tail(u) \in Seq(S) /\ Len(u) \in Nat \ {0} /\ Len(Tail(u)) = Len(u) - 1
         /\ \A i \in 1 .. Len(u) - 1 : Tail(u)[i] = u[i + 1]
         /\ Head(u) = u[1] /\ Head(u) \in S
  OBVIOUS

LEMMA EmptyOrNot == ASSUME NEW S, NEW u \in Seq(S) PROVE Len(u) \in Nat /\ (Len(u) = 0 <=> u = <<>>)
  OBVIOUS

\* A queue of one element.
LEMMA Single ==
  ASSUME NEW S, NEW u \in Seq(S), u # <<>>, Len(u) <= 1
  PROVE  Head(u) \in S /\ Tail(u) = <<>>
<1>0. Len(u) \in Nat \ {0} /\ Tail(u) \in Seq(S) /\ Len(Tail(u)) = Len(u) - 1 /\ Head(u) \in S
  OBVIOUS
<1>1. Tail(u) \in Seq(S) /\ Len(Tail(u)) = 0 /\ Head(u) \in S
  BY <1>0
<1> DEFINE v == Tail(u)
<1> HIDE DEF v
<1>2. v \in Seq(S) /\ Len(v) = 0
  BY <1>1 DEF v
<1>3. v = <<>>
  BY <1>2, EmptyOrNot
<1> QED
  BY <1>1, <1>3 DEF v

LEMMA AskForWorkTyped == ASSUME Typed, NEW t \in Threads, AskForWork(t) PROVE Typed'
<1> USE DEF Typed
<1>1. CASE Frozen
  <2>1. /\ pc' = [pc EXCEPT ![t] = "leave"] /\ "leave" \in MinerPC /\ pc[t] = "locked"
        /\ UNCHANGED <<nodeVars, protoVars, workioVars, wq, q, g_work, recent, work, restart, shares>>
    BY <1>1 DEF AskForWork, Goto, MinerPC
  <2>2. /\ pc' \in [Threads -> MinerPC] /\ Serves' /\ OneRequest'
        /\ \A s \in Threads : /\ Len(q'[s]) <= 1
                              /\ q'[s] # <<>> => pc'[s] \in Waiting
    BY <2>1, PlainMove DEF Waiting
  <2>3. TypeOK'
    BY <2>1, <2>2 DEF TypeOK, nodeVars, protoVars, workioVars, Waiting
  <2>4. HasWork'
    BY <2>1 DEF HasWork, TypeOK
  <2> QED
    BY <2>2, <2>3, <2>4
<1>2. CASE ~Frozen
  <2> DEFINE c == [cmd |-> "get", thr |-> t]
  <2>1. /\ pc' = [pc EXCEPT ![t] = "wait"] /\ pc[t] = "locked" /\ wq' = Append(wq, c)
        /\ UNCHANGED <<nodeVars, protoVars, workioVars, q, g_work, recent, work, restart, shares>>
    BY <1>2 DEF AskForWork, Goto
  <2>2. c.cmd = "get" /\ c.thr = t /\ c \in Commands
    BY GetCommand
  <2> HIDE DEF c
  <2>3. /\ wq' \in Seq(Commands) /\ Len(wq) \in Nat /\ Len(wq') = Len(wq) + 1
        /\ \A i \in 1 .. Len(wq) : wq'[i] = wq[i]
        /\ wq'[Len(wq) + 1] = c
    BY <2>1, <2>2, Appended DEF TypeOK
  <2>4. pc' \in [Threads -> MinerPC]
    BY <2>1 DEF TypeOK, MinerPC
  <2>5. \A s \in Threads : pc[s] \in Waiting => pc'[s] \in Waiting
    BY <2>1 DEF TypeOK, Waiting
  <2>6. TypeOK'
    BY <2>1, <2>3, <2>4, <2>5 DEF TypeOK, nodeVars, protoVars, workioVars, Waiting
  <2>7. HasWork' /\ Serves'
    BY <2>1 DEF HasWork, Serves, TypeOK, workioVars
  <2>8. q[t] = <<>> /\ ~Serving(t) /\ \A i \in 1 .. Len(wq) : ~IsGet(i, t)
    BY <2>1 DEF TypeOK, OneRequest
  <2>9. ASSUME NEW s \in Threads, NEW i \in 1 .. Len(wq'), IsGet(i, s)'
        PROVE  \/ i \in 1 .. Len(wq) /\ IsGet(i, s)
               \/ i = Len(wq) + 1 /\ s = t
    <3>1. wq'[i].cmd = "get" /\ wq'[i].thr = s
      BY <2>9 DEF IsGet
    <3>2. i \in 1 .. Len(wq) \/ i = Len(wq) + 1
      BY <2>3
    <3> QED
      BY <2>2, <2>3, <3>1, <3>2 DEF IsGet
  <2>10. q' = q /\ pc'[t] = "wait" /\ \A s \in Threads : Serving(s)' => Serving(s)
    BY <2>1 DEF Serving, workioVars, TypeOK
  <2>11. ASSUME NEW s \in Threads, NEW i \in 1 .. Len(wq'), NEW j \in 1 .. Len(wq'),
                IsGet(i, s)', IsGet(j, s)'
         PROVE  i = j
    <3>1. CASE s = t
      BY <2>8, <2>9, <2>11, <3>1
    <3>2. CASE s # t
      <4>1. i \in 1 .. Len(wq) /\ IsGet(i, s) /\ j \in 1 .. Len(wq) /\ IsGet(j, s)
        BY <2>9, <2>11, <3>2
      <4> QED
        BY <4>1 DEF OneRequest
    <3> QED
      BY <3>1, <3>2
  <2>13. ASSUME NEW s \in Threads, NEW i \in 1 .. Len(wq'), IsGet(i, s)'
         PROVE  q'[s] = <<>> /\ ~Serving(s)' /\ pc'[s] \in Waiting
    <3>1. CASE i \in 1 .. Len(wq) /\ IsGet(i, s)
      BY <2>5, <2>10, <3>1 DEF OneRequest, Waiting
    <3>2. CASE s = t
      BY <2>8, <2>10, <3>2 DEF Waiting
    <3> QED
      BY <2>9, <2>13, <3>1, <3>2
  <2>14. ASSUME NEW s \in Threads, Serving(s)' PROVE q'[s] = <<>> /\ pc'[s] \in Waiting
    BY <2>5, <2>10, <2>14 DEF OneRequest, Waiting
  <2>15. OneRequest'
    BY <2>11, <2>13, <2>14 DEF OneRequest, Waiting
  <2> QED
    BY <2>6, <2>7, <2>15
<1> QED
  BY <1>1, <1>2

\* A solved block at the end of the queue is nobody's request.
LEMMA SubmitWorkTyped == ASSUME Typed, NEW t \in Threads, submit_work(t) PROVE Typed'
<1> USE DEF Typed
<1> DEFINE c == [cmd |-> "submit", thr |-> t, work |-> work[t], data |-> "host"]
<1>1. /\ pc' = [pc EXCEPT ![t] = "found"] /\ pc[t] = "hash" /\ wq' = Append(wq, c)
      /\ shares' = shares + 1
      /\ UNCHANGED <<nodeVars, protoVars, workioVars, q, g_work, recent, work, restart>>
  BY DEF submit_work, Goto
<1>2. work[t] \in Works
  BY <1>1 DEF HasWork, TypeOK
<1>3. c.cmd = "submit" /\ c \in Commands
  BY <1>2, SubmitCommand
<1> HIDE DEF c
<1>4. /\ wq' \in Seq(Commands) /\ Len(wq) \in Nat /\ Len(wq') = Len(wq) + 1
      /\ \A i \in 1 .. Len(wq) : wq'[i] = wq[i]
      /\ wq'[Len(wq) + 1] = c
  BY <1>1, <1>3, Appended DEF TypeOK
<1>5. pc' \in [Threads -> MinerPC] /\ \A s \in Threads : pc[s] \in Waiting => pc'[s] = pc[s]
  BY <1>1 DEF TypeOK, MinerPC, Waiting
<1>6. TypeOK'
  BY <1>1, <1>4, <1>5 DEF TypeOK, nodeVars, protoVars, workioVars, Waiting
<1>7. HasWork' /\ Serves'
  BY <1>1 DEF HasWork, Serves, TypeOK, workioVars
<1>8. ASSUME NEW s \in Threads, NEW i \in 1 .. Len(wq'), IsGet(i, s)'
      PROVE  i \in 1 .. Len(wq) /\ IsGet(i, s)
  <2>1. wq'[i].cmd = "get" /\ wq'[i].thr = s
    BY <1>8 DEF IsGet
  <2>2. i \in 1 .. Len(wq) \/ i = Len(wq) + 1
    BY <1>4
  <2> QED
    BY <1>3, <1>4, <2>1, <2>2 DEF IsGet
<1>9. q' = q /\ \A s \in Threads : Serving(s)' => Serving(s)
  BY <1>1 DEF Serving, workioVars
<1>10. ASSUME NEW s \in Threads, NEW i \in 1 .. Len(wq'), NEW j \in 1 .. Len(wq'),
              IsGet(i, s)', IsGet(j, s)'
       PROVE  i = j
  <2>1. i \in 1 .. Len(wq) /\ IsGet(i, s) /\ j \in 1 .. Len(wq) /\ IsGet(j, s)
    BY <1>8, <1>10
  <2> QED
    BY <2>1 DEF OneRequest
<1>11. OneRequest'
  BY <1>5, <1>8, <1>9, <1>10 DEF OneRequest, Waiting
<1> QED
  BY <1>6, <1>7, <1>11

LEMMA ReceiveWorkTyped == ASSUME Typed, NEW t \in Threads, ReceiveWork(t) PROVE Typed'
<1> USE DEF Typed
<1>1. /\ pc' = [pc EXCEPT ![t] = "take"] /\ pc[t] = "wait" /\ q[t] # <<>>
      /\ g_work' = Head(q[t]) /\ q' = [q EXCEPT ![t] = Tail(q[t])] /\ recent' = TRUE
      /\ UNCHANGED <<nodeVars, protoVars, workioVars, wq, work, restart, shares>>
  BY DEF ReceiveWork, Goto
<1>2. q[t] \in Seq(Works) /\ Len(q[t]) <= 1
  BY DEF TypeOK
<1>3. Head(q[t]) \in Works
  BY <1>1, <1>2, Single
<1>4. Tail(q[t]) = <<>>
  BY <1>1, <1>2, Single
<1>5. /\ q' \in [Threads -> Seq(Works)] /\ q'[t] = <<>> /\ \A s \in Threads \ {t} : q'[s] = q[s]
      /\ pc' \in [Threads -> MinerPC] /\ pc'[t] = "take" /\ \A s \in Threads \ {t} : pc'[s] = pc[s]
  BY <1>1, <1>3, <1>4 DEF TypeOK, MinerPC
<1>6. \A s \in Threads : Len(q'[s]) <= 1 /\ (q'[s] # <<>> => pc'[s] \in Waiting)
  <2>1. Len(q'[t]) = 0 /\ q'[t] = <<>>
    BY <1>5
  <2>2. ASSUME NEW s \in Threads \ {t} PROVE Len(q'[s]) <= 1 /\ (q'[s] # <<>> => pc'[s] \in Waiting)
    <3>1. q'[s] = q[s] /\ pc'[s] = pc[s]
      BY <1>5
    <3>2. Len(q[s]) <= 1 /\ (q[s] # <<>> => pc[s] \in Waiting)
      BY DEF TypeOK, Waiting
    <3> QED
      BY <3>1, <3>2
  <2> QED
    BY <2>1, <2>2
<1>7. TypeOK'
  BY <1>1, <1>3, <1>5, <1>6 DEF TypeOK, nodeVars, protoVars, workioVars, Waiting
<1>8. g_work' # NULL
  BY <1>1, <1>3, NullAssumption
<1>9. HasWork' /\ Serves'
  BY <1>1, <1>5, <1>8 DEF HasWork, Serves, workioVars
<1>10. ~Serving(t) /\ \A i \in 1 .. Len(wq) : ~IsGet(i, t)
  BY <1>1 DEF OneRequest
<1>11. wq' = wq /\ (\A s \in Threads : Serving(s)' <=> Serving(s)) /\ \A s, i : IsGet(i, s)' <=> IsGet(i, s)
  BY <1>1 DEF Serving, IsGet, workioVars
<1>12. OneRequest'
  BY <1>5, <1>10, <1>11 DEF OneRequest
<1> QED
  BY <1>7, <1>9, <1>12

-----------------------------------------------------------------------------
(* The workio thread.                                                      *)

\* No thread moves, the queues of the mining threads stay as they are.
LEMMA PopCommandTyped == ASSUME Typed, PopCommand PROVE Typed'
<1> USE DEF Typed
<1>1. /\ wpc = "pop" /\ wq # <<>> /\ wc' = Head(wq) /\ wq' = Tail(wq) /\ wpc' = Head(wq).cmd
      /\ UNCHANGED <<nodeVars, protoVars, failures, work_heap, q, g_work, recent, minerVars, restart, shares>>
  BY DEF PopCommand
<1>2. wq \in Seq(Commands)
  BY DEF TypeOK
<1>3. /\ wq' \in Seq(Commands) /\ Len(wq) \in Nat \ {0} /\ Len(wq') = Len(wq) - 1
      /\ \A i \in 1 .. Len(wq) - 1 : wq'[i] = wq[i + 1]
      /\ wc' = wq[1] /\ wc' \in Commands
  BY <1>1, <1>2, Popped
<1>4. /\ wpc' = wc'.cmd /\ wc' # NULL /\ wc'.thr \in Threads /\ wc'.cmd \in {"get", "submit"}
  BY <1>1, <1>3, CommandParts
<1>5. TypeOK'
  BY <1>1, <1>3, <1>4 DEF TypeOK, WorkioPC, nodeVars, protoVars, minerVars
<1>6. HasWork' /\ Serves'
  BY <1>1, <1>4 DEF HasWork, Serves, minerVars
<1>7. q' = q /\ pc' = pc
  BY <1>1 DEF minerVars
<1>8. ASSUME NEW s \in Threads, NEW i \in 1 .. Len(wq'), IsGet(i, s)'
      PROVE  i + 1 \in 1 .. Len(wq) /\ IsGet(i + 1, s)
  <2>1. wq'[i].cmd = "get" /\ wq'[i].thr = s
    BY <1>8 DEF IsGet
  <2> QED
    BY <1>3, <2>1 DEF IsGet
<1>9. ASSUME NEW s \in Threads, Serving(s)' PROVE 1 \in 1 .. Len(wq) /\ IsGet(1, s)
  <2>1. wpc' \in {"get", "reply"} /\ wc'.thr = s
    BY <1>9 DEF Serving
  <2> QED
    BY <1>3, <1>4, <2>1 DEF IsGet
<1>10. ASSUME NEW s \in Threads, NEW i \in 1 .. Len(wq'), NEW j \in 1 .. Len(wq'),
              IsGet(i, s)', IsGet(j, s)'
       PROVE  i = j
  <2>1. i + 1 \in 1 .. Len(wq) /\ IsGet(i + 1, s) /\ j + 1 \in 1 .. Len(wq) /\ IsGet(j + 1, s)
    BY <1>8, <1>10
  <2>2. i + 1 = j + 1
    BY <2>1 DEF OneRequest
  <2> QED
    BY <1>3, <2>2
<1>11. ASSUME NEW s \in Threads, NEW i \in 1 .. Len(wq'), IsGet(i, s)'
       PROVE  q'[s] = <<>> /\ ~Serving(s)' /\ pc'[s] \in Waiting
  <2>1. i + 1 \in 1 .. Len(wq) /\ IsGet(i + 1, s)
    BY <1>8, <1>11
  <2>2. q[s] = <<>> /\ pc[s] \in Waiting
    BY <2>1 DEF OneRequest, Waiting
  <2>3. ASSUME Serving(s)' PROVE FALSE
    <3>1. 1 \in 1 .. Len(wq) /\ IsGet(1, s)
      BY <1>9, <2>3
    <3>2. i + 1 = 1
      BY <2>1, <3>1 DEF OneRequest
    <3> QED
      BY <1>3, <3>2
  <2> QED
    BY <1>7, <2>2, <2>3
<1>12. ASSUME NEW s \in Threads, Serving(s)' PROVE q'[s] = <<>> /\ pc'[s] \in Waiting
  <2>1. 1 \in 1 .. Len(wq) /\ IsGet(1, s)
    BY <1>9, <1>12
  <2> QED
    BY <1>7, <2>1 DEF OneRequest, Waiting
<1>13. OneRequest'
  BY <1>10, <1>11, <1>12 DEF OneRequest, Waiting
<1> QED
  BY <1>5, <1>6, <1>13

LEMMA PushReplyTyped == ASSUME Typed, PushReply PROVE Typed'
<1> USE DEF Typed
<1> DEFINE t == wc.thr
<1>1. /\ wpc = "reply" /\ wpc' = "pop" /\ wc' = NULL /\ work_heap' = NULL /\ failures' = 0
      /\ UNCHANGED <<nodeVars, protoVars, wq, g_work, recent, minerVars, restart, shares>>
      /\ q' = IF ThreadFrozen(t) THEN q ELSE [q EXCEPT ![t] = Append(q[t], work_heap)]
  BY DEF PushReply
<1>2. wc \in Commands /\ work_heap \in Works
  BY <1>1 DEF Serves, TypeOK
<1>3. t \in Threads
  BY <1>2, CommandParts
<1>4. Serving(t) /\ q[t] = <<>> /\ pc[t] \in Waiting
  BY <1>1, <1>3 DEF Serving, OneRequest, Waiting
<1>5. \A i \in 1 .. Len(wq) : ~IsGet(i, t)
  BY <1>3, <1>4 DEF OneRequest
<1> HIDE DEF t
<1>6. /\ q' \in [Threads -> Seq(Works)] /\ \A s \in Threads \ {t} : q'[s] = q[s]
      /\ Len(q'[t]) <= 1
  <2>1. Append(q[t], work_heap) \in Seq(Works) /\ Len(Append(q[t], work_heap)) = Len(q[t]) + 1
    BY <1>2, <1>3, Appended DEF TypeOK
  <2>2. Len(q[t]) = 0
    BY <1>4
  <2>3. CASE ThreadFrozen(t)
    BY <1>1, <1>3, <2>3 DEF TypeOK
  <2>4. CASE ~ThreadFrozen(t)
    <3>1. q' = [q EXCEPT ![t] = Append(q[t], work_heap)]
      BY <1>1, <2>4
    <3>2. q'[t] = Append(q[t], work_heap)
      BY <1>3, <3>1 DEF TypeOK
    <3>3. Len(q'[t]) = 1
      BY <2>1, <2>2, <3>2
    <3>4. q' \in [Threads -> Seq(Works)] /\ \A s \in Threads \ {t} : q'[s] = q[s]
      BY <1>3, <2>1, <3>1 DEF TypeOK
    <3> QED
      BY <3>3, <3>4
  <2> QED
    BY <2>3, <2>4
<1>7. pc' = pc /\ wq' = wq
  BY <1>1 DEF minerVars
<1>8. ASSUME NEW s \in Threads PROVE Len(q'[s]) <= 1 /\ (q'[s] # <<>> => pc'[s] \in Waiting)
  <2>1. CASE s = t
    BY <1>4, <1>6, <1>7, <2>1
  <2>2. CASE s # t
    <3>1. q'[s] = q[s]
      BY <1>6, <2>2
    <3>2. Len(q[s]) <= 1 /\ (q[s] # <<>> => pc[s] \in Waiting)
      BY DEF TypeOK, Waiting
    <3> QED
      BY <1>7, <3>1, <3>2
  <2> QED
    BY <2>1, <2>2
<1>9. TypeOK'
  BY <1>1, <1>6, <1>8 DEF TypeOK, WorkioPC, nodeVars, protoVars, minerVars, Waiting
<1>10. HasWork' /\ Serves'
  BY <1>1 DEF HasWork, Serves, minerVars
<1>11. \A s \in Threads : ~Serving(s)'
  BY <1>1 DEF Serving
<1>12. \A s \in Threads : \A i : IsGet(i, s)' => IsGet(i, s)
  BY <1>7 DEF IsGet
<1>13. OneRequest'
  BY <1>3, <1>5, <1>6, <1>7, <1>11, <1>12 DEF OneRequest
<1> QED
  BY <1>9, <1>10, <1>13

\* Steps that leave the queues and the mining threads alone.
LEMMA OthersTyped ==
  ASSUME Typed, UNCHANGED <<wq, q, pc, work, g_work, shares>>,
         recent' \in BOOLEAN, recent' => recent, restart' \in [Threads -> BOOLEAN],
         tip' \in Nat, solved' \subseteq Nat, have_gbt' \in BOOLEAN, allow_getwork' \in BOOLEAN,
         wc' \in Commands \cup {NULL}, wpc' \in WorkioPC, failures' \in Nat,
         work_heap' \in Works \cup {NULL}, Serves', \A t \in Threads : Serving(t)' => Serving(t)
  PROVE  Typed'
<1> USE DEF Typed
<1>1. TypeOK'
  BY DEF TypeOK
<1>2. HasWork'
  BY DEF HasWork
<1>3. OneRequest'
  BY RequestsLeftAlone
<1> QED
  BY <1>1, <1>2, <1>3

LEMMA RestartIfNewType ==
  ASSUME Typed, NEW w, RestartIfNew(w)
  PROVE  restart' \in [Threads -> BOOLEAN] /\ (restart_threads \/ restart' = restart)
  BY DEF Typed, TypeOK, RestartIfNew, restart_threads

LEMMA NodeType ==
  ASSUME Typed, NEW arrives \in BOOLEAN, SendBlock(arrives)
  PROVE  /\ tip' \in Nat /\ solved' \subseteq Nat /\ wpc = "submit"
         /\ wc \in Commands /\ wc.cmd = "submit" /\ wc.work \in Works
         /\ UNCHANGED <<have_gbt, allow_getwork, wq, q, g_work, recent, pc, work, restart, shares>>
         /\ UNCHANGED nodeVars \/ (tip' = tip + 1 /\ solved' = solved \cup {tip} /\ wc.work.height = tip)
<1>1. tip \in Nat /\ solved \subseteq Nat
  BY DEF Typed, TypeOK
<1>2. UNCHANGED nodeVars \/ (tip' = tip + 1 /\ solved' = solved \cup {tip} /\ wc.work.height = tip)
  BY DEF SendBlock, NodeReceives
<1>3. wpc = "submit" /\ wc \in Commands /\ wc.cmd = "submit"
  BY DEF SendBlock, Typed, TypeOK, Serves
<1>4. wc.work \in Works
  BY <1>3, CommandParts
<1>5. tip' \in Nat /\ solved' \subseteq Nat
  <2>1. CASE UNCHANGED nodeVars
    BY <1>1, <2>1 DEF nodeVars
  <2>2. CASE tip' = tip + 1 /\ solved' = solved \cup {tip}
    <3>1. tip' \in Nat
      BY <1>1, <2>2
    <3>2. solved' \subseteq Nat
      BY <1>1, <2>2
    <3> QED
      BY <3>1, <3>2
  <2> QED
    BY <1>2, <2>1, <2>2
<1>6. UNCHANGED <<have_gbt, allow_getwork, wq, q, g_work, recent, pc, work, restart, shares>>
  BY DEF SendBlock, protoVars, minerVars
<1> QED
  BY <1>2, <1>3, <1>4, <1>5, <1>6

LEMMA SwappedType == ASSUME NEW c PROVE Swapped(c) \in {"host", "wire"}
  BY DEF Swapped

LEMMA WorkioTyped == ASSUME Typed, WorkioStep \/ WakeForNothing PROVE Typed'
<1> USE DEF Typed
<1>1. CASE FetchFails
  <2>1. /\ wpc = "get" /\ wpc' \in {"get", "end"} /\ wc' \in {wc, NULL} /\ failures' \in Nat
        /\ wpc' = "get" => wc' = wc
        /\ UNCHANGED <<work_heap, nodeVars, have_gbt, wq, q, g_work, recent, minerVars, restart, shares>>
    BY <1>1 DEF FetchFails, Retry, TypeOK
  <2>2. allow_getwork' \in BOOLEAN
    BY <1>1, Zenon DEF FetchFails, TypeOK
  <2>3. Serves' /\ \A t \in Threads : Serving(t)' => Serving(t)
    BY <2>1 DEF Serves, Serving
  <2> QED
    BY <2>1, <2>2, <2>3, OthersTyped DEF TypeOK, WorkioPC, nodeVars, minerVars
<1>2. CASE FallBack
  <2>1. Serves' /\ \A t \in Threads : Serving(t)' => Serving(t)
    BY <1>2 DEF FallBack, Serves, Serving, workioVars
  <2> QED
    BY <1>2, <2>1, OthersTyped DEF FallBack, TypeOK, nodeVars, minerVars, workioVars
<1>3. ASSUME NEW v \in Versions, get_upstream_work(v) PROVE Typed'
  <2> DEFINE w == [height |-> tip, version |-> v, txs |-> have_gbt]
  <2>1. /\ wpc = "get" /\ wpc' = "reply" /\ work_heap' = w /\ RestartIfNew(w)
        /\ UNCHANGED <<nodeVars, have_gbt, wc, failures, wq, q, g_work, recent, minerVars, shares>>
    BY <1>3 DEF get_upstream_work
  <2>2. w \in Works
    BY DEF Works, TypeOK
  <2> HIDE DEF w
  <2>3. allow_getwork' \in BOOLEAN
    BY <1>3, Zenon DEF get_upstream_work
  <2>4. restart' \in [Threads -> BOOLEAN]
    BY <2>1, RestartIfNewType
  <2>5. work_heap' \in Works /\ work_heap' # NULL
    BY <2>1, <2>2, NullAssumption
  <2>6. Serves' /\ \A t \in Threads : Serving(t)' => Serving(t)
    BY <2>1, <2>5 DEF Serves, Serving
  <2> QED
    BY <2>1, <2>3, <2>4, <2>5, <2>6, OthersTyped DEF TypeOK, WorkioPC, nodeVars, minerVars
<1>4. CASE SubmitOk
  <2>1. /\ tip' \in Nat /\ solved' \subseteq Nat
        /\ UNCHANGED <<have_gbt, allow_getwork, wq, q, g_work, recent, pc, work, restart, shares>>
    BY <1>4, NodeType DEF SubmitOk
  <2>2. wpc' = "pop" /\ wc' = NULL /\ failures' = 0 /\ UNCHANGED work_heap
    BY <1>4 DEF SubmitOk
  <2>3. Serves' /\ \A t \in Threads : Serving(t)' => Serving(t)
    BY <2>2 DEF Serves, Serving
  <2> QED
    BY <2>1, <2>2, <2>3, OthersTyped DEF TypeOK, WorkioPC
<1>5. CASE SubmitFails
  <2>1. /\ tip' \in Nat /\ solved' \subseteq Nat /\ wpc = "submit"
        /\ wc \in Commands /\ wc.cmd = "submit" /\ wc.work \in Works
        /\ UNCHANGED <<have_gbt, allow_getwork, wq, q, g_work, recent, pc, work, restart, shares>>
    BY <1>5, NodeType DEF SubmitFails
  <2>2. /\ failures' \in Nat /\ UNCHANGED work_heap
        /\ \/ wpc' = "end" /\ wc' = NULL
           \/ wpc' = "submit" /\ wc' = [wc EXCEPT !.data = Swapped(wc)]
    BY <1>5, <2>1 DEF SubmitFails, TypeOK
  <2>3. /\ [wc EXCEPT !.data = Swapped(wc)] \in Commands
        /\ [wc EXCEPT !.data = Swapped(wc)].cmd = "submit"
    BY <2>1, SwappedType DEF Commands
  <2>4. [wc EXCEPT !.data = Swapped(wc)] # NULL
    BY <2>3, NullAssumption
  <2>5. Serves' /\ \A t \in Threads : Serving(t)' => Serving(t)
    BY <2>2, <2>3, <2>4 DEF Serves, Serving
  <2>6. wc' \in Commands \cup {NULL}
    BY <2>2, <2>3
  <2> QED
    BY <2>1, <2>2, <2>5, <2>6, OthersTyped DEF TypeOK, WorkioPC
<1>6. CASE WakeForNothing \/ CloseQueue \/ ExitProcess
  <2>1. /\ wpc' \in {"end", "dead", "exit"}
        /\ UNCHANGED <<tip, solved, have_gbt, allow_getwork, wc, failures, work_heap, wq, q, g_work,
                       recent, pc, work, restart, shares>>
    BY <1>6 DEF WakeForNothing, CloseQueue, ExitProcess, nodeVars, protoVars, minerVars
  <2>2. Serves' /\ \A t \in Threads : Serving(t)' => Serving(t)
    BY <2>1 DEF Serves, Serving
  <2> QED
    BY <2>1, <2>2, OthersTyped DEF TypeOK, WorkioPC
<1> QED
  BY <1>1, <1>2, <1>3, <1>4, <1>5, <1>6, PopCommandTyped, PushReplyTyped DEF WorkioStep

LEMMA StepTyped == Typed /\ [Next]_vars => Typed'
<1> SUFFICES ASSUME Typed, [Next]_vars PROVE Typed'
  OBVIOUS
<1>1. CASE NewBlock \/ Age \/ UNCHANGED vars
  <2>0. recent' \in BOOLEAN /\ (recent' => recent)
    <3>1. recent' = recent \/ recent' = FALSE
      BY <1>1 DEF NewBlock, Age, vars
    <3>2. recent \in BOOLEAN
      BY DEF Typed, TypeOK
    <3>3. CASE recent' = recent
      BY <3>2, <3>3, Zenon
    <3>4. CASE recent' = FALSE
      BY <3>4
    <3> QED
      BY <3>1, <3>3, <3>4, Zenon
  <2>1. /\ UNCHANGED <<solved, have_gbt, allow_getwork, wc, wpc, failures, work_heap, wq, q, g_work,
                       pc, work, restart, shares>>
        /\ tip' \in Nat
    BY <1>1 DEF NewBlock, Age, vars, nodeVars, protoVars, workioVars, minerVars, Typed, TypeOK
  <2>2. Serves' /\ \A t \in Threads : Serving(t)' => Serving(t)
    BY <2>1 DEF Typed, Serves, Serving
  <2> QED
    BY <2>0, <2>1, <2>2, OthersTyped DEF Typed, TypeOK
<1>2. ASSUME NEW t \in Threads, Miner(t) \/ GiveUp(t) PROVE Typed'
  BY <1>2, AskForWorkTyped, SubmitWorkTyped, ReceiveWorkTyped, MovesTyped DEF Miner
<1> QED
  BY <1>1, <1>2, WorkioTyped DEF Next, Terminated

LEMMA TypedAlways == Spec => []Typed
  BY InitTyped, StepTyped, PTL DEF Spec

\* Every variable keeps its type, and at most one reply is ever on its way to a thread:
\* for any number of threads, wake-ups for nothing, failures and retries.
THEOREM TypeCorrect == Spec => []TypeOK
<1>1. Typed => TypeOK
  BY DEF Typed
<1> QED
  BY <1>1, TypedAlways, PTL

-----------------------------------------------------------------------------
(* What most steps leave alone.                                            *)

\* Work is fetched, passed on and installed by three steps.
LEMMA WorkLeftAlone ==
  ASSUME [Next]_vars, ~ \E v \in Versions : get_upstream_work(v), ~PushReply,
         ~ \E t \in Threads : ReceiveWork(t)
  PROVE  UNCHANGED <<work_heap, q, g_work>>
<1>1. ASSUME NEW t \in Threads, Miner(t) \/ GiveUp(t) PROVE UNCHANGED <<work_heap, q, g_work>>
  BY <1>1 DEF Miner, LockWork, StillRecent, AskForWork, GiveUp, Leave, TakeWork, DontMine,
     EndScan, submit_work, ForceGetWork, TellThreads, workioVars
<1>2. CASE WorkioStep \/ WakeForNothing
  BY <1>2 DEF WorkioStep, PopCommand, FetchFails, Retry, FallBack, SubmitOk, SubmitFails, SendBlock,
     CloseQueue, ExitProcess, WakeForNothing, workioVars
<1>3. CASE NewBlock \/ Age \/ Terminated \/ UNCHANGED vars
  BY <1>3 DEF NewBlock, Age, Terminated, vars, workioVars
<1> QED
  BY <1>1, <1>2, <1>3 DEF Next

\* The protocol flags change as work is fetched, and when it is not.
LEMMA ProtocolLeftAlone ==
  ASSUME [Next]_vars, ~ \E v \in Versions : get_upstream_work(v), ~FetchFails, ~FallBack
  PROVE  UNCHANGED <<have_gbt, allow_getwork>>
<1>1. ASSUME NEW t \in Threads, Miner(t) \/ GiveUp(t) PROVE UNCHANGED <<have_gbt, allow_getwork>>
  BY <1>1 DEF Miner, LockWork, StillRecent, AskForWork, ReceiveWork, GiveUp, Leave, TakeWork, DontMine,
     EndScan, submit_work, ForceGetWork, TellThreads, protoVars
<1>2. CASE WorkioStep \/ WakeForNothing
  BY <1>2 DEF WorkioStep, PopCommand, PushReply, SubmitOk, SubmitFails, SendBlock,
     CloseQueue, ExitProcess, WakeForNothing, protoVars
<1>3. CASE NewBlock \/ Age \/ Terminated \/ UNCHANGED vars
  BY <1>3 DEF NewBlock, Age, Terminated, vars, protoVars
<1> QED
  BY <1>1, <1>2, <1>3 DEF Next

\* Where the reply goes.
LEMMA ReplyArrives ==
  ASSUME Typed, PushReply
  PROVE  /\ wc.thr \in Threads /\ Serving(wc.thr) /\ work_heap \in Works /\ work_heap # NULL
         /\ work_heap' = NULL /\ g_work' = g_work /\ wpc = "reply"
         /\ \A s \in Threads :
              q'[s] # <<>> => \/ s = wc.thr /\ Head(q'[s]) = work_heap
                              \/ q[s] # <<>> /\ q'[s] = q[s]
<1>1. /\ wpc = "reply" /\ work_heap' = NULL /\ g_work' = g_work
      /\ q' = IF ThreadFrozen(wc.thr) THEN q ELSE [q EXCEPT ![wc.thr] = Append(q[wc.thr], work_heap)]
  BY DEF PushReply
<1>2. wc \in Commands /\ work_heap \in Works /\ work_heap # NULL
  BY <1>1 DEF Typed, Serves, TypeOK
<1>3. wc.thr \in Threads
  BY <1>2, CommandParts
<1>4. Serving(wc.thr) /\ q[wc.thr] = <<>>
  BY <1>1, <1>3 DEF Serving, Typed, OneRequest
<1>5. Head(Append(q[wc.thr], work_heap)) = work_heap
  <2>1. Append(<<>>, work_heap) = <<work_heap>>
    OBVIOUS
  <2> QED
    BY <1>4, <2>1
<1>6. ASSUME NEW s \in Threads, q'[s] # <<>>
      PROVE  \/ s = wc.thr /\ Head(q'[s]) = work_heap
             \/ q[s] # <<>> /\ q'[s] = q[s]
  <2>1. CASE ThreadFrozen(wc.thr)
    BY <1>1, <1>6, <2>1
  <2>2. CASE ~ThreadFrozen(wc.thr) /\ s # wc.thr
    BY <1>1, <1>6, <2>2 DEF Typed, TypeOK
  <2>3. CASE ~ThreadFrozen(wc.thr) /\ s = wc.thr
    <3>1. q'[s] = Append(q[wc.thr], work_heap)
      BY <1>1, <2>3 DEF Typed, TypeOK
    <3> QED
      BY <1>5, <2>3, <3>1
  <2> QED
    BY <2>1, <2>2, <2>3
<1> QED
  BY <1>1, <1>2, <1>3, <1>4, <1>6

\* Where the reply is taken.
LEMMA ReplyTaken ==
  ASSUME Typed, NEW t \in Threads, ReceiveWork(t)
  PROVE  /\ g_work' = Head(q[t]) /\ g_work' \in Works /\ pc[t] = "wait" /\ q[t] # <<>>
         /\ pc' = [pc EXCEPT ![t] = "take"] /\ q'[t] = <<>>
         /\ \A s \in Threads \ {t} : q'[s] = q[s]
         /\ UNCHANGED <<tip, solved, have_gbt, allow_getwork, wc, wpc, work_heap, wq, work, restart>>
<1>1. /\ g_work' = Head(q[t]) /\ pc[t] = "wait" /\ q[t] # <<>> /\ pc' = [pc EXCEPT ![t] = "take"]
      /\ q' = [q EXCEPT ![t] = Tail(q[t])]
      /\ UNCHANGED <<tip, solved, have_gbt, allow_getwork, wc, wpc, work_heap, wq, work, restart>>
  BY DEF ReceiveWork, Goto, nodeVars, protoVars, workioVars
<1>2. q[t] \in Seq(Works) /\ Len(q[t]) <= 1
  BY DEF Typed, TypeOK
<1>3. Head(q[t]) \in Works
  BY <1>1, <1>2, Single
<1>4. Tail(q[t]) = <<>>
  BY <1>1, <1>2, Single
<1>5. q'[t] = <<>> /\ \A s \in Threads \ {t} : q'[s] = q[s]
  BY <1>1, <1>4 DEF Typed, TypeOK
<1> QED
  BY <1>1, <1>3, <1>5

-----------------------------------------------------------------------------
(* The fallback.                                                           *)

Protocol == (have_gbt \/ allow_getwork) /\ TemplatesServed

\* A template exists somewhere.
Template == IsTemplate(g_work) \/ IsTemplate(work_heap)
              \/ \E t \in Threads : q[t] # <<>> /\ Head(q[t]).txs

LEMMA StepProtocol == Typed /\ Protocol /\ [Next]_vars => Protocol'
<1> SUFFICES ASSUME Typed, Protocol, [Next]_vars PROVE Protocol'
  OBVIOUS
<1>0. (Template => have_gbt /\ ~allow_getwork) /\ (have_gbt \/ allow_getwork)
  BY DEF Protocol, TemplatesServed, Template
<1>1. ASSUME Template' => have_gbt' /\ ~allow_getwork', have_gbt' \/ allow_getwork' PROVE Protocol'
  BY <1>1 DEF Protocol, TemplatesServed, Template
<1>2. CASE FetchFails
  <2>1. UNCHANGED <<g_work, work_heap, q>>
    BY <1>2 DEF FetchFails, Retry
  <2>2. Template' => Template
    BY <2>1 DEF Template, IsTemplate
  <2>3. have_gbt' = have_gbt /\ (allow_getwork' = allow_getwork \/ allow_getwork' = (allow_getwork /\ ~have_gbt))
    BY <1>2 DEF FetchFails
  <2>4. have_gbt \in BOOLEAN /\ allow_getwork \in BOOLEAN
    BY DEF Typed, TypeOK
  <2>5. (have_gbt' \/ allow_getwork') /\ (allow_getwork' => allow_getwork)
    <3>1. CASE allow_getwork' = allow_getwork
      BY <1>0, <2>3, <3>1, Zenon
    <3>2. CASE allow_getwork' = (allow_getwork /\ ~have_gbt)
      <4>1. allow_getwork' <=> allow_getwork /\ ~have_gbt
        BY <3>2
      <4> QED
        BY <1>0, <2>3, <4>1, Zenon
    <3> QED
      BY <2>3, <3>1, <3>2, Zenon
  <2> QED
    BY <1>0, <1>1, <2>2, <2>3, <2>5, Zenon
<1>3. CASE FallBack
  <2>1. UNCHANGED <<g_work, work_heap, q>>
    BY <1>3 DEF FallBack, workioVars
  <2>2. Template' => Template
    BY <2>1 DEF Template, IsTemplate
  <2>3. allow_getwork /\ allow_getwork' = allow_getwork
    BY <1>3 DEF FallBack
  <2> QED
    BY <1>0, <1>1, <2>2, <2>3, Zenon
<1>4. ASSUME NEW v \in Versions, get_upstream_work(v) PROVE Protocol'
  <2>1. /\ UNCHANGED <<have_gbt, g_work, q>> /\ work_heap'.txs = have_gbt
    BY <1>4 DEF get_upstream_work
  <2>2. allow_getwork' = (allow_getwork /\ ~have_gbt)
    BY <1>4 DEF get_upstream_work
  <2>3. IsTemplate(work_heap)' => work_heap'.txs
    BY DEF IsTemplate
  <2>4. Template' => Template \/ work_heap'.txs
    <3>1. IsTemplate(g_work)' => IsTemplate(g_work)
      BY <2>1 DEF IsTemplate
    <3>2. (\E t \in Threads : q[t] # <<>> /\ Head(q[t]).txs)' => \E t \in Threads : q[t] # <<>> /\ Head(q[t]).txs
      BY <2>1
    <3> QED
      BY <2>3, <3>1, <3>2, Zenon DEF Template
  <2>5. Template' => have_gbt
    BY <1>0, <2>1, <2>4, Zenon
  <2> QED
    BY <1>0, <1>1, <2>1, <2>2, <2>5, Zenon
<1>5. CASE PushReply
  <2>1. have_gbt' = have_gbt /\ allow_getwork' = allow_getwork
    BY <1>5 DEF PushReply, protoVars
  <2>2. Template' => Template
    <3>1. ~IsTemplate(work_heap)' /\ (IsTemplate(g_work)' => IsTemplate(g_work))
      BY <1>5, ReplyArrives DEF IsTemplate
    <3>2. ASSUME NEW s \in Threads, q'[s] # <<>>, Head(q'[s]).txs PROVE Template
      <4>1. CASE Head(q'[s]) = work_heap
        BY <1>5, <3>2, <4>1, ReplyArrives DEF Template, IsTemplate
      <4>2. CASE q[s] # <<>> /\ q'[s] = q[s]
        BY <3>2, <4>2 DEF Template
      <4> QED
        BY <1>5, <3>2, <4>1, <4>2, ReplyArrives
    <3> QED
      BY <3>1, <3>2 DEF Template
  <2> QED
    BY <1>0, <1>1, <2>1, <2>2, Zenon
<1>6. ASSUME NEW t \in Threads, ReceiveWork(t) PROVE Protocol'
  <2>1. have_gbt' = have_gbt /\ allow_getwork' = allow_getwork
    BY <1>6, ReplyTaken
  <2>2. Template' => Template
    <3>1. IsTemplate(work_heap)' => IsTemplate(work_heap)
      BY <1>6, ReplyTaken DEF IsTemplate
    <3>2. IsTemplate(g_work)' => q[t] # <<>> /\ Head(q[t]).txs
      BY <1>6, ReplyTaken DEF IsTemplate
    <3>3. ASSUME NEW s \in Threads, q'[s] # <<>>, Head(q'[s]).txs PROVE q[s] # <<>> /\ Head(q[s]).txs
      BY <1>6, <3>3, ReplyTaken
    <3> QED
      BY <3>1, <3>2, <3>3 DEF Template
  <2> QED
    BY <1>0, <1>1, <2>1, <2>2, Zenon
<1>7. CASE ~FetchFails /\ ~FallBack /\ ~PushReply /\ ~(\E v \in Versions : get_upstream_work(v))
           /\ ~ \E t \in Threads : ReceiveWork(t)
  <2>1. UNCHANGED <<work_heap, q, g_work>>
    BY <1>7, WorkLeftAlone
  <2>2. have_gbt' = have_gbt /\ allow_getwork' = allow_getwork
    BY <1>7, ProtocolLeftAlone
  <2>3. Template' => Template
    BY <2>1 DEF Template, IsTemplate
  <2> QED
    BY <1>0, <1>1, <2>2, <2>3, Zenon
<1> QED
  BY <1>2, <1>3, <1>4, <1>5, <1>6, <1>7

\* There is always a protocol left to ask with, and templates are not left once they
\* have been served, whatever the node answers.
THEOREM FallbackSound == Spec => []ProtocolKept
<1>1. Init => Protocol
  <2> SUFFICES ASSUME Init PROVE Protocol
    OBVIOUS
  <2>1. have_gbt \/ allow_getwork
    BY WorkIOAssumption DEF Init
  <2>2. TemplatesServed
    BY DEF Init, TemplatesServed, IsTemplate
  <2> QED
    BY <2>1, <2>2 DEF Protocol
<1>2. Protocol => ProtocolKept
  BY DEF Protocol, TemplatesServed, IsTemplate, ProtocolKept
<1> QED
  BY <1>1, <1>2, StepProtocol, TypedAlways, PTL DEF Spec

-----------------------------------------------------------------------------
(* The work feed.                                                          *)

Scanning == {"hash", "found", "tell"}
Scanned == [t \in Threads |-> IF pc[t] \in Scanning THEN work[t] ELSE NULL]

\* The steps of the mining threads, as seen by the feed; the others do not move them.
LEMMA ScansChange ==
  ASSUME Typed, [Next]_vars, ~ \E t \in Threads : TakeWork(t)
  PROVE  /\ restart_threads \/ restart' = restart
         /\ \A s \in Threads : Scan(s)' \in {NULL, Scan(s)}
         /\ \A s \in Threads : pc'[s] = "wait" => pc[s] \in {"wait", "locked"}
<1>1. ASSUME UNCHANGED <<pc, work>>, restart_threads \/ restart' = restart
      PROVE  /\ restart_threads \/ restart' = restart
             /\ \A s \in Threads : Scan(s)' \in {NULL, Scan(s)}
             /\ \A s \in Threads : pc'[s] = "wait" => pc[s] \in {"wait", "locked"}
  BY <1>1 DEF Scan
<1>2. CASE WorkioStep \/ WakeForNothing
  <2>1. UNCHANGED <<pc, work>>
    BY <1>2 DEF WorkioStep, PopCommand, FetchFails, FallBack, get_upstream_work, PushReply,
       SubmitOk, SubmitFails, SendBlock, CloseQueue, ExitProcess, WakeForNothing, minerVars
  <2>2. ASSUME NEW v \in Versions, get_upstream_work(v) PROVE restart_threads \/ restart' = restart
    BY <2>2, RestartIfNewType DEF get_upstream_work
  <2>3. ASSUME ~ \E v \in Versions : get_upstream_work(v) PROVE restart' = restart
    BY <1>2, <2>3 DEF WorkioStep, PopCommand, FetchFails, FallBack, PushReply,
       SubmitOk, SubmitFails, SendBlock, CloseQueue, ExitProcess, WakeForNothing
  <2> QED
    BY <1>1, <2>1, <2>2, <2>3
<1>3. CASE NewBlock \/ Age \/ Terminated \/ UNCHANGED vars
  <2>1. UNCHANGED <<pc, work, restart>>
    BY <1>3 DEF NewBlock, Age, Terminated, vars, minerVars
  <2> QED
    BY <1>1, <2>1
<1>4. ASSUME NEW t \in Threads, NEW p \in MinerPC, NEW r \in MinerPC, pc[t] = p,
             pc' = [pc EXCEPT ![t] = r], UNCHANGED work,
             r \in Scanning => p \in Scanning, r = "wait" => p = "locked",
             restart_threads \/ restart' = restart
      PROVE  /\ restart_threads \/ restart' = restart
             /\ \A s \in Threads : Scan(s)' \in {NULL, Scan(s)}
             /\ \A s \in Threads : pc'[s] = "wait" => pc[s] \in {"wait", "locked"}
  BY <1>4 DEF Scan, Scanning, Typed, TypeOK
<1>5. ASSUME NEW t \in Threads, (Miner(t) /\ ~TakeWork(t)) \/ GiveUp(t)
      PROVE  /\ restart_threads \/ restart' = restart
             /\ \A s \in Threads : Scan(s)' \in {NULL, Scan(s)}
             /\ \A s \in Threads : pc'[s] = "wait" => pc[s] \in {"wait", "locked"}
  <2>1. CASE LockWork(t) \/ StillRecent(t) \/ ReceiveWork(t) \/ GiveUp(t) \/ Leave(t)
    BY <1>4, <2>1 DEF LockWork, StillRecent, ReceiveWork, GiveUp, Leave, Goto, Scanning, MinerPC
  <2>2. CASE AskForWork(t)
    BY <1>4, <2>2 DEF AskForWork, Goto, Scanning, MinerPC
  <2>3. CASE submit_work(t) \/ ForceGetWork(t) \/ TellThreads(t)
    BY <1>4, <2>3 DEF submit_work, ForceGetWork, TellThreads, Goto, Scanning, MinerPC
  <2>4. CASE DontMine(t) \/ EndScan(t)
    <3>1. /\ pc' = [pc EXCEPT ![t] = "top"] /\ work' = [work EXCEPT ![t] = NULL]
          /\ restart_threads \/ restart' = restart
      BY <2>4 DEF DontMine, EndScan, Goto
    <3> QED
      BY <3>1 DEF Scan, Typed, TypeOK
  <2> QED
    BY <1>5, <2>1, <2>2, <2>3, <2>4 DEF Miner
<1> QED
  BY <1>2, <1>3, <1>5 DEF Next

\* What was announced stays announced while nobody takes work.
LEMMA ToldKept ==
  ASSUME restart_threads \/ restart' = restart,
         \A s \in Threads : Scan(s)' \in {NULL, Scan(s)}
  PROVE  \A w : ToldOf(w) => \A s \in Threads : Scan(s)' \in {NULL, w} \/ restart'[s]
  BY DEF ToldOf, restart_threads

LEMMA StepAnnounced == Typed /\ Announced /\ [Next]_vars => Announced'
<1> SUFFICES ASSUME Typed, Announced, [Next]_vars PROVE Announced'
  OBVIOUS
<1> DEFINE Told(w) == \A s \in Threads : Scan(s)' \in {NULL, w} \/ restart'[s]
<1>0. ASSUME Told(g_work'),
             \A t \in Threads : pc'[t] = "wait" =>
               /\ wpc' = "reply" /\ wc'.thr = t => Told(work_heap')
               /\ q'[t] # <<>> => Told(Head(q'[t]))
      PROVE  Announced'
  BY <1>0 DEF Announced, ToldOf
<1>1. ASSUME NEW t \in Threads, TakeWork(t) PROVE Announced'
  <2>1. /\ pc' = [pc EXCEPT ![t] = "hash"] /\ work' = [work EXCEPT ![t] = g_work]
        /\ restart' = [restart EXCEPT ![t] = FALSE] /\ g_work' = g_work /\ ~Locked
    BY <1>1 DEF TakeWork, Goto
  <2>2. \A s \in Threads : pc'[s] # "wait"
    BY <2>1 DEF Locked, Typed, TypeOK
  <2>3. Told(g_work')
    <3>1. Scan(t)' = g_work
      BY <2>1 DEF Scan, Typed, TypeOK
    <3>2. ASSUME NEW s \in Threads \ {t} PROVE Scan(s)' = Scan(s) /\ restart'[s] = restart[s]
      BY <2>1 DEF Scan, Typed, TypeOK
    <3>3. \A s \in Threads : Scan(s) \in {NULL, g_work} \/ restart[s]
      BY DEF Announced, ToldOf
    <3> QED
      BY <2>1, <3>1, <3>2, <3>3
  <2> QED
    BY <1>0, <2>2, <2>3
<1>2. CASE ~ \E t \in Threads : TakeWork(t)
  <2>1. /\ restart_threads \/ restart' = restart
        /\ \A s \in Threads : Scan(s)' \in {NULL, Scan(s)}
        /\ \A s \in Threads : pc'[s] = "wait" => pc[s] \in {"wait", "locked"}
    BY <1>2, ScansChange
  <2>2. \A w : ToldOf(w) => Told(w)
    BY <2>1, ToldKept
  <2> HIDE DEF Told
  <2>3. ToldOf(g_work) /\ \A t \in Threads : pc[t] = "wait" =>
          /\ wpc = "reply" /\ wc.thr = t => ToldOf(work_heap)
          /\ q[t] # <<>> => ToldOf(Head(q[t]))
    BY DEF Announced
  <2>4. \A t \in Threads : pc[t] = "locked" => q[t] = <<>> /\ ~Serving(t)
    BY DEF Typed, TypeOK, OneRequest
  <2>5. ASSUME NEW v \in Versions, get_upstream_work(v) PROVE Announced'
    <3>1. /\ wpc' = "reply" /\ UNCHANGED <<g_work, q, wc, pc>> /\ RestartIfNew(work_heap')
      BY <2>5 DEF get_upstream_work, minerVars
    <3>2. Told(work_heap')
      <4>1. CASE work_heap' = g_work
        BY <2>2, <2>3, <4>1
      <4>2. CASE work_heap' # g_work
        BY <3>1, <4>2 DEF RestartIfNew, restart_threads, Told
      <4> QED
        BY <4>1, <4>2
    <3> QED
      BY <1>0, <2>2, <2>3, <3>1, <3>2
  <2>6. CASE PushReply
    <3>1. pc' = pc /\ wpc' = "pop"
      BY <2>6 DEF PushReply, minerVars
    <3>2. ASSUME NEW t \in Threads, pc'[t] = "wait", q'[t] # <<>> PROVE Told(Head(q'[t]))
      <4>1. CASE t = wc.thr /\ Head(q'[t]) = work_heap
        BY <2>2, <2>3, <2>6, <3>1, <3>2, <4>1, ReplyArrives
      <4>2. CASE q[t] # <<>> /\ q'[t] = q[t]
        BY <2>2, <2>3, <3>1, <3>2, <4>2
      <4> QED
        BY <2>6, <3>2, <4>1, <4>2, ReplyArrives
    <3>3. g_work' = g_work
      BY <2>6, ReplyArrives
    <3> QED
      BY <1>0, <2>2, <2>3, <3>1, <3>2, <3>3
  <2>7. ASSUME NEW t \in Threads, ReceiveWork(t) PROVE Announced'
    <3>1. Told(g_work')
      BY <2>2, <2>3, <2>7, ReplyTaken
    <3>2. ASSUME NEW s \in Threads, pc'[s] = "wait" PROVE s # t /\ pc[s] = "wait" /\ q'[s] = q[s]
      BY <2>7, <3>2, ReplyTaken DEF Typed, TypeOK
    <3>3. UNCHANGED <<wpc, wc, work_heap>>
      BY <2>7, ReplyTaken
    <3> QED
      BY <1>0, <2>2, <2>3, <3>1, <3>2, <3>3
  <2>8. CASE /\ ~PushReply /\ ~(\E v \in Versions : get_upstream_work(v))
             /\ ~ \E t \in Threads : ReceiveWork(t)
    <3>1. UNCHANGED <<work_heap, q, g_work>>
      BY <2>8, WorkLeftAlone
    <3>2. wpc' = "reply" => wpc = "reply" /\ wc' = wc
      <4>1. ASSUME NEW t \in Threads, Miner(t) \/ GiveUp(t) PROVE wpc' = wpc /\ wc' = wc
        BY <4>1 DEF Miner, LockWork, StillRecent, AskForWork, ReceiveWork, GiveUp, Leave, TakeWork,
           DontMine, EndScan, submit_work, ForceGetWork, TellThreads, workioVars
      <4>2. CASE NewBlock \/ Age \/ Terminated \/ UNCHANGED vars
        BY <4>2 DEF NewBlock, Age, Terminated, vars, workioVars
      <4>3. CASE FetchFails \/ FallBack \/ SubmitOk \/ SubmitFails \/ CloseQueue
                 \/ ExitProcess \/ WakeForNothing
        BY <4>3 DEF FetchFails, Retry, FallBack, SubmitOk, SubmitFails, SendBlock, CloseQueue,
           ExitProcess, WakeForNothing, workioVars
      <4>4. CASE PopCommand
        <5>1. wq \in Seq(Commands) /\ wq # <<>> /\ wpc' = Head(wq).cmd
          BY <4>4 DEF PopCommand, Typed, TypeOK
        <5>2. Head(wq) \in Commands
          BY <5>1, Popped
        <5> QED
          BY <5>1, <5>2, CommandParts
      <4> QED
        BY <2>8, <4>1, <4>2, <4>3, <4>4 DEF Next, WorkioStep
    <3>3. ASSUME NEW t \in Threads, pc'[t] = "wait", wpc' = "reply", wc'.thr = t PROVE Told(work_heap')
      <4>1. Serving(t)
        BY <3>2, <3>3 DEF Serving
      <4> QED
        BY <2>1, <2>2, <2>3, <2>4, <3>1, <3>2, <3>3, <4>1
    <3>4. ASSUME NEW t \in Threads, pc'[t] = "wait", q'[t] # <<>> PROVE Told(Head(q'[t]))
      BY <2>1, <2>2, <2>3, <2>4, <3>1, <3>4
    <3> QED
      BY <1>0, <2>2, <2>3, <3>1, <3>3, <3>4
  <2> QED
    BY <2>5, <2>6, <2>7, <2>8
<1> QED
  BY <1>1, <1>2

LEMMA FlagsOnlyRise ==
  ASSUME Typed, restart_threads \/ restart' = restart PROVE Feed!FlagsUp
  BY DEF Feed!FlagsUp, restart_threads, Typed, TypeOK

LEMMA StepFeed == Typed /\ Announced /\ [Next]_vars => [Feed!Next]_(Feed!vars)
<1> SUFFICES ASSUME Typed, Announced, [Next]_vars PROVE Feed!Next \/ UNCHANGED Feed!vars
  OBVIOUS
<1>1. ASSUME NEW t \in Threads, TakeWork(t) PROVE Feed!Next
  <2>1. Scanned' = [Scanned EXCEPT ![t] = g_work]
    BY <1>1 DEF TakeWork, Goto, Typed, TypeOK, Scanned, Scanning
  <2>2. restart' = [restart EXCEPT ![t] = FALSE] /\ g_work' = g_work
    BY <1>1 DEF TakeWork
  <2>3. Feed!Take(t)
    BY <2>1, <2>2 DEF Feed!Take, Scanned, Scanning
  <2> QED
    BY <2>3 DEF Feed!Next
<1>2. ASSUME NEW t \in Threads, DontMine(t) \/ EndScan(t) PROVE Feed!Next
  <2>1. /\ pc[t] = "hash" /\ pc' = [pc EXCEPT ![t] = "top"] /\ work' = [work EXCEPT ![t] = NULL]
        /\ g_work' = g_work /\ (restart_threads \/ restart' = restart)
    BY <1>2 DEF DontMine, EndScan, Goto
  <2>2. Feed!FlagsUp
    BY <2>1, FlagsOnlyRise
  <2>3. Scanned[t] # NULL
    BY <2>1 DEF Scanned, Scanning, Typed, HasWork
  <2>4. Scanned' = [Scanned EXCEPT ![t] = NULL]
    BY <2>1 DEF Scanned, Scanning, Typed, TypeOK
  <2>5. Feed!Stop(t)
    BY <2>1, <2>2, <2>3, <2>4 DEF Feed!Stop, Scanned, Scanning
  <2> QED
    BY <2>5 DEF Feed!Next
<1>3. ASSUME NEW t \in Threads, ReceiveWork(t) PROVE Feed!Next
  <2>1. Scanned' = Scanned
    BY <1>3, ReplyTaken DEF Scanned, Scanning, Typed, TypeOK
  <2>2. ToldOf(Head(q[t]))
    BY <1>3, ReplyTaken DEF Announced
  <2>3. g_work' \in Works /\ g_work' = Head(q[t]) /\ restart' = restart
    BY <1>3, ReplyTaken
  <2>4. Feed!FlagsUp
    BY <2>3, FlagsOnlyRise
  <2>5. \A s \in Threads : Scanned[s] \in {NULL, g_work'} \/ restart'[s]
    BY <2>2, <2>3 DEF ToldOf, Scan, Scanned, Scanning
  <2>6. Feed!Install
    BY <2>1, <2>3, <2>4, <2>5 DEF Feed!Install, Scanned, Scanning
  <2> QED
    BY <2>6 DEF Feed!Next
<1>4. ASSUME Scanned' = Scanned, g_work' = g_work, restart_threads \/ restart' = restart PROVE Feed!Next
  <2>1. Feed!FlagsUp
    BY <1>4, FlagsOnlyRise
  <2>2. Feed!Tell
    BY <1>4, <2>1 DEF Feed!Tell, Scanned, Scanning
  <2> QED
    BY <2>2 DEF Feed!Next
<1>5. ASSUME NEW t \in Threads,
             \/ LockWork(t) \/ StillRecent(t) \/ AskForWork(t) \/ GiveUp(t) \/ Leave(t)
             \/ submit_work(t) \/ ForceGetWork(t) \/ TellThreads(t)
      PROVE  Feed!Next
  <2>1. g_work' = g_work /\ work' = work /\ (restart_threads \/ restart' = restart)
    BY <1>5 DEF LockWork, StillRecent, AskForWork, GiveUp, Leave, submit_work, ForceGetWork, TellThreads
  <2>2. Scanned' = Scanned
    <3>1. CASE submit_work(t) \/ ForceGetWork(t) \/ TellThreads(t)
      BY <2>1, <3>1 DEF submit_work, ForceGetWork, TellThreads, Goto, Scanned, Scanning, Typed, TypeOK
    <3>2. CASE LockWork(t) \/ StillRecent(t) \/ AskForWork(t) \/ GiveUp(t) \/ Leave(t)
      BY <2>1, <3>2 DEF LockWork, StillRecent, AskForWork, GiveUp, Leave, Goto, Scanned, Scanning,
         Typed, TypeOK
    <3> QED
      BY <1>5, <3>1, <3>2
  <2> QED
    BY <1>4, <2>1, <2>2
<1>6. CASE NewBlock \/ Age \/ Terminated \/ UNCHANGED vars
  <2>1. UNCHANGED <<pc, work, g_work, restart>>
    BY <1>6 DEF NewBlock, Age, Terminated, vars, minerVars
  <2> QED
    BY <1>4, <2>1 DEF Scanned
<1>7. CASE WorkioStep \/ WakeForNothing
  <2>1. UNCHANGED <<pc, work, g_work>>
    BY <1>7 DEF WorkioStep, PopCommand, FetchFails, FallBack, get_upstream_work, PushReply,
       SubmitOk, SubmitFails, SendBlock, CloseQueue, ExitProcess, WakeForNothing, minerVars
  <2>2. ASSUME NEW t \in Threads, TakeWork(t) PROVE Feed!Next
    BY <1>1, <2>2
  <2>3. CASE ~ \E t \in Threads : TakeWork(t)
    BY <1>4, <2>1, <2>3, ScansChange DEF Scanned
  <2> QED
    BY <2>2, <2>3
<1> QED
  BY <1>1, <1>2, <1>3, <1>5, <1>6, <1>7 DEF Next, Miner

\* The workio thread implements the work feed, although it announces work before the
\* thread that has asked for it installs it: for any number of threads and wake-ups.
THEOREM ImplementsFeed == Spec => FeedSpec
<1>1. Init => Announced
  BY DEF Init, Announced, ToldOf, Scan
<1>2. Init => Feed!Init
  BY DEF Init, Feed!Init
<1> QED
  BY <1>1, <1>2, StepAnnounced, StepFeed, TypedAlways, PTL DEF Spec, FeedSpec, Feed!Spec

-----------------------------------------------------------------------------
(* Solved blocks.                                                          *)

Finder == \E s \in Threads : pc[s] = "found"
Idle == {"pop", "end", "dead", "exit"}

\* What a thread that waits can rely on, and what recent work implies.
Behind(t) == \A i, j \in 1 .. Len(wq) : IsGet(i, t) /\ i < j => Held(wq[j])
AllHeld == \A j \in 1 .. Len(wq) : Held(wq[j])
WaitsFor(t) ==
  /\ Behind(t)
  /\ Serving(t) \/ q[t] # <<>> => AllHeld
  /\ q[t] # <<>> /\ wpc = "submit" => Held(wc)
  /\ q[t] # <<>> /\ Head(q[t]).height \in solved => Finder
Past == \A h \in solved : h < tip
Fresh == wpc = "reply" => work_heap.height \notin solved
RecentHeld == recent => AllHeld /\ (wpc = "submit" => Held(wc))
Kept == g_work # NULL /\ g_work.height \in solved /\ recent => Finder

Solved == FinderWaits /\ SolvedNotKept

LEMMA SolvedParts ==
  Solved <=> Past /\ (\A t \in Threads : pc[t] = "wait" => WaitsFor(t)) /\ Fresh /\ RecentHeld /\ Kept
  BY DEF Solved, FinderWaits, SolvedNotKept, Past, WaitsFor, Behind, AllHeld, Fresh, RecentHeld, Kept, Finder

LEMMA SolvedPartsNext ==
  ASSUME Past', \A t \in Threads : pc'[t] = "wait" => WaitsFor(t)', Fresh', RecentHeld', Kept'
  PROVE  Solved'
  BY DEF Solved, FinderWaits, SolvedNotKept, Past, WaitsFor, Behind, AllHeld, Fresh, RecentHeld, Kept, Finder

\* No finder has moved on.
FindersStay == \A s \in Threads : pc[s] = "found" => pc'[s] = "found"

LEMMA HeldStays ==
  ASSUME FindersStay, NEW c \in Commands, Held(c) PROVE c.cmd = "submit" => pc'[c.thr] = "found"
<1>1. c.thr \in Threads
  BY CommandParts
<1> QED
  BY <1>1 DEF Held, FindersStay

\* Steps that neither queue nor serve anything, and make nothing recent.
LEMMA QuietStep ==
  ASSUME Typed, Solved, FindersStay, UNCHANGED <<solved, wq, q, work_heap, g_work>>,
         tip' \in {tip, tip + 1}, recent' => recent,
         (wpc' = wpc /\ wc' = wc) \/ wpc' \in Idle,
         \A s \in Threads : pc'[s] = "wait" => pc[s] = "wait"
  PROVE  Solved'
<1>0. Past /\ (\A t \in Threads : pc[t] = "wait" => WaitsFor(t)) /\ Fresh /\ RecentHeld /\ Kept
  BY SolvedParts
<1>1. Past'
  BY <1>0 DEF Past, Typed, TypeOK
<1>2. Finder => Finder'
  BY DEF Finder, FindersStay
<1>3. \A j \in 1 .. Len(wq) : Held(wq[j]) => (wq[j].cmd = "submit" => pc'[wq[j].thr] = "found")
  <2>1. \A j \in 1 .. Len(wq) : wq[j] \in Commands
    BY DEF Typed, TypeOK
  <2> QED
    BY <2>1, HeldStays
<1>4. AllHeld => AllHeld'
  BY <1>3 DEF AllHeld, Held
<1>5. wpc' = "submit" => wpc = "submit" /\ wc' = wc /\ (Held(wc) => Held(wc)')
  <2>1. ASSUME wpc' = "submit" PROVE wpc = "submit" /\ wc' = wc /\ wc \in Commands
    BY <2>1 DEF Idle, Typed, TypeOK, Serves
  <2> QED
    BY <2>1, HeldStays DEF Held
<1>6. ASSUME NEW t \in Threads, pc'[t] = "wait" PROVE WaitsFor(t)'
  <2>1. WaitsFor(t)
    BY <1>0, <1>6
  <2>2. Behind(t)'
    BY <1>3, <2>1 DEF WaitsFor, Behind, IsGet, Held
  <2>3. Serving(t)' => Serving(t)
    BY DEF Serving, Idle
  <2>4. q' = q /\ solved' = solved
    OBVIOUS
  <2> QED
    BY <1>2, <1>4, <1>5, <2>1, <2>2, <2>3, <2>4 DEF WaitsFor
<1>7. Fresh'
  BY <1>0 DEF Fresh, Idle
<1>8. RecentHeld'
  BY <1>0, <1>4, <1>5 DEF RecentHeld
<1>9. Kept'
  BY <1>0, <1>2 DEF Kept
<1> QED
  BY <1>1, <1>6, <1>7, <1>8, <1>9, SolvedPartsNext
LEMMA AskForWorkSolved ==
  ASSUME Typed, Solved, NEW t \in Threads, AskForWork(t) PROVE Solved'
<1>0. Past /\ (\A s \in Threads : pc[s] = "wait" => WaitsFor(s)) /\ Fresh /\ RecentHeld /\ Kept
  BY SolvedParts
<1>1. CASE Frozen
  <2>1. /\ pc' = [pc EXCEPT ![t] = "leave"] /\ pc[t] = "locked"
        /\ UNCHANGED <<tip, solved, wq, q, work_heap, g_work, recent, wpc, wc>>
    BY <1>1 DEF AskForWork, Goto, nodeVars, workioVars
  <2>2. FindersStay /\ \A s \in Threads : pc'[s] = "wait" => pc[s] = "wait"
    BY <2>1 DEF FindersStay, Typed, TypeOK
  <2> QED
    BY <2>1, <2>2, QuietStep
<1>2. CASE ~Frozen
  <2> DEFINE c == [cmd |-> "get", thr |-> t]
  <2>1. /\ pc' = [pc EXCEPT ![t] = "wait"] /\ pc[t] = "locked" /\ wq' = Append(wq, c)
        /\ UNCHANGED <<tip, solved, q, work_heap, g_work, recent, wpc, wc>>
    BY <1>2 DEF AskForWork, Goto, nodeVars, workioVars
  <2>2. c.cmd = "get" /\ c \in Commands
    BY GetCommand
  <2> HIDE DEF c
  <2>3. /\ Len(wq) \in Nat /\ Len(wq') = Len(wq) + 1
        /\ \A i \in 1 .. Len(wq) : wq'[i] = wq[i] /\ wq[i] \in Commands
        /\ wq'[Len(wq) + 1] = c
    BY <2>1, <2>2, Appended DEF Typed, TypeOK
  <2>4. FindersStay /\ (Finder => Finder')
    BY <2>1 DEF FindersStay, Finder, Typed, TypeOK
  <2>5. ASSUME NEW j \in 1 .. Len(wq'), j \in 1 .. Len(wq) => Held(wq[j]) PROVE Held(wq[j])'
    <3>1. CASE j \in 1 .. Len(wq)
      <4>1. wq'[j] = wq[j] /\ wq[j] \in Commands /\ Held(wq[j])
        BY <2>3, <2>5, <3>1
      <4> QED
        BY <2>4, <4>1, HeldStays DEF Held
    <3>2. CASE j = Len(wq) + 1
      BY <2>2, <2>3, <3>2 DEF Held
    <3> QED
      BY <2>3, <3>1, <3>2
  <2>6. AllHeld => AllHeld'
    BY <2>5 DEF AllHeld, Held
  <2>7. wpc = "submit" /\ Held(wc) => Held(wc)'
    <3>1. wpc = "submit" => wc \in Commands
      BY DEF Typed, TypeOK, Serves
    <3> QED
      BY <2>1, <2>4, <3>1, HeldStays DEF Held
  <2>8. ASSUME NEW s \in Threads, pc'[s] = "wait" PROVE WaitsFor(s)'
    <3>1. CASE s = t
      <4>1. q[t] = <<>> /\ ~Serving(t) /\ \A i \in 1 .. Len(wq) : ~IsGet(i, t)
        BY <2>1 DEF Typed, TypeOK, OneRequest
      <4>2. q'[t] = <<>> /\ ~Serving(t)'
        BY <2>1, <4>1 DEF Serving
      <4>3. ASSUME NEW i \in 1 .. Len(wq'), NEW j \in 1 .. Len(wq'), IsGet(i, t)', i < j PROVE FALSE
        <5>1. i \in 1 .. Len(wq)
          BY <2>3, <4>3
        <5>2. IsGet(i, t)
          BY <2>3, <4>3, <5>1 DEF IsGet
        <5> QED
          BY <4>1, <5>1, <5>2
      <4> QED
        BY <3>1, <4>2, <4>3 DEF WaitsFor, Behind
    <3>2. CASE s # t
      <4>1. pc[s] = "wait" /\ WaitsFor(s)
        BY <1>0, <2>1, <2>8, <3>2 DEF Typed, TypeOK
      <4>2. ASSUME NEW i \in 1 .. Len(wq'), NEW j \in 1 .. Len(wq'), IsGet(i, s)', i < j
            PROVE  Held(wq[j])'
        <5>1. i \in 1 .. Len(wq) /\ wq'[i] = wq[i] /\ IsGet(i, s)
          BY <2>3, <4>2 DEF IsGet
        <5>2. j \in 1 .. Len(wq) => Held(wq[j])
          BY <4>1, <4>2, <5>1 DEF WaitsFor, Behind
        <5> QED
          BY <2>5, <5>2 DEF Held
      <4>3. Serving(s)' => Serving(s)
        BY <2>1 DEF Serving
      <4>4. Behind(s)'
        BY <4>2 DEF Behind
      <4> QED
        BY <2>1, <2>4, <2>6, <2>7, <4>1, <4>3, <4>4 DEF WaitsFor
    <3> QED
      BY <3>1, <3>2
  <2>9. Past' /\ Fresh'
    BY <1>0, <2>1 DEF Past, Fresh
  <2>10. RecentHeld' /\ Kept'
    BY <1>0, <2>1, <2>4, <2>6, <2>7 DEF RecentHeld, Kept
  <2> QED
    BY <2>8, <2>9, <2>10, SolvedPartsNext
<1> QED
  BY <1>1, <1>2

\* The finder of a block that is queued waits for the lock.
LEMMA SubmitWorkSolved ==
  ASSUME Typed, Solved, NEW t \in Threads, submit_work(t) PROVE Solved'
<1>0. Past /\ (\A s \in Threads : pc[s] = "wait" => WaitsFor(s)) /\ Fresh /\ RecentHeld /\ Kept
  BY SolvedParts
<1> DEFINE c == [cmd |-> "submit", thr |-> t, work |-> work[t], data |-> "host"]
<1>1. /\ pc' = [pc EXCEPT ![t] = "found"] /\ pc[t] = "hash" /\ wq' = Append(wq, c)
      /\ UNCHANGED <<tip, solved, q, work_heap, g_work, recent, wpc, wc>>
  BY DEF submit_work, Goto, nodeVars, workioVars
<1>2. work[t] \in Works
  BY <1>1 DEF Typed, HasWork, TypeOK
<1>3. c.cmd = "submit" /\ c.thr = t /\ c \in Commands
  BY <1>2, SubmitCommand
<1> HIDE DEF c
<1>4. /\ Len(wq) \in Nat /\ Len(wq') = Len(wq) + 1
      /\ \A i \in 1 .. Len(wq) : wq'[i] = wq[i] /\ wq[i] \in Commands
      /\ wq'[Len(wq) + 1] = c
  BY <1>1, <1>3, Appended DEF Typed, TypeOK
<1>5. FindersStay /\ (Finder => Finder') /\ pc'[t] = "found"
  BY <1>1 DEF FindersStay, Finder, Typed, TypeOK
<1>6. ASSUME NEW j \in 1 .. Len(wq'), j \in 1 .. Len(wq) => Held(wq[j]) PROVE Held(wq[j])'
  <2>1. CASE j \in 1 .. Len(wq)
    <3>1. wq'[j] = wq[j] /\ wq[j] \in Commands /\ Held(wq[j])
      BY <1>4, <1>6, <2>1
    <3> QED
      BY <1>5, <3>1, HeldStays DEF Held
  <2>2. CASE j = Len(wq) + 1
    BY <1>3, <1>4, <1>5, <2>2 DEF Held
  <2> QED
    BY <1>4, <2>1, <2>2
<1>7. AllHeld => AllHeld'
  BY <1>6 DEF AllHeld, Held
<1>8. wpc = "submit" /\ Held(wc) => Held(wc)'
  <2>1. wpc = "submit" => wc \in Commands
    BY DEF Typed, TypeOK, Serves
  <2> QED
    BY <1>1, <1>5, <2>1, HeldStays DEF Held
<1>9. ASSUME NEW s \in Threads, pc'[s] = "wait" PROVE WaitsFor(s)'
  <2>1. pc[s] = "wait" /\ WaitsFor(s)
    BY <1>0, <1>1, <1>9 DEF Typed, TypeOK
  <2>2. ASSUME NEW i \in 1 .. Len(wq'), NEW j \in 1 .. Len(wq'), IsGet(i, s)', i < j
        PROVE  Held(wq[j])'
    <3>1. i \in 1 .. Len(wq) /\ wq'[i] = wq[i] /\ IsGet(i, s)
      BY <1>4, <2>2 DEF IsGet
    <3>2. j \in 1 .. Len(wq) => Held(wq[j])
      BY <2>1, <2>2, <3>1 DEF WaitsFor, Behind
    <3> QED
      BY <1>6, <3>2 DEF Held
  <2>3. Serving(s)' => Serving(s)
    BY <1>1 DEF Serving
  <2>4. Behind(s)'
    BY <2>2 DEF Behind
  <2> QED
    BY <1>1, <1>5, <1>7, <1>8, <2>1, <2>3, <2>4 DEF WaitsFor
<1>10. Past' /\ Fresh'
  BY <1>0, <1>1 DEF Past, Fresh
<1>11. RecentHeld' /\ Kept'
  BY <1>0, <1>1, <1>5, <1>7, <1>8 DEF RecentHeld, Kept
<1> QED
  BY <1>9, <1>10, <1>11, SolvedPartsNext

\* The work that a thread has waited for is installed while the finders still wait.
LEMMA ReceiveWorkSolved ==
  ASSUME Typed, Solved, NEW t \in Threads, ReceiveWork(t) PROVE Solved'
<1>0. Past /\ (\A s \in Threads : pc[s] = "wait" => WaitsFor(s)) /\ Fresh /\ RecentHeld /\ Kept
  BY SolvedParts
<1>1. /\ g_work' = Head(q[t]) /\ pc[t] = "wait" /\ q[t] # <<>> /\ pc' = [pc EXCEPT ![t] = "take"]
      /\ \A s \in Threads \ {t} : q'[s] = q[s]
      /\ UNCHANGED <<tip, solved, wc, wpc, work_heap, wq>>
  BY ReplyTaken
<1>2. FindersStay /\ (Finder => Finder')
  BY <1>1 DEF FindersStay, Finder, Typed, TypeOK
<1>3. \A j \in 1 .. Len(wq) : Held(wq[j]) => Held(wq[j])'
  <2>1. \A j \in 1 .. Len(wq) : wq[j] \in Commands
    BY DEF Typed, TypeOK
  <2> QED
    BY <1>1, <1>2, <2>1, HeldStays DEF Held
<1>4. AllHeld => AllHeld'
  BY <1>1, <1>3 DEF AllHeld
<1>5. wpc = "submit" /\ Held(wc) => Held(wc)'
  <2>1. wpc = "submit" => wc \in Commands
    BY DEF Typed, TypeOK, Serves
  <2> QED
    BY <1>1, <1>2, <2>1, HeldStays DEF Held
<1>6. WaitsFor(t)
  BY <1>0, <1>1
<1>7. Kept' /\ RecentHeld'
  <2>1. AllHeld' /\ (wpc' = "submit" => Held(wc)')
    BY <1>1, <1>4, <1>5, <1>6 DEF WaitsFor
  <2>2. g_work'.height \in solved' => Finder'
    BY <1>1, <1>2, <1>6 DEF WaitsFor
  <2> QED
    BY <2>1, <2>2 DEF Kept, RecentHeld
<1>8. ASSUME NEW s \in Threads, pc'[s] = "wait" PROVE WaitsFor(s)'
  <2>1. s # t /\ pc[s] = "wait" /\ WaitsFor(s) /\ q'[s] = q[s]
    BY <1>0, <1>1, <1>8 DEF Typed, TypeOK
  <2>2. Behind(s)'
    BY <1>1, <1>3, <2>1 DEF WaitsFor, Behind, IsGet
  <2>3. Serving(s)' => Serving(s)
    BY <1>1 DEF Serving
  <2> QED
    BY <1>1, <1>2, <1>4, <1>5, <2>1, <2>2, <2>3 DEF WaitsFor
<1>9. Past' /\ Fresh'
  BY <1>0, <1>1 DEF Past, Fresh
<1> QED
  BY <1>7, <1>8, <1>9, SolvedPartsNext
LEMMA PopCommandSolved == ASSUME Typed, Solved, PopCommand PROVE Solved'
<1>0. Past /\ (\A s \in Threads : pc[s] = "wait" => WaitsFor(s)) /\ Fresh /\ RecentHeld /\ Kept
  BY SolvedParts
<1>1. /\ wpc = "pop" /\ wq # <<>> /\ wc' = Head(wq) /\ wq' = Tail(wq) /\ wpc' = Head(wq).cmd
      /\ UNCHANGED <<tip, solved, work_heap, q, g_work, recent, pc>>
  BY DEF PopCommand, nodeVars, minerVars
<1>2. /\ Len(wq) \in Nat \ {0} /\ Len(wq') = Len(wq) - 1
      /\ \A i \in 1 .. Len(wq) - 1 : wq'[i] = wq[i + 1]
      /\ wc' = wq[1] /\ wc' \in Commands
  BY <1>1, Popped DEF Typed, TypeOK
<1>3. wpc' \in {"get", "submit"} /\ wpc' = wc'.cmd
  BY <1>1, <1>2, CommandParts
<1>4. \A j \in 1 .. Len(wq') : j + 1 \in 1 .. Len(wq) /\ wq'[j] = wq[j + 1]
  BY <1>2
<1>5. 1 \in 1 .. Len(wq)
  BY <1>2
<1>6. AllHeld => AllHeld' /\ Held(wc)'
  BY <1>1, <1>2, <1>4, <1>5 DEF AllHeld, Held
<1>7. ASSUME NEW t \in Threads, pc'[t] = "wait" PROVE WaitsFor(t)'
  <2>1. WaitsFor(t)
    BY <1>0, <1>1, <1>7
  <2>2. ASSUME NEW i \in 1 .. Len(wq'), NEW j \in 1 .. Len(wq'), IsGet(i, t)', i < j PROVE Held(wq[j])'
    <3>1. IsGet(i + 1, t) /\ i + 1 \in 1 .. Len(wq) /\ j + 1 \in 1 .. Len(wq) /\ i + 1 < j + 1
      BY <1>2, <1>4, <2>2 DEF IsGet
    <3>2. Held(wq[j + 1])
      BY <2>1, <3>1 DEF WaitsFor, Behind
    <3> QED
      BY <1>1, <1>4, <3>2 DEF Held
  <2>3. Behind(t)'
    BY <2>2 DEF Behind
  <2>4. ASSUME Serving(t)' PROVE AllHeld'
    <3>1. IsGet(1, t)
      BY <1>2, <1>3, <2>4 DEF Serving, IsGet
    <3>2. ASSUME NEW j \in 1 .. Len(wq') PROVE Held(wq[j])'
      <4>1. j + 1 \in 1 .. Len(wq) /\ 1 < j + 1 /\ wq'[j] = wq[j + 1]
        BY <1>2, <1>4
      <4>2. Held(wq[j + 1])
        BY <1>5, <2>1, <3>1, <4>1 DEF WaitsFor, Behind
      <4> QED
        BY <1>1, <4>1, <4>2 DEF Held
    <3> QED
      BY <3>2 DEF AllHeld
  <2>5. q' = q /\ solved' = solved /\ (Finder => Finder')
    BY <1>1 DEF Finder
  <2> QED
    BY <1>6, <2>1, <2>3, <2>4, <2>5 DEF WaitsFor
<1>8. Past' /\ Fresh' /\ Kept'
  BY <1>0, <1>1, <1>3 DEF Past, Fresh, Kept, Finder
<1>9. RecentHeld'
  BY <1>0, <1>1, <1>6 DEF RecentHeld
<1> QED
  BY <1>7, <1>8, <1>9, SolvedPartsNext

\* Nothing moves but the workio thread.
LEMMA QueueStays ==
  ASSUME UNCHANGED <<wq, pc>>
  PROVE  (AllHeld => AllHeld') /\ (Finder <=> Finder') /\ \A t : Behind(t) => Behind(t)'
  BY DEF AllHeld, Held, Finder, Behind, IsGet

\* Work is fetched for a height that nobody has solved.
LEMMA FetchSolved ==
  ASSUME Typed, Solved, NEW v \in Versions, get_upstream_work(v) PROVE Solved'
<1>0. Past /\ (\A s \in Threads : pc[s] = "wait" => WaitsFor(s)) /\ Fresh /\ RecentHeld /\ Kept
  BY SolvedParts
<1>1. /\ wpc = "get" /\ wpc' = "reply" /\ work_heap'.height = tip
      /\ UNCHANGED <<tip, solved, wc, wq, q, g_work, recent, pc>>
  BY DEF get_upstream_work, nodeVars, minerVars
<1>2. (AllHeld => AllHeld') /\ (Finder <=> Finder') /\ \A t : Behind(t) => Behind(t)'
  BY <1>1, QueueStays
<1>3. ASSUME NEW t \in Threads, pc'[t] = "wait" PROVE WaitsFor(t)'
  <2>1. WaitsFor(t) /\ (Serving(t)' => Serving(t))
    BY <1>0, <1>1, <1>3 DEF Serving
  <2> QED
    BY <1>1, <1>2, <2>1 DEF WaitsFor
<1>4. Fresh'
  <2>1. tip \in Nat /\ \A h \in solved : h < tip
    BY <1>0 DEF Past, Typed, TypeOK
  <2> QED
    BY <1>1, <2>1 DEF Fresh
<1>5. Past' /\ RecentHeld' /\ Kept'
  BY <1>0, <1>1, <1>2 DEF Past, RecentHeld, Kept
<1> QED
  BY <1>3, <1>4, <1>5, SolvedPartsNext

LEMMA PushReplySolved == ASSUME Typed, Solved, PushReply PROVE Solved'
<1>0. Past /\ (\A s \in Threads : pc[s] = "wait" => WaitsFor(s)) /\ Fresh /\ RecentHeld /\ Kept
  BY SolvedParts
<1>1. wpc = "reply" /\ wpc' = "pop" /\ UNCHANGED <<tip, solved, wq, g_work, recent, pc>>
  BY DEF PushReply, nodeVars, minerVars
<1>2. (AllHeld => AllHeld') /\ (Finder <=> Finder') /\ \A t : Behind(t) => Behind(t)'
  BY <1>1, QueueStays
<1>3. ASSUME NEW t \in Threads, pc'[t] = "wait" PROVE WaitsFor(t)'
  <2>1. WaitsFor(t) /\ ~Serving(t)'
    BY <1>0, <1>1, <1>3 DEF Serving
  <2>2. ASSUME q'[t] # <<>> PROVE AllHeld' /\ (Head(q'[t]).height \in solved' => Finder')
    <3>1. CASE t = wc.thr /\ Head(q'[t]) = work_heap
      <4>1. Serving(t)
        BY <3>1, ReplyArrives
      <4>2. work_heap.height \notin solved
        BY <1>0, <1>1 DEF Fresh
      <4> QED
        BY <1>1, <1>2, <2>1, <3>1, <4>1, <4>2 DEF WaitsFor
    <3>2. CASE q[t] # <<>> /\ q'[t] = q[t]
      BY <1>1, <1>2, <2>1, <3>2 DEF WaitsFor
    <3> QED
      BY <2>2, <3>1, <3>2, ReplyArrives
  <2> QED
    BY <1>1, <1>2, <2>1, <2>2 DEF WaitsFor
<1>4. Past' /\ Fresh' /\ RecentHeld' /\ Kept'
  BY <1>0, <1>1, <1>2 DEF Past, Fresh, RecentHeld, Kept
<1> QED
  BY <1>3, <1>4, SolvedPartsNext

\* A block that the node takes has its finder wait wherever work for its height may
\* still be installed, or be taken for recent.
LEMMA SubmitSolved ==
  ASSUME Typed, Solved, SubmitOk \/ SubmitFails PROVE Solved'
<1>0. Past /\ (\A s \in Threads : pc[s] = "wait" => WaitsFor(s)) /\ Fresh /\ RecentHeld /\ Kept
  BY SolvedParts
<1>1. PICK arrives \in BOOLEAN : SendBlock(arrives)
  BY DEF SubmitOk, SubmitFails
<1>2. /\ wpc = "submit" /\ wc \in Commands /\ wc.cmd = "submit"
      /\ UNCHANGED <<wq, q, g_work, recent, pc>>
      /\ UNCHANGED <<tip, solved>> \/ (tip' = tip + 1 /\ solved' = solved \cup {tip})
  BY <1>1, NodeType DEF nodeVars
<1>3. wpc' # "reply" /\ wpc' # "get" /\ (wpc' = "submit" => wc'.thr = wc.thr)
  <2>1. CASE SubmitOk
    BY <2>1 DEF SubmitOk
  <2>2. CASE SubmitFails
    <3>1. (wpc' = "end" /\ wc' = NULL) \/ (wpc' = wpc /\ wc' = [wc EXCEPT !.data = Swapped(wc)])
      BY <2>2 DEF SubmitFails
    <3>2. [wc EXCEPT !.data = Swapped(wc)].thr = wc.thr
      BY <1>2 DEF Commands
    <3> QED
      BY <1>2, <3>1, <3>2
  <2> QED
    BY <2>1, <2>2
<1>4. (AllHeld => AllHeld') /\ (Finder <=> Finder') /\ \A t : Behind(t) => Behind(t)'
  BY <1>2, QueueStays
<1>5. Held(wc) => Finder /\ (wpc' = "submit" => Held(wc)')
  <2>1. wc.thr \in Threads
    BY <1>2, CommandParts
  <2> QED
    BY <1>2, <1>3, <2>1 DEF Held, Finder
<1>6. ASSUME NEW t \in Threads, pc'[t] = "wait" PROVE WaitsFor(t)'
  <2>1. WaitsFor(t) /\ ~Serving(t)'
    BY <1>0, <1>2, <1>3, <1>6 DEF Serving
  <2>2. q[t] # <<>> => AllHeld /\ Held(wc) /\ Finder
    BY <1>2, <1>5, <2>1 DEF WaitsFor
  <2> QED
    BY <1>2, <1>4, <1>5, <2>1, <2>2 DEF WaitsFor
<1>7. Past'
  <2>1. tip \in Nat /\ solved \subseteq Nat /\ \A h \in solved : h < tip
    BY <1>0 DEF Past, Typed, TypeOK
  <2>2. CASE tip' = tip + 1 /\ solved' = solved \cup {tip}
    BY <2>1, <2>2 DEF Past
  <2> QED
    BY <1>2, <2>1, <2>2 DEF Past
<1>8. recent => AllHeld /\ Held(wc) /\ Finder
  BY <1>0, <1>2, <1>5 DEF RecentHeld
<1>9. Fresh' /\ RecentHeld' /\ Kept'
  BY <1>2, <1>3, <1>4, <1>5, <1>8 DEF Fresh, RecentHeld, Kept
<1> QED
  BY <1>6, <1>7, <1>9, SolvedPartsNext

LEMMA StepSolved == Typed /\ Solved /\ [Next]_vars => Solved'
<1> SUFFICES ASSUME Typed, Solved, [Next]_vars PROVE Solved'
  OBVIOUS
<1>1. ASSUME NEW t \in Threads,
             \/ LockWork(t) \/ StillRecent(t) \/ GiveUp(t) \/ Leave(t) \/ TakeWork(t)
             \/ DontMine(t) \/ EndScan(t) \/ TellThreads(t)
      PROVE  Solved'
  <2>1. /\ UNCHANGED <<tip, solved, wq, q, work_heap, g_work, wpc, wc, recent>>
        /\ \E r \in MinerPC \ {"wait"} : pc' = [pc EXCEPT ![t] = r]
        /\ pc[t] # "found"
    BY <1>1 DEF LockWork, StillRecent, GiveUp, Leave, TakeWork, DontMine, EndScan, TellThreads, Goto,
       nodeVars, workioVars, MinerPC
  <2>2. FindersStay /\ \A s \in Threads : pc'[s] = "wait" => pc[s] = "wait"
    BY <2>1 DEF FindersStay, Typed, TypeOK
  <2> QED
    BY <2>1, <2>2, QuietStep
<1>2. ASSUME NEW t \in Threads, ForceGetWork(t) PROVE Solved'
  <2>0. Past /\ Fresh
    BY SolvedParts
  <2>1. /\ UNCHANGED <<tip, solved, work_heap, wpc>> /\ recent' = FALSE
        /\ pc' = [pc EXCEPT ![t] = "tell"] /\ ~Locked
    BY <1>2 DEF ForceGetWork, Goto, nodeVars, workioVars
  <2>2. \A s \in Threads : pc'[s] # "wait"
    BY <2>1 DEF Locked, Typed, TypeOK
  <2>3. Past' /\ Fresh' /\ RecentHeld' /\ Kept'
    BY <2>0, <2>1 DEF Past, Fresh, RecentHeld, Kept
  <2> QED
    BY <2>2, <2>3, SolvedPartsNext
<1>3. CASE NewBlock \/ Age \/ Terminated \/ UNCHANGED vars
  <2>1. /\ UNCHANGED <<solved, wq, q, work_heap, g_work, wpc, wc, pc>>
        /\ tip' \in {tip, tip + 1} /\ recent' \in {recent, FALSE}
    BY <1>3 DEF NewBlock, Age, Terminated, vars, nodeVars, workioVars, minerVars
  <2>2. recent' => recent
    BY <2>1
  <2> QED
    BY <2>1, <2>2, QuietStep DEF FindersStay
<1>4. CASE FetchFails \/ FallBack \/ CloseQueue \/ ExitProcess \/ WakeForNothing
  <2>1. UNCHANGED <<tip, solved, wq, q, work_heap, g_work, recent, pc>>
    BY <1>4 DEF FetchFails, Retry, FallBack, CloseQueue, ExitProcess, WakeForNothing, nodeVars,
       workioVars, minerVars
  <2>2. (wpc' = wpc /\ wc' = wc) \/ wpc' \in Idle
    <3>1. CASE FetchFails
      BY <3>1 DEF FetchFails, Retry, Idle
    <3>2. CASE FallBack \/ CloseQueue \/ ExitProcess \/ WakeForNothing
      BY <3>2 DEF FallBack, CloseQueue, ExitProcess, WakeForNothing, workioVars, Idle
    <3> QED
      BY <1>4, <3>1, <3>2
  <2> QED
    BY <2>1, <2>2, QuietStep DEF FindersStay
<1>5. CASE \/ PopCommand \/ PushReply \/ SubmitOk \/ SubmitFails
           \/ \E v \in Versions : get_upstream_work(v)
  BY <1>5, PopCommandSolved, PushReplySolved, SubmitSolved, FetchSolved
<1>6. ASSUME NEW t \in Threads, AskForWork(t) \/ submit_work(t) \/ ReceiveWork(t) PROVE Solved'
  BY <1>6, AskForWorkSolved, SubmitWorkSolved, ReceiveWorkSolved
<1> QED
  BY <1>1, <1>2, <1>3, <1>4, <1>5, <1>6 DEF Next, WorkioStep, Miner

\* A block of ours that the node has taken is not mined on again, although the block is
\* queued before g_work is made too old: its finder waits for the lock under which other
\* threads fetch, and all that they install meanwhile is made too old when it gets it.
THEOREM SolvedOnce == Spec => []SolvedNotKept
<1>1. Init => Solved
  <2> SUFFICES ASSUME Init PROVE Solved
    OBVIOUS
  <2>1. /\ solved = {} /\ wpc = "pop" /\ recent = FALSE /\ g_work = NULL
        /\ \A t \in Threads : pc[t] = "top"
    BY DEF Init
  <2> QED
    BY <2>1 DEF Solved, FinderWaits, SolvedNotKept
<1>2. Solved => SolvedNotKept
  BY DEF Solved
<1> QED
  BY <1>1, <1>2, StepSolved, TypedAlways, PTL DEF Spec

-----------------------------------------------------------------------------
(* No request is lost.                                                     *)

Queued(t) == \E i \in 1 .. Len(wq) : IsGet(i, t)
Pending(t) == Queued(t) \/ Serving(t) \/ q[t] # <<>>
Ended == wpc \in {"end", "dead", "exit"}

\* Whatever grows the queue keeps what is in it.
LEMMA QueueGrows ==
  ASSUME Typed, NEW c \in Commands, wq' = Append(wq, c)
  PROVE  /\ \A t \in Threads : Queued(t) => Queued(t)'
         /\ \A t \in Threads : c.cmd = "get" /\ c.thr = t => Queued(t)'
<1>1. /\ Len(wq) \in Nat /\ Len(wq') = Len(wq) + 1
      /\ \A i \in 1 .. Len(wq) : wq'[i] = wq[i]
      /\ wq'[Len(wq) + 1] = c
  BY Appended DEF Typed, TypeOK
<1>2. ASSUME NEW t \in Threads, Queued(t) PROVE Queued(t)'
  <2>1. PICK i \in 1 .. Len(wq) : wq[i].cmd = "get" /\ wq[i].thr = t
    BY <1>2 DEF Queued, IsGet
  <2>2. i \in 1 .. Len(wq') /\ wq'[i].cmd = "get" /\ wq'[i].thr = t
    BY <1>1, <2>1
  <2> QED
    BY <2>2 DEF Queued, IsGet
<1>3. ASSUME NEW t \in Threads, c.cmd = "get", c.thr = t PROVE Queued(t)'
  <2>1. Len(wq) + 1 \in 1 .. Len(wq') /\ wq'[Len(wq) + 1].cmd = "get" /\ wq'[Len(wq) + 1].thr = t
    BY <1>1, <1>3
  <2> QED
    BY <2>1 DEF Queued, IsGet
<1> QED
  BY <1>2, <1>3

\* The command that leaves the queue is the one that is served.
LEMMA PopServes ==
  ASSUME Typed, PopCommand, NEW t \in Threads, Pending(t)
  PROVE  Pending(t)'
<1>1. /\ wpc = "pop" /\ wq # <<>> /\ wc' = Head(wq) /\ wq' = Tail(wq) /\ wpc' = Head(wq).cmd
      /\ q' = q /\ wq \in Seq(Commands)
  BY DEF PopCommand, Typed, TypeOK
<1>2. /\ Len(wq) \in Nat \ {0} /\ Len(wq') = Len(wq) - 1 /\ wc' = wq[1]
      /\ \A i \in 1 .. Len(wq) - 1 : wq'[i] = wq[i + 1]
  BY <1>1, Popped
<1>3. ~Serving(t)
  BY <1>1 DEF Serving
<1>4. CASE Queued(t)
  <2>1. PICK i \in 1 .. Len(wq) : wq[i].cmd = "get" /\ wq[i].thr = t
    BY <1>4 DEF Queued, IsGet
  <2>2. CASE i = 1
    <3>1. wpc' = "get" /\ wc'.thr = t
      BY <1>1, <1>2, <2>1, <2>2
    <3> QED
      BY <3>1 DEF Pending, Serving
  <2>3. CASE i # 1
    <3>1. i - 1 \in 1 .. Len(wq) - 1 /\ i - 1 \in 1 .. Len(wq') /\ i - 1 + 1 = i
      BY <1>2, <2>1, <2>3
    <3>2. wq'[i - 1].cmd = "get" /\ wq'[i - 1].thr = t
      BY <1>2, <2>1, <3>1
    <3> QED
      BY <3>1, <3>2 DEF Pending, Queued, IsGet
  <2> QED
    BY <2>2, <2>3
<1> QED
  BY <1>1, <1>3, <1>4 DEF Pending

\* A step that leaves the queues and the command alone.
LEMMA PendingKept ==
  ASSUME UNCHANGED <<wq, q>>, NEW t \in Threads, Pending(t), Serving(t) => Serving(t)'
  PROVE  Pending(t)'
  BY DEF Pending, Queued, IsGet

LEMMA WorkioKeepsRequests ==
  ASSUME Typed, RequestNotLost, WorkioStep \/ WakeForNothing
  PROVE  RequestNotLost'
<1>0. pc' = pc
  BY DEF WorkioStep, WakeForNothing, PopCommand, FetchFails, FallBack, get_upstream_work, PushReply,
     SubmitOk, SubmitFails, SendBlock, CloseQueue, ExitProcess, minerVars
<1>1. SUFFICES ASSUME NEW t \in Threads, pc[t] = "wait", ~Ended'
               PROVE  Pending(t)'
  BY <1>0 DEF RequestNotLost, Pending, Queued, Ended
<1>2. ~Ended
  BY <1>1 DEF WorkioStep, WakeForNothing, PopCommand, FetchFails, FallBack, get_upstream_work, PushReply,
     SubmitOk, SubmitFails, SendBlock, CloseQueue, ExitProcess, Ended, workioVars
<1>3. Pending(t)
  BY <1>1, <1>2 DEF RequestNotLost, Pending, Queued, Ended
<1>4. CASE PopCommand
  BY <1>3, <1>4, PopServes
<1>5. CASE FetchFails \/ FallBack
  <2>1. UNCHANGED <<wq, q, wc, wpc>>
    BY <1>1, <1>5 DEF FetchFails, Retry, FallBack, Ended, workioVars
  <2> QED
    BY <1>3, <2>1, PendingKept DEF Serving
<1>6. CASE \E v \in Versions : get_upstream_work(v)
  <2>1. UNCHANGED <<wq, q, wc>> /\ wpc' = "reply"
    BY <1>6 DEF get_upstream_work
  <2> QED
    BY <1>3, <2>1, PendingKept DEF Serving
<1>7. CASE PushReply
  <2>1. /\ q' = IF ThreadFrozen(wc.thr) THEN q ELSE [q EXCEPT ![wc.thr] = Append(q[wc.thr], work_heap)]
        /\ wq' = wq
    BY <1>7 DEF PushReply
  <2>2. wc.thr \in Threads /\ q[wc.thr] \in Seq(Works) /\ work_heap \in Works /\ q \in [Threads -> Seq(Works)]
    BY <1>7, ReplyArrives DEF Typed, TypeOK
  <2>3. Append(q[wc.thr], work_heap) # <<>>
    <3>1. /\ Append(q[wc.thr], work_heap) \in Seq(Works) /\ Len(q[wc.thr]) \in Nat
          /\ Len(Append(q[wc.thr], work_heap)) = Len(q[wc.thr]) + 1
      BY <2>2, Appended
    <3> QED
      BY <3>1, EmptyOrNot
  <2>4. CASE t = wc.thr
    <3>1. ~ThreadFrozen(wc.thr)
      BY <1>1, <2>4 DEF ThreadFrozen
    <3>2. q'[t] = Append(q[wc.thr], work_heap)
      BY <2>1, <2>2, <2>4, <3>1
    <3> QED
      BY <2>3, <3>2 DEF Pending
  <2>5. CASE t # wc.thr
    <3>1. ~Serving(t) /\ q'[t] = q[t]
      BY <2>1, <2>2, <2>5 DEF Serving
    <3> QED
      BY <1>3, <2>1, <3>1 DEF Pending, Queued, IsGet
  <2> QED
    BY <2>4, <2>5
<1>8. CASE SubmitOk \/ SubmitFails
  <2>1. UNCHANGED <<wq, q>> /\ wpc = "submit"
    BY <1>8 DEF SubmitOk, SubmitFails, SendBlock
  <2> QED
    BY <1>3, <2>1, PendingKept DEF Serving
<1>9. CASE CloseQueue \/ ExitProcess \/ WakeForNothing
  BY <1>1, <1>9 DEF CloseQueue, ExitProcess, WakeForNothing, Ended
<1> QED
  BY <1>4, <1>5, <1>6, <1>7, <1>8, <1>9 DEF WorkioStep

LEMMA MinerKeepsRequests ==
  ASSUME Typed, RequestNotLost, NEW s \in Threads, Miner(s) \/ GiveUp(s)
  PROVE  RequestNotLost'
<1>0. UNCHANGED workioVars /\ wpc' = wpc /\ wc' = wc
  BY DEF Miner, LockWork, StillRecent, AskForWork, ReceiveWork, GiveUp, Leave, TakeWork, DontMine,
     EndScan, submit_work, ForceGetWork, TellThreads, workioVars
<1>1. SUFFICES ASSUME NEW t \in Threads, pc'[t] = "wait", ~Ended
               PROVE  Pending(t)'
  BY <1>0 DEF RequestNotLost, Pending, Queued, Ended
<1>2. pc[t] = "wait" => Pending(t)
  BY <1>1 DEF RequestNotLost, Pending, Queued, Ended
<1>3. Serving(t) => Serving(t)'
  BY <1>0 DEF Serving
<1>4. CASE AskForWork(s)
  <2>1. /\ wq' = Append(wq, [cmd |-> "get", thr |-> s]) /\ pc' = [pc EXCEPT ![s] = "wait"] /\ q' = q
    BY <1>1, <1>4 DEF AskForWork, Goto, Frozen, Ended
  <2>2. \A u \in Threads : (Queued(u) => Queued(u)') /\ (u = s => Queued(u)')
    BY <2>1, GetCommand, QueueGrows
  <2>3. t # s => pc[t] = "wait"
    BY <1>1, <2>1 DEF Typed, TypeOK
  <2> QED
    BY <1>2, <1>3, <2>1, <2>2, <2>3 DEF Pending
<1>5. CASE submit_work(s)
  <2>1. /\ wq' = Append(wq, [cmd |-> "submit", thr |-> s, work |-> work[s], data |-> "host"])
        /\ pc[s] = "hash" /\ pc' = [pc EXCEPT ![s] = "found"] /\ q' = q
    BY <1>5 DEF submit_work, Goto
  <2>2. work[s] \in Works
    BY <2>1 DEF Typed, TypeOK, HasWork
  <2>3. Queued(t) => Queued(t)'
    BY <2>1, <2>2, SubmitCommand, QueueGrows
  <2>4. pc[t] = "wait"
    BY <1>1, <2>1 DEF Typed, TypeOK
  <2> QED
    BY <1>2, <1>3, <2>1, <2>3, <2>4 DEF Pending
<1>6. CASE ReceiveWork(s)
  <2>1. /\ pc' = [pc EXCEPT ![s] = "take"] /\ q' = [q EXCEPT ![s] = Tail(q[s])] /\ wq' = wq
    BY <1>6 DEF ReceiveWork, Goto
  <2>2. t # s /\ pc[t] = "wait" /\ q'[t] = q[t]
    BY <1>1, <2>1 DEF Typed, TypeOK
  <2> QED
    BY <1>2, <1>3, <2>1, <2>2 DEF Pending, Queued, IsGet
<1>7. CASE \/ LockWork(s) \/ StillRecent(s) \/ GiveUp(s) \/ Leave(s) \/ TakeWork(s)
           \/ DontMine(s) \/ EndScan(s) \/ ForceGetWork(s) \/ TellThreads(s)
  <2>1. UNCHANGED <<wq, q>> /\ \E r \in MinerPC \ {"wait"} : pc' = [pc EXCEPT ![s] = r]
    BY <1>7 DEF LockWork, StillRecent, GiveUp, Leave, TakeWork, DontMine, EndScan, ForceGetWork,
       TellThreads, Goto, MinerPC
  <2>2. pc[t] = "wait"
    BY <1>1, <2>1 DEF Typed, TypeOK
  <2> QED
    BY <1>2, <1>3, <2>1, <2>2, PendingKept
<1> QED
  BY <1>4, <1>5, <1>6, <1>7 DEF Miner

(***************************************************************************)
(* While the workio thread lives, a thread that waits for work with the    *)
(* write lock of g_work has its request queued, being served or answered:  *)
(* any number of threads, failed calls, fallbacks and threads that have    *)
(* left.  With the fairness of FairSpec this is why the wait ends.         *)
(***************************************************************************)
THEOREM RequestsAreKept == Spec => []RequestNotLost
<1>1. Init => RequestNotLost
  BY DEF Init, RequestNotLost
<1>2. Typed /\ RequestNotLost /\ [Next]_vars => RequestNotLost'
  <2> SUFFICES ASSUME Typed, RequestNotLost, [Next]_vars PROVE RequestNotLost'
    OBVIOUS
  <2>1. CASE NewBlock \/ Age \/ Terminated \/ UNCHANGED vars
    <3>1. UNCHANGED <<wq, q, wc, wpc, pc>>
      BY <2>1 DEF NewBlock, Age, Terminated, vars, workioVars, minerVars
    <3> QED
      BY <3>1 DEF RequestNotLost, IsGet, Serving
  <2> QED
    BY <2>1, WorkioKeepsRequests, MinerKeepsRequests DEF Next
<1> QED
  BY <1>1, <1>2, TypedAlways, PTL DEF Spec
=============================================================================
