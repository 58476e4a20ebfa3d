--------------------------- MODULE SubscribeProofs ---------------------------
(***************************************************************************)
(* Proofs about subscribe_table: the finalized time a worker records, and *)
(* worker 0's on_frontier and on_end, never run ahead of the callbacks of *)
(* any worker, for any set of workers and any number of times.            *)
(***************************************************************************)
EXTENDS Subscribe, TLAPS

\* Every frontier a second inspect has been told of is passed by every
\* worker's first inspect.
SeenBehindDone == \A w, v \in Workers : seen[w] <= done[v]

\* A worker records as finalized only a frontier its inspect_core saw.
FinalizedBehindSeen == \A w \in Workers : finalized[w] <= seen[w]

\* Worker 0 passes to on_frontier only frontiers it saw, and runs on_end
\* only once it saw the empty frontier.
LeaderBehindSeen ==
    /\ \A f \in notified : f <= seen[Leader]
    /\ ended => seen[Leader] = Empty

SInv == TypeOK /\ SeenBehindDone /\ FinalizedBehindSeen /\ LeaderBehindSeen
-----------------------------------------------------------------------------
USE SubscribeAssumption DEF SubscribeAssumption, Times, Empty

LEMMA InitSInv == Init => SInv
<1> SUFFICES ASSUME Init PROVE SInv
  OBVIOUS
<1>1. TypeOK
  <2>1. 0 \in Times
    OBVIOUS
  <2>2. done \in [Workers -> Times] /\ seen \in [Workers -> Times]
        /\ finalized \in [Workers -> Times]
    BY <2>1 DEF Init
  <2>3. failed \in [Workers -> BOOLEAN]
    BY DEF Init
  <2>4. QED
    BY <2>2, <2>3 DEF Init, TypeOK
<1>2. SeenBehindDone /\ FinalizedBehindSeen
  BY DEF Init, SeenBehindDone, FinalizedBehindSeen
<1>3. LeaderBehindSeen
  BY DEF Init, LeaderBehindSeen
<1>4. QED
  BY <1>1, <1>2, <1>3 DEF SInv

\* A batch only moves a worker's first inspect forward.
LEMMA BatchSInv ==
    ASSUME SInv, NEW w \in Workers, Batch(w) PROVE SInv'
<1>1. done' = [done EXCEPT ![w] = @ + 1] /\ done[w] < MaxTime
      /\ UNCHANGED <<seen, failed, notified, ended, finalized>>
  BY DEF Batch
<1>2. TypeOK'
  BY <1>1 DEF SInv, TypeOK
<1>3. \A v \in Workers : done'[v] >= done[v]
  BY <1>1 DEF SInv, TypeOK
<1>4. SeenBehindDone'
  BY <1>1, <1>3 DEF SInv, TypeOK, SeenBehindDone
<1>5. QED
  BY <1>1, <1>2, <1>4 DEF SInv, FinalizedBehindSeen, LeaderBehindSeen

\* A failing callback only marks the worker failed.
LEMMA CallbackErrorSInv ==
    ASSUME SInv, NEW w \in Workers, CallbackError(w) PROVE SInv'
  BY DEF CallbackError, SInv, TypeOK, SeenBehindDone, FinalizedBehindSeen, LeaderBehindSeen

\* A notification delivers a frontier f that every worker has passed, and
\* the finalized time, on_frontier and on_end all take that f.
LEMMA NotifySInv ==
    ASSUME SInv, NEW w \in Workers, Notify(w) PROVE SInv'
<1>1. PICK f \in Times :
        /\ seen[w] < f /\ Passed(w, f)
        /\ seen' = [seen EXCEPT ![w] = f]
        /\ notified' = IF w = Leader /\ f # Empty THEN notified \cup {f} ELSE notified
        /\ ended' = (ended \/ (w = Leader /\ f = Empty))
        /\ finalized' = IF HasStorage THEN [finalized EXCEPT ![w] = f] ELSE finalized
  BY DEF Notify
<1>2. UNCHANGED <<done, failed>>
  BY DEF Notify
<1>3. TypeOK'
  BY <1>1, <1>2 DEF SInv, TypeOK
<1>4. \A v \in Workers : seen'[v] >= seen[v] /\ seen'[v] \in Nat
  BY <1>1 DEF SInv, TypeOK
<1>5. SeenBehindDone'
  BY <1>1, <1>2 DEF SInv, TypeOK, SeenBehindDone, Passed
<1>6. FinalizedBehindSeen'
  BY <1>1, <1>4 DEF SInv, TypeOK, FinalizedBehindSeen
<1>7. \A g \in notified' : g <= seen'[Leader]
  BY <1>1, <1>4 DEF SInv, TypeOK, LeaderBehindSeen
<1>8. ended' => seen'[Leader] = Empty
  <2>1. CASE ended
    <3>1. seen[Leader] = Empty
      BY <2>1 DEF SInv, LeaderBehindSeen
    <3>2. w # Leader
      BY <1>1, <3>1
    <3>3. QED
      BY <1>1, <3>1, <3>2
  <2>2. CASE ~ended
    BY <1>1, <2>2 DEF SInv, TypeOK
  <2>3. QED
    BY <2>1, <2>2
<1>9. QED
  BY <1>3, <1>5, <1>6, <1>7, <1>8 DEF SInv, LeaderBehindSeen

LEMMA NextSInv == SInv /\ [Next]_vars => SInv'
<1> SUFFICES ASSUME SInv, [Next]_vars PROVE SInv'
  OBVIOUS
<1>1. CASE UNCHANGED vars
  BY <1>1 DEF vars, SInv, TypeOK, SeenBehindDone, FinalizedBehindSeen, LeaderBehindSeen
<1>2. QED
  BY <1>1, BatchSInv, CallbackErrorSInv, NotifySInv DEF Next

\* No worker's storage records a time as finalized before every worker has
\* run on_data and on_time_end for all earlier times, so a restart that
\* skips finalized times loses no callback.
THEOREM FinalizedAfterCallbacksSafe == Spec => []FinalizedAfterCallbacks
<1>1. SInv => FinalizedAfterCallbacks
  BY DEF SInv, TypeOK, SeenBehindDone, FinalizedBehindSeen, FinalizedAfterCallbacks
<1>2. QED
  BY <1>1, InitSInv, NextSInv, PTL DEF Spec

\* Worker 0's on_frontier(f) runs only after every worker ran the callbacks
\* of the times before f, and on_end only after every worker ran them all.
THEOREM LeaderAfterWorkersSafe == Spec => []LeaderAfterWorkers
<1>1. SInv => LeaderAfterWorkers
  BY DEF SInv, TypeOK, SeenBehindDone, LeaderBehindSeen, LeaderAfterWorkers
<1>2. QED
  BY <1>1, InitSInv, NextSInv, PTL DEF Spec

\* The subscribe callbacks keep every variable of its type: each worker's
\* done, seen and finalized times stay within the bounded timestamps.
THEOREM SubscribeTypeCorrect == Spec => []TypeOK
<1>1. SInv => TypeOK
    BY DEF SInv
<1>. QED
    BY <1>1, InitSInv, NextSInv, PTL DEF Spec

=============================================================================
