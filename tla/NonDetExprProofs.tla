-------------------------- MODULE NonDetExprProofs --------------------------
(***************************************************************************)
(* Proofs about the result cache of expression_table_non_deterministic:    *)
(* the output stays the image of the input table and no assertion or      *)
(* ExpectedDeletion fires, for any keys, results and number of restarts.  *)
(***************************************************************************)
EXTENDS NonDetExpr, TLAPS

\* The output o holds, for every key of P, exactly the result f[k] once.
ImageOf(P, o, f) == \A k \in Keys, v \in Values : o[k][v] = IF k \in P /\ v = f[k] THEN 1 ELSE 0

\* Outside a replay, the cache holds every present key's emitted result;
\* a general expression removes a key's entry when the key is deleted, an
\* append-only one keeps it (and reuses it if the key comes back).
CacheMatchesOutput ==
    /\ \A k \in present : cache[k] \in Values
    /\ ImageOf(present, out, cache)
    /\ ~appendOnly => \A k \in Keys \ present : cache[k] = NoValue

\* Right after a restart, the cache is empty and the output is the image
\* of the input under some results, which the Old entries will bring back.
EmptyBeforeReplay ==
    /\ cache = [k \in Keys |-> NoValue]
    /\ \E f \in [Keys -> Values] : ImageOf(present, out, f)

NInv ==
    /\ TypeOK
    /\ ~panicked
    /\ \E f \in [Keys -> Values] : ImageOf(snapPresent, snapOut, f)
    /\ IF replayPending THEN EmptyBeforeReplay ELSE CacheMatchesOutput
-----------------------------------------------------------------------------
USE NonDetExprAssumption DEF Multiset, EmptyOut

\* Emit adds d to the multiplicity of val[k] for the keys of S, and keeps
\* a multiset a multiset.
LEMMA EmitAt ==
    ASSUME NEW o \in Multiset, NEW S, NEW val, NEW d \in Int
    PROVE  /\ Emit(o, S, val, d) \in Multiset
           /\ \A k \in Keys, v \in Values :
                 Emit(o, S, val, d)[k][v] = o[k][v] + (IF k \in S /\ val[k] = v THEN d ELSE 0)
  BY DEF Emit

\* An image of P under a function that gives every key of P a result
\* is an image under some total function into Values.
LEMMA ImageWitness ==
    ASSUME NEW P \in SUBSET Keys, NEW o, NEW g, ImageOf(P, o, g),
           \A k \in P : g[k] \in Values
    PROVE  \E f \in [Keys -> Values] : ImageOf(P, o, f)
<1> DEFINE f == [k \in Keys |-> IF k \in P THEN g[k] ELSE CHOOSE v \in Values : TRUE]
<1>1. f \in [Keys -> Values]
  OBVIOUS
<1>2. ImageOf(P, o, f)
  BY DEF ImageOf
<1>3. QED
  BY <1>1, <1>2

LEMMA InitNInv == Init => NInv
<1> SUFFICES ASSUME Init PROVE NInv
  OBVIOUS
<1>1. \E f \in [Keys -> Values] : ImageOf({}, EmptyOut, f)
  <2>1. ImageOf({}, EmptyOut, [k \in Keys |-> CHOOSE v \in Values : TRUE])
    BY DEF ImageOf
  <2>2. QED
    BY <2>1
<1>2. TypeOK
  <2>1. EmptyOut \in Multiset
    OBVIOUS
  <2>2. cache \in [Keys -> Values \cup {NoValue}]
    BY DEF Init
  <2>3. restarts \in 0..MaxRestarts
    BY DEF Init
  <2>4. QED
    BY <2>1, <2>2, <2>3 DEF Init, TypeOK
<1>3. CacheMatchesOutput
  BY DEF Init, CacheMatchesOutput, ImageOf
<1>4. QED
  BY <1>1, <1>2, <1>3 DEF Init, NInv

\* A snapshot is taken outside a replay, from an output that is the image
\* of the present keys under the cache.
LEMMA SaveSnapshotNInv == NInv /\ SaveSnapshot /\ UNCHANGED appendOnly => NInv'
<1> SUFFICES ASSUME NInv, SaveSnapshot, UNCHANGED appendOnly PROVE NInv'
  OBVIOUS
<1>1. ~replayPending /\ CacheMatchesOutput /\ TypeOK
  BY DEF SaveSnapshot, NInv
<1>2. \E f \in [Keys -> Values] : ImageOf(present, out, f)
  BY <1>1, ImageWitness DEF CacheMatchesOutput, TypeOK
<1>3. UNCHANGED <<present, cache, out, replayPending, panicked, restarts>>
  BY DEF SaveSnapshot
<1>4. TypeOK'
  BY <1>1, <1>3 DEF SaveSnapshot, TypeOK
<1>5. CacheMatchesOutput'
  BY <1>1, <1>3 DEF CacheMatchesOutput, ImageOf
<1>6. \E f \in [Keys -> Values] : ImageOf(snapPresent', snapOut', f)
  BY <1>2 DEF SaveSnapshot
<1>7. QED
  BY <1>1, <1>3, <1>4, <1>5, <1>6 DEF NInv

\* A restart takes input and output from the same snapshot and empties the
\* cache.
LEMMA RestartNInv == NInv /\ Restart /\ UNCHANGED appendOnly => NInv'
<1> SUFFICES ASSUME NInv, Restart, UNCHANGED appendOnly PROVE NInv'
  OBVIOUS
<1>1. TypeOK'
  <2>1. restarts \in 0..MaxRestarts /\ restarts < MaxRestarts /\ restarts' = restarts + 1
    BY DEF Restart, NInv, TypeOK
  <2>2. restarts' \in 0..MaxRestarts
    BY <2>1
  <2>3. /\ present' \subseteq Keys /\ out' \in Multiset
        /\ cache' \in [Keys -> Values \cup {NoValue}]
        /\ UNCHANGED <<snapPresent, snapOut>> /\ replayPending' = TRUE /\ panicked' = FALSE
    BY DEF Restart, NInv, TypeOK
  <2>4. QED
    BY <2>2, <2>3 DEF NInv, TypeOK
<1>2. EmptyBeforeReplay'
  BY DEF Restart, NInv, EmptyBeforeReplay
<1>3. QED
  BY <1>1, <1>2 DEF Restart, NInv

\* The Old entries are the image of the restored input: one result per
\* present key, so the assertion holds and the cache gets the emitted
\* results back.
LEMMA ReplayOldNInv == NInv /\ ReplayOld /\ UNCHANGED appendOnly => NInv'
<1> SUFFICES ASSUME NInv, ReplayOld, UNCHANGED appendOnly PROVE NInv'
  OBVIOUS
<1>1. /\ replayPending /\ replayPending' = FALSE /\ TypeOK
      /\ UNCHANGED <<present, out, snapPresent, snapOut, restarts>>
  BY DEF ReplayOld, NInv
<1>2. PICK f \in [Keys -> Values] : ImageOf(present, out, f)
  BY <1>1 DEF NInv, EmptyBeforeReplay
<1>3. ~TwoOld
  BY <1>1, <1>2 DEF TwoOld, ImageOf, TypeOK
<1>4. OldKeys = present
  BY <1>1, <1>2 DEF OldKeys, ImageOf, TypeOK
<1>5. \A k \in present : (CHOOSE v \in Values : out[k][v] # 0) = f[k]
  BY <1>1, <1>2 DEF ImageOf, TypeOK
<1>6. cache = [k \in Keys |-> NoValue]
  BY <1>1 DEF NInv, EmptyBeforeReplay
<1>7. /\ cache' = [k \in Keys |-> IF k \in present THEN f[k] ELSE NoValue]
      /\ panicked' = panicked
  BY <1>3, <1>4, <1>5, <1>6 DEF ReplayOld
<1>8. TypeOK'
  BY <1>1, <1>7 DEF TypeOK
<1>9. CacheMatchesOutput'
  <2>1. \A k \in present' : cache'[k] \in Values
    BY <1>1, <1>2, <1>7 DEF TypeOK
  <2>2. ImageOf(present', out', cache')
    <3> SUFFICES ASSUME NEW k \in Keys, NEW v \in Values
                 PROVE  out'[k][v] = IF k \in present' /\ v = cache'[k] THEN 1 ELSE 0
      BY DEF ImageOf
    <3>1. out[k][v] = IF k \in present /\ v = f[k] THEN 1 ELSE 0
      BY <1>2 DEF ImageOf
    <3>2. QED
      BY <1>1, <1>7, <3>1
  <2>3. ~appendOnly' => \A k \in Keys \ present' : cache'[k] = NoValue
    BY <1>1, <1>7
  <2>4. QED
    BY <2>1, <2>2, <2>3 DEF CacheMatchesOutput
<1>10. QED
  BY <1>1, <1>7, <1>8, <1>9 DEF NInv

\* A batch of a table (deletions of present keys, insertions of absent or
\* deleted ones) finds every deleted key cached and, for a general
\* expression, no inserted key cached: neither ExpectedDeletion nor the
\* insertion assertion fires, and the output moves with the input.
LEMMA EvaluateBatchNInv == NInv /\ EvaluateBatch /\ UNCHANGED appendOnly => NInv'
<1> SUFFICES ASSUME NInv, EvaluateBatch, UNCHANGED appendOnly PROVE NInv'
  OBVIOUS
<1>1. /\ ~replayPending /\ TypeOK /\ CacheMatchesOutput
      /\ UNCHANGED <<snapPresent, snapOut, replayPending, restarts>>
      /\ \E f \in [Keys -> Values] : ImageOf(snapPresent, snapOut, f)
  BY DEF EvaluateBatch, NInv
<1>2. PICK del \in SUBSET present, ins \in SUBSET Keys,
           fd \in [Keys -> Values], fi \in [Keys -> Values] :
         Evaluate(del, ins, fd, fi)
  BY DEF EvaluateBatch
<1> DEFINE c1 == CacheAfterDel(del)
           hitIns == HitIns(del, ins)
           delVal == [k \in Keys |-> IF k \in HitDel(del) THEN cache[k] ELSE fd[k]]
           insVal == [k \in Keys |-> IF k \in hitIns THEN c1[k] ELSE fi[k]]
<1>3. present \subseteq Keys /\ cache \in [Keys -> Values \cup {NoValue}] /\ out \in Multiset
  BY <1>1 DEF TypeOK
<1>4. HitDel(del) = del
  BY <1>1 DEF HitDel, CacheMatchesOutput, NonDetExprAssumption
<1>5. c1 = [k \in Keys |-> IF ~appendOnly /\ k \in del THEN NoValue ELSE cache[k]]
  BY <1>3, <1>4 DEF CacheAfterDel
<1>6. ~appendOnly => hitIns = {}
  BY <1>1, <1>2, <1>3, <1>5 DEF Evaluate, HitIns, CacheMatchesOutput
<1>7. ~DoubleInsert(del, ins)
  BY <1>4 DEF DoubleInsert
<1>8. /\ cache' = [k \in Keys |-> IF k \in ins \ hitIns THEN fi[k] ELSE c1[k]]
      /\ out' = Emit(Emit(out, del, delVal, -1), ins, insVal, 1)
      /\ present' = (present \ del) \cup ins
      /\ panicked' = panicked
  BY <1>2, <1>4, <1>6, <1>7 DEF Evaluate
<1>9. \A k \in ins : cache'[k] = insVal[k] /\ insVal[k] \in Values
  BY <1>3, <1>5, <1>8 DEF HitIns
<1>10. \A k \in Keys \ ins : cache'[k] = c1[k]
  BY <1>8
<1>11. TypeOK'
  <2>1. Emit(out, del, delVal, -1) \in Multiset
    BY <1>3, EmitAt
  <2>2. Emit(Emit(out, del, delVal, -1), ins, insVal, 1) \in Multiset
    BY <2>1 DEF Emit
  <2>5. out' \in Multiset
    BY <1>8, <2>2
  <2>3. cache' \in [Keys -> Values \cup {NoValue}]
    BY <1>3, <1>5, <1>8
  <2>4. QED
    BY <1>1, <1>3, <1>8, <2>5, <2>3 DEF TypeOK, NInv
<1>12. ImageOf(present', out', cache')
  <2> SUFFICES ASSUME NEW k \in Keys, NEW v \in Values
               PROVE  out'[k][v] = IF k \in present' /\ v = cache'[k] THEN 1 ELSE 0
    BY DEF ImageOf
  <2>1. out'[k][v] = out[k][v] - (IF k \in del /\ delVal[k] = v THEN 1 ELSE 0)
                               + (IF k \in ins /\ insVal[k] = v THEN 1 ELSE 0)
    <3>1. Emit(out, del, delVal, -1) \in Multiset
      BY <1>3, EmitAt
    <3>2. Emit(out, del, delVal, -1)[k][v] = out[k][v] + (IF k \in del /\ delVal[k] = v THEN -1 ELSE 0)
      BY <1>3, EmitAt
    <3>3. out'[k][v] = Emit(out, del, delVal, -1)[k][v] + (IF k \in ins /\ insVal[k] = v THEN 1 ELSE 0)
      BY <1>8, <3>1, EmitAt
    <3>4. out[k][v] \in Int
      BY <1>3
    <3>5. QED
      BY <3>2, <3>3, <3>4
  <2>2. out[k][v] = IF k \in present /\ v = cache[k] THEN 1 ELSE 0
    BY <1>1 DEF CacheMatchesOutput, ImageOf
  <2>3. k \in del => delVal[k] = cache[k]
    BY <1>4
  <2>4. CASE k \in ins
    BY <1>2, <1>8, <1>9, <2>1, <2>2, <2>3, <2>4 DEF Evaluate
  <2>5. CASE k \notin ins
    <3>1. cache'[k] = c1[k]
      BY <1>10, <2>5
    <3>2. k \notin del => c1[k] = cache[k]
      BY <1>5
    <3>3. QED
      BY <1>8, <2>1, <2>2, <2>3, <2>5, <3>1, <3>2
  <2>6. QED
    BY <2>4, <2>5
<1>13. CacheMatchesOutput'
  <2>1. \A k \in present' : cache'[k] \in Values
    <3> SUFFICES ASSUME NEW k \in present' PROVE cache'[k] \in Values
      OBVIOUS
    <3>1. CASE k \in ins
      BY <1>9, <3>1
    <3>2. CASE k \notin ins
      <4>1. k \in present \ del
        BY <1>8, <3>2
      <4>2. QED
        BY <1>1, <1>3, <1>5, <1>10, <3>2, <4>1 DEF CacheMatchesOutput
    <3>3. QED
      BY <3>1, <3>2
  <2>2. ~appendOnly' => \A k \in Keys \ present' : cache'[k] = NoValue
    <3> SUFFICES ASSUME ~appendOnly, NEW k \in Keys \ present' PROVE cache'[k] = NoValue
      OBVIOUS
    <3>1. k \notin ins /\ (k \in del \/ k \notin present)
      BY <1>8
    <3>2. QED
      BY <1>1, <1>3, <1>5, <1>10, <3>1 DEF CacheMatchesOutput
  <2>3. QED
    BY <1>12, <2>1, <2>2 DEF CacheMatchesOutput
<1>14. QED
  BY <1>1, <1>8, <1>11, <1>13 DEF NInv

LEMMA NextNInv == NInv /\ [Next]_vars => NInv'
<1> SUFFICES ASSUME NInv, [Next]_vars PROVE NInv'
  OBVIOUS
<1>1. CASE Next
  <2>1. UNCHANGED appendOnly
    BY <1>1 DEF Next
  <2>2. QED
    BY <1>1, <2>1, EvaluateBatchNInv, SaveSnapshotNInv, RestartNInv, ReplayOldNInv DEF Next
<1>2. CASE UNCHANGED vars
  BY <1>2 DEF vars, NInv, TypeOK, CacheMatchesOutput, EmptyBeforeReplay, ImageOf
<1>3. QED
  BY <1>1, <1>2

\* NInv yields both properties the nondet_expr run checks.
LEMMA NInvSafe == NInv => OutputMatchesInput /\ NeverPanics
<1> SUFFICES ASSUME NInv PROVE OutputMatchesInput /\ NeverPanics
  OBVIOUS
<1>1. NeverPanics
  BY DEF NInv, NeverPanics
<1>2. CASE replayPending
  <2>1. PICK f \in [Keys -> Values] : ImageOf(present, out, f)
    BY <1>2 DEF NInv, EmptyBeforeReplay
  <2>2. \A k \in present : f[k] \in Values
    BY DEF NInv, TypeOK
  <2>3. QED
    BY <1>1, <2>1, <2>2 DEF ImageOf, OutputMatchesInput
<1>3. CASE ~replayPending
  <2>1. CacheMatchesOutput
    BY <1>3 DEF NInv
  <2>2. ImageOf(present, out, cache) /\ \A k \in present : cache[k] \in Values
    BY <2>1 DEF CacheMatchesOutput
  <2>3. QED
    BY <1>1, <2>2 DEF ImageOf, OutputMatchesInput
<1>4. QED
  BY <1>1, <1>2, <1>3

\* The output of a non-deterministic expression stays exactly the image of
\* its input table (each present key once, with the result first emitted
\* for it), across restarts from snapshots and the replay of Old entries,
\* for any keys, results and number of restarts.
THEOREM OutputMatchesInputSafe == Spec => []OutputMatchesInput
  BY InitNInv, NextNInv, NInvSafe, PTL DEF Spec

\* No cache assertion (assert!(current.is_none())) and no ExpectedDeletion
\* ever fires on a table input, whether the expression is append-only or not.
THEOREM NeverPanicsSafe == Spec => []NeverPanics
  BY InitNInv, NextNInv, NInvSafe, PTL DEF Spec

\* Every variable of the non-deterministic expression's model keeps its
\* type across evaluation, snapshots and restarts: the cache holds a
\* result or nothing per key, the output and the snapshot stay counts per
\* key and result, and the restart counter stays within its bound.
THEOREM NonDetExprTypeCorrect == Spec => []TypeOK
<1>1. NInv => TypeOK
    BY DEF NInv
<1>. QED
    BY <1>1, InitNInv, NextNInv, PTL DEF Spec

=============================================================================
