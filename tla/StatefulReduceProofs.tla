------------------------ MODULE StatefulReduceProofs ------------------------
(* Proofs about deduplicate and the group_by reducers built on              *)
(* maybe_persisted_stateful_reduce (src/engine/dataflow.rs): deduplicate   *)
(* keeps the last accepted row, errors poison a group for good, and        *)
(* earliest() keeps the first batch's value and never changes its output   *)
(* again.                                                                   *)
EXTENDS StatefulReduce, FiniteSetTheorems, TLAPS

\* Every batch the logic was given has a row (an empty batch is skipped).
HistNonEmpty == \A i \in 1..Len(hist) : hist[i] # {}

\* The key has no state before its first batch.
EmptyBeforeFirst == hist = <<>> => st = NoState

\* deduplicate's state is combine_fn's last Ok result.
DedupState == kind = "deduplicate" => st = accepted

\* A generic reducer is poisoned only by a row of the key that it recomputes
\* from on every batch: an error row or a row whose init fails.
GenericPoisoned ==
    kind = "generic" /\ poisoned =>
        \E r \in Group : ValOf[r] = ErrorVal \/ r \in InitFails

\* The output holds exactly one row for the key, carrying its state, or no
\* row when it has none: Emit retracts the old row and inserts the new one.
OutputIsState == \A v \in OutVals : out[v] = IF v = st THEN 1 ELSE 0

\* The inductive invariant behind the reducer properties.  The properties
\* alone are not inductive: earliest() keeps its state only because there
\* is none before the first batch (EmptyBeforeFirst) and a batch is never
\* empty (HistNonEmpty); deduplicate's output follows accepted only through
\* its state (DedupState); and a generic reducer recomputes from all rows,
\* so it stays Value::Error only because a poisoning row stays in the
\* group (GenericPoisoned).
RInv ==
    /\ TypeOK /\ HistNonEmpty /\ EmptyBeforeFirst /\ DedupState
    /\ GenericPoisoned /\ OutputIsState /\ ErrorPoisonsGroup
    /\ EarliestIsFirstMin
-----------------------------------------------------------------------------
USE StatefulReduceAssumption DEF StatefulReduceAssumption

\* The order of the source keys, as a relation.
NatLess == {ss \in Nat \X Nat : ss[1] < ss[2]}

\* min_by_key finds a row: a non-empty set of source keys has a least one
\* (the order on Nat is well founded).
LEMMA MinIn ==
    ASSUME NEW S, S \subseteq Nat, S # {}
    PROVE  Min(S) \in S /\ \A y \in S : Min(S) <= y
<1>0. IsWellFoundedOn(NatLess, Nat)
    <2>1. NatLess = OpToRel(<, Nat)
        BY DEF NatLess, OpToRel
    <2>. QED
        BY <2>1, NatLessThanWellFounded
<1>1. \E x \in S : \A y \in S : ~(<<y, x>> \in NatLess)
    BY <1>0, WFMin
<1>2. \A x, y \in S : <<y, x>> \notin NatLess => x <= y
    BY DEF NatLess
<1>3. \E x \in S : \A y \in S : x <= y
    BY <1>1, <1>2
<1>. QED
    BY <1>3 DEF Min

\* max_by_key finds a row: a finite non-empty set of source keys has a
\* greatest one.  Among the sets {y \in S : y >= x}, one minimal for strict
\* inclusion belongs to the greatest x.
LEMMA MaxIn ==
    ASSUME NEW S, S \subseteq Nat, IsFiniteSet(S), S # {}
    PROVE  Max(S) \in S /\ \A y \in S : Max(S) >= y
<1> DEFINE Up(m) == {z \in S : z >= m}
           T == {Up(w) : w \in S}
<1>1. IsWellFoundedOn(StrictSubsetOrdering(S), SUBSET S)
    BY FS_StrictSubsetOrderingWellFounded, FS_FiniteSubsetsOfFinite
<1>2. T \subseteq SUBSET S /\ T # {}
    <2>1. \A w \in S : Up(w) \subseteq S
        BY DEF Up
    <2>2. T \subseteq SUBSET S
        BY <2>1
    <2>3. PICK w0 \in S : TRUE
        OBVIOUS
    <2>4. Up(w0) \in T
        OBVIOUS
    <2>. QED
        BY <2>2, <2>4
<1>3. PICK U \in T : \A V \in T : ~(<<V, U>> \in StrictSubsetOrdering(S))
    BY <1>1, <1>2, WFMin
<1>4. PICK x \in S : U = Up(x)
    OBVIOUS
<1>5. ASSUME NEW y \in S PROVE x >= y
    <2>0. x \in Nat /\ y \in Nat
        OBVIOUS
    <2> SUFFICES ASSUME y > x PROVE FALSE
        BY <2>0
    <2>1. Up(y) \subseteq Up(x)
        <3> SUFFICES ASSUME NEW z \in S, z >= y PROVE z >= x
            BY DEF Up
        <3>1. z \in Nat
            OBVIOUS
        <3>. QED
            BY <2>0, <3>1
    <2>2. x \in Up(x) /\ x \notin Up(y)
        BY <2>0 DEF Up
    <2>3. <<Up(y), Up(x)>> \in StrictSubsetOrdering(S)
        BY <2>1, <2>2 DEF StrictSubsetOrdering, Up
    <2>. QED
        BY <1>3, <1>4, <2>3
<1>. QED
    BY <1>5 DEF Max

\* The rows the logic has been given grow by the batch it is given now.
LEMMA GroupAppend ==
    ASSUME NEW S, hist \in Seq(S), NEW k
    PROVE  UNION {Append(hist, k)[i] : i \in DOMAIN Append(hist, k)} = Group \cup k
<1>1. DOMAIN Append(hist, k) = 1..Len(hist) + 1
    OBVIOUS
<1>2. \A i \in 1..Len(hist) : Append(hist, k)[i] = hist[i]
    OBVIOUS
<1>3. Append(hist, k)[Len(hist) + 1] = k
    OBVIOUS
<1>4. DOMAIN hist = 1..Len(hist)
    OBVIOUS
<1>. QED
    BY <1>1, <1>2, <1>3, <1>4 DEF Group

\* A count of a non-empty set of the group's rows is one of Counts.
LEMMA CountIn ==
    ASSUME NEW g \in SUBSET SrcKeys, g # {}
    PROVE  Cardinality(g) \in Counts
<1>1. IsFiniteSet(g) /\ Cardinality(g) <= Cardinality(SrcKeys)
    BY FS_Subset
<1>2. Cardinality(g) \in Nat /\ Cardinality(g) # 0
    BY <1>1, FS_CardinalityType, FS_EmptySet
<1>. QED
    BY <1>1, <1>2 DEF Counts

\* An Ok outcome of combine is a state.
LEMMA OutcomeType ==
    ASSUME TypeOK, NEW b \in SUBSET SrcKeys, NEW c \in Outcomes(b), c # "err",
           Group \subseteq SrcKeys
    PROVE  c \in States
<1>1. \A r \in SrcKeys : ValOf[r] \in States
    BY DEF States
<1>2. CASE kind = "generic"
    BY <1>2 DEF Outcomes, States, Kept, DedupKept, GroupByKept
<1>3. CASE kind = "count"
    BY <1>3 DEF Outcomes, States
<1>4. CASE kind \notin {"generic", "count"}
    BY <1>1, <1>4 DEF Outcomes, CombineResults, TypeOK, States
<1>. QED
    BY <1>2, <1>3, <1>4

\* The rows the logic was given are rows of the group.
LEMMA GroupType ==
    ASSUME hist \in Seq(SUBSET SrcKeys)
    PROVE  Group \subseteq SrcKeys
BY DEF Group

\* A key starts with no state, no output row and no history.
LEMMA InitRInv == Init => RInv
<1> SUFFICES ASSUME Init PROVE RInv
    OBVIOUS
<1>1. TypeOK
    <2>1. st \in States /\ accepted \in States
        BY DEF Init, States
    <2>2. out \in [OutVals -> {0, 1}] /\ hist \in Seq(SUBSET SrcKeys)
        BY DEF Init
    <2>. QED
        BY <2>1, <2>2 DEF Init, TypeOK
<1>2. OutputIsState
    BY DEF Init, OutputIsState, OutVals, Counts
<1>. QED
    BY <1>1, <1>2 DEF Init, RInv, HistNonEmpty, EmptyBeforeFirst, DedupState,
       GenericPoisoned, ErrorPoisonsGroup, EarliestIsFirstMin

\* The new state of a batch that keeps rows k, for each operator.
LEMMA NewState ==
    ASSUME TypeOK, NEW b, NEW c, StatefulReduceStep(b, c), Kept(b) # {}
    PROVE  LET k == Kept(b) IN
           /\ kind = "deduplicate" => st' = DedupLogic(st, k, c)
           /\ kind = "stateful" => st' = StatefulLogic(st, k, c)
           /\ kind = "earliest" => st' = EarliestLogic(st, k, c)
           /\ kind = "latest" => st' = LatestLogic(st, k, c)
           /\ kind = "generic" => st' = GenericLogic(Group \cup k, k, c)
           /\ kind = "count" => st' = CountLogic(Group \cup k)
           /\ out' = Emit(st, st')
           /\ hist' = Append(hist, k)
           /\ accepted' = IF c = "err" THEN accepted ELSE c
           /\ poisoned' = (poisoned \/ (kind = "stateful" /\ c = "err")
                             \/ (\E r \in k : ValOf[r] = ErrorVal)
                             \/ (kind = "generic" /\ k \cap InitFails # {}))
           /\ used' = used \cup b
           /\ UNCHANGED <<kind, skipErrors>>
BY DEF StatefulReduceStep, Logic

\* The rows a batch keeps are among its rows.
LEMMA KeptType ==
    ASSUME NEW b \in SUBSET SrcKeys
    PROVE  Kept(b) \subseteq b
BY DEF Kept, DedupKept, GroupByKept

\* A step of the stateful reduce operator preserves the invariant.
LEMMA StepRInv ==
    ASSUME RInv, NEW b \in (SUBSET (SrcKeys \ used)) \ {{}}, NEW c \in Outcomes(b),
           StatefulReduceStep(b, c)
    PROVE  RInv'
<1>0. /\ b \subseteq SrcKeys
      /\ hist \in Seq(SUBSET SrcKeys) /\ Group \subseteq SrcKeys
      /\ kind \in Kinds /\ kind' = kind
      /\ used' = used \cup b
    BY GroupType DEF RInv, TypeOK, StatefulReduceStep
<1>1. CASE Kept(b) = {}
    <2>1. UNCHANGED <<st, out, hist, accepted, poisoned, kind, skipErrors>>
        BY <1>1 DEF StatefulReduceStep
    <2>2. TypeOK'
        BY <1>0, <2>1 DEF RInv, TypeOK
    <2>3. Group' = Group
        BY <2>1 DEF Group
    <2>. QED
        BY <2>1, <2>2, <2>3 DEF RInv, HistNonEmpty, EmptyBeforeFirst, DedupState,
           GenericPoisoned, OutputIsState, ErrorPoisonsGroup, EarliestIsFirstMin
<1>2. CASE Kept(b) # {}
    <2> DEFINE k == Kept(b)
    <2>1. k \subseteq SrcKeys /\ k # {}
        BY <1>0, <1>2, KeptType
    <2>2. /\ kind = "deduplicate" => st' = DedupLogic(st, k, c)
          /\ kind = "stateful" => st' = StatefulLogic(st, k, c)
          /\ kind = "earliest" => st' = EarliestLogic(st, k, c)
          /\ kind = "latest" => st' = LatestLogic(st, k, c)
          /\ kind = "generic" => st' = GenericLogic(Group \cup k, k, c)
          /\ kind = "count" => st' = CountLogic(Group \cup k)
          /\ out' = Emit(st, st')
          /\ hist' = Append(hist, k)
          /\ accepted' = IF c = "err" THEN accepted ELSE c
          /\ poisoned' = (poisoned \/ (kind = "stateful" /\ c = "err")
                            \/ (\E r \in k : ValOf[r] = ErrorVal)
                            \/ (kind = "generic" /\ k \cap InitFails # {}))
          /\ UNCHANGED skipErrors
        BY <1>2, NewState DEF RInv
    <2>3. Group' = Group \cup k
        <3>1. UNION {Append(hist, k)[i] : i \in DOMAIN Append(hist, k)} = Group \cup k
            BY <1>0, GroupAppend
        <3>2. UNION {hist'[i] : i \in DOMAIN hist'} = Group \cup k
            BY <2>2, <3>1
        <3>. QED
            BY <3>2 DEF Group
    <2>4. c # "err" => c \in States
        BY <1>0, OutcomeType DEF RInv
    \* A value of a row is never None.
    <2>5. \A r \in SrcKeys : ValOf[r] # NoState /\ ValOf[r] \in States
        BY DEF States
    <2>6. st' \in States
        <3>1. CASE kind \in {"deduplicate", "stateful"}
            BY <2>2, <2>4, <3>1 DEF RInv, TypeOK, DedupLogic, StatefulLogic, States
        <3>2. CASE kind = "earliest"
            <4>1. Min(k) \in SrcKeys
                BY <2>1, MinIn
            <4>2. st = NoState => st' = ValOf[Min(k)]
                BY <2>2, <3>2 DEF EarliestLogic
            <4>3. st # NoState => st' = st
                BY <2>2, <3>2 DEF EarliestLogic
            <4>. QED
                BY <2>5, <4>1, <4>2, <4>3 DEF RInv, TypeOK
        <3>3. CASE kind = "latest"
            <4>1. IsFiniteSet(k)
                BY <2>1, FS_Subset
            <4>. QED
                BY <2>1, <2>2, <2>5, <3>3, <4>1, MaxIn DEF LatestLogic
        <3>4. CASE kind = "generic"
            BY <2>2, <2>4, <3>4 DEF GenericLogic, States
        <3>5. CASE kind = "count"
            <4>1. Cardinality(Group \cup k) \in Counts
                BY <1>0, <2>1, CountIn
            <4>. QED
                BY <2>2, <3>5, <4>1 DEF CountLogic, States
        <3>. QED
            BY <1>0, <3>1, <3>2, <3>3, <3>4, <3>5 DEF Kinds
    <2>7. TypeOK'
        <3>1. out' \in [OutVals -> {0, 1}]
            BY <2>2 DEF RInv, TypeOK, Emit
        <3>2. hist' \in Seq(SUBSET SrcKeys)
            BY <1>0, <2>1, <2>2
        <3>3. accepted' \in States
            BY <2>2, <2>4 DEF RInv, TypeOK
        <3>4. used' \subseteq SrcKeys /\ poisoned' \in BOOLEAN
            BY <1>0, <2>2 DEF RInv, TypeOK
        <3>. QED
            BY <1>0, <2>2, <2>6, <3>1, <3>2, <3>3, <3>4 DEF RInv, TypeOK
    <2>8. HistNonEmpty' /\ EmptyBeforeFirst'
        BY <1>0, <2>1, <2>2 DEF RInv, HistNonEmpty, EmptyBeforeFirst
    <2>9. DedupState'
        BY <1>0, <2>2 DEF RInv, DedupState, DedupLogic
    <2>10. GenericPoisoned'
        BY <1>0, <2>2, <2>3 DEF RInv, GenericPoisoned
    <2>11. OutputIsState'
        BY <2>2 DEF RInv, OutputIsState, Emit
    <2>12. ErrorPoisonsGroup'
        <3>1. CASE kind = "stateful"
            BY <1>0, <2>2, <3>1 DEF RInv, ErrorPoisonsGroup, StatefulLogic
        <3>2. CASE kind = "generic"
            BY <1>0, <2>2, <2>3, <2>10, <3>2 DEF GenericPoisoned, ErrorPoisonsGroup, GenericLogic
        <3>3. CASE kind \notin {"stateful", "generic"}
            BY <1>0, <3>3 DEF ErrorPoisonsGroup
        <3>. QED
            BY <3>1, <3>2, <3>3
    <2>13. EarliestIsFirstMin'
        <3> SUFFICES ASSUME kind = "earliest" PROVE st' = ValOf[Min(hist'[1])]
            BY <1>0 DEF EarliestIsFirstMin
        <3>1. CASE hist = <<>>
            <4>1. st = NoState /\ hist' = <<k>>
                BY <2>2, <3>1 DEF RInv, EmptyBeforeFirst
            <4>. QED
                BY <2>2, <4>1 DEF EarliestLogic
        <3>2. CASE hist # <<>>
            <4>1. st = ValOf[Min(hist[1])] /\ hist[1] # {} /\ hist[1] \subseteq SrcKeys
                BY <1>0, <3>2 DEF RInv, EarliestIsFirstMin, HistNonEmpty
            <4>2. Min(hist[1]) \in SrcKeys
                BY <4>1, MinIn
            <4>3. st # NoState
                BY <2>5, <4>1, <4>2
            <4>4. hist'[1] = hist[1]
                BY <1>0, <2>2, <3>2
            <4>. QED
                BY <2>2, <4>1, <4>3, <4>4 DEF EarliestLogic
        <3>. QED
            BY <3>1, <3>2
    <2>. QED
        BY <2>7, <2>8, <2>9, <2>10, <2>11, <2>12, <2>13 DEF RInv
<1>. QED
    BY <1>1, <1>2

\* Every step of the operator, or a stutter, preserves the invariant.
LEMMA NextRInv == RInv /\ [Next]_vars => RInv'
<1> SUFFICES ASSUME RInv, [Next]_vars PROVE RInv'
    OBVIOUS
<1>1. CASE Arrive
    <2>1. PICK b \in (SUBSET (SrcKeys \ used)) \ {{}} : \E c \in Outcomes(b) :
                StatefulReduceStep(b, c)
        BY <1>1 DEF Arrive
    <2>2. PICK c \in Outcomes(b) : StatefulReduceStep(b, c)
        BY <2>1
    <2>. QED
        BY <2>2, StepRInv
<1>2. CASE UNCHANGED vars
    BY <1>2 DEF vars, RInv, TypeOK, Group, HistNonEmpty, EmptyBeforeFirst, DedupState,
       GenericPoisoned, OutputIsState, ErrorPoisonsGroup, EarliestIsFirstMin
<1>. QED
    BY <1>1, <1>2 DEF Next

\* The invariant holds in every state of every behaviour.
LEMMA SpecRInv == Spec => []RInv
BY InitRInv, NextRInv, PTL DEF Spec

\* Every variable of the stateful reduce operator keeps its type: the state
\* is a value, Value::Error, None or a count, for every reducer kind.
THEOREM StatefulReduceTypeCorrect == Spec => []TypeOK
BY SpecRInv, PTL DEF RInv

\* deduplicate's output row is the last one combine_fn accepted: a failing
\* combine_fn never replaces or retracts it.
THEOREM DedupKeepsAcceptedSafe == Spec => []DedupKeepsAccepted
<1>1. RInv => DedupKeepsAccepted
    BY DEF RInv, DedupState, OutputIsState, DedupKeepsAccepted
<1>. QED
    BY <1>1, SpecRInv, PTL

\* A stateful or generic group_by reducer stays Value::Error once an error
\* row, or a failure the reducer keeps, has reached it.
THEOREM ErrorPoisonsGroupSafe == Spec => []ErrorPoisonsGroup
BY SpecRInv, PTL DEF RInv

\* earliest() holds the value of the least source key of the first batch,
\* whatever batches come after it.
THEOREM EarliestIsFirstMinSafe == Spec => []EarliestIsFirstMin
BY SpecRInv, PTL DEF RInv

\* Once earliest() holds a state, no later batch changes the key's output:
\* the retraction and the insertion of the same row that the operator
\* emits cancel out in the consolidated output.
EarliestOutputStable ==
    [][kind = "earliest" /\ st # NoState => out' = out]_vars

\* A step from a state where earliest() holds a value emits and retracts
\* that same row, which leaves the output as it was.
LEMMA EarliestStep ==
    ASSUME RInv, [Next]_vars, kind = "earliest", st # NoState
    PROVE  out' = out
<1>1. CASE Arrive
    <2>1. PICK b \in (SUBSET (SrcKeys \ used)) \ {{}} : \E c \in Outcomes(b) :
                StatefulReduceStep(b, c)
        BY <1>1 DEF Arrive
    <2>2. PICK c \in Outcomes(b) : StatefulReduceStep(b, c)
        BY <2>1
    <2>3. CASE Kept(b) = {}
        BY <2>2, <2>3 DEF StatefulReduceStep
    <2>4. CASE Kept(b) # {}
        <3>1. st' = st /\ out' = Emit(st, st')
            BY <2>2, <2>4, NewState DEF RInv, EarliestLogic
        <3>2. out \in [OutVals -> {0, 1}] /\ \A v \in OutVals : out[v] = IF v = st THEN 1 ELSE 0
            BY DEF RInv, TypeOK, OutputIsState
        <3>. QED
            BY <3>1, <3>2 DEF Emit
    <2>. QED
        BY <2>3, <2>4
<1>2. CASE UNCHANGED vars
    BY <1>2 DEF vars
<1>. QED
    BY <1>1, <1>2 DEF Next

\* earliest()'s output row, once emitted, is never retracted or replaced.
THEOREM EarliestOutputStableHolds == Spec => EarliestOutputStable
<1>1. RInv /\ [Next]_vars => [kind = "earliest" /\ st # NoState => out' = out]_vars
    BY EarliestStep
<1>. QED
    BY <1>1, SpecRInv, PTL DEF Spec, EarliestOutputStable

=============================================================================
