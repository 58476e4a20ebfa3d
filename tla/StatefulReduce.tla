---------------------------- MODULE StatefulReduce ----------------------------
(***************************************************************************)
(* The reducers of engine/dataflow.rs for one group key: deduplicate and  *)
(* the group_by reducers StatefulReducer, EarliestReducer and             *)
(* LatestReducer, all built on maybe_persisted_stateful_reduce, and the   *)
(* generic DataflowReducer of a ReducerImpl and CountReducer, built on    *)
(* differential's reduce and count.                                        *)
(*                                                                         *)
(* The stateful reduce operator keeps one state per key.  When a batch of *)
(* new rows of the key arrives at a time, it calls the reducer's logic     *)
(* with the old state and the batch, and replaces its output row          *)
(* (key, old state) by (key, new state).  The operator lives outside      *)
(* dataflow.rs; the logics are the closures this file passes to it.  A    *)
(* reduce or count recomputes the key's result from all its rows.         *)
(*                                                                         *)
(* A row is its source key, taken from a finite set of naturals (the      *)
(* order of Key), with a fixed value ValOf[s] that may be Value::Error.   *)
(* Rows only arrive (insertions), each once, in batches.                  *)
(***************************************************************************)
EXTENDS Naturals, Sequences, FiniteSetsExt

CONSTANTS
    SrcKeys,    \* source keys of the rows of the group
    Vals,       \* ordinary values
    ErrorVal,   \* Value::Error
    NoState,    \* None: the key has no state and no output row
    ValOf,      \* the value each row carries
    GroupErr,   \* rows whose grouping columns hold Value::Error
    InitFails   \* rows on which the ReducerImpl's init returns an error

\* The rows of one group are finitely many; None is no value and no count.
ASSUME StatefulReduceAssumption ==
    /\ SrcKeys \subseteq Nat /\ SrcKeys # {} /\ IsFiniteSet(SrcKeys)
    /\ ErrorVal \notin Vals /\ NoState \notin Vals \cup {ErrorVal} \cup Nat
    /\ ValOf \in [SrcKeys -> Vals \cup {ErrorVal}]
    /\ GroupErr \subseteq SrcKeys
    /\ InitFails \subseteq SrcKeys

\* The operators built on the stateful reduce.
Kinds == {"deduplicate", "stateful", "earliest", "latest", "generic", "count"}

Counts == 1..Cardinality(SrcKeys)
States == Vals \cup {ErrorVal, NoState} \cup Counts
OutVals == Vals \cup {ErrorVal} \cup Counts

VARIABLES
    kind,       \* which of the operators the graph built
    skipErrors, \* ReducerData.skip_errors of the group_by reducer
    used,       \* the rows that have arrived
    st,         \* the operator's state for the key
    out,        \* the consolidated output: multiplicity of (key, v)
    hist,       \* history: the batches handed to the logic, in order
    accepted,   \* history: combine_fn's last Ok result (deduplicate)
    poisoned    \* history: an error row, or a failure that the reducer keeps, was seen

vars == <<kind, skipErrors, used, st, out, hist, accepted, poisoned>>

TypeOK ==
    /\ kind \in Kinds
    /\ skipErrors \in BOOLEAN
    /\ used \subseteq SrcKeys
    /\ st \in States
    /\ out \in [OutVals -> {0, 1}]
    /\ hist \in Seq(SUBSET SrcKeys)
    /\ accepted \in States
    /\ poisoned \in BOOLEAN

Init ==
    /\ kind \in Kinds
    /\ skipErrors \in BOOLEAN
    /\ used = {}
    /\ st = NoState
    /\ out = [v \in OutVals |-> 0]
    /\ hist = <<>>
    /\ accepted = NoState
    /\ poisoned = FALSE

\* The outcomes of the user's combine function on (state, batch): Ok with
\* the old state, with a row of the batch, or with no state, or an error.
CombineResults(s, b) == {s, NoState} \cup {ValOf[r] : r \in b} \cup {"err"}

\* deduplicate's closure: combine_fn's Ok value, and on Err the old state
\* (the error is logged).
DedupLogicDropsState(s, b, c) == IF c = "err" THEN NoState ELSE c
DedupLogic(s, b, c) == IF c = "err" THEN s ELSE c

\* StatefulReducer's closure: an error in the state or the batch gives
\* Value::Error, and so does a failing combine (unwrap_or_log_with_trace).
StatefulLogicForgets(s, b, c) ==
    IF (\E r \in b : ValOf[r] = ErrorVal) \/ c = "err" THEN ErrorVal ELSE c
StatefulLogic(s, b, c) ==
    IF s = ErrorVal \/ (\E r \in b : ValOf[r] = ErrorVal) \/ c = "err"
    THEN ErrorVal ELSE c

\* EarliestReducer's closure: keep a state once there is one, else the
\* value of the batch's row with the least source key.
EarliestLogicNoKeep(s, b, c) == ValOf[Min(b)]
EarliestLogic(s, b, c) == IF s # NoState THEN s ELSE ValOf[Min(b)]

\* LatestReducer's closure: the value of the batch's row with the greatest
\* source key.
LatestLogic(s, b, c) == ValOf[Max(b)]

Logic(s, b, c) ==
    CASE kind = "deduplicate" -> DedupLogic(s, b, c)
      [] kind = "stateful"    -> StatefulLogic(s, b, c)
      [] kind = "earliest"    -> EarliestLogic(s, b, c)
      [] kind = "latest"      -> LatestLogic(s, b, c)

\* The generic DataflowReducer of a ReducerImpl over all rows g of the key:
\* a row with an error, or whose init fails, has no state, and then the
\* key's result is Value::Error; else combine's result, Value::Error when
\* it fails.
GenericLogic(g, b, c) ==
    IF (\E r \in g : ValOf[r] = ErrorVal \/ r \in InitFails) \/ c = "err"
    THEN ErrorVal ELSE c

\* CountReducer: the number of rows of the key.
CountLogic(g) == Cardinality(g)

\* deduplicate's flat_map drops (and logs, ErrorInDeduplicate) a row whose
\* grouping columns hold an error.
DedupKept(b) == b \ GroupErr

\* group_by_table drops a row whose grouping columns hold an error
\* (ErrorInGroupby), and with skip_errors a row whose reduced columns do.
GroupByKept(b) ==
    {r \in b \ GroupErr : ~(skipErrors /\ ValOf[r] = ErrorVal)}

Kept(b) == IF kind = "deduplicate" THEN DedupKept(b) ELSE GroupByKept(b)

\* The rows of the key the operator has been given so far.
Group == UNION {hist[i] : i \in DOMAIN hist}

\* The stateful reduce operator's output change: (key, old) out, (key, new) in.
EmitCounted(old, new) ==
    [v \in OutVals |-> IF v = new THEN out[v] + 1
                       ELSE IF v = old THEN out[v] - 1 ELSE out[v]]
Emit(old, new) ==
    [v \in OutVals |-> IF v = new THEN 1 ELSE IF v = old THEN 0 ELSE out[v]]

\* The outcomes of combine for the batch b: the stateful reducers' as
\* above; a ReducerImpl's combine gives a value of the key's rows or fails;
\* a count has no combine.
Outcomes(b) ==
    CASE kind = "generic" -> ({ValOf[r] : r \in Group \cup Kept(b)} \cap Vals) \cup {"err"}
      [] kind = "count"   -> {NoState}
      [] OTHER            -> CombineResults(st, b)

\* The stateful reduce operator's step for the new rows b of the key, with
\* combine's outcome c: a batch that keeps no row is skipped; otherwise the
\* logic gives the new state and the output row is replaced.
StatefulReduceStep(b, c) ==
    /\ used' = used \cup b
    /\ UNCHANGED <<kind, skipErrors>>
    /\ IF Kept(b) = {}
       THEN UNCHANGED <<st, out, hist, accepted, poisoned>>
       ELSE /\ st' = CASE kind = "generic" -> GenericLogic(Group \cup Kept(b), Kept(b), c)
                        [] kind = "count"   -> CountLogic(Group \cup Kept(b))
                        [] OTHER            -> Logic(st, Kept(b), c)
            /\ out' = Emit(st, st')
            /\ hist' = Append(hist, Kept(b))
            /\ accepted' = IF c = "err" THEN accepted ELSE c
            /\ poisoned' = (poisoned \/ (kind = "stateful" /\ c = "err")
                             \/ (\E r \in Kept(b) : ValOf[r] = ErrorVal)
                             \/ (kind = "generic" /\ Kept(b) \cap InitFails # {}))

\* A batch of new rows arrives; the operator runs the logic on it.
Arrive ==
    \E b \in (SUBSET (SrcKeys \ used)) \ {{}} : \E c \in Outcomes(b) :
        StatefulReduceStep(b, c)

Next == Arrive

Spec == Init /\ [][Next]_vars

-----------------------------------------------------------------------------
(* Properties.                                                             *)

\* deduplicate's output row is always the last row combine_fn accepted, and
\* there is none before it accepted one: a failing combine_fn keeps the row
\* emitted before it.
DedupKeepsAccepted ==
    kind = "deduplicate" => \A v \in OutVals : out[v] = 1 <=> v = accepted

\* A stateful group_by reducer that ever saw an error row, or whose combine
\* failed, stays Value::Error whatever rows come later; so does a generic
\* reducer once a row of the key has an error or fails its init (a failed
\* combine of a generic reducer is recomputed, and does not last).
ErrorPoisonsGroup == kind \in {"stateful", "generic"} /\ poisoned => st = ErrorVal

\* earliest() keeps the value of the least source key of the first batch.
EarliestIsFirstMin ==
    kind = "earliest" /\ hist # <<>> => st = ValOf[Min(hist[1])]

=============================================================================
