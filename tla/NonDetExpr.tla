------------------------------ MODULE NonDetExpr ------------------------------
(***************************************************************************)
(* The result cache of DataflowGraphInner::expression_table_non_deterministic *)
(* (engine/dataflow.rs) for one non-deterministic expression on one worker.*)
(* Each batch of input rows is handed over with its deletions first.  A    *)
(* row whose key is cached reuses the cached result: an append-only        *)
(* expression only reads the cache, any other removes the entry and        *)
(* reports ExpectedDeletion (and panics) unless the row is a deletion.  The*)
(* other rows are evaluated, and every result goes into the cache, with an *)
(* assertion that the key was not cached yet.  The operator's output is    *)
(* persisted; after a restart the persisted rows come back as             *)
(* OldOrNew::Old entries before any new data and prime the cache.          *)
(*                                                                         *)
(* Restarts: the input and the persisted output resume from the same       *)
(* snapshot (the frontier both were saved at); the cache, held only in     *)
(* memory, starts empty.                                                   *)
(***************************************************************************)
EXTENDS Integers

CONSTANTS
    Keys,         \* row keys
    Values,       \* the results the expression may return
    NoValue,      \* no cache entry for a key
    MaxRestarts   \* bound on the number of restarts

ASSUME NonDetExprAssumption ==
    /\ NoValue \notin Values
    /\ Values # {}
    /\ MaxRestarts \in Nat

VARIABLES
    appendOnly,   \* expression_data.append_only, fixed when the graph is built
    present,      \* the keys of the input table's current rows
    cache,        \* caches[i]: key -> cached result, or NoValue
    out,          \* the output collection: key -> result -> multiplicity
    snapPresent,  \* the input position saved in the last snapshot
    snapOut,      \* the operator's output saved in the last snapshot
    replayPending,\* the Old entries of a restart are still to be delivered
    panicked,     \* an assertion or ExpectedDeletion stopped the worker
    restarts

vars == <<appendOnly, present, cache, out, snapPresent, snapOut, replayPending, panicked, restarts>>

Multiset == [Keys -> [Values -> Int]]
EmptyOut == [k \in Keys |-> [v \in Values |-> 0]]

TypeOK ==
    /\ appendOnly \in BOOLEAN
    /\ present \subseteq Keys
    /\ cache \in [Keys -> Values \cup {NoValue}]
    /\ out \in Multiset
    /\ snapPresent \subseteq Keys
    /\ snapOut \in Multiset
    /\ replayPending \in BOOLEAN
    /\ panicked \in BOOLEAN
    /\ restarts \in 0..MaxRestarts

Init ==
    /\ appendOnly \in BOOLEAN
    /\ present = {}
    /\ cache = [k \in Keys |-> NoValue]
    /\ out = EmptyOut
    /\ snapPresent = {}
    /\ snapOut = EmptyOut
    /\ replayPending = FALSE
    /\ panicked = FALSE
    /\ restarts = 0

\* Adds +1 (or -1) to the multiplicity of result val[k] for every k in S.
Emit(o, S, val, d) ==
    [k \in Keys |-> [v \in Values |-> o[k][v] + (IF k \in S /\ val[k] = v THEN d ELSE 0)]]

-----------------------------------------------------------------------------
(* One call of the closure given to flat_map_named_with_deletions_first on *)
(* a batch of New rows: deletions del, then insertions ins.  fd and fi are *)
(* the results eval returns for the deletions and insertions it computes.  *)

\* The rows that reuse a cached result, the cache after that first loop,
\* and the rows that reuse it although they insert (ExpectedDeletion).
HitDel(del) == {k \in del : cache[k] # NoValue}
CacheAfterDel(del) ==
    IF appendOnly THEN cache
    ELSE [k \in Keys |-> IF k \in HitDel(del) THEN NoValue ELSE cache[k]]
\* Mutant: insertions looked up before the deletions of the batch ran.
HitInsBeforeDel(del, ins) == {k \in ins : cache[k] # NoValue}
HitIns(del, ins) == {k \in ins : CacheAfterDel(del)[k] # NoValue}

\* A result computed for a key that is still cached, or computed twice in
\* the batch, breaks assert!(current.is_none()) when it is inserted.
DoubleInsert(del, ins) ==
    (del \ HitDel(del)) \cap (ins \ HitIns(del, ins)) # {}

\* The closure on one batch: rows del deleted, ins inserted, and the
\* results eval returns for the rows it computes.
Evaluate(del, ins, fd, fi) ==
    /\ del \cup ins # {}
    /\ ins \cap (present \ del) = {}
    /\ LET hitDel == HitDel(del)
           hitIns == HitIns(del, ins)
           c1 == CacheAfterDel(del)
           missDel == del \ hitDel
           missIns == ins \ hitIns
           delVal == [k \in Keys |-> IF k \in hitDel THEN cache[k] ELSE fd[k]]
           insVal == [k \in Keys |-> IF k \in hitIns THEN c1[k] ELSE fi[k]]
       IN  IF (~appendOnly /\ hitIns # {}) \/ DoubleInsert(del, ins)
           THEN /\ panicked' = TRUE
                /\ UNCHANGED <<present, cache, out>>
           ELSE /\ cache' = [k \in Keys |-> IF k \in missDel THEN fd[k]
                                            ELSE IF k \in missIns THEN fi[k]
                                            ELSE c1[k]]
                /\ out' = Emit(Emit(out, del, delVal, -1), ins, insVal, 1)
                /\ present' = (present \ del) \cup ins
                /\ UNCHANGED panicked

EvaluateBatch ==
    /\ ~replayPending
    /\ ~panicked
    /\ \E del \in SUBSET present, ins \in SUBSET Keys,
          fd \in [Keys -> Values], fi \in [Keys -> Values] :
         Evaluate(del, ins, fd, fi)
    /\ UNCHANGED <<snapPresent, snapOut, replayPending, restarts>>

\* The persistence wrapper saves the input position and the operator's
\* output together when time advances.
SaveSnapshot ==
    /\ ~panicked
    /\ ~replayPending
    /\ snapPresent' = present
    /\ snapOut' = out
    /\ UNCHANGED <<present, cache, out, replayPending, panicked, restarts>>

\* Mutant: restarts not counted against their bound.
RestartUnbounded ==
    /\ present' = snapPresent
    /\ out' = snapOut
    /\ cache' = [k \in Keys |-> NoValue]
    /\ replayPending' = TRUE
    /\ panicked' = FALSE
    /\ restarts' = restarts + 1
    /\ UNCHANGED <<snapPresent, snapOut>>

\* The process stops (crash, panic or shutdown) and is started again: input
\* and output resume from the snapshot, the in-memory caches are empty.
Restart ==
    /\ restarts < MaxRestarts
    /\ present' = snapPresent
    /\ out' = snapOut
    /\ cache' = [k \in Keys |-> NoValue]
    /\ replayPending' = TRUE
    /\ panicked' = FALSE
    /\ restarts' = restarts + 1
    /\ UNCHANGED <<snapPresent, snapOut>>

\* The Old entries: every persisted output row is put into the cache, with
\* assert!(current.is_none()) for a key that comes back twice.
OldKeys == {k \in Keys : \E v \in Values : out[k][v] # 0}
TwoOld == \E k \in Keys : \E v, w \in Values : v # w /\ out[k][v] # 0 /\ out[k][w] # 0

\* Mutant: the Old entries skipped, the cache left empty after a restart.
ReplayOldIgnored ==
    /\ replayPending
    /\ replayPending' = FALSE
    /\ UNCHANGED <<cache, panicked, present, out, snapPresent, snapOut, restarts>>

ReplayOld ==
    /\ replayPending
    /\ replayPending' = FALSE
    /\ IF TwoOld
       THEN /\ panicked' = TRUE
            /\ UNCHANGED cache
       ELSE /\ cache' = [k \in Keys |-> IF k \in OldKeys
                                         THEN CHOOSE v \in Values : out[k][v] # 0
                                         ELSE cache[k]]
            /\ UNCHANGED panicked
    /\ UNCHANGED <<present, out, snapPresent, snapOut, restarts>>

Next ==
    /\ EvaluateBatch \/ SaveSnapshot \/ Restart \/ ReplayOld
    /\ UNCHANGED appendOnly

Spec == Init /\ [][Next]_vars

-----------------------------------------------------------------------------
(* Properties.                                                             *)

\* The output stays the image of the input: a present row has exactly one
\* result with multiplicity one, an absent row none.  A retraction that
\* carried a result other than the one emitted for the key (a cache miss
\* on a deletion) would leave a -1 and a stale +1 behind.
OutputMatchesInput ==
    \A k \in Keys :
        IF k \in present
        THEN \E v \in Values : /\ out[k][v] = 1
                               /\ \A w \in Values \ {v} : out[k][w] = 0
        ELSE \A v \in Values : out[k][v] = 0

\* For an input that is a table (keys inserted once, deleted only when
\* present), neither ExpectedDeletion nor the cache assertions ever fire,
\* across restarts included.
NeverPanics == ~panicked

=============================================================================
