------------------------------- MODULE Subscribe -------------------------------
(***************************************************************************)
(* subscribe_table (engine/dataflow.rs) over several workers.             *)
(*                                                                         *)
(* Every worker runs two operators on the subscribed table.  The first,   *)
(* inspect, calls on_data for each row of a consolidated batch and then   *)
(* on_time_end(time); an error of a callback is reported and panics the   *)
(* worker (unwrap_with_reporter).  The second, inspect_core, sees the     *)
(* output frontier of the first -- which timely's progress tracking only  *)
(* advances past a time once every worker's first inspect has passed it  *)
(* -- and on each frontier change: worker 0 calls on_end when the         *)
(* frontier is empty and on_frontier otherwise, and every worker records  *)
(* the frontier as its sink's finalized time in persistent storage.       *)
(*                                                                         *)
(* Times are 0..MaxTime-1 and the frontier value MaxTime is the empty     *)
(* frontier.  The rows of a batch are abstracted away: a worker's first   *)
(* inspect is the time up to which it has run the callbacks.              *)
(***************************************************************************)
EXTENDS Naturals, FiniteSets

CONSTANTS
    Workers,        \* the timely workers
    Leader,         \* the worker with worker_index 0
    MaxTime,        \* number of logical times with data
    HasStorage,     \* persistent storage is configured (sink_id is Some)
    CallbackFails   \* whether a callback may return an error

ASSUME SubscribeAssumption ==
    /\ Leader \in Workers
    /\ MaxTime \in Nat \ {0}
    /\ HasStorage \in BOOLEAN /\ CallbackFails \in BOOLEAN

Times == 0..MaxTime
Empty == MaxTime

VARIABLES
    done,       \* the first inspect on w has run the callbacks of times < done[w]
    seen,       \* the last frontier w's second inspect was told of
    failed,     \* a callback failed on w and the worker panicked
    notified,   \* history: the frontiers passed to on_frontier
    ended,      \* on_end has run
    finalized   \* update_sink_finalized_time: w's finalized time in storage

vars == <<done, seen, failed, notified, ended, finalized>>

TypeOK ==
    /\ done \in [Workers -> Times]
    /\ seen \in [Workers -> Times]
    /\ failed \in [Workers -> BOOLEAN]
    /\ notified \subseteq Times
    /\ ended \in BOOLEAN
    /\ finalized \in [Workers -> Times]

Init ==
    /\ done = [w \in Workers |-> 0]
    /\ seen = [w \in Workers |-> 0]
    /\ failed = [w \in Workers |-> FALSE]
    /\ notified = {}
    /\ ended = FALSE
    /\ finalized = [w \in Workers |-> 0]

\* Whether frontier f can reach w's inspect_core: the output frontier of
\* the first inspect is the least time some worker's first inspect has not
\* passed, so f is at or before it when every worker has passed f.
OwnPassed(w, f) == f <= done[w]
Passed(w, f) == \A v \in Workers : f <= done[v]

\* The first inspect runs on_data and on_time_end for w's batch at the next
\* time (nothing when the batch is replayed from persistence and
\* skip_persisted_batch is set).
BatchUnbounded(w) ==
    /\ ~failed[w]
    /\ done' = [done EXCEPT ![w] = @ + 1]
    /\ UNCHANGED <<seen, failed, notified, ended, finalized>>
BatchFinalizes(w) ==
    /\ ~failed[w] /\ done[w] < MaxTime
    /\ done' = [done EXCEPT ![w] = @ + 1]
    /\ finalized' = IF HasStorage THEN [finalized EXCEPT ![w] = done[w] + 1]
                                  ELSE finalized
    /\ UNCHANGED <<seen, failed, notified, ended>>
Batch(w) ==
    /\ ~failed[w] /\ done[w] < MaxTime
    /\ done' = [done EXCEPT ![w] = @ + 1]
    /\ UNCHANGED <<seen, failed, notified, ended, finalized>>

\* A callback of the batch returns an error: reported, and the worker panics.
CallbackError(w) ==
    /\ CallbackFails
    /\ ~failed[w] /\ done[w] < MaxTime
    /\ failed' = [failed EXCEPT ![w] = TRUE]
    /\ UNCHANGED <<done, seen, notified, ended, finalized>>

\* inspect_core gets Err(frontier) for a new frontier f (timely may skip
\* intermediate frontiers).  Worker 0 runs on_end for the empty frontier
\* and on_frontier otherwise; every worker stores f as finalized time.
NotifyNoEnd(w) ==
    /\ ~failed[w]
    /\ \E f \in Times :
        /\ seen[w] < f /\ Passed(w, f)
        /\ f < Empty
        /\ seen' = [seen EXCEPT ![w] = f]
        /\ notified' = IF w = Leader THEN notified \cup {f} ELSE notified
        /\ finalized' = IF HasStorage THEN [finalized EXCEPT ![w] = f] ELSE finalized
    /\ UNCHANGED <<done, failed, ended>>
Notify(w) ==
    /\ ~failed[w]
    /\ \E f \in Times :
        /\ seen[w] < f /\ Passed(w, f)
        /\ seen' = [seen EXCEPT ![w] = f]
        /\ notified' = IF w = Leader /\ f # Empty THEN notified \cup {f} ELSE notified
        /\ ended' = (ended \/ (w = Leader /\ f = Empty))
        /\ finalized' = IF HasStorage THEN [finalized EXCEPT ![w] = f] ELSE finalized
    /\ UNCHANGED <<done, failed>>

Next == \E w \in Workers : Batch(w) \/ CallbackError(w) \/ Notify(w)

\* Timely keeps scheduling an operator that has input or a frontier change.
Fairness == \A w \in Workers : WF_vars(Batch(w)) /\ WF_vars(Notify(w))

Spec == Init /\ [][Next]_vars /\ Fairness

-----------------------------------------------------------------------------
(* Properties.                                                             *)

\* No worker's storage claims a time as finalized before every worker has
\* run on_data and on_time_end for all earlier times: a restart that skips
\* the finalized times loses no callback.
FinalizedAfterCallbacks == \A w, v \in Workers : finalized[w] <= done[v]

\* Worker 0's on_frontier(f) and on_end come after every worker ran the
\* callbacks for the times before f (before all times, for on_end); this is
\* why they sit in a second inspect, after the first one's frontier.
LeaderAfterWorkers ==
    /\ \A f \in notified : \A w \in Workers : done[w] >= f
    /\ ended => \A w \in Workers : done[w] = MaxTime

\* Unless a callback fails, on_end eventually runs.
EndsUnlessFailed == <>(ended \/ \E w \in Workers : failed[w])

=============================================================================
