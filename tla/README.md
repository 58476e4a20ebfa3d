# Verification of Pathway's dataflow engine (`src/src/engine/dataflow.rs`)

This directory has TLA+ models of the parts of Pathway's Rust dataflow engine
where several actors interact or state outlives a step. It has:

- TLC configurations that check the models on small instances;
- TLAPS proofs that hold for every value of the constants.

`PROJECT.json` lists the components, the runs, the mutants, the map from each
definition to the source lines it translates, the findings, the hazards and
the theorems.

## The system

`dataflow.rs` turns a Python-built graph of tables into timely and
differential dataflow operators. It runs on one or more workers. The parts
that carry state or concurrency are listed below.

| Part | Source (dataflow.rs) | Interaction |
|---|---|---|
| Output connectors: `output_table`, `output_batch`, `commit_output_time` | 3999-4165 | The worker's `inspect_core` closure sends `OutputEvent::Batch` and `Commit` events over an unbounded mpsc channel to a dedicated output thread. That thread writes to the sink and records finalized times in the worker's persistent storage. |
| Non-deterministic expression cache: `expression_table_non_deterministic` | 1582-1732 | A per-worker cache of results. It is primed from persisted output (`OldOrNew::Old`) after a restart. |
| `update_rows_table` / `update_cells_table` | 2315-2445 | `reduce_abelian` over the tagged concatenation of two tables. Errors go to the error logger. |
| Worker driver: `run_with_new_dataflow_graph`, `ErrorReporter` | 158-174, 6276-6503 | Workers step the dataflow, pollers and flushers. A shared `failed` flag stops them. The main thread waits on the error channel and the wakeup channel, then unparks and joins the workers. |
| Error log: `ErrorLogInner`, `ErrorLog`, `ErrorLogger` | 598-690 | Errors are inserted into an input session, which is flushed at most every `ERROR_LOG_FLUSH_PERIOD`. |
| `subscribe_table` | 4169-4298 | Python callbacks are invoked from `inspect_core`. |
| Stateful reduce and deduplicate | 1032-1106, 3548-3612 | Per-key state is kept by a persisted stateful reduce. |
| Persistence helpers | 937-1166 | These delegate to the external persistence wrapper. |
| Relational operators (join, group_by, ix, flatten, sort, iterate, ...) | 1199-3545, 4300-5000 | Thin layers over differential dataflow. |
| Streams: `table_to_stream`, `stream_to_table`, `merge_streams_to_table` | 3031-3069, 3655-3686, 4411-4501 | A table becomes a stream of upsert rows and back, through an upsert arrangement. |
| `connectors/data_lake/arrow.rs` | whole file | Buffered column values become Arrow arrays for the data-lake writers. |

## Modules

### `OutputSink`: the output connector

Modelled from `output_table` (4064-4165), `output_batch` (3999-4044) and
`commit_output_time` (4046-4062).

**Data.** Data is abstracted to what the properties distinguish:

- A batch is its id, its time and its entry count.
- An entry is `<<batch id, position>>`.
- `Commit(None)` is the time `NoTime`, one past every data time.

**State.**

| Variable | What it models |
|---|---|
| `frontier` | the frontier the closure has reported |
| `senderAlive` | whether the `Sender` still exists |
| `chan` | the FIFO channel |
| `sent` | every batch sent, indexed by id |
| `outPc` | where the output thread is: `recv`, `done` for `Ok`, or `failed` for `Err` |
| `buffered` | entries written but not yet flushed |
| `durable` | entries that have been flushed |
| `finalized` | the sink's finalized time in storage |

**Actions.**

- `SendBatch` (4146-4153) sends a batch at a time not behind the frontier.
- `SendCommit` (4154-4159) advances the frontier and sends a commit.
- `DropSender` models the dataflow dropping the closure that owns the `Sender`.
- `RecvBatch` is the `Batch` arm of the loop plus `output_batch`. It has three outcomes:
  - the batch is written and flushed;
  - every entry is written but the trailing `flush(false)` fails;
  - the write of entry k fails after its retries, with entries 1..k-1 written.

  Entries at replayed times are skipped when there is storage (`Skipped`, 4014-4017).
- `RecvCommit` (4122-4133) first records the finalized time (`CommitOutputTime`). Then it flushes, and the flush may fail. `Commit(None)` ends the loop with `Ok`.
- `RecvDisconnected` (4134) is `Err(RecvError)`: the channel is empty and the `Sender` is gone.

### `NonDetExpr`: the non-deterministic expression cache

This module models one non-deterministic expression on one worker (1582-1732).

**State.**

| Variable | What it models |
|---|---|
| `present` | the input table's keys |
| `cache` | key to result, or `NoValue` |
| `out` | the output multiset |
| `snapPresent`, `snapOut` | the input position and the operator output, saved together by the persistence wrapper |
| `replayPending` | the Old entries of a restart are not yet delivered |
| `panicked` | a worker panic occurred |
| `restarts` | the number of restarts so far |

**Actions.**

- `EvaluateBatch` is one call of the closure passed to `flat_map_named_with_deletions_first`. Its body, for one choice of batch and results, is the operator `Evaluate(del, ins, fd, fi)`:
  - A batch is deletions `del`, then insertions `ins`, both of a table.
  - The first loop over the rows is modelled by `HitDel`, `CacheAfterDel` and `HitIns`. An append-only expression calls `get`. A general one calls `remove` and reports `ExpectedDeletion` for an insertion that hits the cache.
  - Evaluated results are inserted with `assert!(current.is_none())` (`DoubleInsert`).
  - The output is emitted with the diffs of the rows (`Emit`).
  - `fd` and `fi` are arbitrary results: the expression is non-deterministic.
- `SaveSnapshot` and `Restart` model what `maybe_persist_with_logic` (1126-1166) delegates to the persistence wrapper:
  - the input and the operator output resume from the same snapshot;
  - the in-memory cache starts empty.
- `ReplayOld` (1620-1633) inserts each persisted result into the cache, with the same assertion.

### `UpdateRows`: `update_rows_table` and `update_cells_table`

**State.**

| Variable | What it models |
|---|---|
| `orig`, `upd` | the two input tables, as key to payload to multiplicity |
| `outRows`, `outCells` | the two reducers' outputs per key |
| `logged` | the errors the reducers logged |

**Actions.**

- `ChangeOriginal` and `ChangeUpdate` insert or delete a row (`update_rows_arrange`, 2315-2343).
- Each change recomputes both reducers for the key (`Reduce`). This is how `reduce_abelian` re-runs the reducer on a key whose input changed.
- `RowsResult`/`RowsError` (2355-2371) and `CellsResult`/`CellsError` (2396-2430) translate the slice patterns. The input is sorted with Original entries before Update entries, and `Single` is "exactly one entry with diff 1".

### `Driver`: the execution driver and error propagation

This module models `run_with_new_dataflow_graph` (6276-6503) and `ErrorReporter` (158-174). Each worker has one output connector thread, reduced to its error path.

**State.**

| Variable | What it models |
|---|---|
| `wpc` | where each worker is: loop head, step, parked, joining its connector threads, ended ok, or panicked |
| `token` | the `std::thread::park` unpark token |
| `failed` | the shared `AtomicBool` |
| `cpc` | the connector thread: running, `reporting` (its closure returned `Err`), or ended |
| `errChan` | the `bounded(1)` channel |
| `reported` | history: every error handed to `report` |
| `wakeupOpen` | the wakeup channel is still selected |
| `mpc`, `result` | the main thread and the error it returns |

**Actions.**

- `Check` is the `failed.load` at the loop head (6380-6383).
- `Step` is one iteration of probers, flushers, pollers and `step_or_park` (6385-6432). It has five outcomes:
  - the worker did work;
  - it parks, returning at once if its token is set;
  - the dataflow is complete, which is impossible once a peer panicked;
  - the worker's own panic;
  - a panic from `inspect_core`'s `expect` on a send to a dropped receiver (4151, 4158).

  Both panics are reported by the `catch_unwind` handler (6456-6461).
- `Wake` is a spontaneous wake-up of a parked worker: timely activity or a park timeout. It is not allowed once a peer panicked, since the worker then waits on a dead peer.
- `Finish` joins the connector threads and finishes (6435-6454).
- `ConnFail` and `ConnReport` are a writer error in the output thread. The thread's closure returns `Err`, then `spawn_with_reporter` reports it. The receiver is moved into the thread's reporter (`with_extra(receiver)`, 4108) and read through `get()`, so it lives as long as the reporter, which is dropped only after the report. `ReceiverAlive` is modelled from those lines. `spawn_with_reporter` itself is outside `src/`, so `ConnReport` is modelled from the spec.
- `ConnEnd` ends the connector thread after `Commit(None)` or `RecvError`.
- The main thread's actions:
  - `MainRecvError` and `MainRecvDisconnected` are the two arms of `recv(error_receiver)`;
  - `MainWakeup` is a callback error, or the wakeup channel disconnecting;
  - `MainStop` sets `failed` and unparks every worker (`UnparkAll`);
  - `MainJoinErr` and `MainJoinOk` are the two joins, with `Error::WorkerPanic` in the second.

### `ErrorLog`: the error log of one worker

Modelled from `ErrorLogInner`, `ErrorLog` and `ErrorLogger` (598-690), and
the flusher calls of the worker loop (6385-6432). Variables: `elapsed` (the
time since the last flush, saturated at the period), `buffered`, `flushed`,
the history `raised`, and the worker's `pollersLeft`, `flushersOn`,
`opDone`, `sessionOpen`, `loopDone`. Actions: `Log` (the logger's early
returns for `ErrorInValue` and `depends_on_error_log`, then insert and
`maybe_flush`), `Tick`, `Iteration` (one loop iteration calling the
flusher, and clearing the flushers once the pollers are gone) and
`SessionDrop` (the final flush when the input session is dropped).

### `Subscribe`: `subscribe_table`

Modelled from 4169-4298 over several workers. `done[w]` is the time up to
which w's first `inspect` has run `on_data`/`on_time_end`, `seen[w]` the
frontier w's second inspect last saw, `finalized[w]` the sink's finalized
time in storage, and `notified`/`ended` worker 0's `on_frontier`/`on_end`.
`Batch(w)`, `CallbackError(w)` (a failing callback panics the worker) and
`Notify(w)` (the frontier handler) are the actions. Timely's progress
tracking is modelled by letting `Notify` see only a time `f` that every
worker has passed (`Passed(w, f)`: `f <= done[v]` for every worker v).

### `StatefulReduce`: deduplicate and the group_by reducers

Modelled from `deduplicate` (3548-3612) and the reducers of `group_by_table`
(the reducer impls, 3112-3340, dispatched by `TimestampReducerFactory`,
3401-3431): stateful, earliest, latest, the generic `ReducerImpl` reducer
and count, for one group key. `Arrive` delivers a batch `b` of new rows and
picks combine's outcome `c`. `StatefulReduceStep(b, c)` is what the
stateful reduce operator does with the logic closure it is given:
`maybe_persisted_stateful_reduce` (1032-1106) only chooses between the
persisted and the plain operator, and both live outside `src/`, so `Arrive`,
`StatefulReduceStep` and `Emit` are modelled from the spec. When the row filters keep no
row of the batch (`Kept(b) = {}`), nothing but `used` changes. Otherwise the
chosen reducer's logic gives the new per-key state `st`, and `Emit`
retracts the old output row and inserts the new one. The error rows, the
`skip_errors` filter, the grouping errors and a failing `init` are inputs.
`StatefulReduceAssumption` asks for finitely many source keys, all naturals,
which is the order `min_by_key`/`max_by_key` use. It also asks that `NoState`
(the `None` state) is neither a value, `Value::Error` nor a count.

### `Streams`: table to stream and back, and `merge_streams_to_table`

`Advance` changes the source table and runs `table_to_stream` (sort by key
and `-diff`, first entry per key, `is_upsert`) followed by `stream_to_table`
into an upsert arrangement, letting any update of a key at one time be
applied last. `MergeStreams` feeds the upsert collection from an insertions
and a deletions stream, each of which may carry retractions (dropped with
`ExpectedAppendOnly`, `Prepare`). For a key inserted and deleted at one time
the code leaves the outcome to the upsert's order, and nothing in the spec,
a comment or a test says which should win; so no property is stated about
`merged`, and the action is there so that `RoundTrip` is checked with it
interleaved.

### `Join` and `Relational`: Z-set operators

A differential collection is a Z-set; the output of these operators at a
time is a function of the inputs at that time. `Join` computes `join_tables`
(with `extract_join_key`, 854-2912) as the graph builds it: `extract_join_key` with errors,
`join_core`, the outer parts as input minus `distinct(matched)`, `concat`,
and `replace_duplicates_with_error`, for all six join types. `Relational`
adds `subtract_table`, `intersect_tables` and
`restrict_or_override_table_universe` with its key-match helpers. The
inputs are chosen at `Init`; `RefJoin` is the reference relational
definition.

### `Arrow`: column conversion (`connectors/data_lake/arrow.rs`)

`ArrowDataType` translates `arrow_data_type`; `ArrayForType` translates
`array_for_type` with its scalar arm (`Simple`, which fails with
`TypeMismatchWithSchema`), `array_of_lists` (offsets, validity,
flattened child, and `ListArray::new`'s nullability panic) and
`array_of_structs` (per-field columns and the panics of
`StructArray::new`). Values and types are records; recursive operators
follow the nesting. The state is one column's type and its buffered
values; `Write` appends a value and converts the column.

### `SinkLog`: what the output connector promises

`SinkLog` is an abstract specification with four variables: the owed
`<<entry, time>>` pairs, the durable entries, the finalized time and the
status. `Emit` owes entries at times not before the finalized time.
`Deliver` makes owed entries durable, advances the finalized time only over
covered times, and ends the connector, with Ok only when every owed entry is
durable. `OutputSink` implements it under the mapping
`owed <- OwedLog` (the entries of every sent batch whose time is not
skipped) and `status <- SinkStatus`. `SendBatch` maps to `Emit`, the
three receive actions to `Deliver`, and `SendCommit`/`DropSender` to
stutters.

## Runs

| Run | Module, cfg | Properties |
|---|---|---|
| `output_sink` | `MCOutputSink` | `TypeOK`, `FinalizedCoversDurable`, `DoneImpliesDelivered`, `Terminates`, `ImplementsSinkLog` |
| `nondet_expr` | `MCNonDetExpr` | `TypeOK`, `OutputMatchesInput`, `NeverPanics` |
| `update_rows` | `MCUpdateRows` | `TypeOK`, `UpdateCellsKeepsUniverse`, `RowsCellsAgree` |
| `update_rows_spec` (violation) | `MCUpdateRows`, `MCUpdateRowsSpec.cfg` | `UpdateRowsNeedsOriginal` |
| `driver` | `MCDriver` | `TypeOK`, `ReturnsRootCause`, `OkMeansNoError`, `ErrorShutsDown` |
| `error_log` | `MCErrorLog` | `TypeOK`, `NoRecordLeftBehind`, `RecordsReachTable`, `Terminates` |
| `subscribe` | `MCSubscribe` | `TypeOK`, `FinalizedAfterCallbacks`, `LeaderAfterWorkers`, `EndsUnlessFailed` |
| `stateful_reduce` | `MCStatefulReduce` | `TypeOK`, `DedupKeepsAccepted`, `ErrorPoisonsGroup`, `EarliestIsFirstMin` |
| `relational` | `MCRelational` | `TypeOK`, `JoinMatchesReference`, `SubtractIntersectSplit`, `OverrideHasNewKeys` |
| `join_errored_rows` (violation) | `MCRelational`, `MCRelational_spec.cfg` | `ErroredRowsDropped` |
| `arrow_roundtrip` | `MCArrow` | `TypeOK`, `RoundTrip` |
| `stream_roundtrip` | `MCStreams` | `TypeOK`, `RoundTrip` |

Unless noted, the cfg has the module's name.

**`output_sink`.**

- `FinalizedCoversDurable`: every emitted entry below the recorded finalized time has been flushed. Without this, storage could claim output the sink does not have.
- `DoneImpliesDelivered`: an `Ok` end of the thread means everything was flushed.
- `Terminates`: the thread always ends.
- `ImplementsSinkLog`: every behaviour is one of `SinkLog`'s.

**`nondet_expr`.** Across up to two restarts, for append-only and general
expressions (chosen at `Init`): the output stays exactly the image of the
input, and no assertion and no `ExpectedDeletion` fires.

**`update_rows`.** `update_cells` has a row exactly for the keys with one
original row, carrying the original payload, and wherever it emits a clean
row `update_rows` emits the same payload.

**`driver`.** Two workers, connector failures, and wakeup callbacks that may fail.

- `ReturnsRootCause`: the returned error is a root cause, never "other worker panicked", and never a failed send to an output thread that has already failed. The latter holds only because the receiver outlives the report.
- `OkMeansNoError`: `Ok` is returned only when nothing was ever reported.
- `ErrorShutsDown`: after any report, every worker ends and the driver returns. The unpark token prevents a lost wake-up between a `failed` check and a park.

**`error_log`.** Every inserted record reaches the log table, by a periodic
flush or the final flush at the session's drop; none is left when the loop
ends; the loop ends once the pollers are gone.

**`subscribe`.** Storage never finalizes a time on a worker before every
worker's callbacks for it ran; worker 0's `on_frontier` and `on_end` follow
every worker's `on_data`; `on_end` runs unless a callback failed.

**`stateful_reduce`.** Deduplicate's output row stays the last accepted value
when `combine_fn` fails; an error row, or a failure the reducer keeps,
poisons the stateful and generic reducers for good; earliest keeps the first
batch's least-key value against later batches with smaller keys, for every
arrival order.

**`relational`.** `join_tables` equals the reference relational join for all
six join types and every pair of small tables; subtract and intersect split
the left table by the right's keys; the override has exactly the new table's
keys and the key-match assertion reports exactly the keys not shared.

**`arrow_roundtrip`.** For seven column types (optional, list, list of
structs, struct holding a list, an unsupported field) and every column of up
to two rows, each built array is well formed (list offsets, struct children
lengths), and a column that fits its type converts without error and reads
back unchanged.

**`stream_roundtrip`.** `stream_to_table` rebuilds the source table from
`table_to_stream`'s output at every time, whatever order the upsert applies a
key's rows in, with `merge_streams_to_table` steps interleaved.

**Findings.**

- `update_rows_spec`: the `update_rows_table` reducer accepts a lone `[(Update(v), 1)]` (line 2360) and outputs `v`. Spec §4.2 says such updates emit `UpdatingNonExistingRow` and are dropped, which is what `update_cells_table` does. TLC's counterexample is one insertion into the update table.
- `join_errored_rows`: the spec says a row whose join key is an error is dropped; the code (2807) drops it only from the inner part, and the outer join types emit it padded with `None`.

Every property of a passing run has a mutant in `PROJECT.json`: a plausible
bug in the mapped code that TLC finds violated. For example, dropping
`output_batch`'s trailing flush breaks `FinalizedCoversDurable` and
`ImplementsSinkLog`; offsets without the total length break `Arrow`'s
`TypeOK`; a reducer that forgets its error state breaks `ErrorPoisonsGroup`.

### Bounds

| Run | Bounds |
|---|---|
| `output_sink` | `MaxTime = 2`, `MaxBatches = 3`, `MaxEntries = 2`, `ReplayTimes = {0}`, storage on (83,457 states) |
| `nondet_expr` | two keys, two results, `MaxRestarts = 2` |
| `update_rows` | two keys, two payloads, multiplicity up to 2 |
| `driver` | two workers, each with one connector (8,787 states) |
| `error_log` | two operators (one reading the log), three errors (one `ErrorInValue`), period 2 |
| `subscribe` | three workers, three times |
| `stateful_reduce` | four rows: two equal values, one other, one error; one grouping error, one failing init |
| `relational` | two left keys, one right key, join values {1, 2} plus error and none |
| `arrow_roundtrip` | `MaxRows = 2`, `MaxLen = 2` (7,333 states) |
| `stream_roundtrip` | two keys, two values (29,273 states) |

Why these bounds are enough:

- **`output_sink`.** Three batches over three times give a batch after a commit, two batches at one time, a replayed batch next to a new one, a commit overtaking queued batches, and a failure in the middle of a batch.
- **`nondet_expr`.** Two keys allow a delete and a reinsert of one key next to another key in one batch; two restarts allow a restart before the first replay is consumed.
- **`driver`, `subscribe`.** Two (three) workers give every race the properties depend on: a peer's panic, a late check of `failed`, an unpark before a park, a worker behind the others.
- **`update_rows`, `relational`.** Multiplicity 2 and two left keys produce duplicate keys and duplicate matches.
- **`arrow_roundtrip`.** Two rows of up to two elements give empty lists, null rows next to non-null ones, and offsets that differ from the row index.
- **`stream_roundtrip`.** Two keys let a batch hold changes of two keys and a key's insertion and deletion together.

### Fairness

`output_sink` assumes weak fairness of the output thread and of `SendCommit`:
the output thread is an OS thread that blocks only in `recv()`, and a running
dataflow keeps advancing its frontier, ending with the empty frontier.

`driver` assumes weak fairness of each worker's `Check`, `Step` and `Finish`,
of the connector thread's report and end, and of the main thread's receive,
stop and join: OS threads that are not blocked when the action is enabled.
Nothing is assumed of timely activity (`Wake`), writer errors or callbacks.

`error_log` assumes weak fairness of the clock (`Tick`), the worker loop's
iteration, each operator's completion and the session drop; `subscribe` of each worker's batch and notify steps: the
worker loop keeps stepping its operators.

Deadlock checking is off where the system legitimately stops: the output
thread has ended, every worker has parked or ended, the loop has ended, all
rows have arrived, or a column is full.

## Proofs (checked by tlapm)

`OutputSinkProofs`:

- `TypeCorrect`: `Spec => []TypeOK`. It rests on the step lemma `TypeStep` and on `SeqElem`.
- `FinalizedSafe`: `Spec => []FinalizedCoversDurable`, for every `MaxTime`, `MaxBatches`, `MaxEntries`, `ReplayTimes` and `HasStorage` allowed by `OutputSinkAssumption`.

`FinalizedCoversDurable` is not inductive on its own: a commit in the channel
may carry a time larger than some queued batch. The inductive invariant
`IInv` adds four facts:

| Conjunct | What it says |
|---|---|
| `ChanMatchesSent` | the batch events in the channel are the sent batches with their ids |
| `FrontierBounds` | the finalized time and every queued commit are at most the frontier |
| `ChanOrdered` | every queued batch's time is at least the finalized time, and at least that of every commit queued before it |
| `Accounted` | each owed batch is durable, still in the channel, or the thread has failed and its time is at least the finalized time |

A commit's time becomes the finalized time only when every batch before it
in the FIFO has been handled, each either flushed by `output_batch`'s
trailing flush or having stopped the thread; a stopped thread takes no more
commits. The proof is one lemma per action.

`OutputSinkProofs` also proves the refinement:

- `Refinement`: `Spec => ImplementsSinkLog`, for every value of the constants.

It strengthens `IInv` into `RInv` with two more facts: nothing is buffered
while the thread waits in `recv` (`NoBufferWhileRecv`), and the queued
commits are not before the finalized time and are nondecreasing
(`CommitsOrdered`). From these, `CoveredBefore` shows that a commit at the
head of the channel finalizes a covered time, and `AllCovered` that an
empty channel leaves nothing owed undelivered. The step lemma `RefineStep`
maps `SendBatch` to `Emit` (`SendBatchRefines`), each receive to `Deliver`
(`RecvBatchRefines`, `RecvCommitRefines`, `RecvDisconnectedRefines`) and the
other steps to stutters (`DataflowStutters`); the theorem combines it with
`InitRInv` and `NextRInv` by PTL. `RInv` was checked by TLC as an invariant,
with and without storage, before it was proved.

`DriverProofs`:

- `DriverTypeCorrect`: the error channel never holds more than one error.
- `RootCauseSafe`: `Spec => []ReturnsRootCause`, for every non-empty set of workers.

The inductive invariant adds `SlotRoot` (while the main thread selects,
`failed` is false and a queued error is a root cause), `DeadReceiverCovered`
(a worker that can still step while its receiver is gone is covered by an
error already queued or taken) and `ResultRoot`.

`DriverProofs` also proves `OkMeansNoErrorSafe`: `Spec => []OkMeansNoError`.
Its invariant `OInv` adds `ReportedQueued` (while the main thread selects,
a reported error is still in the channel) and `QuietAfterDisconnect`
(once the channel is disconnected, no error was reported and every worker
has ended, all of them Ok when the driver returns Ok).

`OutputSinkProofs` also proves `DeliveredSafe`: `Spec => []DoneImpliesDelivered`.
Its invariant `DInv` is `IInv` and `DoneNoBatch`: a finished output thread
has no batch left in the channel, and the dataflow no longer sends one.

`NonDetExprProofs`:

- `OutputMatchesInputSafe`: `Spec => []OutputMatchesInput`.
- `NeverPanicsSafe`: `Spec => []NeverPanics`, for every set of keys and values.
- `NonDetExprTypeCorrect`: `Spec => []TypeOK`, a conjunct of `NInv`.

The invariant `NInv` states that the output is the image of the present
rows under the cache (`ImageOf`), and absent keys have no cached value
unless the expression is append-only. While a replay is pending, the cache
is empty and the output is the image under some results. The snapshot is
always such an image too. A deleted key then always has a cached value, so
`Evaluate` takes no panic branch. Each action is one lemma. `EvaluateBatch`
picks the batch and results, and `EmitAt` computes the emitted multiset at a
key.

`SubscribeProofs`:

- `FinalizedAfterCallbacksSafe` and `LeaderAfterWorkersSafe`, for every set of workers and `MaxTime`.
- `SubscribeTypeCorrect`: `Spec => []TypeOK`, a conjunct of `SInv`.

`SInv` says:

- every worker's seen frontier is at most every worker's `done`;
- `finalized[w] <= seen[w]`;
- every notified time is at most the leader's seen frontier, which is `Empty` once `on_end` ran.

`ErrorLogProofs`:

- `NoRecordLeftBehindSafe`, for every set of operators, errors and flush period.
- `ErrorLogTypeCorrect`: `Spec => []TypeOK`, a conjunct of `LInv`.

`LInv` adds `ClosedStaysEmpty`: once the session is dropped, its buffer is
empty, the flushers are cleared and every operator holding the log has
finished. So a later `inner_log` only prints. `DoneAfterDrop` adds that the
loop ends only after the drop.

`UpdateRowsProofs`:

- `UpdateCellsKeepsUniverseSafe` and `RowsCellsAgreeSafe`, for every set of keys and payloads and every `MaxMult`.
- `UpdateRowsTypeCorrect`: `Spec => []TypeOK`, a conjunct of `RInv`.

`RInv` adds `OutputsCurrent`: each output is the reducer's result on the
current inputs. The reducers rerun for the key that changed, and a result
depends only on its key's input (`ResultsLocal`). The properties are then
facts about one key's reducer results (`CellsUniverse`, `CellsAgreeRows`).
`UpdateRowsAssumption` states that `NoRow` is neither a payload nor a pair
of cells. That is the `None` of the reducer's `Option`.

`StreamsProofs`:

- `RoundTripSafe`: `Spec => []RoundTrip`. `TypeOK /\ RoundTrip` is inductive.
- `StreamsTypeCorrect`: `Spec => []TypeOK`, a conjunct of `SInv`.

`RoundTrip`'s step rests on lemmas about `table_to_stream`:

- the sort keeps a changed key's insertion, or its deletion if it has no new row (`FirstEntryIns`, `FirstEntryDel`);
- the stream has exactly one row per changed key (`StreamKeys`, `StreamRows`, `StreamCovers`).

So any choice of the row the arrangement applies last gives the new row.

`MergeSInv` shows that `merge_streams_to_table` leaves the streamed table
alone and keeps the merged table's values typed (`PrepareFacts`).

`StatefulReduceProofs`:

- `StatefulReduceTypeCorrect`, `DedupKeepsAcceptedSafe`, `ErrorPoisonsGroupSafe` and `EarliestIsFirstMinSafe`: every invariant of the `stateful_reduce` run, for every finite non-empty set of source keys and every value of the other constants.
- `EarliestOutputStableHolds`: the action property `EarliestOutputStable`. Once `earliest()` has a state, no step changes the output, because the retraction and the insertion of the same row cancel.

The properties are not inductive on their own. `RInv` adds five conjuncts:

| Conjunct | What it says | Why it is needed |
|---|---|---|
| `OutputIsState` | the output holds exactly the key's state, once | `DedupKeepsAccepted` is about the output, and the output follows the state only through `Emit`'s retraction |
| `EmptyBeforeFirst` | the key has no state before its first batch | `earliest()` takes the first batch's value only because it starts from `None` |
| `HistNonEmpty` | every batch handed to the logic has a row | a state taken from a batch is a value, never `None` |
| `DedupState` | `deduplicate`'s state is combine_fn's last accepted result | the output follows `accepted` only through `st` |
| `GenericPoisoned` | a poisoned generic reducer has an error row or a failing `init` in its group | the generic reducer recomputes from all rows, so it stays `Value::Error` only because that row stays |

`StepRInv` proves that one step keeps `RInv`, with one step per conjunct.
`NewState` unfolds the step for each reducer kind. `min_by_key` and
`max_by_key` find a row (`MinIn`, `MaxIn`). These two lemmas are proved
without induction: `MinIn` uses the well-foundedness of `<` on `Nat`
(`NatLessThanWellFounded`, `WFMin`). `MaxIn` uses well-foundedness of strict
inclusion on the subsets of a finite set
(`FS_StrictSubsetOrderingWellFounded`), applied to the sets
`{z \in S : z >= m}`. `CountIn` bounds the count by `Cardinality(SrcKeys)`.

Every inductive invariant above was checked by TLC as an invariant of the
run's cfg before it was proved.

What stays with TLC:

- **Liveness**: `Terminates`, `ErrorShutsDown`, `RecordsReachTable`, `EndsUnlessFailed`. The prover does not handle fairness or ENABLED.
- **`Arrow`.** Its operators are RECURSIVE over nested types, which puts the module out of the prover's reach.
- **`Join` and `Relational`: `TypeOK`, `JoinMatchesReference`, `SubtractIntersectSplit`, `OverrideHasNewKeys`.** These are only model-checked. The join and `restrict_or_override_table_universe` go through `ZMap`, whose counts are `SumFunctionOnSet`, a fold. What a fold computes for every input needs induction over data, which the provers cannot do here. `SubtractIntersectSplit` uses no fold and is within the provers' reach, but it is not proved in this development.

## Hazards

`PROJECT.json` lists each hazard at its line, with the properties that
catch it: among them the commit recorded before the flush (4123), the
per-batch flush that the comment calls removable (4041), partial batch
writes (4026), `RecvError` treated as `Ok` (4134), sends after the output
thread has died (4151), the cache assertions across restarts (1629, 1664,
1697), the single-slot error channel (172), the `failed` flag and unpark
(6381), error-log flush timing (621), the final flush at the session drop
(6427), subscribe's finalized time (4283), deduplicate's kept state on error
(3601), the upsert order of a key's updates (3036), and the list offsets and validity of Arrow (199,
227). Two have no property: the `i32` overflow of Arrow's offsets (224),
beyond two-row columns, and whether earliest and latest only see insertions
(3294), which is decided outside these sources. Two more have no property:
which of a key's insertion and deletion wins in the merged streams (4497),
which nothing states, and the dropped retractions (4474), where the only
statement would restate `Prepare`.

## Not modelled

- **Most relational operators** (ix, flatten, sort, concat, reindex, filter, iterate, buffer, forget, freeze, gradual_broadcast). Their logic sits in operators outside this repository, or is a single map or filter.
- **The persistence wrapper.** It is external. Only its snapshot and restart behaviour is modelled, as seen by `NonDetExpr`.
- **Input connectors and sessions.** Reading threads of external connectors.
- **Universe, column and table bookkeeping.** Data plumbing between handles.
- **Arrow's other arms.** Float, String, Bytes and the timestamp arms differ from the Int arm only in Rust types; `Type::Array` (ndarray shape and contents) and `construct_schema`'s metadata are not modelled.
- **Test helpers.** They are not part of the system.
- **Statistics, formatting and logging** in the modelled components.
