----------------------------- MODULE OutputSink -----------------------------
(***************************************************************************)
(* The output path of DataflowGraphInner::output_table (engine/dataflow.rs)*)
(* for one worker that does output.  The dataflow side (the inspect_core   *)
(* closure) sends OutputEvent::Batch for every consolidated batch and      *)
(* OutputEvent::Commit(frontier) whenever the output frontier advances,    *)
(* over an unbounded mpsc channel, to a dedicated output thread.  That     *)
(* thread writes each entry of a batch through the formatter and the       *)
(* writer (with retries), flushes the writer after every batch, and on a   *)
(* commit records the sink's finalized time in the worker's persistent     *)
(* storage before flushing (finally, for Commit(None)).                    *)
(*                                                                         *)
(* Data is abstracted: a batch is its id, its time and its number of       *)
(* entries; an entry is the pair <<batch id, position>>.  The empty        *)
(* frontier (Commit(None)) is the time NoTime, one past every data time.   *)
(***************************************************************************)
EXTENDS Naturals, Sequences

CONSTANTS
    MaxTime,      \* data times are 0..MaxTime
    MaxBatches,   \* bound on the number of batches the dataflow emits
    MaxEntries,   \* bound on the number of entries of one batch
    ReplayTimes,  \* times for which Timestamp::is_from_persistence() holds
    HasStorage    \* whether the graph has a worker persistent storage

ASSUME OutputSinkAssumption ==
    /\ MaxTime \in Nat
    /\ MaxBatches \in Nat
    /\ MaxEntries \in Nat \ {0}
    /\ ReplayTimes \subseteq 0..MaxTime
    /\ HasStorage \in BOOLEAN

Times == 0..MaxTime
NoTime == MaxTime + 1          \* the empty frontier, Commit(None)
Frontiers == 0..NoTime
BatchIds == 1..MaxBatches

Batch == [time : Times, n : 1..MaxEntries]
BatchEvent == [kind : {"Batch"}, id : BatchIds, time : Times, n : 1..MaxEntries]
CommitEvent == [kind : {"Commit"}, time : Frontiers]
Entry == BatchIds \X (1..MaxEntries)

VARIABLES
    frontier,     \* the output frontier the inspect_core closure has reported
    senderAlive,  \* the channel's Sender is still owned by the dataflow
    chan,         \* the mpsc channel: a FIFO of OutputEvents
    sent,         \* the batches handed to the channel, indexed by batch id
    outPc,        \* the output thread: "recv", "done" (Ok) or "failed" (Err)
    buffered,     \* entries written to the writer and not yet flushed
    durable,      \* entries the writer has flushed
    finalized     \* the sink's finalized time in persistent storage

vars == <<frontier, senderAlive, chan, sent, outPc, buffered, durable, finalized>>

\* The entries of a batch event, and whether output_batch skips the entries
\* at a time because they were written in an earlier run
\* (time.is_from_persistence() && worker_persistent_storage.is_some()).
Entries(e) == {<<e.id, i>> : i \in 1..e.n}
Skipped(t) == HasStorage /\ t \in ReplayTimes

TypeOK ==
    /\ frontier \in Frontiers
    /\ senderAlive \in BOOLEAN
    /\ chan \in Seq(BatchEvent \cup CommitEvent)
    /\ sent \in Seq(Batch)
    /\ outPc \in {"recv", "done", "failed"}
    /\ buffered \subseteq Entry
    /\ durable \subseteq Entry
    /\ finalized \in Frontiers

Init ==
    /\ frontier = 0
    /\ senderAlive = TRUE
    /\ chan = <<>>
    /\ sent = <<>>
    /\ outPc = "recv"
    /\ buffered = {}
    /\ durable = {}
    /\ finalized = 0

-----------------------------------------------------------------------------
(* The dataflow side: the inspect_core closure of output_table.            *)

\* Mutant: batches sent past the bound of batch ids.
SendBatchUnbounded ==
    /\ senderAlive
    /\ \E t \in frontier..MaxTime, n \in 1..MaxEntries :
         /\ sent' = Append(sent, [time |-> t, n |-> n])
         /\ chan' = Append(chan, [kind |-> "Batch", id |-> Len(sent) + 1, time |-> t, n |-> n])
    /\ UNCHANGED <<frontier, senderAlive, outPc, buffered, durable, finalized>>

\* Ok((time, batches)): a consolidated batch at a time not behind the
\* frontier is sent to the output thread.
SendBatch ==
    /\ senderAlive
    /\ Len(sent) < MaxBatches
    /\ \E t \in frontier..MaxTime, n \in 1..MaxEntries :
         /\ sent' = Append(sent, [time |-> t, n |-> n])
         /\ chan' = Append(chan, [kind |-> "Batch", id |-> Len(sent) + 1, time |-> t, n |-> n])
    /\ UNCHANGED <<frontier, senderAlive, outPc, buffered, durable, finalized>>

\* Err(frontier): the frontier advanced; Commit(frontier.first()) is sent.
SendCommit ==
    /\ senderAlive
    /\ frontier < NoTime
    /\ \E f \in frontier + 1..NoTime :
         /\ frontier' = f
         /\ chan' = Append(chan, [kind |-> "Commit", time |-> f])
    /\ UNCHANGED <<senderAlive, sent, outPc, buffered, durable, finalized>>

\* The dataflow is dropped once the computation is over, or while unwinding
\* after another worker failed; either way the Sender goes with it.
DropSender ==
    /\ senderAlive
    /\ senderAlive' = FALSE
    /\ UNCHANGED <<frontier, chan, sent, outPc, buffered, durable, finalized>>

-----------------------------------------------------------------------------
(* The output thread: one iteration of its loop per received event.        *)

\* Mutant: output_batch without its trailing data_sink.flush(false), so the
\* batch stays buffered until the next commit's flush.
RecvBatchNoFlush ==
    /\ outPc = "recv"
    /\ chan # <<>>
    /\ Head(chan).kind = "Batch"
    /\ chan' = Tail(chan)
    /\ LET b == Head(chan)
           written == IF Skipped(b.time) THEN {} ELSE Entries(b)
       IN  \/ /\ buffered' = buffered \cup written
              /\ durable' = durable
              /\ outPc' \in {"recv", "failed"}
           \/ \E k \in 1..b.n :
                 /\ ~Skipped(b.time)
                 /\ buffered' = buffered \cup {<<b.id, i>> : i \in 1..k - 1}
                 /\ durable' = durable
                 /\ outPc' = "failed"
    /\ UNCHANGED <<frontier, senderAlive, sent, finalized>>

\* OutputEvent::Batch: output_batch writes every entry that is not skipped,
\* in order; the first write that still fails after its retries ends the
\* thread with the earlier entries written and unflushed.  Otherwise it ends
\* with data_sink.flush(false), which may fail too.
RecvBatch ==
    /\ outPc = "recv"
    /\ chan # <<>>
    /\ Head(chan).kind = "Batch"
    /\ chan' = Tail(chan)
    /\ LET b == Head(chan)
           written == IF Skipped(b.time) THEN {} ELSE Entries(b)
       IN  \/ /\ durable' = durable \cup buffered \cup written
              /\ buffered' = {}
              /\ outPc' = "recv"
           \/ /\ buffered' = buffered \cup written
              /\ durable' = durable
              /\ outPc' = "failed"
           \/ \E k \in 1..b.n :
                 /\ ~Skipped(b.time)
                 /\ buffered' = buffered \cup {<<b.id, i>> : i \in 1..k - 1}
                 /\ durable' = durable
                 /\ outPc' = "failed"
    /\ UNCHANGED <<frontier, senderAlive, sent, finalized>>

\* commit_output_time: the sink's finalized time after a commit of t; it is
\* recorded only when the graph has persistent storage.
CommitOutputTime(t) == IF HasStorage THEN t ELSE finalized

\* Mutant: Commit(None) handled like any other commit, the loop not broken.
RecvCommitNoBreak ==
    /\ outPc = "recv"
    /\ chan # <<>>
    /\ Head(chan).kind = "Commit"
    /\ chan' = Tail(chan)
    /\ finalized' = CommitOutputTime(Head(chan).time)
    /\ \/ /\ durable' = durable \cup buffered
          /\ buffered' = {}
          /\ outPc' = "recv"
       \/ /\ UNCHANGED <<buffered, durable>>
          /\ outPc' = "failed"
    /\ UNCHANGED <<frontier, senderAlive, sent>>

\* OutputEvent::Commit(t): commit_output_time records t as the sink's
\* finalized time (when there is persistent storage), then
\* data_sink.flush(t.is_none()); Commit(None) ends the loop with Ok.
RecvCommit ==
    /\ outPc = "recv"
    /\ chan # <<>>
    /\ Head(chan).kind = "Commit"
    /\ chan' = Tail(chan)
    /\ finalized' = CommitOutputTime(Head(chan).time)
    /\ \/ /\ durable' = durable \cup buffered
          /\ buffered' = {}
          /\ outPc' = IF Head(chan).time = NoTime THEN "done" ELSE "recv"
       \/ /\ UNCHANGED <<buffered, durable>>
          /\ outPc' = "failed"
    /\ UNCHANGED <<frontier, senderAlive, sent>>

\* Mutant: the disconnection seen while events are still queued.
RecvDisconnectedEarly ==
    /\ outPc = "recv"
    /\ ~senderAlive
    /\ outPc' = "done"
    /\ UNCHANGED <<frontier, senderAlive, chan, sent, buffered, durable, finalized>>

\* Err(RecvError): the channel is empty and its Sender is gone.
RecvDisconnected ==
    /\ outPc = "recv"
    /\ chan = <<>>
    /\ ~senderAlive
    /\ outPc' = "done"
    /\ UNCHANGED <<frontier, senderAlive, chan, sent, buffered, durable, finalized>>

Dataflow == SendBatch \/ SendCommit \/ DropSender
OutputThread == RecvBatch \/ RecvCommit \/ RecvDisconnected

Next == Dataflow \/ OutputThread

\* The output thread is scheduled by the OS and blocks only in recv(); the
\* dataflow advances its frontier while the computation runs.
Fairness == WF_vars(OutputThread) /\ WF_vars(SendCommit)

Spec == Init /\ [][Next]_vars /\ Fairness

-----------------------------------------------------------------------------
(* Properties.                                                             *)

\* The entries of the batches the dataflow emitted at times before t that
\* this run has to write (those replayed from persistence are not).
OwedBefore(t) ==
    UNION {Entries([id |-> j, n |-> sent[j].n]) :
             j \in {k \in 1..Len(sent) : sent[k].time < t /\ ~Skipped(sent[k].time)}}

\* A finalized time recorded in persistent storage for the sink is a promise
\* that all output before it is in the sink: every emitted entry with a time
\* below the finalized time has been flushed (commit_output_time runs before
\* the flush of its own Commit, so this rests on the per-batch flush).
FinalizedCoversDurable == OwedBefore(finalized) \subseteq durable

\* When the output thread ends with Ok (Commit(None) or a disconnected
\* channel), everything the dataflow sent it has been flushed to the sink.
DoneImpliesDelivered == outPc = "done" => OwedBefore(NoTime) \subseteq durable

\* The sink log the connector implements: the entries of every sent batch
\* the run has to write, at the batch's time; the output thread's state as
\* the connector's status.
OwedLog ==
    UNION {Entries([id |-> j, n |-> sent[j].n]) \X {sent[j].time} :
             j \in {k \in 1..Len(sent) : ~Skipped(sent[k].time)}}
SinkStatus == IF outPc = "recv" THEN "running" ELSE outPc

Log == INSTANCE SinkLog WITH EntryIds <- Entry, owed <- OwedLog, status <- SinkStatus

\* output_table implements the sink log: batches are only owed at times not
\* behind the recorded finalized time, the thread writes only entries of
\* sent batches, commit_output_time only records a time before which all
\* owed output is flushed and never moves it back, nothing is written after
\* the thread ends, and an Ok end comes only with every owed entry flushed.
ImplementsSinkLog == Log!Spec

\* The output thread does not run forever: once the dataflow stops sending,
\* it ends, with Ok or with the writer's error.
Terminates == <>(outPc \in {"done", "failed"})

=============================================================================
