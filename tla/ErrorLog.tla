------------------------------- MODULE ErrorLog -------------------------------
(***************************************************************************)
(* The error log of one worker (engine/dataflow.rs): ErrorLogInner,        *)
(* ErrorLog, ErrorLogger, create_error_logger, and the part of the worker  *)
(* loop of run_with_new_dataflow_graph that calls the log's flusher.       *)
(*                                                                         *)
(* Operators log errors through an ErrorLogger.  Unless the error is       *)
(* ErrorInValue or the operator depends on the error-log table, the record *)
(* is inserted into the log's input session, and maybe_flush runs.        *)
(* maybe_flush hands the buffered records to the dataflow only when        *)
(* ERROR_LOG_FLUSH_PERIOD has passed since the last flush.  The worker     *)
(* loop calls the same maybe_flush through its flusher on every iteration  *)
(* until its pollers are gone; then it clears the flushers, and the last   *)
(* records are flushed when the input session is dropped, which happens   *)
(* when no operator holds an ErrorLogger on it any more.  The log table's  *)
(* input closes at that drop, so an operator reading the log table can     *)
(* only finish after it.                                                   *)
(*                                                                         *)
(* The wall clock is abstracted to the time since the last flush,          *)
(* saturated at the period: maybe_flush only compares it with the period.  *)
(***************************************************************************)
EXTENDS Naturals

CONSTANTS
    Ops,            \* the operators that own an ErrorLogger
    DependsOnLog,   \* operators with depends_on_error_log set
    Errors,         \* error records (each logged once: Key::random())
    ErrorInValue,   \* the errors that are DataError::ErrorInValue
    Period          \* ERROR_LOG_FLUSH_PERIOD, in clock ticks

ASSUME ErrorLogAssumption ==
    /\ DependsOnLog \subseteq Ops
    /\ ErrorInValue \subseteq Errors
    /\ Period \in Nat \ {0}

VARIABLES
    elapsed,     \* now - last_flush, saturated at Period
    buffered,    \* records inserted into the input session, not flushed
    flushed,     \* records handed to the dataflow (the log table)
    raised,      \* history: the errors the operators have logged
    pollersLeft, \* the worker still has pollers
    flushersOn,  \* the worker's flushers vector still holds the log's flusher
    opDone,      \* the operator has completed and been dropped
    sessionOpen, \* the log's InputSession is alive
    loopDone     \* step_or_park returned false: the worker loop ended

vars == <<elapsed, buffered, flushed, raised, pollersLeft, flushersOn,
          opDone, sessionOpen, loopDone>>

TypeOK ==
    /\ elapsed \in 0..Period
    /\ buffered \subseteq Errors /\ flushed \subseteq Errors
    /\ raised \subseteq Errors
    /\ pollersLeft \in BOOLEAN /\ flushersOn \in BOOLEAN
    /\ opDone \in [Ops -> BOOLEAN]
    /\ sessionOpen \in BOOLEAN /\ loopDone \in BOOLEAN

\* create_error_logger: an operator that depends on the error log gets no log.
HoldsLogAlways(op) == TRUE
HoldsLog(op) == op \notin DependsOnLog

\* ErrorLogInner::new ends with maybe_flush, which flushes (last_flush is None).
Init ==
    /\ elapsed = 0
    /\ buffered = {} /\ flushed = {} /\ raised = {}
    /\ pollersLeft = TRUE /\ flushersOn = TRUE
    /\ opDone = [op \in Ops |-> FALSE]
    /\ sessionOpen = TRUE /\ loopDone = FALSE

\* maybe_flush with buf in the session: when the period has passed it sets
\* last_flush, advances the session's time and flushes.
MaybeFlushNoFlush(buf) ==
    IF elapsed >= Period
    THEN elapsed' = 0 /\ buffered' = buf /\ flushed' = flushed
    ELSE elapsed' = elapsed /\ buffered' = buf /\ flushed' = flushed
MaybeFlush(buf) ==
    IF elapsed >= Period
    THEN elapsed' = 0 /\ buffered' = {} /\ flushed' = flushed \cup buf
    ELSE elapsed' = elapsed /\ buffered' = buf /\ flushed' = flushed

\* The flusher closure that error_log registers: ErrorLog::maybe_flush.
Flusher == MaybeFlush(buffered)

\* The wall clock moves on.
TickUnsaturated ==
    /\ elapsed' = elapsed + 1
    /\ UNCHANGED <<buffered, flushed, raised, pollersLeft, flushersOn,
                   opDone, sessionOpen, loopDone>>
Tick ==
    /\ elapsed < Period
    /\ elapsed' = elapsed + 1
    /\ UNCHANGED <<buffered, flushed, raised, pollersLeft, flushersOn,
                   opDone, sessionOpen, loopDone>>

\* ErrorLogger::inner_log inside a running operator: ErrorInValue is not
\* logged, and an operator without a log only prints the error; otherwise
\* ErrorLog::insert puts the record in the session and calls maybe_flush.
LogError(op, e) ==
    /\ ~opDone[op]
    /\ e \notin raised
    /\ raised' = raised \cup {e}
    /\ IF e \in ErrorInValue \/ ~HoldsLog(op)
       THEN UNCHANGED <<elapsed, buffered, flushed>>
       ELSE MaybeFlush(buffered \cup {e})
    /\ UNCHANGED <<pollersLeft, flushersOn, opDone, sessionOpen, loopDone>>

\* One iteration of the worker loop: every flusher runs maybe_flush, the
\* pollers are polled (and may all finish), the flushers are cleared when
\* no poller is left, and step_or_park returns false once the dataflow,
\* whose error-log input closes with the session, is complete.
Iteration ==
    /\ ~loopDone
    /\ IF flushersOn THEN Flusher
                     ELSE UNCHANGED <<elapsed, buffered, flushed>>
    /\ pollersLeft' \in IF pollersLeft THEN BOOLEAN ELSE {FALSE}
    /\ flushersOn' = (flushersOn /\ pollersLeft')
    /\ loopDone' = ((\A op \in Ops : opDone[op]) /\ ~sessionOpen)
    /\ UNCHANGED <<raised, opDone, sessionOpen>>

\* An operator completes once its inputs are closed: the connectors' once
\* the pollers are gone, and the error-log table's once the session is
\* dropped; timely then drops the operator and its ErrorLogger.
OpFinish(op) ==
    /\ ~opDone[op]
    /\ ~pollersLeft
    /\ op \in DependsOnLog => ~sessionOpen
    /\ opDone' = [opDone EXCEPT ![op] = TRUE]
    /\ UNCHANGED <<elapsed, buffered, flushed, raised, pollersLeft,
                   flushersOn, sessionOpen, loopDone>>

\* The last Rc of the ErrorLog goes (flushers cleared, every holder
\* dropped): dropping the InputSession flushes it and closes its input.
SessionDropNoFlush ==
    /\ sessionOpen /\ ~flushersOn
    /\ \A op \in Ops : HoldsLog(op) => opDone[op]
    /\ sessionOpen' = FALSE
    /\ UNCHANGED <<elapsed, buffered, flushed, raised, pollersLeft,
                   flushersOn, opDone, loopDone>>
SessionDrop ==
    /\ sessionOpen /\ ~flushersOn
    /\ \A op \in Ops : HoldsLog(op) => opDone[op]
    /\ sessionOpen' = FALSE
    /\ flushed' = flushed \cup buffered
    /\ buffered' = {}
    /\ UNCHANGED <<elapsed, raised, pollersLeft, flushersOn, opDone, loopDone>>

Next ==
    \/ Tick
    \/ \E op \in Ops, e \in Errors : LogError(op, e)
    \/ Iteration
    \/ \E op \in Ops : OpFinish(op)
    \/ SessionDrop

\* Time passes; the loop runs again by the deadline the flusher returned
\* (step_or_park's timeout); timely runs an operator whose inputs closed;
\* the session is dropped with its last holder.  Pollers may run forever.
Fairness ==
    /\ WF_vars(Tick) /\ WF_vars(Iteration) /\ WF_vars(SessionDrop)
    /\ \A op \in Ops : WF_vars(OpFinish(op))

Spec == Init /\ [][Next]_vars /\ Fairness

-----------------------------------------------------------------------------
(* Properties.                                                             *)

\* The worker loop never ends with an error record still in the log's
\* input session: the final flush at the session's drop is not skipped.
NoRecordLeftBehind == loopDone => buffered = {} /\ ~sessionOpen

\* Every record inserted into the error log reaches the log table, also
\* when it was inserted right after a flush (maybe_flush's period check)
\* or after the flushers were cleared.
RecordsReachTable == \A e \in Errors : (e \in buffered) ~> (e \in flushed)

\* Once the pollers are gone the worker loop ends: no operator that reads
\* the log table holds the log's input session open (depends_on_error_log).
Terminates == (~pollersLeft) ~> loopDone

=============================================================================
