-------------------------------- MODULE Driver --------------------------------
(***************************************************************************)
(* The execution driver run_with_new_dataflow_graph (engine/dataflow.rs)   *)
(* and the error path of each worker's output connector thread.            *)
(*                                                                         *)
(* Every worker runs a loop: it panics with "other worker panicked" when   *)
(* the shared failed flag is set, otherwise it steps the dataflow          *)
(* (step_or_park), which may do work, park the thread, find the dataflow   *)
(* complete, or panic.  A panic is caught by catch_unwind, reported to the *)
(* ErrorReporter -- a bounded(1) channel written with try_send -- and      *)
(* resumed.  A completed worker joins its connector threads and finishes.  *)
(* The main thread selects on the error channel and on the wakeup          *)
(* channel; on an error it sets failed, unparks every worker and joins     *)
(* them; when every ErrorReporter is dropped it joins the workers and      *)
(* turns a panicked one into Error::WorkerPanic.                           *)
(*                                                                         *)
(* Each worker has one output connector thread (see OutputSink): it can    *)
(* fail; its error is reported while the channel's receiver is still held *)
(* (with_extra), and the receiver is dropped when the thread ends.  A      *)
(* worker whose dataflow sends to a dropped receiver panics ("sending      *)
(* output batch should not fail").                                         *)
(***************************************************************************)
EXTENDS Naturals, Sequences

CONSTANTS
    Workers,        \* the timely workers
    CallbackFails   \* whether a wakeup callback may return an error

ASSUME DriverAssumption == Workers # {} /\ CallbackFails \in BOOLEAN

\* Errors: a worker's own panic, a connector's writer error, a wakeup
\* callback error (the root causes), a worker's failed send to a dead
\* output thread and "other worker panicked" (the consequences), and
\* Error::WorkerPanic from the join.
RootKinds == {"panic", "conn", "callback"}
Errors == ({"panic", "conn", "send", "other", "workerpanic"} \X Workers)
            \cup {<<"callback", w>> : w \in Workers}
NoError == <<"none", "none">>
Terminal == {"ok", "panicked"}

VARIABLES
    wpc,        \* worker: "top" (loop head), "step", "parked", "joining", "ok", "panicked"
    token,      \* the thread's unpark token (std::thread::park semantics)
    failed,     \* the shared AtomicBool
    cpc,        \* connector thread: "run", "reporting" (closure returned Err), "ended"
    errChan,    \* the bounded(1) error channel
    reported,   \* history: every error handed to ErrorReporter::report
    wakeupOpen, \* wakeup_receiver is still Some
    mpc,        \* main thread: "select", "stopping", "joinErr", "joinOk", "returnedOk", "returnedErr"
    result      \* the error run_with_new_dataflow_graph returns

vars == <<wpc, token, failed, cpc, errChan, reported, wakeupOpen, mpc, result>>

TypeOK ==
    /\ wpc \in [Workers -> {"top", "step", "parked", "joining"} \cup Terminal]
    /\ token \in [Workers -> BOOLEAN]
    /\ failed \in BOOLEAN
    /\ cpc \in [Workers -> {"run", "reporting", "ended"}]
    /\ errChan \in Seq(Errors) /\ Len(errChan) <= 1
    /\ reported \subseteq Errors
    /\ wakeupOpen \in BOOLEAN
    /\ mpc \in {"select", "stopping", "joinErr", "joinOk", "returnedOk", "returnedErr"}
    /\ result \in Errors \cup {NoError}

Init ==
    /\ wpc = [w \in Workers |-> "top"]
    /\ token = [w \in Workers |-> FALSE]
    /\ failed = FALSE
    /\ cpc = [w \in Workers |-> "run"]
    /\ errChan = <<>>
    /\ reported = {}
    /\ wakeupOpen = TRUE
    /\ mpc = "select"
    /\ result = NoError

\* Mutant: a blocking send on an unbounded channel instead of try_send.
ReportUnbounded(e) ==
    /\ errChan' = Append(errChan, e)
    /\ reported' = reported \cup {e}

\* ErrorReporter::report: try_send on the bounded(1) channel; the error is
\* dropped when the channel is full.
Report(e) ==
    /\ errChan' = IF errChan = <<>> THEN <<e>> ELSE errChan
    /\ reported' = reported \cup {e}

\* Mutant: the receiver moved into the closure, dropped as soon as it returns.
ReceiverAliveNoExtra(c) == c = "run"

\* output_table moves the channel's receiver into the thread's reporter
\* (with_extra(receiver)) and reads it through get(): it lives as long as
\* the reporter, which reports the closure's error before it is dropped.
ReceiverAlive(c) == c \in {"run", "reporting"}

-----------------------------------------------------------------------------
(* Worker threads.                                                         *)

\* The loop head: resume_unwind("other worker panicked") once failed is set.
Check(w) ==
    /\ wpc[w] = "top"
    /\ IF failed
       THEN /\ wpc' = [wpc EXCEPT ![w] = "panicked"]
            /\ Report(<<"other", w>>)
       ELSE /\ wpc' = [wpc EXCEPT ![w] = "step"]
            /\ UNCHANGED <<errChan, reported>>
    /\ UNCHANGED <<token, failed, cpc, wakeupOpen, mpc, result>>

\* Pollers, flushers and worker.step_or_park: work was done, the thread
\* parks (returning at once if its unpark token is set), the dataflow is
\* complete (which no worker reaches once a peer has panicked), or a
\* panic: the worker's own, or a send to an output thread that has gone.
Step(w) ==
    /\ wpc[w] = "step"
    /\ \/ /\ wpc' = [wpc EXCEPT ![w] = "top"]
          /\ UNCHANGED <<token, errChan, reported>>
       \/ /\ wpc' = [wpc EXCEPT ![w] = IF token[w] THEN "top" ELSE "parked"]
          /\ token' = [token EXCEPT ![w] = FALSE]
          /\ UNCHANGED <<errChan, reported>>
       \/ /\ \A v \in Workers : wpc[v] # "panicked"
          /\ wpc' = [wpc EXCEPT ![w] = "joining"]
          /\ UNCHANGED <<token, errChan, reported>>
       \/ /\ wpc' = [wpc EXCEPT ![w] = "panicked"]
          /\ Report(<<"panic", w>>)
          /\ UNCHANGED token
       \/ /\ ~ReceiverAlive(cpc[w])
          /\ wpc' = [wpc EXCEPT ![w] = "panicked"]
          /\ Report(<<"send", w>>)
          /\ UNCHANGED token
    /\ UNCHANGED <<failed, cpc, wakeupOpen, mpc, result>>

\* A parked worker woken by timely activity or by its park timeout.
Wake(w) ==
    /\ wpc[w] = "parked"
    /\ \A v \in Workers : wpc[v] # "panicked"
    /\ wpc' = [wpc EXCEPT ![w] = "top"]
    /\ UNCHANGED <<token, failed, cpc, errChan, reported, wakeupOpen, mpc, result>>

\* After the loop: join the connector threads, then finish(res).
Finish(w) ==
    /\ wpc[w] = "joining"
    /\ cpc[w] = "ended"
    /\ wpc' = [wpc EXCEPT ![w] = "ok"]
    /\ UNCHANGED <<token, failed, cpc, errChan, reported, wakeupOpen, mpc, result>>

-----------------------------------------------------------------------------
(* Output connector threads.                                               *)

\* A write or flush fails: the thread's closure returns the error.
ConnFail(w) ==
    /\ cpc[w] = "run"
    /\ cpc' = [cpc EXCEPT ![w] = "reporting"]
    /\ UNCHANGED <<wpc, token, failed, errChan, reported, wakeupOpen, mpc, result>>

\* spawn_with_reporter reports the error; the thread ends.
ConnReport(w) ==
    /\ cpc[w] = "reporting"
    /\ cpc' = [cpc EXCEPT ![w] = "ended"]
    /\ Report(<<"conn", w>>)
    /\ UNCHANGED <<wpc, token, failed, wakeupOpen, mpc, result>>

\* Commit(None) after the dataflow completed, or RecvError after it was
\* dropped by a panic: the thread ends with Ok.
ConnEnd(w) ==
    /\ cpc[w] = "run"
    /\ wpc[w] \in {"joining", "ok", "panicked"}
    /\ cpc' = [cpc EXCEPT ![w] = "ended"]
    /\ UNCHANGED <<wpc, token, failed, errChan, reported, wakeupOpen, mpc, result>>

-----------------------------------------------------------------------------
(* The main thread.                                                        *)

\* recv(error_receiver) -> Ok(error).
MainRecvError ==
    /\ mpc = "select"
    /\ errChan # <<>>
    /\ result' = Head(errChan)
    /\ errChan' = Tail(errChan)
    /\ mpc' = "stopping"
    /\ UNCHANGED <<wpc, token, failed, cpc, reported, wakeupOpen>>

\* Mutant: disconnection taken while an error is still queued.
MainRecvDisconnectedEarly ==
    /\ mpc = "select"
    /\ \A w \in Workers : wpc[w] \in Terminal /\ cpc[w] = "ended"
    /\ mpc' = "joinOk"
    /\ UNCHANGED <<wpc, token, failed, cpc, errChan, reported, wakeupOpen, result>>

\* recv(error_receiver) -> Err(RecvError): the queue is empty and every
\* ErrorReporter (workers' and connector threads') has been dropped.
MainRecvDisconnected ==
    /\ mpc = "select"
    /\ errChan = <<>>
    /\ \A w \in Workers : wpc[w] \in Terminal /\ cpc[w] = "ended"
    /\ mpc' = "joinOk"
    /\ UNCHANGED <<wpc, token, failed, cpc, errChan, reported, wakeupOpen, result>>

\* recv(wakeup_receiver): a callback returns an error, or the channel
\* disconnects and stops being selected.
MainWakeup ==
    /\ mpc = "select"
    /\ wakeupOpen
    /\ \/ /\ CallbackFails
          /\ result' = <<"callback", CHOOSE w \in Workers : TRUE>>
          /\ mpc' = "stopping"
          /\ UNCHANGED wakeupOpen
       \/ /\ wakeupOpen' = FALSE
          /\ UNCHANGED <<mpc, result>>
    /\ UNCHANGED <<wpc, token, failed, cpc, errChan, reported>>

\* Mutant: unpark() that wakes a parked thread but leaves no token.
UnparkAllNoToken ==
    /\ wpc' = [w \in Workers |-> IF wpc[w] = "parked" THEN "top" ELSE wpc[w]]
    /\ UNCHANGED token

\* handle.thread().unpark() for every worker.
UnparkAll ==
    /\ wpc' = [w \in Workers |-> IF wpc[w] = "parked" THEN "top" ELSE wpc[w]]
    /\ token' = [w \in Workers |-> wpc[w] # "parked"]

\* Err(error): failed_2.store(true), unpark every worker.
MainStop ==
    /\ mpc = "stopping"
    /\ failed' = TRUE
    /\ UnparkAll
    /\ mpc' = "joinErr"
    /\ UNCHANGED <<cpc, errChan, reported, wakeupOpen, result>>

\* drop(guards.join()): every worker has ended; return Err(error).
MainJoinErr ==
    /\ mpc = "joinErr"
    /\ \A w \in Workers : wpc[w] \in Terminal
    /\ mpc' = "returnedErr"
    /\ UNCHANGED <<wpc, token, failed, cpc, errChan, reported, wakeupOpen, result>>

\* guards.join() mapped through Error::WorkerPanic.
MainJoinOk ==
    /\ mpc = "joinOk"
    /\ \A w \in Workers : wpc[w] \in Terminal
    /\ IF \E w \in Workers : wpc[w] = "panicked"
       THEN /\ result' = <<"workerpanic", CHOOSE w \in Workers : wpc[w] = "panicked">>
            /\ mpc' = "returnedErr"
       ELSE /\ mpc' = "returnedOk"
            /\ UNCHANGED result
    /\ UNCHANGED <<wpc, token, failed, cpc, errChan, reported, wakeupOpen>>

Worker(w) == Check(w) \/ Step(w) \/ Wake(w) \/ Finish(w)
Connector(w) == ConnFail(w) \/ ConnReport(w) \/ ConnEnd(w)
Main == MainRecvError \/ MainRecvDisconnected \/ MainWakeup \/ MainStop
        \/ MainJoinErr \/ MainJoinOk

Next == Main \/ \E w \in Workers : Worker(w) \/ Connector(w)

\* Worker, connector and main threads are OS threads; a thread that is
\* not blocked keeps running.  Nothing is assumed of Wake, ConnFail or
\* MainWakeup: timely activity, writer errors and callbacks may never come.
Fairness ==
    /\ \A w \in Workers : /\ WF_vars(Check(w)) /\ WF_vars(Step(w)) /\ WF_vars(Finish(w))
                          /\ WF_vars(ConnReport(w)) /\ WF_vars(ConnEnd(w))
    /\ WF_vars(MainRecvError \/ MainRecvDisconnected \/ MainStop \/ MainJoinErr \/ MainJoinOk)

Spec == Init /\ [][Next]_vars /\ Fairness

-----------------------------------------------------------------------------
(* Properties.                                                             *)

\* Spec section 5: the bounded ErrorReporter "carries the first fatal
\* error" -- an error returned by the driver is a root cause (a worker's
\* panic, a writer error, a callback error), never a consequence of one:
\* "other worker panicked" or a failed send to a dead output thread.
ReturnsRootCause ==
    mpc = "returnedErr" => result[1] \in RootKinds \cup {"workerpanic"}

\* run_with_new_dataflow_graph returns Ok only when no error was ever
\* reported: one reported error always reaches the main thread.
OkMeansNoError ==
    mpc = "returnedOk" => reported = {} /\ \A w \in Workers : wpc[w] = "ok"

\* Once an error is reported, the driver returns it and every worker
\* thread has ended: no worker stays parked through the shutdown.
ErrorShutsDown ==
    (reported # {}) ~> (mpc = "returnedErr" /\ \A w \in Workers : wpc[w] \in Terminal)

=============================================================================
