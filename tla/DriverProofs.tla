----------------------------- MODULE DriverProofs -----------------------------
(***************************************************************************)
(* Proofs about the execution driver: type correctness, and that the      *)
(* error run_with_new_dataflow_graph returns is a root cause.              *)
(***************************************************************************)
EXTENDS Driver, TLAPS

\* The error slot, while the main thread still selects on it, holds a root
\* cause: no consequence can be reported before the main thread has taken
\* the first error.
SlotRoot ==
    mpc = "select" => /\ ~failed
                      /\ errChan # <<>> => errChan[1][1] \in RootKinds

\* A worker whose output receiver is gone and that may still step is
\* covered by an error already queued or taken.
DeadReceiverCovered ==
    \A w \in Workers :
        (~ReceiverAlive(cpc[w]) /\ wpc[w] \in {"top", "step", "parked"})
            => (errChan # <<>> \/ mpc # "select")

\* The error the main thread holds once it has left the select loop.
ResultRoot ==
    mpc \in {"stopping", "joinErr", "returnedErr"} =>
        result[1] \in RootKinds \cup {"workerpanic"}

IInv == TypeOK /\ SlotRoot /\ DeadReceiverCovered /\ ResultRoot

USE DriverAssumption DEF RootKinds, Errors, NoError, Terminal

\* A try_send keeps the slot a sequence of at most one error.
LEMMA ReportType ==
    ASSUME TypeOK, NEW e \in Errors, Report(e)
    PROVE  errChan' \in Seq(Errors) /\ Len(errChan') <= 1 /\ reported' \subseteq Errors
  BY DEF Report, TypeOK

\* Every step keeps the variables in their types.
LEMMA TypeStep == TypeOK /\ [Next]_vars => TypeOK'
<1> SUFFICES ASSUME TypeOK, [Next]_vars PROVE TypeOK'
  OBVIOUS
<1>1. CASE MainRecvError
  BY <1>1 DEF MainRecvError, TypeOK
<1>2. CASE MainRecvDisconnected
  BY <1>2 DEF MainRecvDisconnected, TypeOK
<1>3. CASE MainWakeup
  BY <1>3 DEF MainWakeup, TypeOK
<1>4. CASE MainStop
  BY <1>4 DEF MainStop, UnparkAll, TypeOK
<1>5. CASE MainJoinErr
  BY <1>5 DEF MainJoinErr, TypeOK
<1>6. CASE MainJoinOk
  BY <1>6 DEF MainJoinOk, TypeOK
<1>7. ASSUME NEW w \in Workers, Check(w) PROVE TypeOK'
  <2>1. CASE failed
    BY <1>7, <2>1, ReportType DEF Check, TypeOK
  <2>2. CASE ~failed
    BY <1>7, <2>2 DEF Check, TypeOK
  <2>3. QED
    BY <2>1, <2>2
<1>8. ASSUME NEW w \in Workers, Step(w) PROVE TypeOK'
  BY <1>8, ReportType DEF Step, TypeOK
<1>9. ASSUME NEW w \in Workers, Wake(w) PROVE TypeOK'
  BY <1>9 DEF Wake, TypeOK
<1>10. ASSUME NEW w \in Workers, Finish(w) PROVE TypeOK'
  BY <1>10 DEF Finish, TypeOK
<1>11. ASSUME NEW w \in Workers, ConnFail(w) PROVE TypeOK'
  BY <1>11 DEF ConnFail, TypeOK
<1>12. ASSUME NEW w \in Workers, ConnReport(w) PROVE TypeOK'
  BY <1>12, ReportType DEF ConnReport, TypeOK
<1>13. ASSUME NEW w \in Workers, ConnEnd(w) PROVE TypeOK'
  BY <1>13 DEF ConnEnd, TypeOK
<1>14. CASE UNCHANGED vars
  BY <1>14 DEF vars, TypeOK
<1>15. QED
  BY <1>1, <1>2, <1>3, <1>4, <1>5, <1>6, <1>7, <1>8, <1>9, <1>10, <1>11,
     <1>12, <1>13, <1>14 DEF Next, Main, Worker, Connector

\* The initial state is well typed.
LEMMA TypeInit == Init => TypeOK
<1> SUFFICES ASSUME Init PROVE TypeOK
  OBVIOUS
<1>1. errChan \in Seq(Errors) /\ Len(errChan) <= 1
  BY DEF Init
<1>2. result \in Errors \cup {NoError}
  BY DEF Init
<1>3. QED
  BY <1>1, <1>2 DEF Init, TypeOK

\* The driver's variables always have their types.
THEOREM DriverTypeCorrect == Spec => []TypeOK
  BY TypeInit, TypeStep, PTL DEF Spec

LEMMA InitIInv == Init => IInv
<1> SUFFICES ASSUME Init PROVE IInv
  OBVIOUS
<1>1. TypeOK
  BY TypeInit
<1>2. SlotRoot /\ DeadReceiverCovered /\ ResultRoot
  BY DEF Init, SlotRoot, DeadReceiverCovered, ResultRoot, ReceiverAlive
<1>3. QED
  BY <1>1, <1>2 DEF IInv

\* The steps that leave the error slot, the main thread and the result
\* alone and make no receiver go away keep the invariant.
LEMMA QuietStep ==
    ASSUME IInv, TypeOK',
           UNCHANGED <<failed, errChan, mpc, result>>,
           \A w \in Workers : ~ReceiverAlive(cpc'[w]) /\ wpc'[w] \in {"top", "step", "parked"}
                                => ~ReceiverAlive(cpc[w]) /\ wpc[w] \in {"top", "step", "parked"}
    PROVE  IInv'
  BY DEF IInv, SlotRoot, DeadReceiverCovered, ResultRoot

LEMMA NextIInv == IInv /\ [Next]_vars => IInv'
<1> SUFFICES ASSUME IInv, [Next]_vars PROVE IInv'
  OBVIOUS
<1>t. TypeOK /\ TypeOK'
  BY TypeStep DEF IInv
<1>1. CASE MainRecvError
  BY <1>t, <1>1 DEF MainRecvError, IInv, SlotRoot, DeadReceiverCovered, ResultRoot, TypeOK
<1>2. CASE MainRecvDisconnected
  BY <1>t, <1>2 DEF MainRecvDisconnected, IInv, SlotRoot, DeadReceiverCovered, ResultRoot
<1>3. CASE MainWakeup
  <2>1. UNCHANGED <<wpc, failed, cpc, errChan>>
    BY <1>3 DEF MainWakeup
  <2>2. CASE mpc' = "stopping"
    <3>1. result' = <<"callback", CHOOSE w \in Workers : TRUE>>
      BY <1>3, <2>2 DEF MainWakeup
    <3>2. result'[1] = "callback"
      BY <3>1
    <3>3. QED
      BY <1>t, <2>1, <2>2, <3>2 DEF IInv, SlotRoot, DeadReceiverCovered, ResultRoot
  <2>3. CASE mpc' # "stopping"
    <3>1. UNCHANGED <<mpc, result>>
      BY <1>3, <2>3 DEF MainWakeup
    <3>2. QED
      BY <1>t, <2>1, <3>1 DEF IInv, SlotRoot, DeadReceiverCovered, ResultRoot
  <2>4. QED
    BY <2>2, <2>3
<1>4. CASE MainStop
  BY <1>t, <1>4 DEF MainStop, UnparkAll, IInv, SlotRoot, DeadReceiverCovered, ResultRoot
<1>5. CASE MainJoinErr
  BY <1>t, <1>5 DEF MainJoinErr, IInv, SlotRoot, DeadReceiverCovered, ResultRoot
<1>6. CASE MainJoinOk
  BY <1>t, <1>6 DEF MainJoinOk, IInv, SlotRoot, DeadReceiverCovered, ResultRoot
<1>7. ASSUME NEW w \in Workers, Check(w) PROVE IInv'
  <2>1. CASE failed
    <3>1. mpc # "select" /\ UNCHANGED <<mpc, result, failed, cpc>>
      BY <1>7, <2>1 DEF Check, IInv, SlotRoot
    <3>2. \A v \in Workers : wpc'[v] \in {"top", "step", "parked"} => wpc[v] \in {"top", "step", "parked"}
      BY <1>t, <1>7, <2>1 DEF Check, TypeOK
    <3>3. QED
      BY <1>t, <3>1, <3>2 DEF IInv, SlotRoot, DeadReceiverCovered, ResultRoot
  <2>5. CASE ~failed
    BY <1>t, <1>7, <2>5, QuietStep DEF Check, TypeOK
  <2>6. QED
    BY <2>1, <2>5
<1>8. ASSUME NEW w \in Workers, Step(w) PROVE IInv'
  <2>1. UNCHANGED <<failed, cpc, mpc, result>>
    BY <1>8 DEF Step
  <2>2. \A v \in Workers \ {w} : wpc'[v] = wpc[v]
    BY <1>t, <1>8 DEF Step, TypeOK
  <2>3. errChan # <<>> => errChan' = errChan
    BY <1>t, <1>8 DEF Step, Report, TypeOK
  <2>4. SlotRoot'
    <3>1. CASE mpc = "select"
      <4>1. ~failed
        BY <3>1 DEF IInv, SlotRoot
      <4>2. errChan' # <<>> => errChan'[1][1] \in RootKinds
        <5>1. CASE errChan # <<>>
          BY <2>3, <3>1, <5>1 DEF IInv, SlotRoot
        <5>2. CASE errChan = <<>>
          <6>1. ReceiverAlive(cpc[w])
            BY <1>8, <3>1, <5>2 DEF IInv, DeadReceiverCovered, Step
          <6>2. QED
            BY <1>t, <1>8, <5>2, <6>1 DEF Step, Report, TypeOK
        <5>3. QED
          BY <5>1, <5>2
      <4>3. QED
        BY <2>1, <4>1, <4>2 DEF SlotRoot
    <3>2. CASE mpc # "select"
      BY <2>1, <3>2 DEF SlotRoot
    <3>3. QED
      BY <3>1, <3>2
  <2>5. DeadReceiverCovered'
    <3> SUFFICES ASSUME NEW v \in Workers,
                        ~ReceiverAlive(cpc'[v]), wpc'[v] \in {"top", "step", "parked"}
                 PROVE  errChan' # <<>> \/ mpc' # "select"
      BY DEF DeadReceiverCovered
    <3>1. CASE v = w
      <4>1. ~ReceiverAlive(cpc[w]) /\ wpc[w] = "step"
        BY <1>8, <2>1, <3>1 DEF Step
      <4>2. errChan # <<>> \/ mpc # "select"
        BY <4>1 DEF IInv, DeadReceiverCovered
      <4>3. QED
        BY <2>1, <2>3, <4>2
    <3>2. CASE v # w
      <4>1. ~ReceiverAlive(cpc[v]) /\ wpc[v] \in {"top", "step", "parked"}
        BY <2>1, <2>2, <3>2
      <4>2. errChan # <<>> \/ mpc # "select"
        BY <4>1 DEF IInv, DeadReceiverCovered
      <4>3. QED
        BY <2>1, <2>3, <4>2
    <3>3. QED
      BY <3>1, <3>2
  <2>6. ResultRoot'
    BY <2>1 DEF IInv, ResultRoot
  <2>7. QED
    BY <1>t, <2>4, <2>5, <2>6 DEF IInv
<1>9. ASSUME NEW w \in Workers, Wake(w) PROVE IInv'
  BY <1>t, <1>9, QuietStep DEF Wake, TypeOK
<1>10. ASSUME NEW w \in Workers, Finish(w) PROVE IInv'
  BY <1>t, <1>10, QuietStep DEF Finish, TypeOK
<1>11. ASSUME NEW w \in Workers, ConnFail(w) PROVE IInv'
  BY <1>t, <1>11, QuietStep DEF ConnFail, ReceiverAlive, TypeOK
<1>12. ASSUME NEW w \in Workers, ConnReport(w) PROVE IInv'
  <2>1. UNCHANGED <<failed, wpc, mpc, result>> /\ errChan' # <<>>
    BY <1>t, <1>12 DEF ConnReport, Report
  <2>2. SlotRoot'
    BY <1>t, <1>12, <2>1 DEF ConnReport, Report, IInv, SlotRoot, TypeOK
  <2>3. DeadReceiverCovered'
    BY <2>1 DEF DeadReceiverCovered
  <2>4. QED
    BY <1>t, <2>1, <2>2, <2>3 DEF IInv, ResultRoot
<1>13. ASSUME NEW w \in Workers, ConnEnd(w) PROVE IInv'
  BY <1>t, <1>13, QuietStep DEF ConnEnd, TypeOK
<1>14. CASE UNCHANGED vars
  BY <1>t, <1>14 DEF vars, IInv, SlotRoot, DeadReceiverCovered, ResultRoot
<1>15. QED
  BY <1>1, <1>2, <1>3, <1>4, <1>5, <1>6, <1>7, <1>8, <1>9, <1>10, <1>11,
     <1>12, <1>13, <1>14 DEF Next, Main, Worker, Connector

\* Spec section 5's "first fatal error": for any set of workers, the error
\* run_with_new_dataflow_graph returns is never "other worker panicked" nor
\* a worker's failed send to an output thread that has already gone.
THEOREM RootCauseSafe == Spec => []ReturnsRootCause
<1>1. IInv => ReturnsRootCause
  BY DEF IInv, ResultRoot, ReturnsRootCause
<1>2. QED
  BY InitIInv, NextIInv, <1>1, PTL DEF Spec
-----------------------------------------------------------------------------
(* An Ok return.                                                           *)

\* While the main thread selects, a reported error is still in the slot:
\* only the main thread's receive empties it, and that ends the select.
ReportedQueued == mpc = "select" /\ reported # {} => errChan # <<>>

\* Past a disconnected receive, nothing was reported and every worker and
\* connector thread has ended, so nothing can be reported any more.
QuietAfterDisconnect ==
    /\ mpc \in {"joinOk", "returnedOk"} =>
           /\ reported = {}
           /\ \A w \in Workers : wpc[w] \in Terminal /\ cpc[w] = "ended"
    /\ mpc = "returnedOk" => \A w \in Workers : wpc[w] = "ok"

OInv == TypeOK /\ ReportedQueued /\ QuietAfterDisconnect

\* A step of a worker or connector thread that has not ended happens before
\* any disconnected receive, and leaves the slot non-empty if it reports.
LEMMA LiveThreadStep ==
    ASSUME OInv, NEW w \in Workers,
           wpc[w] \notin Terminal \/ cpc[w] # "ended",
           UNCHANGED <<mpc, result>>,
           \/ UNCHANGED <<errChan, reported>>
           \/ \E e \in Errors : Report(e)
    PROVE  ReportedQueued' /\ QuietAfterDisconnect'
<1>1. mpc \notin {"joinOk", "returnedOk"}
  BY DEF OInv, QuietAfterDisconnect
<1>2. QuietAfterDisconnect'
  BY <1>1 DEF QuietAfterDisconnect
<1>3. ReportedQueued'
  BY DEF OInv, ReportedQueued, Report
<1>4. QED
  BY <1>2, <1>3

LEMMA NextOInv == OInv /\ [Next]_vars => OInv'
<1> SUFFICES ASSUME OInv, [Next]_vars PROVE OInv'
  OBVIOUS
<1>0. TypeOK'
  BY TypeStep DEF OInv
<1> USE <1>0 DEF OInv
<1>1. CASE MainRecvError
  BY <1>1 DEF MainRecvError, ReportedQueued, QuietAfterDisconnect
<1>2. CASE MainRecvDisconnected
  BY <1>2 DEF MainRecvDisconnected, ReportedQueued, QuietAfterDisconnect
<1>3. CASE MainWakeup
  BY <1>3 DEF MainWakeup, ReportedQueued, QuietAfterDisconnect
<1>4. CASE MainStop
  BY <1>4 DEF MainStop, ReportedQueued, QuietAfterDisconnect
<1>5. CASE MainJoinErr
  BY <1>5 DEF MainJoinErr, ReportedQueued, QuietAfterDisconnect
<1>6. CASE MainJoinOk
  <2>1. /\ mpc = "joinOk" /\ mpc' \in {"returnedOk", "returnedErr"}
        /\ UNCHANGED <<wpc, cpc, errChan, reported>>
    BY <1>6 DEF MainJoinOk
  <2>2. mpc' = "returnedOk" => \A w \in Workers : wpc[w] = "ok"
    BY <1>6 DEF MainJoinOk, TypeOK, QuietAfterDisconnect
  <2>3. QED
    BY <2>1, <2>2 DEF ReportedQueued, QuietAfterDisconnect
<1>7. ASSUME NEW w \in Workers, Check(w) PROVE OInv'
  <2>1. CASE failed
    <3>1. Report(<<"other", w>>) /\ <<"other", w>> \in Errors
      BY <1>7, <2>1 DEF Check
    <3>2. QED
      BY <1>7, <3>1, LiveThreadStep DEF Check
  <2>2. CASE ~failed
    BY <1>7, <2>2, LiveThreadStep DEF Check
  <2>3. QED
    BY <2>1, <2>2
<1>8. ASSUME NEW w \in Workers, Step(w) PROVE OInv'
  <2>1. wpc[w] \notin Terminal /\ UNCHANGED <<mpc, result>>
    BY <1>8 DEF Step
  <2>2. \/ UNCHANGED <<errChan, reported>>
        \/ \E e \in Errors : Report(e)
    BY <1>8 DEF Step
  <2>3. QED
    BY <2>1, <2>2, LiveThreadStep
<1>9. ASSUME NEW w \in Workers, Wake(w) PROVE OInv'
  BY <1>9, LiveThreadStep DEF Wake
<1>10. ASSUME NEW w \in Workers, Finish(w) PROVE OInv'
  BY <1>10, LiveThreadStep DEF Finish
<1>11. ASSUME NEW w \in Workers, ConnFail(w) PROVE OInv'
  BY <1>11, LiveThreadStep DEF ConnFail
<1>12. ASSUME NEW w \in Workers, ConnReport(w) PROVE OInv'
  <2>1. Report(<<"conn", w>>) /\ <<"conn", w>> \in Errors /\ cpc[w] # "ended"
        /\ UNCHANGED <<mpc, result>>
    BY <1>12 DEF ConnReport
  <2>2. QED
    BY <2>1, LiveThreadStep
<1>13. ASSUME NEW w \in Workers, ConnEnd(w) PROVE OInv'
  BY <1>13, LiveThreadStep DEF ConnEnd
<1>14. CASE UNCHANGED vars
  BY <1>14 DEF vars, ReportedQueued, QuietAfterDisconnect
<1>15. QED
  BY <1>1, <1>2, <1>3, <1>4, <1>5, <1>6, <1>7, <1>8, <1>9, <1>10, <1>11,
     <1>12, <1>13, <1>14 DEF Next, Main, Worker, Connector

\* run_with_new_dataflow_graph returns Ok only when no error was ever
\* reported and every worker finished normally: with any number of workers,
\* an error put into the bounded(1) slot is never lost before the main
\* thread's select takes it.
THEOREM OkMeansNoErrorSafe == Spec => []OkMeansNoError
<1>1. Init => OInv
  BY TypeInit DEF Init, OInv, ReportedQueued, QuietAfterDisconnect
<1>2. OInv => OkMeansNoError
  BY DEF OInv, QuietAfterDisconnect, OkMeansNoError
<1>3. QED
  BY <1>1, <1>2, NextOInv, PTL DEF Spec

=============================================================================
