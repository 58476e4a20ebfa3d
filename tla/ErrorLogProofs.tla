--------------------------- MODULE ErrorLogProofs ---------------------------
(* Proofs about the error log (src/engine/dataflow.rs): the worker loop      *)
(* never ends with a record left in the log's input session.                *)
EXTENDS ErrorLog, TLAPS

\* Once the session is dropped it stays dropped, and nothing can put a record
\* back in it: every operator holding the log has finished and the flushers
\* were cleared before the drop (they are never registered again).
ClosedStaysEmpty ==
    ~sessionOpen => /\ buffered = {}
                    /\ ~flushersOn
                    /\ \A op \in Ops : HoldsLog(op) => opDone[op]

\* The loop ends only after the session has been dropped.
DoneAfterDrop == loopDone => ~sessionOpen

\* The inductive invariant behind NoRecordLeftBehind.
LInv == TypeOK /\ ClosedStaysEmpty /\ DoneAfterDrop

USE ErrorLogAssumption DEF ErrorLogAssumption

LEMMA InitLInv == Init => LInv
<1> SUFFICES ASSUME Init PROVE LInv
    OBVIOUS
<1>1. elapsed \in 0..Period
    BY DEF Init
<1>2. opDone \in [Ops -> BOOLEAN]
    BY DEF Init
<1>3. TypeOK
    BY <1>1, <1>2 DEF Init, TypeOK
<1>4. ClosedStaysEmpty /\ DoneAfterDrop
    BY DEF Init, ClosedStaysEmpty, DoneAfterDrop
<1>. QED
    BY <1>3, <1>4 DEF LInv

LEMMA NextLInv == LInv /\ [Next]_vars => LInv'
<1> SUFFICES ASSUME LInv, [Next]_vars PROVE LInv'
    OBVIOUS
<1>1. CASE Tick
    BY <1>1 DEF LInv, Tick, TypeOK, ClosedStaysEmpty, DoneAfterDrop
<1>2. ASSUME NEW op \in Ops, NEW e \in Errors, LogError(op, e) PROVE LInv'
    <2>1. TypeOK'
        BY <1>2 DEF LInv, LogError, TypeOK, MaybeFlush
    <2>2. ClosedStaysEmpty'
        \* With the session dropped every log holder is done, so a running
        \* operator has no log and the record is only printed.
        <3>1. ~sessionOpen => UNCHANGED <<elapsed, buffered, flushed>>
            BY <1>2 DEF LInv, LogError, ClosedStaysEmpty
        <3>2. QED
            BY <1>2, <3>1 DEF LInv, LogError, ClosedStaysEmpty
    <2>3. DoneAfterDrop'
        BY <1>2 DEF LInv, LogError, DoneAfterDrop
    <2>4. QED
        BY <2>1, <2>2, <2>3 DEF LInv
<1>3. CASE Iteration
    <2>1. TypeOK'
        <3>1. pollersLeft' \in BOOLEAN /\ flushersOn' \in BOOLEAN
              /\ loopDone' \in BOOLEAN
            BY <1>3 DEF LInv, Iteration, TypeOK
        <3>2. elapsed' \in 0..Period /\ buffered' \subseteq Errors
              /\ flushed' \subseteq Errors
            BY <1>3 DEF LInv, Iteration, TypeOK, Flusher, MaybeFlush
        <3>3. QED
            BY <1>3, <3>1, <3>2 DEF LInv, Iteration, TypeOK
    <2>2. ClosedStaysEmpty'
        BY <1>3 DEF LInv, Iteration, ClosedStaysEmpty
    <2>3. DoneAfterDrop'
        BY <1>3 DEF LInv, Iteration, DoneAfterDrop
    <2>4. QED
        BY <2>1, <2>2, <2>3 DEF LInv
<1>4. ASSUME NEW op \in Ops, OpFinish(op) PROVE LInv'
    BY <1>4 DEF LInv, OpFinish, TypeOK, ClosedStaysEmpty, DoneAfterDrop
<1>5. CASE SessionDrop
    BY <1>5 DEF LInv, SessionDrop, TypeOK, ClosedStaysEmpty, DoneAfterDrop
<1>6. CASE UNCHANGED vars
    BY <1>6 DEF LInv, vars, TypeOK, ClosedStaysEmpty, DoneAfterDrop
<1>7. QED
    BY <1>1, <1>2, <1>3, <1>4, <1>5, <1>6 DEF Next

\* The worker loop never ends with an error record still in the log's input
\* session (dataflow.rs, the drop of ErrorLogInner flushes it): the theorem
\* for every set of operators, errors and flush period.
THEOREM NoRecordLeftBehindSafe == Spec => []NoRecordLeftBehind
<1>1. LInv => NoRecordLeftBehind
    BY DEF LInv, ClosedStaysEmpty, DoneAfterDrop, NoRecordLeftBehind
<1>. QED
    BY InitLInv, NextLInv, <1>1, PTL DEF Spec

\* The error log's flusher keeps every variable of its type: the time since
\* the last flush never passes the flush period.
THEOREM ErrorLogTypeCorrect == Spec => []TypeOK
<1>1. LInv => TypeOK
    BY DEF LInv
<1>. QED
    BY <1>1, InitLInv, NextLInv, PTL DEF Spec

=============================================================================
