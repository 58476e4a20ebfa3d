------------------------------- MODULE SinkLog -------------------------------
(***************************************************************************)
(* What an output connector of Pathway promises, whatever its threads and  *)
(* channel: the entries the dataflow owes the sink, each with its time,    *)
(* the entries the sink holds durably, the finalized time kept in          *)
(* persistent storage, and whether the connector is still running.         *)
(*                                                                         *)
(*  - the dataflow owes entries only at times not before the finalized     *)
(*    time;                                                                *)
(*  - the sink only receives owed entries, and only while running;         *)
(*  - the finalized time only moves forward, and only to a time before     *)
(*    which every owed entry is durable;                                   *)
(*  - the connector ends with Ok only once every owed entry is durable.    *)
(***************************************************************************)
EXTENDS Naturals

CONSTANTS
    EntryIds,  \* the entries the dataflow can emit
    MaxTime    \* data times are 0..MaxTime; MaxTime + 1 is the empty frontier

NoTime == MaxTime + 1
Frontiers == 0..NoTime

VARIABLES
    owed,       \* <<entry, time>> pairs the sink must eventually hold
    durable,    \* entries the sink holds durably
    finalized,  \* the finalized time in persistent storage
    status      \* "running", "done" (Ok) or "failed" (Err)

vars == <<owed, durable, finalized, status>>

OwedEntries == {o[1] : o \in owed}

\* Every owed entry with a time before t is durable.
Covered(t) == \A o \in owed : o[2] < t => o[1] \in durable

TypeOK ==
    /\ owed \subseteq EntryIds \X (0..MaxTime)
    /\ durable \subseteq EntryIds
    /\ finalized \in Frontiers
    /\ status \in {"running", "done", "failed"}

Init ==
    /\ owed = {}
    /\ durable = {}
    /\ finalized = 0
    /\ status = "running"

\* The dataflow owes new entries at a time t not before the finalized time.
Emit ==
    \E t \in finalized..MaxTime, new \in SUBSET EntryIds :
        /\ owed' = owed \cup (new \X {t})
        /\ UNCHANGED <<durable, finalized, status>>

\* The running connector writes owed entries, may advance the finalized
\* time to a covered one, and may end: with Err at any point, with Ok once
\* every owed entry is durable.
Deliver ==
    /\ status = "running"
    /\ \E more \in SUBSET OwedEntries : durable' = durable \cup more
    /\ finalized' \in {finalized} \cup {t \in finalized..NoTime : Covered(t)}
    /\ status' \in {"running", "failed"}
                     \cup (IF OwedEntries \subseteq durable' THEN {"done"} ELSE {})
    /\ UNCHANGED owed

Next == Emit \/ Deliver

Spec == Init /\ [][Next]_vars

=============================================================================
