-------------------------------- MODULE Streams --------------------------------
(***************************************************************************)
(* table_to_stream followed by stream_to_table (engine/dataflow.rs).       *)
(*                                                                         *)
(* A table with unique keys changes from one time to the next.            *)
(* table_to_stream takes the consolidated batch of the time, sorts it by  *)
(* (key, -diff) so that a key's insertion comes first, keeps the first    *)
(* entry of each key, and emits it as an inserted row (key, [values,      *)
(* is_upsert]) with is_upsert true for an insertion and false for a      *)
(* deletion; a diff other than +1 or -1 would be logged as DuplicateKey.  *)
(* stream_to_table turns each inserted row back into an update of an      *)
(* upsert arrangement: Some(value) when is_upsert holds, None otherwise  *)
(* (a deletion in the stream is logged as ExpectedAppendOnly and dropped). *)
(* The arrangement applies a key's updates of one time in an order the    *)
(* code does not fix, so the model lets any of them be the last.          *)
(*                                                                         *)
(* merge_streams_to_table feeds the same upsert collection from two       *)
(* streams: a row inserted into the insertions stream upserts its value,  *)
(* one inserted into the deletions stream removes its key, and a          *)
(* retraction in either stream is logged as ExpectedAppendOnly and       *)
(* dropped.                                                               *)
(***************************************************************************)
EXTENDS Integers, FiniteSets

CONSTANTS
    Keys,   \* row keys
    Vals,   \* row values
    None    \* no row for the key

ASSUME StreamsAssumption == None \notin Vals

Tables == [Keys -> Vals \cup {None}]
\* A change of the consolidated batch: <<key, values, diff>>.
Changes == Keys \X Vals \X {1, -1}
\* A row of the stream: the key, the values and the appended is_upsert.
Rows == [key : Keys, val : Vals, upsert : BOOLEAN]

VARIABLES
    tbl,     \* the source table
    ups,     \* the table stream_to_table builds: a key's values and is_upsert
    batch,   \* history: the consolidated batch of the last time
    stream,  \* history: the rows table_to_stream emitted for it
    merged   \* the table merge_streams_to_table builds

vars == <<tbl, ups, batch, stream, merged>>

\* A stream's changes at one time: none or one change, possibly a retraction.
StreamBatches == {{}} \cup {{c} : c \in Changes}

TypeOK ==
    /\ tbl \in Tables
    /\ ups \in [Keys -> (Vals \X BOOLEAN) \cup {None}]
    /\ batch \subseteq Changes
    /\ stream \subseteq Rows
    /\ merged \in Tables

Init ==
    /\ tbl = [k \in Keys |-> None]
    /\ ups = [k \in Keys |-> None]
    /\ batch = {}
    /\ stream = {}
    /\ merged = [k \in Keys |-> None]

\* The consolidated changes from table old to table new.
Batch(old, new) ==
    {<<k, new[k], 1>> : k \in {j \in Keys : new[j] # None /\ new[j] # old[j]}}
    \cup {<<k, old[k], -1>> : k \in {j \in Keys : old[j] # None /\ old[j] # new[j]}}

\* The entry table_to_stream keeps for key k: the first after sorting by
\* (key, -diff), so the insertion of an updated key and not its deletion.
FirstEntry(b, k) == CHOOSE e \in b : e[1] = k /\ \A f \in b : f[1] = k => e[3] >= f[3]

\* table_to_stream: one inserted row per key of the batch.
ToStreamAll(b) ==
    {[key |-> e[1], val |-> e[2], upsert |-> e[3] = 1] : e \in b}
ToStream(b) ==
    {[key |-> e[1], val |-> e[2], upsert |-> e[3] = 1] :
        e \in {FirstEntry(b, k) : k \in {c[1] : c \in b}}}

\* stream_to_table: each row becomes an upsert of its key; last[k] is the
\* row the arrangement applies last among the key's rows of this time.
UpsertBare(u, rows, last) ==
    [k \in Keys |-> IF k \in DOMAIN last
                    THEN IF last[k].upsert THEN last[k].val ELSE None
                    ELSE u[k]]
Upsert(u, rows, last) ==
    [k \in Keys |-> IF k \in DOMAIN last
                    THEN IF last[k].upsert THEN <<last[k].val, TRUE>> ELSE None
                    ELSE u[k]]

\* One time: the table changes, table_to_stream emits the batch as rows and
\* stream_to_table applies them.
Advance ==
    \E new \in Tables :
        /\ new # tbl
        /\ LET b == Batch(tbl, new)
               rows == ToStream(b)
               ks == {r.key : r \in rows}
           IN /\ \E last \in [ks -> rows] :
                    /\ \A k \in ks : last[k].key = k
                    /\ ups' = Upsert(ups, rows, last)
              /\ tbl' = new
              /\ batch' = b
              /\ stream' = rows
              /\ UNCHANGED merged

\* prepare_insertions_or_deletions: the stream's insertions with the diff
\* replaced by newDiff; any other diff is logged and dropped.
Prepare(b, newDiff) == {<<e[1], e[2], newDiff>> : e \in {x \in b : x[3] = 1}}

\* One time of merge_streams_to_table: the concatenated prepared streams go
\* through the upsert collection, a +1 as Some(value) and a -1 as None;
\* last[k] is the row of key k the arrangement applies last.
MergeStreams ==
    \E ib, db \in StreamBatches :
        LET rows == Prepare(ib, 1) \cup Prepare(db, -1)
            ks == {r[1] : r \in rows}
        IN /\ \E last \in [ks -> rows] :
                 /\ \A k \in ks : last[k][1] = k
                 /\ merged' = [k \in Keys |-> IF k \notin ks THEN merged[k]
                                              ELSE IF last[k][3] = 1 THEN last[k][2]
                                              ELSE None]
           /\ UNCHANGED <<tbl, ups, batch, stream>>

Next == Advance \/ MergeStreams

Spec == Init /\ [][Next]_vars

-----------------------------------------------------------------------------
(* Properties.                                                             *)

\* After every time, the table stream_to_table rebuilds from the stream has
\* the source table's rows, each with is_upsert = true appended: an update
\* is streamed as its insertion only, so no order of the upserts loses it.
RoundTrip ==
    \A k \in Keys : ups[k] = IF tbl[k] = None THEN None ELSE <<tbl[k], TRUE>>

=============================================================================
