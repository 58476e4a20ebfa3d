---------------------------- MODULE StreamsProofs ----------------------------
(* Proofs about table_to_stream, stream_to_table and                        *)
(* merge_streams_to_table (src/engine/dataflow.rs): the round trip through  *)
(* a stream rebuilds the table, in every order the upsert applies a key's  *)
(* rows, and every step keeps the tables' types.                           *)
EXTENDS Streams, TLAPS

USE StreamsAssumption DEF StreamsAssumption

\* The inductive invariant behind RoundTrip: the invariant itself with types.
SInv == TypeOK /\ RoundTrip

\* table_to_stream keeps the insertion of a key that is inserted or updated:
\* the sort by (key, -diff) puts it before the key's deletion.
LEMMA FirstEntryIns ==
    ASSUME NEW old \in Tables, NEW new \in Tables, NEW k \in Keys,
           new[k] # None, new[k] # old[k]
    PROVE  FirstEntry(Batch(old, new), k) = <<k, new[k], 1>>
<1> DEFINE b == Batch(old, new)
           P(e) == e[1] = k /\ \A f \in b : f[1] = k => e[3] >= f[3]
<1>1. <<k, new[k], 1>> \in b
    BY DEF Batch
<1>2. \A f \in b : f[1] = k => f[3] \in {1, -1}
    BY DEF Batch
<1>3. P(<<k, new[k], 1>>)
    BY <1>2
<1>4. \A e \in b : P(e) => e = <<k, new[k], 1>>
    <2> SUFFICES ASSUME NEW e \in b, P(e) PROVE e = <<k, new[k], 1>>
        OBVIOUS
    <2>1. e[3] >= 1
        BY <1>1
    <2>. QED
        BY <2>1 DEF Batch
<1>. QED
    BY <1>1, <1>3, <1>4 DEF FirstEntry

\* table_to_stream keeps the deletion of a key that is only deleted.
LEMMA FirstEntryDel ==
    ASSUME NEW old \in Tables, NEW new \in Tables, NEW k \in Keys,
           new[k] = None, old[k] # None
    PROVE  FirstEntry(Batch(old, new), k) = <<k, old[k], -1>>
<1> DEFINE b == Batch(old, new)
           P(e) == e[1] = k /\ \A f \in b : f[1] = k => e[3] >= f[3]
<1>1. <<k, old[k], -1>> \in b
    BY DEF Batch
<1>2. \A f \in b : f[1] = k => f = <<k, old[k], -1>>
    BY DEF Batch
<1>3. P(<<k, old[k], -1>>)
    BY <1>2
<1>4. \A e \in b : P(e) => e = <<k, old[k], -1>>
    BY <1>2
<1>. QED
    BY <1>1, <1>3, <1>4 DEF FirstEntry

\* The keys of the stream's rows are the keys whose row changed.
LEMMA StreamKeys ==
    ASSUME NEW old \in Tables, NEW new \in Tables
    PROVE  {c[1] : c \in Batch(old, new)} = {j \in Keys : new[j] # old[j]}
<1>1. \A c \in Batch(old, new) : c[1] \in Keys /\ new[c[1]] # old[c[1]]
    BY DEF Batch
<1>2. ASSUME NEW j \in Keys, new[j] # old[j]
      PROVE  \E c \in Batch(old, new) : c[1] = j
    <2>1. CASE new[j] # None
        <3>1. <<j, new[j], 1>> \in Batch(old, new)
            BY <1>2, <2>1 DEF Batch
        <3>. QED
            BY <3>1
    <2>2. CASE new[j] = None
        <3>1. <<j, old[j], -1>> \in Batch(old, new)
            BY <1>2, <2>2 DEF Batch
        <3>. QED
            BY <3>1
    <2>. QED
        BY <2>1, <2>2
<1>. QED
    BY <1>1, <1>2

\* The stream table_to_stream emits holds, for each changed key, one row:
\* the key's insertion when it has a new row, its deletion otherwise.
LEMMA StreamRows ==
    ASSUME NEW old \in Tables, NEW new \in Tables,
           NEW r \in ToStream(Batch(old, new))
    PROVE  /\ r.key \in Keys /\ new[r.key] # old[r.key]
           /\ r = IF new[r.key] # None
                  THEN [key |-> r.key, val |-> new[r.key], upsert |-> TRUE]
                  ELSE [key |-> r.key, val |-> old[r.key], upsert |-> FALSE]
<1> DEFINE b == Batch(old, new)
<1>1. PICK j \in {c[1] : c \in b} :
            r = [key |-> FirstEntry(b, j)[1], val |-> FirstEntry(b, j)[2],
                 upsert |-> FirstEntry(b, j)[3] = 1]
    BY DEF ToStream
<1>2. j \in Keys /\ new[j] # old[j]
    BY <1>1, StreamKeys
<1>3. CASE new[j] # None
    <2>1. FirstEntry(b, j) = <<j, new[j], 1>>
        BY <1>2, <1>3, FirstEntryIns
    <2>2. r = [key |-> j, val |-> new[j], upsert |-> TRUE]
        <3>1. /\ FirstEntry(b, j)[1] = j /\ FirstEntry(b, j)[2] = new[j]
              /\ FirstEntry(b, j)[3] = 1
            BY <2>1
        <3>. QED
            BY <1>1, <3>1, Zenon
    <2>. QED
        BY <1>2, <1>3, <2>2
<1>4. CASE new[j] = None
    <2>1. old[j] # None
        BY <1>2, <1>4
    <2>2. FirstEntry(b, j) = <<j, old[j], -1>>
        BY <1>2, <1>4, <2>1, FirstEntryDel
    <2>3. r = [key |-> j, val |-> old[j], upsert |-> FALSE]
        <3>1. /\ FirstEntry(b, j)[1] = j /\ FirstEntry(b, j)[2] = old[j]
              /\ FirstEntry(b, j)[3] = -1 /\ -1 # 1
            BY <2>2
        <3>. QED
            BY <1>1, <3>1, Zenon
    <2>. QED
        BY <1>2, <1>4, <2>3
<1>. QED
    BY <1>3, <1>4

\* Every changed key has a row in the stream.
LEMMA StreamCovers ==
    ASSUME NEW old \in Tables, NEW new \in Tables,
           NEW k \in Keys, new[k] # old[k]
    PROVE  k \in {r.key : r \in ToStream(Batch(old, new))}
<1> DEFINE b == Batch(old, new)
<1>1. k \in {c[1] : c \in b}
    BY StreamKeys
<1>2. FirstEntry(b, k)[1] = k
    <2>1. CASE new[k] # None
        BY <2>1, FirstEntryIns
    <2>2. CASE new[k] = None
        BY <2>2, FirstEntryDel
    <2>. QED
        BY <2>1, <2>2
<1>3. [key |-> FirstEntry(b, k)[1], val |-> FirstEntry(b, k)[2],
       upsert |-> FirstEntry(b, k)[3] = 1] \in ToStream(b)
    BY <1>1 DEF ToStream
<1>. QED
    BY <1>2, <1>3

\* One time of table_to_stream and stream_to_table rebuilds the new table.
LEMMA AdvanceSInv == SInv /\ Advance => SInv'
<1> SUFFICES ASSUME SInv, Advance PROVE SInv'
    OBVIOUS
<1> DEFINE ks == {r.key : r \in stream'}
<1>1. /\ tbl' \in Tables
      /\ batch' = Batch(tbl, tbl')
      /\ stream' = ToStream(Batch(tbl, tbl'))
      /\ UNCHANGED merged
      /\ \E last \in [ks -> stream'] :
            /\ \A k \in ks : last[k].key = k
            /\ ups' = Upsert(ups, stream', last)
    BY DEF Advance
<1>2. PICK last \in [ks -> stream'] :
            /\ \A k \in ks : last[k].key = k
            /\ ups' = Upsert(ups, stream', last)
    BY <1>1
<1>3. tbl \in Tables
    BY DEF SInv, TypeOK
<1>4. ASSUME NEW r \in stream'
      PROVE  /\ r.key \in Keys /\ tbl'[r.key] # tbl[r.key]
             /\ r = IF tbl'[r.key] # None
                    THEN [key |-> r.key, val |-> tbl'[r.key], upsert |-> TRUE]
                    ELSE [key |-> r.key, val |-> tbl[r.key], upsert |-> FALSE]
    BY <1>1, <1>3, <1>4, StreamRows
<1>5. ASSUME NEW k \in Keys, tbl'[k] # tbl[k] PROVE k \in ks
    BY <1>1, <1>3, <1>5, StreamCovers
<1>6. ASSUME NEW k \in Keys
      PROVE  ups'[k] = IF tbl'[k] = None THEN None ELSE <<tbl'[k], TRUE>>
    <2>1. CASE k \in ks
        <3>1. last[k] \in stream' /\ last[k].key = k
            BY <1>2, <2>1
        <3>2. last[k] = IF tbl'[k] # None
                        THEN [key |-> k, val |-> tbl'[k], upsert |-> TRUE]
                        ELSE [key |-> k, val |-> tbl[k], upsert |-> FALSE]
            BY <3>1, <1>4
        <3>3. ups'[k] = IF last[k].upsert THEN <<last[k].val, TRUE>> ELSE None
            BY <1>2, <2>1 DEF Upsert
        <3>4. CASE tbl'[k] # None
            <4>1. last[k].upsert = TRUE /\ last[k].val = tbl'[k]
                BY <3>2, <3>4
            <4>. QED
                BY <3>3, <3>4, <4>1
        <3>5. CASE tbl'[k] = None
            <4>1. last[k].upsert = FALSE
                BY <3>2, <3>5
            <4>. QED
                BY <3>3, <3>5, <4>1
        <3>. QED
            BY <3>4, <3>5
    <2>2. CASE k \notin ks
        <3>1. tbl'[k] = tbl[k]
            BY <1>5, <2>2
        <3>2. ups'[k] = ups[k]
            BY <1>2, <2>2 DEF Upsert
        <3>. QED
            BY <3>1, <3>2 DEF SInv, RoundTrip
    <2>. QED
        BY <2>1, <2>2
<1>7. TypeOK'
    <2>1. batch' \subseteq Changes
        <3>1. \A k \in Keys : tbl'[k] # None => <<k, tbl'[k], 1>> \in Changes
            BY <1>1 DEF Changes, Tables
        <3>2. \A k \in Keys : tbl[k] # None => <<k, tbl[k], -1>> \in Changes
            BY <1>3 DEF Changes, Tables
        <3>. QED
            BY <1>1, <3>1, <3>2 DEF Batch
    <2>2. stream' \subseteq Rows
        <3> SUFFICES ASSUME NEW r \in stream' PROVE r \in Rows
            OBVIOUS
        <3>1. r.key \in Keys /\ tbl'[r.key] # tbl[r.key]
            BY <1>4
        <3>2. CASE tbl'[r.key] # None
            <4>1. tbl'[r.key] \in Vals
                BY <1>1, <3>1, <3>2 DEF Tables
            <4>2. r = [key |-> r.key, val |-> tbl'[r.key], upsert |-> TRUE]
                BY <1>4, <3>2
            <4>3. [key |-> r.key, val |-> tbl'[r.key], upsert |-> TRUE] \in Rows
                BY <3>1, <4>1 DEF Rows
            <4>. QED
                BY <4>2, <4>3
        <3>3. CASE tbl'[r.key] = None
            <4>1. tbl[r.key] \in Vals
                BY <1>3, <3>1, <3>3 DEF Tables
            <4>2. r = [key |-> r.key, val |-> tbl[r.key], upsert |-> FALSE]
                BY <1>4, <3>3
            <4>3. [key |-> r.key, val |-> tbl[r.key], upsert |-> FALSE] \in Rows
                BY <3>1, <4>1 DEF Rows
            <4>. QED
                BY <4>2, <4>3
        <3>. QED
            BY <3>2, <3>3
    <2>3. ups' \in [Keys -> (Vals \X BOOLEAN) \cup {None}]
        <3>1. ups' = [k \in Keys |-> IF k \in DOMAIN last
                                     THEN IF last[k].upsert THEN <<last[k].val, TRUE>>
                                          ELSE None
                                     ELSE ups[k]]
            BY <1>2 DEF Upsert
        <3>2. ASSUME NEW k \in Keys
              PROVE  ups'[k] \in (Vals \X BOOLEAN) \cup {None}
            <4>1. ups'[k] = IF tbl'[k] = None THEN None ELSE <<tbl'[k], TRUE>>
                BY <1>6
            <4>2. tbl'[k] \in Vals \cup {None}
                BY <1>1 DEF Tables
            <4>3. CASE tbl'[k] = None
                BY <4>1, <4>3
            <4>4. CASE tbl'[k] # None
                <5>1. tbl'[k] \in Vals /\ TRUE \in BOOLEAN
                    BY <4>2, <4>4
                <5>2. <<tbl'[k], TRUE>> \in Vals \X BOOLEAN
                    BY <5>1, Zenon
                <5>. QED
                    BY <4>1, <4>4, <5>2
            <4>. QED
                BY <4>3, <4>4
        <3>. QED
            BY <3>1, <3>2
    <2>. QED
        BY <1>1, <2>1, <2>2, <2>3 DEF SInv, TypeOK
<1>. QED
    BY <1>6, <1>7 DEF SInv, RoundTrip

\* The rows merge_streams_to_table feeds to the upsert collection at one
\* time, and their keys.
MergeRows(ib, db) == Prepare(ib, 1) \cup Prepare(db, -1)
MergeKeys(ib, db) == {r[1] : r \in MergeRows(ib, db)}

\* A +1 row comes from an insertion of the insertions stream, a -1 row from
\* an insertion of the deletions stream; every insertion has a row.
LEMMA PrepareFacts ==
    ASSUME NEW ib \in StreamBatches, NEW db \in StreamBatches
    PROVE  /\ \A x \in MergeRows(ib, db) :
                 /\ x[3] = 1 => /\ x[2] \in Vals
                                /\ \E e \in ib : e[3] = 1 /\ e[1] = x[1] /\ e[2] = x[2]
                 /\ x[3] # 1 => \E e \in db : e[3] = 1 /\ e[1] = x[1]
           /\ \A e \in ib : e[3] = 1 => e[1] \in MergeKeys(ib, db)
           /\ \A e \in db : e[3] = 1 => e[1] \in MergeKeys(ib, db)
<1>1. ib \subseteq Changes /\ db \subseteq Changes
    BY DEF StreamBatches
<1>2. \A x \in MergeRows(ib, db) :
          /\ x[3] = 1 => /\ x[2] \in Vals
                         /\ \E e \in ib : e[3] = 1 /\ e[1] = x[1] /\ e[2] = x[2]
          /\ x[3] # 1 => \E e \in db : e[3] = 1 /\ e[1] = x[1]
    BY <1>1 DEF MergeRows, Prepare, Changes
<1>3. \A e \in ib : e[3] = 1 => <<e[1], e[2], 1>> \in MergeRows(ib, db)
    BY DEF MergeRows, Prepare
<1>4. \A e \in db : e[3] = 1 => <<e[1], e[2], -1>> \in MergeRows(ib, db)
    BY DEF MergeRows, Prepare
<1>. QED
    BY <1>2, <1>3, <1>4 DEF MergeKeys

\* The step of merge_streams_to_table, with the rows named.
LEMMA MergeStep ==
    ASSUME MergeStreams
    PROVE  \E ib, db \in StreamBatches :
             /\ \E last \in [MergeKeys(ib, db) -> MergeRows(ib, db)] :
                   /\ \A k \in MergeKeys(ib, db) : last[k][1] = k
                   /\ merged' = [k \in Keys |->
                                   IF k \notin MergeKeys(ib, db) THEN merged[k]
                                   ELSE IF last[k][3] = 1 THEN last[k][2] ELSE None]
             /\ UNCHANGED <<tbl, ups, batch, stream>>
BY DEF MergeStreams, MergeKeys, MergeRows

\* A time of merge_streams_to_table leaves the streamed table alone and
\* keeps the merged table's rows values.
LEMMA MergeSInv == SInv /\ MergeStreams => SInv'
<1> SUFFICES ASSUME SInv, MergeStreams PROVE SInv'
    OBVIOUS
<1>1. PICK ib \in StreamBatches, db \in StreamBatches :
             /\ \E last \in [MergeKeys(ib, db) -> MergeRows(ib, db)] :
                   /\ \A j \in MergeKeys(ib, db) : last[j][1] = j
                   /\ merged' = [j \in Keys |->
                                   IF j \notin MergeKeys(ib, db) THEN merged[j]
                                   ELSE IF last[j][3] = 1 THEN last[j][2] ELSE None]
             /\ UNCHANGED <<tbl, ups, batch, stream>>
    BY MergeStep
<1>2. PICK last \in [MergeKeys(ib, db) -> MergeRows(ib, db)] :
                   /\ \A j \in MergeKeys(ib, db) : last[j][1] = j
                   /\ merged' = [j \in Keys |->
                                   IF j \notin MergeKeys(ib, db) THEN merged[j]
                                   ELSE IF last[j][3] = 1 THEN last[j][2] ELSE None]
    BY <1>1
<1>3. \A j \in MergeKeys(ib, db) : last[j][3] = 1 => last[j][2] \in Vals
    BY PrepareFacts
<1>4. merged' \in Tables
    BY <1>2, <1>3 DEF SInv, TypeOK, Tables
<1>. QED
    BY <1>1, <1>4 DEF SInv, TypeOK, RoundTrip

LEMMA InitSInv == Init => SInv
BY DEF Init, SInv, TypeOK, RoundTrip, Tables, StreamBatches

LEMMA NextSInv == SInv /\ [Next]_vars => SInv'
<1> SUFFICES ASSUME SInv, [Next]_vars PROVE SInv'
    OBVIOUS
<1>1. CASE Advance
    BY <1>1, AdvanceSInv
<1>2. CASE MergeStreams
    BY <1>2, MergeSInv
<1>3. CASE UNCHANGED vars
    BY <1>3 DEF SInv, vars, TypeOK, RoundTrip
<1>. QED
    BY <1>1, <1>2, <1>3 DEF Next

\* After every time, the table stream_to_table rebuilds from the stream of
\* table_to_stream is the source table with is_upsert = true appended, in
\* every order the arrangement applies a key's updates: for every set of
\* keys and values.
THEOREM RoundTripSafe == Spec => []RoundTrip
<1>1. SInv => RoundTrip
    BY DEF SInv
<1>. QED
    BY InitSInv, NextSInv, <1>1, PTL DEF Spec

\* The table/stream conversions keep every variable of its type: the table
\* and the merged table have at most one row per key, and every row of the
\* stream carries a key, a value and its is_upsert flag.
THEOREM StreamsTypeCorrect == Spec => []TypeOK
<1>1. SInv => TypeOK
    BY DEF SInv
<1>. QED
    BY <1>1, InitSInv, NextSInv, PTL DEF Spec

=============================================================================
