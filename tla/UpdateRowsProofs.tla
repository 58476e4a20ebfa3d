-------------------------- MODULE UpdateRowsProofs --------------------------
(* Proofs about update_rows_table and update_cells_table                    *)
(* (src/engine/dataflow.rs): the reducers' outputs keep the original        *)
(* table's universe and agree with each other after every input change.    *)
EXTENDS UpdateRows, FiniteSetTheorems, TLAPS

\* Both outputs are what the reducers compute from the current inputs: the
\* reducers run again for the one key whose input changed, and the other
\* keys' inputs are untouched.
OutputsCurrent ==
    \A k \in Keys : /\ outRows[k] = RowsResult(orig, upd, k)
                    /\ outCells[k] = CellsResult(orig, upd, k)

\* The inductive invariant behind UpdateCellsKeepsUniverse and RowsCellsAgree.
RInv == TypeOK /\ OutputsCurrent

USE UpdateRowsAssumption DEF UpdateRowsAssumption

\* A set with exactly one entry of diff 1 is not empty, and The picks from it.
LEMMA SingleThe ==
    ASSUME NEW m, NEW S, Single(m, S)
    PROVE  S # {} /\ The(S) \in S
<1>1. S # {}
    BY FS_EmptySet DEF Single
<1>. QED
    BY <1>1 DEF The

\* The reducers' results are payloads, pairs of cells or NoRow, and their
\* errors are (error, key) pairs.
LEMMA ResultTypes ==
    ASSUME NEW o, NEW u, NEW k \in Keys
    PROVE  /\ RowsResult(o, u, k) \in Vals \cup {NoRow}
           /\ CellsResult(o, u, k) \in (Vals \X (Vals \cup {ErrorVal})) \cup {NoRow}
           /\ RowsError(o, u, k) \cup CellsError(o, u, k) \subseteq Errors \X Keys
<1> DEFINE O == OrigVals(o, k)
           U == UpdVals(u, k)
<1>1. Single(o[k], O) => The(O) \in Vals
    BY SingleThe DEF OrigVals
<1>2. Single(u[k], U) => The(U) \in Vals
    BY SingleThe DEF UpdVals
<1>3. RowsResult(o, u, k) \in Vals \cup {NoRow}
    BY <1>1, <1>2 DEF RowsResult
<1>4. CellsResult(o, u, k) \in (Vals \X (Vals \cup {ErrorVal})) \cup {NoRow}
    BY <1>1, <1>2 DEF CellsResult
<1>5. RowsError(o, u, k) \cup CellsError(o, u, k) \subseteq Errors \X Keys
    BY DEF RowsError, CellsError, Errors
<1>. QED
    BY <1>3, <1>4, <1>5

\* Per key, update_cells keeps the universe of the original input: a row
\* exactly when there is one original entry, carrying the original payload.
LEMMA CellsUniverse ==
    ASSUME NEW o, NEW u, NEW k
    PROVE  IF Single(o[k], OrigVals(o, k))
           THEN /\ CellsResult(o, u, k) # NoRow
                /\ CellsResult(o, u, k)[1] = The(OrigVals(o, k))
           ELSE CellsResult(o, u, k) = NoRow
<1> DEFINE O == OrigVals(o, k)
           U == UpdVals(u, k)
<1>1. CASE Single(o[k], O)
    <2>1. The(O) \in Vals
        BY <1>1, SingleThe DEF OrigVals
    <2>2. Single(u[k], U) => The(U) \in Vals
        BY SingleThe DEF UpdVals
    <2>. QED
        BY <1>1, <2>1, <2>2 DEF CellsResult
<1>2. CASE ~Single(o[k], O)
    BY <1>2 DEF CellsResult
<1>. QED
    BY <1>1, <1>2

\* Per key, a clean row of update_cells is the row update_rows emits.
LEMMA CellsAgreeRows ==
    ASSUME NEW o, NEW u, NEW k,
           CellsResult(o, u, k) # NoRow,
           CellsResult(o, u, k)[2] # ErrorVal
    PROVE  RowsResult(o, u, k) = CellsResult(o, u, k)[2]
<1> DEFINE O == OrigVals(o, k)
           U == UpdVals(u, k)
<1>1. Single(o[k], O)
    BY DEF CellsResult
<1>2. O # {}
    BY <1>1, SingleThe
<1>3. CASE U = {}
    BY <1>1, <1>2, <1>3 DEF CellsResult, RowsResult
<1>4. CASE Single(u[k], U)
    <2>1. U # {}
        BY <1>4, SingleThe
    <2>. QED
        BY <1>1, <1>2, <1>4, <2>1 DEF CellsResult, RowsResult
<1>5. CASE U # {} /\ ~Single(u[k], U)
    BY <1>1, <1>5 DEF CellsResult
<1>. QED
    BY <1>3, <1>4, <1>5

\* A reducer's result for a key depends only on that key's input.
LEMMA ResultsLocal ==
    ASSUME NEW o, NEW u, NEW o2, NEW u2, NEW k,
           o[k] = o2[k], u[k] = u2[k]
    PROVE  /\ RowsResult(o, u, k) = RowsResult(o2, u2, k)
           /\ CellsResult(o, u, k) = CellsResult(o2, u2, k)
<1>1. OrigVals(o, k) = OrigVals(o2, k) /\ UpdVals(u, k) = UpdVals(u2, k)
    BY DEF OrigVals, UpdVals
<1>. QED
    BY <1>1 DEF RowsResult, CellsResult

LEMMA InitRInv == Init => RInv
<1> SUFFICES ASSUME Init PROVE RInv
    OBVIOUS
<1>1. ASSUME NEW k \in Keys
      PROVE  /\ RowsResult(orig, upd, k) = NoRow
             /\ CellsResult(orig, upd, k) = NoRow
    <2>1. OrigVals(orig, k) = {} /\ UpdVals(upd, k) = {}
        BY <1>1 DEF Init, OrigVals, UpdVals
    <2>2. ~Single(orig[k], {}) /\ ~Single(upd[k], {})
        BY FS_EmptySet DEF Single
    <2>. QED
        BY <2>1, <2>2 DEF RowsResult, CellsResult
<1>2. TypeOK
    BY DEF Init, TypeOK, Mult
<1>. QED
    BY <1>1, <1>2 DEF Init, RInv, OutputsCurrent

\* The step of either change: one input table is updated at key k by d, the
\* other is left alone, and both reducers run again for k.
LEMMA ChangeRInv ==
    ASSUME RInv,
           NEW k \in Keys, NEW v \in Vals, NEW d \in {-1, 1},
           \/ /\ orig[k][v] + d \in Mult
              /\ orig' = [orig EXCEPT ![k][v] = @ + d]
              /\ upd' = upd
           \/ /\ upd[k][v] + d \in Mult
              /\ upd' = [upd EXCEPT ![k][v] = @ + d]
              /\ orig' = orig,
           Reduce(orig', upd', k)
    PROVE  RInv'
<1>1. /\ orig' \in [Keys -> [Vals -> Mult]]
      /\ upd' \in [Keys -> [Vals -> Mult]]
      /\ \A j \in Keys \ {k} : orig'[j] = orig[j] /\ upd'[j] = upd[j]
    <2>1. CASE /\ orig[k][v] + d \in Mult
               /\ orig' = [orig EXCEPT ![k][v] = @ + d]
               /\ upd' = upd
        BY <2>1 DEF RInv, TypeOK
    <2>2. CASE /\ upd[k][v] + d \in Mult
               /\ upd' = [upd EXCEPT ![k][v] = @ + d]
               /\ orig' = orig
        BY <2>2 DEF RInv, TypeOK
    <2>. QED
        BY <2>1, <2>2
<1>2. TypeOK'
    BY <1>1, ResultTypes DEF RInv, TypeOK, Reduce
<1>3. ASSUME NEW j \in Keys
      PROVE  /\ outRows'[j] = RowsResult(orig', upd', j)
             /\ outCells'[j] = CellsResult(orig', upd', j)
    <2>1. CASE j = k
        BY <2>1 DEF RInv, TypeOK, Reduce
    <2>2. CASE j # k
        <3>0. orig'[j] = orig[j] /\ upd'[j] = upd[j]
            BY <1>1, <2>2
        <3>1. RowsResult(orig', upd', j) = RowsResult(orig, upd, j)
              /\ CellsResult(orig', upd', j) = CellsResult(orig, upd, j)
            BY <3>0, ResultsLocal
        <3>. QED
            BY <2>2, <3>1 DEF RInv, TypeOK, Reduce, OutputsCurrent
    <2>. QED
        BY <2>1, <2>2
<1>. QED
    BY <1>2, <1>3 DEF RInv, OutputsCurrent

LEMMA NextRInv == RInv /\ [Next]_vars => RInv'
<1> SUFFICES ASSUME RInv, [Next]_vars PROVE RInv'
    OBVIOUS
<1>1. CASE ChangeOriginal
    BY <1>1, ChangeRInv DEF ChangeOriginal
<1>2. CASE ChangeUpdate
    BY <1>2, ChangeRInv DEF ChangeUpdate
<1>3. CASE UNCHANGED vars
    BY <1>3 DEF RInv, vars, TypeOK, OutputsCurrent
<1>. QED
    BY <1>1, <1>2, <1>3 DEF Next

\* update_cells_table keeps the universe of the original table, whatever
\* the update table holds and in whatever order rows of both tables are
\* inserted and retracted: for every set of keys, payloads and multiplicity
\* bound.
THEOREM UpdateCellsKeepsUniverseSafe == Spec => []UpdateCellsKeepsUniverse
<1>1. RInv => UpdateCellsKeepsUniverse
    <2> SUFFICES ASSUME RInv, NEW k \in Keys
                 PROVE  IF Single(orig[k], OrigVals(orig, k))
                        THEN outCells[k] # NoRow
                             /\ outCells[k][1] = The(OrigVals(orig, k))
                        ELSE outCells[k] = NoRow
        BY DEF UpdateCellsKeepsUniverse
    <2>1. outCells[k] = CellsResult(orig, upd, k)
        BY DEF RInv, OutputsCurrent
    <2>. QED
        BY <2>1, CellsUniverse
<1>. QED
    BY InitRInv, NextRInv, <1>1, PTL DEF Spec

\* Wherever update_cells_table emits a clean row, update_rows_table emits
\* the payload update_cells selected (the round-trip law of the two
\* reducers), after every sequence of input changes.
THEOREM RowsCellsAgreeSafe == Spec => []RowsCellsAgree
<1>1. RInv => RowsCellsAgree
    <2> SUFFICES ASSUME RInv, NEW k \in Keys,
                        outCells[k] # NoRow, outCells[k][2] # ErrorVal
                 PROVE  outRows[k] = outCells[k][2]
        BY DEF RowsCellsAgree
    <2>1. outCells[k] = CellsResult(orig, upd, k)
          /\ outRows[k] = RowsResult(orig, upd, k)
        BY DEF RInv, OutputsCurrent
    <2>. QED
        BY <2>1, CellsAgreeRows
<1>. QED
    BY InitRInv, NextRInv, <1>1, PTL DEF Spec

\* update_rows and update_cells keep every output of their types: each key
\* has at most one output row, and a cell is a value or Value::Error.
THEOREM UpdateRowsTypeCorrect == Spec => []TypeOK
<1>1. RInv => TypeOK
    BY DEF RInv
<1>. QED
    BY <1>1, InitRInv, NextRInv, PTL DEF Spec

=============================================================================
