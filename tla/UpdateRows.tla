------------------------------ MODULE UpdateRows ------------------------------
(***************************************************************************)
(* update_rows_table and update_cells_table (engine/dataflow.rs).  Both    *)
(* concatenate the original table, tagged MaybeUpdate::Original, with the  *)
(* update table, tagged MaybeUpdate::Update (update_rows_arrange), and     *)
(* reduce by key.  reduce_abelian hands the reducer a key's consolidated   *)
(* input sorted by (tag, value): Original entries before Update entries.   *)
(* The reducer output for a key is recomputed on every change of its       *)
(* input; it is modelled here as a function of that input.                 *)
(***************************************************************************)
EXTENDS Integers, FiniteSets

CONSTANTS
    Keys,
    Vals,       \* row payloads
    NoRow,      \* the reducer pushed nothing for the key
    ErrorVal,   \* Value::Error
    MaxMult     \* bound on the multiplicity of one row in an input

\* NoRow stands for the reducers' None: it is neither a payload nor a pair
\* of cells.
ASSUME UpdateRowsAssumption ==
    /\ NoRow \notin Vals /\ ErrorVal \notin Vals
    /\ NoRow \notin Vals \X (Vals \cup {ErrorVal})
    /\ MaxMult \in Nat \ {0}

VARIABLES
    orig,       \* the original table: key -> payload -> multiplicity
    upd,        \* the update table: key -> payload -> multiplicity
    outRows,    \* update_rows_table's output: key -> payload or NoRow
    outCells,   \* update_cells_table's output: key -> <<original, selected>> or NoRow
    logged      \* the (error, key) pairs the error logger has received

vars == <<orig, upd, outRows, outCells, logged>>

Mult == 0..MaxMult
Errors == {"DuplicateKey", "UpdatingNonExistingRow"}

TypeOK ==
    /\ orig \in [Keys -> [Vals -> Mult]]
    /\ upd \in [Keys -> [Vals -> Mult]]
    /\ outRows \in [Keys -> Vals \cup {NoRow}]
    /\ outCells \in [Keys -> (Vals \X (Vals \cup {ErrorVal})) \cup {NoRow}]
    /\ logged \subseteq Errors \X Keys

\* The Original and Update entries of a key's input, and the payload of a
\* key's only entry of one kind.
OrigVals(o, k) == {v \in Vals : o[k][v] > 0}
UpdVals(u, k) == {v \in Vals : u[k][v] > 0}
\* [(tag(x), DIFF_INSERTION)]: exactly one entry, with diff 1.
Single(m, S) == Cardinality(S) = 1 /\ m[CHOOSE v \in S : TRUE] = 1
The(S) == CHOOSE v \in S : TRUE

\* Mutant: the original wins over the update.
RowsResultOrigWins(o, u, k) ==
    LET O == OrigVals(o, k)
        U == UpdVals(u, k)
    IN  CASE Single(o[k], O) /\ U = {} -> The(O)
          [] O = {} /\ Single(u[k], U) -> The(U)
          [] Single(o[k], O) /\ Single(u[k], U) -> The(O)
          [] OTHER -> NoRow

\* The update_rows_table reducer: lone original, lone update, or original
\* then update, each with diff 1; anything else is a DuplicateKey.
RowsResult(o, u, k) ==
    LET O == OrigVals(o, k)
        U == UpdVals(u, k)
    IN  CASE Single(o[k], O) /\ U = {} -> The(O)
          [] O = {} /\ Single(u[k], U) -> The(U)
          [] Single(o[k], O) /\ Single(u[k], U) -> The(U)
          [] OTHER -> NoRow
RowsError(o, u, k) ==
    IF RowsResult(o, u, k) = NoRow /\ OrigVals(o, k) \cup UpdVals(u, k) # {}
    THEN {<<"DuplicateKey", k>>} ELSE {}

\* Mutant: several updates drop the row instead of keeping the original.
CellsResultDropDup(o, u, k) ==
    LET O == OrigVals(o, k)
        U == UpdVals(u, k)
    IN  CASE Single(o[k], O) /\ U = {} -> <<The(O), The(O)>>
          [] Single(o[k], O) /\ Single(u[k], U) -> <<The(O), The(U)>>
          [] OTHER -> NoRow

\* The update_cells_table reducer: the selected cells come from the update
\* when there is exactly one, the original is kept with Value::Error when
\* there are more, a lone update is UpdatingNonExistingRow.
CellsResult(o, u, k) ==
    LET O == OrigVals(o, k)
        U == UpdVals(u, k)
    IN  CASE Single(o[k], O) /\ U = {} -> <<The(O), The(O)>>
          [] Single(o[k], O) /\ Single(u[k], U) -> <<The(O), The(U)>>
          [] Single(o[k], O) /\ U # {} -> <<The(O), ErrorVal>>
          [] OTHER -> NoRow
CellsError(o, u, k) ==
    LET O == OrigVals(o, k)
        U == UpdVals(u, k)
    IN  CASE Single(o[k], O) /\ U # {} /\ ~Single(u[k], U) -> {<<"DuplicateKey", k>>}
          [] O = {} /\ Single(u[k], U) -> {<<"UpdatingNonExistingRow", k>>}
          [] ~Single(o[k], O) /\ O \cup U # {} -> {<<"DuplicateKey", k>>}
          [] OTHER -> {}

Init ==
    /\ orig = [k \in Keys |-> [v \in Vals |-> 0]]
    /\ upd = [k \in Keys |-> [v \in Vals |-> 0]]
    /\ outRows = [k \in Keys |-> NoRow]
    /\ outCells = [k \in Keys |-> NoRow]
    /\ logged = {}

\* Both reducers run again for key k once its input has changed.
Reduce(o, u, k) ==
    /\ outRows' = [outRows EXCEPT ![k] = RowsResult(o, u, k)]
    /\ outCells' = [outCells EXCEPT ![k] = CellsResult(o, u, k)]
    /\ logged' = logged \cup RowsError(o, u, k) \cup CellsError(o, u, k)

\* A row of the original table is inserted (d = 1) or deleted (d = -1).
ChangeOriginal ==
    \E k \in Keys, v \in Vals, d \in {-1, 1} :
        /\ orig[k][v] + d \in Mult
        /\ orig' = [orig EXCEPT ![k][v] = @ + d]
        /\ Reduce(orig', upd, k)
        /\ UNCHANGED upd

\* Mutant: a deletion from the update table of a row it does not hold.
ChangeUpdateUnguarded ==
    \E k \in Keys, v \in Vals, d \in {-1, 1} :
        /\ upd[k][v] + d <= MaxMult
        /\ upd' = [upd EXCEPT ![k][v] = @ + d]
        /\ Reduce(orig, upd', k)
        /\ UNCHANGED orig

\* A row of the update table is inserted or deleted.
ChangeUpdate ==
    \E k \in Keys, v \in Vals, d \in {-1, 1} :
        /\ upd[k][v] + d \in Mult
        /\ upd' = [upd EXCEPT ![k][v] = @ + d]
        /\ Reduce(orig, upd', k)
        /\ UNCHANGED orig

Next == ChangeOriginal \/ ChangeUpdate

Spec == Init /\ [][Next]_vars

-----------------------------------------------------------------------------
(* Properties.                                                             *)

\* Spec section 4.2, Update rows / Update cells: "Updates without a
\* corresponding original row emit UpdatingNonExistingRow and are dropped"
\* -- an output row of update_rows has an original row under its key.
UpdateRowsNeedsOriginal ==
    \A k \in Keys : outRows[k] # NoRow => OrigVals(orig, k) # {}

\* update_cells keeps the universe of the original table ("if there's
\* exactly one original entry, keep it to preserve the universe keys"):
\* a key has an output row exactly when it has one original row, and that
\* row carries the original payload, whatever the update table holds.
UpdateCellsKeepsUniverse ==
    \A k \in Keys :
        IF Single(orig[k], OrigVals(orig, k))
        THEN outCells[k] # NoRow /\ outCells[k][1] = The(OrigVals(orig, k))
        ELSE outCells[k] = NoRow

\* Spec section 8, round-trip law: update_cells over all columns agrees with
\* update_rows -- wherever update_cells emits a clean row (no Value::Error),
\* update_rows emits the payload update_cells selected.
RowsCellsAgree ==
    \A k \in Keys :
        outCells[k] # NoRow /\ outCells[k][2] # ErrorVal => outRows[k] = outCells[k][2]

=============================================================================
