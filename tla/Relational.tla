------------------------------ MODULE Relational ------------------------------
(***************************************************************************)
(* The key-wise operators of engine/dataflow.rs over the same two input    *)
(* tables as the join: subtract_table, intersect_tables and                *)
(* restrict_or_override_table_universe (with                               *)
(* make_output_keys_match_input_keys and assert_input_keys_match_output_keys). *)
(* Each is the Z-set expression the code builds from join_core on         *)
(* arranged keys or values, concat and negate.                            *)
(***************************************************************************)
EXTENDS Join, Sequences

\* The keys of a table and its rows as collections (Table::keys, values).
TKeys(t) == {r[1] : r \in Rows(t)}
TableZ(t) == ZOf(Rows(t))

\* join_core of an arranged values collection with an arranged keys
\* collection: the rows whose key is in the keys, counts multiplied.
JoinOnKey(vz, kz) ==
    [x \in {y \in DOMAIN vz : y[1] \in DOMAIN kz} |-> vz[x] * kz[x[1]]]

\* subtract_table: left's values minus (left joined with right's keys).
SubtractTableByRows(l, r) == ZConcat(TableZ(l), ZNegate(TableZ(r)))
SubtractTable(l, r) == ZConcat(TableZ(l), ZNegate(JoinOnKey(TableZ(l), ZOf(TKeys(r)))))

\* intersect_tables: the keys of the other tables joined one after the
\* other, then the table's values joined with them; no other table gives
\* the table itself.
IntersectTables(t, others) ==
    IF others = <<>> THEN TableZ(t)
    ELSE JoinOnKey(TableZ(t),
                   ZOf({k \in TKeys(others[1]) :
                           \A i \in 1..Len(others) : k \in TKeys(others[i])}))

\* restrict_or_override_table_universe(orig, new): new's values paired with
\* orig's by key; make_output_keys_match_input_keys adds, for every row of
\* new that found no partner, (new values, Value::Error) and logs
\* KeyMissingInOutputTable.
OverrideJoined(orig, new) ==
    ZOf({<<a[1], <<a[2], b[2]>>>> :
            <<a, b>> \in {ab \in Rows(new) \X Rows(orig) : ab[1][1] = ab[2][1]}})
RestrictOverrideNoFill(orig, new) == OverrideJoined(orig, new)
RestrictOverride(orig, new) ==
    LET result == OverrideJoined(orig, new)
        leftover == ZConcat(TableZ(new), ZNegate(ZMap(result, LAMBDA x : <<x[1], x[2][1]>>)))
    IN ZConcat(result, ZMap(leftover, LAMBDA x : <<x[1], <<x[2], Err>>>>))

\* assert_input_keys_match_output_keys: input keys minus output keys,
\* consolidated; a positive count logs KeyMissingInOutputTable, a negative
\* one KeyMissingInInputTable.
KeyMismatch(inKeys, out) ==
    ZConcat(ZOf(inKeys), ZNegate(ZMap(out, LAMBDA x : x[1])))

-----------------------------------------------------------------------------
(* Properties.                                                             *)

\* subtract_table and intersect_tables split the left table by the right
\* table's keys: each left row lands, once, in exactly one of them, and
\* the values of the right table play no part.
SubtractIntersectSplit ==
    /\ SubtractTable(left, right) = ZOf({r \in Rows(left) : r[1] \notin TKeys(right)})
    /\ IntersectTables(left, <<right>>) = ZOf({r \in Rows(left) : r[1] \in TKeys(right)})

\* restrict_or_override_table_universe(left, right) has exactly right's
\* keys, each once, carrying right's values and left's or Value::Error;
\* the universe assertion of a same-universe call then logs a mismatch
\* exactly for the keys the two tables do not share.
OverrideHasNewKeys ==
    LET out == RestrictOverride(left, right) IN
    /\ out = ZOf({<<k, <<right[k], IF k \in TKeys(left) THEN left[k] ELSE Err>>>> :
                    k \in TKeys(right)})
    /\ DOMAIN KeyMismatch(TKeys(left), out)
           = (TKeys(left) \ TKeys(right)) \cup (TKeys(right) \ TKeys(left))

=============================================================================
