--------------------------------- MODULE Join ---------------------------------
(***************************************************************************)
(* join_tables (engine/dataflow.rs) as the collection algebra it builds.   *)
(*                                                                         *)
(* A differential collection is a multiset with signed counts (a Z-set);  *)
(* the join's output at a time is a function of its two input tables at   *)
(* that time, so the model keeps the inputs as the state and computes the *)
(* output the way the operator graph does: extract_join_key on each side  *)
(* (an error in the join columns gives no join key and logs ErrorInJoin), *)
(* join_core of the rows with a key, the outer parts as input minus       *)
(* distinct(matched rows), concat, and for the left-keys join types       *)
(* replace_duplicates_with_error.  ShardPolicy's key hash is taken as     *)
(* injective: the join key of a row is its join value.                    *)
(***************************************************************************)
EXTENDS Integers, Functions

CONSTANTS
    LKeys, RKeys,  \* row keys of the left and the right table
    JVals,         \* join column values
    Err,           \* Value::Error
    None,          \* Value::None and the missing join key
    Absent         \* no row with this key

ASSUME JoinAssumption ==
    /\ {Err, None, Absent} \cap JVals = {}
    /\ Err # None /\ Err # Absent /\ None # Absent
    /\ (LKeys \cup RKeys) \cap {Err, None} = {}

JoinTypes == {"Inner", "LeftOuter", "RightOuter", "FullOuter",
              "LeftKeysFull", "LeftKeysSubset"}

VARIABLES
    left,      \* the left table: a row's join value, or Absent
    right,     \* the right table
    joinType   \* the JoinType the graph was built with

vars == <<left, right, joinType>>

\* The rows the output can hold: keyed by the left key, or by the hash of
\* the left and right keys with None for a padded side.
ResultKeys == LKeys \cup ((LKeys \cup {None}) \X (RKeys \cup {None}))
ResultElems ==
    [key : ResultKeys, lk : LKeys \cup {None}, lv : JVals \cup {Err, None},
     rk : RKeys \cup {None, Err}, rv : JVals \cup {Err, None}]

-----------------------------------------------------------------------------
(* Z-sets: functions from the elements with a non-zero count to the count. *)

ZOf(S) == [x \in S |-> 1]
Count(z, x) == IF x \in DOMAIN z THEN z[x] ELSE 0
Consolidate(z) == [x \in {y \in DOMAIN z : z[y] # 0} |-> z[x]]
ZConcat(f, g) == Consolidate([x \in DOMAIN f \cup DOMAIN g |-> Count(f, x) + Count(g, x)])
ZNegate(z) == [x \in DOMAIN z |-> -z[x]]
ZDistinct(z) == [x \in {y \in DOMAIN z : z[y] > 0} |-> 1]
ZMap(z, F(_)) ==
    Consolidate([y \in {F(x) : x \in DOMAIN z} |->
                    SumFunctionOnSet(z, {x \in DOMAIN z : F(x) = y})])

-----------------------------------------------------------------------------
(* The operator graph of join_tables.                                      *)

\* A row is <<key, join value>>; the None row pads a missing side.
Rows(t) == {<<k, t[k]>> : k \in {j \in DOMAIN t : t[j] # Absent}}
NoneRow == <<None, None>>

\* extract_join_key: no key (logged as ErrorInJoin) for an error value.
JoinKey(row) == IF row[2] = Err THEN None ELSE row[2]

\* left_with_join_key / right_with_join_key: (join key or None, row).
Keyed(t) == {<<JoinKey(row), row>> : row \in Rows(t)}

\* join_left / join_right keep the rows with a join key; join_core pairs
\* them: (join key, left row, right row).
JoinLR ==
    {<<p[1], p[2], q[2]>> :
        <<p, q>> \in {pq \in Keyed(left) \X Keyed(right) :
                        pq[1][1] # None /\ pq[1][1] = pq[2][1]}}

LeftKeysType == joinType \in {"LeftKeysFull", "LeftKeysSubset"}

\* A result row: its key, then left pointer and values, right pointer and
\* values (Value::None for a padded side).
Elem(key, l, r) == [key |-> key, lk |-> l[1], lv |-> l[2], rk |-> r[1], rv |-> r[2]]

\* result_left_right: the left key, or the hash of both keys.
ResultLeftRight ==
    ZOf({Elem(IF LeftKeysType THEN m[2][1] ELSE <<m[2][1], m[3][1]>>, m[2], m[3]) :
            m \in JoinLR})

\* left_outer / right_outer: the side's keyed rows minus distinct(the
\* matched ones); side 2 is the left row of a match, side 3 the right one.
OuterRestNoDistinct(t, side) ==
    ZConcat(ZOf(Keyed(t)),
            ZNegate(ZMap(ZOf(JoinLR), LAMBDA m : <<m[1], m[side]>>)))
OuterRest(t, side) ==
    ZConcat(ZOf(Keyed(t)),
            ZNegate(ZDistinct(ZMap(ZOf(JoinLR), LAMBDA m : <<m[1], m[side]>>))))

ResultLeftOuter ==
    CASE joinType \in {"LeftOuter", "FullOuter"} ->
            ZMap(OuterRest(left, 2), LAMBDA p : Elem(<<p[2][1], None>>, p[2], NoneRow))
      [] joinType = "LeftKeysFull" ->
            ZMap(OuterRest(left, 2), LAMBDA p : Elem(p[2][1], p[2], NoneRow))
      [] OTHER -> ZOf({})

ResultRightOuterSwapped ==
    IF joinType \in {"RightOuter", "FullOuter"}
    THEN ZMap(OuterRest(right, 3), LAMBDA p : Elem(<<p[2][1], None>>, NoneRow, p[2]))
    ELSE ZOf({})
ResultRightOuter ==
    IF joinType \in {"RightOuter", "FullOuter"}
    THEN ZMap(OuterRest(right, 3), LAMBDA p : Elem(<<None, p[2][1]>>, NoneRow, p[2]))
    ELSE ZOf({})

\* replace_duplicates_with_error: a key with one row of count one keeps it;
\* otherwise one row with the left side and Value::Error for the right.
ReplaceDuplicates(z) ==
    ZOf({LET es == {e \in DOMAIN z : e.key = k}
            e == CHOOSE x \in es : TRUE
        IN IF es = {e} /\ z[e] = 1 THEN e ELSE [e EXCEPT !.rk = Err, !.rv = Err] :
        k \in {e.key : e \in DOMAIN z}})

\* The join's output collection.
JoinOutput ==
    LET all == ZConcat(ZConcat(ResultLeftRight, ResultLeftOuter), ResultRightOuter)
    IN IF LeftKeysType THEN ReplaceDuplicates(all) ELSE all

-----------------------------------------------------------------------------
(* The inputs change; the graph is built once with some join type.         *)

TypeOK ==
    /\ left \in [LKeys -> JVals \cup {Err, Absent}]
    /\ right \in [RKeys -> JVals \cup {Err, Absent}]
    /\ joinType \in JoinTypes
    /\ DOMAIN JoinOutput \subseteq ResultElems

Init ==
    /\ left = [k \in LKeys |-> Absent]
    /\ right = [k \in RKeys |-> Absent]
    /\ joinType \in JoinTypes

SetLeft(k, v) ==
    /\ v # left[k]
    /\ left' = [left EXCEPT ![k] = v]
    /\ UNCHANGED <<right, joinType>>

SetRight(k, v) ==
    /\ v # right[k]
    /\ right' = [right EXCEPT ![k] = v]
    /\ UNCHANGED <<left, joinType>>

Next ==
    \/ \E k \in LKeys, v \in JVals \cup {Err, Absent} : SetLeft(k, v)
    \/ \E k \in RKeys, v \in JVals \cup {Err, Absent} : SetRight(k, v)

Spec == Init /\ [][Next]_vars

-----------------------------------------------------------------------------
(* Properties.                                                             *)

\* The rows of each side that a row of the other side joins with.
Partners(l) == {r \in Rows(right) : l[2] # Err /\ l[2] = r[2]}
LPartners(r) == {l \in Rows(left) : r[2] # Err /\ l[2] = r[2]}

\* The join as a relation: matched pairs, then every unmatched row of an
\* outer side padded with None, and in a left-keys join one row per left
\* row (an error row when it has several partners).
RefJoin ==
    IF LeftKeysType
    THEN {IF Partners(l) = {} THEN Elem(l[1], l, NoneRow)
          ELSE LET r == CHOOSE x \in Partners(l) : TRUE
               IN IF Partners(l) = {r} THEN Elem(l[1], l, r)
                  ELSE Elem(l[1], l, <<Err, Err>>) :
            l \in {x \in Rows(left) : joinType = "LeftKeysFull" \/ Partners(x) # {}}}
    ELSE {Elem(<<l[1], r[1]>>, l, r) : <<l, r>> \in
            {lr \in Rows(left) \X Rows(right) : lr[2] \in Partners(lr[1])}}
         \cup (IF joinType \in {"LeftOuter", "FullOuter"}
               THEN {Elem(<<l[1], None>>, l, NoneRow) :
                        l \in {x \in Rows(left) : Partners(x) = {}}}
               ELSE {})
         \cup (IF joinType \in {"RightOuter", "FullOuter"}
               THEN {Elem(<<None, r[1]>>, NoneRow, r) :
                        r \in {x \in Rows(right) : LPartners(x) = {}}}
               ELSE {})

\* At every time the join's output collection is exactly the relational
\* join of its inputs, each row once: the input-minus-distinct outer parts
\* never go negative or keep a matched row, and a left-keys join has one
\* row per left key.
JoinMatchesReference == JoinOutput = ZOf(RefJoin)

\* The spec (Join tables, section 4): a row whose join key is an error is
\* dropped; no output row carries such a row.
ErroredRowsDropped ==
    \A e \in DOMAIN JoinOutput : e.lv # Err /\ (e.rk \in RKeys => e.rv # Err)

=============================================================================
