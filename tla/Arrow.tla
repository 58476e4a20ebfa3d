-------------------------------- MODULE Arrow --------------------------------
(***************************************************************************)
(* The conversion of a column of engine values into an Arrow array for the *)
(* data-lake writers (connectors/data_lake/arrow.rs): arrow_data_type      *)
(* maps the column's engine Type to an Arrow type, and array_for_type      *)
(* builds the array: scalars with nulls for Value::None (and               *)
(* TypeMismatchWithSchema for anything else), lists as one flat child      *)
(* array with offsets and a validity bitmap, tuples as a struct of one     *)
(* child array per field with a validity bitmap.                           *)
(*                                                                         *)
(* Values, types and arrays are records; the scalar kinds are Int and      *)
(* Bool (the other scalar arms differ only in the Rust types involved),    *)
(* and a String stands for a value the schema does not expect.  Field     *)
(* names and metadata are layout and left out.                             *)
(***************************************************************************)
EXTENDS Naturals, Sequences, SequencesExt

CONSTANTS
    MaxRows,   \* rows of a written column
    MaxLen     \* elements of a list value

ASSUME ArrowAssumption == MaxRows \in Nat /\ MaxLen \in Nat

\* Engine values.
VNone == [k |-> "None", v |-> 0]
VStr == [k |-> "String", v |-> 0]
VInt(n) == [k |-> "Int", v |-> n]
VBool(b) == [k |-> "Bool", v |-> b]
VTuple(s) == [k |-> "Tuple", v |-> s]

\* Engine types.
TInt == [c |-> "Int", of |-> <<>>]
TBool == [c |-> "Bool", of |-> <<>>]
TAny == [c |-> "Any", of |-> <<>>]
TOpt(t) == [c |-> "Opt", of |-> <<t>>]
TList(t) == [c |-> "List", of |-> <<t>>]
TTuple(ts) == [c |-> "Tuple", of |-> ts]

\* The outcomes that are not arrays.
Unsupported == [err |-> "UnsupportedType"]
Mismatch == [err |-> "TypeMismatchWithSchema"]
Panic == [err |-> "panic"]
Failed(x) == "err" \in DOMAIN x
\* A slot of a scalar array is an Option: <<>> for null, <<x>> for x.
Null == <<>>

-----------------------------------------------------------------------------
(* arrow_data_type: the Arrow type of a column, or UnsupportedType.        *)

RECURSIVE ArrowDataType(_)
ArrowDataType(t) ==
    CASE t.c = "Bool" -> [a |-> "Boolean"]
      [] t.c = "Int"  -> [a |-> "Int64"]
      [] t.c = "Opt"  -> ArrowDataType(t.of[1])
      [] t.c = "List" ->
            LET inner == ArrowDataType(t.of[1])
            IN IF Failed(inner) THEN inner
               ELSE [a |-> "List", nullable |-> t.of[1].c = "Opt", item |-> inner]
      [] t.c = "Tuple" ->
            LET inner == [i \in DOMAIN t.of |-> ArrowDataType(t.of[i])]
                bad == {i \in DOMAIN t.of : Failed(inner[i])}
            IN IF bad # {} THEN inner[CHOOSE i \in bad : \A j \in bad : i <= j]
               ELSE [a |-> "Struct",
                     fields |-> [i \in DOMAIN t.of |->
                                   [nullable |-> t.of[i].c = "Opt", item |-> inner[i]]]]
      [] t.c = "Any"  -> Unsupported

-----------------------------------------------------------------------------
(* array_for_type and its helpers.                                         *)

\* The engine value kind each scalar Arrow type accepts.
Accepts(at) == IF at.a = "Int64" THEN "Int" ELSE "Bool"

\* array_of_simple_type: None becomes null, a value of the accepted kind
\* its scalar, anything else stops the loop with TypeMismatchWithSchema.
Simple(at, vals) ==
    IF \E i \in DOMAIN vals : vals[i].k \notin {"None", Accepts(at)}
    THEN Mismatch
    ELSE [arr |-> at.a, data |-> [i \in DOMAIN vals |-> IF vals[i] = VNone THEN Null ELSE <<vals[i].v>>]]

\* The elements a list value contributes: those of a tuple, none otherwise.
Elems(v) == IF v.k = "Tuple" THEN v.v ELSE <<>>

\* Rows and null slots of a built array.
ArrLen(x) == IF x.arr \in {"Int64", "Boolean"} THEN Len(x.data) ELSE Len(x.valid)
IsNull(x, i) == IF x.arr \in {"Int64", "Boolean"} THEN x.data[i] = Null ELSE ~x.valid[i]
HasNulls(x) == \E i \in 1..ArrLen(x) : IsNull(x, i)

\* array_of_lists: offsets[i] is the flat length before row i (with the
\* total last); a tuple row sets its bit and appends its elements, any
\* other value (None included) leaves the bit unset and appends nothing.
\* ListArray::new panics when the item field is not nullable and the
\* child array holds a null.
ListOffsetsNoTotal(vals) ==
    [i \in 1..Len(vals) |-> Len(FlattenSeq([j \in 1..i - 1 |-> Elems(vals[j])]))]
ListOffsets(vals) ==
    [i \in 1..Len(vals) + 1 |-> Len(FlattenSeq([j \in 1..i - 1 |-> Elems(vals[j])]))]
ListValidAll(vals) == [i \in DOMAIN vals |-> TRUE]
ListValid(vals) == [i \in DOMAIN vals |-> vals[i].k = "Tuple"]

\* array_of_structs, step 1: a None row pushes None onto every field's
\* column, a tuple row its i-th element onto column i (a longer tuple
\* indexes past the columns and panics); any other value panics.
StructColumn(vals, f) ==
    FlattenSeq([i \in DOMAIN vals |->
                  CASE vals[i] = VNone -> <<VNone>>
                    [] Len(vals[i].v) >= f -> <<vals[i].v[f]>>
                    [] OTHER -> <<>>])

RECURSIVE ArrayForType(_, _)

ListArray(at, vals) ==
    LET child == ArrayForType(at.item, FlattenSeq([i \in DOMAIN vals |-> Elems(vals[i])]))
    IN CASE Failed(child) -> child
         [] ~at.nullable /\ HasNulls(child) -> Panic
         [] OTHER -> [arr |-> "List", offsets |-> ListOffsets(vals),
                      valid |-> ListValid(vals), child |-> child]

\* Step 2 builds a child array per field and returns the first error;
\* step 3, StructArray::new, panics on children of a length other than
\* the rows (a shorter tuple) and on a null of a non-nullable field in a
\* row the struct's bitmap marks valid.
StructArray(at, vals) ==
    LET n == Len(at.fields)
        children == [f \in 1..n |-> ArrayForType(at.fields[f].item, StructColumn(vals, f))]
        bad == {f \in 1..n : Failed(children[f])}
    IN CASE \E i \in DOMAIN vals : vals[i].k \notin {"None", "Tuple"} -> Panic
         [] \E i \in DOMAIN vals : vals[i].k = "Tuple" /\ Len(vals[i].v) > n -> Panic
         [] bad # {} -> children[CHOOSE f \in bad : \A g \in bad : f <= g]
         [] \E f \in 1..n : ArrLen(children[f]) # Len(vals) -> Panic
         [] \E f \in 1..n, i \in DOMAIN vals :
               ~at.fields[f].nullable /\ vals[i] # VNone /\ IsNull(children[f], i) -> Panic
         [] OTHER -> [arr |-> "Struct", valid |-> [i \in DOMAIN vals |-> vals[i] # VNone],
                      children |-> children]

ArrayForType(at, vals) ==
    CASE at.a \in {"Int64", "Boolean"} -> Simple(at, vals)
      [] at.a = "List"   -> ListArray(at, vals)
      [] at.a = "Struct" -> StructArray(at, vals)

\* Writing a column of type t: its Arrow type, then its array.
Convert(t, vals) ==
    LET at == ArrowDataType(t) IN IF Failed(at) THEN at ELSE ArrayForType(at, vals)

-----------------------------------------------------------------------------
(* The writer converts the column of a batch.                              *)

\* The values a column of type t may be handed: those of the type, None
\* anywhere, and a String where the type expects something else.
RECURSIVE Candidates(_)
Candidates(t) ==
    {VNone} \cup
    CASE t.c = "Int"   -> {VInt(1), VStr}
      [] t.c = "Bool"  -> {VBool(TRUE)}
      [] t.c = "Any"   -> {VInt(1)}
      [] t.c = "Opt"   -> Candidates(t.of[1])
      [] t.c = "List"  -> {VTuple(s) : s \in SeqOf(Candidates(t.of[1]), MaxLen)} \cup {VStr}
      [] t.c = "Tuple" -> {VStr} \cup
                          {VTuple(s) : s \in {s \in [1..Len(t.of) -> UNION {Candidates(u) : u \in ToSet(t.of)}] :
                                                 \A i \in DOMAIN s : s[i] \in Candidates(t.of[i])}}

\* The column types written.
WriteTypes ==
    {TInt, TOpt(TBool), TOpt(TList(TInt)), TList(TOpt(TInt)),
     TOpt(TTuple(<<TBool, TList(TInt)>>)), TList(TTuple(<<TInt, TOpt(TBool)>>)),
     TTuple(<<TInt, TAny>>)}

VARIABLES colType, column, result

vars == <<colType, column, result>>

RECURSIVE WellFormed(_)
WellFormed(x) ==
    \/ Failed(x)
    \/ x.arr \in {"Int64", "Boolean"} /\
       \A i \in DOMAIN x.data :
          x.data[i] \in {Null} \cup {<<y>> : y \in IF x.arr = "Int64" THEN 0..1 ELSE BOOLEAN}
    \/ /\ x.arr = "List"
       /\ Len(x.offsets) = Len(x.valid) + 1 /\ x.offsets[1] = 0
       /\ \A i \in DOMAIN x.valid : x.offsets[i] <= x.offsets[i + 1]
       /\ x.offsets[Len(x.offsets)] = ArrLen(x.child)
       /\ WellFormed(x.child)
    \/ /\ x.arr = "Struct"
       /\ \A f \in DOMAIN x.children :
             ArrLen(x.children[f]) = Len(x.valid) /\ WellFormed(x.children[f])

\* The column has its type's candidate values, and the result is an error or
\* a well-formed Arrow array: a list's offsets start at 0, never decrease,
\* number one more than its rows and end at its child's length; a struct's
\* children have its rows.
TypeOK ==
    /\ colType \in WriteTypes
    /\ column \in SeqOf(Candidates(colType), MaxRows)
    /\ WellFormed(result)

\* The column's type is fixed when the schema is built; its buffered values
\* grow a row at a time and the batch is converted as it stands.
Init ==
    /\ colType \in WriteTypes
    /\ column = <<>>
    /\ result = Convert(colType, <<>>)

Write ==
    /\ Len(column) < MaxRows
    /\ \E v \in Candidates(colType) :
          /\ column' = Append(column, v)
          /\ result' = Convert(colType, column')
          /\ UNCHANGED colType

Next == Write

Spec == Init /\ [][Next]_vars

-----------------------------------------------------------------------------
(* Properties.                                                             *)

\* How an Arrow reader reads the array back: a null slot is None, a list
\* row the child's slots between its two offsets, a struct row its
\* fields' slots.
RECURSIVE Decode(_)
Decode(x) ==
    CASE x.arr = "Int64"   -> [i \in DOMAIN x.data |-> IF x.data[i] = Null THEN VNone ELSE VInt(x.data[i][1])]
      [] x.arr = "Boolean" -> [i \in DOMAIN x.data |-> IF x.data[i] = Null THEN VNone ELSE VBool(x.data[i][1])]
      [] x.arr = "List" ->
            LET c == Decode(x.child)
            IN [i \in DOMAIN x.valid |->
                  IF x.valid[i] THEN VTuple(SubSeq(c, x.offsets[i] + 1, x.offsets[i + 1]))
                  ELSE VNone]
      [] x.arr = "Struct" ->
            LET cs == [f \in DOMAIN x.children |-> Decode(x.children[f])]
            IN [i \in DOMAIN x.valid |->
                  IF x.valid[i] THEN VTuple([f \in DOMAIN cs |-> cs[f][i]]) ELSE VNone]

\* A value of type t: Value::None only where t is Optional.
RECURSIVE Fits(_, _)
Fits(v, t) ==
    \/ v = VNone /\ t.c = "Opt"
    \/ t.c = "Int" /\ v.k = "Int"
    \/ t.c = "Bool" /\ v.k = "Bool"
    \/ t.c = "Opt" /\ Fits(v, t.of[1])
    \/ t.c = "List" /\ v.k = "Tuple" /\ \A i \in DOMAIN v.v : Fits(v.v[i], t.of[1])
    \/ t.c = "Tuple" /\ v.k = "Tuple" /\ Len(v.v) = Len(t.of)
                     /\ \A i \in DOMAIN v.v : Fits(v.v[i], t.of[i])

\* A column whose values fit its supported type is written without error,
\* and reading the array back gives the column: the list offsets, the
\* validity bitmaps and the struct's per-field columns line up row by row.
RoundTrip ==
    (~Failed(ArrowDataType(colType)) /\ \A i \in DOMAIN column : Fits(column[i], colType))
        => ~Failed(result) /\ Decode(result) = column

=============================================================================
