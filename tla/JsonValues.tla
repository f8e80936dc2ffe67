------------------------------ MODULE JsonValues ------------------------------
(***************************************************************************)
(* JSON values as the pure parts of the server tell them apart: the        *)
(* variant of serde_json::Value and the text of the value, which for a     *)
(* string is the string itself and for the others what to_string prints.   *)
(* A row is a partial function from column names to values.                *)
(***************************************************************************)
EXTENDS Naturals, FiniteSets, SequencesExt

Kind == {"null", "bool", "integer", "float", "string", "json"}

Json(kind, text) == [kind |-> kind, text |-> text]
Null == Json("null", "null")
Number(text) == Json("integer", text)
Fraction(text) == Json("float", text)
Str(text) == Json("string", text)
Bool(text) == Json("bool", text)

IsNumber(v) == v.kind \in {"integer", "float"}

\* Strings, numbers and booleans can be keys; a key keeps apart values of
\* different variants that print alike.
IsScalar(v) == v.kind \in {"integer", "float", "string", "bool"}
ScalarKey(v) == <<IF IsNumber(v) THEN "number" ELSE v.kind, v.text>>

\* Where a column has a value, null included.
Has(row, column) == column \in DOMAIN row

\* A row laid over another one, and a row with one value put into it.
Over(row, other) ==
    [x \in DOMAIN row \cup DOMAIN other |-> IF x \in DOMAIN row THEN row[x] ELSE other[x]]
With(row, column, v) == Over([x \in {column} |-> v], row)

\* What values, rows and arrays of rows are.
IsFunction(f) == f = [x \in DOMAIN f |-> f[x]]
IsValue(v) == v = Json(v.kind, v.text) /\ v.kind \in Kind
IsRow(row) == IsFunction(row) /\ \A column \in DOMAIN row : IsValue(row[column])
IsArray(rows) ==
    /\ IsFunction(rows) /\ Len(rows) \in Nat /\ DOMAIN rows = 1..Len(rows)
    /\ \A i \in DOMAIN rows : IsRow(rows[i])
=============================================================================
