------------------------------ MODULE Documents ------------------------------
(***************************************************************************)
(* JSON documents as the server sees them: a resource file holds either an *)
(* array of items addressed by a numeric id, or one object.  An item is    *)
(* reduced to the set of columns it has a (well-typed, non-null) value     *)
(* for, which is all that schema inference and declared-schema validation  *)
(* look at.                                                                *)
(***************************************************************************)
EXTENDS Naturals, FiniteSetsExt

CONSTANTS
    Resource,   \* names of resources (stems of the *.json files)
    Column,     \* column names other than the primary key
    MaxId,      \* bound: the largest item id of a run
    NoItem,     \* no item at an id
    NoTable,    \* no table for a resource in a schema
    NoTarget    \* a declared table without foreign key

ASSUME MaxIdAssumption == MaxId \in Nat
ASSUME NoItemAssumption == \A item \in SUBSET Column : item # NoItem
ASSUME NoTableAssumption ==
    /\ \A table \in SUBSET Column : table # NoTable
    /\ \A table \in [required : SUBSET Column, target : Resource \cup {NoTarget}] :
           table # NoTable
ASSUME NoTargetAssumption == NoTarget \notin Resource

\* Position 0 stands for the document itself when it is an object.
Root == 0
Id == 0..MaxId

Item == SUBSET Column
Snapshot == [Id -> {NoItem} \cup Item]

EmptyArray == [i \in Id |-> NoItem]

IsArray(s) == s[Root] = NoItem
Items(s) == {i \in Id : s[i] # NoItem}

\* Mutant: ids are handed out by the length of the array.
NextNumericIdByLength(s) == Cardinality(Items(s)) + 1

\* storage/index.rs: one more than the largest id, 1 for an empty array.
NextNumericId(s) == Max(Items(s) \cup {0}) + 1

-----------------------------------------------------------------------------
\* Tables.  A declared table lists its non-nullable columns and may have a
\* foreign key; an inferred or merged table is the set of its columns.

DeclaredTable == [required : SUBSET Column, target : Resource \cup {NoTarget}]
Overlay == [Resource -> {NoTable} \cup DeclaredTable]
Tables == [Resource -> {NoTable} \cup SUBSET Column]

\* infer_table_from_value: every column some row has; an object has no table.
InferTable(s) ==
    IF IsArray(s) THEN UNION {s[i] : i \in Items(s)} ELSE NoTable

\* validate_resource_data_with_table: without a declared table everything is
\* admitted, otherwise each row (or the object) has the non-nullable columns.
Admits(table, s) ==
    table # NoTable => \A i \in Items(s) : table.required \subseteq s[i]

-----------------------------------------------------------------------------
\* The update closures of mutation_service.rs.

ItemOps == {"replace_item", "patch_item", "delete_item"}
ObjectOps == {"replace_object", "patch_object"}
UpdateOps == {"create_item"} \cup ItemOps \cup ObjectOps

\* Where an update lands in the document.
Position(req, s) ==
    CASE req.op = "create_item" -> NextNumericId(s)
      [] req.op \in ObjectOps -> Root
      [] OTHER -> req.id

\* The closure's error returns: wrong document kind, or item not found.
CanUpdate(req, s) ==
    /\ IsArray(s) <=> req.op \notin ObjectOps
    /\ Position(req, s) \in Id
    /\ req.op \in ItemOps => s[req.id] # NoItem

Updated(req, s) ==
    [s EXCEPT ![Position(req, s)] =
        CASE req.op = "delete_item" -> NoItem
          [] req.op \in {"patch_item", "patch_object"} -> @ \cup req.item
          [] OTHER -> req.item]
=============================================================================
