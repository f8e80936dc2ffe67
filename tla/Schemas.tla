------------------------------- MODULE Schemas -------------------------------
(***************************************************************************)
(* What the server makes of the rows it serves: column types, keys,        *)
(* references and table kinds inferred from them, the merge with a         *)
(* declared overlay, and the overlay that is saved back to schema.json.    *)
(* Names are opaque; what the code finds out by looking at their letters   *)
(* (order, singular, `_id` suffix) is given by constants.                  *)
(***************************************************************************)
EXTENDS JsonValues

CONSTANTS
    TableOrder,       \* table names in the order of a BTreeMap
    Singular,         \* [table -> its singular]
    ReferencePrefix,  \* [columns that end in `_id` -> what stands before it]
    KeyCandidates,    \* [table -> <<id, singular_id, table_id>>]
    LiteralOf,        \* [date, datetime, uuid, big_integer, decimal -> texts]
    NoKey,            \* no primary key
    NoKind,           \* a declared table without a kind
    NoCheck,          \* a column without constraints
    NoTable,          \* a document that is not an array of objects
    MergeError

Table == Range(TableOrder)

ASSUME TableOrderAssumption == TableOrder \in Seq(Table) /\ IsInjective(TableOrder)
ASSUME KeyCandidatesAssumption ==
    \A table \in Table : KeyCandidates[table] \in Seq(Range(KeyCandidates[table]))

-----------------------------------------------------------------------------
\* Column types

Numeric == {"integer", "float", "big_integer", "decimal"}
StringBacked == {"string", "date", "datetime", "uuid", "big_integer", "decimal"}
ColumnType == Numeric \cup StringBacked \cup {"boolean", "json"}

InferJson(v) ==
    CASE v.kind = "bool" -> "boolean" [] OTHER -> v.kind

IsCompatible(type, other) ==
    type = other \/ (type \in Numeric /\ other \in Numeric)

\* The rows that have a value for the column, null included, and that value
\* in the first of them.
RowsWith(rows, column) == {i \in DOMAIN rows : Has(rows[i], column)}
FirstValue(rows, column) == rows[Min(RowsWith(rows, column))][column]

\* The first value sets the type, a null one to string; another type makes it
\* string, or json when that is one of the types met.
InferColumnType(rows, column) ==
    LET first == FirstValue(rows, column)
        start == IF first.kind = "null" THEN "string" ELSE InferJson(first)
        types == {InferJson(rows[i][column]) :
                     i \in {i \in RowsWith(rows, column) : rows[i][column].kind # "null"}}
    IN  IF types \subseteq {start} THEN start
        ELSE IF "json" \in types \cup {start} THEN "json" ELSE "string"

\* Mutant: a column that a row lacks counts as one without null.
InferColumnsPresent(rows) ==
    [column \in UNION {DOMAIN row : row \in Range(rows)} |->
        [type |-> InferColumnType(rows, column),
         nullable |-> \E row \in Range(rows) : Has(row, column) /\ row[column].kind = "null",
         check |-> NoCheck]]

InferColumns(rows) ==
    [column \in UNION {DOMAIN row : row \in Range(rows)} |->
        [type |-> InferColumnType(rows, column),
         nullable |-> \E row \in Range(rows) :
             Has(row, column) => row[column].kind = "null",
         check |-> NoCheck]]

-----------------------------------------------------------------------------
\* Keys

\* Mutant: two rows may have the same key.
IsScalarColumn(rows, column) ==
    rows # <<>> /\ \A row \in Range(rows) : Has(row, column) /\ IsScalar(row[column])

IsUniqueScalarColumn(rows, column) ==
    /\ rows # <<>>
    /\ \A row \in Range(rows) : Has(row, column) /\ IsScalar(row[column])
    /\ \A i, j \in DOMAIN rows :
           ScalarKey(rows[i][column]) = ScalarKey(rows[j][column]) => i = j

InferPrimaryKey(table, rows) ==
    LET candidates == KeyCandidates[table]
        first == SelectInSeq(candidates, LAMBDA c : IsUniqueScalarColumn(rows, c))
    IN  IF first = 0 THEN NoKey ELSE candidates[first]

InferTable(table, document) ==
    IF document = NoTable THEN NoTable
    ELSE [kind |-> IF InferPrimaryKey(table, document) = NoKey
                   THEN "unknown" ELSE "object",
          primaryKey |-> InferPrimaryKey(table, document),
          columns |-> InferColumns(document),
          foreignKeys |-> <<>>,
          manyToMany |-> <<>>]

-----------------------------------------------------------------------------
\* References.  A schema is a function from the names of its tables.

\* A table with a key can be referred to by its name and its singular; the
\* first table in the order of names that claims an alias has it.
ClaimsAlias(tables, table, alias) ==
    /\ table \in DOMAIN tables
    /\ tables[table].primaryKey # NoKey
    /\ alias \in {table, Singular[table]}

IsAlias(tables, alias) == \E table \in Table : ClaimsAlias(tables, table, alias)
AliasOf(tables, alias) ==
    TableOrder[SelectInSeq(TableOrder, LAMBDA t : ClaimsAlias(tables, t, alias))]

\* Whether a column of `source` refers to another table by its name.
IsReference(tables, source, column) ==
    /\ column \in DOMAIN ReferencePrefix
    /\ IsAlias(tables, ReferencePrefix[column])
    /\ LET target == AliasOf(tables, ReferencePrefix[column])
           key == tables[target].primaryKey
       IN  /\ target # source
           /\ key \in DOMAIN tables[target].columns
           /\ IsCompatible(tables[source].columns[column].type,
                           tables[target].columns[key].type)

DetectForeignKeys(tables, source, skip) ==
    [c \in {c \in DOMAIN tables[source].columns \ skip : IsReference(tables, source, c)} |->
        LET target == AliasOf(tables, ReferencePrefix[c])
        IN  [table |-> target, column |-> tables[target].primaryKey]]

\* A table without a key whose two columns refer to the keys of two others.
IsStrictJunction(tables, source, table) ==
    /\ table.primaryKey = NoKey
    /\ \E c, d \in DOMAIN table.columns : c # d /\ DOMAIN table.columns = {c, d}
    /\ DOMAIN table.columns = DOMAIN table.foreignKeys
    /\ \A c, d \in DOMAIN table.foreignKeys :
           table.foreignKeys[c].table = table.foreignKeys[d].table => c = d
    /\ \A fk \in Range(table.foreignKeys) :
           /\ fk.table # source
           /\ fk.table \in DOMAIN tables
           /\ tables[fk.table].primaryKey = fk.column

InferKind(tables, source, table) ==
    IF table.primaryKey # NoKey THEN "object"
    ELSE IF IsStrictJunction(tables, source, table) THEN "relation" ELSE "unknown"

\* The junction tables that join t with another table.
Junctions(tables, t) ==
    {j \in DOMAIN tables :
        /\ IsStrictJunction(tables, j, tables[j])
        /\ \E fk \in Range(tables[j].foreignKeys) : fk.table = t}

\* The direction of a junction that starts from t.
RelationThrough(tables, t, through) ==
    LET keys == tables[through].foreignKeys
        from == CHOOSE c \in DOMAIN keys : keys[c].table = t
        to == CHOOSE c \in DOMAIN keys : c # from
    IN  [through |-> through, sourceColumn |-> from,
         sourceTargetColumn |-> keys[from].column, target |-> keys[to].table,
         targetColumn |-> keys[to].column, throughTargetColumn |-> to]

\* Mutant: a second relation to the same table takes the name of the first.
RelationNameByTarget(relations, through) == <<relations[through].target>>

\* Junctions are taken in the order of names: a relation is named for its
\* target, and for its junction table as well when that name is taken.
\* (No table is called like such a pair of names, `target_via_through`.)
Precedes(t, u) ==
    \E i, j \in DOMAIN TableOrder : i < j /\ TableOrder[i] = t /\ TableOrder[j] = u
RelationName(relations, through) ==
    LET target == relations[through].target
    IN  IF \E j \in DOMAIN relations : Precedes(j, through) /\ relations[j].target = target
        THEN <<target, through>> ELSE <<target>>

NamedRelations(relations) ==
    [name \in {RelationName(relations, j) : j \in DOMAIN relations} |->
        relations[CHOOSE j \in DOMAIN relations : RelationName(relations, j) = name]]

ManyToMany(tables, t) ==
    NamedRelations([j \in Junctions(tables, t) |-> RelationThrough(tables, t, j)])

DeriveManyToMany(tables) ==
    [t \in DOMAIN tables |-> [tables[t] EXCEPT !.manyToMany = ManyToMany(tables, t)]]

RebuildRelations(tables) ==
    DeriveManyToMany(
        [t \in DOMAIN tables |->
            LET keys == DetectForeignKeys(tables, t, {})
                table == [tables[t] EXCEPT !.foreignKeys = keys, !.manyToMany = <<>>]
            IN  [table EXCEPT !.kind = InferKind(tables, t, table)]])

InferSchema(documents) ==
    LET described == {t \in DOMAIN documents : documents[t] # NoTable}
    IN  RebuildRelations([t \in described |-> InferTable(t, documents[t])])

\* Mutant: the relations of the other tables stay as they were.
ReplaceTableAlone(tables, table, document) ==
    LET others == [t \in DOMAIN tables \ {table} |-> tables[t]]
        replaced == IF document = NoTable THEN others
                    ELSE With(others, table, InferTable(table, document))
    IN  [t \in DOMAIN replaced |->
            IF t = table THEN RebuildRelations(replaced)[t] ELSE replaced[t]]

\* What a write does to the inferred schema: only the written table is
\* inferred again, the relations of all are.
ReplaceTable(tables, table, document) ==
    LET others == [t \in DOMAIN tables \ {table} |-> tables[t]]
    IN  RebuildRelations(IF document = NoTable THEN others
                         ELSE With(others, table, InferTable(table, document)))
=============================================================================
