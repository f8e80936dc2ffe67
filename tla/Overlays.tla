------------------------------- MODULE Overlays -------------------------------
(***************************************************************************)
(* Declared schemas: how an overlay merges with the inferred schema, which *)
(* overlays are rejected, what is saved to schema.json, and which          *)
(* documents a declared table admits.                                      *)
(***************************************************************************)
EXTENDS Schemas

\* A declared table: kind and key may be left out, a column may carry a
\* check, [types |-> the column types it may be declared on, none when it
\* contradicts itself, texts |-> the values it accepts].
DeclaredTable(kind, key, columns, keys, suppressed, unique) ==
    [kind |-> kind, primaryKey |-> key, columns |-> columns,
     foreignKeys |-> keys, suppressed |-> suppressed, unique |-> unique]
IsDeclaredTable(table) ==
    /\ table = DeclaredTable(table.kind, table.primaryKey, table.columns,
                             table.foreignKeys, table.suppressed, table.unique)
    /\ IsFunction(table.columns) /\ IsFunction(table.foreignKeys)
IsOverlay(overlay) ==
    /\ IsFunction(overlay) /\ DOMAIN overlay \subseteq Table
    /\ \A t \in DOMAIN overlay : IsDeclaredTable(overlay[t])

\* The kinds that tables have, whether inferred or declared.
ASSUME NoKindAssumption == NoKind \notin {"object", "relation", "unknown"}

\* Without a schema file, no table is declared.
NoOverlay == <<>>
DeclaredNames(overlay) == DOMAIN overlay

-----------------------------------------------------------------------------
\* Merge

EmptyTable ==
    [kind |-> "unknown", primaryKey |-> NoKey, columns |-> <<>>,
     foreignKeys |-> <<>>, manyToMany |-> <<>>]

\* Inferred tables with declared columns, keys and kinds laid over them.
Overlaid(overlay, inferred) ==
    [t \in DOMAIN inferred \cup DeclaredNames(overlay) |->
        LET base == IF t \in DOMAIN inferred THEN inferred[t] ELSE EmptyTable
            table == overlay[t]
        IN  IF t \notin DeclaredNames(overlay) THEN base
            ELSE [base EXCEPT
                    !.columns = Over(table.columns, @),
                    !.primaryKey = IF table.primaryKey = NoKey THEN @
                                   ELSE table.primaryKey,
                    !.kind = IF table.kind = NoKind THEN @ ELSE table.kind]]

\* Columns whose reference the overlay decides: declared or suppressed ones.
ManualReferences(overlay, t) ==
    IF t \in DeclaredNames(overlay)
    THEN DOMAIN overlay[t].foreignKeys \cup overlay[t].suppressed ELSE {}

DeclaredReferences(overlay, t) ==
    IF t \in DeclaredNames(overlay) THEN overlay[t].foreignKeys ELSE <<>>

WithReferences(overlay, tables) ==
    [t \in DOMAIN tables |->
        LET keys == Over(DeclaredReferences(overlay, t),
                         DetectForeignKeys(tables, t, ManualReferences(overlay, t)))
            table == [tables[t] EXCEPT !.foreignKeys = keys, !.manyToMany = <<>>]
        IN  [table EXCEPT !.kind =
                IF t \in DeclaredNames(overlay) /\ overlay[t].kind # NoKind
                THEN overlay[t].kind ELSE InferKind(tables, t, table)]]

Resolves(tables, t, column) ==
    LET fk == tables[t].foreignKeys[column]
    IN  /\ column \in DOMAIN tables[t].columns
        /\ fk.table \in DOMAIN tables
        /\ fk.column \in DOMAIN tables[fk.table].columns
        /\ IsCompatible(tables[t].columns[column].type,
                        tables[fk.table].columns[fk.column].type)

\* The constraints of a column fit its type and do not contradict each other.
IsCheckable(column) == column.check # NoCheck => column.type \in column.check.types

\* validate_effective_schema
IsEffective(tables) ==
    \A t \in DOMAIN tables :
        /\ tables[t].primaryKey # NoKey =>
               tables[t].primaryKey \in DOMAIN tables[t].columns
        /\ \A c \in DOMAIN tables[t].foreignKeys : Resolves(tables, t, c)
        /\ \A column \in Range(tables[t].columns) : IsCheckable(column)

\* validate_declared_schema: unique constraints are lists of column names.
IsDeclarable(overlay, tables) ==
    \A t \in DeclaredNames(overlay) :
        LET unique == overlay[t].unique
        IN  /\ \A i \in DOMAIN unique :
                   /\ unique[i] # <<>>
                   /\ IsInjective(unique[i])
                   /\ Range(unique[i]) \subseteq DOMAIN tables[t].columns
            /\ \A i, j \in DOMAIN unique : Range(unique[i]) = Range(unique[j]) => i = j

\* Mutant: the references of an overlay are merged without validation.
MergeUnvalidated(overlay, inferred) ==
    DeriveManyToMany(WithReferences(overlay, Overlaid(overlay, inferred)))

MergeSchemas(overlay, inferred) ==
    LET tables == WithReferences(overlay, Overlaid(overlay, inferred))
    IN  IF IsEffective(tables) /\ IsDeclarable(overlay, tables)
        THEN DeriveManyToMany(tables) ELSE MergeError

\* Mutant: a suppressed reference is forgotten when the schema is saved.
ExportForgetsSuppressed(overlay, effective) ==
    [t \in DOMAIN effective |->
        DeclaredTable(effective[t].kind, effective[t].primaryKey,
            effective[t].columns, effective[t].foreignKeys, {},
            IF t \in DeclaredNames(overlay) THEN overlay[t].unique ELSE <<>>)]

\* export_declared_schema_snapshot: the effective schema as an overlay, with
\* what only an overlay can say taken from the one in force.
Export(overlay, effective) ==
    [t \in DOMAIN effective |->
        DeclaredTable(effective[t].kind, effective[t].primaryKey,
            effective[t].columns, effective[t].foreignKeys,
            IF t \in DeclaredNames(overlay) THEN overlay[t].suppressed ELSE {},
            IF t \in DeclaredNames(overlay) THEN overlay[t].unique ELSE <<>>)]

-----------------------------------------------------------------------------
\* Admission of rows

MatchesType(v, type) ==
    \/ v.kind = "null"
    \/ CASE type = "integer" -> v.kind = "integer"
         [] type = "float" -> IsNumber(v)
         [] type = "boolean" -> v.kind = "bool"
         [] type = "string" -> v.kind = "string"
         [] type = "json" -> TRUE
         [] type \in {"date", "datetime", "uuid"} ->
                v.kind = "string" /\ v.text \in LiteralOf[type]
         [] type = "big_integer" ->
                v.kind = "integer" \/ (v.kind = "string" /\ v.text \in LiteralOf[type])
         [] type = "decimal" ->
                IsNumber(v) \/ (v.kind = "string" /\ v.text \in LiteralOf[type])

SatisfiesCheck(v, check) ==
    check # NoCheck /\ v.kind # "null" => v.text \in check.texts

AdmitsRow(table, row) ==
    \A c \in DOMAIN table.columns :
        LET column == table.columns[c]
        IN  IF Has(row, c)
            THEN /\ row[c].kind = "null" => column.nullable
                 /\ MatchesType(row[c], column.type)
                 /\ SatisfiesCheck(row[c], column.check)
            ELSE column.nullable

\* Rows that have a non-null value for each of the columns differ in one.
Distinguishes(rows, columns) ==
    LET counts(row) == \A c \in columns : Has(row, c) /\ row[c].kind # "null"
    IN  \A i, j \in DOMAIN rows :
            /\ counts(rows[i]) /\ counts(rows[j])
            /\ \A c \in columns : ScalarKey(rows[i][c]) = ScalarKey(rows[j][c])
            => i = j

\* Mutant: the primary key need not be unique.
AdmitsDuplicateKeys(table, rows) ==
    \A row \in Range(rows) : AdmitsRow(table, row)

AdmitsRows(table, rows) ==
    /\ \A row \in Range(rows) : AdmitsRow(table, row)
    /\ \A columns \in Range(table.unique) : Distinguishes(rows, Range(columns))
    /\ table.primaryKey # NoKey => Distinguishes(rows, {table.primaryKey})

\* validate_resource_snapshot: what no table declares is admitted; an array
\* with elements that are not objects is not.
Admits(overlay, t, document) ==
    t \in DeclaredNames(overlay) =>
        document # NoTable /\ AdmitsRows(overlay[t], document)
=============================================================================
