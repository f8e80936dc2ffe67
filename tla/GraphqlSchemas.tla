---------------------------- MODULE GraphqlSchemas ----------------------------
(***************************************************************************)
(* The GraphQL schema that the server builds from its documents and their  *)
(* tables (graphql/schema_builder.rs, fields.rs): a row type for each      *)
(* array with columns, an object type for each object, root fields, and a  *)
(* field for each reference that leads to a row type.  Names that          *)
(* coincide make the whole schema fail.  How a name is spelt in GraphQL is *)
(* given by constants, as a tuple of its parts; resolving the fields is    *)
(* the subject of Joins and Queries.  The checks of the async-graphql      *)
(* library are left out.                                                   *)
(***************************************************************************)
EXTENDS Overlays

CONSTANTS
    NamesOf,     \* [table -> its type, root, query and byId names]
    FieldName,   \* [column -> its name as a field]
    RelationStem,\* [column -> its name without `_id`, `Id` or `ID` at the end,
                 \*  and then without `_ref` or `Ref`]
    MixedArrays, \* tables whose file, when it is no array of objects, is an
                 \* array all the same
    ObjectOf,    \* [table -> the object in its file when that is no array;
                 \*  an empty one stands for every other kind of value]
    RelationOrder \* names of relations in the order of a BTreeMap

ASSUME RelationOrderAssumption ==
    /\ RelationOrder \in Seq(Range(RelationOrder)) /\ IsInjective(RelationOrder)
    /\ Range(RelationOrder) = {<<t>> : t \in Table} \cup (Table \X Table)

\* normalize_graphql_name of `target_via_through`
ViaName(target, through) == NamesOf[target].root \o <<"via">> \o NamesOf[through].root

\* relation_field_name: the column without such an ending; when it has none,
\* or is nothing else, with `Ref`.
RelationField(column) ==
    IF RelationStem[column] \in {"", column} THEN <<column, "Ref">>
    ELSE <<RelationStem[column]>>

RecordType(t) == <<NamesOf[t].type, "Record">>
PageType(t) == <<NamesOf[t].type, "Page">>
ObjectType(t) == <<NamesOf[t].type, "Object">>

\* scalar_kind_from_column, scalar_kind_from_json_value
ScalarKind(type) ==
    CASE type = "integer" -> <<"Int">>
      [] type = "float" -> <<"Float">>
      [] type = "boolean" -> <<"Boolean">>
      [] type = "json" -> <<"JSON">>
      [] OTHER -> <<"String">>

JsonKind(v) == IF v.kind = "null" THEN <<"JSON">> ELSE ScalarKind(InferJson(v))

Field(name, key, type, list, nullable) ==
    [name |-> name, key |-> key, type |-> type, list |-> list, nullable |-> nullable]

\* register_graphql_name: the second of two equal names is an error.
NameConflict == [error |-> "GraphQL name conflicts"]
NamesApart(fields) == \A f, g \in fields : f.name = g.name => f = g

\* The same of pairs of a resource and a type, or a root field, that it has.
OwnedApart(owned) == \A p, q \in owned : p[2].name = q[2].name => p = q

-----------------------------------------------------------------------------
\* What is typed

\* An array has rows if its table has columns, which the overlay may declare
\* for one that does not hold objects only.
HasRecord(documents, tables, t) ==
    /\ t \in DOMAIN documents
    /\ documents[t] # NoTable \/ t \in MixedArrays
    /\ t \in DOMAIN tables
    /\ DOMAIN tables[t].columns # {}

HasObject(documents, t) ==
    documents[t] = NoTable /\ t \notin MixedArrays /\ ObjectOf[t] # <<>>

\* Mutant: a reference to any resource that is served has a field.
LeadsToServed(documents, tables, t) == t \in DOMAIN documents

\* References to resources without a row type are passed over.
LeadsToRows(documents, tables, t) == HasRecord(documents, tables, t)

-----------------------------------------------------------------------------
\* The fields of a row

ColumnFields(table) ==
    {Field(FieldName[c], c, ScalarKind(table.columns[c].type), FALSE,
           table.columns[c].nullable) : c \in DOMAIN table.columns}

RelationFields(documents, tables, table) ==
    {Field(RelationField(c), c, RecordType(table.foreignKeys[c].table), FALSE, TRUE) :
        c \in {c \in DOMAIN table.foreignKeys :
                  LeadsToRows(documents, tables, table.foreignKeys[c].table)}}

ManyName(name) ==
    IF Len(name) = 1 THEN NamesOf[name[1]].root ELSE ViaName(name[1], name[2])

IsTaken(fields, name) == \E field \in fields : field.name = name

\* Mutant: a relation whose name is taken has no other.
AddManyUnnamed(fields, name, relation) ==
    fields \cup {Field(ManyName(name), relation.through, RecordType(relation.target), TRUE, FALSE)}

\* A relation whose name is taken is named for its junction table as well.
AddMany(fields, name, relation) ==
    LET chosen == IF IsTaken(fields, ManyName(name))
                  THEN ViaName(relation.target, relation.through) ELSE ManyName(name)
    IN  fields \cup {Field(chosen, relation.through, RecordType(relation.target), TRUE, FALSE)}

\* build_collection_object_fields: relations take their names one by one.
RowFields(documents, tables, table) ==
    LET relations == table.manyToMany
        added[i \in 0..Len(RelationOrder)] ==
            IF i = 0 THEN ColumnFields(table) \cup RelationFields(documents, tables, table)
            ELSE LET name == RelationOrder[i]
                 IN  IF /\ name \in DOMAIN relations
                        /\ LeadsToRows(documents, tables, relations[name].target)
                     THEN AddMany(added[i - 1], name, relations[name]) ELSE added[i - 1]
    IN  added[Len(RelationOrder)]

\* build_object_resource_fields: a declared column has the say over the value.
ObjectFields(object, columns) ==
    {IF c \in DOMAIN columns
     THEN Field(FieldName[c], c, ScalarKind(columns[c].type), FALSE, columns[c].nullable)
     ELSE Field(FieldName[c], c, JsonKind(object[c]), FALSE, TRUE) : c \in DOMAIN object}

-----------------------------------------------------------------------------
\* The schema

\* The root fields of a resource: all rows, a page of them, one row by its
\* key; the object; or a value without a type.
RootFields(documents, tables, t) ==
    LET names == NamesOf[t]
    IN  IF HasRecord(documents, tables, t)
        THEN {Field(names.root, t, RecordType(t), TRUE, FALSE),
              Field(names.query, t, PageType(t), FALSE, FALSE)}
             \cup (IF tables[t].primaryKey = NoKey THEN {}
                   ELSE {Field(names.byId, t, RecordType(t), FALSE, TRUE)})
        ELSE {Field(names.root, t,
                    IF HasObject(documents, t) THEN ObjectType(t) ELSE <<"JSON">>,
                    FALSE, TRUE)}

TypesOf(documents, tables, overlay, t) ==
    IF HasRecord(documents, tables, t)
    THEN {[name |-> RecordType(t), fields |-> RowFields(documents, tables, tables[t])],
          [name |-> PageType(t),
           fields |-> {Field(<<"data">>, "data", RecordType(t), TRUE, FALSE)}]}
    ELSE IF HasObject(documents, t)
    THEN {[name |-> ObjectType(t),
           fields |-> ObjectFields(ObjectOf[t],
                          IF t \in DeclaredNames(overlay) THEN overlay[t].columns
                          ELSE <<>>)]}
    ELSE {}

\* build_schema, on what it has read.
BuildSchema(documents, tables, overlay) ==
    LET types == UNION {{t} \X TypesOf(documents, tables, overlay, t) : t \in DOMAIN documents}
        roots == UNION {{t} \X RootFields(documents, tables, t) : t \in DOMAIN documents}
    IN  IF /\ OwnedApart(types)
           /\ OwnedApart(roots)
           /\ \A owned \in types : NamesApart(owned[2].fields)
        THEN [types |-> {owned[2] : owned \in types}, roots |-> {owned[2] : owned \in roots}]
        ELSE NameConflict

-----------------------------------------------------------------------------
\* What a schema must be good for

\* Tables have names of their own, as types, root fields and relations.
TableNamesApart ==
    /\ \A t, u \in Table : NamesOf[t].type = NamesOf[u].type => t = u
    /\ \A t, u \in Table : \A m, n \in {"root", "query", "byId"} :
           NamesOf[t][m] = NamesOf[u][n] => t = u /\ m = n
    /\ \A t, u, v, w \in Table :
           /\ ViaName(t, u) # NamesOf[v].root
           /\ ViaName(t, u) = ViaName(v, w) => t = v /\ u = w

\* The keys of an object, and the columns and references of a table, too; only
\* relations may have the name of a column or a reference.
KeyNamesApart(keyed) == \A c, d \in DOMAIN keyed : FieldName[c] = FieldName[d] => c = d
ColumnNamesApart(table) ==
    /\ KeyNamesApart(table.columns)
    /\ \A c, d \in DOMAIN table.foreignKeys : RelationField(c) = RelationField(d) => c = d
    /\ \A c \in DOMAIN table.columns : \A d \in DOMAIN table.foreignKeys :
           FieldName[c] # RelationField(d)
    /\ \A t, u \in Table :
           /\ \A c \in DOMAIN table.columns : FieldName[c] # ViaName(t, u)
           /\ \A c \in DOMAIN table.foreignKeys : RelationField(c) # ViaName(t, u)

BuiltIn == {<<"Int">>, <<"Float">>, <<"Boolean">>, <<"String">>, <<"JSON">>}

\* Every type that a field mentions is there.
IsClosed(built) ==
    LET names == {type.name : type \in built.types}
        fields == built.roots \cup UNION {type.fields : type \in built.types}
    IN  \A field \in fields : field.type \in names \cup BuiltIn

\* The values of a column all have one variant, null only after the first.
IsUniformColumn(rows, c) ==
    \A i \in RowsWith(rows, c) : rows[i][c].kind \in {"null", FirstValue(rows, c).kind}

\* Where a field of type String is promised strings.  Not in columns of type
\* big_integer or decimal, which may hold numbers, and not in a column that is
\* inferred from values of several types, or from null and then others: the
\* fields return what is in the row as it is.
HoldsStrings(table, declared, rows, c) ==
    /\ table.columns[c].type \in {"string", "date", "datetime", "uuid"}
    /\ c \in declared \/ IsUniformColumn(rows, c)

\* A row has an integer, a number, a truth value for a field of type Int,
\* Float, Boolean; a string for one of type String, where it is promised;
\* anything for one of type JSON; and null only where the field may be.
FitsField(row, field, strings) ==
    IF ~Has(row, field.key) \/ row[field.key].kind = "null" THEN field.nullable
    ELSE CASE field.type = <<"Int">> -> row[field.key].kind = "integer"
           [] field.type = <<"Float">> -> IsNumber(row[field.key])
           [] field.type = <<"Boolean">> -> row[field.key].kind = "bool"
           [] field.type = <<"String">> -> strings => row[field.key].kind = "string"
           [] field.type = <<"JSON">> -> TRUE

\* The row type of a table against its rows; the overlay declares some columns.
RowsFit(built, table, declared, t, rows) ==
    \A type \in built.types :
        type.name = RecordType(t) =>
            \A field \in type.fields :
                field.type \in BuiltIn =>
                    \A row \in Range(rows) :
                        FitsField(row, field, HoldsStrings(table, declared, rows, field.key))
=============================================================================
