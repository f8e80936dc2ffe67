----------------------------- MODULE SchemaServer -----------------------------
(***************************************************************************)
(* The life of a folder's schema: rows change through item requests and    *)
(* edits, the inferred schema follows them, overlays are put, saved,       *)
(* inferred and loaded back from schema.json.  Each request is one step    *)
(* here; what happens between the steps of concurrent requests is the      *)
(* subject of ResourceStore and Watcher.                                   *)
(***************************************************************************)
EXTENDS ItemKeys, GraphqlSchemas

CONSTANTS
    Request,     \* item requests [op, table, id, item]
    Edits,       \* [table -> the documents that editors write]
    Overlays,    \* the overlays that clients put
    Transient,   \* the tables that clients delete and create
    Folder,      \* the documents at the start
    MaxRows,     \* bound: rows of an array
    MaxSaves     \* bound: how often clients write the schema file

VARIABLES
    documents,   \* the files: a partial function from tables to documents
    overlay,     \* SchemaStore::declared
    inferred,    \* SchemaStore::inferred
    merged,      \* SchemaStore::merged
    schemaFile,  \* schema.json
    saves        \* how often clients have written it

vars == <<documents, overlay, inferred, merged, schemaFile, saves>>

IsDocument(document) == document = NoTable \/ IsArray(document)

ASSUME MaxRowsAssumption == MaxRows \in Nat
ASSUME MaxSavesAssumption == MaxSaves \in Nat
ASSUME FolderAssumption ==
    /\ IsFunction(Folder) /\ DOMAIN Folder \cup Transient \subseteq Table
    /\ \A t \in DOMAIN Folder : IsDocument(Folder[t])
ASSUME RequestAssumption == \A req \in Request : IsRequest(req)
ASSUME EditsAssumption == \A t \in Table : \A document \in Edits[t] : IsDocument(document)
ASSUME OverlaysAssumption == \A declared \in Overlays : IsOverlay(declared)

\* The server does not start with a schema file that does not merge.
StartsWith(folder) ==
    /\ documents = folder
    /\ inferred = InferSchema(documents)
    /\ overlay \in Overlays \cup {NoOverlay}
    /\ merged = MergeSchemas(overlay, inferred)
    /\ merged # MergeError
    /\ schemaFile = overlay
    /\ saves = 0

Init == StartsWith(Folder)

\* SchemaStore::replace_inferred: the merge that fails leaves merged as it was.
AdoptInferred(tables) ==
    LET result == MergeSchemas(overlay, tables)
    IN  /\ inferred' = tables
        /\ merged' = IF result = MergeError THEN merged ELSE result

\* SchemaStore::replace_declared, which a failed merge leaves untouched.
AdoptDeclared(declared, tables) ==
    LET result == MergeSchemas(declared, tables)
    IN  /\ result # MergeError
        /\ overlay' = declared
        /\ merged' = result

WriteSchemaFile(declared) ==
    /\ saves < MaxSaves
    /\ saves' = saves + 1
    /\ schemaFile' = declared

-----------------------------------------------------------------------------
\* Items

\* update_locked_resource: PUT may repair what the overlay rejects, the
\* others start from an admitted array; the result must be admitted.
IsAccepted(req) ==
    LET t == req.table
    IN  /\ t \in DOMAIN documents
        /\ documents[t] # NoTable
        /\ req.op # "replace_item" => Admits(overlay, t, documents[t])
        /\ IsApplicable(merged, req, documents[t])
        /\ Admits(overlay, t, Updated(merged, req, documents[t]))

UpdateItem(req) ==
    /\ IsAccepted(req)
    /\ req.op = "create_item" => Len(documents[req.table]) < MaxRows
    /\ documents' = [documents EXCEPT ![req.table] = Updated(merged, req, @)]
    /\ AdoptInferred(ReplaceTable(inferred, req.table, documents'[req.table]))
    /\ UNCHANGED <<overlay, schemaFile, saves>>

\* Another program rewrites a file and the watcher takes it in.
EditFile(t) ==
    /\ t \in DOMAIN documents
    /\ \E document \in Edits[t] : documents' = [documents EXCEPT ![t] = document]
    /\ AdoptInferred(ReplaceTable(inferred, t, documents'[t]))
    /\ UNCHANGED <<overlay, schemaFile, saves>>

\* Resources that come and go have the whole folder inferred again.
CreateResource(t) ==
    /\ t \notin DOMAIN documents
    /\ Admits(overlay, t, <<>>)
    /\ documents' = [u \in DOMAIN documents \cup {t} |-> IF u = t THEN <<>> ELSE documents[u]]
    /\ AdoptInferred(InferSchema(documents'))
    /\ UNCHANGED <<overlay, schemaFile, saves>>

DeleteResource(t) ==
    /\ t \in DOMAIN documents
    /\ documents' = [u \in DOMAIN documents \ {t} |-> documents[u]]
    /\ AdoptInferred(InferSchema(documents'))
    /\ UNCHANGED <<overlay, schemaFile, saves>>

-----------------------------------------------------------------------------
\* Schemas

\* PUT /schema
SaveDeclaredSchema(declared) ==
    /\ AdoptDeclared(declared, inferred)
    /\ WriteSchemaFile(declared)
    /\ UNCHANGED <<documents, inferred>>

\* POST /schema writes the file, and leaves the rest to the watcher.
SaveSchema ==
    /\ WriteSchemaFile(Export(overlay, merged))
    /\ UNCHANGED <<documents, overlay, inferred, merged>>

\* POST /schema/infer: the file is written before the merges that may fail.
InferAndSaveSchema ==
    LET tables == InferSchema(documents)
        declared == Export(NoOverlay, tables)
        result == MergeSchemas(declared, tables)
    IN  /\ WriteSchemaFile(declared)
        /\ IF MergeError \in {MergeSchemas(overlay, tables), result}
           THEN AdoptInferred(tables) /\ UNCHANGED overlay
           ELSE inferred' = tables /\ overlay' = declared /\ merged' = result
        /\ UNCHANGED documents

\* The watcher loads the schema file; the folder is inferred with it.
LoadSchemaFile ==
    /\ AdoptDeclared(schemaFile, inferred)
    /\ UNCHANGED <<documents, inferred, schemaFile, saves>>

Next ==
    \/ \E req \in Request : UpdateItem(req)
    \/ \E t \in Table : EditFile(t)
    \/ \E t \in Transient : CreateResource(t) \/ DeleteResource(t)
    \/ \E declared \in Overlays : SaveDeclaredSchema(declared)
    \/ SaveSchema
    \/ InferAndSaveSchema
    \/ LoadSchemaFile

Spec == Init /\ [][Next]_vars

-----------------------------------------------------------------------------
\* Properties

IsCurrent == MergeSchemas(overlay, inferred) # MergeError

\* Inferring one table after each write and repairing the relations of the
\* others gives what inferring the whole folder would (replace_inferred_tables
\* against infer_schema_from_values).
IncrementalInference == inferred = InferSchema(documents)

\* The two tables that a junction joins know of each other: each direction has
\* the other one's columns swapped, and no junction table is lost when several
\* join the same tables (add_many_to_many_relation).
Mirror(t, relation) ==
    [through |-> relation.through, sourceColumn |-> relation.throughTargetColumn,
     sourceTargetColumn |-> relation.targetColumn, target |-> t,
     targetColumn |-> relation.sourceTargetColumn,
     throughTargetColumn |-> relation.sourceColumn]
ManyToManyMirrored ==
    /\ \A t \in DOMAIN merged :
           \A relation \in Range(merged[t].manyToMany) :
               Mirror(t, relation) \in Range(merged[relation.target].manyToMany)
    /\ \A t \in DOMAIN merged :
           IsStrictJunction(merged, t, merged[t]) =>
               \A fk \in Range(merged[t].foreignKeys) :
                   \E relation \in Range(merged[fk.table].manyToMany) :
                       relation.through = t

\* Embedding, SQL joins and GraphQL follow references without looking twice:
\* each refers to a column of a compatible type, whatever overlay was put and
\* whatever became of the table it points to (validate_effective_schema).
ReferencesResolve ==
    \A t \in DOMAIN merged :
        \A c \in DOMAIN merged[t].foreignKeys : Resolves(merged, t, c)

\* POST /schema may be followed by the watcher loading what it wrote: the
\* effective schema does not change by that (save_schema, merge_schemas).
SavedSchemaIsEffective ==
    IsCurrent => MergeSchemas(Export(overlay, merged), inferred) = merged

\* The rows of a column all have one variant, null only after the first.
IsUniform(rows) ==
    \A c \in UNION {DOMAIN row : row \in Range(rows)} : IsUniformColumn(rows, c)

\* Declaring what was inferred (POST /schema/infer) keeps a resource with
\* uniform columns readable: types, nullability and keys inferred from rows
\* admit these rows.
UniformRowsAdmitted ==
    \A t \in DOMAIN documents :
        documents[t] # NoTable /\ IsUniform(documents[t]) =>
            Admits(Export(NoOverlay, InferSchema(documents)), t, documents[t])

\* Key texts that no two rows share.
KeysDistinct(rows, key) ==
    \A i, j \in DOMAIN rows :
        Has(rows[i], key) /\ Has(rows[j], key) /\ rows[i][key].text = rows[j][key].text
        => i = j

\* With numeric keys, the item that a POST without id, a PUT or a PATCH
\* answers with is the one that GET finds under its id, and no other item
\* shares that id (next_numeric_id, coerce_id_value, build_id_index).
NumericKeys(rows, key) ==
    \A row \in Range(rows) : Has(row, key) /\ row[key].kind = "integer"
UpdatedItemFound ==
    \A req \in Request :
        LET key == KeyName(merged, req.table)
            rows == documents[req.table]
            updated == Updated(merged, req, rows)
            row == UpdatedRow(merged, req, rows)
        IN  /\ req.op # "delete_item" /\ IsAccepted(req)
            /\ ~(req.op = "create_item" /\ Has(req.item, key))
            /\ NumericKeys(rows, key) /\ KeysDistinct(rows, key)
            /\ KeyType(merged, req.table) # "string"
            => /\ KeysDistinct(updated, key)
               /\ updated[IndexedPosition(updated, key, row[key].text)] = row

\* The GraphQL schema of every folder is complete: what a field refers to has
\* a type, though tables come and go, empty, or stop being arrays, while other
\* tables and the overlay still refer to them (build_schema).
GraphqlClosed ==
    LET built == BuildSchema(documents, merged, overlay)
    IN  built # NameConflict => IsClosed(built)

\* References alone never make names coincide: if tables, columns and single
\* references can be told apart by their names in GraphQL, a relation whose
\* name is that of a column or a reference finds one of its own, and the
\* schema is built (build_collection_object_fields).
GraphqlBuilds ==
    /\ TableNamesApart
    /\ \A t \in DOMAIN merged : ColumnNamesApart(merged[t])
    /\ \A t \in DOMAIN documents : KeyNamesApart(ObjectOf[t])
    => BuildSchema(documents, merged, overlay) # NameConflict

\* A schema is built, and nothing is missing in it (build_schema).
GraphqlComplete == GraphqlClosed /\ GraphqlBuilds

\* A document that the overlay admits can be answered with: each row has an
\* integer, a number or a truth value where its type in GraphQL says so, a
\* string where it says String and the column is declared as text of some kind
\* or inferred from values of one type, and null only where it may (types of
\* columns, inferred or declared, against the rows).
DeclaredColumns(t) ==
    IF t \in DeclaredNames(overlay) THEN DOMAIN overlay[t].columns ELSE {}
GraphqlRowsFit ==
    LET built == BuildSchema(documents, merged, overlay)
    IN  built # NameConflict /\ IsCurrent =>
            \A t \in DOMAIN documents :
                /\ HasRecord(documents, merged, t)
                /\ documents[t] # NoTable
                /\ Admits(overlay, t, documents[t])
                => RowsFit(built, merged[t], DeclaredColumns(t), t, documents[t])

\* Under a declared key of one type, GET (through the index, which knows the
\* last match) and PUT (which takes the first) mean the same item, whatever
\* rows clients and editors wrote, as long as the overlay admits them.
DeclaredKeysAddress ==
    \A t \in DOMAIN documents \cap DeclaredNames(overlay) :
        LET key == overlay[t].primaryKey
        IN  /\ key # NoKey /\ key \in DOMAIN overlay[t].columns
            /\ overlay[t].columns[key].type \in {"integer", "string", "boolean"}
            /\ Admits(overlay, t, documents[t])
            => \A row \in Range(documents[t]) :
                   Has(row, key) /\ row[key].kind # "null" =>
                       FindIndex(documents[t], key, row[key].text)
                           = IndexedPosition(documents[t], key, row[key].text)
=============================================================================
