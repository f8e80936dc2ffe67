-------------------------- MODULE SchemaServerProofs --------------------------
(***************************************************************************)
(* The schema of a folder: what is inferred one table at a time is what    *)
(* inferring the whole folder would give; every effective schema resolves  *)
(* its references and mirrors its many-to-many relations; the overlay that *)
(* is saved for it gives it back; items are found by their keys; and the   *)
(* GraphQL schema is complete and fits the rows.                           *)
(***************************************************************************)
EXTENDS SchemaServer, WellFoundedInduction, TLAPS

-----------------------------------------------------------------------------
(***************************************************************************)
(* Searching in sequences.                                                 *)
(***************************************************************************)

\* A set of numbers has a smallest one.
LEMMA MinBounds ==
    ASSUME NEW S \in SUBSET Nat, S # {}
    PROVE  Min(S) \in S /\ \A y \in S : Min(S) <= y
<1> DEFINE R == {p \in Nat \X Nat : p[1] < p[2]}
<1>1. IsWellFoundedOn(R, Nat)
  BY NatLessThanWellFounded, Zenon DEF OpToRel
<1> HIDE DEF R
<1>2. PICK m \in S : \A y \in S : <<y, m>> \notin R
  BY <1>1, WFMin
<1> USE DEF R
<1>3. \A y \in S : m \in Nat /\ y \in Nat /\ ~(y < m)
  BY <1>2
<1>4. \A y \in S : m <= y
  BY <1>3
<1> QED
  BY <1>4 DEF Min

\* The table that an alias stands for.
LEMMA AliasClaims ==
    ASSUME NEW tables, NEW alias, IsAlias(tables, alias)
    PROVE  ClaimsAlias(tables, AliasOf(tables, alias), alias)
<1> DEFINE I == {i \in 1..Len(TableOrder) : ClaimsAlias(tables, TableOrder[i], alias)}
<1>1. PICK t \in Table : ClaimsAlias(tables, t, alias)
  BY DEF IsAlias
<1>2. PICK i \in 1..Len(TableOrder) : TableOrder[i] = t
  BY TableOrderAssumption DEF Table, Range
<1>3. I \in SUBSET Nat /\ I # {}
  BY <1>1, <1>2
<1>4. Min(I) \in I
  BY <1>3, MinBounds
<1>5. AliasOf(tables, alias) = TableOrder[Min(I)]
  BY <1>3 DEF AliasOf, SelectInSeq
<1> QED
  BY <1>4, <1>5

-----------------------------------------------------------------------------
(***************************************************************************)
(* Schemas, and what their relations depend on.                            *)
(***************************************************************************)

IsTable(table) ==
    /\ table = [kind |-> table.kind, primaryKey |-> table.primaryKey,
                columns |-> table.columns, foreignKeys |-> table.foreignKeys,
                manyToMany |-> table.manyToMany]
    /\ IsFunction(table.columns) /\ IsFunction(table.foreignKeys)
IsSchema(tables) ==
    /\ IsFunction(tables) /\ DOMAIN tables \subseteq Table
    /\ \A t \in DOMAIN tables : IsTable(tables[t])

\* The columns and keys of two schemas are the same.
SameColumns(a, b) ==
    /\ DOMAIN a = DOMAIN b
    /\ \A t \in DOMAIN a :
           a[t].columns = b[t].columns /\ a[t].primaryKey = b[t].primaryKey

\* References are found by columns and keys alone.
LEMMA SameReferences ==
    ASSUME NEW a, NEW b, SameColumns(a, b), NEW t \in DOMAIN a, NEW skip
    PROVE  DetectForeignKeys(a, t, skip) = DetectForeignKeys(b, t, skip)
<1>1. \A u, alias : ClaimsAlias(a, u, alias) <=> ClaimsAlias(b, u, alias)
  BY DEF ClaimsAlias, SameColumns
<1>2. \A alias : IsAlias(a, alias) <=> IsAlias(b, alias)
  BY <1>1 DEF IsAlias
<1>3. \A alias : AliasOf(a, alias) = AliasOf(b, alias)
  BY <1>1 DEF AliasOf, SelectInSeq
<1>4. \A alias : IsAlias(a, alias) => AliasOf(a, alias) \in DOMAIN a
  BY AliasClaims DEF ClaimsAlias
<1>5. \A c \in DOMAIN a[t].columns : IsReference(a, t, c) <=> IsReference(b, t, c)
  BY <1>2, <1>3, <1>4 DEF IsReference, SameColumns
<1>6. \A c : IsReference(a, t, c) => AliasOf(a, ReferencePrefix[c]) \in DOMAIN a
  BY <1>4 DEF IsReference
<1> QED
  BY <1>3, <1>5, <1>6 DEF DetectForeignKeys, SameColumns

-----------------------------------------------------------------------------
(***************************************************************************)
(* Inference, table by table.                                              *)
(***************************************************************************)

\* Only the relations of a table change when they are derived.
LEMMA DeriveKeeps ==
    ASSUME NEW tables, \A t \in DOMAIN tables : IsTable(tables[t])
    PROVE  /\ IsFunction(DeriveManyToMany(tables))
           /\ DOMAIN DeriveManyToMany(tables) = DOMAIN tables
           /\ \A t \in DOMAIN tables :
                  /\ IsTable(DeriveManyToMany(tables)[t])
                  /\ DeriveManyToMany(tables)[t].kind = tables[t].kind
                  /\ DeriveManyToMany(tables)[t].primaryKey = tables[t].primaryKey
                  /\ DeriveManyToMany(tables)[t].columns = tables[t].columns
                  /\ DeriveManyToMany(tables)[t].foreignKeys = tables[t].foreignKeys
                  /\ DeriveManyToMany(tables)[t].manyToMany = ManyToMany(tables, t)
<1>1. /\ IsFunction(DeriveManyToMany(tables))
      /\ DOMAIN DeriveManyToMany(tables) = DOMAIN tables
  BY DEF DeriveManyToMany, IsFunction
<1>2. ASSUME NEW t \in DOMAIN tables
      PROVE  DeriveManyToMany(tables)[t] =
                 [kind |-> tables[t].kind, primaryKey |-> tables[t].primaryKey,
                  columns |-> tables[t].columns, foreignKeys |-> tables[t].foreignKeys,
                  manyToMany |-> ManyToMany(tables, t)]
  BY <1>2 DEF DeriveManyToMany, IsTable
<1> QED
  BY <1>1, <1>2 DEF IsTable

\* A table as rebuild_inferred_relations leaves it before it derives relations.
Related(tables, t) ==
    LET keys == DetectForeignKeys(tables, t, {})
        table == [tables[t] EXCEPT !.foreignKeys = keys, !.manyToMany = <<>>]
    IN  [table EXCEPT !.kind = InferKind(tables, t, table)]

\* Whether a table is a junction does not depend on its kind and relations.
LEMMA SameJunction ==
    ASSUME NEW a, NEW b, DOMAIN a = DOMAIN b,
           \A t \in DOMAIN a : a[t].primaryKey = b[t].primaryKey,
           NEW source, NEW x, NEW y, x.primaryKey = y.primaryKey,
           x.columns = y.columns, x.foreignKeys = y.foreignKeys
    PROVE  /\ IsStrictJunction(a, source, x) <=> IsStrictJunction(b, source, y)
           /\ InferKind(a, source, x) = InferKind(b, source, y)
<1>1. IsStrictJunction(a, source, x) <=> IsStrictJunction(b, source, y)
  BY DEF IsStrictJunction
<1> QED
  BY <1>1 DEF InferKind

LEMMA RelatedIs ==
    ASSUME NEW tables, NEW t \in DOMAIN tables, IsTable(tables[t])
    PROVE  LET keys == DetectForeignKeys(tables, t, {})
               table == [kind |-> tables[t].kind, primaryKey |-> tables[t].primaryKey,
                         columns |-> tables[t].columns, foreignKeys |-> keys,
                         manyToMany |-> <<>>]
           IN  Related(tables, t) =
                   [kind |-> InferKind(tables, t, table),
                    primaryKey |-> tables[t].primaryKey,
                    columns |-> tables[t].columns, foreignKeys |-> keys,
                    manyToMany |-> <<>>]
<1> PICK x, keys : x = tables[t] /\ keys = DetectForeignKeys(tables, t, {})
  OBVIOUS
<1> DEFINE table == [x EXCEPT !.foreignKeys = keys, !.manyToMany = <<>>]
<1>1. table = [kind |-> x.kind, primaryKey |-> x.primaryKey,
               columns |-> x.columns, foreignKeys |-> keys, manyToMany |-> <<>>]
  <2>1. x = [kind |-> x.kind, primaryKey |-> x.primaryKey, columns |-> x.columns,
             foreignKeys |-> x.foreignKeys, manyToMany |-> x.manyToMany]
    BY DEF IsTable
  <2> DEFINE one == [x EXCEPT !.foreignKeys = keys]
  <2>2. one = [kind |-> x.kind, primaryKey |-> x.primaryKey, columns |-> x.columns,
               foreignKeys |-> keys, manyToMany |-> x.manyToMany]
    BY <2>1
  <2>3. table = [one EXCEPT !.manyToMany = <<>>]
    BY <2>1
  <2> HIDE DEF one
  <2> QED
    BY <2>2, <2>3
<1>2. Related(tables, t) = [table EXCEPT !.kind = InferKind(tables, t, table)]
  BY DEF Related
<1> HIDE DEF table
<1> QED
  BY <1>1, <1>2

LEMMA RelatedIsTable ==
    ASSUME NEW tables, NEW t \in DOMAIN tables, IsTable(tables[t])
    PROVE  /\ IsTable(Related(tables, t))
           /\ Related(tables, t).columns = tables[t].columns
           /\ Related(tables, t).primaryKey = tables[t].primaryKey
<1>1. IsFunction(DetectForeignKeys(tables, t, {}))
  BY DEF DetectForeignKeys, IsFunction
<1>2. IsFunction(tables[t].columns)
  BY DEF IsTable
<1>3. PICK k, keys : Related(tables, t) =
          [kind |-> k, primaryKey |-> tables[t].primaryKey,
           columns |-> tables[t].columns, foreignKeys |-> keys,
           manyToMany |-> <<>>] /\ IsFunction(keys)
  BY <1>1, RelatedIs, Zenon
<1> QED
  BY <1>2, <1>3 DEF IsTable

\* Rebuilding relations keeps columns and keys ...
LEMMA RebuildKeeps ==
    ASSUME NEW tables, \A t \in DOMAIN tables : IsTable(tables[t])
    PROVE  /\ IsFunction(RebuildRelations(tables))
           /\ SameColumns(RebuildRelations(tables), tables)
           /\ \A t \in DOMAIN tables : IsTable(RebuildRelations(tables)[t])
<1> DEFINE related == [t \in DOMAIN tables |-> Related(tables, t)]
<1>1. RebuildRelations(tables) = DeriveManyToMany(related)
  BY DEF RebuildRelations, Related
<1>2. /\ DOMAIN related = DOMAIN tables
      /\ \A t \in DOMAIN tables :
             /\ IsTable(related[t])
             /\ related[t].columns = tables[t].columns
             /\ related[t].primaryKey = tables[t].primaryKey
  BY RelatedIsTable
<1> HIDE DEF related
<1> QED
  BY <1>1, <1>2, DeriveKeeps DEF SameColumns

\* ... and depends on nothing else.
LEMMA RebuildByColumns ==
    ASSUME NEW a, NEW b, SameColumns(a, b),
           \A t \in DOMAIN a : IsTable(a[t]) /\ IsTable(b[t])
    PROVE  RebuildRelations(a) = RebuildRelations(b)
<1>1. ASSUME NEW t \in DOMAIN a
      PROVE  Related(a, t) = Related(b, t)
  <2>1. t \in DOMAIN b /\ a[t].columns = b[t].columns /\ a[t].primaryKey = b[t].primaryKey
    BY <1>1 DEF SameColumns
  <2>2. DetectForeignKeys(a, t, {}) = DetectForeignKeys(b, t, {})
    BY <1>1, SameReferences
  <2> DEFINE keys == DetectForeignKeys(a, t, {})
             table(x) == [kind |-> x[t].kind, primaryKey |-> x[t].primaryKey,
                          columns |-> x[t].columns, foreignKeys |-> keys,
                          manyToMany |-> <<>>]
  <2>3. InferKind(a, t, table(a)) = InferKind(b, t, table(b))
    <3> HIDE DEF keys
    <3>1. /\ table(a).primaryKey = table(b).primaryKey
          /\ table(a).columns = table(b).columns
          /\ table(a).foreignKeys = table(b).foreignKeys
      BY <2>1
    <3>2. DOMAIN a = DOMAIN b /\ \A u \in DOMAIN a : a[u].primaryKey = b[u].primaryKey
      BY DEF SameColumns
    <3> HIDE DEF table
    <3> QED
      BY <3>1, <3>2, SameJunction
  <2>4. Related(a, t) = [kind |-> InferKind(a, t, table(a)), primaryKey |-> a[t].primaryKey,
                         columns |-> a[t].columns, foreignKeys |-> keys,
                         manyToMany |-> <<>>]
    BY <1>1, RelatedIs
  <2>5. Related(b, t) = [kind |-> InferKind(b, t, table(b)), primaryKey |-> b[t].primaryKey,
                         columns |-> b[t].columns, foreignKeys |-> keys,
                         manyToMany |-> <<>>]
    BY <1>1, <2>1, <2>2, RelatedIs
  <2> QED
    BY <2>1, <2>3, <2>4, <2>5
<1>2. [t \in DOMAIN a |-> Related(a, t)] = [t \in DOMAIN b |-> Related(b, t)]
  BY <1>1 DEF SameColumns
<1> QED
  BY <1>2 DEF RebuildRelations, Related

\* What is inferred of a document is a table.
LEMMA InferredIsTable ==
    ASSUME NEW t, NEW document, document # NoTable
    PROVE  IsTable(InferTable(t, document))
<1>1. IsFunction(InferColumns(document)) /\ IsFunction(<<>>)
  BY DEF InferColumns, IsFunction
<1> QED
  BY <1>1 DEF InferTable, IsTable

LEMMA InferredSchema ==
    ASSUME NEW docs
    PROVE  /\ IsFunction(InferSchema(docs))
           /\ DOMAIN InferSchema(docs) = {t \in DOMAIN docs : docs[t] # NoTable}
           /\ \A t \in DOMAIN InferSchema(docs) :
                  /\ IsTable(InferSchema(docs)[t])
                  /\ InferSchema(docs)[t].columns = InferTable(t, docs[t]).columns
                  /\ InferSchema(docs)[t].primaryKey = InferTable(t, docs[t]).primaryKey
<1> DEFINE described == {t \in DOMAIN docs : docs[t] # NoTable}
           tables == [t \in described |-> InferTable(t, docs[t])]
<1>1. /\ DOMAIN tables = described
      /\ \A t \in described : tables[t] = InferTable(t, docs[t]) /\ IsTable(tables[t])
  BY InferredIsTable
<1>2. InferSchema(docs) = RebuildRelations(tables)
  BY DEF InferSchema
<1> HIDE DEF tables
<1> QED
  BY <1>1, <1>2, RebuildKeeps DEF SameColumns

\* Inferring one table again is inferring all.
LEMMA ReplacingIsInferring ==
    ASSUME NEW docs, IsFunction(docs), NEW t \in DOMAIN docs, NEW document
    PROVE  ReplaceTable(InferSchema(docs), t, document)
               = InferSchema([docs EXCEPT ![t] = document])
<1> DEFINE old == InferSchema(docs)
           new == [docs EXCEPT ![t] = document]
           others == [u \in DOMAIN old \ {t} |-> old[u]]
           a == IF document = NoTable THEN others
                ELSE With(others, t, InferTable(t, document))
           described == {u \in DOMAIN new : new[u] # NoTable}
           b == [u \in described |-> InferTable(u, new[u])]
<1>1. /\ DOMAIN new = DOMAIN docs /\ new[t] = document
      /\ \A u \in DOMAIN docs \ {t} : new[u] = docs[u]
  OBVIOUS
<1>2. /\ DOMAIN old = {u \in DOMAIN docs : docs[u] # NoTable}
      /\ \A u \in DOMAIN old :
             /\ IsTable(old[u])
             /\ old[u].columns = InferTable(u, docs[u]).columns
             /\ old[u].primaryKey = InferTable(u, docs[u]).primaryKey
  BY InferredSchema
<1>3. /\ DOMAIN others = DOMAIN old \ {t}
      /\ \A u \in DOMAIN old \ {t} : others[u] = old[u]
  OBVIOUS
<1>4. document # NoTable =>
          /\ DOMAIN a = DOMAIN others \cup {t}
          /\ \A u \in DOMAIN others : a[u] = others[u]
          /\ a[t] = InferTable(t, document)
  <2> HIDE DEF others
  <2> QED
    BY <1>3 DEF With, Over
<1>5. document = NoTable => a = others
  OBVIOUS
<1>6. DOMAIN b = described /\ \A u \in described : b[u] = InferTable(u, new[u])
  OBVIOUS
<1>7. ReplaceTable(old, t, document) = RebuildRelations(a)
  BY DEF ReplaceTable
<1>8. InferSchema(new) = RebuildRelations(b)
  BY DEF InferSchema
<1>9. described = (DOMAIN old \ {t}) \cup (IF document = NoTable THEN {} ELSE {t})
  BY <1>1, <1>2
<1> HIDE DEF old, new, others, a, b, described
<1>10. \A u \in described : new[u] # NoTable
  BY DEF described
<1>11. SameColumns(a, b)
  BY <1>1, <1>2, <1>3, <1>4, <1>5, <1>6, <1>9 DEF SameColumns
<1>12. \A u \in DOMAIN a : IsTable(a[u]) /\ IsTable(b[u])
  BY <1>2, <1>3, <1>4, <1>5, <1>6, <1>9, <1>10, <1>11, InferredIsTable DEF SameColumns
<1> QED
  BY <1>7, <1>8, <1>11, <1>12, RebuildByColumns DEF old, new

-----------------------------------------------------------------------------
(***************************************************************************)
(* The inferred schema follows the documents.                              *)
(***************************************************************************)

Inference == IsFunction(documents) /\ IncrementalInference

LEMMA InferenceInit == ASSUME Init PROVE Inference
  BY FolderAssumption DEF Init, StartsWith, Inference, IncrementalInference

\* A request or an edit changes one document, and one table is inferred again.
LEMMA InferenceOne ==
    ASSUME Inference, NEW t \in DOMAIN documents, NEW document,
           documents' = [documents EXCEPT ![t] = document],
           AdoptInferred(ReplaceTable(inferred, t, documents'[t]))
    PROVE  Inference'
<1>1. documents'[t] = document
  OBVIOUS
<1>2. inferred' = ReplaceTable(InferSchema(documents), t, document)
  BY <1>1 DEF Inference, IncrementalInference, AdoptInferred
<1>3. inferred' = InferSchema(documents')
  BY <1>2, ReplacingIsInferring DEF Inference
<1>4. IsFunction(documents')
  BY DEF Inference, IsFunction
<1> QED
  BY <1>3, <1>4 DEF Inference, IncrementalInference

LEMMA InferenceNext == ASSUME Inference, [Next]_vars PROVE Inference'
<1>1. ASSUME NEW req \in Request, UpdateItem(req) PROVE Inference'
  <2>1. req.table \in DOMAIN documents
    BY <1>1 DEF UpdateItem, IsAccepted
  <2>2. PICK document : documents' = [documents EXCEPT ![req.table] = document]
    BY <1>1 DEF UpdateItem
  <2>3. AdoptInferred(ReplaceTable(inferred, req.table, documents'[req.table]))
    BY <1>1 DEF UpdateItem
  <2> QED
    BY <2>1, <2>2, <2>3, InferenceOne
<1>2. ASSUME NEW t \in Table, EditFile(t) PROVE Inference'
  BY <1>2, InferenceOne DEF EditFile
<1>3. ASSUME NEW t \in Transient, CreateResource(t) \/ DeleteResource(t) PROVE Inference'
  BY <1>3 DEF CreateResource, DeleteResource, AdoptInferred, Inference,
              IncrementalInference, IsFunction
<1>4. ASSUME NEW declared \in Overlays, SaveDeclaredSchema(declared) PROVE Inference'
  BY <1>4 DEF SaveDeclaredSchema, Inference, IncrementalInference
<1>5. CASE SaveSchema
  BY <1>5 DEF SaveSchema, Inference, IncrementalInference
<1>6. CASE InferAndSaveSchema
  BY <1>6 DEF InferAndSaveSchema, AdoptInferred, Inference, IncrementalInference
<1>7. CASE LoadSchemaFile
  BY <1>7 DEF LoadSchemaFile, Inference, IncrementalInference
<1>8. CASE UNCHANGED vars
  BY <1>8 DEF vars, Inference, IncrementalInference
<1> QED
  BY <1>1, <1>2, <1>3, <1>4, <1>5, <1>6, <1>7, <1>8 DEF Next

\* The schema that is inferred table by table, with the relations of the
\* others rebuilt after each write, is at any time what inferring the whole
\* folder gives (replace_inferred_tables against infer_schema_from_values),
\* for any folder, any requests and any edits.
THEOREM InferenceIsIncremental == Spec => []IncrementalInference
<1>1. Spec => []Inference
  BY InferenceInit, InferenceNext, PTL DEF Spec
<1>2. Inference => IncrementalInference
  BY DEF Inference
<1> QED
  BY <1>1, <1>2, PTL

-----------------------------------------------------------------------------
(***************************************************************************)
(* Merging.                                                                *)
(***************************************************************************)

Base(inferredTables, t) ==
    IF t \in DOMAIN inferredTables THEN inferredTables[t] ELSE EmptyTable

LEMMA BaseIsTable ==
    ASSUME NEW i, IsSchema(i), NEW t PROVE IsTable(Base(i, t))
<1>1. IsTable(EmptyTable)
  BY DEF EmptyTable, IsTable, IsFunction
<1> QED
  BY <1>1 DEF Base, IsSchema

LEMMA OverIs ==
    ASSUME NEW f, NEW g
    PROVE  /\ IsFunction(Over(f, g))
           /\ DOMAIN Over(f, g) = DOMAIN f \cup DOMAIN g
           /\ \A x \in DOMAIN f : Over(f, g)[x] = f[x]
           /\ \A x \in DOMAIN g \ DOMAIN f : Over(f, g)[x] = g[x]
  BY DEF Over, IsFunction

\* A table with new columns, key and kind.
Laid(x, c, p, k) == [x EXCEPT !.columns = c, !.primaryKey = p, !.kind = k]
LEMMA LaidOver ==
    ASSUME NEW x, IsTable(x), NEW c, NEW p, NEW k
    PROVE  Laid(x, c, p, k) =
               [kind |-> k, primaryKey |-> p, columns |-> c,
                foreignKeys |-> x.foreignKeys, manyToMany |-> x.manyToMany]
<1>1. x = [kind |-> x.kind, primaryKey |-> x.primaryKey, columns |-> x.columns,
           foreignKeys |-> x.foreignKeys, manyToMany |-> x.manyToMany]
  BY DEF IsTable
<1> DEFINE one == [x EXCEPT !.columns = c]
           two == [one EXCEPT !.primaryKey = p]
<1>2. one = [kind |-> x.kind, primaryKey |-> x.primaryKey, columns |-> c,
             foreignKeys |-> x.foreignKeys, manyToMany |-> x.manyToMany]
  BY <1>1
<1>3. Laid(x, c, p, k) = [two EXCEPT !.kind = k]
  BY <1>1 DEF Laid
<1> HIDE DEF one
<1>4. two = [kind |-> x.kind, primaryKey |-> p, columns |-> c,
             foreignKeys |-> x.foreignKeys, manyToMany |-> x.manyToMany]
  BY <1>2
<1> HIDE DEF two
<1> QED
  BY <1>3, <1>4

\* Columns and keys are laid over the inferred ones.
IsOverlaid(v, o, i) ==
    /\ IsSchema(v)
    /\ DOMAIN v = DOMAIN i \cup DOMAIN o
    /\ \A t \in DOMAIN v \cap DOMAIN o :
           /\ v[t].columns = Over(o[t].columns, Base(i, t).columns)
           /\ v[t].primaryKey = IF o[t].primaryKey = NoKey
                                THEN Base(i, t).primaryKey ELSE o[t].primaryKey
    /\ \A t \in DOMAIN v \ DOMAIN o :
           /\ v[t].columns = Base(i, t).columns
           /\ v[t].primaryKey = Base(i, t).primaryKey

LEMMA OverlaidIs ==
    ASSUME NEW o, IsOverlay(o), NEW i, IsSchema(i)
    PROVE  IsOverlaid(Overlaid(o, i), o, i)
<1>1. /\ IsFunction(Overlaid(o, i))
      /\ DOMAIN Overlaid(o, i) = DOMAIN i \cup DOMAIN o
      /\ DOMAIN i \cup DOMAIN o \subseteq Table
  BY DEF Overlaid, IsFunction, DeclaredNames, IsSchema, IsOverlay
<1>2. ASSUME NEW t \in DOMAIN Overlaid(o, i), t \notin DOMAIN o
      PROVE  Overlaid(o, i)[t] = Base(i, t)
  BY <1>1, <1>2 DEF Overlaid, Base, DeclaredNames
<1>3. ASSUME NEW t \in DOMAIN Overlaid(o, i), t \in DOMAIN o
      PROVE  \E k : Overlaid(o, i)[t] =
                 [kind |-> k,
                  primaryKey |-> IF o[t].primaryKey = NoKey THEN Base(i, t).primaryKey
                                 ELSE o[t].primaryKey,
                  columns |-> Over(o[t].columns, Base(i, t).columns),
                  foreignKeys |-> Base(i, t).foreignKeys,
                  manyToMany |-> Base(i, t).manyToMany]
  <2> PICK x : x = Base(i, t)
    OBVIOUS
  <2> DEFINE c == Over(o[t].columns, x.columns)
             p == IF o[t].primaryKey = NoKey THEN x.primaryKey ELSE o[t].primaryKey
             k == IF o[t].kind = NoKind THEN x.kind ELSE o[t].kind
  <2>1. Overlaid(o, i)[t] = Laid(x, c, p, k)
    <3>1. CASE t \in DOMAIN i
      BY <1>1, <1>3, <3>1 DEF Overlaid, Base, DeclaredNames, Laid
    <3>2. CASE t \notin DOMAIN i
      <4>1. x = EmptyTable
        BY <3>2 DEF Base
      <4> QED
        BY <1>1, <1>3, <3>2, <4>1 DEF Overlaid, DeclaredNames, Laid
    <3> QED
      BY <3>1, <3>2
  <2>2. IsTable(x)
    BY BaseIsTable
  <2> HIDE DEF c, p, k
  <2>3. Overlaid(o, i)[t] = [kind |-> k, primaryKey |-> p, columns |-> c,
                             foreignKeys |-> x.foreignKeys, manyToMany |-> x.manyToMany]
    BY <2>1, <2>2, LaidOver
  <2> QED
    BY <2>3 DEF c, p
<1>4. ASSUME NEW t \in DOMAIN Overlaid(o, i), t \in DOMAIN o
      PROVE  /\ IsTable(Overlaid(o, i)[t])
             /\ Overlaid(o, i)[t].columns = Over(o[t].columns, Base(i, t).columns)
             /\ Overlaid(o, i)[t].primaryKey =
                    IF o[t].primaryKey = NoKey THEN Base(i, t).primaryKey
                    ELSE o[t].primaryKey
  <2>1. PICK k, p, c, f, m :
            /\ Overlaid(o, i)[t] = [kind |-> k, primaryKey |-> p, columns |-> c,
                                    foreignKeys |-> f, manyToMany |-> m]
            /\ p = IF o[t].primaryKey = NoKey THEN Base(i, t).primaryKey
                   ELSE o[t].primaryKey
            /\ c = Over(o[t].columns, Base(i, t).columns)
            /\ f = Base(i, t).foreignKeys
    BY <1>3, <1>4
  <2>2. IsFunction(c) /\ IsFunction(f)
    BY <2>1, BaseIsTable, OverIs DEF IsTable
  <2> QED
    BY <2>1, <2>2 DEF IsTable
<1>5. ASSUME NEW t \in DOMAIN Overlaid(o, i), t \notin DOMAIN o
      PROVE  IsTable(Overlaid(o, i)[t])
  BY <1>2, <1>5, BaseIsTable
<1> QED
  BY <1>1, <1>2, <1>4, <1>5 DEF IsSchema, IsOverlaid

\* References and kinds of the effective schema.
LEMMA WithReferencesIs ==
    ASSUME NEW o, NEW v, IsSchema(v)
    PROVE  LET w == WithReferences(o, v)
           IN  /\ IsSchema(w) /\ DOMAIN w = DOMAIN v
               /\ \A t \in DOMAIN v :
                      /\ w[t].columns = v[t].columns
                      /\ w[t].primaryKey = v[t].primaryKey
                      /\ w[t].foreignKeys =
                             Over(DeclaredReferences(o, t),
                                  DetectForeignKeys(v, t, ManualReferences(o, t)))
                      /\ w[t].manyToMany = <<>>
                      /\ IF t \in DOMAIN o /\ o[t].kind # NoKind
                         THEN w[t].kind = o[t].kind
                         ELSE w[t].kind \in {"object", "relation", "unknown"}
<1> DEFINE w == WithReferences(o, v)
<1>1. IsFunction(w) /\ DOMAIN w = DOMAIN v /\ DOMAIN v \subseteq Table
  BY DEF WithReferences, IsFunction, IsSchema
<1>2. ASSUME NEW t \in DOMAIN v
      PROVE  \E k : /\ w[t] = [kind |-> k, primaryKey |-> v[t].primaryKey,
                               columns |-> v[t].columns,
                               foreignKeys |->
                                   Over(DeclaredReferences(o, t),
                                        DetectForeignKeys(v, t, ManualReferences(o, t))),
                               manyToMany |-> <<>>]
                    /\ IF t \in DOMAIN o /\ o[t].kind # NoKind
                       THEN k = o[t].kind ELSE k \in {"object", "relation", "unknown"}
  <2> PICK x, keys : /\ x = v[t]
                     /\ keys = Over(DeclaredReferences(o, t),
                                    DetectForeignKeys(v, t, ManualReferences(o, t)))
    OBVIOUS
  <2> DEFINE one == [x EXCEPT !.foreignKeys = keys]
             table == [x EXCEPT !.foreignKeys = keys, !.manyToMany = <<>>]
             k == IF t \in DeclaredNames(o) /\ o[t].kind # NoKind
                  THEN o[t].kind ELSE InferKind(v, t, table)
  <2>1. x = [kind |-> x.kind, primaryKey |-> x.primaryKey, columns |-> x.columns,
             foreignKeys |-> x.foreignKeys, manyToMany |-> x.manyToMany]
    BY DEF IsTable, IsSchema
  <2>2. one = [kind |-> x.kind, primaryKey |-> x.primaryKey, columns |-> x.columns,
               foreignKeys |-> keys, manyToMany |-> x.manyToMany]
    BY <2>1
  <2>3. table = [one EXCEPT !.manyToMany = <<>>]
    BY <2>1
  <2>4. w[t] = [table EXCEPT !.kind = k]
    BY DEF WithReferences
  <2>5. IF t \in DOMAIN o /\ o[t].kind # NoKind
        THEN k = o[t].kind ELSE k \in {"object", "relation", "unknown"}
    BY DEF DeclaredNames, InferKind
  <2> HIDE DEF one, k
  <2>6. table = [kind |-> x.kind, primaryKey |-> x.primaryKey, columns |-> x.columns,
                 foreignKeys |-> keys, manyToMany |-> <<>>]
    BY <2>2, <2>3
  <2> HIDE DEF table
  <2>7. w[t] = [kind |-> k, primaryKey |-> x.primaryKey, columns |-> x.columns,
                foreignKeys |-> keys, manyToMany |-> <<>>]
    BY <2>4, <2>6
  <2> QED
    BY <2>5, <2>7
<1> HIDE DEF w
<1>3. ASSUME NEW t \in DOMAIN v
      PROVE  /\ IsTable(w[t])
             /\ w[t].columns = v[t].columns
             /\ w[t].primaryKey = v[t].primaryKey
             /\ w[t].foreignKeys = Over(DeclaredReferences(o, t),
                                        DetectForeignKeys(v, t, ManualReferences(o, t)))
             /\ w[t].manyToMany = <<>>
             /\ IF t \in DOMAIN o /\ o[t].kind # NoKind
                THEN w[t].kind = o[t].kind
                ELSE w[t].kind \in {"object", "relation", "unknown"}
  <2>1. PICK k, f :
            /\ w[t] = [kind |-> k, primaryKey |-> v[t].primaryKey,
                       columns |-> v[t].columns, foreignKeys |-> f, manyToMany |-> <<>>]
            /\ f = Over(DeclaredReferences(o, t),
                        DetectForeignKeys(v, t, ManualReferences(o, t)))
            /\ IF t \in DOMAIN o /\ o[t].kind # NoKind
               THEN k = o[t].kind ELSE k \in {"object", "relation", "unknown"}
    BY <1>2
  <2>2. IsFunction(f) /\ IsFunction(v[t].columns)
    BY <2>1, OverIs DEF IsSchema, IsTable
  <2> QED
    BY <2>1, <2>2 DEF IsTable
<1> QED
  BY <1>1, <1>3 DEF IsSchema, w

AllResolve(tables) ==
    \A t \in DOMAIN tables : \A c \in DOMAIN tables[t].foreignKeys : Resolves(tables, t, c)
Derived(tables) ==
    \A t \in DOMAIN tables : tables[t].manyToMany = ManyToMany(tables, t)

\* Many-to-many relations depend on columns, keys and references.
LEMMA SameManyToMany ==
    ASSUME NEW a, NEW b, SameColumns(a, b),
           \A t \in DOMAIN a : a[t].foreignKeys = b[t].foreignKeys, NEW t
    PROVE  ManyToMany(a, t) = ManyToMany(b, t)
<1>1. \A j \in DOMAIN a : IsStrictJunction(a, j, a[j]) <=> IsStrictJunction(b, j, b[j])
  BY SameJunction DEF SameColumns
<1>2. Junctions(a, t) = Junctions(b, t)
  BY <1>1 DEF Junctions, SameColumns
<1>3. \A j \in Junctions(a, t) : RelationThrough(a, t, j) = RelationThrough(b, t, j)
  BY DEF Junctions, RelationThrough
<1>4. [j \in Junctions(a, t) |-> RelationThrough(a, t, j)]
          = [j \in Junctions(b, t) |-> RelationThrough(b, t, j)]
  BY <1>2, <1>3
<1> QED
  BY <1>4, Zenon DEF ManyToMany

\* What a merge gives: tables whose references resolve, with the relations
\* that follow from them.
LEMMA MergeIs ==
    ASSUME NEW o, IsOverlay(o), NEW i, IsSchema(i), MergeSchemas(o, i) # MergeError
    PROVE  /\ IsSchema(MergeSchemas(o, i))
           /\ AllResolve(MergeSchemas(o, i))
           /\ Derived(MergeSchemas(o, i))
<1> DEFINE v == Overlaid(o, i)
           w == WithReferences(o, v)
           m == DeriveManyToMany(w)
<1>1. IsSchema(w)
  <2>1. IsSchema(v)
    BY OverlaidIs DEF IsOverlaid
  <2> QED
    BY <2>1, WithReferencesIs, Zenon
<1>2. IsEffective(w) /\ MergeSchemas(o, i) = m
  BY DEF MergeSchemas
<1> HIDE DEF w, v
<1>3. /\ IsFunction(m) /\ DOMAIN m = DOMAIN w
      /\ \A t \in DOMAIN w :
             /\ IsTable(m[t])
             /\ m[t].primaryKey = w[t].primaryKey
             /\ m[t].columns = w[t].columns
             /\ m[t].foreignKeys = w[t].foreignKeys
             /\ m[t].manyToMany = ManyToMany(w, t)
  BY <1>1, DeriveKeeps DEF IsSchema
<1> HIDE DEF m
<1>4. IsSchema(m)
  BY <1>1, <1>3 DEF IsSchema
<1>5. AllResolve(m)
  <2> SUFFICES ASSUME NEW t \in DOMAIN m, NEW c \in DOMAIN m[t].foreignKeys
               PROVE  Resolves(m, t, c)
    BY DEF AllResolve
  <2>1. Resolves(w, t, c)
    BY <1>2, <1>3 DEF IsEffective
  <2> QED
    BY <1>3, <2>1 DEF Resolves
<1>6. Derived(m)
  BY <1>3, SameManyToMany DEF Derived, SameColumns
<1> QED
  BY <1>2, <1>4, <1>5, <1>6

-----------------------------------------------------------------------------
(***************************************************************************)
(* The effective schema in every state.                                    *)
(***************************************************************************)

IsEffectiveSchema(tables) == IsSchema(tables) /\ AllResolve(tables) /\ Derived(tables)

\* The schema in force is a merge, though perhaps not of what was inferred
\* last: a merge that fails leaves it as it was.
EffectiveInv ==
    /\ Inference
    /\ DOMAIN documents \subseteq Table
    /\ IsOverlay(overlay) /\ IsOverlay(schemaFile)
    /\ IsEffectiveSchema(merged)
    /\ IsCurrent => merged = MergeSchemas(overlay, inferred)

LEMMA InferredIsSchema ==
    ASSUME NEW docs, DOMAIN docs \subseteq Table
    PROVE  IsSchema(InferSchema(docs))
  BY InferredSchema DEF IsSchema

LEMMA NoOverlayIsOverlay == IsOverlay(NoOverlay)
  BY DEF NoOverlay, IsOverlay, IsFunction

LEMMA ExportIsOverlay ==
    ASSUME NEW o, NEW tables, IsSchema(tables) PROVE IsOverlay(Export(o, tables))
<1>1. /\ IsFunction(Export(o, tables)) /\ DOMAIN Export(o, tables) = DOMAIN tables
      /\ DOMAIN tables \subseteq Table
  BY DEF Export, IsFunction, IsSchema
<1>2. ASSUME NEW t \in DOMAIN tables PROVE IsDeclaredTable(Export(o, tables)[t])
  <2>1. PICK s, u : Export(o, tables)[t] =
            DeclaredTable(tables[t].kind, tables[t].primaryKey,
                          tables[t].columns, tables[t].foreignKeys, s, u)
    BY DEF Export
  <2>2. IsFunction(tables[t].columns) /\ IsFunction(tables[t].foreignKeys)
    BY DEF IsSchema, IsTable
  <2> QED
    BY <2>1, <2>2 DEF IsDeclaredTable, DeclaredTable
<1> QED
  BY <1>1, <1>2 DEF IsOverlay

LEMMA EffectiveInit == ASSUME Init PROVE EffectiveInv
<1>1. /\ Inference /\ DOMAIN documents \subseteq Table
      /\ IsOverlay(overlay) /\ IsOverlay(schemaFile)
  BY InferenceInit, FolderAssumption, OverlaysAssumption, NoOverlayIsOverlay
     DEF Init, StartsWith
<1>2. IsSchema(inferred)
  BY <1>1, InferredIsSchema DEF Inference, IncrementalInference
<1>3. IsEffectiveSchema(merged) /\ merged = MergeSchemas(overlay, inferred)
  BY <1>1, <1>2, MergeIs DEF Init, StartsWith, IsEffectiveSchema
<1> QED
  BY <1>1, <1>3 DEF EffectiveInv

LEMMA Adopted ==
    ASSUME EffectiveInv, NEW tables, IsSchema(tables), AdoptInferred(tables),
           UNCHANGED overlay
    PROVE  /\ IsEffectiveSchema(merged')
           /\ IsCurrent' => merged' = MergeSchemas(overlay, inferred)'
<1> DEFINE m == MergeSchemas(overlay, tables)
<1>1. /\ MergeSchemas(overlay, inferred)' = m
      /\ merged' = IF m = MergeError THEN merged ELSE m
  BY DEF AdoptInferred
<1>2. m # MergeError => IsEffectiveSchema(m)
  BY MergeIs DEF IsEffectiveSchema, EffectiveInv
<1> HIDE DEF m
<1> QED
  BY <1>1, <1>2 DEF IsCurrent, EffectiveInv

LEMMA EffectiveNext == ASSUME EffectiveInv, [Next]_vars PROVE EffectiveInv'
<1>1. Inference'
  BY InferenceNext DEF EffectiveInv
<1>2. IsSchema(inferred) /\ IsSchema(merged)
  BY InferredIsSchema DEF EffectiveInv, Inference, IncrementalInference, IsEffectiveSchema
<1>3. DOMAIN documents' \subseteq Table => IsSchema(inferred')
  BY <1>1, InferredIsSchema DEF Inference, IncrementalInference
<1>4. ASSUME NEW req \in Request, UpdateItem(req) PROVE EffectiveInv'
  <2>1. DOMAIN documents' \subseteq Table
    BY <1>4 DEF UpdateItem, EffectiveInv
  <2>2. AdoptInferred(inferred')
    BY <1>4 DEF UpdateItem, AdoptInferred
  <2>3. UNCHANGED <<overlay, schemaFile>>
    BY <1>4 DEF UpdateItem
  <2> QED
    BY <1>1, <1>3, <2>1, <2>2, <2>3, Adopted DEF EffectiveInv
<1>5. ASSUME NEW t \in Table, EditFile(t) PROVE EffectiveInv'
  <2>1. DOMAIN documents' \subseteq Table
    BY <1>5 DEF EditFile, EffectiveInv
  <2>2. AdoptInferred(inferred')
    BY <1>5 DEF EditFile, AdoptInferred
  <2>3. UNCHANGED <<overlay, schemaFile>>
    BY <1>5 DEF EditFile
  <2> QED
    BY <1>1, <1>3, <2>1, <2>2, <2>3, Adopted DEF EffectiveInv
<1>6. ASSUME NEW t \in Transient, CreateResource(t) \/ DeleteResource(t)
      PROVE  EffectiveInv'
  <2>1. DOMAIN documents' \subseteq Table
    BY <1>6, FolderAssumption DEF CreateResource, DeleteResource, EffectiveInv
  <2>2. AdoptInferred(inferred')
    BY <1>6 DEF CreateResource, DeleteResource, AdoptInferred
  <2>3. UNCHANGED <<overlay, schemaFile>>
    BY <1>6 DEF CreateResource, DeleteResource
  <2> QED
    BY <1>1, <1>3, <2>1, <2>2, <2>3, Adopted DEF EffectiveInv
<1>7. ASSUME NEW declared, IsOverlay(declared), AdoptDeclared(declared, inferred),
             UNCHANGED <<documents, inferred>>, schemaFile' \in {schemaFile, declared}
      PROVE  EffectiveInv'
  <2>1. /\ merged' = MergeSchemas(declared, inferred) /\ merged' # MergeError
        /\ overlay' = declared
    BY <1>7 DEF AdoptDeclared
  <2>2. IsEffectiveSchema(merged')
    BY <1>2, <1>7, <2>1, MergeIs DEF IsEffectiveSchema
  <2> QED
    BY <1>1, <1>7, <2>1, <2>2 DEF EffectiveInv
<1>8. ASSUME NEW declared \in Overlays, SaveDeclaredSchema(declared) PROVE EffectiveInv'
  BY <1>7, <1>8, OverlaysAssumption DEF SaveDeclaredSchema, WriteSchemaFile
<1>9. CASE SaveSchema
  <2>1. IsOverlay(schemaFile')
    BY <1>2, <1>9, ExportIsOverlay DEF SaveSchema, WriteSchemaFile
  <2> QED
    BY <1>1, <1>9, <2>1 DEF SaveSchema, EffectiveInv, IsCurrent
<1>10. CASE InferAndSaveSchema
  <2> DEFINE tables == InferSchema(documents)
             declared == Export(NoOverlay, tables)
  <2>1. UNCHANGED documents /\ schemaFile' = declared
    BY <1>10 DEF InferAndSaveSchema, WriteSchemaFile
  <2>2. IsSchema(tables) /\ IsOverlay(declared)
    BY InferredIsSchema, ExportIsOverlay DEF EffectiveInv
  <2>3. CASE AdoptInferred(tables) /\ UNCHANGED overlay
    BY <1>1, <2>1, <2>2, <2>3, Adopted DEF EffectiveInv
  <2>4. CASE /\ inferred' = tables /\ overlay' = declared
             /\ merged' = MergeSchemas(declared, tables)
             /\ MergeSchemas(declared, tables) # MergeError
    <3>1. IsEffectiveSchema(merged')
      BY <2>2, <2>4, MergeIs DEF IsEffectiveSchema
    <3> QED
      BY <1>1, <2>1, <2>2, <2>4, <3>1 DEF EffectiveInv
  <2> QED
    BY <1>10, <2>3, <2>4 DEF InferAndSaveSchema
<1>11. CASE LoadSchemaFile
  BY <1>7, <1>11 DEF LoadSchemaFile, EffectiveInv
<1>12. CASE UNCHANGED vars
  BY <1>1, <1>12 DEF vars, EffectiveInv, IsCurrent
<1> QED
  BY <1>4, <1>5, <1>6, <1>8, <1>9, <1>10, <1>11, <1>12 DEF Next

\* References of the effective schema resolve, whatever overlays are put and
\* whatever becomes of the tables they point to (validate_effective_schema).
THEOREM ReferencesAlwaysResolve == Spec => []ReferencesResolve
<1>1. Spec => []EffectiveInv
  BY EffectiveInit, EffectiveNext, PTL DEF Spec
<1>2. EffectiveInv => ReferencesResolve
  BY DEF EffectiveInv, IsEffectiveSchema, AllResolve, ReferencesResolve
<1> QED
  BY <1>1, <1>2, PTL

-----------------------------------------------------------------------------
(***************************************************************************)
(* Many-to-many relations.                                                 *)
(***************************************************************************)

\* The order of names decides between any two tables.
LEMMA OneComesFirst ==
    ASSUME NEW j \in Table, NEW k \in Table, j # k
    PROVE  Precedes(j, k) \/ Precedes(k, j)
<1>1. PICK a, b \in 1..Len(TableOrder) : TableOrder[a] = j /\ TableOrder[b] = k
  BY TableOrderAssumption DEF Table, Range
<1>2. a < b \/ b < a
  BY <1>1
<1> QED
  BY <1>1, <1>2, TableOrderAssumption DEF Precedes

\* No two relations of a table have the same name ...
LEMMA NamesDiffer ==
    ASSUME NEW r, DOMAIN r \subseteq Table, NEW j \in DOMAIN r, NEW k \in DOMAIN r,
           RelationName(r, j) = RelationName(r, k)
    PROVE  j = k
<1> SUFFICES ASSUME j # k PROVE FALSE
  OBVIOUS
<1> DEFINE Taken(x) == \E y \in DOMAIN r : Precedes(y, x) /\ r[y].target = r[x].target
<1>1. \A x \in DOMAIN r : RelationName(r, x) =
          IF Taken(x) THEN <<r[x].target, x>> ELSE <<r[x].target>>
  BY DEF RelationName
<1>2. r[j].target = r[k].target => Taken(j) \/ Taken(k)
  BY OneComesFirst
<1> HIDE DEF Taken
<1>3. CASE Taken(j) /\ Taken(k)
  BY <1>1, <1>3
<1>4. CASE ~Taken(j) /\ ~Taken(k)
  BY <1>1, <1>2, <1>4
<1>5. CASE (Taken(j) /\ ~Taken(k)) \/ (~Taken(j) /\ Taken(k))
  <2>1. \A x, y, z : Len(<<x>>) = 1 /\ Len(<<y, z>>) = 2
    OBVIOUS
  <2>2. Len(RelationName(r, j)) # Len(RelationName(r, k))
    BY <1>1, <1>5, <2>1
  <2> QED
    BY <2>2
<1> QED
  BY <1>3, <1>4, <1>5

\* ... so that none is lost.
LEMMA NoneLost ==
    ASSUME NEW tables, DOMAIN tables \subseteq Table, NEW t
    PROVE  Range(ManyToMany(tables, t)) =
               {RelationThrough(tables, t, j) : j \in Junctions(tables, t)}
<1> DEFINE r == [j \in Junctions(tables, t) |-> RelationThrough(tables, t, j)]
           names == {RelationName(r, j) : j \in DOMAIN r}
<1>1. DOMAIN r = Junctions(tables, t) /\ DOMAIN r \subseteq Table
  BY DEF Junctions
<1>2. ManyToMany(tables, t) = NamedRelations(r)
  BY DEF ManyToMany
<1>3. \A j \in DOMAIN r : r[j] = RelationThrough(tables, t, j)
  OBVIOUS
<1> HIDE DEF r
<1>4. \A j \in DOMAIN r :
          (CHOOSE k \in DOMAIN r : RelationName(r, k) = RelationName(r, j)) = j
  BY <1>1, NamesDiffer
<1>5. /\ DOMAIN NamedRelations(r) = names
      /\ \A j \in DOMAIN r : NamedRelations(r)[RelationName(r, j)] = r[j]
  BY <1>4 DEF NamedRelations
<1> QED
  BY <1>1, <1>2, <1>3, <1>5 DEF Range

\* The direction of a junction that starts from the table of one column.
LEMMA RelationIs ==
    ASSUME NEW tables, NEW j, NEW c, NEW d, c # d,
           DOMAIN tables[j].foreignKeys = {c, d},
           tables[j].foreignKeys[c].table # tables[j].foreignKeys[d].table
    PROVE  LET keys == tables[j].foreignKeys
           IN  RelationThrough(tables, keys[c].table, j) =
                   [through |-> j, sourceColumn |-> c,
                    sourceTargetColumn |-> keys[c].column, target |-> keys[d].table,
                    targetColumn |-> keys[d].column, throughTargetColumn |-> d]
<1> DEFINE keys == tables[j].foreignKeys
<1>1. (CHOOSE x \in DOMAIN keys : keys[x].table = keys[c].table) = c
  OBVIOUS
<1>2. (CHOOSE x \in DOMAIN keys : x # c) = d
  OBVIOUS
<1> QED
  BY <1>1, <1>2, Zenon DEF RelationThrough

\* The two columns of a junction table.
LEMMA JunctionEnds ==
    ASSUME NEW tables, NEW j, IsStrictJunction(tables, j, tables[j]),
           NEW c \in DOMAIN tables[j].foreignKeys
    PROVE  \E d : /\ c # d /\ DOMAIN tables[j].foreignKeys = {c, d}
                  /\ tables[j].foreignKeys[c].table # tables[j].foreignKeys[d].table
                  /\ tables[j].foreignKeys[d].table \in DOMAIN tables
<1> PICK keys : keys = tables[j].foreignKeys
  OBVIOUS
<1>1. PICK a, b : a # b /\ DOMAIN keys = {a, b}
  BY DEF IsStrictJunction
<1>2. PICK d : c # d /\ DOMAIN keys = {c, d}
  BY <1>1
<1>3. keys[c].table # keys[d].table
  BY <1>2 DEF IsStrictJunction
<1>4. keys[d].table \in DOMAIN tables
  BY <1>2 DEF IsStrictJunction, Range
<1> QED
  BY <1>2, <1>3, <1>4

LEMMA Mirrored ==
    ASSUME NEW tables, IsSchema(tables), Derived(tables), NEW j \in DOMAIN tables,
           IsStrictJunction(tables, j, tables[j]), NEW c \in DOMAIN tables[j].foreignKeys
    PROVE  LET t == tables[j].foreignKeys[c].table
               relation == RelationThrough(tables, t, j)
           IN  /\ relation \in Range(tables[t].manyToMany)
               /\ relation.through = j
               /\ Mirror(t, relation) \in Range(tables[relation.target].manyToMany)
<1> DEFINE keys == tables[j].foreignKeys
<1>1. PICK d : /\ c # d /\ DOMAIN keys = {c, d} /\ keys[c].table # keys[d].table
               /\ keys[d].table \in DOMAIN tables
  BY JunctionEnds
<1>2. keys[c].table \in DOMAIN tables
  BY DEF IsStrictJunction, Range
<1>3. j \in Junctions(tables, keys[c].table) /\ j \in Junctions(tables, keys[d].table)
  BY <1>1 DEF Junctions, Range
<1>4. /\ RelationThrough(tables, keys[c].table, j) \in Range(tables[keys[c].table].manyToMany)
      /\ RelationThrough(tables, keys[d].table, j) \in Range(tables[keys[d].table].manyToMany)
  BY <1>1, <1>2, <1>3, NoneLost DEF Derived, IsSchema
<1>5. /\ RelationThrough(tables, keys[c].table, j) =
             [through |-> j, sourceColumn |-> c,
              sourceTargetColumn |-> keys[c].column, target |-> keys[d].table,
              targetColumn |-> keys[d].column, throughTargetColumn |-> d]
      /\ RelationThrough(tables, keys[d].table, j) =
             [through |-> j, sourceColumn |-> d,
              sourceTargetColumn |-> keys[d].column, target |-> keys[c].table,
              targetColumn |-> keys[c].column, throughTargetColumn |-> c]
  BY <1>1, RelationIs
<1>6. /\ RelationThrough(tables, keys[c].table, j).target = keys[d].table
      /\ RelationThrough(tables, keys[c].table, j).through = j
      /\ Mirror(keys[c].table, RelationThrough(tables, keys[c].table, j))
             = RelationThrough(tables, keys[d].table, j)
  BY <1>5 DEF Mirror
<1> QED
  BY <1>4, <1>6

\* The two tables that a junction joins know of each other, by relations that
\* mirror each other and that no other junction hides
\* (add_many_to_many_relation).
THEOREM RelationsAreMirrored == Spec => []ManyToManyMirrored
<1>1. Spec => []EffectiveInv
  BY EffectiveInit, EffectiveNext, PTL DEF Spec
<1>2. EffectiveInv => ManyToManyMirrored
  <2> SUFFICES ASSUME EffectiveInv PROVE ManyToManyMirrored
    OBVIOUS
  <2>1. IsSchema(merged) /\ Derived(merged)
    BY DEF EffectiveInv, IsEffectiveSchema
  <2>2. ASSUME NEW t \in DOMAIN merged, NEW relation \in Range(merged[t].manyToMany)
        PROVE  Mirror(t, relation) \in Range(merged[relation.target].manyToMany)
    <3>1. PICK j \in Junctions(merged, t) : relation = RelationThrough(merged, t, j)
      BY <2>1, <2>2, NoneLost DEF Derived, IsSchema
    <3>2. /\ j \in DOMAIN merged /\ IsStrictJunction(merged, j, merged[j])
          /\ \E c \in DOMAIN merged[j].foreignKeys : merged[j].foreignKeys[c].table = t
      BY DEF Junctions, Range
    <3> QED
      BY <2>1, <3>1, <3>2, Mirrored
  <2>3. ASSUME NEW t \in DOMAIN merged, IsStrictJunction(merged, t, merged[t]),
               NEW fk \in Range(merged[t].foreignKeys)
        PROVE  \E relation \in Range(merged[fk.table].manyToMany) : relation.through = t
    <3>1. PICK c \in DOMAIN merged[t].foreignKeys : fk = merged[t].foreignKeys[c]
      BY <2>3 DEF Range
    <3> QED
      BY <2>1, <2>3, <3>1, Mirrored
  <2> QED
    BY <2>2, <2>3 DEF ManyToManyMirrored
<1> QED
  BY <1>1, <1>2, PTL

-----------------------------------------------------------------------------
(***************************************************************************)
(* Saving the effective schema.                                            *)
(***************************************************************************)

\* A schema that is exported and merged again comes back: everything it has
\* is declared then, and nothing more can be found.
LEMMA ExportComesBack ==
    ASSUME NEW o, IsOverlay(o), NEW i, IsSchema(i), MergeSchemas(o, i) # MergeError
    PROVE  MergeSchemas(Export(o, MergeSchemas(o, i)), i) = MergeSchemas(o, i)
<1> DEFINE v == Overlaid(o, i)
           w == WithReferences(o, v)
           m == DeriveManyToMany(w)
           e == Export(o, m)
           v2 == Overlaid(e, i)
           w2 == WithReferences(e, v2)
<1>1. /\ MergeSchemas(o, i) = m
      /\ IsEffective(w) /\ IsDeclarable(o, w)
  BY DEF MergeSchemas
<1>2. /\ IsSchema(v) /\ DOMAIN v = DOMAIN i \cup DOMAIN o
      /\ \A t \in DOMAIN v \cap DOMAIN o :
             /\ v[t].columns = Over(o[t].columns, Base(i, t).columns)
             /\ v[t].primaryKey = IF o[t].primaryKey = NoKey
                                  THEN Base(i, t).primaryKey ELSE o[t].primaryKey
      /\ \A t \in DOMAIN v \ DOMAIN o :
             /\ v[t].columns = Base(i, t).columns
             /\ v[t].primaryKey = Base(i, t).primaryKey
  <2>1. IsOverlaid(v, o, i)
    BY OverlaidIs
  <2> HIDE DEF v
  <2> QED
    BY <2>1 DEF IsOverlaid
<1>3. /\ IsSchema(w) /\ DOMAIN w = DOMAIN v
      /\ \A t \in DOMAIN v :
             /\ w[t].columns = v[t].columns
             /\ w[t].primaryKey = v[t].primaryKey
             /\ w[t].foreignKeys = Over(DeclaredReferences(o, t),
                                        DetectForeignKeys(v, t, ManualReferences(o, t)))
             /\ w[t].manyToMany = <<>>
             /\ w[t].kind # NoKind
  <2> HIDE DEF v
  <2> QED
    BY <1>2, WithReferencesIs, NoKindAssumption
<1> HIDE DEF v, w
<1>4. /\ IsSchema(m) /\ DOMAIN m = DOMAIN w
      /\ \A t \in DOMAIN w :
             /\ m[t].kind = w[t].kind
             /\ m[t].primaryKey = w[t].primaryKey
             /\ m[t].columns = w[t].columns
             /\ m[t].foreignKeys = w[t].foreignKeys
  BY <1>3, DeriveKeeps DEF IsSchema
<1> HIDE DEF m
<1>5. /\ IsOverlay(e) /\ DOMAIN e = DOMAIN w
      /\ \A t \in DOMAIN w :
             /\ e[t].kind = w[t].kind
             /\ e[t].primaryKey = w[t].primaryKey
             /\ e[t].columns = w[t].columns
             /\ e[t].foreignKeys = w[t].foreignKeys
             /\ e[t].suppressed = IF t \in DOMAIN o THEN o[t].suppressed ELSE {}
             /\ e[t].unique = IF t \in DOMAIN o THEN o[t].unique ELSE <<>>
  BY <1>4, ExportIsOverlay DEF Export, DeclaredTable, DeclaredNames
<1> HIDE DEF e
<1>6. SameColumns(v2, v)
  <2>1. /\ IsSchema(v2) /\ DOMAIN v2 = DOMAIN i \cup DOMAIN e
        /\ \A t \in DOMAIN v2 \cap DOMAIN e :
               /\ v2[t].columns = Over(e[t].columns, Base(i, t).columns)
               /\ v2[t].primaryKey = IF e[t].primaryKey = NoKey
                                     THEN Base(i, t).primaryKey ELSE e[t].primaryKey
    <3>1. IsOverlaid(v2, e, i)
      BY <1>5, OverlaidIs
    <3> HIDE DEF v2
    <3> QED
      BY <3>1 DEF IsOverlaid
  <2> HIDE DEF v2
  <2>2. DOMAIN v2 = DOMAIN v
    BY <1>2, <1>3, <1>5, <2>1
  <2>3. ASSUME NEW t \in DOMAIN v
        PROVE  v2[t].columns = v[t].columns /\ v2[t].primaryKey = v[t].primaryKey
    <3>1. DOMAIN Base(i, t).columns \subseteq DOMAIN v[t].columns
      <4>1. CASE t \in DOMAIN o
        <5>1. v[t].columns = Over(o[t].columns, Base(i, t).columns)
          BY <1>2, <4>1
        <5>2. DOMAIN Over(o[t].columns, Base(i, t).columns)
                  = DOMAIN o[t].columns \cup DOMAIN Base(i, t).columns
          BY OverIs
        <5> QED
          BY <5>1, <5>2
      <4>2. CASE t \notin DOMAIN o
        BY <1>2, <4>2
      <4> QED
        BY <4>1, <4>2
    <3>2. IsFunction(v[t].columns)
      BY <1>2 DEF IsSchema, IsTable
    <3>3. v2[t].columns = Over(v[t].columns, Base(i, t).columns)
      BY <1>3, <1>5, <2>1, <2>2
    <3>4. v2[t].columns = v[t].columns
      BY <3>1, <3>2, <3>3 DEF Over, IsFunction
    <3>5. v[t].primaryKey = NoKey => Base(i, t).primaryKey = NoKey
      BY <1>2
    <3> QED
      BY <1>3, <1>5, <2>1, <2>2, <3>4, <3>5
  <2> QED
    BY <2>2, <2>3 DEF SameColumns
<1>7. IsSchema(v2) /\ DOMAIN v2 = DOMAIN w
  <2>1. IsOverlaid(v2, e, i)
    BY <1>5, OverlaidIs
  <2> QED
    BY <1>3, <1>6, <2>1 DEF SameColumns, IsOverlaid
<1> HIDE DEF v2
<1>8. ASSUME NEW t \in DOMAIN w
      PROVE  Over(DeclaredReferences(e, t),
                  DetectForeignKeys(v2, t, ManualReferences(e, t))) = w[t].foreignKeys
  <2> DEFINE skip == ManualReferences(e, t)
  <2>1. skip = DOMAIN w[t].foreignKeys
                   \cup (IF t \in DOMAIN o THEN o[t].suppressed ELSE {})
    BY <1>5, <1>8 DEF ManualReferences, DeclaredNames
  <2>2. DetectForeignKeys(v2, t, skip) = DetectForeignKeys(v, t, skip)
    BY <1>6, <1>7, <1>8, SameReferences
  <2>3. ASSUME NEW c \in DOMAIN v[t].columns \ skip, IsReference(v, t, c) PROVE FALSE
    <3> DEFINE found == DetectForeignKeys(v, t, ManualReferences(o, t))
    <3>0. DOMAIN w[t].foreignKeys = DOMAIN DeclaredReferences(o, t) \cup DOMAIN found
      <4>1. w[t].foreignKeys = Over(DeclaredReferences(o, t), found)
        BY <1>3, <1>8
      <4>2. DOMAIN Over(DeclaredReferences(o, t), found)
                = DOMAIN DeclaredReferences(o, t) \cup DOMAIN found
        BY OverIs, Zenon
      <4> QED
        BY <4>1, <4>2
    <3>1. c \notin ManualReferences(o, t)
      BY <2>1, <2>3, <3>0 DEF ManualReferences, DeclaredReferences, DeclaredNames
    <3>2. c \in DOMAIN DetectForeignKeys(v, t, ManualReferences(o, t))
      BY <2>3, <3>1 DEF DetectForeignKeys
    <3>3. c \in DOMAIN w[t].foreignKeys
      BY <3>0, <3>2
    <3> QED
      BY <2>1, <2>3, <3>3
  <2>4. DOMAIN DetectForeignKeys(v, t, skip) = {}
    BY <2>3 DEF DetectForeignKeys
  <2>5. DeclaredReferences(e, t) = w[t].foreignKeys
    BY <1>5, <1>8 DEF DeclaredReferences, DeclaredNames
  <2>6. IsFunction(w[t].foreignKeys)
    BY <1>3, <1>8 DEF IsSchema, IsTable
  <2> QED
    BY <2>2, <2>4, <2>5, <2>6 DEF Over, IsFunction
<1>9. /\ IsSchema(w2) /\ DOMAIN w2 = DOMAIN w
      /\ \A t \in DOMAIN w :
             /\ w2[t].columns = v2[t].columns
             /\ w2[t].primaryKey = v2[t].primaryKey
             /\ w2[t].foreignKeys = Over(DeclaredReferences(e, t),
                                         DetectForeignKeys(v2, t, ManualReferences(e, t)))
             /\ w2[t].manyToMany = <<>>
             /\ w2[t].kind = e[t].kind
  BY <1>3, <1>5, <1>7, WithReferencesIs
<1> HIDE DEF w2
<1>10. ASSUME NEW t \in DOMAIN w PROVE w2[t] = w[t]
  <2>1. /\ w2[t].columns = w[t].columns /\ w2[t].primaryKey = w[t].primaryKey
        /\ w2[t].foreignKeys = w[t].foreignKeys
        /\ w2[t].manyToMany = w[t].manyToMany /\ w2[t].kind = w[t].kind
    BY <1>3, <1>5, <1>6, <1>8, <1>9, <1>10 DEF SameColumns
  <2> QED
    BY <1>3, <1>9, <1>10, <2>1 DEF IsSchema, IsTable
<1>11. w2 = w
  BY <1>3, <1>9, <1>10 DEF IsSchema, IsFunction
<1>12. IsDeclarable(e, w)
  BY <1>1, <1>2, <1>3, <1>5 DEF IsDeclarable, DeclaredNames
<1>13. MergeSchemas(e, i) = IF IsEffective(w2) /\ IsDeclarable(e, w2)
                            THEN DeriveManyToMany(w2) ELSE MergeError
  BY DEF MergeSchemas, w2, v2
<1>14. MergeSchemas(e, i) = m
  BY <1>1, <1>11, <1>12, <1>13 DEF m
<1> QED
  BY <1>1, <1>14 DEF e

\* What POST /schema writes gives the effective schema when the watcher loads
\* it, as long as the overlay in force merges with what was inferred last
\* (export_declared_schema_snapshot, merge_schemas).
THEOREM SavingChangesNothing == Spec => []SavedSchemaIsEffective
<1>1. Spec => []EffectiveInv
  BY EffectiveInit, EffectiveNext, PTL DEF Spec
<1>2. EffectiveInv => SavedSchemaIsEffective
  <2> SUFFICES ASSUME EffectiveInv, IsCurrent
               PROVE  MergeSchemas(Export(overlay, merged), inferred) = merged
    BY DEF SavedSchemaIsEffective
  <2>1. IsSchema(inferred)
    BY InferredIsSchema DEF EffectiveInv, Inference, IncrementalInference
  <2>2. merged = MergeSchemas(overlay, inferred) /\ MergeSchemas(overlay, inferred) # MergeError
    BY DEF EffectiveInv, IsCurrent
  <2> QED
    BY <2>1, <2>2, ExportComesBack DEF EffectiveInv
<1> QED
  BY <1>1, <1>2, PTL

-----------------------------------------------------------------------------
(***************************************************************************)
(* Documents and their items.                                              *)
(***************************************************************************)

\* A set of numbers up to a bound has a largest one.
LEMMA MaxBounds ==
    ASSUME NEW n \in Nat, NEW S \in SUBSET (0..n), S # {}
    PROVE  Max(S) \in S /\ \A y \in S : y <= Max(S)
<1> DEFINE D == {n - x : x \in S}
<1>1. D \in SUBSET Nat /\ D # {}
  <2>1. \A x \in S : n - x \in Nat
    OBVIOUS
  <2>2. PICK x \in S : TRUE
    OBVIOUS
  <2> QED
    BY <2>1, <2>2
<1>2. Min(D) \in D /\ \A y \in D : Min(D) <= y
  BY <1>1, MinBounds
<1>3. PICK m \in S : Min(D) = n - m
  BY <1>2
<1>4. \A y \in S : m >= y
  <2>1. \A y \in S : n - m <= n - y
    BY <1>2, <1>3
  <2> QED
    BY <2>1
<1> QED
  BY <1>4 DEF Max

LEMMA ArrayIsSeq ==
    ASSUME NEW rows, IsArray(rows)
    PROVE  rows \in Seq(Range(rows)) /\ \A row \in Range(rows) : IsRow(row)
<1>1. rows = [i \in 1..Len(rows) |-> rows[i]] /\ Len(rows) \in Nat
  BY DEF IsArray, IsFunction
<1>2. \A i \in 1..Len(rows) : rows[i] \in Range(rows)
  BY DEF IsArray, Range
<1>3. rows \in [1..Len(rows) -> Range(rows)]
  BY <1>1, <1>2
<1> QED
  BY <1>1, <1>3 DEF IsArray, Range

LEMMA SeqIsArray ==
    ASSUME NEW R, \A row \in R : IsRow(row), NEW s \in Seq(R)
    PROVE  IsArray(s)
  BY DEF IsArray, IsFunction

\* What a search for a key finds.
LEMMA FindIndexIs ==
    ASSUME NEW rows, IsArray(rows), NEW key, NEW id
    PROVE  /\ FindIndex(rows, key, id) # 0 =>
                  /\ FindIndex(rows, key, id) \in DOMAIN rows
                  /\ IdMatches(rows[FindIndex(rows, key, id)], key, id)
           /\ \A p \in DOMAIN rows :
                  IdMatches(rows[p], key, id) => FindIndex(rows, key, id) # 0
<1> DEFINE I == {i \in 1..Len(rows) : IdMatches(rows[i], key, id)}
<1>1. I \in SUBSET Nat /\ 0 \notin I
  BY DEF IsArray
<1>2. FindIndex(rows, key, id) = IF I # {} THEN Min(I) ELSE 0
  BY DEF FindIndex, SelectInSeq
<1>3. I # {} => Min(I) \in I
  BY <1>1, MinBounds
<1> QED
  BY <1>1, <1>2, <1>3 DEF IsArray

\* Both searches find the only row with a key.
LEMMA OnlyMatch ==
    ASSUME NEW rows, IsArray(rows), NEW key, NEW id, NEW p \in DOMAIN rows,
           IdMatches(rows[p], key, id),
           \A i \in DOMAIN rows : IdMatches(rows[i], key, id) => i = p
    PROVE  FindIndex(rows, key, id) = p /\ IndexedPosition(rows, key, id) = p
<1> DEFINE I == {i \in 1..Len(rows) : IdMatches(rows[i], key, id)}
<1>1. I = {p} /\ p \in Nat
  BY DEF IsArray
<1>2. Min({p}) = p /\ Max({p}) = p
  BY <1>1 DEF Min, Max
<1>3. /\ FindIndex(rows, key, id) = IF I # {} THEN Min(I) ELSE 0
      /\ IndexedPosition(rows, key, id) = IF I # {} THEN Max(I) ELSE 0
  BY DEF FindIndex, SelectInSeq, IndexedPosition, SelectLastInSeq
<1> QED
  BY <1>1, <1>2, <1>3

LEMMA RowWith ==
    ASSUME NEW row, IsRow(row), NEW column, NEW v, IsValue(v)
    PROVE  /\ IsRow(With(row, column, v))
           /\ Has(With(row, column, v), column) /\ With(row, column, v)[column] = v
  BY DEF With, Over, IsRow, IsFunction, Has

LEMMA KeyValues ==
    ASSUME NEW text PROVE IsValue(Number(text)) /\ IsValue(Str(text))
  BY DEF IsValue, Number, Str, Json, Kind

\* The row that an update leaves.
LEMMA UpdatedRowIs ==
    ASSUME NEW tables, NEW req, IsRequest(req), NEW rows, IsArray(rows),
           req.op # "delete_item", IsApplicable(tables, req, rows)
    PROVE  LET key == KeyName(tables, req.table)
               position == FindIndex(rows, key, req.id)
               row == UpdatedRow(tables, req, rows)
           IN  /\ IsRow(row)
               /\ req.op = "create_item" => Updated(tables, req, rows) = Append(rows, row)
               /\ req.op # "create_item" =>
                      /\ position \in DOMAIN rows
                      /\ Updated(tables, req, rows) = ReplaceAt(rows, position, row)
                      /\ Has(row, key) /\ IsScalar(row[key]) /\ row[key].text = req.id
<1> DEFINE key == KeyName(tables, req.table)
           position == FindIndex(rows, key, req.id)
           row == UpdatedRow(tables, req, rows)
<1>1. IsRow(req.item)
  BY DEF IsRequest
<1>2. CASE req.op = "create_item"
  <2>1. row = WithKey(tables, req.table, rows, req.item)
    BY <1>2 DEF UpdatedRow
  <2>2. IsRow(row)
    BY <1>1, <2>1, RowWith, KeyValues DEF WithKey
  <2>3. Updated(tables, req, rows) = Append(rows, row)
    BY <1>2 DEF Updated
  <2> QED
    BY <1>2, <2>2, <2>3
<1>3. CASE req.op \in {"replace_item", "patch_item"}
  <2>1. position \in DOMAIN rows /\ IdMatches(rows[position], key, req.id)
    <3>1. position # 0
      BY <1>3 DEF IsApplicable
    <3> QED
      BY <3>1, FindIndexIs
  <2>2. Updated(tables, req, rows) = ReplaceAt(rows, position, row)
    BY <1>3 DEF Updated
  <2>3. IsRow(row) /\ Has(row, key) /\ IsScalar(row[key]) /\ row[key].text = req.id
    <3>1. CASE req.op = "replace_item"
      <4> DEFINE v == CoerceId(tables, req.table, req.id)
      <4>1. row = With(req.item, key, v)
        BY <3>1 DEF UpdatedRow
      <4>2. IsValue(v) /\ IsScalar(v) /\ v.text = req.id
        BY KeyValues DEF CoerceId, Number, Str, Json, IsScalar
      <4> HIDE DEF v, row
      <4> QED
        BY <1>1, <4>1, <4>2, RowWith
    <3>2. CASE req.op = "patch_item"
      <4> DEFINE item == [c \in DOMAIN req.item \ {key} |-> req.item[c]]
                 current == rows[position]
      <4>1. row = Over(item, current)
        BY <3>2 DEF UpdatedRow
      <4>2. IsRow(current) /\ IdMatches(current, key, req.id)
        BY <2>1 DEF IsArray
      <4>3. /\ \A c \in DOMAIN item : IsValue(item[c])
            /\ key \notin DOMAIN item
        BY <1>1 DEF IsRow
      <4> HIDE DEF item, current, row
      <4>4. IsRow(row)
        BY <4>1, <4>2, <4>3 DEF Over, IsRow, IsFunction
      <4>5. Has(row, key) /\ row[key] = current[key]
        BY <4>1, <4>2, <4>3 DEF Over, IdMatches, Has
      <4> QED
        BY <4>2, <4>4, <4>5 DEF IdMatches
    <3> QED
      BY <1>3, <3>1, <3>2
  <2> HIDE DEF key, position, row
  <2> QED
    BY <1>3, <2>1, <2>2, <2>3 DEF key, position, row
<1> QED
  BY <1>2, <1>3 DEF IsRequest

LEMMA UpdatedIsArray ==
    ASSUME NEW tables, NEW req, IsRequest(req), NEW rows, IsArray(rows),
           IsApplicable(tables, req, rows)
    PROVE  IsArray(Updated(tables, req, rows))
<1> DEFINE R == Range(rows)
<1>1. rows \in Seq(R) /\ \A row \in R : IsRow(row)
  BY ArrayIsSeq
<1>2. CASE req.op = "delete_item"
  <2> DEFINE p == FindIndex(rows, KeyName(tables, req.table), req.id)
  <2>1. p \in DOMAIN rows
    BY <1>2, FindIndexIs DEF IsApplicable
  <2>2. Updated(tables, req, rows) = SubSeq(rows, 1, p - 1) \o SubSeq(rows, p + 1, Len(rows))
    BY <1>2 DEF Updated, RemoveAt
  <2> HIDE DEF R, p
  <2>3. p \in 1..Len(rows)
    BY <2>1 DEF IsArray
  <2>4. SubSeq(rows, 1, p - 1) \in Seq(R) /\ SubSeq(rows, p + 1, Len(rows)) \in Seq(R)
    BY <1>1, <2>3
  <2>5. Updated(tables, req, rows) \in Seq(R)
    BY <2>2, <2>4
  <2> QED
    BY <1>1, <2>5, SeqIsArray
<1>3. CASE req.op # "delete_item"
  <2>1. PICK row : /\ IsRow(row)
                   /\ \/ Updated(tables, req, rows) = Append(rows, row)
                      \/ \E p \in DOMAIN rows :
                             Updated(tables, req, rows) = ReplaceAt(rows, p, row)
    <3> DEFINE row == UpdatedRow(tables, req, rows)
               p == FindIndex(rows, KeyName(tables, req.table), req.id)
    <3>1. /\ IsRow(row)
          /\ req.op = "create_item" => Updated(tables, req, rows) = Append(rows, row)
          /\ req.op # "create_item" =>
                 /\ p \in DOMAIN rows
                 /\ Updated(tables, req, rows) = ReplaceAt(rows, p, row)
      BY <1>3, UpdatedRowIs
    <3> HIDE DEF row, p
    <3> QED
      BY <3>1
  <2> HIDE DEF R
  <2>2. rows \in Seq(R \cup {row})
    BY <1>1
  <2>3. Updated(tables, req, rows) \in Seq(R \cup {row})
    BY <2>1, <2>2 DEF ReplaceAt
  <2> QED
    BY <1>1, <2>1, <2>3, SeqIsArray
<1> QED
  BY <1>2, <1>3

\* Files hold arrays of rows, or no table at all.
DocumentsInv ==
    /\ IsFunction(documents) /\ DOMAIN documents \subseteq Table
    /\ \A t \in DOMAIN documents : IsDocument(documents[t])

LEMMA DocumentsInit == ASSUME Init PROVE DocumentsInv
  BY FolderAssumption DEF Init, StartsWith, DocumentsInv

LEMMA DocumentsOne ==
    ASSUME DocumentsInv, NEW t \in DOMAIN documents, NEW document, IsDocument(document),
           documents' = [documents EXCEPT ![t] = document]
    PROVE  DocumentsInv'
<1>1. IsFunction(documents') /\ DOMAIN documents' = DOMAIN documents
  BY DEF IsFunction
<1>2. \A u \in DOMAIN documents : documents'[u] = IF u = t THEN document ELSE documents[u]
  OBVIOUS
<1> QED
  BY <1>1, <1>2 DEF DocumentsInv

LEMMA DocumentsNext == ASSUME DocumentsInv, [Next]_vars PROVE DocumentsInv'
<1>1. ASSUME NEW req \in Request, UpdateItem(req) PROVE DocumentsInv'
  <2> DEFINE rows == documents[req.table]
             updated == Updated(merged, req, rows)
  <2>1. /\ req.table \in DOMAIN documents /\ rows # NoTable
        /\ IsApplicable(merged, req, rows)
        /\ documents' = [documents EXCEPT ![req.table] = updated]
    BY <1>1 DEF UpdateItem, IsAccepted
  <2>2. IsArray(rows) /\ IsRequest(req)
    BY <2>1, RequestAssumption DEF DocumentsInv, IsDocument
  <2>3. IsDocument(updated)
    BY <2>1, <2>2, UpdatedIsArray DEF IsDocument
  <2> HIDE DEF updated
  <2> QED
    BY <2>1, <2>3, DocumentsOne
<1>2. ASSUME NEW t \in Table, EditFile(t) PROVE DocumentsInv'
  BY <1>2, DocumentsOne, EditsAssumption DEF EditFile
<1>3. ASSUME NEW t \in Transient, CreateResource(t) PROVE DocumentsInv'
  <2>1. IsArray(<<>>)
    BY DEF IsArray, IsFunction
  <2> QED
    BY <1>3, <2>1, FolderAssumption DEF CreateResource, DocumentsInv, IsFunction, IsDocument
<1>4. ASSUME NEW t \in Transient, DeleteResource(t) PROVE DocumentsInv'
  BY <1>4 DEF DeleteResource, DocumentsInv, IsFunction
<1>5. CASE UNCHANGED documents
  BY <1>5 DEF DocumentsInv
<1> QED
  BY <1>1, <1>2, <1>3, <1>4, <1>5
     DEF Next, vars, SaveDeclaredSchema, SaveSchema, InferAndSaveSchema, LoadSchemaFile

-----------------------------------------------------------------------------
(***************************************************************************)
(* Declared keys.                                                          *)
(***************************************************************************)

\* Values of one type that are not null are of one variant.
LEMMA OneVariant ==
    ASSUME NEW v, NEW type \in {"integer", "string", "boolean"}, v.kind # "null",
           MatchesType(v, type)
    PROVE  v.kind = CASE type = "integer" -> "integer" [] type = "string" -> "string"
                      [] type = "boolean" -> "bool"
<1>1. CASE type = "integer"
  BY <1>1 DEF MatchesType
<1>2. CASE type = "string"
  BY <1>2 DEF MatchesType
<1>3. CASE type = "boolean"
  BY <1>3 DEF MatchesType
<1> QED
  BY <1>1, <1>2, <1>3

\* GET, through the index that knows the last match, and PUT, which takes the
\* first, mean the same item under a declared key of one type, whatever rows
\* clients and editors wrote, as long as the overlay admits them
\* (build_id_index, find_item_index_by_key, validate_resource_snapshot).
THEOREM KeysAddress == Spec => []DeclaredKeysAddress
<1>1. Spec => []DocumentsInv
  BY DocumentsInit, DocumentsNext, PTL DEF Spec
<1>2. DocumentsInv => DeclaredKeysAddress
  <2> SUFFICES ASSUME DocumentsInv, NEW t \in DOMAIN documents \cap DeclaredNames(overlay),
                      overlay[t].primaryKey # NoKey,
                      overlay[t].primaryKey \in DOMAIN overlay[t].columns,
                      overlay[t].columns[overlay[t].primaryKey].type
                          \in {"integer", "string", "boolean"},
                      Admits(overlay, t, documents[t]),
                      NEW row \in Range(documents[t]),
                      Has(row, overlay[t].primaryKey),
                      row[overlay[t].primaryKey].kind # "null"
               PROVE  FindIndex(documents[t], overlay[t].primaryKey,
                                row[overlay[t].primaryKey].text)
                          = IndexedPosition(documents[t], overlay[t].primaryKey,
                                            row[overlay[t].primaryKey].text)
    BY DEF DeclaredKeysAddress
  <2> PICK rows, key, column : /\ rows = documents[t] /\ key = overlay[t].primaryKey
                               /\ column = overlay[t].columns[key]
    OBVIOUS
  <2>1. /\ IsArray(rows) /\ \A r \in Range(rows) : AdmitsRow(overlay[t], r)
        /\ Distinguishes(rows, {key})
    BY DEF Admits, AdmitsRows, DocumentsInv, IsDocument
  <2>2. ASSUME NEW r \in Range(rows), Has(r, key), r[key].kind # "null"
        PROVE  MatchesType(r[key], column.type)
    BY <2>1, <2>2 DEF AdmitsRow
  <2>3. ASSUME NEW r \in Range(rows), NEW s \in Range(rows), Has(r, key), Has(s, key),
               r[key].kind # "null", s[key].kind # "null"
        PROVE  r[key].kind = s[key].kind
    BY <2>2, <2>3, OneVariant
  <2>4. PICK p \in DOMAIN rows : row = rows[p]
    BY DEF Range
  <2>5. IsScalar(row[key])
    BY <2>2, OneVariant DEF IsScalar
  <2>6. ASSUME NEW i \in DOMAIN rows, IdMatches(rows[i], key, row[key].text)
        PROVE  i = p
    <3>1. rows[i] \in Range(rows) /\ Has(rows[i], key) /\ rows[i][key].kind # "null"
          /\ rows[i][key].text = row[key].text
      BY <2>6 DEF IdMatches, IsScalar, Range
    <3>2. rows[i][key].kind = row[key].kind
      BY <2>3, <3>1
    <3>3. ScalarKey(rows[i][key]) = ScalarKey(rows[p][key])
      BY <2>4, <3>1, <3>2 DEF ScalarKey, IsNumber
    <3> QED
      BY <2>1, <2>4, <3>1, <3>3 DEF Distinguishes
  <2>7. IdMatches(rows[p], key, row[key].text)
    BY <2>4, <2>5 DEF IdMatches
  <2> QED
    BY <2>1, <2>6, <2>7, OnlyMatch
<1> QED
  BY <1>1, <1>2, PTL

-----------------------------------------------------------------------------
(***************************************************************************)
(* What is inferred admits the rows it was inferred from.                  *)
(***************************************************************************)

\* The first value of a column is one.
LEMMA FirstIsValue ==
    ASSUME NEW rows, IsArray(rows), NEW column, RowsWith(rows, column) # {}
    PROVE  /\ FirstValue(rows, column).kind \in Kind
           /\ Min(RowsWith(rows, column)) \in RowsWith(rows, column)
<1>1. RowsWith(rows, column) \in SUBSET Nat
  BY DEF RowsWith, IsArray
<1>2. Min(RowsWith(rows, column)) \in RowsWith(rows, column)
  BY <1>1, MinBounds
<1> QED
  BY <1>2 DEF FirstValue, RowsWith, IsArray, IsRow, IsValue, Has

\* A value matches the type that is inferred for a uniform column.
LEMMA UniformMatches ==
    ASSUME NEW rows, IsArray(rows), NEW column, IsUniformColumn(rows, column),
           NEW i \in RowsWith(rows, column)
    PROVE  MatchesType(rows[i][column], InferColumnType(rows, column))
<1> DEFINE first == FirstValue(rows, column)
           v == rows[i][column]
           types == {InferJson(rows[j][column]) :
                        j \in {j \in RowsWith(rows, column) : rows[j][column].kind # "null"}}
<1>1. \A j \in RowsWith(rows, column) : rows[j][column].kind \in {"null", first.kind}
  BY DEF IsUniformColumn
<1>2. first.kind \in Kind
  BY FirstIsValue
<1> SUFFICES ASSUME v.kind # "null" PROVE MatchesType(v, InferColumnType(rows, column))
  BY DEF MatchesType
<1>3. v.kind = first.kind
  BY <1>1
<1>4. \A j \in RowsWith(rows, column) :
          rows[j][column].kind # "null" => InferJson(rows[j][column]) = InferJson(first)
  BY <1>1 DEF InferJson
<1>5. types \subseteq {InferJson(first)}
  BY <1>4
<1>6. InferColumnType(rows, column) = InferJson(first)
  BY <1>3, <1>5 DEF InferColumnType
<1> HIDE DEF first, v
<1>7. CASE first.kind = "bool"
  BY <1>3, <1>6, <1>7 DEF InferJson, MatchesType
<1>8. CASE first.kind = "integer"
  BY <1>3, <1>6, <1>8 DEF InferJson, MatchesType
<1>9. CASE first.kind = "float"
  BY <1>3, <1>6, <1>9 DEF InferJson, MatchesType, IsNumber
<1>10. CASE first.kind = "string"
  BY <1>3, <1>6, <1>10 DEF InferJson, MatchesType
<1>11. CASE first.kind = "json"
  BY <1>3, <1>6, <1>11 DEF InferJson, MatchesType
<1>12. CASE first.kind = "null"
  BY <1>3, <1>12
<1> HIDE DEF types
<1> QED
  BY <1>2, <1>7, <1>8, <1>9, <1>10, <1>11, <1>12 DEF Kind, v

\* An inferred key has a value of its own in every row.
LEMMA InferredKeyIsUnique ==
    ASSUME NEW t \in Table, NEW rows, InferPrimaryKey(t, rows) # NoKey
    PROVE  IsUniqueScalarColumn(rows, InferPrimaryKey(t, rows))
<1> DEFINE candidates == KeyCandidates[t]
           I == {i \in 1..Len(candidates) : IsUniqueScalarColumn(rows, candidates[i])}
           first == SelectInSeq(candidates, LAMBDA c : IsUniqueScalarColumn(rows, c))
<1>1. I \in SUBSET Nat
  BY KeyCandidatesAssumption
<1>2. first = IF I # {} THEN Min(I) ELSE 0
  BY DEF SelectInSeq
<1>3. first # 0 /\ InferPrimaryKey(t, rows) = candidates[first]
  BY DEF InferPrimaryKey
<1>4. first \in I
  BY <1>1, <1>2, <1>3, MinBounds
<1> QED
  BY <1>3, <1>4

\* Declaring what was inferred keeps a resource with uniform columns readable
\* (POST /schema/infer: infer_column_type, infer_primary_key and
\* infer_table_schema against validate_resource_snapshot).
THEOREM InferredAdmits == Spec => []UniformRowsAdmitted
<1>1. Spec => []DocumentsInv
  BY DocumentsInit, DocumentsNext, PTL DEF Spec
<1>2. DocumentsInv => UniformRowsAdmitted
  <2> SUFFICES ASSUME DocumentsInv, NEW t \in DOMAIN documents, documents[t] # NoTable,
                      IsUniform(documents[t])
               PROVE  Admits(Export(NoOverlay, InferSchema(documents)), t, documents[t])
    BY DEF UniformRowsAdmitted
  <2> PICK rows, tables, table :
          /\ rows = documents[t] /\ tables = InferSchema(documents)
          /\ table = Export(NoOverlay, tables)[t]
    OBVIOUS
  <2>1. IsArray(rows) /\ t \in Table
    BY DEF DocumentsInv, IsDocument
  <2>2. /\ t \in DOMAIN tables
        /\ tables[t].columns = InferColumns(rows)
        /\ tables[t].primaryKey = InferPrimaryKey(t, rows)
    <3>1. /\ t \in DOMAIN tables
          /\ tables[t].columns = InferTable(t, rows).columns
          /\ tables[t].primaryKey = InferTable(t, rows).primaryKey
      BY InferredSchema
    <3> QED
      BY <3>1 DEF InferTable
  <2>3. /\ table.columns = InferColumns(rows) /\ table.unique = <<>>
        /\ table.primaryKey = InferPrimaryKey(t, rows)
    BY <2>2 DEF Export, DeclaredTable, DeclaredNames, NoOverlay
  <2>4. ASSUME NEW row \in Range(rows) PROVE AdmitsRow(table, row)
    <3> SUFFICES ASSUME NEW c \in DOMAIN InferColumns(rows)
                 PROVE  LET column == InferColumns(rows)[c]
                        IN  IF Has(row, c)
                            THEN /\ row[c].kind = "null" => column.nullable
                                 /\ MatchesType(row[c], column.type)
                                 /\ SatisfiesCheck(row[c], column.check)
                            ELSE column.nullable
      BY <2>3 DEF AdmitsRow
    <3>1. /\ InferColumns(rows)[c].type = InferColumnType(rows, c)
          /\ InferColumns(rows)[c].nullable =
                 \E r \in Range(rows) : Has(r, c) => r[c].kind = "null"
          /\ InferColumns(rows)[c].check = NoCheck
      BY DEF InferColumns
    <3>2. PICK i \in DOMAIN rows : row = rows[i]
      BY <2>4 DEF Range
    <3>3. Has(row, c) => MatchesType(row[c], InferColumnType(rows, c))
      <4>1. IsUniformColumn(rows, c)
        BY DEF IsUniform, InferColumns
      <4> QED
        BY <2>1, <3>2, <4>1, UniformMatches DEF RowsWith
    <3> QED
      BY <3>1, <3>3 DEF SatisfiesCheck
  <2>5. \A columns \in Range(table.unique) : Distinguishes(rows, Range(columns))
    BY <2>3 DEF Range
  <2>6. table.primaryKey # NoKey => Distinguishes(rows, {table.primaryKey})
    BY <2>1, <2>3, InferredKeyIsUnique DEF IsUniqueScalarColumn, Distinguishes
  <2> QED
    BY <2>4, <2>5, <2>6 DEF Admits, AdmitsRows
<1> QED
  BY <1>1, <1>2, PTL

-----------------------------------------------------------------------------
(***************************************************************************)
(* Updated items.                                                          *)
(***************************************************************************)

\* The next number is not the key of a row, when keys are numbers.
LEMMA NextNumberIsNew ==
    ASSUME NEW rows, IsArray(rows), NEW key, NumericKeys(rows, key),
           NextNumber(rows, key) <= MaxNumber, NEW i \in DOMAIN rows
    PROVE  /\ Has(rows[i], key) /\ rows[i][key].kind = "integer"
           /\ rows[i][key].text # NumberText[NextNumber(rows, key)]
<1> DEFINE S == Numbers(rows, key) \cup {0}
           n == NextNumber(rows, key)
<1>1. S \in SUBSET (0..MaxNumber) /\ S # {}
  BY MaxNumberAssumption DEF Numbers
<1>2. Max(S) \in S /\ \A y \in S : y <= Max(S)
  BY <1>1, MaxBounds, MaxNumberAssumption
<1>3. n = Max(S) + 1
  BY DEF NextNumber
<1>4. n \in 0..MaxNumber /\ n \notin Numbers(rows, key)
  <2> HIDE DEF S, n
  <2>1. Max(S) \in Nat /\ n <= MaxNumber
    <3>1. Max(S) \in 0..MaxNumber
      BY <1>1, <1>2
    <3> QED
      BY <3>1, MaxNumberAssumption DEF n
  <2>2. n \notin S
    BY <1>2, <1>3, <2>1
  <2> QED
    BY <1>3, <2>1, <2>2, MaxNumberAssumption DEF S
<1>5. Has(rows[i], key) /\ rows[i][key].kind = "integer" /\ rows[i] \in Range(rows)
  BY DEF NumericKeys, Range
<1>6. IsValue(rows[i][key])
  BY <1>5 DEF IsArray, IsRow, Has
<1> HIDE DEF n
<1>7. rows[i][key].text # NumberText[n]
  BY <1>4, <1>5, <1>6 DEF Numbers, Number, Json, IsValue
<1> QED
  BY <1>5, <1>7 DEF n

\* Other rows keep their keys, and the new row has one of its own.
LEMMA KeysStayDistinct ==
    ASSUME NEW rows, NEW updated, IsArray(updated), NEW key, NEW p \in DOMAIN updated,
           KeysDistinct(rows, key), DOMAIN updated = DOMAIN rows \cup {p},
           \A i \in DOMAIN rows \ {p} : updated[i] = rows[i],
           Has(updated[p], key), IsScalar(updated[p][key]),
           \A i \in DOMAIN rows \ {p} :
               Has(rows[i], key) => rows[i][key].text # updated[p][key].text
    PROVE  /\ KeysDistinct(updated, key)
           /\ IndexedPosition(updated, key, updated[p][key].text) = p
<1>1. \A i \in DOMAIN updated \ {p} : i \in DOMAIN rows \ {p} /\ updated[i] = rows[i]
  OBVIOUS
<1>2. \A i \in DOMAIN updated :
          Has(updated[i], key) /\ updated[i][key].text = updated[p][key].text => i = p
  BY <1>1
<1>3. KeysDistinct(updated, key)
  BY <1>1, <1>2 DEF KeysDistinct
<1>4. /\ IdMatches(updated[p], key, updated[p][key].text)
      /\ \A i \in DOMAIN updated : IdMatches(updated[i], key, updated[p][key].text) => i = p
  BY <1>2 DEF IdMatches
<1> QED
  BY <1>3, <1>4, OnlyMatch

\* With numeric keys, the item that a POST without id, a PUT or a PATCH
\* answers with is the one that GET finds under its id, and no other item
\* shares that id (next_numeric_id, coerce_id_value, build_id_index).
THEOREM UpdatesAreFound == Spec => []UpdatedItemFound
<1>1. Spec => []DocumentsInv
  BY DocumentsInit, DocumentsNext, PTL DEF Spec
<1>2. DocumentsInv => UpdatedItemFound
  <2> SUFFICES ASSUME DocumentsInv, NEW req \in Request, req.op # "delete_item",
                      IsAccepted(req), NEW key, key = KeyName(merged, req.table),
                      ~(req.op = "create_item" /\ Has(req.item, key)),
                      NumericKeys(documents[req.table], key),
                      KeysDistinct(documents[req.table], key),
                      KeyType(merged, req.table) # "string",
                      NEW updated, updated = Updated(merged, req, documents[req.table]),
                      NEW row, row = UpdatedRow(merged, req, documents[req.table])
               PROVE  /\ KeysDistinct(updated, key)
                      /\ updated[IndexedPosition(updated, key, row[key].text)] = row
    BY DEF UpdatedItemFound
  <2> PICK rows : rows = documents[req.table]
    OBVIOUS
  <2>1. IsArray(rows) /\ IsApplicable(merged, req, rows) /\ IsRequest(req)
    BY RequestAssumption DEF IsAccepted, DocumentsInv, IsDocument
  <2>2. IsArray(updated)
    BY <2>1, UpdatedIsArray
  <2>3. PICK p \in DOMAIN updated :
            /\ updated[p] = row /\ Has(row, key) /\ IsScalar(row[key])
            /\ DOMAIN updated = DOMAIN rows \cup {p}
            /\ \A i \in DOMAIN rows \ {p} : /\ updated[i] = rows[i]
                                            /\ rows[i][key].text # row[key].text
    <3>1. CASE req.op = "create_item"
      <4> DEFINE n == NextNumber(rows, key)
      <4>1. row = With(req.item, key, Number(NumberText[n]))
        BY <3>1 DEF UpdatedRow, WithKey
      <4>2. Has(row, key) /\ row[key] = Number(NumberText[n])
        BY <2>1, <4>1, RowWith, KeyValues DEF IsRequest
      <4>3. n <= MaxNumber
        BY <2>1, <3>1 DEF IsApplicable
      <4>4. \A i \in DOMAIN rows : rows[i][key].text # NumberText[n]
        BY <2>1, <4>3, NextNumberIsNew
      <4>5. updated = Append(rows, row)
        BY <2>1, <3>1, UpdatedRowIs, Zenon
      <4> HIDE DEF n
      <4>6. IsScalar(row[key]) /\ row[key].text = NumberText[n]
        BY <4>2 DEF Number, Json, IsScalar
      <4>7. /\ Len(rows) \in Nat /\ DOMAIN rows = 1..Len(rows)
            /\ rows \in Seq(Range(rows) \cup {row})
        BY <2>1, ArrayIsSeq DEF IsArray
      <4>8. /\ DOMAIN updated = DOMAIN rows \cup {Len(rows) + 1}
            /\ updated[Len(rows) + 1] = row
            /\ \A i \in DOMAIN rows : updated[i] = rows[i]
        BY <4>5, <4>7
      <4> QED
        BY <4>2, <4>4, <4>6, <4>8
    <3>2. CASE req.op # "create_item"
      <4> DEFINE p == FindIndex(rows, key, req.id)
      <4>1. /\ p \in DOMAIN rows /\ updated = ReplaceAt(rows, p, row)
            /\ Has(row, key) /\ IsScalar(row[key]) /\ row[key].text = req.id
        BY <2>1, <3>2, UpdatedRowIs
      <4>2. p # 0
        BY <2>1, <3>2 DEF IsApplicable
      <4>3. IdMatches(rows[p], key, req.id)
        BY <2>1, <4>2, FindIndexIs
      <4> HIDE DEF p
      <4>4. \A i \in DOMAIN rows \ {p} : Has(rows[i], key)
        BY DEF NumericKeys, Range
      <4>5. \A i \in DOMAIN rows \ {p} : rows[i][key].text # req.id
        BY <4>1, <4>3, <4>4 DEF KeysDistinct, IdMatches
      <4> QED
        BY <2>1, <4>1, <4>5 DEF ReplaceAt, IsArray
    <3> QED
      BY <3>1, <3>2
  <2>4. KeysDistinct(rows, key)
    OBVIOUS
  <2>5. /\ KeysDistinct(updated, key)
        /\ IndexedPosition(updated, key, updated[p][key].text) = p
    BY <2>2, <2>3, <2>4, KeysStayDistinct
  <2> QED
    BY <2>3, <2>5
<1> QED
  BY <1>1, <1>2, PTL

-----------------------------------------------------------------------------
(***************************************************************************)
(* The fields of a row type, and what a GraphQL schema consists of.        *)
(***************************************************************************)

\* From one number on to another, step by step.
LEMMA UpwardInduction ==
    ASSUME NEW a \in Nat, NEW b \in Nat, NEW S,
           \A m \in a..b : (m > a => m - 1 \in S) => m \in S
    PROVE  a..b \subseteq S
<1> DEFINE Bad == (a..b) \ S
<1> SUFFICES ASSUME Bad # {} PROVE FALSE
  OBVIOUS
<1>1. Bad \in SUBSET Nat
  OBVIOUS
<1>2. Min(Bad) \in Bad /\ \A y \in Bad : Min(Bad) <= y
  BY <1>1, MinBounds
<1>3. PICK m : m \in Bad /\ \A y \in Bad : m <= y
  BY <1>2
<1>4. m > a => m - 1 \in S
  BY <1>3
<1> QED
  BY <1>3, <1>4

\* The fields of a row before the relations have theirs, and after each slot
\* of their order.
SingleFields(docs, tables, table) ==
    ColumnFields(table) \cup RelationFields(docs, tables, table)
Leads(docs, tables, relations, name) ==
    name \in DOMAIN relations /\ LeadsToRows(docs, tables, relations[name].target)
NextFields(fields, docs, tables, relations, i) ==
    IF Leads(docs, tables, relations, RelationOrder[i])
    THEN AddMany(fields, RelationOrder[i], relations[RelationOrder[i]]) ELSE fields
AreAdded(g, docs, tables, table, m) ==
    g = [i \in 0..m |-> IF i = 0 THEN SingleFields(docs, tables, table)
                        ELSE NextFields(g[i - 1], docs, tables, table.manyToMany, i)]

\* There are such steps, as many as one likes.
LEMMA AddedExists ==
    ASSUME NEW docs, NEW tables, NEW table, NEW n \in Nat
    PROVE  \E g : AreAdded(g, docs, tables, table, n)
<1> DEFINE base == SingleFields(docs, tables, table)
           step(fields, i) == NextFields(fields, docs, tables, table.manyToMany, i)
           S == {m \in 0..n : \E g : AreAdded(g, docs, tables, table, m)}
<1>1. \A g, m : AreAdded(g, docs, tables, table, m)
                    <=> g = [i \in 0..m |-> IF i = 0 THEN base ELSE step(g[i - 1], i)]
  BY DEF AreAdded
<1> HIDE DEF base, step
<1>2. ASSUME NEW m \in 0..n, m > 0 => m - 1 \in S PROVE m \in S
  <2>1. CASE m = 0
    <3> DEFINE g == [i \in 0..0 |-> base]
    <3>1. g = [i \in 0..0 |-> IF i = 0 THEN base ELSE step(g[i - 1], i)]
      OBVIOUS
    <3> HIDE DEF g
    <3>2. AreAdded(g, docs, tables, table, 0)
      BY <1>1, <3>1
    <3> QED
      BY <2>1, <3>2
  <2>2. CASE m # 0
    <3>1. PICK l : l = m - 1
      OBVIOUS
    <3>2. l \in 0..n /\ l + 1 = m /\ m > 0
      BY <2>2, <3>1
    <3>3. PICK h : AreAdded(h, docs, tables, table, l)
      BY <1>2, <3>1, <3>2
    <3> HIDE DEF S
    <3>4. h = [i \in 0..l |-> IF i = 0 THEN base ELSE step(h[i - 1], i)]
      BY <1>1, <3>3
    <3> DEFINE g == [i \in 0..m |-> IF i = m THEN step(h[l], m) ELSE h[i]]
    <3>5. \A i \in 0..l : i \in 0..m /\ i # m
      BY <3>2
    <3>6. \A i \in 0..l : g[i] = h[i]
      BY <3>5
    <3>7. ASSUME NEW i \in 0..m PROVE g[i] = IF i = 0 THEN base ELSE step(g[i - 1], i)
      <4>1. CASE i = m
        <5>1. l \in 0..l /\ i # 0 /\ i - 1 = l
          BY <2>2, <3>1, <3>2, <4>1
        <5>2. g[i - 1] = h[l]
          BY <3>6, <5>1
        <5>3. g[i] = step(h[l], m)
          BY <4>1
        <5> QED
          BY <4>1, <5>1, <5>2, <5>3
      <4>2. CASE i # m /\ i = 0
        <5>1. i \in 0..l
          BY <3>2, <4>2
        <5> QED
          BY <3>4, <3>6, <4>2, <5>1
      <4>3. CASE i # m /\ i # 0
        <5>1. i \in 0..l /\ i - 1 \in 0..l
          BY <3>2, <4>3
        <5>2. g[i] = h[i] /\ g[i - 1] = h[i - 1]
          BY <3>6, <5>1
        <5>3. h[i] = step(h[i - 1], i)
          BY <3>4, <4>3, <5>1
        <5> QED
          BY <4>3, <5>2, <5>3
      <4> QED
        BY <4>1, <4>2, <4>3
    <3>8. g = [i \in 0..m |-> g[i]]
      OBVIOUS
    <3> HIDE DEF g
    <3>9. g = [i \in 0..m |-> IF i = 0 THEN base ELSE step(g[i - 1], i)]
      BY <3>7, <3>8
    <3>10. AreAdded(g, docs, tables, table, m)
      BY <1>1, <3>9
    <3> QED
      BY <3>10 DEF S
  <2> QED
    BY <2>1, <2>2
<1> HIDE DEF S
<1>3. 0..n \subseteq S
  BY <1>2, UpwardInduction
<1>4. n \in 0..n
  OBVIOUS
<1> QED
  BY <1>3, <1>4 DEF S

AreFieldSteps(g, docs, tables, table) ==
    /\ RowFields(docs, tables, table) = g[Len(RelationOrder)]
    /\ g[0] = SingleFields(docs, tables, table)
    /\ \A i \in 1..Len(RelationOrder) :
           g[i] = NextFields(g[i - 1], docs, tables, table.manyToMany, i)

\* The fields of a row come about in these steps.
LEMMA RowFieldSteps ==
    ASSUME NEW docs, NEW tables, NEW table
    PROVE  \E g : AreFieldSteps(g, docs, tables, table)
<1>1. PICK n \in Nat : n = Len(RelationOrder)
  BY RelationOrderAssumption
<1> DEFINE g == CHOOSE f : AreAdded(f, docs, tables, table, n)
<1>2. AreAdded(g, docs, tables, table, n)
  BY AddedExists
<1>3. RowFields(docs, tables, table) = g[n]
  BY <1>1 DEF RowFields, AreAdded, SingleFields, NextFields, Leads
<1> HIDE DEF g
<1>4. g = [i \in 0..n |-> IF i = 0 THEN SingleFields(docs, tables, table)
                          ELSE NextFields(g[i - 1], docs, tables, table.manyToMany, i)]
  BY <1>2 DEF AreAdded
<1>5. 0 \in 0..n /\ \A i \in 1..n : i \in 0..n /\ i # 0
  OBVIOUS
<1>6. /\ g[0] = SingleFields(docs, tables, table)
      /\ \A i \in 1..n : g[i] = NextFields(g[i - 1], docs, tables, table.manyToMany, i)
  BY <1>4, <1>5
<1> QED
  BY <1>1, <1>3, <1>6 DEF AreFieldSteps

\* A field is that of a column, or leads to rows.
LeadsOn(docs, tables, field) ==
    \E t : HasRecord(docs, tables, t) /\ field.type = RecordType(t)

\* All fields of a row do one or the other.
LEMMA RowFieldsAre ==
    ASSUME NEW docs, NEW tables, NEW table, NEW field \in RowFields(docs, tables, table)
    PROVE  field \in ColumnFields(table) \/ LeadsOn(docs, tables, field)
<1>1. PICK n \in Nat : n = Len(RelationOrder)
  BY RelationOrderAssumption
<1>2. PICK g : AreFieldSteps(g, docs, tables, table)
  BY RowFieldSteps
<1> DEFINE Good(f) == f \in ColumnFields(table) \/ LeadsOn(docs, tables, f)
           S == {m \in 0..n : \A f \in g[m] : Good(f)}
<1>3. ASSUME NEW f \in RelationFields(docs, tables, table) PROVE Good(f)
  <2>1. PICK c \in DOMAIN table.foreignKeys :
            /\ LeadsToRows(docs, tables, table.foreignKeys[c].table)
            /\ f = Field(RelationField(c), c, RecordType(table.foreignKeys[c].table), FALSE, TRUE)
    BY <1>3 DEF RelationFields
  <2>2. f.type = RecordType(table.foreignKeys[c].table)
    BY <2>1 DEF Field
  <2> QED
    BY <2>1, <2>2 DEF LeadsOn, LeadsToRows
<1>4. ASSUME NEW m \in 0..n, m > 0 => m - 1 \in S PROVE m \in S
  <2>1. CASE m = 0
    BY <1>2, <1>3, <2>1 DEF AreFieldSteps, SingleFields
  <2>2. CASE m # 0
    <3>1. m \in 1..n /\ m > 0
      BY <2>2
    <3>2. \A f \in g[m - 1] : Good(f)
      BY <1>4, <3>1
    <3> PICK name, relations : name = RelationOrder[m] /\ relations = table.manyToMany
      OBVIOUS
    <3>3. g[m] = IF Leads(docs, tables, relations, name)
                 THEN AddMany(g[m - 1], name, relations[name]) ELSE g[m - 1]
      BY <1>1, <1>2, <3>1 DEF AreFieldSteps, NextFields
    <3>4. ASSUME Leads(docs, tables, relations, name), NEW f \in g[m] PROVE Good(f)
      <4>1. PICK chosen : g[m] = g[m - 1] \cup
                {Field(chosen, relations[name].through, RecordType(relations[name].target),
                       TRUE, FALSE)}
        BY <3>3, <3>4 DEF AddMany
      <4>2. CASE f \in g[m - 1]
        BY <3>2, <4>2
      <4>3. CASE f = Field(chosen, relations[name].through,
                           RecordType(relations[name].target), TRUE, FALSE)
        <5>1. f.type = RecordType(relations[name].target)
          BY <4>3 DEF Field
        <5> QED
          BY <3>4, <5>1 DEF Leads, LeadsToRows, LeadsOn
      <4> QED
        BY <4>1, <4>2, <4>3
    <3> HIDE DEF Good
    <3> QED
      BY <3>2, <3>3, <3>4
  <2> QED
    BY <2>1, <2>2
<1> HIDE DEF S
<1>5. 0..n \subseteq S
  BY <1>4, UpwardInduction
<1>6. \A f \in g[n] : Good(f)
  BY <1>5 DEF S
<1> QED
  BY <1>1, <1>2, <1>6 DEF AreFieldSteps

\* What a schema that is built consists of.
LEMMA BuiltIs ==
    ASSUME NEW docs, NEW tables, NEW o, BuildSchema(docs, tables, o) # NameConflict
    PROVE  LET built == BuildSchema(docs, tables, o)
           IN  /\ \A type : type \in built.types <=>
                      \E t \in DOMAIN docs : type \in TypesOf(docs, tables, o, t)
               /\ \A field : field \in built.roots <=>
                      \E t \in DOMAIN docs : field \in RootFields(docs, tables, t)
               /\ \A t, u \in DOMAIN docs :
                      \A x \in TypesOf(docs, tables, o, t) : \A y \in TypesOf(docs, tables, o, u) :
                          x.name = y.name => t = u /\ x = y
<1> DEFINE types == UNION {{t} \X TypesOf(docs, tables, o, t) : t \in DOMAIN docs}
           roots == UNION {{t} \X RootFields(docs, tables, t) : t \in DOMAIN docs}
           built == BuildSchema(docs, tables, o)
<1>1. /\ OwnedApart(types)
      /\ built = [types |-> {owned[2] : owned \in types}, roots |-> {owned[2] : owned \in roots}]
  BY DEF BuildSchema
<1>2. \A p : p \in types <=> \E t \in DOMAIN docs : p \in {t} \X TypesOf(docs, tables, o, t)
  OBVIOUS
<1>3. \A p : p \in roots <=> \E t \in DOMAIN docs : p \in {t} \X RootFields(docs, tables, t)
  OBVIOUS
<1> HIDE DEF types, roots, built
<1>4. \A t \in DOMAIN docs : \A x \in TypesOf(docs, tables, o, t) : <<t, x>> \in types
  BY <1>2
<1>5. \A t \in DOMAIN docs : \A x \in RootFields(docs, tables, t) : <<t, x>> \in roots
  BY <1>3
<1>6. \A p \in types : p[1] \in DOMAIN docs /\ p[2] \in TypesOf(docs, tables, o, p[1])
  BY <1>2
<1>7. \A p \in roots : p[1] \in DOMAIN docs /\ p[2] \in RootFields(docs, tables, p[1])
  BY <1>3
<1>8. \A type : type \in built.types <=>
          \E t \in DOMAIN docs : type \in TypesOf(docs, tables, o, t)
  <2> SUFFICES ASSUME NEW type
               PROVE  type \in built.types <=>
                          \E t \in DOMAIN docs : type \in TypesOf(docs, tables, o, t)
    OBVIOUS
  <2>1. built.types = {owned[2] : owned \in types}
    BY <1>1
  <2>2. ASSUME NEW t \in DOMAIN docs, type \in TypesOf(docs, tables, o, t)
        PROVE  type \in built.types
    <3>1. <<t, type>> \in types /\ <<t, type>>[2] = type
      BY <1>4, <2>2
    <3> QED
      BY <2>1, <3>1
  <2>3. type \in built.types => \E t \in DOMAIN docs : type \in TypesOf(docs, tables, o, t)
    BY <1>6, <2>1
  <2> QED
    BY <2>2, <2>3
<1>9. \A field : field \in built.roots <=>
          \E t \in DOMAIN docs : field \in RootFields(docs, tables, t)
  <2> SUFFICES ASSUME NEW field
               PROVE  field \in built.roots <=>
                          \E t \in DOMAIN docs : field \in RootFields(docs, tables, t)
    OBVIOUS
  <2>1. built.roots = {owned[2] : owned \in roots}
    BY <1>1
  <2>2. ASSUME NEW t \in DOMAIN docs, field \in RootFields(docs, tables, t)
        PROVE  field \in built.roots
    <3>1. <<t, field>> \in roots /\ <<t, field>>[2] = field
      BY <1>5, <2>2
    <3> QED
      BY <2>1, <3>1
  <2>3. field \in built.roots => \E t \in DOMAIN docs : field \in RootFields(docs, tables, t)
    BY <1>7, <2>1
  <2> QED
    BY <2>2, <2>3
<1>10. ASSUME NEW t \in DOMAIN docs, NEW u \in DOMAIN docs,
              NEW x \in TypesOf(docs, tables, o, t), NEW y \in TypesOf(docs, tables, o, u),
              x.name = y.name
       PROVE  t = u /\ x = y
  <2>1. <<t, x>> \in types /\ <<u, y>> \in types
    BY <1>4
  <2>2. <<t, x>>[2] = x /\ <<u, y>>[2] = y
    OBVIOUS
  <2>3. <<t, x>> = <<u, y>>
    BY <1>1, <1>10, <2>1, <2>2 DEF OwnedApart
  <2> QED
    BY <2>3
<1> QED
  BY <1>8, <1>9, <1>10 DEF built

\* Columns and keys have scalar types, which are none of the types of tables.
LEMMA ScalarKindIs ==
    ASSUME NEW type
    PROVE  ScalarKind(type) \in BuiltIn
  BY DEF ScalarKind, BuiltIn

\* The three types of tables differ from each other and from the scalars.
LEMMA TypesApart ==
    ASSUME NEW t, NEW u
    PROVE  /\ RecordType(t) \notin BuiltIn
           /\ RecordType(t) # PageType(u) /\ RecordType(t) # ObjectType(u)
           /\ PageType(t) # ObjectType(u)
<1>1. \A x, y, z : <<x, y>> # <<z>>
  <2> TAKE x, y, z
  <2>1. Len(<<x, y>>) = 2 /\ Len(<<z>>) = 1
    OBVIOUS
  <2> QED
    BY <2>1
<1>2. RecordType(t) \notin BuiltIn
  BY <1>1 DEF RecordType, BuiltIn
<1>3. RecordType(t)[2] = "Record" /\ PageType(t)[2] = "Page" /\ PageType(u)[2] = "Page"
      /\ ObjectType(u)[2] = "Object"
  BY DEF RecordType, PageType, ObjectType
<1> QED
  BY <1>2, <1>3

\* Every type that is mentioned is a scalar or there.
LEMMA BuiltIsClosed ==
    ASSUME NEW docs, NEW tables, NEW o, BuildSchema(docs, tables, o) # NameConflict
    PROVE  IsClosed(BuildSchema(docs, tables, o))
<1> PICK built : built = BuildSchema(docs, tables, o)
  OBVIOUS
<1>1. /\ \A type : type \in built.types <=>
             \E t \in DOMAIN docs : type \in TypesOf(docs, tables, o, t)
      /\ \A field : field \in built.roots <=>
             \E t \in DOMAIN docs : field \in RootFields(docs, tables, t)
  BY BuiltIs
<1> DEFINE names == {type.name : type \in built.types}
           Known(y) == y \in names \cup BuiltIn
<1>2. ASSUME NEW t \in DOMAIN docs, NEW type \in TypesOf(docs, tables, o, t)
      PROVE  type.name \in names
  BY <1>1
<1>3. ASSUME NEW t, HasRecord(docs, tables, t)
      PROVE  RecordType(t) \in names /\ PageType(t) \in names
  <2> PICK rows, page :
          /\ rows = [name |-> RecordType(t), fields |-> RowFields(docs, tables, tables[t])]
          /\ page = [name |-> PageType(t),
                     fields |-> {Field(<<"data">>, "data", RecordType(t), TRUE, FALSE)}]
    OBVIOUS
  <2>1. /\ t \in DOMAIN docs
        /\ rows \in TypesOf(docs, tables, o, t) /\ page \in TypesOf(docs, tables, o, t)
    BY <1>3 DEF HasRecord, TypesOf
  <2>2. rows.name = RecordType(t) /\ page.name = PageType(t)
    OBVIOUS
  <2> HIDE DEF names
  <2> QED
    BY <1>2, <2>1, <2>2
<1>4. ASSUME NEW t \in DOMAIN docs, ~HasRecord(docs, tables, t), HasObject(docs, t)
      PROVE  ObjectType(t) \in names
  <2> PICK type, fields : type = [name |-> ObjectType(t), fields |-> fields]
                          /\ fields = ObjectFields(ObjectOf[t],
                                 IF t \in DeclaredNames(o) THEN o[t].columns ELSE <<>>)
    OBVIOUS
  <2>1. type \in TypesOf(docs, tables, o, t)
    BY <1>4 DEF TypesOf
  <2>2. type.name = ObjectType(t)
    OBVIOUS
  <2> HIDE DEF names
  <2> QED
    BY <1>2, <2>1, <2>2
<1> HIDE DEF names
<1>5. ASSUME NEW t \in DOMAIN docs, NEW field \in RootFields(docs, tables, t)
      PROVE  Known(field.type)
  <2>1. CASE HasRecord(docs, tables, t)
    <3>1. field.type \in {RecordType(t), PageType(t)}
      BY <2>1 DEF Field, RootFields
    <3> QED
      BY <1>3, <2>1, <3>1
  <2>2. CASE ~HasRecord(docs, tables, t)
    <3>1. field.type = IF HasObject(docs, t) THEN ObjectType(t) ELSE <<"JSON">>
      BY <2>2 DEF Field, RootFields
    <3> QED
      BY <1>4, <2>2, <3>1 DEF BuiltIn
  <2> QED
    BY <2>1, <2>2
<1>6. ASSUME NEW t \in DOMAIN docs, NEW type \in TypesOf(docs, tables, o, t),
             NEW field \in type.fields
      PROVE  Known(field.type)
  <2>1. CASE HasRecord(docs, tables, t)
    <3> PICK fields, data : /\ fields = RowFields(docs, tables, tables[t])
                            /\ data = {Field(<<"data">>, "data", RecordType(t), TRUE, FALSE)}
      OBVIOUS
    <3>0. type \in {[name |-> RecordType(t), fields |-> fields],
                    [name |-> PageType(t), fields |-> data]}
      BY <2>1 DEF TypesOf
    <3>1. type.fields = fields \/ type.fields = data
      <4>1. CASE type = [name |-> RecordType(t), fields |-> fields]
        BY <4>1
      <4>2. CASE type = [name |-> PageType(t), fields |-> data]
        BY <4>2
      <4> QED
        BY <3>0, <4>1, <4>2
    <3>2. CASE field = Field(<<"data">>, "data", RecordType(t), TRUE, FALSE)
      BY <1>3, <2>1, <3>2 DEF Field
    <3>3. CASE field \in fields
      <4>1. CASE field \in ColumnFields(tables[t])
        <5>1. PICK y : field.type = ScalarKind(y)
          BY <4>1 DEF Field, ColumnFields
        <5> QED
          BY <5>1, ScalarKindIs
      <4>2. CASE LeadsOn(docs, tables, field)
        BY <1>3, <4>2 DEF LeadsOn
      <4> QED
        BY <3>3, <4>1, <4>2, RowFieldsAre
    <3> QED
      BY <3>1, <3>2, <3>3
  <2>2. CASE ~HasRecord(docs, tables, t)
    <3>1. HasObject(docs, t)
      BY <2>2 DEF TypesOf
    <3> PICK columns : columns = IF t \in DeclaredNames(o) THEN o[t].columns ELSE <<>>
      OBVIOUS
    <3>2. type = [name |-> ObjectType(t), fields |-> ObjectFields(ObjectOf[t], columns)]
      BY <2>2, <3>1 DEF TypesOf
    <3>3. field \in ObjectFields(ObjectOf[t], columns)
      BY <3>2
    <3>4. PICK c \in DOMAIN ObjectOf[t] : field =
              IF c \in DOMAIN columns
              THEN Field(FieldName[c], c, ScalarKind(columns[c].type), FALSE, columns[c].nullable)
              ELSE Field(FieldName[c], c, JsonKind(ObjectOf[t][c]), FALSE, TRUE)
      BY <3>3 DEF ObjectFields
    <3>5. field.type \in {ScalarKind(columns[c].type), JsonKind(ObjectOf[t][c])}
      BY <3>4 DEF Field
    <3>6. JsonKind(ObjectOf[t][c]) \in BuiltIn
      <4>1. <<"JSON">> \in BuiltIn
        BY DEF BuiltIn
      <4> QED
        BY <4>1, ScalarKindIs DEF JsonKind
    <3> QED
      BY <3>5, <3>6, ScalarKindIs
  <2> QED
    BY <2>1, <2>2
<1>7. ASSUME NEW field \in built.roots \cup UNION {type.fields : type \in built.types}
      PROVE  Known(field.type)
  <2> HIDE DEF Known
  <2>1. CASE field \in built.roots
    BY <1>1, <1>5, <2>1
  <2>2. CASE field \notin built.roots
    <3>1. PICK type \in built.types : field \in type.fields
      BY <2>2
    <3> QED
      BY <1>1, <1>6, <3>1
  <2> QED
    BY <2>1, <2>2
<1> QED
  BY <1>7 DEF IsClosed, names

-----------------------------------------------------------------------------
(***************************************************************************)
(* Names in GraphQL.                                                       *)
(***************************************************************************)

\* A relation is named for its target, or for its target and the junction
\* table that it goes through, which no other relation of the table does.
LEMMA RelationsAreNamed ==
    ASSUME NEW tables, IsSchema(tables), Derived(tables), NEW t \in DOMAIN tables
    PROVE  LET relations == tables[t].manyToMany
           IN  /\ \A name \in DOMAIN relations :
                      /\ relations[name].target \in Table /\ relations[name].through \in Table
                      /\ \/ name = <<relations[name].target>>
                         \/ name = <<relations[name].target, relations[name].through>>
               /\ \A m, n \in DOMAIN relations :
                      relations[m].through = relations[n].through => m = n
<1> PICK r, relations : /\ r = [j \in Junctions(tables, t) |-> RelationThrough(tables, t, j)]
                        /\ relations = tables[t].manyToMany
  OBVIOUS
<1>1. /\ DOMAIN r = Junctions(tables, t) /\ DOMAIN r \subseteq Table
      /\ \A j \in DOMAIN r : r[j] = RelationThrough(tables, t, j)
  BY DEF Junctions, IsSchema
<1>2. relations = NamedRelations(r)
  BY DEF ManyToMany, Derived
<1>3. \A j \in DOMAIN r :
          (CHOOSE k \in DOMAIN r : RelationName(r, k) = RelationName(r, j)) = j
  BY <1>1, NamesDiffer
<1>4. /\ DOMAIN relations = {RelationName(r, j) : j \in DOMAIN r}
      /\ \A j \in DOMAIN r : relations[RelationName(r, j)] = r[j]
  <2>1. DOMAIN NamedRelations(r) = {RelationName(r, j) : j \in DOMAIN r}
    BY DEF NamedRelations
  <2>2. ASSUME NEW j \in DOMAIN r PROVE NamedRelations(r)[RelationName(r, j)] = r[j]
    <3>1. (CHOOSE k \in DOMAIN r : RelationName(r, k) = RelationName(r, j)) = j
      BY <1>3
    <3> QED
      BY <3>1 DEF NamedRelations
  <2> QED
    BY <1>2, <2>1, <2>2
<1>5. ASSUME NEW j \in DOMAIN r PROVE r[j].through = j /\ r[j].target \in Table
  <2>1. j \in DOMAIN tables /\ IsStrictJunction(tables, j, tables[j])
    BY <1>1, <1>5 DEF Junctions
  <2>2. PICK c \in DOMAIN tables[j].foreignKeys : tables[j].foreignKeys[c].table = t
    BY <1>1, <1>5 DEF Junctions, Range
  <2>3. PICK d : /\ c # d /\ DOMAIN tables[j].foreignKeys = {c, d}
                 /\ tables[j].foreignKeys[c].table # tables[j].foreignKeys[d].table
                 /\ tables[j].foreignKeys[d].table \in DOMAIN tables
    BY <2>1, JunctionEnds
  <2> PICK keys : keys = tables[j].foreignKeys
    OBVIOUS
  <2>4. RelationThrough(tables, keys[c].table, j) =
            [through |-> j, sourceColumn |-> c,
             sourceTargetColumn |-> keys[c].column, target |-> keys[d].table,
             targetColumn |-> keys[d].column, throughTargetColumn |-> d]
    BY <2>3, RelationIs
  <2>5. /\ RelationThrough(tables, t, j).through = j
        /\ RelationThrough(tables, t, j).target = keys[d].table
    BY <2>2, <2>4
  <2> QED
    BY <1>1, <1>5, <2>3, <2>5 DEF IsSchema
<1>6. ASSUME NEW name \in DOMAIN relations
      PROVE  \E j \in DOMAIN r : /\ name = RelationName(r, j) /\ relations[name] = r[j]
                                 /\ relations[name].through = j
                                 /\ relations[name].target \in Table
  BY <1>4, <1>5
<1>7. ASSUME NEW name \in DOMAIN relations
      PROVE  /\ relations[name].target \in Table /\ relations[name].through \in Table
             /\ \/ name = <<relations[name].target>>
                \/ name = <<relations[name].target, relations[name].through>>
  <2>1. PICK j \in DOMAIN r : /\ name = RelationName(r, j) /\ relations[name] = r[j]
                              /\ relations[name].through = j
                              /\ relations[name].target \in Table
    BY <1>6
  <2>2. RelationName(r, j) \in {<<r[j].target>>, <<r[j].target, j>>}
    BY DEF RelationName
  <2> QED
    BY <1>1, <2>1, <2>2
<1>8. \A m, n \in DOMAIN relations : relations[m].through = relations[n].through => m = n
  BY <1>6
<1> QED
  BY <1>7, <1>8

\* The names that a relation can have.
NamesOfRelation(relation) ==
    {NamesOf[relation.target].root, ViaName(relation.target, relation.through)}

\* The name that it tries first is one of them.
LEMMA ManyNameIs ==
    ASSUME NEW name, NEW relation,
           name = <<relation.target>> \/ name = <<relation.target, relation.through>>
    PROVE  ManyName(name) \in NamesOfRelation(relation)
<1> PICK a, b : a = relation.target /\ b = relation.through
  OBVIOUS
<1>1. CASE name = <<a>>
  <2>1. Len(name) = 1 /\ name[1] = a
    BY <1>1
  <2> QED
    BY <2>1 DEF ManyName, NamesOfRelation
<1>2. CASE name = <<a, b>>
  <2>1. Len(name) = 2 /\ name[1] = a /\ name[2] = b
    BY <1>2
  <2> QED
    BY <2>1 DEF ManyName, NamesOfRelation
<1> QED
  BY <1>1, <1>2

\* The names of columns and references differ, also from those of relations
\* that name their junction table.
LEMMA SingleNamesApart ==
    ASSUME NEW docs, NEW tables, NEW table, ColumnNamesApart(table)
    PROVE  /\ NamesApart(SingleFields(docs, tables, table))
           /\ \A f \in SingleFields(docs, tables, table) : \A t, u \in Table :
                  f.name # ViaName(t, u)
<1> DEFINE columns == ColumnFields(table)
           references == RelationFields(docs, tables, table)
<1>1. ASSUME NEW f \in columns
      PROVE  \E c \in DOMAIN table.columns :
                 f.name = FieldName[c] /\ f = Field(FieldName[c], c,
                     ScalarKind(table.columns[c].type), FALSE, table.columns[c].nullable)
  BY <1>1 DEF ColumnFields, Field
<1>2. ASSUME NEW f \in references
      PROVE  \E c \in DOMAIN table.foreignKeys :
                 f.name = RelationField(c) /\ f = Field(RelationField(c), c,
                     RecordType(table.foreignKeys[c].table), FALSE, TRUE)
  BY <1>2 DEF RelationFields, Field
<1> HIDE DEF columns, references
<1>3. ASSUME NEW f \in columns, NEW g \in columns, f.name = g.name PROVE f = g
  <2>1. PICK c \in DOMAIN table.columns :
            f.name = FieldName[c] /\ f = Field(FieldName[c], c,
                ScalarKind(table.columns[c].type), FALSE, table.columns[c].nullable)
    BY <1>1
  <2>2. PICK d \in DOMAIN table.columns :
            g.name = FieldName[d] /\ g = Field(FieldName[d], d,
                ScalarKind(table.columns[d].type), FALSE, table.columns[d].nullable)
    BY <1>1
  <2>3. c = d
    BY <1>3, <2>1, <2>2 DEF ColumnNamesApart, KeyNamesApart
  <2> QED
    BY <2>1, <2>2, <2>3
<1>4. ASSUME NEW f \in references, NEW g \in references, f.name = g.name PROVE f = g
  <2>1. PICK c \in DOMAIN table.foreignKeys :
            f.name = RelationField(c) /\ f = Field(RelationField(c), c,
                RecordType(table.foreignKeys[c].table), FALSE, TRUE)
    BY <1>2
  <2>2. PICK d \in DOMAIN table.foreignKeys :
            g.name = RelationField(d) /\ g = Field(RelationField(d), d,
                RecordType(table.foreignKeys[d].table), FALSE, TRUE)
    BY <1>2
  <2>3. c = d
    BY <1>4, <2>1, <2>2 DEF ColumnNamesApart
  <2> QED
    BY <2>1, <2>2, <2>3
<1>5. ASSUME NEW f \in columns, NEW g \in references PROVE f.name # g.name
  <2>1. PICK c \in DOMAIN table.columns : f.name = FieldName[c]
    BY <1>1
  <2>2. PICK d \in DOMAIN table.foreignKeys : g.name = RelationField(d)
    BY <1>2
  <2> QED
    BY <2>1, <2>2 DEF ColumnNamesApart
<1>6. \A f \in columns \cup references : \A t, u \in Table : f.name # ViaName(t, u)
  BY <1>1, <1>2 DEF ColumnNamesApart
<1>7. SingleFields(docs, tables, table) = columns \cup references
  BY DEF SingleFields, columns, references
<1> QED
  BY <1>3, <1>4, <1>5, <1>6, <1>7 DEF NamesApart

\* The name of a relation that has been added.
IsNamedFor(field, relations, m) ==
    \E k \in 1..m : /\ RelationOrder[k] \in DOMAIN relations
                    /\ field.name \in NamesOfRelation(relations[RelationOrder[k]])

\* Each relation finds a name of its own.
LEMMA RowNamesApart ==
    ASSUME TableNamesApart, NEW docs, NEW tables, IsSchema(tables), Derived(tables),
           NEW t \in DOMAIN tables, ColumnNamesApart(tables[t])
    PROVE  NamesApart(RowFields(docs, tables, tables[t]))
<1> PICK table, relations : table = tables[t] /\ relations = table.manyToMany
  OBVIOUS
<1>1. PICK n \in Nat : n = Len(RelationOrder)
  BY RelationOrderAssumption
<1>2. \A i, j \in 1..n : RelationOrder[i] = RelationOrder[j] => i = j
  <2>1. DOMAIN RelationOrder = 1..n
    BY <1>1, RelationOrderAssumption
  <2> QED
    BY <2>1, RelationOrderAssumption DEF IsInjective
<1>3. PICK g : AreFieldSteps(g, docs, tables, table)
  BY RowFieldSteps
<1>4. /\ \A name \in DOMAIN relations :
             /\ relations[name].target \in Table /\ relations[name].through \in Table
             /\ ManyName(name) \in NamesOfRelation(relations[name])
      /\ \A i, j \in DOMAIN relations :
             relations[i].through = relations[j].through => i = j
  BY RelationsAreNamed, ManyNameIs
<1> DEFINE single == SingleFields(docs, tables, table)
           Good(m) == /\ NamesApart(g[m])
                      /\ \A f \in g[m] : f \in single \/ IsNamedFor(f, relations, m)
           S == {m \in 0..n : Good(m)}
<1>5. /\ NamesApart(single)
      /\ \A f \in single : \A u, v \in Table : f.name # ViaName(u, v)
  BY SingleNamesApart
<1> HIDE DEF single
<1>6. ASSUME NEW m \in 0..n, m > 0 => m - 1 \in S PROVE m \in S
  <2>1. CASE m = 0
    BY <1>3, <1>5, <2>1 DEF AreFieldSteps, single
  <2>2. CASE m # 0
    <3>1. PICK l : l = m - 1 /\ l \in 0..n /\ m \in 1..n /\ l < m
      BY <2>2
    <3>2. Good(l)
      BY <1>6, <3>1
    <3>3. PICK name, before : name = RelationOrder[m] /\ before = g[l]
      OBVIOUS
    <3>4. g[m] = IF Leads(docs, tables, relations, name)
                 THEN AddMany(before, name, relations[name]) ELSE before
      BY <1>1, <1>3, <3>1, <3>3 DEF AreFieldSteps, NextFields
    <3>5. \A f : IsNamedFor(f, relations, l) => IsNamedFor(f, relations, m)
      BY <3>1 DEF IsNamedFor
    <3>6. CASE ~Leads(docs, tables, relations, name)
      BY <3>2, <3>3, <3>4, <3>5, <3>6
    <3>7. CASE Leads(docs, tables, relations, name)
      <4>1. PICK relation : relation = relations[name] /\ name \in DOMAIN relations
        BY <3>7 DEF Leads
      <4>2. PICK chosen, new :
                /\ chosen = IF IsTaken(before, ManyName(name))
                            THEN ViaName(relation.target, relation.through) ELSE ManyName(name)
                /\ new = Field(chosen, relation.through, RecordType(relation.target), TRUE, FALSE)
        OBVIOUS
      <4>3. g[m] = before \cup {new} /\ new.name = chosen
        BY <3>4, <3>7, <4>1, <4>2 DEF AddMany, Field
      <4>4. IsNamedFor(new, relations, m)
        <5>1. chosen \in NamesOfRelation(relation)
          BY <1>4, <4>1, <4>2 DEF NamesOfRelation
        <5> QED
          BY <3>1, <3>3, <4>1, <4>3, <5>1 DEF IsNamedFor
      <4>5. ASSUME NEW f \in before, f.name = chosen PROVE FALSE
        <5>1. chosen = ViaName(relation.target, relation.through)
          BY <4>2, <4>5 DEF IsTaken
        <5>2. relation.target \in Table /\ relation.through \in Table
          BY <1>4, <4>1
        <5>3. IsNamedFor(f, relations, l)
          BY <1>5, <3>2, <3>3, <4>5, <5>1, <5>2
        <5>4. PICK k \in 1..l : /\ RelationOrder[k] \in DOMAIN relations
                                /\ f.name \in NamesOfRelation(relations[RelationOrder[k]])
          BY <5>3 DEF IsNamedFor
        <5>5. PICK other : other = relations[RelationOrder[k]]
                           /\ other.target \in Table /\ other.through \in Table
          BY <1>4, <5>4
        <5>6. NamesOf[other.target].root # ViaName(relation.target, relation.through)
          BY <5>2, <5>5 DEF TableNamesApart
        <5>7. ViaName(other.target, other.through) = ViaName(relation.target, relation.through)
          BY <4>5, <5>1, <5>4, <5>5, <5>6 DEF NamesOfRelation
        <5>8. other.through = relation.through
          BY <5>2, <5>5, <5>7 DEF TableNamesApart
        <5>9. RelationOrder[k] = RelationOrder[m]
          BY <1>4, <3>3, <4>1, <5>4, <5>5, <5>8
        <5>10. k \in 1..n /\ k # m
          BY <3>1
        <5> QED
          BY <1>2, <3>1, <5>9, <5>10
      <4>6. NamesApart(g[m])
        <5>1. NamesApart(before)
          BY <3>2, <3>3
        <5> QED
          BY <4>3, <4>5, <5>1 DEF NamesApart
      <4>7. \A f \in g[m] : f \in single \/ IsNamedFor(f, relations, m)
        BY <3>2, <3>3, <3>5, <4>3, <4>4
      <4> QED
        BY <4>6, <4>7
    <3> QED
      BY <3>6, <3>7
  <2> QED
    BY <2>1, <2>2
<1> HIDE DEF S
<1>7. 0..n \subseteq S
  BY <1>6, UpwardInduction
<1>8. NamesApart(g[n])
  BY <1>7 DEF S
<1> QED
  BY <1>1, <1>3, <1>8 DEF AreFieldSteps

\* The types of a resource, and their names.
IsRecord(docs, tables, t, type) ==
    /\ HasRecord(docs, tables, t) /\ type.name = RecordType(t)
    /\ type = [name |-> RecordType(t), fields |-> RowFields(docs, tables, tables[t])]
IsPage(docs, tables, t, type) ==
    /\ HasRecord(docs, tables, t) /\ type.name = PageType(t)
    /\ type = [name |-> PageType(t),
                fields |-> {Field(<<"data">>, "data", RecordType(t), TRUE, FALSE)}]
IsObject(docs, tables, t, type) ==
    /\ ~HasRecord(docs, tables, t) /\ type.name = ObjectType(t)
    /\ \E columns : type = [name |-> ObjectType(t),
                            fields |-> ObjectFields(ObjectOf[t], columns)]

\* There are no others.
LEMMA TypesAre ==
    ASSUME NEW docs, NEW tables, NEW o, NEW t, NEW type \in TypesOf(docs, tables, o, t)
    PROVE  \/ IsRecord(docs, tables, t, type)
           \/ IsPage(docs, tables, t, type)
           \/ IsObject(docs, tables, t, type)
<1> PICK row, page : row = RowFields(docs, tables, tables[t])
                     /\ page = {Field(<<"data">>, "data", RecordType(t), TRUE, FALSE)}
  OBVIOUS
<1>1. CASE HasRecord(docs, tables, t)
  <2>1. type \in {[name |-> RecordType(t), fields |-> row], [name |-> PageType(t), fields |-> page]}
    BY <1>1 DEF TypesOf
  <2>2. CASE type = [name |-> RecordType(t), fields |-> row]
    BY <1>1, <2>2 DEF IsRecord
  <2>3. CASE type = [name |-> PageType(t), fields |-> page]
    BY <1>1, <2>3 DEF IsPage
  <2> QED
    BY <2>1, <2>2, <2>3
<1>2. CASE ~HasRecord(docs, tables, t)
  <2> PICK columns : columns = IF t \in DeclaredNames(o) THEN o[t].columns ELSE <<>>
    OBVIOUS
  <2>1. type = [name |-> ObjectType(t), fields |-> ObjectFields(ObjectOf[t], columns)]
    BY <1>2 DEF TypesOf
  <2> QED
    BY <1>2, <2>1 DEF IsObject
<1> QED
  BY <1>1, <1>2

\* Types are named for their tables, so no two types have one name.
LEMMA TypeNamesApart ==
    ASSUME TableNamesApart, NEW docs, NEW tables, NEW o, NEW t \in Table, NEW u \in Table,
           NEW x \in TypesOf(docs, tables, o, t), NEW y \in TypesOf(docs, tables, o, u),
           x.name = y.name
    PROVE  t = u /\ x = y
<1>1. \A v : v \in {t, u} =>
          RecordType(v)[1] = NamesOf[v].type /\ PageType(v)[1] = NamesOf[v].type
          /\ ObjectType(v)[1] = NamesOf[v].type
  BY DEF RecordType, PageType, ObjectType
<1>2. /\ x.name \in {RecordType(t), PageType(t), ObjectType(t)}
      /\ y.name \in {RecordType(u), PageType(u), ObjectType(u)}
  <2>1. ASSUME NEW v, NEW type,
               \/ IsRecord(docs, tables, v, type)
               \/ IsPage(docs, tables, v, type)
               \/ IsObject(docs, tables, v, type)
        PROVE  type.name \in {RecordType(v), PageType(v), ObjectType(v)}
    BY <2>1, Zenon DEF IsRecord, IsPage, IsObject
  <2> QED
    BY <2>1, TypesAre
<1>3. t = u
  <2>1. x.name[1] = NamesOf[t].type /\ y.name[1] = NamesOf[u].type
    BY <1>1, <1>2
  <2> QED
    BY <2>1 DEF TableNamesApart
<1>4. CASE HasRecord(docs, tables, t)
  <2>1. RecordType(t) # PageType(t)
    BY TypesApart
  <2> QED
    BY <1>3, <1>4, <2>1, TypesAre DEF IsRecord, IsPage, IsObject
<1>5. CASE ~HasRecord(docs, tables, t)
  <2>1. TypesOf(docs, tables, o, t) \subseteq
            {[name |-> ObjectType(t),
              fields |-> ObjectFields(ObjectOf[t],
                             IF t \in DeclaredNames(o) THEN o[t].columns ELSE <<>>)]}
    BY <1>5 DEF TypesOf
  <2> QED
    BY <1>3, <2>1
<1> QED
  BY <1>3, <1>4, <1>5

\* Root fields are named for their tables, too.
LEMMA RootNamesApart ==
    ASSUME TableNamesApart, NEW docs, NEW tables, NEW t \in Table, NEW u \in Table,
           NEW x \in RootFields(docs, tables, t), NEW y \in RootFields(docs, tables, u),
           x.name = y.name
    PROVE  t = u /\ x = y
<1>1. ASSUME NEW v \in Table, NEW f \in RootFields(docs, tables, v)
      PROVE  \E m \in {"root", "query", "byId"} : f.name = NamesOf[v][m]
  <2>1. f.name \in {NamesOf[v]["root"], NamesOf[v]["query"], NamesOf[v]["byId"]}
    <3>1. CASE HasRecord(docs, tables, v)
      BY <1>1, <3>1 DEF RootFields, Field
    <3>2. CASE ~HasRecord(docs, tables, v)
      BY <1>1, <3>2 DEF RootFields, Field
    <3> QED
      BY <3>1, <3>2
  <2> QED
    BY <2>1
<1>2. t = u
  BY <1>1 DEF TableNamesApart
<1>3. /\ NamesOf[t]["root"] # NamesOf[t]["query"]
      /\ NamesOf[t]["root"] # NamesOf[t]["byId"]
      /\ NamesOf[t]["query"] # NamesOf[t]["byId"]
  BY DEF TableNamesApart
<1>4. x = y
  <2>1. CASE HasRecord(docs, tables, t)
    <3>1. ASSUME NEW f \in RootFields(docs, tables, t)
          PROVE  \/ /\ f = Field(NamesOf[t].root, t, RecordType(t), TRUE, FALSE)
                    /\ f.name = NamesOf[t]["root"]
                 \/ /\ f = Field(NamesOf[t].query, t, PageType(t), FALSE, FALSE)
                    /\ f.name = NamesOf[t]["query"]
                 \/ /\ f = Field(NamesOf[t].byId, t, RecordType(t), FALSE, TRUE)
                    /\ f.name = NamesOf[t]["byId"]
      BY <2>1, <3>1 DEF RootFields, Field
    <3> QED
      BY <1>2, <1>3, <3>1
  <2>2. CASE ~HasRecord(docs, tables, t)
    BY <1>2, <2>2 DEF RootFields
  <2> QED
    BY <2>1, <2>2
<1> QED
  BY <1>2, <1>4

\* The keys of an object are named apart, whatever the overlay says of them.
LEMMA ObjectNamesApart ==
    ASSUME NEW object, KeyNamesApart(object), NEW columns
    PROVE  NamesApart(ObjectFields(object, columns))
<1> DEFINE F(c) == IF c \in DOMAIN columns
                   THEN Field(FieldName[c], c, ScalarKind(columns[c].type), FALSE,
                              columns[c].nullable)
                   ELSE Field(FieldName[c], c, JsonKind(object[c]), FALSE, TRUE)
<1>1. \A c : F(c).name = FieldName[c]
  BY DEF Field
<1>2. ObjectFields(object, columns) = {F(c) : c \in DOMAIN object}
  BY DEF ObjectFields
<1> HIDE DEF F
<1>3. ASSUME NEW f \in ObjectFields(object, columns), NEW g \in ObjectFields(object, columns),
             f.name = g.name
      PROVE  f = g
  <2>1. PICK c \in DOMAIN object : f = F(c)
    BY <1>2
  <2>2. PICK d \in DOMAIN object : g = F(d)
    BY <1>2
  <2>3. c = d
    BY <1>1, <1>3, <2>1, <2>2 DEF KeyNamesApart
  <2> QED
    BY <2>1, <2>2, <2>3
<1> QED
  BY <1>3 DEF NamesApart

\* No names coincide, and the schema is built.
LEMMA SchemaIsBuilt ==
    ASSUME TableNamesApart, NEW docs, NEW tables, NEW o,
           DOMAIN docs \subseteq Table, IsSchema(tables), Derived(tables),
           \A t \in DOMAIN tables : ColumnNamesApart(tables[t]),
           \A t \in DOMAIN docs : KeyNamesApart(ObjectOf[t])
    PROVE  BuildSchema(docs, tables, o) # NameConflict
<1> DEFINE types == UNION {{t} \X TypesOf(docs, tables, o, t) : t \in DOMAIN docs}
           roots == UNION {{t} \X RootFields(docs, tables, t) : t \in DOMAIN docs}
<1>1. \A p : p \in types => /\ p = <<p[1], p[2]>> /\ p[1] \in DOMAIN docs /\ p[1] \in Table
                            /\ p[2] \in TypesOf(docs, tables, o, p[1])
  OBVIOUS
<1>2. \A p : p \in roots => /\ p = <<p[1], p[2]>> /\ p[1] \in DOMAIN docs /\ p[1] \in Table
                            /\ p[2] \in RootFields(docs, tables, p[1])
  OBVIOUS
<1> HIDE DEF types, roots
<1>3. OwnedApart(types)
  <2> SUFFICES ASSUME NEW p \in types, NEW q \in types, p[2].name = q[2].name
               PROVE  p = q
    BY DEF OwnedApart
  <2>1. p[1] = q[1] /\ p[2] = q[2]
    BY <1>1, TypeNamesApart
  <2> QED
    BY <1>1, <2>1
<1>4. OwnedApart(roots)
  <2> SUFFICES ASSUME NEW p \in roots, NEW q \in roots, p[2].name = q[2].name
               PROVE  p = q
    BY DEF OwnedApart
  <2>1. p[1] = q[1] /\ p[2] = q[2]
    BY <1>2, RootNamesApart
  <2> QED
    BY <1>2, <2>1
<1>5. ASSUME NEW p \in types PROVE NamesApart(p[2].fields)
  <2> PICK t, type : t = p[1] /\ type = p[2]
    OBVIOUS
  <2>1. t \in DOMAIN docs /\ type \in TypesOf(docs, tables, o, t)
    BY <1>1, <1>5
  <2>2. CASE IsRecord(docs, tables, t, type)
    <3>1. t \in DOMAIN tables
      BY <2>2 DEF IsRecord, HasRecord
    <3>2. NamesApart(RowFields(docs, tables, tables[t]))
      BY <3>1, RowNamesApart
    <3> QED
      BY <2>2, <3>2 DEF IsRecord
  <2>3. CASE IsPage(docs, tables, t, type)
    BY <2>3 DEF IsPage, NamesApart
  <2>4. CASE IsObject(docs, tables, t, type)
    <3>1. PICK columns : type = [name |-> ObjectType(t),
                                 fields |-> ObjectFields(ObjectOf[t], columns)]
      BY <2>4 DEF IsObject
    <3>2. NamesApart(ObjectFields(ObjectOf[t], columns))
      BY <2>1, ObjectNamesApart
    <3> QED
      BY <3>1, <3>2
  <2> QED
    BY <2>1, <2>2, <2>3, <2>4, TypesAre
<1>6. BuildSchema(docs, tables, o) =
          [types |-> {owned[2] : owned \in types}, roots |-> {owned[2] : owned \in roots}]
  BY <1>3, <1>4, <1>5 DEF BuildSchema, types, roots
<1>7. DOMAIN BuildSchema(docs, tables, o) = {"types", "roots"}
  BY <1>6
<1>8. DOMAIN NameConflict = {"error"}
  BY DEF NameConflict
<1> QED
  BY <1>7, <1>8

\* Whatever the folder, the overlay and the requests: every type that a field
\* mentions is there, and the schema is built if the names of tables, columns,
\* references and keys can be told apart, since a relation whose name is taken
\* finds one of its own (build_schema, build_collection_object_fields).
THEOREM SchemasAreComplete == Spec => []GraphqlComplete
<1>1. Spec => []EffectiveInv
  BY EffectiveInit, EffectiveNext, PTL DEF Spec
<1>2. EffectiveInv => GraphqlComplete
  <2> SUFFICES ASSUME EffectiveInv PROVE GraphqlComplete
    OBVIOUS
  <2>1. GraphqlClosed
    BY BuiltIsClosed DEF GraphqlClosed
  <2>2. GraphqlBuilds
    BY SchemaIsBuilt DEF GraphqlBuilds, EffectiveInv, IsEffectiveSchema
  <2> QED
    BY <2>1, <2>2 DEF GraphqlComplete
<1> QED
  BY <1>1, <1>2, PTL

-----------------------------------------------------------------------------
(***************************************************************************)
(* Rows and the types of their fields.                                     *)
(***************************************************************************)

\* The types of fields differ from each other.
LEMMA ScalarsDiffer ==
    ASSUME NEW type
    PROVE  /\ ScalarKind(type) = <<"Int">> => type = "integer"
           /\ ScalarKind(type) = <<"Float">> => type = "float"
           /\ ScalarKind(type) = <<"Boolean">> => type = "boolean"
           /\ ScalarKind(type) \in BuiltIn
           /\ \A kind \in BuiltIn : kind = <<kind[1]>>
<1>1. ScalarKind(type)[1] =
          IF type = "integer" THEN "Int" ELSE IF type = "float" THEN "Float"
          ELSE IF type = "boolean" THEN "Boolean" ELSE IF type = "json" THEN "JSON"
          ELSE "String"
  BY DEF ScalarKind
<1>2. <<"Int">>[1] = "Int" /\ <<"Float">>[1] = "Float" /\ <<"Boolean">>[1] = "Boolean"
  OBVIOUS
<1>3. ScalarKind(type) \in BuiltIn
  BY DEF ScalarKind, BuiltIn
<1>4. \A kind \in BuiltIn : kind = <<kind[1]>>
  BY DEF BuiltIn
<1> QED
  BY <1>1, <1>2, <1>3, <1>4

\* The columns of the effective schema, where documents are current.
LEMMA MergedColumns ==
    ASSUME NEW o, IsOverlay(o), NEW i, IsSchema(i), MergeSchemas(o, i) # MergeError,
           NEW t \in DOMAIN MergeSchemas(o, i)
    PROVE  MergeSchemas(o, i)[t].columns =
               IF t \in DOMAIN o THEN Over(o[t].columns, Base(i, t).columns)
               ELSE Base(i, t).columns
<1> DEFINE v == Overlaid(o, i)
           w == WithReferences(o, v)
           m == DeriveManyToMany(w)
<1>1. /\ IsSchema(v)
      /\ \A u \in DOMAIN v \cap DOMAIN o :
             v[u].columns = Over(o[u].columns, Base(i, u).columns)
      /\ \A u \in DOMAIN v \ DOMAIN o : v[u].columns = Base(i, u).columns
  <2>1. IsOverlaid(v, o, i)
    BY OverlaidIs
  <2> HIDE DEF v
  <2> QED
    BY <2>1 DEF IsOverlaid
<1>2. MergeSchemas(o, i) = m
  BY DEF MergeSchemas
<1> HIDE DEF v
<1>3. /\ IsSchema(w) /\ DOMAIN w = DOMAIN v
      /\ \A u \in DOMAIN v : w[u].columns = v[u].columns
  BY <1>1, WithReferencesIs
<1> HIDE DEF w
<1>4. DOMAIN m = DOMAIN w /\ \A u \in DOMAIN w : m[u].columns = w[u].columns
  BY <1>3, DeriveKeeps DEF IsSchema
<1> QED
  BY <1>1, <1>2, <1>3, <1>4

\* What a type asks of a value that is not null.
FitsKind(v, type) ==
    /\ type = "integer" => v.kind = "integer"
    /\ type = "float" => IsNumber(v)
    /\ type = "boolean" => v.kind = "bool"

\* The types of text.
IsText(type) == type \in {"string", "date", "datetime", "uuid"}

\* A value that a declared type admits is of its kind.
LEMMA MatchingFits ==
    ASSUME NEW v, NEW type, MatchesType(v, type), v.kind # "null"
    PROVE  FitsKind(v, type) /\ (IsText(type) => v.kind = "string")
<1>1. CASE type = "integer"
  BY <1>1 DEF MatchesType, FitsKind, IsText
<1>2. CASE type = "float"
  BY <1>2 DEF MatchesType, FitsKind, IsText
<1>3. CASE type = "boolean"
  BY <1>3 DEF MatchesType, FitsKind, IsText
<1>4. CASE IsText(type)
  BY <1>4 DEF MatchesType, FitsKind, IsText
<1> QED
  BY <1>1, <1>2, <1>3, <1>4 DEF FitsKind

\* A value is of the kind that is inferred for its column.
LEMMA InferredFits ==
    ASSUME NEW rows, IsArray(rows), NEW column, NEW i \in RowsWith(rows, column),
           rows[i][column].kind # "null"
    PROVE  FitsKind(rows[i][column], InferColumnType(rows, column))
<1> DEFINE first == FirstValue(rows, column)
           v == rows[i][column]
           start == IF first.kind = "null" THEN "string" ELSE InferJson(first)
           types == {InferJson(rows[j][column]) :
                        j \in {j \in RowsWith(rows, column) : rows[j][column].kind # "null"}}
<1>1. InferColumnType(rows, column) =
          IF types \subseteq {start} THEN start
          ELSE IF "json" \in types \cup {start} THEN "json" ELSE "string"
  BY DEF InferColumnType
<1>2. InferJson(v) \in types
  OBVIOUS
<1> HIDE DEF types, start, v
<1>3. ASSUME NEW x, x.kind \in Kind PROVE FitsKind(x, InferJson(x))
  BY <1>3 DEF InferJson, FitsKind, IsNumber, Kind
<1>4. v.kind \in Kind /\ v = rows[i][column]
  BY DEF v, RowsWith, Has, IsArray, IsRow, IsValue
<1>5. CASE types \subseteq {start}
  <2>1. InferColumnType(rows, column) = InferJson(v)
    BY <1>1, <1>2, <1>5
  <2> QED
    BY <1>3, <1>4, <2>1
<1>6. CASE ~(types \subseteq {start})
  BY <1>1, <1>6 DEF FitsKind
<1> QED
  BY <1>5, <1>6

\* Each column of the effective schema allows for the values of a document
\* that the overlay admits.
AllowsFor(column, row, c, strings) ==
    IF ~Has(row, c) \/ row[c].kind = "null" THEN column.nullable
    ELSE /\ FitsKind(row[c], column.type)
         /\ strings /\ IsText(column.type) => row[c].kind = "string"

\* This is so for inferred and for declared columns.
LEMMA ColumnsFit ==
    ASSUME NEW o, IsOverlay(o), NEW docs, NEW t \in DOMAIN docs, NEW rows, rows = docs[t],
           rows # NoTable, IsArray(rows), IsSchema(InferSchema(docs)), Admits(o, t, rows),
           NEW tables, tables = MergeSchemas(o, InferSchema(docs)), tables # MergeError,
           t \in DOMAIN tables,
           NEW c \in DOMAIN tables[t].columns, NEW row \in Range(rows),
           NEW declared, declared = IF t \in DOMAIN o THEN DOMAIN o[t].columns ELSE {},
           NEW strings, strings => c \in declared \/ IsUniformColumn(rows, c)
    PROVE  AllowsFor(tables[t].columns[c], row, c, strings)
<1> PICK inferredTables : inferredTables = InferSchema(docs)
  OBVIOUS
<1>1. t \in DOMAIN inferredTables /\ inferredTables[t].columns = InferColumns(rows)
  <2>1. /\ t \in DOMAIN inferredTables
        /\ inferredTables[t].columns = InferTable(t, rows).columns
    BY InferredSchema
  <2> QED
    BY <2>1 DEF InferTable
<1>2. tables[t].columns = IF t \in DOMAIN o THEN Over(o[t].columns, InferColumns(rows))
                          ELSE InferColumns(rows)
  BY <1>1, MergedColumns DEF Base
<1> PICK said, found : found = InferColumns(rows)
                     /\ (t \in DOMAIN o => said = o[t].columns)
  OBVIOUS
<1>3. CASE t \in DOMAIN o /\ c \in DOMAIN o[t].columns
  <2>1. tables[t].columns[c] = o[t].columns[c]
    <3>1. tables[t].columns = Over(said, found) /\ c \in DOMAIN said
      BY <1>2, <1>3
    <3>2. Over(said, found)[c] = said[c]
      BY <3>1 DEF Over
    <3> QED
      BY <1>3, <3>1, <3>2
  <2>2. AdmitsRow(o[t], row)
    BY <1>3 DEF Admits, AdmitsRows, DeclaredNames
  <2> PICK column : column = o[t].columns[c]
    OBVIOUS
  <2>3. IF Has(row, c)
        THEN /\ row[c].kind = "null" => column.nullable
             /\ MatchesType(row[c], column.type)
        ELSE column.nullable
    BY <1>3, <2>2 DEF AdmitsRow
  <2> QED
    BY <2>1, <2>3, MatchingFits DEF AllowsFor
<1>4. CASE ~(t \in DOMAIN o /\ c \in DOMAIN o[t].columns)
  <2>1. c \in DOMAIN InferColumns(rows) /\ tables[t].columns[c] = InferColumns(rows)[c]
    <3>1. CASE t \in DOMAIN o
      <4>1. tables[t].columns = Over(said, found) /\ c \notin DOMAIN said
        BY <1>2, <1>4, <3>1
      <4>2. c \in DOMAIN found
        BY <4>1 DEF Over
      <4>3. Over(said, found)[c] = found[c]
        BY <4>1, <4>2 DEF Over
      <4> QED
        BY <4>1, <4>2, <4>3
    <3>2. CASE t \notin DOMAIN o
      BY <1>2, <3>2
    <3> QED
      BY <3>1, <3>2
  <2>2. /\ tables[t].columns[c].type = InferColumnType(rows, c)
        /\ tables[t].columns[c].nullable =
               \E r \in Range(rows) : Has(r, c) => r[c].kind = "null"
    <3>1. /\ InferColumns(rows)[c].type = InferColumnType(rows, c)
          /\ InferColumns(rows)[c].nullable =
                 \E r \in Range(rows) : Has(r, c) => r[c].kind = "null"
      BY <2>1 DEF InferColumns
    <3> QED
      BY <2>1, <3>1
  <2>3. PICK i \in DOMAIN rows : row = rows[i]
    BY DEF Range
  <2>4. Has(row, c) => i \in RowsWith(rows, c)
    BY <2>3 DEF RowsWith
  <2>5. Has(row, c) /\ row[c].kind # "null" => FitsKind(row[c], InferColumnType(rows, c))
    BY <2>3, <2>4, InferredFits
  <2>6. ASSUME Has(row, c), row[c].kind # "null", strings, IsText(tables[t].columns[c].type)
        PROVE  row[c].kind = "string"
    <3>1. IsUniformColumn(rows, c)
      BY <1>4, <2>6
    <3>2. MatchesType(row[c], InferColumnType(rows, c))
      BY <2>3, <2>4, <2>6, <3>1, UniformMatches
    <3> QED
      BY <2>2, <2>6, <3>2, MatchingFits
  <2> QED
    BY <2>2, <2>5, <2>6 DEF AllowsFor
<1> QED
  BY <1>3, <1>4

\* Only the row type of a table has its name, and its scalars are its columns.
LEMMA RowTypeIs ==
    ASSUME NEW docs, NEW tables, NEW o, BuildSchema(docs, tables, o) # NameConflict,
           NEW t \in DOMAIN docs, HasRecord(docs, tables, t),
           NEW type \in BuildSchema(docs, tables, o).types, type.name = RecordType(t),
           NEW field \in type.fields, field.type \in BuiltIn
    PROVE  field \in ColumnFields(tables[t])
<1> PICK rows : rows = [name |-> RecordType(t), fields |-> RowFields(docs, tables, tables[t])]
  OBVIOUS
<1>1. rows \in TypesOf(docs, tables, o, t)
  BY DEF TypesOf
<1>2. type = rows
  BY <1>1, BuiltIs
<1>3. field \in RowFields(docs, tables, tables[t])
  BY <1>2
<1>4. ~LeadsOn(docs, tables, field)
  BY TypesApart DEF LeadsOn
<1> QED
  BY <1>3, <1>4, RowFieldsAre

\* A document that the overlay admits can be answered with: numbers and truth
\* values where its type says so, strings in a String field whose column is
\* declared as text of some kind or inferred from values of one type, and null
\* only where it may be (scalar_kind_from_column and the nullable columns of
\* infer_columns and of the overlay, against validate_resource_snapshot).
THEOREM RowsAlwaysFit == Spec => []GraphqlRowsFit
<1>1. Spec => []EffectiveInv
  BY EffectiveInit, EffectiveNext, PTL DEF Spec
<1>2. Spec => []DocumentsInv
  BY DocumentsInit, DocumentsNext, PTL DEF Spec
<1>3. EffectiveInv /\ DocumentsInv => GraphqlRowsFit
  <2> SUFFICES ASSUME EffectiveInv, DocumentsInv, IsCurrent,
                      BuildSchema(documents, merged, overlay) # NameConflict,
                      NEW t \in DOMAIN documents, HasRecord(documents, merged, t),
                      documents[t] # NoTable, Admits(overlay, t, documents[t])
               PROVE  RowsFit(BuildSchema(documents, merged, overlay), merged[t],
                              DeclaredColumns(t), t, documents[t])
    BY DEF GraphqlRowsFit
  <2> PICK rows, tables, declared :
          rows = documents[t] /\ tables = merged /\ declared = DeclaredColumns(t)
    OBVIOUS
  <2>1. /\ rows # NoTable /\ IsArray(rows) /\ t \in DOMAIN tables
        /\ IsOverlay(overlay)
        /\ inferred = InferSchema(documents)
        /\ tables = MergeSchemas(overlay, InferSchema(documents)) /\ tables # MergeError
    BY DEF HasRecord, DocumentsInv, IsDocument, EffectiveInv, IsCurrent, Inference,
           IncrementalInference
  <2>2. IsSchema(InferSchema(documents))
    BY <2>1, InferredIsSchema DEF EffectiveInv
  <2>3. ASSUME NEW c \in DOMAIN tables[t].columns, NEW row \in Range(rows),
               NEW strings, strings => c \in declared \/ IsUniformColumn(rows, c)
        PROVE  AllowsFor(tables[t].columns[c], row, c, strings)
    BY <2>1, <2>2, <2>3, ColumnsFit DEF DeclaredColumns, DeclaredNames
  <2> SUFFICES ASSUME NEW type \in BuildSchema(documents, merged, overlay).types,
                      type.name = RecordType(t),
                      NEW field \in type.fields, field.type \in BuiltIn,
                      NEW row \in Range(rows)
               PROVE  FitsField(row, field,
                                HoldsStrings(merged[t], DeclaredColumns(t), documents[t],
                                             field.key))
    BY DEF RowsFit
  <2>4. field \in ColumnFields(tables[t])
    BY RowTypeIs
  <2>5. PICK c \in DOMAIN tables[t].columns :
            field = Field(FieldName[c], c, ScalarKind(tables[t].columns[c].type), FALSE,
                          tables[t].columns[c].nullable)
    BY <2>4 DEF ColumnFields
  <2> PICK column : column = tables[t].columns[c]
    OBVIOUS
  <2>6. /\ field.key = c /\ field.type = ScalarKind(column.type)
        /\ field.nullable = column.nullable
    BY <2>5 DEF Field
  <2> PICK strings : strings = (c \in declared \/ IsUniformColumn(rows, c))
    OBVIOUS
  <2>7. AllowsFor(column, row, c, strings)
    BY <2>3
  <2>8. HoldsStrings(merged[t], DeclaredColumns(t), documents[t], field.key)
            => strings /\ IsText(column.type)
    BY <2>6 DEF HoldsStrings, IsText
  <2>9. field.type \in {<<"Int">>, <<"Float">>, <<"Boolean">>, <<"String">>, <<"JSON">>}
    BY DEF BuiltIn
  <2> QED
    BY <2>6, <2>7, <2>8, <2>9, ScalarsDiffer DEF AllowsFor, FitsField, FitsKind
<1> QED
  BY <1>1, <1>2, <1>3, PTL
=============================================================================
