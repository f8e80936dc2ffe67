-------------------------------- MODULE Joins --------------------------------
(***************************************************************************)
(* How rows of different resources find each other: SQL joins, embedding   *)
(* in REST responses, and the relations of GraphQL.  All of them compare   *)
(* the texts of key values.                                                *)
(***************************************************************************)
EXTENDS Queries

CONSTANTS
    References,  \* [table -> [column -> [table, column]]], the foreign keys
    Types        \* [table -> [path -> column type]], the effective schema

\* The text under which a value is looked up, for null "null".
LookupKey(v) == v.text

-----------------------------------------------------------------------------
\* SQL.  A query has a resource and its alias, joins, conditions, sort columns
\* and a window.  A column reference is <<column>> or <<alias, column>>.

\* A row with another one nested under a name, which replaces what is there.
Nest(row, name, object) ==
    Over([p \in {<<name>> \o q : q \in DOMAIN object} |-> object[Tail(p)]],
         [p \in {p \in DOMAIN row : Head(p) # name} |-> row[p]])

\* Mutant: the row is found under the name of its resource only.
BaseRowWithoutAlias(resource, alias, object) == Nest(object, resource, object)

BaseRow(resource, alias, object) ==
    LET root == Nest(object, resource, object)
    IN  IF alias = resource THEN root ELSE Nest(root, alias, object)

\* The sides of JOIN ... ON a = b, each an <<alias, column>>, in either order.
ExistingSide(join) == IF join.on[1][1] = join.alias THEN join.on[2] ELSE join.on[1]
JoinedSide(join) == IF join.on[2][1] = join.alias THEN join.on[2] ELSE join.on[1]

\* validate_join_relation: a foreign key in either direction backs the join.
Refers(source, column, target, key) ==
    /\ column \in DOMAIN References[source]
    /\ References[source][column] = [table |-> target, column |-> key]
IsBacked(left, leftColumn, right, rightColumn) ==
    \/ Refers(left, leftColumn, right, rightColumn)
    \/ Refers(right, rightColumn, left, leftColumn)

\* The resource behind an alias; no two tables of a query share one.
AliasedTable(query, alias) ==
    IF alias = query.alias THEN query.table
    ELSE query.joins[SelectInSeq(query.joins, LAMBDA join : join.alias = alias)].resource

\* parse_sql_joins: new aliases, joined to known ones along foreign keys.
AreValidJoins(query) ==
    \A i \in DOMAIN query.joins :
        LET join == query.joins[i]
            known == {query.alias} \cup {query.joins[k].alias : k \in 1..i - 1}
            left == ExistingSide(join)
        IN  /\ join.alias \notin known
            /\ JoinedSide(join)[1] = join.alias
            /\ left[1] \in known
            /\ IsBacked(AliasedTable(query, left[1]), left[2], join.resource, JoinedSide(join)[2])

\* Mutant: one row per key, as in the lookup of an embedding.
MatchesLast(rows, column, key) ==
    LET last == SelectLastInSeq(rows, LAMBDA row :
                    Has(row, <<column>>) /\ LookupKey(row[<<column>>]) = key)
    IN  IF last = 0 THEN <<>> ELSE <<rows[last]>>

MatchingRows(rows, column, key) ==
    RowsAt(rows, {i \in DOMAIN rows :
        Has(rows[i], <<column>>) /\ LookupKey(rows[i][<<column>>]) = key})

JoinRows(rows, join, targets) ==
    LET extended(row) ==
            LET left == ExistingSide(join)
                matches == IF Has(row, left)
                           THEN MatchingRows(targets, JoinedSide(join)[2], LookupKey(row[left]))
                           ELSE <<>>
            IN  [i \in DOMAIN matches |-> Nest(row, join.alias, matches[i])]
    IN  FlattenSeq([i \in DOMAIN rows |-> extended(rows[i])])

Materialize(tables, query) ==
    LET base == [i \in DOMAIN tables[query.table] |->
                    BaseRow(query.table, query.alias, tables[query.table][i])]
        joined[i \in 0..Len(query.joins)] ==
            IF i = 0 THEN base
            ELSE JoinRows(joined[i - 1], query.joins[i], tables[query.joins[i].resource])
    IN  joined[Len(query.joins)]

\* The names that resolve_sql_field_target knows: alias and resource of each
\* table; a join overrides what was known under the same name.
TargetOf(query, path) ==
    LET last == SelectLastInSeq(query.joins, LAMBDA join :
                    path[1] \in {join.alias, join.resource})
    IN  IF Len(path) = 1 THEN query.table
        ELSE IF last # 0 THEN query.joins[last].resource
        ELSE IF path[1] \in {query.alias, query.table} THEN query.table ELSE NoType

\* validate_sql_field
IsValidField(query, path) ==
    LET target == TargetOf(query, path)
    IN  /\ target # NoType
        /\ target \in DOMAIN Types /\ DOMAIN Types[target] # {} =>
               <<path[Len(path)]>> \in DOMAIN Types[target]

\* LIKE 'x', 'x%', '%x' and '%x%'
LikeOperator(leading, trailing) ==
    IF leading THEN IF trailing THEN "contains" ELSE "endsWith"
    ELSE IF trailing THEN "startsWith" ELSE "eq"

\* The conditions that a predicate of a WHERE clause stands for.
ConditionsOf(predicate) ==
    CASE predicate.op = "between" ->
            <<Condition(predicate.path, "gte", predicate.low, {}),
              Condition(predicate.path, "lte", predicate.high, {})>>
      [] predicate.op = "like" ->
            <<Condition(predicate.path, LikeOperator(predicate.leading, predicate.trailing),
                        predicate.value, {})>>
      [] OTHER -> <<predicate>>

SqlSelection(tables, query) ==
    LET conditions == FlattenSeq([i \in DOMAIN query.where |-> ConditionsOf(query.where[i])])
    IN  SortRows(FilterRows(Materialize(tables, query), conditions, <<>>), query.sort)

SqlWindow(rows, offset, limit) ==
    SubSeq(rows, offset + 1, IF offset + limit < Len(rows) THEN offset + limit ELSE Len(rows))

-----------------------------------------------------------------------------
\* Embedding and GraphQL relations

NoRow == <<>>  \* null in place of a row

\* Mutant: the key is looked for in the column of the same name.
EmbedByOwnColumn(tables, row, column, fk) ==
    LET hit == SelectLastInSeq(tables[fk.table], LAMBDA target :
                   Has(target, <<column>>) /\ LookupKey(target[<<column>>]) = LookupKey(row[<<column>>]))
    IN  IF hit = 0 THEN NoRow ELSE tables[fk.table][hit]

\* The row that embedding puts in place of a foreign key, the last that has it.
EmbeddedRow(tables, row, column, fk) ==
    LET key == Field(row, <<column>>)
        hit == SelectLastInSeq(tables[fk.table], LAMBDA target :
                   Has(target, <<fk.column>>)
                   /\ LookupKey(target[<<fk.column>>]) = LookupKey(key))
    IN  IF key.kind \in {"null", "json"} \/ hit = 0 THEN NoRow ELSE tables[fk.table][hit]

\* Mutant: the two foreign keys of the junction table are swapped.
RelatedRowsSwapped(tables, row, through, from, to) ==
    LET links == {link \in Range(tables[through]) :
                    LookupKey(link[<<to.column>>]) = LookupKey(row[<<from.key>>])}
        keys == {LookupKey(link[<<from.column>>]) : link \in links}
    IN  SelectSeq(tables[to.table], LAMBDA target : LookupKey(target[<<to.key>>]) \in keys)

\* resolve_graphql_many_to_many_rows; `from` and `to` are the columns of the
\* junction table and the keys that they refer to.
RelatedRows(tables, row, through, from, to) ==
    LET scalar(r, path) == Has(r, path) /\ IsScalar(r[path])
        links == {link \in Range(tables[through]) :
                    /\ scalar(row, <<from.key>>) /\ scalar(link, <<from.column>>)
                    /\ LookupKey(link[<<from.column>>]) = LookupKey(row[<<from.key>>])
                    /\ scalar(link, <<to.column>>)}
        keys == {LookupKey(link[<<to.column>>]) : link \in links}
        targets == tables[to.table]
    IN  RowsAt(targets, {i \in DOMAIN targets :
            scalar(targets[i], <<to.key>>) /\ LookupKey(targets[i][<<to.key>>]) \in keys})
=============================================================================
