---------------------------- MODULE QuerySessions ----------------------------
(***************************************************************************)
(* A client reads an array page by page, through REST, GraphQL or SQL,     *)
(* while another client appends rows to it.  A query has                   *)
(*   via, table, alias, joins, where, sort, limit, offset;                 *)
(* limit is the size of a page, offset where an SQL client starts.         *)
(***************************************************************************)
EXTENDS Joins

CONSTANTS
    Folders,          \* the documents at the start
    Requests,         \* the queries
    PostTable,        \* the resource that another client adds rows to
    NewRows,          \* the rows it adds, in order
    MaxPerPage, MaxScanRows, MaxSelectedRows,  \* AppConfig
    ProbePaths,       \* the columns that the properties look at
    ProbeTexts        \* the operands that the properties try

VARIABLES
    tables,    \* [table -> rows]
    query,     \* the query of the client
    cursor,    \* the page, or the offset, that it asks for next
    received,  \* the rows it has
    status,    \* "walking", "done" or "rejected"
    posted     \* the rows added so far

vars == <<tables, query, cursor, received, status, posted>>

ASSUME LimitsAssumption ==
    MaxPerPage \in Nat /\ MaxScanRows \in Nat /\ MaxSelectedRows \in Nat

\* Values as serde_json prints them; a number begins with a digit or a sign.
IsPrinted(v) ==
    /\ IsValue(v) /\ v.text \in DOMAIN TextRank
    /\ v.kind = "null" => v.text = "null"
    /\ v.kind = "bool" => v.text \in {"false", "true"}
    /\ IsNumber(v) => v.text \in DOMAIN NumberRank /\ TextRank[v.text] < TextRank["null"]
IsList(s) == IsFunction(s) /\ Len(s) \in Nat /\ DOMAIN s = 1..Len(s)
IsPath(path) == IsList(path) /\ Len(path) > 0
IsTable(rows) ==
    /\ IsArray(rows)
    /\ \A i \in DOMAIN rows : \A path \in DOMAIN rows[i] :
           IsPath(path) /\ IsPrinted(rows[i][path])

ASSUME RowsAssumption ==
    /\ \A folder \in Folders :
           /\ IsFunction(folder) /\ PostTable \in DOMAIN folder
           /\ \A t \in DOMAIN folder : IsTable(folder[t])
    /\ IsTable(NewRows)

\* The other client leaves ids to the server, which gives the next number
\* (next_numeric_id).
Id == <<"id">>
HasSmallerId(row, new) ==
    /\ Has(row, Id) /\ Has(new, Id) /\ IsNumber(row[Id]) /\ IsNumber(new[Id])
    /\ NumberRank[row[Id].text] < NumberRank[new[Id].text]
ASSUME PostsAssumption ==
    \A i \in DOMAIN NewRows :
        /\ \A folder \in Folders : \A row \in Range(folder[PostTable]) :
               HasSmallerId(row, NewRows[i])
        /\ \A k \in 1..i - 1 : HasSmallerId(NewRows[k], NewRows[i])

\* The tables that foreign keys refer to are there (SchemaServer!ReferencesResolve).
ASSUME ReferencesAssumption ==
    \A folder \in Folders : \A t \in DOMAIN folder : \A c \in DOMAIN References[t] :
        References[t][c].table \in DOMAIN folder

\* A page has at least one row (parse_positive_usize); LIMIT may be 0.  Joins
\* compare qualified columns (parse_sql_qualified_column_expr).
ASSUME RequestsAssumption ==
    \A q \in Requests :
        /\ IsList(q.joins) /\ IsList(q.sort)
        /\ q.limit \in Nat /\ q.offset \in Nat /\ (q.via # "sql" => q.limit > 0)
        /\ \A join \in Range(q.joins) : \A side \in {1, 2} :
               join.on[side] = <<join.on[side][1], join.on[side][2]>>
        /\ \A folder \in Folders :
               {q.table} \cup {join.resource : join \in Range(q.joins)} \subseteq DOMAIN folder

Init ==
    /\ tables \in Folders
    /\ query \in Requests
    /\ cursor = IF query.via = "sql" THEN query.offset ELSE 1
    /\ received = <<>>
    /\ status = "walking"
    /\ posted = 0

\* The columns that filters are told of.
FilterTypes(q) == IF q.via = "graphql" THEN Types[q.table] ELSE <<>>

Selection(q) ==
    IF q.via = "sql" THEN SqlSelection(tables, q)
    ELSE SortRows(FilterRows(tables[q.table], q.where, FilterTypes(q)), q.sort)

\* What parse_sql_query and the scan guard accept.
IsAccepted(q) ==
    IF q.via = "sql"
    THEN /\ AreValidJoins(q)
         /\ \A column \in Range(q.sort) : IsValidField(q, column.path)
         /\ \A predicate \in Range(q.where) : IsValidField(q, predicate.path)
         /\ q.limit <= MaxSelectedRows
         /\ Len(Materialize(tables, q)) <= MaxScanRows
    ELSE q.limit <= MaxPerPage

-----------------------------------------------------------------------------
\* get_collection and the collection fields of GraphQL, followed through `next`.
FetchPage ==
    LET selected == Selection(query)
        next == Window(Len(selected), cursor, query.limit).next
    IN  /\ status = "walking" /\ query.via # "sql"
        /\ IsAccepted(query)
        /\ received' = received \o PageRows(selected, cursor, query.limit)
        /\ IF next = 0 THEN status' = "done" /\ UNCHANGED cursor
           ELSE cursor' = next /\ UNCHANGED status
        /\ UNCHANGED <<tables, query, posted>>

\* run_sql_query, with offsets that go on by the rows received.
FetchRows ==
    LET rows == SqlWindow(Selection(query), cursor, query.limit)
    IN  /\ status = "walking" /\ query.via = "sql"
        /\ IsAccepted(query)
        /\ received' = received \o rows
        /\ cursor' = cursor + Len(rows)
        /\ status' = IF Len(rows) < query.limit THEN "done" ELSE status
        /\ UNCHANGED <<tables, query, posted>>

Reject ==
    /\ status = "walking"
    /\ ~IsAccepted(query)
    /\ status' = "rejected"
    /\ UNCHANGED <<tables, query, cursor, received, posted>>

\* create_item
Post ==
    /\ status = "walking"
    /\ posted < Len(NewRows)
    /\ tables' = [tables EXCEPT ![PostTable] = Append(@, NewRows[posted + 1])]
    /\ posted' = posted + 1
    /\ UNCHANGED <<query, cursor, received, status>>

Next == FetchPage \/ FetchRows \/ Reject \/ Post

Spec == Init /\ [][Next]_vars

-----------------------------------------------------------------------------
\* Properties

\* Rows added by others go to the end of the selection.
IsAppendStable(q) ==
    q.joins = <<>> /\ q.sort \in {<<>>, <<SortColumn(Id, FALSE)>>}

\* Following `next`, or going on by the rows received, a client gets each row
\* of its selection once, in order, and the last page is the end of it
\* (pagination_window, LIMIT/OFFSET), even if rows are added meanwhile.
WalkVisitsOnce ==
    status # "rejected" /\ (posted = 0 \/ IsAppendStable(query)) =>
        LET start == IF query.via = "sql" THEN query.offset ELSE 0
            selected == Selection(query)
        IN  /\ received = SubSeq(selected, start + 1, start + Len(received))
            /\ status = "done" => start + Len(received) >= Len(selected)

\* The values of a column, null aside, are all numbers, all strings or all booleans.
KindsAt(rows, path) ==
    {IF IsNumber(row[path]) THEN "number" ELSE row[path].kind :
        row \in {row \in Range(rows) : Has(row, path) /\ row[path].kind # "null"}}

\* sort_by needs a total preorder: the comparison is one on each column whose
\* values have one kind, null or no value included (compare_json_values).
HasOneKind(rows, path) == \A k, l \in KindsAt(rows, path) : k = l
OrderIsTotal ==
    \A t \in DOMAIN tables : \A path \in ProbePaths :
        HasOneKind(tables[t], path) =>
            LET leq(l, r) == CompareOptional(l, r, path) # "greater"
            IN  \A l, m, r \in Range(tables[t]) :
                    /\ leq(l, m) \/ leq(m, l)
                    /\ leq(l, m) /\ leq(m, r) => leq(l, r)

\* Sorting by several columns is sorting by the last, then stably by the one
\* before it, and so on up to the first.
SortIsLexicographic ==
    LET rows == tables[query.table]
        sorted(i) == SortRows(rows, SubSeq(query.sort, i, Len(query.sort)))
    IN  (\A column \in Range(query.sort) : HasOneKind(rows, column.path)) =>
            /\ SortRows(rows, <<>>) = rows
            /\ \A i \in DOMAIN query.sort :
                   sorted(i) = SortRows(sorted(i + 1), <<query.sort[i]>>)

\* What sort_by needs of the comparison, and what ORDER BY says of its result
\* (sort_collection_refs).
SortingIsSound == OrderIsTotal /\ SortIsLexicographic

\* A column whose values are all of its type, or null.
FitsType(rows, path, type) ==
    KindsAt(rows, path) \subseteq
        {IF type \in NumericTypes THEN "number" ELSE IF type = "boolean" THEN "bool" ELSE "text"}

\* REST, which filters without types, and GraphQL, which filters with them,
\* select the same rows on numeric and boolean columns.
FiltersAgree ==
    \A t \in DOMAIN tables : \A path \in DOMAIN Types[t] :
        FitsType(tables[t], path, Types[t][path]) =>
            \A op \in DOMAIN Outcomes \cup {"isNull", "contains"} : \A text \in ProbeTexts :
                LET condition == Condition(path, op, text, {})
                IN  \A row \in Range(tables[t]) :
                        MatchesFilter(row, condition, Types[t])
                            <=> MatchesFilter(row, condition, <<>>)

\* On a numeric column, BETWEEN selects consecutive rows of ORDER BY: filters
\* and sorting agree on the order, wherever null and missing values go.
SelectsBetween(row, path, low, high) ==
    LET between == ConditionsOf([op |-> "between", path |-> path, low |-> low, high |-> high])
    IN  \A condition \in Range(between) : MatchesFilter(row, condition, <<>>)
RangeIsInterval ==
    \A path \in ProbePaths : \A low, high \in ProbeTexts \cap DOMAIN NumberRank :
        LET rows == tables[query.table]
            sorted == SortRows(rows, <<SortColumn(path, FALSE)>>)
        IN  KindsAt(rows, path) \subseteq {"number"} =>
                \A i, j, k \in DOMAIN sorted :
                    /\ i < j /\ j < k
                    /\ SelectsBetween(sorted[i], path, low, high)
                    /\ SelectsBetween(sorted[k], path, low, high)
                    => SelectsBetween(sorted[j], path, low, high)

\* Filters mean the same through each interface, and what sorting says
\* (compare_with_prepared_value against compare_json_values).
FilteringIsSound == FiltersAgree /\ RangeIsInterval

\* The row that a materialized row has under a name.
Under(row, name) ==
    LET paths == {p \in DOMAIN row : Head(p) = name /\ Len(p) > 1}
    IN  [q \in {Tail(p) : p \in paths} |-> row[<<name>> \o q]]

\* A join finds the same pairs from either side and either way round of ON
\* (parse_sql_joins, materialize_sql_rows).
Pairs(q, left, right) ==
    LET rows == Materialize(tables, q)
    IN  [i \in DOMAIN rows |-> <<Under(rows[i], left), Under(rows[i], right)>>]
JoinCommutes ==
    Len(query.joins) = 1 /\ AreValidJoins(query) =>
        LET join == query.joins[1]
            swapped == [table |-> join.resource, alias |-> join.alias,
                        joins |-> <<[resource |-> query.table, alias |-> query.alias,
                                     on |-> <<join.on[2], join.on[1]>>]>>]
            there == Pairs(query, query.alias, join.alias)
            back == Pairs(swapped, query.alias, join.alias)
        IN  Len(there) = Len(back) /\ Range(there) = Range(back)

\* A name that validation takes for a table leads to a row of that table in
\* what is joined (resolve_sql_field_target, build_base_sql_row).  The
\* resource behind the alias of a join is the exception, also if that name is
\* the alias of another table.
FieldsResolve ==
    query.via = "sql" /\ AreValidJoins(query) =>
        \A name \in {query.table, query.alias} \cup {join.alias : join \in Range(query.joins)} :
            (\A join \in Range(query.joins) : join.resource = name => join.alias = name) =>
                \A row \in Range(Materialize(tables, query)) :
                    Under(row, name) \in Range(tables[TargetOf(query, <<name, "id">>)])

\* Embedding, the relations of GraphQL and SQL joins find the same rows where
\* keys are unique (resolve_related_row_in_lookup, resolve_graphql_many_to_many_rows).
KeysUnique(t, column) ==
    \A i, j \in DOMAIN tables[t] :
        LET v == Field(tables[t][i], <<column>>)
            w == Field(tables[t][j], <<column>>)
        IN  IsScalar(v) /\ (LookupKey(v) = LookupKey(w) => i = j)

\* No key reads like a foreign key that is null or nested, which SQL compares
\* as a text.
KeysTell(t, column, fk) ==
    \A row \in Range(tables[t]) : \A target \in Range(tables[fk.table]) :
        LookupKey(Field(row, <<column>>)) = LookupKey(Field(target, <<fk.column>>)) =>
            Field(row, <<column>>).kind \notin {"null", "json"}

EmbedsJoinedRow ==
    \A t \in DOMAIN tables : \A c \in DOMAIN References[t] :
        LET fk == References[t][c]
            join == [resource |-> fk.table, alias |-> fk.table,
                     on |-> <<<<t, c>>, <<fk.table, fk.column>>>>]
        IN  /\ fk.table # t  \* or the join needs an alias
            /\ KeysUnique(fk.table, fk.column) /\ KeysTell(t, c, fk)
            => \A row \in Range(tables[t]) :
                   LET joined == JoinRows(<<BaseRow(t, t, row)>>, join, tables[fk.table])
                   IN  EmbeddedRow(tables, row, c, fk)
                           = IF joined = <<>> THEN NoRow ELSE Under(joined[1], fk.table)

\* The same across a junction table, whose columns c and d refer to `from` and
\* `to`: a relation lists each target once that two joins lead to.
JunctionQuery(through, c, from, d, to) ==
    [table |-> from.table, alias |-> from.table,
     joins |-> <<[resource |-> through, alias |-> through,
                  on |-> <<<<through, c>>, <<from.table, from.column>>>>],
                 [resource |-> to.table, alias |-> to.table,
                  on |-> <<<<through, d>>, <<to.table, to.column>>>>]>>]
IsTwoJoins(through, c, from, d, to) ==
    \A row \in Range(tables[from.table]) :
        LET rows == Materialize(tables, JunctionQuery(through, c, from, d, to))
            related == RelatedRows(tables, row, through,
                           [column |-> c, key |-> from.column],
                           [column |-> d, key |-> to.column, table |-> to.table])
        IN  /\ IsInjective(related)
            /\ Range(related) =
                   {Under(r, to.table) : r \in {r \in Range(rows) : Under(r, from.table) = row}}
RelationIsTwoJoins ==
    \A through \in DOMAIN tables : \A c, d \in DOMAIN References[through] :
        LET from == References[through][c]
            to == References[through][d]
        IN  /\ from.table # to.table /\ through \notin {from.table, to.table}
            /\ KeysUnique(from.table, from.column) /\ KeysUnique(to.table, to.column)
            /\ KeysTell(through, c, from) /\ KeysTell(through, d, to)
            => IsTwoJoins(through, c, from, d, to)

\* The three interfaces look keys up alike.
LookupsAreJoins == EmbedsJoinedRow /\ RelationIsTwoJoins

\* `in` selects the rows that `eq` selects for one of its parts, in GraphQL
\* (README.md: filters support `in`) as elsewhere.
InSelectsMembers ==
    \A condition \in {condition \in Range(query.where) : condition.op = "in"} :
        \A row \in Range(tables[query.table]) :
            MatchesFilter(row, condition, FilterTypes(query)) <=>
                \E part \in condition.parts :
                    MatchesFilter(row, Condition(condition.path, "eq", part, {}),
                                  FilterTypes(query))
=============================================================================
