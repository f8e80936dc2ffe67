------------------------------- MODULE Queries -------------------------------
(***************************************************************************)
(* Filters, sorting and pages of an array, as REST, GraphQL and SQL use    *)
(* them.  A row is a partial function from paths (sequences of segments)   *)
(* to values.  What the code learns from the letters of a text (does it    *)
(* parse as a number, which text comes first, does it contain another) is  *)
(* given by constants.                                                     *)
(***************************************************************************)
EXTENDS JsonValues, Integers

CONSTANTS
    NumberRank,  \* [texts that parse as a number -> the number, up to order]
    TextRank,    \* [texts -> their place in byte order]
    TextMatch,   \* [contains, startsWith, endsWith -> pairs <<text, operand>>]
    NoType       \* a column that no schema describes

\* No name of another value is a number.
ASSUME TextsAssumption ==
    /\ \A text \in DOMAIN NumberRank : NumberRank[text] \in Int
    /\ \A text \in DOMAIN TextRank : TextRank[text] \in Int
    /\ {"null", "false", "true"} \subseteq DOMAIN TextRank \ DOMAIN NumberRank
    /\ DOMAIN TextMatch = {"contains", "startsWith", "endsWith"}

NumericTypes == {"integer", "float", "big_integer", "decimal"}

Field(row, path) == IF Has(row, path) THEN row[path] ELSE Null

-----------------------------------------------------------------------------
\* Comparable values: what a filter compares, of a class and with a rank.

Comparable(class, rank) == [class |-> class, rank |-> rank]
NullComparable == Comparable("null", 0)
Incomparable == Comparable("none", 0)

\* A text is a number or a boolean if it parses as one.
ParseText(text) ==
    IF text \in DOMAIN NumberRank THEN Comparable("number", NumberRank[text])
    ELSE IF text \in {"false", "true"} THEN Comparable("bool", TextRank[text])
    ELSE Comparable("string", TextRank[text])

\* With a column type, the text has to parse as that type.
CoerceText(text, type) ==
    LET class == IF type \in NumericTypes THEN "number" ELSE "bool"
    IN  IF type = NoType THEN ParseText(text)
        ELSE IF type \in NumericTypes \cup {"boolean"}
        THEN IF ParseText(text).class = class THEN ParseText(text) ELSE Incomparable
        ELSE Comparable("string", TextRank[text])

CoerceActual(v, type) ==
    IF v.kind = "null" THEN NullComparable ELSE CoerceText(v.text, type)

\* Mutant: only an untyped operand can be null.
CoerceNullUntyped(text, type) ==
    IF text = "null" /\ type = NoType THEN NullComparable ELSE CoerceText(text, type)

CoerceExpected(text, type) ==
    IF text = "null" THEN NullComparable ELSE CoerceText(text, type)

Order(a, b) == IF a < b THEN "less" ELSE IF a > b THEN "greater" ELSE "equal"

CompareComparable(l, r) ==
    IF l.class # r.class \/ l = Incomparable THEN "none" ELSE Order(l.rank, r.rank)

-----------------------------------------------------------------------------
\* Filters.  A condition has a path, an operator, the text of its operand and,
\* for `in`, the parts of that text between commas.

Condition(path, op, value, parts) ==
    [path |-> path, op |-> op, value |-> value, parts |-> parts]

Outcomes ==
    [eq |-> {"equal"}, ne |-> {"less", "greater"}, lt |-> {"less"}, lte |-> {"less", "equal"},
     gt |-> {"greater"}, gte |-> {"greater", "equal"}]

\* `types` are the columns of the table that GraphQL passes; REST and SQL pass
\* none.  A typed `in` compares with the text of the whole list.
MatchesFilter(row, condition, types) ==
    LET v == Field(row, condition.path)
        type == IF condition.path \in DOMAIN types THEN types[condition.path] ELSE NoType
        compare(text) == CompareComparable(CoerceActual(v, type), CoerceExpected(text, type))
    IN  \/ /\ condition.op \in DOMAIN Outcomes
           /\ compare(condition.value) \in Outcomes[condition.op]
        \/ /\ condition.op = "in"
           /\ \E part \in condition.parts :
                  compare(IF type = NoType THEN part ELSE condition.value) = "equal"
        \/ /\ condition.op \in DOMAIN TextMatch
           /\ v.kind = "string" /\ <<v.text, condition.value>> \in TextMatch[condition.op]
        \/ condition.op = "isNull" /\ v.kind = "null"
        \/ condition.op = "isNotNull" /\ v.kind # "null"

\* The rows at some of the places, in order.
RowsAt(rows, places) ==
    [k \in 1..Cardinality(places) |->
        rows[CHOOSE i \in places : Cardinality({j \in places : j <= i}) = k]]

FilterRows(rows, conditions, types) ==
    RowsAt(rows, {i \in DOMAIN rows :
        \A condition \in Range(conditions) : MatchesFilter(rows[i], condition, types)})

-----------------------------------------------------------------------------
\* Sorting.  A sort column has a path and a direction.

SortColumn(path, descending) == [path |-> path, descending |-> descending]

\* Mutant: values of different variants are equal.
CompareWithinVariants(l, r) ==
    IF IsNumber(l) /\ IsNumber(r) THEN Order(NumberRank[l.text], NumberRank[r.text])
    ELSE IF l.kind # r.kind THEN "equal" ELSE Order(TextRank[l.text], TextRank[r.text])

\* Mutant: numbers compare as they are printed.
CompareTexts(l, r) == Order(TextRank[l.text], TextRank[r.text])

\* Numbers compare as numbers, everything else as it is printed.
CompareJson(l, r) ==
    IF IsNumber(l) /\ IsNumber(r) THEN Order(NumberRank[l.text], NumberRank[r.text])
    ELSE Order(TextRank[l.text], TextRank[r.text])

\* A row without the column comes first, before null.
CompareOptional(l, r, path) ==
    IF Has(l, path) /\ Has(r, path) THEN CompareJson(l[path], r[path])
    ELSE Order(IF Has(l, path) THEN 1 ELSE 0, IF Has(r, path) THEN 1 ELSE 0)

CompareAt(l, r, column) ==
    IF column.descending THEN CompareOptional(r, l, column.path)
    ELSE CompareOptional(l, r, column.path)

\* Mutant: the last column decides first.
CompareItemsFromLast(l, r, columns) ==
    LET last == SelectLastInSeq(columns, LAMBDA c : CompareAt(l, r, c) # "equal")
    IN  IF last = 0 THEN "equal" ELSE CompareAt(l, r, columns[last])

CompareItems(l, r, columns) ==
    LET first == SelectInSeq(columns, LAMBDA c : CompareAt(l, r, c) # "equal")
    IN  IF first = 0 THEN "equal" ELSE CompareAt(l, r, columns[first])

\* The stable sort of Vec::sort_by, where the comparison is a total preorder:
\* a row comes after those that are less and the equal ones before it.
Precedes(rows, columns, j, i) ==
    LET outcome == CompareItems(rows[j], rows[i], columns)
    IN  outcome = "less" \/ (outcome = "equal" /\ j < i)
Position(rows, columns, i) ==
    Cardinality({j \in DOMAIN rows : Precedes(rows, columns, j, i)}) + 1
SortRows(rows, columns) ==
    [k \in DOMAIN rows |-> rows[CHOOSE i \in DOMAIN rows : Position(rows, columns, i) = k]]

-----------------------------------------------------------------------------
\* Pages

\* Mutant: an incomplete last page does not count.
PageCountFloor(total, perPage) == IF total < perPage THEN 1 ELSE total \div perPage

PageCount(total, perPage) ==
    IF total = 0 THEN 1 ELSE (total + perPage - 1) \div perPage

\* pagination_window: a page behind the last one is the last one.  0 is no page.
Window(total, page, perPage) ==
    LET pages == PageCount(total, perPage)
        actual == IF page > pages THEN pages ELSE page
        start == (actual - 1) * perPage
    IN  [page |-> actual,
         next |-> IF actual < pages THEN actual + 1 ELSE 0,
         start |-> start,
         end |-> IF start + perPage < total THEN start + perPage ELSE total]

PageRows(rows, page, perPage) ==
    LET window == Window(Len(rows), page, perPage)
    IN  SubSeq(rows, window.start + 1, window.end)
=============================================================================
