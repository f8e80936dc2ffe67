------------------------------- MODULE ItemKeys -------------------------------
(***************************************************************************)
(* How items of an array are addressed: by the text of their key.  Updates *)
(* search the array from the front; reads go through the id index that is  *)
(* kept with the cached array.                                             *)
(***************************************************************************)
EXTENDS Overlays

CONSTANTS
    IdColumn,     \* `id`, the key of a table without one
    MaxNumber,    \* bound: the largest numeric id of a run
    NumberText    \* [0..MaxNumber -> what to_string prints]

ASSUME MaxNumberAssumption == MaxNumber \in Nat
ASSUME NumberTextAssumption == DOMAIN NumberText = 0..MaxNumber /\ IsInjective(NumberText)

\* primary_key_name over the effective schema.
KeyName(tables, t) ==
    IF t \in DOMAIN tables /\ tables[t].primaryKey # NoKey
    THEN tables[t].primaryKey ELSE IdColumn

IdMatches(row, key, id) ==
    Has(row, key) /\ IsScalar(row[key]) /\ row[key].text = id

\* find_item_by_key, find_item_index_by_key: the first match, 0 for none.
FindIndex(rows, key, id) ==
    SelectInSeq(rows, LAMBDA row : IdMatches(row, key, id))

\* A lookup in the map that build_id_index fills: a later row with the same
\* key text overwrites an earlier one.
IndexedPosition(rows, key, id) ==
    SelectLastInSeq(rows, LAMBDA row : IdMatches(row, key, id))

Numbers(rows, key) ==
    {n \in 0..MaxNumber : \E row \in Range(rows) :
        Has(row, key) /\ row[key] = Number(NumberText[n])}

\* Mutant: the next id is the number of rows plus one.
NextNumberByLength(rows, key) == Len(rows) + 1

\* next_numeric_id: strings do not count, whatever they look like.
NextNumber(rows, key) == Max(Numbers(rows, key) \cup {0}) + 1

KeyType(tables, t) ==
    LET key == KeyName(tables, t)
    IN  IF t \in DOMAIN tables /\ key \in DOMAIN tables[t].columns
        THEN tables[t].columns[key].type ELSE "integer"

\* coerce_id_value: a key from a URL is a number unless the column is a
\* string column or it does not parse.
CoerceId(tables, t, id) ==
    IF KeyType(tables, t) # "string" /\ id \in Range(NumberText)
    THEN Number(id) ELSE Str(id)

\* maybe_fill_missing_id
WithKey(tables, t, rows, item) ==
    LET key == KeyName(tables, t)
        text == NumberText[NextNumber(rows, key)]
    IN  IF Has(item, key) THEN item
        ELSE With(item, key,
                  IF KeyType(tables, t) = "string" THEN Str(text) ELSE Number(text))

-----------------------------------------------------------------------------
\* The update closures.  A request names its table; PUT, PATCH and DELETE the
\* id; POST, PUT and PATCH have a payload.
IsRequest(req) ==
    /\ req.op \in {"create_item", "replace_item", "patch_item", "delete_item"}
    /\ IsRow(req.item)

\* The errors of the closures: no such item.  (MaxNumber bounds POSTs.)
IsApplicable(tables, req, rows) ==
    IF req.op = "create_item" THEN NextNumber(rows, KeyName(tables, req.table)) <= MaxNumber
    ELSE FindIndex(rows, KeyName(tables, req.table), req.id) # 0

\* The row that the response shows.
UpdatedRow(tables, req, rows) ==
    LET key == KeyName(tables, req.table)
        current == rows[FindIndex(rows, key, req.id)]
    IN  CASE req.op = "create_item" -> WithKey(tables, req.table, rows, req.item)
          [] req.op = "replace_item" ->
                 With(req.item, key, CoerceId(tables, req.table, req.id))
          [] req.op = "patch_item" ->
                 Over([c \in DOMAIN req.item \ {key} |-> req.item[c]], current)

Updated(tables, req, rows) ==
    LET position == FindIndex(rows, KeyName(tables, req.table), req.id)
    IN  CASE req.op = "create_item" -> Append(rows, UpdatedRow(tables, req, rows))
          [] req.op = "delete_item" -> RemoveAt(rows, position)
          [] OTHER -> ReplaceAt(rows, position, UpdatedRow(tables, req, rows))
=============================================================================
