------------------------------ MODULE CloneProxy ------------------------------
(***************************************************************************)
(* GET in clone mode (clone_proxy.rs): what is not there, or is to be      *)
(* refreshed, is fetched from a remote server and stored as a resource.    *)
(* A fetch decides what to store before it has the lock of the resource,   *)
(* and a failure to store is only logged.  Requests that are handed on     *)
(* without storing anything show up as changes of the remote server.       *)
(***************************************************************************)
EXTENDS SchemaServer

CONSTANTS
    Client,      \* who sends GET requests
    Cloned,      \* the resource they ask for
    Fetch,       \* their requests [kind, id, refresh]
    NoFetch,
    RemoteRows   \* the arrays that the remote server may have

ASSUME CloneAssumption ==
    /\ Cloned \in Table
    /\ \A request \in Fetch : request.kind \in {"collection", "item"}

VARIABLES
    remote,      \* the array at the remote server
    fetches,     \* how far the request of each client has got
    stored       \* ids of the items stored since all was replaced

cloneVars == <<remote, fetches, stored>>

IdleFetch == [pc |-> "idle", request |-> NoFetch, rows |-> <<>>, exists |-> FALSE]

CloneInit ==
    /\ remote \in RemoteRows
    /\ fetches = [c \in Client |-> IdleFetch]
    /\ stored = {}

Local == documents[Cloned]
IsCloned == Cloned \in DOMAIN documents

\* get_collection, get_item: a resource that is not there, an item that a
\* readable array does not have, and whatever is to be refreshed.
NeedsFetch(request) ==
    ~request.refresh /\ IsCloned =>
        /\ request.kind = "item"
        /\ Local # NoTable
        /\ Admits(overlay, Cloned, Local)
        /\ IndexedPosition(Local, KeyName(merged, Cloned), request.id) = 0

Ask(c, request) ==
    /\ fetches[c].pc = "idle"
    /\ NeedsFetch(request)
    /\ fetches' = [fetches EXCEPT ![c].pc = "answer", ![c].request = request]
    /\ UNCHANGED <<remote, stored>>

\* send_remote_request; an item gets the id that was asked for.
Answer(c) ==
    LET request == fetches[c].request
        position == FindIndex(remote, IdColumn, request.id)
        item == With(remote[position], IdColumn, CoerceId(<<>>, Cloned, request.id))
        received(rows) == [fetches EXCEPT ![c].pc = "choose", ![c].rows = rows]
    IN  /\ fetches[c].pc = "answer"
        /\ fetches' = IF request.kind = "collection" THEN received(remote)
                      ELSE IF position # 0 THEN received(<<item>>)
                      ELSE [fetches EXCEPT ![c] = IdleFetch]
        /\ UNCHANGED <<remote, stored>>

\* The beginnings of cache_collection and cache_item: what will be written as
\* it is has to be admitted, and the resource is created or updated.
Choose(c) ==
    LET isWhole == fetches[c].request.kind = "collection" \/ ~IsCloned
    IN  /\ fetches[c].pc = "choose"
        /\ fetches' = [fetches EXCEPT ![c] =
               IF isWhole /\ ~Admits(overlay, Cloned, @.rows) THEN IdleFetch
               ELSE [@ EXCEPT !.pc = "store", !.exists = IsCloned]]
        /\ UNCHANGED <<remote, stored>>

\* Mutant: the item is appended, as one that is new.
WithItemAppended(rows, id, item) == Append(rows, item)

\* The item takes the place of the first one with its id.
WithItem(rows, id, item) ==
    LET position == FindIndex(rows, IdColumn, id)
    IN  IF position = 0 THEN Append(rows, item) ELSE ReplaceAt(rows, position, item)

IsMerged(fetch) == fetch.exists /\ fetch.request.kind = "item"

RowsToStore(fetch) ==
    IF IsMerged(fetch) THEN WithItem(Local, fetch.request.id, Head(fetch.rows))
    ELSE fetch.rows

\* Mutant: a resource that exists by now is created all the same.
IsStorableUnlessRejected(fetch) ==
    CASE ~fetch.exists -> Admits(overlay, Cloned, fetch.rows)
      [] IsMerged(fetch) -> Local # NoTable /\ Admits(overlay, Cloned, RowsToStore(fetch))
      [] OTHER -> TRUE

\* With the lock: a creation is refused if the resource exists by now, an item
\* if the array with it is not admitted.
IsStorable(fetch) ==
    CASE ~fetch.exists -> ~IsCloned /\ Admits(overlay, Cloned, fetch.rows)
      [] IsMerged(fetch) -> Local # NoTable /\ Admits(overlay, Cloned, RowsToStore(fetch))
      [] OTHER -> TRUE

\* create_resource or write_validated_resource
Store(c) ==
    LET fetch == fetches[c]
        rows == RowsToStore(fetch)
    IN  /\ fetch.pc = "store"
        /\ IsStorable(fetch)
        /\ documents' = [t \in DOMAIN documents \cup {Cloned} |->
                            IF t = Cloned THEN rows ELSE documents[t]]
        /\ AdoptInferred(IF fetch.exists THEN ReplaceTable(inferred, Cloned, rows)
                         ELSE InferSchema(documents'))
        /\ fetches' = [fetches EXCEPT ![c] = IdleFetch]
        /\ stored' = IF fetch.request.kind = "item" THEN stored \cup {fetch.request.id}
                     ELSE {}
        /\ UNCHANGED <<overlay, schemaFile, saves, remote>>

\* The client has its answer, but nothing is stored.
Skip(c) ==
    /\ fetches[c].pc = "store"
    /\ ~IsStorable(fetches[c])
    /\ fetches' = [fetches EXCEPT ![c] = IdleFetch]
    /\ UNCHANGED <<remote, stored>>

\* Requests that change something go to the remote server only.
RemoteChange ==
    /\ remote' \in RemoteRows \ {remote}
    /\ UNCHANGED <<fetches, stored>>

-----------------------------------------------------------------------------
\* Properties

\* However fetches of one item and of all overlap, a clone of rows with
\* different ids has no id twice (cache_item looks for the id with the lock).
ClonedIdsDistinct == IsCloned /\ Local # NoTable => KeysDistinct(Local, IdColumn)

\* An item that was stored is found by GET until a fetch of all rows replaces
\* it: fetches of two items that both found no resource do not overwrite each
\* other (create_resource refuses the second).
StoredItemsFound ==
    \A id \in stored :
        IsCloned /\ IndexedPosition(Local, KeyName(merged, Cloned), id) # 0
=============================================================================
