# Verification of dirbase

dirbase serves a folder of JSON files as a REST, GraphQL and SQL API. This
directory models five parts of it:

- requests, a file watcher and other programs that work on the same files, caches and
  schema at the same time (`Dirbase`);
- the server over a single database file, with its locks and with crashes (`DbServer`);
  both implement one atomic store (`AtomicStore`);
- the life of the schema, inferred, declared, merged and saved (`SchemaServer`);
- what follows a change: the cached GraphQL schema, events and the page that shows them,
  and servers that are clones of another (`LiveServer`);
- what queries select, page by page (`QuerySessions`).

TLC checks small instances, TLAPS proves what has to hold for all of them.

    tlc -config MCDirbase_updates.cfg MCDirbase      # any of the runs below
    tlapm FolderProofs.tla                           # or another ...Proofs module

Paths below are relative to `src/src/` of the repository.

## 1. Inventory

| Component | State | Operations | Correct if |
|---|---|---|---|
| Documents (`mutation_service.rs`, `storage/index.rs`) | a JSON array of items, or an object | the closures of POST, PUT, PATCH, DELETE | ids are fresh, items addressed by id |
| Storage (`storage.rs`) | — | `load_resource`, `load_resource_unvalidated`, `write_resource_snapshot`, `refresh_inferred_schema` | no update is lost; nothing is served that the declared schema rejects |
| Cache (`storage/cache.rs`) | name → (`Arc<Value>`, revision, id index) | update, insert if absent, mark validated, remove | a cached snapshot is the file's content; its revision vouches for it |
| Data files (`storage/io.rs`) | `<resource>.json`, or one db file | read, replace atomically, create, delete | a file is whole at any time; an error says what happened |
| Validation (`storage/validation*`) | — | `validate_resource_snapshot` | admission as the declared table says |
| Schema store (`app.rs`) | declared, inferred, merged, revisions | `replace_inferred`, `replace_declared`, `validation_snapshot` | merged is the merge of the two; revisions tell declarations apart |
| Inference, merge, relations (`schema/*`) | — | infer all or one table, merge an overlay, export | incremental = full inference; references resolve; what is saved means what it meant |
| Schema files (`schema.rs`, `schema/parse_*`) | `schema.json`, `.dbml`, `.xsd` | `load_schema` | |
| Schema routes (`http/schema_routes.rs`) | — | `PUT /schema`, `POST /schema/save`, `POST /schema/infer` | file and memory agree |
| Resource set (`resource_service.rs`) | `AppState.resources` | create and delete a resource | set, files, cache agree |
| Watcher (`watcher.rs`) | an event queue and a thread | handle an event | cache, set and schemas follow the folder |
| Health (`app.rs`) | `ready` | set by refreshes, cleared by the watcher | a ready server can read every resource |
| Locks (`app.rs`) | a fair `RwLock` per resource | read, write, several reads | exclusion, no deadlock |
| Item index (`storage/index.rs`) | id → position, with a cache entry | build, look up | the position belongs to the array it is used on |
| GraphQL schema (`app.rs`, `graphql/*`) | a cached executable schema | build, invalidate, resolve | not older than the last invalidation |
| Event bus (`app.rs`, `http/ops.rs`) | broadcast channel, 256 events | emit, stream | a client learns that it missed events |
| Clone proxy (`clone_proxy.rs`) | a remote server | fetch, create locally | what was fetched is cached once |
| Queries (`query/*`), SQL (`sql/*`), embedding (`http/embed.rs`, `relations.rs`) | — | filter, sort, page; join, select; embed | a walk sees each row once; the interfaces agree |
| Middleware, rendering, OpenAPI, CLI | — | per request, or once | pure |

Interaction. A request handler is an async task. It takes the lock of its
resource, goes through cache, resource set, file and schema store, each with a
lock of its own that is held for one access only, and drops its resource lock at
the end. GraphQL relations load without the resource lock. The watcher is one
OS thread; it takes none of the resource locks. Other programs write the folder
whenever they like. What is hard is therefore order: between any two accesses
of a handler, other handlers, the watcher and editors may act; I/O may fail at
each step, in some cases after it took effect; a failed step leaves what was
done before it. `PROJECT.json` lists these hazards with their lines.

## 2. Plan

Written in this order, each after what it stands on:

1. the core: `Documents`, `SchemaStore`, `ResourceStore`, `Watcher`, `Dirbase` (which
   composes them), `DirbaseProofs`, `FolderProofs`, `SettledProofs`;
2. the schema: `JsonValues`, `Schemas`, `Overlays`, `ItemKeys`, `SchemaServer`,
   `SchemaServerProofs`;
3. queries: `Queries`, `Joins`, `QuerySessions`, `QueryProofs`;
4. the database file: `ResourceLocks`, `DbServer` (over it and `Documents`),
   `AtomicStore`, `DbServerProofs`, `DbRefinementProofs`;
5. what follows a change: `GraphqlSchemas`, `GraphqlCache`, `CloneProxy` (over
   `SchemaServer`), `EventBus`, `LiveServer` (which composes these), `LiveProofs`.

What would come next:

- `Dirbase`: `POST /schema` and `/schema/infer` step by step, cancelled requests, several
  paths in one event, the `--schema` option.
- The id index as part of a cache entry, for `GET /{resource}/{id}` while the watcher
  replaces the entry.
- `DbServer` with a declared schema and with the watcher.

## 3. Modules

**`Documents`** — an item is the set of columns it has a value for, a document a
function from ids to items; id 0 (`Root`) is the document itself when it is an
object. That is what inference (`InferTable`) and validation (`Admits`) look at;
column types, constraints and uniqueness are reduced to the presence of
non-nullable columns. `Updated`, `CanUpdate` and `Position` are the closures of
`mutation_service.rs`; a POST leaves its id to the server.

**`SchemaStore`** — `struct SchemaStore` as a record and each method as an operator
from store to store, since each runs under the store's own lock. `ReplaceInferred`
assigns before the merge that may fail, as the code does.

**`ResourceStore`** — a request is a record with a program counter; an action is
what a handler does between two points where others can act.

| Code | Actions |
|---|---|
| `read_lock_for_resource`, `write_lock_for_resource` | `Acquire` |
| `load_resource`, `load_resource_unvalidated` | `ReadRevision`, `LookupHit`/`Stale`/`Miss`, `CheckRegistered`, `OpenFile`/`OpenFails`, `Admit`, `Mark`, `InsertIfAbsent` |
| `update_locked_resource` | `Apply` (closure and validation of the result) |
| `write_resource_snapshot` | `ReadReadiness`, `Persist`/`PersistFails`/`SyncFails`, `InstallInCache`, `InferLocally`, `Certify` |
| `refresh_inferred_schema` | `SnapshotResources`, `ScanFile` (once per file), `InstallRefreshed`, `MarkReady` |
| `create_resource`, `delete_resource` | `ValidateInitial`, `CreateFile`, `FillFile`/`FillFails`, `Register`, `CacheNew`, `RemoveFile`, `Unregister`, `Uncache`, the refresh, `Announce` |
| `save_declared_schema` | `CheckMerge`, `WriteSchemaFile` (truncate, then fill)/`WriteSchemaFails`, `AdoptDeclared`, `Announce` |

`Arc` identity matters (`mark_cached_resource_validated` compares pointers), so
snapshots carry an address, and a fresh one is taken where the code calls
`Arc::new`. `op = "relation_read"` is a load without the resource lock.

**`Watcher`** — the body of the event loop, from `scan_resources` to the last
`mark_ready`. Every way an event ends early, a folder that cannot be listed included
(`ListFails`), goes through `GiveUp`, which clears `ready`. Whether a changed file exists and
what is in it are two steps (`ChangedExists`, `ReadChanged`). An event has one path. A schema
event and a data event take different branches.

**`Dirbase`** — `Init` is the state `main` builds, `Next` one step of a request, of the
watcher or of an editor. An edit happens at most once.

**`MCDirbase`** — the folders, workloads and edits of the runs.

**`JsonValues`** — a value is its JSON variant and the text it prints as, a row a partial
function from columns to values. That is all the modules below look at.

**`ResourceLocks`** — the table of locks and the fair queue in each. A waiter remembers who
was in line before it; a writer waits for all of them, a reader for the writers among them
(`IsServed`). A lock is made in two steps, as `resource_lock` looks it up under a read lock
of the table and then inserts it under a write lock (`LockExists`, `InsertLock`).

**`AtomicStore`** — the promise: every request takes effect at once (`Apply`, `Read`)
between arrival and answer; a crash loses requests, each done or not. It translates no
code. `DbServer` implements it, and so does `Dirbase` for the requests that lock their
resource (`Promise`, `AtomicFolder`): there a write takes effect with its file, a file that
does not parse counts as none, and a request without the lock is not seen.

**`DbServer`** — `dirbase db.json`. A handler asks for its locks (`LookupLock`, `MakeLock`,
`Awaken`), loads (`LoadNext`, `ApplyUpdate`), writes the file under the file lock and fills
cache and resource set in the order of the code:

| Code | Actions |
|---|---|
| `read_locks_for_resources`, `write_lock_for_resource` | `LookupLock`, `MakeLock`, `Awaken` |
| embeds, SQL joins, GraphQL fields | `LoadNext`, `AnswerRead` |
| `update_locked_resource` | `ApplyUpdate`, then the lock `__db_file__` |
| `create_resource`, `delete_resource` | `CheckRegistered`, `ChangeSet`, `Install` |
| `{write,create,delete}_resource_in_db_file` | `LockFile`, `OpenDbFile`, `Rename`, `SyncDir`, `WriteFails` |
| `refresh_inferred_schema` | `RefreshSchema` |
| a crash, and `main` | `Restart`: the file as programs saw it, or as it was last synced |

**`Schemas`** — inference: column types from the rows (`InferColumns`), keys, references
between tables found by name, table kinds, many-to-many relations of junction tables; for
the whole folder (`InferSchema`) and for one written table (`ReplaceTable`). Singulars,
suffixes and orders of names are constants. A relation's name is a tuple of the names that
the code joins by underscores, so no table is called `target_via_through` here.

**`Overlays`** — `merge_schemas` with both of its validations (`IsEffective`,
`IsDeclarable`), the overlay that `POST /schema` saves (`Export`), and the rows that a
declared table admits: types, constraints, unique columns and keys (`AdmitsRows`). A
constraint is the set of types it may stand on and the set of texts it accepts. Without
`schema.json` the overlay is the empty one, since `merge_schemas` goes through the same
steps with no declared table.

**`ItemKeys`** — items addressed by the text of their key: the first match for updates,
the last for the index, numeric id assignment, coercion of ids from a URL.

**`SchemaServer`** — rows, overlay, inferred and merged schema and `schema.json`. Each
request, edit and load by the watcher is one step (`UpdateItem`, `EditFile`,
`CreateResource`, `DeleteResource`, `SaveDeclaredSchema`, `SaveSchema`,
`InferAndSaveSchema`, `LoadSchemaFile`): what may happen between the steps of one is the
subject of `ResourceStore`, what a sequence of them does to the schema that of this module.

**`GraphqlSchemas`** — `build_schema`: which types, fields and root fields the documents
and tables give (`BuildSchema`), how relations find names of their own, one after the other
in the order of a `BTreeMap` (`RelationOrder`, `AddMany`), and when names collide
(`NameConflict`). A document without rows (`NoTable`) is an array of other things
(`MixedArrays`), which has a row type all the same if columns are declared for it, an object
(`ObjectOf`), or neither. What is left of a column's name without its endings is a constant
(`RelationStem`). Fields are sets; their order tells the clients of a schema nothing.

**`GraphqlCache`** — `graphql_schema` in its three steps `ListResources`, `ReadResources`,
`StoreSchema`, and `Invalidate`. Each build knows whether it was overtaken by an
invalidation, which no code does; it serves the properties only.

**`CloneProxy`** — a client asks (`Ask`), the remote server answers (`Answer`), the handler
decides what to store without a lock (`Choose`) and stores it with the lock (`Store`), or
only logs that it cannot (`Skip`).

**`EventBus`** — the channel as the number of events that the page has not received,
`Capacity + 1` when some are gone; the stream drops that news (`Receive`). The page loads
everything a little after an event, and stops listening in a storm (`HandleEvent`).

**`LiveServer`** — a change of `SchemaServer`, or in clone mode of `CloneProxy`, is one step
(`Begin`) that leaves duties: `InvalidateCache`, then `EmitEvents`, while the lock of the
resource is held. If the merge failed the request ended there. GraphQL requests take the
locks of what they listed before they read.

**`Queries`** — filters with and without column types (`MatchesFilter`), the comparison
and stable sort of `query/sort.rs`, `pagination_window`. Rows map paths to values, so
that `users.age` of a joined row is a path of two segments.

**`Joins`** — SQL joins and their validation, `WHERE` as conditions, the row that embedding
puts in place of a foreign key, and many-to-many relations in GraphQL.

**`QuerySessions`** — a client that follows `next` (`FetchPage`), or goes on by offset
(`FetchRows`), or is turned away (`Reject`), while another one appends rows (`Post`). A
request is answered from one snapshot under the read lock, so it is one step.

## 4. Runs

The runs of `MCDirbase` have two resources and one column besides the key.

| Run | Instance | Shows |
|---|---|---|
| `updates` | 4 requests: any update of users by t1, a POST or an object update by t2, a locked or unlocked read, PUT /schema; no watcher | no update is lost, ids are distinct, cache = file outside a write lock, admission of cached and returned rows, inferred schema right at rest, `Dirbase` implements `AtomicStore` |
| `resource_set` | delete/create and create of the same resource, a file that vanishes, torn creations, watcher | set served = folder at rest; a resource is created once |
| `watched` | 2 readers; users break, are repaired with other columns, and the schema is edited and removed, in any order | a ready server can read every resource; cache, inferred schema and overlay follow the folder |
| `recovery` | 2 requests and one repair of a folder that does not parse, failing rename, directory sync, creation, write of `schema.json` and listing of the folder, fairness | every request is answered, every event handled, the server becomes ready again if the repaired folder can be listed |
| `db_file` | 3 requests out of updates, creations and deletions of users and posts and reads of both in either order; failing writes and refreshes; one crash; fairness | writers are alone, locks are waited for in one order, `DbServer` implements `AtomicStore`, every request is answered or lost |
| `schemas` | students, courses and one or two junction tables; item requests, edits, resources that come and go, overlays with keys, references, suppressed references and unique columns | incremental = full inference; every relation has its mirror; references resolve; a saved schema loads to itself; inferred tables admit uniform rows; keys address one item; the GraphQL schema is complete, is built, and fits the rows where it promises to |
| `live` | two changes out of updates, resources whose names collide in GraphQL, overlays, edits; a GraphQL request, or a page, or two clients of a clone with a remote server that changes | a cached GraphQL schema is current unless it was overtaken; the page shows the present; clones have no id twice and find what they stored |
| `queries` | 16 folders of three users with ages that are numbers, null or missing, posts and likes; 11 queries through REST, GraphQL and SQL; one row added at any point | each row once, whatever page; the order is total and lexicographic; filters agree between interfaces and with the order; joins commute, aliases resolve, embedding and relations find what joins find |

At rest (`Quiescent`) means that all requests are answered, all events handled and
no edit is to come. Runs that state a property of a server at rest only include the
actors under which the code achieves it; the disagreements below are the actors
under which it does not.

Disagreements between the code and what the repository says of it, each a run TLC
finds violated:

| Run | Property | What happens |
|---|---|---|
| `lost_create` | `DistinctIds` | The watcher caches the content it read before a later POST was written (`watcher.rs:116`, `:211`); the next POST starts from the older rows, answers with the same id and drops the first row from the file. |
| `stale_cache` | `SettledCache` | An edit whose event needs full inference while another file does not parse never reaches the cache (`watcher.rs:154`). |
| `stale_graphql` | `CachedIsCurrent` | A GraphQL schema whose resources were read before a change is stored after the change emptied the cache (`app.rs:374`), and is served until the next change. If a resource was deleted in between, what is stored is an error. |
| `typed_in` | `InSelectsMembers` | With a column type, `in` compares each value with the text of the whole list (`query/evaluator.rs:74`, `:101`): GraphQL's `IN "2,10"` selects nothing. |

Known gaps without a run, found while modelling and left out of the instances above:

- A GraphQL relation that validated a snapshot puts it back into the cache after the
  resource was deleted (`storage/cache.rs:66`); GET serves it then. With such a read among
  creations and deletions TLC finds `AtomicFolder` violated by that GET, which is why
  `FolderIsAtomic` excludes it. It also excludes the deletion of a torn file, which DELETE
  answers with success once the watcher has published the file (`DeletesWhole`).
- A full refresh installs the table of another resource as it was before that
  resource's last update (`storage.rs:196`, against the comment at `storage.rs:152`), and
  marks the server ready though the watcher withdrew that meanwhile.
- When the folder cannot be listed, the watcher drops the event (`watcher.rs:239`): the change
  it was about is seen with the next event only. `Recovers` therefore asks that a repaired
  folder can be listed.
- The watcher loads `schema.json` of the folder even if the server was started with another
  schema file (`watcher.rs:83`): an edit of `schema.json` replaces that overlay.
- PUT /schema makes a server ready that cannot read a resource (`http/schema_routes.rs:90`).
- A merge that fails leaves inferred new and merged old on a ready server (`app.rs:134`).
  Two creations, of which one refreshes late, and a PUT /schema that fits the tables before
  it, can leave a `schema.json` that fits no later tables.
- `save_declared_schema` writes `schema.json` and updates the memory in two steps
  (`http/schema_routes.rs:69-86`), so of two concurrent PUT /schema one can win the file and
  the other the memory. `SettledSchema` is checked where editors alone change the overlay.
- A directory sync that fails after the rename reports an error of a write that took place;
  the cache keeps the old document (`storage/io.rs:295`). So does a handler that is dropped
  because its client hangs up between file and cache. An edit by another program that falls
  between the load and the write of an update is overwritten.
- With the watcher, `GET /{resource}/{id}` may look an id up in the index of a newer
  snapshot than the array it has loaded (`http/resource_routes.rs:235`).
- In a database file nothing forbids a resource called `__db_file__`. An update of it
  waits for the lock it holds itself (`storage.rs:129`).
- `POST /schema/infer` on a column that mixes integers with fractions, or whose first
  value is null: it is inferred as string (`schema/infer.rs:147`), declared as that, and GET
  of the resource is answered 400 from then on. `UniformRowsAdmitted` covers the columns
  for which it works.
- In GraphQL, columns of type big_integer and decimal, and those inferred as string from
  values of several types or after a leading null, are `String` fields (`graphql/values.rs:62-67`),
  but the resolver returns what the row has, numbers included (`graphql/fields.rs:182-187`).
  `GraphqlRowsFit` promises strings for the other `String` columns only (`HoldsStrings`).
- Clones: once `GET /r/1` stored one item, `GET /r` answers with the stored items only. An id
  like `007` is stored as 7, so that each GET fetches and appends it again; numeric text ids
  turn into numbers. Of two overlapping fetches the older answer may be stored last. An item
  fetched while its resource is created is not stored (`clone_proxy.rs:147`).
- The overview page does not load again after its stream reconnects
  (`useOverviewLiveUpdates.ts`); `ViewIsCurrent` is about a page that stays connected.
- The sort comparison is not transitive on a column that mixes numbers with strings
  (`query/sort.rs:49`): 9 < 10 as numbers, "10" < "2" < "9" as texts. `SortingIsSound` covers
  columns of one kind.
- On a string column whose texts look like numbers, REST compares numbers and GraphQL
  texts; `FilteringIsSound` covers numeric and boolean columns.
- After `JOIN users u`, validation accepts `users.name`, but the row has only `u.name`
  (`sql/executor.rs:314`): the value is missing, or that of another table whose alias is
  `users`. `FieldsResolve` leaves that name out.
- SQL joins compare a foreign key that is null or nested as the text it prints as, and so find
  a row whose key is the string `null`; embedding and GraphQL find none. `LookupsAreJoins` is
  about keys that differ from such texts (`KeysTell`).
- `LIKE '%'` counts one character as leading and trailing (`sql/parser.rs:511-514`): the
  slice starts behind its end.
- A POST without a key to a table with string keys always gets `"1"`, since
  `next_numeric_id` skips strings (`storage/index.rs:48`).

Bounds. `MaxId` is chosen so that no POST of a run exceeds it, `MaxRevision` so
that every overlay replacement of a run fits, `Arc` so that a fresh address always
exists; these only keep instances finite. Two writers on one resource plus a third
task suffice for the races between load, write and cache, since a handler's
decisions depend on one cache entry, one file and one store; two resources are
needed because refreshes and readiness concern all files. Requests are handled
once and edits happen once, which bounds histories, not interleavings.
`watched` uses symmetry over its readers, which have the same workload, `live` over its
clients and its handlers.

In `db_file` three requests are what a fair lock takes: one that has it, one that waits, and
one that must not pass. Two resources and `__db_file__` are three locks, enough for a circle.
`MaxCrashes` is 1, since a restart forgets everything but the file, and what a second crash
could find is what the first found or an ordinary start. `Linearizable` is checked and then
proved for any number of them.

In `schemas`, `MaxRows` bounds the rows that POST adds and `MaxSaves` the writes of
`schema.json`; two junction tables are what it takes for names of relations to collide,
an overlay and a table that goes away what it takes to break a reference.

In `live` two changes (`MaxChanges`) make up to six events, more than `Capacity` 3 and
`StormLimit` 4 (256 and 12 in the code, where a page therefore stops listening before it
lags, unless it was slow to receive). One build of the GraphQL schema meets two
invalidations, which is every order of its steps with theirs. `audience` splits the
instance: a page, GraphQL clients and overlapping fetches have no state in common but the
changes, so one of the three looks on at a time.

In `queries` three users give every triple of values that transitivity is about, pages of 1
and 2 rows over 0 to 4 selected rows every kind of last page; `MaxPerPage`, `MaxScanRows` and
`MaxSelectedRows` are the limits of `AppConfig`, low enough that some queries pass them.
A query walk does not depend on other clients but by the rows it selects; sorted by
another column than the id, or joined, a row that is added may appear before the cursor, so
`WalkVisitsOnce` looks at those queries only while nothing is added.
Each property of a passing run is shown to depend on the code by a mutant of it
(`PROJECT.json`, "mutants"; the definitions marked `Mutant:` in the modules).

Fairness. `FairSpec` of `Dirbase` asks for weak fairness of every handler that has arrived
(the async runtime polls ready tasks) and of the watcher (its own thread). No request has to
arrive, no edit to happen. A handler that waits for a resource lock is enabled when
the lock is free; with finitely many requests the lock is free from some point on, so
weak fairness suffices where the code's RwLock is fair in the stronger sense. In `DbServer`
the queue itself is modelled: once granted, a lock stays granted until its task goes on, so
weak fairness of the handlers is what the runtime and tokio's lock give. The file lock is
not a queue, but its holder never waits.

## 5. Proofs

Every theorem is for all values of the constants under their assumptions; TLC checked each
invariant first, on the instances of the runs.

**Store of schemas.** `DirbaseProofs` begins with `SchemaStore`. It types the operators on documents and the store,
and proves the fact the revisions exist for (`ReplaceDeclaredKeepsCertified`): a replacement
of the overlay gives every changed table a revision larger than any handed out
before, so that a snapshot certified before stays certified.

**Folder.** `DirbaseProofs` goes on to prove, for every set of tasks, every finite set of resources,
every workload, folder and set of edits, `TypeCorrect` (`Spec => []TypeOK`) and `Admitted`
(`Spec => []Admission`, from `CacheAdmitted` and `ReadAdmitted`).
None of these is inductive. `CacheAdmission` speaks of the cache, but the revision
that an entry gets was read by a handler several steps before, and the overlay may have
been replaced since. The inductive invariant `Inv` follows the revision on its way: in the
cache (`CacheInv`) and in every handler past validation (`CarriesCertified`) it was handed
out before, and if it is still the current one the declared table admits the snapshot next
to it. For types it also says which program counters belong to which requests
(`Allowed`), which handlers hold a snapshot (`HasSnapshot`), and what the watcher knows in
each state (`WatcherInv`). The proof has one lemma per action, which shows that the store
keeps its types and its certified entries (`SchemaKeeps`, `StoreKeeps`) and that the handler
moves to a state that satisfies `TaskInv`; `StepKeepsInv` and `OtherStepKeepsInv` put them
together.

**Folder.** `FolderProofs` proves `CacheFaithful`, `CreatesKept` and `IdsDistinct`: `Spec /\
CachesFile => []P` for `CacheMatchesDisk`, `NoLostCreate` and `DistinctIds`, under the
hypothesis `Alone`: no other program edits the folder, no write is reported as failed that took
place, and resources neither come nor go. The server's own watcher may run; it handles an event
for every write of a handler. `CachesFile` is about its one step that goes wrong: it says that
what the watcher puts into the cache is still what is in the file (`watcher.rs:211`).
`lost_create` takes a step that it forbids, and then two POSTs get one id; that nothing else of
the watcher can break these promises is what the theorems say. `UnwatchedFolder` is the case
without a watcher, where `CachesFile` holds by itself. The workload is otherwise free, reads
without the lock, `PUT /schema` and failing renames included; `updates` is an instance. `Alone`
is needed: `stale_cache` shows what edits do, and a relation read that opened the file of a
resource before it was deleted would cache the old document after.

`FolderInv` says why a writer may compute from a snapshot that it loaded some steps earlier. It
holds the write lock (`GuardOK`, `Exclusive`), so the file has still what it loaded (`LoadOK`),
and what it is about to write is the update of that (`WriteOK`); cache and file differ only
between a rename and the `InstallInCache` after it (`CacheOK`). Reads without the lock also
bring entries into the cache. They are harmless because a handler that carries a snapshot under
an address that is cached carries the cached value (`ArcOK`), two handlers with one address
carry one value (`Coherent`), and where nothing is cached nobody has written yet. `StoredOK` and
`DistinctOK` are the two promises to POSTs, extended to those that have written and not yet
answered. `WatchInv` says that the watcher always finds a file it can read, so that it never
takes a resource out of the cache.

**Folder as an atomic store.** `FolderProofs` also proves `FolderIsAtomic`: `Spec /\ CachesFile
/\ []DeletesWhole => AtomicFolder`, that is `Promise!Spec`. A write takes effect when its file
is replaced, filled or removed (`Persist`, `FillFile`, `RemoveFile`), a read with its answer,
and a request that fails may have had its effect or never has one. What has to be shown is that
the closure was applied to the content which the rename replaces, and that a read answered from
the cache answers with the file. `LockInv` says so in terms of the lock alone: who has it and
carries a snapshot carries the content of the file, and past `Apply` the update of it, which is
still possible (`FileOK`); cache and file, and file and resource set, differ only while a
writer of that resource is between the two (`ResourceOK`); and a writer keeps everybody else
out (`Exclusive`, `NobodyElse`). So addresses of snapshots, which `FolderInv` needs, play no
part, and creations and deletions need not be excluded. The hypotheses are `Undisturbed` (no
edits, no write that is reported as failed although it took place: the store would have to do
and to fail in one step), what is said of the behaviour (`CachesFile` as above, and
`DeletesWhole`: what is deleted is not the torn file of a failed creation, which is no content
to the store), and one of two: there are no reads without the lock (`NoBareReads`), or no
resource comes or goes (`Alone`), and then `FolderInv` shows that such reads find in the cache
what is in the file. `UnwatchedIsAtomic` is the case without a watcher and with files that
could all be read at the start: `Spec => AtomicFolder`. `updates` is an instance of it;
creations and deletions are covered by the proof only, since a run with them would need another
instance (`SettledInferred` does not survive a full refresh next to an update). Each action has
a lemma that it keeps `LockInv` and is a step of `AtomicStore` or a stutter.

**At rest.** `SettledProofs` proves what the runs check of a server at rest, each for the
actors under which the code achieves it. What the watcher knows is right at no particular
moment, so each invariant says of every resource that it is right *or* who still owes the
correction: an event of that path in the queue (`Due`), the watcher in one of the steps of its
event, or a handler between two of its steps. At rest nobody is left who could owe anything.

| Theorem | Property | Hypotheses | Invariant |
|---|---|---|---|
| `InferredSettles` | `SettledInferred` | `Alone`, `InitialReady`; `[]ready` of the behaviour | `InferredInv`: nobody refreshes the whole schema, so each write infers its own table, and the table is that of the file but between rename and inference, or while an event of the file is due |
| `UnwatchedInferred` | `SettledInferred` | `Alone`, `InitialReady`, no watcher | nobody withdraws readiness |
| `CreatedOnceOnly` | `CreatedOnce` | `CreatedApart` | `CreationInv`: who makes the file finds none, and it stays there until a request deletes it |
| `SetSettles` | `SettledSet` | the watcher runs, `Scannable`, `CreatedApart`, `DeletedApart` | `SetInv`: set and folder differ at an event that is due, one being compared, or a handler that holds the lock |
| `ReadySettles` | `SettledReady` | the watcher runs, `Scannable`, `ReadsOnly` | `FollowInv`: while the server is ready, a table is that of a readable file, or due |
| `SchemaSettles` | `SettledSchema` | the watcher runs, `Scannable`, `ReadsOnly`, `OverlaysFit` | `OverlayOK`, with `FollowInv` |
| `CacheSettles` | `SettledCache` | the watcher runs, `Scannable`, `ReadsOnly`, `InitialReady`, `OneFileEdited`, `OverlaysSelfContained` | `CacheFollows`: what is cached, and what a reader is about to cache, is the file's content, or the cache of that resource is still to be replaced |

The runs `updates`, `resource_set` and `watched` are instances of these hypotheses; each one
excludes something that the code does not survive. `[]ready`: when readiness is withdrawn, the
next write refreshes the whole schema, over what others write meanwhile (`storage.rs:196`); so
does a creation or deletion, which `Alone` excludes. `Scannable`: an event whose listing of the
folder fails is dropped, and what it was about stays as it was. `CreatedApart` and
`DeletedApart`: registering and removing a resource are two steps of a handler, and another
program that undoes the first between them, whose event is handled there too, leaves set and
folder different. `ReadsOnly`: a request that deletes a resource, another program that writes
its file again while the watcher is between listing and reading, and removes it, leave the
table of a file that is gone. `OverlaysFit`: a torn `schema.json`, or one that does not merge,
makes the watcher give the event up, and the next event makes the server ready under the old
overlay. `OneFileEdited`: with two files the run `stale_cache` is the counterexample, and a
reader may cache the content of a file that was removed after it was read. As in the runs an
edit is made at most once, so a file is removed at most once for each workload.

**Schema.** `SchemaServerProofs` proves of `SchemaServer`, for all names, folders, requests,
edits and overlays:

- `InferenceIsIncremental` (`IncrementalInference`). A written table may change the references
  of others to it; their own columns, from which references are found, do not change. So a
  rebuild from columns is inference (`RebuildByColumns`), and it does not matter which tables
  it goes through (`ReplacingIsInferring`).
- `ReferencesAlwaysResolve`, `RelationsAreMirrored`, `SavingChangesNothing`
  (`ReferencesResolve`, `ManyToManyMirrored`, `SavedSchemaIsEffective`), from `EffectiveInv`. A
  merge that fails leaves the merged schema as it was, while inferred schema and overlay go on,
  so what holds of it cannot be read off those two. The invariant states it of the merged schema
  itself (`IsEffectiveSchema`: keys and references are columns, references resolve, relations are
  derived from the references), and adds that it is the merge of the two whenever the last merge
  succeeded (`IsCurrent`). That no relation hides another is a fact about names
  (`NamesDiffer`): of the junctions between two tables the first gets the plain name, and the
  order of tables says which is first. `ExportComesBack` is the round trip: an exported schema,
  merged with the tables it was exported with, is that schema.
- `KeysAddress`, `InferredAdmits`, `UpdatesAreFound` (`DeclaredKeysAddress`,
  `UniformRowsAdmitted`, `UpdatedItemFound`), from `DocumentsInv`, which types the rows. The
  index takes the last match, an update the first: with distinct keys of one type there is only
  one (`OnlyMatch`), and an update, an id of the server's own choice included, keeps keys
  distinct (`NextNumberIsNew`, `KeysStayDistinct`).
- `SchemasAreComplete` (`GraphqlComplete`), from `EffectiveInv`. The fields of a row type are
  followed through the rounds in which relations take names (`RowFieldSteps`): after each of
  them a field is a column's or leads to a row type (`RowFieldsAre`), and no two have one name
  (`RowNamesApart`). For the latter it matters that a relation goes by its target's name or by
  that and its junction table's, and that no other relation of the table goes through the same
  junction (`RelationsAreNamed`): the second name is always free. The property assumes that
  names of tables can be told apart, and the columns and references of each table; that much
  the proof needs, and `build_schema` fails without it.
- `RowsAlwaysFit` (`GraphqlRowsFit`), from `EffectiveInv` and `DocumentsInv`. A field with a
  scalar type is a column's (`RowTypeIs`), and a column is the overlay's, whose types the
  validation checks (`MatchingFits`), or inferred from these rows: then it is `Int`, `Float` or
  `Boolean` only if all values are (`InferredFits`), and not nullable only if none is missing.
  A `String` field has strings if its column is declared as string, date, datetime or uuid, or
  inferred from values of one type (`UniformMatches`); for the others nothing is claimed.
  The property is about resources with a row type: a table that is declared without any column
  has none, and if another resource's type has the name that its row type would have, nothing
  relates the rows of the one to the fields of the other. TLC's instances have no such names;
  the attempt to prove it found that.

**Locks.** `DbServerProofs` proves `TypeCorrect`, `WritersAreAlone` and `NoCircles`
(`Spec => []WaitUpwards`) of `DbServer`. That a writer is alone cannot be proved from the
handlers alone: what keeps the others away is their place in a queue. The invariant `Inv`
therefore describes each line (`LineOK`): it has exactly the handlers that asked for the lock
and have not dropped it, each once; of any two, one knows that the other was there before;
who went on with the lock is served. Lemmas say what becomes of a line when nothing
happens to it, when somebody joins, is served or leaves (`LineStays`, `LineGrows`, ...).

**Refinement.** `DbRefinementProofs` proves `ImplementsAtomicStore`: `Spec => Linearizable`,
that is `Spec => Promise!Spec`. Abstractly a document is what the cache has, or else what the
synced file has under a name that is served (`Visible`); a write takes effect when it enters
the cache (`HasApplied`), a deletion when it leaves it, or the set, whichever is last; a read
with its last document. For the steps to map, `DataInv` says what handlers rely on: the object
that a writer has read is still the file (`DataOK`), since the file lock is its own; outside
of writers a cached document is that of the synced file, and the resource set is the set of
its keys (`Settled`); what a reader has loaded is unchanged, since it holds the locks; the
file differs from its synced state in the document of the one handler between rename and sync
(`FileInv`), which is why a crash may leave that request, and no other, done or undone.
`WritersAlone` from the first module is what makes each of these stable under the steps of
others. Each action has a lemma that it is a step of `AtomicStore` or a stutter.

**What follows a change.** `LiveProofs` proves `LiveTypeCorrect`,
`CachedIsCurrentUnlessOvertaken` and `PageCatchesUp` of `LiveServer`. `StepCases` divides the
steps: one changes documents or schemas and leaves a duty to invalidate or a merge that
failed, the others leave them alone. With that, nothing has to be known of inference, merging
and building. `GraphqlInv` extends the property to the builds under way: one that knows of no
change has listed what there is, and read what there is. `PageInv` says that a page that
shows an old state has a timer, an event under way, or a handler that will send one; a
receiver that lags still finds an event, which is where the proof needs that the channel
keeps at least one.

**Clones.** `LiveProofs` also proves `ClonedIdsStayDistinct` and `StoredItemsStay`
(`ClonedIdsDistinct`, `StoredItemsFound`) of `LiveServer`. Between the answer of the remote
server and the write other fetches of the same resource end, the remote server changes, and the
one that stores may have seen the resource before or after another made it. `CloneInv` says of
each fetch on its way that what it holds can be stored, one item under the id that was asked
for, and that a resource it has seen is still there; then an item that is merged takes the place
of the one with its id or is new, and no other is lost (`WithItemIs`). Both theorems assume
`CloneApart`: nobody but the proxy writes that resource, and the remote server's rows have
an `id` each, scalar and all different. That stored items are also *found* needs in addition
that the index looks under `id` (`CloneKeyedById`: the name that inference tries first, and no
overlay declares another), which `KeyInv` follows through every merge, save and reload. `live`
is an instance of both. Without the first, a remote array with one id twice is stored as it is.

**Queries.** `QueryProofs` proves of `QuerySessions`, for all tables, queries, orders of numbers
and texts, limits and rows that are added meanwhile:

- `SortingStaysSound` (`SortingIsSound`). A strict order of finitely many rows gives each a
  place, the number of those before it (`OrderGivesPlaces`), so the stable sort that the model
  chooses exists (`SortingExists`). If each column has values of one kind,
  each comparison is a total preorder (`ColumnIsTotal`), and the columns compose
  lexicographically (`FromIsLexicographic`); without that premise `9`, `10` and `"2"` go round
  in a circle.
- `FilteringStaysSound` (`FilteringIsSound`). Filters with and without column types agree on
  values of the column's type, and what lies between two values is an interval of the sorted
  rows, since a filter compares by the ranks that sorting goes by.
- `WalksVisitOnce` (`WalkVisitsOnce`). The inductive invariant `WalkOK` says that what the
  client has received is the part of its selection from its start, and how long that part is
  by its cursor: whole pages, or the rows counted so far. A step needs the arithmetic of pages
  (`PageWalks`, `RowsWalk`) and that parts that follow each other are one part (`PartsJoin`);
  a row that is added comes last in the selection, or is not in it, because ids grow
  (`AppendedComesLast`, `SelectedGrows`).
- `NamesResolve` (`FieldsResolve`). By induction over the joins a materialized row is made of
  one row of each table, each below its own name (`MaterializedSteps`, `NamesLead`). TLC's
  instances had shown no name that is both the resource of one join and the alias of another;
  the proof failed there, hence the exception above.
- `JoinsCommute` (`JoinCommutes`), `LookupsJoin` (`LookupsAreJoins`). One join has a row for
  each pair that its link holds of (`OneJoin`, `PairsAre`), which are the same pairs, as many
  times, with the tables exchanged. An embedded row is the only joined one where keys are
  unique, and two joins meet where a junction row meets both ends (`TwoJoins`). The premises
  of `LookupsAreJoins` (`KeysTell`, no table joined to itself without an alias) come from the
  proof.

Materializing, flattening and page after page are recursive functions; a lemma says of each that
the function exists, and induction goes over places that are bounded by a length
(`UpwardInduction`), of one fixed statement each time.

Assumptions on constants: the sentinels differ from the values they stand beside
(`NoItemAssumption`, `AbsentAssumption`, `GarbageAssumption`, `NoTableAssumption`,
`NoTargetAssumption`, `NoValueAssumption`, `UnvalidatedAssumption`, `NoEntryAssumption`,
`NoRequestAssumption`, `SchemaFileAssumption`, `NoLockAssumption`, `NoKindAssumption`),
resources are finite, the workloads consist of requests (`RequestAssumption` in
`SchemaServer`), edits and overlays are such (`EditsAssumption`, `OverlaysAssumption`),
the server can start from the initial folder (`InitialAssumption`, `FolderAssumption`),
ranks order the names of locks (`RankAssumption`), tables have an order
(`TableOrderAssumption`), the names that a table's key may have are a list
(`KeyCandidatesAssumption`), and so have the names that relations may have, which are those of
tables and pairs of them (`RelationOrderAssumption`), different numbers print differently (`NumberTextAssumption`),
no resource has the name of the file's lock (`DbAssumption`), and bounds are numbers
(`LimitsAssumption`). Queries go by numbers and texts that have ranks (`TextsAssumption`), on
tables of values as serde_json prints them (`RowsAssumption`) in which foreign keys refer to
tables (`ReferencesAssumption`, which `SchemaServer` shows of schemas); rows that are added have
greater ids, as `next_numeric_id` gives them (`PostsAssumption`); pages have a row at least, and
joins compare qualified columns, as the parsers see to (`RequestsAssumption`). TLC evaluates all
of them in the runs.

Only model-checked: liveness (`RequestsAnswered` of both servers, `EventsHandled`, `Recovers`),
which the prover does not reach. Every other property of a passing run is a theorem.

## 6. Not modelled

`PROJECT.json` lists every component with its status. Left out:

- of files: crashes in a folder (each file there is replaced like the database file), the
  temporary file's own name and content, a disk that lies about syncs. `Restart` takes what
  it finds as synced;
- of `DbServer`: the watcher and other programs, a declared schema, a failing directory
  sync (a fault of `recovery`; a write that it reports as failed is applied all the same, so
  `Linearizable` is about syncs that succeed), and of the refresh of the schema everything but
  whether it fails, since no answer depends on the rest;
- cancelled requests, events with several paths, the id index as part of a cache entry, the
  `--schema` option, the width of ids;
- of queries the projection of SQL, arrays as foreign keys, and queries without LIMIT; of
  schemas the steps between which concurrent requests meet, and object documents, which
  have no inferred table; of GraphQL what the async-graphql library does, the checks of its
  `finish` included, which reject a schema without root fields;
- of clones the transport, its errors and time limits; of the page what it renders and how
  it reconnects.

For good: rendering, parsers, the command line, middleware and metrics, which keep no state
the rest depends on. The revision counter of the code wraps at 2^64; the model's does not.
