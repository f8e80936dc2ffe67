---------------------------- MODULE ResourceStore ----------------------------
(***************************************************************************)
(* Requests against a folder of <resource>.json files: storage.rs,         *)
(* storage/cache.rs, storage/io.rs, mutation_service.rs,                   *)
(* resource_service.rs and the PUT of schema_routes.rs.                    *)
(*                                                                         *)
(* A task is one request.  Its steps are cut where another task, or the    *)
(* watcher thread, can get in between: at every access to a lock, to the   *)
(* cache, to the resource set, to the schema store, to the readiness flag  *)
(* and to the file system.                                                 *)
(***************************************************************************)
EXTENDS SchemaStore, Sequences

CONSTANTS
    Task,           \* requests; each one is handled once
    Workload,       \* the requests each task may turn out to be
    Arc,            \* addresses of shared snapshots (Arc<Value>)
    NoArc,
    NoEntry,        \* a resource that is not cached
    Unvalidated,    \* validation_revision: None
    Absent,         \* no such file
    Garbage,        \* a file that does not parse: torn or invalid JSON
    SchemaFile,     \* the name of schema.json, as a watched path
    NoRequest, NoValue,
    Faults,         \* which I/O failures a run has: "rename", "sync", "create",
                    \* "schema" (fs::write of schema.json) and "scan" (of the folder)
    WatcherRunning  \* start_resource_watcher got its OS watch

VARIABLES
    disk,       \* content of each resource file
    schemaFile, \* content of schema.json
    resources,  \* AppState.resources, the names served
    cache,      \* AppState.resource_cache
    schema,     \* AppState.schema_store
    ready,      \* HealthState.ready
    task,       \* the handlers in flight
    queue       \* paths the OS reported and the watcher has yet to handle

storeVars == <<disk, schemaFile, resources, cache, schema, ready, queue>>
requestVars == <<disk, schemaFile, resources, cache, schema, ready, queue, task>>

FileContent == {Absent, Garbage} \cup Snapshot
SchemaContent == {Absent, Garbage} \cup Overlay
Entry == [arc : Arc, value : Snapshot, rev : {Unvalidated} \cup Nat]

ReadOps == {"read", "relation_read"}
Ops == ReadOps \cup UpdateOps \cup {"create_resource", "delete_resource", "put_schema"}
Request == [op : Ops, res : Resource, id : Id, item : Item,
            doc : Snapshot, overlay : Overlay]

ASSUME WorkloadAssumption == Workload \in [Task -> SUBSET Request]
ASSUME AbsentAssumption == Absent \notin {Garbage} \cup Snapshot \cup Overlay
ASSUME GarbageAssumption == Garbage \notin Snapshot \cup Overlay
ASSUME NoValueAssumption == NoValue \notin Snapshot
ASSUME NoEntryAssumption == NoEntry \notin Entry
ASSUME NoRequestAssumption == NoRequest \notin Request
ASSUME UnvalidatedAssumption == Unvalidated \notin Nat
\* "schema" is a reserved resource name (storage/io.rs).
ASSUME SchemaFileAssumption == SchemaFile \notin Resource

\* Both the current and the resulting snapshot are validated (BeforeAndAfter),
\* or only the result (AfterOnly).
BeforeAndAfter == {"create_item", "patch_item", "delete_item"}
AfterOnly == UpdateOps \ BeforeAndAfter
SetOps == {"create_resource", "delete_resource"}

PC == {"idle", "acquire", "revision", "lookup", "registered", "open", "admit",
       "mark", "insert", "apply", "readiness", "persist", "install", "infer",
       "snapshot", "scan", "mark_ready", "certify", "announce", "validate",
       "create", "fill", "register", "cache_new", "remove", "unregister",
       "uncache", "merge", "truncate", "write_schema", "adopt", "done"}

TaskState ==
    [pc : PC, req : {NoRequest} \cup Request, guard : {"none", "read", "write"},
     arc : {NoArc} \cup Arc, value : {NoValue} \cup Snapshot,
     rev : {Unvalidated} \cup Nat, local : BOOLEAN,
     todo : SUBSET Resource, tables : Tables,
     made : Id, status : {"pending", "ok", "error"}]

IdleTask ==
    [pc |-> "idle", req |-> NoRequest, guard |-> "none", arc |-> NoArc,
     value |-> NoValue, rev |-> Unvalidated, local |-> FALSE, todo |-> {},
     tables |-> NoTables, made |-> Root, status |-> "pending"]

-----------------------------------------------------------------------------
\* Helpers.

At(t, pc) == task[t].pc = pc
Res(t) == task[t].req.res
Op(t) == task[t].req.op

Goto(t, pc) == task' = [task EXCEPT ![t].pc = pc]

\* An error return: the handler's guards are dropped.
Fail(t) ==
    task' = [task EXCEPT ![t] = [IdleTask EXCEPT !.pc = "done",
                                     !.req = task[t].req, !.status = "error"]]

\* Success: what the response carries is kept.
Succeed(t) ==
    task' = [task EXCEPT ![t] = [IdleTask EXCEPT !.pc = "done",
                                     !.req = task[t].req, !.status = "ok",
                                     !.value = task[t].value, !.rev = task[t].rev,
                                     !.made = task[t].made]]

\* A new Arc<Value>: an address nobody holds (ptr_eq compares addresses).
ArcsInUse ==
    {cache[r].arc : r \in {q \in Resource : cache[q] # NoEntry}}
        \cup {task[t].arc : t \in Task}
FreshArc == CHOOSE a \in Arc : a \notin ArcsInUse
ArcAvailable == \E a \in Arc : a \notin ArcsInUse

\* Every change of a watched path is reported to the watcher, if it runs.
Notify(path) == queue' = IF WatcherRunning THEN Append(queue, path) ELSE queue

WriteDisk(r, content) ==
    /\ disk' = [disk EXCEPT ![r] = content]
    /\ Notify(r)

\* Mutant: the Arc identity is not compared.
MarkValidatedAnyway(r, arc, value, rev) ==
    cache' = [cache EXCEPT ![r] = [arc |-> arc, value |-> value, rev |-> rev]]

\* mark_cached_resource_validated: installs unless another snapshot is cached.
MarkValidated(r, arc, value, rev) ==
    cache' = IF cache[r] # NoEntry /\ cache[r].arc # arc THEN cache
             ELSE [cache EXCEPT ![r] = [arc |-> arc, value |-> value, rev |-> rev]]

\* update_cached_resource: installs in any case, without a revision.
UpdateCached(r, arc, value) ==
    cache' = [cache EXCEPT ![r] = [arc |-> arc, value |-> value, rev |-> Unvalidated]]

-----------------------------------------------------------------------------
\* Arrival and locks.

FirstStep(op) ==
    CASE op = "relation_read" -> "revision"
      [] op = "create_resource" -> "validate"
      [] op = "put_schema" -> "merge"
      [] OTHER -> "acquire"

Submit(t) ==
    /\ At(t, "idle")
    /\ \E req \in Workload[t] :
           task' = [task EXCEPT ![t].pc = FirstStep(req.op), ![t].req = req]
    /\ UNCHANGED storeVars

\* Mutant: writers do not exclude each other.
LockFreeAlways(t, mode) == TRUE

\* The per-resource RwLock.
LockFree(t, mode) ==
    \A u \in Task \ {t} :
        task[u].guard # "none" /\ Res(u) = Res(t)
            => mode = "read" /\ task[u].guard = "read"

Acquire(t) ==
    /\ At(t, "acquire")
    /\ LET mode == IF Op(t) = "read" THEN "read" ELSE "write"
       IN  /\ LockFree(t, mode)
           /\ task' = [task EXCEPT ![t].guard = mode,
                  ![t].pc = IF Op(t) \in SetOps THEN "registered"
                            ELSE IF Op(t) \in AfterOnly THEN "lookup"
                            ELSE "revision"]
    /\ UNCHANGED storeVars

-----------------------------------------------------------------------------
\* load_resource and, for AfterOnly updates, load_resource_unvalidated.

Validated(t) == Op(t) \notin AfterOnly

ReadRevision(t) ==
    /\ At(t, "revision")
    /\ task' = [task EXCEPT ![t].pc = "lookup", ![t].rev = schema.revisions[Res(t)]]
    /\ UNCHANGED storeVars

\* The loaded snapshot is the response of a read, the input of an update.
Loaded(t, entry) ==
    task' = [task EXCEPT ![t] =
                IF Op(t) \in ReadOps
                THEN [IdleTask EXCEPT !.pc = "done", !.req = task[t].req,
                          !.status = "ok", !.value = entry.value, !.rev = entry.rev]
                ELSE [@ EXCEPT !.pc = "apply", !.arc = entry.arc,
                          !.value = entry.value, !.rev = entry.rev]]

LookupHit(t) ==
    /\ At(t, "lookup")
    /\ cache[Res(t)] # NoEntry
    /\ Validated(t) => cache[Res(t)].rev = task[t].rev
    /\ Loaded(t, cache[Res(t)])
    /\ UNCHANGED storeVars

LookupStale(t) ==
    /\ At(t, "lookup")
    /\ cache[Res(t)] # NoEntry
    /\ Validated(t) /\ cache[Res(t)].rev # task[t].rev
    /\ task' = [task EXCEPT ![t].pc = "admit", ![t].arc = cache[Res(t)].arc,
                            ![t].value = cache[Res(t)].value]
    /\ UNCHANGED storeVars

LookupMiss(t) ==
    /\ At(t, "lookup")
    /\ cache[Res(t)] = NoEntry
    /\ Goto(t, "registered")
    /\ UNCHANGED storeVars

\* resources.contains: 404 for a load or a delete, 409 for a create.
CheckRegistered(t) ==
    /\ At(t, "registered")
    /\ IF (Res(t) \in resources) = (Op(t) = "create_resource")
       THEN Fail(t)
       ELSE Goto(t, CASE Op(t) = "create_resource" -> "create"
                      [] Op(t) = "delete_resource" -> "remove"
                      [] OTHER -> "open")
    /\ UNCHANGED storeVars

\* Mutant: the content is not parsed.
OpenFileRaw(t) ==
    /\ At(t, "open")
    /\ disk[Res(t)] # Absent
    /\ ArcAvailable
    /\ task' = [task EXCEPT ![t].pc = IF Validated(t) THEN "admit" ELSE "insert",
                            ![t].value = disk[Res(t)], ![t].arc = FreshArc]
    /\ UNCHANGED storeVars

OpenFile(t) ==
    /\ At(t, "open")
    /\ disk[Res(t)] \in Snapshot
    /\ ArcAvailable
    /\ task' = [task EXCEPT ![t].pc = IF Validated(t) THEN "admit" ELSE "insert",
                            ![t].value = disk[Res(t)], ![t].arc = FreshArc]
    /\ UNCHANGED storeVars

\* Mutant: a read that fails is tried again.
OpenFailsRetried(t) ==
    /\ At(t, "open")
    /\ disk[Res(t)] \notin Snapshot
    /\ Goto(t, "registered")
    /\ UNCHANGED storeVars

\* The file is gone (404) or does not parse (500).
OpenFails(t) ==
    /\ At(t, "open")
    /\ disk[Res(t)] \notin Snapshot
    /\ Fail(t)
    /\ UNCHANGED storeVars

\* Mutant: the snapshot gets the current revision without validation.
AdmitUnchecked(t) ==
    /\ At(t, "admit")
    /\ task' = [task EXCEPT ![t].pc = "mark", ![t].rev = schema.revisions[Res(t)]]
    /\ UNCHANGED storeVars

\* validate_resource_snapshot: revision and table are read together.
Admit(t) ==
    /\ At(t, "admit")
    /\ IF Admits(schema.declared[Res(t)], task[t].value)
       THEN task' = [task EXCEPT ![t].pc = "mark", ![t].rev = schema.revisions[Res(t)]]
       ELSE Fail(t)
    /\ UNCHANGED storeVars

Mark(t) ==
    /\ At(t, "mark")
    /\ MarkValidated(Res(t), task[t].arc, task[t].value, task[t].rev)
    /\ Loaded(t, task[t])
    /\ UNCHANGED <<disk, schemaFile, resources, schema, ready, queue>>

InsertIfAbsent(t) ==
    /\ At(t, "insert")
    /\ cache' = IF cache[Res(t)] # NoEntry THEN cache
                ELSE [cache EXCEPT ![Res(t)] =
                         [arc |-> task[t].arc, value |-> task[t].value,
                          rev |-> Unvalidated]]
    /\ Goto(t, "apply")
    /\ UNCHANGED <<disk, schemaFile, resources, schema, ready, queue>>

-----------------------------------------------------------------------------
\* update_locked_resource and write_resource_snapshot.

\* The closure and the validation of its result; the new value is a new Arc.
Apply(t) ==
    /\ At(t, "apply")
    /\ LET s == task[t].value
           new == Updated(task[t].req, s)
       IN  IF /\ CanUpdate(task[t].req, s)
              /\ Admits(schema.declared[Res(t)], new)
           THEN /\ ArcAvailable
                /\ task' = [task EXCEPT ![t].pc = "readiness", ![t].value = new,
                               ![t].arc = FreshArc,
                               ![t].rev = schema.revisions[Res(t)],
                               ![t].made = Position(task[t].req, s)]
           ELSE Fail(t)
    /\ UNCHANGED storeVars

ReadReadiness(t) ==
    /\ At(t, "readiness")
    /\ task' = [task EXCEPT ![t].pc = "persist", ![t].local = ready]
    /\ UNCHANGED storeVars

\* write_json_atomically: the rename publishes the whole file at once.
Persist(t) ==
    /\ At(t, "persist")
    /\ WriteDisk(Res(t), task[t].value)
    /\ Goto(t, "install")
    /\ UNCHANGED <<schemaFile, resources, cache, schema, ready>>

\* Mutant: the cache is updated before the file is.
PersistFailsCached(t) ==
    /\ At(t, "persist")
    /\ "rename" \in Faults
    /\ UpdateCached(Res(t), task[t].arc, task[t].value)
    /\ Fail(t)
    /\ UNCHANGED <<disk, schemaFile, resources, schema, ready, queue>>

\* An I/O error up to the rename leaves the file as it was ...
PersistFails(t) ==
    /\ At(t, "persist")
    /\ "rename" \in Faults
    /\ Fail(t)
    /\ UNCHANGED storeVars

\* ... one in sync_parent_dir after it reports a failure of a write that took
\* place.  The same holds for a new file and for the removal of one.
SyncFails(t) ==
    /\ "sync" \in Faults
    /\ \/ At(t, "persist") /\ WriteDisk(Res(t), task[t].value)
       \/ At(t, "fill") /\ WriteDisk(Res(t), task[t].req.doc)
       \/ At(t, "remove") /\ disk[Res(t)] # Absent /\ WriteDisk(Res(t), Absent)
    /\ Fail(t)
    /\ UNCHANGED <<schemaFile, resources, cache, schema, ready>>

InstallInCache(t) ==
    /\ At(t, "install")
    /\ UpdateCached(Res(t), task[t].arc, task[t].value)
    /\ Goto(t, IF task[t].local THEN "infer" ELSE "snapshot")
    /\ UNCHANGED <<disk, schemaFile, resources, schema, ready, queue>>

\* replace_inferred: the error return comes after the assignment.
InstallInferred(t, inferred, next) ==
    /\ schema' = ReplaceInferred(schema, inferred)
    /\ IF Mergeable(schema.declared, inferred) THEN Goto(t, next) ELSE Fail(t)

\* Mutant: an update does not refresh the inferred table.
InferLocallySkipped(t) ==
    /\ At(t, "infer")
    /\ Goto(t, "certify")
    /\ UNCHANGED storeVars

\* The table of this resource goes into the latest inferred schema.
InferLocally(t) ==
    /\ At(t, "infer")
    /\ InstallInferred(t,
           [schema.inferred EXCEPT ![Res(t)] = InferTable(task[t].value)], "certify")
    /\ UNCHANGED <<disk, schemaFile, resources, cache, ready, queue>>

Certify(t) ==
    /\ At(t, "certify")
    /\ MarkValidated(Res(t), task[t].arc, task[t].value, task[t].rev)
    /\ Succeed(t)
    /\ UNCHANGED <<disk, schemaFile, resources, schema, ready, queue>>

-----------------------------------------------------------------------------
\* refresh_inferred_schema: all files of the resource set, read one by one.

SnapshotResources(t) ==
    /\ At(t, "snapshot")
    /\ task' = [task EXCEPT ![t].pc = "scan", ![t].todo = resources,
                            ![t].tables = NoTables]
    /\ UNCHANGED storeVars

ScanFile(t) ==
    /\ At(t, "scan")
    /\ \E r \in task[t].todo :
           IF disk[r] \in Snapshot
           THEN task' = [task EXCEPT ![t].todo = @ \ {r},
                                     ![t].tables[r] = InferTable(disk[r])]
           ELSE Fail(t)
    /\ UNCHANGED storeVars

InstallRefreshed(t) ==
    /\ At(t, "scan")
    /\ task[t].todo = {}
    /\ InstallInferred(t, task[t].tables, "mark_ready")
    /\ UNCHANGED <<disk, schemaFile, resources, cache, ready, queue>>

MarkReady(t) ==
    /\ At(t, "mark_ready")
    /\ ready' = TRUE
    /\ Goto(t, IF Op(t) \in UpdateOps THEN "certify" ELSE "announce")
    /\ UNCHANGED <<disk, schemaFile, resources, cache, schema, queue>>

\* The second mark_ready of a resource set change, and the one of PUT /schema.
Announce(t) ==
    /\ At(t, "announce")
    /\ ready' = TRUE
    /\ Succeed(t)
    /\ UNCHANGED <<disk, schemaFile, resources, cache, schema, queue>>

-----------------------------------------------------------------------------
\* resource_service.rs: the resource set.

\* The initial document is validated before the lock is taken.
ValidateInitial(t) ==
    /\ At(t, "validate")
    /\ IF Admits(schema.declared[Res(t)], task[t].req.doc)
       THEN Goto(t, "acquire") ELSE Fail(t)
    /\ UNCHANGED storeVars

\* Mutant: an existing file is truncated, File::create.
CreateFileTruncating(t) ==
    /\ At(t, "create")
    /\ WriteDisk(Res(t), Garbage)
    /\ Goto(t, "fill")
    /\ UNCHANGED <<schemaFile, resources, cache, schema, ready>>

\* create_new(true): an empty file appears before its content does.
CreateFile(t) ==
    /\ At(t, "create")
    /\ IF disk[Res(t)] = Absent
       THEN WriteDisk(Res(t), Garbage) /\ Goto(t, "fill")
       ELSE UNCHANGED <<disk, queue>> /\ Fail(t)
    /\ UNCHANGED <<schemaFile, resources, cache, schema, ready>>

FillFile(t) ==
    /\ At(t, "fill")
    /\ WriteDisk(Res(t), task[t].req.doc)
    /\ Goto(t, "register")
    /\ UNCHANGED <<schemaFile, resources, cache, schema, ready>>

\* A failing write leaves the torn file behind.
FillFails(t) ==
    /\ At(t, "fill")
    /\ "create" \in Faults
    /\ Fail(t)
    /\ UNCHANGED storeVars

Register(t) ==
    /\ At(t, "register")
    /\ resources' = resources \cup {Res(t)}
    /\ Goto(t, "cache_new")
    /\ UNCHANGED <<disk, schemaFile, cache, schema, ready, queue>>

CacheNew(t) ==
    /\ At(t, "cache_new")
    /\ ArcAvailable
    /\ UpdateCached(Res(t), FreshArc, task[t].req.doc)
    /\ Goto(t, "snapshot")
    /\ UNCHANGED <<disk, schemaFile, resources, schema, ready, queue>>

RemoveFile(t) ==
    /\ At(t, "remove")
    /\ IF disk[Res(t)] # Absent
       THEN WriteDisk(Res(t), Absent) /\ Goto(t, "unregister")
       ELSE UNCHANGED <<disk, queue>> /\ Fail(t)
    /\ UNCHANGED <<schemaFile, resources, cache, schema, ready>>

Unregister(t) ==
    /\ At(t, "unregister")
    /\ resources' = resources \ {Res(t)}
    /\ Goto(t, "uncache")
    /\ UNCHANGED <<disk, schemaFile, cache, schema, ready, queue>>

Uncache(t) ==
    /\ At(t, "uncache")
    /\ cache' = [cache EXCEPT ![Res(t)] = NoEntry]
    /\ Goto(t, "snapshot")
    /\ UNCHANGED <<disk, schemaFile, resources, schema, ready, queue>>

-----------------------------------------------------------------------------
\* save_declared_schema (PUT /schema).

CheckMerge(t) ==
    /\ At(t, "merge")
    /\ IF Mergeable(task[t].req.overlay, schema.inferred)
       THEN Goto(t, "truncate") ELSE Fail(t)
    /\ UNCHANGED storeVars

\* fs::write truncates the file, then fills it.
WriteSchemaFile(t) ==
    /\ \/ /\ At(t, "truncate")
          /\ schemaFile' = Garbage
          /\ Goto(t, "write_schema")
       \/ /\ At(t, "write_schema")
          /\ schemaFile' = task[t].req.overlay
          /\ Goto(t, "adopt")
    /\ Notify(SchemaFile)
    /\ UNCHANGED <<disk, resources, cache, schema, ready>>

\* The open fails and leaves the file alone, or the write fails and leaves it
\* torn.
WriteSchemaFails(t) ==
    /\ "schema" \in Faults
    /\ At(t, "truncate") \/ At(t, "write_schema")
    /\ Fail(t)
    /\ UNCHANGED storeVars

AdoptDeclared(t) ==
    /\ At(t, "adopt")
    /\ IF CanReplaceDeclared(schema, task[t].req.overlay)
       THEN /\ RevisionsLeft(schema, task[t].req.overlay)
            /\ schema' = ReplaceDeclared(schema, task[t].req.overlay)
            /\ Goto(t, "announce")
       ELSE UNCHANGED schema /\ Fail(t)
    /\ UNCHANGED <<disk, schemaFile, resources, cache, ready, queue>>

-----------------------------------------------------------------------------

Load(t) ==
    \/ ReadRevision(t) \/ LookupHit(t) \/ LookupStale(t) \/ LookupMiss(t)
    \/ CheckRegistered(t) \/ OpenFile(t) \/ OpenFails(t)
    \/ Admit(t) \/ Mark(t) \/ InsertIfAbsent(t)

Update(t) ==
    \/ Apply(t) \/ ReadReadiness(t) \/ Persist(t) \/ PersistFails(t)
    \/ SyncFails(t) \/ InstallInCache(t) \/ InferLocally(t) \/ Certify(t)

Refresh(t) ==
    \/ SnapshotResources(t) \/ ScanFile(t) \/ InstallRefreshed(t)
    \/ MarkReady(t) \/ Announce(t)

ManageSet(t) ==
    \/ ValidateInitial(t) \/ CreateFile(t) \/ FillFile(t) \/ FillFails(t)
    \/ Register(t) \/ CacheNew(t) \/ RemoveFile(t) \/ Unregister(t) \/ Uncache(t)

PutSchema(t) ==
    \/ CheckMerge(t) \/ WriteSchemaFile(t) \/ WriteSchemaFails(t) \/ AdoptDeclared(t)

Handle(t) == Acquire(t) \/ Load(t) \/ Update(t) \/ Refresh(t) \/ ManageSet(t) \/ PutSchema(t)
=============================================================================
