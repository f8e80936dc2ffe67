------------------------------- MODULE Dirbase -------------------------------
(***************************************************************************)
(* The server: requests, the watcher thread and the people and programs    *)
(* that edit the folder under it.                                          *)
(***************************************************************************)
EXTENDS Watcher

CONSTANTS
    InitialDisk,    \* content of the folder when the server starts
    InitialSchema,  \* content of schema.json when the server starts
    Edits           \* external edits, each made at most once

VARIABLE edits      \* the edits still to come

vars == <<disk, schemaFile, resources, cache, schema, ready, queue, task, watcher, edits>>

Edit == [path : Resource, content : FileContent] \cup
        [path : {SchemaFile}, content : SchemaContent]

\* main.rs: the resource set is scanned, the schema inferred from every file;
\* a file that does not parse starts the server not ready, without tables.
InitialResources == {r \in Resource : InitialDisk[r] # Absent}
InitialReady == \A r \in InitialResources : InitialDisk[r] \in Snapshot
InitialTables ==
    [r \in Resource |-> IF InitialReady /\ r \in InitialResources
                        THEN InferTable(InitialDisk[r]) ELSE NoTable]
InitialOverlay == IF InitialSchema = Absent THEN NoOverlay ELSE InitialSchema

\* The server exits at startup if the schema file is unusable.
ASSUME InitialAssumption ==
    /\ InitialDisk \in [Resource -> FileContent]
    /\ InitialSchema \in {Absent} \cup Overlay
    /\ Edits \subseteq Edit
    /\ Mergeable(InitialOverlay, InitialTables)

Init ==
    /\ disk = InitialDisk
    /\ schemaFile = InitialSchema
    /\ resources = InitialResources
    /\ cache = [r \in Resource |-> NoEntry]
    /\ schema = NewStore(InitialOverlay, InitialTables)
    /\ ready = InitialReady
    /\ queue = <<>>
    /\ task = [t \in Task |-> IdleTask]
    /\ watcher = WaitingWatcher
    /\ edits = Edits

RequestStep(t) == (Submit(t) \/ Handle(t)) /\ UNCHANGED <<watcher, edits>>

WatcherStep == Watch /\ UNCHANGED edits

ExternalEdit ==
    /\ \E e \in edits :
           /\ edits' = edits \ {e}
           /\ Notify(e.path)
           /\ IF e.path = SchemaFile
              THEN schemaFile' = e.content /\ UNCHANGED disk
              ELSE disk' = [disk EXCEPT ![e.path] = e.content] /\ UNCHANGED schemaFile
    /\ UNCHANGED <<resources, cache, schema, ready, task, watcher>>

\* Nothing is left to do: the server waits for the next request.
Quiescent ==
    /\ \A t \in Task : At(t, "done")
    /\ WatcherAt("waiting")
    /\ queue = <<>>
    /\ edits = {}
Rest == Quiescent /\ UNCHANGED vars

Next ==
    \/ \E t \in Task : RequestStep(t)
    \/ WatcherStep
    \/ ExternalEdit
    \/ Rest

\* Every handler is driven by the runtime, the watcher has a thread of its
\* own.  A task waiting for a lock is only owed it if the lock is free; nobody
\* owes the folder an edit or the server a request.
Fairness ==
    /\ \A t \in Task : WF_vars(Handle(t) /\ UNCHANGED <<watcher, edits>>)
    /\ WF_vars(WatcherStep)

Spec == Init /\ [][Next]_vars
FairSpec == Spec /\ Fairness

-----------------------------------------------------------------------------
(***************************************************************************)
(* Properties.                                                             *)
(***************************************************************************)

\* Every variable stays within its type.
TypeOK ==
    /\ disk \in [Resource -> FileContent]
    /\ schemaFile \in SchemaContent
    /\ resources \subseteq Resource
    /\ cache \in [Resource -> {NoEntry} \cup Entry]
    /\ schema \in Store
    /\ ready \in BOOLEAN
    /\ queue \in Seq({SchemaFile} \cup Resource)
    /\ task \in [Task -> TaskState]
    /\ watcher \in WatcherState
    /\ edits \subseteq Edits

\* A cached snapshot that carries the current revision of its declared table
\* satisfies that table, although validation, the write and the replacement of
\* the overlay are separate steps of different tasks: load_resource trusts it.
CacheAdmission ==
    \A r \in Resource :
        cache[r] # NoEntry /\ cache[r].rev = schema.revisions[r]
            => Admits(schema.declared[r], cache[r].value)

\* So does a response: a read that was answered under the revision still in
\* force did not return rows the declared schema rejects.
ReadAdmission ==
    \A t \in Task :
        /\ At(t, "done")
        /\ task[t].value # NoValue
        /\ task[t].rev = schema.revisions[Res(t)]
        => Admits(schema.declared[Res(t)], task[t].value)

\* Nothing is trusted, and nothing served, that the declared schema in force
\* rejects (load_resource).
Admission == CacheAdmission /\ ReadAdmission

\* Some task holds the write lock of r.
BeingWritten(r) == \E t \in Task : task[t].guard = "write" /\ Res(t) = r

\* Some request may have taken the items of r away.
Removers == {"delete_item", "replace_object", "delete_resource", "create_resource"}
Removed(r, i) ==
    \E t \in Task : /\ task[t].req # NoRequest
                    /\ Res(t) = r
                    /\ Op(t) \in Removers
                    /\ Op(t) = "delete_item" => task[t].req.id = i

Created(t) == At(t, "done") /\ task[t].status = "ok" /\ Op(t) = "create_item"

\* A POST that was answered stays in the file: no later request, however it
\* interleaved, writes a snapshot without the item ("concurrent posts to same
\* collection do not lose writes").
NoLostCreate ==
    \A t \in Task :
        Created(t) /\ ~Removed(Res(t), task[t].made) =>
            /\ disk[Res(t)] \in Snapshot
            /\ disk[Res(t)][task[t].made] # NoItem

\* Two POSTs never answer with the same new id.
DistinctIds ==
    \A t, u \in Task :
        /\ Created(t) /\ Created(u) /\ t # u /\ Res(t) = Res(u)
        /\ \A v \in Task : task[v].req # NoRequest => Op(v) \notin Removers
        => task[t].made # task[u].made

\* Two creations of a resource are both answered with success only if it was
\* deleted in between, even when the watcher publishes a set of resources it
\* listed before the first creation.
CreatedOnce ==
    \A t, u \in Task :
        /\ t # u
        /\ \A v \in {t, u} :
               At(v, "done") /\ Op(v) = "create_resource" /\ task[v].status = "ok"
        /\ Res(t) = Res(u)
        => \E v \in Task : /\ task[v].req # NoRequest
                           /\ Op(v) = "delete_resource" /\ Res(v) = Res(t)

\* As long as no other program edits the folder, and the watcher caches nothing
\* that a request has replaced since, a cached snapshot is the content of the
\* file whenever nobody holds the write lock of the resource.
CacheMatchesDisk ==
    \A r \in Resource :
        cache[r] # NoEntry /\ ~BeingWritten(r) => cache[r].value = disk[r]

\* The properties below are about the server at rest: all requests answered,
\* all events handled, no edit to come.

\* What is cached is what is in the file, if that can be read.
SettledCache ==
    Quiescent => \A r \in Resource :
        cache[r] # NoEntry /\ disk[r] # Garbage => cache[r].value = disk[r]

\* A ready server's inferred schema is that of the files.
TableOf(content) == IF content \in Snapshot THEN InferTable(content) ELSE NoTable
DiskTables == [r \in Resource |-> TableOf(disk[r])]
SettledInferred == Quiescent /\ ready => schema.inferred = DiskTables

\* The resources served are the files of the folder.
SettledSet == Quiescent => resources = {r \in Resource : disk[r] # Absent}

\* A ready server can read every resource.
SettledReady ==
    Quiescent /\ ready => \A r \in resources : disk[r] \in Snapshot

\* A ready server's overlay is the one in schema.json.
FileOverlay == IF schemaFile = Absent THEN NoOverlay ELSE schemaFile
SettledOverlay == Quiescent /\ ready => schema.declared = FileOverlay

\* Both follow what others write (start_resource_watcher).
SettledSchema == SettledInferred /\ SettledOverlay

\* Every request that arrived is answered, every event is handled.
RequestsAnswered == \A t \in Task : ~At(t, "idle") ~> At(t, "done")
EventsHandled == queue # <<>> ~> queue = <<>> /\ WatcherAt("waiting")

\* Once the folder is repaired for good the server becomes ready by itself:
\* every file parses and the overlay in schema.json fits the tables of the
\* files, whatever requests and events failed before.  The folder must be
\* listable from then on: an event whose listing fails is dropped for ever.
Repaired ==
    /\ \A r \in Resource : disk[r] # Garbage
    /\ schemaFile # Garbage
    /\ Mergeable(FileOverlay, DiskTables)
ForGood == edits = {} /\ Repaired
Listable == ForGood => ~WatcherAt("unlisted")
Recovers == []Listable => (ForGood ~> (ready \/ ~Repaired))

-----------------------------------------------------------------------------
\* The refinement: what the requests that lock their resource make of the
\* folder.  relation_read and PUT /schema take no such lock and are left out;
\* a torn file counts as none.

LockedOps == UpdateOps \cup SetOps \cup {"read"}
Locking(w) == w.pc # "idle" /\ w.req.op \in LockedOps

Promised(req) ==
    [op |-> req.op, names |-> <<req.res>>, id |-> req.id, item |-> req.item,
     doc |-> req.doc]
PromisedWorkload ==
    [t \in Task |-> {Promised(req) : req \in {q \in Workload[t] : q.op \in LockedOps}}]

\* A write has taken effect once its file is written or removed.
WrittenPC == {"install", "infer", "certify", "snapshot", "scan", "mark_ready",
              "announce", "register", "cache_new", "unregister", "uncache"}
AtomicStatus(w) ==
    CASE ~Locking(w) -> "idle"
      [] Locking(w) /\ w.pc = "done" -> IF w.status = "ok" THEN "ok" ELSE "failed"
      [] Locking(w) /\ w.pc \in WrittenPC -> "applied"
      [] OTHER -> "waiting"

\* The documents that the answer to a request carries.
Answer(w) ==
    [r \in Resource |->
        IF /\ Locking(w) /\ w.pc = "done" /\ w.status = "ok"
           /\ w.req.op = "read" /\ w.req.res = r
        THEN w.value ELSE Absent]

Promise ==
    INSTANCE AtomicStore WITH
        Workload <- PromisedWorkload,
        content <- [r \in Resource |-> IF disk[r] \in Snapshot THEN disk[r] ELSE Absent],
        request <- [t \in Task |-> IF Locking(task[t]) THEN Promised(task[t].req)
                                   ELSE NoRequest],
        status <- [t \in Task |-> AtomicStatus(task[t])],
        result <- [t \in Task |-> Answer(task[t])]

\* Under the same conditions each of these requests takes effect at one moment
\* between its arrival and its answer, on the file of its resource and no
\* other; one that fails has had its effect before or never will.
AtomicFolder == Promise!Spec
=============================================================================
