------------------------------- MODULE DbServer -------------------------------
(***************************************************************************)
(* The server over a single database file (dirbase db.json): every         *)
(* resource is a key of one JSON object, so a write of one resource reads  *)
(* and replaces all of them.  What keeps concurrent writes apart is a lock *)
(* per resource, the lock "__db_file__" around the writes of updates, and  *)
(* a lock on <file>.lock around each replacement; what keeps crashes apart *)
(* is the order of temporary file, rename and directory sync.              *)
(*                                                                         *)
(* A document is loaded in one step here: its lock keeps every writer of   *)
(* the resource away, so that only other readers, which put the same value *)
(* in the cache, come between the steps that ResourceStore takes apart.    *)
(* There is no declared schema and no other program writes the file. That  *)
(* no resource is called "__db_file__" is an assumption: the code does not *)
(* refuse the name, and an update of such a resource waits for itself.     *)
(***************************************************************************)
EXTENDS ResourceLocks, Documents, Sequences

CONSTANTS
    DbLock,       \* "__db_file__"
    Workload,     \* the requests that each task may turn out to be
    InitialFile,  \* content of the file when the server starts
    Faults,       \* "write": the file cannot be replaced, "refresh": the
                  \* schemas do not merge
    MaxCrashes,   \* bound: how often the server stops and starts again
    Absent,       \* a resource that is no key of the file
    NoEntry,      \* a resource that is not cached
    NoTask, NoRequest

VARIABLES
    file,       \* the database file, as programs see it
    durable,    \* and as it is found again after a power failure
    flock,      \* who holds the lock on <file>.lock
    resources,  \* AppState.resources
    cache,      \* AppState.resource_cache
    task,       \* the handlers in flight
    crashes

storeVars == <<file, durable, flock, resources, cache, crashes>>
vars == <<file, durable, flock, resources, cache, task, crashes, locks>>

Content == [Resource -> {Absent} \cup Snapshot]
NoKeys == [r \in Resource |-> Absent]
Ops == {"read"} \cup UpdateOps \cup {"create_resource", "delete_resource"}
Request == [op : Ops, names : Seq(Resource), id : Id, item : Item, doc : Snapshot]

ASSUME DbAssumption ==
    /\ Name = Resource \cup {DbLock}
    /\ DbLock \notin Resource
    /\ \A t \in Task : Workload[t] \subseteq Request
    /\ \A t \in Task : \A req \in Workload[t] : req.names # <<>>
    /\ InitialFile \in Content
    /\ Absent \notin Snapshot /\ NoEntry \notin Snapshot
    /\ NoTask \notin Task
    /\ NoRequest \notin Request
    /\ MaxCrashes \in Nat

PC == {"idle", "lookup", "insert", "await", "load", "apply", "check", "flock", "open",
       "rename", "sync", "install", "register", "cache_new", "unregister", "uncache",
       "refresh", "done"}
Status == {"idle", "pending", "ok", "rejected", "failed", "lost"}

IdleTask ==
    [pc |-> "idle", req |-> NoRequest, status |-> "idle", todo |-> {}, lock |-> DbLock,
     value |-> Absent, root |-> NoKeys, result |-> NoKeys]

-----------------------------------------------------------------------------
\* Helpers.

At(t, pc) == task[t].pc = pc
Op(t) == task[t].req.op
Res(t) == task[t].req.names[1]
Subjects(t) == {task[t].req.names[i] : i \in DOMAIN task[t].req.names}
IsUpdate(t) == Op(t) \in UpdateOps

LockMode(t) == IF Op(t) = "read" THEN "read" ELSE "write"

Goto(t, pc) == task' = [task EXCEPT ![t].pc = pc]


\* The handler returns, and all its guards are dropped.
Answer(t, status) ==
    /\ task' = [task EXCEPT ![t] =
                   [IdleTask EXCEPT !.pc = "done", !.req = task[t].req, !.status = status,
                        !.result = IF status = "ok" THEN task[t].result ELSE NoKeys]]
    /\ Release(t, Name)

Keys(root) == {r \in Resource : root[r] # Absent}

\* load_resource: the cache answers for the resources it knows, the file for
\* the others of the resource set.
Found(r) ==
    IF cache[r] # NoEntry THEN cache[r]
    ELSE IF r \in resources THEN file[r] ELSE Absent

FillCache(r) ==
    cache' = [cache EXCEPT ![r] = IF Found(r) = Absent THEN NoEntry ELSE Found(r)]

-----------------------------------------------------------------------------
\* Arrival and locks.

Submit(t) ==
    /\ At(t, "idle")
    /\ \E req \in Workload[t] :
           task' = [task EXCEPT ![t].pc = "lookup", ![t].req = req, ![t].status = "pending",
                                ![t].todo = {req.names[i] : i \in DOMAIN req.names}]
    /\ UNCHANGED <<storeVars, locks>>

LookupLock(t) ==
    /\ At(t, "lookup")
    /\ \E n \in task[t].todo :
           /\ IsNextLock(n, task[t].todo, task[t].req.names)
           /\ IF LockExists(n)
              THEN /\ Enqueue(t, n, LockMode(t))
                   /\ task' = [task EXCEPT ![t].pc = "await", ![t].lock = n]
              ELSE /\ task' = [task EXCEPT ![t].pc = "insert", ![t].lock = n]
                   /\ UNCHANGED locks
    /\ UNCHANGED storeVars

MakeLock(t) ==
    /\ At(t, "insert")
    /\ InsertLock(t, task[t].lock, LockMode(t))
    /\ Goto(t, "await")
    /\ UNCHANGED storeVars

\* The handler goes on once it has the last of its locks.
Locked(t) ==
    IF Op(t) = "read" THEN "load"
    ELSE IF ~IsUpdate(t) THEN "check"
    ELSE IF task[t].value = Absent THEN "apply" ELSE "flock"

Awaken(t) ==
    /\ At(t, "await")
    /\ Granted(t, task[t].lock)
    /\ LET left == task[t].todo \ {task[t].lock}
       IN  task' = [task EXCEPT ![t].pc = IF left = {} THEN Locked(t) ELSE "lookup",
                                ![t].todo = left]
    /\ UNCHANGED <<storeVars, locks>>

Acquire(t) == LookupLock(t) \/ MakeLock(t) \/ Awaken(t)

-----------------------------------------------------------------------------
\* Reads of several resources: embeds, SQL joins, GraphQL.

LoadNext(t) ==
    /\ At(t, "load")
    /\ \E r \in Subjects(t) :
           /\ task[t].result[r] = Absent
           /\ FillCache(r)
           /\ IF Found(r) = Absent THEN Answer(t, "rejected")
              ELSE task' = [task EXCEPT ![t].result[r] = Found(r)] /\ UNCHANGED locks
    /\ UNCHANGED <<file, durable, flock, resources, crashes>>

AnswerRead(t) ==
    /\ At(t, "load")
    /\ \A r \in Subjects(t) : task[t].result[r] # Absent
    /\ Answer(t, "ok")
    /\ UNCHANGED storeVars

-----------------------------------------------------------------------------
\* Writes up to the file.

\* update_locked_resource: the document is loaded and the closure applied.
ApplyUpdate(t) ==
    /\ At(t, "apply")
    /\ FillCache(Res(t))
    /\ LET s == Found(Res(t))
       IN  IF s # Absent /\ CanUpdate(task[t].req, s)
           THEN /\ task' = [task EXCEPT ![t].pc = "lookup", ![t].todo = {DbLock},
                                        ![t].value = Updated(task[t].req, s)]
                /\ UNCHANGED locks
           ELSE Answer(t, "rejected")
    /\ UNCHANGED <<file, durable, flock, resources, crashes>>

\* Mutant: what is there, or not there, is waited for.
CheckRegisteredAgain(t) ==
    /\ At(t, "check")
    /\ IF Res(t) \in resources <=> Op(t) = "create_resource"
       THEN /\ task' = [task EXCEPT ![t].pc = "lookup", ![t].todo = Subjects(t)]
            /\ Release(t, Name)
       ELSE Goto(t, "flock") /\ UNCHANGED locks
    /\ UNCHANGED storeVars

\* resource_service.rs: 409 for a resource that is there, 404 for one that is not.
CheckRegistered(t) ==
    /\ At(t, "check")
    /\ IF Res(t) \in resources <=> Op(t) = "create_resource"
       THEN Answer(t, "rejected")
       ELSE Goto(t, "flock") /\ UNCHANGED locks
    /\ UNCHANGED storeVars

\* Mutant: the lock file is opened but not locked.
LockFileFree(t) ==
    /\ At(t, "flock")
    /\ flock' = t
    /\ Goto(t, "open")
    /\ UNCHANGED <<file, durable, resources, cache, crashes, locks>>

\* with_exclusive_file_lock
LockFile(t) ==
    /\ At(t, "flock")
    /\ flock = NoTask
    /\ flock' = t
    /\ Goto(t, "open")
    /\ UNCHANGED <<file, durable, resources, cache, crashes, locks>>

\* {write,create,delete}_resource_in_db_file read the object and its keys.
OpenDbFile(t) ==
    /\ At(t, "open")
    /\ IF ~IsUpdate(t) /\ (file[Res(t)] # Absent <=> Op(t) = "create_resource")
       THEN Answer(t, "rejected") /\ flock' = NoTask
       ELSE /\ task' = [task EXCEPT ![t].pc = "rename", ![t].root = file]
            /\ UNCHANGED <<locks, flock>>
    /\ UNCHANGED <<file, durable, resources, cache, crashes>>

NewValue(t) ==
    CASE Op(t) = "create_resource" -> task[t].req.doc
      [] Op(t) = "delete_resource" -> Absent
      [] OTHER -> task[t].value

\* write_json_atomically_unlocked: the temporary file replaces the database ...
Rename(t) ==
    /\ At(t, "rename")
    /\ file' = [task[t].root EXCEPT ![Res(t)] = NewValue(t)]
    /\ Goto(t, "sync")
    /\ UNCHANGED <<durable, flock, resources, cache, crashes, locks>>

\* ... unless an error comes before.
WriteFails(t) ==
    /\ At(t, "rename")
    /\ "write" \in Faults
    /\ Answer(t, "failed")
    /\ flock' = NoTask
    /\ UNCHANGED <<file, durable, resources, cache, crashes>>

AfterSync(t) ==
    CASE Op(t) = "create_resource" -> "register"
      [] Op(t) = "delete_resource" -> "unregister"
      [] OTHER -> "install"

\* Mutant: the directory is not synced.
SyncSkipped(t) ==
    /\ At(t, "sync")
    /\ flock' = NoTask
    /\ Goto(t, AfterSync(t))
    /\ Release(t, IF IsUpdate(t) THEN {DbLock} ELSE {})
    /\ UNCHANGED <<file, durable, resources, cache, crashes>>

\* sync_parent_dir, and the locks around the replacement are dropped.
SyncDir(t) ==
    /\ At(t, "sync")
    /\ durable' = file
    /\ flock' = NoTask
    /\ Goto(t, AfterSync(t))
    /\ Release(t, IF IsUpdate(t) THEN {DbLock} ELSE {})
    /\ UNCHANGED <<file, resources, cache, crashes>>

-----------------------------------------------------------------------------
\* Writes after the file: cache, resource set, schema.

\* Mutant: a deleted resource is cached as missing.
InstallMissing(t) ==
    /\ \/ At(t, "install") /\ cache' = [cache EXCEPT ![Res(t)] = task[t].value]
       \/ At(t, "cache_new") /\ cache' = [cache EXCEPT ![Res(t)] = task[t].req.doc]
       \/ At(t, "uncache") /\ cache' = [cache EXCEPT ![Res(t)] = Absent]
    /\ Goto(t, "refresh")
    /\ UNCHANGED <<file, durable, flock, resources, crashes, locks>>

Install(t) ==
    /\ \/ At(t, "install") /\ cache' = [cache EXCEPT ![Res(t)] = task[t].value]
       \/ At(t, "cache_new") /\ cache' = [cache EXCEPT ![Res(t)] = task[t].req.doc]
       \/ At(t, "uncache") /\ cache' = [cache EXCEPT ![Res(t)] = NoEntry]
    /\ Goto(t, "refresh")
    /\ UNCHANGED <<file, durable, flock, resources, crashes, locks>>

ChangeSet(t) ==
    /\ \/ At(t, "register") /\ resources' = resources \cup {Res(t)} /\ Goto(t, "cache_new")
       \/ At(t, "unregister") /\ resources' = resources \ {Res(t)} /\ Goto(t, "uncache")
    /\ UNCHANGED <<file, durable, flock, cache, crashes, locks>>

\* The inferred schema is refreshed from the whole file; if it does not merge
\* the request fails, though it was done.
RefreshSchema(t) ==
    /\ At(t, "refresh")
    /\ Answer(t, "ok") \/ ("refresh" \in Faults /\ Answer(t, "failed"))
    /\ UNCHANGED storeVars

Handle(t) ==
    \/ Acquire(t) \/ LoadNext(t) \/ AnswerRead(t)
    \/ ApplyUpdate(t) \/ CheckRegistered(t) \/ LockFile(t) \/ OpenDbFile(t)
    \/ Rename(t) \/ WriteFails(t) \/ SyncDir(t)
    \/ Install(t) \/ ChangeSet(t) \/ RefreshSchema(t)

-----------------------------------------------------------------------------
\* The server.

Init ==
    /\ file = InitialFile
    /\ durable = InitialFile
    /\ flock = NoTask
    /\ resources = Keys(InitialFile)
    /\ cache = [r \in Resource |-> NoEntry]
    /\ task = [t \in Task |-> IdleTask]
    /\ crashes = 0
    /\ locks = [n \in Name |-> NoLock]

\* The process or the machine stops; a rename that was not synced may be
\* undone by that.  The next start reads what is left (main.rs).
Restart ==
    /\ crashes < MaxCrashes
    /\ crashes' = crashes + 1
    /\ file' \in {file, durable}
    /\ durable' = file'
    /\ flock' = NoTask
    /\ resources' = Keys(file')
    /\ cache' = [r \in Resource |-> NoEntry]
    /\ locks' = [n \in Name |-> NoLock]
    /\ task' = [t \in Task |->
                   IF task[t].status # "pending" THEN task[t]
                   ELSE [IdleTask EXCEPT !.pc = "done", !.req = task[t].req, !.status = "lost"]]

Quiescent == \A t \in Task : At(t, "done")
Rest == Quiescent /\ UNCHANGED vars

Next ==
    \/ \E t \in Task : Submit(t) \/ Handle(t)
    \/ Restart
    \/ Rest

\* The runtime drives every handler that can go on; a fair lock is given to
\* who waits for it.
Spec == Init /\ [][Next]_vars
FairSpec == Spec /\ \A t \in Task : WF_vars(Handle(t))

-----------------------------------------------------------------------------
\* Properties

TaskState ==
    [pc : PC, req : {NoRequest} \cup Request, status : Status, todo : SUBSET Name,
     lock : Name, value : {Absent} \cup Snapshot, root : Content,
     result : Content]

\* Every variable stays within its type.
TypeOK ==
    /\ file \in Content
    /\ durable \in Content
    /\ flock \in {NoTask} \cup Task
    /\ resources \subseteq Resource
    /\ cache \in [Resource -> {NoEntry} \cup Snapshot]
    /\ task \in [Task -> TaskState]
    /\ crashes \in 0..MaxCrashes
    /\ locks \in LockTable

\* The handlers between the grant of the resource lock and the answer.
Beyond(t) == task[t].pc \in PC \ {"idle", "lookup", "insert", "await", "done"}

\* A writer is alone with its resource, whoever made the lock, and only one
\* handler is between reading the file and syncing what replaced it.
WritersAlone ==
    /\ \A t, u \in Task :
           /\ t # u /\ Beyond(t) /\ Beyond(u) /\ Op(t) # "read"
           => Res(t) \notin Subjects(u)
    /\ \A t, u \in Task :
           task[t].pc \in {"open", "rename", "sync"} /\ task[u].pc \in {"open", "rename", "sync"}
           => t = u

\* Whoever waits for a lock has only locks of lower names, and the lock of the
\* database file is the last of all: no circle of waiting handlers forms.
Below(m, n) == m # DbLock /\ (n = DbLock \/ Rank[m] < Rank[n])
WaitUpwards ==
    \A t \in Task, m \in Name :
        (\E w \in Line(m) : w.task = t) => \A n \in task[t].todo : m = n \/ Below(m, n)

\* Every request is answered, or lost in a crash.
RequestsAnswered == \A t \in Task : At(t, "lookup") ~> At(t, "done")

-----------------------------------------------------------------------------
\* The refinement.

\* What a client finds: the cached document, or else the one that will be
\* there after a power failure.
Visible ==
    [r \in Resource |->
        IF cache[r] # NoEntry THEN cache[r]
        ELSE IF r \in resources THEN durable[r] ELSE Absent]

\* A write has taken effect once clients find its document.
HasApplied(t) ==
    \/ task[t].pc \in {"cache_new", "refresh"}
    \/ task[t].pc \in {"unregister", "uncache"} /\ cache[Res(t)] = NoEntry

AbstractStatus(t) ==
    IF task[t].status # "pending" THEN task[t].status
    ELSE IF HasApplied(t) THEN "applied" ELSE "waiting"

Promise ==
    INSTANCE AtomicStore WITH
        content <- Visible,
        request <- [t \in Task |-> task[t].req],
        status <- [t \in Task |-> AbstractStatus(t)],
        result <- [t \in Task |-> IF task[t].status = "ok" THEN task[t].result ELSE NoKeys]

\* Each request takes effect at once between its arrival and its answer, on
\* one resource and no other; what was answered survives a crash; a read of
\* several resources sees them at one moment.
Linearizable == Promise!Spec
=============================================================================
