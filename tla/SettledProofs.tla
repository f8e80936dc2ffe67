---------------------------- MODULE SettledProofs ----------------------------
(***************************************************************************)
(* What a server at rest knows of its folder, for any number of resources, *)
(* requests and edits.                                                     *)
(*                                                                         *)
(* The watcher learns of a change some time after it was made, handles one *)
(* path after the other, and may give an event up.  So nothing of what it  *)
(* keeps is right at every moment, and the invariants say who still owes   *)
(* the correction: an event of that very path in the queue, the watcher    *)
(* while it handles one, or a handler that holds the lock.  At rest nobody *)
(* is left who could owe anything.                                         *)
(***************************************************************************)
EXTENDS FolderProofs

-----------------------------------------------------------------------------
(***************************************************************************)
(* What the steps of a handler change.                                     *)
(***************************************************************************)

\* A handler adds its resource to those served, or takes it away.
LEMMA ResourcesChanged ==
    ASSUME NEW t \in Task, Handle(t)
    PROVE  \/ UNCHANGED resources
           \/ task[t].pc = "register" /\ resources' = resources \cup {Res(t)}
           \/ task[t].pc = "unregister" /\ resources' = resources \ {Res(t)}
<1>1. CASE Register(t) \/ Unregister(t)
  BY <1>1 DEF Register, Unregister, At
<1> QED
  BY <1>1
  DEF Handle, Acquire, Load, Update, Refresh, ManageSet, PutSchema,
      ReadRevision, LookupHit, LookupStale, LookupMiss, CheckRegistered, OpenFile,
      OpenFails, Admit, Mark, InsertIfAbsent, Apply, ReadReadiness, Persist, PersistFails,
      SyncFails, InstallInCache, InferLocally, Certify,
      SnapshotResources, ScanFile, InstallRefreshed, MarkReady, Announce,
      ValidateInitial, CreateFile, FillFile, FillFails, CacheNew, RemoveFile, Uncache,
      CheckMerge, WriteSchemaFile, WriteSchemaFails, AdoptDeclared, storeVars

\* No handler withdraws readiness.
LEMMA ReadinessKept ==
    ASSUME NEW t \in Task, Handle(t)
    PROVE  UNCHANGED ready \/ ready'
  BY DEF Handle, Acquire, Load, Update, Refresh, ManageSet, PutSchema,
         ReadRevision, LookupHit, LookupStale, LookupMiss, CheckRegistered, OpenFile,
         OpenFails, Admit, Mark, InsertIfAbsent, Apply, ReadReadiness, Persist,
         PersistFails, SyncFails, InstallInCache, InferLocally, Certify,
         SnapshotResources, ScanFile, InstallRefreshed, MarkReady, Announce,
         ValidateInitial, CreateFile, FillFile, FillFails, Register, CacheNew,
         RemoveFile, Unregister, Uncache,
         CheckMerge, WriteSchemaFile, WriteSchemaFails, AdoptDeclared, storeVars

\* A new overlay leaves the inferred tables alone; new tables are assigned.
LEMMA InferredOfStore ==
    ASSUME NEW store \in Store, NEW x
    PROVE  /\ ReplaceDeclared(store, x).inferred = store.inferred
           /\ ReplaceDeclared(store, x).declared = x
           /\ ReplaceInferred(store, x).inferred = x
           /\ ReplaceInferred(store, x).declared = store.declared
  BY DEF Store, ReplaceDeclared, ReplaceInferred

\* A handler assigns the table of its resource, or those of a scan.
LEMMA InferredChanged ==
    ASSUME Inv, NEW t \in Task, Handle(t)
    PROVE  \/ task[t].pc \notin {"infer", "scan"} /\ schema'.inferred = schema.inferred
           \/ /\ task[t].pc = "infer"
              /\ schema'.inferred =
                     [schema.inferred EXCEPT ![Res(t)] = InferTable(task[t].value)]
           \/ task[t].pc = "scan"
<1>1. CASE AdoptDeclared(t)
  BY <1>1, InferredOfStore DEF AdoptDeclared, At, Inv, TypeOK
<1>2. CASE InferLocally(t)
  BY <1>2, InferredOfStore DEF InferLocally, InstallInferred, At, Inv, TypeOK
<1>3. CASE ScanFile(t) \/ InstallRefreshed(t)
  BY <1>3 DEF ScanFile, InstallRefreshed, At
<1> QED
  BY <1>1, <1>2, <1>3
  DEF Handle, Acquire, Load, Update, Refresh, ManageSet, PutSchema,
      ReadRevision, LookupHit, LookupStale, LookupMiss, CheckRegistered, OpenFile,
      OpenFails, Admit, Mark, InsertIfAbsent, Apply, ReadReadiness, Persist, PersistFails,
      SyncFails, InstallInCache, Certify, SnapshotResources, MarkReady, Announce,
      ValidateInitial, CreateFile, FillFile, FillFails, Register, CacheNew, RemoveFile,
      Unregister, Uncache, CheckMerge, WriteSchemaFile, WriteSchemaFails, At, storeVars

\* What a writer carries from the write to the assignment.
LEMMA WriterCarries ==
    ASSUME Inv, NEW t \in Task, Handle(t)
    PROVE  /\ task[t].pc = "readiness" => task'[t].local = ready
           /\ task[t].pc \in {"persist", "install"} /\ task'[t].pc # "done" =>
                  task'[t].local = task[t].local /\ task'[t].value = task[t].value
           /\ task[t].pc = "install" => task'[t].pc = IF task[t].local THEN "infer"
                                                      ELSE "snapshot"
<1>1. task[t].pc = "readiness" => ReadReadiness(t)
  BY DEF Handle, Acquire, Load, Update, Refresh, ManageSet, PutSchema,
      ReadRevision, LookupHit, LookupStale, LookupMiss, CheckRegistered, OpenFile,
      OpenFails, Admit, Mark, InsertIfAbsent, Apply, Persist, PersistFails,
      SyncFails, InstallInCache, InferLocally, Certify,
      SnapshotResources, ScanFile, InstallRefreshed, MarkReady, Announce,
      ValidateInitial, CreateFile, FillFile, FillFails, Register, CacheNew, RemoveFile,
      Unregister, Uncache, CheckMerge, WriteSchemaFile, WriteSchemaFails, AdoptDeclared, At
<1>2. task[t].pc \in {"persist", "install"} =>
          Persist(t) \/ PersistFails(t) \/ SyncFails(t) \/ InstallInCache(t)
  BY DEF Handle, Acquire, Load, Update, Refresh, ManageSet, PutSchema,
      ReadRevision, LookupHit, LookupStale, LookupMiss, CheckRegistered, OpenFile,
      OpenFails, Admit, Mark, InsertIfAbsent, Apply, ReadReadiness, InferLocally, Certify,
      SnapshotResources, ScanFile, InstallRefreshed, MarkReady, Announce,
      ValidateInitial, CreateFile, FillFile, FillFails, Register, CacheNew, RemoveFile,
      Unregister, Uncache, CheckMerge, WriteSchemaFile, WriteSchemaFails, AdoptDeclared, At
<1>3. ASSUME ReadReadiness(t)
      PROVE  task'[t].local = ready
  <2>1. task'[t] = [task[t] EXCEPT !.pc = "persist", !.local = ready]
    BY <1>3 DEF ReadReadiness, Inv, TypeOK
  <2> QED
    BY <2>1, TaskFacts DEF TaskState
<1>4. ASSUME NEW next, Goto(t, next)
      PROVE  /\ task'[t].pc = next /\ task'[t].local = task[t].local
             /\ task'[t].value = task[t].value
  <2>1. task'[t] = [task[t] EXCEPT !.pc = next]
    BY <1>4 DEF Goto, Inv, TypeOK
  <2> QED
    BY <2>1, TaskFacts DEF TaskState
<1>5. ASSUME Fail(t)
      PROVE  task'[t].pc = "done"
  BY <1>5 DEF Fail, Inv, TypeOK
<1>6. CASE Persist(t)
  BY <1>4, <1>6 DEF Persist, At
<1>7. CASE PersistFails(t) \/ SyncFails(t)
  BY <1>5, <1>7 DEF PersistFails, SyncFails, At
<1>8. CASE InstallInCache(t)
  BY <1>4, <1>8 DEF InstallInCache, At
<1> QED
  BY <1>1, <1>2, <1>3, <1>6, <1>7, <1>8

\* The table of a file that can be read, and of one that cannot.
LEMMA TableOfFile ==
    /\ \A s \in Snapshot : TableOf(s) = InferTable(s)
    /\ TableOf(Absent) = NoTable
  BY AbsentAssumption DEF TableOf

\* A handler reports what it writes ...
LEMMA HandleReports ==
    ASSUME WatcherRunning, Inv, NEW t \in Task, Handle(t)
    PROVE  /\ Reported
           /\ \A r \in Resource : disk'[r] # disk[r] => Due(r)'
<1>1. CASE LeavesFiles(t)
  <2>1. Reported
    BY <1>1, NotifyAdds, QueueStays DEF LeavesFiles
  <2> QED
    BY <1>1, <2>1 DEF LeavesFiles
<1>2. CASE \E content : WritesFile(t, content)
  <2>1. PICK content : WritesFile(t, content)
    BY <1>2
  <2>2. task[t].pc # "idle"
    BY <2>1 DEF WritesFile
  <2>3. PICK p \in Resource : p = Res(t)
    BY <2>2, TaskFacts
  <2>4. Due(p)' /\ Reported
    BY <2>1, <2>3, NotifyAdds DEF WritesFile
  <2>5. \A r \in Resource : disk'[r] # disk[r] => r = p
    BY <2>1, <2>3 DEF WritesFile, Inv, TypeOK
  <2> QED
    BY <2>4, <2>5
<1> QED
  BY <1>1, <1>2, FilesWritten

\* ... and so does an edit.
LEMMA EditReports ==
    ASSUME WatcherRunning, Inv, ExternalEdit
    PROVE  /\ Reported
           /\ \A r \in Resource : disk'[r] # disk[r] => Due(r)'
           /\ schemaFile' # schemaFile => Due(SchemaFile)'
<1>1. PICK e \in edits :
          /\ Notify(e.path)
          /\ IF e.path = SchemaFile THEN UNCHANGED disk
             ELSE disk' = [disk EXCEPT ![e.path] = e.content] /\ UNCHANGED schemaFile
  BY DEF ExternalEdit
<1>2. e.path \in {SchemaFile} \cup Resource
  BY InitialAssumption DEF Inv, TypeOK, Edit
<1>3. Due(e.path)' /\ Reported
  BY <1>1, <1>2, NotifyAdds
<1>4. \A r \in Resource : disk'[r] # disk[r] => r = e.path
  BY <1>1 DEF Inv, TypeOK
<1> QED
  BY <1>1, <1>3, <1>4

-----------------------------------------------------------------------------
(***************************************************************************)
(* Creation.                                                               *)
(***************************************************************************)

\* Nobody else removes a file that requests create.
CreatedApart ==
    \A e \in Edits : e.path \in Resource /\ e.content = Absent =>
        \A t \in Task : \A req \in Workload[t] :
            ~(req.op = "create_resource" /\ req.res = e.path)

\* What a handler was asked, and which of its steps belong to what.
AskedOK(t, w) ==
    /\ w.pc = "idle" => w.req = NoRequest
    /\ w.pc # "idle" => w.req \in Workload[t]
    /\ w.pc \in {"validate", "create", "fill", "register", "cache_new"}
           => w.req.op = "create_resource"
    /\ w.pc \in {"remove", "unregister", "uncache"} => w.req.op = "delete_resource"

\* A creation whose file is there.
Makes(w) ==
    /\ \/ w.pc \in {"fill", "register", "cache_new", "announce"} \cup RefreshPC
       \/ w.pc = "done" /\ w.status = "ok"
    /\ w.req.op = "create_resource"

DeleteRequested(r) ==
    \E t \in Task : task[t].req # NoRequest /\ Op(t) = "delete_resource" /\ Res(t) = r

\* The file stays until a request deletes the resource; so a second creation
\* comes after such a request.
MadeThere ==
    \A t \in Task : Makes(task[t]) => disk[Res(t)] # Absent \/ DeleteRequested(Res(t))
MadeOnce ==
    \A t, u \in Task :
        t # u /\ Makes(task[t]) /\ Makes(task[u]) /\ Res(t) = Res(u)
            => DeleteRequested(Res(t))

CreationInv ==
    /\ \A t \in Task : AskedOK(t, task[t])
    /\ MadeThere
    /\ MadeOnce

\* A handler that goes on was asked the same, and a request to delete stays.
LEMMA AskedKept ==
    ASSUME Inv, NEW t \in Task, Handle(t), \A u \in Task : AskedOK(u, task[u])
    PROVE  /\ \A u \in Task : AskedOK(u, task'[u])
           /\ \A r : DeleteRequested(r) => DeleteRequested(r)'
<1>1. /\ OthersStay(t) /\ task[t].pc # "idle" /\ task'[t].req = task[t].req
      /\ <<task[t].pc, task'[t].pc>> \in Flow
      /\ task'[t].pc = "create" => Op(t) = "create_resource"
      /\ task'[t].pc = "remove" => Op(t) = "delete_resource"
  BY HandleGoesOn DEF GoesOn, Flow
<1>2. AskedOK(t, task'[t])
  BY <1>1 DEF AskedOK, Flow, Op
<1>3. \A u \in Task : AskedOK(u, task'[u])
  BY <1>1, <1>2 DEF OthersStay
<1>4. \A r : DeleteRequested(r) => DeleteRequested(r)'
  BY <1>1 DEF DeleteRequested, OthersStay, Op, Res
<1> QED
  BY <1>3, <1>4

\* So does one that arrives.
LEMMA SubmitAsked ==
    ASSUME Inv, NEW t \in Task, Submit(t), \A u \in Task : AskedOK(u, task[u])
    PROVE  /\ \A u \in Task : AskedOK(u, task'[u])
           /\ \A r : DeleteRequested(r) => DeleteRequested(r)'
           /\ OthersStay(t) /\ UNCHANGED storeVars
           /\ task[t].pc = "idle" /\ task'[t].guard = task[t].guard
           /\ task'[t].pc \in {"acquire", "revision", "validate", "merge"}
           /\ task'[t].pc = "revision" => task'[t].req.op \in ReadOps
           /\ task'[t].pc = "merge" => task'[t].req.op = "put_schema"
<1>1. PICK req \in Workload[t] :
          task' = [task EXCEPT ![t].pc = FirstStep(req.op), ![t].req = req]
  BY DEF Submit
<1> DEFINE w == [task[t] EXCEPT !.pc = FirstStep(req.op), !.req = req]
<1>2. task'[t] = w /\ OthersStay(t)
  BY <1>1 DEF Inv, TypeOK, OthersStay
<1>3. w.pc = FirstStep(req.op) /\ w.req = req /\ w.guard = task[t].guard
  BY TaskFacts DEF TaskState
<1> HIDE DEF w
<1>4. task[t].pc = "idle" /\ UNCHANGED storeVars
  BY DEF Submit, At
<1>5. /\ w.pc \in {"acquire", "revision", "validate", "merge"}
      /\ w.pc = "validate" => req.op = "create_resource"
      /\ w.pc = "revision" => req.op \in ReadOps
      /\ w.pc = "merge" => req.op = "put_schema"
  BY <1>3 DEF FirstStep, ReadOps
<1>6. AskedOK(t, w)
  BY <1>3, <1>5 DEF AskedOK
<1>7. \A u \in Task : AskedOK(u, task'[u])
  BY <1>2, <1>6 DEF OthersStay
<1>8. \A r : DeleteRequested(r) => DeleteRequested(r)'
  <2>1. task[t].req = NoRequest
    BY <1>4 DEF AskedOK
  <2> QED
    BY <1>2, <2>1 DEF DeleteRequested, OthersStay, Op, Res
<1> QED
  BY <1>2, <1>3, <1>4, <1>5, <1>7, <1>8

\* A handler has made its file, or does so now.
LEMMA MakesBefore ==
    ASSUME Inv, NEW t \in Task, Handle(t), AskedOK(t, task[t]), Makes(task'[t])
    PROVE  \/ Makes(task[t])
           \/ /\ task[t].pc = "create" /\ disk[Res(t)] = Absent
              /\ disk' = [disk EXCEPT ![Res(t)] = Garbage]
<1>1. GoesOn(t, task[t].pc) /\ Op(t) = "create_resource"
  BY HandleGoesOn DEF GoesOn, Makes, Op
<1>2. Allowed(Op(t), task[t].pc)
  BY TaskFacts DEF TaskInv, Op
<1>3. \/ task[t].pc = "create" /\ task'[t].pc = "fill"
      \/ task[t].pc \in {"fill", "register", "cache_new", "announce"} \cup RefreshPC
  <2>1. Op(t) \notin ReadOps \cup UpdateOps
    BY <1>1 DEF ReadOps, UpdateOps, ItemOps, ObjectOps
  <2>2. task[t].pc \notin {"install", "certify", "uncache", "adopt"}
    BY <1>1, <1>2, <2>1 DEF Allowed, UpdatePC, PutPC, AskedOK, Op
  <2> QED
    BY <1>1, <2>1, <2>2 DEF GoesOn, Flow, Makes, RefreshPC
<1>4. CASE task[t].pc = "create" /\ task'[t].pc = "fill"
  BY <1>4, FilesWritten DEF LeavesFiles, WritesFile
<1> QED
  BY <1>1, <1>3, <1>4 DEF Makes, Op

\* A step of a handler.
LEMMA HandleKeepsCreation ==
    ASSUME Inv, CreationInv, NEW t \in Task, Handle(t)
    PROVE  CreationInv'
<1>1. /\ \A u \in Task : AskedOK(u, task'[u])
      /\ \A r : DeleteRequested(r) => DeleteRequested(r)'
  BY AskedKept DEF CreationInv
<1>2. /\ \A u \in Task : u # t => task'[u] = task[u]
      /\ task'[t].req = task[t].req
  BY HandleGoesOn DEF GoesOn, OthersStay
<1>3. \/ Makes(task'[t]) => Makes(task[t])
      \/ /\ task[t].pc = "create" /\ disk[Res(t)] = Absent
         /\ disk' = [disk EXCEPT ![Res(t)] = Garbage]
  BY MakesBefore DEF CreationInv
<1>4. ASSUME NEW r \in Resource, disk[r] # Absent, disk'[r] = Absent
      PROVE  DeleteRequested(r)
  <2>1. PICK content : WritesFile(t, content)
    BY <1>4, FilesWritten DEF LeavesFiles
  <2>2. r = Res(t) /\ content = Absent
    BY <1>4, <2>1 DEF WritesFile, Inv, TypeOK
  <2>3. task[t].pc \in {"persist", "create", "fill", "remove"}
    BY <2>1 DEF WritesFile
  <2>4. task[t].pc = "persist" => task[t].value \in Snapshot
    BY TaskFacts DEF TaskInv, HasSnapshot, NeedsSnapshot, UpdatePC
  <2>5. task[t].req \in Request
    BY <2>3, TaskFacts
  <2>6. task[t].pc = "remove"
    BY <2>1, <2>2, <2>3, <2>4, <2>5, AbsentAssumption DEF WritesFile, Request
  <2>7. Op(t) = "delete_resource"
    BY <2>6 DEF CreationInv, AskedOK, Op
  <2> QED
    BY <2>2, <2>5, <2>7, NoRequestAssumption DEF DeleteRequested
<1>5. MadeThere'
  <2> SUFFICES ASSUME NEW u \in Task, Makes(task'[u]), disk'[Res(u)] = Absent
               PROVE  DeleteRequested(Res(u))
    BY <1>1, <1>2 DEF MadeThere, Res
  <2>1. task[u].pc # "idle"
    BY <1>2, HandleGoesOn DEF Makes, RefreshPC, GoesOn, Flow
  <2>2. Res(u) \in Resource
    BY <2>1, TaskFacts
  <2>3. CASE Makes(task[u])
    BY <1>4, <2>2, <2>3 DEF CreationInv, MadeThere
  <2>4. CASE ~Makes(task[u])
    <3>1. u = t /\ disk' = [disk EXCEPT ![Res(t)] = Garbage]
      BY <1>2, <1>3, <2>4
    <3>2. disk'[Res(u)] = Garbage
      BY <2>2, <3>1 DEF Inv, TypeOK
    <3> QED
      BY <3>2, AbsentAssumption
  <2> QED
    BY <2>3, <2>4
<1>6. MadeOnce'
  <2>1. ASSUME NEW u \in Task, u # t, Makes(task'[t]), Makes(task[u]), Res(t) = Res(u)
        PROVE  DeleteRequested(Res(t))
    <3>1. CASE Makes(task[t])
      BY <2>1, <3>1 DEF CreationInv, MadeOnce
    <3>2. CASE ~Makes(task[t])
      <4>1. disk[Res(u)] = Absent
        BY <1>3, <2>1, <3>2
      <4> QED
        BY <2>1, <4>1 DEF CreationInv, MadeThere
    <3> QED
      BY <3>1, <3>2
  <2> SUFFICES ASSUME NEW v \in Task, NEW u \in Task, v # u, Makes(task'[v]),
                      Makes(task'[u]), Res(v) = Res(u)
               PROVE  DeleteRequested(Res(v))
    BY <1>1, <1>2 DEF MadeOnce, Res
  <2>2. CASE v # t /\ u # t
    BY <1>2, <2>2 DEF CreationInv, MadeOnce
  <2>3. CASE v = t
    BY <1>2, <2>1, <2>3
  <2>4. CASE u = t
    BY <1>2, <2>1, <2>4
  <2> QED
    BY <2>2, <2>3, <2>4
<1> QED
  BY <1>1, <1>5, <1>6 DEF CreationInv

\* A request that arrives has made nothing.
LEMMA SubmitKeepsCreation ==
    ASSUME Inv, CreationInv, NEW t \in Task, Submit(t)
    PROVE  CreationInv'
<1>1. /\ \A u \in Task : AskedOK(u, task'[u])
      /\ \A r : DeleteRequested(r) => DeleteRequested(r)'
      /\ OthersStay(t) /\ UNCHANGED storeVars
      /\ task'[t].pc \in {"acquire", "revision", "validate", "merge"}
  BY SubmitAsked DEF CreationInv
<1>2. \A u \in Task : Makes(task'[u]) => u # t /\ task'[u] = task[u]
  BY <1>1 DEF Makes, OthersStay, RefreshPC
<1>3. UNCHANGED disk
  BY <1>1 DEF storeVars
<1>4. MadeThere'
  BY <1>1, <1>2, <1>3 DEF CreationInv, MadeThere, Res
<1>5. MadeOnce'
  BY <1>1, <1>2 DEF CreationInv, MadeOnce, Res
<1> QED
  BY <1>1, <1>4, <1>5 DEF CreationInv

\* An edit removes no file that was created.
LEMMA EditKeepsCreation ==
    ASSUME CreatedApart, Inv, CreationInv, ExternalEdit
    PROVE  CreationInv'
<1>1. PICK e \in edits :
          IF e.path = SchemaFile THEN UNCHANGED disk
          ELSE disk' = [disk EXCEPT ![e.path] = e.content]
  BY DEF ExternalEdit
<1>2. UNCHANGED task /\ e \in Edits /\ e \in Edit
  BY <1>1, InitialAssumption DEF ExternalEdit, Inv, TypeOK
<1>3. MadeThere'
  <2> SUFFICES ASSUME NEW t \in Task, Makes(task[t]), disk'[Res(t)] = Absent
               PROVE  DeleteRequested(Res(t))
    BY <1>2 DEF MadeThere, Res, DeleteRequested, Op
  <2>1. /\ task[t].pc # "idle" /\ Op(t) = "create_resource"
    BY DEF Makes, RefreshPC, Op
  <2>2. Res(t) \in Resource /\ task[t].req \in Workload[t]
    BY <2>1, TaskFacts DEF CreationInv, AskedOK
  <2>3. ~(e.path = Res(t) /\ e.content = Absent)
    BY <1>2, <2>1, <2>2 DEF CreatedApart, Op, Res
  <2>4. disk[Res(t)] = Absent
    BY <1>1, <2>2, <2>3 DEF Inv, TypeOK
  <2> QED
    BY <2>4 DEF CreationInv, MadeThere
<1> QED
  BY <1>2, <1>3 DEF CreationInv, MadeOnce, Res, DeleteRequested, Op

\* The invariant of creations.
LEMMA CreationInvariance ==
    ASSUME CreatedApart
    PROVE  Spec => []CreationInv
<1>1. Init => CreationInv
  <2> SUFFICES ASSUME Init
               PROVE  CreationInv
    OBVIOUS
  <2>1. \A t \in Task : task[t].pc = "idle" /\ task[t].req = NoRequest
    BY DEF Init, IdleTask
  <2> QED
    BY <2>1 DEF CreationInv, AskedOK, MadeThere, MadeOnce, Makes, RefreshPC
<1>2. Inv /\ CreationInv /\ [Next]_vars => CreationInv'
  <2> SUFFICES ASSUME Inv, CreationInv, [Next]_vars
               PROVE  CreationInv'
    OBVIOUS
  <2>1. CASE \E t \in Task : RequestStep(t)
    BY <2>1, SubmitKeepsCreation, HandleKeepsCreation DEF RequestStep
  <2>2. CASE ExternalEdit
    BY <2>2, EditKeepsCreation
  <2>3. CASE WatcherStep \/ UNCHANGED vars
    <3>1. UNCHANGED <<task, disk>>
      BY <2>3, WatchLeaves DEF vars, WatcherStep
    <3> QED
      BY <3>1 DEF CreationInv, MadeThere, MadeOnce, DeleteRequested, Res, Op
  <2> QED
    BY <2>1, <2>2, <2>3 DEF Next, Rest
<1> QED
  BY <1>1, <1>2, Invariance, PTL DEF Spec

\* Two creations of one resource are both answered with success only if its
\* deletion was requested, whatever the watcher publishes meanwhile: it is the
\* file that create_new refuses to create twice.
THEOREM CreatedOnceOnly ==
    ASSUME CreatedApart
    PROVE  Spec => []CreatedOnce
<1>1. CreationInv => CreatedOnce
  <2> SUFFICES ASSUME CreationInv, NEW t \in Task, NEW u \in Task, t # u,
                      \A v \in {t, u} : /\ task[v].pc = "done" /\ task[v].status = "ok"
                                        /\ Op(v) = "create_resource",
                      Res(t) = Res(u)
               PROVE  DeleteRequested(Res(t))
    BY DEF CreatedOnce, DeleteRequested, At
  <2>1. Makes(task[t]) /\ Makes(task[u])
    BY DEF Makes, Op
  <2> QED
    BY <2>1 DEF CreationInv, MadeOnce
<1> QED
  BY <1>1, CreationInvariance, PTL

-----------------------------------------------------------------------------
(***************************************************************************)
(* The resources served.                                                   *)
(***************************************************************************)

\* What the handlers have locked.
Locked ==
    /\ \A t \in Task :
           /\ task[t].pc = "idle" => task[t].guard = "none"
           /\ task[t].pc \notin {"idle", "validate", "acquire", "done"}
                  /\ Op(t) \in UpdateOps \cup SetOps => task[t].guard = "write"
    /\ Exclusive

\* Only acquire takes a lock.
LEMMA AcquireAtAcquire ==
    ASSUME NEW t \in Task, Handle(t), task[t].pc = "acquire"
    PROVE  Acquire(t)
  BY DEF Handle, Load, Update, Refresh, ManageSet, PutSchema,
      ReadRevision, LookupHit, LookupStale, LookupMiss, CheckRegistered, OpenFile,
      OpenFails, Admit, Mark, InsertIfAbsent, Apply, ReadReadiness, Persist, PersistFails,
      SyncFails, InstallInCache, InferLocally, Certify,
      SnapshotResources, ScanFile, InstallRefreshed, MarkReady, Announce,
      ValidateInitial, CreateFile, FillFile, FillFails, Register, CacheNew, RemoveFile,
      Unregister, Uncache, CheckMerge, WriteSchemaFile, WriteSchemaFails, AdoptDeclared, At

LEMMA HandleKeepsLocked ==
    ASSUME Inv, Locked, NEW t \in Task, Handle(t)
    PROVE  Locked'
<1>1. /\ \A u \in Task : u # t => task'[u] = task[u]
      /\ task'[t].req = task[t].req
      /\ <<task[t].pc, task'[t].pc>> \in Flow
      /\ task[t].pc # "acquire" =>
             task'[t].guard = IF task'[t].pc = "done" THEN "none" ELSE task[t].guard
  BY HandleGoesOn DEF GoesOn, OthersStay
<1>2. task[t].pc = "acquire" =>
          /\ Op(t) # "read" => task'[t].guard = "write"
          /\ LockFree(t, task'[t].guard)
  BY AcquireAtAcquire, AcquireGoesOn
<1>3. /\ task'[t].pc # "idle"
      /\ task'[t].pc \notin {"validate", "acquire", "done"}
             /\ Op(t) \in UpdateOps \cup SetOps => task'[t].guard = "write"
  <2>1. CASE task[t].pc = "acquire"
    BY <1>1, <1>2, <2>1 DEF Flow, UpdateOps, SetOps, ItemOps, ObjectOps
  <2>2. CASE task[t].pc = "validate"
    BY <1>1, <2>2 DEF Flow
  <2>3. CASE task[t].pc \notin {"acquire", "validate"}
    BY <1>1, <2>3 DEF Flow, Locked
  <2> QED
    BY <2>1, <2>2, <2>3
<1>4. Exclusive'
  <2>1. ASSUME NEW u \in Task, u # t, Res(u) = Res(t), task[u].guard # "none",
               task'[t].guard # "none"
        PROVE  task[u].guard # "write" /\ task'[t].guard # "write"
    <3>1. CASE task[t].pc = "acquire"
      BY <1>2, <2>1, <3>1 DEF LockFree
    <3>2. CASE task[t].pc # "acquire"
      BY <1>1, <2>1, <3>2 DEF Locked, Exclusive
    <3> QED
      BY <3>1, <3>2
  <2> SUFFICES ASSUME NEW v \in Task, NEW u \in Task, v # u, task'[v].guard = "write",
                      task'[u].guard # "none"
               PROVE  Res(v) # Res(u)
    BY <1>1 DEF Exclusive, Res
  <2>2. CASE v # t /\ u # t
    BY <1>1, <2>2 DEF Locked, Exclusive
  <2>3. CASE v = t
    BY <1>1, <2>1, <2>3
  <2>4. CASE u = t
    BY <1>1, <2>1, <2>4
  <2> QED
    BY <2>2, <2>3, <2>4
<1> QED
  BY <1>1, <1>3, <1>4 DEF Locked, Op

LEMMA SubmitKeepsLocked ==
    ASSUME Inv, Locked, \A u \in Task : AskedOK(u, task[u]), NEW t \in Task, Submit(t)
    PROVE  Locked'
<1>1. /\ \A u \in Task : u # t => task'[u] = task[u]
      /\ task[t].pc = "idle" /\ task'[t].guard = task[t].guard
      /\ task'[t].pc \in {"acquire", "revision", "validate", "merge"}
      /\ task'[t].pc = "revision" => task'[t].req.op \in ReadOps
      /\ task'[t].pc = "merge" => task'[t].req.op = "put_schema"
  BY SubmitAsked DEF OthersStay
<1>2. task'[t].guard = "none"
  BY <1>1 DEF Locked
<1>3. Exclusive'
  BY <1>1, <1>2 DEF Locked, Exclusive, Res
<1>4. \A u \in Task : task'[u].pc = "idle" => task'[u].guard = "none"
  BY <1>1, <1>2 DEF Locked
<1>5. task'[t].pc \notin {"validate", "acquire"} => task'[t].req.op \notin UpdateOps \cup SetOps
  BY <1>1 DEF ReadOps, UpdateOps, SetOps, ItemOps, ObjectOps
<1> QED
  BY <1>1, <1>2, <1>3, <1>4, <1>5 DEF Locked, Op

\* Nobody else makes a file that requests delete.
DeletedApart ==
    \A e \in Edits : e.path \in Resource /\ e.content # Absent =>
        \A t \in Task : \A req \in Workload[t] :
            ~(req.op = "delete_resource" /\ req.res = e.path)

\* A handler adds a resource whose file is there, and takes away one whose file
\* it removed.
ChangesOK ==
    \A t \in Task :
        /\ task[t].pc \in {"fill", "register"} => disk[Res(t)] # Absent
        /\ task[t].pc = "unregister" => disk[Res(t)] = Absent

\* The watcher can list the folder: if it cannot, it drops the event, and what
\* the event would have told it waits for another one.
Scannable == "scan" \notin Faults

LEMMA TakingLists ==
    ASSUME Scannable, Watch
    PROVE  TakeEvent \/ ~TakesEvent
  BY DEF Scannable, Watch, ListFails, TakesEvent, ReadPrevious, LoadSchema, ReplaceOverlay,
      PublishResources, ChangedExists, ReadChanged, EvictBroken, GiveUp, DecideInference,
      InferFile, InferNothing, InstallTables, SkipInstall, RefreshCache,
      WatcherMarksReady, WatcherAt

\* The list of files the watcher works with, and the resources served.
Listed ==
    watcher.pc # "waiting" =>
        \A r \in Resource : (r \in watcher.found <=> disk[r] # Absent) \/ Due(r)
Served ==
    \A r \in Resource :
        \/ r \in resources <=> disk[r] # Absent
        \/ Due(r)
        \/ watcher.path = r /\ watcher.pc \in {"compare", "publish"}

SetInv ==
    /\ \A t \in Task : AskedOK(t, task[t])
    /\ Locked
    /\ ChangesOK
    /\ Listed
    /\ Served

LEMMA HandleKeepsChanges ==
    ASSUME Inv, SetInv, NEW t \in Task, Handle(t)
    PROVE  ChangesOK'
<1>1. /\ \A u \in Task : u # t => task'[u] = task[u]
      /\ task'[t].req = task[t].req
      /\ <<task[t].pc, task'[t].pc>> \in Flow
  BY HandleGoesOn DEF GoesOn, OthersStay
<1>2. CASE LeavesFiles(t)
  BY <1>1, <1>2 DEF LeavesFiles, SetInv, ChangesOK, Res
<1>3. CASE \E content : WritesFile(t, content)
  <2>1. PICK content : WritesFile(t, content)
    BY <1>3
  <2>2. task[t].req \in Request /\ Res(t) \in Resource
    BY <2>1, TaskFacts DEF WritesFile
  <2>3. disk'[Res(t)] = content
    BY <2>1, <2>2 DEF WritesFile, Inv, TypeOK
  <2>4. /\ task'[t].pc \in {"fill", "register"} => disk'[Res(t)] # Absent
        /\ task'[t].pc = "unregister" => disk'[Res(t)] = Absent
    BY <1>1, <2>1, <2>2, <2>3, AbsentAssumption DEF WritesFile, Flow, Request
  <2>5. ASSUME NEW u \in Task, u # t, task[u].pc \in {"fill", "register", "unregister"}
        PROVE  disk'[Res(u)] = disk[Res(u)]
    <3>1. Op(u) \in SetOps /\ Res(u) \in Resource
      BY <2>5, TaskFacts DEF SetInv, AskedOK, SetOps, Op
    <3>2. task[u].guard = "write"
      BY <2>5, <3>1 DEF SetInv, Locked
    <3>3. task[t].pc \in {"persist", "create", "fill", "remove"}
      BY <2>1 DEF WritesFile
    <3>4. task[t].pc = "persist" => Op(t) \in UpdateOps
      BY TaskFacts DEF TaskInv, Allowed, UpdatePC, Op
    <3>5. Op(t) \in UpdateOps \cup SetOps
      BY <3>3, <3>4 DEF SetInv, AskedOK, SetOps, Op
    <3>6. task[t].guard = "write"
      BY <3>3, <3>5 DEF SetInv, Locked
    <3>7. Res(u) # Res(t)
      BY <2>5, <3>2, <3>6 DEF SetInv, Locked, Exclusive
    <3> QED
      BY <2>1, <2>2, <3>1, <3>7 DEF WritesFile, Inv, TypeOK
  <2> QED
    BY <1>1, <2>4, <2>5 DEF SetInv, ChangesOK, Res
<1> QED
  BY <1>2, <1>3, FilesWritten

\* A step of a handler.
LEMMA HandleKeepsSet ==
    ASSUME WatcherRunning, Inv, SetInv, NEW t \in Task, Handle(t), UNCHANGED watcher
    PROVE  SetInv'
<1>1. \A u \in Task : AskedOK(u, task'[u])
  BY AskedKept DEF SetInv
<1>2. Locked' /\ ChangesOK'
  BY HandleKeepsLocked, HandleKeepsChanges DEF SetInv
<1>3. /\ \A r \in Resource : Due(r) => Due(r)'
      /\ \A r \in Resource : disk'[r] # disk[r] => Due(r)'
  BY HandleReports DEF Reported
<1>4. Listed'
  BY <1>3 DEF SetInv, Listed
<1>5. Served'
  <2>1. task[t].pc \in {"register", "unregister"} => Res(t) \in Resource
    BY TaskFacts
  <2>2. \/ UNCHANGED resources
        \/ /\ resources' = resources \cup {Res(t)} /\ disk[Res(t)] # Absent
        \/ /\ resources' = resources \ {Res(t)} /\ disk[Res(t)] = Absent
    BY <2>1, ResourcesChanged DEF SetInv, ChangesOK
  <2> QED
    BY <1>3, <2>2 DEF SetInv, Served
<1> QED
  BY <1>1, <1>2, <1>4, <1>5 DEF SetInv

\* A request that arrives.
LEMMA SubmitKeepsSet ==
    ASSUME Inv, SetInv, NEW t \in Task, Submit(t), UNCHANGED watcher
    PROVE  SetInv'
<1>1. /\ \A u \in Task : AskedOK(u, task'[u])
      /\ \A u \in Task : u # t => task'[u] = task[u]
      /\ UNCHANGED <<disk, resources, queue>>
      /\ task'[t].pc \in {"acquire", "revision", "validate", "merge"}
  BY SubmitAsked DEF SetInv, OthersStay, storeVars
<1>2. Locked'
  BY SubmitKeepsLocked DEF SetInv
<1>3. ChangesOK'
  BY <1>1 DEF SetInv, ChangesOK, Res
<1>4. \A r : Due(r)' <=> Due(r)
  BY <1>1 DEF Due
<1> QED
  BY <1>1, <1>2, <1>3, <1>4 DEF SetInv, Listed, Served

\* An edit does not meet a creation or a deletion under way.
LEMMA EditKeepsSet ==
    ASSUME WatcherRunning, CreatedApart, DeletedApart, Inv, SetInv, ExternalEdit
    PROVE  SetInv'
<1>1. PICK e \in edits :
          IF e.path = SchemaFile THEN UNCHANGED disk
          ELSE disk' = [disk EXCEPT ![e.path] = e.content]
  BY DEF ExternalEdit
<1>2. UNCHANGED <<task, resources, watcher>> /\ e \in Edits /\ e \in Edit
  BY <1>1, InitialAssumption DEF ExternalEdit, Inv, TypeOK
<1>3. /\ \A r \in Resource : Due(r) => Due(r)'
      /\ \A r \in Resource : disk'[r] # disk[r] => Due(r)'
  BY EditReports DEF Reported
<1>4. ChangesOK'
  <2> SUFFICES ASSUME NEW t \in Task, task[t].pc \in {"fill", "register", "unregister"}
               PROVE  disk'[Res(t)] = Absent <=> disk[Res(t)] = Absent
    BY <1>2 DEF SetInv, ChangesOK, Res
  <2>1. Res(t) \in Resource /\ task[t].req \in Workload[t]
    BY TaskFacts DEF SetInv, AskedOK
  <2>2. CASE e.path = Res(t)
    <3>1. disk'[Res(t)] = e.content
      BY <1>1, <2>1, <2>2, SchemaFileAssumption DEF Inv, TypeOK
    <3>2. CASE task[t].pc = "unregister"
      <4>1. task[t].req.op = "delete_resource" /\ disk[Res(t)] = Absent
        BY <3>2 DEF SetInv, AskedOK, ChangesOK
      <4> QED
        BY <1>2, <2>1, <2>2, <3>1, <4>1 DEF DeletedApart, Res
    <3>3. CASE task[t].pc # "unregister"
      <4>1. task[t].req.op = "create_resource" /\ disk[Res(t)] # Absent
        BY <3>3 DEF SetInv, AskedOK, ChangesOK
      <4> QED
        BY <1>2, <2>1, <2>2, <3>1, <4>1 DEF CreatedApart, Res
    <3> QED
      BY <3>2, <3>3
  <2>3. CASE e.path # Res(t)
    BY <1>1, <2>1, <2>3 DEF Inv, TypeOK
  <2> QED
    BY <2>2, <2>3
<1>5. Listed' /\ Served'
  BY <1>2, <1>3 DEF SetInv, Listed, Served
<1> QED
  BY <1>2, <1>4, <1>5 DEF SetInv, Locked, Exclusive, Res, Op

\* A step of the watcher.
LEMMA WatchKeepsSet ==
    ASSUME Scannable, Inv, SetInv, Watch
    PROVE  SetInv'
<1>1. UNCHANGED <<task, disk>>
  BY WatchLeaves
<1>2. (\A t \in Task : AskedOK(t, task'[t])) /\ Locked' /\ ChangesOK'
  BY <1>1 DEF SetInv, Locked, Exclusive, ChangesOK, Res, Op
<1>3. CASE TakeEvent
  <2>1. /\ queue # <<>> /\ queue' = Tail(queue) /\ UNCHANGED resources
    BY <1>3 DEF TakeEvent, TakesEvent
  <2>2. /\ watcher.pc = "waiting" /\ watcher'.pc = "compare"
        /\ watcher'.path = Head(queue)
        /\ watcher'.found = {r \in Resource : disk[r] # Absent}
    BY <1>3, TakeEventIs
  <2>3. \A r : Due(r) => Due(r)' \/ r = Head(queue)
    BY <2>1, TakingOne
  <2>4. Listed'
    BY <1>1, <2>2 DEF Listed
  <2>5. Served'
    BY <1>1, <2>1, <2>2, <2>3 DEF SetInv, Served
  <2> QED
    BY <1>2, <2>4, <2>5 DEF SetInv
<1>4. CASE PublishResources
  <2>1. /\ watcher.pc = "publish" /\ resources' = watcher.found
        /\ watcher'.pc \in {"decide", "exists"} /\ watcher'.found = watcher.found
    BY <1>4, PublishIs DEF Remembers
  <2>2. UNCHANGED queue
    BY <1>4 DEF PublishResources
  <2>3. \A r : Due(r)' <=> Due(r)
    BY <2>2 DEF Due
  <2>4. Listed' /\ Served'
    BY <1>1, <2>1, <2>3 DEF SetInv, Listed, Served
  <2> QED
    BY <1>2, <2>4 DEF SetInv
<1>5. CASE ~TakesEvent /\ ~PublishResources
  <2>1. UNCHANGED <<queue, resources>>
    BY <1>5, WatchLeaves
  <2>2. \A r : Due(r)' <=> Due(r)
    BY <2>1 DEF Due
  <2>3. CASE watcher.pc # "waiting" /\ watcher'.pc # "waiting" /\ Remembers
    <3>1. ASSUME NEW r \in Resource, watcher.path = r, watcher.pc \in {"compare", "publish"}
          PROVE  watcher'.pc = "publish"
      <4>1. ReadPrevious
        BY <1>5, <3>1
        DEF Watch, TakeEvent, ListFails, LoadSchema, ReplaceOverlay, ChangedExists,
            ReadChanged, EvictBroken, GiveUp, DecideInference, InferFile, InferNothing,
            InstallTables, SkipInstall, RefreshCache, WatcherMarksReady, WatcherAt
      <4> QED
        BY <3>1, <4>1, ReadPreviousIs, SchemaFileAssumption DEF SchemaTouched
    <3>2. Listed' /\ Served'
      BY <1>1, <2>1, <2>2, <2>3, <3>1 DEF SetInv, Listed, Served, Remembers
    <3> QED
      BY <1>2, <3>2 DEF SetInv
  <2>4. CASE watcher.pc # "waiting" /\ EndOfEvent
    <3>1. watcher'.pc = "waiting" /\ watcher.pc \notin {"compare", "publish"}
      BY <1>5, <2>4, EndOfEventIs, ReadPreviousIs
      DEF Watch, TakeEvent, ListFails, LoadSchema, ReplaceOverlay, ChangedExists,
          ReadChanged, EvictBroken, GiveUp, DecideInference, InferFile, InferNothing,
          InstallTables, SkipInstall, RefreshCache, WatcherMarksReady, WatcherAt
    <3>2. Listed' /\ Served'
      BY <1>1, <2>1, <2>2, <3>1 DEF SetInv, Listed, Served
    <3> QED
      BY <1>2, <3>2 DEF SetInv
  <2> QED
    BY <1>5, <2>3, <2>4, WatchGoesOn DEF TakeEvent, ListFails
<1> QED
  BY <1>3, <1>4, <1>5, TakingLists

LEMMA SetInvariance ==
    ASSUME WatcherRunning, Scannable, CreatedApart, DeletedApart
    PROVE  Spec => []SetInv
<1>1. Init => SetInv
  <2> SUFFICES ASSUME Init
               PROVE  SetInv
    OBVIOUS
  <2>1. \A t \in Task : task[t].pc = "idle" /\ task[t].req = NoRequest /\ task[t].guard = "none"
    BY DEF Init, IdleTask
  <2>2. /\ watcher.pc = "waiting"
        /\ \A r \in Resource : r \in resources <=> disk[r] # Absent
    BY DEF Init, WaitingWatcher, InitialResources
  <2> QED
    BY <2>1, <2>2 DEF SetInv, AskedOK, Locked, Exclusive, ChangesOK, Listed, Served
<1>2. Inv /\ SetInv /\ [Next]_vars => SetInv'
  <2> SUFFICES ASSUME Inv, SetInv, [Next]_vars
               PROVE  SetInv'
    OBVIOUS
  <2>1. CASE \E t \in Task : RequestStep(t)
    BY <2>1, SubmitKeepsSet, HandleKeepsSet DEF RequestStep
  <2>2. CASE WatcherStep
    BY <2>2, WatchKeepsSet DEF WatcherStep
  <2>3. CASE ExternalEdit
    BY <2>3, EditKeepsSet
  <2>4. CASE UNCHANGED vars
    BY <2>4 DEF vars, SetInv, Locked, Exclusive, ChangesOK, Listed, Served, Due, Res, Op
  <2> QED
    BY <2>1, <2>2, <2>3, <2>4 DEF Next, Rest
<1> QED
  BY <1>1, <1>2, Invariance, PTL DEF Spec

\* At rest the resources served are the files of the folder, although the
\* watcher publishes a list it made before it compared, and requests create and
\* delete resources in between: who changed the folder after the list was made
\* has reported it since.  An event whose list fails is dropped (watcher.rs:239),
\* so the folder is one that can be listed.
THEOREM SetSettles ==
    ASSUME WatcherRunning, Scannable, CreatedApart, DeletedApart
    PROVE  Spec => []SettledSet
<1>1. Inv /\ SetInv => SettledSet
  BY NothingDue DEF SetInv, Served, SettledSet, Quiescent, WatcherAt, Inv, TypeOK
<1> QED
  BY <1>1, SetInvariance, Invariance, PTL

-----------------------------------------------------------------------------
(***************************************************************************)
(* A ready server that is alone with its folder: every write infers the    *)
(* table of its resource again before the lock is released, and the        *)
(* watcher, which handles the same write some time later, infers it once   *)
(* more from what is in the file by then.                                  *)
(***************************************************************************)

\* What a handler is asked and has locked, whatever else happens.
InOrder == (\A t \in Task : AskedOK(t, task[t])) /\ Locked

LEMMA OrderInvariance == Spec => []InOrder
<1>1. Init => InOrder
  <2> SUFFICES ASSUME Init
               PROVE  InOrder
    OBVIOUS
  <2>1. \A t \in Task : task[t].pc = "idle" /\ task[t].req = NoRequest /\ task[t].guard = "none"
    BY DEF Init, IdleTask
  <2> QED
    BY <2>1 DEF InOrder, AskedOK, Locked, Exclusive
<1>2. Inv /\ InOrder /\ [Next]_vars => InOrder'
  <2> SUFFICES ASSUME Inv, InOrder, [Next]_vars
               PROVE  InOrder'
    OBVIOUS
  <2>1. CASE \E t \in Task : RequestStep(t)
    BY <2>1, AskedKept, SubmitAsked, HandleKeepsLocked, SubmitKeepsLocked
    DEF RequestStep, InOrder
  <2>2. CASE ~\E t \in Task : RequestStep(t)
    <3>1. UNCHANGED task
      BY <2>2, WatchLeaves DEF Next, Rest, vars, WatcherStep, ExternalEdit
    <3> QED
      BY <3>1 DEF InOrder, Locked, Exclusive, Res, Op
  <2> QED
    BY <2>1, <2>2
<1> QED
  BY <1>1, <1>2, Invariance, PTL DEF Spec

\* What is cached, and what a handler carries, is of a file that can be read.
FilesThere ==
    /\ \A r \in Resource : cache[r] # NoEntry => disk[r] \in Snapshot
    /\ \A t \in Task : Carries(task[t]) => disk[Res(t)] \in Snapshot

\* Between the rename and the assignment of the table.
Inferring(r) == \E t \in Task : task[t].pc \in {"install", "infer"} /\ Res(t) = r

\* The watcher is about to read the file, or to assign what it has read.
Rereads(r) ==
    /\ watcher.path = r
    /\ watcher.pc \in {"unlisted", "compare", "publish", "exists", "read", "decide", "install"}

Present == {r \in Resource : disk[r] # Absent}

\* As long as nobody withdraws readiness, no writer scans the folder ...
WritersOK ==
    \A t \in Task :
        /\ task[t].pc \notin RefreshPC
        /\ task[t].pc \in {"persist", "install"} => task[t].local
        /\ task[t].pc \in {"install", "infer"} => task[t].value = disk[Res(t)]

\* ... and neither does the watcher: its list is always that of the resources
\* served.
WatchedOK ==
    /\ watcher.pc \notin {"waiting", "unlisted"} => watcher.found = Present
    /\ watcher.pc \notin {"waiting", "unlisted", "compare"} => watcher.previous = Present
    /\ watcher.pc # "infer" /\ ~watcher.full
    /\ watcher.pc = "waiting" \/ watcher.path = SchemaFile => watcher.value = NoValue
    /\ watcher.pc \in {"decide", "install"} /\ watcher.path # SchemaFile
           => watcher.value = disk[watcher.path] \/ Due(watcher.path)

TablesOK ==
    \A r \in Resource :
        \/ schema.inferred[r] = TableOf(disk[r])
        \/ Inferring(r) \/ Due(r) \/ Rereads(r)

InferredInv ==
    /\ FilesThere
    /\ resources = Present
    /\ WritersOK
    /\ WatchedOK
    /\ TablesOK

\* The steps that look a resource up and open its file.
LEMMA LookingUp ==
    ASSUME NEW t \in Task, Handle(t)
    PROVE  /\ task[t].pc = "lookup" => LookupHit(t) \/ LookupStale(t) \/ LookupMiss(t)
           /\ task[t].pc = "open" => OpenFile(t) \/ OpenFails(t)
<1>1. task[t].pc = "lookup" => LookupHit(t) \/ LookupStale(t) \/ LookupMiss(t)
  BY DEF Handle, Acquire, Load, Update, Refresh, ManageSet, PutSchema,
      ReadRevision, CheckRegistered, OpenFile, OpenFails, Admit, Mark, InsertIfAbsent,
      Apply, ReadReadiness, Persist, PersistFails, SyncFails, InstallInCache, InferLocally,
      Certify, SnapshotResources, ScanFile, InstallRefreshed, MarkReady, Announce,
      ValidateInitial, CreateFile, FillFile, FillFails, Register, CacheNew, RemoveFile,
      Unregister, Uncache, CheckMerge, WriteSchemaFile, WriteSchemaFails, AdoptDeclared, At
<1>2. task[t].pc = "open" => OpenFile(t) \/ OpenFails(t)
  BY DEF Handle, Acquire, Load, Update, Refresh, ManageSet, PutSchema,
      ReadRevision, LookupHit, LookupStale, LookupMiss, CheckRegistered, Admit, Mark,
      InsertIfAbsent, Apply, ReadReadiness, Persist, PersistFails, SyncFails,
      InstallInCache, InferLocally, Certify, SnapshotResources, ScanFile,
      InstallRefreshed, MarkReady, Announce, ValidateInitial, CreateFile, FillFile,
      FillFails, Register, CacheNew, RemoveFile, Unregister, Uncache, CheckMerge, WriteSchemaFile, WriteSchemaFails,
      AdoptDeclared, At
<1> QED
  BY <1>1, <1>2

\* Who stores in the cache carries what is stored.
LEMMA CachesCarried ==
    ASSUME Inv, NEW t \in Task, Handle(t), Op(t) \notin SetOps, task[t].pc # "idle",
           NEW r \in Resource, cache'[r] # NoEntry
    PROVE  cache[r] # NoEntry \/ (r = Res(t) /\ Carries(task[t]))
<1>1. task[t].pc \notin SetPC
  BY TaskFacts DEF TaskInv, Allowed, Op
<1>2. Res(t) \in Resource
  BY TaskFacts
<1>3. CASE UNCHANGED cache
  BY <1>3
<1>4. CASE \E e : cache' = [cache EXCEPT ![Res(t)] = e] /\ Carries(task[t])
  BY <1>2, <1>4 DEF Inv, TypeOK
<1>5. CASE Mark(t)
  BY <1>3, <1>4, <1>5 DEF Mark, MarkValidated, At, Carries, NeedsSnapshot
<1>6. CASE InsertIfAbsent(t)
  BY <1>3, <1>4, <1>6 DEF InsertIfAbsent, At, Carries, NeedsSnapshot, UpdatePC
<1>7. CASE InstallInCache(t)
  BY <1>4, <1>7 DEF InstallInCache, UpdateCached, At, Carries, NeedsSnapshot, UpdatePC
<1>8. CASE Certify(t)
  BY <1>3, <1>4, <1>8 DEF Certify, MarkValidated, At, Carries, NeedsSnapshot, UpdatePC
<1> QED
  BY <1>1, <1>3, <1>5, <1>6, <1>7, <1>8
  DEF Handle, Acquire, Load, Update, Refresh, ManageSet, PutSchema,
      ReadRevision, LookupHit, LookupStale, LookupMiss, CheckRegistered, OpenFile,
      OpenFails, Admit, Apply, ReadReadiness, Persist, PersistFails, SyncFails,
      InferLocally, SnapshotResources, ScanFile, InstallRefreshed, MarkReady, Announce,
      ValidateInitial, CreateFile, FillFile, FillFails, Register, CacheNew, RemoveFile,
      Unregister, Uncache, CheckMerge, WriteSchemaFile, WriteSchemaFails, AdoptDeclared,
      At, SetPC, storeVars

\* Without creations and deletions a handler writes its file at one step.
LEMMA OnlyPersists ==
    ASSUME Alone, Inv, NEW t \in Task, Handle(t), Op(t) \notin SetOps, task[t].pc # "idle"
    PROVE  \/ LeavesFiles(t)
           \/ /\ task[t].pc = "persist" /\ task'[t].pc = "install"
              /\ disk' = [disk EXCEPT ![Res(t)] = task[t].value]
              /\ task[t].value \in Snapshot
<1>1. task[t].pc \notin SetPC
  BY TaskFacts DEF TaskInv, Allowed, Op
<1>2. CASE \E content : WritesFile(t, content)
  <2>1. /\ task[t].pc = "persist"
        /\ disk' = [disk EXCEPT ![Res(t)] = task[t].value]
    BY <1>1, <1>2 DEF WritesFile, SetPC
  <2>2. task[t].value \in Snapshot
    BY <2>1, WriterFacts DEF UpdatePC
  <2>3. CASE Persist(t)
    BY <2>1, <2>2, <2>3, GotoGoesOn DEF Persist, Goto, Inv, TypeOK
  <2>4. CASE PersistFails(t)
    <3>1. UNCHANGED <<disk, queue>> /\ task'[t].pc = "done"
      BY <2>4 DEF PersistFails, Fail, Inv, TypeOK, storeVars
    <3> QED
      BY <3>1 DEF LeavesFiles
  <2>5. Persist(t) \/ PersistFails(t)
    BY <2>1
    DEF Alone, SyncFails, Handle, Acquire, Load, Update, Refresh, ManageSet, PutSchema,
        ReadRevision, LookupHit, LookupStale, LookupMiss, CheckRegistered, OpenFile,
        OpenFails, Admit, Mark, InsertIfAbsent, Apply, ReadReadiness,
        InstallInCache, InferLocally, Certify,
        SnapshotResources, ScanFile, InstallRefreshed, MarkReady, Announce,
        ValidateInitial, CreateFile, FillFile, FillFails, Register, CacheNew, RemoveFile,
        Unregister, Uncache, CheckMerge, WriteSchemaFile, WriteSchemaFails, AdoptDeclared, At
  <2> QED
    BY <2>3, <2>4, <2>5
<1> QED
  BY <1>2, FilesWritten

\* So the files that were there still are.
LEMMA HandleKeepsThere ==
    ASSUME Alone, Inv, WatchInv, FilesThere, NEW t \in Task, Handle(t)
    PROVE  FilesThere' /\ UNCHANGED Present
<1>1. GoesOn(t, task[t].pc) /\ task[t].pc # "idle" /\ Op(t) \notin SetOps
  BY HandleGoesOn DEF GoesOn, Flow, WatchInv, Op
<1>2. Res(t) \in Resource /\ task[t].pc \notin SetPC
  BY <1>1, TaskFacts DEF TaskInv, Allowed, Op
<1>3. /\ \A r \in Resource : disk[r] \in Snapshot => disk'[r] \in Snapshot
      /\ UNCHANGED Present
  <2>1. CASE LeavesFiles(t)
    BY <2>1 DEF LeavesFiles, Present
  <2>2. CASE /\ task[t].pc = "persist" /\ task[t].value \in Snapshot
             /\ disk' = [disk EXCEPT ![Res(t)] = task[t].value]
    <3>1. \A r \in Resource : disk'[r] = IF r = Res(t) THEN task[t].value ELSE disk[r]
      BY <1>2, <2>2 DEF Inv, TypeOK
    <3>2. disk[Res(t)] \in Snapshot
      BY <2>2 DEF FilesThere, Carries, NeedsSnapshot, UpdatePC
    <3> QED
      BY <2>2, <3>1, <3>2, AbsentAssumption DEF Present
  <2> QED
    BY <1>1, <2>1, <2>2, OnlyPersists
<1>4. ASSUME NEW r \in Resource, cache'[r] # NoEntry
      PROVE  disk'[r] \in Snapshot
  BY <1>1, <1>3, <1>4, CachesCarried DEF FilesThere
<1>5. ASSUME Carries(task'[t])
      PROVE  disk'[Res(t)] \in Snapshot
  <2>1. CASE Carries(task[t])
    BY <1>2, <1>3, <2>1 DEF FilesThere
  <2>2. CASE ~Carries(task[t])
    <3>1. task[t].pc \in {"lookup", "open"}
      <4>1. task[t].pc \in RefreshPC => Op(t) \in UpdateOps
        BY <1>1, TaskFacts DEF TaskInv, Allowed, Op
      <4>2. <<task[t].pc, task'[t].pc>> \in Flow /\ task'[t].req.op = Op(t)
        BY <1>1 DEF GoesOn, Op
      <4>3. task[t].pc \notin {"admit", "mark"} \cup UpdatePC \cup RefreshPC
        BY <1>1, <2>2, <4>1 DEF Carries, NeedsSnapshot, Op
      <4>4. task'[t].pc \in {"admit", "mark"} \cup UpdatePC \cup RefreshPC
        BY <1>5 DEF Carries, NeedsSnapshot
      <4> QED
        BY <1>2, <4>2, <4>3, <4>4 DEF Flow, UpdatePC, RefreshPC, SetPC
    <3>2. CASE LookupHit(t) \/ LookupStale(t)
      BY <1>2, <1>3, <3>2 DEF LookupHit, LookupStale, FilesThere
    <3>3. CASE LookupMiss(t)
      <4>1. task'[t] = [task[t] EXCEPT !.pc = "registered"] /\ task[t] \in TaskState
        BY <3>3, TaskFacts DEF LookupMiss, Goto, Inv, TypeOK
      <4>2. task'[t].pc = "registered"
        BY <4>1 DEF TaskState
      <4> QED
        BY <1>5, <4>2 DEF Carries, NeedsSnapshot, UpdatePC, RefreshPC
    <3>4. CASE OpenFile(t)
      BY <1>2, <1>3, <3>4 DEF OpenFile
    <3>5. CASE OpenFails(t)
      <4>1. task'[t].pc = "done"
        BY <3>5 DEF OpenFails, Fail, Inv, TypeOK
      <4> QED
        BY <1>5, <4>1 DEF Carries, NeedsSnapshot, UpdatePC, RefreshPC
    <3> QED
      BY <3>1, <3>2, <3>3, <3>4, <3>5, LookingUp
  <2> QED
    BY <2>1, <2>2
<1>6. ASSUME NEW u \in Task, u # t, Carries(task'[u])
      PROVE  disk'[Res(u)] \in Snapshot /\ task'[u] = task[u]
  <2>1. task'[u] = task[u]
    BY <1>1, <1>6 DEF GoesOn, OthersStay
  <2>2. Res(u) \in Resource
    BY <1>6, <2>1, TaskFacts DEF Carries
  <2> QED
    BY <1>3, <1>6, <2>1, <2>2 DEF FilesThere
<1>7. task'[t].req = task[t].req
  BY <1>1 DEF GoesOn
<1> QED
  BY <1>3, <1>4, <1>5, <1>6, <1>7 DEF FilesThere, Res

\* Every change of a file is due, if there is a watcher to hear of it.
LEMMA DueKept ==
    ASSUME WatcherOff, Inv, NEW t \in Task, Handle(t)
    PROVE  /\ \A r \in Resource : Due(r) => Due(r)'
           /\ watcher.pc # "waiting" =>
                  \A r \in Resource : disk'[r] # disk[r] => Due(r)'
<1>1. CASE WatcherRunning
  BY <1>1, HandleReports DEF Reported
<1>2. CASE Idling
  BY <1>2, NothingDue DEF Idling
<1> QED
  BY <1>1, <1>2 DEF WatcherOff

\* A step of a handler.
LEMMA HandleKeepsInferred ==
    ASSUME Alone, WatcherOff, Inv, WatchInv, InOrder, InferredInv, ready, NEW t \in Task,
           Handle(t), UNCHANGED watcher
    PROVE  InferredInv'
<1>1. /\ GoesOn(t, task[t].pc) /\ task[t].pc # "idle" /\ Op(t) \notin SetOps
  BY HandleGoesOn DEF GoesOn, Flow, WatchInv, Op
<1>2. /\ \A u \in Task : u # t => task'[u] = task[u]
      /\ task'[t].req = task[t].req
  BY <1>1 DEF GoesOn, OthersStay
<1>3. task[t].pc \notin SetPC /\ task[t].pc \notin RefreshPC /\ Res(t) \in Resource
  BY <1>1, TaskFacts DEF TaskInv, Allowed, Op, InferredInv, WritersOK
<1>4. FilesThere' /\ UNCHANGED Present
  BY HandleKeepsThere DEF InferredInv
<1>5. \/ LeavesFiles(t)
      \/ /\ task[t].pc = "persist" /\ task'[t].pc = "install"
         /\ disk' = [disk EXCEPT ![Res(t)] = task[t].value]
  BY <1>1, OnlyPersists
<1>6. resources' = Present'
  BY <1>3, <1>4, ResourcesChanged DEF SetPC, InferredInv
<1>7. ASSUME NEW u \in Task
      PROVE  /\ task'[u].pc \notin RefreshPC
             /\ task'[u].pc \in {"persist", "install"} => task'[u].local
             /\ task'[u].pc \in {"install", "infer"} => task'[u].value = disk'[task'[u].req.res]
  <2>1. CASE u = t
    <3>1. task[t].pc = "install" => task[t].local /\ task'[t].pc = "infer"
      BY WriterCarries DEF InferredInv, WritersOK
    <3>2. task'[t].pc \notin RefreshPC
      BY <1>1, <1>3, <3>1 DEF GoesOn, Flow, SetPC, RefreshPC
    <3>3. task'[t].pc \in {"persist", "install"} => task'[t].local
      BY <1>1, WriterCarries DEF GoesOn, Flow, InferredInv, WritersOK
    <3>4. CASE task'[t].pc = "infer"
      <4>1. task[t].pc = "install" /\ task'[t].value = task[t].value
        BY <1>1, <3>4, WriterCarries DEF GoesOn, Flow
      <4>2. UNCHANGED disk
        BY <1>5, <4>1 DEF LeavesFiles
      <4>3. task[t].value = disk[task[t].req.res]
        BY <4>1 DEF InferredInv, WritersOK, Res
      <4>4. task'[t].value = disk'[task'[t].req.res]
        BY <1>2, <4>1, <4>2, <4>3
      <4> QED
        BY <2>1, <3>2, <3>3, <4>4
    <3>5. CASE task'[t].pc = "install"
      <4>1. task[t].pc = "persist" /\ task'[t].value = task[t].value
        BY <1>1, <3>5, WriterCarries DEF GoesOn, Flow
      <4>2. disk'[Res(t)] = task[t].value
        BY <1>3, <1>5, <3>5 DEF LeavesFiles, Inv, TypeOK
      <4>3. task'[t].value = disk'[task'[t].req.res]
        BY <1>2, <4>1, <4>2 DEF Res
      <4> QED
        BY <2>1, <3>2, <3>3, <4>3
    <3> QED
      BY <2>1, <3>2, <3>3, <3>4, <3>5
  <2>2. CASE u # t
    <3>1. task'[u] = task[u]
      BY <1>2, <2>2
    <3>2. ASSUME task[u].pc \in {"install", "infer"}
          PROVE  task[u].value = disk'[Res(u)]
      <4>1. Op(u) \in UpdateOps /\ Res(u) \in Resource
        BY <3>2, TaskFacts DEF TaskInv, Allowed, UpdatePC, Op
      <4>2. task[u].guard = "write"
        BY <3>2, <4>1 DEF InOrder, Locked
      <4>3. disk'[Res(u)] = disk[Res(u)]
        <5>1. CASE LeavesFiles(t)
          BY <5>1 DEF LeavesFiles
        <5>2. CASE task[t].pc = "persist" /\ disk' = [disk EXCEPT ![Res(t)] = task[t].value]
          <6>1. Op(t) \in UpdateOps
            BY <5>2, TaskFacts DEF TaskInv, Allowed, UpdatePC, Op
          <6>2. task[t].guard = "write"
            BY <5>2, <6>1 DEF InOrder, Locked
          <6>3. Res(t) # Res(u)
            BY <2>2, <4>2, <6>2 DEF InOrder, Locked, Exclusive
          <6> QED
            BY <4>1, <5>2, <6>3 DEF Inv, TypeOK
        <5> QED
          BY <1>5, <5>1, <5>2
      <4> QED
        BY <3>2, <4>3 DEF InferredInv, WritersOK
    <3> QED
      BY <3>1, <3>2 DEF InferredInv, WritersOK, Res
  <2> QED
    BY <2>1, <2>2
<1>8. WritersOK'
  BY <1>7 DEF WritersOK, Res
<1>9. WatchedOK'
  <2>1. watcher.pc # "waiting" /\ watcher.path # SchemaFile => watcher.path \in Resource
    BY WatcherFacts DEF WatcherInv
  <2>2. watcher.pc \in {"decide", "install"} /\ watcher.path # SchemaFile
            => watcher.value = disk'[watcher.path] \/ Due(watcher.path)'
    BY <2>1, DueKept DEF InferredInv, WatchedOK
  <2> QED
    BY <1>4, <2>2 DEF InferredInv, WatchedOK
<1>10. ASSUME NEW r \in Resource, ~Inferring(r)', ~Due(r)', ~Rereads(r)'
       PROVE  schema'.inferred[r] = TableOf(disk'[r])
  <2>1. \A u \in Task : u # t => ~(task[u].pc \in {"install", "infer"} /\ Res(u) = r)
    BY <1>2, <1>10 DEF Inferring, Res
  <2>2. ~(task'[t].pc \in {"install", "infer"} /\ Res(t) = r)
    BY <1>2, <1>10 DEF Inferring, Res
  <2>3. disk'[r] = disk[r]
    <3>1. CASE LeavesFiles(t)
      BY <3>1 DEF LeavesFiles
    <3>2. CASE ~LeavesFiles(t)
      <4>1. Res(t) # r
        BY <1>5, <2>2, <3>2
      <4> QED
        BY <1>5, <3>2, <4>1 DEF Inv, TypeOK
    <3> QED
      BY <3>1, <3>2
  <2>4. ~Due(r) /\ ~Rereads(r)
    BY <1>10, DueKept DEF Rereads
  <2>5. CASE task[t].pc = "infer" /\ Res(t) = r
    <3>1. task[t].value \in Snapshot /\ task[t].value = disk[r]
      BY <2>5, WriterFacts DEF UpdatePC, InferredInv, WritersOK
    <3>2. schema'.inferred = [schema.inferred EXCEPT ![r] = InferTable(task[t].value)]
      BY <2>5, InferredChanged
    <3>3. schema.inferred \in Tables
      BY DEF Inv, TypeOK, Store
    <3>4. schema'.inferred[r] = InferTable(task[t].value)
      BY <3>2, <3>3 DEF Tables
    <3> QED
      BY <2>3, <3>1, <3>4, TableOfFile
  <2>6. CASE ~(task[t].pc = "infer" /\ Res(t) = r)
    <3>1. ~Inferring(r)
      <4>1. task[t].pc = "install" => task'[t].pc = "infer"
        BY WriterCarries DEF InferredInv, WritersOK
      <4> QED
        BY <2>1, <2>2, <2>6, <4>1 DEF Inferring
    <3>2. schema'.inferred[r] = schema.inferred[r]
      <4>1. schema.inferred \in Tables
        BY DEF Inv, TypeOK, Store
      <4>2. task[t].pc # "scan"
        BY <1>3 DEF RefreshPC
      <4> QED
        BY <2>6, <4>1, <4>2, InferredChanged DEF Tables
    <3> QED
      BY <2>3, <2>4, <3>1, <3>2 DEF InferredInv, TablesOK
  <2> QED
    BY <2>5, <2>6
<1>11. TablesOK'
  BY <1>10 DEF TablesOK
<1> QED
  BY <1>4, <1>6, <1>8, <1>9, <1>11 DEF InferredInv

\* A request that arrives changes nothing of this.
LEMMA SubmitKeepsInferred ==
    ASSUME Inv, InOrder, InferredInv, NEW t \in Task, Submit(t), UNCHANGED watcher
    PROVE  InferredInv'
<1>1. /\ OthersStay(t) /\ UNCHANGED storeVars
      /\ task[t].pc = "idle"
      /\ task'[t].pc \in {"acquire", "revision", "validate", "merge"}
  BY SubmitAsked DEF InOrder
<1>2. \A r \in Resource : Inferring(r) => Inferring(r)'
  BY <1>1 DEF Inferring, OthersStay, Res
<1>3. /\ UNCHANGED <<disk, resources, cache, schema, queue>>
      /\ UNCHANGED Present
      /\ \A r : (Due(r)' <=> Due(r)) /\ (Rereads(r)' <=> Rereads(r))
  BY <1>1 DEF storeVars, Present, Due, Rereads
<1>4. ~Carries(task'[t])
  BY <1>1 DEF Carries, NeedsSnapshot, UpdatePC, RefreshPC
<1>5. FilesThere'
  BY <1>1, <1>3, <1>4 DEF InferredInv, FilesThere, OthersStay, Res
<1>6. WritersOK'
  BY <1>1, <1>3 DEF InferredInv, WritersOK, OthersStay, Res, RefreshPC
<1>7. WatchedOK' /\ TablesOK'
  BY <1>2, <1>3 DEF InferredInv, WatchedOK, TablesOK
<1> QED
  BY <1>3, <1>5, <1>6, <1>7 DEF InferredInv

\* The watcher infers the table of the changed file once more.
LEMMA InstallKeepsTables ==
    ASSUME Inv, WatchInv, InferredInv, InstallTables
    PROVE  \A r \in Resource :
               \/ schema'.inferred[r] = TableOf(disk[r])
               \/ Inferring(r) \/ Due(r)
<1>1. watcher.pc = "install" /\ ~NothingToInstall /\ ~watcher.full
  BY DEF InstallTables, WatcherAt, InferredInv, WatchedOK
<1>2. watcher.value # NoValue /\ watcher.path # SchemaFile
  BY <1>1 DEF NothingToInstall, InferredInv, WatchedOK
<1>3. watcher.path \in Resource /\ watcher.value \in Snapshot
  BY <1>1, <1>2, WatcherFacts DEF WatcherInv, WatcherState
<1>4. PICK p \in Resource : p = watcher.path
  BY <1>3
<1>5. schema'.inferred = [schema.inferred EXCEPT ![p] = InferTable(watcher.value)]
  BY <1>1, <1>4, InferredOfStore DEF InstallTables, WatchedTables, Inv, TypeOK
<1>6. schema.inferred \in Tables
  BY DEF Inv, TypeOK, Store
<1>7. /\ schema'.inferred[p] = InferTable(watcher.value)
      /\ \A r \in Resource : r # p => schema'.inferred[r] = schema.inferred[r]
  BY <1>5, <1>6 DEF Tables
<1>8. schema'.inferred[p] = TableOf(disk[p]) \/ Due(p)
  BY <1>1, <1>2, <1>3, <1>4, <1>7, TableOfFile DEF InferredInv, WatchedOK
<1>9. \A r \in Resource : r # p => ~Rereads(r)
  BY <1>4 DEF Rereads
<1> QED
  BY <1>7, <1>8, <1>9 DEF InferredInv, TablesOK

LEMMA WatchKeepsInferred ==
    ASSUME Inv, WatchInv, InferredInv, ready, ready', Watch
    PROVE  InferredInv'
<1>1. /\ UNCHANGED <<disk, task>> /\ UNCHANGED Present
      /\ \A r : Inferring(r)' <=> Inferring(r)
  BY WatchLeaves DEF Present, Inferring, Res
<1>2. WritersOK'
  BY <1>1 DEF InferredInv, WritersOK, Res
<1>3. ~GiveUp
  BY DEF GiveUp
<1>4. ~EvictBroken /\ ~InferFile /\ ~InferNothing
  BY DEF EvictBroken, InferFile, InferNothing, WatcherAt, WatchInv, InferredInv, WatchedOK
<1>5. FilesThere'
  <2>1. CASE ~RefreshCache
    BY <1>1, <1>4, <2>1, WatchLeaves DEF InferredInv, FilesThere, Res
  <2>2. CASE RefreshCache
    <3>1. watcher.path \in {SchemaFile} \cup Resource /\ Readable(watcher.path)
      BY <2>2, WatcherFacts DEF RefreshCache, WatcherAt, WatcherInv, WatchInv
    <3>2. PICK p : p = watcher.path
      OBVIOUS
    <3>3. \A r \in Resource : cache'[r] # NoEntry => cache[r] # NoEntry \/ r = p
      BY <2>2, <3>1, <3>2 DEF RefreshCache, SchemaTouched, Inv, TypeOK
    <3>4. p \in Resource => disk[p] \in Snapshot
      BY <3>1, <3>2, SchemaFileAssumption DEF Readable
    <3> QED
      BY <1>1, <3>3, <3>4 DEF InferredInv, FilesThere, Res
  <2> QED
    BY <2>1, <2>2
<1>6. resources' = Present'
  <2>1. CASE PublishResources
    BY <1>1, <2>1, PublishIs DEF InferredInv, WatchedOK
  <2>2. CASE ~PublishResources
    BY <1>1, <2>2, WatchLeaves DEF InferredInv
  <2> QED
    BY <2>1, <2>2
\* It is enough that what the watcher knows is right, and that a table that it
\* owed is still owed or was inferred.
<1>7. SUFFICES WatchedOK' /\ TablesOK'
  BY <1>2, <1>5, <1>6 DEF InferredInv
<1>8. ASSUME UNCHANGED schema, \A r \in Resource : Due(r) => Due(r)' \/ Rereads(r)',
             \A r \in Resource : Rereads(r) => Rereads(r)'
                                            \/ schema.inferred[r] = TableOf(disk[r]) \/ Due(r)'
      PROVE  TablesOK'
  BY <1>1, <1>8 DEF InferredInv, TablesOK
<1>9. CASE TakesEvent
  <2>1. /\ queue # <<>> /\ queue' = Tail(queue) /\ UNCHANGED <<resources, schema>>
        /\ watcher.pc = "waiting"
    BY <1>9 DEF TakesEvent, WatcherAt
  <2>2. /\ watcher'.pc \in {"compare", "unlisted"} /\ watcher'.path = Head(queue)
        /\ watcher'.pc = "compare" => watcher'.found = Present
        /\ KeepsValue /\ ~watcher'.full
    <3>1. CASE TakeEvent
      BY <3>1, TakeEventIs DEF Present, KeepsScan, InferredInv, WatchedOK
    <3>2. CASE ListFails
      <4>1. KeepsValue /\ KeepsScan
        BY <3>2 DEF ListFails, Inv, TypeOK, WatcherState, KeepsValue, KeepsScan
      <4> QED
        BY <3>2, <4>1, ListFailsIs DEF KeepsScan, InferredInv, WatchedOK
    <3> QED
      BY <2>1, <3>1, <3>2
      DEF Watch, ReadPrevious, LoadSchema, ReplaceOverlay, PublishResources, ChangedExists,
          ReadChanged, EvictBroken, GiveUp, DecideInference, InferFile, InferNothing,
          InstallTables, SkipInstall, RefreshCache, WatcherMarksReady, WatcherAt
  <2>3. \A r : Due(r) => Due(r)' \/ Rereads(r)'
    BY <2>1, <2>2, TakingOne DEF Rereads
  <2>4. \A r : ~Rereads(r)
    BY <2>1 DEF Rereads
  <2>5. WatchedOK'
    BY <1>1, <2>1, <2>2 DEF InferredInv, WatchedOK, KeepsValue
  <2> QED
    BY <1>8, <2>1, <2>3, <2>4, <2>5
<1>10. CASE ~TakesEvent
  <2>1. UNCHANGED queue /\ \A r : Due(r)' <=> Due(r)
    BY <1>10, WatchLeaves DEF Due
  <2>2. CASE ReadPrevious
    <3>1. /\ watcher.pc = "compare" /\ watcher'.pc \in {"load", "publish"}
          /\ watcher'.pc = "publish" \/ watcher.path = SchemaFile
          /\ watcher'.previous = Present /\ UNCHANGED schema
          /\ Remembers /\ KeepsValue /\ KeepsScan
      BY <2>2, ReadPreviousIs DEF InferredInv, ReadPrevious, requestVars, SchemaTouched
    <3>2. WatchedOK'
      BY <1>1, <2>1, <3>1 DEF InferredInv, WatchedOK, Remembers, KeepsValue, KeepsScan
    <3>3. \A r \in Resource : Rereads(r) => Rereads(r)'
      BY <3>1, SchemaFileAssumption DEF Rereads, Remembers
    <3> QED
      BY <1>8, <2>1, <3>1, <3>2, <3>3
  <2>3. CASE LoadSchema \/ ReplaceOverlay
    <3>1. /\ \/ watcher.pc = "load" /\ watcher'.pc \in {"fail", "replace"}
             \/ watcher.pc = "replace" /\ watcher'.pc \in {"fail", "publish"}
          /\ Remembers /\ KeepsPrevious /\ KeepsValue /\ KeepsScan
      BY <2>3, LoadSchemaIs, ReplaceOverlayIs
    <3>2. schema'.inferred = schema.inferred
      BY <2>3, ReplaceOverlayIs, InferredOfStore DEF LoadSchema, requestVars, Inv, TypeOK
    <3>3. WatchedOK'
      BY <1>1, <2>1, <3>1
      DEF InferredInv, WatchedOK, Remembers, KeepsPrevious, KeepsValue, KeepsScan
    <3>4. \A r \in Resource : ~Rereads(r)
      BY <3>1 DEF Rereads
    <3>5. TablesOK'
      BY <1>1, <2>1, <3>2, <3>4 DEF InferredInv, TablesOK
    <3> QED
      BY <3>3, <3>5
  <2>4. CASE PublishResources
    <3>1. /\ watcher.pc = "publish" /\ watcher'.pc \in {"decide", "exists"}
          /\ watcher'.pc = "decide" => watcher.path = SchemaFile
          /\ UNCHANGED schema
          /\ Remembers /\ KeepsPrevious /\ KeepsValue /\ KeepsScan
      BY <2>4, PublishIs DEF PublishResources, SchemaTouched
    <3>2. WatchedOK'
      BY <1>1, <2>1, <3>1
      DEF InferredInv, WatchedOK, Remembers, KeepsPrevious, KeepsValue, KeepsScan
    <3>3. \A r \in Resource : Rereads(r) => Rereads(r)'
      BY <3>1 DEF Rereads, Remembers
    <3> QED
      BY <1>8, <2>1, <3>1, <3>2, <3>3
  <2>5. CASE ChangedExists
    <3>1. watcher.pc = "exists" /\ watcher.path \in Resource /\ Readable(watcher.path)
      BY <2>5, WatcherFacts DEF ChangedExists, WatcherAt, WatcherInv, WatchInv
    <3>2. disk[watcher.path] # Absent
      BY <3>1, AbsentAssumption, SchemaFileAssumption DEF Readable
    <3>3. /\ watcher'.pc = "read" /\ UNCHANGED schema
          /\ Remembers /\ KeepsPrevious /\ KeepsValue /\ KeepsScan
      BY <2>5, <3>2, WatcherGotoIs DEF ChangedExists, requestVars
    <3>4. WatchedOK'
      BY <1>1, <2>1, <3>1, <3>3
      DEF InferredInv, WatchedOK, Remembers, KeepsPrevious, KeepsValue, KeepsScan
    <3>5. \A r \in Resource : Rereads(r) => Rereads(r)'
      BY <3>3 DEF Rereads, Remembers
    <3> QED
      BY <1>8, <2>1, <3>3, <3>4, <3>5
  <2>6. CASE ReadChanged
    <3>1. watcher.pc = "read" /\ watcher.path \in Resource /\ Readable(watcher.path)
      BY <2>6, WatcherFacts DEF ReadChanged, WatcherAt, WatcherInv, WatchInv
    <3>2. disk[watcher.path] \in Snapshot /\ watcher.path # SchemaFile
      BY <3>1, SchemaFileAssumption DEF Readable
    <3>3. /\ watcher'.pc = "decide" /\ watcher'.value = disk[watcher.path]
          /\ UNCHANGED schema
          /\ Remembers /\ KeepsPrevious /\ KeepsScan
      BY <2>6, <3>2, ReadChangedIs DEF ReadChanged, requestVars
    <3>4. watcher'.value = disk'[watcher'.path] /\ watcher'.path # SchemaFile
      BY <1>1, <3>2, <3>3 DEF Remembers
    <3>5. WatchedOK'
      BY <1>1, <3>1, <3>3, <3>4
      DEF InferredInv, WatchedOK, Remembers, KeepsPrevious, KeepsScan
    <3>6. \A r \in Resource : Rereads(r) => Rereads(r)'
      BY <3>3 DEF Rereads, Remembers
    <3> QED
      BY <1>8, <2>1, <3>3, <3>5, <3>6
  <2>7. CASE DecideInference
    <3>1. watcher.pc = "decide" /\ watcher.previous = watcher.found
      BY <2>7, DecideInferenceIs DEF InferredInv, WatchedOK
    <3>2. /\ watcher'.pc = "install" /\ ~watcher'.full /\ UNCHANGED schema
          /\ Remembers /\ KeepsPrevious /\ KeepsValue
      BY <2>7, <3>1, DecideInferenceIs DEF DecideInference, requestVars
    <3>3. WatchedOK'
      BY <1>1, <2>1, <3>1, <3>2
      DEF InferredInv, WatchedOK, Remembers, KeepsPrevious, KeepsValue
    <3>4. \A r \in Resource : Rereads(r) => Rereads(r)'
      BY <3>2 DEF Rereads, Remembers
    <3> QED
      BY <1>8, <2>1, <3>2, <3>3, <3>4
  <2>8. CASE InstallTables
    <3>1. /\ watcher.pc = "install" /\ watcher'.pc \in {"cache", "fail"}
          /\ Remembers /\ KeepsPrevious /\ KeepsValue /\ KeepsScan
      BY <2>8, WatcherGotoIs DEF InstallTables, WatcherAt
    <3>2. WatchedOK'
      BY <1>1, <2>1, <3>1
      DEF InferredInv, WatchedOK, Remembers, KeepsPrevious, KeepsValue, KeepsScan
    <3>3. TablesOK'
      BY <1>1, <2>1, <2>8, InstallKeepsTables DEF TablesOK
    <3> QED
      BY <3>2, <3>3
  <2>9. CASE SkipInstall
    <3>1. /\ watcher.pc = "install" /\ watcher'.pc = "cache" /\ watcher.value = NoValue
          /\ UNCHANGED schema
          /\ Remembers /\ KeepsPrevious /\ KeepsValue /\ KeepsScan
      BY <2>9, WatcherGotoIs DEF SkipInstall, WatcherAt, NothingToInstall, requestVars
    <3>2. WatchedOK'
      BY <1>1, <2>1, <3>1
      DEF InferredInv, WatchedOK, Remembers, KeepsPrevious, KeepsValue, KeepsScan
    <3>3. watcher.path = SchemaFile
      BY <3>1 DEF WatchInv
    <3>4. \A r \in Resource : ~Rereads(r)
      BY <3>3, SchemaFileAssumption DEF Rereads
    <3> QED
      BY <1>8, <2>1, <3>1, <3>2, <3>4
  <2>10. CASE RefreshCache \/ WatcherMarksReady
    <3>1. watcher.pc \in {"cache", "mark_ready"} /\ EndOfEvent /\ UNCHANGED schema
      BY <2>10 DEF RefreshCache, WatcherMarksReady, WatcherAt, InferredInv, WatchedOK
    <3>2. watcher'.pc = "waiting" /\ watcher'.value = NoValue /\ ~watcher'.full
      BY <3>1 DEF EndOfEvent, WaitingWatcher
    <3>3. WatchedOK'
      BY <3>2 DEF WatchedOK
    <3>4. \A r \in Resource : ~Rereads(r)
      BY <3>1 DEF Rereads
    <3> QED
      BY <1>8, <2>1, <3>1, <3>3, <3>4
  <2> QED
    BY <1>3, <1>4, <1>10, <2>2, <2>3, <2>4, <2>5, <2>6, <2>7, <2>8, <2>9, <2>10
    DEF Watch, TakeEvent, ListFails
<1> QED
  BY <1>9, <1>10

\* A server that starts ready has read every file.
LEMMA InitInferred ==
    ASSUME InitialReady, Init
    PROVE  InferredInv
<1>1. \A t \in Task : task[t].pc = "idle"
  BY DEF Init, IdleTask
<1>2. \A r \in Resource : cache[r] = NoEntry
  BY DEF Init
<1>3. /\ watcher.pc = "waiting" /\ watcher.value = NoValue /\ ~watcher.full
      /\ resources = Present
  BY DEF Init, WaitingWatcher, InitialResources, Present
<1>4. ASSUME NEW r \in Resource
      PROVE  schema.inferred[r] = TableOf(disk[r])
  <2>1. schema.inferred = InitialTables /\ disk = InitialDisk
    BY DEF Init, NewStore
  <2>2. CASE r \in InitialResources
    <3>1. InitialDisk[r] \in Snapshot
      BY <2>2 DEF InitialReady
    <3> QED
      BY <2>1, <2>2, <3>1, TableOfFile DEF InitialTables
  <2>3. CASE r \notin InitialResources
    <3>1. InitialDisk[r] = Absent
      BY <2>3 DEF InitialResources
    <3> QED
      BY <2>1, <2>3, <3>1, TableOfFile DEF InitialTables
  <2> QED
    BY <2>2, <2>3
<1>5. FilesThere /\ WritersOK
  BY <1>1, <1>2 DEF FilesThere, WritersOK, Carries, RefreshPC
<1> QED
  BY <1>3, <1>4, <1>5 DEF InferredInv, WatchedOK, TablesOK

\* Whatever the requests and the server's own watcher do in between, the
\* inferred schema of a server at rest is that of the files, as long as nothing
\* makes the server withdraw its readiness (a schema.json that does not parse
\* or does not merge, a folder that cannot be listed) and resources neither
\* come nor go: each write infers the table of its own resource only and
\* installs it some steps after the file (refresh_after_resource_write), and
\* the watcher installs what it has read some steps before.
THEOREM InferredSettles ==
    ASSUME Alone, InitialReady
    PROVE  Spec /\ []ready => []SettledInferred
<1>1. Init => InferredInv
  BY InitInferred
<1>2. Inv /\ WatchInv /\ WatcherOff /\ InOrder /\ InferredInv /\ ready /\ ready'
          /\ [Next]_vars => InferredInv'
  <2> SUFFICES ASSUME Inv, WatchInv, WatcherOff, InOrder, InferredInv, ready, ready',
                      [Next]_vars
               PROVE  InferredInv'
    OBVIOUS
  <2>1. CASE \E t \in Task : RequestStep(t)
    BY <2>1, SubmitKeepsInferred, HandleKeepsInferred DEF RequestStep
  <2>2. CASE WatcherStep
    BY <2>2, WatchKeepsInferred DEF WatcherStep
  <2>3. CASE ExternalEdit
    BY <2>3 DEF ExternalEdit, WatchInv
  <2>4. CASE UNCHANGED vars
    BY <2>4
    DEF vars, InferredInv, FilesThere, WritersOK, WatchedOK, TablesOK, Present, Inferring,
        Rereads, Due, Res
  <2> QED
    BY <2>1, <2>2, <2>3, <2>4 DEF Next, Rest
<1>3. Inv /\ InferredInv => SettledInferred
  <2> SUFFICES ASSUME Inv, InferredInv, Quiescent
               PROVE  schema.inferred = DiskTables
    BY DEF SettledInferred
  <2>1. \A r \in Resource : ~Inferring(r) /\ ~Due(r) /\ ~Rereads(r)
    BY NothingDue DEF Quiescent, Inferring, Rereads, At, WatcherAt
  <2>2. schema.inferred \in [Resource -> {NoTable} \cup SUBSET Column]
    BY DEF Inv, TypeOK, Store, Tables
  <2> QED
    BY <2>1, <2>2 DEF InferredInv, TablesOK, DiskTables
<1> QED
  BY <1>1, <1>2, <1>3, Invariance, WatchInvariance, OffInvariance, OrderInvariance, PTL
  DEF Spec

\* Where the watcher does not run nobody withdraws readiness.
COROLLARY UnwatchedInferred ==
    ASSUME Alone, InitialReady, ~WatcherRunning
    PROVE  Spec => []SettledInferred
<1>1. Init => ready
  BY DEF Init
<1>2. Idling /\ ready /\ [Next]_vars => ready'
  BY ReadinessKept, IdleWatcher
  DEF Next, Rest, vars, RequestStep, Submit, storeVars, WatcherStep, ExternalEdit
<1> QED
  BY <1>1, <1>2, InferredSettles, IdlingInvariance, PTL DEF Spec

-----------------------------------------------------------------------------
(***************************************************************************)
(* A server whose clients only read follows the folder.                    *)
(***************************************************************************)

ReadsOnly == \A t \in Task : \A req \in Workload[t] : req.op \in ReadOps

\* A removal of the file of r is still to come.
Vanishes(r) == \E e \in edits : e.path = r /\ e.content = Absent

\* The inferred table of r is that of a file that can be read.
Fresh(r) == disk[r] # Garbage /\ schema.inferred[r] = TableOf(disk[r])

\* Nothing went wrong that the watcher has not declared yet.
Whole == ready /\ watcher.pc \notin {"evict", "fail"}

\* A file is removed once: where an event tells of a missing file, and for the
\* event under way also where the list does not have it, that was the removal.
EventsOK ==
    /\ \A r \in Resource :
           Due(r) \/ (watcher.pc # "waiting" /\ watcher.path = r)
               => disk[r] # Absent \/ ~Vanishes(r)
    /\ watcher.pc # "waiting" /\ watcher.path \in Resource \ watcher.found
           => ~Vanishes(watcher.path)

\* What the watcher has read of the changed file is its content, or a later
\* event says otherwise.
ValueOK ==
    LET p == watcher.path
        v == watcher.value
    IN  /\ watcher.pc \in {"waiting", "compare", "load", "replace", "publish", "exists",
                          "read"}
               => v = NoValue
        /\ watcher.pc \in {"decide", "infer", "install"} =>
               /\ p = SchemaFile => v = NoValue
               /\ p # SchemaFile =>
                      \/ Due(p)
                      \/ v = NoValue /\ disk[p] = Absent
                      \/ v # NoValue /\ v = disk[p]
               /\ p # SchemaFile /\ v # NoValue /\ p \notin watcher.found
                      => disk[p] # Absent

\* The two sets that it compares, and when it infers every table.
ComparedOK ==
    /\ watcher.pc \in {"load", "replace", "publish"} => watcher.previous = resources
    /\ watcher.pc \in {"exists", "read", "decide", "infer", "install", "cache", "mark_ready"}
           => watcher.found = resources
    /\ watcher.pc \in {"infer", "install"} =>
           watcher.full \/ (ready /\ watcher.previous = watcher.found)
    /\ watcher.pc \in {"infer", "mark_ready"} => watcher.full

\* The scan of the folder: the tables read so far are right or due.
ScanOK ==
    /\ watcher.pc \in {"waiting", "compare", "load", "replace", "publish", "exists", "read",
                      "decide"}
           => watcher.tables = NoTables
    /\ watcher.pc \in {"infer", "install"} /\ watcher.full =>
           /\ watcher.todo \subseteq watcher.found
           /\ watcher.pc = "install" => watcher.todo = {}
           /\ \A r \in watcher.found \ watcher.todo :
                  \/ disk[r] # Garbage /\ watcher.tables[r] = TableOf(disk[r])
                  \/ Due(r)
           /\ \A r \in Resource \ watcher.found : watcher.tables[r] = NoTable
    /\ watcher.pc \in {"cache", "mark_ready"} /\ watcher.full =>
           /\ \A r \in Resource : Fresh(r) \/ Due(r)
           /\ \A r \in Resource \ watcher.found : schema.inferred[r] = NoTable

\* A ready server's tables are those of the files but for what is due or being
\* handled ...
FreshOK ==
    Whole => \A r \in Resource :
        \/ Fresh(r)
        \/ Due(r)
        \/ /\ watcher.path = r
           /\ watcher.pc \in {"compare", "publish", "exists", "read", "decide", "infer",
                             "install"}

\* ... and it has no table of a resource that it does not serve, unless the
\* file is back for good or every table is about to be inferred.
GoneOK ==
    Whole => \A r \in Resource \ resources :
        \/ schema.inferred[r] = NoTable
        \/ disk[r] # Absent /\ ~Vanishes(r)
        \/ watcher.pc \in {"exists", "read", "decide"} /\ watcher.previous # watcher.found
        \/ watcher.pc \in {"infer", "install"} /\ watcher.full

FollowInv ==
    /\ EventsOK
    /\ ValueOK
    /\ ComparedOK
    /\ ScanOK
    /\ FreshOK
    /\ GoneOK

\* A reader loads, and does nothing else.
LEMMA ReaderActs ==
    ASSUME ReadsOnly, Inv, NEW t \in Task, AskedOK(t, task[t]), Handle(t)
    PROVE  /\ task[t].pc # "idle" /\ Op(t) \in ReadOps /\ Validated(t)
           /\ Acquire(t) \/ Load(t)
<1>1. task[t].pc # "idle"
  BY HandleGoesOn DEF GoesOn, Flow
<1>2. Op(t) \in ReadOps
  BY <1>1 DEF AskedOK, ReadsOnly, Op
<1>3. Allowed(Op(t), task[t].pc)
  BY TaskFacts DEF TaskInv, Op
<1>4. task[t].pc \notin UpdatePC \cup SetPC \cup PutPC \cup RefreshPC \cup {"announce"}
  BY <1>2, <1>3 DEF Allowed, ReadOps, UpdateOps, ItemOps, ObjectOps, SetOps
<1>5. Acquire(t) \/ Load(t)
  BY <1>4
  DEF Handle, Update, Refresh, ManageSet, PutSchema, Apply, ReadReadiness, Persist,
      PersistFails, SyncFails, InstallInCache, InferLocally, Certify, SnapshotResources,
      ScanFile, InstallRefreshed, MarkReady, Announce, ValidateInitial, CreateFile,
      FillFile, FillFails, Register, CacheNew, RemoveFile, Unregister, Uncache,
      CheckMerge, WriteSchemaFile, WriteSchemaFails, AdoptDeclared, At, UpdatePC, SetPC,
      PutPC, RefreshPC
<1>6. Validated(t)
  BY <1>2 DEF Validated, AfterOnly, ReadOps, UpdateOps, ItemOps, ObjectOps
<1> QED
  BY <1>1, <1>2, <1>5, <1>6

\* It leaves alone everything but itself and the cache.
LEMMA ReaderLeaves ==
    ASSUME ReadsOnly, Inv, NEW t \in Task, AskedOK(t, task[t]), Handle(t)
    PROVE  UNCHANGED <<disk, schemaFile, resources, schema, ready, queue>>
  BY ReaderActs
  DEF Acquire, Load, ReadRevision, LookupHit, LookupStale, LookupMiss, CheckRegistered,
      OpenFile, OpenFails, Admit, Mark, InsertIfAbsent, storeVars

\* So the invariant does not depend on it.
LEMMA FollowStays ==
    ASSUME FollowInv,
           UNCHANGED <<disk, resources, schema, ready, queue, watcher, edits>>
    PROVE  FollowInv'
  BY DEF FollowInv, EventsOK, ValueOK, ComparedOK, ScanOK, FreshOK, GoneOK, Whole, Fresh,
         Due, Vanishes

\* An edit: the removal of a file is its last one, and everything else that
\* depends on the file is due from now on.
LEMMA EditKeepsFollow ==
    ASSUME WatcherRunning, Inv, SetInv, FollowInv, ExternalEdit
    PROVE  FollowInv'
<1>1. PICK e \in edits :
          /\ edits' = edits \ {e}
          /\ Notify(e.path)
          /\ IF e.path = SchemaFile THEN UNCHANGED disk
             ELSE disk' = [disk EXCEPT ![e.path] = e.content]
  BY DEF ExternalEdit
<1>2. /\ UNCHANGED <<resources, schema, ready, watcher>>
      /\ edits \subseteq Edit /\ e \in Edit /\ e.path \in {SchemaFile} \cup Resource
  BY <1>1, InitialAssumption DEF ExternalEdit, Inv, TypeOK, Edit
<1>3. /\ \A p : Due(p) => Due(p)'
      /\ \A p : Due(p)' => Due(p) \/ p = e.path
      /\ \A r \in Resource : disk'[r] # disk[r] => Due(r)'
  BY <1>1, <1>2, NotifyAdds, EditReports DEF Reported
<1>4. \A r : Vanishes(r)' => Vanishes(r)
  BY <1>1 DEF Vanishes
<1>5. \A r \in Resource : disk'[r] = IF r = e.path THEN e.content ELSE disk[r]
  BY <1>1, <1>2, SchemaFileAssumption DEF Inv, TypeOK
<1>6. ASSUME e.path \in Resource, e.content = Absent
      PROVE  Vanishes(e.path) /\ ~Vanishes(e.path)'
  <2>1. \A d \in edits : d.path = e.path /\ d.content = Absent => d = e
    BY <1>2, <1>6 DEF Edit
  <2> QED
    BY <1>1, <1>6, <2>1 DEF Vanishes
<1>7. EventsOK'
  BY <1>2, <1>3, <1>4, <1>5, <1>6 DEF FollowInv, EventsOK
<1>8. ValueOK'
  <2>1. watcher.pc # "waiting" => watcher.path \in {SchemaFile} \cup Resource
    BY WatcherFacts DEF WatcherInv
  <2>2. watcher.pc # "waiting" /\ watcher.path # SchemaFile /\ watcher.path \notin watcher.found
            /\ disk[watcher.path] # Absent => disk'[watcher.path] # Absent
    BY <1>5, <1>6, <2>1 DEF FollowInv, EventsOK
  <2> QED
    BY <1>2, <1>3, <2>1, <2>2 DEF FollowInv, ValueOK
<1>9. ComparedOK'
  BY <1>2 DEF FollowInv, ComparedOK
<1>10. \A r \in Resource : Fresh(r) => Fresh(r)' \/ Due(r)'
  BY <1>2, <1>3 DEF Fresh
<1>11. ScanOK'
  <2>1. watcher.found \subseteq Resource
    BY DEF Inv, TypeOK, WatcherState
  <2> QED
    BY <1>2, <1>3, <1>10, <2>1 DEF FollowInv, ScanOK
<1>12. FreshOK'
  BY <1>2, <1>3, <1>10 DEF FollowInv, FreshOK, Whole
<1>13. GoneOK'
  BY <1>2, <1>4, <1>5, <1>6 DEF FollowInv, GoneOK, Whole
<1> QED
  BY <1>7, <1>8, <1>9, <1>11, <1>12, <1>13 DEF FollowInv

\* The watcher takes an event: what it owes is due no more, but under way.
LEMMA TakeEventFollows ==
    ASSUME Inv, SetInv, FollowInv, TakeEvent, UNCHANGED edits
    PROVE  FollowInv'
<1>1. /\ queue # <<>> /\ queue' = Tail(queue)
      /\ UNCHANGED <<disk, resources, schema, ready>>
  BY DEF TakeEvent, TakesEvent
<1>2. /\ watcher.pc = "waiting" /\ watcher'.pc = "compare"
      /\ watcher'.path = Head(queue)
      /\ watcher'.found = {r \in Resource : disk[r] # Absent}
      /\ KeepsValue /\ KeepsScan
  BY TakeEventIs
<1>3. /\ Head(queue) \in {SchemaFile} \cup Resource /\ Due(Head(queue))
      /\ \A r : Due(r) => Due(r)' \/ r = Head(queue)
      /\ \A r : Due(r)' => Due(r)
  BY <1>1, TakingOne
<1>4. \A r : Vanishes(r)' <=> Vanishes(r)
  BY DEF Vanishes
<1>5. EventsOK'
  BY <1>1, <1>2, <1>3, <1>4 DEF FollowInv, EventsOK
<1>6. ValueOK' /\ ComparedOK' /\ ScanOK'
  BY <1>2 DEF FollowInv, ValueOK, ComparedOK, ScanOK, KeepsValue, KeepsScan
<1>7. FreshOK'
  BY <1>1, <1>2, <1>3 DEF FollowInv, FreshOK, Whole, Fresh
<1>8. GoneOK'
  BY <1>1, <1>2, <1>4 DEF FollowInv, GoneOK, Whole
<1> QED
  BY <1>5, <1>6, <1>7, <1>8 DEF FollowInv

\* Until the next one nothing becomes due or is taken.
LEMMA SameDue ==
    ASSUME Inv, FollowInv, Watch, ~TakesEvent, UNCHANGED edits
    PROVE  /\ UNCHANGED disk
           /\ \A r : Due(r)' <=> Due(r)
           /\ \A r : Vanishes(r)' <=> Vanishes(r)
           /\ EventsOK'
<1>1. UNCHANGED <<disk, queue>>
  BY WatchLeaves
<1>2. /\ \A r : Due(r)' <=> Due(r)
      /\ \A r : Vanishes(r)' <=> Vanishes(r)
  BY <1>1 DEF Due, Vanishes
<1>3. EventsOK'
  BY <1>1, <1>2, WatchGoesOn, EndOfEventIs
  DEF FollowInv, EventsOK, Remembers, TakeEvent, ListFails
<1> QED
  BY <1>1, <1>2, <1>3

\* The resources served before, and the overlay.
LEMMA ReadPreviousFollows ==
    ASSUME Inv, FollowInv, ReadPrevious, UNCHANGED edits
    PROVE  FollowInv'
<1>1. /\ UNCHANGED disk /\ EventsOK'
      /\ \A r : Due(r)' <=> Due(r)
      /\ \A r : Vanishes(r)' <=> Vanishes(r)
  BY SameDue DEF Watch, ReadPrevious, TakesEvent, WatcherAt
<1>2. /\ watcher.pc = "compare" /\ watcher'.previous = resources
      /\ watcher'.pc = IF SchemaTouched THEN "load" ELSE "publish"
      /\ Remembers /\ KeepsValue /\ KeepsScan
  BY ReadPreviousIs
<1>3. UNCHANGED <<resources, schema, ready>>
  BY DEF ReadPrevious, requestVars
<1>4. ValueOK' /\ ComparedOK' /\ ScanOK'
  BY <1>2, <1>3 DEF FollowInv, ValueOK, ComparedOK, ScanOK, KeepsValue, KeepsScan
<1>5. FreshOK'
  BY <1>1, <1>2, <1>3, SchemaFileAssumption
  DEF FollowInv, FreshOK, Whole, Fresh, Remembers, SchemaTouched
<1>6. GoneOK'
  BY <1>1, <1>2, <1>3 DEF FollowInv, GoneOK, Whole
<1> QED
  BY <1>1, <1>4, <1>5, <1>6 DEF FollowInv

LEMMA OverlayFollows ==
    ASSUME Inv, FollowInv, LoadSchema \/ ReplaceOverlay, UNCHANGED edits
    PROVE  FollowInv'
<1>1. /\ UNCHANGED disk /\ EventsOK'
      /\ \A r : Due(r)' <=> Due(r)
      /\ \A r : Vanishes(r)' <=> Vanishes(r)
  BY SameDue DEF Watch, LoadSchema, ReplaceOverlay, TakesEvent, WatcherAt
<1>2. /\ \/ watcher.pc = "load" /\ watcher'.pc \in {"fail", "replace"}
         \/ watcher.pc = "replace" /\ watcher'.pc \in {"fail", "publish"}
      /\ Remembers /\ KeepsPrevious /\ KeepsValue /\ KeepsScan
  BY LoadSchemaIs, ReplaceOverlayIs
<1>3. UNCHANGED <<resources, ready>>
  BY DEF LoadSchema, ReplaceOverlay, requestVars
<1>4. schema'.inferred = schema.inferred
  BY ReplaceOverlayIs, InferredOfStore DEF LoadSchema, requestVars, Inv, TypeOK
<1>5. ValueOK' /\ ComparedOK' /\ ScanOK'
  BY <1>2, <1>3
  DEF FollowInv, ValueOK, ComparedOK, ScanOK, KeepsPrevious, KeepsValue, KeepsScan
<1>6. FreshOK'
  BY <1>1, <1>2, <1>3, <1>4 DEF FollowInv, FreshOK, Whole, Fresh
<1>7. GoneOK'
  BY <1>1, <1>2, <1>3, <1>4 DEF FollowInv, GoneOK, Whole
<1> QED
  BY <1>1, <1>5, <1>6, <1>7 DEF FollowInv

\* A resource that is served no more: the two sets differ.
LEMMA PublishFollows ==
    ASSUME Inv, FollowInv, PublishResources, UNCHANGED edits
    PROVE  FollowInv'
<1>1. /\ UNCHANGED disk /\ EventsOK'
      /\ \A r : Due(r)' <=> Due(r)
      /\ \A r : Vanishes(r)' <=> Vanishes(r)
  BY SameDue DEF Watch, PublishResources, TakesEvent, WatcherAt
<1>2. /\ watcher.pc = "publish" /\ resources' = watcher.found
      /\ watcher'.pc = IF SchemaTouched THEN "decide" ELSE "exists"
      /\ Remembers /\ KeepsPrevious /\ KeepsValue /\ KeepsScan
  BY PublishIs
<1>3. UNCHANGED <<schema, ready>>
  BY DEF PublishResources
<1>4. watcher.value = NoValue
  BY <1>2 DEF FollowInv, ValueOK
<1>5. ValueOK' /\ ComparedOK' /\ ScanOK'
  BY <1>2, <1>4
  DEF FollowInv, ValueOK, ComparedOK, ScanOK, SchemaTouched, Remembers, KeepsPrevious,
      KeepsValue, KeepsScan
<1>6. FreshOK'
  BY <1>1, <1>2, <1>3 DEF FollowInv, FreshOK, Whole, Fresh, Remembers
<1>7. GoneOK'
  <2> SUFFICES ASSUME Whole', NEW r \in Resource \ resources'
               PROVE  \/ schema.inferred[r] = NoTable
                      \/ disk[r] # Absent /\ ~Vanishes(r)
                      \/ watcher.previous # watcher.found
    BY <1>1, <1>2, <1>3 DEF GoneOK, Remembers, KeepsPrevious
  <2>1. watcher.previous = resources
    BY <1>2 DEF FollowInv, ComparedOK
  <2>2. CASE r \in resources
    BY <1>2, <2>1, <2>2
  <2>3. CASE r \notin resources
    BY <1>2, <1>3, <2>3 DEF FollowInv, GoneOK, Whole
  <2> QED
    BY <2>2, <2>3
<1> QED
  BY <1>1, <1>5, <1>6, <1>7 DEF FollowInv

\* A file that is gone is no value.
LEMMA ChangedExistsFollows ==
    ASSUME Inv, FollowInv, ChangedExists, UNCHANGED edits
    PROVE  FollowInv'
<1>1. /\ UNCHANGED disk /\ EventsOK'
      /\ \A r : Due(r)' <=> Due(r)
      /\ \A r : Vanishes(r)' <=> Vanishes(r)
  BY SameDue DEF Watch, ChangedExists, TakesEvent, WatcherAt
<1>2. /\ watcher.pc = "exists"
      /\ watcher'.pc = IF disk[watcher.path] = Absent THEN "decide" ELSE "read"
      /\ Remembers /\ KeepsPrevious /\ KeepsValue /\ KeepsScan
  BY WatcherGotoIs DEF ChangedExists, WatcherAt
<1>3. UNCHANGED <<resources, schema, ready>>
  BY DEF ChangedExists, requestVars
<1>4. ValueOK'
  BY <1>1, <1>2 DEF FollowInv, ValueOK, Remembers, KeepsValue
<1>5. ComparedOK' /\ ScanOK'
  BY <1>2, <1>3
  DEF FollowInv, ComparedOK, ScanOK, Remembers, KeepsPrevious, KeepsScan
<1>6. FreshOK'
  BY <1>1, <1>2, <1>3 DEF FollowInv, FreshOK, Whole, Fresh, Remembers
<1>7. GoneOK'
  BY <1>1, <1>2, <1>3
  DEF FollowInv, GoneOK, Whole, Remembers, KeepsPrevious
<1> QED
  BY <1>1, <1>4, <1>5, <1>6, <1>7 DEF FollowInv

\* The content of the changed file.
LEMMA ReadChangedFollows ==
    ASSUME Inv, FollowInv, ReadChanged, UNCHANGED edits
    PROVE  FollowInv'
<1>1. /\ UNCHANGED disk /\ EventsOK'
      /\ \A r : Due(r)' <=> Due(r)
      /\ \A r : Vanishes(r)' <=> Vanishes(r)
  BY SameDue DEF Watch, ReadChanged, TakesEvent, WatcherAt
<1>2. /\ watcher.pc = "read"
      /\ Remembers /\ KeepsPrevious /\ KeepsScan
      /\ \/ watcher'.pc = "evict" /\ KeepsValue
         \/ /\ disk[watcher.path] \in Snapshot
            /\ watcher'.pc = "decide" /\ watcher'.value = disk[watcher.path]
  BY ReadChangedIs
<1>3. UNCHANGED <<resources, schema, ready>>
  BY DEF ReadChanged, requestVars
<1>4. watcher.path \in Resource
  BY <1>2, WatcherFacts DEF WatcherInv
<1>5. ValueOK'
  <2>1. watcher.value = NoValue
    BY <1>2 DEF FollowInv, ValueOK
  <2>2. watcher.path # SchemaFile
    BY <1>4, SchemaFileAssumption
  <2>3. disk[watcher.path] \in Snapshot => disk[watcher.path] \notin {NoValue, Absent}
    BY NoValueAssumption, AbsentAssumption
  <2> QED
    BY <1>1, <1>2, <2>1, <2>2, <2>3 DEF ValueOK, Remembers, KeepsValue
<1>6. ComparedOK' /\ ScanOK'
  BY <1>2, <1>3
  DEF FollowInv, ComparedOK, ScanOK, Remembers, KeepsPrevious, KeepsScan
<1>7. FreshOK'
  BY <1>1, <1>2, <1>3 DEF FollowInv, FreshOK, Whole, Fresh, Remembers
<1>8. GoneOK'
  BY <1>1, <1>2, <1>3
  DEF FollowInv, GoneOK, Whole, Remembers, KeepsPrevious
<1> QED
  BY <1>1, <1>5, <1>6, <1>7, <1>8 DEF FollowInv

\* An event that is given up.
LEMMA GiveUpFollows ==
    ASSUME Inv, FollowInv, EvictBroken \/ GiveUp, UNCHANGED edits
    PROVE  FollowInv'
<1>1. /\ UNCHANGED disk /\ EventsOK'
      /\ \A r : Due(r)' <=> Due(r)
      /\ \A r : Vanishes(r)' <=> Vanishes(r)
  BY SameDue DEF Watch, EvictBroken, GiveUp, TakesEvent, WatcherAt
<1>2. CASE EvictBroken
  <2>1. /\ watcher.pc = "evict" /\ watcher'.pc = "fail"
    BY <1>2, WatcherGotoIs DEF EvictBroken, WatcherAt
  <2> QED
    BY <1>1, <2>1 DEF FollowInv, ValueOK, ComparedOK, ScanOK, FreshOK, GoneOK, Whole
<1>3. CASE GiveUp
  <2>1. /\ watcher'.pc = "waiting" /\ watcher'.value = NoValue /\ watcher'.tables = NoTables
        /\ ~ready'
    BY <1>3, EndOfEventIs DEF GiveUp
  <2> QED
    BY <1>1, <2>1 DEF FollowInv, ValueOK, ComparedOK, ScanOK, FreshOK, GoneOK, Whole
<1> QED
  BY <1>2, <1>3

\* Every table is inferred unless the two sets are the same.
LEMMA DecideFollows ==
    ASSUME Inv, FollowInv, DecideInference, UNCHANGED edits
    PROVE  FollowInv'
<1>1. /\ UNCHANGED disk /\ EventsOK'
      /\ \A r : Due(r)' <=> Due(r)
      /\ \A r : Vanishes(r)' <=> Vanishes(r)
  BY SameDue DEF Watch, DecideInference, TakesEvent, WatcherAt
<1>2. /\ watcher.pc = "decide"
      /\ Remembers /\ KeepsPrevious /\ KeepsValue
      /\ watcher'.full = (~ready \/ watcher.previous # watcher.found)
      /\ watcher'.pc = IF watcher'.full THEN "infer" ELSE "install"
      /\ watcher'.todo = IF watcher'.full THEN watcher.found ELSE {}
      /\ watcher'.tables = watcher.tables
  BY DecideInferenceIs
<1>3. UNCHANGED <<resources, schema, ready>>
  BY DEF DecideInference, requestVars
<1>4. ValueOK'
  BY <1>1, <1>2 DEF FollowInv, ValueOK, Remembers, KeepsValue
<1>5. ComparedOK'
  BY <1>2, <1>3 DEF FollowInv, ComparedOK, Remembers, KeepsPrevious
<1>6. ScanOK'
  <2>1. watcher.tables = NoTables
    BY <1>2 DEF FollowInv, ScanOK
  <2>2. \A r \in Resource : watcher.tables[r] = NoTable
    BY <2>1 DEF NoTables
  <2> QED
    BY <1>2, <2>2 DEF ScanOK, Remembers
<1>7. FreshOK'
  BY <1>1, <1>2, <1>3 DEF FollowInv, FreshOK, Whole, Fresh, Remembers
<1>8. GoneOK'
  BY <1>1, <1>2, <1>3 DEF FollowInv, GoneOK, Whole, Remembers, KeepsPrevious
<1> QED
  BY <1>1, <1>4, <1>5, <1>6, <1>7, <1>8 DEF FollowInv

\* One more table: that of the file as it is now.
LEMMA InferFollows ==
    ASSUME Inv, FollowInv, InferFile \/ InferNothing, UNCHANGED edits
    PROVE  FollowInv'
<1>1. /\ UNCHANGED disk /\ EventsOK'
      /\ \A r : Due(r)' <=> Due(r)
      /\ \A r : Vanishes(r)' <=> Vanishes(r)
  BY SameDue DEF Watch, InferFile, InferNothing, TakesEvent, WatcherAt
<1>2. UNCHANGED <<resources, schema, ready>>
  BY DEF InferFile, InferNothing, requestVars
<1>3. /\ watcher.pc = "infer" /\ watcher'.pc \in {"infer", "install", "fail"}
      /\ Remembers /\ KeepsPrevious /\ KeepsValue /\ watcher'.full = watcher.full
  BY InferFileIs, WatcherGotoIs DEF InferNothing, WatcherAt, KeepsScan
<1>4. ValueOK' /\ ComparedOK'
  BY <1>1, <1>2, <1>3
  DEF FollowInv, ValueOK, ComparedOK, Remembers, KeepsPrevious, KeepsValue
<1>5. FreshOK'
  BY <1>1, <1>2, <1>3 DEF FollowInv, FreshOK, Whole, Fresh, Remembers
<1>6. GoneOK'
  BY <1>1, <1>2, <1>3 DEF FollowInv, GoneOK, Whole, ComparedOK
<1>7. ScanOK'
  <2>1. watcher.full
    BY <1>3 DEF FollowInv, ComparedOK
  <2>2. CASE InferNothing
    <3>1. watcher.todo = {} /\ watcher'.pc = "install" /\ KeepsScan
      BY <2>2, WatcherGotoIs DEF InferNothing
    <3> QED
      BY <1>1, <1>3, <2>1, <3>1 DEF FollowInv, ScanOK, KeepsScan, Remembers
  <2>3. CASE watcher'.pc = "fail"
    BY <2>3 DEF ScanOK
  <2>4. CASE InferFile /\ watcher'.pc # "fail"
    <3>1. PICK q \in watcher.todo :
              /\ disk[q] \in Snapshot
              /\ watcher'.todo = watcher.todo \ {q}
              /\ watcher'.tables = [watcher.tables EXCEPT ![q] = InferTable(disk[q])]
              /\ watcher'.pc = IF watcher.todo = {q} THEN "install" ELSE "infer"
      BY <2>4, InferFileIs
    <3>2. watcher.found \subseteq Resource /\ watcher.tables \in Tables
      BY DEF Inv, TypeOK, WatcherState
    <3>3. q \in watcher.found /\ watcher'.todo \subseteq watcher.found
      BY <1>3, <2>1, <3>1 DEF FollowInv, ScanOK
    <3>4. watcher'.tables[q] = InferTable(disk[q])
          /\ \A r \in Resource : r # q => watcher'.tables[r] = watcher.tables[r]
      BY <3>1, <3>2, <3>3 DEF Tables
    <3>5. disk[q] # Garbage /\ watcher'.tables[q] = TableOf(disk[q])
      BY <3>1, <3>4, GarbageAssumption, TableOfFile
    <3>6. watcher'.pc = "install" => watcher'.todo = {}
      BY <3>1
    <3>7. \A r \in watcher.found \ watcher'.todo :
              \/ disk[r] # Garbage /\ watcher'.tables[r] = TableOf(disk[r])
              \/ Due(r)
      BY <1>3, <2>1, <3>1, <3>2, <3>4, <3>5 DEF FollowInv, ScanOK
    <3>8. \A r \in Resource \ watcher.found : watcher'.tables[r] = NoTable
      BY <1>3, <2>1, <3>3, <3>4 DEF FollowInv, ScanOK
    <3>9. watcher'.pc \in {"infer", "install"}
      BY <3>1
    <3> QED
      BY <1>1, <1>3, <3>3, <3>6, <3>7, <3>8, <3>9 DEF ScanOK, Remembers
  <2> QED
    BY <2>2, <2>3, <2>4
<1> QED
  BY <1>1, <1>4, <1>5, <1>6, <1>7 DEF FollowInv

\* What the watcher lists it has read, and what it does not list is gone.
LEMMA ScannedFresh ==
    ASSUME Inv, SetInv, FollowInv, watcher.pc = "install", watcher.full
    PROVE  /\ \A r \in Resource :
                  \/ disk[r] # Garbage /\ watcher.tables[r] = TableOf(disk[r])
                  \/ Due(r)
           /\ \A r \in Resource \ watcher.found : watcher.tables[r] = NoTable
<1>1. /\ watcher.todo = {}
      /\ \A r \in watcher.found \ watcher.todo :
             (disk[r] # Garbage /\ watcher.tables[r] = TableOf(disk[r])) \/ Due(r)
      /\ \A r \in Resource \ watcher.found : watcher.tables[r] = NoTable
  BY DEF FollowInv, ScanOK
<1>2. ASSUME NEW r \in Resource, r \notin watcher.found, ~Due(r)
      PROVE  disk[r] # Garbage /\ watcher.tables[r] = TableOf(disk[r])
  <2>1. disk[r] = Absent
    BY <1>2 DEF SetInv, Listed
  <2> QED
    BY <1>1, <1>2, <2>1, TableOfFile, AbsentAssumption
<1> QED
  BY <1>1, <1>2

\* The tables are assigned: all of them, or that of the changed file.
LEMMA InstallFollows ==
    ASSUME Inv, SetInv, FollowInv, InstallTables, UNCHANGED edits
    PROVE  FollowInv'
<1>1. /\ UNCHANGED disk /\ EventsOK'
      /\ \A r : Due(r)' <=> Due(r)
      /\ \A r : Vanishes(r)' <=> Vanishes(r)
  BY SameDue DEF Watch, InstallTables, TakesEvent, WatcherAt
<1>2. /\ watcher.pc = "install" /\ watcher'.pc \in {"cache", "fail"}
      /\ Remembers /\ KeepsPrevious /\ KeepsValue /\ KeepsScan
  BY WatcherGotoIs DEF InstallTables, WatcherAt
<1>3. UNCHANGED <<resources, ready>> /\ ~NothingToInstall
  BY DEF InstallTables
<1>4. schema'.inferred = WatchedTables
  BY InferredOfStore DEF InstallTables, Inv, TypeOK
<1>5. ValueOK' /\ ComparedOK'
  BY <1>2, <1>3
  DEF FollowInv, ValueOK, ComparedOK, Remembers, KeepsPrevious, KeepsValue, KeepsScan
<1>6. CASE watcher'.pc = "fail"
  BY <1>1, <1>5, <1>6 DEF FollowInv, ScanOK, FreshOK, GoneOK, Whole
<1>7. CASE watcher'.pc = "cache" /\ watcher.full
  <2>1. schema'.inferred = watcher.tables
    BY <1>4, <1>7 DEF WatchedTables
  <2>2. /\ \A r \in Resource : Fresh(r)' \/ Due(r)'
        /\ \A r \in Resource \ watcher.found : schema'.inferred[r] = NoTable
    BY <1>1, <1>2, <1>7, <2>1, ScannedFresh DEF Fresh
  <2>3. watcher.found = resources
    BY <1>2 DEF FollowInv, ComparedOK
  <2>4. ScanOK'
    BY <1>2, <1>7, <2>2 DEF ScanOK, Remembers, KeepsScan
  <2>5. FreshOK' /\ GoneOK'
    BY <1>2, <1>3, <2>2, <2>3 DEF FreshOK, GoneOK
  <2> QED
    BY <1>1, <1>5, <2>4, <2>5 DEF FollowInv
<1>8. CASE watcher'.pc = "cache" /\ ~watcher.full
  <2>1. watcher.path \in Resource /\ watcher.value \in Snapshot
    <3>1. watcher.value # NoValue
      BY <1>3, <1>8 DEF NothingToInstall
    <3>2. watcher.path # SchemaFile
      BY <1>2, <3>1 DEF FollowInv, ValueOK
    <3>3. watcher.path \in {SchemaFile} \cup Resource /\ watcher.value \in {NoValue} \cup Snapshot
      BY <1>2, WatcherFacts DEF WatcherInv, WatcherState
    <3> QED
      BY <3>1, <3>2, <3>3
  <2>2. PICK p \in Resource : p = watcher.path
    BY <2>1
  <2>3. schema.inferred \in Tables
    BY DEF Inv, TypeOK, Store
  <2>4. /\ schema'.inferred[p] = InferTable(watcher.value)
        /\ \A r \in Resource : r # p => schema'.inferred[r] = schema.inferred[r]
    BY <1>4, <1>8, <2>2, <2>3 DEF WatchedTables, Tables
  <2>5. Whole /\ watcher.found = resources
    BY <1>2, <1>8 DEF Whole, FollowInv, ComparedOK
  <2>6. Fresh(p)' \/ Due(p)'
    <3>1. Due(p) \/ disk[p] = watcher.value
      BY <1>2, <2>1, <2>2, NoValueAssumption, SchemaFileAssumption DEF FollowInv, ValueOK
    <3> QED
      BY <1>1, <2>1, <2>4, <3>1, TableOfFile, GarbageAssumption DEF Fresh
  <2>7. ASSUME NEW r \in Resource, r # p
        PROVE  Fresh(r)' \/ Due(r)'
    BY <1>1, <1>2, <2>2, <2>4, <2>5, <2>7 DEF FollowInv, FreshOK, Fresh
  <2>8. FreshOK'
    BY <2>6, <2>7 DEF FreshOK
  <2>9. ASSUME NEW r \in Resource, r \notin resources
        PROVE  \/ schema'.inferred[r] = NoTable
               \/ disk[r] # Absent /\ ~Vanishes(r)
    <3>1. CASE r # p
      BY <1>2, <1>8, <2>4, <2>5, <2>9, <3>1 DEF FollowInv, GoneOK
    <3>2. CASE r = p
      <4>1. disk[p] # Absent
        BY <1>2, <2>1, <2>2, <2>5, <2>9, <3>2, NoValueAssumption, SchemaFileAssumption
        DEF FollowInv, ValueOK
      <4>2. ~Vanishes(p)
        BY <1>2, <2>2, <2>5, <2>9, <3>2 DEF FollowInv, EventsOK
      <4> QED
        BY <3>2, <4>1, <4>2
    <3> QED
      BY <3>1, <3>2
  <2>10. GoneOK'
    BY <1>1, <1>3, <2>9 DEF GoneOK
  <2>11. ScanOK'
    BY <1>2, <1>8 DEF ScanOK, KeepsScan
  <2> QED
    BY <1>1, <1>5, <2>8, <2>10, <2>11 DEF FollowInv
<1> QED
  BY <1>2, <1>6, <1>7, <1>8

\* The file is gone, and so was its table.
LEMMA SkipFollows ==
    ASSUME Inv, SetInv, FollowInv, SkipInstall, UNCHANGED edits
    PROVE  FollowInv'
<1>1. /\ UNCHANGED disk /\ EventsOK'
      /\ \A r : Due(r)' <=> Due(r)
      /\ \A r : Vanishes(r)' <=> Vanishes(r)
  BY SameDue DEF Watch, SkipInstall, TakesEvent, WatcherAt
<1>2. /\ watcher.pc = "install" /\ watcher'.pc = "cache"
      /\ Remembers /\ KeepsPrevious /\ KeepsValue /\ KeepsScan
  BY WatcherGotoIs DEF SkipInstall, WatcherAt
<1>3. /\ UNCHANGED <<resources, schema, ready>>
      /\ ~watcher.full /\ watcher.value = NoValue
  BY DEF SkipInstall, requestVars, NothingToInstall
<1>4. Whole /\ watcher.found = resources
  BY <1>2, <1>3 DEF Whole, FollowInv, ComparedOK
<1>5. ASSUME NEW r \in Resource
      PROVE  Fresh(r) \/ Due(r)
  <2>1. CASE watcher.path # r
    BY <1>4, <1>5, <2>1 DEF FollowInv, FreshOK
  <2>2. CASE watcher.path = r /\ ~Due(r)
    <3>1. disk[r] = Absent
      BY <1>2, <1>3, <1>5, <2>2, SchemaFileAssumption DEF FollowInv, ValueOK
    <3>2. r \notin resources
      BY <1>2, <1>4, <1>5, <2>2, <3>1 DEF SetInv, Listed
    <3>3. schema.inferred[r] = NoTable
      BY <1>2, <1>3, <1>4, <1>5, <3>1, <3>2 DEF FollowInv, GoneOK
    <3> QED
      BY <3>1, <3>3, TableOfFile, AbsentAssumption DEF Fresh
  <2> QED
    BY <2>1, <2>2
<1>6. ValueOK' /\ ComparedOK' /\ ScanOK'
  BY <1>2, <1>3
  DEF FollowInv, ValueOK, ComparedOK, ScanOK, Remembers, KeepsPrevious, KeepsValue,
      KeepsScan
<1>7. FreshOK'
  BY <1>1, <1>3, <1>5 DEF FreshOK, Fresh
<1>8. GoneOK'
  BY <1>1, <1>2, <1>3, <1>4 DEF FollowInv, GoneOK
<1> QED
  BY <1>1, <1>6, <1>7, <1>8 DEF FollowInv

\* The end of an event that was handled: nothing was lost on the way.
LEMMA FinishFollows ==
    ASSUME Inv, SetInv, FollowInv, RefreshCache \/ WatcherMarksReady, UNCHANGED edits
    PROVE  FollowInv'
<1>1. /\ UNCHANGED disk /\ EventsOK'
      /\ \A r : Due(r)' <=> Due(r)
      /\ \A r : Vanishes(r)' <=> Vanishes(r)
  BY SameDue DEF Watch, RefreshCache, WatcherMarksReady, TakesEvent, WatcherAt
<1>2. UNCHANGED <<resources, schema>>
  BY DEF RefreshCache, WatcherMarksReady
<1>3. /\ watcher.pc \in {"cache", "mark_ready"} /\ (ready' => ready \/ watcher.full)
      /\ watcher'.pc = "waiting" \/ (watcher'.pc = "mark_ready" /\ UNCHANGED ready)
  BY WatcherGotoIs, EndOfEventIs
  DEF RefreshCache, WatcherMarksReady, WatcherAt, FollowInv, ComparedOK
<1>4. CASE watcher'.pc = "mark_ready"
  <2>1. /\ watcher.pc = "cache" /\ watcher.full /\ UNCHANGED ready
        /\ Remembers /\ KeepsScan
    BY <1>3, <1>4, WatcherGotoIs, EndOfEventIs
    DEF RefreshCache, WatcherMarksReady, WatcherAt
  <2>2. ValueOK' /\ ComparedOK'
    BY <1>2, <1>4, <2>1 DEF FollowInv, ValueOK, ComparedOK, Remembers, KeepsScan
  <2>3. ScanOK'
    BY <1>1, <1>2, <1>4, <2>1 DEF FollowInv, ScanOK, Fresh, Remembers, KeepsScan
  <2>4. FreshOK' /\ GoneOK'
    BY <1>1, <1>2, <2>1 DEF FollowInv, FreshOK, GoneOK, Whole, Fresh
  <2> QED
    BY <1>1, <2>2, <2>3, <2>4 DEF FollowInv
<1>5. CASE watcher'.pc = "waiting"
  <2>1. watcher'.value = NoValue /\ watcher'.tables = NoTables
    BY <1>5, EndOfEventIs, WatcherGotoIs DEF RefreshCache, WatcherMarksReady
  <2>2. ValueOK' /\ ComparedOK' /\ ScanOK'
    BY <1>5, <2>1 DEF ValueOK, ComparedOK, ScanOK
  <2>3. CASE watcher.full
    <3>1. /\ \A r \in Resource : Fresh(r) \/ Due(r)
          /\ \A r \in Resource \ resources : schema.inferred[r] = NoTable
      BY <1>3, <2>3 DEF FollowInv, ScanOK, ComparedOK
    <3> QED
      BY <1>1, <1>2, <2>2, <3>1 DEF FollowInv, FreshOK, GoneOK, Fresh
  <2>4. CASE ~watcher.full
    <3>1. ready' => Whole
      BY <1>3, <2>4 DEF Whole
    <3> QED
      BY <1>1, <1>2, <1>3, <2>2, <3>1 DEF FollowInv, FreshOK, GoneOK, Fresh, Whole
  <2> QED
    BY <1>1, <2>3, <2>4
<1> QED
  BY <1>3, <1>4, <1>5

\* The invariant.
LEMMA FollowInvariance ==
    ASSUME WatcherRunning, Scannable, ReadsOnly
    PROVE  Spec => [](SetInv /\ FollowInv)
<1>1. CreatedApart /\ DeletedApart
  BY DEF ReadsOnly, CreatedApart, DeletedApart, ReadOps
<1>2. Spec => []SetInv
  BY <1>1, SetInvariance
<1>3. Init => FollowInv
  <2> SUFFICES ASSUME Init
               PROVE  FollowInv
    OBVIOUS
  <2>1. /\ watcher.pc = "waiting" /\ watcher.value = NoValue /\ watcher.tables = NoTables
        /\ queue = <<>> /\ disk = InitialDisk /\ resources = InitialResources
        /\ schema.inferred = InitialTables /\ ready = InitialReady
    BY DEF Init, WaitingWatcher, NewStore
  <2>2. \A r : ~Due(r)
    BY <2>1, NothingDue
  <2>3. EventsOK /\ ValueOK /\ ComparedOK /\ ScanOK
    BY <2>1, <2>2 DEF EventsOK, ValueOK, ComparedOK, ScanOK
  <2>4. ASSUME ready, NEW r \in Resource
        PROVE  Fresh(r) /\ (r \notin resources => schema.inferred[r] = NoTable)
    <3>1. CASE r \in InitialResources
      <4>1. InitialDisk[r] \in Snapshot
        BY <2>1, <2>4, <3>1 DEF InitialReady
      <4> QED
        BY <2>1, <2>4, <3>1, <4>1, TableOfFile, GarbageAssumption DEF Fresh, InitialTables
    <3>2. CASE r \notin InitialResources
      <4>1. InitialDisk[r] = Absent
        BY <3>2 DEF InitialResources
      <4> QED
        BY <2>1, <3>2, <4>1, TableOfFile, AbsentAssumption DEF Fresh, InitialTables
    <3> QED
      BY <2>1, <3>1, <3>2
  <2> QED
    BY <2>3, <2>4 DEF FollowInv, FreshOK, GoneOK, Whole
<1>4. Inv /\ SetInv /\ FollowInv /\ [Next]_vars => FollowInv'
  <2> SUFFICES ASSUME Inv, SetInv, FollowInv, [Next]_vars
               PROVE  FollowInv'
    OBVIOUS
  <2>1. CASE \E t \in Task : RequestStep(t)
    <3>1. PICK t \in Task : RequestStep(t)
      BY <2>1
    <3>2. UNCHANGED <<disk, resources, schema, ready, queue>>
      BY <3>1, ReaderLeaves DEF RequestStep, Submit, storeVars, SetInv
    <3> QED
      BY <3>1, <3>2, FollowStays DEF RequestStep
  <2>2. CASE WatcherStep
    BY <2>2, TakingLists, TakeEventFollows, ReadPreviousFollows, OverlayFollows,
       PublishFollows, ChangedExistsFollows, ReadChangedFollows, GiveUpFollows,
       DecideFollows, InferFollows, InstallFollows, SkipFollows, FinishFollows
    DEF WatcherStep, Watch, ListFails
  <2>3. CASE ExternalEdit
    BY <2>3, EditKeepsFollow
  <2>4. CASE UNCHANGED vars
    BY <2>4, FollowStays DEF vars
  <2> QED
    BY <2>1, <2>2, <2>3, <2>4 DEF Next, Rest
<1> QED
  BY <1>2, <1>3, <1>4, Invariance, PTL DEF Spec

\* A ready server at rest can read every resource of a folder that can be listed:
\* that a file is broken, it has noticed, whichever of several edits was the last.
THEOREM ReadySettles ==
    ASSUME WatcherRunning, Scannable, ReadsOnly
    PROVE  Spec => []SettledReady
<1>1. Inv /\ SetInv /\ FollowInv => SettledReady
  <2> SUFFICES ASSUME Inv, SetInv, FollowInv, Quiescent, ready, NEW r \in resources
               PROVE  disk[r] \in Snapshot
    BY DEF SettledReady
  <2>1. watcher.pc = "waiting" /\ r \in Resource /\ ~Due(r)
    BY NothingDue DEF Quiescent, WatcherAt, Inv, TypeOK
  <2>2. disk[r] # Absent
    BY <2>1 DEF SetInv, Served
  <2>3. disk[r] # Garbage
    BY <2>1 DEF FollowInv, FreshOK, Whole, Fresh
  <2> QED
    BY <2>1, <2>2, <2>3 DEF Inv, TypeOK, FileContent
<1> QED
  BY <1>1, FollowInvariance, Invariance, PTL

\* No overlay of schema.json refers to a table that it does not declare, and
\* none is torn: the watcher gives such a file up, and the event with it.
SelfContained(overlay) ==
    \A r \in Resource : overlay[r] # NoTable =>
        overlay[r].target = NoTarget \/ overlay[overlay[r].target] # NoTable
OverlaysFit ==
    \A e \in Edits : e.path = SchemaFile =>
        /\ e.content # Garbage
        /\ e.content # Absent => SelfContained(e.content)

\* The overlay in force is the one in the file, or an event of it is due, being
\* handled, or about to be adopted.
OverlayOK ==
    /\ watcher.pc = "load" => watcher.path = SchemaFile
    /\ Due(SchemaFile) \/ (watcher.path = SchemaFile /\ watcher.pc \in {"compare", "load"})
           => schemaFile # Garbage /\ SelfContained(FileOverlay)
    /\ IF watcher.pc = "replace"
       THEN /\ SelfContained(watcher.overlay)
            /\ watcher.overlay = FileOverlay \/ Due(SchemaFile)
       ELSE \/ schema.declared = FileOverlay
            \/ Due(SchemaFile)
            \/ watcher.path = SchemaFile /\ watcher.pc \in {"compare", "load"}

LEMMA EditKeepsOverlay ==
    ASSUME WatcherRunning, OverlaysFit, Inv, OverlayOK, ExternalEdit
    PROVE  OverlayOK'
<1>1. PICK e \in edits :
          /\ Notify(e.path)
          /\ IF e.path = SchemaFile THEN schemaFile' = e.content ELSE UNCHANGED schemaFile
  BY DEF ExternalEdit
<1>2. /\ UNCHANGED <<schema, watcher>>
      /\ e \in Edits /\ e.path \in {SchemaFile} \cup Resource
  BY <1>1, InitialAssumption DEF ExternalEdit, Inv, TypeOK, Edit
<1>3. /\ Due(SchemaFile) => Due(SchemaFile)'
      /\ Due(SchemaFile)' => Due(SchemaFile) \/ SchemaFile = e.path
      /\ e.path = SchemaFile => Due(SchemaFile)'
  BY <1>1, <1>2, NotifyAdds DEF Reported
<1>4. CASE e.path = SchemaFile
  <2>1. SelfContained(NoOverlay)
    BY DEF SelfContained, NoOverlay
  <2>2. schemaFile' # Garbage /\ SelfContained(FileOverlay')
    BY <1>1, <1>2, <1>4, <2>1 DEF OverlaysFit, FileOverlay
  <2> QED
    BY <1>2, <1>3, <1>4, <2>2 DEF OverlayOK, SelfContained
<1>5. CASE e.path # SchemaFile
  <2>1. UNCHANGED schemaFile /\ FileOverlay' = FileOverlay
    BY <1>1, <1>5 DEF FileOverlay
  <2> QED
    BY <1>2, <1>3, <1>5, <2>1 DEF OverlayOK, SelfContained
<1> QED
  BY <1>4, <1>5

LEMMA WatchKeepsOverlay ==
    ASSUME Scannable, Inv, OverlayOK, Watch
    PROVE  OverlayOK'
<1>1. UNCHANGED schemaFile /\ FileOverlay' = FileOverlay
  BY WatchLeaves DEF FileOverlay
<1>2. SelfContained(FileOverlay)' <=> SelfContained(FileOverlay)
  BY <1>1 DEF SelfContained
<1>3. CASE TakeEvent
  <2>1. /\ watcher.pc = "waiting" /\ watcher'.pc = "compare" /\ watcher'.path = Head(queue)
        /\ UNCHANGED schema
    BY <1>3, TakeEventIs DEF TakeEvent, TakesEvent
  <2>2. /\ Due(Head(queue))
        /\ Due(SchemaFile) => Due(SchemaFile)' \/ SchemaFile = Head(queue)
        /\ Due(SchemaFile)' => Due(SchemaFile)
    BY <1>3, TakingOne DEF TakeEvent, TakesEvent
  <2> QED
    BY <1>1, <1>2, <2>1, <2>2 DEF OverlayOK
<1>4. CASE ~TakesEvent
  <2>1. Due(SchemaFile)' <=> Due(SchemaFile)
    BY <1>4, WatchLeaves DEF Due
  <2>2. CASE ReadPrevious
    BY <1>1, <1>2, <2>1, <2>2, ReadPreviousIs
    DEF OverlayOK, ReadPrevious, requestVars, Remembers, SchemaTouched
  <2>3. CASE LoadSchema
    <3>1. /\ watcher.pc = "load" /\ watcher.path = SchemaFile
          /\ schemaFile # Garbage /\ SelfContained(FileOverlay)
      BY <2>3, LoadSchemaIs DEF OverlayOK
    <3>2. /\ watcher'.pc = "replace" /\ watcher'.path = SchemaFile
          /\ watcher'.overlay = FileOverlay
      BY <2>3, <3>1, LoadSchemaIs DEF Remembers
    <3>3. SelfContained(watcher'.overlay)
      BY <3>1, <3>2
    <3> QED
      BY <1>1, <1>2, <2>1, <3>1, <3>2, <3>3 DEF OverlayOK, SelfContained
  <2>4. CASE ReplaceOverlay
    <3>1. watcher.pc = "replace"
      BY <2>4, ReplaceOverlayIs
    <3>2. CanReplaceDeclared(schema, watcher.overlay)
      BY <3>1 DEF OverlayOK, SelfContained, CanReplaceDeclared, Mergeable
    <3>3. /\ schema'.declared = watcher.overlay
          /\ watcher'.pc = "publish" /\ Remembers
      BY <2>4, <3>2, ReplaceOverlayIs, InferredOfStore DEF Inv, TypeOK
    <3> QED
      BY <1>1, <1>2, <2>1, <3>1, <3>3 DEF OverlayOK, Remembers
  <2>5. CASE ~ReadPrevious /\ ~LoadSchema /\ ~ReplaceOverlay
    <3>1. /\ watcher.pc \notin {"compare", "load", "replace"}
          /\ watcher'.pc \notin {"compare", "load", "replace"}
      <4>1. CASE PublishResources \/ ReadChanged \/ DecideInference \/ InferFile
        BY <4>1, PublishIs, ReadChangedIs, DecideInferenceIs, InferFileIs
      <4>2. CASE EvictBroken \/ InferNothing \/ InstallTables \/ SkipInstall
        BY <4>2, WatcherGotoIs
        DEF EvictBroken, InferNothing, InstallTables, SkipInstall, WatcherAt
      <4>3. CASE ChangedExists
        BY <4>3, WatcherGotoIs DEF ChangedExists, WatcherAt
      <4>4. CASE GiveUp \/ RefreshCache \/ WatcherMarksReady
        BY <4>4, WatcherGotoIs, EndOfEventIs
        DEF GiveUp, RefreshCache, WatcherMarksReady, WatcherAt
      <4> QED
        BY <1>4, <2>5, <4>1, <4>2, <4>3, <4>4 DEF Watch, TakeEvent, ListFails
    <3>2. schema'.declared = schema.declared
      <4>1. CASE InstallTables
        BY <4>1, InferredOfStore DEF InstallTables, Inv, TypeOK
      <4>2. CASE ~InstallTables
        BY <2>5, <4>2, WatchLeaves
      <4> QED
        BY <4>1, <4>2
    <3> QED
      BY <1>1, <1>2, <2>1, <3>1, <3>2 DEF OverlayOK
  <2> QED
    BY <2>2, <2>3, <2>4, <2>5
<1> QED
  BY <1>3, <1>4, TakingLists

\* A ready server at rest works with the schema of the folder: the tables that
\* its files have now under the overlay that schema.json has now, in whatever
\* order edits came and events were given up (start_resource_watcher), as long as
\* no event was dropped because the folder could not be listed.
THEOREM SchemaSettles ==
    ASSUME WatcherRunning, Scannable, ReadsOnly, OverlaysFit
    PROVE  Spec => []SettledSchema
<1>1. Init => OverlayOK
  <2> SUFFICES ASSUME Init
               PROVE  OverlayOK
    OBVIOUS
  <2>1. /\ watcher.pc = "waiting" /\ schema.declared = InitialOverlay
        /\ FileOverlay = InitialOverlay /\ queue = <<>>
    BY DEF Init, WaitingWatcher, NewStore, FileOverlay, InitialOverlay
  <2> QED
    BY <2>1, NothingDue DEF OverlayOK
<1>2. Inv /\ SetInv /\ OverlayOK /\ [Next]_vars => OverlayOK'
  <2> SUFFICES ASSUME Inv, SetInv, OverlayOK, [Next]_vars
               PROVE  OverlayOK'
    OBVIOUS
  <2>1. CASE \E t \in Task : RequestStep(t)
    <3>1. UNCHANGED <<schemaFile, schema, queue, watcher>>
      BY <2>1, ReaderLeaves DEF RequestStep, Submit, storeVars, SetInv
    <3> QED
      BY <3>1 DEF OverlayOK, SelfContained, FileOverlay, Due
  <2>2. CASE WatcherStep
    BY <2>2, WatchKeepsOverlay DEF WatcherStep
  <2>3. CASE ExternalEdit
    BY <2>3, EditKeepsOverlay
  <2>4. CASE UNCHANGED vars
    BY <2>4 DEF vars, OverlayOK, SelfContained, FileOverlay, Due
  <2> QED
    BY <2>1, <2>2, <2>3, <2>4 DEF Next, Rest
<1>3. Inv /\ FollowInv /\ OverlayOK => SettledSchema
  <2> SUFFICES ASSUME Inv, FollowInv, OverlayOK, Quiescent, ready
               PROVE  schema.inferred = DiskTables /\ schema.declared = FileOverlay
    BY DEF SettledSchema, SettledInferred, SettledOverlay
  <2>1. watcher.pc = "waiting" /\ \A p : ~Due(p)
    BY NothingDue DEF Quiescent, WatcherAt
  <2>2. \A r \in Resource : schema.inferred[r] = TableOf(disk[r])
    BY <2>1 DEF FollowInv, FreshOK, Whole, Fresh
  <2>3. schema.inferred \in [Resource -> {NoTable} \cup SUBSET Column]
    BY DEF Inv, TypeOK, Store, Tables
  <2>4. schema.inferred = DiskTables
    BY <2>2, <2>3 DEF DiskTables
  <2> QED
    BY <2>1, <2>4 DEF OverlayOK
<1> QED
  BY <1>1, <1>2, <1>3, FollowInvariance, Invariance, PTL DEF Spec

-----------------------------------------------------------------------------
(***************************************************************************)
(* What is cached is what is in the file, where only one file changes: an  *)
(* event is given up over another file that cannot be read before it gets  *)
(* to the cache.                                                           *)
(***************************************************************************)

\* The file is written again, never removed: of a removed one a reader may
\* cache what it read before.
OneFileEdited ==
    \A d, e \in Edits :
        d.path \in Resource /\ e.path \in Resource => d.path = e.path /\ e.content # Absent

\* No overlay makes a merge fail.
OverlaysSelfContained ==
    /\ SelfContained(InitialOverlay)
    /\ \A e \in Edits : e.path = SchemaFile /\ e.content \in Overlay => SelfContained(e.content)

Edited(r) == \E e \in Edits : e.path = r

\* The cache of r is still to be replaced.
Handled == {"compare", "publish", "exists", "read", "decide", "infer", "install", "cache"}
Owed(r) == disk[r] = Garbage \/ Due(r) \/ (watcher.path = r /\ watcher.pc \in Handled)

\* What the watcher has read replaces what is cached.
RereadOK ==
    /\ \A r \in Resource :
           Due(r) \/ (watcher.pc # "waiting" /\ watcher.path = r)
               => Edited(r) /\ disk[r] # Absent
    /\ \A r \in Resource : ~Edited(r) => disk[r] = InitialDisk[r]
    /\ watcher.pc = "evict" => disk[watcher.path] = Garbage \/ Due(watcher.path)
    /\ watcher.pc \in {"decide", "infer", "install", "cache"} /\ watcher.path # SchemaFile =>
           /\ watcher.value \in Snapshot
           /\ watcher.value = disk[watcher.path] \/ Due(watcher.path)

\* Every overlay on its way can be merged.
MergesOK ==
    /\ SelfContained(schema.declared)
    /\ schemaFile \in Overlay => SelfContained(schemaFile)
    /\ watcher.pc = "replace" => SelfContained(watcher.overlay)

\* What is cached, and what a reader is about to cache unless something else is
\* by then.
CachedOK ==
    \A r \in Resource : cache[r] # NoEntry => cache[r].value = disk[r] \/ Owed(r)
CarriedOK ==
    \A t \in Task : Carries(task[t]) =>
        /\ ArcOK(task[t], cache)
        /\ cache[Res(t)] # NoEntry \/ task[t].value = disk[Res(t)] \/ Owed(Res(t))

CacheFollows ==
    /\ RereadOK
    /\ MergesOK
    /\ CachedOK
    /\ CarriedOK
    /\ Coherent

\* What a reader carries after a step, and what it caches.
ReaderMoves(t) ==
    \/ ~Carries(task'[t]) /\ UNCHANGED cache
    \/ /\ Carries(task[t]) /\ UNCHANGED cache
       /\ task'[t].arc = task[t].arc /\ task'[t].value = task[t].value
    \/ /\ cache[Res(t)] # NoEntry /\ UNCHANGED cache
       /\ task'[t].arc = cache[Res(t)].arc /\ task'[t].value = cache[Res(t)].value
    \/ /\ ArcAvailable /\ UNCHANGED cache
       /\ task'[t].arc = FreshArc /\ task'[t].value = disk[Res(t)]
    \/ /\ Carries(task[t]) /\ ~Carries(task'[t])
       /\ MarkValidated(Res(t), task[t].arc, task[t].value, task[t].rev)

LEMMA ReaderMovesSo ==
    ASSUME ReadsOnly, Inv, NEW t \in Task, AskedOK(t, task[t]), Handle(t)
    PROVE  /\ ReaderMoves(t)
           /\ OthersStay(t) /\ task'[t].req = task[t].req
           /\ task[t].pc # "idle" /\ Res(t) \in Resource
<1>1. /\ OthersStay(t) /\ task'[t].req = task[t].req
      /\ <<task[t].pc, task'[t].pc>> \in Flow
  BY HandleGoesOn DEF GoesOn
<1>2. /\ task[t].pc # "idle" /\ Op(t) \in ReadOps /\ Validated(t)
      /\ Acquire(t) \/ Load(t)
  BY ReaderActs
<1>3. Res(t) \in Resource /\ task[t] \in TaskState
  BY <1>2, TaskFacts
<1> SUFFICES ReaderMoves(t)
  BY <1>1, <1>2, <1>3
<1>4. Op(t) \notin UpdateOps
  BY <1>2 DEF ReadOps, UpdateOps, ItemOps, ObjectOps
<1>5. ASSUME task'[t].pc \in {"registered", "lookup", "revision", "create", "remove", "open",
                              "done"}
      PROVE  ~Carries(task'[t])
  BY <1>5 DEF Carries, NeedsSnapshot, UpdatePC, RefreshPC
<1>6. ASSUME NEW entry, Loaded(t, entry)
      PROVE  task'[t].pc = "done"
  <2> DEFINE w == [IdleTask EXCEPT !.pc = "done", !.req = task[t].req, !.status = "ok",
                                   !.value = entry.value, !.rev = entry.rev]
  <2>1. task'[t] = w
    BY <1>2, <1>6 DEF Loaded, Inv, TypeOK
  <2> QED
    BY <2>1, IdleTaskType DEF IdleTask
<1>7. CASE Acquire(t) \/ ReadRevision(t) \/ LookupMiss(t) \/ CheckRegistered(t) \/ OpenFails(t)
  <2>1. task[t].pc \in {"acquire", "revision"} \/ LookupMiss(t) \/ CheckRegistered(t)
            \/ OpenFails(t)
    BY <1>7 DEF Acquire, ReadRevision, At
  <2>2. CASE task[t].pc \in {"acquire", "revision", "registered"}
    BY <1>1, <1>5, <1>7, <2>2
    DEF Flow, ReaderMoves, Acquire, ReadRevision, LookupMiss, CheckRegistered, OpenFails,
        storeVars
  <2>3. CASE LookupMiss(t) \/ OpenFails(t)
    <3>1. CASE LookupMiss(t)
      <4> DEFINE w == [task[t] EXCEPT !.pc = "registered"]
      <4>1. task'[t] = w
        BY <3>1 DEF LookupMiss, Goto, Inv, TypeOK
      <4>2. w.pc = "registered"
        BY <1>3 DEF TaskState
      <4> HIDE DEF w
      <4> QED
        BY <1>5, <3>1, <4>1, <4>2 DEF ReaderMoves, LookupMiss, storeVars
    <3>2. CASE OpenFails(t)
      <4>1. task'[t].pc = "done"
        BY <3>2, IdleTaskType DEF OpenFails, Fail, Inv, TypeOK, IdleTask
      <4> QED
        BY <1>5, <3>2, <4>1 DEF ReaderMoves, OpenFails, storeVars
    <3> QED
      BY <2>3, <3>1, <3>2
  <2> QED
    BY <1>1, <1>2, <1>3, <2>1, <2>2, <2>3 DEF CheckRegistered, At
<1>8. CASE LookupHit(t)
  BY <1>5, <1>6, <1>8 DEF LookupHit, ReaderMoves, storeVars
<1>9. CASE LookupStale(t)
  <2> DEFINE w == [task[t] EXCEPT !.pc = "admit", !.arc = cache[Res(t)].arc,
                                  !.value = cache[Res(t)].value]
  <2>1. task'[t] = w /\ cache[Res(t)] # NoEntry /\ UNCHANGED cache
    BY <1>9 DEF LookupStale, Inv, TypeOK, storeVars
  <2>2. w.arc = cache[Res(t)].arc /\ w.value = cache[Res(t)].value
    BY <1>3 DEF TaskState
  <2> HIDE DEF w
  <2> QED
    BY <2>1, <2>2 DEF ReaderMoves
<1>10. CASE OpenFile(t)
  <2> DEFINE w == [task[t] EXCEPT !.pc = IF Validated(t) THEN "admit" ELSE "insert",
                                  !.value = disk[Res(t)], !.arc = FreshArc]
  <2>1. task'[t] = w /\ ArcAvailable /\ UNCHANGED cache
    BY <1>10 DEF OpenFile, Inv, TypeOK, storeVars
  <2>2. w.arc = FreshArc /\ w.value = disk[Res(t)]
    BY <1>3 DEF TaskState
  <2> HIDE DEF w
  <2> QED
    BY <2>1, <2>2 DEF ReaderMoves
<1>11. CASE Admit(t)
  <2>1. task[t].pc = "admit" /\ UNCHANGED cache
    BY <1>11 DEF Admit, At, storeVars
  <2>2. CASE Fail(t)
    BY <1>5, <2>1, <2>2 DEF Fail, Inv, TypeOK, ReaderMoves
  <2>3. CASE ~Fail(t)
    <3> DEFINE w == [task[t] EXCEPT !.pc = "mark", !.rev = schema.revisions[Res(t)]]
    <3>1. task'[t] = w
      BY <1>11, <2>3 DEF Admit, Inv, TypeOK
    <3>2. w.arc = task[t].arc /\ w.value = task[t].value
      BY <1>3 DEF TaskState
    <3> HIDE DEF w
    <3> QED
      BY <2>1, <3>1, <3>2 DEF ReaderMoves, Carries, NeedsSnapshot
  <2> QED
    BY <2>2, <2>3
<1>12. CASE Mark(t)
  <2>1. /\ task[t].pc = "mark" /\ Loaded(t, task[t])
        /\ MarkValidated(Res(t), task[t].arc, task[t].value, task[t].rev)
    BY <1>12 DEF Mark, At
  <2>2. ~Carries(task'[t])
    BY <1>5, <1>6, <2>1
  <2> QED
    BY <2>1, <2>2 DEF ReaderMoves, Carries, NeedsSnapshot
<1>13. ~InsertIfAbsent(t)
  BY <1>4, TaskFacts DEF InsertIfAbsent, At, TaskInv, Allowed, UpdatePC, Op
<1> QED
  BY <1>1, <1>2, <1>3, <1>7, <1>8, <1>9, <1>10, <1>11, <1>12, <1>13 DEF Load

\* A reader caches what is in the file, or what is replaced later.
LEMMA ReaderKeepsCache ==
    ASSUME ReadsOnly, Inv, SetInv, CacheFollows, NEW t \in Task, Handle(t),
           UNCHANGED <<watcher, edits>>
    PROVE  CacheFollows'
<1>1. /\ OthersStay(t) /\ task'[t].req = task[t].req
      /\ task[t].pc # "idle" /\ Res(t) \in Resource
      /\ ReaderMoves(t)
  BY ReaderMovesSo DEF SetInv
<1>2. UNCHANGED <<disk, schemaFile, resources, schema, ready, queue>>
  BY ReaderLeaves DEF SetInv
<1>3. RereadOK' /\ MergesOK'
  BY <1>2 DEF CacheFollows, RereadOK, MergesOK, SelfContained, Due
<1>4. \A r : Owed(r)' <=> Owed(r)
  BY <1>2 DEF Owed, Due
<1>5. Coherent'
  <2>1. CASE task[t].pc = "acquire"
    <3>1. task'[t].pc \in {"registered", "lookup", "revision"}
      BY <2>1, HandleGoesOn DEF GoesOn, Flow
    <3>2. ~Carries(task'[t])
      BY <3>1 DEF Carries, NeedsSnapshot, UpdatePC, RefreshPC
    <3> QED
      BY <1>1, <3>2 DEF CacheFollows, Coherent, OthersStay, Res
  <2>2. CASE task[t].pc # "acquire"
    <3>1. task'[t].guard \in {"none", task[t].guard}
      BY <2>2, HandleGoesOn DEF GoesOn
    <3>2. ArcFits(t)
      BY <1>1, FreshArcIsNew DEF ArcFits, ReaderMoves
    <3>3. Steps(t)
      BY <1>1, <1>2, <3>1, <3>2 DEF Steps
    <3> QED
      BY <3>3, CoherentKept DEF CacheFollows, CarriedOK, ArcOK
  <2> QED
    BY <2>1, <2>2
\* What one that does not mark carries is cached, or in the file.
<1>6. CASE UNCHANGED cache
  <2>1. CachedOK'
    BY <1>2, <1>4, <1>6 DEF CacheFollows, CachedOK
  <2>2. Carries(task'[t]) =>
            /\ ArcOK(task'[t], cache)
            /\ cache[Res(t)] # NoEntry \/ task'[t].value = disk[Res(t)] \/ Owed(Res(t))
    BY <1>1, <1>6, FreshArcIsNew DEF CacheFollows, CarriedOK, ReaderMoves, ArcOK, Res
  <2>3. CarriedOK'
    BY <1>1, <1>2, <1>4, <1>6, <2>2 DEF CacheFollows, CarriedOK, OthersStay, Res
  <2> QED
    BY <1>3, <1>5, <2>1, <2>3 DEF CacheFollows
\* One that does replaces nothing but an entry of the same address.
<1>7. CASE ~UNCHANGED cache
  <2>1. /\ Carries(task[t]) /\ ~Carries(task'[t])
        /\ MarkValidated(Res(t), task[t].arc, task[t].value, task[t].rev)
    BY <1>1, <1>7 DEF ReaderMoves
  <2> DEFINE new == [arc |-> task[t].arc, value |-> task[t].value, rev |-> task[t].rev]
  <2>2. /\ cache' = [cache EXCEPT ![Res(t)] = new]
        /\ cache[Res(t)] = NoEntry \/ cache[Res(t)].arc = task[t].arc
    BY <1>7, <2>1 DEF MarkValidated
  <2>3. task[t].value \in Snapshot /\ task[t].arc \in Arc /\ new \in Entry
    BY <2>1, TaskFacts DEF Carries, TaskInv, HasSnapshot, TaskState, Entry
  <2>4. new # NoEntry /\ new.arc = task[t].arc /\ new.value = task[t].value
    BY <2>3, NoEntryAssumption
  <2> HIDE DEF new
  <2>5. /\ cache'[Res(t)] = new
        /\ \A r \in Resource : r # Res(t) => cache'[r] = cache[r]
    BY <1>1, <2>2 DEF Inv, TypeOK
  <2>6. task[t].value = disk[Res(t)] \/ Owed(Res(t))
    <3>1. CASE cache[Res(t)] = NoEntry
      BY <2>1, <3>1 DEF CacheFollows, CarriedOK
    <3>2. CASE cache[Res(t)] # NoEntry
      <4>1. cache[Res(t)].value = task[t].value
        BY <2>1, <2>2, <3>2 DEF CacheFollows, CarriedOK, ArcOK, Res
      <4> QED
        BY <1>1, <3>2, <4>1 DEF CacheFollows, CachedOK
    <3> QED
      BY <3>1, <3>2
  <2>7. CachedOK'
    BY <1>1, <1>2, <1>4, <2>4, <2>5, <2>6 DEF CacheFollows, CachedOK
  <2>8. ASSUME NEW u \in Task, Carries(task'[u])
        PROVE  /\ ArcOK(task'[u], cache')
               /\ \/ cache'[task'[u].req.res] # NoEntry
                  \/ task'[u].value = disk[task'[u].req.res]
                  \/ Owed(task'[u].req.res)
    <3>1. u # t /\ task'[u] = task[u]
      BY <1>1, <2>1, <2>8 DEF OthersStay
    <3>2. Res(u) \in Resource
      BY <2>8, <3>1, TaskFacts DEF Carries
    <3>3. CASE Res(u) = Res(t)
      <4>1. task[u].arc = task[t].arc => task[u].value = task[t].value
        BY <2>1, <2>8, <3>1, <3>3 DEF CacheFollows, Coherent
      <4> QED
        BY <2>4, <2>5, <3>1, <3>3, <4>1 DEF ArcOK, Res
    <3>4. CASE Res(u) # Res(t)
      BY <2>5, <2>8, <3>1, <3>2, <3>4 DEF CacheFollows, CarriedOK, ArcOK, Res
    <3> QED
      BY <3>3, <3>4
  <2>9. CarriedOK'
    BY <1>2, <1>4, <2>8 DEF CarriedOK, Res
  <2> QED
    BY <1>3, <1>5, <2>7, <2>9 DEF CacheFollows
<1> QED
  BY <1>6, <1>7

\* An edit: the file that changes is due.
LEMMA EditKeepsCache ==
    ASSUME WatcherRunning, OneFileEdited, OverlaysSelfContained, Inv, CacheFollows,
           ExternalEdit
    PROVE  CacheFollows'
<1>1. PICK e \in edits :
          /\ Notify(e.path)
          /\ IF e.path = SchemaFile THEN schemaFile' = e.content /\ UNCHANGED disk
             ELSE disk' = [disk EXCEPT ![e.path] = e.content] /\ UNCHANGED schemaFile
  BY DEF ExternalEdit
<1>2. /\ UNCHANGED <<schema, cache, task, watcher>>
      /\ e \in Edits /\ e.path \in {SchemaFile} \cup Resource
  BY <1>1, InitialAssumption DEF ExternalEdit, Inv, TypeOK, Edit
<1>3. /\ \A p : Due(p) => Due(p)'
      /\ \A p : Due(p)' => Due(p) \/ p = e.path
      /\ \A r \in Resource : disk'[r] # disk[r] => Due(r)'
  BY <1>1, <1>2, NotifyAdds, EditReports DEF Reported
<1>4. \A r \in Resource : disk'[r] = IF r = e.path THEN e.content ELSE disk[r]
  BY <1>1, <1>2, SchemaFileAssumption DEF Inv, TypeOK
<1>5. e.path \in Resource => e.content # Absent /\ Edited(e.path)
  BY <1>2 DEF OneFileEdited, Edited
<1>6. RereadOK'
  <2>1. \A r \in Resource :
            Due(r)' \/ (watcher.pc # "waiting" /\ watcher.path = r)
                => Edited(r) /\ disk'[r] # Absent
    BY <1>2, <1>3, <1>4, <1>5 DEF CacheFollows, RereadOK
  <2>2. \A r \in Resource : ~Edited(r) => disk'[r] = InitialDisk[r]
    BY <1>2, <1>4, <1>5 DEF CacheFollows, RereadOK
  <2>3. /\ watcher.pc = "evict" => watcher.path \in Resource
        /\ watcher.pc \in {"decide", "infer", "install", "cache"} /\ watcher.path # SchemaFile
               => watcher.path \in Resource
    BY WatcherFacts DEF WatcherInv
  <2>4. /\ watcher.pc = "evict" => disk'[watcher.path] = Garbage \/ Due(watcher.path)'
        /\ watcher.pc \in {"decide", "infer", "install", "cache"} /\ watcher.path # SchemaFile =>
               /\ watcher.value \in Snapshot
               /\ watcher.value = disk'[watcher.path] \/ Due(watcher.path)'
    <3>1. PICK p : p = watcher.path
      OBVIOUS
    <3>2. p \in Resource => disk'[p] = disk[p] \/ Due(p)'
      BY <1>3
    <3>3. Due(p) => Due(p)'
      BY <1>3
    <3> QED
      BY <1>2, <2>3, <3>1, <3>2, <3>3 DEF CacheFollows, RereadOK
  <2> QED
    BY <1>2, <2>1, <2>2, <2>4 DEF RereadOK
<1>7. MergesOK'
  BY <1>1, <1>2 DEF CacheFollows, MergesOK, OverlaysSelfContained, SelfContained
<1>8. \A r \in Resource :
          /\ Owed(r) => Owed(r)'
          /\ disk'[r] = disk[r] \/ Owed(r)'
  BY <1>2, <1>3 DEF Owed
<1>9. CachedOK'
  BY <1>2, <1>8 DEF CacheFollows, CachedOK
<1>10. CarriedOK'
  <2>1. \A t \in Task : Carries(task[t]) => Res(t) \in Resource
    BY TaskFacts DEF Carries
  <2> QED
    BY <1>2, <1>8, <2>1 DEF CacheFollows, CarriedOK, Res
<1>11. Coherent'
  BY <1>2 DEF CacheFollows, Coherent, Res
<1> QED
  BY <1>6, <1>7, <1>9, <1>10, <1>11 DEF CacheFollows

\* What the watcher reads.
LEMMA WatchKeepsReread ==
    ASSUME Scannable, Inv, CacheFollows, Watch
    PROVE  RereadOK'
<1>1. UNCHANGED disk
  BY WatchLeaves
<1>2. CASE TakeEvent
  <2>1. /\ watcher'.pc = "compare" /\ watcher'.path = Head(queue)
        /\ Due(Head(queue)) /\ \A p : Due(p)' => Due(p)
    BY <1>2, TakeEventIs, TakingOne DEF TakeEvent, TakesEvent
  <2> QED
    BY <1>1, <2>1 DEF CacheFollows, RereadOK
<1>3. CASE ~TakesEvent
  <2>1. \A p : Due(p)' <=> Due(p)
    BY <1>3, WatchLeaves DEF Due
  <2>2. \A r \in Resource :
            Due(r)' \/ (watcher'.pc # "waiting" /\ watcher'.path = r)
                => Edited(r) /\ disk'[r] # Absent
    BY <1>1, <1>3, <2>1, WatchGoesOn, EndOfEventIs
    DEF CacheFollows, RereadOK, Remembers, TakeEvent, ListFails
  <2>3. CASE ReadChanged
    <3>1. watcher.pc = "read" /\ Remembers
          /\ \/ disk[watcher.path] \notin Snapshot /\ watcher'.pc = "evict"
             \/ /\ disk[watcher.path] \in Snapshot
                /\ watcher'.pc = "decide" /\ watcher'.value = disk[watcher.path]
      BY <2>3, ReadChangedIs
    <3>2. watcher.path \in Resource /\ disk[watcher.path] \in FileContent
      BY <3>1, WatcherFacts DEF WatcherInv, Inv, TypeOK
    <3>3. disk[watcher.path] # Absent
      BY <3>1, <3>2 DEF CacheFollows, RereadOK
    <3> QED
      BY <1>1, <2>1, <2>2, <3>1, <3>2, <3>3 DEF CacheFollows, RereadOK, Remembers, FileContent
  <2>4. CASE ~ReadChanged
    <3>1. /\ watcher'.pc # "evict"
          /\ watcher'.pc \in {"decide", "infer", "install", "cache"} /\ watcher'.path # SchemaFile
                 => /\ watcher.pc \in {"decide", "infer", "install"}
                    /\ Remembers /\ KeepsValue
      <4>1. CASE ReadPrevious \/ LoadSchema \/ ReplaceOverlay
        BY <4>1, ReadPreviousIs, LoadSchemaIs, ReplaceOverlayIs
      <4>2. CASE PublishResources \/ DecideInference \/ InferFile
        BY <4>2, PublishIs, DecideInferenceIs, InferFileIs DEF SchemaTouched, Remembers
      <4>3. CASE EvictBroken \/ InferNothing \/ InstallTables \/ SkipInstall
        BY <4>3, WatcherGotoIs
        DEF EvictBroken, InferNothing, InstallTables, SkipInstall, WatcherAt
      <4>4. CASE GiveUp \/ RefreshCache \/ WatcherMarksReady
        BY <4>4, WatcherGotoIs, EndOfEventIs DEF GiveUp, RefreshCache, WatcherMarksReady
      <4>5. CASE ChangedExists
        <5>1. watcher.pc = "exists" /\ watcher.path \in Resource
          BY <4>5, WatcherFacts DEF ChangedExists, WatcherAt, WatcherInv
        <5>2. disk[watcher.path] # Absent
          BY <5>1 DEF CacheFollows, RereadOK
        <5> QED
          BY <4>5, <5>2, WatcherGotoIs DEF ChangedExists
      <4> QED
        BY <1>3, <2>4, <4>1, <4>2, <4>3, <4>4, <4>5 DEF Watch, TakeEvent, ListFails
    <3>2. watcher'.pc \in {"decide", "infer", "install", "cache"}
              /\ watcher'.path # SchemaFile =>
                 /\ watcher'.value \in Snapshot
                 /\ watcher'.value = disk[watcher'.path] \/ Due(watcher'.path)
      BY <3>1 DEF CacheFollows, RereadOK, Remembers, KeepsValue
    <3>3. PICK p : p = watcher'.path
      OBVIOUS
    <3>4. watcher'.pc \in {"decide", "infer", "install", "cache"} /\ p # SchemaFile =>
              /\ watcher'.value \in Snapshot
              /\ watcher'.value = disk'[p] \/ Due(p)'
      BY <1>1, <2>1, <3>2, <3>3
    <3> QED
      BY <1>1, <2>2, <3>1, <3>3, <3>4 DEF CacheFollows, RereadOK
  <2> QED
    BY <2>3, <2>4
<1> QED
  BY <1>2, <1>3, TakingLists

\* What it loads as the overlay.
LEMMA WatchKeepsMerges ==
    ASSUME Inv, CacheFollows, Watch
    PROVE  MergesOK'
<1>1. UNCHANGED schemaFile
  BY WatchLeaves
<1>2. CASE LoadSchema
  <2>1. SelfContained(NoOverlay)
    BY DEF SelfContained, NoOverlay
  <2>2. watcher'.pc = "replace" =>
            watcher'.overlay = NoOverlay \/
            (schemaFile \in Overlay /\ watcher'.overlay = schemaFile)
    BY <1>2, LoadSchemaIs DEF FileOverlay, Inv, TypeOK, SchemaContent
  <2>3. watcher'.pc = "replace" => SelfContained(watcher'.overlay)
    BY <2>1, <2>2 DEF CacheFollows, MergesOK
  <2>4. UNCHANGED schema
    BY <1>2 DEF LoadSchema, requestVars
  <2> QED
    BY <1>1, <2>3, <2>4 DEF CacheFollows, MergesOK, SelfContained
<1>3. CASE ReplaceOverlay
  <2>1. watcher.pc = "replace" /\ watcher'.pc # "replace"
        /\ schema'.declared \in {schema.declared, watcher.overlay}
    BY <1>3, ReplaceOverlayIs, InferredOfStore DEF Inv, TypeOK
  <2> QED
    BY <1>1, <2>1 DEF CacheFollows, MergesOK, SelfContained
<1>4. CASE ~LoadSchema /\ ~ReplaceOverlay
  <2>1. watcher'.pc # "replace"
    <3>1. CASE TakeEvent \/ ListFails \/ ReadPrevious \/ PublishResources \/ ReadChanged
      BY <3>1, TakeEventIs, ListFailsIs, ReadPreviousIs, PublishIs, ReadChangedIs
    <3>2. CASE DecideInference \/ InferFile
      BY <3>2, DecideInferenceIs, InferFileIs
    <3>3. CASE ChangedExists \/ EvictBroken \/ InferNothing \/ InstallTables \/ SkipInstall
      BY <3>3, WatcherGotoIs
      DEF ChangedExists, EvictBroken, InferNothing, InstallTables, SkipInstall, WatcherAt
    <3>4. CASE GiveUp \/ RefreshCache \/ WatcherMarksReady
      BY <3>4, WatcherGotoIs, EndOfEventIs DEF GiveUp, RefreshCache, WatcherMarksReady
    <3> QED
      BY <1>4, <3>1, <3>2, <3>3, <3>4 DEF Watch
  <2>2. schema'.declared = schema.declared
    <3>1. CASE InstallTables
      BY <3>1, InferredOfStore DEF InstallTables, Inv, TypeOK
    <3>2. CASE ~InstallTables
      BY <1>4, <3>2, WatchLeaves
    <3> QED
      BY <3>1, <3>2
  <2> QED
    BY <1>1, <2>1, <2>2 DEF CacheFollows, MergesOK, SelfContained
<1> QED
  BY <1>2, <1>3, <1>4

\* A scan fails at the edited file alone.
LEMMA ScanFailsHere ==
    ASSUME InitialReady, OneFileEdited, Inv, SetInv, FollowInv, CacheFollows,
           InferFile, watcher'.pc = "fail", watcher.path \in Resource
    PROVE  disk[watcher.path] = Garbage
<1>1. watcher.pc = "infer" /\ \E q \in watcher.todo : disk[q] \notin Snapshot
  BY InferFileIs
<1>2. PICK q \in watcher.todo : disk[q] \notin Snapshot
  BY <1>1
<1>3. q \in watcher.found /\ q \in Resource
  BY <1>1, <1>2 DEF FollowInv, ScanOK, ComparedOK, Inv, TypeOK, WatcherState
<1>4. Edited(q)
  <2> SUFFICES ASSUME ~Edited(q)
               PROVE  FALSE
    OBVIOUS
  <2>1. ~Due(q) /\ disk[q] = InitialDisk[q]
    BY <1>3 DEF CacheFollows, RereadOK
  <2>2. disk[q] # Absent
    BY <1>1, <1>3, <2>1 DEF SetInv, Listed
  <2> QED
    BY <1>2, <1>3, <2>1, <2>2 DEF InitialReady, InitialResources
<1>5. Edited(watcher.path) /\ disk[watcher.path] # Absent
  BY <1>1 DEF CacheFollows, RereadOK
<1>6. q = watcher.path
  BY <1>3, <1>4, <1>5 DEF OneFileEdited, Edited
<1> QED
  BY <1>2, <1>3, <1>5, <1>6 DEF Inv, TypeOK, FileContent

\* What is owed stays owed up to the step that refreshes the cache.
LEMMA OwedUntilRefreshed ==
    ASSUME Scannable, InitialReady, OneFileEdited, Inv, SetInv, FollowInv, CacheFollows,
           Watch, ~RefreshCache, NEW r \in Resource, Owed(r)
    PROVE  Owed(r)'
<1>1. UNCHANGED disk
  BY WatchLeaves
<1>2. CASE TakeEvent
  <2>1. /\ watcher.pc = "waiting" /\ watcher'.pc = "compare" /\ watcher'.path = Head(queue)
        /\ \A p : Due(p) => Due(p)' \/ p = Head(queue)
    BY <1>2, TakeEventIs, TakingOne DEF TakeEvent, TakesEvent
  <2> QED
    BY <1>1, <2>1 DEF Owed, Handled
<1>3. CASE ~TakesEvent
  <2>1. Due(r)' <=> Due(r)
    BY <1>3, WatchLeaves DEF Due
  <2> SUFFICES ASSUME watcher.path = r, watcher.pc \in Handled, disk[r] # Garbage
               PROVE  watcher'.path = r /\ watcher'.pc \in Handled
    BY <1>1, <2>1 DEF Owed
  <2>2. CASE ReadPrevious \/ PublishResources \/ DecideInference
    BY <2>2, ReadPreviousIs, PublishIs, DecideInferenceIs, SchemaFileAssumption
    DEF Handled, Remembers, SchemaTouched
  <2>3. CASE InferFile
    BY <2>3, InferFileIs, ScanFailsHere DEF Handled, Remembers
  <2>4. CASE ChangedExists \/ InferNothing \/ SkipInstall
    BY <2>4, WatcherGotoIs DEF ChangedExists, InferNothing, SkipInstall, Handled, Remembers
  <2>5. CASE InstallTables
    <3>1. Mergeable(schema.declared, WatchedTables)
      BY DEF CacheFollows, MergesOK, SelfContained, Mergeable
    <3> QED
      BY <2>5, <3>1, WatcherGotoIs DEF InstallTables, Handled, Remembers
  <2>6. ~(LoadSchema \/ ReplaceOverlay \/ EvictBroken \/ GiveUp \/ WatcherMarksReady)
    BY LoadSchemaIs, ReplaceOverlayIs
    DEF EvictBroken, GiveUp, WatcherMarksReady, WatcherAt, Handled
  <2>7. CASE ReadChanged
    <3>1. watcher.pc = "read" /\ disk[r] # Absent
      BY <2>7, ReadChangedIs DEF CacheFollows, RereadOK
    <3>2. disk[r] \in Snapshot
      BY <3>1 DEF Inv, TypeOK, FileContent
    <3> QED
      BY <2>7, <3>2, ReadChangedIs DEF Handled, Remembers
  <2> QED
    BY <1>3, <2>2, <2>3, <2>4, <2>5, <2>6, <2>7 DEF Watch, TakeEvent, ListFails
<1> QED
  BY <1>2, <1>3, TakingLists

\* The cache of the changed file becomes what the watcher has read, under an
\* address that nobody holds; that of a broken one is dropped.
LEMMA WatchKeepsCache ==
    ASSUME Scannable, InitialReady, OneFileEdited, Inv, SetInv, FollowInv, CacheFollows,
           Watch
    PROVE  CacheFollows'
<1>1. UNCHANGED <<disk, task>>
  BY WatchLeaves
<1>2. RereadOK' /\ MergesOK' /\ Coherent'
  BY <1>1, WatchKeepsReread, WatchKeepsMerges DEF CacheFollows, Coherent, Res
<1>3. \A t \in Task : Carries(task[t]) => Res(t) \in Resource
  BY TaskFacts DEF Carries
<1>4. CASE ~RefreshCache /\ ~EvictBroken
  <2>1. UNCHANGED cache
    BY <1>4, WatchLeaves
  <2>2. \A r \in Resource : Owed(r) => Owed(r)'
    BY <1>4, OwedUntilRefreshed
  <2>3. CachedOK'
    BY <1>1, <2>1, <2>2 DEF CacheFollows, CachedOK
  <2>4. CarriedOK'
    BY <1>1, <1>3, <2>1, <2>2 DEF CacheFollows, CarriedOK, Res
  <2> QED
    BY <1>2, <2>3, <2>4 DEF CacheFollows
<1>5. CASE EvictBroken
  <2>1. watcher.pc = "evict" /\ watcher.path \in Resource
    BY <1>5, WatcherFacts DEF EvictBroken, WatcherAt, WatcherInv
  <2>2. PICK p \in Resource : p = watcher.path
    BY <2>1
  <2>3. cache'[p] = NoEntry /\ \A r \in Resource : r # p => cache'[r] = cache[r]
    BY <1>5, <2>2 DEF EvictBroken, Inv, TypeOK
  <2>4. ~RefreshCache
    BY <2>1 DEF RefreshCache, WatcherAt
  <2>5. /\ \A r \in Resource : Owed(r) => Owed(r)'
        /\ Owed(p)
    BY <2>1, <2>2, <2>4, OwedUntilRefreshed DEF CacheFollows, RereadOK, Owed
  <2>6. CachedOK'
    BY <1>1, <2>3, <2>5 DEF CacheFollows, CachedOK
  <2>7. CarriedOK'
    BY <1>1, <1>3, <2>3, <2>5 DEF CacheFollows, CarriedOK, ArcOK, Res
  <2> QED
    BY <1>2, <2>6, <2>7 DEF CacheFollows
<1>6. CASE RefreshCache
  <2>1. watcher.pc = "cache" /\ UNCHANGED queue
    BY <1>6 DEF RefreshCache, WatcherAt
  <2>2. \A r \in Resource : r # watcher.path /\ Owed(r) => Owed(r)'
    BY <1>1, <2>1 DEF Owed, Due
  <2>3. CASE SchemaTouched
    <3>1. UNCHANGED cache /\ \A r \in Resource : Owed(r) => Owed(r)'
      BY <1>6, <2>2, <2>3, SchemaFileAssumption DEF RefreshCache, SchemaTouched
    <3>2. CachedOK'
      BY <1>1, <3>1 DEF CacheFollows, CachedOK
    <3>3. CarriedOK'
      BY <1>1, <1>3, <3>1 DEF CacheFollows, CarriedOK, Res
    <3> QED
      BY <1>2, <3>2, <3>3 DEF CacheFollows
  <2>4. CASE ~SchemaTouched
    <3>1. watcher.path \in Resource
      BY <2>1, <2>4, WatcherFacts DEF WatcherInv, SchemaTouched
    <3>2. PICK p \in Resource : p = watcher.path
      BY <3>1
    <3> DEFINE new == [arc |-> FreshArc, value |-> watcher.value, rev |-> Unvalidated]
    <3>3. /\ watcher.value \in Snapshot
          /\ watcher.value = disk[p] \/ Due(p)
      BY <2>1, <2>4, <3>2 DEF CacheFollows, RereadOK, SchemaTouched
    <3>4. ArcAvailable /\ FreshArc \in Arc
      BY <1>6 DEF RefreshCache, ArcAvailable, FreshArc
    <3>5. new \in Entry
      BY <3>3, <3>4 DEF Entry
    <3>6. new # NoEntry /\ new.arc = FreshArc /\ new.value = watcher.value
      BY <3>5, NoEntryAssumption
    <3>7. cache' = [cache EXCEPT ![p] = new]
      BY <1>6, <2>4, <3>2, <3>3, NoValueAssumption DEF RefreshCache
    <3> HIDE DEF new
    <3>8. cache'[p] = new /\ \A r \in Resource : r # p => cache'[r] = cache[r]
      BY <3>7 DEF Inv, TypeOK
    <3>9. watcher.value = disk'[p] \/ Owed(p)'
      BY <1>1, <2>1, <3>3 DEF Owed, Due
    <3>10. CachedOK'
      BY <1>1, <2>2, <3>2, <3>6, <3>8, <3>9 DEF CacheFollows, CachedOK
    <3>11. CarriedOK'
      <4>1. ASSUME NEW t \in Task, Carries(task[t]), NEW r \in Resource, r = Res(t)
            PROVE  /\ ArcOK(task[t], cache')
                   /\ cache'[r] # NoEntry \/ task[t].value = disk[r] \/ Owed(r)'
        <5>1. CASE r = p
          BY <3>4, <3>6, <3>8, <4>1, <5>1, FreshArcIsNew DEF ArcOK, Res
        <5>2. CASE r # p
          BY <2>2, <3>2, <3>8, <4>1, <5>2 DEF CacheFollows, CarriedOK, ArcOK, Res
        <5> QED
          BY <5>1, <5>2
      <4> QED
        BY <1>1, <1>3, <4>1 DEF CarriedOK, Res
    <3> QED
      BY <1>2, <3>10, <3>11 DEF CacheFollows
  <2> QED
    BY <2>3, <2>4
<1> QED
  BY <1>4, <1>5, <1>6

\* A request that arrives carries nothing.
LEMMA SubmitKeepsCache ==
    ASSUME Inv, SetInv, CacheFollows, NEW t \in Task, Submit(t), UNCHANGED watcher
    PROVE  CacheFollows'
<1>1. /\ OthersStay(t) /\ task'[t].pc \in {"acquire", "revision", "validate", "merge"}
  BY SubmitAsked DEF SetInv
<1>2. UNCHANGED <<disk, schemaFile, cache, schema, queue>>
  BY DEF Submit, storeVars
<1>3. ~Carries(task'[t])
  BY <1>1 DEF Carries, NeedsSnapshot, UpdatePC, RefreshPC
<1>4. \A r : Owed(r)' <=> Owed(r)
  BY <1>2 DEF Owed, Due
<1>5. RereadOK' /\ MergesOK' /\ CachedOK'
  BY <1>2, <1>4 DEF CacheFollows, RereadOK, MergesOK, SelfContained, CachedOK, Due
<1>6. CarriedOK' /\ Coherent'
  BY <1>1, <1>2, <1>3, <1>4 DEF CacheFollows, CarriedOK, Coherent, OthersStay, Res
<1> QED
  BY <1>5, <1>6 DEF CacheFollows

\* At rest what is cached is what is in the file, although a request that
\* missed the cache reads the file and stores what it read in separate steps,
\* and the watcher reloads it between them (read_resource_value, update_cached_resource,
\* mark_cached_resource_validated); the folder can be listed, so no event is dropped.
THEOREM CacheSettles ==
    ASSUME WatcherRunning, Scannable, ReadsOnly, InitialReady, OneFileEdited,
           OverlaysSelfContained
    PROVE  Spec => []SettledCache
<1>1. Init => CacheFollows
  <2> SUFFICES ASSUME Init
               PROVE  CacheFollows
    OBVIOUS
  <2>1. /\ watcher.pc = "waiting" /\ queue = <<>> /\ disk = InitialDisk
        /\ schemaFile = InitialSchema /\ schema.declared = InitialOverlay
        /\ \A r \in Resource : cache[r] = NoEntry
        /\ \A t \in Task : task[t].pc = "idle"
    BY DEF Init, WaitingWatcher, NewStore, IdleTask
  <2>2. \A p : ~Due(p)
    BY <2>1, NothingDue
  <2>3. RereadOK /\ CachedOK /\ CarriedOK /\ Coherent
    BY <2>1, <2>2 DEF RereadOK, CachedOK, CarriedOK, Coherent, Carries
  <2>4. MergesOK
    BY <2>1, AbsentAssumption DEF MergesOK, OverlaysSelfContained, InitialOverlay
  <2> QED
    BY <2>3, <2>4 DEF CacheFollows
<1>2. Inv /\ SetInv /\ FollowInv /\ CacheFollows /\ [Next]_vars => CacheFollows'
  <2> SUFFICES ASSUME Inv, SetInv, FollowInv, CacheFollows, [Next]_vars
               PROVE  CacheFollows'
    OBVIOUS
  <2>1. ASSUME NEW t \in Task, RequestStep(t)
        PROVE  CacheFollows'
    <3>1. UNCHANGED <<watcher, edits>> /\ (Submit(t) \/ Handle(t))
      BY <2>1 DEF RequestStep
    <3> QED
      BY <3>1, ReaderKeepsCache, SubmitKeepsCache
  <2>2. CASE WatcherStep
    BY <2>2, WatchKeepsCache DEF WatcherStep
  <2>3. CASE ExternalEdit
    BY <2>3, EditKeepsCache
  <2>4. CASE UNCHANGED vars
    BY <2>4
    DEF vars, CacheFollows, RereadOK, MergesOK, SelfContained, CachedOK, CarriedOK, Coherent,
        Owed, Due, Res
  <2> QED
    BY <2>1, <2>2, <2>3, <2>4 DEF Next, Rest
<1>3. CacheFollows => SettledCache
  <2> SUFFICES ASSUME CacheFollows, Quiescent, NEW r \in Resource, cache[r] # NoEntry,
                      disk[r] # Garbage
               PROVE  cache[r].value = disk[r]
    BY DEF SettledCache
  <2>1. watcher.pc = "waiting" /\ ~Due(r)
    BY NothingDue DEF Quiescent, WatcherAt
  <2>2. ~Owed(r)
    BY <2>1 DEF Owed, Handled
  <2> QED
    BY <2>2 DEF CacheFollows, CachedOK
<1> QED
  BY <1>1, <1>2, <1>3, FollowInvariance, Invariance, PTL DEF Spec
=============================================================================
