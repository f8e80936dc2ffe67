----------------------------- MODULE DirbaseProofs -----------------------------
(***************************************************************************)
(* Type correctness and admission, for any number of resources, requests,  *)
(* edits and revisions.                                                    *)
(*                                                                         *)
(* Neither is inductive.  A cached snapshot is trusted because of its      *)
(* revision, the revision comes from a handler that validated the snapshot *)
(* some steps earlier, and between the two the overlay may be replaced any *)
(* number of times.  The invariant says of every revision on its way,      *)
(* in a handler, in a response or in the cache, that it was handed out and *)
(* that the declared table admits its snapshot as long as the revision is  *)
(* the current one.                                                        *)
(***************************************************************************)
EXTENDS Dirbase, FiniteSetTheorems, SequenceTheorems, TLAPS

(***************************************************************************)
(* Documents and the schema store: what their operators return, and the    *)
(* fact that makes revisions trustworthy, that replacing the declared      *)
(* overlay never makes an old revision of a changed table current again.   *)
(***************************************************************************)

\* A snapshot with revision rev of r can be trusted: the revision was handed
\* out, and as long as it is the current one the declared table admits the
\* snapshot.
Certified(store, r, value, rev) ==
    rev \in Nat =>
        /\ rev <= store.nextRevision
        /\ rev = store.revisions[r] => Admits(store.declared[r], value)

\* Every revision in use was handed out.
RevisionsHandedOut(store) ==
    \A r \in Resource : store.revisions[r] <= store.nextRevision

-----------------------------------------------------------------------------

\* The table inferred from a document is a set of columns or no table.
LEMMA InferTableType ==
    ASSUME NEW s \in Snapshot
    PROVE  InferTable(s) \in {NoTable} \cup SUBSET Column
  BY DEF InferTable, Snapshot, Items, Item

\* Merging tables gives tables.
LEMMA MergeType ==
    ASSUME NEW declared \in Overlay, NEW inferred \in Tables
    PROVE  Merge(declared, inferred) \in Tables
<1> SUFFICES ASSUME NEW r \in Resource
             PROVE  Columns(inferred[r]) \cup Required(declared[r]) \in SUBSET Column
  BY DEF Merge, Tables
<1>1. Columns(inferred[r]) \in SUBSET Column
  BY DEF Columns, Tables
<1>2. Required(declared[r]) \in SUBSET Column
  BY DEF Required, Overlay, DeclaredTable
<1> QED
  BY <1>1, <1>2

\* The ranking of a set of resources exists: ranks start at 1 and end at the
\* number of resources.
LEMMA RankingType ==
    ASSUME NEW S \in SUBSET Resource
    PROVE  /\ Cardinality(S) \in Nat
           /\ Ranking(S) \in [S -> 1..Cardinality(S)]
<1>1. IsFiniteSet(S)
  BY FiniteResources, FS_Subset
<1>2. Cardinality(S) \in Nat /\ ExistsBijection(1..Cardinality(S), S)
  BY <1>1, FS_CardinalityType
<1> DEFINE n == Cardinality(S)
<1>3. PICK f \in [1..n -> S] :
          /\ \A i, j \in 1..n : f[i] = f[j] => i = j
          /\ \A r \in S : \E i \in 1..n : f[i] = r
  BY <1>2 DEF ExistsBijection, Bijection, Injection, Surjection, IsInjective
<1> DEFINE rank == [r \in S |-> CHOOSE i \in 1..n : f[i] = r]
<1>4. \A r \in S : rank[r] \in 1..n /\ f[rank[r]] = r
  BY <1>3
<1>5. rank \in [S -> 1..n]
  BY <1>4
<1>6. \A r, q \in S : rank[r] = rank[q] => r = q
  BY <1>4
<1> HIDE DEF rank, n
<1>7. \E g \in [S -> 1..n] : \A r, q \in S : g[r] = g[q] => r = q
  BY <1>5, <1>6
<1>8. Ranking(S) \in [S -> 1..n]
  BY <1>7 DEF Ranking, n
<1> QED
  BY <1>2, <1>8 DEF n

\* A new store is a store whose revisions were handed out.
LEMMA NewStoreType ==
    ASSUME NEW declared \in Overlay, NEW inferred \in Tables
    PROVE  /\ NewStore(declared, inferred) \in Store
           /\ RevisionsHandedOut(NewStore(declared, inferred))
  BY MergeType DEF NewStore, Store, RevisionsHandedOut

\* Replacing the inferred tables touches neither declarations nor revisions.
LEMMA ReplaceInferredType ==
    ASSUME NEW store \in Store, NEW inferred \in Tables,
           NEW result, result = ReplaceInferred(store, inferred)
    PROVE  /\ result \in Store
           /\ result.declared = store.declared
           /\ result.revisions = store.revisions
           /\ result.nextRevision = store.nextRevision
<1>1. store.declared \in Overlay
  BY DEF Store
<1>2. Merge(store.declared, inferred) \in Tables
  BY <1>1, MergeType
<1> QED
  BY <1>2 DEF ReplaceInferred, Store

\* Replacing the overlay gives every changed table a revision that was never
\* handed out before.
LEMMA NewRevisionsType ==
    ASSUME NEW store \in Store, RevisionsHandedOut(store), NEW declared \in Overlay
    PROVE  LET changed == ChangedTables(store, declared)
               next == store.nextRevision + Cardinality(changed)
           IN  /\ Cardinality(changed) \in Nat
               /\ next \in Nat /\ store.nextRevision <= next
               /\ NewRevisions(store, declared) \in [Resource -> Nat]
               /\ \A r \in Resource : NewRevisions(store, declared)[r] <= next
               /\ \A r \in changed : store.nextRevision < NewRevisions(store, declared)[r]
               /\ \A r \in Resource \ changed :
                      NewRevisions(store, declared)[r] = store.revisions[r]
<1> DEFINE changed == ChangedTables(store, declared)
           n == Cardinality(changed)
           rank == Ranking(changed)
<1>1. changed \in SUBSET Resource
  BY DEF ChangedTables
<1>2. n \in Nat /\ rank \in [changed -> 1..n]
  BY <1>1, RankingType
<1>3. /\ store.nextRevision \in Nat
      /\ \A r \in Resource : store.revisions[r] \in Nat
                             /\ store.revisions[r] <= store.nextRevision
  BY DEF Store, RevisionsHandedOut
<1>4. NewRevisions(store, declared) =
          [r \in Resource |-> IF r \in changed THEN store.nextRevision + rank[r]
                              ELSE store.revisions[r]]
  BY DEF NewRevisions
<1>5. \A r \in changed : rank[r] \in Nat /\ 1 <= rank[r] /\ rank[r] <= n
  BY <1>2
<1> HIDE DEF changed, n, rank
<1> QED
  BY <1>1, <1>2, <1>3, <1>4, <1>5 DEF changed, n

\* Replacing the overlay gives a store whose revisions were handed out.
LEMMA ReplaceDeclaredType ==
    ASSUME NEW store \in Store, RevisionsHandedOut(store), NEW declared \in Overlay,
           NEW result, result = ReplaceDeclared(store, declared)
    PROVE  result \in Store /\ RevisionsHandedOut(result)
<1>1. store.inferred \in Tables
  BY DEF Store
<1>2. Merge(declared, store.inferred) \in Tables
  BY <1>1, MergeType
<1> QED
  BY <1>2, NewRevisionsType DEF ReplaceDeclared, Store, RevisionsHandedOut

\* What was certified before the overlay is replaced stays certified after it.
THEOREM ReplaceDeclaredKeepsCertified ==
    ASSUME NEW store \in Store, RevisionsHandedOut(store), NEW declared \in Overlay,
           NEW result, result = ReplaceDeclared(store, declared),
           NEW r \in Resource, NEW value, NEW rev, Certified(store, r, value, rev)
    PROVE  Certified(result, r, value, rev)
<1> SUFFICES ASSUME rev \in Nat
             PROVE  /\ rev <= result.nextRevision
                    /\ rev = result.revisions[r] => Admits(result.declared[r], value)
  BY DEF Certified
<1> DEFINE changed == ChangedTables(store, declared)
<1>1. /\ result.declared = declared
      /\ result.revisions = NewRevisions(store, declared)
      /\ result.nextRevision = store.nextRevision + Cardinality(changed)
  BY DEF ReplaceDeclared, Store
<1>2. store.nextRevision \in Nat /\ rev <= store.nextRevision
  BY DEF Store, Certified
<1>3. rev <= result.nextRevision
  BY <1>1, <1>2, NewRevisionsType
<1>4. CASE r \in changed
  <2>1. store.nextRevision < result.revisions[r] /\ result.revisions[r] \in Nat
    BY <1>1, <1>4, NewRevisionsType
  <2> QED
    BY <1>2, <1>3, <2>1
<1>5. CASE r \notin changed
  <2>1. result.revisions[r] = store.revisions[r] /\ result.declared[r] = store.declared[r]
    BY <1>1, <1>5, NewRevisionsType DEF ChangedTables
  <2> QED
    BY <1>3, <2>1 DEF Certified
<1> QED
  BY <1>4, <1>5

-----------------------------------------------------------------------------
(***************************************************************************)
(* The invariant.                                                          *)
(***************************************************************************)

\* Where a handler can be, by what it was asked.
LoadPC == {"revision", "lookup", "open", "admit", "mark"}
UpdatePC == {"insert", "apply", "readiness", "persist", "install", "infer", "certify"}
SetPC == {"validate", "create", "fill", "register", "cache_new", "remove",
          "unregister", "uncache"}
PutPC == {"merge", "truncate", "write_schema", "adopt"}
RefreshPC == {"snapshot", "scan", "mark_ready"}

DataOps == ReadOps \cup UpdateOps
Allowed(op, pc) ==
    /\ pc \in LoadPC => op \in DataOps
    /\ pc \in UpdatePC => op \in UpdateOps
    /\ pc \in SetPC => op \in SetOps
    /\ pc \in PutPC => op = "put_schema"
    /\ pc \in {"acquire", "registered"} => op \in DataOps \cup SetOps
    /\ pc \in RefreshPC => op \in UpdateOps \cup SetOps
    /\ pc = "announce" => op \in SetOps \cup {"put_schema"}

\* A handler that is to validate, certify or write a snapshot has one; those
\* that manage resources or the schema never do.
NeedsSnapshot(op, pc) ==
    \/ pc \in {"admit", "mark"} \cup UpdatePC
    \/ pc \in RefreshPC /\ op \in UpdateOps
HasSnapshot(w) ==
    /\ NeedsSnapshot(w.req.op, w.pc) => w.arc \in Arc /\ w.value \in Snapshot
    /\ w.pc = "idle" \/ w.req.op \notin DataOps => w.value = NoValue

\* Between validation and the response the revision goes with the snapshot.
CertifiedPC == {"mark", "readiness", "persist", "install", "infer", "certify",
                "announce", "done"} \cup RefreshPC
CarriesCertified(w, store) ==
    w.pc \in CertifiedPC /\ w.value # NoValue
        => Certified(store, w.req.res, w.value, w.rev)

TaskInv(w, store) ==
    /\ w.pc # "idle" => w.req \in Request
    /\ Allowed(w.req.op, w.pc)
    /\ HasSnapshot(w)
    /\ CarriesCertified(w, store)

CacheInv(c, store) ==
    \A r \in Resource :
        c[r] # NoEntry => Certified(store, r, c[r].value, c[r].rev)

WatcherInv ==
    /\ watcher.pc # "waiting" => watcher.path \in {SchemaFile} \cup Resource
    /\ watcher.pc \in {"exists", "read", "evict"} => watcher.path # SchemaFile
    /\ watcher.pc = "replace" => watcher.overlay \in Overlay

Inv ==
    /\ TypeOK
    /\ RevisionsHandedOut(schema)
    /\ CacheInv(cache, schema)
    /\ \A t \in Task : TaskInv(task[t], schema)
    /\ WatcherInv

-----------------------------------------------------------------------------
(***************************************************************************)
(* What every step keeps, apart from the handler or the watcher that takes *)
(* it: the store is well typed, what it caches is certified, and whatever  *)
(* was certified stays so.                                                 *)
(***************************************************************************)

SchemaKeeps ==
    /\ schema' \in Store
    /\ RevisionsHandedOut(schema')
    /\ \A r \in Resource : \A value, rev :
           Certified(schema, r, value, rev) => Certified(schema', r, value, rev)

StoreKeeps ==
    /\ disk' \in [Resource -> FileContent]
    /\ schemaFile' \in SchemaContent
    /\ resources' \subseteq Resource
    /\ ready' \in BOOLEAN
    /\ queue' \in Seq({SchemaFile} \cup Resource)
    /\ cache' \in [Resource -> {NoEntry} \cup Entry]
    /\ CacheInv(cache', schema')

\* What a step of handler t does to the tasks.
TaskMoves(t) ==
    /\ task' \in [Task -> TaskState]
    /\ \A u \in Task \ {t} : task'[u] = task[u]
    /\ TaskInv(task'[t], schema')

\* Every string of a program counter is one.
LEMMA PCs ==
    \A pc \in {"idle", "acquire", "registered", "announce", "done"} \cup LoadPC
               \cup UpdatePC \cup SetPC \cup PutPC \cup RefreshPC : pc \in PC
  BY DEF PC, LoadPC, UpdatePC, SetPC, PutPC, RefreshPC

\* A handler that does not move stays certified under the new schema.
LEMMA TasksStayCertified ==
    ASSUME Inv, SchemaKeeps
    PROVE  \A u \in Task : TaskInv(task[u], schema')
<1> SUFFICES ASSUME NEW u \in Task
             PROVE  TaskInv(task[u], schema')
  OBVIOUS
<1>1. TaskInv(task[u], schema)
  BY DEF Inv
<1>2. CarriesCertified(task[u], schema')
  <2> SUFFICES ASSUME task[u].pc \in CertifiedPC, task[u].value # NoValue
               PROVE  Certified(schema', task[u].req.res, task[u].value, task[u].rev)
    BY DEF CarriesCertified
  <2>1. task[u].req.res \in Resource
    BY <1>1 DEF TaskInv, Request, CertifiedPC, RefreshPC
  <2> QED
    BY <1>1, <2>1 DEF TaskInv, CarriesCertified, SchemaKeeps
<1> QED
  BY <1>1, <1>2 DEF TaskInv

\* A step of a handler keeps the invariant if it keeps its parts.
LEMMA StepKeepsInv ==
    ASSUME Inv, SchemaKeeps, StoreKeeps, NEW t \in Task, TaskMoves(t),
           UNCHANGED <<watcher, edits>>
    PROVE  Inv'
<1>1. TypeOK'
  BY DEF TypeOK, Inv, SchemaKeeps, StoreKeeps, TaskMoves
<1>2. \A u \in Task : TaskInv(task'[u], schema')
  BY TasksStayCertified DEF TaskMoves
<1>3. WatcherInv'
  BY DEF WatcherInv, Inv
<1> QED
  BY <1>1, <1>2, <1>3 DEF Inv, SchemaKeeps, StoreKeeps

\* So does any other step.
LEMMA OtherStepKeepsInv ==
    ASSUME Inv, SchemaKeeps, StoreKeeps, UNCHANGED task, edits' \subseteq Edits,
           watcher' \in WatcherState, WatcherInv'
    PROVE  Inv'
<1>1. TypeOK'
  BY DEF TypeOK, Inv, SchemaKeeps, StoreKeeps
<1>2. \A u \in Task : TaskInv(task'[u], schema')
  BY TasksStayCertified
<1> QED
  BY <1>1, <1>2 DEF Inv, SchemaKeeps, StoreKeeps

\* Most steps leave the schema store, or all of the store, alone.
LEMMA SameSchema ==
    ASSUME Inv, UNCHANGED schema
    PROVE  SchemaKeeps
  BY DEF Inv, TypeOK, SchemaKeeps

\* A step that leaves the whole store alone keeps it.
LEMMA SameStore ==
    ASSUME Inv, UNCHANGED storeVars
    PROVE  SchemaKeeps /\ StoreKeeps
<1>1. UNCHANGED <<disk, schemaFile, resources, cache, schema, ready, queue>>
  BY DEF storeVars
<1>2. SchemaKeeps
  BY <1>1, SameSchema
<1>3. StoreKeeps
  BY <1>1 DEF Inv, TypeOK, StoreKeeps
<1> QED
  BY <1>2, <1>3

-----------------------------------------------------------------------------
(***************************************************************************)
(* The handlers' own state.                                                *)
(***************************************************************************)

\* What is known of a handler in flight.
LEMMA TaskFacts ==
    ASSUME Inv, NEW t \in Task
    PROVE  /\ task[t] \in TaskState
           /\ TaskInv(task[t], schema)
           /\ task[t].pc # "idle" =>
                  /\ task[t].req \in Request
                  /\ Res(t) \in Resource
                  /\ schema.revisions[Res(t)] \in Nat
                  /\ schema.revisions[Res(t)] <= schema.nextRevision
  BY DEF Inv, TypeOK, TaskInv, Res, Request, Store, RevisionsHandedOut

\* A handler moves to any well-typed state that fits the new schema.
LEMMA MovesTo ==
    ASSUME Inv, NEW t \in Task, NEW w \in TaskState, TaskInv(w, schema'),
           task' = [task EXCEPT ![t] = w]
    PROVE  TaskMoves(t)
  BY DEF Inv, TypeOK, TaskMoves

\* A fresh address is an address.
LEMMA FreshArcType ==
    ASSUME ArcAvailable
    PROVE  FreshArc \in Arc
  BY DEF ArcAvailable, FreshArc

\* The state of a request that has not arrived.
LEMMA IdleTaskType == IdleTask \in TaskState
<1>1. NoTables \in Tables
  BY DEF NoTables, Tables
<1>2. Root \in Id
  BY MaxIdAssumption DEF Root, Id
<1>3. "idle" \in PC
  BY PCs
<1> QED
  BY <1>1, <1>2, <1>3 DEF IdleTask, TaskState

\* An error return carries nothing.
LEMMA FailMoves ==
    ASSUME Inv, NEW t \in Task, task[t].pc # "idle", Fail(t)
    PROVE  TaskMoves(t)
<1> DEFINE w == [IdleTask EXCEPT !.pc = "done", !.req = task[t].req, !.status = "error"]
<1>1. task[t].req \in Request
  BY TaskFacts
<1>2. w \in TaskState
  BY <1>1, IdleTaskType, PCs DEF TaskState
<1>3. w.pc = "done" /\ w.req = task[t].req /\ w.value = NoValue
  BY <1>2, IdleTaskType DEF IdleTask
<1>4. task' = [task EXCEPT ![t] = w]
  BY DEF Fail
<1> HIDE DEF w
<1>5. Allowed(w.req.op, w.pc)
  BY <1>3 DEF Allowed, LoadPC, UpdatePC, SetPC, PutPC, RefreshPC
<1>6. HasSnapshot(w)
  BY <1>3 DEF HasSnapshot, NeedsSnapshot, UpdatePC, RefreshPC
<1>7. TaskInv(w, schema')
  BY <1>1, <1>3, <1>5, <1>6 DEF TaskInv, CarriesCertified
<1> QED
  BY <1>2, <1>4, <1>7, MovesTo

\* A handler that only goes on keeps what it carries.
LEMMA GotoMoves ==
    ASSUME Inv, SchemaKeeps, NEW t \in Task, task[t].pc # "idle",
           NEW pc \in PC, pc # "idle", Goto(t, pc), Allowed(Op(t), pc),
           NeedsSnapshot(Op(t), pc) => NeedsSnapshot(Op(t), task[t].pc),
           pc \in CertifiedPC => \/ task[t].pc \in CertifiedPC
                                \/ Op(t) \notin DataOps
    PROVE  TaskMoves(t)
<1> DEFINE w == [task[t] EXCEPT !.pc = pc]
<1>1. w \in TaskState
  BY TaskFacts DEF TaskState
<1>2. /\ w.pc = pc /\ w.req = task[t].req /\ w.arc = task[t].arc
      /\ w.value = task[t].value /\ w.rev = task[t].rev
  BY TaskFacts DEF TaskState
<1>3. task' = [task EXCEPT ![t] = w]
  BY DEF Goto
<1>4. /\ task[t].req \in Request /\ HasSnapshot(task[t])
      /\ CarriesCertified(task[t], schema) /\ task[t].req.res \in Resource
  BY TaskFacts DEF TaskInv, Res
<1> HIDE DEF w
<1>5. HasSnapshot(w)
  BY <1>2, <1>4 DEF HasSnapshot, Op
<1>6. CarriesCertified(w, schema')
  BY <1>2, <1>4 DEF CarriesCertified, SchemaKeeps, HasSnapshot, Op
<1>7. TaskInv(w, schema')
  BY <1>2, <1>4, <1>5, <1>6 DEF TaskInv, Op
<1> QED
  BY <1>1, <1>3, <1>7, MovesTo

\* Taking a snapshot over from the cache, or from itself once it is validated.
LEMMA LoadedMoves ==
    ASSUME Inv, UNCHANGED schema, NEW t \in Task, task[t].pc # "idle", Op(t) \in DataOps,
           NEW entry, entry.arc \in Arc, entry.value \in Snapshot,
           entry.rev \in {Unvalidated} \cup Nat,
           Certified(schema, Res(t), entry.value, entry.rev),
           Loaded(t, entry)
    PROVE  TaskMoves(t)
<1>1. task[t] \in TaskState /\ task[t].req \in Request
  BY TaskFacts
<1>2. CASE Op(t) \in ReadOps
  <2> DEFINE w == [IdleTask EXCEPT !.pc = "done", !.req = task[t].req, !.status = "ok",
                                   !.value = entry.value, !.rev = entry.rev]
  <2>1. w \in TaskState
    BY <1>1, IdleTaskType, PCs DEF TaskState
  <2>2. /\ w.pc = "done" /\ w.req = task[t].req
        /\ w.value = entry.value /\ w.rev = entry.rev
    BY IdleTaskType DEF TaskState
  <2>3. task' = [task EXCEPT ![t] = w]
    BY <1>2 DEF Loaded
  <2> HIDE DEF w
  <2>4. TaskInv(w, schema')
    BY <1>1, <2>2
    DEF TaskInv, Allowed, HasSnapshot, NeedsSnapshot, CarriesCertified, Op, Res,
        LoadPC, UpdatePC, SetPC, PutPC, RefreshPC
  <2> QED
    BY <2>1, <2>3, <2>4, MovesTo
<1>3. CASE Op(t) \notin ReadOps
  <2> DEFINE w == [task[t] EXCEPT !.pc = "apply", !.arc = entry.arc,
                                  !.value = entry.value, !.rev = entry.rev]
  <2>0. "apply" \in PC
    BY PCs DEF UpdatePC
  <2>1. w \in TaskState
    BY <1>1, <2>0 DEF TaskState
  <2>2. /\ w.pc = "apply" /\ w.req = task[t].req
        /\ w.arc = entry.arc /\ w.value = entry.value
    BY <1>1 DEF TaskState
  <2>3. task' = [task EXCEPT ![t] = w]
    BY <1>3 DEF Loaded
  <2> HIDE DEF w
  <2>4. TaskInv(w, schema')
    BY <1>1, <1>3, <2>2
    DEF TaskInv, Allowed, HasSnapshot, NeedsSnapshot, CarriesCertified, CertifiedPC,
        Op, DataOps, LoadPC, UpdatePC, SetPC, PutPC, RefreshPC
  <2> QED
    BY <2>1, <2>3, <2>4, MovesTo
<1> QED
  BY <1>2, <1>3

\* Success keeps the snapshot and its revision.
LEMMA SucceedMoves ==
    ASSUME Inv, UNCHANGED schema, NEW t \in Task, task[t].pc \in CertifiedPC, Succeed(t)
    PROVE  TaskMoves(t)
<1> DEFINE w == [IdleTask EXCEPT !.pc = "done", !.req = task[t].req, !.status = "ok",
                     !.value = task[t].value, !.rev = task[t].rev, !.made = task[t].made]
<1>1. /\ task[t] \in TaskState /\ task[t].req \in Request /\ HasSnapshot(task[t])
      /\ CarriesCertified(task[t], schema) /\ task[t].pc # "idle"
  BY TaskFacts DEF TaskInv, CertifiedPC, RefreshPC
<1>2. w \in TaskState
  BY <1>1, IdleTaskType, PCs DEF TaskState
<1>3. /\ w.pc = "done" /\ w.req = task[t].req
      /\ w.value = task[t].value /\ w.rev = task[t].rev
  BY IdleTaskType DEF TaskState
<1>4. task' = [task EXCEPT ![t] = w]
  BY DEF Succeed
<1> HIDE DEF w
<1>5. TaskInv(w, schema')
  BY <1>1, <1>3
  DEF TaskInv, Allowed, HasSnapshot, NeedsSnapshot, CarriesCertified,
      LoadPC, UpdatePC, SetPC, PutPC, RefreshPC
<1> QED
  BY <1>2, <1>4, <1>5, MovesTo

\* ReadRevision: the revision is not yet that of the snapshot.
LEMMA ReadRevisionMoves ==
    ASSUME Inv, NEW t \in Task, ReadRevision(t)
    PROVE  TaskMoves(t)
<1> DEFINE w == [task[t] EXCEPT !.pc = "lookup", !.rev = schema.revisions[Res(t)]]
<1>1. task[t].pc = "revision" /\ task' = [task EXCEPT ![t] = w]
  BY DEF ReadRevision, At
<1>2. "lookup" \in PC
  BY PCs DEF LoadPC
<1>3. w \in TaskState
  BY <1>1, <1>2, TaskFacts DEF TaskState
<1>4. w.pc = "lookup" /\ w.req = task[t].req /\ w.value = task[t].value
  BY TaskFacts DEF TaskState
<1> HIDE DEF w
<1>5. TaskInv(w, schema')
  BY <1>1, <1>4, TaskFacts
  DEF TaskInv, Allowed, HasSnapshot, NeedsSnapshot, CarriesCertified, CertifiedPC,
      LoadPC, UpdatePC, SetPC, PutPC, RefreshPC
<1> QED
  BY <1>1, <1>3, <1>5, MovesTo

\* Submit: any request of the workload, at the first step of its handler.
LEMMA SubmitMoves ==
    ASSUME Inv, NEW t \in Task, Submit(t)
    PROVE  TaskMoves(t)
<1>1. PICK req \in Workload[t] :
          task' = [task EXCEPT ![t].pc = FirstStep(req.op), ![t].req = req]
  BY DEF Submit
<1>2. req \in Request /\ req.op \in Ops
  BY <1>1, WorkloadAssumption DEF Request
<1> DEFINE w == [task[t] EXCEPT !.pc = FirstStep(req.op), !.req = req]
<1>3. FirstStep(req.op) \in PC
  BY PCs DEF FirstStep, LoadPC, SetPC, PutPC
<1>4. w \in TaskState
  BY <1>2, <1>3, TaskFacts DEF TaskState
<1>5. /\ w.pc = FirstStep(req.op) /\ w.req = req /\ w.value = task[t].value
  BY TaskFacts DEF TaskState
<1>6. task' = [task EXCEPT ![t] = w]
  BY <1>1
<1>7. task[t].value = NoValue
  BY TaskFacts DEF Submit, At, TaskInv, HasSnapshot
<1> HIDE DEF w
<1>8. TaskInv(w, schema')
  BY <1>2, <1>5, <1>7
  DEF TaskInv, Allowed, HasSnapshot, NeedsSnapshot, CarriesCertified, CertifiedPC, FirstStep,
      DataOps, Ops, SetOps, ReadOps, LoadPC, UpdatePC, SetPC, PutPC, RefreshPC
<1> QED
  BY <1>4, <1>6, <1>8, MovesTo

\* Acquire: the guard is new, the rest stays.
LEMMA AcquireMoves ==
    ASSUME Inv, NEW t \in Task, Acquire(t)
    PROVE  TaskMoves(t)
<1> DEFINE mode == IF Op(t) = "read" THEN "read" ELSE "write"
           pc == IF Op(t) \in SetOps THEN "registered"
                 ELSE IF Op(t) \in AfterOnly THEN "lookup" ELSE "revision"
           w == [task[t] EXCEPT !.guard = mode, !.pc = pc]
<1>1. task[t].pc = "acquire" /\ task' = [task EXCEPT ![t] = w]
  BY DEF Acquire, At
<1>2. pc \in PC
  BY PCs DEF LoadPC
<1>3. mode \in {"none", "read", "write"}
  OBVIOUS
<1>4. w \in TaskState
  <2>1. task[t] \in TaskState
    BY TaskFacts
  <2> HIDE DEF mode, pc
  <2> QED
    BY <1>2, <1>3, <2>1, Zenon DEF TaskState
<1>5. w.pc = pc /\ w.req = task[t].req /\ w.value = task[t].value
  BY TaskFacts DEF TaskState
<1> HIDE DEF w
<1>6. TaskInv(w, schema')
  BY <1>1, <1>5, TaskFacts
  DEF TaskInv, Allowed, HasSnapshot, NeedsSnapshot, CarriesCertified, CertifiedPC,
      DataOps, AfterOnly, Op, LoadPC, UpdatePC, SetPC, PutPC, RefreshPC
<1> QED
  BY <1>1, <1>4, <1>6, MovesTo

\* LookupHit: the cached snapshot is certified with the revision it has.
LEMMA LookupHitMoves ==
    ASSUME Inv, NEW t \in Task, LookupHit(t)
    PROVE  TaskMoves(t)
<1>1. task[t].pc = "lookup" /\ Res(t) \in Resource /\ Op(t) \in DataOps
  BY TaskFacts DEF LookupHit, At, TaskInv, Allowed, LoadPC, Op
<1>2. cache[Res(t)] \in Entry /\ UNCHANGED schema
  BY <1>1 DEF LookupHit, Inv, TypeOK, storeVars
<1>3. Certified(schema, Res(t), cache[Res(t)].value, cache[Res(t)].rev)
  BY <1>1 DEF LookupHit, Inv, CacheInv
<1> QED
  BY <1>1, <1>2, <1>3, LoadedMoves DEF LookupHit, Entry

\* LookupStale: the cached snapshot goes to validation.
LEMMA LookupStaleMoves ==
    ASSUME Inv, NEW t \in Task, LookupStale(t)
    PROVE  TaskMoves(t)
<1> DEFINE entry == cache[Res(t)]
           w == [task[t] EXCEPT !.pc = "admit", !.arc = entry.arc, !.value = entry.value]
<1>1. task[t].pc = "lookup" /\ task' = [task EXCEPT ![t] = w]
  BY DEF LookupStale, At
<1>2. entry.arc \in Arc /\ entry.value \in Snapshot
  BY <1>1, TaskFacts DEF LookupStale, Inv, TypeOK, Entry
<1>3. "admit" \in PC
  BY PCs DEF LoadPC
<1> HIDE DEF entry
<1>4. w \in TaskState
  BY <1>2, <1>3, TaskFacts DEF TaskState
<1>5. /\ w.pc = "admit" /\ w.req = task[t].req
      /\ w.arc = entry.arc /\ w.value = entry.value
  BY TaskFacts DEF TaskState
<1> HIDE DEF w
<1>6. TaskInv(w, schema')
  BY <1>1, <1>2, <1>5, TaskFacts
  DEF TaskInv, Allowed, HasSnapshot, NeedsSnapshot, CarriesCertified, CertifiedPC,
      LoadPC, UpdatePC, SetPC, PutPC, RefreshPC
<1> QED
  BY <1>1, <1>4, <1>6, MovesTo

\* LookupMiss: on to the resource set.
LEMMA LookupMissMoves ==
    ASSUME Inv, NEW t \in Task, LookupMiss(t)
    PROVE  TaskMoves(t)
<1>1. task[t].pc = "lookup" /\ Goto(t, "registered") /\ SchemaKeeps
  BY SameStore DEF LookupMiss, At
<1>2. Op(t) \in DataOps
  BY <1>1, TaskFacts DEF TaskInv, Allowed, LoadPC, Op
<1>3. Allowed(Op(t), "registered")
  BY <1>2 DEF Allowed, LoadPC, UpdatePC, SetPC, PutPC, RefreshPC
<1>4. ~NeedsSnapshot(Op(t), "registered") /\ "registered" \notin CertifiedPC
  BY DEF NeedsSnapshot, CertifiedPC, UpdatePC, RefreshPC
<1> QED
  BY <1>1, <1>3, <1>4, PCs, GotoMoves

\* CheckRegistered: not found or conflict, or on to the file.
LEMMA CheckRegisteredMoves ==
    ASSUME Inv, NEW t \in Task, CheckRegistered(t)
    PROVE  TaskMoves(t)
<1> DEFINE pc == CASE Op(t) = "create_resource" -> "create"
                   [] Op(t) = "delete_resource" -> "remove"
                   [] OTHER -> "open"
<1>1. task[t].pc = "registered" /\ (Fail(t) \/ Goto(t, pc)) /\ SchemaKeeps
  BY SameStore DEF CheckRegistered, At
<1>2. Op(t) \in DataOps \cup SetOps
  BY <1>1, TaskFacts DEF TaskInv, Allowed, Op
<1>3. Allowed(Op(t), pc)
  BY <1>2 DEF Allowed, SetOps, LoadPC, UpdatePC, SetPC, PutPC, RefreshPC
<1>4. ~NeedsSnapshot(Op(t), pc) /\ pc \notin CertifiedPC
  BY DEF NeedsSnapshot, CertifiedPC, UpdatePC, RefreshPC
<1>5. pc \in PC /\ pc # "idle"
  BY PCs DEF LoadPC, SetPC
<1> HIDE DEF pc
<1> QED
  BY <1>1, <1>3, <1>4, <1>5, FailMoves, GotoMoves

\* OpenFile: the content of the file, in a new Arc.
LEMMA OpenFileMoves ==
    ASSUME Inv, NEW t \in Task, OpenFile(t)
    PROVE  TaskMoves(t)
<1> DEFINE pc == IF Validated(t) THEN "admit" ELSE "insert"
           w == [task[t] EXCEPT !.pc = pc, !.value = disk[Res(t)], !.arc = FreshArc]
<1>1. /\ task[t].pc = "open" /\ task' = [task EXCEPT ![t] = w]
      /\ disk[Res(t)] \in Snapshot /\ FreshArc \in Arc
  BY FreshArcType DEF OpenFile, At
<1>2. pc \in PC
  BY PCs DEF LoadPC, UpdatePC
<1>3. w \in TaskState
  <2>1. task[t] \in TaskState /\ disk[Res(t)] \in {NoValue} \cup Snapshot
    BY <1>1, TaskFacts
  <2> QED
    BY <1>1, <1>2, <2>1, Zenon DEF TaskState
<1>4. /\ w.pc = pc /\ w.req = task[t].req
      /\ w.arc = FreshArc /\ w.value = disk[Res(t)]
  BY TaskFacts DEF TaskState
<1> HIDE DEF w
<1>5. TaskInv(w, schema')
  BY <1>1, <1>4, TaskFacts
  DEF TaskInv, Allowed, HasSnapshot, NeedsSnapshot, CarriesCertified, CertifiedPC, Validated,
      AfterOnly, DataOps, Op, LoadPC, UpdatePC, SetPC, PutPC, RefreshPC
<1> QED
  BY <1>1, <1>3, <1>5, MovesTo

\* Admit: the snapshot is certified with the revision read with the table.
LEMMA AdmitMoves ==
    ASSUME Inv, NEW t \in Task, Admit(t)
    PROVE  TaskMoves(t)
<1>1. task[t].pc = "admit" /\ UNCHANGED schema
  BY DEF Admit, At, storeVars
<1>2. CASE Fail(t)
  BY <1>1, <1>2, FailMoves
<1>3. CASE ~Fail(t)
  <2> DEFINE rev == schema.revisions[Res(t)]
             w == [task[t] EXCEPT !.pc = "mark", !.rev = rev]
  <2>1. Admits(schema.declared[Res(t)], task[t].value) /\ task' = [task EXCEPT ![t] = w]
    BY <1>3 DEF Admit
  <2>2. "mark" \in PC
    BY PCs DEF LoadPC
  <2>3. rev \in Nat /\ rev <= schema.nextRevision
    BY <1>1, TaskFacts
  <2>4. w \in TaskState
    BY <2>2, <2>3, TaskFacts DEF TaskState
  <2>5. /\ w.pc = "mark" /\ w.req = task[t].req /\ w.arc = task[t].arc
        /\ w.value = task[t].value /\ w.rev = rev
    BY TaskFacts DEF TaskState
  <2> HIDE DEF w
  <2>6. CarriesCertified(w, schema')
    BY <1>1, <2>1, <2>3, <2>5 DEF CarriesCertified, Certified, Res
  <2>7. TaskInv(w, schema')
    BY <1>1, <2>5, <2>6, TaskFacts
    DEF TaskInv, Allowed, HasSnapshot, NeedsSnapshot, LoadPC, UpdatePC, SetPC, PutPC, RefreshPC
  <2> QED
    BY <2>1, <2>4, <2>7, MovesTo
<1> QED
  BY <1>2, <1>3

-----------------------------------------------------------------------------
(***************************************************************************)
(* The parts of the store.                                                 *)
(***************************************************************************)

\* An unvalidated snapshot is certified: it is never trusted.
LEMMA UnvalidatedCertified ==
    ASSUME NEW store, NEW r, NEW value
    PROVE  Certified(store, r, value, Unvalidated)
  BY UnvalidatedAssumption DEF Certified

\* The cache that nobody touches stays certified under the new schema.
LEMMA SameCache ==
    ASSUME Inv, SchemaKeeps, UNCHANGED cache
    PROVE  /\ cache' \in [Resource -> {NoEntry} \cup Entry]
           /\ CacheInv(cache', schema')
  BY DEF Inv, TypeOK, CacheInv, SchemaKeeps

\* An entry with a certified snapshot may be put in the cache.
LEMMA CacheEntry ==
    ASSUME Inv, UNCHANGED schema, NEW r \in Resource,
           NEW arc \in Arc, NEW value \in Snapshot, NEW rev \in {Unvalidated} \cup Nat,
           Certified(schema, r, value, rev),
           cache' = [cache EXCEPT ![r] = [arc |-> arc, value |-> value, rev |-> rev]]
    PROVE  /\ cache' \in [Resource -> {NoEntry} \cup Entry]
           /\ CacheInv(cache', schema')
<1> DEFINE e == [arc |-> arc, value |-> value, rev |-> rev]
<1>1. e \in Entry /\ e.value = value /\ e.rev = rev
  BY DEF Entry
<1>2. cache' = [cache EXCEPT ![r] = e]
  OBVIOUS
<1> HIDE DEF e
<1>3. cache' \in [Resource -> {NoEntry} \cup Entry]
  BY <1>1, <1>2 DEF Inv, TypeOK
<1>4. \A q \in Resource : cache'[q] = IF q = r THEN e ELSE cache[q]
  BY <1>2 DEF Inv, TypeOK
<1>5. CacheInv(cache', schema')
  BY <1>1, <1>4 DEF Inv, CacheInv
<1> QED
  BY <1>3, <1>5

\* An entry may be dropped.
LEMMA CacheDropped ==
    ASSUME Inv, UNCHANGED schema, NEW r \in Resource,
           cache' = [cache EXCEPT ![r] = NoEntry]
    PROVE  /\ cache' \in [Resource -> {NoEntry} \cup Entry]
           /\ CacheInv(cache', schema')
  BY DEF Inv, TypeOK, CacheInv

\* Reporting a path keeps the queue a queue of paths.
LEMMA NotifyType ==
    ASSUME Inv, NEW path \in {SchemaFile} \cup Resource, Notify(path)
    PROVE  queue' \in Seq({SchemaFile} \cup Resource)
<1>1. queue \in Seq({SchemaFile} \cup Resource)
  BY DEF Inv, TypeOK
<1> QED
  BY <1>1, AppendProperties DEF Notify

\* Writing or removing a resource file.
LEMMA WriteDiskType ==
    ASSUME Inv, NEW r \in Resource, NEW content \in FileContent, WriteDisk(r, content)
    PROVE  /\ disk' \in [Resource -> FileContent]
           /\ queue' \in Seq({SchemaFile} \cup Resource)
<1>1. disk' \in [Resource -> FileContent]
  BY DEF Inv, TypeOK, WriteDisk
<1> QED
  BY <1>1, NotifyType DEF WriteDisk

\* A step that changes the file of r, and nothing else in the store.
LEMMA DiskStep ==
    ASSUME Inv, NEW r \in Resource, NEW content \in FileContent, WriteDisk(r, content),
           UNCHANGED <<schemaFile, resources, cache, schema, ready>>
    PROVE  SchemaKeeps /\ StoreKeeps
<1>1. SchemaKeeps
  BY SameSchema
<1> QED
  BY <1>1, WriteDiskType, SameCache DEF StoreKeeps, Inv, TypeOK

\* A step that changes the cache, to what the lemmas above allow.
LEMMA CacheStep ==
    ASSUME Inv, UNCHANGED <<disk, schemaFile, resources, schema, ready, queue>>,
           cache' \in [Resource -> {NoEntry} \cup Entry], CacheInv(cache', schema')
    PROVE  SchemaKeeps /\ StoreKeeps
<1>1. SchemaKeeps
  BY SameSchema
<1> QED
  BY <1>1 DEF StoreKeeps, Inv, TypeOK

\* A step that changes the schema store, to one that keeps what is certified.
LEMMA SchemaStep ==
    ASSUME Inv, SchemaKeeps, UNCHANGED <<disk, schemaFile, resources, cache, ready, queue>>
    PROVE  StoreKeeps
  BY SameCache DEF StoreKeeps, Inv, TypeOK

\* Inference changes no declared table.
LEMMA InferredKeeps ==
    ASSUME Inv, NEW inferred \in Tables, schema' = ReplaceInferred(schema, inferred)
    PROVE  SchemaKeeps
<1>1. schema \in Store
  BY DEF Inv, TypeOK
<1>2. /\ schema' \in Store
      /\ schema'.declared = schema.declared /\ schema'.revisions = schema.revisions
      /\ schema'.nextRevision = schema.nextRevision
  BY <1>1, ReplaceInferredType
<1> QED
  BY <1>2 DEF SchemaKeeps, Inv, RevisionsHandedOut, Certified

\* A new overlay gives the tables it changes new revisions.
LEMMA DeclaredKeeps ==
    ASSUME Inv, NEW overlay \in Overlay, schema' = ReplaceDeclared(schema, overlay)
    PROVE  SchemaKeeps
<1>1. schema \in Store /\ RevisionsHandedOut(schema)
  BY DEF Inv, TypeOK
<1>2. schema' \in Store /\ RevisionsHandedOut(schema')
  BY <1>1, ReplaceDeclaredType
<1>3. ASSUME NEW r \in Resource, NEW value, NEW rev, Certified(schema, r, value, rev)
      PROVE  Certified(schema', r, value, rev)
  BY <1>1, <1>3, ReplaceDeclaredKeepsCertified
<1> QED
  BY <1>2, <1>3 DEF SchemaKeeps

-----------------------------------------------------------------------------
(***************************************************************************)
(* Steps of a handler that change the store as well.                       *)
(***************************************************************************)

\* Mark: what was admitted goes into the cache with its revision.
LEMMA MarkKeeps ==
    ASSUME Inv, NEW t \in Task, Mark(t)
    PROVE  SchemaKeeps /\ StoreKeeps /\ TaskMoves(t)
<1>1. /\ task[t].pc = "mark" /\ task[t] \in TaskState /\ Res(t) \in Resource
      /\ UNCHANGED <<disk, schemaFile, resources, schema, ready, queue>>
  BY TaskFacts DEF Mark, At
<1>2. /\ task[t].arc \in Arc /\ task[t].value \in Snapshot
      /\ task[t].rev \in {Unvalidated} \cup Nat /\ Op(t) \in DataOps
  BY <1>1, TaskFacts
  DEF TaskInv, HasSnapshot, NeedsSnapshot, Allowed, LoadPC, TaskState, Op
<1>3. Certified(schema, Res(t), task[t].value, task[t].rev)
  <2>1. CASE task[t].value = NoValue
    BY <1>1, <1>2, <2>1, TaskFacts, NoValueAssumption
  <2>2. CASE task[t].value # NoValue
    BY <1>1, <2>2, TaskFacts DEF TaskInv, CarriesCertified, CertifiedPC, Res
  <2> QED
    BY <2>1, <2>2
<1>4. cache' \in [Resource -> {NoEntry} \cup Entry] /\ CacheInv(cache', schema')
  <2>1. CASE UNCHANGED cache
    BY <1>1, <2>1, SameSchema, SameCache
  <2>2. CASE cache' = [cache EXCEPT ![Res(t)] = [arc |-> task[t].arc,
                           value |-> task[t].value, rev |-> task[t].rev]]
    BY <1>1, <1>2, <1>3, <2>2, CacheEntry
  <2> QED
    BY <2>1, <2>2 DEF Mark, MarkValidated
<1>5. TaskMoves(t)
  BY <1>1, <1>2, <1>3, LoadedMoves DEF Mark
<1> QED
  BY <1>1, <1>4, <1>5, CacheStep

\* InsertIfAbsent: an unvalidated snapshot, if nothing is cached.
LEMMA InsertIfAbsentKeeps ==
    ASSUME Inv, NEW t \in Task, InsertIfAbsent(t)
    PROVE  SchemaKeeps /\ StoreKeeps /\ TaskMoves(t)
<1>1. /\ task[t].pc = "insert" /\ Res(t) \in Resource /\ Goto(t, "apply")
      /\ UNCHANGED <<disk, schemaFile, resources, schema, ready, queue>>
  BY TaskFacts DEF InsertIfAbsent, At
<1>2. task[t].arc \in Arc /\ task[t].value \in Snapshot /\ Op(t) \in UpdateOps
  BY <1>1, TaskFacts DEF TaskInv, HasSnapshot, NeedsSnapshot, Allowed, UpdatePC, Op
<1>3. cache' \in [Resource -> {NoEntry} \cup Entry] /\ CacheInv(cache', schema')
  <2>1. CASE UNCHANGED cache
    BY <1>1, <2>1, SameSchema, SameCache
  <2>2. CASE cache' = [cache EXCEPT ![Res(t)] = [arc |-> task[t].arc,
                           value |-> task[t].value, rev |-> Unvalidated]]
    BY <1>1, <1>2, <2>2, CacheEntry, UnvalidatedCertified
  <2> QED
    BY <2>1, <2>2 DEF InsertIfAbsent
<1>4. Allowed(Op(t), "apply")
  BY <1>2 DEF Allowed, LoadPC, UpdatePC, SetPC, PutPC, RefreshPC
<1>5. NeedsSnapshot(Op(t), "insert") /\ "apply" \notin CertifiedPC
  BY DEF NeedsSnapshot, CertifiedPC, UpdatePC, RefreshPC
<1>6. "apply" \in PC
  BY PCs DEF UpdatePC
<1>7. SchemaKeeps /\ StoreKeeps
  BY <1>1, <1>3, CacheStep
<1> QED
  BY <1>1, <1>4, <1>5, <1>6, <1>7, GotoMoves

\* The closures return a document of the same form.
LEMMA UpdatedType ==
    ASSUME NEW req \in Request, req.op \in UpdateOps, NEW s \in Snapshot, CanUpdate(req, s)
    PROVE  Updated(req, s) \in Snapshot /\ Position(req, s) \in Id
<1> DEFINE i == Position(req, s)
<1>1. i \in Id /\ req.item \in Item
  BY DEF CanUpdate, Request
<1>2. CASE req.op = "delete_item"
  <2>1. Updated(req, s) = [s EXCEPT ![i] = NoItem]
    BY <1>2 DEF Updated
  <2> QED
    BY <1>1, <2>1 DEF Snapshot
<1>3. CASE req.op \in {"patch_item", "patch_object"}
  <2>1. s[i] \in Item
    <3>1. CASE req.op = "patch_item"
      BY <1>1, <3>1 DEF CanUpdate, Position, ItemOps, ObjectOps, Snapshot
    <3>2. CASE req.op = "patch_object"
      BY <1>1, <3>2 DEF CanUpdate, Position, IsArray, ObjectOps, Snapshot
    <3> QED
      BY <1>3, <3>1, <3>2
  <2>2. Updated(req, s) = [s EXCEPT ![i] = s[i] \cup req.item]
    BY <1>3 DEF Updated
  <2>3. s[i] \cup req.item \in Item
    BY <1>1, <2>1 DEF Item
  <2> QED
    BY <1>1, <2>2, <2>3 DEF Snapshot
<1>4. CASE req.op \notin {"delete_item", "patch_item", "patch_object"}
  <2>1. Updated(req, s) = [s EXCEPT ![i] = req.item]
    BY <1>4 DEF Updated
  <2> QED
    BY <1>1, <2>1 DEF Snapshot
<1> QED
  BY <1>1, <1>2, <1>3, <1>4

\* Apply: the new snapshot is certified with the revision read with the table.
LEMMA ApplyMoves ==
    ASSUME Inv, NEW t \in Task, Apply(t)
    PROVE  TaskMoves(t)
<1>1. task[t].pc = "apply" /\ UNCHANGED schema
  BY DEF Apply, At, storeVars
<1>2. CASE Fail(t)
  BY <1>1, <1>2, FailMoves
<1>3. CASE ~Fail(t)
  <2> DEFINE rev == schema.revisions[Res(t)]
             new == Updated(task[t].req, task[t].value)
             made == Position(task[t].req, task[t].value)
             w == [task[t] EXCEPT !.pc = "readiness", !.value = new, !.arc = FreshArc,
                                  !.rev = rev, !.made = made]
  <2>1. /\ Admits(schema.declared[Res(t)], new) /\ ArcAvailable
        /\ CanUpdate(task[t].req, task[t].value)
        /\ task' = [task EXCEPT ![t] = w]
    BY <1>3 DEF Apply
  <2>2. /\ task[t].req \in Request /\ task[t].req.op \in UpdateOps
        /\ task[t].value \in Snapshot
    BY <1>1, TaskFacts DEF TaskInv, Allowed, HasSnapshot, NeedsSnapshot, UpdatePC
  <2>3. new \in Snapshot /\ made \in Id
    BY <2>1, <2>2, UpdatedType
  <2>4. rev \in Nat /\ rev <= schema.nextRevision /\ FreshArc \in Arc
    BY <1>1, <2>1, TaskFacts, FreshArcType
  <2>5. "readiness" \in PC
    BY PCs DEF UpdatePC
  <2> HIDE DEF new, made
  <2>6. w \in TaskState
    BY <2>3, <2>4, <2>5, TaskFacts DEF TaskState
  <2>7. /\ w.pc = "readiness" /\ w.req = task[t].req /\ w.arc = FreshArc
        /\ w.value = new /\ w.rev = rev
    BY TaskFacts DEF TaskState
  <2> HIDE DEF w
  <2>8. CarriesCertified(w, schema')
    BY <1>1, <2>1, <2>4, <2>7 DEF CarriesCertified, Certified, Res
  <2>9. TaskInv(w, schema')
    BY <2>2, <2>3, <2>4, <2>7, <2>8
    DEF TaskInv, Allowed, HasSnapshot, NeedsSnapshot, DataOps,
        LoadPC, UpdatePC, SetPC, PutPC, RefreshPC
  <2> QED
    BY <2>1, <2>6, <2>9, MovesTo
<1> QED
  BY <1>2, <1>3

\* ReadReadiness: the choice of the inference is made.
LEMMA ReadReadinessMoves ==
    ASSUME Inv, NEW t \in Task, ReadReadiness(t)
    PROVE  TaskMoves(t)
<1> DEFINE w == [task[t] EXCEPT !.pc = "persist", !.local = ready]
<1>1. task[t].pc = "readiness" /\ task' = [task EXCEPT ![t] = w] /\ UNCHANGED schema
  BY DEF ReadReadiness, At, storeVars
<1>2. "persist" \in PC /\ ready \in BOOLEAN
  BY PCs DEF UpdatePC, Inv, TypeOK
<1>3. w \in TaskState
  BY <1>2, TaskFacts DEF TaskState
<1>4. /\ w.pc = "persist" /\ w.req = task[t].req /\ w.arc = task[t].arc
      /\ w.value = task[t].value /\ w.rev = task[t].rev
  BY TaskFacts DEF TaskState
<1> HIDE DEF w
<1>5. TaskInv(w, schema')
  BY <1>1, <1>4, TaskFacts
  DEF TaskInv, Allowed, HasSnapshot, NeedsSnapshot, CarriesCertified, CertifiedPC,
      LoadPC, UpdatePC, SetPC, PutPC, RefreshPC
<1> QED
  BY <1>1, <1>3, <1>5, MovesTo

\* What an updating handler has when it comes to write.
LEMMA WriterFacts ==
    ASSUME Inv, NEW t \in Task, task[t].pc \in UpdatePC
    PROVE  /\ task[t].arc \in Arc /\ task[t].value \in Snapshot
           /\ task[t].rev \in {Unvalidated} \cup Nat
           /\ task[t].pc # "idle" /\ Res(t) \in Resource /\ Op(t) \in UpdateOps
           /\ task[t].pc \in CertifiedPC =>
                  Certified(schema, Res(t), task[t].value, task[t].rev)
<1>1. task[t] \in TaskState /\ TaskInv(task[t], schema) /\ task[t].pc # "idle"
  BY TaskFacts DEF UpdatePC
<1>2. /\ task[t].arc \in Arc /\ task[t].value \in Snapshot
      /\ Res(t) \in Resource /\ Op(t) \in UpdateOps
  BY <1>1, TaskFacts DEF TaskInv, HasSnapshot, NeedsSnapshot, Allowed, Op
<1>3. task[t].rev \in {Unvalidated} \cup Nat
  BY <1>1 DEF TaskState
<1> QED
  BY <1>1, <1>2, <1>3, NoValueAssumption DEF TaskInv, CarriesCertified, Res

\* Persist: the file becomes the snapshot.
LEMMA PersistKeeps ==
    ASSUME Inv, NEW t \in Task, Persist(t)
    PROVE  SchemaKeeps /\ StoreKeeps /\ TaskMoves(t)
<1>1. /\ task[t].pc = "persist" /\ WriteDisk(Res(t), task[t].value) /\ Goto(t, "install")
      /\ UNCHANGED <<schemaFile, resources, cache, schema, ready>>
  BY DEF Persist, At
<1>2. task[t].value \in Snapshot /\ Res(t) \in Resource /\ Op(t) \in UpdateOps
  BY <1>1, WriterFacts DEF UpdatePC
<1>3. SchemaKeeps /\ StoreKeeps
  BY <1>1, <1>2, DiskStep DEF FileContent
<1>4. Allowed(Op(t), "install")
  BY <1>2 DEF Allowed, LoadPC, UpdatePC, SetPC, PutPC, RefreshPC
<1>5. NeedsSnapshot(Op(t), "persist") /\ "persist" \in CertifiedPC /\ "install" \in PC
  BY PCs DEF NeedsSnapshot, CertifiedPC, UpdatePC
<1> QED
  BY <1>1, <1>3, <1>4, <1>5, GotoMoves

\* PersistFails: nothing changed.
LEMMA PersistFailsMoves ==
    ASSUME Inv, NEW t \in Task, PersistFails(t)
    PROVE  TaskMoves(t)
  BY FailMoves DEF PersistFails, At

\* SyncFails: the file changed, the handler gives up.
LEMMA SyncFailsKeeps ==
    ASSUME Inv, NEW t \in Task, SyncFails(t)
    PROVE  SchemaKeeps /\ StoreKeeps /\ TaskMoves(t)
<1>1. /\ task[t].pc \in {"persist", "fill", "remove"} /\ Fail(t) /\ Res(t) \in Resource
      /\ UNCHANGED <<schemaFile, resources, cache, schema, ready>>
  BY TaskFacts DEF SyncFails, At
<1>2. PICK content \in FileContent : WriteDisk(Res(t), content)
  <2>1. task[t].pc = "persist" => task[t].value \in FileContent
    BY WriterFacts DEF UpdatePC, FileContent
  <2>2. Absent \in FileContent
    BY DEF FileContent
  <2>3. task[t].pc = "fill" => task[t].req.doc \in FileContent
    BY TaskFacts DEF Request, FileContent
  <2> QED
    BY <2>1, <2>2, <2>3 DEF SyncFails, At
<1>3. SchemaKeeps /\ StoreKeeps
  BY <1>1, <1>2, DiskStep
<1> QED
  BY <1>1, <1>3, FailMoves

\* InstallInCache: the new snapshot, not to be trusted yet.
LEMMA InstallInCacheKeeps ==
    ASSUME Inv, NEW t \in Task, InstallInCache(t)
    PROVE  SchemaKeeps /\ StoreKeeps /\ TaskMoves(t)
<1> DEFINE pc == IF task[t].local THEN "infer" ELSE "snapshot"
<1>1. /\ task[t].pc = "install" /\ Goto(t, pc)
      /\ UNCHANGED <<disk, schemaFile, resources, schema, ready, queue>>
      /\ cache' = [cache EXCEPT ![Res(t)] = [arc |-> task[t].arc,
                        value |-> task[t].value, rev |-> Unvalidated]]
  BY DEF InstallInCache, At, UpdateCached
<1>2. /\ task[t].arc \in Arc /\ task[t].value \in Snapshot
      /\ Res(t) \in Resource /\ Op(t) \in UpdateOps
  BY <1>1, WriterFacts DEF UpdatePC
<1>3. cache' \in [Resource -> {NoEntry} \cup Entry] /\ CacheInv(cache', schema')
  BY <1>1, <1>2, CacheEntry, UnvalidatedCertified
<1>4. SchemaKeeps /\ StoreKeeps
  BY <1>1, <1>3, CacheStep
<1>5. Allowed(Op(t), pc)
  BY <1>2 DEF Allowed, LoadPC, UpdatePC, SetPC, PutPC, RefreshPC
<1>6. NeedsSnapshot(Op(t), "install") /\ "install" \in CertifiedPC /\ pc \in PC /\ pc # "idle"
  BY PCs DEF NeedsSnapshot, CertifiedPC, UpdatePC, RefreshPC
<1> HIDE DEF pc
<1> QED
  BY <1>1, <1>4, <1>5, <1>6, GotoMoves

\* Installing inferred tables, whether or not they can be merged.
LEMMA InstallInferredKeeps ==
    ASSUME Inv, NEW t \in Task, NEW inferred \in Tables, NEW next \in PC, next # "idle",
           InstallInferred(t, inferred, next), task[t].pc \in CertifiedPC,
           Allowed(Op(t), next), task[t].pc # "idle",
           NeedsSnapshot(Op(t), next) => NeedsSnapshot(Op(t), task[t].pc),
           UNCHANGED <<disk, schemaFile, resources, cache, ready, queue>>
    PROVE  SchemaKeeps /\ StoreKeeps /\ TaskMoves(t)
<1>1. SchemaKeeps
  BY InferredKeeps DEF InstallInferred
<1>2. StoreKeeps
  BY <1>1, SchemaStep
<1>3. Fail(t) \/ Goto(t, next)
  BY DEF InstallInferred
<1> QED
  BY <1>1, <1>2, <1>3, FailMoves, GotoMoves

\* InferLocally: one table is new.
LEMMA InferLocallyKeeps ==
    ASSUME Inv, NEW t \in Task, InferLocally(t)
    PROVE  SchemaKeeps /\ StoreKeeps /\ TaskMoves(t)
<1> DEFINE inferred == [schema.inferred EXCEPT ![Res(t)] = InferTable(task[t].value)]
<1>1. /\ task[t].pc = "infer" /\ InstallInferred(t, inferred, "certify")
      /\ UNCHANGED <<disk, schemaFile, resources, cache, ready, queue>>
  BY DEF InferLocally, At
<1>2. task[t].value \in Snapshot /\ Res(t) \in Resource /\ Op(t) \in UpdateOps
  BY <1>1, WriterFacts DEF UpdatePC
<1>3. InferTable(task[t].value) \in {NoTable} \cup SUBSET Column
  BY <1>2, InferTableType
<1>4. schema.inferred \in Tables
  BY DEF Inv, TypeOK, Store
<1>5. inferred \in Tables
  BY <1>2, <1>3, <1>4 DEF Tables
<1> HIDE DEF inferred
<1>6. Allowed(Op(t), "certify")
  BY <1>2 DEF Allowed, LoadPC, UpdatePC, SetPC, PutPC, RefreshPC
<1>7. NeedsSnapshot(Op(t), "infer") /\ "infer" \in CertifiedPC /\ "certify" \in PC
  BY PCs DEF NeedsSnapshot, CertifiedPC, UpdatePC
<1> QED
  BY <1>1, <1>5, <1>6, <1>7, InstallInferredKeeps

\* Certify: the snapshot just written goes into the cache with its revision.
LEMMA CertifyKeeps ==
    ASSUME Inv, NEW t \in Task, Certify(t)
    PROVE  SchemaKeeps /\ StoreKeeps /\ TaskMoves(t)
<1>1. /\ task[t].pc = "certify" /\ Succeed(t) /\ "certify" \in CertifiedPC
      /\ UNCHANGED <<disk, schemaFile, resources, schema, ready, queue>>
  BY DEF Certify, At, CertifiedPC
<1>2. /\ task[t].arc \in Arc /\ task[t].value \in Snapshot
      /\ task[t].rev \in {Unvalidated} \cup Nat /\ Res(t) \in Resource
      /\ Certified(schema, Res(t), task[t].value, task[t].rev)
  BY <1>1, WriterFacts DEF UpdatePC
<1>3. cache' \in [Resource -> {NoEntry} \cup Entry] /\ CacheInv(cache', schema')
  <2>1. CASE UNCHANGED cache
    BY <1>1, <2>1, SameSchema, SameCache
  <2>2. CASE cache' = [cache EXCEPT ![Res(t)] = [arc |-> task[t].arc,
                           value |-> task[t].value, rev |-> task[t].rev]]
    BY <1>1, <1>2, <2>2, CacheEntry
  <2> QED
    BY <2>1, <2>2 DEF Certify, MarkValidated
<1> QED
  BY <1>1, <1>3, CacheStep, SucceedMoves

\* SnapshotResources: nothing is scanned yet.
LEMMA SnapshotResourcesMoves ==
    ASSUME Inv, NEW t \in Task, SnapshotResources(t)
    PROVE  TaskMoves(t)
<1> DEFINE w == [task[t] EXCEPT !.pc = "scan", !.todo = resources, !.tables = NoTables]
<1>1. task[t].pc = "snapshot" /\ task' = [task EXCEPT ![t] = w] /\ UNCHANGED schema
  BY DEF SnapshotResources, At, storeVars
<1>2. "scan" \in PC /\ resources \in SUBSET Resource /\ NoTables \in Tables
  BY PCs DEF RefreshPC, Inv, TypeOK, NoTables, Tables
<1>3. w \in TaskState
  BY <1>2, TaskFacts DEF TaskState
<1>4. /\ w.pc = "scan" /\ w.req = task[t].req /\ w.arc = task[t].arc
      /\ w.value = task[t].value /\ w.rev = task[t].rev
  BY TaskFacts DEF TaskState
<1> HIDE DEF w
<1>5. TaskInv(w, schema')
  BY <1>1, <1>4, TaskFacts
  DEF TaskInv, Allowed, HasSnapshot, NeedsSnapshot, CarriesCertified, CertifiedPC,
      LoadPC, UpdatePC, SetPC, PutPC, RefreshPC
<1> QED
  BY <1>1, <1>3, <1>5, MovesTo

\* ScanFile: one more table, or a file that does not parse.
LEMMA ScanFileMoves ==
    ASSUME Inv, NEW t \in Task, ScanFile(t)
    PROVE  TaskMoves(t)
<1>1. task[t].pc = "scan" /\ UNCHANGED schema
  BY DEF ScanFile, At, storeVars
<1>2. CASE Fail(t)
  BY <1>1, <1>2, FailMoves
<1>3. CASE ~Fail(t)
  <2>1. PICK r \in task[t].todo :
            /\ disk[r] \in Snapshot
            /\ task' = [task EXCEPT ![t].todo = @ \ {r},
                                    ![t].tables[r] = InferTable(disk[r])]
    BY <1>3 DEF ScanFile
  <2> DEFINE todo == task[t].todo \ {r}
             tables == [task[t].tables EXCEPT ![r] = InferTable(disk[r])]
             w == [task[t] EXCEPT !.todo = todo, !.tables = tables]
  <2>2. task[t].todo \in SUBSET Resource /\ task[t].tables \in Tables
    BY TaskFacts DEF TaskState
  <2>3. InferTable(disk[r]) \in {NoTable} \cup SUBSET Column
    BY <2>1, InferTableType
  <2>4. todo \in SUBSET Resource /\ tables \in Tables
    BY <2>2, <2>3 DEF Tables
  <2>5. task' = [task EXCEPT ![t] = w]
    BY <2>1
  <2> HIDE DEF todo, tables
  <2>6. w \in TaskState
    <3>1. task[t] \in TaskState
      BY TaskFacts
    <3> QED
      BY <2>4, <3>1, Zenon DEF TaskState
  <2>7. /\ w.pc = task[t].pc /\ w.req = task[t].req /\ w.arc = task[t].arc
        /\ w.value = task[t].value /\ w.rev = task[t].rev
    BY TaskFacts DEF TaskState
  <2> HIDE DEF w
  <2>8. TaskInv(w, schema')
    BY <1>1, <2>7, TaskFacts DEF TaskInv, HasSnapshot, CarriesCertified
  <2> QED
    BY <2>5, <2>6, <2>8, MovesTo
<1> QED
  BY <1>2, <1>3

\* What a refreshing handler may be about.
LEMMA RefresherFacts ==
    ASSUME Inv, NEW t \in Task, task[t].pc \in RefreshPC
    PROVE  /\ task[t].pc # "idle" /\ task[t].pc \in CertifiedPC
           /\ Op(t) \in UpdateOps \cup SetOps
           /\ task[t].tables \in Tables
  BY TaskFacts DEF RefreshPC, CertifiedPC, TaskInv, Allowed, Op, TaskState

\* InstallRefreshed: all tables are new.
LEMMA InstallRefreshedKeeps ==
    ASSUME Inv, NEW t \in Task, InstallRefreshed(t)
    PROVE  SchemaKeeps /\ StoreKeeps /\ TaskMoves(t)
<1>1. /\ task[t].pc = "scan" /\ InstallInferred(t, task[t].tables, "mark_ready")
      /\ UNCHANGED <<disk, schemaFile, resources, cache, ready, queue>>
  BY DEF InstallRefreshed, At
<1>2. /\ Op(t) \in UpdateOps \cup SetOps /\ task[t].tables \in Tables
      /\ task[t].pc \in CertifiedPC
  BY <1>1, RefresherFacts DEF RefreshPC
<1>3. Allowed(Op(t), "mark_ready") /\ "mark_ready" \in PC
  BY <1>2, PCs DEF Allowed, LoadPC, UpdatePC, SetPC, PutPC, RefreshPC
<1>4. NeedsSnapshot(Op(t), "mark_ready") => NeedsSnapshot(Op(t), "scan")
  BY DEF NeedsSnapshot, UpdatePC, RefreshPC
<1> QED
  BY <1>1, <1>2, <1>3, <1>4, InstallInferredKeeps

\* A step that only sets the readiness flag, or the resource set.
LEMMA FlagStep ==
    ASSUME Inv, ready' \in BOOLEAN, resources' \subseteq Resource,
           UNCHANGED <<disk, schemaFile, cache, schema, queue>>
    PROVE  SchemaKeeps /\ StoreKeeps
<1>1. SchemaKeeps
  BY SameSchema
<1> QED
  BY <1>1, SameCache DEF StoreKeeps, Inv, TypeOK

\* MarkReady: an update goes on to certify, a set change to announce.
LEMMA MarkReadyKeeps ==
    ASSUME Inv, NEW t \in Task, MarkReady(t)
    PROVE  SchemaKeeps /\ StoreKeeps /\ TaskMoves(t)
<1> DEFINE pc == IF Op(t) \in UpdateOps THEN "certify" ELSE "announce"
<1>1. /\ task[t].pc = "mark_ready" /\ ready' = TRUE /\ Goto(t, pc)
      /\ UNCHANGED <<disk, schemaFile, resources, cache, schema, queue>>
  BY DEF MarkReady, At
<1>2. Op(t) \in UpdateOps \cup SetOps /\ task[t].pc \in CertifiedPC
  BY <1>1, RefresherFacts DEF RefreshPC
<1>3. SchemaKeeps /\ StoreKeeps
  BY <1>1, FlagStep DEF Inv, TypeOK
<1>4. Allowed(Op(t), pc)
  BY <1>2 DEF Allowed, LoadPC, UpdatePC, SetPC, PutPC, RefreshPC
<1>5. NeedsSnapshot(Op(t), pc) => NeedsSnapshot(Op(t), "mark_ready")
  BY DEF NeedsSnapshot, UpdatePC, RefreshPC
<1>6. pc \in PC /\ pc # "idle"
  BY PCs DEF UpdatePC
<1> HIDE DEF pc
<1> QED
  BY <1>1, <1>2, <1>3, <1>4, <1>5, <1>6, GotoMoves

\* Announce: the answer to a set change or to PUT /schema.
LEMMA AnnounceKeeps ==
    ASSUME Inv, NEW t \in Task, Announce(t)
    PROVE  SchemaKeeps /\ StoreKeeps /\ TaskMoves(t)
<1>1. /\ task[t].pc = "announce" /\ ready' = TRUE /\ Succeed(t)
      /\ UNCHANGED <<disk, schemaFile, resources, cache, schema, queue>>
  BY DEF Announce, At
<1>2. SchemaKeeps /\ StoreKeeps
  BY <1>1, FlagStep DEF Inv, TypeOK
<1>3. TaskMoves(t)
  BY <1>1, SucceedMoves DEF CertifiedPC
<1> QED
  BY <1>2, <1>3

-----------------------------------------------------------------------------
(***************************************************************************)
(* Resource set and PUT /schema: these handlers carry no snapshot.         *)
(***************************************************************************)

\* Going on, for a handler that carries none.
LEMMA EmptyHandedMoves ==
    ASSUME Inv, SchemaKeeps, NEW t \in Task, task[t].pc \in SetPC \cup PutPC,
           NEW pc \in SetPC \cup PutPC \cup {"acquire", "snapshot", "announce"},
           pc \in SetPC \cup {"acquire", "snapshot"} => task[t].pc \in SetPC,
           pc \in PutPC => task[t].pc \in PutPC,
           Goto(t, pc)
    PROVE  TaskMoves(t)
<1>1. /\ task[t].pc \in SetPC => Op(t) \in SetOps
      /\ task[t].pc \in PutPC => Op(t) = "put_schema"
  BY TaskFacts DEF TaskInv, Allowed, Op
<1>2. Op(t) \notin DataOps
  BY <1>1 DEF DataOps, ReadOps, UpdateOps, ItemOps, ObjectOps, SetOps
<1>3. /\ pc \in SetPC \cup {"acquire", "snapshot"} => Op(t) \in SetOps
      /\ pc \in PutPC => Op(t) = "put_schema"
      /\ pc = "announce" => Op(t) \in SetOps \cup {"put_schema"}
  BY <1>1
<1>4. Allowed(Op(t), pc)
  BY <1>3 DEF Allowed, LoadPC, UpdatePC, SetPC, PutPC, RefreshPC
<1>5. ~NeedsSnapshot(Op(t), pc)
  BY <1>2 DEF NeedsSnapshot, DataOps, UpdatePC, SetPC, PutPC
<1>6. task[t].pc # "idle" /\ pc # "idle" /\ pc \in PC
  BY PCs DEF SetPC, PutPC, RefreshPC
<1> QED
  BY <1>2, <1>4, <1>5, <1>6, GotoMoves

\* ValidateInitial: on to the lock, or rejected.
LEMMA ValidateInitialMoves ==
    ASSUME Inv, NEW t \in Task, ValidateInitial(t)
    PROVE  TaskMoves(t)
<1>1. /\ task[t].pc = "validate" /\ (Fail(t) \/ Goto(t, "acquire")) /\ SchemaKeeps
  BY SameStore DEF ValidateInitial, At
<1> QED
  BY <1>1, FailMoves, EmptyHandedMoves DEF SetPC, PutPC

\* CreateFile: an empty file, or a conflict.
LEMMA CreateFileKeeps ==
    ASSUME Inv, NEW t \in Task, CreateFile(t)
    PROVE  SchemaKeeps /\ StoreKeeps /\ TaskMoves(t)
<1>1. /\ task[t].pc = "create" /\ Res(t) \in Resource
      /\ UNCHANGED <<schemaFile, resources, cache, schema, ready>>
  BY TaskFacts DEF CreateFile, At
<1>2. CASE WriteDisk(Res(t), Garbage) /\ Goto(t, "fill")
  <2>1. SchemaKeeps /\ StoreKeeps
    BY <1>1, <1>2, DiskStep DEF FileContent
  <2> QED
    BY <1>1, <1>2, <2>1, EmptyHandedMoves DEF SetPC, PutPC
<1>3. CASE UNCHANGED <<disk, queue>> /\ Fail(t)
  <2>1. UNCHANGED storeVars
    BY <1>1, <1>3 DEF storeVars
  <2> QED
    BY <1>1, <1>3, <2>1, SameStore, FailMoves
<1> QED
  BY <1>2, <1>3 DEF CreateFile

\* FillFile: the initial document.
LEMMA FillFileKeeps ==
    ASSUME Inv, NEW t \in Task, FillFile(t)
    PROVE  SchemaKeeps /\ StoreKeeps /\ TaskMoves(t)
<1>1. /\ task[t].pc = "fill" /\ Res(t) \in Resource
      /\ task[t].req.doc \in FileContent
      /\ WriteDisk(Res(t), task[t].req.doc) /\ Goto(t, "register")
      /\ UNCHANGED <<schemaFile, resources, cache, schema, ready>>
  BY TaskFacts DEF FillFile, At, Request, FileContent
<1>2. SchemaKeeps /\ StoreKeeps
  BY <1>1, DiskStep
<1> QED
  BY <1>1, <1>2, EmptyHandedMoves DEF SetPC, PutPC

\* FillFails: the torn file stays.
LEMMA FillFailsMoves ==
    ASSUME Inv, NEW t \in Task, FillFails(t)
    PROVE  TaskMoves(t)
  BY FailMoves DEF FillFails, At

\* Register: one more name.
LEMMA RegisterKeeps ==
    ASSUME Inv, NEW t \in Task, Register(t)
    PROVE  SchemaKeeps /\ StoreKeeps /\ TaskMoves(t)
<1>1. /\ task[t].pc = "register" /\ Res(t) \in Resource /\ Goto(t, "cache_new")
      /\ resources' = resources \cup {Res(t)}
      /\ UNCHANGED <<disk, schemaFile, cache, schema, ready, queue>>
  BY TaskFacts DEF Register, At
<1>2. SchemaKeeps /\ StoreKeeps
  BY <1>1, FlagStep DEF Inv, TypeOK
<1> QED
  BY <1>1, <1>2, EmptyHandedMoves DEF SetPC, PutPC

\* CacheNew: the initial document, not to be trusted yet.
LEMMA CacheNewKeeps ==
    ASSUME Inv, NEW t \in Task, CacheNew(t)
    PROVE  SchemaKeeps /\ StoreKeeps /\ TaskMoves(t)
<1>1. /\ task[t].pc = "cache_new" /\ Goto(t, "snapshot") /\ FreshArc \in Arc
      /\ UNCHANGED <<disk, schemaFile, resources, schema, ready, queue>>
      /\ cache' = [cache EXCEPT ![Res(t)] = [arc |-> FreshArc,
                        value |-> task[t].req.doc, rev |-> Unvalidated]]
  BY FreshArcType DEF CacheNew, At, UpdateCached
<1>2. Res(t) \in Resource /\ task[t].req.doc \in Snapshot
  BY <1>1, TaskFacts DEF Request
<1>3. cache' \in [Resource -> {NoEntry} \cup Entry] /\ CacheInv(cache', schema')
  BY <1>1, <1>2, CacheEntry, UnvalidatedCertified
<1>4. SchemaKeeps /\ StoreKeeps
  BY <1>1, <1>3, CacheStep
<1> QED
  BY <1>1, <1>4, EmptyHandedMoves DEF SetPC, PutPC

\* RemoveFile: the file is gone, or was not there.
LEMMA RemoveFileKeeps ==
    ASSUME Inv, NEW t \in Task, RemoveFile(t)
    PROVE  SchemaKeeps /\ StoreKeeps /\ TaskMoves(t)
<1>1. /\ task[t].pc = "remove" /\ Res(t) \in Resource
      /\ UNCHANGED <<schemaFile, resources, cache, schema, ready>>
  BY TaskFacts DEF RemoveFile, At
<1>2. CASE WriteDisk(Res(t), Absent) /\ Goto(t, "unregister")
  <2>1. SchemaKeeps /\ StoreKeeps
    BY <1>1, <1>2, DiskStep DEF FileContent
  <2> QED
    BY <1>1, <1>2, <2>1, EmptyHandedMoves DEF SetPC, PutPC
<1>3. CASE UNCHANGED <<disk, queue>> /\ Fail(t)
  <2>1. UNCHANGED storeVars
    BY <1>1, <1>3 DEF storeVars
  <2> QED
    BY <1>1, <1>3, <2>1, SameStore, FailMoves
<1> QED
  BY <1>2, <1>3 DEF RemoveFile

\* Unregister: one name less.
LEMMA UnregisterKeeps ==
    ASSUME Inv, NEW t \in Task, Unregister(t)
    PROVE  SchemaKeeps /\ StoreKeeps /\ TaskMoves(t)
<1>1. /\ task[t].pc = "unregister" /\ Goto(t, "uncache")
      /\ resources' = resources \ {Res(t)}
      /\ UNCHANGED <<disk, schemaFile, cache, schema, ready, queue>>
  BY DEF Unregister, At
<1>2. SchemaKeeps /\ StoreKeeps
  BY <1>1, FlagStep DEF Inv, TypeOK
<1> QED
  BY <1>1, <1>2, EmptyHandedMoves DEF SetPC, PutPC

\* Uncache: no entry is certified.
LEMMA UncacheKeeps ==
    ASSUME Inv, NEW t \in Task, Uncache(t)
    PROVE  SchemaKeeps /\ StoreKeeps /\ TaskMoves(t)
<1>1. /\ task[t].pc = "uncache" /\ Res(t) \in Resource /\ Goto(t, "snapshot")
      /\ cache' = [cache EXCEPT ![Res(t)] = NoEntry]
      /\ UNCHANGED <<disk, schemaFile, resources, schema, ready, queue>>
  BY TaskFacts DEF Uncache, At
<1>2. SchemaKeeps /\ StoreKeeps
  BY <1>1, CacheDropped, CacheStep
<1> QED
  BY <1>1, <1>2, EmptyHandedMoves DEF SetPC, PutPC

\* CheckMerge: on to the file, or rejected.
LEMMA CheckMergeMoves ==
    ASSUME Inv, NEW t \in Task, CheckMerge(t)
    PROVE  TaskMoves(t)
<1>1. task[t].pc = "merge" /\ (Fail(t) \/ Goto(t, "truncate")) /\ SchemaKeeps
  BY SameStore DEF CheckMerge, At
<1> QED
  BY <1>1, FailMoves, EmptyHandedMoves DEF SetPC, PutPC

\* WriteSchemaFile: empty, then filled.
LEMMA WriteSchemaFileKeeps ==
    ASSUME Inv, NEW t \in Task, WriteSchemaFile(t)
    PROVE  SchemaKeeps /\ StoreKeeps /\ TaskMoves(t)
<1>1. /\ UNCHANGED <<disk, resources, cache, schema, ready>> /\ Notify(SchemaFile)
      /\ \/ task[t].pc = "truncate" /\ schemaFile' = Garbage /\ Goto(t, "write_schema")
         \/ /\ task[t].pc = "write_schema" /\ schemaFile' = task[t].req.overlay
            /\ Goto(t, "adopt")
  BY DEF WriteSchemaFile, At
<1>2. schemaFile' \in SchemaContent
  BY <1>1, TaskFacts DEF SchemaContent, Request
<1>3. SchemaKeeps
  BY <1>1, SameSchema
<1>4. StoreKeeps
  BY <1>1, <1>2, <1>3, SameCache, NotifyType DEF StoreKeeps, Inv, TypeOK
<1> QED
  BY <1>1, <1>3, <1>4, EmptyHandedMoves DEF SetPC, PutPC

\* WriteSchemaFails: whatever is in the file by then stays.
LEMMA WriteSchemaFailsMoves ==
    ASSUME Inv, NEW t \in Task, WriteSchemaFails(t)
    PROVE  TaskMoves(t)
<1>1. task[t].pc # "idle" /\ Fail(t) /\ UNCHANGED storeVars
  BY DEF WriteSchemaFails, At
<1> QED
  BY <1>1, FailMoves

\* AdoptDeclared: the overlay replaces the declared schema, or is rejected.
LEMMA AdoptDeclaredKeeps ==
    ASSUME Inv, NEW t \in Task, AdoptDeclared(t)
    PROVE  SchemaKeeps /\ StoreKeeps /\ TaskMoves(t)
<1>1. /\ task[t].pc = "adopt" /\ task[t].req.overlay \in Overlay
      /\ UNCHANGED <<disk, schemaFile, resources, cache, ready, queue>>
  BY TaskFacts DEF AdoptDeclared, At, Request
<1>2. CASE /\ schema' = ReplaceDeclared(schema, task[t].req.overlay)
           /\ Goto(t, "announce")
  <2>1. SchemaKeeps
    BY <1>1, <1>2, DeclaredKeeps
  <2> QED
    BY <1>1, <1>2, <2>1, SchemaStep, EmptyHandedMoves DEF SetPC, PutPC
<1>3. CASE UNCHANGED schema /\ Fail(t)
  BY <1>1, <1>3, SameSchema, SchemaStep, FailMoves
<1> QED
  BY <1>2, <1>3 DEF AdoptDeclared

-----------------------------------------------------------------------------
(***************************************************************************)
(* The watcher.                                                            *)
(***************************************************************************)

WatcherMoves == watcher' \in WatcherState /\ WatcherInv' /\ UNCHANGED task

\* What is known of the watcher.
LEMMA WatcherFacts ==
    ASSUME Inv
    PROVE  watcher \in WatcherState /\ WatcherInv
  BY DEF Inv, TypeOK

\* The end of an event.
LEMMA WaitingWatcherType == WaitingWatcher \in WatcherState
<1>1. NoTables \in Tables /\ "waiting" \in WatcherPC
  BY DEF NoTables, Tables, WatcherPC
<1> QED
  BY <1>1 DEF WaitingWatcher, WatcherState

\* The watcher is done with the event.
LEMMA EndMoves ==
    ASSUME Inv, EndOfEvent, UNCHANGED task
    PROVE  WatcherMoves
<1>1. watcher' = WaitingWatcher /\ watcher'.pc = "waiting"
  BY DEF EndOfEvent, WaitingWatcher
<1> QED
  BY <1>1, WaitingWatcherType DEF WatcherMoves, WatcherInv

\* The watcher only goes on.
LEMMA WatcherGotoMoves ==
    ASSUME Inv, NEW pc \in WatcherPC, WatcherGoto(pc), UNCHANGED task,
           watcher.pc # "waiting", pc # "replace",
           pc \in {"exists", "read", "evict"} => watcher.path # SchemaFile
    PROVE  WatcherMoves
<1> DEFINE w == [watcher EXCEPT !.pc = pc]
<1>1. watcher \in WatcherState /\ WatcherInv /\ watcher' = w
  BY WatcherFacts DEF WatcherGoto
<1>2. w \in WatcherState
  BY <1>1 DEF WatcherState
<1>3. w.pc = pc /\ w.path = watcher.path
  BY <1>1 DEF WatcherState
<1> HIDE DEF w
<1> QED
  BY <1>1, <1>2, <1>3 DEF WatcherMoves, WatcherInv

\* Steps that leave all of the store alone.
LEMMA WatcherSameStore ==
    ASSUME Inv, UNCHANGED requestVars
    PROVE  SchemaKeeps /\ StoreKeeps /\ UNCHANGED task
  BY SameStore DEF requestVars, storeVars

\* TakeEvent: the first path of the queue, and what the folder holds.
LEMMA TakeEventKeeps ==
    ASSUME Inv, TakeEvent
    PROVE  SchemaKeeps /\ StoreKeeps /\ WatcherMoves
<1> DEFINE found == {r \in Resource : disk[r] # Absent}
           w == [watcher EXCEPT !.pc = "compare", !.path = Head(queue), !.found = found]
<1>1. /\ watcher' = w /\ queue # <<>> /\ queue' = Tail(queue)
      /\ UNCHANGED <<disk, schemaFile, resources, cache, schema, ready, task>>
  BY DEF TakeEvent, TakesEvent
<1>2. queue \in Seq({SchemaFile} \cup Resource) /\ watcher \in WatcherState
  BY DEF Inv, TypeOK
<1>3. Head(queue) \in {SchemaFile} \cup Resource /\ queue' \in Seq({SchemaFile} \cup Resource)
  BY <1>1, <1>2, HeadTailProperties
<1>4. "compare" \in WatcherPC /\ found \in SUBSET Resource
  BY DEF WatcherPC
<1> HIDE DEF found
<1>5. w \in WatcherState
  BY <1>2, <1>3, <1>4 DEF WatcherState
<1>6. w.pc = "compare" /\ w.path \in {SchemaFile} \cup Resource
  BY <1>2, <1>3 DEF WatcherState
<1> HIDE DEF w
<1>7. WatcherMoves
  BY <1>1, <1>5, <1>6 DEF WatcherMoves, WatcherInv
<1>8. SchemaKeeps
  BY <1>1, SameSchema
<1> QED
  BY <1>1, <1>3, <1>7, <1>8, SameCache DEF StoreKeeps, Inv, TypeOK

\* ListFails: the path alone.
LEMMA ListFailsKeeps ==
    ASSUME Inv, ListFails
    PROVE  SchemaKeeps /\ StoreKeeps /\ WatcherMoves
<1> DEFINE w == [watcher EXCEPT !.pc = "unlisted", !.path = Head(queue)]
<1>1. /\ watcher' = w /\ queue # <<>> /\ queue' = Tail(queue)
      /\ UNCHANGED <<disk, schemaFile, resources, cache, schema, ready, task>>
  BY DEF ListFails, TakesEvent
<1>2. queue \in Seq({SchemaFile} \cup Resource) /\ watcher \in WatcherState
  BY DEF Inv, TypeOK
<1>3. Head(queue) \in {SchemaFile} \cup Resource /\ queue' \in Seq({SchemaFile} \cup Resource)
  BY <1>1, <1>2, HeadTailProperties
<1>4. "unlisted" \in WatcherPC
  BY DEF WatcherPC
<1>5. w \in WatcherState
  BY <1>2, <1>3, <1>4 DEF WatcherState
<1>6. w.pc = "unlisted" /\ w.path \in {SchemaFile} \cup Resource
  BY <1>2, <1>3 DEF WatcherState
<1> HIDE DEF w
<1>7. WatcherMoves
  BY <1>1, <1>5, <1>6 DEF WatcherMoves, WatcherInv
<1>8. SchemaKeeps
  BY <1>1, SameSchema
<1> QED
  BY <1>1, <1>3, <1>7, <1>8, SameCache DEF StoreKeeps, Inv, TypeOK

\* ReadPrevious: the resources served so far.
LEMMA ReadPreviousKeeps ==
    ASSUME Inv, ReadPrevious
    PROVE  SchemaKeeps /\ StoreKeeps /\ WatcherMoves
<1> DEFINE pc == IF SchemaTouched THEN "load" ELSE "publish"
           w == [watcher EXCEPT !.pc = pc, !.previous = resources]
<1>1. watcher.pc = "compare" /\ watcher' = w /\ UNCHANGED requestVars
  BY DEF ReadPrevious, WatcherAt
<1>2. pc \in WatcherPC /\ pc \in {"load", "publish"} /\ resources \in SUBSET Resource
  BY DEF WatcherPC, Inv, TypeOK
<1> HIDE DEF pc
<1>3. w \in WatcherState
  BY <1>2, WatcherFacts DEF WatcherState
<1>4. w.pc = pc /\ w.path = watcher.path
  BY WatcherFacts DEF WatcherState
<1> HIDE DEF w
<1>5. WatcherMoves
  BY <1>1, <1>2, <1>3, <1>4, WatcherFacts, WatcherSameStore DEF WatcherMoves, WatcherInv
<1> QED
  BY <1>1, <1>5, WatcherSameStore

\* LoadSchema: the overlay of the schema file, or a failure.
LEMMA LoadSchemaKeeps ==
    ASSUME Inv, LoadSchema
    PROVE  SchemaKeeps /\ StoreKeeps /\ WatcherMoves
<1>1. watcher.pc = "load" /\ UNCHANGED requestVars
  BY DEF LoadSchema, WatcherAt
<1>2. SchemaKeeps /\ StoreKeeps /\ UNCHANGED task
  BY <1>1, WatcherSameStore
<1>3. CASE schemaFile = Garbage
  <2>1. WatcherGoto("fail") /\ "fail" \in WatcherPC
    BY <1>3 DEF LoadSchema, WatcherGoto, WatcherPC
  <2> QED
    BY <1>1, <1>2, <2>1, WatcherGotoMoves
<1>4. CASE schemaFile # Garbage
  <2> DEFINE overlay == IF schemaFile = Absent THEN NoOverlay ELSE schemaFile
             w == [watcher EXCEPT !.pc = "replace", !.overlay = overlay]
  <2>1. watcher' = w
    BY <1>4 DEF LoadSchema
  <2>2. overlay \in Overlay /\ "replace" \in WatcherPC
    BY <1>4 DEF Inv, TypeOK, SchemaContent, NoOverlay, Overlay, WatcherPC
  <2> HIDE DEF overlay
  <2>3. w \in WatcherState
    BY <2>2, WatcherFacts DEF WatcherState
  <2>4. w.pc = "replace" /\ w.path = watcher.path /\ w.overlay = overlay
    BY WatcherFacts DEF WatcherState
  <2> HIDE DEF w
  <2>5. WatcherMoves
    BY <1>1, <1>2, <2>1, <2>2, <2>3, <2>4, WatcherFacts DEF WatcherMoves, WatcherInv
  <2> QED
    BY <1>2, <2>5
<1> QED
  BY <1>3, <1>4

\* ReplaceOverlay: the overlay replaces the declared schema, or is rejected.
LEMMA ReplaceOverlayKeeps ==
    ASSUME Inv, ReplaceOverlay
    PROVE  SchemaKeeps /\ StoreKeeps /\ WatcherMoves
<1>1. /\ watcher.pc = "replace" /\ watcher.overlay \in Overlay
      /\ UNCHANGED <<disk, schemaFile, resources, cache, ready, task, queue>>
  BY WatcherFacts DEF ReplaceOverlay, WatcherAt, WatcherInv
<1>2. CASE /\ schema' = ReplaceDeclared(schema, watcher.overlay)
           /\ watcher' = [watcher EXCEPT !.pc = "publish", !.overlay = NoValue]
  <2> DEFINE w == [watcher EXCEPT !.pc = "publish", !.overlay = NoValue]
  <2>1. SchemaKeeps
    BY <1>1, <1>2, DeclaredKeeps
  <2>2. "publish" \in WatcherPC
    BY DEF WatcherPC
  <2>3. w \in WatcherState
    BY <2>2, WatcherFacts DEF WatcherState
  <2>4. w.pc = "publish" /\ w.path = watcher.path
    BY WatcherFacts DEF WatcherState
  <2> HIDE DEF w
  <2>5. WatcherMoves
    BY <1>1, <1>2, <2>3, <2>4, WatcherFacts DEF WatcherMoves, WatcherInv, w
  <2> QED
    BY <1>1, <2>1, <2>5, SchemaStep
<1>3. CASE UNCHANGED schema /\ WatcherGoto("fail")
  <2>1. "fail" \in WatcherPC
    BY DEF WatcherPC
  <2> QED
    BY <1>1, <1>3, <2>1, SameSchema, SchemaStep, WatcherGotoMoves
<1> QED
  BY <1>2, <1>3 DEF ReplaceOverlay

\* PublishResources: the names found before are served.
LEMMA PublishResourcesKeeps ==
    ASSUME Inv, PublishResources
    PROVE  SchemaKeeps /\ StoreKeeps /\ WatcherMoves
<1> DEFINE pc == IF SchemaTouched THEN "decide" ELSE "exists"
<1>1. /\ watcher.pc = "publish" /\ resources' = watcher.found /\ WatcherGoto(pc)
      /\ UNCHANGED <<disk, schemaFile, cache, schema, ready, task, queue>>
  BY DEF PublishResources, WatcherAt
<1>2. watcher.found \subseteq Resource
  BY WatcherFacts DEF WatcherState
<1>3. /\ pc \in WatcherPC /\ pc \in {"decide", "exists"}
      /\ pc = "exists" => watcher.path # SchemaFile
  BY DEF WatcherPC, SchemaTouched
<1> HIDE DEF pc
<1>4. SchemaKeeps /\ StoreKeeps
  BY <1>1, <1>2, FlagStep DEF Inv, TypeOK
<1> QED
  BY <1>1, <1>3, <1>4, WatcherGotoMoves

\* ChangedExists: there is something to read, or not.
LEMMA ChangedExistsKeeps ==
    ASSUME Inv, ChangedExists
    PROVE  SchemaKeeps /\ StoreKeeps /\ WatcherMoves
<1>1. /\ watcher.pc = "exists" /\ watcher.path # SchemaFile
      /\ WatcherGoto("decide") \/ WatcherGoto("read")
      /\ UNCHANGED requestVars
  BY WatcherFacts DEF ChangedExists, WatcherAt, WatcherInv
<1>2. "decide" \in WatcherPC /\ "read" \in WatcherPC
  BY DEF WatcherPC
<1> QED
  BY <1>1, <1>2, WatcherSameStore, WatcherGotoMoves

\* ReadChanged: the content of the changed file, if it can be read.
LEMMA ReadChangedKeeps ==
    ASSUME Inv, ReadChanged
    PROVE  SchemaKeeps /\ StoreKeeps /\ WatcherMoves
<1>1. /\ watcher.pc = "read" /\ watcher.path # SchemaFile /\ watcher.path \in Resource
      /\ UNCHANGED requestVars
  BY WatcherFacts DEF ReadChanged, WatcherAt, WatcherInv
<1>2. SchemaKeeps /\ StoreKeeps /\ UNCHANGED task
  BY <1>1, WatcherSameStore
<1>3. CASE disk[watcher.path] \notin Snapshot
  <2>1. WatcherGoto("evict")
    BY <1>3 DEF ReadChanged, WatcherGoto
  <2>2. "evict" \in WatcherPC
    BY DEF WatcherPC
  <2> QED
    BY <1>1, <1>2, <2>1, <2>2, WatcherGotoMoves
<1>4. CASE disk[watcher.path] \in Snapshot
  <2> DEFINE value == disk[watcher.path]
             w == [watcher EXCEPT !.pc = "decide", !.value = value]
  <2>1. watcher' = w
    BY <1>4 DEF ReadChanged
  <2>2. value \in Snapshot /\ "decide" \in WatcherPC
    BY <1>4 DEF WatcherPC
  <2> HIDE DEF value
  <2>3. w \in WatcherState
    BY <2>2, WatcherFacts DEF WatcherState
  <2>4. w.pc = "decide" /\ w.path = watcher.path
    BY WatcherFacts DEF WatcherState
  <2> HIDE DEF w
  <2>5. WatcherMoves
    BY <1>1, <1>2, <2>1, <2>3, <2>4, WatcherFacts DEF WatcherMoves, WatcherInv
  <2> QED
    BY <1>2, <2>5
<1> QED
  BY <1>3, <1>4

\* EvictBroken: no entry is certified.
LEMMA EvictBrokenKeeps ==
    ASSUME Inv, EvictBroken
    PROVE  SchemaKeeps /\ StoreKeeps /\ WatcherMoves
<1>1. /\ watcher.pc = "evict" /\ watcher.path \in Resource /\ WatcherGoto("fail")
      /\ cache' = [cache EXCEPT ![watcher.path] = NoEntry]
      /\ UNCHANGED <<disk, schemaFile, resources, schema, ready, task, queue>>
  BY WatcherFacts DEF EvictBroken, WatcherAt, WatcherInv
<1>2. "fail" \in WatcherPC
  BY DEF WatcherPC
<1>3. SchemaKeeps /\ StoreKeeps
  BY <1>1, CacheDropped, CacheStep
<1> QED
  BY <1>1, <1>2, <1>3, WatcherGotoMoves

\* GiveUp: the server is not ready.
LEMMA GiveUpKeeps ==
    ASSUME Inv, GiveUp
    PROVE  SchemaKeeps /\ StoreKeeps /\ WatcherMoves
<1>1. /\ ready' = FALSE /\ EndOfEvent
      /\ UNCHANGED <<disk, schemaFile, resources, cache, schema, task, queue>>
  BY DEF GiveUp
<1>2. SchemaKeeps /\ StoreKeeps
  BY <1>1, FlagStep DEF Inv, TypeOK
<1> QED
  BY <1>1, <1>2, EndMoves

\* DecideInference: full inference or not.
LEMMA DecideInferenceKeeps ==
    ASSUME Inv, DecideInference
    PROVE  SchemaKeeps /\ StoreKeeps /\ WatcherMoves
<1> DEFINE full == ~ready \/ watcher.previous # watcher.found
           pc == IF full THEN "infer" ELSE "install"
           todo == IF full THEN watcher.found ELSE {}
           w == [watcher EXCEPT !.full = full, !.pc = pc, !.todo = todo]
<1>1. watcher.pc = "decide" /\ watcher' = w /\ UNCHANGED requestVars
  BY DEF DecideInference, WatcherAt
<1>2. /\ full \in BOOLEAN /\ pc \in WatcherPC /\ pc \in {"infer", "install"}
      /\ todo \in SUBSET Resource
  BY WatcherFacts DEF WatcherPC, WatcherState
<1> HIDE DEF full, pc, todo
<1>3. w \in WatcherState
  BY <1>2, WatcherFacts DEF WatcherState
<1>4. w.pc = pc /\ w.path = watcher.path
  BY WatcherFacts DEF WatcherState
<1> HIDE DEF w
<1>5. WatcherMoves
  BY <1>1, <1>2, <1>3, <1>4, WatcherFacts, WatcherSameStore DEF WatcherMoves, WatcherInv
<1> QED
  BY <1>1, <1>5, WatcherSameStore

\* InferFile: one more table, or a file that does not parse.
LEMMA InferFileKeeps ==
    ASSUME Inv, InferFile
    PROVE  SchemaKeeps /\ StoreKeeps /\ WatcherMoves
<1>1. watcher.pc = "infer" /\ UNCHANGED requestVars
  BY DEF InferFile, WatcherAt
<1>2. SchemaKeeps /\ StoreKeeps /\ UNCHANGED task
  BY <1>1, WatcherSameStore
<1>3. CASE WatcherGoto("fail")
  <2>1. "fail" \in WatcherPC
    BY DEF WatcherPC
  <2> QED
    BY <1>1, <1>2, <1>3, <2>1, WatcherGotoMoves
<1>4. CASE ~WatcherGoto("fail")
  <2>1. PICK r \in watcher.todo :
            /\ disk[r] \in Snapshot
            /\ watcher' = [watcher EXCEPT !.todo = @ \ {r},
                               !.tables[r] = InferTable(disk[r]),
                               !.pc = IF watcher.todo = {r} THEN "install" ELSE @]
    BY <1>4 DEF InferFile, WatcherGoto
  <2> DEFINE todo == watcher.todo \ {r}
             tables == [watcher.tables EXCEPT ![r] = InferTable(disk[r])]
             pc == IF watcher.todo = {r} THEN "install" ELSE watcher.pc
             w == [watcher EXCEPT !.todo = todo, !.tables = tables, !.pc = pc]
  <2>2. watcher.todo \in SUBSET Resource /\ watcher.tables \in Tables
    BY WatcherFacts DEF WatcherState
  <2>3. InferTable(disk[r]) \in {NoTable} \cup SUBSET Column
    BY <2>1, InferTableType
  <2>4. todo \in SUBSET Resource /\ tables \in Tables
    BY <2>2, <2>3 DEF Tables
  <2>5. pc \in {"install", "infer"} /\ pc \in WatcherPC
    BY <1>1 DEF WatcherPC
  <2>6. watcher' = w
    BY <2>1
  <2> HIDE DEF todo, tables, pc
  <2>7. w \in WatcherState
    BY <2>4, <2>5, WatcherFacts DEF WatcherState
  <2>8. w.pc = pc /\ w.path = watcher.path
    BY WatcherFacts DEF WatcherState
  <2> HIDE DEF w
  <2>9. WatcherMoves
    BY <1>1, <1>2, <2>5, <2>6, <2>7, <2>8, WatcherFacts DEF WatcherMoves, WatcherInv
  <2> QED
    BY <1>2, <2>9
<1> QED
  BY <1>3, <1>4

\* InferNothing: there is no file.
LEMMA InferNothingKeeps ==
    ASSUME Inv, InferNothing
    PROVE  SchemaKeeps /\ StoreKeeps /\ WatcherMoves
<1>1. watcher.pc = "infer" /\ WatcherGoto("install") /\ UNCHANGED requestVars
  BY DEF InferNothing, WatcherAt
<1>2. "install" \in WatcherPC
  BY DEF WatcherPC
<1> QED
  BY <1>1, <1>2, WatcherSameStore, WatcherGotoMoves

\* InstallTables: all tables are new, or one is.
LEMMA InstallTablesKeeps ==
    ASSUME Inv, InstallTables
    PROVE  SchemaKeeps /\ StoreKeeps /\ WatcherMoves
<1> DEFINE pc == IF Mergeable(schema.declared, WatchedTables) THEN "cache" ELSE "fail"
<1>1. /\ watcher.pc = "install" /\ ~NothingToInstall /\ WatcherGoto(pc)
      /\ schema' = ReplaceInferred(schema, WatchedTables)
      /\ UNCHANGED <<disk, schemaFile, resources, cache, ready, task, queue>>
  BY DEF InstallTables, WatcherAt
<1>2. WatchedTables \in Tables
  <2>1. CASE watcher.full
    BY <2>1, WatcherFacts DEF WatchedTables, WatcherState
  <2>2. CASE ~watcher.full
    <3>1. watcher.value \in Snapshot
      BY <1>1, <2>2, WatcherFacts DEF NothingToInstall, WatcherState
    <3>2. InferTable(watcher.value) \in {NoTable} \cup SUBSET Column
      BY <3>1, InferTableType
    <3>3. schema.inferred \in Tables
      BY DEF Inv, TypeOK, Store
    <3> QED
      BY <2>2, <3>2, <3>3 DEF WatchedTables, Tables
  <2> QED
    BY <2>1, <2>2
<1>3. SchemaKeeps
  BY <1>1, <1>2, InferredKeeps
<1>4. pc \in WatcherPC /\ pc \notin {"replace", "exists", "read", "evict"}
  BY DEF WatcherPC
<1> HIDE DEF pc
<1> QED
  BY <1>1, <1>3, <1>4, SchemaStep, WatcherGotoMoves

\* SkipInstall: there is no table to install.
LEMMA SkipInstallKeeps ==
    ASSUME Inv, SkipInstall
    PROVE  SchemaKeeps /\ StoreKeeps /\ WatcherMoves
<1>1. watcher.pc = "install" /\ WatcherGoto("cache") /\ UNCHANGED requestVars
  BY DEF SkipInstall, WatcherAt
<1>2. "cache" \in WatcherPC
  BY DEF WatcherPC
<1> QED
  BY <1>1, <1>2, WatcherSameStore, WatcherGotoMoves

\* RefreshCache: the value read, not to be trusted yet, or nothing.
LEMMA RefreshCacheKeeps ==
    ASSUME Inv, RefreshCache
    PROVE  SchemaKeeps /\ StoreKeeps /\ WatcherMoves
<1>1. /\ watcher.pc = "cache" /\ FreshArc \in Arc
      /\ UNCHANGED <<disk, schemaFile, resources, schema, ready, task, queue>>
  BY FreshArcType DEF RefreshCache, WatcherAt
<1>2. cache' \in [Resource -> {NoEntry} \cup Entry] /\ CacheInv(cache', schema')
  <2>1. CASE SchemaTouched
    BY <1>1, <2>1, SameSchema, SameCache DEF RefreshCache
  <2>2. CASE ~SchemaTouched
    <3>1. watcher.path \in Resource /\ watcher.value \in {NoValue} \cup Snapshot
      BY <1>1, <2>2, WatcherFacts DEF WatcherInv, SchemaTouched, WatcherState
    <3>2. CASE watcher.value = NoValue
      BY <1>1, <2>2, <3>1, <3>2, CacheDropped DEF RefreshCache
    <3>3. CASE watcher.value # NoValue
      <4>1. cache' = [cache EXCEPT ![watcher.path] =
                         [arc |-> FreshArc, value |-> watcher.value, rev |-> Unvalidated]]
        BY <2>2, <3>3 DEF RefreshCache
      <4> QED
        BY <1>1, <3>1, <3>3, <4>1, CacheEntry, UnvalidatedCertified
    <3> QED
      BY <3>2, <3>3
  <2> QED
    BY <2>1, <2>2
<1>3. WatcherMoves
  <2>1. "mark_ready" \in WatcherPC
    BY DEF WatcherPC
  <2> QED
    BY <1>1, <2>1, EndMoves, WatcherGotoMoves DEF RefreshCache
<1> QED
  BY <1>1, <1>2, <1>3, CacheStep

\* WatcherMarksReady: the server is ready.
LEMMA WatcherMarksReadyKeeps ==
    ASSUME Inv, WatcherMarksReady
    PROVE  SchemaKeeps /\ StoreKeeps /\ WatcherMoves
<1>1. /\ ready' = TRUE /\ EndOfEvent
      /\ UNCHANGED <<disk, schemaFile, resources, cache, schema, task, queue>>
  BY DEF WatcherMarksReady
<1>2. SchemaKeeps /\ StoreKeeps
  BY <1>1, FlagStep DEF Inv, TypeOK
<1> QED
  BY <1>1, <1>2, EndMoves

-----------------------------------------------------------------------------
(***************************************************************************)
(* The steps of the specification, and the theorems.                       *)
(***************************************************************************)

\* The tables of the files are tables.
LEMMA InitialTablesType == InitialTables \in Tables
<1> SUFFICES ASSUME NEW r \in Resource, InitialReady, r \in InitialResources
             PROVE  InferTable(InitialDisk[r]) \in {NoTable} \cup SUBSET Column
  BY DEF InitialTables, Tables
<1> QED
  BY InferTableType DEF InitialReady

\* So is a missing overlay.
LEMMA InitialOverlayType == InitialOverlay \in Overlay
  BY InitialAssumption DEF InitialOverlay, NoOverlay, Overlay

\* The server starts with an empty cache and without handlers.
LEMMA InitInv ==
    ASSUME Init
    PROVE  Inv
<1>1. schema \in Store /\ RevisionsHandedOut(schema)
  BY InitialTablesType, InitialOverlayType, NewStoreType DEF Init
<1>2. queue \in Seq({SchemaFile} \cup Resource)
  BY EmptySeq DEF Init
<1>3. task \in [Task -> TaskState]
  BY IdleTaskType DEF Init
<1>4. watcher \in WatcherState
  BY WaitingWatcherType DEF Init
<1>5. cache \in [Resource -> {NoEntry} \cup Entry] /\ CacheInv(cache, schema)
  BY DEF Init, CacheInv
<1>6. /\ disk \in [Resource -> FileContent] /\ schemaFile \in SchemaContent
      /\ resources \subseteq Resource
  BY InitialAssumption DEF Init, SchemaContent, InitialResources
<1>7. ready \in BOOLEAN /\ edits \subseteq Edits
  BY DEF Init, InitialReady
<1>8. TypeOK
  BY <1>1, <1>2, <1>3, <1>4, <1>5, <1>6, <1>7 DEF TypeOK
<1>9. \A t \in Task : TaskInv(task[t], schema)
  <2> SUFFICES ASSUME NEW t \in Task
               PROVE  TaskInv(task[t], schema)
    OBVIOUS
  <2>1. task[t].pc = "idle" /\ task[t].value = NoValue
    BY DEF Init, IdleTask
  <2> QED
    BY <2>1
    DEF TaskInv, Allowed, HasSnapshot, NeedsSnapshot, CarriesCertified, CertifiedPC,
        LoadPC, UpdatePC, SetPC, PutPC, RefreshPC
<1>10. WatcherInv
  BY DEF Init, WatcherInv, WaitingWatcher
<1> QED
  BY <1>1, <1>5, <1>8, <1>9, <1>10 DEF Inv

\* Every step of a request keeps the invariant.
LEMMA RequestStepKeepsInv ==
    ASSUME Inv, NEW t \in Task, RequestStep(t)
    PROVE  Inv'
<1> SUFFICES SchemaKeeps /\ StoreKeeps /\ TaskMoves(t)
  BY StepKeepsInv DEF RequestStep
<1>1. CASE Submit(t)
  BY <1>1, SubmitMoves, SameStore DEF Submit
<1>2. CASE Acquire(t)
  BY <1>2, AcquireMoves, SameStore DEF Acquire
<1>3. CASE Load(t)
  <2>1. CASE ReadRevision(t)
    BY <2>1, ReadRevisionMoves, SameStore DEF ReadRevision
  <2>2. CASE LookupHit(t)
    BY <2>2, LookupHitMoves, SameStore DEF LookupHit
  <2>3. CASE LookupStale(t)
    BY <2>3, LookupStaleMoves, SameStore DEF LookupStale
  <2>4. CASE LookupMiss(t)
    BY <2>4, LookupMissMoves, SameStore DEF LookupMiss
  <2>5. CASE CheckRegistered(t)
    BY <2>5, CheckRegisteredMoves, SameStore DEF CheckRegistered
  <2>6. CASE OpenFile(t)
    BY <2>6, OpenFileMoves, SameStore DEF OpenFile
  <2>7. CASE OpenFails(t)
    BY <2>7, FailMoves, SameStore DEF OpenFails, At
  <2>8. CASE Admit(t)
    BY <2>8, AdmitMoves, SameStore DEF Admit
  <2> QED
    BY <1>3, <2>1, <2>2, <2>3, <2>4, <2>5, <2>6, <2>7, <2>8, MarkKeeps, InsertIfAbsentKeeps
    DEF Load
<1>4. CASE Update(t)
  <2>1. CASE Apply(t)
    BY <2>1, ApplyMoves, SameStore DEF Apply
  <2>2. CASE ReadReadiness(t)
    BY <2>2, ReadReadinessMoves, SameStore DEF ReadReadiness
  <2>3. CASE PersistFails(t)
    BY <2>3, PersistFailsMoves, SameStore DEF PersistFails
  <2> QED
    BY <1>4, <2>1, <2>2, <2>3, PersistKeeps, SyncFailsKeeps, InstallInCacheKeeps,
       InferLocallyKeeps, CertifyKeeps
    DEF Update
<1>5. CASE Refresh(t)
  <2>1. CASE SnapshotResources(t)
    BY <2>1, SnapshotResourcesMoves, SameStore DEF SnapshotResources
  <2>2. CASE ScanFile(t)
    BY <2>2, ScanFileMoves, SameStore DEF ScanFile
  <2> QED
    BY <1>5, <2>1, <2>2, InstallRefreshedKeeps, MarkReadyKeeps, AnnounceKeeps DEF Refresh
<1>6. CASE ManageSet(t)
  <2>1. CASE ValidateInitial(t)
    BY <2>1, ValidateInitialMoves, SameStore DEF ValidateInitial
  <2>2. CASE FillFails(t)
    BY <2>2, FillFailsMoves, SameStore DEF FillFails
  <2> QED
    BY <1>6, <2>1, <2>2, CreateFileKeeps, FillFileKeeps, RegisterKeeps, CacheNewKeeps,
       RemoveFileKeeps, UnregisterKeeps, UncacheKeeps
    DEF ManageSet
<1>7. CASE PutSchema(t)
  <2>1. CASE CheckMerge(t)
    BY <2>1, CheckMergeMoves, SameStore DEF CheckMerge
  <2>2. CASE WriteSchemaFails(t)
    BY <2>2, WriteSchemaFailsMoves, SameStore DEF WriteSchemaFails
  <2> QED
    BY <1>7, <2>1, <2>2, WriteSchemaFileKeeps, AdoptDeclaredKeeps DEF PutSchema
<1> QED
  BY <1>1, <1>2, <1>3, <1>4, <1>5, <1>6, <1>7 DEF RequestStep, Handle

\* Every step of the watcher keeps the invariant.
LEMMA WatcherStepKeepsInv ==
    ASSUME Inv, WatcherStep
    PROVE  Inv'
<1>1. SchemaKeeps /\ StoreKeeps /\ WatcherMoves
  BY TakeEventKeeps, ListFailsKeeps, ReadPreviousKeeps, LoadSchemaKeeps, ReplaceOverlayKeeps,
     PublishResourcesKeeps, ChangedExistsKeeps, ReadChangedKeeps, EvictBrokenKeeps, GiveUpKeeps,
     DecideInferenceKeeps, InferFileKeeps, InferNothingKeeps, InstallTablesKeeps,
     SkipInstallKeeps, RefreshCacheKeeps, WatcherMarksReadyKeeps
  DEF WatcherStep, Watch
<1>2. edits' \subseteq Edits
  BY DEF WatcherStep, Inv, TypeOK
<1> QED
  BY <1>1, <1>2, OtherStepKeepsInv DEF WatcherMoves

\* An edit changes files, and nothing the server trusts.
LEMMA ExternalEditKeepsInv ==
    ASSUME Inv, ExternalEdit
    PROVE  Inv'
<1>1. PICK e \in edits :
          /\ edits' = edits \ {e}
          /\ Notify(e.path)
          /\ IF e.path = SchemaFile
             THEN schemaFile' = e.content /\ UNCHANGED disk
             ELSE disk' = [disk EXCEPT ![e.path] = e.content] /\ UNCHANGED schemaFile
  BY DEF ExternalEdit
<1>2. UNCHANGED <<resources, cache, schema, ready, task, watcher>>
  BY DEF ExternalEdit
<1>3. /\ edits' \subseteq Edits /\ e \in Edit
      /\ e.path \in {SchemaFile} \cup Resource
  BY <1>1, InitialAssumption DEF Inv, TypeOK, Edit
<1>4. queue' \in Seq({SchemaFile} \cup Resource)
  BY <1>1, <1>3, NotifyType
<1>5. /\ disk' \in [Resource -> FileContent]
      /\ schemaFile' \in SchemaContent
  BY <1>1, <1>3, SchemaFileAssumption DEF Inv, TypeOK, Edit
<1>6. SchemaKeeps
  BY <1>2, SameSchema
<1>7. StoreKeeps
  BY <1>2, <1>4, <1>5, <1>6, SameCache DEF StoreKeeps, Inv, TypeOK
<1>8. watcher' \in WatcherState /\ WatcherInv'
  BY <1>2 DEF Inv, TypeOK, WatcherInv
<1> QED
  BY <1>2, <1>3, <1>6, <1>7, <1>8, OtherStepKeepsInv

\* Nothing changes while the server rests.
LEMMA StutterKeepsInv ==
    ASSUME Inv, UNCHANGED vars
    PROVE  Inv'
  BY DEF vars, Inv, TypeOK, WatcherInv

\* The invariant is inductive.
THEOREM Invariance == Spec => []Inv
<1>1. Init => Inv
  BY InitInv
<1>2. Inv /\ [Next]_vars => Inv'
  BY RequestStepKeepsInv, WatcherStepKeepsInv, ExternalEditKeepsInv, StutterKeepsInv
  DEF Next, Rest
<1> QED
  BY <1>1, <1>2, PTL DEF Spec

\* Type correctness, whatever the folder, the workload and the edits.
THEOREM TypeCorrect == Spec => []TypeOK
<1>1. Inv => TypeOK
  BY DEF Inv
<1> QED
  BY <1>1, Invariance, PTL

\* The cache never vouches for a snapshot that the declared schema rejects:
\* load_resource may answer from it without validating.
THEOREM CacheAdmitted == Spec => []CacheAdmission
<1>1. Inv => CacheAdmission
  <2> SUFFICES ASSUME Inv, NEW r \in Resource, cache[r] # NoEntry,
                      cache[r].rev = schema.revisions[r]
               PROVE  Admits(schema.declared[r], cache[r].value)
    BY DEF CacheAdmission
  <2>1. schema.revisions[r] \in Nat
    BY DEF Inv, TypeOK, Store
  <2> QED
    BY <2>1 DEF Inv, CacheInv, Certified
<1> QED
  BY <1>1, Invariance, PTL

\* Nor does a response: rows answered under the revision in force are admitted.
THEOREM ReadAdmitted == Spec => []ReadAdmission
<1>1. Inv => ReadAdmission
  <2> SUFFICES ASSUME Inv, NEW t \in Task, task[t].pc = "done",
                      task[t].value # NoValue, task[t].rev = schema.revisions[Res(t)]
               PROVE  Admits(schema.declared[Res(t)], task[t].value)
    BY DEF ReadAdmission, At
  <2>1. schema.revisions[Res(t)] \in Nat /\ CarriesCertified(task[t], schema)
    BY TaskFacts DEF TaskInv
  <2> QED
    BY <2>1 DEF CarriesCertified, CertifiedPC, Certified, Res
<1> QED
  BY <1>1, Invariance, PTL

\* So nothing that the declared schema in force rejects is trusted or served,
\* whatever the watcher, other requests and editors do meanwhile.
THEOREM Admitted == Spec => []Admission
  BY CacheAdmitted, ReadAdmitted, PTL DEF Admission
=============================================================================
